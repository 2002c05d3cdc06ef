--------------------------- MODULE MCInstanceTracker ---------------------------
(* Small instances of InstanceTracker for TLC. *)
EXTENDS InstanceTracker

CONSTANTS home, garage, m1, m2, device, group

(* Every resource belongs to the first instance. *)
MCInstanceOf == [r \in Resources |-> home]
================================================================================
