------------------------------- MODULE MCConnect -------------------------------
(* A small instance of Connect for TLC. *)
EXTENDS Connect

CONSTANTS groups, caller, health, main, controller, valid, edited, broken, moved

MCTopicOf == [s \in Subscribers |-> groups]

(* Every option set keeps the identity but the one that moves the broker. *)
MCIdentityOf == [o \in Options |-> IF o = moved THEN "other" ELSE "same"]
================================================================================
