------------------------------- MODULE MCManager -------------------------------
(* Small instances of Manager for TLC. *)
EXTENDS Manager

CONSTANTS info, groups, caller, health, publisher, main, controller,
          valid, edited, broken, moved

(* The health check and the callers have a topic each where an instance has *)
(* two, and share the one where it has not.                                 *)
MCTopicOf == [s \in Subscribers |-> IF s = health /\ info \in Topics THEN info ELSE groups]

(* Every option set keeps the identity but the one that moves the broker. *)
MCIdentityOf == [o \in Options |-> IF o = moved THEN "other" ELSE "same"]
================================================================================
