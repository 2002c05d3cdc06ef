--------------------------- MODULE MCGroupReconciler ---------------------------
(* Small instances of GroupReconciler for TLC. *)
EXTENDS GroupReconciler

CONSTANTS lights, lamps, one, two, a, b, bulb, plug, ghost

Resource(id, name, members) == [id |-> id, name |-> name, members |-> members]

(* One resource: with and without an id, with two members and with one of   *)
(* them, with a device that does not exist, and with the members left alone. *)
MCOne ==
  [g \in Groups |->
     {Resource(None, a, None), Resource(two, a, {bulb, plug}),
      Resource(two, b, {plug}), Resource(two, a, {bulb, ghost})}]

(* Two resources that never want the same name. *)
MCSingle == [g \in Groups |-> {Resource(None, IF g = lights THEN a ELSE b, {})}]
================================================================================
