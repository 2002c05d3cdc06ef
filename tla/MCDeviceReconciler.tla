--------------------------- MODULE MCDeviceReconciler --------------------------
(* Small instances of DeviceReconciler for TLC. *)
EXTENDS DeviceReconciler

CONSTANTS bulb, plug, a, b

Resource(name, options, capabilities) ==
  [name |-> name, options |-> options, capabilities |-> capabilities]

(* The devices have each other's names, which both may want. The bulb may do  *)
(* with its address.                                                         *)
MCSpecs ==
  [d \in Devices |->
     IF d = bulb THEN {Resource(a, FALSE, TRUE), Resource(None, TRUE, FALSE)}
                 ELSE {Resource(b, FALSE, TRUE), Resource(a, FALSE, TRUE)}]
MCFirstList ==
  [d \in Devices |-> [name |-> IF d = bulb THEN b ELSE a, fit |-> "fit"]]
================================================================================
