----------------------------- MODULE Configurations ----------------------------
(***************************************************************************)
(* What becomes of configurations, whatever their nesting: what a new one  *)
(* lacks of an old one (find_clearable_paths in mqtt/handlers/lib.rs), what*)
(* its schema makes of it, and what Zigbee2MQTT and the operator's         *)
(* extension to it make of the one they store. ConfigSync synchronises     *)
(* them.                                                                   *)
(***************************************************************************)
EXTENDS Exposes

CONSTANT Schema   \* the features that configurations are processed with

Processed(config) == Composite(Schema, config)

(* The paths in old that new lacks, as short as they can be. Where one of *)
(* the two is not an object there is nothing to look into.                *)
RECURSIVE MissingPaths(_, _, _)
MissingPaths(new, old, parent) ==
  {parent \o <<k>> : k \in Keys(old) \ Keys(new)}
  \cup UNION {MissingPaths(new.fields[k], old.fields[k], parent \o <<k>>) :
                k \in {x \in Keys(old) \cap Keys(new) :
                         IsObject(new.fields[x]) /\ IsObject(old.fields[x])}}

AllMissing(new, old) == MissingPaths(new, old, <<>>)

(* JSON as Zigbee2MQTT writes it: a float without a fraction is an integer. *)
RECURSIVE Canonical(_)
Canonical(value) ==
  CASE value.t = "number" -> Int64(value.n)
    [] value.t = "array" -> Array([i \in DOMAIN value.items |-> Canonical(value.items[i])])
    [] IsObject(value) -> Object([k \in Keys(value) |-> Canonical(value.fields[k])])
    [] OTHER -> value

(* Setting merges objects, removes what is set to null and replaces the rest. *)
RECURSIVE Merge(_, _)
Merge(old, new) ==
  IF ~IsObject(new) THEN Canonical(new)
  ELSE LET base == IF IsObject(old) THEN old ELSE Object([k \in {} |-> Null])
           kept == {k \in Keys(base) \cup Keys(new) : k \in Keys(new) => new.fields[k] # Null}
       IN  Object([k \in kept |->
             IF k \in Keys(new) THEN Merge(Item(base, k), new.fields[k]) ELSE base.fields[k]])

(* The extension copies what is left when the paths are taken out, and what *)
(* it copies of an array is an object with the indices as its keys.         *)
Fields(value) ==
  IF IsObject(value) THEN value.fields
  ELSE [k \in {ToString(i - 1) : i \in DOMAIN value.items} |->
          value.items[CHOOSE i \in DOMAIN value.items : ToString(i - 1) = k]]
RECURSIVE CopyWithout(_, _, _)
CopyWithout(value, exclude, parent) ==
  IF value.t \notin {"object", "array"} THEN value
  ELSE LET fields == Fields(value)
       IN  Object([k \in {x \in DOMAIN fields : Append(parent, x) \notin exclude} |->
             CopyWithout(fields[k], exclude, Append(parent, k))])

Copy(value, exclude) == CopyWithout(value, exclude, <<>>)
================================================================================
