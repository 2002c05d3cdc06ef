--------------------------------- MODULE Values --------------------------------
(***************************************************************************)
(* The values that configurations are made of, as serde_json keeps them. A *)
(* value is a record tagged with its type. A number is either an integer or *)
(* a float: the integer 20 and the float 20.0 are different values.        *)
(* Fractions are left out.                                                 *)
(***************************************************************************)

Error == [t |-> "error"]
Null == [t |-> "null"]
Str(s) == [t |-> "string", s |-> s]
Int64(n) == [t |-> "number", n |-> n, float |-> FALSE]
Float64(n) == [t |-> "number", n |-> n, float |-> TRUE]
Array(items) == [t |-> "array", items |-> items]
Object(fields) == [t |-> "object", fields |-> fields]

IsObject(value) == value.t = "object"
IsNested(value) == value.t \in {"object", "array"}
Keys(value) == DOMAIN value.fields
Item(object, key) == IF key \in Keys(object) THEN object.fields[key] ELSE Null
================================================================================
