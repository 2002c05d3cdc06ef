------------------------------- MODULE MCExposes -------------------------------
(***************************************************************************)
(* The processing of exposes checked against a reference definition: every *)
(* schema below is given every object over Names and Items. MCConfigSync,  *)
(* where the syncs process configurations by Exposes, checks it.           *)
(***************************************************************************)
EXTENDS Exposes

BinaryType == [type |-> "binary", on |-> Str("ON"), off |-> Str("OFF")]
NumericType ==
  [type |-> "numeric", min |-> 1, max |-> 7, step |-> 3,
   presets |-> <<[name |-> "low", value |-> 4], [name |-> "previous", value |-> 99],
                 [name |-> "low", value |-> 7]>>]
EnumType == [type |-> "enum", values |-> {Str("low"), Int64(4)}]
TextType == [type |-> "text"]
ListOf(item) == [type |-> "list", min |-> 1, max |-> None, item |-> item]
At(property, type) == type @@ [property |-> property]
CompositeType == [type |-> "composite", features |-> <<At("x", NumericType), At("y", TextType)>>]
Specific(features) == [type |-> "specific", features |-> features]

Schemas ==
  {<<At("a", BinaryType), At("b", NumericType), At("c", CompositeType)>>,
   <<At("c", ListOf(NumericType)), Specific(<<At("a", NumericType), At("b", EnumType)>>)>>,
   <<Specific(<<At("a", CompositeType), Specific(<<At("b", [type |-> "bag"])>>)>>)>>,
   <<At("b", TextType), At("c", ListOf(CompositeType)), At("d", NumericType)>>}

Names == {"a", "b", "c"}
Object1(key, item) == Object([k \in {key} |-> item])
Items ==
  {Null, Str("ON"), Str("low"), Str("previous"), Int64(4), Float64(7), Int64(2), Int64(10),
   Array(<<>>), Array(<<Str("low"), Int64(1)>>), Array(<<Null>>),
   Object([k \in {} |-> Null]), Object1("x", Str("low")), Object1("x", Int64(3)),
   Object1("z", Null), Object1("z", Str("low")), Array(<<Object1("x", Str("previous"))>>)}
Inputs == {Object(f) : f \in UNION {[ns -> Items] : ns \in SUBSET Names}}

--------------------------------------------------------------------------------
(* The reference: which values conform to a type, and what they stand for, *)
(* with the properties of specific types taken as those of their parent.   *)

RECURSIVE Properties(_)
Properties(features) ==
  UNION {IF f.type = "specific" THEN Properties(f.features) ELSE {f} : f \in Range(features)}

FirstPreset(type, name) ==
  type.presets[Min({i \in DOMAIN type.presets : type.presets[i].name = name})].value
IsPreset(type, value) ==
  value.t = "string" /\ \E i \in DOMAIN type.presets : type.presets[i].name = value.s

RECURSIVE Conforms(_, _), Meaning(_, _)
ConformsToAll(features, value) ==
  /\ IsObject(value)
  /\ \A key \in Keys(value) :
       \/ value.fields[key] = Null
       \/ \E f \in Properties(features) :
            f.property = key /\ Conforms(f, value.fields[key])
Conforms(type, value) ==
  CASE type.type = "binary" -> value = type.on \/ value = type.off
    [] type.type = "numeric" ->
         \/ IsPreset(type, value)
         \/ value.t = "number" /\ \E k \in 0..2 : value.n = 1 + 3 * k
    [] type.type = "enum" -> \E v \in type.values : v = value
    [] type.type = "text" -> value.t = "string"
    [] type.type = "bag" -> IsObject(value)
    [] type.type = "list" ->
         /\ value.t = "array" /\ Len(value.items) >= 1
         /\ \A i \in DOMAIN value.items : Conforms(type.item, value.items[i])
    [] type.type = "composite" -> ConformsToAll(type.features, value)

MeaningOfAll(features, value) ==
  Object([key \in Keys(value) |->
    IF value.fields[key] = Null THEN Null
    ELSE LET f == CHOOSE p \in Properties(features) : p.property = key
         IN  Meaning(f, value.fields[key])])
Meaning(type, value) ==
  CASE type.type = "numeric" /\ IsPreset(type, value) -> Float64(FirstPreset(type, value.s))
    [] type.type = "list" -> Array([i \in DOMAIN value.items |-> Meaning(type.item, value.items[i])])
    [] type.type = "composite" -> MeaningOfAll(type.features, value)
    [] OTHER -> value

--------------------------------------------------------------------------------
(* A configuration is accepted exactly when each of its properties is null *)
(* or is declared somewhere in the schema, at whatever depth of specific   *)
(* types, and conforms to the type it has there, at every level; and what  *)
(* is returned is the same object, all its nulls included, in which only   *)
(* the names of presets are replaced, each by the value of the first       *)
(* preset of that name whether or not that value is in the range.          *)
ProcessMatchesReference ==
  \A schema \in Schemas, input \in Inputs :
    Composite(schema, input) =
      IF ConformsToAll(schema, input) THEN MeaningOfAll(schema, input) ELSE Error
================================================================================
