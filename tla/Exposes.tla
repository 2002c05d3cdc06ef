-------------------------------- MODULE Exposes --------------------------------
(***************************************************************************)
(* Checking and transforming values against the schemas of Zigbee2MQTT     *)
(* (mqtt/exposes.rs): what a device exposes, and its options.              *)
(* The wording of the errors is left out.                                  *)
(***************************************************************************)
EXTENDS Integers, SequencesExt, Values

CONSTANT None   \* a bound that is absent

--------------------------------------------------------------------------------
(* The types of a property. *)

Within(n, min, max) == (min # None => n >= min) /\ (max # None => n <= max)

(* The toggle value is refused like any other value: it would toggle on *)
(* every reconcile.                                                     *)
Binary(schema, value) == IF value \in {schema.on, schema.off} THEN value ELSE Error

(* The steps count from the minimum. The value of a preset is a float, and *)
(* neither the range nor the steps apply to it.                            *)
OnStep(schema, n) ==
  schema.step # None => (n - (IF schema.min = None THEN 0 ELSE schema.min)) % schema.step = 0
NamedBy(schema, value) ==
  IF value.t = "string" THEN SelectSeq(schema.presets, LAMBDA p : p.name = value.s) ELSE <<>>
Numeric(schema, value) ==
  LET named == NamedBy(schema, value) IN
  CASE named # <<>> -> Float64(Head(named).value)
    [] named = <<>> /\ value.t = "number" /\ Within(value.n, schema.min, schema.max)
                    /\ OnStep(schema, value.n) -> value
    [] OTHER -> Error

Enum(schema, value) == IF value \in schema.values THEN value ELSE Error
Text(value) == IF value.t = "string" THEN value ELSE Error
Bag(value) == IF IsObject(value) THEN value ELSE Error

(* A feature is a property with its type, or a specific type (a light, a   *)
(* lock) whose features are on the same level as those of its parent.      *)
RECURSIVE KnowsProperty(_, _)
KnowsProperty(features, name) ==
  \E f \in Range(features) :
    IF f.type = "specific" THEN KnowsProperty(f.features, name) ELSE f.property = name

RECURSIVE Process(_, _), ProcessFeatures(_, _)

List(schema, value) ==
  IF value.t # "array" \/ ~Within(Len(value.items), schema.min, schema.max)
  THEN Error
  ELSE LET items == [i \in DOMAIN value.items |-> Process(schema.item, value.items[i])]
       IN  IF Error \in Range(items) THEN Error ELSE Array(items)

Composite(features, value) ==
  IF ~IsObject(value)
     \/ \E name \in Keys(value) : ~KnowsProperty(features, name) /\ value.fields[name] # Null
  THEN Error
  ELSE ProcessFeatures(features, value)

Process(schema, value) ==
  CASE schema.type = "binary" -> Binary(schema, value)
    [] schema.type = "numeric" -> Numeric(schema, value)
    [] schema.type = "enum" -> Enum(schema, value)
    [] schema.type = "text" -> Text(value)
    [] schema.type = "bag" -> Bag(value)
    [] schema.type = "list" -> List(schema, value)
    [] schema.type = "composite" -> Composite(schema.features, value)

(* As a bug: a null is processed like any other value. *)
ProcessPropertyChecksNull(feature, value) ==
  IF feature.property \notin Keys(value)
  THEN value
  ELSE LET item == Process(feature, value.fields[feature.property])
       IN  IF item = Error THEN Error ELSE [value EXCEPT !.fields[feature.property] = item]

(* A feature that is attached to a property replaces the item there. Null *)
(* unsets the property, whatever its type.                                *)
ProcessProperty(feature, value) ==
  IF feature.property \notin Keys(value) \/ value.fields[feature.property] = Null
  THEN value
  ELSE LET item == Process(feature, value.fields[feature.property])
       IN  IF item = Error THEN Error ELSE [value EXCEPT !.fields[feature.property] = item]

(* Each feature processes the value that the one before it returned. *)
ProcessFeature(value, feature) ==
  CASE value = Error -> Error
    [] value # Error /\ feature.type = "specific" -> ProcessFeatures(feature.features, value)
    [] value # Error /\ feature.type # "specific" -> ProcessProperty(feature, value)
ProcessFeatures(features, value) == FoldLeft(ProcessFeature, value, features)
================================================================================
