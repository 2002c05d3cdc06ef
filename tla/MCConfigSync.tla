------------------------------ MODULE MCConfigSync -----------------------------
(* Small instances of ConfigSync for TLC. *)
EXTENDS ConfigSync, Configurations

At(property, type) == type @@ [property |-> property]
NumericType ==
  [type |-> "numeric", min |-> 0, max |-> 9, step |-> None,
   presets |-> <<[name |-> "warm", value |-> 5]>>]
ListType == [type |-> "list", min |-> None, max |-> None, item |-> [type |-> "text"]]

MCSchema ==
  <<At("level", NumericType), At("homeassistant", [type |-> "bag"]), At("filtered", ListType)>>

Field(key, item) == [k \in {key} |-> item]
Config(fields) == Object(fields)

Name == Field("friendly_name", Str("lamp"))
Members == Field("devices", Array(<<Str("a")>>))
Level(n) == Field("level", Int64(n))
Home(fields) == Field("homeassistant", Object(fields))
Filtered == Field("filtered", Array(<<Str("a")>>))

(* The options of a device are a level, or a key of the bag that Zigbee2MQTT *)
(* sets another key of, or what the schema refuses. Those of a group lack what *)
(* is there already, or not.                                                   *)
MCSpecs ==
  [device |->
     {Config(Level(1)), Config(Home(Field("a", Int64(1)))),
      Config(Level(2) @@ Field("homeassistant", Str("off")))},
   group |-> {Config(Level(1) @@ Home(Field("b", Int64(1)))), Config(Home(Field("b", Int64(1))))},
   capability |-> {Config(Level(1)), Config(Level(2))}]

(* What the device or group has by itself is its name and a key of the bag, *)
(* or the level it is at.                                                   *)
MCStored ==
  [device |-> {Config(Name @@ Home(Field("b", Int64(2))))},
   group |-> {Config(Name @@ Members @@ Home(Field("b", Int64(2))))},
   capability |-> {Config(Level(1)), Config(Level(3))}]

MCEnvironments ==
  [device |-> {{"edit", "stale", "timeout"}, {"edit", "refuse", "lose", "unread"},
               {"stale", "timeout", "refuse", "lose"}},
   group |-> {{"edit", "refuse", "lose", "unread"}, {"stale", "timeout", "refuse", "lose"}},
   capability |-> {{"edit", "others", "timeout", "refuse", "lose", "old", "report", "slow",
                   "unread"}}]
MCQuiet == [k \in Kinds |-> {{}}]

(* Each configuration is processed once. *)
Results == [config \in UNION {Specs[k] : k \in Kinds} |-> Processed(config)]
Result(config) == Results[config]

(* Whatever comes of the stored ones by requests in any order. *)
RECURSIVE Reached(_, _)
Reached(kinds, configs) ==
  LET after ==
        [k \in kinds |-> configs[k]
           \cup {Merge(c, Result(s)) : c \in configs[k], s \in {x \in Specs[k] : Result(x) # Error}}
           \cup {Copy(x[1], ClearablePaths(k, x[2], x[3])) :
                    x \in configs[k] \X Specs[k] \X configs[k]}]
  IN  IF after = configs THEN configs ELSE Reached(kinds, after)
AllReached == Reached(Kinds, Stored)
MCConfigs == AllReached

ASSUME NamesAreApart == NamesApart

(* For the configurations of the README under which a property fails. *)
MCPreset == [k \in Kinds |-> {Config(Field("level", Str("warm")))}]
MCNestedNull == [k \in Kinds |-> {Config(Home(Field("a", Null)))}]
MCNamed == [k \in Kinds |-> {Config(Name)}]
MCLists == [k \in Kinds |-> {Config(Filtered)}]
MCStoredLists == [k \in Kinds |-> {Config(Name @@ Filtered @@ Level(1))}]
MCLevelOnly == [k \in Kinds |-> {Config(Level(1))}]

(* The reference that every sync's processing of a configuration is held to. *)
Reference == INSTANCE MCExposes

(* What a configuration becomes, whatever the schema and whatever its nesting, *)
(* is what the reference says, see MCExposes (process of exposes.rs). It says  *)
(* nothing of the state, so that it is evaluated where a behaviour begins.     *)
ProcessMatchesReference == Init => Reference!ProcessMatchesReference
================================================================================
