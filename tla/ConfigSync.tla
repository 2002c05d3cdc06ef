------------------------------- MODULE ConfigSync ------------------------------
(***************************************************************************)
(* Synchronising the options of a device or a group, or the capabilities   *)
(* of a device, with its resource: sync in mqtt/handlers/lib.rs with the   *)
(* get, set and unset of mqtt/handlers/{device,group}.rs, against          *)
(* Zigbee2MQTT and the operator's extension to it (extension/main.ts).     *)
(*                                                                         *)
(* The reconciler runs one sync after another, each with the specification *)
(* that it finds. Requests are handled in order and their answers arrive   *)
(* in order, late ones included. What configurations become when they are  *)
(* processed, set and cleared, is left to constants: see Configurations.   *)
(***************************************************************************)
EXTENDS Naturals, Sequences, Values

CONSTANTS
  Kinds,          \* what may be synchronised, of AllKinds
  Specs,          \* for each kind, the configurations a resource may ask for
  Stored,         \* for each kind, what the device or group may have by itself
  Configs,        \* for each kind, what it may have after any requests
  Environments,   \* for each kind, the surroundings, each a set of EnvironmentKinds
  MaxQueue,       \* bound on the requests, and on the answers, in flight
  Processing(_),  \* what the schema makes of a configuration
  Missing(_, _),  \* the paths in the second that the first configuration lacks
  Merging(_, _),  \* what setting the second makes of the first configuration
  Copying(_, _)   \* what clearing paths makes of a configuration

AllKinds == {"device", "group", "capability"}

EnvironmentKinds ==
  {"edit",      \* the resource is edited
   "others",    \* somebody else changes the configuration
   "stale",     \* the tracker lags behind Zigbee2MQTT
   "timeout",   \* a request times out although it is handled later
   "refuse",    \* a request is answered with an error
   "lose",      \* a request is lost on its way
   "old",       \* a device first reports its old state after a change
   "report",    \* a device reports its state by itself
   "unread",    \* the configuration or the schema cannot be had for a while
   "slow"}      \* a device takes a second or more between reports

--------------------------------------------------------------------------------
(* Configurations. A path is the sequence of the keys that lead to a value. *)

(* As a bug: every property is cleared. *)
IsClearableAll(what, path) == what # "capability"

IsClearable(what, path) ==
  /\ what # "capability"
  /\ path \notin {<<"ID">>, <<"friendly_name">>}
  /\ what = "group" => path # <<"devices">>

(* As a bug: only the top level is looked at. *)
ClearablePathsTop(what, new, old) ==
  {p \in {<<k>> : k \in Keys(old) \ Keys(new)} : IsClearable(what, p)}
ClearablePaths(what, new, old) == {p \in Missing(new, old) : IsClearable(what, p)}

(* As a bug: it is only looked at whether a property is set. *)
DifferencesOfKeys(new, actual) == {k \in Keys(new) : Item(new, k) # Null /\ Item(actual, k) = Null}

(* Null and absent are the same here, but only at the top level, and an *)
(* integer is never equal to a float.                                   *)
Differences(new, actual) == {k \in Keys(new) : Item(new, k) # Item(actual, k)}

ASSUME ConfigAssumption ==
  /\ Kinds \subseteq AllKinds
  /\ MaxQueue \in Nat \ {0}
  /\ \A k \in Kinds :
       /\ Environments[k] \subseteq SUBSET EnvironmentKinds
       /\ Stored[k] \subseteq Configs[k]
       /\ \A c \in Specs[k] \cup Configs[k] : IsObject(c)

(* Processing adds no property to a configuration, and setting what it yields *)
(* adds no other and leaves the others as they are. When it differs in nothing *)
(* from what is stored, setting it changes nothing, and at most properties of  *)
(* the top level are left over.                                                *)
ASSUME SettingAssumption ==
  \A k \in Kinds : \A c \in Configs[k], s \in Specs[k] :
    LET p == Processing(s)
        m == Merging(c, p)
    IN
    p # Error =>
      /\ IsObject(p) /\ Keys(p) \subseteq Keys(s)
      /\ m \in Configs[k] /\ Keys(m) \subseteq Keys(c) \cup Keys(p)
      /\ \A x \in Keys(c) \ Keys(p) : x \in Keys(m) /\ m.fields[x] = c.fields[x]
      /\ (\A x \in Keys(p) : Item(p, x) = Item(c, x)) =>
           m = c /\ Missing(s, c) \subseteq {<<x>> : x \in Keys(c) \ Keys(s)}

(* What a configuration lacks at the top level is among what it lacks, and *)
(* clearing takes out of the top level what it is told to, and nothing     *)
(* else: what is not nested stays as it is.                                *)
ASSUME ClearingAssumption ==
  \A k \in Kinds : \A c, d \in Configs[k], s \in Specs[k] :
    LET paths == ClearablePaths(k, s, d)
        m == Copying(c, paths)
    IN
    /\ {<<x>> : x \in Keys(d) \ Keys(s)} \subseteq Missing(s, d)
    /\ m \in Configs[k] /\ Keys(m) = {x \in Keys(c) : <<x>> \notin paths}
    /\ \A x \in Keys(m) : ~IsNested(c.fields[x]) => m.fields[x] = c.fields[x]

--------------------------------------------------------------------------------
VARIABLES
  kind,         \* what is synchronised
  environment,  \* what the surroundings may do
  spec,         \* the configuration the resource asks for
  stored,       \* the configuration at Zigbee2MQTT, or the state of the device
  tracked,      \* the configuration in the bridge/info that arrived last
  requests,     \* requests on their way to Zigbee2MQTT
  answers,      \* answers on their way back, or reports of the device
  pc,           \* where the sync stands
  wanted,       \* the configuration it works on
  current,      \* the configuration it found
  heard,        \* the last report of the device since its request
  resent,       \* its request was sent a second time
  outcome,      \* how the last sync ended
  calm          \* the surroundings have done all they ever will

fixed == <<kind, environment>>
sync == <<pc, wanted, current, heard, resent, outcome>>
store == <<stored, tracked>>
flight == <<requests, answers>>
vars == <<fixed, spec, store, flight, sync, calm>>

Silence == [t |-> "silence"]
Waiting == {"get", "unset", "set"}
Request(op, arg) == [op |-> op, arg |-> arg]

TypeOK ==
  /\ kind \in Kinds /\ environment \in Environments[kind]
  /\ spec \in Specs[kind] /\ wanted \in Specs[kind]
  /\ {stored, tracked, current} \subseteq Configs[kind]
  /\ \A i \in DOMAIN requests : requests[i].op \in Waiting
  /\ answers \in Seq([op : Waiting \cup {"report"}, value : Configs[kind] \cup {Error}])
  /\ Len(requests) <= MaxQueue /\ Len(answers) <= MaxQueue
  /\ pc \in {"idle", "process"} \cup Waiting
  /\ pc = "unset" => kind # "capability"
  /\ pc = "set" => Processing(wanted) # Error
  /\ heard \in Configs[kind] \cup {Silence}
  /\ resent \in BOOLEAN
  /\ calm \in BOOLEAN
  /\ outcome \in {"none", "synced", "failed"}

Init ==
  /\ kind \in Kinds
  /\ environment \in Environments[kind]
  /\ spec \in Specs[kind]
  /\ wanted = spec
  /\ stored \in Stored[kind]
  /\ tracked = stored
  /\ current = stored
  /\ requests = <<>>
  /\ answers = <<>>
  /\ pc = "idle"
  /\ heard = Silence
  /\ resent = FALSE
  /\ outcome = "none"
  /\ calm = FALSE

May(what) == what \in environment /\ ~calm

--------------------------------------------------------------------------------
(* Zigbee2MQTT *)

(* A device is set to the values it is given, options are stored. *)
Apply(request) ==
  CASE request.op = "get" -> stored
    [] request.op = "set" -> Merging(stored, request.arg)
    [] request.op = "unset" -> Copying(stored, request.arg)

(* What the operator reads of the answer: the extension gives the id of a *)
(* group as a string, and the operator cannot parse it.                   *)
AnswerTo(request, new) ==
  CASE kind = "capability" -> [op |-> "report", value |-> new]
    [] kind = "group" /\ request.op = "unset" -> [op |-> "unset", value |-> Error]
    [] OTHER -> [op |-> request.op, value |-> new]

Store(new) ==
  /\ stored' = new
  /\ \/ tracked' = new
     \/ May("stale") /\ UNCHANGED tracked

Answered(answer) ==
  /\ Len(answers) < MaxQueue
  /\ answers' = Append(answers, answer)

Handle ==
  /\ requests # <<>>
  /\ LET request == Head(requests)
         new == Apply(request)
         answer == AnswerTo(request, new)
         old == [op |-> "report", value |-> stored]
     IN  /\ Store(new)
         /\ \/ Answered(answer)
            \/ /\ May("old") /\ kind = "capability" /\ request.op = "set"
               /\ Len(answers) + 2 <= MaxQueue
               /\ answers' = Append(Append(answers, old), answer)
  /\ requests' = Tail(requests)
  /\ UNCHANGED <<fixed, spec, sync, calm>>

Refuse ==
  /\ May("refuse")
  /\ requests # <<>>
  /\ Answered([op |-> IF kind = "capability" THEN "report" ELSE Head(requests).op,
               value |-> Error])
  /\ requests' = Tail(requests)
  /\ UNCHANGED <<fixed, spec, store, sync, calm>>

Lose ==
  /\ May("lose")
  /\ requests # <<>>
  /\ requests' = Tail(requests)
  /\ UNCHANGED <<fixed, spec, store, answers, sync, calm>>

(* The bridge/info with the latest configuration arrives. *)
Deliver ==
  /\ tracked # stored
  /\ tracked' = stored
  /\ UNCHANGED <<fixed, spec, stored, flight, sync, calm>>

Others ==
  /\ May("others")
  /\ \E c \in Stored[kind] : Store(c)
  /\ UNCHANGED <<fixed, spec, flight, sync, calm>>

Report ==
  /\ kind = "capability" /\ May("report")
  /\ Answered([op |-> "report", value |-> stored])
  /\ UNCHANGED <<fixed, spec, store, requests, sync, calm>>

Edit ==
  /\ May("edit")
  /\ spec' \in Specs[kind] \ {spec}
  /\ UNCHANGED <<fixed, store, flight, sync, calm>>

CalmDown ==
  /\ ~calm
  /\ calm' = TRUE
  /\ UNCHANGED <<fixed, spec, store, flight, sync>>

--------------------------------------------------------------------------------
(* The sync *)

Ask(op, arg) ==
  /\ Len(requests) < MaxQueue
  /\ requests' = Append(requests, Request(op, arg))
  /\ pc' = op
  /\ heard' = Silence
  /\ resent' = FALSE

Finish(how) ==
  /\ pc' = "idle"
  /\ outcome' = how
  /\ heard' = Silence
  /\ resent' = FALSE

(* The properties to clear are found, and cleared, before the schema has *)
(* been looked at. A device is asked for its state first.                *)
Begin ==
  /\ pc = "idle"
  /\ wanted' = spec
  /\ LET paths == ClearablePaths(kind, spec, tracked)
     IN  \/ kind = "capability" /\ Ask("get", Null) /\ UNCHANGED current
         \/ kind # "capability" /\ paths # {} /\ Ask("unset", paths) /\ current' = tracked
         \/ /\ kind # "capability" /\ paths = {}
            /\ pc' = "process"
            /\ current' = tracked
            /\ UNCHANGED <<requests, heard, resent>>
  /\ UNCHANGED <<fixed, spec, store, answers, outcome, calm>>

(* The tracker of the configuration, a subscription or the schema cannot be *)
(* had: when the sync begins, before it reads again what it cleared, or     *)
(* before it compares.                                                      *)
Unread ==
  /\ May("unread")
  /\ pc \in {"idle", "process"}
  /\ wanted' = IF pc = "idle" THEN spec ELSE wanted
  /\ Finish("failed")
  /\ UNCHANGED <<fixed, spec, store, flight, current, calm>>

(* The schema is applied, then only a difference leads to a request. *)
Compare ==
  /\ pc = "process"
  /\ LET config == Processing(wanted)
         differences == IF config = Error THEN {} ELSE Differences(config, current)
     IN  \/ config = Error /\ Finish("failed") /\ UNCHANGED requests
         \/ config # Error /\ differences = {} /\ Finish("synced") /\ UNCHANGED requests
         \/ differences # {} /\ Ask("set", config) /\ UNCHANGED outcome
  /\ UNCHANGED <<fixed, spec, store, answers, wanted, current, calm>>

(* The configuration is read again after properties were cleared; the *)
(* answer to a set is compared with what was asked for.               *)
Continue(value) ==
  \/ value = Error /\ Finish("failed") /\ UNCHANGED current
  \/ /\ value # Error /\ pc \in {"get", "unset"}
     /\ pc' = "process"
     /\ current' = IF pc = "get" THEN value ELSE tracked
     /\ heard' = Silence
     /\ UNCHANGED <<resent, outcome>>
  \/ /\ value # Error /\ pc = "set"
     /\ Finish(IF Differences(Processing(wanted), value) = {} THEN "synced" ELSE "failed")
     /\ UNCHANGED current

(* The first answer to a request of this kind for this device or group is *)
(* taken, whichever request it answers.                                   *)
Answer ==
  /\ kind # "capability"
  /\ answers # <<>>
  /\ answers' = Tail(answers)
  /\ LET answer == Head(answers)
     IN  IF answer.op = pc THEN Continue(answer.value)
                           ELSE UNCHANGED <<pc, current, heard, resent, outcome>>
  /\ UNCHANGED <<fixed, spec, store, requests, wanted, calm>>

(* As a bug: an error is taken for a report. *)
HearAnything ==
  /\ kind = "capability"
  /\ answers # <<>>
  /\ answers' = Tail(answers)
  /\ heard' = IF pc \in Waiting THEN Head(answers).value ELSE heard
  /\ UNCHANGED <<fixed, spec, store, requests, pc, wanted, current, resent, outcome, calm>>

(* Each report of the device replaces the one before it, and an error that *)
(* is logged for the device ends the request.                              *)
Hear ==
  /\ kind = "capability"
  /\ answers # <<>>
  /\ answers' = Tail(answers)
  /\ LET report == Head(answers).value
     IN  CASE pc \notin Waiting -> UNCHANGED <<pc, heard, resent, outcome>>
           [] pc \in Waiting /\ report = Error -> Finish("failed")
           [] OTHER -> heard' = report /\ UNCHANGED <<pc, resent, outcome>>
  /\ UNCHANGED <<fixed, spec, store, requests, wanted, current, calm>>

(* A second went by without another report. *)
Settle ==
  /\ heard # Silence
  /\ answers = <<>> \/ May("slow")
  /\ Continue(heard)
  /\ UNCHANGED <<fixed, spec, store, flight, wanted, calm>>

Unanswered == requests = <<>> /\ answers = <<>> /\ heard = Silence

(* Half the timeout went by: a capability request is sent once more. *)
Resend ==
  /\ kind = "capability"
  /\ pc \in Waiting
  /\ ~resent
  /\ May("timeout") \/ Unanswered
  /\ Len(requests) < MaxQueue
  /\ requests' =
       Append(requests, Request(pc, IF pc = "get" THEN Null ELSE Processing(wanted)))
  /\ resent' = TRUE
  /\ UNCHANGED <<fixed, spec, store, answers, pc, wanted, current, heard, outcome, calm>>

Timeout ==
  /\ pc \in Waiting
  /\ May("timeout") \/ Unanswered
  /\ kind = "capability" => resent
  /\ Finish("failed")
  /\ UNCHANGED <<fixed, spec, store, flight, wanted, current, calm>>

Sync == Begin \/ Unread \/ Compare \/ Answer \/ Hear \/ Settle \/ Resend \/ Timeout
Surroundings == Refuse \/ Lose \/ Others \/ Report \/ Edit
Next == Sync \/ Handle \/ Deliver \/ Surroundings \/ CalmDown

Spec == Init /\ [][Next]_vars

(* A reconcile is repeated for ever, Zigbee2MQTT and the broker work through *)
(* what they are sent, and some day the surroundings leave it at that.       *)
Fairness ==
  /\ WF_vars(Sync) /\ WF_vars(Answer \/ Hear)
  /\ WF_vars(Handle) /\ WF_vars(Deliver) /\ WF_vars(CalmDown)
FairSpec == Spec /\ Fairness

--------------------------------------------------------------------------------
(* Setting the configuration again would change nothing, and nothing of what *)
(* may be cleared is left that the resource does not ask for.                *)
InEffect(config, actual) ==
  /\ Processing(config) # Error
  /\ Merging(actual, Processing(config)) = actual
  /\ kind # "capability" =>
       \A p \in Missing(config, actual) :
         \/ p \in {<<"ID">>, <<"friendly_name">>}
         \/ kind = "group" /\ p = <<"devices">>

(* Nobody else changes the configuration, and either the resource stays as it *)
(* is, or it is edited while no requests are late and the tracker is not.     *)
Orderly ==
  /\ "others" \notin environment
  /\ "edit" \notin environment \/ environment \cap {"stale", "timeout"} = {}

(* When a sync reports that the resource is synced, then what it asks for   *)
(* is in effect, at every depth, and nothing that it does not ask for is    *)
(* left over, whatever was lost, refused or answered late before: as long   *)
(* as nothing else is in flight any more, and the sync did not compare with *)
(* a configuration from before a change. (A device changes by itself.) With *)
(* other surroundings than the orderly ones it may be left over, see the    *)
(* README.                                                                  *)
SyncedIsTrue ==
  [][ /\ kind # "capability" /\ Orderly
      /\ pc # "idle" /\ pc' = "idle" /\ outcome' = "synced"
      /\ requests' = <<>> /\ answers' = <<>>
      /\ pc = "process" => current = stored
      => InEffect(wanted, stored) ]_vars

(* No resource lists the name among its options, and the name that a device *)
(* or group has by itself is one name.                                      *)
NamesApart ==
  \A k \in Kinds :
    /\ \A s \in Specs[k] : "friendly_name" \notin Keys(s)
    /\ \A c, d \in Stored[k] :
         /\ Item(c, "friendly_name") = Item(d, "friendly_name")
         /\ ~IsNested(Item(c, "friendly_name"))

(* No sync changes what identifies a device or group, which would otherwise *)
(* be cleared like every property that its resource does not list.          *)
IdentityIsKept == [][Item(stored', "friendly_name") = Item(stored, "friendly_name")]_vars

(* Once the resource and its surroundings are left alone, the syncs end     *)
(* with what it asks for in effect, stay with that, and send no more        *)
(* requests to change anything. What the schema refuses is reported, and    *)
(* never sent.                                                              *)
Settled ==
  IF Processing(spec) = Error
    THEN outcome = "failed" /\ \A i \in DOMAIN requests : requests[i].op # "set"
    ELSE /\ outcome = "synced"
         /\ InEffect(spec, stored)
         /\ \A i \in DOMAIN requests : requests[i].op = "get"
Converges == <>[]Settled

--------------------------------------------------------------------------------
(* What the code is written for and does not guarantee, see the README.     *)

(* Clearing properties removes nothing but them: the copy the extension     *)
(* makes turns lists into objects.                                          *)
OnlyMarkedIsRemoved ==
  [][requests # <<>> /\ requests' = Tail(requests) /\ Head(requests).op = "unset" =>
       \A k \in Keys(stored) :
         (\A p \in Head(requests).arg : Head(p) # k) => Item(stored', k) = Item(stored, k)]_vars

(* A request to clear properties that was carried out and answered lets the *)
(* sync go on: the answer for a group cannot be parsed.                     *)
ClearingGoesOn == [][pc = "unset" /\ pc' = "idle" => outcome' # "failed"]_vars
================================================================================
