---------------------------- MODULE DeviceReconciler ---------------------------
(***************************************************************************)
(* The reconciler of device resources (reconcilers/device.rs), one resource*)
(* for each device, against Zigbee2MQTT and the tracker of its retained    *)
(* list of devices (TopicTracker, handlers/lib.rs), which is made once and *)
(* kept (OnceCellMaybe, manager.rs).                                       *)
(*                                                                         *)
(* Devices are renamed by their address, but get their capabilities on the *)
(* topic of their name. A request is one step with its answer; how options *)
(* and capabilities are compared is in ConfigSync.                         *)
(***************************************************************************)
EXTENDS Naturals, FiniteSets

CONSTANTS
  Devices,       \* addresses, which are the names of devices without another
  Names,         \* other friendly names
  Specs,         \* the specifications each device resource may be given
  FirstList,     \* the list of devices at the beginning
  Fickle,        \* devices that leave, join and are interviewed
  Environments,  \* what the surroundings may do: one set of EnvironmentKinds each
  MaxPatches,    \* bound on the status patches of a resource that are on their way
  None

EnvironmentKinds ==
  {"edit",       \* a resource is edited
   "unready",    \* the instance becomes unhealthy and healthy again
   "fitness",    \* devices leave, join, are interviewed
   "timeout",    \* a request times out, done or not
   "late",       \* one that timed out is done later
   "delay",      \* a list arrives late
   "garble",     \* a list cannot be parsed
   "subscribe",  \* subscribing to the list fails
   "lag"}        \* the relay of the list lags behind, and ends

(* One that is unfit was not interviewed yet, or is not supported. *)
Fitness == {"absent", "unfit", "fit"}
Lists == [Devices -> [name : Names \cup Devices, fit : Fitness]]

(* The name, and whether there are options and capabilities.                 *)
SpecType ==
  [name : Names \cup {None}, options : BOOLEAN, capabilities : BOOLEAN]

(* What a reconcile knows of its device: the name, and whether it comes from  *)
(* the latest list.                                                           *)
FoundType == [name : Names \cup Devices, latest : BOOLEAN]

ASSUME DeviceAssumption ==
  /\ Names \cap Devices = {}
  /\ None \notin Names \cup Devices \cup Lists \cup FoundType
  /\ Specs \in [Devices -> SUBSET SpecType]
  /\ FirstList \in Lists
  /\ \A d, e \in Devices : FirstList[d].name = FirstList[e].name => d = e
  /\ Environments \subseteq SUBSET EnvironmentKinds
  /\ MaxPatches \in Nat \ {0}

VARIABLES
  spec,     \* the resources at the Kubernetes API
  status,   \* their status there
  patches,  \* status patches that were sent and have not arrived
  devices,  \* the devices at Zigbee2MQTT
  applied,  \* whose resource's capabilities each device was given last
  late,     \* renames that timed out and are still to be done
  cell,     \* the tracker of the list: to be made, kept, or the error of making it
  due,      \* the latest list has still to arrive
  box,      \* what has arrived and was not looked at, at most one message
  value,    \* the list the tracker remembers
  ready,    \* the instance has a healthy manager
  calm,     \* the surroundings have done all they ever will
  environment,  \* what they may do
  pc,       \* where each reconcile stands
  doc,      \* the resource document it works on
  found     \* what it knows of the device

zigbee2mqtt == <<devices, applied, late>>
tracker == <<cell, due, box, value>>
instance == <<ready, calm, environment>>
reconcile == <<pc, doc, found>>
vars == <<spec, status, patches, zigbee2mqtt, tracker, instance, reconcile>>

(* exists and synced, of which four combinations occur. *)
StatusType == {"unknown", "missing", "unsynced", "synced"}

Nothing == [kind |-> "nothing"]
Garbled == [kind |-> "garbled"]
Closed == [kind |-> "closed"]
List(l) == [kind |-> "list", list |-> l]

Wanted(s, d) == IF s.name = None THEN d ELSE s.name

TypeOK ==
  /\ spec \in [Devices -> SpecType]
  /\ status \in [Devices -> StatusType]
  /\ patches \subseteq Devices \X StatusType
  /\ devices \in Lists
  /\ \A d, e \in Devices : devices[d].name = devices[e].name => d = e
  /\ applied \in [Devices -> Devices \cup {None}]
  /\ late \subseteq Devices \X (Names \cup Devices)
  /\ cell \in {"empty", "open", "failed"}
  /\ due \in BOOLEAN /\ ready \in BOOLEAN /\ calm \in BOOLEAN
  /\ box \in {Nothing, Garbled, Closed} \cup [kind : {"list"}, list : Lists]
  /\ value \in Lists \cup {None}
  /\ environment \in Environments
  /\ pc \in [Devices -> {"idle", "tracker", "lookup", "rename", "options",
                         "capabilities", "set", "resend"}]
  /\ doc \in [Devices -> [spec : SpecType, status : StatusType]]
  /\ found \in [Devices -> FoundType \cup {None}]
  /\ \A d \in Devices :
       /\ spec[d] \in Specs[d] /\ doc[d].spec \in Specs[d]
       /\ (found[d] = None) = (pc[d] \in {"idle", "tracker", "lookup"})
       /\ pc[d] \notin {"idle", "tracker"} => cell = "open"

Init ==
  /\ \E s \in [Devices -> UNION {Specs[d] : d \in Devices}] :
       /\ \A d \in Devices : s[d] \in Specs[d]
       /\ spec = s
       /\ doc = [d \in Devices |-> [spec |-> s[d], status |-> "unknown"]]
  /\ status = [d \in Devices |-> "unknown"]
  /\ patches = {}
  /\ devices = FirstList
  /\ applied = [d \in Devices |-> None]
  /\ late = {}
  /\ cell = "empty"
  /\ due = FALSE
  /\ box = Nothing
  /\ value = None
  /\ ready = TRUE
  /\ calm = FALSE
  /\ environment \in Environments
  /\ pc = [d \in Devices |-> "idle"]
  /\ found = [d \in Devices |-> None]

Goto(d, state) == pc' = [pc EXCEPT ![d] = state]

(* What the surroundings may still do. *)
May(kind) == kind \in environment /\ ~calm

--------------------------------------------------------------------------------
(* The list of devices: Zigbee2MQTT, the relay and the tracker *)

(* A list that arrives replaces one that was not looked at (a queue of one,   *)
(* filter_lag). After one that cannot be parsed there comes another.          *)
Publish(new) ==
  /\ devices' = new
  /\ IF cell # "open" \/ box = Closed
       THEN UNCHANGED <<due, box>>
       ELSE \/ box' = List(new) /\ due' = FALSE
            \/ May("delay") /\ due' = TRUE /\ UNCHANGED box
            \/ May("garble") /\ due' = TRUE /\ box' = Garbled
  /\ UNCHANGED <<cell, value>>

Deliver ==
  /\ due
  /\ box' = List(devices)
  /\ due' = FALSE
  /\ UNCHANGED <<spec, status, patches, zigbee2mqtt, cell, value, instance, reconcile>>

(* A relay that lags behind ends, and closes the channels it sends to.       *)
RelayEnds ==
  /\ May("lag")
  /\ cell = "open"
  /\ box' = Closed
  /\ due' = FALSE
  /\ UNCHANGED <<spec, status, patches, zigbee2mqtt, cell, value, instance, reconcile>>

(* Mutant: what the tracker remembers goes first. *)
ReturnsCached(l) ==
  \/ /\ box = List(l) /\ value = None
     /\ value' = l
     /\ box' = Nothing
  \/ value = l /\ UNCHANGED <<box, value>>

(* TopicTracker::get: a new message goes first, else the tracker remembers,  *)
(* else it waits. An error leaves what it remembers.                          *)
Returns(l) ==
  \/ /\ box = List(l)
     /\ value' = l
     /\ box' = Nothing
  \/ box = Nothing /\ value = l /\ UNCHANGED <<box, value>>

GetFails ==
  \/ box = Garbled /\ box' = Nothing /\ UNCHANGED value
  \/ box = Closed /\ UNCHANGED <<box, value>>
  \/ box = Nothing /\ value = None /\ May("timeout") /\ UNCHANGED <<box, value>>

Known == {value, IF box.kind = "list" THEN box.list ELSE None} \ {None}

--------------------------------------------------------------------------------
(* The end of a reconcile: the StatusManager is dropped, and sends what      *)
(* differs from the document without waiting for it.                         *)
Finish(d, state) ==
  /\ patches' = IF state = doc[d].status THEN patches ELSE patches \cup {<<d, state>>}
  /\ found' = [found EXCEPT ![d] = None]
  /\ Goto(d, "idle")

PatchArrives(p) ==
  /\ patches' = patches \ {p}
  /\ status' = [status EXCEPT ![p[1]] = p[2]]
  /\ UNCHANGED <<spec, zigbee2mqtt, tracker, instance, reconcile>>

--------------------------------------------------------------------------------
(* Device::reconcile *)

ReconcileBegin(d) ==
  /\ pc[d] = "idle"
  /\ ready
  /\ Cardinality({p \in patches : p[1] = d}) < MaxPatches
  /\ doc' = [doc EXCEPT ![d] = [spec |-> spec[d], status |-> status[d]]]
  /\ Goto(d, "tracker")
  /\ UNCHANGED <<spec, status, patches, zigbee2mqtt, tracker, instance, found>>

(* get_manager finds the instance pending or unhealthy: the reconcile is     *)
(* postponed, with a status that has been reset.                             *)
ReconcilePostponed(d) ==
  /\ pc[d] = "idle"
  /\ ~ready
  /\ status[d] # "unknown"
  /\ Cardinality({p \in patches : p[1] = d}) < MaxPatches
  /\ patches' = patches \cup {<<d, "unknown">>}
  /\ UNCHANGED <<spec, status, zigbee2mqtt, tracker, instance, reconcile>>

(* Mutant: the error of making the tracker is forgotten. *)
GetTrackerUnchecked(d) ==
  /\ pc[d] = "tracker"
  /\ \/ /\ cell' = IF cell = "empty" THEN "open" ELSE cell
        /\ due' = IF cell = "empty" THEN TRUE ELSE due
     \/ cell = "empty" /\ May("subscribe") /\ cell' = "failed" /\ UNCHANGED due
  /\ Goto(d, "lookup")
  /\ UNCHANGED <<spec, status, patches, zigbee2mqtt, box, value, instance, doc, found>>

(* get_bridge_device_tracker: the first to ask makes the tracker, or leaves  *)
(* the error for everyone after it.                                          *)
GetTracker(d) ==
  /\ pc[d] = "tracker"
  /\ \/ /\ cell \in {"empty", "open"}
        /\ cell' = "open"
        /\ due' = IF cell = "empty" THEN TRUE ELSE due
        /\ Goto(d, "lookup")
        /\ UNCHANGED <<patches, found>>
     \/ /\ cell = "failed" \/ (cell = "empty" /\ May("subscribe"))
        /\ cell' = "failed"
        /\ Finish(d, "missing")
        /\ UNCHANGED due
  /\ UNCHANGED <<spec, status, zigbee2mqtt, box, value, instance, doc>>

(* get_device: one that is not there, not yet interviewed or not supported   *)
(* is an error.                                                               *)
Lookup(d) ==
  /\ pc[d] = "lookup"
  /\ \/ \E l \in Known :
          /\ Returns(l)
          /\ IF l[d].fit = "fit"
               THEN /\ found' = [found EXCEPT ![d] = [name |-> l[d].name,
                                                     latest |-> l = devices]]
                    /\ Goto(d, "rename")
                    /\ UNCHANGED patches
               ELSE Finish(d, "missing")
     \/ GetFails /\ Finish(d, "missing")
  /\ UNCHANGED <<spec, status, zigbee2mqtt, cell, due, instance, doc>>

Possible(d, n) ==
  devices[d].fit # "absent" /\ \A e \in Devices \ {d} : devices[e].name # n
Renamed(d, n) == [devices EXCEPT ![d].name = n]

(* Mutant: a rename that fails is left to the next reconcile. *)
SyncNameTrusts(d) ==
  LET n == Wanted(doc[d].spec, d) IN
  /\ pc[d] = "rename"
  /\ \/ found[d].name # n /\ Possible(d, n) /\ Publish(Renamed(d, n))
     \/ (found[d].name = n \/ ~Possible(d, n)) /\ UNCHANGED <<devices, tracker>>
  /\ Goto(d, "options")
  /\ UNCHANGED <<spec, status, patches, applied, late, instance, doc, found>>

(* sync_name: one request, whose failure ends the reconcile.                 *)
SyncName(d) ==
  LET n == Wanted(doc[d].spec, d) IN
  /\ pc[d] = "rename"
  /\ \/ /\ found[d].name = n
        /\ Goto(d, "options")
        /\ UNCHANGED <<patches, devices, late, tracker, found>>
     \/ /\ found[d].name # n /\ Possible(d, n)
        /\ Publish(Renamed(d, n))
        /\ \/ Goto(d, "options") /\ UNCHANGED <<patches, found>>
           \/ May("timeout") /\ Finish(d, "missing")
        /\ UNCHANGED late
     \/ /\ found[d].name # n
        /\ ~Possible(d, n) \/ May("timeout")
        /\ Finish(d, "missing")
        /\ \/ UNCHANGED late
           \/ May("timeout") /\ May("late") /\ late' = late \cup {<<d, n>>}
        /\ UNCHANGED <<devices, tracker>>
  /\ UNCHANGED <<spec, status, applied, instance, doc>>

LateRename(d, n) ==
  /\ <<d, n>> \in late
  /\ late' = late \ {<<d, n>>}
  /\ IF Possible(d, n) THEN Publish(Renamed(d, n)) ELSE UNCHANGED <<devices, tracker>>
  /\ UNCHANGED <<spec, status, patches, applied, instance, reconcile>>

(* The list is asked for once more: the schema. *)
SchemaOf(d, l) == l[d].fit = "fit"

(* sync_options, by the address. *)
SyncOptions(d) ==
  /\ pc[d] = "options"
  /\ \/ /\ ~doc[d].spec.options
        /\ Goto(d, "capabilities")
        /\ UNCHANGED <<patches, found, box, value>>
     \/ /\ doc[d].spec.options
        /\ \/ \E l \in Known :
                /\ Returns(l)
                /\ \/ SchemaOf(d, l) /\ Goto(d, "capabilities") /\ UNCHANGED <<patches, found>>
                   \/ (~SchemaOf(d, l) \/ May("timeout")) /\ Finish(d, "unsynced")
           \/ GetFails /\ Finish(d, "unsynced")
  /\ UNCHANGED <<spec, status, zigbee2mqtt, cell, due, instance, doc>>

(* Who hears what is sent to the topic of a name.                            *)
Listening(n) == {e \in Devices : devices[e].name = n /\ devices[e].fit # "absent"}

(* sync_capabilities reads what the device at the topic of its name has,     *)
(* where no answer ends the reconcile ...                                     *)
SyncCapabilities(d) ==
  LET n == Wanted(doc[d].spec, d) IN
  /\ pc[d] = "capabilities"
  /\ \/ ~doc[d].spec.capabilities /\ Finish(d, "synced") /\ UNCHANGED <<box, value>>
     \/ /\ doc[d].spec.capabilities
        /\ \/ \E l \in Known :
                /\ Returns(l)
                /\ \/ /\ SchemaOf(d, l)
                      /\ \E e \in Listening(n) :
                           \/ applied[e] = d /\ Finish(d, "synced")
                           \/ applied[e] # d /\ Goto(d, "set") /\ UNCHANGED <<patches, found>>
                   \/ /\ ~SchemaOf(d, l) \/ Listening(n) = {} \/ May("timeout")
                      /\ Finish(d, "unsynced")
           \/ GetFails /\ Finish(d, "unsynced")
  /\ UNCHANGED <<spec, status, zigbee2mqtt, cell, due, instance, doc>>

HeardAt(d, n) == [e \in Devices |-> IF e \in Listening(n) THEN d ELSE applied[e]]

(* ... and sends what is wanted there. Without an answer, be it that nobody   *)
(* hears it, it is lost or the answer takes too long, it is sent once more.   *)
SendCapabilities(d, n) ==
  /\ pc[d] \in {"set", "resend"}
  /\ \/ Listening(n) # {} /\ applied' = HeardAt(d, n) /\ Finish(d, "synced")
     \/ /\ \/ Listening(n) = {} /\ UNCHANGED applied
           \/ May("timeout") /\ applied' \in {applied, HeardAt(d, n)}
        /\ \/ pc[d] = "set" /\ Goto(d, "resend") /\ UNCHANGED <<patches, found>>
           \/ pc[d] = "resend" /\ Finish(d, "unsynced")
  /\ UNCHANGED <<spec, status, devices, late, tracker, instance, doc>>

(* Mutant: the topic of the name it was found with. *)
SetCapabilitiesByOldName(d) == SendCapabilities(d, found[d].name)

SetCapabilities(d) == SendCapabilities(d, Wanted(doc[d].spec, d))

--------------------------------------------------------------------------------
(* The users, the devices and the instance *)

EditResource(d) ==
  /\ May("edit")
  /\ \E s \in Specs[d] : spec' = [spec EXCEPT ![d] = s]
  /\ UNCHANGED <<status, patches, zigbee2mqtt, tracker, instance, reconcile>>

FitnessChanges(d) ==
  /\ May("fitness")
  /\ d \in Fickle
  /\ \E f \in Fitness : Publish([devices EXCEPT ![d].fit = f])
  /\ UNCHANGED <<spec, status, patches, applied, late, instance, reconcile>>

ReadyChanges ==
  /\ May("unready")
  /\ ready' = ~ready
  /\ UNCHANGED <<spec, status, patches, zigbee2mqtt, tracker, calm, environment, reconcile>>

(* The surroundings come to rest, with a healthy instance. *)
CalmDown ==
  /\ ~calm
  /\ calm' = TRUE
  /\ ready' = TRUE
  /\ UNCHANGED <<spec, status, patches, zigbee2mqtt, tracker, environment, reconcile>>

ReconcileStep(d) ==
  \/ ReconcileBegin(d) \/ ReconcilePostponed(d) \/ GetTracker(d) \/ Lookup(d)
  \/ SyncName(d) \/ SyncOptions(d) \/ SyncCapabilities(d) \/ SetCapabilities(d)

Next ==
  \/ \E d \in Devices : ReconcileStep(d) \/ EditResource(d) \/ FitnessChanges(d)
  \/ \E x \in late : LateRename(x[1], x[2])
  \/ \E p \in patches : PatchArrives(p)
  \/ Deliver \/ RelayEnds \/ ReadyChanges \/ CalmDown

Spec == Init /\ [][Next]_vars

(* Resources are reconciled again and again, patches, lists and late requests *)
(* arrive.                                                                    *)
FairSpec ==
  /\ Spec
  /\ \A d \in Devices : WF_vars(ReconcileStep(d))
  /\ WF_vars(\E p \in patches : PatchArrives(p))
  /\ WF_vars(\E x \in late : LateRename(x[1], x[2]))
  /\ WF_vars(Deliver)

--------------------------------------------------------------------------------
(* Properties *)

AsSpecified(d, s) ==
  devices[d].name = Wanted(s, d) /\ (s.capabilities => applied[d] = d)

(* A reconcile that found its device in the latest list and reports it as     *)
(* synced leaves it with the name and the capabilities of its document,       *)
(* although requests timed out, other devices were renamed, and the resource  *)
(* was edited meanwhile. Only a rename that comes late can undo it            *)
(* (Device::reconcile).                                                       *)
SaysSynced(d) ==
  /\ pc[d] \in {"capabilities", "set", "resend"} /\ pc'[d] = "idle"
  /\ \/ <<d, "synced">> \in patches' \ patches
     \/ /\ doc[d].status = "synced" /\ patches' = patches
        /\ <<d, "unsynced">> \notin patches
SyncedIsTrue ==
  [][\A d \in Devices :
       SaysSynced(d) /\ found[d].latest /\ "late" \notin environment
       => AsSpecified(d, doc[d].spec)']_vars

(* What is sent to the topic of a name reaches no other device than the one   *)
(* the resource is for, however the names change hands: as long as lists are  *)
(* not stale and no rename comes late (sync_capabilities).                    *)
CapabilitiesReachTheDevice ==
  environment \cap {"late", "delay", "garble"} = {} =>
    \A d \in Devices : applied[d] \in {d, None}

(* A device that is not fit, or wants a name that another keeps, or that is   *)
(* part of a cycle of devices which want each other's names, is blocked.      *)
Blocked ==
  LET Keeps(e) == devices[e].name = Wanted(spec[e], e)
      Holders(d) == {e \in Devices \ {d} : devices[e].name = Wanted(spec[d], d)}
  IN UNION {S \in SUBSET Devices :
              \A d \in S : \/ devices[d].fit # "fit"
                           \/ \E e \in Holders(d) : e \in S \/ Keeps(e)}

(* Once the surroundings are at rest every other device gets its name, its    *)
(* capabilities and the status synced, for good: whatever was stale, timed    *)
(* out, unparseable, late or out of order before. The tracker must have been  *)
(* made and its relay must run.                                               *)
Settled(d) == AsSpecified(d, spec[d]) /\ status[d] = "synced"
Converges ==
  [](calm /\ cell # "failed" /\ box # Closed =>
       <>[](\A d \in Devices \ Blocked : Settled(d)))

--------------------------------------------------------------------------------
(* What the code is written for and does not guarantee, see the README.       *)

(* A device that is there is not reported as missing: whatever goes wrong     *)
(* with the list or the rename is (reconcile, sync_name).                     *)
ExistsIsTrue ==
  \A d \in Devices : status[d] = "missing" => devices[d].fit = "absent"
================================================================================
