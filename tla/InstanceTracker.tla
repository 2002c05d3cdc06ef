---------------------------- MODULE InstanceTracker ----------------------------
(***************************************************************************)
(* The managers of the instances (reconcilers/instance.rs): the reconciler *)
(* of an instance sets its manager up, replaces and closes it; a reporter  *)
(* per manager turns the manager's status events into the status of the    *)
(* resource and of the tracker entry; the reconcilers of devices and groups*)
(* look the manager up and refresh the tracker when they miss it.          *)
(*                                                                         *)
(* A manager is seen from outside only: it starts or fails to, emits       *)
(* status events, may shut itself down, and is closed.                     *)
(***************************************************************************)
EXTENDS Naturals, Sequences, FiniteSets

CONSTANTS
  Instances,     \* names of the instance resources
  Resources,     \* reconcilers of devices and groups
  InstanceOf,    \* the instance a resource names
  Managers,      \* the managers that can be made, in any order
  Emitted,       \* the status events that a running manager may emit
  EventBound,    \* it emits none while this many are undelivered
  Environment,   \* what the surroundings may do, see EnvironmentKinds
  NoOne

EnvironmentKinds ==
  {"create",     \* an instance is created while the operator runs
   "apart",      \* the same, but not between a refresh's list and its use
   "delete",     \* an instance is deleted
   "edit",       \* an edit makes update_options fail
   "bad_secret", \* a referenced secret cannot be read
   "no_api",     \* the list of instances cannot be had
   "no_broker",  \* Manager::new fails or times out
   "shutdown"}   \* a manager shuts itself down

ASSUME TrackerAssumption ==
  /\ InstanceOf \in [Resources -> Instances]
  /\ Instances \cap Resources = {}
  /\ Instances \cap Managers = {}
  /\ Resources \cap Managers = {}
  /\ NoOne \notin Instances \cup Resources \cup Managers
  /\ IsFiniteSet(Managers)
  /\ Emitted \subseteq {"Pending", "Active", "Down", "HealthOk", "HealthError"}
  /\ EventBound \in Nat
  /\ Environment \subseteq EnvironmentKinds

VARIABLES
  k8s,        \* the instance at the Kubernetes API
  status,     \* its status at the Kubernetes API
  entry,      \* InstanceTracker.managers: the manager of a name, if any
  listed,     \* the names the map has
  writer,     \* who holds the map for writing
  updater,    \* who holds last_updated_at
  fresh,      \* last_updated_at is less than an interval ago
  pc,         \* where the reconcilers and the reporters stand
  doc,        \* the status in the document an instance reconcile works on
  setup,      \* the manager an instance reconcile works with or closes
  list,       \* the names a refresh got from the Kubernetes API
  updated,    \* a refresh was completed since this resource asked
  answer,     \* what the last look-up of a resource returned
  life,       \* unused, running, down (by itself) or closed
  owner,      \* the instance a manager was made for
  healthy,    \* the manager has reported a successful health check
  events,     \* status events of a manager not yet taken by its reporter
  current, old  \* the StatusManager of a reporter

tracker  == <<entry, listed, fresh, updater>>
manager  == <<life, owner, healthy, events>>
reporter == <<current, old>>
lookup   == <<list, updated, answer>>
vars == <<k8s, status, tracker, writer, pc, doc, setup, lookup, manager, reporter>>

NoStatus == [set |-> FALSE, broker |-> FALSE, zigbee2mqtt |-> "none"]
Statuses == [set : BOOLEAN, broker : BOOLEAN, zigbee2mqtt : {"none", "false", "true"}]
Reset == [set |-> TRUE, broker |-> FALSE, zigbee2mqtt |-> "none"]
Healthy(s) == s.zigbee2mqtt = "true"

Events == {"Pending", "Active", "Down", "HealthOk", "HealthError"}
NoEntry == [manager |-> NoOne, status |-> NoStatus]

TypeOK ==
  /\ k8s \in [Instances -> {"absent", "present", "deleting"}]
  /\ status \in [Instances -> Statuses]
  /\ entry \in [Instances -> [manager : Managers \cup {NoOne}, status : Statuses]]
  /\ listed \subseteq Instances
  /\ writer \in Instances \cup Resources \cup Managers \cup {NoOne}
  /\ updater \in Resources \cup {NoOne}
  /\ fresh \in BOOLEAN
  /\ \A i \in Instances :
       pc[i] \in {"idle", "lock", "check", "closeOld", "options", "closeUnfit", "start",
                  "work", "closeLast", "finalize"}
  /\ \A r \in Resources :
       pc[r] \in {"idle", "refresh", "fresh", "store", "again"}
  /\ \A m \in Managers : pc[m] \in {"idle", "sync", "write"}
  /\ doc \in [Instances -> Statuses]
  /\ setup \in [Instances -> Managers \cup {NoOne}]
  /\ list \in [Resources -> SUBSET Instances]
  /\ updated \in [Resources -> BOOLEAN]
  /\ answer \in [Resources -> {"none", "Missing", "Pending", "Unhealthy", "Ready", "Error"}]
  /\ life \in [Managers -> {"unused", "running", "down", "closed"}]
  /\ owner \in [Managers -> Instances \cup {NoOne}]
  /\ healthy \in [Managers -> BOOLEAN]
  /\ events \in [Managers -> Seq(Events)]
  /\ current \in [Managers -> Statuses]
  /\ old \in [Managers -> Statuses]

(* The operator starts with an empty tracker whose last refresh is long ago, *)
(* and may find instances with the status an earlier run left behind.        *)
Init ==
  /\ k8s \in [Instances -> {"absent", "present"}]
  /\ status \in [Instances -> {NoStatus, [Reset EXCEPT !.broker = TRUE, !.zigbee2mqtt = "true"]}]
  /\ \A i \in Instances : k8s[i] = "absent" => status[i] = NoStatus
  /\ entry = [i \in Instances |-> NoEntry]
  /\ listed = {}
  /\ writer = NoOne
  /\ updater = NoOne
  /\ fresh = FALSE
  /\ pc = [a \in Instances \cup Resources \cup Managers |-> "idle"]
  /\ doc = [i \in Instances |-> NoStatus]
  /\ setup = [i \in Instances |-> NoOne]
  /\ list = [r \in Resources |-> {}]
  /\ updated = [r \in Resources |-> FALSE]
  /\ answer = [r \in Resources |-> "none"]
  /\ life = [m \in Managers |-> "unused"]
  /\ owner = [m \in Managers |-> NoOne]
  /\ healthy = [m \in Managers |-> FALSE]
  /\ events = [m \in Managers |-> <<>>]
  /\ current = [m \in Managers |-> NoStatus]
  /\ old = [m \in Managers |-> NoStatus]

Goto(a, state) == pc' = [pc EXCEPT ![a] = state]
Lock(a) == writer = NoOne /\ writer' = a
Unlock == writer' = NoOne

(* A status patch; an instance that is gone makes it fail, which is logged. *)
Patch(i, s) ==
  status' = IF k8s[i] = "absent" THEN status ELSE [status EXCEPT ![i] = s]

--------------------------------------------------------------------------------
(* The instances at the Kubernetes API *)

Create(i) ==
  /\ k8s[i] = "absent" /\ pc[i] = "idle"
  /\ \/ "create" \in Environment
     \/ "apart" \in Environment /\ \A r \in Resources : pc[r] # "store"
  /\ k8s' = [k8s EXCEPT ![i] = "present"]
  /\ status' = [status EXCEPT ![i] = NoStatus]
  /\ UNCHANGED <<tracker, writer, pc, doc, setup, lookup, manager, reporter>>

Delete(i) ==
  /\ "delete" \in Environment
  /\ k8s[i] = "present"
  /\ k8s' = [k8s EXCEPT ![i] = "deleting"]
  /\ UNCHANGED <<status, tracker, writer, pc, doc, setup, lookup, manager, reporter>>

--------------------------------------------------------------------------------
(* setup_manager, which keeps the map locked from its first to its last line *)

(* The reconcile works on the document as it was when it began. *)
ReconcileBegin(i) ==
  /\ k8s[i] = "present"
  /\ pc[i] = "idle"
  /\ doc' = [doc EXCEPT ![i] = status[i]]
  /\ Goto(i, "lock")
  /\ UNCHANGED <<k8s, status, tracker, writer, setup, lookup, manager, reporter>>

(* The entry is there from now on, with or without a manager. *)
SetupLock(i) ==
  /\ pc[i] = "lock"
  /\ Lock(i)
  /\ listed' = listed \cup {i}
  /\ Goto(i, "check")
  /\ UNCHANGED <<k8s, status, entry, fresh, updater, doc, setup, lookup, manager,
                 reporter>>

(* Mutant: the manager is discarded without being closed. *)
CheckStatusDiscards(i) ==
  /\ pc[i] = "check"
  /\ IF doc[i].set /\ ~Healthy(doc[i])
       THEN entry' = [entry EXCEPT ![i] = NoEntry]
       ELSE UNCHANGED entry
  /\ Goto(i, "options")
  /\ UNCHANGED <<k8s, status, listed, fresh, updater, writer, doc, setup, lookup,
                 manager, reporter>>

(* A manager whose instance is not known to be healthy is discarded. *)
CheckStatus(i) ==
  /\ pc[i] = "check"
  /\ IF doc[i].set /\ entry[i].manager # NoOne /\ ~Healthy(doc[i])
       THEN Goto(i, "closeOld")
       ELSE Goto(i, "options")
  /\ UNCHANGED <<k8s, status, tracker, writer, doc, setup, lookup, manager, reporter>>

(* close returns after the last status event of the manager was sent. *)
Close(m) ==
  /\ life[m] \in {"running", "down"}
  /\ life' = [life EXCEPT ![m] = "closed"]
  /\ events' = IF life[m] = "down" THEN events
                ELSE [events EXCEPT ![m] = Append(@, "Down")]
  /\ UNCHANGED <<owner, healthy>>

(* Mutant: the closed manager stays in the map. *)
CloseManagerKept(i) ==
  /\ pc[i] \in {"closeOld", "closeUnfit"}
  /\ Close(entry[i].manager)
  /\ Goto(i, IF pc[i] = "closeOld" THEN "options" ELSE "start")
  /\ UNCHANGED <<k8s, status, tracker, writer, doc, setup, lookup, reporter>>

CloseManager(i) ==
  /\ pc[i] \in {"closeOld", "closeUnfit"}
  /\ Close(entry[i].manager)
  /\ entry' = [entry EXCEPT ![i] = NoEntry]
  /\ Goto(i, IF pc[i] = "closeOld" THEN "options" ELSE "start")
  /\ UNCHANGED <<k8s, status, listed, fresh, updater, writer, doc, setup, lookup, reporter>>

(* to_options fails: the reconcile ends, the map is released. *)
OptionsFail(i) ==
  /\ "bad_secret" \in Environment
  /\ pc[i] = "options"
  /\ Unlock
  /\ Goto(i, "idle")
  /\ UNCHANGED <<k8s, status, tracker, doc, setup, lookup, manager, reporter>>

(* update_options fails after some edits, and on a manager that is down. *)
UpdateOptions(i) ==
  LET m == entry[i].manager IN
  /\ pc[i] = "options"
  /\ \/ /\ m = NoOne
        /\ Goto(i, "start")
        /\ UNCHANGED <<writer, setup>>
     \/ /\ m # NoOne
        /\ life[m] = "down" \/ "edit" \in Environment
        /\ Goto(i, "closeUnfit")
        /\ UNCHANGED <<writer, setup>>
     \/ /\ m # NoOne
        /\ life[m] = "running"
        /\ setup' = [setup EXCEPT ![i] = m]
        /\ Unlock
        /\ Goto(i, "work")
  /\ UNCHANGED <<k8s, status, tracker, doc, lookup, manager, reporter>>

(* The status is reset, then the manager is made; its handshake has sent    *)
(* Pending and Active when it returns. The reporter starts on the status    *)
(* of the document the reconcile began with.                                *)
StartManager(i, m) ==
  /\ pc[i] = "start"
  /\ life[m] = "unused"
  /\ IF doc[i] = Reset THEN UNCHANGED status ELSE Patch(i, Reset)
  /\ life' = [life EXCEPT ![m] = "running"]
  /\ owner' = [owner EXCEPT ![m] = i]
  /\ events' = [events EXCEPT ![m] = <<"Pending", "Active">>]
  /\ entry' = [entry EXCEPT ![i] = [manager |-> m, status |-> Reset]]
  /\ current' = [current EXCEPT ![m] = [doc[i] EXCEPT !.set = TRUE]]
  /\ old' = [old EXCEPT ![m] = doc[i]]
  /\ setup' = [setup EXCEPT ![i] = m]
  /\ Unlock
  /\ Goto(i, "work")
  /\ UNCHANGED <<k8s, listed, fresh, updater, doc, lookup, healthy>>

StartFails(i) ==
  /\ "no_broker" \in Environment \/ \A m \in Managers : life[m] # "unused"
  /\ pc[i] = "start"
  /\ IF doc[i] = Reset THEN UNCHANGED status ELSE Patch(i, Reset)
  /\ Unlock
  /\ Goto(i, "idle")
  /\ UNCHANGED <<k8s, tracker, doc, setup, lookup, manager, reporter>>

(* The rest of the reconcile works on the manager without the map. *)
ReconcileEnd(i) ==
  /\ pc[i] = "work"
  /\ setup' = [setup EXCEPT ![i] = NoOne]
  /\ Goto(i, "idle")
  /\ UNCHANGED <<k8s, status, tracker, writer, doc, lookup, manager, reporter>>

--------------------------------------------------------------------------------
(* cleanup, and the finalizer that lets the resource go *)

(* Mutant: an instance that has no manager any more is kept. *)
CleanupNeedsManager(i) ==
  /\ k8s[i] = "deleting"
  /\ pc[i] = "idle"
  /\ writer = NoOne
  /\ entry[i].manager # NoOne
  /\ setup' = [setup EXCEPT ![i] = entry[i].manager]
  /\ entry' = [entry EXCEPT ![i] = NoEntry]
  /\ listed' = listed \ {i}
  /\ Goto(i, "closeLast")
  /\ UNCHANGED <<k8s, status, fresh, updater, writer, doc, lookup, manager, reporter>>

CleanupRemove(i) ==
  /\ k8s[i] = "deleting"
  /\ pc[i] = "idle"
  /\ writer = NoOne
  /\ setup' = [setup EXCEPT ![i] = entry[i].manager]
  /\ entry' = [entry EXCEPT ![i] = NoEntry]
  /\ listed' = listed \ {i}
  /\ Goto(i, IF entry[i].manager = NoOne THEN "finalize" ELSE "closeLast")
  /\ UNCHANGED <<k8s, status, fresh, updater, writer, doc, lookup, manager, reporter>>

CleanupClose(i) ==
  /\ pc[i] = "closeLast"
  /\ Close(setup[i])
  /\ setup' = [setup EXCEPT ![i] = NoOne]
  /\ Goto(i, "finalize")
  /\ UNCHANGED <<k8s, status, tracker, writer, doc, lookup, reporter>>

(* Mutant: the resource is let go while the manager is still being closed. *)
FinalizeEarly(i) ==
  /\ pc[i] \in {"closeLast", "finalize"}
  /\ k8s[i] # "absent"
  /\ k8s' = [k8s EXCEPT ![i] = "absent"]
  /\ status' = [status EXCEPT ![i] = NoStatus]
  /\ Goto(i, IF pc[i] = "closeLast" THEN "closeLast" ELSE "idle")
  /\ UNCHANGED <<tracker, writer, doc, setup, lookup, manager, reporter>>

Finalize(i) ==
  /\ pc[i] = "finalize"
  /\ k8s' = [k8s EXCEPT ![i] = "absent"]
  /\ status' = [status EXCEPT ![i] = NoStatus]
  /\ Goto(i, "idle")
  /\ UNCHANGED <<tracker, writer, doc, setup, lookup, manager, reporter>>

--------------------------------------------------------------------------------
(* A manager's status events and its reporter *)

Emit(m, e) ==
  /\ life[m] = "running"
  /\ Len(events[m]) < EventBound
  /\ events' = [events EXCEPT ![m] = Append(@, e)]
  /\ healthy' = [healthy EXCEPT ![m] = @ \/ e = "HealthOk"]
  /\ UNCHANGED <<k8s, status, tracker, writer, pc, doc, setup, lookup, life, owner,
                 reporter>>

ManagerShutsDown(m) ==
  /\ "shutdown" \in Environment
  /\ life[m] = "running"
  /\ life' = [life EXCEPT ![m] = "down"]
  /\ events' = [events EXCEPT ![m] = Append(@, "Down")]
  /\ UNCHANGED <<k8s, status, tracker, writer, pc, doc, setup, lookup, owner, healthy,
                 reporter>>

(* Mutant: a pending manager makes Zigbee2MQTT's health pending too. *)
StatusAfterPending(s, e) ==
  CASE e = "Pending"     -> [s EXCEPT !.zigbee2mqtt = "pending"]
    [] e = "Active"      -> [set |-> TRUE, broker |-> TRUE, zigbee2mqtt |-> "false"]
    [] e = "Down"        -> Reset
    [] e = "HealthOk"    -> [set |-> TRUE, broker |-> TRUE, zigbee2mqtt |-> "true"]
    [] e = "HealthError" -> [s EXCEPT !.set = TRUE, !.zigbee2mqtt = "false"]

StatusAfter(s, e) ==
  CASE e = "Pending"     -> s
    [] e = "Active"      -> [set |-> TRUE, broker |-> TRUE, zigbee2mqtt |-> "false"]
    [] e = "Down"        -> Reset
    [] e = "HealthOk"    -> [set |-> TRUE, broker |-> TRUE, zigbee2mqtt |-> "true"]
    [] e = "HealthError" -> [s EXCEPT !.set = TRUE, !.zigbee2mqtt = "false"]

ReporterTakes(m) ==
  /\ pc[m] = "idle"
  /\ events[m] # <<>>
  /\ current' = [current EXCEPT ![m] = StatusAfter(@, Head(events[m]))]
  /\ events' = [events EXCEPT ![m] = Tail(@)]
  /\ Goto(m, "sync")
  /\ UNCHANGED <<k8s, status, tracker, writer, doc, setup, lookup, life, owner,
                 healthy, old>>

(* StatusManager::sync: nothing is sent when nothing changed. *)
ReporterSyncs(m) ==
  /\ pc[m] = "sync"
  /\ IF current[m] = old[m] THEN UNCHANGED status ELSE Patch(owner[m], current[m])
  /\ old' = [old EXCEPT ![m] = current[m]]
  /\ Goto(m, "write")
  /\ UNCHANGED <<k8s, tracker, writer, doc, setup, lookup, manager, current>>

(* The entry of the name gets the status, whichever manager it holds. *)
ReporterWrites(m) ==
  /\ pc[m] = "write"
  /\ writer = NoOne
  /\ entry' = [entry EXCEPT ![owner[m]].status =
                 IF entry[owner[m]].manager # NoOne THEN current[m] ELSE @]
  /\ Goto(m, "idle")
  /\ UNCHANGED <<k8s, status, listed, fresh, updater, writer, doc, setup, lookup,
                 manager, reporter>>

--------------------------------------------------------------------------------
(* InstanceTracker::get, called by the reconciler of a device or a group *)

Lookup(i) ==
  IF i \notin listed THEN "Missing"
  ELSE IF entry[i].manager = NoOne THEN "Pending"
  ELSE IF Healthy(entry[i].status) THEN "Ready" ELSE "Unhealthy"

Get(r) ==
  LET found == Lookup(InstanceOf[r]) IN
  /\ pc[r] = "idle"
  /\ writer = NoOne
  /\ IF found = "Missing"
       THEN Goto(r, "refresh") /\ updated' = [updated EXCEPT ![r] = FALSE]
            /\ UNCHANGED answer
       ELSE answer' = [answer EXCEPT ![r] = found] /\ UNCHANGED <<pc, updated>>
  /\ UNCHANGED <<k8s, status, tracker, writer, doc, setup, list, manager, reporter>>

(* A refresh less than an interval ago is not repeated. *)
RefreshBegin(r) ==
  /\ pc[r] = "refresh"
  /\ updater = NoOne
  /\ IF ~fresh
       THEN updater' = r /\ Goto(r, "fresh") /\ UNCHANGED answer
       ELSE /\ IF updated[r]
                 THEN Goto(r, "again") /\ UNCHANGED answer
                 ELSE Goto(r, "idle") /\ answer' = [answer EXCEPT ![r] = "Missing"]
            /\ UNCHANGED updater
  /\ UNCHANGED <<k8s, status, entry, listed, fresh, writer, doc, setup, list, updated,
                 manager, reporter>>

RefreshList(r) ==
  /\ pc[r] = "fresh"
  /\ list' = [list EXCEPT ![r] = {i \in Instances : k8s[i] # "absent"}]
  /\ Goto(r, "store")
  /\ UNCHANGED <<k8s, status, tracker, writer, doc, setup, updated, answer, manager,
                 reporter>>

RefreshFails(r) ==
  /\ "no_api" \in Environment
  /\ pc[r] = "fresh"
  /\ updater' = NoOne
  /\ Goto(r, "idle")
  /\ answer' = [answer EXCEPT ![r] = "Error"]
  /\ UNCHANGED <<k8s, status, entry, listed, fresh, writer, doc, setup, list, updated,
                 manager, reporter>>

(* Mutant: names that are new to the tracker are not taken over. *)
RefreshOnlyRemoves(r) ==
  /\ pc[r] = "store"
  /\ writer = NoOne
  /\ listed' = listed \cap list[r]
  /\ entry' = [i \in Instances |-> IF i \in list[r] THEN entry[i] ELSE NoEntry]
  /\ list' = [list EXCEPT ![r] = {}]
  /\ fresh' = TRUE
  /\ updater' = NoOne
  /\ updated' = [s \in Resources |-> TRUE]
  /\ Goto(r, "again")
  /\ UNCHANGED <<k8s, status, writer, doc, setup, answer, manager, reporter>>

(* Mutant: the map is built anew from the list. *)
RefreshReplaces(r) ==
  /\ pc[r] = "store"
  /\ writer = NoOne
  /\ listed' = list[r]
  /\ entry' = [i \in Instances |-> NoEntry]
  /\ list' = [list EXCEPT ![r] = {}]
  /\ fresh' = TRUE
  /\ updater' = NoOne
  /\ updated' = [s \in Resources |-> TRUE]
  /\ Goto(r, "again")
  /\ UNCHANGED <<k8s, status, writer, doc, setup, answer, manager, reporter>>

(* Names the list lacks are removed from the map, with what they hold. *)
RefreshStore(r) ==
  /\ pc[r] = "store"
  /\ writer = NoOne
  /\ listed' = list[r]
  /\ entry' = [i \in Instances |-> IF i \in list[r] THEN entry[i] ELSE NoEntry]
  /\ list' = [list EXCEPT ![r] = {}]
  /\ fresh' = TRUE
  /\ updater' = NoOne
  /\ updated' = [s \in Resources |-> TRUE]
  /\ Goto(r, "again")
  /\ UNCHANGED <<k8s, status, writer, doc, setup, answer, manager, reporter>>

GetAgain(r) ==
  /\ pc[r] = "again"
  /\ writer = NoOne
  /\ answer' = [answer EXCEPT ![r] = Lookup(InstanceOf[r])]
  /\ Goto(r, "idle")
  /\ UNCHANGED <<k8s, status, tracker, writer, doc, setup, list, updated, manager,
                 reporter>>

(* An interval passes. *)
Tick ==
  /\ fresh
  /\ fresh' = FALSE
  /\ UNCHANGED <<k8s, status, entry, listed, updater, writer, pc, doc, setup, lookup,
                 manager, reporter>>

--------------------------------------------------------------------------------

SetupStep(i) ==
  \/ SetupLock(i) \/ CheckStatus(i) \/ CloseManager(i) \/ OptionsFail(i)
  \/ UpdateOptions(i) \/ \E m \in Managers : StartManager(i, m)
  \/ StartFails(i) \/ ReconcileEnd(i)
InstanceStep(i) == Create(i) \/ Delete(i) \/ ReconcileBegin(i)
CleanupStep(i) == CleanupRemove(i) \/ CleanupClose(i) \/ Finalize(i)
ReporterStep(m) == ReporterTakes(m) \/ ReporterSyncs(m) \/ ReporterWrites(m)
ManagerStep(m) == (\E e \in Emitted : Emit(m, e)) \/ ManagerShutsDown(m)
ResourceStep(r) ==
  \/ Get(r) \/ RefreshBegin(r) \/ RefreshList(r) \/ RefreshFails(r) \/ RefreshStore(r)
  \/ GetAgain(r)

Next ==
  \/ \E i \in Instances : InstanceStep(i) \/ SetupStep(i) \/ CleanupStep(i)
  \/ \E m \in Managers : ReporterStep(m) \/ ManagerStep(m)
  \/ \E r \in Resources : ResourceStep(r)
  \/ Tick

Spec == Init /\ [][Next]_vars

(* A reconcile that has begun goes on, cleanups are retried, reporters and  *)
(* resources keep running, and an interval passes in the end. Nothing makes *)
(* the reconcile of an instance begin.                                      *)
FairSpec ==
  /\ Spec
  /\ \A i \in Instances : SF_vars(SetupStep(i)) /\ SF_vars(CleanupStep(i))
  /\ \A m \in Managers : SF_vars(ReporterStep(m))
  /\ \A r \in Resources : SF_vars(ResourceStep(r))
  /\ WF_vars(Tick)

--------------------------------------------------------------------------------
(* Properties *)

(* A manager that runs can still be reached to be closed: it is the one of   *)
(* its instance's entry, or a cleanup is about to close it. Two managers of  *)
(* one instance would take the broker session from each other (setup_manager *)
(* and cleanup).                                                             *)
RunningIsHeld ==
  \A m \in Managers : life[m] = "running" =>
    \/ entry[owner[m]].manager = m
    \/ pc[owner[m]] = "closeLast" /\ setup[owner[m]] = m

(* Nobody but the holder of the map ever sees a closed manager in it, so that*)
(* get never hands one out (setup_manager, get).                             *)
ClosedIsNotListed ==
  writer = NoOne =>
    \A i \in Instances :
      entry[i].manager # NoOne => life[entry[i].manager] # "closed"

(* An instance that is gone has left no manager behind (cleanup, with the    *)
(* finalizer that keeps the resource until it is done).                      *)
GoneHasNoManager ==
  \A m \in Managers : life[m] = "running" => k8s[owner[m]] # "absent"

(* The deletion of an instance completes.                                    *)
DeletionCompletes ==
  \A i \in Instances : k8s[i] = "deleting" ~> k8s[i] = "absent"

(* A resource whose instance exists is not told for ever that it does not,   *)
(* even if the instance is never reconciled (get with its refresh).          *)
MissingResolves ==
  \A r \in Resources :
    (<>[](k8s[InstanceOf[r]] = "present")) => []<>(answer[r] # "Missing")

--------------------------------------------------------------------------------
(* What the code is written for and does not guarantee. The README names, for *)
(* each, the change of a configuration under which it is seen to fail.        *)

(* Ready: the manager beside the status has seen Zigbee2MQTT healthy. The     *)
(* reporter may have started from the status of an earlier manager.           *)
ReadyMeansHealthy ==
  \A i \in Instances :
    writer = NoOne /\ Lookup(i) = "Ready" => healthy[entry[i].manager]

(* Missing: there is no instance with the name. It may have been created      *)
(* after the last refresh.                                                    *)
MissingMeansAbsent ==
  [][\A r \in Resources :
       pc[r] = "refresh" /\ pc'[r] = "idle" => k8s[InstanceOf[r]] = "absent"]_vars
================================================================================
