------------------------- MODULE InstanceTrackerProofs -------------------------
(***************************************************************************)
(* What the modules of the instances promise, for every set of instances,  *)
(* resources and managers: the variables keep their types, no closed       *)
(* manager is left in the map, and, as long as no refresh overlaps the     *)
(* creation of an instance, every manager that runs can be reached and an  *)
(* instance that is gone has none.                                         *)
(*                                                                         *)
(* The type invariant is proved in five parts, one per group of variables, *)
(* since most actions touch the places and one other group.                *)
(***************************************************************************)
EXTENDS InstanceTracker, TLAPS

--------------------------------------------------------------------------------
(* The types, by groups of variables *)

Actors == Instances \cup Resources \cup Managers
InstancePlaces ==
  {"idle", "lock", "check", "closeOld", "options", "closeUnfit", "start",
   "work", "closeLast", "finalize"}
ResourcePlaces == {"idle", "refresh", "fresh", "store", "again"}
ReporterPlaces == {"idle", "sync", "write"}
Places == InstancePlaces \cup ResourcePlaces \cup ReporterPlaces
PlacesOK ==
  /\ pc \in [Actors -> Places]
  /\ \A i \in Instances : pc[i] \in InstancePlaces
  /\ \A r \in Resources : pc[r] \in ResourcePlaces
  /\ \A m \in Managers : pc[m] \in ReporterPlaces
EntryType == [manager : Managers \cup {NoOne}, status : Statuses]
K8sOK ==
  /\ k8s \in [Instances -> {"absent", "present", "deleting"}]
  /\ status \in [Instances -> Statuses]
  /\ doc \in [Instances -> Statuses]
MapOK ==
  /\ entry \in [Instances -> EntryType]
  /\ listed \subseteq Instances
  /\ writer \in Instances \cup Resources \cup Managers \cup {NoOne}
  /\ updater \in Resources \cup {NoOne}
  /\ fresh \in BOOLEAN
  /\ setup \in [Instances -> Managers \cup {NoOne}]
LookupOK ==
  /\ list \in [Resources -> SUBSET Instances]
  /\ updated \in [Resources -> BOOLEAN]
  /\ answer \in [Resources -> {"none", "Missing", "Pending", "Unhealthy", "Ready", "Error"}]
ManagersOK ==
  /\ life \in [Managers -> {"unused", "running", "down", "closed"}]
  /\ owner \in [Managers -> Instances \cup {NoOne}]
  /\ healthy \in [Managers -> BOOLEAN]
  /\ events \in [Managers -> Seq(Events)]
  /\ current \in [Managers -> Statuses]
  /\ old \in [Managers -> Statuses]
Types == PlacesOK /\ K8sOK /\ MapOK /\ LookupOK /\ ManagersOK

LEMMA TypesAreTypeOK == Types => TypeOK
BY DEF Types, TypeOK, PlacesOK, K8sOK, MapOK, LookupOK, ManagersOK, EntryType,
       InstancePlaces, ResourcePlaces, ReporterPlaces

LEMMA Constants ==
  /\ NoStatus \in Statuses /\ Reset \in Statuses /\ NoEntry \in EntryType
  /\ NoEntry.manager = NoOne
BY DEF NoStatus, Reset, Statuses, NoEntry, EntryType

(* Who moves goes to a place of its own kind.                               *)
LEMMA Disjoint ==
  /\ Instances \cap Resources = {} /\ Instances \cap Managers = {}
  /\ Resources \cap Managers = {}
BY TrackerAssumption

LEMMA InstanceGoes ==
  ASSUME PlacesOK, NEW i \in Instances, NEW s \in InstancePlaces, Goto(i, s)
  PROVE  PlacesOK'
<1>1. s \in Places
  BY DEF Places
<1>2. pc' \in [Actors -> Places] /\ \A a \in Actors : pc'[a] = IF a = i THEN s ELSE pc[a]
  BY <1>1 DEF Goto, PlacesOK, Actors
<1> QED BY <1>2, Disjoint DEF PlacesOK, Actors

LEMMA ResourceGoes ==
  ASSUME PlacesOK, NEW r \in Resources, NEW s \in ResourcePlaces, Goto(r, s)
  PROVE  PlacesOK'
<1>1. s \in Places
  BY DEF Places
<1>2. pc' \in [Actors -> Places] /\ \A a \in Actors : pc'[a] = IF a = r THEN s ELSE pc[a]
  BY <1>1 DEF Goto, PlacesOK, Actors
<1> QED BY <1>2, Disjoint DEF PlacesOK, Actors

LEMMA ReporterGoes ==
  ASSUME PlacesOK, NEW m \in Managers, NEW s \in ReporterPlaces, Goto(m, s)
  PROVE  PlacesOK'
<1>1. s \in Places
  BY DEF Places
<1>2. pc' \in [Actors -> Places] /\ \A a \in Actors : pc'[a] = IF a = m THEN s ELSE pc[a]
  BY <1>1 DEF Goto, PlacesOK, Actors
<1> QED BY <1>2, Disjoint DEF PlacesOK, Actors

LEMMA EventTyped ==
  ASSUME ManagersOK, NEW m, NEW e \in Events, events' = [events EXCEPT ![m] = Append(@, e)]
  PROVE  events' \in [Managers -> Seq(Events)]
<1> SUFFICES ASSUME NEW n \in Managers PROVE events'[n] \in Seq(Events)
  BY DEF ManagersOK
<1>1. events[n] \in Seq(Events)
  BY DEF ManagersOK
<1> QED BY <1>1 DEF ManagersOK

LEMMA CloseTyped ==
  ASSUME ManagersOK, NEW m, Close(m), UNCHANGED reporter
  PROVE  ManagersOK'
<1>1. events' \in [Managers -> Seq(Events)]
  <2>1. "Down" \in Events
    BY DEF Events
  <2> QED BY <2>1, EventTyped DEF Close, ManagersOK
<1>2. life' \in [Managers -> {"unused", "running", "down", "closed"}]
  BY DEF Close, ManagersOK
<1> QED BY <1>1, <1>2 DEF Close, ManagersOK, reporter

LEMMA StatusTyped ==
  ASSUME NEW s \in Statuses, NEW e \in Events
  PROVE  StatusAfter(s, e) \in Statuses
BY DEF StatusAfter, Statuses, Events, Reset

LEMMA LookupTyped ==
  ASSUME NEW i
  PROVE  Lookup(i) \in {"Missing", "Pending", "Unhealthy", "Ready"}
BY DEF Lookup

(* An instance is created, deleted, or its reconcile begins. *)
LEMMA InstanceTypes ==
  ASSUME Types, NEW i \in Instances, InstanceStep(i)
  PROVE  Types'
<1>1. ASSUME Create(i) PROVE Types'
  <2>1. PlacesOK' /\ MapOK' /\ LookupOK' /\ ManagersOK'
    BY <1>1 DEF Types, Create, PlacesOK, MapOK, LookupOK, ManagersOK, tracker, lookup,
                manager, reporter, Actors
  <2>2. K8sOK'
    BY <1>1, Constants DEF Types, Create, K8sOK
  <2> QED BY <2>1, <2>2 DEF Types
<1>2. ASSUME Delete(i) PROVE Types'
  <2>1. PlacesOK' /\ MapOK' /\ LookupOK' /\ ManagersOK'
    BY <1>2 DEF Types, Delete, PlacesOK, MapOK, LookupOK, ManagersOK, tracker, lookup,
                manager, reporter, Actors
  <2>2. K8sOK'
    BY <1>2 DEF Types, Delete, K8sOK
  <2> QED BY <2>1, <2>2 DEF Types
<1>3. ASSUME ReconcileBegin(i) PROVE Types'
  <2>1. PICK s \in InstancePlaces : Goto(i, s)
    BY <1>3 DEF ReconcileBegin, InstancePlaces
  <2>2. PlacesOK'
    BY <2>1, InstanceGoes DEF Types
  <2>3. MapOK' /\ LookupOK' /\ ManagersOK'
    BY <1>3 DEF Types, ReconcileBegin, MapOK, LookupOK, ManagersOK, tracker, lookup,
                manager, reporter
  <2>4. K8sOK'
    BY <1>3 DEF Types, ReconcileBegin, K8sOK
  <2> QED BY <2>2, <2>3, <2>4 DEF Types
<1> QED BY <1>1, <1>2, <1>3 DEF InstanceStep

(* setup_manager. *)
LEMMA SetupTypes ==
  ASSUME Types, NEW i \in Instances, SetupStep(i)
  PROVE  Types'
<1>1. ASSUME SetupLock(i) PROVE Types'
  <2>1. PICK s \in InstancePlaces : Goto(i, s)
    BY <1>1 DEF SetupLock, InstancePlaces
  <2>2. PlacesOK'
    BY <2>1, InstanceGoes DEF Types
  <2>3. K8sOK' /\ LookupOK' /\ ManagersOK'
    BY <1>1 DEF Types, SetupLock, K8sOK, LookupOK, ManagersOK, lookup, manager, reporter
  <2>4. MapOK'
    BY <1>1 DEF Types, SetupLock, MapOK, tracker, Lock
  <2> QED BY <2>2, <2>3, <2>4 DEF Types
<1>2. ASSUME CheckStatus(i) PROVE Types'
  <2>1. PICK s \in InstancePlaces : Goto(i, s)
    BY <1>2 DEF CheckStatus, InstancePlaces
  <2>2. PlacesOK'
    BY <2>1, InstanceGoes DEF Types
  <2>3. K8sOK' /\ MapOK' /\ LookupOK' /\ ManagersOK'
    BY <1>2 DEF Types, CheckStatus, K8sOK, MapOK, LookupOK, ManagersOK, tracker, lookup,
                manager, reporter
  <2> QED BY <2>2, <2>3 DEF Types
<1>3. ASSUME CloseManager(i) PROVE Types'
  <2>1. PICK s \in InstancePlaces : Goto(i, s)
    BY <1>3 DEF CloseManager, InstancePlaces
  <2>2. PlacesOK'
    BY <2>1, InstanceGoes DEF Types
  <2>3. K8sOK' /\ LookupOK'
    BY <1>3 DEF Types, CloseManager, K8sOK, LookupOK, lookup
  <2>4. MapOK'
    BY <1>3, Constants DEF Types, CloseManager, MapOK
  <2>5. ManagersOK'
    BY <1>3, CloseTyped DEF Types, CloseManager, ManagersOK
  <2> QED BY <2>2, <2>3, <2>4, <2>5 DEF Types
<1>4. ASSUME OptionsFail(i) PROVE Types'
  <2>1. PICK s \in InstancePlaces : Goto(i, s)
    BY <1>4 DEF OptionsFail, InstancePlaces
  <2>2. PlacesOK'
    BY <2>1, InstanceGoes DEF Types
  <2>3. K8sOK' /\ LookupOK' /\ ManagersOK'
    BY <1>4 DEF Types, OptionsFail, K8sOK, LookupOK, ManagersOK, lookup, manager, reporter
  <2>4. MapOK'
    BY <1>4 DEF Types, OptionsFail, MapOK, tracker, Unlock
  <2> QED BY <2>2, <2>3, <2>4 DEF Types
<1>5. ASSUME UpdateOptions(i) PROVE Types'
  <2>1. PICK s \in InstancePlaces : Goto(i, s)
    BY <1>5 DEF UpdateOptions, InstancePlaces
  <2>2. PlacesOK'
    BY <2>1, InstanceGoes DEF Types
  <2>3. K8sOK' /\ LookupOK' /\ ManagersOK'
    BY <1>5 DEF Types, UpdateOptions, K8sOK, LookupOK, ManagersOK, lookup, manager, reporter
  <2>4. MapOK'
    BY <1>5 DEF Types, UpdateOptions, MapOK, tracker, Unlock, EntryType
  <2> QED BY <2>2, <2>3, <2>4 DEF Types
<1>6. ASSUME NEW m \in Managers, StartManager(i, m) PROVE Types'
  <2>1. PICK s \in InstancePlaces : Goto(i, s)
    BY <1>6 DEF StartManager, InstancePlaces
  <2>2. PlacesOK'
    BY <2>1, InstanceGoes DEF Types
  <2>3. LookupOK'
    BY <1>6 DEF Types, StartManager, LookupOK, lookup
  <2>4. K8sOK'
    BY <1>6, Constants DEF Types, StartManager, K8sOK, Patch
  <2>5. MapOK'
    BY <1>6, Constants DEF Types, StartManager, MapOK, Unlock, EntryType
  <2>6. ManagersOK'
    <3>1. <<"Pending", "Active">> \in Seq(Events)
      BY DEF Events
    <3>2. doc[i] \in Statuses /\ [doc[i] EXCEPT !.set = TRUE] \in Statuses
      BY DEF Types, K8sOK, Statuses
    <3> QED BY <1>6, <3>1, <3>2 DEF Types, StartManager, ManagersOK
  <2> QED BY <2>2, <2>3, <2>4, <2>5, <2>6 DEF Types
<1>7. ASSUME StartFails(i) PROVE Types'
  <2>1. PICK s \in InstancePlaces : Goto(i, s)
    BY <1>7 DEF StartFails, InstancePlaces
  <2>2. PlacesOK'
    BY <2>1, InstanceGoes DEF Types
  <2>3. LookupOK' /\ ManagersOK'
    BY <1>7 DEF Types, StartFails, LookupOK, ManagersOK, lookup, manager, reporter
  <2>4. K8sOK'
    BY <1>7, Constants DEF Types, StartFails, K8sOK, Patch
  <2>5. MapOK'
    BY <1>7 DEF Types, StartFails, MapOK, tracker, Unlock
  <2> QED BY <2>2, <2>3, <2>4, <2>5 DEF Types
<1>8. ASSUME ReconcileEnd(i) PROVE Types'
  <2>1. PICK s \in InstancePlaces : Goto(i, s)
    BY <1>8 DEF ReconcileEnd, InstancePlaces
  <2>2. PlacesOK'
    BY <2>1, InstanceGoes DEF Types
  <2>3. K8sOK' /\ LookupOK' /\ ManagersOK'
    BY <1>8 DEF Types, ReconcileEnd, K8sOK, LookupOK, ManagersOK, lookup, manager, reporter
  <2>4. MapOK'
    BY <1>8 DEF Types, ReconcileEnd, MapOK, tracker
  <2> QED BY <2>2, <2>3, <2>4 DEF Types
<1> QED BY <1>1, <1>2, <1>3, <1>4, <1>5, <1>6, <1>7, <1>8 DEF SetupStep

(* cleanup and the finalizer. *)
LEMMA CleanupTypes ==
  ASSUME Types, NEW i \in Instances, CleanupStep(i)
  PROVE  Types'
<1>1. ASSUME CleanupRemove(i) PROVE Types'
  <2>1. PICK s \in InstancePlaces : Goto(i, s)
    BY <1>1 DEF CleanupRemove, InstancePlaces
  <2>2. PlacesOK'
    BY <2>1, InstanceGoes DEF Types
  <2>3. K8sOK' /\ LookupOK' /\ ManagersOK'
    BY <1>1 DEF Types, CleanupRemove, K8sOK, LookupOK, ManagersOK, lookup, manager, reporter
  <2>4. MapOK'
    BY <1>1, Constants DEF Types, CleanupRemove, MapOK, EntryType
  <2> QED BY <2>2, <2>3, <2>4 DEF Types
<1>2. ASSUME CleanupClose(i) PROVE Types'
  <2>1. PICK s \in InstancePlaces : Goto(i, s)
    BY <1>2 DEF CleanupClose, InstancePlaces
  <2>2. PlacesOK'
    BY <2>1, InstanceGoes DEF Types
  <2>3. K8sOK' /\ LookupOK'
    BY <1>2 DEF Types, CleanupClose, K8sOK, LookupOK, lookup
  <2>4. MapOK'
    BY <1>2 DEF Types, CleanupClose, MapOK, tracker
  <2>5. ManagersOK'
    BY <1>2, CloseTyped DEF Types, CleanupClose, ManagersOK
  <2> QED BY <2>2, <2>3, <2>4, <2>5 DEF Types
<1>3. ASSUME Finalize(i) PROVE Types'
  <2>1. PICK s \in InstancePlaces : Goto(i, s)
    BY <1>3 DEF Finalize, InstancePlaces
  <2>2. PlacesOK'
    BY <2>1, InstanceGoes DEF Types
  <2>3. MapOK' /\ LookupOK' /\ ManagersOK'
    BY <1>3 DEF Types, Finalize, MapOK, LookupOK, ManagersOK, tracker, lookup, manager,
                reporter
  <2>4. K8sOK'
    BY <1>3, Constants DEF Types, Finalize, K8sOK
  <2> QED BY <2>2, <2>3, <2>4 DEF Types
<1> QED BY <1>1, <1>2, <1>3 DEF CleanupStep

(* The reporter of a manager. *)
LEMMA ReporterTypes ==
  ASSUME Types, NEW m \in Managers, ReporterStep(m)
  PROVE  Types'
<1>1. ASSUME ReporterTakes(m) PROVE Types'
  <2>1. PICK s \in ReporterPlaces : Goto(m, s)
    BY <1>1 DEF ReporterTakes, ReporterPlaces
  <2>2. PlacesOK'
    BY <2>1, ReporterGoes DEF Types
  <2>3. K8sOK' /\ MapOK' /\ LookupOK'
    BY <1>1 DEF Types, ReporterTakes, K8sOK, MapOK, LookupOK, tracker, lookup
  <2>4. ManagersOK'
    <3>1. events[m] \in Seq(Events) /\ current[m] \in Statuses
      BY DEF Types, ManagersOK
    <3>2. Head(events[m]) \in Events /\ Tail(events[m]) \in Seq(Events)
      BY <1>1, <3>1 DEF ReporterTakes
    <3>3. StatusAfter(current[m], Head(events[m])) \in Statuses
      BY <3>1, <3>2, StatusTyped
    <3> QED BY <1>1, <3>2, <3>3 DEF Types, ReporterTakes, ManagersOK
  <2> QED BY <2>2, <2>3, <2>4 DEF Types
<1>2. ASSUME ReporterSyncs(m) PROVE Types'
  <2>1. PICK s \in ReporterPlaces : Goto(m, s)
    BY <1>2 DEF ReporterSyncs, ReporterPlaces
  <2>2. PlacesOK'
    BY <2>1, ReporterGoes DEF Types
  <2>3. MapOK' /\ LookupOK'
    BY <1>2 DEF Types, ReporterSyncs, MapOK, LookupOK, tracker, lookup
  <2>4. K8sOK'
    BY <1>2 DEF Types, ReporterSyncs, K8sOK, Patch, ManagersOK
  <2>5. ManagersOK'
    BY <1>2 DEF Types, ReporterSyncs, ManagersOK, manager
  <2> QED BY <2>2, <2>3, <2>4, <2>5 DEF Types
<1>3. ASSUME ReporterWrites(m) PROVE Types'
  <2>1. PICK s \in ReporterPlaces : Goto(m, s)
    BY <1>3 DEF ReporterWrites, ReporterPlaces
  <2>2. PlacesOK'
    BY <2>1, ReporterGoes DEF Types
  <2>3. K8sOK' /\ LookupOK' /\ ManagersOK'
    BY <1>3 DEF Types, ReporterWrites, K8sOK, LookupOK, ManagersOK, lookup, manager,
                reporter
  <2>4. MapOK'
    BY <1>3 DEF Types, ReporterWrites, MapOK, EntryType, ManagersOK
  <2> QED BY <2>2, <2>3, <2>4 DEF Types
<1> QED BY <1>1, <1>2, <1>3 DEF ReporterStep

(* A manager seen from outside. *)
LEMMA ManagerTypes ==
  ASSUME Types, NEW m \in Managers, ManagerStep(m)
  PROVE  Types'
<1>1. ASSUME NEW e \in Emitted, Emit(m, e) PROVE Types'
  <2>1. PlacesOK' /\ K8sOK' /\ MapOK' /\ LookupOK'
    BY <1>1 DEF Types, Emit, PlacesOK, K8sOK, MapOK, LookupOK, tracker, lookup, Actors
  <2>2. ManagersOK'
    <3>1. e \in Events
      BY TrackerAssumption DEF Events
    <3>2. events' \in [Managers -> Seq(Events)]
      BY <1>1, <3>1, EventTyped DEF Types, Emit
    <3>3. healthy' \in [Managers -> BOOLEAN]
      BY <1>1 DEF Types, Emit, ManagersOK
    <3> QED BY <1>1, <3>2, <3>3 DEF Types, Emit, ManagersOK, reporter
  <2> QED BY <2>1, <2>2 DEF Types
<1>2. ASSUME ManagerShutsDown(m) PROVE Types'
  <2>1. PlacesOK' /\ K8sOK' /\ MapOK' /\ LookupOK'
    BY <1>2 DEF Types, ManagerShutsDown, PlacesOK, K8sOK, MapOK, LookupOK, tracker, lookup,
                Actors
  <2>2. ManagersOK'
    <3>1. "Down" \in Events
      BY DEF Events
    <3>2. events' \in [Managers -> Seq(Events)]
      BY <1>2, <3>1, EventTyped DEF Types, ManagerShutsDown
    <3> QED BY <1>2, <3>2 DEF Types, ManagerShutsDown, ManagersOK, reporter
  <2> QED BY <2>1, <2>2 DEF Types
<1> QED BY <1>1, <1>2 DEF ManagerStep

(* get and the refresh of the tracker. *)
LEMMA ResourceTypes ==
  ASSUME Types, NEW r \in Resources, ResourceStep(r)
  PROVE  Types'
<1>1. ASSUME Get(r) PROVE Types'
  <2>1. PlacesOK'
    <3>1. CASE pc' = pc
      BY <3>1 DEF Types, PlacesOK
    <3>2. CASE Goto(r, "refresh")
      BY <3>2, ResourceGoes DEF Types, ResourcePlaces
    <3> QED BY <1>1, <3>1, <3>2 DEF Get
  <2>2. K8sOK' /\ MapOK' /\ ManagersOK'
    BY <1>1 DEF Types, Get, K8sOK, MapOK, ManagersOK, tracker, manager, reporter
  <2>3. LookupOK'
    BY <1>1, LookupTyped DEF Types, Get, LookupOK
  <2> QED BY <2>1, <2>2, <2>3 DEF Types
<1>2. ASSUME RefreshBegin(r) PROVE Types'
  <2>1. PICK s \in ResourcePlaces : Goto(r, s)
    BY <1>2 DEF RefreshBegin, ResourcePlaces
  <2>2. PlacesOK'
    BY <2>1, ResourceGoes DEF Types
  <2>3. K8sOK' /\ ManagersOK'
    BY <1>2 DEF Types, RefreshBegin, K8sOK, ManagersOK, manager, reporter
  <2>4. MapOK'
    BY <1>2 DEF Types, RefreshBegin, MapOK
  <2>5. LookupOK'
    BY <1>2 DEF Types, RefreshBegin, LookupOK
  <2> QED BY <2>2, <2>3, <2>4, <2>5 DEF Types
<1>3. ASSUME RefreshList(r) PROVE Types'
  <2>1. PICK s \in ResourcePlaces : Goto(r, s)
    BY <1>3 DEF RefreshList, ResourcePlaces
  <2>2. PlacesOK'
    BY <2>1, ResourceGoes DEF Types
  <2>3. K8sOK' /\ MapOK' /\ ManagersOK'
    BY <1>3 DEF Types, RefreshList, K8sOK, MapOK, ManagersOK, tracker, manager, reporter
  <2>4. LookupOK'
    BY <1>3 DEF Types, RefreshList, LookupOK
  <2> QED BY <2>2, <2>3, <2>4 DEF Types
<1>4. ASSUME RefreshFails(r) PROVE Types'
  <2>1. PICK s \in ResourcePlaces : Goto(r, s)
    BY <1>4 DEF RefreshFails, ResourcePlaces
  <2>2. PlacesOK'
    BY <2>1, ResourceGoes DEF Types
  <2>3. K8sOK' /\ ManagersOK'
    BY <1>4 DEF Types, RefreshFails, K8sOK, ManagersOK, manager, reporter
  <2>4. MapOK'
    BY <1>4 DEF Types, RefreshFails, MapOK
  <2>5. LookupOK'
    BY <1>4 DEF Types, RefreshFails, LookupOK
  <2> QED BY <2>2, <2>3, <2>4, <2>5 DEF Types
<1>5. ASSUME RefreshStore(r) PROVE Types'
  <2>1. PICK s \in ResourcePlaces : Goto(r, s)
    BY <1>5 DEF RefreshStore, ResourcePlaces
  <2>2. PlacesOK'
    BY <2>1, ResourceGoes DEF Types
  <2>3. K8sOK' /\ ManagersOK'
    BY <1>5 DEF Types, RefreshStore, K8sOK, ManagersOK, manager, reporter
  <2>4. MapOK'
    <3>1. list[r] \in SUBSET Instances
      BY DEF Types, LookupOK
    <3>2. entry' \in [Instances -> EntryType]
      BY <1>5, Constants DEF Types, RefreshStore, MapOK
    <3> QED BY <1>5, <3>1, <3>2 DEF Types, RefreshStore, MapOK
  <2>5. LookupOK'
    BY <1>5 DEF Types, RefreshStore, LookupOK
  <2> QED BY <2>2, <2>3, <2>4, <2>5 DEF Types
<1>6. ASSUME GetAgain(r) PROVE Types'
  <2>1. PICK s \in ResourcePlaces : Goto(r, s)
    BY <1>6 DEF GetAgain, ResourcePlaces
  <2>2. PlacesOK'
    BY <2>1, ResourceGoes DEF Types
  <2>3. K8sOK' /\ MapOK' /\ ManagersOK'
    BY <1>6 DEF Types, GetAgain, K8sOK, MapOK, ManagersOK, tracker, manager, reporter
  <2>4. LookupOK'
    BY <1>6, LookupTyped DEF Types, GetAgain, LookupOK
  <2> QED BY <2>2, <2>3, <2>4 DEF Types
<1> QED BY <1>1, <1>2, <1>3, <1>4, <1>5, <1>6 DEF ResourceStep

LEMMA InitTypes == Init => Types
<1> SUFFICES ASSUME Init PROVE Types
  OBVIOUS
<1>1. PlacesOK
  BY DEF Init, PlacesOK, Actors, Places, InstancePlaces, ResourcePlaces, ReporterPlaces
<1>2. K8sOK
  <2>1. [Reset EXCEPT !.broker = TRUE, !.zigbee2mqtt = "true"] \in Statuses
    BY DEF Reset, Statuses
  <2> QED BY <2>1, Constants DEF Init, K8sOK
<1>3. MapOK /\ LookupOK
  BY Constants DEF Init, MapOK, LookupOK
<1>4. ManagersOK
  BY Constants DEF Init, ManagersOK
<1> QED BY <1>1, <1>2, <1>3, <1>4 DEF Types

LEMMA TypesStep == Types /\ [Next]_vars => Types'
<1> SUFFICES ASSUME Types, [Next]_vars PROVE Types'
  OBVIOUS
<1>1. CASE UNCHANGED vars
  BY <1>1 DEF vars, tracker, lookup, manager, reporter, Types, PlacesOK, K8sOK, MapOK,
              LookupOK, ManagersOK
<1>2. CASE Tick
  <2>1. PlacesOK' /\ K8sOK' /\ LookupOK' /\ ManagersOK'
    BY <1>2 DEF Tick, Types, PlacesOK, K8sOK, LookupOK, ManagersOK, lookup, manager,
                reporter
  <2>2. MapOK'
    BY <1>2 DEF Tick, Types, MapOK
  <2> QED BY <2>1, <2>2 DEF Types
<1> QED BY <1>1, <1>2, InstanceTypes, SetupTypes, CleanupTypes, ReporterTypes,
           ManagerTypes, ResourceTypes DEF Next

(* Every variable keeps its type.                                            *)
THEOREM TypeCorrect == Spec => []TypeOK
<1>1. Spec => []Types
  BY InitTypes, TypesStep, PTL DEF Spec
<1> QED BY <1>1, TypesAreTypeOK, PTL

--------------------------------------------------------------------------------
(* The safety of the managers in the map *)

Alive(m) == life[m] \in {"running", "down"}

(* What holds of an instance, whatever the others do: the manager in its    *)
(* entry is its own and not closed, and it has none while one is made or    *)
(* its last one is closed.                                                  *)
InstanceSafe(i) ==
  /\ pc[i] \in {"start", "closeLast", "finalize"} => entry[i].manager = NoOne
  /\ entry[i].manager # NoOne =>
       Alive(entry[i].manager) /\ owner[entry[i].manager] = i
  /\ pc[i] = "closeLast" =>
       setup[i] \in Managers /\ Alive(setup[i]) /\ owner[setup[i]] = i
Safe == \A i \in Instances : InstanceSafe(i)

LEMMA Moved ==
  ASSUME PlacesOK, NEW a \in Actors, NEW s, Goto(a, s)
  PROVE  /\ pc'[a] = s
         /\ \A b \in Actors \ {a} : pc'[b] = pc[b]
BY DEF PlacesOK, Goto

(* A step that is none of the instance's own.                               *)
LEMMA SafeFrame ==
  ASSUME Types, NEW i \in Instances, InstanceSafe(i),
         pc'[i] = pc[i], setup'[i] = setup[i],
         entry'[i].manager \in {NoOne, entry[i].manager},
         \A m \in Managers : Alive(m) /\ owner[m] = i => Alive(m)' /\ owner'[m] = i
  PROVE  InstanceSafe(i)'
<1>1. entry[i].manager \in Managers \cup {NoOne}
  BY DEF Types, MapOK, EntryType
<1> QED BY <1>1 DEF InstanceSafe

(* A step of one instance: the rest of the map is not touched, nor the      *)
(* managers that are not its own.                                           *)
LEMMA OneInstance ==
  ASSUME Types, Safe, NEW i \in Instances, NEW s, Goto(i, s), InstanceSafe(i)',
         \A j \in Instances \ {i} : setup'[j] = setup[j] /\ entry'[j] = entry[j],
         \A m \in Managers :
           Alive(m) /\ owner[m] # i => Alive(m)' /\ owner'[m] = owner[m]
  PROVE  Safe'
<1> SUFFICES ASSUME NEW j \in Instances, j # i PROVE InstanceSafe(j)'
  BY DEF Safe
<1>1. pc'[j] = pc[j]
  BY Moved DEF Types, Actors
<1> QED BY <1>1, SafeFrame DEF Safe

(* A step of nobody's reconcile.                                            *)
LEMMA NoInstance ==
  ASSUME Types, Safe, setup' = setup,
         \A i \in Instances : pc'[i] = pc[i] /\ entry'[i].manager \in {NoOne, entry[i].manager},
         \A m \in Managers : Alive(m) => Alive(m)' /\ owner'[m] = owner[m]
  PROVE  Safe'
BY SafeFrame DEF Safe

LEMMA ReporterMoved ==
  ASSUME PlacesOK, NEW m \in Managers, NEW s, Goto(m, s)
  PROVE  \A i \in Instances : pc'[i] = pc[i]
BY Moved, Disjoint DEF Actors

LEMMA ResourceMoved ==
  ASSUME PlacesOK, NEW r \in Resources, NEW s, Goto(r, s)
  PROVE  \A i \in Instances : pc'[i] = pc[i]
BY Moved, Disjoint DEF Actors

LEMMA SetupSafe ==
  ASSUME Types, Safe, NEW i \in Instances, SetupStep(i)
  PROVE  Safe'
<1> USE DEF InstanceSafe, Alive
<1>0. /\ i \in Actors
      /\ InstanceSafe(i)
      /\ entry[i].manager \in Managers \cup {NoOne}
      /\ entry \in [Instances -> EntryType]
      /\ setup \in [Instances -> Managers \cup {NoOne}]
      /\ life \in [Managers -> {"unused", "running", "down", "closed"}]
      /\ owner \in [Managers -> Instances \cup {NoOne}]
      /\ PlacesOK
  BY DEF Safe, Types, MapOK, ManagersOK, EntryType, Actors
<1>1. ASSUME SetupLock(i) PROVE Safe'
  <2>1. Goto(i, "check") /\ UNCHANGED <<entry, setup, life, owner>>
    BY <1>1 DEF SetupLock, manager
  <2> QED BY <1>0, <2>1, Moved, OneInstance
<1>2. ASSUME CheckStatus(i) PROVE Safe'
  <2>1. PICK s \in {"closeOld", "options"} : Goto(i, s)
    BY <1>2 DEF CheckStatus
  <2>2. UNCHANGED <<entry, setup, life, owner>>
    BY <1>2 DEF CheckStatus, tracker, manager
  <2> QED BY <1>0, <2>1, <2>2, Moved, OneInstance
<1>3. ASSUME CloseManager(i) PROVE Safe'
  <2>1. PICK s \in {"options", "start"} : Goto(i, s)
    BY <1>3 DEF CloseManager
  <2>2. /\ Close(entry[i].manager) /\ setup' = setup
        /\ entry' = [entry EXCEPT ![i] = NoEntry]
    BY <1>3 DEF CloseManager
  <2>3. InstanceSafe(i)'
    BY <1>0, <2>1, <2>2, Moved, Constants
  <2>4. \A m \in Managers : Alive(m) /\ owner[m] # i => Alive(m)' /\ owner'[m] = owner[m]
    BY <1>0, <2>2, TrackerAssumption DEF Close
  <2> QED BY <1>0, <2>1, <2>2, <2>3, <2>4, OneInstance
<1>4. ASSUME OptionsFail(i) PROVE Safe'
  <2>1. Goto(i, "idle") /\ UNCHANGED <<entry, setup, life, owner>>
    BY <1>4 DEF OptionsFail, tracker, manager
  <2> QED BY <1>0, <2>1, Moved, OneInstance
<1>5. ASSUME UpdateOptions(i) PROVE Safe'
  <2>1. PICK s \in {"start", "closeUnfit", "work"} :
          Goto(i, s) /\ (s = "start" => entry[i].manager = NoOne)
    BY <1>5 DEF UpdateOptions
  <2>2. /\ UNCHANGED <<entry, life, owner>>
        /\ \A j \in Instances \ {i} : setup'[j] = setup[j]
    BY <1>0, <1>5 DEF UpdateOptions, tracker, manager
  <2>3. InstanceSafe(i)'
    BY <1>0, <2>1, <2>2, Moved
  <2> QED BY <1>0, <2>1, <2>2, <2>3, OneInstance
<1>6. ASSUME NEW m \in Managers, StartManager(i, m) PROVE Safe'
  <2>1. /\ Goto(i, "work")
        /\ life[m] = "unused"
        /\ life' = [life EXCEPT ![m] = "running"]
        /\ owner' = [owner EXCEPT ![m] = i]
        /\ entry' = [entry EXCEPT ![i] = [manager |-> m, status |-> Reset]]
        /\ setup' = [setup EXCEPT ![i] = m]
    BY <1>6 DEF StartManager
  <2>2. InstanceSafe(i)'
    BY <1>0, <2>1, Moved
  <2>3. \A n \in Managers : Alive(n) /\ owner[n] # i => Alive(n)' /\ owner'[n] = owner[n]
    BY <1>0, <2>1
  <2>4. \A j \in Instances \ {i} : setup'[j] = setup[j] /\ entry'[j] = entry[j]
    BY <1>0, <2>1
  <2> QED BY <1>0, <2>1, <2>2, <2>3, <2>4, OneInstance
<1>7. ASSUME StartFails(i) PROVE Safe'
  <2>1. Goto(i, "idle") /\ UNCHANGED <<entry, setup, life, owner>>
    BY <1>7 DEF StartFails, tracker, manager
  <2> QED BY <1>0, <2>1, Moved, OneInstance
<1>8. ASSUME ReconcileEnd(i) PROVE Safe'
  <2>1. /\ Goto(i, "idle") /\ UNCHANGED <<entry, life, owner>>
        /\ setup' = [setup EXCEPT ![i] = NoOne]
    BY <1>8 DEF ReconcileEnd, tracker, manager
  <2> QED BY <1>0, <2>1, Moved, OneInstance
<1> QED BY <1>1, <1>2, <1>3, <1>4, <1>5, <1>6, <1>7, <1>8 DEF SetupStep

LEMMA CleanupSafe ==
  ASSUME Types, Safe, NEW i \in Instances, CleanupStep(i)
  PROVE  Safe'
<1> USE DEF InstanceSafe, Alive
<1>0. /\ i \in Actors
      /\ InstanceSafe(i)
      /\ entry[i].manager \in Managers \cup {NoOne}
      /\ entry \in [Instances -> EntryType]
      /\ setup \in [Instances -> Managers \cup {NoOne}]
      /\ life \in [Managers -> {"unused", "running", "down", "closed"}]
      /\ owner \in [Managers -> Instances \cup {NoOne}]
      /\ PlacesOK
  BY DEF Safe, Types, MapOK, ManagersOK, EntryType, Actors
<1>1. ASSUME CleanupRemove(i) PROVE Safe'
  <2>1. PICK s \in {"finalize", "closeLast"} :
          Goto(i, s) /\ (s = "closeLast" => entry[i].manager # NoOne)
    BY <1>1 DEF CleanupRemove
  <2>2. /\ setup' = [setup EXCEPT ![i] = entry[i].manager]
        /\ entry' = [entry EXCEPT ![i] = NoEntry]
        /\ UNCHANGED <<life, owner>>
    BY <1>1 DEF CleanupRemove, manager
  <2>3. InstanceSafe(i)'
    BY <1>0, <2>1, <2>2, Moved, Constants
  <2> QED BY <1>0, <2>1, <2>2, <2>3, OneInstance
<1>2. ASSUME CleanupClose(i) PROVE Safe'
  <2>1. /\ Goto(i, "finalize")
        /\ pc[i] = "closeLast"
        /\ Close(setup[i]) /\ entry' = entry
        /\ setup' = [setup EXCEPT ![i] = NoOne]
    BY <1>2 DEF CleanupClose, tracker
  <2>2. InstanceSafe(i)'
    BY <1>0, <2>1, Moved
  <2>3. \A m \in Managers : Alive(m) /\ owner[m] # i => Alive(m)' /\ owner'[m] = owner[m]
    BY <1>0, <2>1 DEF Close
  <2> QED BY <1>0, <2>1, <2>2, <2>3, OneInstance
<1>3. ASSUME Finalize(i) PROVE Safe'
  <2>1. Goto(i, "idle") /\ UNCHANGED <<entry, setup, life, owner>>
    BY <1>3 DEF Finalize, tracker, manager
  <2> QED BY <1>0, <2>1, Moved, OneInstance
<1> QED BY <1>1, <1>2, <1>3 DEF CleanupStep

LEMMA InstanceStepSafe ==
  ASSUME Types, Safe, NEW i \in Instances, InstanceStep(i)
  PROVE  Safe'
<1>1. ASSUME Create(i) \/ Delete(i) PROVE Safe'
  BY <1>1, NoInstance DEF Create, Delete, tracker, manager, Alive
<1>2. ASSUME ReconcileBegin(i) PROVE Safe'
  <2>1. Goto(i, "lock") /\ UNCHANGED <<entry, setup, life, owner>>
    BY <1>2 DEF ReconcileBegin, tracker, manager
  <2>2. i \in Actors /\ PlacesOK /\ InstanceSafe(i)
    BY DEF Types, Actors, Safe
  <2>3. InstanceSafe(i)'
    BY <2>1, <2>2, Moved DEF InstanceSafe, Alive
  <2> QED BY <2>1, <2>3, OneInstance DEF Alive
<1> QED BY <1>1, <1>2 DEF InstanceStep

LEMMA ManagerSafe ==
  ASSUME Types, Safe, NEW m \in Managers, ReporterStep(m) \/ ManagerStep(m)
  PROVE  Safe'
<1>1. ASSUME ReporterTakes(m) \/ ReporterSyncs(m) PROVE Safe'
  <2>1. UNCHANGED <<entry, setup, life, owner>>
    BY <1>1 DEF ReporterTakes, ReporterSyncs, tracker, manager
  <2>2. \A i \in Instances : pc'[i] = pc[i]
    BY <1>1, ReporterMoved DEF ReporterTakes, ReporterSyncs, Types
  <2> QED BY <2>1, <2>2, NoInstance DEF Alive
<1>2. ASSUME ReporterWrites(m) PROVE Safe'
  <2>1. UNCHANGED <<setup, life, owner>>
    BY <1>2 DEF ReporterWrites, manager
  <2>2. \A i \in Instances : pc'[i] = pc[i]
    BY <1>2, ReporterMoved DEF ReporterWrites, Types
  <2>3. \A i \in Instances : entry'[i].manager = entry[i].manager
    BY <1>2 DEF ReporterWrites, Types, MapOK, EntryType
  <2> QED BY <2>1, <2>2, <2>3, NoInstance DEF Alive
<1>3. ASSUME ManagerStep(m) PROVE Safe'
  <2>1. UNCHANGED <<entry, setup, owner, pc>>
    BY <1>3 DEF ManagerStep, Emit, ManagerShutsDown, tracker
  <2>2. \A n \in Managers : Alive(n) => Alive(n)'
    BY <1>3 DEF ManagerStep, Emit, ManagerShutsDown, Alive, Types, ManagersOK
  <2> QED BY <2>1, <2>2, NoInstance
<1> QED BY <1>1, <1>2, <1>3 DEF ReporterStep

LEMMA ResourceSafe ==
  ASSUME Types, Safe, NEW r \in Resources, ResourceStep(r)
  PROVE  Safe'
<1>1. UNCHANGED <<setup, life, owner>>
  BY DEF ResourceStep, Get, RefreshBegin, RefreshList, RefreshFails, RefreshStore,
         GetAgain, manager
<1>2. \A i \in Instances : pc'[i] = pc[i]
  <2>1. pc' = pc \/ \E s : Goto(r, s)
    BY DEF ResourceStep, Get, RefreshBegin, RefreshList, RefreshFails, RefreshStore,
           GetAgain
  <2> QED BY <2>1, ResourceMoved DEF Types
<1>3. \A i \in Instances : entry'[i].manager \in {NoOne, entry[i].manager}
  BY Constants DEF ResourceStep, Get, RefreshBegin, RefreshList, RefreshFails,
         RefreshStore, GetAgain, tracker
<1> QED BY <1>1, <1>2, <1>3, NoInstance DEF Alive

LEMMA InitSafe == Init => Safe
BY Constants DEF Init, Safe, InstanceSafe

LEMMA SafeStep == Types /\ Safe /\ [Next]_vars => Safe'
<1> SUFFICES ASSUME Types, Safe, [Next]_vars PROVE Safe'
  OBVIOUS
<1>1. CASE UNCHANGED vars \/ Tick
  BY <1>1, NoInstance DEF vars, tracker, manager, Tick, Alive
<1> QED BY <1>1, InstanceStepSafe, SetupSafe, CleanupSafe, ManagerSafe, ResourceSafe DEF Next

(* Nobody ever finds a closed manager in the map: setup_manager and cleanup  *)
(* take it out before they let go of the lock.                               *)
THEOREM ClosedNotListed == Spec => []ClosedIsNotListed
<1>1. Types /\ Safe => ClosedIsNotListed
  BY DEF Safe, InstanceSafe, Alive, ClosedIsNotListed
<1> QED BY <1>1, InitTypes, TypesStep, InitSafe, SafeStep, PTL DEF Spec

--------------------------------------------------------------------------------
(* Every manager that runs can be reached *)

(* The names a refresh is about to remove are those of instances that are    *)
(* gone.                                                                     *)
ListsAreTrue ==
  \A r \in Resources : pc[r] = "store" =>
    \A i \in Instances \ list[r] : k8s[i] = "absent"

OwnersAreInstances == \A m \in Managers : life[m] # "unused" => owner[m] \in Instances

InstanceHeld(i) ==
  /\ k8s[i] = "absent" => pc[i] = "idle"
  /\ \A m \in Managers : life[m] = "running" /\ owner[m] = i =>
       /\ k8s[i] # "absent"
       /\ \/ entry[i].manager = m
          \/ pc[i] = "closeLast" /\ setup[i] = m
Held == \A i \in Instances : InstanceHeld(i)

Inv == Types /\ Safe /\ ListsAreTrue /\ OwnersAreInstances /\ Held

(* An instance that is created between a refresh's list and its use may have *)
(* a manager when the map is cut down to the list, which lacks it. With      *)
(* "apart" an instance is created at any other time.                         *)
NoLateCreation == Resources = {} \/ "create" \notin Environment

(* A step that is none of the instance's own and does not touch its entry.   *)
LEMMA HeldFrame ==
  ASSUME NEW i \in Instances, InstanceHeld(i),
         pc'[i] = pc[i], setup'[i] = setup[i], k8s'[i] = k8s[i],
         entry'[i].manager = entry[i].manager,
         \A m \in Managers :
           life'[m] = "running" /\ owner'[m] = i => life[m] = "running" /\ owner[m] = i
  PROVE  InstanceHeld(i)'
BY DEF InstanceHeld

LEMMA OneHeld ==
  ASSUME Inv, NEW i \in Instances, NEW s, Goto(i, s), InstanceHeld(i)',
         \A j \in Instances \ {i} :
           setup'[j] = setup[j] /\ entry'[j] = entry[j] /\ k8s'[j] = k8s[j],
         \A m \in Managers :
           life'[m] = "running" /\ owner'[m] # i =>
             life[m] = "running" /\ owner[m] = owner'[m]
  PROVE  Held'
<1> SUFFICES ASSUME NEW j \in Instances, j # i PROVE InstanceHeld(j)'
  BY DEF Held
<1>1. pc'[j] = pc[j]
  BY Moved DEF Inv, Types, Actors
<1> QED BY <1>1, HeldFrame DEF Held, Inv

(* An instance's own step leaves the lists true: instances only go.          *)
LEMMA ListsKept ==
  ASSUME Inv, NEW i \in Instances, list' = list,
         \/ pc' = pc
         \/ \E s : Goto(i, s)
         \/ \E m \in Managers : \E s : Goto(m, s),
         \A j \in Instances : k8s[j] = "absent" => k8s'[j] = "absent"
  PROVE  ListsAreTrue'
<1>1. \A r \in Resources : pc'[r] = pc[r]
  BY Moved, Disjoint DEF Inv, Types, Actors
<1> QED BY <1>1 DEF Inv, ListsAreTrue

LEMMA SetupHeld ==
  ASSUME Inv, NEW i \in Instances, SetupStep(i)
  PROVE  (ListsAreTrue /\ OwnersAreInstances /\ Held)'
<1> USE DEF InstanceHeld
<1>0. /\ i \in Actors
      /\ InstanceSafe(i)
      /\ InstanceHeld(i)
      /\ entry[i].manager \in Managers \cup {NoOne}
      /\ entry \in [Instances -> EntryType]
      /\ setup \in [Instances -> Managers \cup {NoOne}]
      /\ life \in [Managers -> {"unused", "running", "down", "closed"}]
      /\ owner \in [Managers -> Instances \cup {NoOne}]
      /\ PlacesOK
  BY DEF Inv, Held, Safe, Types, MapOK, ManagersOK, EntryType, Actors
<1>1. ListsAreTrue'
  <2>1. (\E s : Goto(i, s)) /\ UNCHANGED <<k8s, list>>
    BY DEF SetupStep, SetupLock, CheckStatus, CloseManager, OptionsFail, UpdateOptions,
           StartManager, StartFails, ReconcileEnd, lookup
  <2> QED BY <2>1, ListsKept
<1>2. ASSUME NEW s, Goto(i, s), pc[i] \notin {"idle", "closeLast"},
             UNCHANGED <<k8s, entry, life, owner>>,
             \A j \in Instances \ {i} : setup'[j] = setup[j]
      PROVE  OwnersAreInstances' /\ Held'
  <2>1. k8s[i] # "absent" /\ pc[i] # "closeLast" /\ k8s' = k8s
    BY <1>0, <1>2
  <2>2. \A m \in Managers : life'[m] = "running" /\ owner'[m] = i => entry'[i].manager = m
    BY <1>0, <1>2, <2>1
  <2>3. InstanceHeld(i)'
    BY <2>1, <2>2
  <2>4. Held'
    BY <1>0, <1>2, <2>3, OneHeld
  <2> QED BY <1>2, <2>4 DEF Inv, OwnersAreInstances
<1>3. ASSUME SetupLock(i) PROVE OwnersAreInstances' /\ Held'
  <2>1. /\ Goto(i, "check") /\ pc[i] = "lock"
        /\ UNCHANGED <<k8s, entry, setup, life, owner>>
    BY <1>3 DEF SetupLock, manager
  <2> QED BY <1>2, <2>1
<1>4. ASSUME CheckStatus(i) PROVE OwnersAreInstances' /\ Held'
  <2>1. PICK s \in {"closeOld", "options"} : Goto(i, s)
    BY <1>4 DEF CheckStatus
  <2>2. pc[i] = "check" /\ UNCHANGED <<k8s, entry, setup, life, owner>>
    BY <1>4 DEF CheckStatus, tracker, manager
  <2> QED BY <1>2, <2>1, <2>2
<1>5. ASSUME CloseManager(i) PROVE OwnersAreInstances' /\ Held'
  <2>1. PICK s \in {"options", "start"} : Goto(i, s)
    BY <1>5 DEF CloseManager
  <2>2. /\ pc[i] \in {"closeOld", "closeUnfit"}
        /\ Close(entry[i].manager) /\ UNCHANGED <<setup, k8s>>
        /\ entry' = [entry EXCEPT ![i] = NoEntry]
    BY <1>5 DEF CloseManager
  <2>3. /\ owner' = owner
        /\ \A m \in Managers : life'[m] = "running" =>
             life[m] = "running" /\ m # entry[i].manager
    BY <1>0, <2>2 DEF Close
  <2>4. InstanceHeld(i)'
    BY <1>0, <2>1, <2>2, <2>3, Moved
  <2>5. Held'
    BY <1>0, <2>1, <2>2, <2>3, <2>4, OneHeld
  <2>6. \A m \in Managers : life'[m] # "unused" => life[m] # "unused"
    BY <1>0, <2>2 DEF Close
  <2> QED BY <2>3, <2>5, <2>6 DEF Inv, OwnersAreInstances
<1>6. ASSUME OptionsFail(i) PROVE OwnersAreInstances' /\ Held'
  <2>1. /\ Goto(i, "idle") /\ pc[i] = "options"
        /\ UNCHANGED <<k8s, entry, setup, life, owner>>
    BY <1>6 DEF OptionsFail, tracker, manager
  <2> QED BY <1>2, <2>1
<1>7. ASSUME UpdateOptions(i) PROVE OwnersAreInstances' /\ Held'
  <2>1. PICK s \in {"start", "closeUnfit", "work"} : Goto(i, s)
    BY <1>7 DEF UpdateOptions
  <2>2. /\ pc[i] = "options" /\ UNCHANGED <<k8s, entry, life, owner>>
        /\ \A j \in Instances \ {i} : setup'[j] = setup[j]
    BY <1>0, <1>7 DEF UpdateOptions, tracker, manager
  <2> QED BY <1>2, <2>1, <2>2
<1>8. ASSUME NEW m \in Managers, StartManager(i, m) PROVE OwnersAreInstances' /\ Held'
  <2>1. /\ Goto(i, "work") /\ k8s' = k8s
        /\ pc[i] = "start"
        /\ life' = [life EXCEPT ![m] = "running"]
        /\ owner' = [owner EXCEPT ![m] = i]
        /\ entry' = [entry EXCEPT ![i] = [manager |-> m, status |-> Reset]]
        /\ setup' = [setup EXCEPT ![i] = m]
    BY <1>8 DEF StartManager
  <2>2. \A n \in Managers : ~(life[n] = "running" /\ owner[n] = i)
    BY <1>0, <2>1, TrackerAssumption DEF InstanceSafe
  <2>3. InstanceHeld(i)'
    BY <1>0, <2>1, <2>2, Moved
  <2>4. \A j \in Instances \ {i} : setup'[j] = setup[j] /\ entry'[j] = entry[j]
    BY <1>0, <2>1
  <2>5. \A n \in Managers : life'[n] = "running" /\ owner'[n] # i =>
          life[n] = "running" /\ owner[n] = owner'[n]
    BY <1>0, <2>1
  <2>6. Held'
    BY <1>0, <2>1, <2>3, <2>4, <2>5, OneHeld
  <2>7. OwnersAreInstances'
    BY <1>0, <2>1 DEF Inv, OwnersAreInstances
  <2> QED BY <2>6, <2>7
<1>9. ASSUME StartFails(i) PROVE OwnersAreInstances' /\ Held'
  <2>1. /\ Goto(i, "idle") /\ pc[i] = "start"
        /\ UNCHANGED <<k8s, entry, setup, life, owner>>
    BY <1>9 DEF StartFails, tracker, manager
  <2> QED BY <1>2, <2>1
<1>10. ASSUME ReconcileEnd(i) PROVE OwnersAreInstances' /\ Held'
  <2>1. /\ Goto(i, "idle") /\ pc[i] = "work"
        /\ UNCHANGED <<k8s, entry, life, owner>>
        /\ setup' = [setup EXCEPT ![i] = NoOne]
    BY <1>10 DEF ReconcileEnd, tracker, manager
  <2> QED BY <1>0, <1>2, <2>1
<1> QED BY <1>1, <1>3, <1>4, <1>5, <1>6, <1>7, <1>8, <1>9, <1>10 DEF SetupStep

LEMMA CleanupHeld ==
  ASSUME Inv, NEW i \in Instances, CleanupStep(i)
  PROVE  (ListsAreTrue /\ OwnersAreInstances /\ Held)'
<1> USE DEF InstanceHeld
<1>0. /\ i \in Actors
      /\ InstanceSafe(i)
      /\ InstanceHeld(i)
      /\ entry[i].manager \in Managers \cup {NoOne}
      /\ entry \in [Instances -> EntryType]
      /\ setup \in [Instances -> Managers \cup {NoOne}]
      /\ k8s \in [Instances -> {"absent", "present", "deleting"}]
      /\ life \in [Managers -> {"unused", "running", "down", "closed"}]
      /\ owner \in [Managers -> Instances \cup {NoOne}]
      /\ PlacesOK
  BY DEF Inv, Held, Safe, Types, K8sOK, MapOK, ManagersOK, EntryType, Actors
<1>1. ListsAreTrue'
  <2>1. (\E s : Goto(i, s)) /\ list' = list
    BY DEF CleanupStep, CleanupRemove, CleanupClose, Finalize, lookup
  <2>2. \A j \in Instances : k8s[j] = "absent" => k8s'[j] = "absent"
    BY <1>0 DEF CleanupStep, CleanupRemove, CleanupClose, Finalize
  <2> QED BY <2>1, <2>2, ListsKept
<1>2. ASSUME CleanupRemove(i) PROVE OwnersAreInstances' /\ Held'
  <2>1. PICK s \in {"finalize", "closeLast"} :
          Goto(i, s) /\ (s = "finalize" => entry[i].manager = NoOne)
    BY <1>2 DEF CleanupRemove
  <2>2. /\ k8s[i] = "deleting" /\ pc[i] = "idle"
        /\ setup' = [setup EXCEPT ![i] = entry[i].manager]
        /\ entry' = [entry EXCEPT ![i] = NoEntry]
        /\ UNCHANGED <<k8s, life, owner>>
    BY <1>2 DEF CleanupRemove, manager
  <2>3. InstanceHeld(i)'
    BY <1>0, <2>1, <2>2, Moved, TrackerAssumption
  <2>4. Held'
    BY <1>0, <2>1, <2>2, <2>3, OneHeld
  <2> QED BY <2>2, <2>4 DEF Inv, OwnersAreInstances
<1>3. ASSUME CleanupClose(i) PROVE OwnersAreInstances' /\ Held'
  <2>1. /\ Goto(i, "finalize") /\ UNCHANGED <<k8s, entry>>
        /\ pc[i] = "closeLast"
        /\ Close(setup[i])
        /\ setup' = [setup EXCEPT ![i] = NoOne]
    BY <1>3 DEF CleanupClose, tracker
  <2>2. /\ owner' = owner
        /\ \A m \in Managers : life'[m] = "running" => life[m] = "running" /\ m # setup[i]
        /\ \A m \in Managers : life'[m] # "unused" => life[m] # "unused"
    BY <1>0, <2>1 DEF Close
  <2>3. InstanceHeld(i)'
    BY <1>0, <2>1, <2>2, Moved, TrackerAssumption DEF InstanceSafe
  <2>4. Held'
    BY <1>0, <2>1, <2>2, <2>3, OneHeld
  <2> QED BY <2>2, <2>4 DEF Inv, OwnersAreInstances
<1>4. ASSUME Finalize(i) PROVE OwnersAreInstances' /\ Held'
  <2>1. /\ Goto(i, "idle") /\ UNCHANGED <<entry, setup, life, owner>>
        /\ pc[i] = "finalize"
        /\ k8s' = [k8s EXCEPT ![i] = "absent"]
    BY <1>4 DEF Finalize, tracker, manager
  <2>2. \A m \in Managers : ~(life[m] = "running" /\ owner[m] = i)
    BY <1>0, <2>1, TrackerAssumption DEF InstanceSafe
  <2>3. InstanceHeld(i)'
    BY <1>0, <2>1, <2>2, Moved
  <2>4. Held'
    BY <1>0, <2>1, <2>3, OneHeld
  <2> QED BY <2>1, <2>4 DEF Inv, OwnersAreInstances
<1> QED BY <1>1, <1>2, <1>3, <1>4 DEF CleanupStep

LEMMA InstanceStepHeld ==
  ASSUME Inv, NoLateCreation, NEW i \in Instances, InstanceStep(i)
  PROVE  (ListsAreTrue /\ OwnersAreInstances /\ Held)'
<1>0. /\ InstanceHeld(i) /\ i \in Actors /\ PlacesOK
      /\ k8s \in [Instances -> {"absent", "present", "deleting"}]
  BY DEF Inv, Held, Types, K8sOK, Actors
<1>1. UNCHANGED <<entry, setup, life, owner, list>>
  BY DEF InstanceStep, Create, Delete, ReconcileBegin, tracker, manager, lookup
<1>2. OwnersAreInstances'
  BY <1>1 DEF Inv, OwnersAreInstances
<1>3. ASSUME Create(i) PROVE ListsAreTrue' /\ Held'
  <2>1. ListsAreTrue'
    <3>1. pc' = pc /\ \A r \in Resources : pc[r] # "store"
      BY <1>3 DEF Create, NoLateCreation
    <3> QED BY <3>1 DEF ListsAreTrue
  <2>2. pc' = pc /\ k8s[i] = "absent" /\ k8s' = [k8s EXCEPT ![i] = "present"]
    BY <1>3 DEF Create
  <2>3. \A j \in Instances : InstanceHeld(j)'
    BY <1>0, <1>1, <2>2 DEF Inv, Held, InstanceHeld
  <2> QED BY <2>1, <2>3 DEF Held
<1>4. ASSUME Delete(i) PROVE ListsAreTrue' /\ Held'
  <2>1. pc' = pc /\ k8s[i] = "present" /\ k8s' = [k8s EXCEPT ![i] = "deleting"]
    BY <1>4 DEF Delete
  <2>2. \A j \in Instances : InstanceHeld(j)'
    BY <1>0, <1>1, <2>1 DEF Inv, Held, InstanceHeld
  <2>3. ListsAreTrue'
    BY <1>0, <1>1, <2>1, ListsKept
  <2> QED BY <2>2, <2>3 DEF Held
<1>5. ASSUME ReconcileBegin(i) PROVE ListsAreTrue' /\ Held'
  <2>1. Goto(i, "lock") /\ k8s' = k8s /\ k8s[i] = "present" /\ pc[i] = "idle"
    BY <1>5 DEF ReconcileBegin
  <2>2. ListsAreTrue'
    BY <1>1, <2>1, ListsKept
  <2>3. InstanceHeld(i)'
    BY <1>0, <1>1, <2>1, Moved DEF InstanceHeld
  <2> QED BY <1>1, <2>1, <2>2, <2>3, OneHeld
<1> QED BY <1>2, <1>3, <1>4, <1>5 DEF InstanceStep

LEMMA ManagerHeld ==
  ASSUME Inv, NEW m \in Managers, ReporterStep(m) \/ ManagerStep(m)
  PROVE  (ListsAreTrue /\ OwnersAreInstances /\ Held)'
<1>1. UNCHANGED <<setup, owner, k8s, list>>
  BY DEF ReporterStep, ReporterTakes, ReporterSyncs, ReporterWrites, ManagerStep, Emit,
         ManagerShutsDown, tracker, manager, lookup
<1>2. pc' = pc \/ \E s : Goto(m, s)
  BY DEF ReporterStep, ReporterTakes, ReporterSyncs, ReporterWrites, ManagerStep, Emit,
         ManagerShutsDown
<1>3. \A i \in Instances : entry'[i].manager = entry[i].manager
  BY DEF ReporterStep, ReporterTakes, ReporterSyncs, ReporterWrites, ManagerStep, Emit,
         ManagerShutsDown, tracker, Inv, Types, MapOK, EntryType
<1>4. \A n \in Managers : /\ life'[n] = "running" => life[n] = "running"
                          /\ life'[n] # "unused" => life[n] # "unused"
  BY DEF ReporterStep, ReporterTakes, ReporterSyncs, ReporterWrites, ManagerStep, Emit,
         ManagerShutsDown, manager, Inv, Types, ManagersOK
<1>5. \A i \in Instances : pc'[i] = pc[i]
  BY <1>2, ReporterMoved DEF Inv, Types
<1>6. Held'
  BY <1>1, <1>3, <1>4, <1>5, HeldFrame DEF Inv, Held
<1>7. \A r \in Resources : pc'[r] = pc[r]
  BY <1>2, Moved, Disjoint DEF Inv, Types, Actors
<1> QED BY <1>1, <1>4, <1>6, <1>7 DEF Inv, ListsAreTrue, OwnersAreInstances

LEMMA ResourceHeld ==
  ASSUME Inv, NEW r \in Resources, ResourceStep(r)
  PROVE  (ListsAreTrue /\ OwnersAreInstances /\ Held)'
<1>0. /\ r \in Actors /\ PlacesOK
      /\ list \in [Resources -> SUBSET Instances]
  BY DEF Inv, Types, LookupOK, Actors
<1>1. UNCHANGED <<setup, life, owner, k8s>>
  BY DEF ResourceStep, Get, RefreshBegin, RefreshList, RefreshFails, RefreshStore,
         GetAgain, manager
<1>2. pc' = pc \/ \E s : Goto(r, s)
  BY DEF ResourceStep, Get, RefreshBegin, RefreshList, RefreshFails, RefreshStore, GetAgain
<1>3. \A i \in Instances : pc'[i] = pc[i]
  BY <1>2, ResourceMoved DEF Inv, Types
<1>4. \A q \in Resources \ {r} : pc'[q] = pc[q] /\ list'[q] = list[q]
  <2>1. \A q \in Resources \ {r} : pc'[q] = pc[q]
    BY <1>0, <1>2, Moved DEF Actors
  <2>2. \A q \in Resources \ {r} : list'[q] = list[q]
    BY <1>0 DEF ResourceStep, Get, RefreshBegin, RefreshList, RefreshFails, RefreshStore,
                GetAgain, lookup
  <2> QED BY <2>1, <2>2
<1>5. ListsAreTrue'
  <2> SUFFICES ASSUME pc'[r] = "store", NEW i \in Instances \ list'[r]
               PROVE  k8s[i] = "absent"
    BY <1>1, <1>4 DEF Inv, ListsAreTrue
  <2>1. CASE RefreshList(r)
    BY <1>0, <2>1 DEF RefreshList
  <2>2. CASE ~RefreshList(r)
    <3>1. pc' = pc \/ \E s \in {"refresh", "fresh", "again", "idle"} : Goto(r, s)
      BY <2>2 DEF ResourceStep, Get, RefreshBegin, RefreshFails, RefreshStore, GetAgain
    <3>2. pc[r] = "store" /\ pc' = pc
      BY <1>0, <3>1, Moved
    <3>3. ~RefreshStore(r)
      BY <1>0, <3>2, Moved DEF RefreshStore
    <3>4. list' = list
      BY <2>2, <3>3 DEF ResourceStep, Get, RefreshBegin, RefreshFails, GetAgain, lookup
    <3> QED BY <3>2, <3>4 DEF Inv, ListsAreTrue
  <2> QED BY <2>1, <2>2
<1>6. Held'
  <2> SUFFICES ASSUME NEW i \in Instances PROVE InstanceHeld(i)'
    BY DEF Held
  <2>1. CASE entry'[i].manager = entry[i].manager
    BY <1>1, <1>3, <2>1, HeldFrame DEF Inv, Held
  <2>2. CASE entry'[i].manager # entry[i].manager
    <3>1. pc[r] = "store" /\ i \notin list[r]
      BY <2>2 DEF ResourceStep, Get, RefreshBegin, RefreshList, RefreshFails, RefreshStore,
                  GetAgain, tracker
    <3>2. k8s[i] = "absent"
      BY <3>1 DEF Inv, ListsAreTrue
    <3> QED BY <1>1, <1>3, <3>2 DEF Inv, Held, InstanceHeld
  <2> QED BY <2>1, <2>2
<1> QED BY <1>1, <1>5, <1>6 DEF Inv, OwnersAreInstances

LEMMA InitInv == Init => Inv
<1>1. Init => ListsAreTrue /\ OwnersAreInstances /\ Held
  BY DEF Init, ListsAreTrue, OwnersAreInstances, Held, InstanceHeld
<1> QED BY <1>1, InitTypes, InitSafe DEF Inv

LEMMA InvStep == NoLateCreation /\ Inv /\ [Next]_vars => Inv'
<1> SUFFICES ASSUME NoLateCreation, Inv, [Next]_vars PROVE Inv'
  OBVIOUS
<1>1. Types' /\ Safe'
  BY TypesStep, SafeStep DEF Inv
<1>2. CASE UNCHANGED vars \/ Tick
  <2>1. UNCHANGED <<k8s, pc, entry, setup, list, life, owner>>
    BY <1>2 DEF vars, Tick, tracker, lookup, manager
  <2>2. Held'
    BY <2>1, HeldFrame DEF Inv, Held
  <2> QED BY <1>1, <2>1, <2>2 DEF Inv, ListsAreTrue, OwnersAreInstances
<1> QED BY <1>1, <1>2, InstanceStepHeld, SetupHeld, CleanupHeld, ManagerHeld, ResourceHeld
        DEF Next, Inv

(* A manager that runs is in its instance's entry or about to be closed by   *)
(* the cleanup, so that an instance never has two and none is left running   *)
(* (setup_manager and cleanup). Without refreshes this holds whatever the    *)
(* surroundings do; with them, unless an instance is created between a       *)
(* refresh's list and its use.                                               *)
THEOREM RunningHeld == NoLateCreation => (Spec => []RunningIsHeld)
<1> SUFFICES ASSUME NoLateCreation PROVE Spec => []RunningIsHeld
  OBVIOUS
<1>1. Inv /\ [Next]_vars => Inv'
  BY InvStep
<1>2. Inv => RunningIsHeld
  BY DEF Inv, OwnersAreInstances, Held, InstanceHeld, RunningIsHeld
<1> QED BY <1>1, <1>2, InitInv, PTL DEF Spec

(* An instance that is gone has no manager that runs (cleanup with the       *)
(* finalizer), under the same condition.                                     *)
THEOREM GoneNoManager == NoLateCreation => (Spec => []GoneHasNoManager)
<1> SUFFICES ASSUME NoLateCreation PROVE Spec => []GoneHasNoManager
  OBVIOUS
<1>1. Inv /\ [Next]_vars => Inv'
  BY InvStep
<1>2. Inv => GoneHasNoManager
  BY DEF Inv, OwnersAreInstances, Held, InstanceHeld, GoneHasNoManager
<1> QED BY <1>1, <1>2, InitInv, PTL DEF Spec
================================================================================
