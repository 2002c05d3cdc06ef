---------------------------- MODULE GroupReconciler ----------------------------
(***************************************************************************)
(* The reconciler of group resources (reconcilers/group.rs) and the search *)
(* for unmanaged groups (process_unmanaged in reconcilers/instance.rs),    *)
(* against Zigbee2MQTT, the tracker of its retained list of groups, and the*)
(* status patches that are sent in the background when a reconcile ends.   *)
(*                                                                         *)
(* A request to Zigbee2MQTT is one step with its answer: done, refused, or *)
(* timed out with or without having been done. Options are synchronised by *)
(* a step of their own that may fail.                                      *)
(***************************************************************************)
EXTENDS Naturals, FiniteSets

CONSTANTS
  Groups,        \* the group resources
  Ids,           \* group ids
  Names,         \* friendly names
  Devices,       \* devices Zigbee2MQTT knows
  Strangers,     \* devices it does not know, which a specification may name
  Specs,         \* the specifications a group resource may be given
  Environments,  \* what the surroundings may do: one set of EnvironmentKinds each
  None

EnvironmentKinds ==
  {"create",     \* a resource is created
   "delete",     \* a resource is deleted
   "edit",       \* a resource is edited
   "unready",    \* the instance becomes unhealthy and healthy again
   "stale",      \* the tracker lags behind Zigbee2MQTT
   "unlisted",   \* a tracker fails to return its list
   "timeout",    \* a request times out
   "options",    \* the options cannot be synchronised
   "unmanaged"}  \* the instance deletes unmanaged groups

Search == "search"

(* Without an id any will do, without members they are left alone. *)
SpecType ==
  [id : Ids \cup {None}, name : Names,
   members : (SUBSET (Devices \cup Strangers)) \cup {None}]

ASSUME GroupAssumption ==
  /\ None \notin Ids \cup Groups
  /\ Search \notin Groups
  /\ \A g \in Groups : Specs[g] \subseteq SpecType /\ Specs[g] # {}
  /\ \A e \in Environments : e \subseteq EnvironmentKinds

VARIABLES
  k8s,      \* the resource at the Kubernetes API
  spec,     \* its specification there
  status,   \* its status there
  patches,  \* status patches that were sent and have not arrived
  groups,   \* the groups of Zigbee2MQTT, and the resource that made them
  tracked,  \* the list of groups the tracker returns
  ready,    \* the instance has a healthy manager
  calm,     \* the surroundings have done all they ever will
  environment,  \* what they may do
  pc,       \* where each reconcile stands, and the instance's search
  doc,      \* the resource document a reconcile works on
  found,    \* the group it works on, as the tracker returned it
  managed,  \* the identifiers of the group resources the search has listed
  doomed    \* the groups the search has still to delete

cluster == <<k8s, spec>>
search  == <<managed, doomed>>
instance == <<ready, calm, environment>>
vars == <<cluster, status, patches, groups, tracked, instance, pc, doc, found, search>>

(* exists and synced, of which four combinations occur, and the id. *)
StatusType ==
  [state : {"unknown", "missing", "unsynced", "synced"}, id : Ids \cup {None}]
NoStatus == [state |-> "unknown", id |-> None]

GroupType == [id : Ids, name : Names, members : SUBSET Devices, by : Groups]
NoGroup == [id |-> None]
(* What a reconcile knows of a group it found, and (for the properties) whether *)
(* the list it found it in was the latest.                                      *)
FoundType == [id : Ids, name : Names, members : SUBSET Devices, latest : BOOLEAN]
Seen(x) == [id |-> x.id, name |-> x.name, members |-> x.members, latest |-> tracked = groups]

ReconcileStates ==
  {"idle", "lookup", "create", "created", "existence", "delete", "relookup",
   "recreate", "recreated", "name", "devices", "members", "options", "compare"}

TypeOK ==
  /\ k8s \in [Groups -> {"absent", "present", "deleting"}]
  /\ spec \in [Groups -> SpecType]
  /\ \A g \in Groups : spec[g] \in Specs[g] /\ doc[g].spec \in Specs[g]
  /\ status \in [Groups -> StatusType]
  /\ patches \subseteq [group : Groups, status : StatusType]
  /\ groups \subseteq GroupType
  /\ tracked \subseteq GroupType
  /\ \A x, y \in groups : x.id = y.id \/ x.name = y.name => x = y
  /\ ready \in BOOLEAN
  /\ calm \in BOOLEAN
  /\ environment \in Environments
  /\ pc \in [Groups \cup {Search} -> ReconcileStates]
  /\ pc[Search] \in {"idle", "compare", "delete"}
  /\ doc \in [Groups -> [spec : SpecType, status : StatusType]]
  /\ found \in [Groups -> FoundType \cup [id : Ids \cup {None}]]
  /\ \A g \in Groups :
       /\ pc[g] \in {"idle", "lookup", "create"} => found[g] = NoGroup
       /\ pc[g] \in {"created", "recreated"} => found[g] \in [id : Ids]
       /\ pc[g] \in {"existence", "delete", "relookup", "recreate", "name",
                     "devices", "members", "options"} => found[g] \in FoundType
       /\ pc[g] # "compare"
  /\ managed \subseteq Ids
  /\ doomed \subseteq Ids

Init ==
  /\ k8s \in [Groups -> {"absent", "present"}]
  /\ spec \in [Groups -> UNION {Specs[g] : g \in Groups}]
  /\ \A g \in Groups : spec[g] \in Specs[g]
  /\ status = [g \in Groups |-> NoStatus]
  /\ patches = {}
  /\ groups = {}
  /\ tracked = {}
  /\ ready \in BOOLEAN
  /\ environment \in Environments
  /\ ready \/ "unready" \in environment
  /\ calm = FALSE
  /\ pc = [a \in Groups \cup {Search} |-> "idle"]
  /\ doc = [g \in Groups |-> [spec |-> spec[g], status |-> NoStatus]]
  /\ found = [g \in Groups |-> NoGroup]
  /\ managed = {}
  /\ doomed = {}

Goto(a, state) == pc' = [pc EXCEPT ![a] = state]

(* What the surroundings may still do. *)
May(kind) == kind \in environment /\ ~calm

--------------------------------------------------------------------------------
(* Zigbee2MQTT and the tracker of its list of groups *)

(* Without a lag the tracker returns the list that was just published. *)
Store(new) ==
  /\ groups' = new
  /\ \/ tracked' = new
     \/ May("stale") /\ UNCHANGED tracked

Deliver ==
  /\ tracked # groups
  /\ tracked' = groups
  /\ UNCHANGED <<cluster, status, patches, groups, instance, pc, doc, found, search>>

(* The outcomes of a request that leads from groups to new when it is done. *)
Done(possible, new) == possible /\ Store(new)
Refused(possible) == ~possible /\ UNCHANGED <<groups, tracked>>
TimedOut(possible, new) ==
  /\ May("timeout")
  /\ IF possible THEN Store(new) \/ UNCHANGED <<groups, tracked>>
                 ELSE UNCHANGED <<groups, tracked>>
Fails(possible, new) == Refused(possible) \/ TimedOut(possible, new)

HasId(i) == \E x \in groups : x.id = i
HasName(n) == \E x \in groups : x.name = n
Without(i) == {x \in groups : x.id # i}
Changed(i, new) == Without(i) \cup {new}
ById(i) == CHOOSE x \in groups : x.id = i

--------------------------------------------------------------------------------
(* The end of a reconcile: the StatusManager is dropped, and sends what      *)
(* differs from the document without waiting for it.                         *)
Finish(g, state, id) ==
  LET new == [state |-> state, id |-> id] IN
  /\ patches' = IF new = doc[g].status THEN patches
                ELSE patches \cup {[group |-> g, status |-> new]}
  /\ found' = [found EXCEPT ![g] = NoGroup]
  /\ Goto(g, "idle")

PatchArrives(p) ==
  /\ patches' = patches \ {p}
  /\ status' = IF k8s[p.group] = "absent" THEN status
               ELSE [status EXCEPT ![p.group] = p.status]
  /\ UNCHANGED <<cluster, groups, tracked, instance, pc, doc, found, search>>

--------------------------------------------------------------------------------
(* Group::reconcile *)

ReconcileBegin(g) ==
  /\ k8s[g] = "present"
  /\ pc[g] = "idle"
  /\ ready
  /\ doc' = [doc EXCEPT ![g] = [spec |-> spec[g], status |-> status[g]]]
  /\ Goto(g, "lookup")
  /\ UNCHANGED <<cluster, status, patches, groups, tracked, instance, found, search>>

(* get_manager finds the instance pending or unhealthy: the reconcile is     *)
(* postponed, with a status that has been reset.                             *)
ReconcilePostponed(g) ==
  /\ k8s[g] = "present"
  /\ pc[g] = "idle"
  /\ ~ready
  /\ status[g] # NoStatus
  /\ patches' = patches \cup {[group |-> g, status |-> NoStatus]}
  /\ UNCHANGED <<cluster, status, groups, tracked, instance, pc, doc, found, search>>

(* get_id: the id of the status goes before the one of the specification. *)
GetId(g) == IF doc[g].status.id # None THEN doc[g].status.id ELSE doc[g].spec.id

(* Mutant: a group is only looked up by its id. *)
CandidatesById(g) == {x \in tracked : x.id = GetId(g)}

Candidates(g) ==
  LET byId == {x \in tracked : x.id = GetId(g)} IN
  IF byId = {} /\ doc[g].spec.id = None
    THEN {x \in tracked : x.name = doc[g].spec.name}
    ELSE byId

(* get_or_create_group, which sync_existence may call a second time. *)
Lookup(g) ==
  /\ pc[g] \in {"lookup", "relookup"}
  /\ IF Candidates(g) = {}
       THEN /\ Goto(g, IF pc[g] = "lookup" THEN "create" ELSE "recreate")
            /\ UNCHANGED found
       ELSE /\ \E x \in Candidates(g) : found' = [found EXCEPT ![g] = Seen(x)]
            /\ Goto(g, IF pc[g] = "lookup" THEN "existence" ELSE "name")
  /\ UNCHANGED <<cluster, status, patches, groups, tracked, instance, doc, search>>

(* Zigbee2MQTT takes an id that is not in use, if none is asked for.        *)
NewIds(s) ==
  LET free == {i \in Ids : ~HasId(i)} IN
  IF s.id # None THEN {s.id} ELSE IF free = {} THEN Ids ELSE free

Create(g) ==
  LET s == doc[g].spec IN
  /\ pc[g] \in {"create", "recreate"}
  /\ \E i \in NewIds(s) :
       LET possible == ~HasId(i) /\ ~HasName(s.name)
           new == groups \cup {[id |-> i, name |-> s.name, members |-> {}, by |-> g]}
       IN \/ /\ Done(possible, new)
             /\ found' = [found EXCEPT ![g] = [id |-> i]]
             /\ Goto(g, IF pc[g] = "create" THEN "created" ELSE "recreated")
             /\ UNCHANGED patches
          \/ Fails(possible, new) /\ Finish(g, "missing", None)
  /\ UNCHANGED <<cluster, status, instance, doc, search>>

(* The new group must be in the list of the tracker already. *)
Created(g) ==
  LET new == {x \in tracked : x.id = found[g].id} IN
  /\ pc[g] \in {"created", "recreated"}
  /\ IF new = {}
       THEN Finish(g, "missing", None)
       ELSE /\ \E x \in new : found' = [found EXCEPT ![g] = Seen(x)]
            /\ Goto(g, IF pc[g] = "created" THEN "existence" ELSE "name")
            /\ UNCHANGED patches
  /\ UNCHANGED <<cluster, status, groups, tracked, instance, doc, search>>

(* sync_existence: a group with another id than the specified one goes. *)
Existence(g) ==
  /\ pc[g] = "existence"
  /\ Goto(g, IF doc[g].spec.id \notin {None, found[g].id} THEN "delete" ELSE "name")
  /\ UNCHANGED <<cluster, status, patches, groups, tracked, instance, doc, found, search>>

DeleteOld(g) ==
  LET i == found[g].id IN
  /\ pc[g] = "delete"
  /\ \/ /\ Done(HasId(i), Without(i))
        /\ Goto(g, "relookup")
        /\ UNCHANGED <<patches, found>>
     \/ Fails(HasId(i), Without(i)) /\ Finish(g, "missing", None)
  /\ UNCHANGED <<cluster, status, instance, doc, search>>

(* Mutant: a group found by the id of its status is not renamed. *)
SyncNameOnce(g) ==
  LET i == found[g].id
      n == doc[g].spec.name
      possible == HasId(i) /\ ~HasName(n)
      new == Changed(i, [ById(i) EXCEPT !.name = n])
  IN
  /\ pc[g] = "name"
  /\ \/ /\ found[g].name = n \/ doc[g].status.id # None
        /\ Goto(g, "devices")
        /\ UNCHANGED <<patches, groups, tracked, found>>
     \/ /\ found[g].name # n /\ doc[g].status.id = None
        /\ \/ Done(possible, new) /\ Goto(g, "devices") /\ UNCHANGED <<patches, found>>
           \/ Fails(possible, new) /\ Finish(g, "unsynced", i)
  /\ UNCHANGED <<cluster, status, instance, doc, search>>

SyncName(g) ==
  LET i == found[g].id
      n == doc[g].spec.name
      possible == HasId(i) /\ ~HasName(n)
      new == Changed(i, [ById(i) EXCEPT !.name = n])
  IN
  /\ pc[g] = "name"
  /\ \/ /\ found[g].name = n
        /\ Goto(g, "devices")
        /\ UNCHANGED <<patches, groups, tracked, found>>
     \/ /\ found[g].name # n
        /\ \/ Done(possible, new) /\ Goto(g, "devices") /\ UNCHANGED <<patches, found>>
           \/ Fails(possible, new) /\ Finish(g, "unsynced", i)
  /\ UNCHANGED <<cluster, status, instance, doc, search>>

(* sync_members: the devices are looked up before any member changes.       *)
CanBeHad(s) == s.members = None \/ s.members \subseteq Devices

FindMembers(g) ==
  /\ pc[g] = "devices"
  /\ IF CanBeHad(doc[g].spec)
       THEN Goto(g, "members") /\ UNCHANGED <<patches, found>>
       ELSE Finish(g, "unsynced", found[g].id)
  /\ UNCHANGED <<cluster, status, groups, tracked, instance, doc, search>>

(* What is too much is removed before what lacks is added, as compared with *)
(* the members of the group when it was looked up.                          *)
SyncMembers(g) ==
  LET i == found[g].id
      wanted == IF doc[g].spec.members = None THEN found[g].members
                                              ELSE doc[g].spec.members \cap Devices
      excess == found[g].members \ wanted
      lacking == wanted \ found[g].members
  IN
  /\ pc[g] = "members"
  /\ \/ /\ excess \cup lacking = {}
        /\ Goto(g, "options")
        /\ UNCHANGED <<patches, groups, tracked, found>>
     \/ \E d \in IF excess # {} THEN excess ELSE lacking :
          LET members == IF d \in excess THEN found[g].members \ {d}
                                         ELSE found[g].members \cup {d}
              stored == IF d \in excess THEN ById(i).members \ {d}
                                        ELSE ById(i).members \cup {d}
              new == Changed(i, [ById(i) EXCEPT !.members = stored])
          IN \/ /\ Done(HasId(i), new)
                /\ found' = [found EXCEPT ![g].members = members]
                /\ UNCHANGED <<patches, pc>>
             \/ Fails(HasId(i), new) /\ Finish(g, "unsynced", i)
  /\ UNCHANGED <<cluster, status, instance, doc, search>>

(* No list comes from the tracker of the groups, or from that of the devices *)
(* for a resource that lists members: it cannot be made, has no message yet, *)
(* or one that cannot be parsed.                                             *)
ListFails(g) ==
  /\ May("unlisted")
  /\ \/ /\ pc[g] \in {"lookup", "created", "relookup", "recreated"}
        /\ Finish(g, "missing", None)
     \/ /\ pc[g] = "devices" /\ doc[g].spec.members # None
        /\ Finish(g, "unsynced", found[g].id)
  /\ UNCHANGED <<cluster, status, groups, tracked, instance, doc, search>>

SyncOptions(g) ==
  /\ pc[g] = "options"
  /\ \/ Finish(g, "synced", found[g].id)
     \/ May("options") /\ Finish(g, "unsynced", found[g].id)
  /\ UNCHANGED <<cluster, status, groups, tracked, instance, doc, search>>

--------------------------------------------------------------------------------
(* Group::cleanup and the finalizer: what returns without an error lets the *)
(* resource go, and that includes the postponed reconcile of get_manager.   *)

Gone(g) ==
  /\ k8s' = [k8s EXCEPT ![g] = "absent"]
  /\ status' = [status EXCEPT ![g] = NoStatus]

(* Mutant: a resource without an id in its status is kept. *)
CleanupNeedsId(g) ==
  LET i == status[g].id IN
  /\ k8s[g] = "deleting"
  /\ pc[g] = "idle"
  /\ IF ready /\ i # None
       THEN \/ Done(HasId(i), Without(i)) /\ Gone(g)
            \/ Fails(HasId(i), Without(i)) /\ UNCHANGED <<k8s, status>>
       ELSE ~ready /\ Gone(g) /\ UNCHANGED <<groups, tracked>>
  /\ UNCHANGED <<spec, patches, instance, pc, doc, found, search>>

Cleanup(g) ==
  LET i == status[g].id IN
  /\ k8s[g] = "deleting"
  /\ pc[g] = "idle"
  /\ IF ready /\ i # None
       THEN \/ Done(HasId(i), Without(i)) /\ Gone(g)
            \/ Fails(HasId(i), Without(i)) /\ UNCHANGED <<k8s, status>>
       ELSE Gone(g) /\ UNCHANGED <<groups, tracked>>
  /\ UNCHANGED <<spec, patches, instance, pc, doc, found, search>>

--------------------------------------------------------------------------------
(* process_unmanaged of the instance, in mode Delete *)

(* Mutants: it is searched before all resources have an id; resources that   *)
(* are being deleted are left out.                                           *)
SearchBeginEarly ==
  /\ May("unmanaged")
  /\ ready
  /\ pc[Search] = "idle"
  /\ managed' = {status[g].id : g \in {h \in Groups : k8s[h] # "absent"}}
  /\ Goto(Search, "compare")
  /\ UNCHANGED <<cluster, status, patches, groups, tracked, instance, doc, found, doomed>>
SearchBeginPresent ==
  /\ May("unmanaged")
  /\ ready
  /\ pc[Search] = "idle"
  /\ \A g \in Groups : k8s[g] = "present" => status[g].id # None
  /\ managed' = {status[g].id : g \in {h \in Groups : k8s[h] = "present"}}
  /\ Goto(Search, "compare")
  /\ UNCHANGED <<cluster, status, patches, groups, tracked, instance, doc, found, doomed>>

(* Nothing is searched for while a resource has no id yet. *)
SearchBegin ==
  /\ May("unmanaged")
  /\ ready
  /\ pc[Search] = "idle"
  /\ \A g \in Groups : k8s[g] # "absent" => status[g].id # None
  /\ managed' = {status[g].id : g \in {h \in Groups : k8s[h] # "absent"}}
  /\ Goto(Search, "compare")
  /\ UNCHANGED <<cluster, status, patches, groups, tracked, instance, doc, found, doomed>>

SearchCompare ==
  /\ pc[Search] = "compare"
  /\ doomed' = {x.id : x \in tracked} \ managed
  /\ Goto(Search, "delete")
  /\ UNCHANGED <<cluster, status, patches, groups, tracked, instance, doc, found, managed>>

SearchEnds ==
  /\ managed' = {}
  /\ doomed' = {}
  /\ Goto(Search, "idle")

SearchDelete ==
  /\ pc[Search] = "delete"
  /\ \/ doomed = {} /\ SearchEnds /\ UNCHANGED <<groups, tracked>>
     \/ \E i \in doomed :
          \/ /\ Done(HasId(i), Without(i))
             /\ doomed' = doomed \ {i}
             /\ UNCHANGED <<pc, managed>>
          \/ Fails(HasId(i), Without(i)) /\ SearchEnds
  /\ UNCHANGED <<cluster, status, patches, instance, doc, found>>

--------------------------------------------------------------------------------
(* The users and the instance *)

CreateResource(g) ==
  /\ May("create")
  /\ k8s[g] = "absent" /\ pc[g] = "idle"
  /\ k8s' = [k8s EXCEPT ![g] = "present"]
  /\ \E s \in Specs[g] : spec' = [spec EXCEPT ![g] = s]
  /\ UNCHANGED <<status, patches, groups, tracked, instance, pc, doc, found, search>>

EditResource(g) ==
  /\ May("edit")
  /\ k8s[g] = "present"
  /\ \E s \in Specs[g] : spec' = [spec EXCEPT ![g] = s]
  /\ UNCHANGED <<k8s, status, patches, groups, tracked, instance, pc, doc, found, search>>

DeleteResource(g) ==
  /\ May("delete")
  /\ k8s[g] = "present"
  /\ k8s' = [k8s EXCEPT ![g] = "deleting"]
  /\ UNCHANGED <<spec, status, patches, groups, tracked, instance, pc, doc, found, search>>

ReadyChanges ==
  /\ May("unready")
  /\ ready' = ~ready
  /\ UNCHANGED <<cluster, status, patches, groups, tracked, calm, environment, pc, doc, found, search>>

(* The surroundings come to rest, with a healthy instance. *)
CalmDown ==
  /\ ~calm
  /\ calm' = TRUE
  /\ ready' = TRUE
  /\ UNCHANGED <<cluster, status, patches, groups, tracked, environment, pc, doc, found, search>>

ReconcileStep(g) ==
  \/ ReconcileBegin(g) \/ ReconcilePostponed(g) \/ Lookup(g) \/ Create(g)
  \/ Created(g) \/ ListFails(g) \/ Existence(g) \/ DeleteOld(g) \/ SyncName(g)
  \/ FindMembers(g) \/ SyncMembers(g) \/ SyncOptions(g) \/ Cleanup(g)
UserStep(g) == CreateResource(g) \/ EditResource(g) \/ DeleteResource(g)
SearchStep == SearchBegin \/ SearchCompare \/ SearchDelete

Next ==
  \/ \E g \in Groups : ReconcileStep(g) \/ UserStep(g)
  \/ \E p \in patches : PatchArrives(p)
  \/ SearchStep \/ Deliver \/ ReadyChanges \/ CalmDown

Spec == Init /\ [][Next]_vars

(* Resources are reconciled again and again, patches and lists arrive. *)
FairSpec ==
  /\ Spec
  /\ \A g \in Groups : WF_vars(ReconcileStep(g))
  /\ WF_vars(\E p \in patches : PatchArrives(p))
  /\ WF_vars(Deliver)

--------------------------------------------------------------------------------
(* Properties *)

(* Zigbee2MQTT has the group as specified. *)
AsSpecified(i, s) ==
  \E x \in groups : x.id = i /\ x.name = s.name /\ s.members \in {None, x.members}

(* A reconcile that found its group in the latest list and reports it as      *)
(* synced leaves it as its document specifies: with that id, name and members,*)
(* although requests timed out, the list lagged before and after, and the     *)
(* resource was edited meanwhile (Group::reconcile).                          *)
SyncedIsTrue ==
  [][\A g \in Groups :
       /\ pc[g] = "options" /\ pc'[g] = "idle"
       /\ found[g].latest
       /\ [group |-> g, status |-> [state |-> "synced", id |-> found[g].id]] \in patches'
       => /\ AsSpecified(found[g].id, doc[g].spec)
          /\ doc[g].spec.id \in {None, found[g].id}]_vars

(* Whatever was stale, timed out or arrived out of order before: once the     *)
(* surroundings have come to rest, a resource that can be had and was not     *)
(* edited ends up with its group as specified and its id in the status, for   *)
(* good.                                                                      *)
Settled(g) ==
  k8s[g] = "present" /\ CanBeHad(spec[g]) =>
    AsSpecified(status[g].id, spec[g]) /\ status[g].state = "synced"
Converges ==
  [](calm => "edit" \in environment \/ <>[](\A g \in Groups : Settled(g)))

(* A resource that is being deleted goes, once the surroundings are at rest.  *)
DeletionEnds == [](calm => <>[](\A g \in Groups : k8s[g] # "deleting"))

(* The search only deletes groups that belong to no resource.                *)
OnlyUnmanagedDeleted ==
  [][\A x \in groups :
       pc[Search] = "delete" /\ x.id \in doomed /\ (\A y \in groups' : y.id # x.id)
       => k8s[x.by] = "absent"]_vars

(* A cleanup deletes by the id in the status (cleanup), and ids are used       *)
(* again: what it deletes as the resource goes is the resource's own group.   *)
CleanupDeletesOwn ==
  [][\A g \in Groups :
       k8s[g] = "deleting" /\ k8s'[g] = "absent"
       => \A x \in groups : x \in groups' \/ x.by = g]_vars

--------------------------------------------------------------------------------
(* What the code is written for and does not guarantee, see the README.       *)

(* A resource that is gone has left no group behind: a cleanup that finds the *)
(* instance unhealthy counts as done (cleanup, get_manager).                  *)
NothingLeft ==
  \A g \in Groups : k8s[g] = "absent" => \A x \in groups : x.by # g
================================================================================
