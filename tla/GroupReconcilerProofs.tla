-------------------------- MODULE GroupReconcilerProofs --------------------------
(***************************************************************************)
(* Proofs about GroupReconciler: the types, for any resources and          *)
(* surroundings, that the search for unmanaged groups and the cleanups     *)
(* delete no group of another resource, and that what is reported as       *)
(* synced is as specified.                                                 *)
(***************************************************************************)
EXTENDS GroupReconciler, TLAPS

Unique(s) == \A x, y \in s : x.id = y.id \/ x.name = y.name => x = y
Good(s) == s \subseteq GroupType /\ Unique(s)

--------------------------------------------------------------------------------
(* What requests make of the groups *)

LEMMA GroupsGood == ASSUME TypeOK PROVE Good(groups)
BY DEF TypeOK, Good, Unique

LEMMA ByIdFinds ==
  ASSUME NEW i, HasId(i)
  PROVE  ById(i) \in groups /\ ById(i).id = i
BY DEF HasId, ById

LEMMA WithoutGood ==
  ASSUME TypeOK, NEW i
  PROVE  Good(Without(i))
BY GroupsGood DEF Without, Good, Unique

LEMMA AddedGood ==
  ASSUME TypeOK, NEW i \in Ids, NEW n \in Names, NEW g \in Groups, ~HasId(i), ~HasName(n)
  PROVE  Good(groups \cup {[id |-> i, name |-> n, members |-> {}, by |-> g]})
<1> DEFINE new == [id |-> i, name |-> n, members |-> {}, by |-> g]
<1>1. new \in GroupType /\ new.id = i /\ new.name = n
  BY DEF GroupType
<1>2. \A x \in groups : x.id # new.id /\ x.name # new.name
  BY <1>1 DEF HasId, HasName
<1> HIDE DEF new
<1>3. Good(groups \cup {new})
  BY <1>1, <1>2, GroupsGood DEF Good, Unique
<1> QED BY <1>3 DEF new

LEMMA ChangedGood ==
  ASSUME TypeOK, NEW i, HasId(i), NEW new \in GroupType, new.id = i,
         new.name = ById(i).name \/ ~HasName(new.name)
  PROVE  Good(Changed(i, new))
<1>1. ById(i) \in groups /\ ById(i).id = i
  BY ByIdFinds
<1>2. \A x \in Without(i) : x \in groups /\ x.id # i /\ x.name # new.name
  BY <1>1, GroupsGood DEF Without, HasName, Good, Unique
<1>3. Good(Without(i))
  BY WithoutGood
<1> QED BY <1>2, <1>3 DEF Changed, Good, Unique

LEMMA RenamedGood ==
  ASSUME TypeOK, NEW i, HasId(i), NEW n \in Names, ~HasName(n)
  PROVE  Good(Changed(i, [ById(i) EXCEPT !.name = n]))
<1>1. ById(i) \in GroupType /\ ById(i).id = i
  BY ByIdFinds, GroupsGood DEF Good
<1>2. /\ [ById(i) EXCEPT !.name = n] \in GroupType
      /\ [ById(i) EXCEPT !.name = n].id = i
      /\ [ById(i) EXCEPT !.name = n].name = n
  BY <1>1 DEF GroupType
<1> QED BY <1>2, ChangedGood

LEMMA RegroupedGood ==
  ASSUME TypeOK, NEW i, HasId(i), NEW m \in SUBSET Devices
  PROVE  Good(Changed(i, [ById(i) EXCEPT !.members = m]))
<1>1. ById(i) \in GroupType /\ ById(i).id = i
  BY ByIdFinds, GroupsGood DEF Good
<1>2. /\ [ById(i) EXCEPT !.members = m] \in GroupType
      /\ [ById(i) EXCEPT !.members = m].id = i
      /\ [ById(i) EXCEPT !.members = m].name = ById(i).name
  BY <1>1 DEF GroupType
<1> QED BY <1>2, ChangedGood

(* Whatever the outcome of a request is, the list is good before and after. *)
LEMMA DoneGood ==
  ASSUME TypeOK, NEW p \in BOOLEAN, NEW new, p => Good(new), Done(p, new)
  PROVE  Good(groups') /\ tracked' \subseteq GroupType
BY DEF TypeOK, Done, Store, Good

LEMMA FailsGood ==
  ASSUME TypeOK, NEW p \in BOOLEAN, NEW new, p => Good(new), Fails(p, new)
  PROVE  Good(groups') /\ tracked' \subseteq GroupType
BY GroupsGood DEF TypeOK, Fails, Refused, TimedOut, Store, Good

--------------------------------------------------------------------------------
(* Types *)

ListsOK == Good(groups) /\ tracked \subseteq GroupType

(* What the reconcile has found by the place where it stands. *)
Matches(state, x) ==
  /\ state \in {"idle", "lookup", "create"} => x = NoGroup
  /\ state \in {"created", "recreated"} => x \in [id : Ids]
  /\ state \in {"existence", "delete", "relookup", "recreate", "name", "devices",
                "members", "options"} => x \in FoundType
  /\ state # "compare"

ActorsOK ==
  /\ pc \in [Groups \cup {Search} -> ReconcileStates]
  /\ pc[Search] \in {"idle", "compare", "delete"}
  /\ found \in [Groups -> FoundType \cup [id : Ids \cup {None}]]
  /\ \A g \in Groups : Matches(pc[g], found[g])

DocumentsOK ==
  /\ spec \in [Groups -> SpecType]
  /\ doc \in [Groups -> [spec : SpecType, status : StatusType]]
  /\ \A g \in Groups : spec[g] \in Specs[g] /\ doc[g].spec \in Specs[g]

StatesOK ==
  /\ k8s \in [Groups -> {"absent", "present", "deleting"}]
  /\ status \in [Groups -> StatusType]
  /\ patches \subseteq [group : Groups, status : StatusType]
  /\ ready \in BOOLEAN /\ calm \in BOOLEAN /\ environment \in Environments
  /\ managed \subseteq Ids /\ doomed \subseteq Ids

LEMMA TypeParts == TypeOK <=> ListsOK /\ ActorsOK /\ DocumentsOK /\ StatesOK
BY DEF TypeOK, ListsOK, ActorsOK, DocumentsOK, StatesOK, Good, Unique, Matches

LEMMA TypeNext == ListsOK' /\ ActorsOK' /\ DocumentsOK' /\ StatesOK' => TypeOK'
BY DEF TypeOK, ListsOK, ActorsOK, DocumentsOK, StatesOK, Good, Unique, Matches

LEMMA SearchApart == Search \notin Groups
BY GroupAssumption

(* A reconcile goes on to a place that fits what it has found. *)
LEMMA ActorMoves ==
  ASSUME ActorsOK, NEW g \in Groups, NEW state \in ReconcileStates,
         NEW x \in FoundType \cup [id : Ids \cup {None}], Matches(state, x),
         pc' = [pc EXCEPT ![g] = state], found' = [found EXCEPT ![g] = x]
  PROVE  ActorsOK'
<1>1. /\ pc' \in [Groups \cup {Search} -> ReconcileStates]
      /\ found' \in [Groups -> FoundType \cup [id : Ids \cup {None}]]
      /\ pc'[Search] = pc[Search]
  BY SearchApart DEF ActorsOK
<1>2. ASSUME NEW h \in Groups PROVE Matches(pc'[h], found'[h])
  <2>1. CASE h = g
    BY <2>1 DEF ActorsOK
  <2>2. CASE h # g
    BY <2>2 DEF ActorsOK
  <2> QED BY <2>1, <2>2
<1> QED BY <1>1, <1>2 DEF ActorsOK

LEMMA ActorStays ==
  ASSUME ActorsOK, NEW g \in Groups, NEW state \in ReconcileStates,
         Matches(state, found[g]), pc' = [pc EXCEPT ![g] = state], UNCHANGED found
  PROVE  ActorsOK'
<1>1. found' = [found EXCEPT ![g] = found[g]]
  BY DEF ActorsOK
<1>2. found[g] \in FoundType \cup [id : Ids \cup {None}]
  BY DEF ActorsOK
<1> QED BY <1>1, <1>2, ActorMoves

LEMMA SearchMoves ==
  ASSUME ActorsOK, NEW state \in {"idle", "compare", "delete"},
         pc' = [pc EXCEPT ![Search] = state], UNCHANGED found
  PROVE  ActorsOK'
<1>1. /\ pc' \in [Groups \cup {Search} -> ReconcileStates]
      /\ pc'[Search] = state
      /\ \A g \in Groups : pc'[g] = pc[g]
  BY SearchApart DEF ActorsOK, ReconcileStates
<1> QED BY <1>1 DEF ActorsOK

LEMMA FinishTyped ==
  ASSUME TypeOK, NEW g \in Groups, NEW state \in {"missing", "unsynced", "synced"},
         NEW i \in Ids \cup {None}, Finish(g, state, i)
  PROVE  ActorsOK' /\ patches' \subseteq [group : Groups, status : StatusType]
<1>1. ActorsOK
  BY TypeParts
<1>2. NoGroup \in [id : Ids \cup {None}] /\ Matches("idle", NoGroup)
  BY DEF NoGroup, Matches
<1>3. ActorsOK'
  BY <1>1, <1>2, ActorMoves DEF Finish, Goto, ReconcileStates
<1>4. [group |-> g, status |-> [state |-> state, id |-> i]]
        \in [group : Groups, status : StatusType]
  BY DEF StatusType
<1>5. patches' \subseteq [group : Groups, status : StatusType]
  BY <1>4 DEF TypeOK, Finish
<1> QED BY <1>3, <1>5

LEMMA SeenTyped ==
  ASSUME TypeOK, NEW x \in tracked
  PROVE  Seen(x) \in FoundType /\ Seen(x).id = x.id /\ Seen(x).name = x.name
BY DEF TypeOK, Seen, FoundType, GroupType

LEMMA MembersTyped ==
  ASSUME TypeOK, NEW g \in Groups, SyncMembers(g)
  PROVE  TypeOK'
<1> DEFINE i == found[g].id
           wanted == IF doc[g].spec.members = None THEN found[g].members
                                                   ELSE doc[g].spec.members \cap Devices
           excess == found[g].members \ wanted
           lacking == wanted \ found[g].members
           members(d) == IF d \in excess THEN found[g].members \ {d}
                                         ELSE found[g].members \cup {d}
           stored(d) == IF d \in excess THEN ById(i).members \ {d}
                                        ELSE ById(i).members \cup {d}
           new(d) == Changed(i, [ById(i) EXCEPT !.members = stored(d)])
<1>p. ListsOK /\ ActorsOK /\ DocumentsOK /\ StatesOK
  BY TypeParts
<1>f. found[g] \in FoundType /\ i \in Ids /\ found[g].members \in SUBSET Devices
  BY <1>p DEF SyncMembers, ActorsOK, Matches, FoundType
<1>1. \/ Goto(g, "options") /\ UNCHANGED <<patches, groups, tracked, found>>
      \/ \E d \in IF excess # {} THEN excess ELSE lacking :
           \/ /\ Done(HasId(i), new(d))
              /\ found' = [found EXCEPT ![g].members = members(d)]
              /\ UNCHANGED <<patches, pc>>
           \/ Fails(HasId(i), new(d)) /\ Finish(g, "unsynced", i)
  BY DEF SyncMembers
<1>2. CASE Goto(g, "options") /\ UNCHANGED <<patches, groups, tracked, found>>
  <2>1. Matches("options", found[g])
    BY <1>f DEF Matches
  <2>2. ActorsOK'
    BY <1>p, <1>2, <2>1, ActorStays DEF Goto, ReconcileStates
  <2> QED BY <1>p, <1>2, <2>2, TypeNext
          DEF SyncMembers, ListsOK, Good, Unique, DocumentsOK, StatesOK, cluster, instance, search
<1>3. ASSUME NEW d \in IF excess # {} THEN excess ELSE lacking,
             \/ /\ Done(HasId(i), new(d))
                /\ found' = [found EXCEPT ![g].members = members(d)]
                /\ UNCHANGED <<patches, pc>>
             \/ Fails(HasId(i), new(d)) /\ Finish(g, "unsynced", i)
      PROVE TypeOK'
  <2>1. d \in Devices
    BY <1>f, <1>3
  <2>2. HasId(i) => Good(new(d))
    <3>1. HasId(i) => ById(i) \in GroupType
      BY ByIdFinds, GroupsGood DEF Good
    <3>2. HasId(i) => stored(d) \in SUBSET Devices
      BY <2>1, <3>1 DEF GroupType
    <3> QED BY <3>2, RegroupedGood
  <2>3. ListsOK'
    <3> HIDE DEF new
    <3> QED BY <1>3, <2>2, DoneGood, FailsGood DEF ListsOK, HasId
  <2>4. ActorsOK' /\ patches' \subseteq [group : Groups, status : StatusType]
    <3>1. CASE Finish(g, "unsynced", i)
      BY <1>f, <3>1, FinishTyped
    <3>2. CASE found' = [found EXCEPT ![g].members = members(d)] /\ UNCHANGED <<patches, pc>>
      <4>1. members(d) \in SUBSET Devices
        BY <1>f, <2>1
      <4>2. [found[g] EXCEPT !.members = members(d)] \in FoundType
        <5> HIDE DEF members
        <5> QED BY <1>f, <4>1 DEF FoundType
      <4>3. found' = [found EXCEPT ![g] = [found[g] EXCEPT !.members = members(d)]]
        BY <3>2
      <4>4. pc' = [pc EXCEPT ![g] = "members"]
        BY <1>p, <3>2 DEF SyncMembers, ActorsOK
      <4>5. Matches("members", [found[g] EXCEPT !.members = members(d)])
        BY <4>2 DEF Matches
      <4>6. ActorsOK'
        BY <1>p, <4>2, <4>3, <4>4, <4>5, ActorMoves DEF ReconcileStates
      <4> QED BY <1>p, <3>2, <4>6 DEF StatesOK
    <3> QED BY <1>3, <3>1, <3>2
  <2>5. DocumentsOK' /\ StatesOK'
    BY <1>p, <2>4 DEF SyncMembers, DocumentsOK, StatesOK, cluster, instance, search
  <2> QED BY <2>3, <2>4, <2>5, TypeNext
<1> QED BY <1>1, <1>2, <1>3

LEMMA InitTyped == Init => TypeOK
<1> SUFFICES ASSUME Init PROVE TypeOK
  OBVIOUS
<1>1. PICK s \in [Groups -> UNION {Specs[g] : g \in Groups}] :
        /\ spec = s
        /\ \A g \in Groups : s[g] \in Specs[g]
        /\ doc = [g \in Groups |-> [spec |-> s[g], status |-> NoStatus]]
  BY DEF Init
<1>2. NoStatus \in StatusType /\ NoGroup \in [id : Ids \cup {None}]
  BY DEF NoStatus, StatusType, NoGroup
<1>3. DocumentsOK
  BY <1>1, <1>2, GroupAssumption DEF DocumentsOK
<1>4. StatesOK
  BY <1>2 DEF Init, StatesOK
<1>5. ActorsOK
  BY <1>2 DEF Init, ActorsOK, Matches, ReconcileStates
<1>6. ListsOK
  BY DEF Init, ListsOK, Good, Unique
<1> QED BY <1>3, <1>4, <1>5, <1>6, TypeParts

LEMMA ReconcileTyped ==
  ASSUME TypeOK, NEW g \in Groups, ReconcileStep(g)
  PROVE  TypeOK'
<1>p. ListsOK /\ ActorsOK /\ DocumentsOK /\ StatesOK
  BY TypeParts
<1>m. Matches(pc[g], found[g])
  BY <1>p DEF ActorsOK
<1>s. doc[g].spec \in SpecType /\ doc[g].status \in StatusType /\ status[g] \in StatusType
  BY DEF TypeOK
<1>n. doc[g].spec.name \in Names /\ doc[g].spec.id \in Ids \cup {None}
  BY <1>s DEF SpecType
<1>1. CASE ReconcileBegin(g)
  <2>1. DocumentsOK'
    BY <1>1, <1>p DEF ReconcileBegin, DocumentsOK, StatesOK, cluster
  <2>2. ActorsOK'
    BY <1>1, <1>p, <1>m, ActorStays DEF ReconcileBegin, Goto, Matches, ReconcileStates
  <2>3. ListsOK' /\ StatesOK'
    BY <1>1, <1>p DEF ReconcileBegin, ListsOK, Good, Unique, StatesOK, cluster, instance, search
  <2> QED BY <2>1, <2>2, <2>3, TypeNext
<1>2. CASE ReconcilePostponed(g)
  <2>1. [group |-> g, status |-> NoStatus] \in [group : Groups, status : StatusType]
    BY DEF NoStatus, StatusType
  <2>2. StatesOK'
    BY <1>2, <1>p, <2>1 DEF ReconcilePostponed, StatesOK, cluster, instance, search
  <2>3. ListsOK' /\ ActorsOK' /\ DocumentsOK'
    BY <1>2, <1>p DEF ReconcilePostponed, ListsOK, Good, Unique, ActorsOK, DocumentsOK, cluster
  <2> QED BY <2>2, <2>3, TypeNext
<1>3. CASE Lookup(g)
  <2>1. ActorsOK'
    <3>1. CASE Candidates(g) = {}
      BY <1>3, <1>p, <1>m, <3>1, ActorStays DEF Lookup, Goto, Matches, ReconcileStates
    <3>2. CASE Candidates(g) # {}
      <4>1. Candidates(g) \subseteq tracked
        BY DEF Candidates
      <4>2. PICK x \in tracked : found' = [found EXCEPT ![g] = Seen(x)]
        BY <1>3, <3>2, <4>1 DEF Lookup
      <4>3. Seen(x) \in FoundType
        BY SeenTyped
      <4>4. pc' = [pc EXCEPT ![g] = IF pc[g] = "lookup" THEN "existence" ELSE "name"]
        BY <1>3, <3>2 DEF Lookup, Goto
      <4>5. \A s \in {"existence", "name"} : Matches(s, Seen(x)) /\ s \in ReconcileStates
        BY <4>3 DEF Matches, ReconcileStates
      <4> QED BY <1>p, <4>2, <4>3, <4>4, <4>5, ActorMoves
    <3> QED BY <3>1, <3>2
  <2>2. ListsOK' /\ DocumentsOK' /\ StatesOK'
    BY <1>3, <1>p DEF Lookup, ListsOK, Good, Unique, DocumentsOK, StatesOK, cluster, instance, search
  <2> QED BY <2>1, <2>2, TypeNext
<1>4. CASE Create(g)
  <2> DEFINE made(i) == [id |-> i, name |-> doc[g].spec.name, members |-> {}, by |-> g]
             possible(i) == ~HasId(i) /\ ~HasName(doc[g].spec.name)
  <2>1. PICK i \in NewIds(doc[g].spec) :
          \/ /\ Done(possible(i), groups \cup {made(i)})
             /\ found' = [found EXCEPT ![g] = [id |-> i]]
             /\ Goto(g, IF pc[g] = "create" THEN "created" ELSE "recreated")
             /\ UNCHANGED patches
          \/ Fails(possible(i), groups \cup {made(i)}) /\ Finish(g, "missing", None)
    BY <1>4 DEF Create
  <2>2. i \in Ids
    BY <1>n, <2>1 DEF NewIds
  <2>3. possible(i) => Good(groups \cup {made(i)})
    BY <1>n, <2>2, AddedGood
  <2>4. ListsOK'
    <3> HIDE DEF made, possible
    <3>1. possible(i) \in BOOLEAN
      BY DEF possible
    <3> QED BY <2>1, <2>3, <3>1, DoneGood, FailsGood DEF ListsOK
  <2>5. ActorsOK' /\ patches' \subseteq [group : Groups, status : StatusType]
    <3>1. CASE Fails(possible(i), groups \cup {made(i)}) /\ Finish(g, "missing", None)
      BY <3>1, FinishTyped
    <3>2. CASE /\ found' = [found EXCEPT ![g] = [id |-> i]]
               /\ Goto(g, IF pc[g] = "create" THEN "created" ELSE "recreated")
               /\ UNCHANGED patches
      <4>1. [id |-> i] \in [id : Ids] /\ [id |-> i] \in [id : Ids \cup {None}]
        BY <2>2
      <4>2. \A s \in {"created", "recreated"} : Matches(s, [id |-> i]) /\ s \in ReconcileStates
        BY <4>1 DEF Matches, ReconcileStates
      <4>3. ActorsOK'
        BY <1>p, <3>2, <4>1, <4>2, ActorMoves DEF Goto
      <4> QED BY <1>p, <3>2, <4>3 DEF StatesOK
    <3> QED BY <2>1, <3>1, <3>2
  <2>6. DocumentsOK' /\ StatesOK'
    BY <1>4, <1>p, <2>5 DEF Create, DocumentsOK, StatesOK, cluster, instance, search
  <2> QED BY <2>4, <2>5, <2>6, TypeNext
<1>5. CASE Created(g)
  <2>1. ActorsOK' /\ patches' \subseteq [group : Groups, status : StatusType]
    <3>1. CASE Finish(g, "missing", None)
      BY <3>1, FinishTyped
    <3>2. CASE ~Finish(g, "missing", None)
      <4>1. PICK x \in tracked : found' = [found EXCEPT ![g] = Seen(x)]
        BY <1>5, <3>2 DEF Created
      <4>2. Seen(x) \in FoundType
        BY SeenTyped
      <4>3. /\ pc' = [pc EXCEPT ![g] = IF pc[g] = "created" THEN "existence" ELSE "name"]
            /\ UNCHANGED patches
        BY <1>5, <3>2 DEF Created, Goto
      <4>4. \A s \in {"existence", "name"} : Matches(s, Seen(x)) /\ s \in ReconcileStates
        BY <4>2 DEF Matches, ReconcileStates
      <4>5. ActorsOK'
        BY <1>p, <4>1, <4>2, <4>3, <4>4, ActorMoves
      <4> QED BY <1>p, <4>3, <4>5 DEF StatesOK
    <3> QED BY <3>1, <3>2
  <2>2. ListsOK' /\ DocumentsOK' /\ StatesOK'
    BY <1>5, <1>p, <2>1 DEF Created, ListsOK, Good, Unique, DocumentsOK, StatesOK, cluster, instance, search
  <2> QED BY <2>1, <2>2, TypeNext
<1>6. CASE Existence(g)
  <2>1. ActorsOK'
    BY <1>6, <1>p, <1>m, ActorStays DEF Existence, Goto, Matches, ReconcileStates
  <2>2. ListsOK' /\ DocumentsOK' /\ StatesOK'
    BY <1>6, <1>p DEF Existence, ListsOK, Good, Unique, DocumentsOK, StatesOK, cluster, instance, search
  <2> QED BY <2>1, <2>2, TypeNext
<1>7. CASE DeleteOld(g)
  <2> DEFINE i == found[g].id
  <2>1. \/ Done(HasId(i), Without(i)) /\ Goto(g, "relookup") /\ UNCHANGED <<patches, found>>
        \/ Fails(HasId(i), Without(i)) /\ Finish(g, "missing", None)
    BY <1>7 DEF DeleteOld
  <2>2. ListsOK'
    BY <2>1, WithoutGood, DoneGood, FailsGood DEF ListsOK, HasId
  <2>3. ActorsOK' /\ patches' \subseteq [group : Groups, status : StatusType]
    <3>1. CASE Finish(g, "missing", None)
      BY <3>1, FinishTyped
    <3>2. CASE Goto(g, "relookup") /\ UNCHANGED <<patches, found>>
      <4>1. Matches("relookup", found[g])
        BY <1>7, <1>m DEF DeleteOld, Matches
      <4> QED BY <1>p, <3>2, <4>1, ActorStays DEF Goto, ReconcileStates, StatesOK
    <3> QED BY <2>1, <3>1, <3>2
  <2>4. DocumentsOK' /\ StatesOK'
    BY <1>7, <1>p, <2>3 DEF DeleteOld, DocumentsOK, StatesOK, cluster, instance, search
  <2> QED BY <2>2, <2>3, <2>4, TypeNext
<1>8. CASE SyncName(g)
  <2> DEFINE i == found[g].id
             n == doc[g].spec.name
             possible == HasId(i) /\ ~HasName(n)
             new == Changed(i, [ById(i) EXCEPT !.name = n])
  <2>1. \/ Goto(g, "devices") /\ UNCHANGED <<patches, groups, tracked, found>>
        \/ Done(possible, new) /\ Goto(g, "devices") /\ UNCHANGED <<patches, found>>
        \/ Fails(possible, new) /\ Finish(g, "unsynced", i)
    BY <1>8 DEF SyncName
  <2>2. found[g] \in FoundType /\ i \in Ids
    BY <1>8, <1>m DEF SyncName, Matches, FoundType
  <2>3. possible => Good(new)
    BY <1>n, <2>2, RenamedGood
  <2>4. ListsOK'
    <3> HIDE DEF new
    <3> QED BY <1>p, <2>1, <2>3, DoneGood, FailsGood DEF ListsOK, Good, Unique, HasId
  <2>5. ActorsOK' /\ patches' \subseteq [group : Groups, status : StatusType]
    <3>1. CASE Finish(g, "unsynced", i)
      BY <2>2, <3>1, FinishTyped
    <3>2. CASE Goto(g, "devices") /\ UNCHANGED <<patches, found>>
      <4>1. Matches("devices", found[g])
        BY <2>2 DEF Matches
      <4> QED BY <1>p, <3>2, <4>1, ActorStays DEF Goto, ReconcileStates, StatesOK
    <3> QED BY <2>1, <3>1, <3>2
  <2>6. DocumentsOK' /\ StatesOK'
    BY <1>8, <1>p, <2>5 DEF SyncName, DocumentsOK, StatesOK, cluster, instance, search
  <2> QED BY <2>4, <2>5, <2>6, TypeNext
<1>9. CASE SyncMembers(g)
  BY <1>9, MembersTyped
<1>10. CASE SyncOptions(g)
  <2>1. found[g] \in FoundType /\ found[g].id \in Ids
    BY <1>10, <1>m DEF SyncOptions, Matches, FoundType
  <2>2. ActorsOK' /\ patches' \subseteq [group : Groups, status : StatusType]
    BY <1>10, <2>1, FinishTyped DEF SyncOptions
  <2>3. ListsOK' /\ DocumentsOK' /\ StatesOK'
    BY <1>10, <1>p, <2>2 DEF SyncOptions, ListsOK, Good, Unique, DocumentsOK, StatesOK, cluster, instance, search
  <2> QED BY <2>2, <2>3, TypeNext
<1>11. CASE Cleanup(g)
  <2> DEFINE i == status[g].id
  <2>1. ListsOK'
    <3>1. CASE ready /\ i # None
      <4>1. Done(HasId(i), Without(i)) \/ Fails(HasId(i), Without(i))
        BY <1>11, <3>1 DEF Cleanup
      <4> QED BY <4>1, WithoutGood, DoneGood, FailsGood DEF ListsOK, HasId
    <3>2. CASE ~(ready /\ i # None)
      BY <1>11, <1>p, <3>2 DEF Cleanup, ListsOK, Good, Unique
    <3> QED BY <3>1, <3>2
  <2>2. StatesOK'
    <3>1. Gone(g) \/ UNCHANGED <<k8s, status>>
      BY <1>11 DEF Cleanup
    <3>2. NoStatus \in StatusType
      BY DEF NoStatus, StatusType
    <3>3. k8s' \in [Groups -> {"absent", "present", "deleting"}] /\ status' \in [Groups -> StatusType]
      BY <1>p, <3>1, <3>2 DEF Gone, StatesOK
    <3> QED BY <1>11, <1>p, <3>3 DEF Cleanup, StatesOK, instance, search
  <2>3. ActorsOK' /\ DocumentsOK'
    BY <1>11, <1>p DEF Cleanup, ActorsOK, DocumentsOK
  <2> QED BY <2>1, <2>2, <2>3, TypeNext
<1>12. CASE ListFails(g)
  <2>1. \/ Finish(g, "missing", None)
        \/ pc[g] = "devices" /\ Finish(g, "unsynced", found[g].id)
    BY <1>12 DEF ListFails
  <2>2. pc[g] = "devices" => found[g].id \in Ids
    BY <1>m DEF Matches, FoundType
  <2>3. ActorsOK' /\ patches' \subseteq [group : Groups, status : StatusType]
    BY <2>1, <2>2, FinishTyped
  <2>4. ListsOK' /\ DocumentsOK' /\ StatesOK'
    BY <1>12, <1>p, <2>3 DEF ListFails, ListsOK, Good, Unique, DocumentsOK, StatesOK, cluster, instance, search
  <2> QED BY <2>3, <2>4, TypeNext
<1>13. CASE FindMembers(g)
  <2>1. found[g] \in FoundType /\ found[g].id \in Ids
    BY <1>13, <1>m DEF FindMembers, Matches, FoundType
  <2>2. ActorsOK' /\ patches' \subseteq [group : Groups, status : StatusType]
    <3>1. CASE Finish(g, "unsynced", found[g].id)
      BY <2>1, <3>1, FinishTyped
    <3>2. CASE Goto(g, "members") /\ UNCHANGED <<patches, found>>
      <4>1. Matches("members", found[g])
        BY <2>1 DEF Matches
      <4> QED BY <1>p, <3>2, <4>1, ActorStays DEF Goto, ReconcileStates, StatesOK
    <3> QED BY <1>13, <3>1, <3>2 DEF FindMembers
  <2>3. ListsOK' /\ DocumentsOK' /\ StatesOK'
    BY <1>13, <1>p, <2>2 DEF FindMembers, ListsOK, Good, Unique, DocumentsOK, StatesOK, cluster, instance, search
  <2> QED BY <2>2, <2>3, TypeNext
<1> QED BY <1>1, <1>2, <1>3, <1>4, <1>5, <1>6, <1>7, <1>8, <1>9, <1>10, <1>11, <1>12, <1>13
        DEF ReconcileStep

LEMMA OtherTyped ==
  ASSUME TypeOK,
         \/ \E g \in Groups : UserStep(g)
         \/ \E p \in patches : PatchArrives(p)
         \/ SearchStep \/ Deliver \/ ReadyChanges \/ CalmDown
         \/ UNCHANGED vars
  PROVE  TypeOK'
<1>p. ListsOK /\ ActorsOK /\ DocumentsOK /\ StatesOK
  BY TypeParts
<1>1. ASSUME NEW g \in Groups, UserStep(g) PROVE TypeOK'
  <2>1. DocumentsOK'
    BY <1>1, <1>p, GroupAssumption
       DEF UserStep, CreateResource, EditResource, DeleteResource, DocumentsOK
  <2>2. StatesOK'
    BY <1>1, <1>p
       DEF UserStep, CreateResource, EditResource, DeleteResource, StatesOK, instance, search
  <2>3. ListsOK' /\ ActorsOK'
    BY <1>1, <1>p DEF UserStep, CreateResource, EditResource, DeleteResource,
                      ListsOK, Good, Unique, ActorsOK
  <2> QED BY <2>1, <2>2, <2>3, TypeNext
<1>2. ASSUME NEW p \in patches, PatchArrives(p) PROVE TypeOK'
  <2>1. p \in [group : Groups, status : StatusType]
    BY <1>p DEF StatesOK
  <2>2. status' \in [Groups -> StatusType] /\ patches' \subseteq [group : Groups, status : StatusType]
    BY <1>2, <1>p, <2>1 DEF PatchArrives, StatesOK
  <2> QED BY <1>2, <1>p, <2>2, TypeNext
          DEF PatchArrives, ListsOK, Good, Unique, ActorsOK, DocumentsOK, StatesOK, cluster, instance, search
<1>3. CASE SearchBegin
  <2>1. managed' \subseteq Ids
    BY <1>3, <1>p DEF SearchBegin, StatesOK, StatusType
  <2>2. ActorsOK'
    BY <1>3, <1>p, SearchMoves DEF SearchBegin, Goto
  <2> QED BY <1>3, <1>p, <2>1, <2>2, TypeNext
          DEF SearchBegin, ListsOK, Good, Unique, DocumentsOK, StatesOK, cluster, instance
<1>4. CASE SearchCompare
  <2>1. doomed' \subseteq Ids
    BY <1>4, <1>p DEF SearchCompare, ListsOK, GroupType
  <2>2. ActorsOK'
    BY <1>4, <1>p, SearchMoves DEF SearchCompare, Goto
  <2> QED BY <1>4, <1>p, <2>1, <2>2, TypeNext
          DEF SearchCompare, ListsOK, Good, Unique, DocumentsOK, StatesOK, cluster, instance
<1>5. CASE SearchDelete
  <2>1. ListsOK'
    BY <1>5, <1>p, WithoutGood, DoneGood, FailsGood DEF SearchDelete, ListsOK, Good, Unique, HasId
  <2>2. ActorsOK'
    <3>1. pc' = [pc EXCEPT ![Search] = "idle"] \/ pc' = [pc EXCEPT ![Search] = "delete"]
      BY <1>5, <1>p DEF SearchDelete, SearchEnds, Goto, ActorsOK
    <3> QED BY <1>5, <1>p, <3>1, SearchMoves DEF SearchDelete
  <2>3. managed' \subseteq Ids /\ doomed' \subseteq Ids
    BY <1>5, <1>p DEF SearchDelete, SearchEnds, StatesOK
  <2> QED BY <1>5, <1>p, <2>1, <2>2, <2>3, TypeNext
          DEF SearchDelete, DocumentsOK, StatesOK, cluster, instance
<1>6. CASE Deliver \/ ReadyChanges \/ CalmDown \/ UNCHANGED vars
  BY <1>6, <1>p, TypeNext
     DEF Deliver, ReadyChanges, CalmDown, vars, cluster, instance, search,
         ListsOK, Good, Unique, ActorsOK, DocumentsOK, StatesOK
<1> QED BY <1>1, <1>2, <1>3, <1>4, <1>5, <1>6 DEF SearchStep

(* Every variable keeps its type, and no two groups have one id or one name: *)
(* for any resources, specifications and surroundings.                       *)
THEOREM TypeCorrect == Spec => []TypeOK
<1>1. TypeOK /\ [Next]_vars => TypeOK'
  BY ReconcileTyped, OtherTyped DEF Next
<1> QED BY <1>1, InitTyped, PTL DEF Spec

--------------------------------------------------------------------------------
(* The search for unmanaged groups *)

(* No two resources want the same name, none gets another, none has an id.   *)
NamesApart ==
  \A g, h \in Groups : \A s \in Specs[g], t \in Specs[h] :
    s.id = None /\ (s.name = t.name <=> g = h)

(* No resource is created while the search may run, and no cleanup times out.*)
Orderly ==
  \A e \in Environments : "create" \notin e /\ ("delete" \notin e \/ "timeout" \notin e)

Alive(g) == k8s[g] # "absent"
Owns(g, i) == \E x \in groups : x.id = i /\ x.by = g
OwnsOrNone(g, i) == i = None \/ Owns(g, i)

(* Groups have the name of the resource that made them, in the list of the   *)
(* tracker too.                                                              *)
NamesKept == \A x \in groups \cup tracked : \A s \in Specs[x.by] : x.name = s.name

(* Every id a resource knows is that of a group it made and that exists: in  *)
(* its status, the status a reconcile works with or has sent, the group it   *)
(* works on, and what the tracker returns.                                   *)
IdsKept ==
  \A g \in Groups : Alive(g) =>
    /\ OwnsOrNone(g, status[g].id)
    /\ OwnsOrNone(g, doc[g].status.id)
    /\ OwnsOrNone(g, found[g].id)
    /\ \A p \in patches : p.group = g => OwnsOrNone(g, p.status.id)
    /\ \A x \in tracked : x.by = g => Owns(g, x.id)

WorkKept ==
  \A g \in Groups :
    /\ pc[g] # "idle" => Alive(g)
    /\ pc[g] \notin {"delete", "relookup", "recreate", "recreated"}
    /\ k8s[g] = "deleting" => "delete" \in environment

(* What the search has listed names a group of every resource there is.      *)
SearchKept ==
  /\ pc[Search] # "idle" =>
       \A g \in Groups : Alive(g) => \E i \in managed : Owns(g, i)
  /\ pc[Search] # "delete" => doomed = {}
  /\ doomed \cap managed = {}

Inv == TypeOK /\ NamesKept /\ IdsKept /\ WorkKept /\ SearchKept

LEMMA OneEach ==
  ASSUME TypeOK, NamesKept, NEW x \in groups, NEW y \in groups, x.by = y.by
  PROVE  x = y
<1>1. x.by \in Groups
  BY DEF TypeOK, GroupType
<1>2. PICK s : s \in Specs[x.by]
  BY <1>1, GroupAssumption
<1>3. x.name = s.name /\ y.name = s.name
  BY <1>2 DEF NamesKept
<1> QED BY <1>3 DEF TypeOK

LEMMA Outcome ==
  ASSUME NEW p \in BOOLEAN, NEW new, Done(p, new) \/ Fails(p, new)
  PROVE  \/ UNCHANGED <<groups, tracked>>
         \/ p /\ groups' = new /\ tracked' \in {tracked, new}
BY DEF Done, Fails, Refused, TimedOut, Store

(* A step keeps the groups of the resources that are there after it.         *)
Keeps ==
  /\ \A h \in Groups : Alive(h)' => Alive(h)
  /\ \A h \in Groups : Alive(h)' => \A i : Owns(h, i) => Owns(h, i)'
  /\ tracked' \in {tracked, groups'}

LEMMA KeepsIds ==
  ASSUME IdsKept, Keeps,
         \A h \in Groups : Alive(h)' =>
           /\ status'[h].id = status[h].id \/ OwnsOrNone(h, status[h].id)'
           /\ doc'[h].status.id = doc[h].status.id \/ OwnsOrNone(h, doc[h].status.id)'
           /\ found'[h].id = found[h].id \/ OwnsOrNone(h, found[h].id)'
           /\ \A p \in patches' :
                p.group = h => p \in patches \/ OwnsOrNone(h, p.status.id)'
  PROVE  IdsKept'
<1> SUFFICES ASSUME NEW g \in Groups, Alive(g)'
             PROVE  /\ OwnsOrNone(g, status[g].id)'
                    /\ OwnsOrNone(g, doc[g].status.id)'
                    /\ OwnsOrNone(g, found[g].id)'
                    /\ \A p \in patches' : p.group = g => OwnsOrNone(g, p.status.id)'
                    /\ \A x \in tracked' : x.by = g => Owns(g, x.id)'
  BY DEF IdsKept
<1>a. Alive(g)
  BY DEF Keeps
<1>1. \A i : OwnsOrNone(g, i) => i = None \/ \E x \in groups' : x.id = i /\ x.by = g
  <2>1. \A i : Owns(g, i) => Owns(g, i)'
    BY DEF Keeps
  <2>2. \A i : Owns(g, i)' => \E x \in groups' : x.id = i /\ x.by = g
    BY DEF Owns
  <2> QED BY <2>1, <2>2 DEF OwnsOrNone
<1>2. /\ OwnsOrNone(g, status[g].id) /\ OwnsOrNone(g, doc[g].status.id)
      /\ OwnsOrNone(g, found[g].id)
      /\ \A p \in patches : p.group = g => OwnsOrNone(g, p.status.id)
      /\ \A x \in tracked : x.by = g => Owns(g, x.id)
  BY <1>a DEF IdsKept
<1>3. OwnsOrNone(g, status[g].id)'
  <2>1. status'[g].id = status[g].id \/ OwnsOrNone(g, status[g].id)'
    OBVIOUS
  <2>2. CASE status'[g].id = status[g].id
    <3>1. status[g].id = None \/ \E x \in groups' : x.id = status[g].id /\ x.by = g
      BY <1>1, <1>2
    <3> QED BY <2>2, <3>1 DEF OwnsOrNone, Owns
  <2> QED BY <2>1, <2>2
<1>4. OwnsOrNone(g, doc[g].status.id)'
  <2>1. doc'[g].status.id = doc[g].status.id \/ OwnsOrNone(g, doc[g].status.id)'
    OBVIOUS
  <2>2. CASE doc'[g].status.id = doc[g].status.id
    <3>1. doc[g].status.id = None \/ \E x \in groups' : x.id = doc[g].status.id /\ x.by = g
      BY <1>1, <1>2
    <3> QED BY <2>2, <3>1 DEF OwnsOrNone, Owns
  <2> QED BY <2>1, <2>2
<1>5. OwnsOrNone(g, found[g].id)'
  <2>1. found'[g].id = found[g].id \/ OwnsOrNone(g, found[g].id)'
    OBVIOUS
  <2>2. CASE found'[g].id = found[g].id
    <3>1. found[g].id = None \/ \E x \in groups' : x.id = found[g].id /\ x.by = g
      BY <1>1, <1>2
    <3> QED BY <2>2, <3>1 DEF OwnsOrNone, Owns
  <2> QED BY <2>1, <2>2
<1>6. ASSUME NEW p \in patches', p.group = g PROVE OwnsOrNone(g, p.status.id)'
  <2>1. CASE p \in patches
    <3>1. OwnsOrNone(g, p.status.id)
      BY <1>2, <1>6, <2>1
    <3> QED BY <1>1, <3>1 DEF OwnsOrNone, Owns
  <2>2. CASE p \notin patches
    BY <1>6, <2>2
  <2> QED BY <2>1, <2>2
<1>7. ASSUME NEW x \in tracked', x.by = g PROVE Owns(g, x.id)'
  <2>1. CASE x \in tracked
    <3>1. Owns(g, x.id)
      BY <1>2, <1>7, <2>1
    <3> QED BY <3>1 DEF Keeps
  <2>2. CASE x \in groups'
    BY <1>7, <2>2 DEF Owns
  <2> QED BY <1>7, <2>1, <2>2 DEF Keeps
<1> QED BY <1>3, <1>4, <1>5, <1>6, <1>7

LEMMA KeepsSearch ==
  ASSUME SearchKept, Keeps, UNCHANGED search, pc'[Search] = pc[Search]
  PROVE  SearchKept'
BY DEF SearchKept, Keeps, search

(* Requests keep the groups of all others, and all names.                    *)
LEMMA WithoutKeeps ==
  ASSUME TypeOK, NamesKept, NEW i, UNCHANGED spec,
         \/ UNCHANGED <<groups, tracked>>
         \/ groups' = Without(i) /\ tracked' \in {tracked, Without(i)},
         \A h \in Groups : Alive(h)' => Alive(h) /\ ~Owns(h, i)
  PROVE  Keeps /\ NamesKept'
<1>1. \A x \in groups : x.id # i => x \in groups'
  BY DEF Without
<1>2. groups' \subseteq groups /\ tracked' \in {tracked, groups'}
  BY DEF Without
<1>3. NamesKept'
  BY <1>2 DEF NamesKept
<1>4. Keeps
  BY <1>1, <1>2 DEF Keeps, Owns
<1> QED BY <1>3, <1>4

LEMMA AddedKeeps ==
  ASSUME TypeOK, NamesKept, NamesApart, NEW g \in Groups, NEW s \in Specs[g], NEW i,
         \/ UNCHANGED <<groups, tracked>>
         \/ LET new == groups \cup {[id |-> i, name |-> s.name, members |-> {}, by |-> g]}
            IN groups' = new /\ tracked' \in {tracked, new},
         UNCHANGED k8s
  PROVE  Keeps /\ NamesKept'
<1> DEFINE new == [id |-> i, name |-> s.name, members |-> {}, by |-> g]
<1>1. new.by = g /\ new.name = s.name
  OBVIOUS
<1>2. groups' \in {groups, groups \cup {new}} /\ tracked' \in {tracked, groups'}
  OBVIOUS
<1> HIDE DEF new
<1>3. \A t \in Specs[g] : t.name = s.name
  BY DEF NamesApart
<1>4. NamesKept'
  BY <1>1, <1>2, <1>3 DEF NamesKept
<1>5. Keeps
  BY <1>2 DEF Keeps, Owns, Alive
<1> QED BY <1>4, <1>5

LEMMA ChangedKeeps ==
  ASSUME TypeOK, NamesKept, NEW i, HasId(i), NEW new \in GroupType,
         new.id = i, new.by = ById(i).by, \A s \in Specs[new.by] : new.name = s.name,
         groups' = Changed(i, new), tracked' \in {tracked, groups'}, UNCHANGED k8s
  PROVE  Keeps /\ NamesKept'
<1>1. ById(i) \in groups /\ ById(i).id = i
  BY ByIdFinds
<1>2. \A x \in groups : x.id = i => x = ById(i)
  BY <1>1 DEF TypeOK
<1>3. groups' = {x \in groups : x.id # i} \cup {new}
  BY DEF Changed, Without
<1>4. NamesKept'
  BY <1>3 DEF NamesKept
<1>5. Keeps
  <2>1. ASSUME NEW h, NEW j, Owns(h, j) PROVE Owns(h, j)'
    <3>1. PICK x \in groups : x.id = j /\ x.by = h
      BY <2>1 DEF Owns
    <3>2. CASE x.id = i
      BY <1>2, <1>3, <3>1, <3>2 DEF Owns
    <3>3. CASE x.id # i
      BY <1>3, <3>1, <3>3 DEF Owns
    <3> QED BY <3>2, <3>3
  <2> QED BY <2>1 DEF Keeps, Alive
<1> QED BY <1>4, <1>5

LEMMA UnmovedKeeps ==
  ASSUME NamesKept, UNCHANGED groups, tracked' \in {tracked, groups},
         \A h \in Groups : Alive(h)' => Alive(h)
  PROVE  Keeps /\ NamesKept'
<1>1. \A h, i : Owns(h, i) => Owns(h, i)'
  BY DEF Owns
<1> QED BY <1>1 DEF Keeps, NamesKept

LEMMA OwnGroup ==
  ASSUME TypeOK, NEW g, NEW i, Owns(g, i)
  PROVE  HasId(i) /\ ById(i) \in groups /\ ById(i).id = i /\ ById(i).by = g
<1>1. PICK x \in groups : x.id = i /\ x.by = g
  BY DEF Owns
<1>2. HasId(i)
  BY <1>1 DEF HasId
<1>3. ById(i) \in groups /\ ById(i).id = i
  BY <1>2, ByIdFinds
<1>4. ById(i) = x
  BY <1>1, <1>3 DEF TypeOK
<1> QED BY <1>1, <1>2, <1>3, <1>4

LEMMA WorkMoves ==
  ASSUME TypeOK, WorkKept, NEW g \in Groups, Alive(g), UNCHANGED <<k8s, environment>>,
         NEW state, pc' = [pc EXCEPT ![g] = state],
         state \notin {"delete", "relookup", "recreate", "recreated"}
  PROVE  WorkKept' /\ pc'[Search] = pc[Search]
BY SearchApart DEF TypeOK, WorkKept, Alive

LEMMA FoundIds ==
  ASSUME TypeOK, IdsKept, Keeps, NEW g \in Groups, NEW x, OwnsOrNone(g, x.id)',
         found' = [found EXCEPT ![g] = x], UNCHANGED <<status, doc, patches>>
  PROVE  IdsKept'
<1>1. found'[g].id = x.id /\ \A h \in Groups \ {g} : found'[h] = found[h]
  BY DEF TypeOK
<1>2. OwnsOrNone(g, found[g].id)'
  BY <1>1 DEF OwnsOrNone, Owns
<1> QED BY <1>1, <1>2, KeepsIds

LEMMA FinishIds ==
  ASSUME TypeOK, IdsKept, Keeps, NEW g \in Groups, NEW state, NEW i,
         Finish(g, state, i), OwnsOrNone(g, i), UNCHANGED <<status, doc>>
  PROVE  IdsKept'
<1> DEFINE sent == [group |-> g, status |-> [state |-> state, id |-> i]]
<1>1. /\ found'[g].id = None
      /\ \A h \in Groups \ {g} : found'[h] = found[h]
      /\ patches' \subseteq patches \cup {sent}
  BY DEF TypeOK, Finish, NoGroup
<1>2. sent.group = g /\ sent.status.id = i
  OBVIOUS
<1> HIDE DEF sent
<1>3. Alive(g)' => OwnsOrNone(g, i)'
  <2>1. Alive(g)' => (Owns(g, i) => Owns(g, i)')
    BY DEF Keeps
  <2> QED BY <2>1 DEF OwnsOrNone
<1>4. OwnsOrNone(g, found[g].id)'
  BY <1>1 DEF OwnsOrNone
<1>5. ASSUME NEW h \in Groups, Alive(h)', NEW p \in patches', p.group = h
      PROVE  p \in patches \/ OwnsOrNone(h, p.status.id)'
  <2>1. CASE p = sent
    <3>1. h = g /\ p.status.id = i
      BY <1>2, <1>5, <2>1
    <3> QED BY <1>3, <1>5, <3>1 DEF OwnsOrNone, Owns, Alive
  <2> QED BY <1>1, <1>5, <2>1
<1> QED BY <1>1, <1>4, <1>5, KeepsIds

(* What a reconcile looks up by its name, or by an id it knows, is its own.  *)
LEMMA CandidatesOwn ==
  ASSUME Inv, NamesApart, NEW g \in Groups, Alive(g), NEW x \in Candidates(g)
  PROVE  x \in tracked /\ Owns(g, x.id)
<1>1. x \in tracked /\ x.by \in Groups /\ x.id # None /\ doc[g].spec \in Specs[g]
  BY GroupAssumption DEF Candidates, Inv, TypeOK, GroupType
<1>2. doc[g].spec.id = None
  BY <1>1 DEF NamesApart
<1>3. CASE x.id = GetId(g)
  <2>1. x.id = doc[g].status.id
    BY <1>1, <1>2, <1>3 DEF GetId
  <2> QED BY <1>1, <2>1 DEF Inv, IdsKept, OwnsOrNone
<1>4. CASE x.name = doc[g].spec.name
  <2>1. PICK s : s \in Specs[x.by]
    BY <1>1, GroupAssumption
  <2>2. x.name = s.name
    BY <1>1, <2>1 DEF Inv, NamesKept
  <2>3. \A r \in Specs[g], t \in Specs[x.by] : r.name = t.name <=> g = x.by
    BY <1>1 DEF NamesApart
  <2>4. x.by = g
    BY <1>1, <1>4, <2>1, <2>2, <2>3
  <2> QED BY <1>1, <2>4 DEF Inv, IdsKept
<1> QED BY <1>1, <1>3, <1>4 DEF Candidates

LEMMA LookupInv ==
  ASSUME Inv, NamesApart, NEW g \in Groups, Lookup(g)
  PROVE  NamesKept' /\ IdsKept' /\ WorkKept' /\ SearchKept'
<1>1. pc[g] = "lookup" /\ Alive(g)
  BY DEF Inv, WorkKept, Lookup
<1>2. Keeps /\ NamesKept'
  BY UnmovedKeeps DEF Inv, Lookup, cluster, Alive
<1>3. WorkKept' /\ pc'[Search] = pc[Search]
  <2>1. pc' = [pc EXCEPT ![g] = "create"] \/ pc' = [pc EXCEPT ![g] = "existence"]
    BY <1>1 DEF Lookup, Goto
  <2> QED BY <1>1, <2>1, WorkMoves DEF Inv, Lookup, cluster, instance
<1>4. SearchKept'
  BY <1>2, <1>3, KeepsSearch DEF Inv, Lookup
<1>5. IdsKept'
  <2>1. CASE Candidates(g) = {}
    BY <1>2, <2>1, KeepsIds DEF Inv, Lookup
  <2>2. CASE Candidates(g) # {}
    <3>1. PICK x \in Candidates(g) : found' = [found EXCEPT ![g] = Seen(x)]
      BY <2>2 DEF Lookup
    <3>2. Owns(g, x.id)
      BY <1>1, CandidatesOwn
    <3>3. PICK y : y = Seen(x)
      OBVIOUS
    <3>4. y.id = x.id
      BY <3>3 DEF Seen
    <3>5. OwnsOrNone(g, y.id)'
      BY <3>2, <3>4 DEF OwnsOrNone, Owns, Lookup
    <3> QED BY <1>2, <3>1, <3>3, <3>5, FoundIds DEF Inv, Lookup, cluster
  <2> QED BY <2>1, <2>2
<1> QED BY <1>2, <1>3, <1>4, <1>5

LEMMA CreateInv ==
  ASSUME Inv, NamesApart, NEW g \in Groups, Create(g)
  PROVE  NamesKept' /\ IdsKept' /\ WorkKept' /\ SearchKept'
<1> DEFINE s == doc[g].spec
           new(i) == groups \cup {[id |-> i, name |-> s.name, members |-> {}, by |-> g]}
           possible(i) == ~HasId(i) /\ ~HasName(s.name)
<1>1. pc[g] = "create" /\ Alive(g) /\ s \in Specs[g]
  BY DEF Inv, WorkKept, Create, TypeOK
<1>2. PICK i : \/ /\ Done(possible(i), new(i))
                  /\ found' = [found EXCEPT ![g] = [id |-> i]]
                  /\ Goto(g, IF pc[g] = "create" THEN "created" ELSE "recreated")
                  /\ UNCHANGED patches
               \/ Fails(possible(i), new(i)) /\ Finish(g, "missing", None)
  BY DEF Create
<1>3. Keeps /\ NamesKept'
  <2>1. \/ UNCHANGED <<groups, tracked>>
        \/ groups' = new(i) /\ tracked' \in {tracked, new(i)}
    <3>1. possible(i) \in BOOLEAN
      OBVIOUS
    <3> HIDE DEF possible, new
    <3> QED BY <1>2, <3>1, Outcome
  <2> QED BY <1>1, <2>1, AddedKeeps DEF Inv, Create, cluster
<1>4. WorkKept' /\ pc'[Search] = pc[Search]
  <2>1. pc' = [pc EXCEPT ![g] = "created"] \/ pc' = [pc EXCEPT ![g] = "idle"]
    BY <1>1, <1>2 DEF Finish, Goto
  <2> QED BY <1>1, <2>1, WorkMoves DEF Inv, Create, cluster, instance
<1>5. SearchKept'
  BY <1>3, <1>4, KeepsSearch DEF Inv, Create
<1>6. IdsKept'
  <2>1. CASE Finish(g, "missing", None)
    BY <1>3, <2>1, FinishIds DEF Inv, Create, OwnsOrNone
  <2>2. CASE ~Finish(g, "missing", None)
    <3>1. groups' = new(i) /\ found' = [found EXCEPT ![g] = [id |-> i]] /\ UNCHANGED patches
      BY <1>2, <2>2 DEF Done, Store
    <3>2. Owns(g, i)'
      <4>1. PICK r \in groups' : r = [id |-> i, name |-> s.name, members |-> {}, by |-> g]
        BY <3>1
      <4>2. r.id = i /\ r.by = g
        BY <4>1
      <4> QED BY <4>2 DEF Owns
    <3>3. PICK y : y = [id |-> i]
      OBVIOUS
    <3>4. y.id = i
      BY <3>3
    <3>5. OwnsOrNone(g, y.id)'
      BY <3>2, <3>4 DEF OwnsOrNone, Owns
    <3> HIDE DEF new
    <3> QED BY <1>3, <3>1, <3>3, <3>5, FoundIds DEF Inv, Create
  <2> QED BY <2>1, <2>2
<1> QED BY <1>3, <1>4, <1>5, <1>6

LEMMA CreatedInv ==
  ASSUME Inv, NEW g \in Groups, Created(g)
  PROVE  NamesKept' /\ IdsKept' /\ WorkKept' /\ SearchKept'
<1>1. pc[g] = "created" /\ Alive(g) /\ found[g].id # None
  BY GroupAssumption DEF Inv, WorkKept, Created, TypeOK
<1>2. Keeps /\ NamesKept'
  BY UnmovedKeeps DEF Inv, Created, cluster, Alive
<1>3. WorkKept' /\ pc'[Search] = pc[Search]
  <2>1. pc' = [pc EXCEPT ![g] = "idle"] \/ pc' = [pc EXCEPT ![g] = "existence"]
    BY <1>1 DEF Created, Finish, Goto
  <2> QED BY <1>1, <2>1, WorkMoves DEF Inv, Created, cluster, instance
<1>4. SearchKept'
  BY <1>2, <1>3, KeepsSearch DEF Inv, Created
<1>5. IdsKept'
  <2>1. CASE Finish(g, "missing", None)
    BY <1>2, <2>1, FinishIds DEF Inv, Created, OwnsOrNone
  <2>2. CASE ~Finish(g, "missing", None)
    <3>1. PICK x \in tracked : /\ x.id = found[g].id
                               /\ found' = [found EXCEPT ![g] = Seen(x)]
                               /\ UNCHANGED patches
      BY <2>2 DEF Created
    <3>2. Owns(g, x.id)
      BY <1>1, <3>1 DEF Inv, IdsKept, OwnsOrNone
    <3>3. PICK y : y = Seen(x)
      OBVIOUS
    <3>4. y.id = x.id
      BY <3>3 DEF Seen
    <3>5. OwnsOrNone(g, y.id)'
      BY <3>2, <3>4 DEF OwnsOrNone, Owns, Created
    <3> QED BY <1>2, <3>1, <3>3, <3>5, FoundIds DEF Inv, Created
  <2> QED BY <2>1, <2>2
<1> QED BY <1>2, <1>3, <1>4, <1>5

LEMMA NameInv ==
  ASSUME Inv, NamesApart, NEW g \in Groups, SyncName(g)
  PROVE  NamesKept' /\ IdsKept' /\ WorkKept' /\ SearchKept'
<1> DEFINE i == found[g].id
           n == doc[g].spec.name
           possible == HasId(i) /\ ~HasName(n)
           new == [ById(i) EXCEPT !.name = n]
<1>1. Alive(g) /\ i \in Ids /\ Owns(g, i)
  <2>1. Alive(g) /\ found[g] \in FoundType
    BY DEF Inv, WorkKept, SyncName, TypeOK
  <2>2. i \in Ids /\ i # None
    BY <2>1, GroupAssumption DEF FoundType
  <2> QED BY <2>1, <2>2 DEF Inv, IdsKept, OwnsOrNone
<1>2. /\ HasId(i) /\ ById(i) \in GroupType /\ ById(i).id = i /\ ById(i).by = g
  BY <1>1, OwnGroup DEF Inv, TypeOK
<1>3. n \in Names /\ \A s \in Specs[g] : n = s.name
  <2>1. doc[g].spec \in Specs[g] /\ doc[g].spec \in SpecType
    BY DEF Inv, TypeOK
  <2> QED BY <2>1 DEF NamesApart, SpecType
<1>4. new \in GroupType /\ new.id = i /\ new.by = g /\ new.name = n
  BY <1>2, <1>3 DEF GroupType
<1>5. \/ Goto(g, "devices") /\ UNCHANGED <<patches, groups, tracked, found>>
      \/ Done(possible, Changed(i, new)) /\ Goto(g, "devices") /\ UNCHANGED <<patches, found>>
      \/ Fails(possible, Changed(i, new)) /\ Finish(g, "unsynced", i)
  BY DEF SyncName
<1>6. Keeps /\ NamesKept'
  <2>1. \/ UNCHANGED <<groups, tracked>>
        \/ groups' = Changed(i, new) /\ tracked' \in {tracked, Changed(i, new)}
    <3>1. PICK r : r = Changed(i, new)
      OBVIOUS
    <3>2. PICK b \in BOOLEAN : b = possible
      OBVIOUS
    <3>3. UNCHANGED <<groups, tracked>> \/ Done(b, r) \/ Fails(b, r)
      <4> HIDE DEF new, possible, i
      <4> QED BY <1>5, <3>1, <3>2
    <3> HIDE DEF new, possible, i
    <3> QED BY <3>1, <3>3, Outcome
  <2>2. CASE UNCHANGED <<groups, tracked>>
    BY <2>2, UnmovedKeeps DEF Inv, SyncName, cluster, Alive
  <2>3. CASE groups' = Changed(i, new) /\ tracked' \in {tracked, Changed(i, new)}
    <3>1. PICK r \in GroupType : r = new
      BY <1>4
    <3>2. PICK j : j = i
      OBVIOUS
    <3> HIDE DEF new, n, i
    <3> QED BY <1>2, <1>3, <1>4, <2>3, <3>1, <3>2, ChangedKeeps DEF Inv, SyncName, cluster
  <2> QED BY <2>1, <2>2, <2>3
<1>7. WorkKept' /\ pc'[Search] = pc[Search]
  <2>1. pc' = [pc EXCEPT ![g] = "devices"] \/ pc' = [pc EXCEPT ![g] = "idle"]
    BY <1>5 DEF Finish, Goto
  <2> QED BY <1>1, <2>1, WorkMoves DEF Inv, SyncName, cluster, instance
<1>8. SearchKept'
  BY <1>6, <1>7, KeepsSearch DEF Inv, SyncName
<1>9. IdsKept'
  <2>1. CASE Finish(g, "unsynced", i)
    BY <1>1, <1>6, <2>1, FinishIds DEF Inv, SyncName, OwnsOrNone
  <2>2. CASE UNCHANGED <<patches, found>>
    BY <1>6, <2>2, KeepsIds DEF Inv, SyncName
  <2> QED BY <1>5, <2>1, <2>2
<1> QED BY <1>6, <1>7, <1>8, <1>9

LEMMA MembersInv ==
  ASSUME Inv, NEW g \in Groups, SyncMembers(g)
  PROVE  NamesKept' /\ IdsKept' /\ WorkKept' /\ SearchKept'
<1> DEFINE i == found[g].id
           new(m) == [ById(i) EXCEPT !.members = m]
<1>1. Alive(g) /\ i \in Ids /\ Owns(g, i) /\ found[g] \in FoundType
  <2>1. Alive(g) /\ found[g] \in FoundType
    BY DEF Inv, WorkKept, SyncMembers, TypeOK
  <2>2. i \in Ids /\ i # None
    BY <2>1, GroupAssumption DEF FoundType
  <2> QED BY <2>1, <2>2 DEF Inv, IdsKept, OwnsOrNone
<1>2. HasId(i) /\ ById(i) \in groups /\ ById(i) \in GroupType /\ ById(i).id = i /\ ById(i).by = g
  BY <1>1, OwnGroup DEF Inv, TypeOK
<1>3. \/ Goto(g, "options") /\ UNCHANGED <<patches, groups, tracked, found>>
      \/ \E m \in SUBSET Devices, n \in SUBSET Devices :
           \/ /\ Done(HasId(i), Changed(i, new(m)))
              /\ found' = [found EXCEPT ![g].members = n]
              /\ UNCHANGED <<patches, pc>>
           \/ Fails(HasId(i), Changed(i, new(m))) /\ Finish(g, "unsynced", i)
  <2> DEFINE wanted == IF doc[g].spec.members = None THEN found[g].members
                                                     ELSE doc[g].spec.members \cap Devices
             excess == found[g].members \ wanted
             lacking == wanted \ found[g].members
             members(d) == IF d \in excess THEN found[g].members \ {d}
                                           ELSE found[g].members \cup {d}
             stored(d) == IF d \in excess THEN ById(i).members \ {d}
                                          ELSE ById(i).members \cup {d}
  <2>1. \/ Goto(g, "options") /\ UNCHANGED <<patches, groups, tracked, found>>
        \/ \E d \in IF excess # {} THEN excess ELSE lacking :
           \/ /\ Done(HasId(i), Changed(i, new(stored(d))))
              /\ found' = [found EXCEPT ![g].members = members(d)]
              /\ UNCHANGED <<patches, pc>>
           \/ Fails(HasId(i), Changed(i, new(stored(d)))) /\ Finish(g, "unsynced", i)
    BY DEF SyncMembers
  <2>2. found[g].members \in SUBSET Devices /\ ById(i).members \in SUBSET Devices
    BY <1>1, <1>2 DEF FoundType, GroupType
  <2>3. ASSUME NEW d \in IF excess # {} THEN excess ELSE lacking
        PROVE  members(d) \in SUBSET Devices /\ stored(d) \in SUBSET Devices
    <3>1. d \in Devices
      BY <2>2, <2>3
    <3> QED BY <2>2, <3>1
  <2> HIDE DEF members, stored, wanted, excess, lacking
  <2> QED BY <2>1, <2>3
<1>4. Keeps /\ NamesKept'
  <2>1. CASE UNCHANGED <<groups, tracked>>
    BY <2>1, UnmovedKeeps DEF Inv, SyncMembers, cluster, Alive
  <2>2. ASSUME NEW m \in SUBSET Devices,
               groups' = Changed(i, new(m)) /\ tracked' \in {tracked, Changed(i, new(m))}
        PROVE  Keeps /\ NamesKept'
    <3>1. PICK r : r = new(m)
      OBVIOUS
    <3>2. r \in GroupType /\ r.id = i /\ r.by = g /\ r.name = ById(i).name
      BY <1>2, <3>1 DEF GroupType
    <3>3. PICK j : j = i
      OBVIOUS
    <3>4. \A s \in Specs[r.by] : r.name = s.name
      BY <1>2, <3>2 DEF Inv, NamesKept
    <3> HIDE DEF new, i
    <3> QED BY <1>2, <2>2, <3>1, <3>2, <3>3, <3>4, ChangedKeeps DEF Inv, SyncMembers, cluster
  <2>3. \/ UNCHANGED <<groups, tracked>>
        \/ \E m \in SUBSET Devices :
             groups' = Changed(i, new(m)) /\ tracked' \in {tracked, Changed(i, new(m))}
    <3>1. ASSUME NEW m, Done(HasId(i), Changed(i, new(m))) \/ Fails(HasId(i), Changed(i, new(m)))
          PROVE  \/ UNCHANGED <<groups, tracked>>
                 \/ groups' = Changed(i, new(m)) /\ tracked' \in {tracked, Changed(i, new(m))}
      <4> HIDE DEF new, i
      <4> QED BY <3>1 DEF Done, Fails, Refused, TimedOut, Store
    <3> HIDE DEF new, i
    <3> QED BY <1>3, <3>1
  <2> QED BY <2>1, <2>2, <2>3
<1>5. WorkKept' /\ pc'[Search] = pc[Search]
  <2>1. \/ pc' = [pc EXCEPT ![g] = "options"] \/ pc' = [pc EXCEPT ![g] = "idle"]
        \/ pc' = [pc EXCEPT ![g] = "members"]
    <3>1. pc = [pc EXCEPT ![g] = "members"]
      BY DEF SyncMembers, Inv, TypeOK
    <3>2. Goto(g, "options") \/ UNCHANGED pc \/ Finish(g, "unsynced", i)
      <4> HIDE DEF i, new
      <4> QED BY <1>3
    <3> QED BY <3>1, <3>2 DEF Finish, Goto
  <2> QED BY <1>1, <2>1, WorkMoves DEF Inv, SyncMembers, cluster, instance
<1>6. SearchKept'
  BY <1>4, <1>5, KeepsSearch DEF Inv, SyncMembers
<1>7. IdsKept'
  <2>1. CASE Finish(g, "unsynced", i)
    BY <1>1, <1>4, <2>1, FinishIds DEF Inv, SyncMembers, OwnsOrNone
  <2>2. CASE UNCHANGED <<patches, found>>
    BY <1>4, <2>2, KeepsIds DEF Inv, SyncMembers
  <2>3. ASSUME NEW n, found' = [found EXCEPT ![g].members = n], UNCHANGED patches
        PROVE  IdsKept'
    <3>1. \A h \in Groups : found'[h].id = found[h].id
      BY <1>1, <2>3 DEF Inv, TypeOK, FoundType
    <3> QED BY <1>4, <2>3, <3>1, KeepsIds DEF Inv, SyncMembers
  <2> QED BY <1>3, <2>1, <2>2, <2>3
<1> QED BY <1>4, <1>5, <1>6, <1>7

LEMMA CleanupInv ==
  ASSUME Inv, Orderly, NEW g \in Groups, Cleanup(g)
  PROVE  NamesKept' /\ IdsKept' /\ WorkKept' /\ SearchKept'
<1> DEFINE i == status[g].id
<1>1. Alive(g) /\ k8s[g] = "deleting" /\ "timeout" \notin environment
  BY DEF Inv, WorkKept, Cleanup, Alive, Orderly, TypeOK
<1>2. \/ Gone(g) /\ UNCHANGED <<groups, tracked>>
      \/ Gone(g) /\ i # None /\ groups' = Without(i) /\ tracked' \in {tracked, Without(i)}
      \/ UNCHANGED <<k8s, status, groups, tracked>>
  BY <1>1 DEF Cleanup, Done, Store, Fails, Refused, TimedOut, May
<1>3. /\ \A h \in Groups : Alive(h)' => Alive(h)
      /\ \A h \in Groups : k8s'[h] = k8s[h] \/ h = g
      /\ Gone(g) => ~Alive(g)'
  BY <1>2 DEF Gone, Alive, Inv, TypeOK
<1>4. Keeps /\ NamesKept'
  <2>1. CASE UNCHANGED <<groups, tracked>>
    BY <1>3, <2>1, UnmovedKeeps DEF Inv
  <2>2. CASE Gone(g) /\ i # None /\ groups' = Without(i) /\ tracked' \in {tracked, Without(i)}
    <3>1. Owns(g, i)
      BY <1>1, <2>2 DEF Inv, IdsKept, OwnsOrNone
    <3>2. ASSUME NEW h \in Groups, Alive(h)' PROVE Alive(h) /\ ~Owns(h, i)
      <4>1. h # g
        BY <1>3, <2>2, <3>2 DEF Alive
      <4>2. ~Owns(h, i)
        BY <3>1, <4>1, OwnGroup DEF Inv
      <4> QED BY <1>3, <3>2, <4>2
    <3>3. PICK j : j = i
      OBVIOUS
    <3>4. \A h \in Groups : Alive(h)' => Alive(h) /\ ~Owns(h, j)
      BY <3>2, <3>3
    <3>5. groups' = Without(j) /\ tracked' \in {tracked, Without(j)}
      BY <2>2, <3>3
    <3> QED BY <3>4, <3>5, WithoutKeeps DEF Inv, Cleanup
  <2> QED BY <1>2, <2>1, <2>2
<1>5. WorkKept'
  <2>1. pc' = pc /\ environment' = environment /\ pc[g] = "idle"
    BY DEF Cleanup, instance
  <2>2. \A h \in Groups : k8s'[h] = "deleting" => k8s[h] = "deleting"
    BY <1>1, <1>3
  <2> QED BY <1>3, <2>1, <2>2 DEF Inv, WorkKept, Alive
<1>6. SearchKept'
  BY <1>4, KeepsSearch DEF Inv, Cleanup
<1>7. IdsKept'
  <2>1. \A h \in Groups : Alive(h)' => status'[h].id = status[h].id
    BY <1>2, <1>3 DEF Gone, Inv, TypeOK, Alive
  <2> QED BY <1>4, <2>1, KeepsIds DEF Inv, Cleanup
<1> QED BY <1>4, <1>5, <1>6, <1>7

LEMMA ReconcileInv ==
  ASSUME Inv, NamesApart, Orderly, NEW g \in Groups, ReconcileStep(g)
  PROVE  NamesKept' /\ IdsKept' /\ WorkKept' /\ SearchKept'
<1>1. CASE ReconcileBegin(g)
  <2>1. Keeps /\ NamesKept'
    BY <1>1, UnmovedKeeps DEF Inv, ReconcileBegin, cluster, Alive
  <2>2. WorkKept' /\ pc'[Search] = pc[Search]
    BY <1>1, WorkMoves DEF Inv, ReconcileBegin, Goto, Alive, cluster, instance
  <2>3. SearchKept'
    BY <1>1, <2>1, <2>2, KeepsSearch DEF Inv, ReconcileBegin
  <2>4. ASSUME NEW h \in Groups, Alive(h)'
        PROVE  doc'[h].status.id = doc[h].status.id \/ OwnsOrNone(h, doc[h].status.id)'
    <3>1. CASE h = g
      <4>1. doc'[g].status.id = status[g].id /\ OwnsOrNone(g, status[g].id)
        BY <1>1 DEF Inv, TypeOK, IdsKept, ReconcileBegin, Alive
      <4> QED BY <1>1, <3>1, <4>1 DEF OwnsOrNone, Owns, ReconcileBegin
    <3>2. CASE h # g
      BY <1>1, <3>2 DEF Inv, TypeOK, ReconcileBegin
    <3> QED BY <3>1, <3>2
  <2>5. IdsKept'
    BY <1>1, <2>1, <2>4, KeepsIds DEF Inv, ReconcileBegin
  <2> QED BY <2>1, <2>2, <2>3, <2>5
<1>2. CASE ReconcilePostponed(g)
  <2>1. Keeps /\ NamesKept'
    BY <1>2, UnmovedKeeps DEF Inv, ReconcilePostponed, cluster, Alive
  <2>2. WorkKept' /\ SearchKept'
    BY <1>2, <2>1, KeepsSearch DEF Inv, WorkKept, ReconcilePostponed, Alive, cluster, instance
  <2>3. \A p \in patches' : p \in patches \/ p.status.id = None
    BY <1>2 DEF ReconcilePostponed, NoStatus
  <2>4. IdsKept'
    BY <1>2, <2>1, <2>3, KeepsIds DEF Inv, ReconcilePostponed, OwnsOrNone
  <2> QED BY <2>1, <2>2, <2>4
<1>3. CASE Lookup(g)
  BY <1>3, LookupInv
<1>4. CASE Create(g)
  BY <1>4, CreateInv
<1>5. CASE Created(g)
  BY <1>5, CreatedInv
<1>6. CASE Existence(g)
  <2>1. Keeps /\ NamesKept'
    BY <1>6, UnmovedKeeps DEF Inv, Existence, cluster, Alive
  <2>2. Alive(g) /\ doc[g].spec \in Specs[g]
    BY <1>6 DEF Inv, TypeOK, WorkKept, Existence
  <2>3. pc' = [pc EXCEPT ![g] = "name"]
    BY <1>6, <2>2 DEF Existence, Goto, NamesApart
  <2>4. WorkKept' /\ pc'[Search] = pc[Search]
    BY <1>6, <2>2, <2>3, WorkMoves DEF Inv, Existence, cluster, instance
  <2>5. SearchKept' /\ IdsKept'
    BY <1>6, <2>1, <2>4, KeepsSearch, KeepsIds DEF Inv, Existence
  <2> QED BY <2>1, <2>4, <2>5
<1>7. CASE DeleteOld(g)
  BY <1>7 DEF Inv, WorkKept, DeleteOld
<1>8. CASE SyncName(g)
  BY <1>8, NameInv
<1>9. CASE SyncMembers(g)
  BY <1>9, MembersInv
<1>10. CASE SyncOptions(g)
  <2>1. Keeps /\ NamesKept'
    BY <1>10, UnmovedKeeps DEF Inv, SyncOptions, cluster, Alive
  <2>2. Alive(g) /\ OwnsOrNone(g, found[g].id)
    BY <1>10 DEF Inv, WorkKept, IdsKept, SyncOptions
  <2>3. WorkKept' /\ pc'[Search] = pc[Search]
    BY <1>10, <2>2, WorkMoves DEF Inv, SyncOptions, Finish, Goto, cluster, instance
  <2>4. SearchKept'
    BY <1>10, <2>1, <2>3, KeepsSearch DEF Inv, SyncOptions
  <2>5. IdsKept'
    BY <1>10, <2>1, <2>2, FinishIds DEF Inv, SyncOptions
  <2> QED BY <2>1, <2>3, <2>4, <2>5
<1>11. CASE Cleanup(g)
  BY <1>11, CleanupInv
<1>12. CASE ListFails(g)
  <2>1. Keeps /\ NamesKept'
    BY <1>12, UnmovedKeeps DEF Inv, ListFails, cluster, Alive
  <2>2. Alive(g) /\ OwnsOrNone(g, found[g].id)
    BY <1>12 DEF Inv, WorkKept, IdsKept, ListFails
  <2>3. WorkKept' /\ pc'[Search] = pc[Search]
    BY <1>12, <2>2, WorkMoves DEF Inv, ListFails, Finish, Goto, cluster, instance
  <2>4. SearchKept'
    BY <1>12, <2>1, <2>3, KeepsSearch DEF Inv, ListFails
  <2>5. IdsKept'
    <3>1. CASE Finish(g, "missing", None)
      BY <1>12, <2>1, <3>1, FinishIds DEF Inv, ListFails, OwnsOrNone
    <3>2. CASE Finish(g, "unsynced", found[g].id)
      BY <1>12, <2>1, <2>2, <3>2, FinishIds DEF Inv, ListFails
    <3> QED BY <1>12, <3>1, <3>2 DEF ListFails
  <2> QED BY <2>1, <2>3, <2>4, <2>5
<1>13. CASE FindMembers(g)
  <2>1. Keeps /\ NamesKept'
    BY <1>13, UnmovedKeeps DEF Inv, FindMembers, cluster, Alive
  <2>2. Alive(g) /\ OwnsOrNone(g, found[g].id)
    BY <1>13 DEF Inv, WorkKept, IdsKept, FindMembers
  <2>3. WorkKept' /\ pc'[Search] = pc[Search]
    <3>1. pc' = [pc EXCEPT ![g] = "members"] \/ pc' = [pc EXCEPT ![g] = "idle"]
      BY <1>13 DEF FindMembers, Finish, Goto
    <3> QED BY <1>13, <2>2, <3>1, WorkMoves DEF Inv, FindMembers, cluster, instance
  <2>4. SearchKept'
    BY <1>13, <2>1, <2>3, KeepsSearch DEF Inv, FindMembers
  <2>5. IdsKept'
    <3>1. CASE Finish(g, "unsynced", found[g].id)
      BY <1>13, <2>1, <2>2, <3>1, FinishIds DEF Inv, FindMembers
    <3>2. CASE UNCHANGED <<patches, found>>
      BY <1>13, <2>1, <3>2, KeepsIds DEF Inv, FindMembers
    <3> QED BY <1>13, <3>1, <3>2 DEF FindMembers
  <2> QED BY <2>1, <2>3, <2>4, <2>5
<1> QED BY <1>1, <1>2, <1>3, <1>4, <1>5, <1>6, <1>7, <1>8, <1>9, <1>10, <1>11, <1>12, <1>13
        DEF ReconcileStep

LEMMA OtherInv ==
  ASSUME Inv, NamesApart, Orderly,
         \/ \E g \in Groups : UserStep(g)
         \/ \E p \in patches : PatchArrives(p)
         \/ SearchStep \/ Deliver \/ ReadyChanges \/ CalmDown
         \/ UNCHANGED vars
  PROVE  NamesKept' /\ IdsKept' /\ WorkKept' /\ SearchKept'
<1>1. ASSUME NEW g \in Groups, UserStep(g)
      PROVE  NamesKept' /\ IdsKept' /\ WorkKept' /\ SearchKept'
  <2>1. ~CreateResource(g)
    BY DEF CreateResource, May, Orderly, Inv, TypeOK
  <2>2. EditResource(g) \/ DeleteResource(g)
    BY <1>1, <2>1 DEF UserStep
  <2>3. UNCHANGED <<status, patches, groups, tracked, instance, pc, doc, found, search>>
    BY <2>2 DEF EditResource, DeleteResource
  <2>4. \A h \in Groups : (Alive(h)' <=> Alive(h)) /\ (k8s'[h] = "deleting" =>
                            k8s[h] = "deleting" \/ "delete" \in environment)
    BY <2>2 DEF EditResource, DeleteResource, Alive, May, Inv, TypeOK
  <2>5. Keeps /\ NamesKept'
    BY <2>3, <2>4, UnmovedKeeps DEF Inv
  <2>6. SearchKept' /\ IdsKept'
    BY <2>3, <2>5, KeepsSearch, KeepsIds DEF Inv
  <2>7. WorkKept'
    BY <2>3, <2>4 DEF Inv, WorkKept, instance
  <2> QED BY <2>5, <2>6, <2>7
<1>2. ASSUME NEW p \in patches, PatchArrives(p)
      PROVE  NamesKept' /\ IdsKept' /\ WorkKept' /\ SearchKept'
  <2>1. Keeps /\ NamesKept'
    BY <1>2, UnmovedKeeps DEF Inv, PatchArrives, cluster, Alive
  <2>2. WorkKept' /\ SearchKept'
    BY <1>2, <2>1, KeepsSearch DEF Inv, WorkKept, PatchArrives, Alive, cluster, instance
  <2>3. ASSUME NEW h \in Groups, Alive(h)'
        PROVE  status'[h].id = status[h].id \/ OwnsOrNone(h, status[h].id)'
    <3>1. CASE status'[h] = status[h]
      BY <3>1
    <3>2. CASE status'[h] # status[h]
      <4>1. h = p.group /\ status'[h] = p.status
        BY <1>2, <3>2 DEF Inv, TypeOK, PatchArrives
      <4>2. OwnsOrNone(h, p.status.id)
        BY <1>2, <2>3, <4>1 DEF Inv, IdsKept, PatchArrives, Alive, cluster
      <4> QED BY <1>2, <4>1, <4>2 DEF OwnsOrNone, Owns, PatchArrives
    <3> QED BY <3>1, <3>2
  <2>4. IdsKept'
    BY <1>2, <2>1, <2>3, KeepsIds DEF Inv, PatchArrives
  <2> QED BY <2>1, <2>2, <2>4
<1>3. CASE SearchBegin
  <2>1. Keeps /\ NamesKept'
    BY <1>3, UnmovedKeeps DEF Inv, SearchBegin, cluster, Alive
  <2>2. pc'[Search] = "compare" /\ \A g \in Groups : pc'[g] = pc[g]
    BY <1>3, SearchApart DEF Inv, TypeOK, SearchBegin, Goto
  <2>3. WorkKept' /\ IdsKept'
    BY <1>3, <2>1, <2>2, KeepsIds DEF Inv, WorkKept, SearchBegin, Alive, cluster, instance
  <2>4. doomed' = {}
    BY <1>3 DEF Inv, SearchKept, SearchBegin
  <2>5. ASSUME NEW g \in Groups, Alive(g)' PROVE \E i \in managed' : Owns(g, i)'
    <3>1. status[g].id # None /\ status[g].id \in managed'
      BY <1>3, <2>5 DEF SearchBegin, Alive, cluster
    <3>2. Owns(g, status[g].id)
      BY <1>3, <2>5, <3>1 DEF Inv, IdsKept, OwnsOrNone, SearchBegin, Alive, cluster
    <3>3. PICK i \in managed' : Owns(g, i)
      BY <3>1, <3>2
    <3> QED BY <1>3, <3>3 DEF Owns, SearchBegin
  <2> QED BY <2>1, <2>2, <2>3, <2>4, <2>5 DEF SearchKept
<1>4. CASE SearchCompare
  <2>1. Keeps /\ NamesKept'
    BY <1>4, UnmovedKeeps DEF Inv, SearchCompare, cluster, Alive
  <2>2. pc'[Search] = "delete" /\ \A g \in Groups : pc'[g] = pc[g]
    BY <1>4, SearchApart DEF Inv, TypeOK, SearchCompare, Goto
  <2>3. WorkKept' /\ IdsKept'
    BY <1>4, <2>1, <2>2, KeepsIds DEF Inv, WorkKept, SearchCompare, Alive, cluster, instance
  <2>4. doomed' \cap managed' = {} /\ managed' = managed
    BY <1>4 DEF SearchCompare
  <2>5. \A g \in Groups : Alive(g)' => \E i \in managed : Owns(g, i)'
    BY <1>4, <2>1 DEF Inv, SearchKept, Keeps, SearchCompare
  <2> QED BY <2>1, <2>2, <2>3, <2>4, <2>5 DEF SearchKept
<1>5. CASE SearchDelete
  <2>1. \A g \in Groups : pc'[g] = pc[g]
    BY <1>5, SearchApart DEF Inv, TypeOK, SearchDelete, SearchEnds, Goto
  <2>2. Keeps /\ NamesKept'
    <3>1. CASE UNCHANGED <<groups, tracked>>
      BY <1>5, <3>1, UnmovedKeeps DEF Inv, SearchDelete, cluster, Alive
    <3>2. ASSUME NEW i \in doomed, groups' = Without(i), tracked' \in {tracked, Without(i)}
          PROVE  Keeps /\ NamesKept'
      <4>1. ASSUME NEW h \in Groups, Alive(h) PROVE ~Owns(h, i)
        <5>1. PICK j \in managed : Owns(h, j)
          BY <1>5, <4>1 DEF Inv, SearchKept, SearchDelete
        <5>2. i # j
          BY <5>1 DEF Inv, SearchKept
        <5> QED BY <5>1, <5>2, OneEach DEF Inv, Owns
      <4> QED BY <1>5, <3>2, <4>1, WithoutKeeps DEF Inv, SearchDelete, cluster, Alive
    <3>3. \/ UNCHANGED <<groups, tracked>>
          \/ \E i \in doomed : groups' = Without(i) /\ tracked' \in {tracked, Without(i)}
      BY <1>5 DEF SearchDelete, Done, Fails, Refused, TimedOut, Store
    <3> QED BY <3>1, <3>2, <3>3
  <2>3. WorkKept' /\ IdsKept'
    BY <1>5, <2>1, <2>2, KeepsIds DEF Inv, WorkKept, SearchDelete, Alive, cluster, instance
  <2>4. \/ managed' = {} /\ doomed' = {} /\ pc'[Search] = "idle"
        \/ managed' = managed /\ doomed' \subseteq doomed /\ pc'[Search] = "delete"
    BY <1>5 DEF Inv, TypeOK, SearchDelete, SearchEnds, Goto
  <2>5. SearchKept'
    BY <1>5, <2>2, <2>4 DEF Inv, SearchKept, Keeps, SearchDelete
  <2> QED BY <2>2, <2>3, <2>5
<1>6. CASE Deliver \/ ReadyChanges \/ CalmDown \/ UNCHANGED vars
  <2>1. /\ UNCHANGED <<k8s, status, patches, groups, pc, doc, found, search, environment>>
        /\ tracked' \in {tracked, groups}
    BY <1>6 DEF Deliver, ReadyChanges, CalmDown, vars, cluster, instance
  <2>2. Keeps /\ NamesKept'
    BY <2>1, UnmovedKeeps DEF Inv, Alive
  <2>3. SearchKept' /\ IdsKept'
    BY <2>1, <2>2, KeepsSearch, KeepsIds DEF Inv
  <2>4. WorkKept'
    BY <2>1 DEF Inv, WorkKept, Alive
  <2> QED BY <2>2, <2>3, <2>4
<1> QED BY <1>1, <1>2, <1>3, <1>4, <1>5, <1>6 DEF SearchStep

LEMMA InitInv == Init => Inv
<1> SUFFICES ASSUME Init PROVE Inv
  OBVIOUS
<1>1. TypeOK
  BY InitTyped
<1>2. NamesKept /\ SearchKept
  BY DEF Init, NamesKept, SearchKept
<1>3. WorkKept
  BY DEF Init, WorkKept
<1>4. IdsKept
  BY DEF Init, IdsKept, OwnsOrNone, NoStatus, NoGroup
<1> QED BY <1>1, <1>2, <1>3, <1>4 DEF Inv

(* A group that goes while the search wants it gone is that of no resource   *)
(* there is: what the search has listed names every other resource's one.    *)
LEMMA SparesOwned ==
  ASSUME Inv, NEW x \in groups, pc[Search] = "delete", x.id \in doomed
  PROVE  k8s[x.by] = "absent"
<1> SUFFICES ASSUME Alive(x.by) PROVE FALSE
  BY DEF Alive
<1>1. x.by \in Groups
  BY DEF Inv, TypeOK, GroupType
<1>2. PICK i \in managed : Owns(x.by, i)
  BY <1>1 DEF Inv, SearchKept
<1>3. PICK y \in groups : y.id = i /\ y.by = x.by
  BY <1>2 DEF Owns
<1>4. x = y
  BY <1>3, OneEach DEF Inv
<1> QED BY <1>2, <1>3, <1>4 DEF Inv, SearchKept

LEMMA InvStep ==
  ASSUME Inv, NamesApart, Orderly, [Next]_vars
  PROVE  Inv'
<1>1. TypeOK'
  BY ReconcileTyped, OtherTyped DEF Inv, Next
<1>2. NamesKept' /\ IdsKept' /\ WorkKept' /\ SearchKept'
  BY ReconcileInv, OtherInv DEF Next
<1> QED BY <1>1, <1>2 DEF Inv

(* The search for unmanaged groups never deletes the group of a resource,    *)
(* although resources are edited, reconciled and deleted meanwhile, the list *)
(* lags, statuses arrive late and in any order, and the instance comes and   *)
(* goes: for any number of resources that want different names, as long as   *)
(* none is created meanwhile, and no cleanup times out.                      *)
THEOREM SearchSparesResources ==
  ASSUME NamesApart, Orderly
  PROVE  Spec => OnlyUnmanagedDeleted
<1>1. Inv /\ [Next]_vars => Inv'
  BY InvStep
<1>2. Inv /\ [Next]_vars =>
        [\A x \in groups :
           pc[Search] = "delete" /\ x.id \in doomed /\ (\A y \in groups' : y.id # x.id)
           => k8s[x.by] = "absent"]_vars
  BY SparesOwned
<1> QED BY <1>1, <1>2, InitInv, PTL DEF Spec, OnlyUnmanagedDeleted

(* A resource only goes by its cleanup.                                      *)
LEMMA GoesByCleanup ==
  ASSUME TypeOK, [Next]_vars, NEW g \in Groups, k8s[g] = "deleting", k8s'[g] = "absent"
  PROVE  Cleanup(g)
<1>1. ASSUME NEW h \in Groups, ReconcileStep(h) PROVE Cleanup(g)
  <2>1. CASE Cleanup(h)
    BY <1>1, <2>1 DEF Cleanup, Gone, TypeOK
  <2>2. CASE UNCHANGED k8s
    BY <2>2
  <2> QED
    BY <1>1, <2>1, <2>2
    DEF ReconcileStep, ReconcileBegin, ReconcilePostponed, Lookup, Create, Created,
        ListFails, Existence, DeleteOld, SyncName, FindMembers, SyncMembers, SyncOptions, cluster
<1>2. ASSUME NEW h \in Groups, UserStep(h) PROVE Cleanup(g)
  BY <1>2 DEF UserStep, CreateResource, EditResource, DeleteResource, TypeOK
<1>3. CASE ~ \E h \in Groups : ReconcileStep(h) \/ UserStep(h)
  BY <1>3
  DEF Next, PatchArrives, SearchStep, SearchBegin, SearchCompare, SearchDelete, Deliver,
      ReadyChanges, CalmDown, cluster, vars
<1> QED BY <1>1, <1>2, <1>3

LEMMA CleanupOwn ==
  ASSUME Inv, NEW g \in Groups, k8s[g] = "deleting", Cleanup(g), NEW x \in groups
  PROVE  x \in groups' \/ x.by = g
<1>1. groups' \in {groups, Without(status[g].id)}
  BY DEF Cleanup, Done, Store, Fails, Refused, TimedOut
<1>2. CASE x.id = status[g].id
  <2>1. x.id # None
    BY GroupAssumption DEF Inv, TypeOK, GroupType
  <2>2. PICK y \in groups : y.id = x.id /\ y.by = g
    BY <1>2, <2>1 DEF Inv, IdsKept, Alive, OwnsOrNone, Owns
  <2> QED BY <2>2 DEF Inv, TypeOK
<1>3. CASE x.id # status[g].id
  BY <1>1, <1>3 DEF Without
<1> QED BY <1>2, <1>3

(* As a resource goes its cleanup deletes no group but its own, whatever ids *)
(* were used again, under the same conditions.                               *)
THEOREM CleanupSparesOthers ==
  ASSUME NamesApart, Orderly
  PROVE  Spec => CleanupDeletesOwn
<1>1. Inv /\ [Next]_vars => Inv'
  BY InvStep
<1>2. Inv /\ [Next]_vars =>
        [\A g \in Groups :
           k8s[g] = "deleting" /\ k8s'[g] = "absent"
           => \A x \in groups : x \in groups' \/ x.by = g]_vars
  BY GoesByCleanup, CleanupOwn DEF Inv
<1> QED BY <1>1, <1>2, InitInv, PTL DEF Spec, CleanupDeletesOwn
--------------------------------------------------------------------------------
(* What is reported as synced *)

(* The group a reconcile works on has the id it looks for or, before the old *)
(* group is deleted, that of its status. What it has deleted is gone.        *)
LooksFor(g) ==
  LET f == found[g]
      s == doc[g].spec
  IN
  /\ pc[g] = "existence" => s.id = None \/ f.id \in {GetId(g), s.id}
  /\ pc[g] = "delete" => s.id # None /\ f.id = GetId(g)
  /\ pc[g] \in {"relookup", "recreate"} => s.id # None
  /\ pc[g] = "relookup" => ~HasId(GetId(g))
  /\ pc[g] \in {"created", "recreated"} => s.id \in {None, f.id}
  /\ pc[g] = "members" => CanBeHad(s)

Working == {"existence", "delete", "name", "devices", "members", "options"}

(* A group that was found in the latest list is still as it was found, but   *)
(* for what the reconcile itself has changed since.                          *)
KnowsGroup(g) ==
  LET f == found[g]
      s == doc[g].spec
  IN
  pc[g] \in Working /\ f.latest =>
    /\ \E x \in groups :
         /\ x.id = f.id
         /\ x.members = f.members
         /\ x.name = IF pc[g] \in {"devices", "members", "options"} THEN s.name ELSE f.name
    /\ pc[g] \in {"name", "devices", "members", "options"} => s.id \in {None, f.id}
    /\ pc[g] = "options" => s.members \in {None, f.members}

FoundIsTrue == \A g \in Groups : LooksFor(g) /\ KnowsGroup(g)

(* Only its own reconcile changes the group a reconcile works on, and nobody *)
(* makes one with the id of the group it has deleted.                        *)
Spared(g) ==
  /\ pc[g] \in Working => \A x \in groups : x.id = found[g].id => x \in groups'
  /\ pc[g] = "relookup" => \A x \in groups' : x.id = GetId(g) => HasId(GetId(g))

LEMMA StillTrue ==
  ASSUME NEW g \in Groups, LooksFor(g), KnowsGroup(g), Spared(g),
         pc'[g] = pc[g], found'[g] = found[g], doc'[g] = doc[g]
  PROVE  LooksFor(g)' /\ KnowsGroup(g)'
<1>1. GetId(g)' = GetId(g)
  BY DEF GetId
<1>2. pc[g] = "relookup" => ~HasId(GetId(g))'
  BY <1>1 DEF LooksFor, Spared, HasId
<1>3. LooksFor(g)'
  BY <1>1, <1>2 DEF LooksFor
<1>4. KnowsGroup(g)'
  BY DEF KnowsGroup, Spared
<1> QED BY <1>3, <1>4

(* A reconcile that is at its end, or has yet to find a group, claims nothing. *)
LEMMA NothingFound ==
  ASSUME NEW g \in Groups, pc'[g] \in {"idle", "lookup", "create"}
  PROVE  LooksFor(g)' /\ KnowsGroup(g)'
BY DEF LooksFor, KnowsGroup, Working

LEMMA FinishTrue ==
  ASSUME TypeOK, NEW g \in Groups, NEW state, NEW i, Finish(g, state, i)
  PROVE  LooksFor(g)' /\ KnowsGroup(g)'
<1>1. pc'[g] = "idle"
  BY DEF TypeOK, Finish, Goto
<1> QED BY <1>1, NothingFound

LEMMA LookupTrue ==
  ASSUME TypeOK, NEW g \in Groups, LooksFor(g), Lookup(g)
  PROVE  LooksFor(g)' /\ KnowsGroup(g)'
<1>1. /\ doc'[g] = doc[g] /\ GetId(g)' = GetId(g) /\ groups' = groups
      /\ pc[g] \in {"lookup", "relookup"}
  BY DEF Lookup, GetId
<1>2. CASE Candidates(g) = {}
  <2>1. pc'[g] = IF pc[g] = "lookup" THEN "create" ELSE "recreate"
    BY <1>2 DEF TypeOK, Lookup, Goto
  <2>2. CASE pc[g] = "lookup"
    BY <2>1, <2>2, NothingFound
  <2>3. CASE pc[g] = "relookup"
    BY <1>1, <2>1, <2>3 DEF LooksFor, KnowsGroup, Working
  <2> QED BY <1>1, <2>2, <2>3
<1>3. CASE Candidates(g) # {}
  <2>1. PICK x \in Candidates(g) : found' = [found EXCEPT ![g] = Seen(x)]
    BY <1>3 DEF Lookup
  <2>2. pc'[g] = IF pc[g] = "lookup" THEN "existence" ELSE "name"
    BY <1>3 DEF TypeOK, Lookup, Goto
  <2>3. PICK y : y = Seen(x)
    OBVIOUS
  <2>4. found'[g] = y
    BY <2>1, <2>3 DEF TypeOK
  <2>5. /\ y.id = x.id /\ y.name = x.name /\ y.members = x.members
        /\ y.latest => tracked = groups
    BY <2>3 DEF Seen
  <2>6. x \in tracked /\ (doc[g].spec.id = None \/ x.id = GetId(g))
    BY DEF Candidates
  <2>7. CASE pc[g] = "lookup"
    BY <1>1, <2>2, <2>4, <2>5, <2>6, <2>7 DEF LooksFor, KnowsGroup, Working
  <2>8. CASE pc[g] = "relookup"
    <3>1. ~y.latest
      BY <2>5, <2>6, <2>8 DEF LooksFor, HasId
    <3> QED BY <2>2, <2>4, <2>8, <3>1 DEF LooksFor, KnowsGroup, Working
  <2> QED BY <1>1, <2>7, <2>8
<1> QED BY <1>2, <1>3

LEMMA CreateTrue ==
  ASSUME TypeOK, NEW g \in Groups, LooksFor(g), Create(g)
  PROVE  LooksFor(g)' /\ KnowsGroup(g)'
<1>1. CASE Finish(g, "missing", None)
  BY <1>1, FinishTrue
<1>2. CASE ~Finish(g, "missing", None)
  <2>1. PICK i \in NewIds(doc[g].spec) :
          /\ found' = [found EXCEPT ![g] = [id |-> i]]
          /\ Goto(g, IF pc[g] = "create" THEN "created" ELSE "recreated")
    BY <1>2 DEF Create
  <2>2. PICK y : y = [id |-> i]
    OBVIOUS
  <2>3. y.id = i /\ found'[g] = y /\ pc'[g] \in {"created", "recreated"} /\ doc'[g] = doc[g]
    BY <2>1, <2>2 DEF TypeOK, Goto, Create
  <2>4. doc[g].spec.id \in {None, i}
    BY <2>1 DEF NewIds
  <2> QED BY <2>3, <2>4 DEF LooksFor, KnowsGroup, Working
<1> QED BY <1>1, <1>2

LEMMA CreatedTrue ==
  ASSUME TypeOK, NEW g \in Groups, LooksFor(g), Created(g)
  PROVE  LooksFor(g)' /\ KnowsGroup(g)'
<1>1. CASE Finish(g, "missing", None)
  BY <1>1, FinishTrue
<1>2. CASE ~Finish(g, "missing", None)
  <2>1. PICK x \in tracked : x.id = found[g].id /\ found' = [found EXCEPT ![g] = Seen(x)]
    BY <1>2 DEF Created
  <2>2. /\ pc'[g] \in {"existence", "name"} /\ doc'[g] = doc[g] /\ groups' = groups
        /\ doc[g].spec.id \in {None, x.id}
    BY <1>2, <2>1 DEF TypeOK, Created, Goto, LooksFor
  <2>3. PICK y : y = Seen(x)
    OBVIOUS
  <2>4. found'[g] = y
    BY <2>1, <2>3 DEF TypeOK
  <2>5. /\ y.id = x.id /\ y.name = x.name /\ y.members = x.members
        /\ y.latest => tracked = groups
    BY <2>3 DEF Seen
  <2> QED BY <2>1, <2>2, <2>4, <2>5 DEF LooksFor, KnowsGroup, Working
<1> QED BY <1>1, <1>2

LEMMA ExistenceTrue ==
  ASSUME TypeOK, NEW g \in Groups, LooksFor(g), KnowsGroup(g), Existence(g)
  PROVE  LooksFor(g)' /\ KnowsGroup(g)'
<1>1. /\ doc'[g] = doc[g] /\ GetId(g)' = GetId(g) /\ groups' = groups /\ found'[g] = found[g]
      /\ pc[g] = "existence"
      /\ pc'[g] = IF doc[g].spec.id \notin {None, found[g].id} THEN "delete" ELSE "name"
  BY DEF TypeOK, Existence, Goto, GetId
<1> QED BY <1>1 DEF LooksFor, KnowsGroup, Working

LEMMA DeleteOldTrue ==
  ASSUME TypeOK, NEW g \in Groups, LooksFor(g), DeleteOld(g)
  PROVE  LooksFor(g)' /\ KnowsGroup(g)'
<1>1. CASE Finish(g, "missing", None)
  BY <1>1, FinishTrue
<1>2. CASE ~Finish(g, "missing", None)
  <2>1. /\ pc[g] = "delete" /\ pc'[g] = "relookup" /\ doc'[g] = doc[g]
        /\ GetId(g)' = GetId(g)
        /\ groups' = Without(found[g].id)
    BY <1>2 DEF TypeOK, DeleteOld, Done, Store, Goto, GetId
  <2>2. found[g].id = GetId(g) /\ doc[g].spec.id # None
    BY <2>1 DEF LooksFor
  <2>3. ~HasId(GetId(g))'
    BY <2>1, <2>2 DEF HasId, Without
  <2> QED BY <2>1, <2>2, <2>3 DEF LooksFor, KnowsGroup, Working
<1> QED BY <1>1, <1>2

LEMMA NameTrue ==
  ASSUME TypeOK, NEW g \in Groups, LooksFor(g), KnowsGroup(g), SyncName(g)
  PROVE  LooksFor(g)' /\ KnowsGroup(g)'
<1> DEFINE i == found[g].id
           n == doc[g].spec.name
           new == Changed(i, [ById(i) EXCEPT !.name = n])
<1>1. CASE Finish(g, "unsynced", i)
  BY <1>1, FinishTrue
<1>2. CASE ~Finish(g, "unsynced", i)
  <2>1. /\ pc[g] = "name" /\ pc'[g] = "devices" /\ doc'[g] = doc[g] /\ found'[g] = found[g]
        /\ \/ found[g].name = n /\ groups' = groups
           \/ groups' = new
    BY <1>2 DEF TypeOK, SyncName, Done, Store, Goto
  <2>2. LooksFor(g)'
    BY <2>1 DEF LooksFor
  <2>3. ASSUME found[g].latest
        PROVE  \E x \in groups' : x.id = i /\ x.members = found[g].members /\ x.name = n
    <3>1. PICK x \in groups : x.id = i /\ x.members = found[g].members /\ x.name = found[g].name
      BY <2>1, <2>3 DEF KnowsGroup, Working
    <3>2. CASE groups' = groups /\ found[g].name = n
      BY <3>1, <3>2
    <3>3. CASE groups' = new
      <4>1. x \in GroupType
        BY <3>1 DEF TypeOK
      <4>2. ById(i) = x
        BY <3>1, ByIdFinds DEF TypeOK, HasId
      <4>3. PICK y : y = [x EXCEPT !.name = n]
        OBVIOUS
      <4>4. y.id = i /\ y.members = found[g].members /\ y.name = n
        BY <3>1, <4>1, <4>3 DEF GroupType
      <4>5. y \in groups'
        BY <3>3, <4>2, <4>3 DEF Changed
      <4> QED BY <4>4, <4>5
    <3> QED BY <2>1, <3>2, <3>3
  <2>4. KnowsGroup(g)'
    BY <2>1, <2>3 DEF KnowsGroup, Working
  <2> QED BY <2>2, <2>4
<1> QED BY <1>1, <1>2

LEMMA FindTrue ==
  ASSUME TypeOK, NEW g \in Groups, LooksFor(g), KnowsGroup(g), FindMembers(g)
  PROVE  LooksFor(g)' /\ KnowsGroup(g)'
<1>1. CASE Finish(g, "unsynced", found[g].id)
  BY <1>1, FinishTrue
<1>2. CASE ~Finish(g, "unsynced", found[g].id)
  <2>1. /\ pc[g] = "devices" /\ pc'[g] = "members" /\ CanBeHad(doc[g].spec)
        /\ doc'[g] = doc[g] /\ found'[g] = found[g] /\ groups' = groups
    BY <1>2 DEF TypeOK, FindMembers, Goto
  <2> QED BY <2>1 DEF LooksFor, KnowsGroup, Working
<1> QED BY <1>1, <1>2

LEMMA MembersTrue ==
  ASSUME TypeOK, NEW g \in Groups, LooksFor(g), KnowsGroup(g), SyncMembers(g)
  PROVE  LooksFor(g)' /\ KnowsGroup(g)'
<1> DEFINE i == found[g].id
           wanted == IF doc[g].spec.members = None THEN found[g].members
                                                   ELSE doc[g].spec.members \cap Devices
           excess == found[g].members \ wanted
           lacking == wanted \ found[g].members
           members(d) == IF d \in excess THEN found[g].members \ {d}
                                         ELSE found[g].members \cup {d}
           stored(d) == IF d \in excess THEN ById(i).members \ {d}
                                        ELSE ById(i).members \cup {d}
           new(d) == Changed(i, [ById(i) EXCEPT !.members = stored(d)])
<1>t. /\ pc[g] = "members" /\ doc'[g] = doc[g] /\ found[g] \in FoundType
      /\ doc[g].spec \in SpecType /\ CanBeHad(doc[g].spec)
  BY DEF TypeOK, SyncMembers, LooksFor
<1>1. CASE Finish(g, "unsynced", i)
  BY <1>1, FinishTrue
<1>2. CASE excess \cup lacking = {} /\ Goto(g, "options") /\ UNCHANGED <<groups, found>>
  <2>1. pc'[g] = "options" /\ found'[g] = found[g] /\ groups' = groups
    BY <1>2 DEF TypeOK, Goto
  <2>2. doc[g].spec.members \in {None, found[g].members}
    <3>1. CASE doc[g].spec.members = None
      BY <3>1
    <3>2. CASE doc[g].spec.members # None
      <4>1. doc[g].spec.members \in SUBSET Devices
        BY <1>t, <3>2 DEF CanBeHad
      <4>2. wanted = doc[g].spec.members
        BY <3>2, <4>1
      <4>3. \A d : d \in wanted <=> d \in found[g].members
        BY <1>2
      <4> HIDE DEF wanted
      <4>4. found[g].members \subseteq Devices
        BY <1>t DEF FoundType
      <4>5. found[g].members = wanted
        BY <4>1, <4>2, <4>3, <4>4
      <4> QED BY <4>2, <4>5
    <3> QED BY <3>1, <3>2
  <2> HIDE DEF wanted, excess, lacking
  <2> QED BY <1>t, <2>1, <2>2 DEF LooksFor, KnowsGroup, Working
<1>3. ASSUME NEW d, Done(HasId(i), new(d)), found' = [found EXCEPT ![g].members = members(d)],
             UNCHANGED pc
      PROVE  LooksFor(g)' /\ KnowsGroup(g)'
  <2>1. groups' = new(d) /\ pc'[g] = "members"
    BY <1>t, <1>3 DEF Done, Store
  <2>2. /\ found'[g].id = i /\ found'[g].members = members(d)
        /\ found'[g].latest = found[g].latest
    <3>1. found'[g] = [found[g] EXCEPT !.members = members(d)]
      BY <1>3 DEF TypeOK
    <3> HIDE DEF members
    <3> QED BY <1>t, <3>1 DEF FoundType
  <2>3. LooksFor(g)'
    BY <1>t, <2>1 DEF LooksFor, CanBeHad
  <2>4. ASSUME found[g].latest
        PROVE  /\ \E x \in groups' : x.id = i /\ x.members = members(d) /\ x.name = doc[g].spec.name
               /\ doc[g].spec.id \in {None, i}
    <3>1. /\ \E x \in groups : /\ x.id = i /\ x.members = found[g].members
                               /\ x.name = doc[g].spec.name
          /\ doc[g].spec.id \in {None, i}
      BY <1>t, <2>4 DEF KnowsGroup, Working
    <3>2. PICK x \in groups : /\ x.id = i /\ x.members = found[g].members
                              /\ x.name = doc[g].spec.name
      BY <3>1
    <3>3. x \in GroupType
      BY <3>2 DEF TypeOK
    <3>4. ById(i) = x
      BY <3>2, ByIdFinds DEF TypeOK, HasId
    <3>5. stored(d) = members(d)
      BY <3>2, <3>4
    <3>6. PICK y : y = [x EXCEPT !.members = members(d)]
      OBVIOUS
    <3>7. y \in groups'
      BY <2>1, <3>4, <3>5, <3>6 DEF Changed
    <3>8. y.id = i /\ y.members = members(d) /\ y.name = doc[g].spec.name
      <4> HIDE DEF members
      <4> QED BY <3>2, <3>3, <3>6 DEF GroupType
    <3> QED BY <3>1, <3>7, <3>8
  <2>5. KnowsGroup(g)'
    <3> HIDE DEF members
    <3> QED BY <1>t, <2>1, <2>2, <2>4 DEF KnowsGroup, Working
  <2> QED BY <2>3, <2>5
<1> QED BY <1>1, <1>2, <1>3 DEF SyncMembers

LEMMA OwnStepTrue ==
  ASSUME TypeOK, NEW g \in Groups, LooksFor(g), KnowsGroup(g), ReconcileStep(g)
  PROVE  LooksFor(g)' /\ KnowsGroup(g)'
<1>1. CASE ReconcileBegin(g)
  <2>1. pc'[g] = "lookup"
    BY <1>1 DEF TypeOK, ReconcileBegin, Goto
  <2> QED BY <2>1, NothingFound
<1>2. CASE ReconcilePostponed(g) \/ Cleanup(g)
  <2>1. pc'[g] = "idle"
    BY <1>2 DEF ReconcilePostponed, Cleanup
  <2> QED BY <2>1, NothingFound
<1>3. CASE SyncOptions(g) \/ ListFails(g)
  BY <1>3, FinishTrue DEF SyncOptions, ListFails
<1> QED BY <1>1, <1>2, <1>3, LookupTrue, CreateTrue, CreatedTrue, ExistenceTrue,
           DeleteOldTrue, NameTrue, FindTrue, MembersTrue DEF ReconcileStep

(* What a reconcile knows is only touched by its own steps.                  *)
LEMMA OnlyItsOwn ==
  ASSUME TypeOK, [Next]_vars, NEW g \in Groups, ~ReconcileStep(g)
  PROVE  pc'[g] = pc[g] /\ found'[g] = found[g] /\ doc'[g] = doc[g]
<1>1. ASSUME NEW h \in Groups, ReconcileStep(h)
      PROVE  pc'[g] = pc[g] /\ found'[g] = found[g] /\ doc'[g] = doc[g]
  <2>1. h # g
    BY <1>1
  <2> QED
    BY <1>1, <2>1
    DEF TypeOK, ReconcileStep, ReconcileBegin, ReconcilePostponed, Lookup, Create, Created,
        ListFails, Existence, DeleteOld, SyncName, FindMembers, SyncMembers, SyncOptions, Cleanup, Finish, Goto
<1>2. ASSUME NEW h \in Groups, UserStep(h)
      PROVE  pc'[g] = pc[g] /\ found'[g] = found[g] /\ doc'[g] = doc[g]
  BY <1>2 DEF UserStep, CreateResource, EditResource, DeleteResource
<1>3. CASE SearchStep
  BY <1>3, SearchApart
  DEF TypeOK, SearchStep, SearchBegin, SearchCompare, SearchDelete, SearchEnds, Goto
<1>4. CASE ~SearchStep /\ ~ \E h \in Groups : ReconcileStep(h) \/ UserStep(h)
  BY <1>4 DEF Next, PatchArrives, Deliver, ReadyChanges, CalmDown, vars
<1> QED BY <1>1, <1>2, <1>3, <1>4

LEMMA FoundStep ==
  ASSUME TypeOK, FoundIsTrue, [Next]_vars,
         \A g \in Groups : ReconcileStep(g) \/ Spared(g)
  PROVE  FoundIsTrue'
<1> SUFFICES ASSUME NEW g \in Groups PROVE LooksFor(g)' /\ KnowsGroup(g)'
  BY DEF FoundIsTrue
<1>1. LooksFor(g) /\ KnowsGroup(g)
  BY DEF FoundIsTrue
<1>2. CASE ReconcileStep(g)
  BY <1>1, <1>2, OwnStepTrue
<1>3. CASE ~ReconcileStep(g)
  BY <1>1, <1>3, OnlyItsOwn, StillTrue
<1> QED BY <1>2, <1>3

LEMMA FoundInit == Init => FoundIsTrue
BY DEF Init, FoundIsTrue, LooksFor, KnowsGroup, Working

(* What holds of the group holds when it is reported.                        *)
LEMMA ReportsTruly ==
  ASSUME FoundIsTrue, NEW g \in Groups, pc[g] = "options", found[g].latest
  PROVE  AsSpecified(found[g].id, doc[g].spec) /\ doc[g].spec.id \in {None, found[g].id}
BY DEF FoundIsTrue, KnowsGroup, Working, AsSpecified

(* One resource, and no search for unmanaged groups: nobody else makes groups. *)
Alone ==
  /\ \E g : Groups = {g}
  /\ \A e \in Environments : "unmanaged" \notin e

NoSearch == pc[Search] = "idle"

LEMMA AloneSpared ==
  ASSUME TypeOK, NoSearch, Alone, [Next]_vars, NEW g \in Groups, ~ReconcileStep(g)
  PROVE  Spared(g)
<1>1. \A h \in Groups : h = g
  BY DEF Alone
<1>2. ~SearchStep
  BY DEF NoSearch, Alone, TypeOK, May, SearchStep, SearchBegin, SearchCompare, SearchDelete
<1>3. UNCHANGED groups
  BY <1>1, <1>2
  DEF Next, UserStep, CreateResource, EditResource, DeleteResource, PatchArrives, Deliver,
      ReadyChanges, CalmDown, vars
<1> QED BY <1>3 DEF Spared, HasId

LEMMA StaysUnsearched ==
  ASSUME TypeOK, NoSearch, Alone, [Next]_vars
  PROVE  NoSearch'
<1>1. ~SearchStep
  BY DEF NoSearch, Alone, TypeOK, May, SearchStep, SearchBegin, SearchCompare, SearchDelete
<1>2. ASSUME NEW g \in Groups, ReconcileStep(g) PROVE pc'[Search] = pc[Search]
  BY <1>2, SearchApart
  DEF TypeOK, ReconcileStep, ReconcileBegin, ReconcilePostponed, Lookup, Create, Created,
      ListFails, Existence, DeleteOld, SyncName, FindMembers, SyncMembers, SyncOptions, Cleanup, Finish, Goto
<1>3. CASE ~ \E g \in Groups : ReconcileStep(g)
  BY <1>1, <1>3
  DEF Next, NoSearch, UserStep, CreateResource, EditResource, DeleteResource, PatchArrives,
      Deliver, ReadyChanges, CalmDown, vars
<1> QED BY <1>2, <1>3 DEF NoSearch

(* A reconcile that found its group in the latest list and reports it as     *)
(* synced leaves it with the id, the name and the members its document       *)
(* specifies: for one resource and any specifications, with an id or         *)
(* without, whatever else the surroundings do: requests that are refused or  *)
(* time out, a list that lags, an instance that comes and goes, resources    *)
(* that are created, edited and deleted.                                     *)
THEOREM SyncedAlone ==
  ASSUME Alone
  PROVE  Spec => SyncedIsTrue
<1> DEFINE IInv == TypeOK /\ NoSearch /\ FoundIsTrue
<1>1. Init => IInv
  BY InitTyped, FoundInit DEF NoSearch, Init
<1>2. IInv /\ [Next]_vars => IInv'
  <2> SUFFICES ASSUME IInv, [Next]_vars PROVE IInv'
    OBVIOUS
  <2>1. TypeOK'
    BY ReconcileTyped, OtherTyped DEF Next
  <2>2. NoSearch'
    BY StaysUnsearched
  <2>3. FoundIsTrue'
    BY AloneSpared, FoundStep
  <2> QED BY <2>1, <2>2, <2>3
<1>3. IInv /\ [Next]_vars =>
        [\A g \in Groups :
           /\ pc[g] = "options" /\ pc'[g] = "idle"
           /\ found[g].latest
           /\ [group |-> g, status |-> [state |-> "synced", id |-> found[g].id]] \in patches'
           => /\ AsSpecified(found[g].id, doc[g].spec)
              /\ doc[g].spec.id \in {None, found[g].id}]_vars
  BY ReportsTruly
<1> QED BY <1>1, <1>2, <1>3, PTL DEF Spec, SyncedIsTrue

(* Of the groups of a resource there is, others keep their hands off.        *)
LEMMA OthersSpare ==
  ASSUME Inv, NamesApart, Orderly, [Next]_vars,
         NEW g \in Groups, Alive(g), ~ReconcileStep(g), NEW x \in groups, x.by = g
  PROVE  x \in groups'
<1>1. ASSUME NEW h \in Groups, ReconcileStep(h) PROVE x \in groups'
  <2>1. h # g
    BY <1>1
  <2>2. \A i : Owns(h, i) => x.id # i
    BY <2>1, OwnGroup DEF Inv, TypeOK
  <2>3. CASE UNCHANGED groups
    BY <2>3
  <2>4. CASE Create(h)
    <3>1. \E new : groups' \in {groups, groups \cup {new}}
      BY <2>4 DEF Create, Done, Fails, Refused, TimedOut, Store
    <3> QED BY <3>1
  <2>5. CASE DeleteOld(h)
    BY <2>5 DEF Inv, WorkKept, DeleteOld
  <2>6. CASE SyncName(h) \/ SyncMembers(h)
    <3>1. Alive(h) /\ found[h].id # None /\ Owns(h, found[h].id)
      <4>1. Alive(h) /\ OwnsOrNone(h, found[h].id)
        BY <2>6 DEF Inv, WorkKept, IdsKept, SyncName, SyncMembers
      <4>2. found[h].id \in Ids
        BY <2>6 DEF Inv, TypeOK, SyncName, SyncMembers, FoundType
      <4> QED BY <4>1, <4>2, GroupAssumption DEF OwnsOrNone
    <3>2. \E new : groups' \in {groups, Changed(found[h].id, new)}
      BY <2>6 DEF SyncName, SyncMembers, Done, Fails, Refused, TimedOut, Store
    <3> QED BY <2>2, <3>1, <3>2 DEF Changed, Without
  <2>7. CASE Cleanup(h)
    <3>1. groups' = groups \/ (groups' = Without(status[h].id) /\ status[h].id # None)
      BY <2>7 DEF Cleanup, Done, Fails, Refused, TimedOut, Store
    <3>2. status[h].id # None => Owns(h, status[h].id)
      BY <2>7 DEF Inv, IdsKept, Cleanup, Alive, OwnsOrNone
    <3> QED BY <2>2, <3>1, <3>2 DEF Without
  <2> QED BY <1>1, <2>3, <2>4, <2>5, <2>6, <2>7
          DEF ReconcileStep, ReconcileBegin, ReconcilePostponed, Lookup, Created, ListFails, Existence,
              FindMembers, SyncOptions
<1>2. CASE SearchDelete
  <2>1. groups' = groups \/ \E i \in doomed : groups' = Without(i)
    BY <1>2 DEF SearchDelete, Done, Fails, Refused, TimedOut, Store
  <2>2. x.id \notin doomed
    BY <1>2, SparesOwned DEF SearchDelete, Alive
  <2> QED BY <2>1, <2>2 DEF Without
<1>3. CASE UNCHANGED groups
  BY <1>3
<1> QED BY <1>1, <1>2, <1>3
        DEF Next, UserStep, CreateResource, EditResource, DeleteResource, PatchArrives,
            SearchStep, SearchBegin, SearchCompare, Deliver, ReadyChanges, CalmDown, vars

LEMMA ApartSpared ==
  ASSUME Inv, NamesApart, Orderly, [Next]_vars, NEW g \in Groups, ~ReconcileStep(g)
  PROVE  Spared(g)
<1>1. pc[g] # "relookup"
  BY DEF Inv, WorkKept
<1>2. ASSUME pc[g] \in Working, NEW x \in groups, x.id = found[g].id PROVE x \in groups'
  <2>1. Alive(g) /\ x.id # None
    BY <1>2, GroupAssumption DEF Inv, WorkKept, Working, TypeOK, GroupType
  <2>2. Owns(g, x.id)
    BY <1>2, <2>1 DEF Inv, IdsKept, OwnsOrNone
  <2>3. x.by = g
    BY <2>2 DEF Owns, Inv, TypeOK
  <2> QED BY <2>1, <2>3, OthersSpare
<1> QED BY <1>1, <1>2 DEF Spared

(* The same for any number of resources that want different names and no     *)
(* ids, while the search for unmanaged groups deletes, others are renamed    *)
(* and go, and ids are used again: no resource's reconcile, cleanup or       *)
(* search comes between what another found and what it reports.              *)
THEOREM SyncedTogether ==
  ASSUME NamesApart, Orderly
  PROVE  Spec => SyncedIsTrue
<1>1. Inv /\ FoundIsTrue /\ [Next]_vars => Inv' /\ FoundIsTrue'
  <2> SUFFICES ASSUME Inv, FoundIsTrue, [Next]_vars PROVE Inv' /\ FoundIsTrue'
    OBVIOUS
  <2>1. Inv'
    BY InvStep
  <2>2. TypeOK
    BY DEF Inv
  <2>3. FoundIsTrue'
    BY <2>2, ApartSpared, FoundStep
  <2> QED BY <2>1, <2>3
<1>2. Inv /\ FoundIsTrue /\ [Next]_vars =>
        [\A g \in Groups :
           /\ pc[g] = "options" /\ pc'[g] = "idle"
           /\ found[g].latest
           /\ [group |-> g, status |-> [state |-> "synced", id |-> found[g].id]] \in patches'
           => /\ AsSpecified(found[g].id, doc[g].spec)
              /\ doc[g].spec.id \in {None, found[g].id}]_vars
  BY ReportsTruly
<1> QED BY <1>1, <1>2, InitInv, FoundInit, PTL DEF Spec, SyncedIsTrue
================================================================================
