------------------------ MODULE DeviceReconcilerProofs -------------------------
(***************************************************************************)
(* Proofs about DeviceReconciler, for any devices, names, specifications   *)
(* and surroundings: the types, that no device is given the capabilities of*)
(* another's resource, and that what is reported as synced is.             *)
(***************************************************************************)
EXTENDS DeviceReconciler, TLAPS

Undisturbed == environment \cap {"late", "delay", "garble"} = {}

(* What the tracker returns is the latest list. *)
TrackerIsFresh ==
  /\ late = {}
  /\ cell # "open" => box = Nothing /\ value = None
  /\ due => cell = "open" /\ box = Nothing /\ value = None
  /\ box # Garbled
  /\ \A l \in Lists : box = List(l) => l = devices
  /\ box = Nothing /\ value # None => value = devices

(* The name a reconcile goes on with is the one the device has. *)
NamesAreTrue ==
  \A d \in Devices :
    /\ pc[d] = "rename" => found[d].name = devices[d].name
    /\ pc[d] \in {"options", "capabilities", "set", "resend"} =>
         devices[d].name = Wanted(doc[d].spec, d)

Reached == \A d \in Devices : applied[d] \in {d, None}

Inv == TypeOK /\ (Undisturbed => TrackerIsFresh /\ NamesAreTrue /\ Reached)

BoxType == {Nothing, Garbled, Closed} \cup [kind : {"list"}, list : Lists]

LEMMA WantedTyped ==
  ASSUME NEW d \in Devices, NEW s \in Specs[d]
  PROVE  Wanted(s, d) \in Names \cup Devices
<1>1. s \in SpecType
  BY DeviceAssumption
<1> QED BY <1>1 DEF SpecType, Wanted

LEMMA RenamedTyped ==
  ASSUME TypeOK, NEW d \in Devices, NEW n \in Names \cup Devices, Possible(d, n)
  PROVE  /\ Renamed(d, n) \in Lists
         /\ Renamed(d, n)[d].name = n
         /\ \A e \in Devices \ {d} : Renamed(d, n)[e] = devices[e]
         /\ \A e, f \in Devices : Renamed(d, n)[e].name = Renamed(d, n)[f].name => e = f
<1>1. devices \in Lists
  BY DEF TypeOK
<1>2. /\ Renamed(d, n) \in Lists
      /\ Renamed(d, n)[d].name = n
      /\ \A e \in Devices \ {d} : Renamed(d, n)[e] = devices[e]
  BY <1>1 DEF Renamed, Lists
<1> QED BY <1>2 DEF TypeOK, Possible

(* A list that is published arrives at once, or there is nobody to hear it.  *)
LEMMA PublishKeeps ==
  ASSUME TypeOK, NEW new \in Lists, Publish(new)
  PROVE  /\ devices' = new /\ cell' = cell /\ value' = value
         /\ due' \in BOOLEAN /\ box' \in BoxType
         /\ Undisturbed /\ TrackerIsFresh /\ late' = {} => TrackerIsFresh'
<1>1. /\ devices' = new /\ cell' = cell /\ value' = value
      /\ due' \in BOOLEAN
  BY DEF Publish, TypeOK
<1>2. box' \in BoxType
  <2>1. List(new) \in BoxType /\ Garbled \in BoxType /\ box \in BoxType
    BY DEF List, BoxType, TypeOK
  <2> QED BY <2>1 DEF Publish
<1>3. ASSUME Undisturbed, TrackerIsFresh, late' = {} PROVE TrackerIsFresh'
  <2>1. CASE cell # "open" \/ box = Closed
    BY <1>1, <1>3, <2>1 DEF Publish, TrackerIsFresh, Closed, Nothing, List, Garbled
  <2>2. CASE cell = "open" /\ box # Closed
    <3>1. box' = List(new) /\ due' = FALSE
      BY <1>3, <2>2 DEF Publish, Undisturbed, May
    <3> QED BY <1>1, <1>3, <2>2, <3>1 DEF TrackerIsFresh, List, Nothing, Garbled
  <2> QED BY <2>1, <2>2
<1> QED BY <1>1, <1>2, <1>3

LEMMA ReturnsKeeps ==
  ASSUME TypeOK, NEW l \in Known, Returns(l), UNCHANGED <<cell, due, devices, late>>
  PROVE  /\ l \in Lists /\ value' \in Lists /\ box' \in BoxType
         /\ Undisturbed /\ TrackerIsFresh => TrackerIsFresh' /\ l = devices
<1>1. l \in Lists
  BY DEF Known, TypeOK, Nothing, Garbled, Closed
<1>2. value' \in Lists /\ box' \in BoxType
  BY <1>1 DEF Returns, TypeOK, BoxType, Nothing
<1>3. ASSUME Undisturbed, TrackerIsFresh PROVE TrackerIsFresh' /\ l = devices
  <2>1. None \notin Lists
    BY DeviceAssumption
  <2>2. CASE box = List(l)
    BY <1>1, <1>3, <2>1, <2>2 DEF Returns, TrackerIsFresh, List, Nothing, Garbled
  <2>3. CASE box # List(l)
    BY <1>1, <1>3, <2>1, <2>3 DEF Returns, TrackerIsFresh, List, Nothing, Garbled
  <2> QED BY <2>2, <2>3
<1> QED BY <1>1, <1>2, <1>3

LEMMA GetFailsKeeps ==
  ASSUME TypeOK, GetFails, UNCHANGED <<cell, due, devices, late>>
  PROVE  /\ value' = value /\ box' \in BoxType
         /\ Undisturbed /\ TrackerIsFresh => TrackerIsFresh'
<1>1. value' = value /\ box' \in BoxType
  BY DEF GetFails, TypeOK, BoxType
<1>2. ASSUME Undisturbed, TrackerIsFresh PROVE TrackerIsFresh'
  <2>1. box' = box
    BY <1>2 DEF GetFails, TrackerIsFresh
  <2> QED BY <1>1, <1>2, <2>1 DEF TrackerIsFresh
<1> QED BY <1>1, <1>2

LEMMA FinishTyped ==
  ASSUME TypeOK, NEW d \in Devices, NEW state \in StatusType, Finish(d, state)
  PROVE  /\ patches' \subseteq Devices \X StatusType
         /\ found' = [found EXCEPT ![d] = None]
         /\ pc' = [pc EXCEPT ![d] = "idle"]
BY DEF TypeOK, Finish, Goto

(* A step of a reconcile leaves the others their names.                      *)
LEMMA OthersKeepNames ==
  ASSUME TypeOK, NamesAreTrue, NEW d \in Devices,
         \A e \in Devices \ {d} :
           /\ pc'[e] = pc[e] /\ found'[e] = found[e] /\ doc'[e] = doc[e]
           /\ devices'[e].name = devices[e].name,
         pc'[d] = "rename" => found'[d].name = devices'[d].name,
         pc'[d] \in {"options", "capabilities", "set", "resend"} =>
           devices'[d].name = Wanted(doc'[d].spec, d)
  PROVE  NamesAreTrue'
<1> SUFFICES ASSUME NEW e \in Devices
             PROVE  /\ pc'[e] = "rename" => found'[e].name = devices'[e].name
                    /\ pc'[e] \in {"options", "capabilities", "set", "resend"} =>
                         devices'[e].name = Wanted(doc'[e].spec, e)
  BY DEF NamesAreTrue
<1>1. CASE e = d
  BY <1>1
<1>2. CASE e # d
  BY <1>2 DEF NamesAreTrue
<1> QED BY <1>1, <1>2

LEMMA InitInv == Init => Inv
<1> SUFFICES ASSUME Init PROVE Inv
  OBVIOUS
<1>1. PICK s \in [Devices -> UNION {Specs[d] : d \in Devices}] :
        /\ \A d \in Devices : s[d] \in Specs[d]
        /\ spec = s
        /\ doc = [d \in Devices |-> [spec |-> s[d], status |-> "unknown"]]
  BY DEF Init
<1>2. TypeOK
  BY <1>1, DeviceAssumption DEF Init, TypeOK, StatusType, Nothing
<1>3. TrackerIsFresh
  BY DEF Init, TrackerIsFresh, Nothing, List, Garbled
<1>4. NamesAreTrue /\ Reached
  BY DEF Init, NamesAreTrue, Reached
<1> QED BY <1>2, <1>3, <1>4 DEF Inv

--------------------------------------------------------------------------------
(* Each step of a reconcile keeps the invariant. *)

LEMMA BeginInv ==
  ASSUME Inv, NEW d \in Devices, ReconcileBegin(d)
  PROVE  Inv'
<1> USE DEF Inv
<1>1. /\ doc' = [doc EXCEPT ![d] = [spec |-> spec[d], status |-> status[d]]]
      /\ pc' = [pc EXCEPT ![d] = "tracker"] /\ pc[d] = "idle"
      /\ UNCHANGED <<spec, status, patches, zigbee2mqtt, tracker, instance, found>>
  BY DEF ReconcileBegin, Goto
<1>2. TypeOK'
  BY <1>1 DEF TypeOK, zigbee2mqtt, tracker, instance
<1>3. ASSUME Undisturbed PROVE TrackerIsFresh' /\ Reached'
  BY <1>1, <1>3 DEF TrackerIsFresh, Reached, zigbee2mqtt, tracker, Undisturbed
<1>4. ASSUME Undisturbed PROVE NamesAreTrue'
  BY <1>1, <1>4, OthersKeepNames DEF TypeOK, zigbee2mqtt
<1> QED BY <1>1, <1>2, <1>3, <1>4 DEF Undisturbed, instance

LEMMA PostponedInv ==
  ASSUME Inv, NEW d \in Devices, ReconcilePostponed(d)
  PROVE  Inv'
<1> USE DEF Inv
<1>1. /\ patches' = patches \cup {<<d, "unknown">>}
      /\ UNCHANGED <<spec, status, zigbee2mqtt, tracker, instance, reconcile>>
  BY DEF ReconcilePostponed
<1>2. TypeOK'
  BY <1>1 DEF TypeOK, zigbee2mqtt, tracker, instance, reconcile, StatusType
<1> QED BY <1>1, <1>2 DEF TrackerIsFresh, NamesAreTrue, Reached, Undisturbed,
                          zigbee2mqtt, tracker, instance, reconcile

LEMMA GetTrackerInv ==
  ASSUME Inv, NEW d \in Devices, GetTracker(d)
  PROVE  Inv'
<1> USE DEF Inv
<1>1. /\ pc[d] = "tracker"
      /\ UNCHANGED <<spec, status, zigbee2mqtt, box, value, instance, doc>>
  BY DEF GetTracker
<1>2. CASE /\ cell \in {"empty", "open"}
           /\ cell' = "open"
           /\ due' = IF cell = "empty" THEN TRUE ELSE due
           /\ Goto(d, "lookup")
           /\ UNCHANGED <<patches, found>>
  <2>1. TypeOK'
    BY <1>1, <1>2 DEF TypeOK, Goto, zigbee2mqtt, instance
  <2>2. ASSUME Undisturbed PROVE TrackerIsFresh' /\ Reached'
    BY <1>1, <1>2, <2>2 DEF TrackerIsFresh, Reached, zigbee2mqtt
  <2>3. ASSUME Undisturbed PROVE NamesAreTrue'
    BY <1>1, <1>2, <2>3, OthersKeepNames DEF TypeOK, Goto, zigbee2mqtt
  <2> QED BY <1>1, <2>1, <2>2, <2>3 DEF Undisturbed, instance
<1>3. CASE /\ cell = "failed" \/ (cell = "empty" /\ May("subscribe"))
           /\ cell' = "failed"
           /\ Finish(d, "missing")
           /\ UNCHANGED due
  <2>1. /\ patches' \subseteq Devices \X StatusType
        /\ found' = [found EXCEPT ![d] = None] /\ pc' = [pc EXCEPT ![d] = "idle"]
    BY <1>3, FinishTyped DEF StatusType
  <2>2. TypeOK'
    BY <1>1, <1>3, <2>1 DEF TypeOK, zigbee2mqtt, instance
  <2>3. ASSUME Undisturbed PROVE TrackerIsFresh' /\ Reached'
    BY <1>1, <1>3, <2>3 DEF TrackerIsFresh, Reached, zigbee2mqtt
  <2>4. ASSUME Undisturbed PROVE NamesAreTrue'
    BY <1>1, <2>1, <2>4, OthersKeepNames DEF TypeOK, zigbee2mqtt
  <2> QED BY <1>1, <2>2, <2>3, <2>4 DEF Undisturbed, instance
<1> QED BY <1>2, <1>3 DEF GetTracker
(* A step that only asks the tracker and ends the reconcile, or goes on.     *)
LEMMA EndInv ==
  ASSUME Inv, NEW d \in Devices, NEW state \in StatusType, Finish(d, state),
         UNCHANGED <<spec, status, zigbee2mqtt, cell, due, instance, doc>>,
         value' \in Lists \cup {None}, box' \in BoxType,
         Undisturbed => TrackerIsFresh'
  PROVE  Inv'
<1> USE DEF Inv
<1>1. /\ patches' \subseteq Devices \X StatusType
      /\ found' = [found EXCEPT ![d] = None] /\ pc' = [pc EXCEPT ![d] = "idle"]
  BY FinishTyped
<1>2. TypeOK'
  BY <1>1 DEF TypeOK, zigbee2mqtt, instance, BoxType
<1>3. ASSUME Undisturbed PROVE NamesAreTrue' /\ Reached'
  BY <1>1, <1>3, OthersKeepNames DEF TypeOK, zigbee2mqtt, Reached
<1> QED BY <1>2, <1>3 DEF Undisturbed, instance

LEMMA GoOnInv ==
  ASSUME Inv, NEW d \in Devices, NEW state \in {"options", "capabilities", "set"},
         pc[d] \in {"options", "capabilities"}, Goto(d, state),
         UNCHANGED <<spec, status, patches, zigbee2mqtt, cell, due, instance, doc, found>>,
         value' \in Lists \cup {None}, box' \in BoxType,
         Undisturbed => TrackerIsFresh'
  PROVE  Inv'
<1> USE DEF Inv, Goto
<1>1. TypeOK'
  BY DEF TypeOK, zigbee2mqtt, instance, BoxType
<1>2. ASSUME Undisturbed PROVE NamesAreTrue' /\ Reached'
  <2>1. devices[d].name = Wanted(doc[d].spec, d)
    BY <1>2 DEF NamesAreTrue
  <2> QED BY <1>2, <2>1, OthersKeepNames DEF TypeOK, zigbee2mqtt, Reached
<1> QED BY <1>1, <1>2 DEF Undisturbed, instance

LEMMA GetFailsInv ==
  ASSUME Inv, NEW d \in Devices, NEW state \in StatusType, GetFails, Finish(d, state),
         UNCHANGED <<spec, status, zigbee2mqtt, cell, due, instance, doc>>
  PROVE  Inv'
<1>1. UNCHANGED <<devices, late>>
  BY DEF zigbee2mqtt
<1>2. /\ value' \in Lists \cup {None} /\ box' \in BoxType
      /\ Undisturbed => TrackerIsFresh'
  BY <1>1, GetFailsKeeps DEF Inv, TypeOK
<1> QED BY <1>2, EndInv

LEMMA LookupInv ==
  ASSUME Inv, NEW d \in Devices, Lookup(d)
  PROVE  Inv'
<1>1. /\ pc[d] = "lookup"
      /\ UNCHANGED <<spec, status, zigbee2mqtt, cell, due, instance, doc>>
      /\ UNCHANGED <<cell, due, devices, late>>
  BY DEF Lookup, zigbee2mqtt
<1>2. ASSUME NEW l \in Known, Returns(l), l[d].fit = "fit",
             found' = [found EXCEPT ![d] = [name |-> l[d].name, latest |-> l = devices]],
             Goto(d, "rename"), UNCHANGED patches
      PROVE  Inv'
  <2>1. /\ l \in Lists /\ value' \in Lists /\ box' \in BoxType
        /\ Undisturbed => TrackerIsFresh' /\ l = devices
    BY <1>1, <1>2, ReturnsKeeps DEF Inv
  <2>2. [name |-> l[d].name, latest |-> l = devices] \in FoundType
    BY <2>1 DEF Lists, FoundType
  <2>3. [name |-> l[d].name, latest |-> l = devices] # None
    BY <2>2, DeviceAssumption
  <2>4. TypeOK'
    BY <1>1, <1>2, <2>1, <2>2, <2>3
    DEF Inv, TypeOK, Goto, zigbee2mqtt, instance, BoxType, FoundType
  <2>5. ASSUME Undisturbed PROVE NamesAreTrue' /\ Reached'
    BY <1>1, <1>2, <2>1, <2>5, OthersKeepNames DEF Inv, TypeOK, Goto, zigbee2mqtt, Reached
  <2> QED BY <1>1, <2>1, <2>4, <2>5 DEF Inv, Undisturbed, instance
<1>3. ASSUME NEW l \in Known, Returns(l), Finish(d, "missing") PROVE Inv'
  <2>1. /\ value' \in Lists /\ box' \in BoxType
        /\ Undisturbed => TrackerIsFresh'
    BY <1>1, <1>3, ReturnsKeeps DEF Inv
  <2> QED BY <1>1, <1>3, <2>1, EndInv DEF StatusType
<1>4. ASSUME GetFails, Finish(d, "missing") PROVE Inv'
  BY <1>1, <1>4, GetFailsInv DEF StatusType
<1> QED BY <1>2, <1>3, <1>4 DEF Lookup

LEMMA SyncNameInv ==
  ASSUME Inv, NEW d \in Devices, SyncName(d)
  PROVE  Inv'
<1> DEFINE n == Wanted(doc[d].spec, d)
<1> USE DEF Inv
<1>1. /\ pc[d] = "rename" /\ n \in Names \cup Devices
      /\ UNCHANGED <<spec, status, applied, instance, doc>>
  BY WantedTyped DEF SyncName, TypeOK
<1>2. CASE /\ found[d].name = n
           /\ Goto(d, "options")
           /\ UNCHANGED <<patches, devices, late, tracker, found>>
  <2>1. TypeOK'
    BY <1>1, <1>2 DEF TypeOK, Goto, tracker, instance
  <2>2. ASSUME Undisturbed PROVE TrackerIsFresh' /\ Reached'
    BY <1>1, <1>2, <2>2 DEF TrackerIsFresh, Reached, tracker
  <2>3. ASSUME Undisturbed PROVE NamesAreTrue'
    <3>1. devices[d].name = n
      BY <1>1, <1>2, <2>3 DEF NamesAreTrue
    <3> QED BY <1>1, <1>2, <2>3, <3>1, OthersKeepNames DEF TypeOK, Goto
  <2> QED BY <1>1, <2>1, <2>2, <2>3 DEF Undisturbed, instance
<1>3. CASE /\ Possible(d, n)
           /\ Publish(Renamed(d, n))
           /\ \/ Goto(d, "options") /\ UNCHANGED <<patches, found>>
              \/ May("timeout") /\ Finish(d, "missing")
           /\ UNCHANGED late
  <2> HIDE DEF n
  <2>1. /\ Renamed(d, n) \in Lists /\ Renamed(d, n)[d].name = n
        /\ \A e \in Devices \ {d} : Renamed(d, n)[e] = devices[e]
        /\ \A e, f \in Devices : Renamed(d, n)[e].name = Renamed(d, n)[f].name => e = f
    BY <1>1, <1>3, RenamedTyped
  <2>2. /\ devices' = Renamed(d, n) /\ cell' = cell /\ value' = value
        /\ due' \in BOOLEAN /\ box' \in BoxType
        /\ Undisturbed /\ TrackerIsFresh /\ late' = {} => TrackerIsFresh'
    BY <1>3, <2>1, PublishKeeps
  <2>3. /\ patches' \subseteq Devices \X StatusType
        /\ \/ pc' = [pc EXCEPT ![d] = "options"] /\ UNCHANGED found
           \/ pc' = [pc EXCEPT ![d] = "idle"] /\ found' = [found EXCEPT ![d] = None]
    BY <1>3, FinishTyped DEF Goto, TypeOK, StatusType
  <2>4. TypeOK'
    <3>1. /\ devices' \in Lists
          /\ \A e, f \in Devices : devices'[e].name = devices'[f].name => e = f
      BY <2>1, <2>2
    <3>2. /\ found' \in [Devices -> FoundType \cup {None}]
          /\ \A e \in Devices :
               /\ (found'[e] = None) = (pc'[e] \in {"idle", "tracker", "lookup"})
               /\ pc'[e] \notin {"idle", "tracker"} => cell' = "open"
      <4>1. CASE pc' = [pc EXCEPT ![d] = "options"] /\ UNCHANGED found
        BY <1>1, <2>2, <4>1 DEF TypeOK
      <4>2. CASE pc' = [pc EXCEPT ![d] = "idle"] /\ found' = [found EXCEPT ![d] = None]
        BY <1>1, <2>2, <4>2 DEF TypeOK
      <4> QED BY <2>3, <4>1, <4>2
    <3>3. pc' \in [Devices -> {"idle", "tracker", "lookup", "rename", "options",
                               "capabilities", "set", "resend"}]
      BY <2>3 DEF TypeOK
    <3> QED BY <1>1, <1>3, <2>2, <2>3, <3>1, <3>2, <3>3 DEF TypeOK, instance, BoxType
  <2>5. ASSUME Undisturbed PROVE TrackerIsFresh' /\ Reached'
    BY <1>1, <1>3, <2>2, <2>5 DEF TrackerIsFresh, Reached
  <2>6. ASSUME Undisturbed PROVE NamesAreTrue'
    BY <1>1, <2>1, <2>2, <2>3, <2>6, OthersKeepNames DEF TypeOK, n
  <2> QED BY <1>1, <2>4, <2>5, <2>6 DEF Undisturbed, instance
<1>4. CASE /\ Finish(d, "missing")
           /\ \/ UNCHANGED late
              \/ May("timeout") /\ May("late") /\ late' = late \cup {<<d, n>>}
           /\ UNCHANGED <<devices, tracker>>
  <2> HIDE DEF n
  <2>1. /\ patches' \subseteq Devices \X StatusType
        /\ found' = [found EXCEPT ![d] = None] /\ pc' = [pc EXCEPT ![d] = "idle"]
    BY <1>4, FinishTyped DEF StatusType
  <2>2. TypeOK'
    BY <1>1, <1>4, <2>1 DEF TypeOK, tracker, instance
  <2>3. ASSUME Undisturbed PROVE TrackerIsFresh' /\ Reached'
    BY <1>1, <1>4, <2>3 DEF TrackerIsFresh, Reached, tracker, Undisturbed, May
  <2>4. ASSUME Undisturbed PROVE NamesAreTrue'
    BY <1>1, <1>4, <2>1, <2>4, OthersKeepNames DEF TypeOK
  <2> QED BY <1>1, <2>2, <2>3, <2>4 DEF Undisturbed, instance
<1> QED BY <1>2, <1>3, <1>4 DEF SyncName

LEMMA SyncOptionsInv ==
  ASSUME Inv, NEW d \in Devices, SyncOptions(d)
  PROVE  Inv'
<1>1. /\ pc[d] = "options"
      /\ UNCHANGED <<spec, status, zigbee2mqtt, cell, due, instance, doc>>
      /\ UNCHANGED <<cell, due, devices, late>>
  BY DEF SyncOptions, zigbee2mqtt
<1>2. ASSUME Goto(d, "capabilities"), UNCHANGED <<patches, found, box, value>> PROVE Inv'
  <2>1. /\ value' \in Lists \cup {None} /\ box' \in BoxType
        /\ Undisturbed => TrackerIsFresh'
    BY <1>1, <1>2 DEF Inv, TypeOK, BoxType, TrackerIsFresh
  <2> QED BY <1>1, <1>2, <2>1, GoOnInv
<1>3. ASSUME NEW l \in Known, Returns(l),
             (Goto(d, "capabilities") /\ UNCHANGED <<patches, found>>) \/ Finish(d, "unsynced")
      PROVE  Inv'
  <2>1. /\ value' \in Lists /\ box' \in BoxType
        /\ Undisturbed => TrackerIsFresh'
    BY <1>1, <1>3, ReturnsKeeps DEF Inv
  <2>2. CASE Goto(d, "capabilities") /\ UNCHANGED <<patches, found>>
    BY <1>1, <2>1, <2>2, GoOnInv
  <2>3. CASE Finish(d, "unsynced")
    BY <1>1, <2>1, <2>3, EndInv DEF StatusType
  <2> QED BY <1>3, <2>2, <2>3
<1>4. ASSUME GetFails, Finish(d, "unsynced") PROVE Inv'
  BY <1>1, <1>4, GetFailsInv DEF StatusType
<1> QED BY <1>2, <1>3, <1>4 DEF SyncOptions

LEMMA SyncCapabilitiesInv ==
  ASSUME Inv, NEW d \in Devices, SyncCapabilities(d)
  PROVE  Inv'
<1>1. /\ pc[d] = "capabilities"
      /\ UNCHANGED <<spec, status, zigbee2mqtt, cell, due, instance, doc>>
      /\ UNCHANGED <<cell, due, devices, late>>
  BY DEF SyncCapabilities, zigbee2mqtt
<1>2. ASSUME Finish(d, "synced"), UNCHANGED <<box, value>> PROVE Inv'
  <2>1. /\ value' \in Lists \cup {None} /\ box' \in BoxType
        /\ Undisturbed => TrackerIsFresh'
    BY <1>1, <1>2 DEF Inv, TypeOK, BoxType, TrackerIsFresh
  <2> QED BY <1>1, <1>2, <2>1, EndInv DEF StatusType
<1>3. ASSUME NEW l \in Known, Returns(l),
             \/ Finish(d, "synced")
             \/ Goto(d, "set") /\ UNCHANGED <<patches, found>>
             \/ Finish(d, "unsynced")
      PROVE  Inv'
  <2>1. /\ value' \in Lists /\ box' \in BoxType
        /\ Undisturbed => TrackerIsFresh'
    BY <1>1, <1>3, ReturnsKeeps DEF Inv
  <2>2. CASE Goto(d, "set") /\ UNCHANGED <<patches, found>>
    BY <1>1, <2>1, <2>2, GoOnInv
  <2>3. CASE Finish(d, "synced") \/ Finish(d, "unsynced")
    BY <1>1, <2>1, <2>3, EndInv DEF StatusType
  <2> QED BY <1>3, <2>2, <2>3
<1>4. ASSUME GetFails, Finish(d, "unsynced") PROVE Inv'
  BY <1>1, <1>4, GetFailsInv DEF StatusType
<1> QED BY <1>2, <1>3, <1>4 DEF SyncCapabilities

(* Names are unique, so that nobody else listens to the topic.               *)
LEMMA SetCapabilitiesInv ==
  ASSUME Inv, NEW d \in Devices, SetCapabilities(d)
  PROVE  Inv'
<1> DEFINE heard == Listening(Wanted(doc[d].spec, d))
<1> USE DEF Inv
<1>1. /\ pc[d] \in {"set", "resend"}
      /\ UNCHANGED <<spec, status, devices, late, tracker, instance, doc>>
      /\ \/ Finish(d, "synced") \/ Finish(d, "unsynced")
         \/ Goto(d, "resend") /\ UNCHANGED <<patches, found>>
      /\ \/ applied' = [e \in Devices |-> IF e \in heard THEN d ELSE applied[e]]
         \/ UNCHANGED applied
  BY DEF SetCapabilities, SendCapabilities, HeardAt
<1>2. /\ patches' \subseteq Devices \X StatusType
      /\ \/ found' = [found EXCEPT ![d] = None] /\ pc' = [pc EXCEPT ![d] = "idle"]
         \/ UNCHANGED found /\ pc' = [pc EXCEPT ![d] = "resend"]
  <2>1. CASE Finish(d, "synced") \/ Finish(d, "unsynced")
    BY <2>1, FinishTyped DEF StatusType
  <2>2. CASE Goto(d, "resend") /\ UNCHANGED <<patches, found>>
    BY <2>2 DEF Goto, TypeOK
  <2> QED BY <1>1, <2>1, <2>2
<1>3. TypeOK'
  <2>1. applied' \in [Devices -> Devices \cup {None}]
    BY <1>1 DEF TypeOK
  <2>2. /\ found' \in [Devices -> FoundType \cup {None}]
        /\ \A e \in Devices :
             /\ (found'[e] = None) = (pc'[e] \in {"idle", "tracker", "lookup"})
             /\ pc'[e] \notin {"idle", "tracker"} => cell' = "open"
    BY <1>1, <1>2 DEF TypeOK, tracker
  <2>3. pc' \in [Devices -> {"idle", "tracker", "lookup", "rename", "options",
                             "capabilities", "set", "resend"}]
    BY <1>2 DEF TypeOK
  <2> QED BY <1>1, <1>2, <2>1, <2>2, <2>3 DEF TypeOK, tracker, instance
<1>4. ASSUME Undisturbed PROVE Reached'
  <2>1. heard \subseteq {d}
    BY <1>1, <1>4 DEF NamesAreTrue, Listening, TypeOK
  <2> QED BY <1>1, <1>4, <2>1 DEF Reached
<1>5. ASSUME Undisturbed PROVE TrackerIsFresh'
  BY <1>1, <1>5 DEF TrackerIsFresh, tracker
<1>6. ASSUME Undisturbed PROVE NamesAreTrue'
  <2>1. devices[d].name = Wanted(doc[d].spec, d)
    BY <1>1, <1>6 DEF NamesAreTrue
  <2>2. \A e \in Devices \ {d} : pc'[e] = pc[e] /\ found'[e] = found[e]
    BY <1>2 DEF TypeOK
  <2>3. pc'[d] \in {"idle", "resend"}
    BY <1>2 DEF TypeOK
  <2> QED BY <1>1, <1>6, <2>1, <2>2, <2>3, OthersKeepNames
<1> QED BY <1>1, <1>3, <1>4, <1>5, <1>6 DEF Undisturbed, instance

--------------------------------------------------------------------------------
(* So does each step of the surroundings. *)

(* A list that changes and leaves the devices their names.                   *)
LEMMA PublishInv ==
  ASSUME Inv, NEW new \in Lists, Publish(new),
         \A e \in Devices : new[e].name = devices[e].name,
         UNCHANGED <<spec, status, patches, applied, late, instance, reconcile>>
  PROVE  Inv'
<1> USE DEF Inv
<1>1. /\ devices' = new /\ cell' = cell /\ value' = value
      /\ due' \in BOOLEAN /\ box' \in BoxType
      /\ Undisturbed /\ TrackerIsFresh /\ late' = {} => TrackerIsFresh'
  BY PublishKeeps
<1>2. TypeOK'
  BY <1>1 DEF TypeOK, instance, reconcile, BoxType
<1>3. ASSUME Undisturbed PROVE TrackerIsFresh' /\ NamesAreTrue' /\ Reached'
  BY <1>1, <1>3 DEF TrackerIsFresh, NamesAreTrue, Reached, reconcile
<1> QED BY <1>2, <1>3 DEF Undisturbed, instance

LEMMA LateRenameInv ==
  ASSUME Inv, NEW d, NEW n, LateRename(d, n)
  PROVE  Inv'
<1> USE DEF Inv
<1>1. /\ d \in Devices /\ n \in Names \cup Devices
      /\ late' \subseteq Devices \X (Names \cup Devices)
      /\ UNCHANGED <<spec, status, patches, applied, instance, reconcile>>
      /\ ~Undisturbed
  BY DEF LateRename, TypeOK, TrackerIsFresh
<1>2. CASE Possible(d, n) /\ Publish(Renamed(d, n))
  <2>1. /\ Renamed(d, n) \in Lists
        /\ \A e, f \in Devices : Renamed(d, n)[e].name = Renamed(d, n)[f].name => e = f
    BY <1>1, <1>2, RenamedTyped
  <2>2. /\ devices' = Renamed(d, n) /\ cell' = cell /\ value' = value
        /\ due' \in BOOLEAN /\ box' \in BoxType
    BY <1>2, <2>1, PublishKeeps
  <2>3. TypeOK'
    BY <1>1, <2>1, <2>2 DEF TypeOK, instance, reconcile, BoxType
  <2> QED BY <1>1, <2>3 DEF Undisturbed, instance
<1>3. CASE UNCHANGED <<devices, tracker>>
  <2>1. TypeOK'
    BY <1>1, <1>3 DEF TypeOK, tracker, instance, reconcile
  <2> QED BY <1>1, <2>1 DEF Undisturbed, instance
<1> QED BY <1>2, <1>3 DEF LateRename

LEMMA TrackerInv ==
  ASSUME Inv, Deliver \/ RelayEnds
  PROVE  Inv'
<1> USE DEF Inv
<1>1. UNCHANGED <<spec, status, patches, zigbee2mqtt, cell, value, instance, reconcile>>
  BY DEF Deliver, RelayEnds
<1>2. box' \in BoxType /\ due' = FALSE
  BY DEF Deliver, RelayEnds, BoxType, List, TypeOK
<1>3. TypeOK'
  BY <1>1, <1>2 DEF TypeOK, zigbee2mqtt, instance, reconcile, BoxType
<1>4. ASSUME Undisturbed PROVE TrackerIsFresh'
  <2>1. CASE Deliver
    BY <1>1, <1>4, <2>1 DEF Deliver, TrackerIsFresh, zigbee2mqtt, List, Nothing, Garbled, TypeOK
  <2>2. CASE RelayEnds
    BY <1>1, <1>4, <2>2
    DEF RelayEnds, TrackerIsFresh, zigbee2mqtt, List, Nothing, Garbled, Closed
  <2> QED BY <2>1, <2>2
<1>5. ASSUME Undisturbed PROVE NamesAreTrue' /\ Reached'
  BY <1>1, <1>5 DEF NamesAreTrue, Reached, zigbee2mqtt, reconcile
<1> QED BY <1>1, <1>3, <1>4, <1>5 DEF Undisturbed, instance

LEMMA NextInv == Inv /\ [Next]_vars => Inv'
<1> SUFFICES ASSUME Inv, [Next]_vars PROVE Inv'
  OBVIOUS
<1>1. ASSUME NEW d \in Devices, ReconcileStep(d) PROVE Inv'
  BY <1>1, BeginInv, PostponedInv, GetTrackerInv, LookupInv, SyncNameInv, SyncOptionsInv,
     SyncCapabilitiesInv, SetCapabilitiesInv DEF ReconcileStep
<1>2. ASSUME NEW d \in Devices, EditResource(d) PROVE Inv'
  <2>1. PICK s \in Specs[d] : spec' = [spec EXCEPT ![d] = s]
    BY <1>2 DEF EditResource
  <2>2. s \in SpecType
    BY <2>1, DeviceAssumption
  <2>3. TypeOK'
    BY <1>2, <2>1, <2>2
    DEF EditResource, Inv, TypeOK, zigbee2mqtt, tracker, instance, reconcile
  <2> QED BY <1>2, <2>3 DEF EditResource, Inv, TrackerIsFresh, NamesAreTrue, Reached,
                             Undisturbed, zigbee2mqtt, tracker, instance, reconcile
<1>3. ASSUME NEW d \in Devices, FitnessChanges(d) PROVE Inv'
  <2>1. PICK f \in Fitness : Publish([devices EXCEPT ![d].fit = f])
    BY <1>3 DEF FitnessChanges
  <2>2. /\ [devices EXCEPT ![d].fit = f] \in Lists
        /\ \A e \in Devices : [devices EXCEPT ![d].fit = f][e].name = devices[e].name
    BY DEF Inv, TypeOK, Lists
  <2> QED BY <1>3, <2>1, <2>2, PublishInv DEF FitnessChanges
<1>4. ASSUME NEW x \in late, LateRename(x[1], x[2]) PROVE Inv'
  BY <1>4, LateRenameInv
<1>5. ASSUME NEW p \in patches, PatchArrives(p) PROVE Inv'
  <2>1. TypeOK'
    BY <1>5 DEF PatchArrives, Inv, TypeOK, zigbee2mqtt, tracker, instance, reconcile
  <2> QED BY <1>5, <2>1 DEF PatchArrives, Inv, TrackerIsFresh, NamesAreTrue, Reached,
                             Undisturbed, zigbee2mqtt, tracker, instance, reconcile
<1>6. ASSUME Deliver \/ RelayEnds PROVE Inv'
  BY <1>6, TrackerInv
<1>7. ASSUME ReadyChanges \/ CalmDown \/ UNCHANGED vars PROVE Inv'
  <2>1. TypeOK'
    <3>1. /\ ready' \in BOOLEAN /\ calm' \in BOOLEAN /\ environment' = environment
          /\ UNCHANGED <<spec, status, patches, zigbee2mqtt, tracker, reconcile>>
      BY <1>7 DEF ReadyChanges, CalmDown, vars, Inv, TypeOK, instance
    <3> QED BY <3>1 DEF Inv, TypeOK, zigbee2mqtt, tracker, reconcile
  <2> QED BY <1>7, <2>1 DEF ReadyChanges, CalmDown, vars, Inv, TrackerIsFresh, NamesAreTrue,
                             Reached, Undisturbed, zigbee2mqtt, tracker, instance, reconcile
<1> QED BY <1>1, <1>2, <1>3, <1>4, <1>5, <1>6, <1>7 DEF Next

--------------------------------------------------------------------------------

(* TypeOK: names stay unique, a reconcile beyond its first step has a tracker *)
(* and from the lookup on it knows the name of its device.                    *)
THEOREM TypeCorrect == Spec => []TypeOK
<1>1. Inv => TypeOK
  BY DEF Inv
<1> QED BY InitInv, NextInv, <1>1, PTL DEF Spec

(* CapabilitiesReachTheDevice: with any number of devices which pass names to *)
(* each other, no device gets the capabilities of another's resource, if no   *)
(* list is stale and no rename comes late.                                    *)
THEOREM CapabilitiesReach == Spec => []CapabilitiesReachTheDevice
<1>1. Inv => CapabilitiesReachTheDevice
  BY DEF Inv, CapabilitiesReachTheDevice, Undisturbed, Reached
<1> QED BY InitInv, NextInv, <1>1, PTL DEF Spec

--------------------------------------------------------------------------------
(* What is reported as synced is: whatever times out, arrives late, garbled or *)
(* not at all, as long as no rename comes late.                               *)

(* The name of a device that was found in the latest list changes only by the *)
(* rename of its own reconcile.                                               *)
NameIsTrue(d) ==
  found[d].latest =>
    /\ pc[d] = "rename" => found[d].name = devices[d].name
    /\ pc[d] \in {"options", "capabilities", "set", "resend"} =>
         devices[d].name = Wanted(doc[d].spec, d)
NoneIsLate == "late" \notin environment
FoundIsTrue == NoneIsLate => late = {} /\ \A d \in Devices : NameIsTrue(d)

(* A step of one reconcile leaves the others what they found.                *)
LEMMA OthersStay ==
  ASSUME FoundIsTrue, NEW d \in Devices, UNCHANGED <<late, environment>>,
         \A e \in Devices \ {d} :
           /\ pc'[e] = pc[e] /\ found'[e] = found[e] /\ doc'[e] = doc[e]
           /\ devices'[e].name = devices[e].name,
         NoneIsLate => NameIsTrue(d)'
  PROVE  FoundIsTrue'
<1> SUFFICES ASSUME NoneIsLate, NEW e \in Devices PROVE NameIsTrue(e)'
  BY DEF FoundIsTrue, NoneIsLate
<1>1. CASE e = d
  BY <1>1
<1>2. CASE e # d
  BY <1>2 DEF FoundIsTrue, NameIsTrue
<1> QED BY <1>1, <1>2

LEMMA FinishedStay ==
  ASSUME TypeOK, FoundIsTrue, NEW d \in Devices, NEW state, Finish(d, state),
         UNCHANGED <<late, environment, doc>>,
         \A e \in Devices \ {d} : devices'[e].name = devices[e].name
  PROVE  FoundIsTrue'
<1>1. /\ pc' = [pc EXCEPT ![d] = "idle"]
      /\ \A e \in Devices \ {d} : found'[e] = found[e]
  BY DEF Finish, Goto, TypeOK
<1> QED BY <1>1, OthersStay DEF TypeOK, NameIsTrue

LEMMA FoundInit == Init => FoundIsTrue
BY DEF Init, FoundIsTrue, NameIsTrue

LEMMA FoundReconcile ==
  ASSUME TypeOK, FoundIsTrue, NEW d \in Devices, ReconcileStep(d)
  PROVE  FoundIsTrue'
<1> USE DEF Goto, zigbee2mqtt, instance
<1>1. ASSUME ReconcileBegin(d) PROVE FoundIsTrue'
  BY <1>1, OthersStay DEF ReconcileBegin, TypeOK, NameIsTrue
<1>2. ASSUME ReconcilePostponed(d) PROVE FoundIsTrue'
  BY <1>2 DEF ReconcilePostponed, reconcile, FoundIsTrue, NameIsTrue, NoneIsLate
<1>3. ASSUME GetTracker(d) PROVE FoundIsTrue'
  <2>1. CASE pc' = [pc EXCEPT ![d] = "lookup"] /\ UNCHANGED found
    BY <1>3, <2>1, OthersStay DEF GetTracker, TypeOK, NameIsTrue
  <2>2. CASE Finish(d, "missing")
    BY <1>3, <2>2, FinishedStay DEF GetTracker
  <2> QED BY <1>3, <2>1, <2>2 DEF GetTracker
<1>4. ASSUME Lookup(d) PROVE FoundIsTrue'
  <2>1. ASSUME NEW l \in Known,
               found' = [found EXCEPT ![d] = [name |-> l[d].name, latest |-> l = devices]],
               pc' = [pc EXCEPT ![d] = "rename"]
        PROVE  FoundIsTrue'
    BY <1>4, <2>1, OthersStay DEF Lookup, TypeOK, NameIsTrue
  <2>2. CASE Finish(d, "missing")
    BY <1>4, <2>2, FinishedStay DEF Lookup
  <2> QED BY <1>4, <2>1, <2>2 DEF Lookup
<1>5. ASSUME SyncName(d) PROVE FoundIsTrue'
  <2> DEFINE n == Wanted(doc[d].spec, d)
  <2>1. n \in Names \cup Devices
    BY WantedTyped DEF TypeOK
  <2>2. CASE found[d].name = n /\ Goto(d, "options") /\ UNCHANGED <<devices, late, found>>
    BY <1>5, <2>2, OthersStay DEF SyncName, TypeOK, NameIsTrue, FoundIsTrue
  <2>3. CASE Possible(d, n) /\ Publish(Renamed(d, n)) /\ UNCHANGED late
    <3> HIDE DEF n
    <3>1. devices' = Renamed(d, n)
      BY <2>3 DEF Publish
    <3>2. devices'[d].name = n /\ \A e \in Devices \ {d} : devices'[e] = devices[e]
      BY <2>1, <2>3, <3>1, RenamedTyped
    <3>3. CASE Goto(d, "options") /\ UNCHANGED found
      BY <1>5, <2>3, <3>2, <3>3, OthersStay DEF SyncName, TypeOK, NameIsTrue, n
    <3>4. CASE Finish(d, "missing")
      BY <1>5, <2>3, <3>2, <3>4, FinishedStay DEF SyncName
    <3> QED BY <1>5, <3>3, <3>4 DEF SyncName
  <2>4. CASE Finish(d, "missing") /\ UNCHANGED devices /\ UNCHANGED late
    BY <1>5, <2>4, FinishedStay DEF SyncName
  <2>5. CASE May("late")
    BY <1>5, <2>5 DEF SyncName, May, FoundIsTrue, NoneIsLate
  <2> QED BY <1>5, <2>2, <2>3, <2>4, <2>5 DEF SyncName
<1>6. ASSUME SyncOptions(d) PROVE FoundIsTrue'
  <2>1. CASE pc' = [pc EXCEPT ![d] = "capabilities"] /\ UNCHANGED found
    BY <1>6, <2>1, OthersStay DEF SyncOptions, TypeOK, NameIsTrue, FoundIsTrue
  <2>2. CASE Finish(d, "unsynced")
    BY <1>6, <2>2, FinishedStay DEF SyncOptions
  <2> QED BY <1>6, <2>1, <2>2 DEF SyncOptions
<1>7. ASSUME SyncCapabilities(d) PROVE FoundIsTrue'
  <2>1. CASE pc' = [pc EXCEPT ![d] = "set"] /\ UNCHANGED found
    BY <1>7, <2>1, OthersStay DEF SyncCapabilities, TypeOK, NameIsTrue, FoundIsTrue
  <2>2. CASE Finish(d, "synced") \/ Finish(d, "unsynced")
    BY <1>7, <2>2, FinishedStay DEF SyncCapabilities
  <2> QED BY <1>7, <2>1, <2>2 DEF SyncCapabilities
<1>8. ASSUME SetCapabilities(d) PROVE FoundIsTrue'
  <2>0. /\ pc[d] \in {"set", "resend"}
        /\ UNCHANGED <<devices, late, instance, doc>>
        /\ \/ Finish(d, "synced") \/ Finish(d, "unsynced")
           \/ pc' = [pc EXCEPT ![d] = "resend"] /\ UNCHANGED found
    BY <1>8 DEF SetCapabilities, SendCapabilities
  <2>1. CASE pc' = [pc EXCEPT ![d] = "resend"] /\ UNCHANGED found
    BY <2>0, <2>1, OthersStay DEF TypeOK, NameIsTrue, FoundIsTrue
  <2>2. CASE Finish(d, "synced") \/ Finish(d, "unsynced")
    BY <2>0, <2>2, FinishedStay
  <2> QED BY <2>0, <2>1, <2>2
<1> QED BY <1>1, <1>2, <1>3, <1>4, <1>5, <1>6, <1>7, <1>8 DEF ReconcileStep

LEMMA FoundStep ==
  ASSUME TypeOK, FoundIsTrue, [Next]_vars
  PROVE  FoundIsTrue'
<1> USE DEF FoundIsTrue, NameIsTrue, NoneIsLate, zigbee2mqtt, tracker, instance, reconcile
<1>1. ASSUME NEW d \in Devices, ReconcileStep(d) PROVE FoundIsTrue'
  BY <1>1, FoundReconcile
<1>2. ASSUME NEW d \in Devices, EditResource(d) PROVE FoundIsTrue'
  BY <1>2 DEF EditResource
<1>3. ASSUME NEW d \in Devices, FitnessChanges(d) PROVE FoundIsTrue'
  <2>1. \A e \in Devices : devices'[e].name = devices[e].name
    BY <1>3 DEF FitnessChanges, Publish, TypeOK, Lists
  <2> QED BY <1>3, <2>1 DEF FitnessChanges
<1>4. ASSUME NEW x \in late, LateRename(x[1], x[2]) PROVE FoundIsTrue'
  BY <1>4 DEF LateRename
<1>5. ASSUME NEW p \in patches, PatchArrives(p) PROVE FoundIsTrue'
  BY <1>5 DEF PatchArrives
<1>6. ASSUME Deliver \/ RelayEnds \/ ReadyChanges \/ CalmDown \/ UNCHANGED vars
      PROVE  FoundIsTrue'
  BY <1>6 DEF Deliver, RelayEnds, ReadyChanges, CalmDown, vars
<1> QED BY <1>1, <1>2, <1>3, <1>4, <1>5, <1>6 DEF Next

(* Only the own reconcile says that a device is synced, and by its last step. *)
LEMMA SaysSyncedEnds ==
  ASSUME TypeOK, [Next]_vars, NEW d \in Devices, SaysSynced(d)
  PROVE  /\ SyncCapabilities(d) \/ SetCapabilities(d)
         /\ Finish(d, "synced")
<1>1. pc[d] \in {"capabilities", "set", "resend"} /\ pc'[d] = "idle"
  BY DEF SaysSynced
<1> USE DEF TypeOK
<1>2. ASSUME NEW e \in Devices, ReconcileStep(e) PROVE e = d
  <2>1. \A f \in Devices \ {e} : pc'[f] = pc[f]
    BY <1>2 DEF ReconcileStep, ReconcileBegin, ReconcilePostponed, GetTracker, Lookup, SyncName,
                SyncOptions, SyncCapabilities, SetCapabilities, SendCapabilities, Finish, Goto,
                reconcile
  <2> QED BY <1>1, <2>1
<1>3. ReconcileStep(d)
  <2>1. pc' # pc
    BY <1>1
  <2> QED BY <1>2, <2>1 DEF Next, vars, EditResource, FitnessChanges, LateRename, PatchArrives,
                            Deliver, RelayEnds, ReadyChanges, CalmDown, reconcile
<1>4. SyncCapabilities(d) \/ SetCapabilities(d)
  BY <1>1, <1>3 DEF ReconcileStep, ReconcileBegin, ReconcilePostponed, GetTracker, Lookup, SyncName,
                    SyncOptions
<1>5. Finish(d, "synced") \/ Finish(d, "unsynced")
  BY <1>1, <1>4 DEF SyncCapabilities, SetCapabilities, SendCapabilities, Goto
<1>6. ~(Finish(d, "unsynced"))
  BY DEF Finish, SaysSynced
<1> QED BY <1>4, <1>5, <1>6

LEMMA SyncedStep ==
  ASSUME TypeOK, FoundIsTrue, [Next]_vars, NEW d \in Devices, SaysSynced(d),
         found[d].latest, NoneIsLate
  PROVE  AsSpecified(d, doc[d].spec)'
<1> DEFINE n == Wanted(doc[d].spec, d)
<1>1. pc[d] \in {"capabilities", "set", "resend"} /\ devices[d].name = n
  BY DEF SaysSynced, FoundIsTrue, NameIsTrue
<1>2. Listening(n) \subseteq {d}
  BY <1>1 DEF Listening, TypeOK
<1>3. CASE SyncCapabilities(d)
  <2>1. UNCHANGED <<devices, applied, doc>>
    BY <1>3 DEF SyncCapabilities, zigbee2mqtt
  <2>2. doc[d].spec.capabilities => applied[d] = d
    <3>1. pc'[d] = "idle" /\ ~(Finish(d, "unsynced"))
      BY DEF Finish, SaysSynced
    <3>2. ~(Goto(d, "set"))
      BY <3>1 DEF Goto, TypeOK
    <3> QED BY <1>2, <1>3, <3>1, <3>2 DEF SyncCapabilities
  <2> QED BY <1>1, <2>1, <2>2 DEF AsSpecified
<1>4. CASE SetCapabilities(d)
  <2>1. UNCHANGED <<devices, doc>>
    BY <1>4 DEF SetCapabilities, SendCapabilities
  <2>2. ~(Finish(d, "unsynced")) /\ ~(Goto(d, "resend"))
    BY DEF Finish, Goto, SaysSynced, TypeOK
  <2>3. applied' = [e \in Devices |-> IF e \in Listening(n) THEN d ELSE applied[e]]
        /\ Listening(n) # {}
    BY <1>4, <2>2 DEF SetCapabilities, SendCapabilities, HeardAt
  <2>4. applied'[d] = d
    BY <1>2, <2>3
  <2> QED BY <1>1, <2>1, <2>4 DEF AsSpecified
<1> QED BY <1>3, <1>4, SaysSyncedEnds

(* SyncedIsTrue: the reconcile that found its device in the latest list and   *)
(* says it is synced leaves it with the name and the capabilities it wanted,  *)
(* for any number of devices that pass names to each other and whatever goes  *)
(* wrong with requests and lists.                                             *)
THEOREM WhatIsSyncedIsTrue == Spec => SyncedIsTrue
<1>1. Init => Inv /\ FoundIsTrue
  BY InitInv, FoundInit
<1>2. Inv /\ FoundIsTrue /\ [Next]_vars => (Inv /\ FoundIsTrue)'
  BY NextInv, FoundStep DEF Inv
<1>3. Inv /\ FoundIsTrue /\ [Next]_vars =>
        [\A d \in Devices :
           SaysSynced(d) /\ found[d].latest /\ "late" \notin environment
           => AsSpecified(d, doc[d].spec)']_vars
  BY SyncedStep DEF Inv, NoneIsLate
<1> QED BY <1>1, <1>2, <1>3, PTL DEF Spec, SyncedIsTrue
================================================================================
