----------------------------- MODULE ManagerProofs -----------------------------
(***************************************************************************)
(* Theorems about Manager, for any number of topics, subscribers and       *)
(* publishers, any capacity of the request channel and any behaviour of    *)
(* the surroundings.                                                       *)
(***************************************************************************)
EXTENDS Manager, TLAPS

USE DEF manager, client, config, ending

--------------------------------------------------------------------------------
(* The request channel *)

QueueOK == requests \in Seq(Request) /\ Len(requests) <= RequestCapacity

(* What is sent fits the channel (Send waits for room). *)
LEMMA SendKeepsQueue ==
  ASSUME QueueOK, NEW kind, NEW a, [kind |-> kind, by |-> a] \in Request, Send(kind, a)
  PROVE  QueueOK'
  BY BoundsAssumption DEF QueueOK, Send

(* So does the disconnect whose failure is only logged. *)
LEMMA DisconnectKeepsQueue ==
  ASSUME QueueOK, NEW a \in Actors, DisconnectOrWarn(a)
  PROVE  QueueOK'
<1>1. CASE Send("disconnect", a)
  BY <1>1, SendKeepsQueue DEF Request
<1>2. CASE UNCHANGED requests
  BY <1>2 DEF QueueOK
<1> QED
  BY <1>1, <1>2 DEF DisconnectOrWarn

(* The request the event loop takes, and those it leaves. *)
LEMMA HeadAndTail ==
  ASSUME QueueOK, requests # <<>>
  PROVE  /\ Head(requests) \in Request
         /\ Head(requests) = requests[1]
         /\ 1 \in DOMAIN requests
         /\ Tail(requests) \in Seq(Request)
         /\ Len(Tail(requests)) <= RequestCapacity
         /\ \A i \in DOMAIN Tail(requests) :
              i + 1 \in DOMAIN requests /\ Tail(requests)[i] = requests[i + 1]
         /\ \A i \in DOMAIN requests :
              i = 1 \/ (i - 1 \in DOMAIN Tail(requests) /\ Tail(requests)[i - 1] = requests[i])
  BY BoundsAssumption DEF QueueOK

(* The event loop is dropped with an empty channel. *)
LEMMA DroppedQueue ==
  ASSUME LoopDropped
  PROVE  QueueOK'
  BY BoundsAssumption DEF QueueOK, LoopDropped

(* Whatever a task does, the channel stays within its capacity. *)
LEMMA QueueStep ==
  ASSUME TypeOK, [Next]_vars
  PROVE  QueueOK'
<1>q. QueueOK
  BY DEF TypeOK, QueueOK
<1>1. CASE UNCHANGED requests
  BY <1>1, <1>q DEF QueueOK
<1>2. CASE LoopDropped
  BY <1>2, DroppedQueue
<1>3. ASSUME NEW s \in Subscribers, SubscribeSend(s)
      PROVE  QueueOK'
  BY <1>3, <1>q, SendKeepsQueue DEF SubscribeSend, Request
<1>4. ASSUME NEW t \in Topics, RelaySend(t)
      PROVE  QueueOK'
  BY <1>4, <1>q, SendKeepsQueue DEF RelaySend, Request
<1>5. ASSUME NEW p \in Publishers, Send("publish", p)
      PROVE  QueueOK'
  BY <1>5, <1>q, SendKeepsQueue DEF Actors, Request
<1>6. ASSUME NEW a \in {HealthTask, Controller}, DisconnectOrWarn(a)
      PROVE  QueueOK'
  BY <1>6, <1>q, ActorsAssumption, DisconnectKeepsQueue DEF Actors
<1>7. CASE ListenerSends
  BY <1>7, <1>q, HeadAndTail DEF ListenerSends, QueueOK
<1>8. ASSUME NEW s \in Subscribers, SubscriberStep(s)
      PROVE  QueueOK'
  BY <1>1, <1>3, <1>8
  DEF SubscriberStep, SubscribeNotify, SubscribeClient, SubscribeFails, SubscribeAcked
<1>9. ASSUME NEW t \in Topics, RelayStep(t)
      PROVE  QueueOK'
  BY <1>1, <1>4, <1>9
  DEF RelayStep, RelayStart, RelayReceives, RelaySubscriptions, RelayClient,
      RelayNotify, RelaySendFails, RelayAcked
<1>10. ASSUME NEW p \in Publishers, PublisherStep(p)
       PROVE  QueueOK'
  BY <1>1, <1>5, <1>10 DEF PublisherStep, PublishClient, PublishSend
<1>11. CASE HealthStep
  BY <1>1, <1>6, <1>11 DEF HealthStep, ShutdownClient, HealthTaskStopped
<1>12. CASE ListenerStep
  BY <1>1, <1>2, <1>7, <1>12 DEF ListenerStep, ListenerDisconnects, ListenerAck
<1>13. CASE MainStep
  BY <1>1, <1>2, <1>13
  DEF MainStep, ShutdownClient, ListenerShutdown, MainCheck, ReconnectClient,
      ReconnectOptions, ReconnectFails, FailClient, CloseClient, CloseFinish
<1>14. CASE ControllerStep
  BY <1>1, <1>6, <1>14
  DEF ControllerStep, UpdateOptions, UpdateClient, UpdateSend, ShutdownClient,
      CloseSend, CloseDone
<1>15. CASE CallerStep
  BY <1>1, <1>2, <1>15
  DEF CallerStep, SubscribeBegin, ReleaseSubscription, PublishBegin, ListenerReceives,
      UpdateBegin, CloseBegin, ConnectionLost, SessionLost
<1>16. CASE Reconnected
  BY <1>1, <1>16 DEF Reconnected
<1>17. CASE UNCHANGED vars
  BY <1>1, <1>17 DEF vars
<1> QED
  BY <1>8, <1>9, <1>10, <1>11, <1>12, <1>13, <1>14, <1>15, <1>16, <1>17 DEF Next

--------------------------------------------------------------------------------
(* Where the actors stand *)

States ==
  SubscriberStates \cup RelayStates \cup PublisherStates \cup MainStates \cup ControllerStates

MayStand(a, state) ==
  /\ a \in Subscribers => state \in SubscriberStates
  /\ a \in Topics => state \in RelayStates
  /\ a \in Publishers => state \in PublisherStates
  /\ a = Main => state \in MainStates
  /\ a = Controller => state \in ControllerStates

PlacesOK ==
  /\ pc \in [Actors -> States]
  /\ \A a \in Actors : MayStand(a, pc[a])

(* A place an actor may take is one of the places of its kind. *)
LEMMA Standing ==
  ASSUME NEW a \in Actors, NEW state, MayStand(a, state)
  PROVE  state \in States
  BY DEF Actors, MayStand, States

(* One actor moves to one of its own places. *)
LEMMA Move ==
  ASSUME PlacesOK, NEW a \in Actors, NEW state, MayStand(a, state), Goto(a, state)
  PROVE  PlacesOK'
  BY Standing DEF PlacesOK, Goto

(* Whatever a task does, every actor stays in places of its own kind. *)
LEMMA PlacesStep ==
  ASSUME PlacesOK, [Next]_vars
  PROVE  PlacesOK'
<1> USE ActorsAssumption
    DEF MayStand, Actors, SubscriberStates, RelayStates, PublisherStates, MainStates,
        ControllerStates
<1>1. ASSUME NEW s \in Subscribers, SubscribeBegin(s)
      PROVE  PlacesOK'
  <2>1. CASE pc[TopicOf[s]] = "none"
    <3>1. pc' = [[pc EXCEPT ![s] = "subNotify"] EXCEPT ![TopicOf[s]] = "starting"]
      BY <1>1, <2>1 DEF SubscribeBegin
    <3>2. MayStand(s, "subNotify") /\ MayStand(TopicOf[s], "starting")
      OBVIOUS
    <3> QED
      BY <1>1, <3>1, <3>2, Standing DEF PlacesOK
  <2>2. CASE pc[TopicOf[s]] # "none"
    BY <1>1, <2>2, Move DEF SubscribeBegin
  <2> QED
    BY <2>1, <2>2
<1>2. ASSUME NEW s \in Subscribers, SubscribeNotify(s)
      PROVE  PlacesOK'
  BY <1>2, Move DEF SubscribeNotify
<1>3. ASSUME NEW s \in Subscribers, SubscribeClient(s)
      PROVE  PlacesOK'
  BY <1>3, Move DEF SubscribeClient
<1>4. ASSUME NEW s \in Subscribers, SubscribeSend(s)
      PROVE  PlacesOK'
  BY <1>4, Move DEF SubscribeSend
<1>5. ASSUME NEW s \in Subscribers, SubscribeFails(s)
      PROVE  PlacesOK'
  BY <1>5, Move DEF SubscribeFails, StartShutdown
<1>6. ASSUME NEW s \in Subscribers, SubscribeAcked(s)
      PROVE  PlacesOK'
  BY <1>6, Move DEF SubscribeAcked
<1>7. ASSUME NEW s \in Subscribers, ReleaseSubscription(s)
      PROVE  PlacesOK'
  BY <1>7, Move DEF ReleaseSubscription
<1>8. ASSUME NEW t \in Topics, RelayStart(t)
      PROVE  PlacesOK'
  BY <1>8, Move DEF RelayStart
<1>9. ASSUME NEW t \in Topics, RelayReceives(t)
      PROVE  PlacesOK'
  BY <1>9, Move DEF RelayReceives, PlacesOK
<1>10. ASSUME NEW t \in Topics, RelaySubscriptions(t)
       PROVE  PlacesOK'
  BY <1>10, Move DEF RelaySubscriptions
<1>11. ASSUME NEW t \in Topics, RelayClient(t)
       PROVE  PlacesOK'
  BY <1>11, Move DEF RelayClient
<1>12. ASSUME NEW t \in Topics, RelayNotify(t)
       PROVE  PlacesOK'
  BY <1>12, Move DEF RelayNotify
<1>13. ASSUME NEW t \in Topics, RelaySend(t)
       PROVE  PlacesOK'
  BY <1>13, Move DEF RelaySend
<1>14. ASSUME NEW t \in Topics, RelaySendFails(t)
       PROVE  PlacesOK'
  BY <1>14, Move DEF RelaySendFails, StartShutdown
<1>15. ASSUME NEW t \in Topics, RelayAcked(t)
       PROVE  PlacesOK'
  BY <1>15, Move DEF RelayAcked
<1>16. ASSUME NEW p \in Publishers, PublishBegin(p)
       PROVE  PlacesOK'
  BY <1>16, Move DEF PublishBegin
<1>17. ASSUME NEW p \in Publishers, PublishClient(p)
       PROVE  PlacesOK'
  BY <1>17, Move DEF PublishClient
<1>18. ASSUME NEW p \in Publishers, PublishSend(p)
       PROVE  PlacesOK'
  BY <1>18, Move DEF PublishSend
<1>19. ASSUME HealthTaskStopped
       PROVE  PlacesOK'
  BY <1>19, Move DEF HealthTaskStopped
<1>20. ASSUME NEW a \in {HealthTask, Main, Controller}, ShutdownClient(a)
       PROVE  PlacesOK'
  BY <1>20, Move DEF ShutdownClient
<1>21. ASSUME ListenerSends
       PROVE  PlacesOK'
  BY <1>21 DEF ListenerSends, PlacesOK
<1>22. ASSUME ListenerDisconnects
       PROVE  PlacesOK'
  BY <1>22, Move DEF ListenerDisconnects
<1>23. ASSUME NEW r \in wire, ListenerAck(r)
       PROVE  PlacesOK'
  BY <1>23 DEF ListenerAck, PlacesOK
<1>24. ASSUME NEW t \in Topics, ListenerReceives(t)
       PROVE  PlacesOK'
  BY <1>24 DEF ListenerReceives, PlacesOK
<1>25. ASSUME Reconnected
       PROVE  PlacesOK'
  BY <1>25 DEF Reconnected, PlacesOK
<1>26. ASSUME ConnectionLost
       PROVE  PlacesOK'
  BY <1>26 DEF ConnectionLost, PlacesOK
<1>27. ASSUME SessionLost
       PROVE  PlacesOK'
  BY <1>27, Move DEF SessionLost, StartShutdown
<1>28. ASSUME ListenerShutdown
       PROVE  PlacesOK'
  BY <1>28, Move DEF ListenerShutdown
<1>29. ASSUME MainCheck
       PROVE  PlacesOK'
  BY <1>29, Move DEF MainCheck
<1>30. ASSUME ReconnectClient
       PROVE  PlacesOK'
  BY <1>30, Move DEF ReconnectClient
<1>31. ASSUME ReconnectOptions
       PROVE  PlacesOK'
  BY <1>31, Move DEF ReconnectOptions
<1>32. ASSUME ReconnectFails
       PROVE  PlacesOK'
  BY <1>32, Move DEF ReconnectFails
<1>33. ASSUME FailClient
       PROVE  PlacesOK'
  BY <1>33, Move DEF FailClient
<1>34. ASSUME CloseClient
       PROVE  PlacesOK'
  BY <1>34, Move DEF CloseClient
<1>35. ASSUME CloseFinish
       PROVE  PlacesOK'
  BY <1>35, Move DEF CloseFinish
<1>36. ASSUME UpdateBegin
       PROVE  PlacesOK'
  BY <1>36, Move DEF UpdateBegin
<1>37. ASSUME NEW new \in Options, UpdateOptions(new)
       PROVE  PlacesOK'
  BY <1>37, Move DEF UpdateOptions
<1>38. ASSUME UpdateClient
       PROVE  PlacesOK'
  BY <1>38, Move DEF UpdateClient
<1>39. ASSUME UpdateSend
       PROVE  PlacesOK'
  BY <1>39, Move DEF UpdateSend
<1>40. ASSUME CloseBegin
       PROVE  PlacesOK'
  BY <1>40, Move DEF CloseBegin, StartShutdown
<1>41. ASSUME CloseSend
       PROVE  PlacesOK'
  BY <1>41, Move DEF CloseSend
<1>42. ASSUME CloseDone
       PROVE  PlacesOK'
  <2>1. /\ MayStand(Controller, "closed")
        /\ MayStand(Main, "stopped")
        /\ MayStand(HealthTask, "stopped")
    OBVIOUS
  <2> QED
    BY <1>42, <2>1, Standing DEF CloseDone, PlacesOK
<1>43. CASE UNCHANGED vars
  BY <1>43 DEF vars, PlacesOK
<1> QED
  BY <1>1, <1>2, <1>3, <1>4, <1>5, <1>6, <1>7, <1>8, <1>9, <1>10, <1>11, <1>12,
     <1>13, <1>14, <1>15, <1>16, <1>17, <1>18, <1>19, <1>20, <1>21, <1>22,
     <1>23, <1>24, <1>25, <1>26, <1>27, <1>28, <1>29, <1>30, <1>31, <1>32,
     <1>33, <1>34, <1>35, <1>36, <1>37, <1>38, <1>39, <1>40, <1>41, <1>42, <1>43
  DEF Next, SubscriberStep, RelayStep, PublisherStep, HealthStep, ListenerStep,
      MainStep, ControllerStep, CallerStep

--------------------------------------------------------------------------------
(* Type correctness *)

RestOK ==
  /\ owner \in [Locks -> Actors \cup {NoOne}]
  /\ permit \in Actors \cup {NoOne}
  /\ receivers \in [Topics -> SUBSET Subscribers]
  /\ inbox \in [Topics -> {"empty", "message", "lagged"}]
  /\ wire \subseteq Request
  /\ alive \in BOOLEAN
  /\ connected \in BOOLEAN
  /\ brokerSubs \subseteq Topics
  /\ options \in Options
  /\ clientOptions \in Options
  /\ reason \in Actors \cup {NoOne}
  /\ shutdown \in {"no", "event", "timeout", "dropped"}
  /\ mainReceiver \in {"none", "empty", "disconnect"}

(* The type invariant in its three parts. *)
LEMMA TypeParts == TypeOK <=> PlacesOK /\ QueueOK /\ RestOK
<1>1. TypeOK => PlacesOK /\ QueueOK /\ RestOK
  BY DEF TypeOK, PlacesOK, QueueOK, RestOK, MayStand, States
<1>2. PlacesOK /\ QueueOK /\ RestOK => TypeOK
  BY ActorsAssumption DEF TypeOK, PlacesOK, QueueOK, RestOK, MayStand, States, Actors
<1> QED
  BY <1>1, <1>2

LEMMA TypeInit == Init => TypeOK
<1> SUFFICES ASSUME Init
             PROVE  TypeOK
  OBVIOUS
<1>1. PlacesOK
  <2>1. \A a \in Actors : MayStand(a, pc[a])
    BY ActorsAssumption
    DEF Init, MayStand, Actors, SubscriberStates, RelayStates, PublisherStates,
        MainStates, ControllerStates
  <2> QED
    BY <2>1, Standing DEF Init, PlacesOK
<1>2. QueueOK
  BY BoundsAssumption DEF Init, QueueOK
<1>3. RestOK
  BY OptionsAssumption DEF Init, RestOK
<1> QED
  BY <1>1, <1>2, <1>3, TypeParts

LEMMA RestStep ==
  ASSUME TypeOK, [Next]_vars
  PROVE  RestOK'
<1>q. QueueOK /\ RestOK
  BY TypeParts
<1> USE <1>q, ActorsAssumption, OptionsAssumption
    DEF RestOK, Actors, Locks, Acquire, Release, Free, DropGuards
<1>1. ASSUME NEW s \in Subscribers, SubscribeBegin(s)
      PROVE  RestOK'
  BY <1>1 DEF SubscribeBegin
<1>2. ASSUME NEW s \in Subscribers, SubscribeNotify(s)
      PROVE  RestOK'
  BY <1>2 DEF SubscribeNotify
<1>3. ASSUME NEW s \in Subscribers, SubscribeClient(s)
      PROVE  RestOK'
  BY <1>3 DEF SubscribeClient
<1>4. ASSUME NEW s \in Subscribers, SubscribeSend(s)
      PROVE  RestOK'
  BY <1>4 DEF SubscribeSend
<1>5. ASSUME NEW s \in Subscribers, SubscribeFails(s)
      PROVE  RestOK'
  BY <1>5 DEF SubscribeFails, StartShutdown
<1>6. ASSUME NEW s \in Subscribers, SubscribeAcked(s)
      PROVE  RestOK'
  BY <1>6 DEF SubscribeAcked
<1>7. ASSUME NEW s \in Subscribers, ReleaseSubscription(s)
      PROVE  RestOK'
  BY <1>7 DEF ReleaseSubscription
<1>8. ASSUME NEW t \in Topics, RelayStart(t)
      PROVE  RestOK'
  BY <1>8 DEF RelayStart
<1>9. ASSUME NEW t \in Topics, RelayReceives(t)
      PROVE  RestOK'
  BY <1>9 DEF RelayReceives
<1>10. ASSUME NEW t \in Topics, RelaySubscriptions(t)
       PROVE  RestOK'
  BY <1>10 DEF RelaySubscriptions
<1>11. ASSUME NEW t \in Topics, RelayClient(t)
       PROVE  RestOK'
  BY <1>11 DEF RelayClient
<1>12. ASSUME NEW t \in Topics, RelayNotify(t)
       PROVE  RestOK'
  BY <1>12 DEF RelayNotify
<1>13. ASSUME NEW t \in Topics, RelaySend(t)
       PROVE  RestOK'
  BY <1>13 DEF RelaySend
<1>14. ASSUME NEW t \in Topics, RelaySendFails(t)
       PROVE  RestOK'
  BY <1>14 DEF RelaySendFails, StartShutdown
<1>15. ASSUME NEW t \in Topics, RelayAcked(t)
       PROVE  RestOK'
  BY <1>15 DEF RelayAcked
<1>16. ASSUME NEW p \in Publishers, PublishBegin(p)
       PROVE  RestOK'
  BY <1>16 DEF PublishBegin
<1>17. ASSUME NEW p \in Publishers, PublishClient(p)
       PROVE  RestOK'
  BY <1>17 DEF PublishClient
<1>18. ASSUME NEW p \in Publishers, PublishSend(p)
       PROVE  RestOK'
  BY <1>18 DEF PublishSend
<1>19. ASSUME HealthTaskStopped
       PROVE  RestOK'
  BY <1>19 DEF HealthTaskStopped
<1>20. ASSUME NEW a \in {HealthTask, Main, Controller}, ShutdownClient(a)
       PROVE  RestOK'
  BY <1>20 DEF ShutdownClient
<1>21. ASSUME ListenerSends
       PROVE  RestOK'
  BY <1>21, <1>q, HeadAndTail DEF ListenerSends
<1>22. ASSUME ListenerDisconnects
       PROVE  RestOK'
  BY <1>22 DEF ListenerDisconnects, LoopDropped
<1>23. ASSUME NEW r \in wire, ListenerAck(r)
       PROVE  RestOK'
  BY <1>23 DEF ListenerAck, SessionAfter, TopicOfRequest, Request
<1>24. ASSUME NEW t \in Topics, ListenerReceives(t)
       PROVE  RestOK'
  BY <1>24 DEF ListenerReceives
<1>25. ASSUME Reconnected
       PROVE  RestOK'
  BY <1>25 DEF Reconnected
<1>26. ASSUME ConnectionLost
       PROVE  RestOK'
  <2>1. brokerSubs' \subseteq Topics
    BY <1>26 DEF ConnectionLost, SessionAfter, TopicOfRequest, Request
  <2> QED
    BY <1>26, <2>1 DEF ConnectionLost
<1>27. ASSUME SessionLost
       PROVE  RestOK'
  BY <1>27 DEF SessionLost, StartShutdown, LoopDropped
<1>28. ASSUME ListenerShutdown
       PROVE  RestOK'
  BY <1>28 DEF ListenerShutdown, LoopDropped
<1>29. ASSUME MainCheck
       PROVE  RestOK'
  BY <1>29 DEF MainCheck
<1>30. ASSUME ReconnectClient
       PROVE  RestOK'
  BY <1>30 DEF ReconnectClient
<1>31. ASSUME ReconnectOptions
       PROVE  RestOK'
  BY <1>31 DEF ReconnectOptions
<1>32. ASSUME ReconnectFails
       PROVE  RestOK'
  BY <1>32 DEF ReconnectFails
<1>33. ASSUME FailClient
       PROVE  RestOK'
  BY <1>33 DEF FailClient
<1>34. ASSUME CloseClient
       PROVE  RestOK'
  BY <1>34 DEF CloseClient
<1>35. ASSUME CloseFinish
       PROVE  RestOK'
  BY <1>35 DEF CloseFinish
<1>36. ASSUME UpdateBegin
       PROVE  RestOK'
  BY <1>36 DEF UpdateBegin
<1>37. ASSUME NEW new \in Options, UpdateOptions(new)
       PROVE  RestOK'
  BY <1>37 DEF UpdateOptions
<1>38. ASSUME UpdateClient
       PROVE  RestOK'
  BY <1>38 DEF UpdateClient
<1>39. ASSUME UpdateSend
       PROVE  RestOK'
  BY <1>39 DEF UpdateSend
<1>40. ASSUME CloseBegin
       PROVE  RestOK'
  BY <1>40 DEF CloseBegin, StartShutdown
<1>41. ASSUME CloseSend
       PROVE  RestOK'
  BY <1>41 DEF CloseSend
<1>42. ASSUME CloseDone
       PROVE  RestOK'
  BY <1>42 DEF CloseDone
<1>43. CASE UNCHANGED vars
  BY <1>43 DEF vars
<1> QED
  BY <1>1, <1>2, <1>3, <1>4, <1>5, <1>6, <1>7, <1>8, <1>9, <1>10, <1>11, <1>12,
     <1>13, <1>14, <1>15, <1>16, <1>17, <1>18, <1>19, <1>20, <1>21, <1>22,
     <1>23, <1>24, <1>25, <1>26, <1>27, <1>28, <1>29, <1>30, <1>31, <1>32,
     <1>33, <1>34, <1>35, <1>36, <1>37, <1>38, <1>39, <1>40, <1>41, <1>42, <1>43
  DEF Next, SubscriberStep, RelayStep, PublisherStep, HealthStep, ListenerStep,
      MainStep, ControllerStep, CallerStep

LEMMA TypeStep == TypeOK /\ [Next]_vars => TypeOK'
<1> SUFFICES ASSUME TypeOK, [Next]_vars
             PROVE  TypeOK'
  OBVIOUS
<1>1. PlacesOK'
  BY TypeParts, PlacesStep
<1>2. QueueOK'
  BY QueueStep
<1>3. RestOK'
  BY RestStep
<1>4. PlacesOK' /\ QueueOK' /\ RestOK' => TypeOK'
  BY ActorsAssumption DEF TypeOK, PlacesOK, QueueOK, RestOK, MayStand, States, Actors
<1> QED
  BY <1>1, <1>2, <1>3, <1>4

(* The type invariant of Manager holds in every behaviour.                   *)
THEOREM TypeCorrect == Spec => []TypeOK
  BY TypeInit, TypeStep, PTL DEF Spec

--------------------------------------------------------------------------------
(* The work of the subscription lock *)

(* From here to the acknowledgement a task holds the subscription lock. *)
HoldsNotify == {"subClient", "subSend", "subAck", "relaySend", "relayAck"}
AwaitsAck == {"subAck", "relayAck"}

LockInv == \A a \in Actors : pc[a] \in HoldsNotify => owner["notify"] = a

(* The (un)subscribe requests in the channel, and the ways in which at most  *)
(* one unit of work is queued, sent or acknowledged.                         *)
Queued == {i \in DOMAIN requests : Acknowledged(requests[i])}

NoneInFlight == permit = NoOne /\ wire = {} /\ Queued = {}
InFlight(b) ==
  \/ permit = b /\ wire = {} /\ Queued = {}
  \/ permit = NoOne /\ (\E r \in wire : wire = {r} /\ r.by = b) /\ Queued = {}
  \/ permit = NoOne /\ wire = {} /\ \E i \in Queued : Queued = {i} /\ requests[i].by = b

FlightInv ==
  pc[Controller] # "closed" =>
    \/ NoneInFlight
    \/ \E b \in Actors : owner["notify"] = b /\ pc[b] \in AwaitsAck /\ InFlight(b)

LEMMA LockInit == Init => LockInv
  BY ActorsAssumption DEF Init, LockInv, HoldsNotify, Actors

(* The tasks that say they hold the subscription lock do.                    *)
LEMMA LockStep ==
  ASSUME TypeOK, LockInv, [Next]_vars
  PROVE  LockInv'
<1>q. /\ pc \in [Actors -> States]
      /\ owner \in [Locks -> Actors \cup {NoOne}]
  BY TypeParts DEF PlacesOK, RestOK
<1> USE <1>q, ActorsAssumption
    DEF LockInv, HoldsNotify, Actors, Locks, Goto, Acquire, Release, Free, DropGuards
<1>1. ASSUME NEW s \in Subscribers, SubscribeBegin(s)
      PROVE  LockInv'
  BY <1>1 DEF SubscribeBegin
<1>2. ASSUME NEW s \in Subscribers, SubscribeNotify(s)
      PROVE  LockInv'
  BY <1>2 DEF SubscribeNotify
<1>3. ASSUME NEW s \in Subscribers, SubscribeClient(s)
      PROVE  LockInv'
  BY <1>3 DEF SubscribeClient
<1>4. ASSUME NEW s \in Subscribers, SubscribeSend(s)
      PROVE  LockInv'
  BY <1>4 DEF SubscribeSend
<1>5. ASSUME NEW s \in Subscribers, SubscribeFails(s)
      PROVE  LockInv'
  <2>1. \A b \in Actors : b # s => pc'[b] = pc[b]
    BY <1>5 DEF SubscribeFails, StartShutdown
  <2>2. pc'[s] \notin HoldsNotify
    BY <1>5 DEF SubscribeFails, StartShutdown
  <2> QED
    BY <1>5, <2>1, <2>2 DEF SubscribeFails
<1>6. ASSUME NEW s \in Subscribers, SubscribeAcked(s)
      PROVE  LockInv'
  BY <1>6 DEF SubscribeAcked
<1>7. ASSUME NEW s \in Subscribers, ReleaseSubscription(s)
      PROVE  LockInv'
  BY <1>7 DEF ReleaseSubscription
<1>8. ASSUME NEW t \in Topics, RelayStart(t)
      PROVE  LockInv'
  BY <1>8 DEF RelayStart
<1>9. ASSUME NEW t \in Topics, RelayReceives(t)
      PROVE  LockInv'
  BY <1>9 DEF RelayReceives
<1>10. ASSUME NEW t \in Topics, RelaySubscriptions(t)
       PROVE  LockInv'
  BY <1>10 DEF RelaySubscriptions
<1>11. ASSUME NEW t \in Topics, RelayClient(t)
       PROVE  LockInv'
  BY <1>11 DEF RelayClient
<1>12. ASSUME NEW t \in Topics, RelayNotify(t)
       PROVE  LockInv'
  BY <1>12 DEF RelayNotify
<1>13. ASSUME NEW t \in Topics, RelaySend(t)
       PROVE  LockInv'
  BY <1>13 DEF RelaySend
<1>14. ASSUME NEW t \in Topics, RelaySendFails(t)
       PROVE  LockInv'
  BY <1>14 DEF RelaySendFails, StartShutdown
<1>15. ASSUME NEW t \in Topics, RelayAcked(t)
       PROVE  LockInv'
  BY <1>15 DEF RelayAcked
<1>16. ASSUME NEW p \in Publishers, PublishBegin(p)
       PROVE  LockInv'
  BY <1>16 DEF PublishBegin
<1>17. ASSUME NEW p \in Publishers, PublishClient(p)
       PROVE  LockInv'
  BY <1>17 DEF PublishClient
<1>18. ASSUME NEW p \in Publishers, PublishSend(p)
       PROVE  LockInv'
  BY <1>18 DEF PublishSend
<1>19. ASSUME HealthTaskStopped
       PROVE  LockInv'
  BY <1>19 DEF HealthTaskStopped
<1>20. ASSUME NEW a \in {HealthTask, Main, Controller}, ShutdownClient(a)
       PROVE  LockInv'
  BY <1>20 DEF ShutdownClient
<1>21. ASSUME ListenerSends
       PROVE  LockInv'
  BY <1>21 DEF ListenerSends
<1>22. ASSUME ListenerDisconnects
       PROVE  LockInv'
  BY <1>22 DEF ListenerDisconnects
<1>23. ASSUME NEW r \in wire, ListenerAck(r)
       PROVE  LockInv'
  BY <1>23 DEF ListenerAck
<1>24. ASSUME NEW t \in Topics, ListenerReceives(t)
       PROVE  LockInv'
  BY <1>24 DEF ListenerReceives
<1>25. ASSUME Reconnected
       PROVE  LockInv'
  BY <1>25 DEF Reconnected
<1>26. ASSUME ConnectionLost
       PROVE  LockInv'
  BY <1>26 DEF ConnectionLost
<1>27. ASSUME SessionLost
       PROVE  LockInv'
  BY <1>27 DEF SessionLost, StartShutdown
<1>28. ASSUME ListenerShutdown
       PROVE  LockInv'
  BY <1>28 DEF ListenerShutdown
<1>29. ASSUME MainCheck
       PROVE  LockInv'
  BY <1>29 DEF MainCheck
<1>30. ASSUME ReconnectClient
       PROVE  LockInv'
  BY <1>30 DEF ReconnectClient
<1>31. ASSUME ReconnectOptions
       PROVE  LockInv'
  BY <1>31 DEF ReconnectOptions
<1>32. ASSUME ReconnectFails
       PROVE  LockInv'
  BY <1>32 DEF ReconnectFails
<1>33. ASSUME FailClient
       PROVE  LockInv'
  BY <1>33 DEF FailClient
<1>34. ASSUME CloseClient
       PROVE  LockInv'
  BY <1>34 DEF CloseClient
<1>35. ASSUME CloseFinish
       PROVE  LockInv'
  BY <1>35 DEF CloseFinish
<1>36. ASSUME UpdateBegin
       PROVE  LockInv'
  BY <1>36 DEF UpdateBegin
<1>37. ASSUME NEW new \in Options, UpdateOptions(new)
       PROVE  LockInv'
  BY <1>37 DEF UpdateOptions
<1>38. ASSUME UpdateClient
       PROVE  LockInv'
  BY <1>38 DEF UpdateClient
<1>39. ASSUME UpdateSend
       PROVE  LockInv'
  BY <1>39 DEF UpdateSend
<1>40. ASSUME CloseBegin
       PROVE  LockInv'
  BY <1>40 DEF CloseBegin, StartShutdown
<1>41. ASSUME CloseSend
       PROVE  LockInv'
  BY <1>41 DEF CloseSend
<1>42. ASSUME CloseDone
       PROVE  LockInv'
  BY <1>42 DEF CloseDone
<1>43. CASE UNCHANGED vars
  BY <1>43 DEF vars
<1> QED
  BY <1>1, <1>2, <1>3, <1>4, <1>5, <1>6, <1>7, <1>8, <1>9, <1>10, <1>11, <1>12,
     <1>13, <1>14, <1>15, <1>16, <1>17, <1>18, <1>19, <1>20, <1>21, <1>22,
     <1>23, <1>24, <1>25, <1>26, <1>27, <1>28, <1>29, <1>30, <1>31, <1>32,
     <1>33, <1>34, <1>35, <1>36, <1>37, <1>38, <1>39, <1>40, <1>41, <1>42, <1>43
  DEF Next, SubscriberStep, RelayStep, PublisherStep, HealthStep, ListenerStep,
      MainStep, ControllerStep, CallerStep

(* Where a task waits for its acknowledgement it still does, as the holder,  *)
(* and a closed manager stays closed.                                        *)
StillWaiting ==
  /\ \A b \in Actors : pc[b] \in AwaitsAck /\ owner["notify"] = b =>
                         pc'[b] \in AwaitsAck /\ owner'["notify"] = b
  /\ pc[Controller] = "closed" => pc'[Controller] = "closed"

SameQueued ==
  /\ Queued' = Queued
  /\ \A i \in Queued : requests'[i] = requests[i]

(* A request that is not acknowledged does not count as work.                *)
LEMMA SendOther ==
  ASSUME QueueOK, NEW a, NEW kind, ~Acknowledged([kind |-> kind, by |-> a]), Send(kind, a)
  PROVE  SameQueued
<1> DEFINE r == [kind |-> kind, by |-> a]
<1>1. /\ requests' = Append(requests, r)
      /\ requests \in Seq(Request)
  BY DEF Send, QueueOK
<1>2. /\ DOMAIN requests' = DOMAIN requests \cup {Len(requests) + 1}
      /\ \A i \in DOMAIN requests : requests'[i] = requests[i]
      /\ requests'[Len(requests) + 1] = r
  BY <1>1
<1> HIDE DEF r
<1>3. Queued' = Queued
  BY <1>2 DEF Queued, Acknowledged, r
<1> QED
  BY <1>2, <1>3 DEF SameQueued, Queued

LEMMA DisconnectOther ==
  ASSUME QueueOK, NEW a, DisconnectOrWarn(a)
  PROVE  SameQueued
<1>1. CASE Send("disconnect", a)
  BY <1>1, SendOther DEF Acknowledged
<1>2. CASE UNCHANGED requests
  BY <1>2 DEF SameQueued, Queued
<1> QED
  BY <1>1, <1>2 DEF DisconnectOrWarn

(* A step that touches neither the work nor the task that waits for it.      *)
LEMMA Undisturbed ==
  ASSUME FlightInv, UNCHANGED <<permit, wire>>, SameQueued, StillWaiting
  PROVE  FlightInv'
<1>1. CASE pc[Controller] = "closed"
  BY <1>1 DEF FlightInv, StillWaiting
<1>2. CASE NoneInFlight
  BY <1>2 DEF FlightInv, NoneInFlight, SameQueued
<1>3. ASSUME NEW b \in Actors, owner["notify"] = b, pc[b] \in AwaitsAck, InFlight(b)
      PROVE  FlightInv'
  <2>1. InFlight(b)'
    BY <1>3 DEF InFlight, SameQueued
  <2> QED
    BY <1>3, <2>1 DEF FlightInv, StillWaiting
<1> QED
  BY <1>1, <1>2, <1>3 DEF FlightInv

(* A step that loses what was sent, with what was queued or without it.      *)
LEMMA Lost ==
  ASSUME FlightInv, UNCHANGED permit, wire' = {}, StillWaiting,
         requests' = <<>> \/ UNCHANGED requests
  PROVE  FlightInv'
<1>q. Queued' = {} \/ (Queued' = Queued /\ requests' = requests)
  BY DEF Queued
<1>1. CASE pc[Controller] = "closed"
  BY <1>1 DEF FlightInv, StillWaiting
<1>2. CASE NoneInFlight
  BY <1>2, <1>q DEF FlightInv, NoneInFlight
<1>3. ASSUME NEW b \in Actors, owner["notify"] = b, pc[b] \in AwaitsAck, InFlight(b)
      PROVE  FlightInv'
  <2>1. InFlight(b)' \/ NoneInFlight'
    BY <1>3, <1>q DEF InFlight, NoneInFlight
  <2> QED
    BY <1>3, <2>1 DEF FlightInv, StillWaiting
<1> QED
  BY <1>1, <1>2, <1>3 DEF FlightInv

(* The holder queues its work: nothing else is in flight.                    *)
LEMMA Starts ==
  ASSUME TypeOK, LockInv, FlightInv,
         NEW a \in Actors, a # Controller, NEW kind, Send(kind, a),
         pc[a] \in {"subSend", "relaySend"}, pc' = [pc EXCEPT ![a] = pc'[a]],
         pc'[a] \in AwaitsAck,
         owner'["notify"] = owner["notify"], UNCHANGED <<permit, wire>>
  PROVE  FlightInv'
<1>q. QueueOK /\ pc \in [Actors -> States]
  BY TypeParts DEF PlacesOK
<1>h. owner["notify"] = a
  BY DEF LockInv, HoldsNotify
<1>c. pc'[Controller] = pc[Controller]
  BY <1>q DEF Actors
<1>1. CASE pc[Controller] = "closed"
  BY <1>1, <1>c DEF FlightInv
<1>2. CASE pc[Controller] # "closed"
  <2>1. NoneInFlight
    BY <1>2, <1>h DEF FlightInv, AwaitsAck
  <2> DEFINE r == [kind |-> kind, by |-> a]
             last == Len(requests) + 1
  <2>2. /\ DOMAIN requests' = DOMAIN requests \cup {last}
        /\ \A i \in DOMAIN requests : requests'[i] = requests[i]
        /\ requests'[last] = r
    BY <1>q DEF Send, QueueOK
  <2> HIDE DEF last
  <2>3. Queued' = {} \/ (Queued' = {last} /\ requests'[last].by = a)
    BY <2>1, <2>2 DEF Queued, NoneInFlight
  <2>4. NoneInFlight' \/ InFlight(a)'
    BY <2>1, <2>3 DEF NoneInFlight, InFlight
  <2> QED
    BY <1>h, <2>4 DEF FlightInv
<1> QED
  BY <1>1, <1>2

(* The holder takes the permit, and nothing is in flight any more.           *)
LEMMA Ends ==
  ASSUME FlightInv, permit # NoOne, permit' = NoOne, UNCHANGED <<wire, requests>>,
         pc[Controller] = "closed" => pc'[Controller] = "closed"
  PROVE  FlightInv'
<1>1. CASE pc[Controller] = "closed"
  BY <1>1 DEF FlightInv
<1>2. CASE pc[Controller] # "closed"
  <2>1. wire = {} /\ Queued = {}
    BY <1>2 DEF FlightInv, NoneInFlight, InFlight
  <2> QED
    BY <2>1 DEF FlightInv, NoneInFlight, Queued
<1> QED
  BY <1>1, <1>2

(* The event loop sends the next request.                                    *)
LEMMA Sends ==
  ASSUME TypeOK, FlightInv, ListenerSends
  PROVE  FlightInv'
<1>q. QueueOK /\ requests # <<>>
  BY TypeParts DEF ListenerSends
<1>s. StillWaiting
  BY DEF ListenerSends, StillWaiting
<1>1. CASE pc[Controller] = "closed"
  BY <1>1, <1>s DEF FlightInv, StillWaiting
<1>2. CASE NoneInFlight
  <2>1. ~Acknowledged(Head(requests)) /\ Queued' = {}
    BY <1>2, <1>q, HeadAndTail DEF ListenerSends, NoneInFlight, Queued
  <2> QED
    BY <1>2, <2>1 DEF ListenerSends, FlightInv, NoneInFlight
<1>3. ASSUME NEW b \in Actors, owner["notify"] = b, pc[b] \in AwaitsAck, InFlight(b)
      PROVE  FlightInv'
  <2>1. CASE Queued = {}
    <3>1. ~Acknowledged(Head(requests)) /\ Queued' = {}
      BY <2>1, <1>q, HeadAndTail DEF ListenerSends, Queued
    <3>2. InFlight(b)'
      BY <1>3, <2>1, <3>1 DEF ListenerSends, InFlight
    <3> QED
      BY <1>3, <1>s, <3>2 DEF FlightInv, StillWaiting
  <2>2. ASSUME NEW i \in Queued, Queued = {i}, requests[i].by = b
        PROVE  FlightInv'
    <3>q. permit = NoOne /\ wire = {}
      BY <1>3, <2>2 DEF InFlight
    <3>1. CASE i = 1
      <4>1. Acknowledged(Head(requests)) /\ Head(requests).by = b
        BY <2>2, <3>1, <1>q, HeadAndTail DEF Queued
      <4>2. Queued' = {}
        <5> SUFFICES ASSUME NEW j \in DOMAIN requests', Acknowledged(requests'[j])
                     PROVE  FALSE
          BY DEF Queued
        <5>1. j + 1 \in Queued /\ j \in Nat \ {0}
          BY <1>q, HeadAndTail DEF ListenerSends, Queued, QueueOK
        <5> QED
          BY <2>2, <3>1, <5>1
      <4>3. InFlight(b)'
        BY <3>q, <4>1, <4>2 DEF ListenerSends, InFlight
      <4> QED
        BY <1>3, <1>s, <4>3 DEF FlightInv, StillWaiting
    <3>2. CASE i # 1
      <4>1. ~Acknowledged(Head(requests))
        BY <2>2, <3>2, <1>q, HeadAndTail DEF Queued
      <4>2. i \in Nat /\ i - 1 \in Queued' /\ requests'[i - 1] = requests[i]
        BY <3>2, <1>q, HeadAndTail DEF ListenerSends, Queued, QueueOK
      <4>3. Queued' = {i - 1}
        <5> SUFFICES ASSUME NEW j \in Queued'
                     PROVE  j = i - 1
          BY <4>2
        <5>1. j + 1 \in Queued /\ j \in Nat
          BY <1>q, HeadAndTail DEF ListenerSends, Queued, QueueOK
        <5> QED
          BY <2>2, <4>2, <5>1
      <4>4. InFlight(b)'
        BY <2>2, <3>q, <4>1, <4>2, <4>3 DEF ListenerSends, InFlight
      <4> QED
        BY <1>3, <1>s, <4>4 DEF FlightInv, StillWaiting
    <3> QED
      BY <3>1, <3>2
  <2> QED
    BY <1>3, <2>1, <2>2 DEF InFlight
<1> QED
  BY <1>1, <1>2, <1>3 DEF FlightInv

(* The broker acknowledges the one request that was sent.                    *)
LEMMA Acks ==
  ASSUME TypeOK, FlightInv, NEW r \in wire, ListenerAck(r)
  PROVE  FlightInv'
<1>s. StillWaiting /\ Queued' = Queued
  BY DEF ListenerAck, StillWaiting, Queued
<1>1. CASE pc[Controller] = "closed"
  BY <1>1, <1>s DEF FlightInv, StillWaiting
<1>2. CASE pc[Controller] # "closed"
  <2>1. PICK b \in Actors :
          owner["notify"] = b /\ pc[b] \in AwaitsAck /\ wire = {r} /\ r.by = b /\ Queued = {}
    BY <1>2 DEF FlightInv, NoneInFlight, InFlight
  <2>2. InFlight(b)'
    BY <2>1, <1>s DEF ListenerAck, InFlight
  <2> QED
    BY <2>1, <2>2, <1>s DEF FlightInv, StillWaiting
<1> QED
  BY <1>1, <1>2

LEMMA FlightStep ==
  ASSUME TypeOK, LockInv, FlightInv, [Next]_vars
  PROVE  FlightInv'
<1>q. /\ QueueOK
      /\ pc \in [Actors -> States]
      /\ owner \in [Locks -> Actors \cup {NoOne}]
  BY TypeParts DEF PlacesOK, RestOK
<1> USE <1>q, ActorsAssumption
    DEF AwaitsAck, Actors, Locks, Goto, Acquire, Release, Free, DropGuards
<1>1. ASSUME NEW s \in Subscribers, SubscribeBegin(s)
      PROVE  FlightInv'
  <2>1. SameQueued
    BY <1>1 DEF SubscribeBegin, SameQueued, Queued
  <2>2. StillWaiting
    BY <1>1 DEF SubscribeBegin, StillWaiting
  <2> QED
    BY <1>1, <2>1, <2>2, Undisturbed DEF SubscribeBegin
<1>2. ASSUME NEW s \in Subscribers, SubscribeNotify(s)
      PROVE  FlightInv'
  <2>1. SameQueued
    BY <1>2 DEF SubscribeNotify, SameQueued, Queued
  <2>2. StillWaiting
    BY <1>2 DEF SubscribeNotify, StillWaiting
  <2> QED
    BY <1>2, <2>1, <2>2, Undisturbed DEF SubscribeNotify
<1>3. ASSUME NEW s \in Subscribers, SubscribeClient(s)
      PROVE  FlightInv'
  <2>1. SameQueued
    BY <1>3 DEF SubscribeClient, SameQueued, Queued
  <2>2. StillWaiting
    BY <1>3 DEF SubscribeClient, StillWaiting
  <2> QED
    BY <1>3, <2>1, <2>2, Undisturbed DEF SubscribeClient
<1>4. ASSUME NEW s \in Subscribers, SubscribeSend(s)
      PROVE  FlightInv'
  <2>1. pc'[s] \in AwaitsAck /\ s # Controller
    BY <1>4, ActorsAssumption DEF SubscribeSend, Actors
  <2> QED
    BY <1>4, <2>1, Starts DEF SubscribeSend, Actors
<1>5. ASSUME NEW s \in Subscribers, SubscribeFails(s)
      PROVE  FlightInv'
  <2>1. SameQueued
    BY <1>5 DEF SubscribeFails, SameQueued, Queued
  <2>2. StillWaiting
    BY <1>5 DEF SubscribeFails, StartShutdown, StillWaiting
  <2> QED
    BY <1>5, <2>1, <2>2, Undisturbed DEF SubscribeFails
<1>6. ASSUME NEW s \in Subscribers, SubscribeAcked(s)
      PROVE  FlightInv'
  BY <1>6, Ends, ActorsAssumption DEF SubscribeAcked, Actors
<1>7. ASSUME NEW s \in Subscribers, ReleaseSubscription(s)
      PROVE  FlightInv'
  <2>1. SameQueued
    BY <1>7 DEF ReleaseSubscription, SameQueued, Queued
  <2>2. StillWaiting
    BY <1>7 DEF ReleaseSubscription, StillWaiting
  <2> QED
    BY <1>7, <2>1, <2>2, Undisturbed DEF ReleaseSubscription
<1>8. ASSUME NEW t \in Topics, RelayStart(t)
      PROVE  FlightInv'
  <2>1. SameQueued
    BY <1>8 DEF RelayStart, SameQueued, Queued
  <2>2. StillWaiting
    BY <1>8 DEF RelayStart, StillWaiting
  <2> QED
    BY <1>8, <2>1, <2>2, Undisturbed DEF RelayStart
<1>9. ASSUME NEW t \in Topics, RelayReceives(t)
      PROVE  FlightInv'
  <2>1. SameQueued
    BY <1>9 DEF RelayReceives, SameQueued, Queued
  <2>2. StillWaiting
    BY <1>9 DEF RelayReceives, StillWaiting
  <2> QED
    BY <1>9, <2>1, <2>2, Undisturbed DEF RelayReceives
<1>10. ASSUME NEW t \in Topics, RelaySubscriptions(t)
       PROVE  FlightInv'
  <2>1. SameQueued
    BY <1>10 DEF RelaySubscriptions, SameQueued, Queued
  <2>2. StillWaiting
    BY <1>10 DEF RelaySubscriptions, StillWaiting
  <2> QED
    BY <1>10, <2>1, <2>2, Undisturbed DEF RelaySubscriptions
<1>11. ASSUME NEW t \in Topics, RelayClient(t)
       PROVE  FlightInv'
  <2>1. SameQueued
    BY <1>11 DEF RelayClient, SameQueued, Queued
  <2>2. StillWaiting
    BY <1>11 DEF RelayClient, StillWaiting
  <2> QED
    BY <1>11, <2>1, <2>2, Undisturbed DEF RelayClient
<1>12. ASSUME NEW t \in Topics, RelayNotify(t)
       PROVE  FlightInv'
  <2>1. SameQueued
    BY <1>12 DEF RelayNotify, SameQueued, Queued
  <2>2. StillWaiting
    BY <1>12 DEF RelayNotify, StillWaiting
  <2> QED
    BY <1>12, <2>1, <2>2, Undisturbed DEF RelayNotify
<1>13. ASSUME NEW t \in Topics, RelaySend(t)
       PROVE  FlightInv'
  <2>1. pc'[t] \in AwaitsAck /\ t # Controller
    BY <1>13, ActorsAssumption DEF RelaySend, Actors
  <2> QED
    BY <1>13, <2>1, Starts DEF RelaySend, Actors
<1>14. ASSUME NEW t \in Topics, RelaySendFails(t)
       PROVE  FlightInv'
  <2>1. SameQueued
    BY <1>14 DEF RelaySendFails, SameQueued, Queued
  <2>2. StillWaiting
    BY <1>14 DEF RelaySendFails, StartShutdown, StillWaiting
  <2> QED
    BY <1>14, <2>1, <2>2, Undisturbed DEF RelaySendFails
<1>15. ASSUME NEW t \in Topics, RelayAcked(t)
       PROVE  FlightInv'
  BY <1>15, Ends, ActorsAssumption DEF RelayAcked, Actors
<1>16. ASSUME NEW p \in Publishers, PublishBegin(p)
       PROVE  FlightInv'
  <2>1. SameQueued
    BY <1>16 DEF PublishBegin, SameQueued, Queued
  <2>2. StillWaiting
    BY <1>16 DEF PublishBegin, StillWaiting
  <2> QED
    BY <1>16, <2>1, <2>2, Undisturbed DEF PublishBegin
<1>17. ASSUME NEW p \in Publishers, PublishClient(p)
       PROVE  FlightInv'
  <2>1. SameQueued
    BY <1>17 DEF PublishClient, SameQueued, Queued
  <2>2. StillWaiting
    BY <1>17 DEF PublishClient, StillWaiting
  <2> QED
    BY <1>17, <2>1, <2>2, Undisturbed DEF PublishClient
<1>18. ASSUME NEW p \in Publishers, PublishSend(p)
       PROVE  FlightInv'
  <2>1. SameQueued
    BY <1>18, <1>q, SendOther DEF PublishSend, Acknowledged, SameQueued, Queued
  <2>2. StillWaiting
    BY <1>18 DEF PublishSend, StillWaiting
  <2> QED
    BY <1>18, <2>1, <2>2, Undisturbed DEF PublishSend
<1>19. ASSUME HealthTaskStopped
       PROVE  FlightInv'
  <2>1. SameQueued
    BY <1>19, <1>q, DisconnectOther DEF HealthTaskStopped
  <2>2. StillWaiting
    BY <1>19 DEF HealthTaskStopped, StillWaiting
  <2> QED
    BY <1>19, <2>1, <2>2, Undisturbed DEF HealthTaskStopped
<1>20. ASSUME NEW a \in {HealthTask, Main, Controller}, ShutdownClient(a)
       PROVE  FlightInv'
  <2>1. SameQueued
    BY <1>20 DEF ShutdownClient, SameQueued, Queued
  <2>2. StillWaiting
    BY <1>20 DEF ShutdownClient, StillWaiting
  <2> QED
    BY <1>20, <2>1, <2>2, Undisturbed DEF ShutdownClient
<1>21. ASSUME ListenerSends
       PROVE  FlightInv'
  BY <1>21, Sends
<1>22. ASSUME ListenerDisconnects
       PROVE  FlightInv'
  <2>1. StillWaiting
    BY <1>22 DEF ListenerDisconnects, StillWaiting, Listening
  <2> QED
    BY <1>22, <2>1, Lost DEF ListenerDisconnects, LoopDropped
<1>23. ASSUME NEW r \in wire, ListenerAck(r)
       PROVE  FlightInv'
  BY <1>23, Acks
<1>24. ASSUME NEW t \in Topics, ListenerReceives(t)
       PROVE  FlightInv'
  <2>1. SameQueued
    BY <1>24 DEF ListenerReceives, SameQueued, Queued
  <2>2. StillWaiting
    BY <1>24 DEF ListenerReceives, Listening, StillWaiting
  <2> QED
    BY <1>24, <2>1, <2>2, Undisturbed DEF ListenerReceives
<1>25. ASSUME Reconnected
       PROVE  FlightInv'
  <2>1. SameQueued
    BY <1>25 DEF Reconnected, SameQueued, Queued
  <2>2. StillWaiting
    BY <1>25 DEF Reconnected, Listening, StillWaiting
  <2> QED
    BY <1>25, <2>1, <2>2, Undisturbed DEF Reconnected
<1>26. ASSUME ConnectionLost
       PROVE  FlightInv'
  <2>1. StillWaiting
    BY <1>26 DEF ConnectionLost, StillWaiting, Listening
  <2> QED
    BY <1>26, <2>1, Lost DEF ConnectionLost, LoopDropped
<1>27. ASSUME SessionLost
       PROVE  FlightInv'
  <2>1. StillWaiting
    BY <1>27 DEF SessionLost, StartShutdown, Listening, StillWaiting
  <2>2. CASE reason = NoOne
    <3>1. SameQueued
      BY <1>27, <2>2 DEF SessionLost, SameQueued, Queued
    <3> QED
      BY <1>27, <2>1, <2>2, <3>1, Undisturbed DEF SessionLost
  <2>3. CASE reason # NoOne
    BY <1>27, <2>1, <2>3, Lost DEF SessionLost, LoopDropped
  <2> QED
    BY <2>2, <2>3
<1>28. ASSUME ListenerShutdown
       PROVE  FlightInv'
  <2>1. StillWaiting
    BY <1>28 DEF ListenerShutdown, StillWaiting
  <2> QED
    BY <1>28, <2>1, Lost DEF ListenerShutdown, LoopDropped
<1>29. ASSUME MainCheck
       PROVE  FlightInv'
  <2>1. SameQueued
    BY <1>29 DEF MainCheck, SameQueued, Queued
  <2>2. StillWaiting
    BY <1>29 DEF MainCheck, StillWaiting
  <2> QED
    BY <1>29, <2>1, <2>2, Undisturbed DEF MainCheck
<1>30. ASSUME ReconnectClient
       PROVE  FlightInv'
  <2>1. SameQueued
    BY <1>30 DEF ReconnectClient, SameQueued, Queued
  <2>2. StillWaiting
    BY <1>30 DEF ReconnectClient, StillWaiting
  <2> QED
    BY <1>30, <2>1, <2>2, Undisturbed DEF ReconnectClient
<1>31. ASSUME ReconnectOptions
       PROVE  FlightInv'
  <2>1. SameQueued
    BY <1>31 DEF ReconnectOptions, SameQueued, Queued
  <2>2. StillWaiting
    BY <1>31 DEF ReconnectOptions, StillWaiting
  <2> QED
    BY <1>31, <2>1, <2>2, Undisturbed DEF ReconnectOptions
<1>32. ASSUME ReconnectFails
       PROVE  FlightInv'
  <2>1. SameQueued
    BY <1>32 DEF ReconnectFails, SameQueued, Queued
  <2>2. StillWaiting
    BY <1>32 DEF ReconnectFails, StillWaiting
  <2> QED
    BY <1>32, <2>1, <2>2, Undisturbed DEF ReconnectFails
<1>33. ASSUME FailClient
       PROVE  FlightInv'
  <2>1. SameQueued
    BY <1>33 DEF FailClient, SameQueued, Queued
  <2>2. StillWaiting
    BY <1>33 DEF FailClient, StillWaiting
  <2> QED
    BY <1>33, <2>1, <2>2, Undisturbed DEF FailClient
<1>34. ASSUME CloseClient
       PROVE  FlightInv'
  <2>1. SameQueued
    BY <1>34 DEF CloseClient, SameQueued, Queued
  <2>2. StillWaiting
    BY <1>34 DEF CloseClient, StillWaiting
  <2> QED
    BY <1>34, <2>1, <2>2, Undisturbed DEF CloseClient
<1>35. ASSUME CloseFinish
       PROVE  FlightInv'
  <2>1. SameQueued
    BY <1>35 DEF CloseFinish, SameQueued, Queued
  <2>2. StillWaiting
    BY <1>35 DEF CloseFinish, StillWaiting
  <2> QED
    BY <1>35, <2>1, <2>2, Undisturbed DEF CloseFinish
<1>36. ASSUME UpdateBegin
       PROVE  FlightInv'
  <2>1. SameQueued
    BY <1>36 DEF UpdateBegin, SameQueued, Queued
  <2>2. StillWaiting
    BY <1>36 DEF UpdateBegin, StillWaiting
  <2> QED
    BY <1>36, <2>1, <2>2, Undisturbed DEF UpdateBegin
<1>37. ASSUME NEW new \in Options, UpdateOptions(new)
       PROVE  FlightInv'
  <2>1. SameQueued
    BY <1>37 DEF UpdateOptions, SameQueued, Queued
  <2>2. StillWaiting
    BY <1>37 DEF UpdateOptions, StillWaiting
  <2> QED
    BY <1>37, <2>1, <2>2, Undisturbed DEF UpdateOptions
<1>38. ASSUME UpdateClient
       PROVE  FlightInv'
  <2>1. SameQueued
    BY <1>38 DEF UpdateClient, SameQueued, Queued
  <2>2. StillWaiting
    BY <1>38 DEF UpdateClient, StillWaiting
  <2> QED
    BY <1>38, <2>1, <2>2, Undisturbed DEF UpdateClient
<1>39. ASSUME UpdateSend
       PROVE  FlightInv'
  <2>1. SameQueued
    BY <1>39, <1>q, DisconnectOther DEF UpdateSend
  <2>2. StillWaiting
    BY <1>39 DEF UpdateSend, StillWaiting
  <2> QED
    BY <1>39, <2>1, <2>2, Undisturbed DEF UpdateSend
<1>40. ASSUME CloseBegin
       PROVE  FlightInv'
  <2>1. SameQueued
    BY <1>40 DEF CloseBegin, SameQueued, Queued
  <2>2. StillWaiting
    BY <1>40 DEF CloseBegin, StartShutdown, StillWaiting
  <2> QED
    BY <1>40, <2>1, <2>2, Undisturbed DEF CloseBegin
<1>41. ASSUME CloseSend
       PROVE  FlightInv'
  <2>1. SameQueued
    BY <1>41, <1>q, DisconnectOther DEF CloseSend
  <2>2. StillWaiting
    BY <1>41 DEF CloseSend, StillWaiting
  <2> QED
    BY <1>41, <2>1, <2>2, Undisturbed DEF CloseSend
<1>42. ASSUME CloseDone
       PROVE  FlightInv'
  BY <1>42, ActorsAssumption DEF CloseDone, FlightInv, Actors
<1>43. CASE UNCHANGED vars
  <2>1. SameQueued /\ StillWaiting
    BY <1>43 DEF vars, SameQueued, Queued, StillWaiting
  <2> QED
    BY <1>43, <2>1, Undisturbed DEF vars
<1> QED
  BY <1>1, <1>2, <1>3, <1>4, <1>5, <1>6, <1>7, <1>8, <1>9, <1>10, <1>11, <1>12,
     <1>13, <1>14, <1>15, <1>16, <1>17, <1>18, <1>19, <1>20, <1>21, <1>22,
     <1>23, <1>24, <1>25, <1>26, <1>27, <1>28, <1>29, <1>30, <1>31, <1>32,
     <1>33, <1>34, <1>35, <1>36, <1>37, <1>38, <1>39, <1>40, <1>41, <1>42, <1>43
  DEF Next, SubscriberStep, RelayStep, PublisherStep, HealthStep, ListenerStep,
      MainStep, ControllerStep, CallerStep

LEMMA FlightInit == Init => FlightInv
  BY DEF Init, FlightInv, NoneInFlight, Queued

(* At most one unit of work, that of the lock's holder: so it is the holder  *)
(* whom every acknowledgement wakes.                                         *)
LEMMA FlightIsForHolder == FlightInv => AckForHolder
<1> SUFFICES ASSUME FlightInv, pc[Controller] # "closed"
             PROVE  /\ permit # NoOne => owner["notify"] = permit
                    /\ \A r \in wire : owner["notify"] = r.by
                    /\ \A i \in DOMAIN requests :
                         Acknowledged(requests[i]) => owner["notify"] = requests[i].by
  BY DEF AckForHolder
<1>1. CASE NoneInFlight
  BY <1>1 DEF NoneInFlight, Queued
<1>2. ASSUME NEW b \in Actors, owner["notify"] = b, InFlight(b)
      PROVE  /\ permit # NoOne => owner["notify"] = permit
             /\ \A r \in wire : owner["notify"] = r.by
             /\ \A i \in Queued : owner["notify"] = requests[i].by
  BY <1>2 DEF InFlight
<1> QED
  BY <1>1, <1>2 DEF FlightInv, Queued

(* LockableNotify cannot tell two units of work apart, and need not: until   *)
(* the manager is closed every acknowledgement is for the lock's holder.     *)
THEOREM AckReachesHolder == Spec => []AckForHolder
<1>1. Init => TypeOK /\ LockInv /\ FlightInv
  BY TypeInit, LockInit, FlightInit
<1>2. TypeOK /\ LockInv /\ FlightInv /\ [Next]_vars => (TypeOK /\ LockInv /\ FlightInv)'
  BY TypeStep, LockStep, FlightStep
<1> QED
  BY <1>1, <1>2, FlightIsForHolder, PTL DEF Spec

--------------------------------------------------------------------------------
(* The end of the manager *)

(* There is an event loop exactly while the main task listens, or shuts down *)
(* from within the listener; once the shutdown is done it has left its loop. *)
EndInv ==
  /\ alive <=> pc[Main] \in {"listening", "shutClient", "shutSend"}
  /\ shutdown # "no" => pc[Main] \in {"stopped", "failClient"}

LEMMA EndInit == Init => EndInv
  BY ActorsAssumption DEF Init, EndInv, Actors

LEMMA EndStep ==
  ASSUME TypeOK, EndInv, [Next]_vars
  PROVE  EndInv'
<1>q. pc \in [Actors -> States] /\ pc[Main] \in MainStates
  BY TypeParts DEF PlacesOK, MayStand, Actors
<1> USE <1>q, ActorsAssumption DEF EndInv, Actors, Goto, MainStates
<1>1. ASSUME NEW s \in Subscribers, SubscribeBegin(s)
      PROVE  EndInv'
  BY <1>1 DEF SubscribeBegin
<1>2. ASSUME NEW s \in Subscribers, SubscribeNotify(s)
      PROVE  EndInv'
  BY <1>2 DEF SubscribeNotify
<1>3. ASSUME NEW s \in Subscribers, SubscribeClient(s)
      PROVE  EndInv'
  BY <1>3 DEF SubscribeClient
<1>4. ASSUME NEW s \in Subscribers, SubscribeSend(s)
      PROVE  EndInv'
  BY <1>4 DEF SubscribeSend
<1>5. ASSUME NEW s \in Subscribers, SubscribeFails(s)
      PROVE  EndInv'
  BY <1>5 DEF SubscribeFails, StartShutdown
<1>6. ASSUME NEW s \in Subscribers, SubscribeAcked(s)
      PROVE  EndInv'
  BY <1>6 DEF SubscribeAcked
<1>7. ASSUME NEW s \in Subscribers, ReleaseSubscription(s)
      PROVE  EndInv'
  BY <1>7 DEF ReleaseSubscription
<1>8. ASSUME NEW t \in Topics, RelayStart(t)
      PROVE  EndInv'
  BY <1>8 DEF RelayStart
<1>9. ASSUME NEW t \in Topics, RelayReceives(t)
      PROVE  EndInv'
  BY <1>9 DEF RelayReceives
<1>10. ASSUME NEW t \in Topics, RelaySubscriptions(t)
       PROVE  EndInv'
  BY <1>10 DEF RelaySubscriptions
<1>11. ASSUME NEW t \in Topics, RelayClient(t)
       PROVE  EndInv'
  BY <1>11 DEF RelayClient
<1>12. ASSUME NEW t \in Topics, RelayNotify(t)
       PROVE  EndInv'
  BY <1>12 DEF RelayNotify
<1>13. ASSUME NEW t \in Topics, RelaySend(t)
       PROVE  EndInv'
  BY <1>13 DEF RelaySend
<1>14. ASSUME NEW t \in Topics, RelaySendFails(t)
       PROVE  EndInv'
  BY <1>14 DEF RelaySendFails, StartShutdown
<1>15. ASSUME NEW t \in Topics, RelayAcked(t)
       PROVE  EndInv'
  BY <1>15 DEF RelayAcked
<1>16. ASSUME NEW p \in Publishers, PublishBegin(p)
       PROVE  EndInv'
  BY <1>16 DEF PublishBegin
<1>17. ASSUME NEW p \in Publishers, PublishClient(p)
       PROVE  EndInv'
  BY <1>17 DEF PublishClient
<1>18. ASSUME NEW p \in Publishers, PublishSend(p)
       PROVE  EndInv'
  BY <1>18 DEF PublishSend
<1>19. ASSUME HealthTaskStopped
       PROVE  EndInv'
  BY <1>19 DEF HealthTaskStopped
<1>20. ASSUME NEW a \in {HealthTask, Main, Controller}, ShutdownClient(a)
       PROVE  EndInv'
  BY <1>20 DEF ShutdownClient
<1>21. ASSUME ListenerSends
       PROVE  EndInv'
  BY <1>21 DEF ListenerSends, Listening
<1>22. ASSUME ListenerDisconnects
       PROVE  EndInv'
  BY <1>22 DEF ListenerDisconnects, Listening, LoopDropped
<1>23. ASSUME NEW r \in wire, ListenerAck(r)
       PROVE  EndInv'
  BY <1>23 DEF ListenerAck, Listening
<1>24. ASSUME NEW t \in Topics, ListenerReceives(t)
       PROVE  EndInv'
  BY <1>24 DEF ListenerReceives, Listening
<1>25. ASSUME Reconnected
       PROVE  EndInv'
  BY <1>25 DEF Reconnected, Listening
<1>26. ASSUME ConnectionLost
       PROVE  EndInv'
  BY <1>26 DEF ConnectionLost, Listening
<1>27. ASSUME SessionLost
       PROVE  EndInv'
  BY <1>27 DEF SessionLost, Listening, StartShutdown, LoopDropped
<1>28. ASSUME ListenerShutdown
       PROVE  EndInv'
  BY <1>28 DEF ListenerShutdown, LoopDropped
<1>29. ASSUME MainCheck
       PROVE  EndInv'
  BY <1>29 DEF MainCheck
<1>30. ASSUME ReconnectClient
       PROVE  EndInv'
  BY <1>30 DEF ReconnectClient
<1>31. ASSUME ReconnectOptions
       PROVE  EndInv'
  BY <1>31 DEF ReconnectOptions
<1>32. ASSUME ReconnectFails
       PROVE  EndInv'
  BY <1>32 DEF ReconnectFails
<1>33. ASSUME FailClient
       PROVE  EndInv'
  BY <1>33 DEF FailClient
<1>34. ASSUME CloseClient
       PROVE  EndInv'
  BY <1>34 DEF CloseClient
<1>35. ASSUME CloseFinish
       PROVE  EndInv'
  BY <1>35 DEF CloseFinish
<1>36. ASSUME UpdateBegin
       PROVE  EndInv'
  BY <1>36 DEF UpdateBegin
<1>37. ASSUME NEW new \in Options, UpdateOptions(new)
       PROVE  EndInv'
  BY <1>37 DEF UpdateOptions
<1>38. ASSUME UpdateClient
       PROVE  EndInv'
  BY <1>38 DEF UpdateClient
<1>39. ASSUME UpdateSend
       PROVE  EndInv'
  BY <1>39 DEF UpdateSend
<1>40. ASSUME CloseBegin
       PROVE  EndInv'
  BY <1>40 DEF CloseBegin, StartShutdown
<1>41. ASSUME CloseSend
       PROVE  EndInv'
  BY <1>41 DEF CloseSend
<1>42. ASSUME CloseDone
       PROVE  EndInv'
  BY <1>42 DEF CloseDone
<1>43. CASE UNCHANGED vars
  BY <1>43 DEF vars
<1> QED
  BY <1>1, <1>2, <1>3, <1>4, <1>5, <1>6, <1>7, <1>8, <1>9, <1>10, <1>11, <1>12,
     <1>13, <1>14, <1>15, <1>16, <1>17, <1>18, <1>19, <1>20, <1>21, <1>22,
     <1>23, <1>24, <1>25, <1>26, <1>27, <1>28, <1>29, <1>30, <1>31, <1>32,
     <1>33, <1>34, <1>35, <1>36, <1>37, <1>38, <1>39, <1>40, <1>41, <1>42, <1>43
  DEF Next, SubscriberStep, RelayStep, PublisherStep, HealthStep, ListenerStep,
      MainStep, ControllerStep, CallerStep

Kept ==
  /\ reason # NoOne => reason' = reason
  /\ shutdown # "no" => shutdown' = shutdown
Final == Kept /\ (shutdown # "no" => ~alive')

LEMMA FinalStep ==
  ASSUME TypeOK, EndInv, EndInv', [Next]_vars
  PROVE  Final
<1> SUFFICES Kept
  BY DEF Final, Kept, EndInv
<1> USE DEF Kept
<1>1. ASSUME NEW s \in Subscribers, SubscribeBegin(s)
      PROVE  Kept
  BY <1>1 DEF SubscribeBegin
<1>2. ASSUME NEW s \in Subscribers, SubscribeNotify(s)
      PROVE  Kept
  BY <1>2 DEF SubscribeNotify
<1>3. ASSUME NEW s \in Subscribers, SubscribeClient(s)
      PROVE  Kept
  BY <1>3 DEF SubscribeClient
<1>4. ASSUME NEW s \in Subscribers, SubscribeSend(s)
      PROVE  Kept
  BY <1>4 DEF SubscribeSend
<1>5. ASSUME NEW s \in Subscribers, SubscribeFails(s)
      PROVE  Kept
  BY <1>5 DEF SubscribeFails, StartShutdown
<1>6. ASSUME NEW s \in Subscribers, SubscribeAcked(s)
      PROVE  Kept
  BY <1>6 DEF SubscribeAcked
<1>7. ASSUME NEW s \in Subscribers, ReleaseSubscription(s)
      PROVE  Kept
  BY <1>7 DEF ReleaseSubscription
<1>8. ASSUME NEW t \in Topics, RelayStart(t)
      PROVE  Kept
  BY <1>8 DEF RelayStart
<1>9. ASSUME NEW t \in Topics, RelayReceives(t)
      PROVE  Kept
  BY <1>9 DEF RelayReceives
<1>10. ASSUME NEW t \in Topics, RelaySubscriptions(t)
       PROVE  Kept
  BY <1>10 DEF RelaySubscriptions
<1>11. ASSUME NEW t \in Topics, RelayClient(t)
       PROVE  Kept
  BY <1>11 DEF RelayClient
<1>12. ASSUME NEW t \in Topics, RelayNotify(t)
       PROVE  Kept
  BY <1>12 DEF RelayNotify
<1>13. ASSUME NEW t \in Topics, RelaySend(t)
       PROVE  Kept
  BY <1>13 DEF RelaySend
<1>14. ASSUME NEW t \in Topics, RelaySendFails(t)
       PROVE  Kept
  BY <1>14 DEF RelaySendFails, StartShutdown
<1>15. ASSUME NEW t \in Topics, RelayAcked(t)
       PROVE  Kept
  BY <1>15 DEF RelayAcked
<1>16. ASSUME NEW p \in Publishers, PublishBegin(p)
       PROVE  Kept
  BY <1>16 DEF PublishBegin
<1>17. ASSUME NEW p \in Publishers, PublishClient(p)
       PROVE  Kept
  BY <1>17 DEF PublishClient
<1>18. ASSUME NEW p \in Publishers, PublishSend(p)
       PROVE  Kept
  BY <1>18 DEF PublishSend
<1>19. ASSUME HealthTaskStopped
       PROVE  Kept
  BY <1>19 DEF HealthTaskStopped
<1>20. ASSUME NEW a \in {HealthTask, Main, Controller}, ShutdownClient(a)
       PROVE  Kept
  BY <1>20 DEF ShutdownClient
<1>21. ASSUME ListenerSends
       PROVE  Kept
  BY <1>21 DEF ListenerSends
<1>22. ASSUME ListenerDisconnects
       PROVE  Kept
  BY <1>22 DEF ListenerDisconnects
<1>23. ASSUME NEW r \in wire, ListenerAck(r)
       PROVE  Kept
  BY <1>23 DEF ListenerAck
<1>24. ASSUME NEW t \in Topics, ListenerReceives(t)
       PROVE  Kept
  BY <1>24 DEF ListenerReceives
<1>25. ASSUME Reconnected
       PROVE  Kept
  BY <1>25 DEF Reconnected
<1>26. ASSUME ConnectionLost
       PROVE  Kept
  BY <1>26 DEF ConnectionLost
<1>27. ASSUME SessionLost
       PROVE  Kept
  BY <1>27 DEF SessionLost, StartShutdown
<1>28. ASSUME ListenerShutdown
       PROVE  Kept
  BY <1>28 DEF ListenerShutdown
<1>29. ASSUME MainCheck
       PROVE  Kept
  BY <1>29 DEF MainCheck
<1>30. ASSUME ReconnectClient
       PROVE  Kept
  BY <1>30 DEF ReconnectClient
<1>31. ASSUME ReconnectOptions
       PROVE  Kept
  BY <1>31 DEF ReconnectOptions
<1>32. ASSUME ReconnectFails
       PROVE  Kept
  BY <1>32 DEF ReconnectFails, EndInv
<1>33. ASSUME FailClient
       PROVE  Kept
  BY <1>33 DEF FailClient
<1>34. ASSUME CloseClient
       PROVE  Kept
  BY <1>34 DEF CloseClient
<1>35. ASSUME CloseFinish
       PROVE  Kept
  BY <1>35 DEF CloseFinish, EndInv
<1>36. ASSUME UpdateBegin
       PROVE  Kept
  BY <1>36 DEF UpdateBegin
<1>37. ASSUME NEW new \in Options, UpdateOptions(new)
       PROVE  Kept
  BY <1>37 DEF UpdateOptions
<1>38. ASSUME UpdateClient
       PROVE  Kept
  BY <1>38 DEF UpdateClient
<1>39. ASSUME UpdateSend
       PROVE  Kept
  BY <1>39 DEF UpdateSend
<1>40. ASSUME CloseBegin
       PROVE  Kept
  BY <1>40 DEF CloseBegin, StartShutdown
<1>41. ASSUME CloseSend
       PROVE  Kept
  BY <1>41 DEF CloseSend
<1>42. ASSUME CloseDone
       PROVE  Kept
  BY <1>42 DEF CloseDone
<1>43. CASE UNCHANGED vars
  BY <1>43 DEF vars
<1> QED
  BY <1>1, <1>2, <1>3, <1>4, <1>5, <1>6, <1>7, <1>8, <1>9, <1>10, <1>11, <1>12,
     <1>13, <1>14, <1>15, <1>16, <1>17, <1>18, <1>19, <1>20, <1>21, <1>22,
     <1>23, <1>24, <1>25, <1>26, <1>27, <1>28, <1>29, <1>30, <1>31, <1>32,
     <1>33, <1>34, <1>35, <1>36, <1>37, <1>38, <1>39, <1>40, <1>41, <1>42, <1>43
  DEF Next, SubscriberStep, RelayStep, PublisherStep, HealthStep, ListenerStep,
      MainStep, ControllerStep, CallerStep

(* A shutdown keeps its first reason, and once it is done stays done, with   *)
(* no event loop started again.                                              *)
THEOREM ShutdownFinal == Spec => ShutdownIsFinal
<1>1. Init => TypeOK /\ EndInv
  BY TypeInit, EndInit
<1>2. TypeOK /\ EndInv /\ [Next]_vars => (TypeOK /\ EndInv)'
  BY TypeStep, EndStep
<1>3. TypeOK /\ EndInv /\ (TypeOK /\ EndInv)' /\ [Next]_vars
        => [ /\ reason # NoOne => reason' = reason
             /\ shutdown # "no" => shutdown' = shutdown /\ ~alive' ]_vars
  BY FinalStep DEF Final, Kept
<1> QED
  BY <1>1, <1>2, <1>3, PTL DEF Spec, ShutdownIsFinal

--------------------------------------------------------------------------------
(* Edited options *)

DisconnectQueued == \E i \in DOMAIN requests : requests[i].kind = "disconnect"

(* The requests that stay in the channel.                                    *)
LEMMA StillQueued ==
  ASSUME QueueOK, DisconnectQueued,
         \/ UNCHANGED requests
         \/ \E kind, a : Send(kind, a)
         \/ requests # <<>> /\ Head(requests).kind # "disconnect" /\ requests' = Tail(requests)
  PROVE  DisconnectQueued'
<1>1. CASE UNCHANGED requests
  BY <1>1 DEF DisconnectQueued
<1>2. ASSUME NEW kind, NEW a, Send(kind, a)
      PROVE  DisconnectQueued'
  <2> DEFINE r == [kind |-> kind, by |-> a]
  <2>1. requests \in Seq(Request) /\ requests' = Append(requests, r)
    BY <1>2 DEF QueueOK, Send
  <2> HIDE DEF r
  <2>2. \A i \in DOMAIN requests : i \in DOMAIN requests' /\ requests'[i] = requests[i]
    BY <2>1
  <2> QED
    BY <2>2 DEF DisconnectQueued
<1>3. CASE requests # <<>> /\ Head(requests).kind # "disconnect" /\ requests' = Tail(requests)
  BY <1>3, HeadAndTail DEF DisconnectQueued
<1> QED
  BY <1>1, <1>2, <1>3

(* What is sent is queued.                                                   *)
LEMMA DisconnectIsQueued ==
  ASSUME QueueOK, NEW a, Send("disconnect", a)
  PROVE  DisconnectQueued'
<1> DEFINE r == [kind |-> "disconnect", by |-> a]
<1>1. requests \in Seq(Request) /\ requests' = Append(requests, r)
  BY DEF QueueOK, Send
<1>2. r.kind = "disconnect"
  OBVIOUS
<1> HIDE DEF r
<1>3. Len(requests) + 1 \in DOMAIN requests' /\ requests'[Len(requests) + 1] = r
  BY <1>1
<1> QED
  BY <1>2, <1>3 DEF DisconnectQueued

OptionsInv ==
  Listening /\ clientOptions # options =>
    DisconnectQueued \/ pc[Controller] \in {"updateClient", "updateSend"}

LEMMA OptionsStep ==
  ASSUME TypeOK, EndInv, OptionsInv, [Next]_vars
  PROVE  OptionsInv'
<1>q. QueueOK /\ pc \in [Actors -> States]
  BY TypeParts DEF PlacesOK
<1>k. UNCHANGED requests => DisconnectQueued' = DisconnectQueued
  BY DEF DisconnectQueued
<1> USE <1>q, ActorsAssumption DEF EndInv, OptionsInv, Listening, Actors, Goto
<1>1. ASSUME NEW s \in Subscribers, SubscribeBegin(s)
      PROVE  OptionsInv'
  BY <1>1, <1>k DEF SubscribeBegin
<1>2. ASSUME NEW s \in Subscribers, SubscribeNotify(s)
      PROVE  OptionsInv'
  BY <1>2, <1>k DEF SubscribeNotify
<1>3. ASSUME NEW s \in Subscribers, SubscribeClient(s)
      PROVE  OptionsInv'
  BY <1>3, <1>k DEF SubscribeClient
<1>4. ASSUME NEW s \in Subscribers, SubscribeSend(s)
      PROVE  OptionsInv'
  <2>1. DisconnectQueued => DisconnectQueued'
    BY <1>4, <1>q, StillQueued DEF SubscribeSend
  <2> QED
    BY <1>4, <2>1 DEF SubscribeSend
<1>5. ASSUME NEW s \in Subscribers, SubscribeFails(s)
      PROVE  OptionsInv'
  BY <1>5, <1>k DEF SubscribeFails, StartShutdown
<1>6. ASSUME NEW s \in Subscribers, SubscribeAcked(s)
      PROVE  OptionsInv'
  BY <1>6, <1>k DEF SubscribeAcked
<1>7. ASSUME NEW s \in Subscribers, ReleaseSubscription(s)
      PROVE  OptionsInv'
  BY <1>7, <1>k DEF ReleaseSubscription
<1>8. ASSUME NEW t \in Topics, RelayStart(t)
      PROVE  OptionsInv'
  BY <1>8, <1>k DEF RelayStart
<1>9. ASSUME NEW t \in Topics, RelayReceives(t)
      PROVE  OptionsInv'
  BY <1>9, <1>k DEF RelayReceives
<1>10. ASSUME NEW t \in Topics, RelaySubscriptions(t)
       PROVE  OptionsInv'
  BY <1>10, <1>k DEF RelaySubscriptions
<1>11. ASSUME NEW t \in Topics, RelayClient(t)
       PROVE  OptionsInv'
  BY <1>11, <1>k DEF RelayClient
<1>12. ASSUME NEW t \in Topics, RelayNotify(t)
       PROVE  OptionsInv'
  BY <1>12, <1>k DEF RelayNotify
<1>13. ASSUME NEW t \in Topics, RelaySend(t)
       PROVE  OptionsInv'
  <2>1. DisconnectQueued => DisconnectQueued'
    BY <1>13, <1>q, StillQueued DEF RelaySend
  <2> QED
    BY <1>13, <2>1 DEF RelaySend
<1>14. ASSUME NEW t \in Topics, RelaySendFails(t)
       PROVE  OptionsInv'
  BY <1>14, <1>k DEF RelaySendFails, StartShutdown
<1>15. ASSUME NEW t \in Topics, RelayAcked(t)
       PROVE  OptionsInv'
  BY <1>15, <1>k DEF RelayAcked
<1>16. ASSUME NEW p \in Publishers, PublishBegin(p)
       PROVE  OptionsInv'
  BY <1>16, <1>k DEF PublishBegin
<1>17. ASSUME NEW p \in Publishers, PublishClient(p)
       PROVE  OptionsInv'
  BY <1>17, <1>k DEF PublishClient
<1>18. ASSUME NEW p \in Publishers, PublishSend(p)
       PROVE  OptionsInv'
  <2>1. DisconnectQueued => DisconnectQueued'
    BY <1>18, <1>q, StillQueued DEF PublishSend
  <2> QED
    BY <1>18, <2>1 DEF PublishSend
<1>19. ASSUME HealthTaskStopped
       PROVE  OptionsInv'
  <2>1. DisconnectQueued => DisconnectQueued'
    BY <1>19, <1>q, StillQueued DEF HealthTaskStopped, DisconnectOrWarn
  <2> QED
    BY <1>19, <2>1 DEF HealthTaskStopped
<1>20. ASSUME NEW a \in {HealthTask, Main, Controller}, ShutdownClient(a)
       PROVE  OptionsInv'
  BY <1>20, <1>k DEF ShutdownClient
<1>21. ASSUME ListenerSends
       PROVE  OptionsInv'
  <2>1. DisconnectQueued => DisconnectQueued'
    BY <1>21, <1>q, StillQueued DEF ListenerSends
  <2> QED
    BY <1>21, <2>1 DEF ListenerSends
<1>22. ASSUME ListenerDisconnects
       PROVE  OptionsInv'
  BY <1>22 DEF ListenerDisconnects
<1>23. ASSUME NEW r \in wire, ListenerAck(r)
       PROVE  OptionsInv'
  BY <1>23, <1>k DEF ListenerAck
<1>24. ASSUME NEW t \in Topics, ListenerReceives(t)
       PROVE  OptionsInv'
  BY <1>24, <1>k DEF ListenerReceives
<1>25. ASSUME Reconnected
       PROVE  OptionsInv'
  BY <1>25, <1>k DEF Reconnected
<1>26. ASSUME ConnectionLost
       PROVE  OptionsInv'
  BY <1>26, <1>k DEF ConnectionLost
<1>27. ASSUME SessionLost
       PROVE  OptionsInv'
  BY <1>27 DEF SessionLost, StartShutdown
<1>28. ASSUME ListenerShutdown
       PROVE  OptionsInv'
  BY <1>28 DEF ListenerShutdown
<1>29. ASSUME MainCheck
       PROVE  OptionsInv'
  BY <1>29, <1>k DEF MainCheck
<1>30. ASSUME ReconnectClient
       PROVE  OptionsInv'
  BY <1>30, <1>k DEF ReconnectClient
<1>31. ASSUME ReconnectOptions
       PROVE  OptionsInv'
  BY <1>31 DEF ReconnectOptions
<1>32. ASSUME ReconnectFails
       PROVE  OptionsInv'
  BY <1>32, <1>k DEF ReconnectFails
<1>33. ASSUME FailClient
       PROVE  OptionsInv'
  BY <1>33, <1>k DEF FailClient
<1>34. ASSUME CloseClient
       PROVE  OptionsInv'
  BY <1>34, <1>k DEF CloseClient
<1>35. ASSUME CloseFinish
       PROVE  OptionsInv'
  BY <1>35, <1>k DEF CloseFinish
<1>36. ASSUME UpdateBegin
       PROVE  OptionsInv'
  BY <1>36, <1>k DEF UpdateBegin
<1>37. ASSUME NEW new \in Options, UpdateOptions(new)
       PROVE  OptionsInv'
  BY <1>37, <1>k DEF UpdateOptions
<1>38. ASSUME UpdateClient
       PROVE  OptionsInv'
  BY <1>38 DEF UpdateClient
<1>39. ASSUME UpdateSend
       PROVE  OptionsInv'
  <2>1. CASE ~alive
    BY <1>39, <2>1 DEF UpdateSend
  <2>2. CASE Send("disconnect", Controller)
    BY <2>2, <1>q, DisconnectIsQueued
  <2> QED
    BY <1>39, <2>1, <2>2 DEF UpdateSend, DisconnectOrWarn
<1>40. ASSUME CloseBegin
       PROVE  OptionsInv'
  BY <1>40, <1>k DEF CloseBegin, StartShutdown
<1>41. ASSUME CloseSend
       PROVE  OptionsInv'
  <2>1. DisconnectQueued => DisconnectQueued'
    BY <1>41, <1>q, StillQueued DEF CloseSend, DisconnectOrWarn
  <2> QED
    BY <1>41, <2>1 DEF CloseSend
<1>42. ASSUME CloseDone
       PROVE  OptionsInv'
  BY <1>42 DEF CloseDone
<1>43. CASE UNCHANGED vars
  BY <1>43, <1>k DEF vars
<1> QED
  BY <1>1, <1>2, <1>3, <1>4, <1>5, <1>6, <1>7, <1>8, <1>9, <1>10, <1>11, <1>12,
     <1>13, <1>14, <1>15, <1>16, <1>17, <1>18, <1>19, <1>20, <1>21, <1>22,
     <1>23, <1>24, <1>25, <1>26, <1>27, <1>28, <1>29, <1>30, <1>31, <1>32,
     <1>33, <1>34, <1>35, <1>36, <1>37, <1>38, <1>39, <1>40, <1>41, <1>42, <1>43
  DEF Next, SubscriberStep, RelayStep, PublisherStep, HealthStep, ListenerStep,
      MainStep, ControllerStep, CallerStep

(* The reconnect that edited options need is never lost: as long as the      *)
(* listener runs on older options a disconnect is ahead of it.               *)
THEOREM OptionsAreApplied == Spec => []OptionsApplied
<1>1. Init => TypeOK /\ EndInv /\ OptionsInv
  BY TypeInit, EndInit DEF Init, OptionsInv
<1>2. TypeOK /\ EndInv /\ OptionsInv /\ [Next]_vars => (TypeOK /\ EndInv /\ OptionsInv)'
  BY TypeStep, EndStep, OptionsStep
<1>3. OptionsInv => OptionsApplied
  BY DEF OptionsInv, OptionsApplied, DisconnectQueued
<1> QED
  BY <1>1, <1>2, <1>3, PTL DEF Spec
================================================================================
