----------------------- MODULE ManagerSubscriptionProofs -----------------------
(***************************************************************************)
(* What a subscriber was promised: as long as its relay listens, the broker*)
(* has the subscription. On top of the proofs about the subscription lock. *)
(* What closing the manager can rely on: a shutdown that has begun is      *)
(* driven on, and no tasks wait for each other in a circle. And that the   *)
(* manager implements LockableNotify for that lock.                        *)
(***************************************************************************)
EXTENDS ManagerProofs

(* A relay that has not left its loop, or is yet to enter it.                *)
Attended == {"none", "starting", "listening"}
Ending == {"shutClient", "shutSend", "closing", "closed"}

Subscribed ==
  \A s \in Subscribers :
    /\ pc[s] = "subscribed"
    /\ s \in receivers[TopicOf[s]]
    /\ pc[TopicOf[s]] \in Attended
    => TopicOf[s] \in brokerSubs

(* An acknowledgement that wakes a subscriber is that of a subscription.     *)
SubscriptionsInv ==
  /\ pc[Controller] \in Ending => reason # NoOne
  /\ reason = NoOne => Subscribed
  /\ reason = NoOne /\ permit \in Subscribers => TopicOf[permit] \in brokerSubs
  /\ \A r \in wire : Acknowledged(r)

LEMMA SubscriptionsInit == Init => SubscriptionsInv
BY ActorsAssumption DEF Init, SubscriptionsInv, Subscribed, Ending, Actors

(* What most steps leave as it is: they hand no subscription out, take none  *)
(* from the broker, and start no relay that still listens.                   *)
Quiet ==
  /\ UNCHANGED brokerSubs
  /\ permit' \in {permit, NoOne}
  /\ \A s \in Subscribers : pc'[s] = "subscribed" => pc[s] = "subscribed"
  /\ \A t \in Topics : pc'[t] \in Attended => pc[t] \in Attended
  /\ \A t \in Topics, s \in Subscribers :
       s \in receivers'[t] /\ pc'[s] = "subscribed" => s \in receivers[t]
  /\ reason' = NoOne => reason = NoOne
  /\ pc'[Controller] \in Ending => pc[Controller] \in Ending \/ reason' # NoOne
  /\ \A r \in wire' : r \in wire \/ Acknowledged(r)

LEMMA QuietKeeps ==
  ASSUME SubscriptionsInv, Quiet
  PROVE  SubscriptionsInv'
<1>1. pc'[Controller] \in Ending => reason' # NoOne
  BY DEF SubscriptionsInv, Quiet
<1>2. ASSUME reason' = NoOne PROVE Subscribed'
  <2>1. Subscribed
    BY <1>2 DEF SubscriptionsInv, Quiet
  <2> SUFFICES ASSUME NEW s \in Subscribers, pc'[s] = "subscribed",
                      s \in receivers'[TopicOf[s]], pc'[TopicOf[s]] \in Attended
               PROVE  TopicOf[s] \in brokerSubs'
    BY DEF Subscribed
  <2>2. TopicOf[s] \in Topics
    BY ActorsAssumption
  <2>3. pc[s] = "subscribed" /\ s \in receivers[TopicOf[s]] /\ pc[TopicOf[s]] \in Attended
    BY <2>2 DEF Quiet
  <2> QED BY <2>1, <2>3 DEF Subscribed, Quiet
<1>3. reason' = NoOne /\ permit' \in Subscribers => TopicOf[permit'] \in brokerSubs'
  BY ActorsAssumption DEF SubscriptionsInv, Quiet, Actors
<1>4. \A r \in wire' : Acknowledged(r)
  BY DEF SubscriptionsInv, Quiet
<1> QED BY <1>1, <1>2, <1>3, <1>4 DEF SubscriptionsInv, Acknowledged

(* Every other step is quiet.                                                *)
LEMMA QuietStep ==
  ASSUME TypeOK, [Next]_vars
  PROVE  \/ Quiet
         \/ \E s \in Subscribers : SubscribeAcked(s)
         \/ \E t \in Topics : RelayAcked(t)
         \/ \E r \in wire : ListenerAck(r)
         \/ ConnectionLost \/ SessionLost
<1>q. /\ pc \in [Actors -> States]
      /\ receivers \in [Topics -> SUBSET Subscribers]
  BY TypeParts DEF PlacesOK, RestOK
<1> USE <1>q, ActorsAssumption 
       DEF Quiet, Actors, Attended, Ending, Goto, manager, client, config, ending
<1>1. ASSUME NEW s \in Subscribers, SubscribeBegin(s)
      PROVE  Quiet
  BY <1>1 DEF SubscribeBegin
<1>2. ASSUME NEW s \in Subscribers, SubscribeNotify(s)
      PROVE  Quiet
  BY <1>2 DEF SubscribeNotify
<1>3. ASSUME NEW s \in Subscribers, SubscribeClient(s)
      PROVE  Quiet
  BY <1>3 DEF SubscribeClient
<1>4. ASSUME NEW s \in Subscribers, SubscribeSend(s)
      PROVE  Quiet
  BY <1>4 DEF SubscribeSend
<1>5. ASSUME NEW s \in Subscribers, SubscribeFails(s)
      PROVE  Quiet
  BY <1>5 DEF SubscribeFails, StartShutdown
<1>6. ASSUME NEW s \in Subscribers, ReleaseSubscription(s)
      PROVE  Quiet
  BY <1>6 DEF ReleaseSubscription
<1>7. ASSUME NEW t \in Topics, RelayStart(t)
      PROVE  Quiet
  BY <1>7 DEF RelayStart
<1>8. ASSUME NEW t \in Topics, RelayReceives(t)
      PROVE  Quiet
  BY <1>8 DEF RelayReceives
<1>9. ASSUME NEW t \in Topics, RelaySubscriptions(t)
      PROVE  Quiet
  BY <1>9 DEF RelaySubscriptions
<1>10. ASSUME NEW t \in Topics, RelayClient(t)
       PROVE  Quiet
  BY <1>10 DEF RelayClient
<1>11. ASSUME NEW t \in Topics, RelayNotify(t)
       PROVE  Quiet
  BY <1>11 DEF RelayNotify
<1>12. ASSUME NEW t \in Topics, RelaySend(t)
       PROVE  Quiet
  BY <1>12 DEF RelaySend
<1>13. ASSUME NEW t \in Topics, RelaySendFails(t)
       PROVE  Quiet
  BY <1>13 DEF RelaySendFails, StartShutdown
<1>14. ASSUME NEW p \in Publishers, PublishBegin(p)
       PROVE  Quiet
  BY <1>14 DEF PublishBegin
<1>15. ASSUME NEW p \in Publishers, PublishClient(p)
       PROVE  Quiet
  BY <1>15 DEF PublishClient
<1>16. ASSUME NEW p \in Publishers, PublishSend(p)
       PROVE  Quiet
  BY <1>16 DEF PublishSend
<1>17. ASSUME HealthTaskStopped
       PROVE  Quiet
  BY <1>17 DEF HealthTaskStopped
<1>18. ASSUME NEW a \in {HealthTask, Main, Controller}, ShutdownClient(a)
       PROVE  Quiet
  BY <1>18 DEF ShutdownClient
<1>19. ASSUME ListenerSends
       PROVE  Quiet
  BY <1>19 DEF ListenerSends
<1>20. ASSUME ListenerDisconnects
       PROVE  Quiet
  BY <1>20 DEF ListenerDisconnects, LoopDropped
<1>21. ASSUME NEW t \in Topics, ListenerReceives(t)
       PROVE  Quiet
  BY <1>21 DEF ListenerReceives
<1>22. ASSUME Reconnected
       PROVE  Quiet
  BY <1>22 DEF Reconnected
<1>23. ASSUME ListenerShutdown
       PROVE  Quiet
  BY <1>23 DEF ListenerShutdown, LoopDropped
<1>24. ASSUME MainCheck
       PROVE  Quiet
  BY <1>24 DEF MainCheck
<1>25. ASSUME ReconnectClient
       PROVE  Quiet
  BY <1>25 DEF ReconnectClient
<1>26. ASSUME ReconnectOptions
       PROVE  Quiet
  BY <1>26 DEF ReconnectOptions
<1>27. ASSUME ReconnectFails
       PROVE  Quiet
  BY <1>27 DEF ReconnectFails
<1>28. ASSUME FailClient
       PROVE  Quiet
  BY <1>28 DEF FailClient
<1>29. ASSUME CloseClient
       PROVE  Quiet
  BY <1>29 DEF CloseClient
<1>30. ASSUME CloseFinish
       PROVE  Quiet
  BY <1>30 DEF CloseFinish
<1>31. ASSUME UpdateBegin
       PROVE  Quiet
  BY <1>31 DEF UpdateBegin
<1>32. ASSUME NEW new \in Options, UpdateOptions(new)
       PROVE  Quiet
  BY <1>32 DEF UpdateOptions
<1>33. ASSUME UpdateClient
       PROVE  Quiet
  BY <1>33 DEF UpdateClient
<1>34. ASSUME UpdateSend
       PROVE  Quiet
  BY <1>34 DEF UpdateSend
<1>35. ASSUME CloseBegin
       PROVE  Quiet
  BY <1>35 DEF CloseBegin, StartShutdown
<1>36. ASSUME CloseSend
       PROVE  Quiet
  BY <1>36 DEF CloseSend
<1>37. ASSUME CloseDone
       PROVE  Quiet
  BY <1>37 DEF CloseDone
<1>38. CASE UNCHANGED vars
  BY <1>38 DEF vars
<1> QED
  BY <1>1, <1>2, <1>3, <1>4, <1>5, <1>6, <1>7, <1>8, <1>9, <1>10, <1>11, <1>12,
     <1>13, <1>14, <1>15, <1>16, <1>17, <1>18, <1>19, <1>20, <1>21, <1>22, <1>23, <1>24,
     <1>25, <1>26, <1>27, <1>28, <1>29, <1>30, <1>31, <1>32, <1>33, <1>34, <1>35, <1>36,
     <1>37, <1>38
  DEF Next, SubscriberStep, RelayStep, PublisherStep, HealthStep, ListenerStep,
      MainStep, ControllerStep, CallerStep

(* The steps that are not quiet: acknowledgements and losses.                *)
LEMMA AckedKeeps ==
  ASSUME TypeOK, LockInv, FlightInv, SubscriptionsInv, NEW s \in Subscribers, SubscribeAcked(s)
  PROVE  SubscriptionsInv'
<1>1. pc[s] = "subAck" /\ permit # NoOne /\ permit' = NoOne
  BY DEF SubscribeAcked
<1>2. s \in Actors /\ owner["notify"] = s
  BY <1>1 DEF Actors, LockInv, HoldsNotify
<1>3. reason = NoOne => permit = s
  BY <1>1, <1>2 DEF SubscriptionsInv, Ending, FlightInv, NoneInFlight, InFlight
<1>4. reason = NoOne => TopicOf[s] \in brokerSubs
  BY <1>3 DEF SubscriptionsInv
<1>5. \A a \in Actors : a # s => pc'[a] = pc[a]
  BY DEF SubscribeAcked, Goto, TypeOK
<1>6. pc'[Controller] = pc[Controller] /\ \A t \in Topics : pc'[t] = pc[t]
  BY <1>5, ActorsAssumption DEF Actors
<1>7. UNCHANGED <<receivers, brokerSubs, reason>>
  BY DEF SubscribeAcked, client, ending
<1>8. reason = NoOne => Subscribed'
  <2> SUFFICES ASSUME reason = NoOne, NEW u \in Subscribers, pc'[u] = "subscribed",
                      u \in receivers[TopicOf[u]], pc'[TopicOf[u]] \in Attended
               PROVE  TopicOf[u] \in brokerSubs
    BY <1>7 DEF Subscribed
  <2>1. TopicOf[u] \in Topics /\ u \in Actors
    BY ActorsAssumption DEF Actors
  <2>2. CASE u # s
    <3>1. pc[u] = "subscribed" /\ pc[TopicOf[u]] \in Attended
      BY <1>5, <1>6, <2>1, <2>2
    <3> QED BY <3>1 DEF SubscriptionsInv, Subscribed
  <2> QED BY <1>4, <2>2
<1> QED
  BY <1>1, <1>6, <1>7, <1>8, ActorsAssumption
  DEF SubscriptionsInv, Ending, Actors, SubscribeAcked, client, Acknowledged

LEMMA CleanedKeeps ==
  ASSUME TypeOK, SubscriptionsInv, NEW t \in Topics, RelayAcked(t)
  PROVE  SubscriptionsInv'
<1>1. /\ permit' = NoOne /\ UNCHANGED <<brokerSubs, reason>>
      /\ receivers' = [receivers EXCEPT ![t] = {}]
      /\ pc' = [pc EXCEPT ![t] = "none"]
  BY DEF RelayAcked, Goto, client, ending
<1>2. \A a \in Actors : a # t => pc'[a] = pc[a]
  BY <1>1 DEF TypeOK
<1>3. receivers'[t] = {} /\ \A u \in Topics : u # t => receivers'[u] = receivers[u]
  BY <1>1 DEF TypeOK
<1>4. pc'[Controller] = pc[Controller] /\ \A s \in Subscribers : pc'[s] = pc[s]
  BY <1>2, ActorsAssumption DEF Actors
<1>5. reason = NoOne => Subscribed'
  <2> SUFFICES ASSUME reason = NoOne, NEW s \in Subscribers, pc'[s] = "subscribed",
                      s \in receivers'[TopicOf[s]], pc'[TopicOf[s]] \in Attended
               PROVE  TopicOf[s] \in brokerSubs
    BY <1>1 DEF Subscribed
  <2>1. TopicOf[s] \in Topics /\ TopicOf[s] # t /\ TopicOf[s] \in Actors
    BY <1>3, ActorsAssumption DEF Actors
  <2>2. pc[s] = "subscribed" /\ s \in receivers[TopicOf[s]] /\ pc[TopicOf[s]] \in Attended
    BY <1>2, <1>3, <1>4, <2>1
  <2> QED BY <2>2 DEF SubscriptionsInv, Subscribed
<1> QED
  BY <1>1, <1>4, <1>5, ActorsAssumption
  DEF SubscriptionsInv, Ending, Actors, RelayAcked, client, Acknowledged

(* A request takes a topic from the broker only while its relay cleans up.   *)
LEMMA WireKeeps ==
  ASSUME TypeOK, FlightInv, SubscriptionsInv, reason = NoOne, NEW r \in wire
  PROVE  /\ permit = NoOne /\ wire = {r}
         /\ r.by \in Subscribers => SessionAfter(r) = brokerSubs \cup {TopicOf[r.by]}
         /\ r.by \notin Subscribers =>
              r.by \in Topics /\ pc[r.by] \notin Attended /\ SessionAfter(r) = brokerSubs \ {r.by}
<1>1. permit = NoOne /\ wire = {r} /\ pc[r.by] \in AwaitsAck
  BY DEF SubscriptionsInv, Ending, FlightInv, NoneInFlight, InFlight
<1>2. r \in Request
  BY DEF TypeOK
<1>3. r.by \in Actors
  BY <1>2, ActorsAssumption DEF Request, Actors
<1>4. r.by \in Subscribers \cup Topics
  BY <1>1, <1>3, ActorsAssumption
     DEF TypeOK, Actors, AwaitsAck, PublisherStates, MainStates, ControllerStates
<1>5. CASE r.by \in Subscribers
  <2>1. r.kind # "unsubscribe" /\ r.by \notin Topics
    BY <1>2, <1>5, ActorsAssumption DEF Request, Actors
  <2>2. r.kind = "subscribe"
    BY <2>1 DEF SubscriptionsInv, Acknowledged
  <2> QED BY <1>1, <1>5, <2>1, <2>2 DEF SessionAfter, TopicOfRequest
<1>6. CASE r.by \in Topics
  <2>1. r.kind # "subscribe" /\ r.by \notin Subscribers
    BY <1>2, <1>6, ActorsAssumption DEF Request, Actors
  <2>2. pc[r.by] \notin Attended
    BY <1>1 DEF AwaitsAck, Attended
  <2> QED BY <1>1, <1>6, <2>1, <2>2 DEF SessionAfter, TopicOfRequest
<1> QED BY <1>4, <1>5, <1>6

LEMMA BrokerKeeps ==
  ASSUME TypeOK, FlightInv, SubscriptionsInv, reason = NoOne, NEW r \in wire,
         brokerSubs' = SessionAfter(r), UNCHANGED <<pc, receivers>>
  PROVE  Subscribed'
<1> SUFFICES ASSUME NEW s \in Subscribers, pc[s] = "subscribed",
                    s \in receivers[TopicOf[s]], pc[TopicOf[s]] \in Attended
             PROVE  TopicOf[s] \in SessionAfter(r)
  BY DEF Subscribed
<1>1. TopicOf[s] \in brokerSubs
  BY DEF SubscriptionsInv, Subscribed
<1>2. CASE r.by \in Subscribers
  BY <1>1, <1>2, WireKeeps
<1>3. CASE r.by \notin Subscribers
  <2>1. pc[r.by] \notin Attended /\ SessionAfter(r) = brokerSubs \ {r.by}
    BY <1>3, WireKeeps
  <2>2. r.by # TopicOf[s]
    BY <2>1
  <2> QED BY <1>1, <2>1, <2>2
<1> QED BY <1>2, <1>3

LEMMA ConnectionKeeps ==
  ASSUME TypeOK, FlightInv, SubscriptionsInv,
         (\E r \in wire : ListenerAck(r)) \/ ConnectionLost \/ SessionLost
  PROVE  SubscriptionsInv'
<1>1. ASSUME NEW r \in wire, ListenerAck(r) PROVE SubscriptionsInv'
  <2>1. /\ brokerSubs' = SessionAfter(r) /\ permit' = r.by /\ wire' = wire \ {r}
        /\ UNCHANGED <<pc, receivers, reason>>
    BY <1>1 DEF ListenerAck, config, ending
  <2>2. reason = NoOne => Subscribed'
    BY <2>1, BrokerKeeps
  <2>3. reason = NoOne /\ r.by \in Subscribers => TopicOf[r.by] \in SessionAfter(r)
    BY WireKeeps
  <2> QED BY <2>1, <2>2, <2>3 DEF SubscriptionsInv
<1>2. CASE ConnectionLost
  <2>1. /\ brokerSubs' \in {brokerSubs} \cup {SessionAfter(r) : r \in wire}
        /\ wire' = {} /\ UNCHANGED <<pc, receivers, reason, permit>>
    BY <1>2 DEF ConnectionLost, manager, config, ending
  <2>2. CASE brokerSubs' = brokerSubs
    BY <2>1, <2>2 DEF SubscriptionsInv, Subscribed
  <2>3. ASSUME NEW r \in wire, brokerSubs' = SessionAfter(r) PROVE SubscriptionsInv'
    <3>1. reason = NoOne => Subscribed'
      BY <2>1, <2>3, BrokerKeeps
    <3>2. reason = NoOne => permit' \notin Subscribers
      BY <2>1, WireKeeps, ActorsAssumption DEF Actors
    <3> QED BY <2>1, <3>1, <3>2 DEF SubscriptionsInv
  <2> QED BY <2>1, <2>2, <2>3
<1>3. CASE SessionLost
  <2>1. reason' # NoOne /\ wire' \subseteq wire
    BY <1>3, ActorsAssumption DEF SessionLost, StartShutdown, LoopDropped, Actors
  <2> QED BY <2>1 DEF SubscriptionsInv
<1> QED BY <1>1, <1>2, <1>3

LEMMA SubscriptionsStep ==
  ASSUME TypeOK, LockInv, FlightInv, SubscriptionsInv, [Next]_vars
  PROVE  SubscriptionsInv'
BY QuietStep, QuietKeeps, AckedKeeps, CleanedKeeps, ConnectionKeeps

(* A subscription that was handed out and whose relay still listens is known *)
(* to the broker, whatever is lost, released or cleaned up meanwhile: for any*)
(* number of subscribers and topics, until a shutdown begins.                *)
THEOREM ListenersSubscribed == Spec => []ListenersAreSubscribed
<1>1. Init => TypeOK /\ LockInv /\ FlightInv /\ SubscriptionsInv
  BY TypeInit, LockInit, FlightInit, SubscriptionsInit
<1>2. TypeOK /\ LockInv /\ FlightInv /\ SubscriptionsInv /\ [Next]_vars
        => (TypeOK /\ LockInv /\ FlightInv /\ SubscriptionsInv)'
  BY TypeStep, LockStep, FlightStep, SubscriptionsStep
<1>3. SubscriptionsInv => ListenersAreSubscribed
  BY DEF SubscriptionsInv, Subscribed, Attended, ListenersAreSubscribed
<1> QED
  BY <1>1, <1>2, <1>3, PTL DEF Spec

--------------------------------------------------------------------------------
(* Shutting down *)

Shutting(a) == pc[a] \in {"shutClient", "shutSend"}

(* Unless options are edited the listener only ends to shut down, and nobody *)
(* starts it again; so a disconnect is only queued once there is a reason.   *)
DriveInv ==
  /\ pc[Main] \notin {"reconnectClient", "reconnectOptions", "failClient"}
  /\ pc[Controller] \notin {"updateOptions", "updateClient", "updateSend"}
  /\ pc[Main] = "ended" \/ DisconnectQueued => reason # NoOne
  /\ \A a \in Actors : Shutting(a) => reason # NoOne
  /\ reason # NoOne /\ Listening => DisconnectQueued \/ \E a \in Actors : Shutting(a)

LEMMA DriveInit == Init => DriveInv
BY ActorsAssumption DEF Init, DriveInv, Shutting, Actors, DisconnectQueued

(* Requests of other kinds come and go, the disconnect stays where it is.    *)
LEMMA QueuedOthers ==
  ASSUME QueueOK,
         \/ UNCHANGED requests
         \/ \E kind, a : kind # "disconnect" /\ Send(kind, a)
         \/ requests # <<>> /\ Head(requests).kind # "disconnect" /\ requests' = Tail(requests)
  PROVE  DisconnectQueued' <=> DisconnectQueued
<1>1. DisconnectQueued => DisconnectQueued'
  BY StillQueued
<1>2. ASSUME UNCHANGED requests, DisconnectQueued'
      PROVE  DisconnectQueued
  BY <1>2 DEF DisconnectQueued
<1>3. ASSUME NEW kind, NEW a, kind # "disconnect", Send(kind, a), DisconnectQueued'
      PROVE  DisconnectQueued
  <2> DEFINE r == [kind |-> kind, by |-> a]
  <2>1. requests \in Seq(Request) /\ requests' = Append(requests, r)
    BY <1>3 DEF QueueOK, Send
  <2>2. r.kind # "disconnect"
    BY <1>3
  <2> HIDE DEF r
  <2>3. \A i \in DOMAIN requests' :
          (i \in DOMAIN requests /\ requests'[i] = requests[i]) \/ requests'[i] = r
    BY <2>1
  <2> QED
    BY <1>3, <2>2, <2>3 DEF DisconnectQueued
<1>4. ASSUME requests # <<>>, requests' = Tail(requests), DisconnectQueued'
      PROVE  DisconnectQueued
  BY <1>4, HeadAndTail DEF DisconnectQueued
<1> QED
  BY <1>1, <1>2, <1>3, <1>4

(* Most steps leave it all as it is, or begin the shutdown.                  *)
DriveKept ==
  /\ pc'[Main] \in {pc[Main], "shutSend", "closeClient", "closeWait", "stopped"}
  /\ pc'[Controller] \notin {"updateOptions", "updateClient", "updateSend"}
  /\ DisconnectQueued' <=> DisconnectQueued
  /\ \/ UNCHANGED reason /\ \A a \in Actors : Shutting(a)' <=> Shutting(a)
     \/ reason' # NoOne /\ \E a \in Actors : Shutting(a)'

LEMMA KeptDrives ==
  ASSUME DriveInv, DriveKept
  PROVE  DriveInv'
<1>1. /\ pc'[Main] \notin {"reconnectClient", "reconnectOptions", "failClient"}
      /\ pc'[Main] = "ended" => pc[Main] = "ended"
      /\ Listening' => Listening
  BY DEF DriveInv, DriveKept, Listening
<1>2. CASE UNCHANGED reason /\ \A a \in Actors : Shutting(a)' <=> Shutting(a)
  BY <1>1, <1>2 DEF DriveInv, DriveKept
<1>3. CASE reason' # NoOne /\ \E a \in Actors : Shutting(a)'
  BY <1>1, <1>3 DEF DriveInv, DriveKept
<1> QED
  BY <1>2, <1>3 DEF DriveKept

LEMMA DriveStep ==
  ASSUME "update" \notin Environment, TypeOK, EndInv, DriveInv, [Next]_vars
  PROVE  DriveInv'
<1>q. QueueOK /\ pc \in [Actors -> States]
  BY TypeParts DEF PlacesOK
<1>k. UNCHANGED requests => (DisconnectQueued' <=> DisconnectQueued)
  BY <1>q, QueuedOthers
<1>m. /\ pc[Main] \notin {"reconnectClient", "reconnectOptions", "failClient"}
      /\ pc[Controller] \notin {"updateOptions", "updateClient", "updateSend"}
      /\ \A a \in Actors : pc[a] \in {"shutClient", "shutSend"} => reason # NoOne
      /\ pc[Main] = "ended" => reason # NoOne
  BY DEF DriveInv, Shutting
<1> USE <1>q, <1>m, ActorsAssumption
    DEF Shutting, Actors, Goto, manager, client, config, ending
<1>1. ASSUME NEW s \in Subscribers, SubscribeBegin(s)
      PROVE  DriveKept
  BY <1>1, <1>k DEF SubscribeBegin, DriveKept
<1>2. ASSUME NEW s \in Subscribers, SubscribeNotify(s)
      PROVE  DriveKept
  BY <1>2, <1>k DEF SubscribeNotify, DriveKept
<1>3. ASSUME NEW s \in Subscribers, SubscribeClient(s)
      PROVE  DriveKept
  BY <1>3, <1>k DEF SubscribeClient, DriveKept
<1>4. ASSUME NEW s \in Subscribers, SubscribeSend(s)
      PROVE  DriveKept
  <2>1. DisconnectQueued' <=> DisconnectQueued
    BY <1>4, <1>q, QueuedOthers DEF SubscribeSend
  <2> QED
    BY <1>4, <2>1 DEF DriveKept, SubscribeSend
<1>5. ASSUME NEW s \in Subscribers, SubscribeFails(s)
      PROVE  DriveKept
  BY <1>5, <1>k DEF SubscribeFails, StartShutdown, DriveKept
<1>6. ASSUME NEW s \in Subscribers, SubscribeAcked(s)
      PROVE  DriveKept
  BY <1>6, <1>k DEF SubscribeAcked, DriveKept
<1>7. ASSUME NEW s \in Subscribers, ReleaseSubscription(s)
      PROVE  DriveKept
  BY <1>7, <1>k DEF ReleaseSubscription, DriveKept
<1>8. ASSUME NEW t \in Topics, RelayStart(t)
      PROVE  DriveKept
  BY <1>8, <1>k DEF RelayStart, DriveKept
<1>9. ASSUME NEW t \in Topics, RelayReceives(t)
      PROVE  DriveKept
  BY <1>9, <1>k DEF RelayReceives, DriveKept
<1>10. ASSUME NEW t \in Topics, RelaySubscriptions(t)
       PROVE  DriveKept
  BY <1>10, <1>k DEF RelaySubscriptions, DriveKept
<1>11. ASSUME NEW t \in Topics, RelayClient(t)
       PROVE  DriveKept
  BY <1>11, <1>k DEF RelayClient, DriveKept
<1>12. ASSUME NEW t \in Topics, RelayNotify(t)
       PROVE  DriveKept
  BY <1>12, <1>k DEF RelayNotify, DriveKept
<1>13. ASSUME NEW t \in Topics, RelaySend(t)
       PROVE  DriveKept
  <2>1. DisconnectQueued' <=> DisconnectQueued
    BY <1>13, <1>q, QueuedOthers DEF RelaySend
  <2> QED
    BY <1>13, <2>1 DEF DriveKept, RelaySend
<1>14. ASSUME NEW t \in Topics, RelaySendFails(t)
       PROVE  DriveKept
  BY <1>14, <1>k DEF RelaySendFails, StartShutdown, DriveKept
<1>15. ASSUME NEW t \in Topics, RelayAcked(t)
       PROVE  DriveKept
  BY <1>15, <1>k DEF RelayAcked, DriveKept
<1>16. ASSUME NEW p \in Publishers, PublishBegin(p)
       PROVE  DriveKept
  BY <1>16, <1>k DEF PublishBegin, DriveKept
<1>17. ASSUME NEW p \in Publishers, PublishClient(p)
       PROVE  DriveKept
  BY <1>17, <1>k DEF PublishClient, DriveKept
<1>18. ASSUME NEW p \in Publishers, PublishSend(p)
       PROVE  DriveKept
  <2>1. DisconnectQueued' <=> DisconnectQueued
    BY <1>18, <1>q, QueuedOthers DEF PublishSend
  <2> QED
    BY <1>18, <2>1 DEF DriveKept, PublishSend
<1>19. ASSUME HealthTaskStopped
       PROVE  DriveInv'
  <2>1. reason # NoOne /\ UNCHANGED reason
    BY <1>19 DEF HealthTaskStopped
  <2>2. alive => DisconnectQueued'
    BY <1>19, <1>q, DisconnectIsQueued DEF HealthTaskStopped, DisconnectOrWarn
  <2>3. Listening' => alive
    BY <1>19 DEF HealthTaskStopped, EndInv, Listening
  <2>4. pc'[Main] = pc[Main] /\ pc'[Controller] \in {pc[Controller], "closing"}
    BY <1>19 DEF HealthTaskStopped
  <2> QED
    BY <2>1, <2>2, <2>3, <2>4 DEF DriveInv
<1>20. ASSUME NEW a \in {HealthTask, Main, Controller}, ShutdownClient(a)
       PROVE  DriveKept
  BY <1>20, <1>k DEF ShutdownClient, DriveKept
<1>21. ASSUME ListenerSends
       PROVE  DriveKept
  <2>1. DisconnectQueued' <=> DisconnectQueued
    BY <1>21, <1>q, QueuedOthers DEF ListenerSends
  <2> QED
    BY <1>21, <2>1 DEF DriveKept, ListenerSends
<1>22. ASSUME ListenerDisconnects
       PROVE  DriveInv'
  <2>1. reason # NoOne
    BY <1>22, <1>q, HeadAndTail DEF ListenerDisconnects, DisconnectQueued, DriveInv
  <2>2. reason' # NoOne /\ pc'[Main] = "ended" /\ pc'[Controller] = pc[Controller]
    BY <1>22, <2>1 DEF ListenerDisconnects
  <2> QED
    BY <2>2 DEF DriveInv, Listening
<1>23. ASSUME NEW r \in wire, ListenerAck(r)
       PROVE  DriveKept
  BY <1>23, <1>k DEF ListenerAck, DriveKept
<1>24. ASSUME NEW t \in Topics, ListenerReceives(t)
       PROVE  DriveKept
  BY <1>24, <1>k DEF ListenerReceives, DriveKept
<1>25. ASSUME Reconnected
       PROVE  DriveKept
  BY <1>25, <1>k DEF Reconnected, DriveKept
<1>26. ASSUME ConnectionLost
       PROVE  DriveKept
  BY <1>26, <1>k DEF ConnectionLost, DriveKept
<1>27. ASSUME SessionLost
       PROVE  DriveInv'
  <2>1. /\ reason' # NoOne /\ pc'[Main] \in {"ended", "shutClient"}
        /\ pc'[Controller] = pc[Controller]
    BY <1>27 DEF SessionLost, StartShutdown
  <2> QED
    BY <2>1 DEF DriveInv, Listening
<1>28. ASSUME ListenerShutdown
       PROVE  DriveInv'
  <2>1. /\ reason' # NoOne /\ pc'[Main] = "ended"
        /\ pc'[Controller] = pc[Controller]
    BY <1>28 DEF ListenerShutdown
  <2> QED
    BY <2>1 DEF DriveInv, Listening
<1>29. ASSUME MainCheck
       PROVE  DriveKept
  BY <1>29, <1>k DEF MainCheck, DriveKept
<1>30. ASSUME ReconnectClient
       PROVE  DriveKept
  BY <1>30, <1>k DEF ReconnectClient, DriveKept
<1>31. ASSUME ReconnectOptions
       PROVE  DriveKept
  BY <1>31, <1>k DEF ReconnectOptions, DriveKept
<1>32. ASSUME ReconnectFails
       PROVE  DriveKept
  BY <1>32, <1>k DEF ReconnectFails, DriveKept
<1>33. ASSUME FailClient
       PROVE  DriveKept
  BY <1>33, <1>k DEF FailClient, DriveKept
<1>34. ASSUME CloseClient
       PROVE  DriveKept
  BY <1>34, <1>k DEF CloseClient, DriveKept
<1>35. ASSUME CloseFinish
       PROVE  DriveKept
  BY <1>35, <1>k DEF CloseFinish, DriveKept
<1>36. ASSUME UpdateBegin
       PROVE  DriveKept
  BY <1>36, <1>k DEF UpdateBegin, DriveKept
<1>37. ASSUME NEW new \in Options, UpdateOptions(new)
       PROVE  DriveKept
  BY <1>37, <1>k DEF UpdateOptions, DriveKept
<1>38. ASSUME UpdateClient
       PROVE  DriveKept
  BY <1>38, <1>k DEF UpdateClient, DriveKept
<1>39. ASSUME UpdateSend
       PROVE  DriveKept
  BY <1>39, <1>k DEF UpdateSend, DriveKept
<1>40. ASSUME CloseBegin
       PROVE  DriveKept
  BY <1>40, <1>k DEF CloseBegin, StartShutdown, DriveKept
<1>41. ASSUME CloseSend
       PROVE  DriveInv'
  <2>1. reason # NoOne /\ UNCHANGED reason
    BY <1>41 DEF CloseSend
  <2>2. alive => DisconnectQueued'
    BY <1>41, <1>q, DisconnectIsQueued DEF CloseSend, DisconnectOrWarn
  <2>3. Listening' => alive
    BY <1>41 DEF CloseSend, EndInv, Listening
  <2>4. pc'[Main] = pc[Main] /\ pc'[Controller] \in {pc[Controller], "closing"}
    BY <1>41 DEF CloseSend
  <2> QED
    BY <2>1, <2>2, <2>3, <2>4 DEF DriveInv
<1>42. ASSUME CloseDone
       PROVE  DriveInv'
  <2>1. /\ UNCHANGED <<reason, requests>> /\ pc'[Main] = "stopped"
        /\ pc'[Controller] = "closed"
        /\ \A a \in Actors : pc'[a] \in {"shutClient", "shutSend"} => reason # NoOne
    BY <1>42 DEF CloseDone
  <2> QED
    BY <2>1, <1>k DEF DriveInv, Listening
<1>43. ASSUME UNCHANGED vars
       PROVE  DriveKept
  BY <1>43, <1>k DEF vars, DriveKept
<1> QED
  BY KeptDrives, <1>1, <1>2, <1>3, <1>4, <1>5, <1>6, <1>7, <1>8, <1>9, <1>10,
     <1>11, <1>12, <1>13, <1>14, <1>15, <1>16, <1>17, <1>18, <1>19, <1>20,
     <1>21, <1>22, <1>23, <1>24, <1>25, <1>26, <1>27, <1>28, <1>29, <1>30,
     <1>31, <1>32, <1>33, <1>34, <1>35, <1>36, <1>37, <1>38, <1>39, <1>40,
     <1>41, <1>42, <1>43
  DEF Next, SubscriberStep, RelayStep, PublisherStep, HealthStep, ListenerStep,
      MainStep, ControllerStep, CallerStep

(* A shutdown that has begun is driven to its end, whatever order the close, *)
(* the health check, a lost session and the dropped event loop come in; with *)
(* options edited meanwhile it need not be, see the README.                  *)
THEOREM ShutdownDriven == "update" \notin Environment => (Spec => []ShutdownIsDriven)
<1> SUFFICES ASSUME "update" \notin Environment
             PROVE  Spec => []ShutdownIsDriven
  OBVIOUS
<1>1. Init => TypeOK /\ EndInv /\ DriveInv
  BY TypeInit, EndInit, DriveInit
<1>2. TypeOK /\ EndInv /\ DriveInv /\ [Next]_vars => (TypeOK /\ EndInv /\ DriveInv)'
  BY TypeStep, EndStep, DriveStep
<1>3. DriveInv => ShutdownIsDriven
  BY DEF DriveInv, ShutdownIsDriven, DisconnectQueued, Shutting
<1> QED
  BY <1>1, <1>2, <1>3, PTL DEF Spec

--------------------------------------------------------------------------------
(* Waiting in a circle: with no subscription dropped, no relay that lags and *)
(* no session lost, no relay ever leaves its loop, and the tasks that hold a *)
(* mutex wait for nobody but the listener.                                   *)

Open == pc[Controller] # "closed"
Calm == Environment \subseteq {"close", "drop"}

(* A subscriber from its receiver on, and from its request on.               *)
Attached == {"subNotify", "subClient", "subSend", "subAck", "subscribed"}
Asked == {"subAck", "subscribed"}

Awaited(t) == \E s \in Subscribers : TopicOf[s] = t /\ pc[s] \in Asked
Expected(r) == r.kind = "subscribe" /\ Awaited(TopicOf[r.by])

(* A topic the broker knows, or is asked for, has a receiver.                *)
RelaysInv ==
  /\ pc[Main] \notin {"shutClient", "shutSend"}
  /\ \A t \in Topics : pc[t] \in Attended /\ inbox[t] # "lagged"
  /\ \A t \in Topics : inbox[t] = "message" \/ t \in brokerSubs => Awaited(t)
  /\ \A s \in Subscribers : pc[s] \in Attached => s \in receivers[TopicOf[s]]
  /\ \A r \in wire : Expected(r)
  /\ \A i \in DOMAIN requests : Acknowledged(requests[i]) => Expected(requests[i])

(* Who holds the client is about to send; who holds the notify subscribes.   *)
HoldersInv ==
  /\ owner["client"] # NoOne => pc[owner["client"]] \in {"subSend", "pubSend", "shutSend"}
  /\ owner["notify"] # NoOne => pc[owner["notify"]] \in {"subClient", "subSend", "subAck"}

CalmInv == Open => RelaysInv /\ HoldersInv

LEMMA CalmInit == Init => CalmInv
BY ActorsAssumption
   DEF Init, CalmInv, RelaysInv, HoldersInv, Attended, Attached, Awaited, Actors, Locks

(* A closed manager stays closed.                                            *)
LEMMA OpenBefore ==
  ASSUME TypeOK, [Next]_vars, Open'
  PROVE  Open
<1>q. pc \in [Actors -> States]
  BY TypeParts DEF PlacesOK
<1> USE <1>q, ActorsAssumption
    DEF Open, Actors, Goto, manager, client, config, ending, StartShutdown
<1>1. ASSUME NEW s \in Subscribers, SubscriberStep(s) \/ SubscribeBegin(s) \/ ReleaseSubscription(s)
      PROVE  Open
  BY <1>1 DEF SubscriberStep, SubscribeNotify, SubscribeClient, SubscribeSend,
              SubscribeFails, SubscribeAcked, SubscribeBegin, ReleaseSubscription
<1>2. ASSUME NEW t \in Topics, RelayStep(t) \/ ListenerReceives(t)
      PROVE  Open
  BY <1>2 DEF RelayStep, RelayStart, RelayReceives, RelaySubscriptions, RelayClient,
              RelayNotify, RelaySend, RelaySendFails, RelayAcked, ListenerReceives
<1>3. ASSUME NEW p \in Publishers, PublisherStep(p) \/ PublishBegin(p)
      PROVE  Open
  BY <1>3 DEF PublisherStep, PublishBegin, PublishClient, PublishSend
<1>4. ASSUME HealthStep \/ ListenerStep \/ Reconnected \/ ConnectionLost \/ SessionLost
      PROVE  Open
  BY <1>4 DEF HealthStep, HealthTaskStopped, ShutdownClient, ListenerStep, ListenerSends,
              ListenerDisconnects, ListenerAck, Reconnected, ConnectionLost, SessionLost
<1>5. ASSUME MainStep
      PROVE  Open
  BY <1>5 DEF MainStep, ShutdownClient, ListenerShutdown, MainCheck, ReconnectClient,
              ReconnectOptions, ReconnectFails, FailClient, CloseClient, CloseFinish
<1>6. ASSUME ControllerStep \/ UpdateBegin \/ CloseBegin
      PROVE  Open
  BY <1>6 DEF ControllerStep, UpdateOptions, UpdateClient, UpdateSend, ShutdownClient,
              CloseSend, CloseDone, UpdateBegin, CloseBegin
<1>7. ASSUME UNCHANGED vars
      PROVE  Open
  BY <1>7 DEF vars
<1> QED
  BY <1>1, <1>2, <1>3, <1>4, <1>5, <1>6, <1>7 DEF Next, CallerStep

(* What most steps leave as it is.                                           *)
RelaysKept ==
  /\ pc'[Main] \notin {"shutClient", "shutSend"}
  /\ \A t \in Topics : pc'[t] \in Attended /\ inbox'[t] \in {inbox[t], "empty"}
  /\ \A s \in Subscribers : pc[s] \in Asked => pc'[s] \in Asked
  /\ \A s \in Subscribers : pc'[s] \in Attached => s \in receivers'[TopicOf[s]]
  /\ brokerSubs' \subseteq brokerSubs
  /\ wire' \subseteq wire
  /\ \A i \in DOMAIN requests' :
       Acknowledged(requests'[i]) => \E j \in DOMAIN requests : requests[j] = requests'[i]

LEMMA AwaitedStays ==
  ASSUME \A s \in Subscribers : pc[s] \in Asked => pc'[s] \in Asked
  PROVE  /\ \A t : Awaited(t) => Awaited(t)'
         /\ \A r : Expected(r) => Expected(r)'
BY DEF Awaited, Expected

LEMMA KeptRelays ==
  ASSUME RelaysInv, RelaysKept
  PROVE  RelaysInv'
<1>1. /\ \A t : Awaited(t) => Awaited(t)'
      /\ \A r : Expected(r) => Expected(r)'
  BY AwaitedStays DEF RelaysKept
<1>2. \A i \in DOMAIN requests' : Acknowledged(requests'[i]) => Expected(requests[i])'
  BY <1>1 DEF RelaysInv, RelaysKept
<1>3. \A r \in wire' : Expected(r)'
  BY <1>1 DEF RelaysInv, RelaysKept
<1>4. \A t \in Topics : inbox'[t] = "message" \/ t \in brokerSubs' => Awaited(t)'
  BY <1>1 DEF RelaysInv, RelaysKept
<1>5. \A t \in Topics : pc'[t] \in Attended /\ inbox'[t] # "lagged"
  BY DEF RelaysInv, RelaysKept
<1> QED
  BY <1>2, <1>3, <1>4, <1>5 DEF RelaysInv, RelaysKept, Acknowledged

(* The requests that are acknowledged are those that were there, unless one  *)
(* is queued that is.                                                        *)
LEMMA AskedBefore ==
  ASSUME QueueOK,
         \/ UNCHANGED requests \/ requests' = <<>>
         \/ requests # <<>> /\ requests' = Tail(requests)
         \/ \E a : \E kind \in {"publish", "disconnect"} : Send(kind, a)
  PROVE  \A i \in DOMAIN requests' :
           Acknowledged(requests'[i]) => \E j \in DOMAIN requests : requests[j] = requests'[i]
<1>1. CASE UNCHANGED requests \/ requests' = <<>>
  BY <1>1
<1>2. CASE requests # <<>> /\ requests' = Tail(requests)
  BY <1>2, HeadAndTail
<1>3. ASSUME NEW kind \in {"publish", "disconnect"}, NEW a, Send(kind, a)
      PROVE  \A i \in DOMAIN requests' :
               Acknowledged(requests'[i]) => \E j \in DOMAIN requests : requests[j] = requests'[i]
  <2> DEFINE r == [kind |-> kind, by |-> a]
  <2>1. requests \in Seq(Request) /\ requests' = Append(requests, r)
    BY <1>3 DEF QueueOK, Send
  <2>2. ~Acknowledged(r)
    BY <1>3 DEF Acknowledged
  <2> HIDE DEF r
  <2>3. \A i \in DOMAIN requests' :
          (i \in DOMAIN requests /\ requests'[i] = requests[i]) \/ requests'[i] = r
    BY <2>1
  <2> QED
    BY <2>2, <2>3
<1> QED
  BY <1>1, <1>2, <1>3

LEMMA SessionExpected ==
  ASSUME TypeOK, RelaysInv, NEW r \in wire
  PROVE  \A t \in SessionAfter(r) : Awaited(t)
<1>1. r \in Request /\ r.kind = "subscribe" /\ Awaited(TopicOf[r.by]) /\ brokerSubs \subseteq Topics
  BY DEF TypeOK, RelaysInv, Expected
<1>2. r.by \in Subscribers
  BY <1>1 DEF Request
<1>3. SessionAfter(r) = brokerSubs \cup {TopicOf[r.by]}
  BY <1>1, <1>2, ActorsAssumption DEF SessionAfter, TopicOfRequest
<1> QED
  BY <1>1, <1>3 DEF RelaysInv

LEMMA RelaysStep ==
  ASSUME Calm, TypeOK, EndInv, DriveInv, Open, RelaysInv, [Next]_vars, Open'
  PROVE  RelaysInv'
<1>q. /\ QueueOK /\ pc \in [Actors -> States] /\ wire \subseteq Request
      /\ receivers \in [Topics -> SUBSET Subscribers]
      /\ inbox \in [Topics -> {"empty", "message", "lagged"}]
  BY TypeParts DEF PlacesOK, RestOK
<1>k. \/ UNCHANGED requests \/ requests' = <<>>
      \/ requests # <<>> /\ requests' = Tail(requests)
      \/ \E a : \E kind \in {"publish", "disconnect"} : Send(kind, a)
      => \A i \in DOMAIN requests' :
           Acknowledged(requests'[i]) => \E j \in DOMAIN requests : requests[j] = requests'[i]
  BY <1>q, AskedBefore
<1>m. /\ pc[Main] \notin {"reconnectClient", "reconnectOptions", "failClient"}
      /\ pc[Main] \notin {"shutClient", "shutSend"}
      /\ pc[Controller] \notin {"updateOptions", "updateClient", "updateSend"}
  BY DEF DriveInv, RelaysInv
<1>r. /\ \A t \in Topics : pc[t] \in Attended /\ inbox[t] # "lagged"
      /\ \A s \in Subscribers : pc[s] \in Attached => s \in receivers[TopicOf[s]]
  BY DEF RelaysInv
<1>t. \A t \in Topics : receivers[t] = {} => inbox[t] # "message"
  BY ActorsAssumption DEF RelaysInv, Awaited, Asked, Attached
<1>e. "release" \notin Environment /\ "lag" \notin Environment /\ "session_loss" \notin Environment
      /\ "update" \notin Environment
  BY DEF Calm
<1>a. alive <=> pc[Main] = "listening"
  BY <1>m DEF EndInv
<1> USE <1>q, <1>m, <1>r, <1>e, ActorsAssumption
    DEF Actors, Goto, manager, client, config, ending, Attended, Asked, Attached
<1>1. ASSUME NEW s \in Subscribers, SubscribeBegin(s)
      PROVE  RelaysKept
  BY <1>1, <1>k DEF SubscribeBegin, RelaysKept
<1>2. ASSUME NEW s \in Subscribers, SubscribeNotify(s)
      PROVE  RelaysKept
  BY <1>2, <1>k DEF SubscribeNotify, RelaysKept
<1>3. ASSUME NEW s \in Subscribers, SubscribeClient(s)
      PROVE  RelaysKept
  BY <1>3, <1>k DEF SubscribeClient, RelaysKept
<1>4. ASSUME NEW s \in Subscribers, SubscribeSend(s)
      PROVE  RelaysInv'
  <2>1. \A u \in Subscribers : pc[u] \in Asked => pc'[u] \in Asked
    BY <1>4 DEF SubscribeSend
  <2>2. /\ \A t : Awaited(t) => Awaited(t)'
        /\ \A r : Expected(r) => Expected(r)'
    BY <2>1, AwaitedStays
  <2>3. Expected([kind |-> "subscribe", by |-> s])'
    BY <1>4 DEF SubscribeSend, Expected, Awaited
  <2>4. \A i \in DOMAIN requests' : Acknowledged(requests'[i]) => Expected(requests[i])'
    <3> DEFINE r == [kind |-> "subscribe", by |-> s]
    <3>1. requests \in Seq(Request) /\ requests' = Append(requests, r)
      BY <1>4 DEF SubscribeSend, QueueOK, Send
    <3>2. Expected(r)'
      BY <2>3
    <3> HIDE DEF r
    <3>3. \A i \in DOMAIN requests' :
            (i \in DOMAIN requests /\ requests'[i] = requests[i]) \/ requests'[i] = r
      BY <3>1
    <3> QED
      BY <2>2, <3>2, <3>3 DEF RelaysInv
  <2>5. /\ UNCHANGED <<receivers, inbox, wire, brokerSubs>> /\ pc'[Main] = pc[Main]
        /\ \A t \in Topics : pc'[t] = pc[t]
        /\ \A u \in Subscribers : pc'[u] \in Attached => pc[u] \in Attached
    BY <1>4 DEF SubscribeSend
  <2> HIDE DEF Asked
  <2> QED
    BY <2>2, <2>4, <2>5 DEF RelaysInv, Acknowledged
<1>5. ASSUME NEW s \in Subscribers, SubscribeFails(s)
      PROVE  RelaysKept
  BY <1>5, <1>k DEF SubscribeFails, StartShutdown, RelaysKept
<1>6. ASSUME NEW s \in Subscribers, SubscribeAcked(s)
      PROVE  RelaysKept
  BY <1>6, <1>k DEF SubscribeAcked, RelaysKept
<1>7. ASSUME NEW s \in Subscribers, ReleaseSubscription(s)
      PROVE  RelaysKept
  BY <1>7, <1>k DEF ReleaseSubscription, RelaysKept
<1>8. ASSUME NEW t \in Topics, RelayStart(t)
      PROVE  RelaysKept
  BY <1>8, <1>k DEF RelayStart, RelaysKept
<1>9. ASSUME NEW t \in Topics, RelayReceives(t)
      PROVE  RelaysKept
  <2>1. pc' = pc
    BY <1>9, <1>t DEF RelayReceives
  <2> QED
    BY <1>9, <1>k, <2>1 DEF RelayReceives, RelaysKept
<1>10. ASSUME NEW t \in Topics, RelaySubscriptions(t)
       PROVE  RelaysKept
  BY <1>10, <1>k DEF RelaySubscriptions, RelaysKept
<1>11. ASSUME NEW t \in Topics, RelayClient(t)
       PROVE  RelaysKept
  BY <1>11, <1>k DEF RelayClient, RelaysKept
<1>12. ASSUME NEW t \in Topics, RelayNotify(t)
       PROVE  RelaysKept
  BY <1>12, <1>k DEF RelayNotify, RelaysKept
<1>13. ASSUME NEW t \in Topics, RelaySend(t)
       PROVE  RelaysKept
  BY <1>13, <1>k DEF RelaySend, RelaysKept
<1>14. ASSUME NEW t \in Topics, RelaySendFails(t)
       PROVE  RelaysKept
  BY <1>14, <1>k DEF RelaySendFails, StartShutdown, RelaysKept
<1>15. ASSUME NEW t \in Topics, RelayAcked(t)
       PROVE  RelaysKept
  BY <1>15, <1>k DEF RelayAcked, RelaysKept
<1>16. ASSUME NEW p \in Publishers, PublishBegin(p)
       PROVE  RelaysKept
  BY <1>16, <1>k DEF PublishBegin, RelaysKept
<1>17. ASSUME NEW p \in Publishers, PublishClient(p)
       PROVE  RelaysKept
  BY <1>17, <1>k DEF PublishClient, RelaysKept
<1>18. ASSUME NEW p \in Publishers, PublishSend(p)
       PROVE  RelaysKept
  <2>1. UNCHANGED requests \/ \E a : \E kind \in {"publish", "disconnect"} : Send(kind, a)
    BY <1>18 DEF PublishSend
  <2> QED
    BY <1>18, <1>k, <2>1 DEF PublishSend, RelaysKept
<1>19. ASSUME HealthTaskStopped
       PROVE  RelaysKept
  <2>1. UNCHANGED requests \/ \E a : \E kind \in {"publish", "disconnect"} : Send(kind, a)
    BY <1>19 DEF HealthTaskStopped, DisconnectOrWarn
  <2> QED
    BY <1>19, <1>k, <2>1 DEF HealthTaskStopped, RelaysKept
<1>20. ASSUME NEW a \in {HealthTask, Main, Controller}, ShutdownClient(a)
       PROVE  RelaysKept
  BY <1>20, <1>k DEF ShutdownClient, RelaysKept
<1>21. ASSUME ListenerSends
       PROVE  RelaysInv'
  <2>1. /\ UNCHANGED <<pc, receivers, inbox, brokerSubs>> /\ requests' = Tail(requests)
        /\ requests # <<>> /\ wire' \subseteq wire \cup {Head(requests)}
        /\ Head(requests) \in wire' \ wire => Acknowledged(Head(requests))
    BY <1>21 DEF ListenerSends
  <2>2. /\ \A t : Awaited(t)' <=> Awaited(t)
        /\ \A r : Expected(r)' <=> Expected(r)
    BY <2>1 DEF Awaited, Expected
  <2>3. \A r \in wire' : r \in wire \/ Expected(r)
    BY <2>1, <1>q, HeadAndTail DEF RelaysInv
  <2>4. \A i \in DOMAIN requests' : Acknowledged(requests'[i]) => Expected(requests'[i])
    BY <2>1, <1>k DEF RelaysInv
  <2> HIDE DEF Asked
  <2> QED
    BY <2>1, <2>2, <2>3, <2>4 DEF RelaysInv, Acknowledged
<1>22. ASSUME ListenerDisconnects
       PROVE  RelaysKept
  BY <1>22, <1>k DEF ListenerDisconnects, LoopDropped, RelaysKept
<1>23. ASSUME NEW r \in wire, ListenerAck(r)
       PROVE  RelaysInv'
  <2>1. /\ UNCHANGED <<pc, receivers, inbox, requests>> /\ wire' \subseteq wire
        /\ brokerSubs' = SessionAfter(r)
    BY <1>23 DEF ListenerAck
  <2> HIDE DEF Asked
  <2> QED
    BY <1>23, <2>1, SessionExpected DEF RelaysInv, Awaited, Expected, Acknowledged
<1>24. ASSUME NEW t \in Topics, ListenerReceives(t)
       PROVE  RelaysInv'
  <2>1. /\ UNCHANGED <<pc, receivers, brokerSubs, wire, requests>>
        /\ t \in brokerSubs /\ inbox' = [inbox EXCEPT ![t] = "message"]
    BY <1>24 DEF ListenerReceives
  <2>2. \A u \in Topics : inbox'[u] = IF u = t THEN "message" ELSE inbox[u]
    BY <2>1
  <2> HIDE DEF Asked
  <2> QED
    BY <2>1, <2>2 DEF RelaysInv, Awaited, Expected, Acknowledged
<1>25. ASSUME Reconnected
       PROVE  RelaysKept
  BY <1>25, <1>k DEF Reconnected, RelaysKept
<1>26. ASSUME ConnectionLost
       PROVE  RelaysInv'
  <2>1. /\ UNCHANGED <<pc, receivers, inbox, requests>> /\ wire' = {}
        /\ brokerSubs' = brokerSubs \/ \E r \in wire : brokerSubs' = SessionAfter(r)
    BY <1>26 DEF ConnectionLost
  <2> HIDE DEF Asked
  <2> QED
    BY <1>26, <2>1, SessionExpected DEF RelaysInv, Awaited, Expected, Acknowledged
<1>27. ASSUME SessionLost
       PROVE  RelaysKept
  BY <1>27, <1>k DEF SessionLost, StartShutdown, LoopDropped, RelaysKept
<1>28. ASSUME ListenerShutdown
       PROVE  RelaysKept
  BY <1>28, <1>k DEF ListenerShutdown, LoopDropped, RelaysKept
<1>29. ASSUME MainCheck
       PROVE  RelaysKept
  BY <1>29, <1>k DEF MainCheck, RelaysKept
<1>30. ASSUME ReconnectClient
       PROVE  RelaysKept
  BY <1>30, <1>k DEF ReconnectClient, RelaysKept
<1>31. ASSUME ReconnectOptions
       PROVE  RelaysKept
  BY <1>31, <1>k DEF ReconnectOptions, RelaysKept
<1>32. ASSUME ReconnectFails
       PROVE  RelaysKept
  BY <1>32, <1>k DEF ReconnectFails, RelaysKept
<1>33. ASSUME FailClient
       PROVE  RelaysKept
  BY <1>33, <1>k DEF FailClient, RelaysKept
<1>34. ASSUME CloseClient
       PROVE  RelaysKept
  BY <1>34, <1>k DEF CloseClient, RelaysKept
<1>35. ASSUME CloseFinish
       PROVE  RelaysKept
  BY <1>35, <1>k DEF CloseFinish, RelaysKept
<1>36. ASSUME UpdateBegin
       PROVE  RelaysKept
  BY <1>36, <1>k DEF UpdateBegin, RelaysKept
<1>37. ASSUME NEW new \in Options, UpdateOptions(new)
       PROVE  RelaysKept
  BY <1>37 DEF UpdateOptions
<1>38. ASSUME UpdateClient
       PROVE  RelaysKept
  BY <1>38, <1>k DEF UpdateClient, RelaysKept
<1>39. ASSUME UpdateSend
       PROVE  RelaysKept
  BY <1>39, <1>k DEF UpdateSend, RelaysKept
<1>40. ASSUME CloseBegin
       PROVE  RelaysKept
  BY <1>40, <1>k DEF CloseBegin, StartShutdown, RelaysKept
<1>41. ASSUME CloseSend
       PROVE  RelaysKept
  <2>1. UNCHANGED requests \/ \E a : \E kind \in {"publish", "disconnect"} : Send(kind, a)
    BY <1>41 DEF CloseSend, DisconnectOrWarn
  <2> QED
    BY <1>41, <1>k, <2>1 DEF CloseSend, RelaysKept
<1>42. ASSUME CloseDone
       PROVE  RelaysKept
  BY <1>42 DEF CloseDone, Open
<1>43. ASSUME UNCHANGED vars
       PROVE  RelaysKept
  BY <1>43, <1>k DEF vars, RelaysKept
<1> QED
  BY KeptRelays, <1>1, <1>2, <1>3, <1>4, <1>5, <1>6, <1>7, <1>8, <1>9, <1>10,
     <1>11, <1>12, <1>13, <1>14, <1>15, <1>16, <1>17, <1>18, <1>19, <1>20,
     <1>21, <1>22, <1>23, <1>24, <1>25, <1>26, <1>27, <1>28, <1>29, <1>30,
     <1>31, <1>32, <1>33, <1>34, <1>35, <1>36, <1>37, <1>38, <1>39, <1>40,
     <1>41, <1>42, <1>43
  DEF Next, SubscriberStep, RelayStep, PublisherStep, HealthStep, ListenerStep,
      MainStep, ControllerStep, CallerStep

LEMMA HoldersStep ==
  ASSUME Calm, TypeOK, EndInv, DriveInv, Open, RelaysInv, HoldersInv, [Next]_vars, Open'
  PROVE  HoldersInv'
<1>q. pc \in [Actors -> States] /\ owner \in [Locks -> Actors \cup {NoOne}]
  BY TypeParts DEF PlacesOK, RestOK
<1>m. /\ pc[Main] \notin {"reconnectClient", "reconnectOptions", "failClient"}
      /\ pc[Main] \notin {"shutClient", "shutSend"}
      /\ pc[Controller] \notin {"updateOptions", "updateClient", "updateSend"}
      /\ \A t \in Topics : pc[t] \in {"none", "starting", "listening"}
  BY DEF DriveInv, RelaysInv, Attended
<1>r. \A t \in Topics : pc'[t] \in {"none", "starting", "listening"}
  BY RelaysStep DEF RelaysInv, Attended
<1> USE <1>q, <1>m, <1>r, ActorsAssumption
    DEF HoldersInv, Actors, Locks, Goto, Acquire, Free, Release, DropGuards,
        manager, client, config, ending
<1>1. ASSUME NEW s \in Subscribers, SubscribeBegin(s)
      PROVE  HoldersInv'
  BY <1>1 DEF SubscribeBegin
<1>2. ASSUME NEW s \in Subscribers, SubscribeNotify(s)
      PROVE  HoldersInv'
  BY <1>2 DEF SubscribeNotify
<1>3. ASSUME NEW s \in Subscribers, SubscribeClient(s)
      PROVE  HoldersInv'
  BY <1>3 DEF SubscribeClient
<1>4. ASSUME NEW s \in Subscribers, SubscribeSend(s)
      PROVE  HoldersInv'
  BY <1>4 DEF SubscribeSend
<1>5. ASSUME NEW s \in Subscribers, SubscribeFails(s)
      PROVE  HoldersInv'
  BY <1>5 DEF SubscribeFails, StartShutdown
<1>6. ASSUME NEW s \in Subscribers, SubscribeAcked(s)
      PROVE  HoldersInv'
  BY <1>6 DEF SubscribeAcked
<1>7. ASSUME NEW s \in Subscribers, ReleaseSubscription(s)
      PROVE  HoldersInv'
  BY <1>7 DEF ReleaseSubscription
<1>8. ASSUME NEW t \in Topics, RelayStart(t)
      PROVE  HoldersInv'
  BY <1>8 DEF RelayStart
<1>9. ASSUME NEW t \in Topics, RelayReceives(t)
      PROVE  HoldersInv'
  BY <1>9 DEF RelayReceives
<1>10. ASSUME NEW t \in Topics, RelaySubscriptions(t)
       PROVE  HoldersInv'
  BY <1>10 DEF RelaySubscriptions
<1>11. ASSUME NEW t \in Topics, RelayClient(t)
       PROVE  HoldersInv'
  BY <1>11 DEF RelayClient
<1>12. ASSUME NEW t \in Topics, RelayNotify(t)
       PROVE  HoldersInv'
  BY <1>12 DEF RelayNotify
<1>13. ASSUME NEW t \in Topics, RelaySend(t)
       PROVE  HoldersInv'
  BY <1>13 DEF RelaySend
<1>14. ASSUME NEW t \in Topics, RelaySendFails(t)
       PROVE  HoldersInv'
  BY <1>14 DEF RelaySendFails, StartShutdown
<1>15. ASSUME NEW t \in Topics, RelayAcked(t)
       PROVE  HoldersInv'
  BY <1>15 DEF RelayAcked
<1>16. ASSUME NEW p \in Publishers, PublishBegin(p)
       PROVE  HoldersInv'
  BY <1>16 DEF PublishBegin
<1>17. ASSUME NEW p \in Publishers, PublishClient(p)
       PROVE  HoldersInv'
  BY <1>17 DEF PublishClient
<1>18. ASSUME NEW p \in Publishers, PublishSend(p)
       PROVE  HoldersInv'
  BY <1>18 DEF PublishSend
<1>19. ASSUME HealthTaskStopped
       PROVE  HoldersInv'
  BY <1>19 DEF HealthTaskStopped
<1>20. ASSUME NEW a \in {HealthTask, Main, Controller}, ShutdownClient(a)
       PROVE  HoldersInv'
  BY <1>20 DEF ShutdownClient
<1>21. ASSUME ListenerSends
       PROVE  HoldersInv'
  BY <1>21 DEF ListenerSends
<1>22. ASSUME ListenerDisconnects
       PROVE  HoldersInv'
  <2>1. pc[Main] = "listening" /\ UNCHANGED owner
    BY <1>22 DEF ListenerDisconnects, Listening
  <2>2. pc' = [pc EXCEPT ![Main] = "ended"]
    BY <1>22 DEF ListenerDisconnects
  <2> QED
    BY <2>1, <2>2
<1>23. ASSUME NEW r \in wire, ListenerAck(r)
       PROVE  HoldersInv'
  BY <1>23 DEF ListenerAck
<1>24. ASSUME NEW t \in Topics, ListenerReceives(t)
       PROVE  HoldersInv'
  BY <1>24 DEF ListenerReceives
<1>25. ASSUME Reconnected
       PROVE  HoldersInv'
  BY <1>25 DEF Reconnected
<1>26. ASSUME ConnectionLost
       PROVE  HoldersInv'
  BY <1>26 DEF ConnectionLost
<1>27. ASSUME SessionLost
       PROVE  HoldersInv'
  BY <1>27 DEF SessionLost, Calm
<1>28. ASSUME ListenerShutdown
       PROVE  HoldersInv'
  BY <1>28 DEF ListenerShutdown, LoopDropped
<1>29. ASSUME MainCheck
       PROVE  HoldersInv'
  BY <1>29 DEF MainCheck
<1>30. ASSUME ReconnectClient
       PROVE  HoldersInv'
  BY <1>30 DEF ReconnectClient
<1>31. ASSUME ReconnectOptions
       PROVE  HoldersInv'
  BY <1>31 DEF ReconnectOptions
<1>32. ASSUME ReconnectFails
       PROVE  HoldersInv'
  BY <1>32 DEF ReconnectFails
<1>33. ASSUME FailClient
       PROVE  HoldersInv'
  BY <1>33 DEF FailClient
<1>34. ASSUME CloseClient
       PROVE  HoldersInv'
  BY <1>34 DEF CloseClient
<1>35. ASSUME CloseFinish
       PROVE  HoldersInv'
  BY <1>35 DEF CloseFinish
<1>36. ASSUME UpdateBegin
       PROVE  HoldersInv'
  BY <1>36 DEF UpdateBegin
<1>37. ASSUME NEW new \in Options, UpdateOptions(new)
       PROVE  HoldersInv'
  BY <1>37 DEF UpdateOptions
<1>38. ASSUME UpdateClient
       PROVE  HoldersInv'
  BY <1>38 DEF UpdateClient
<1>39. ASSUME UpdateSend
       PROVE  HoldersInv'
  BY <1>39 DEF UpdateSend
<1>40. ASSUME CloseBegin
       PROVE  HoldersInv'
  BY <1>40 DEF CloseBegin, StartShutdown
<1>41. ASSUME CloseSend
       PROVE  HoldersInv'
  BY <1>41 DEF CloseSend
<1>42. ASSUME CloseDone
       PROVE  HoldersInv'
  BY <1>42 DEF CloseDone, Open
<1>43. ASSUME UNCHANGED vars
       PROVE  HoldersInv'
  BY <1>43 DEF vars
<1> QED
  BY <1>1, <1>2, <1>3, <1>4, <1>5, <1>6, <1>7, <1>8, <1>9, <1>10, <1>11,
     <1>12, <1>13, <1>14, <1>15, <1>16, <1>17, <1>18, <1>19, <1>20, <1>21,
     <1>22, <1>23, <1>24, <1>25, <1>26, <1>27, <1>28, <1>29, <1>30, <1>31,
     <1>32, <1>33, <1>34, <1>35, <1>36, <1>37, <1>38, <1>39, <1>40, <1>41,
     <1>42, <1>43
  DEF Next, SubscriberStep, RelayStep, PublisherStep, HealthStep, ListenerStep,
      MainStep, ControllerStep, CallerStep

LEMMA CalmStep ==
  ASSUME Calm, TypeOK, EndInv, DriveInv, CalmInv, [Next]_vars
  PROVE  CalmInv'
BY OpenBefore, RelaysStep, HoldersStep DEF CalmInv

(* Who waits for whom: the main task only for the holder of a dead client,   *)
(* the holder of the client only for the main task, that of the notify for   *)
(* those two, and everyone else for the three.                               *)
LEMMA CalmWaits ==
  ASSUME Calm, TypeOK, EndInv, DriveInv, Open, RelaysInv, HoldersInv,
         NEW a \in Actors, NEW b \in Actors, WaitsFor(a, b)
  PROVE  /\ b \in {Main, owner["client"], owner["notify"]}
         /\ a = owner["client"] => b = Main /\ alive
         /\ a = owner["notify"] => b \in {Main, owner["client"]}
         /\ a = Main => b = owner["client"] /\ ~alive
<1>1. b # NoOne
  BY ActorsAssumption
<1>2. MayStand(a, pc[a])
  BY TypeParts DEF PlacesOK
<1>3. pc[a] \notin {"relaySubscriptions", "relayNotify", "relayClient", "relaySend", "relayAck",
                    "updateOptions", "updateClient", "updateSend",
                    "reconnectOptions", "reconnectClient", "failClient"}
  BY <1>2, ActorsAssumption
     DEF Actors, MayStand, RelaysInv, DriveInv, Attended, SubscriberStates, PublisherStates,
         MainStates, ControllerStates
<1>4. \/ pc[a] = "subNotify" /\ b = owner["notify"]
      \/ pc[a] \in {"subClient", "pubClient", "shutClient", "closeClient"} /\ b = owner["client"]
      \/ pc[a] \in {"subSend", "pubSend", "shutSend"} /\ b = Main /\ alive
      \/ pc[a] \in {"subAck", "closing"} /\ b = Main
  BY <1>3 DEF WaitsFor, Wanted, NeedsMain, NeedsRoom
<1>5. a = owner["client"] => pc[a] \in {"subSend", "pubSend", "shutSend"}
  BY ActorsAssumption DEF HoldersInv
<1>6. a = owner["notify"] => pc[a] \in {"subClient", "subSend", "subAck"}
  BY ActorsAssumption DEF HoldersInv
<1>7. a = Main => pc[a] = "closeClient" \/ pc[a] \notin {"subNotify", "subClient", "pubClient",
                    "shutClient", "subSend", "pubSend", "shutSend", "subAck", "closing"}
  BY <1>2 DEF MayStand, MainStates, RelaysInv
<1>8. pc[Main] = "closeClient" => ~alive
  BY DEF EndInv
<1> QED
  BY <1>4, <1>5, <1>6, <1>7, <1>8

LEMMA CalmHasNoCycle ==
  ASSUME Calm, TypeOK, EndInv, DriveInv, CalmInv
  PROVE  NoCyclicWait
<1> SUFFICES ASSUME Open, NEW S \in SUBSET Blocked, S # {}
             PROVE  \E a \in S : \A b \in S : ~WaitsFor(a, b)
  BY DEF NoCyclicWait, Open
<1>1. RelaysInv /\ HoldersInv
  BY DEF CalmInv
<1>2. S \subseteq Actors /\ \A a \in S : \E b \in Actors : WaitsFor(a, b)
  BY DEF Blocked
<1>3. CASE Main \in S
  <2>1. ~alive
    BY <1>1, <1>2, <1>3, CalmWaits
  <2>2. owner["client"] \notin S
    BY <1>1, <1>2, <2>1, CalmWaits
  <2> QED
    BY <1>1, <1>2, <1>3, <2>2, CalmWaits
<1>4. CASE Main \notin S /\ owner["client"] \in S
  BY <1>1, <1>2, <1>4, CalmWaits
<1>5. CASE Main \notin S /\ owner["client"] \notin S /\ owner["notify"] \in S
  BY <1>1, <1>2, <1>5, CalmWaits
<1>6. CASE Main \notin S /\ owner["client"] \notin S /\ owner["notify"] \notin S
  BY <1>1, <1>2, <1>6, CalmWaits
<1> QED
  BY <1>3, <1>4, <1>5, <1>6

(* No set of tasks ever waits only for each other, for any number of callers *)
(* and topics and any capacity of the request channel: closing the manager   *)
(* and losing the connection at any moment cannot bring it about. What else  *)
(* the surroundings may do can, see the README.                              *)
THEOREM NobodyWaitsInACircle ==
  Environment \subseteq {"close", "drop"} => (Spec => []NoCyclicWait)
<1> SUFFICES ASSUME Calm
             PROVE  Spec => []NoCyclicWait
  BY DEF Calm
<1>0. "update" \notin Environment
  BY DEF Calm
<1>1. Init => TypeOK /\ EndInv /\ DriveInv /\ CalmInv
  BY TypeInit, EndInit, DriveInit, CalmInit
<1>2. TypeOK /\ EndInv /\ DriveInv /\ CalmInv /\ [Next]_vars
        => (TypeOK /\ EndInv /\ DriveInv /\ CalmInv)'
  BY <1>0, TypeStep, EndStep, DriveStep, CalmStep
<1>3. TypeOK /\ EndInv /\ DriveInv /\ CalmInv => NoCyclicWait
  BY CalmHasNoCycle
<1> QED
  BY <1>1, <1>2, <1>3, PTL DEF Spec
--------------------------------------------------------------------------------
(* The manager implements LockableNotify for its subscription lock: every   *)
(* step of Manager is a step of the abstract lock or leaves it alone.        *)

(* A client without event loop has nothing in its channel, and a closed      *)
(* manager is one whose shutdown is done.                                    *)
DeadInv ==
  /\ ~alive => requests = <<>> /\ wire = {}
  /\ pc[Controller] = "closed" => shutdown # "no"

LEMMA DeadInit == Init => DeadInv
  BY ActorsAssumption DEF Init, DeadInv, Actors

LEMMA DeadStep ==
  ASSUME TypeOK, EndInv, DeadInv, [Next]_vars
  PROVE  DeadInv'
<1>q. pc \in [Actors -> States]
  BY TypeParts DEF PlacesOK
<1> USE <1>q, ActorsAssumption DEF DeadInv, Actors, Goto, client, ending
<1>1. ASSUME NEW s \in Subscribers, SubscribeBegin(s)
      PROVE  DeadInv'
  BY <1>1 DEF SubscribeBegin
<1>2. ASSUME NEW s \in Subscribers, SubscribeNotify(s)
      PROVE  DeadInv'
  BY <1>2 DEF SubscribeNotify
<1>3. ASSUME NEW s \in Subscribers, SubscribeClient(s)
      PROVE  DeadInv'
  BY <1>3 DEF SubscribeClient
<1>4. ASSUME NEW s \in Subscribers, SubscribeSend(s)
      PROVE  DeadInv'
  BY <1>4 DEF SubscribeSend, Send
<1>5. ASSUME NEW s \in Subscribers, SubscribeFails(s)
      PROVE  DeadInv'
  BY <1>5 DEF SubscribeFails, StartShutdown
<1>6. ASSUME NEW s \in Subscribers, SubscribeAcked(s)
      PROVE  DeadInv'
  BY <1>6 DEF SubscribeAcked
<1>7. ASSUME NEW s \in Subscribers, ReleaseSubscription(s)
      PROVE  DeadInv'
  BY <1>7 DEF ReleaseSubscription
<1>8. ASSUME NEW t \in Topics, RelayStart(t)
      PROVE  DeadInv'
  BY <1>8 DEF RelayStart
<1>9. ASSUME NEW t \in Topics, RelayReceives(t)
      PROVE  DeadInv'
  BY <1>9 DEF RelayReceives
<1>10. ASSUME NEW t \in Topics, RelaySubscriptions(t)
       PROVE  DeadInv'
  BY <1>10 DEF RelaySubscriptions
<1>11. ASSUME NEW t \in Topics, RelayClient(t)
       PROVE  DeadInv'
  BY <1>11 DEF RelayClient
<1>12. ASSUME NEW t \in Topics, RelayNotify(t)
       PROVE  DeadInv'
  BY <1>12 DEF RelayNotify
<1>13. ASSUME NEW t \in Topics, RelaySend(t)
       PROVE  DeadInv'
  BY <1>13 DEF RelaySend, Send
<1>14. ASSUME NEW t \in Topics, RelaySendFails(t)
       PROVE  DeadInv'
  BY <1>14 DEF RelaySendFails, StartShutdown
<1>15. ASSUME NEW t \in Topics, RelayAcked(t)
       PROVE  DeadInv'
  BY <1>15 DEF RelayAcked
<1>16. ASSUME NEW p \in Publishers, PublishBegin(p)
       PROVE  DeadInv'
  BY <1>16 DEF PublishBegin
<1>17. ASSUME NEW p \in Publishers, PublishClient(p)
       PROVE  DeadInv'
  BY <1>17 DEF PublishClient
<1>18. ASSUME NEW p \in Publishers, PublishSend(p)
       PROVE  DeadInv'
  BY <1>18 DEF PublishSend, Send
<1>19. ASSUME HealthTaskStopped
       PROVE  DeadInv'
  BY <1>19 DEF HealthTaskStopped, DisconnectOrWarn, Send
<1>20. ASSUME NEW a \in {HealthTask, Main, Controller}, ShutdownClient(a)
       PROVE  DeadInv'
  BY <1>20 DEF ShutdownClient
<1>21. ASSUME ListenerSends
       PROVE  DeadInv'
  BY <1>21 DEF ListenerSends, Listening, EndInv
<1>22. ASSUME ListenerDisconnects
       PROVE  DeadInv'
  BY <1>22 DEF ListenerDisconnects, LoopDropped, Listening
<1>23. ASSUME NEW r \in wire, ListenerAck(r)
       PROVE  DeadInv'
  BY <1>23 DEF ListenerAck, Listening, EndInv
<1>24. ASSUME NEW t \in Topics, ListenerReceives(t)
       PROVE  DeadInv'
  BY <1>24 DEF ListenerReceives, Listening
<1>25. ASSUME Reconnected
       PROVE  DeadInv'
  BY <1>25 DEF Reconnected, Listening
<1>26. ASSUME ConnectionLost
       PROVE  DeadInv'
  BY <1>26 DEF ConnectionLost, Listening
<1>27. ASSUME SessionLost
       PROVE  DeadInv'
  BY <1>27 DEF SessionLost, StartShutdown, LoopDropped, Listening
<1>28. ASSUME ListenerShutdown
       PROVE  DeadInv'
  BY <1>28 DEF ListenerShutdown, LoopDropped
<1>29. ASSUME MainCheck
       PROVE  DeadInv'
  BY <1>29 DEF MainCheck
<1>30. ASSUME ReconnectClient
       PROVE  DeadInv'
  BY <1>30 DEF ReconnectClient
<1>31. ASSUME ReconnectOptions
       PROVE  DeadInv'
  BY <1>31 DEF ReconnectOptions
<1>32. ASSUME ReconnectFails
       PROVE  DeadInv'
  BY <1>32 DEF ReconnectFails
<1>33. ASSUME FailClient
       PROVE  DeadInv'
  BY <1>33 DEF FailClient
<1>34. ASSUME CloseClient
       PROVE  DeadInv'
  BY <1>34 DEF CloseClient
<1>35. ASSUME CloseFinish
       PROVE  DeadInv'
  BY <1>35 DEF CloseFinish
<1>36. ASSUME UpdateBegin
       PROVE  DeadInv'
  BY <1>36 DEF UpdateBegin
<1>37. ASSUME NEW new \in Options, UpdateOptions(new)
       PROVE  DeadInv'
  BY <1>37 DEF UpdateOptions
<1>38. ASSUME UpdateClient
       PROVE  DeadInv'
  BY <1>38 DEF UpdateClient
<1>39. ASSUME UpdateSend
       PROVE  DeadInv'
  BY <1>39 DEF UpdateSend, DisconnectOrWarn, Send
<1>40. ASSUME CloseBegin
       PROVE  DeadInv'
  BY <1>40 DEF CloseBegin, StartShutdown
<1>41. ASSUME CloseSend
       PROVE  DeadInv'
  BY <1>41 DEF CloseSend, DisconnectOrWarn, Send
<1>42. ASSUME CloseDone
       PROVE  DeadInv'
  BY <1>42 DEF CloseDone
<1>43. CASE UNCHANGED vars
  BY <1>43 DEF vars
<1> QED
  BY <1>1, <1>2, <1>3, <1>4, <1>5, <1>6, <1>7, <1>8, <1>9, <1>10, <1>11, <1>12,
     <1>13, <1>14, <1>15, <1>16, <1>17, <1>18, <1>19, <1>20, <1>21, <1>22,
     <1>23, <1>24, <1>25, <1>26, <1>27, <1>28, <1>29, <1>30, <1>31, <1>32,
     <1>33, <1>34, <1>35, <1>36, <1>37, <1>38, <1>39, <1>40, <1>41, <1>42, <1>43
  DEF Next, SubscriberStep, RelayStep, PublisherStep, HealthStep, ListenerStep,
      MainStep, ControllerStep, CallerStep

(* What a step of the manager is for the subscription lock.                  *)
LockStutters == UNCHANGED SubscriptionLock!notify
LockMoves == LockStutters \/ SubscriptionLock!Next

IsClosed == pc[Controller] = "closed"

LEMMA UnderWayQueued == UnderWay = {r.by : r \in wire} \cup {requests[i].by : i \in Queued}
  BY DEF UnderWay, Queued

LEMMA UnderWayQueuedNext ==
  UnderWay' = {r.by : r \in wire'} \cup {requests'[i].by : i \in Queued'}
  BY DEF UnderWay, Queued

(* What FlightInv says in the terms of the abstract lock.                    *)
LEMMA FlightMapped ==
  ASSUME LockInv, FlightInv, EndInv, DeadInv
  PROVE  /\ IsClosed => UnderWay = {} /\ ~alive
         /\ ~IsClosed =>
              \/ UnderWay = {} /\ permit = NoOne
              \/ /\ pc[owner["notify"]] \in AwaitsAck /\ owner["notify"] \in Actors
                 /\ \/ UnderWay = {} /\ permit = owner["notify"]
                    \/ UnderWay = {owner["notify"]} /\ permit = NoOne
<1>1. CASE IsClosed
  <2>1. requests = <<>> /\ wire = {} /\ ~alive
    BY <1>1 DEF IsClosed, DeadInv, EndInv
  <2>2. Queued = {}
    BY <2>1 DEF Queued
  <2> QED
    BY <1>1, <2>1, <2>2, UnderWayQueued
<1>2. CASE ~IsClosed
  <2>1. CASE NoneInFlight
    BY <1>2, <2>1, UnderWayQueued DEF NoneInFlight
  <2>2. ASSUME NEW b \in Actors, owner["notify"] = b, pc[b] \in AwaitsAck, InFlight(b)
        PROVE  /\ pc[b] \in AwaitsAck
               /\ \/ UnderWay = {} /\ permit = b
                  \/ UnderWay = {b} /\ permit = NoOne
    BY <2>2, UnderWayQueued DEF InFlight
  <2> QED
    BY <1>2, <2>1, <2>2 DEF FlightInv, IsClosed
<1> QED
  BY <1>1, <1>2

(* A step that leaves the lock, what is sent and what counts as work alone.  *)
LEMMA Leaves ==
  ASSUME UNCHANGED <<permit, wire>>, SameQueued, owner'["notify"] = owner["notify"],
         IsClosed' = IsClosed
  PROVE  LockMoves
<1>1. UnderWay' = UnderWay
  BY UnderWayQueued, UnderWayQueuedNext DEF SameQueued
<1> QED
  BY <1>1 DEF LockMoves, LockStutters, SubscriptionLock!notify, IsClosed

(* A request moves from the channel to the connection.                       *)
LEMMA SendsLeaves ==
  ASSUME TypeOK, ListenerSends
  PROVE  UnderWay' = UnderWay
<1>q. QueueOK /\ requests # <<>>
  BY TypeParts DEF ListenerSends
<1>1. \A i \in DOMAIN requests : i = 1 \/ (i - 1 \in DOMAIN requests' /\ requests'[i - 1] = requests[i])
  BY <1>q, HeadAndTail DEF ListenerSends, QueueOK
<1>2. \A i \in DOMAIN requests' : i + 1 \in DOMAIN requests /\ requests'[i] = requests[i + 1] /\ i + 1 # 1
  BY <1>q, HeadAndTail DEF ListenerSends, QueueOK
<1>3. 1 \in DOMAIN requests /\ requests[1] = Head(requests)
  BY <1>q, HeadAndTail DEF QueueOK
<1>4. ASSUME NEW b \in UnderWay
      PROVE  b \in UnderWay'
  BY <1>1, <1>3, UnderWayQueued, UnderWayQueuedNext DEF ListenerSends, Queued
<1>5. ASSUME NEW b \in UnderWay'
      PROVE  b \in UnderWay
  BY <1>2, <1>3, UnderWayQueued, UnderWayQueuedNext DEF ListenerSends, Queued
<1> QED
  BY <1>4, <1>5

(* What was sent is lost, with what was queued or without it.                *)
LEMMA Loses ==
  ASSUME LockInv, FlightInv, EndInv, DeadInv, UNCHANGED permit, wire' = {},
         requests' = <<>> \/ UNCHANGED requests, owner'["notify"] = owner["notify"],
         IsClosed' = IsClosed
  PROVE  LockMoves
<1>1. UnderWay' = {} \/ UnderWay' = UnderWay
  <2>1. CASE requests' = <<>>
    BY <2>1, UnderWayQueuedNext DEF Queued
  <2>2. CASE UNCHANGED requests
    <3>1. Queued' = Queued
      BY <2>2 DEF Queued
    <3>2. CASE wire = {}
      BY <2>2, <3>1, <3>2, UnderWayQueued, UnderWayQueuedNext
    <3>3. CASE Queued = {}
      BY <3>1, <3>3, UnderWayQueuedNext
    <3>4. wire = {} \/ Queued = {}
      <4>1. CASE IsClosed
        BY <4>1 DEF IsClosed, DeadInv, EndInv
      <4> QED
        BY <4>1 DEF FlightInv, NoneInFlight, InFlight, IsClosed
    <3> QED
      BY <3>2, <3>3, <3>4
  <2> QED
    BY <2>1, <2>2
<1> QED
  BY <1>1 DEF LockMoves, LockStutters, SubscriptionLock!notify, SubscriptionLock!Next,
              SubscriptionLock!Lose, IsClosed

(* The lock is taken.                                                        *)
LEMMA Takes ==
  ASSUME TypeOK, NEW a \in Actors, a # Controller, Acquire("notify", a),
         UNCHANGED <<permit, wire, requests>>, IsClosed' = IsClosed
  PROVE  LockMoves
<1>1. owner["notify"] = NoOne /\ owner'["notify"] = a
  BY TypeParts DEF RestOK, Acquire, Free, Locks
<1>2. UnderWay' = UnderWay
  BY UnderWayQueued, UnderWayQueuedNext DEF Queued
<1> QED
  BY <1>1, <1>2 DEF LockMoves, SubscriptionLock!Next, SubscriptionLock!Lock, IsClosed

(* The holder queues its work.                                               *)
LEMMA Queues ==
  ASSUME TypeOK, LockInv, FlightInv, EndInv, DeadInv,
         NEW a \in Actors, NEW kind \in {"subscribe", "unsubscribe"}, Send(kind, a),
         pc[a] \in {"subSend", "relaySend"}, owner'["notify"] = owner["notify"],
         UNCHANGED <<permit, wire>>, IsClosed' = IsClosed
  PROVE  LockMoves
<1>q. QueueOK
  BY TypeParts
<1>h. owner["notify"] = a
  BY DEF LockInv, HoldsNotify
<1>1. ~IsClosed
  BY FlightMapped DEF Send
<1>2. UnderWay = {} /\ permit = NoOne
  BY <1>1, <1>h, FlightMapped DEF AwaitsAck
<1>3. UnderWay' = {a}
  <2> DEFINE r == [kind |-> kind, by |-> a]
             last == Len(requests) + 1
  <2>1. /\ DOMAIN requests' = DOMAIN requests \cup {last}
        /\ \A i \in DOMAIN requests : requests'[i] = requests[i]
        /\ requests'[last] = r
    BY <1>q DEF Send, QueueOK
  <2> HIDE DEF last
  <2>2. Queued = {} /\ wire = {}
    BY <1>2, UnderWayQueued
  <2>3. Queued' = {last}
    BY <2>1, <2>2 DEF Queued, Acknowledged
  <2> QED
    BY <2>1, <2>2, <2>3, UnderWayQueuedNext
<1> QED
  BY <1>1, <1>2, <1>3, <1>h
  DEF LockMoves, SubscriptionLock!Next, SubscriptionLock!Queue, IsClosed

(* The acknowledgement is for the one task whose work is under way.          *)
LEMMA Notifies ==
  ASSUME TypeOK, LockInv, FlightInv, EndInv, DeadInv, NEW r \in wire, ListenerAck(r)
  PROVE  LockMoves
<1>1. ~IsClosed
  BY FlightMapped, UnderWayQueued
<1>2. PICK b \in Actors : wire = {r} /\ r.by = b /\ Queued = {} /\ permit = NoOne
  BY <1>1 DEF FlightInv, NoneInFlight, InFlight, IsClosed
<1>3. UnderWay = {b}
  BY <1>2, UnderWayQueued
<1>4. UnderWay' = {}
  <2>1. Queued' = {} /\ wire' = {}
    BY <1>2 DEF ListenerAck, Queued
  <2> QED
    BY <2>1, UnderWayQueuedNext
<1> QED
  BY <1>1, <1>2, <1>3, <1>4
  DEF LockMoves, SubscriptionLock!Next, SubscriptionLock!Notify, IsClosed, ListenerAck

(* The holder is woken by the permit of its own work.                        *)
LEMMA Wakes ==
  ASSUME TypeOK, LockInv, FlightInv, EndInv, DeadInv, NEW a \in Actors, a # Controller,
         pc[a] \in AwaitsAck, permit # NoOne, permit' = NoOne, DropGuards(a),
         UNCHANGED <<wire, requests>>, IsClosed' = IsClosed
  PROVE  LockMoves
<1>1. owner["notify"] = a /\ owner'["notify"] = NoOne
  BY TypeParts DEF LockInv, HoldsNotify, AwaitsAck, RestOK, DropGuards, Locks
<1>2. UnderWay' = UnderWay
  BY UnderWayQueued, UnderWayQueuedNext DEF Queued
<1>3. IsClosed \/ permit = a
  BY <1>1, FlightMapped
<1> QED
  BY <1>1, <1>2, <1>3
  DEF LockMoves, SubscriptionLock!Next, SubscriptionLock!Notified, IsClosed

(* A task that does not wait lets go of what it holds, which may be the lock. *)
LEMMA GivesUp ==
  ASSUME TypeOK, LockInv, FlightInv, EndInv, DeadInv, NEW a \in Actors,
         pc[a] \notin AwaitsAck, DropGuards(a), UNCHANGED <<permit, wire>>,
         SameQueued, IsClosed' = IsClosed
  PROVE  LockMoves
<1>1. owner'["notify"] = IF owner["notify"] = a THEN NoOne ELSE owner["notify"]
  BY TypeParts DEF RestOK, DropGuards, Locks
<1>2. UnderWay' = UnderWay
  BY UnderWayQueued, UnderWayQueuedNext DEF SameQueued
<1>3. CASE owner["notify"] = a
  <2>1. IsClosed \/ (UnderWay = {} /\ permit = NoOne)
    BY <1>3, FlightMapped
  <2> QED
    BY <1>1, <1>2, <1>3, <2>1
    DEF LockMoves, SubscriptionLock!Next, SubscriptionLock!GiveUp, IsClosed
<1>4. CASE owner["notify"] # a
  BY <1>1, <1>4, Leaves
<1> QED
  BY <1>3, <1>4

(* Closing finds nothing under way.                                          *)
LEMMA Closes ==
  ASSUME TypeOK, EndInv, DeadInv, CloseDone
  PROVE  LockMoves
<1>1. owner'["notify"] \in {owner["notify"], NoOne}
  BY TypeParts DEF RestOK, CloseDone, DropGuards, Locks
<1>2. requests = <<>> /\ wire = {} /\ UNCHANGED <<requests, wire, permit>>
  BY DEF EndInv, DeadInv, CloseDone, client
<1>3. UnderWay = {} /\ UnderWay' = {}
  BY <1>2, UnderWayQueued, UnderWayQueuedNext DEF Queued
<1>4. IsClosed'
  BY TypeParts, ActorsAssumption DEF CloseDone, IsClosed, PlacesOK, Actors
<1> QED
  BY <1>1, <1>2, <1>3, <1>4
  DEF LockMoves, SubscriptionLock!Next, SubscriptionLock!Close, IsClosed

(* Every step of the manager is one of the lock, or leaves it alone.         *)
LEMMA LockSimulation ==
  ASSUME TypeOK, LockInv, FlightInv, EndInv, DeadInv, [Next]_vars
  PROVE  LockMoves
<1>q. /\ QueueOK
      /\ pc \in [Actors -> States]
      /\ owner \in [Locks -> Actors \cup {NoOne}]
  BY TypeParts DEF PlacesOK, RestOK
<1> USE <1>q, ActorsAssumption DEF Actors, Locks, Goto, Acquire, Release, Free, IsClosed
<1>1. ASSUME NEW s \in Subscribers, SubscribeBegin(s)
      PROVE  LockMoves
  <2>1. SameQueued /\ UNCHANGED <<permit, wire>>
    BY <1>1 DEF SubscribeBegin, SameQueued, Queued, manager, client
  <2>2. owner'["notify"] = owner["notify"] /\ IsClosed' = IsClosed
    BY <1>1 DEF SubscribeBegin, manager
  <2> QED
    BY <2>1, <2>2, Leaves
<1>2. ASSUME NEW s \in Subscribers, SubscribeNotify(s)
      PROVE  LockMoves
  <2>1. IsClosed' = IsClosed
    BY <1>2 DEF SubscribeNotify
  <2> QED
    BY <1>2, <2>1, Takes DEF SubscribeNotify, client
<1>3. ASSUME NEW s \in Subscribers, SubscribeClient(s)
      PROVE  LockMoves
  <2>1. SameQueued /\ UNCHANGED <<permit, wire>>
    BY <1>3 DEF SubscribeClient, SameQueued, Queued, manager, client
  <2>2. owner'["notify"] = owner["notify"] /\ IsClosed' = IsClosed
    BY <1>3 DEF SubscribeClient, manager
  <2> QED
    BY <2>1, <2>2, Leaves
<1>4. ASSUME NEW s \in Subscribers, SubscribeSend(s)
      PROVE  LockMoves
  <2>1. owner'["notify"] = owner["notify"] /\ IsClosed' = IsClosed
    BY <1>4 DEF SubscribeSend, manager
  <2> QED
    BY <1>4, <2>1, Queues DEF SubscribeSend, manager
<1>5. ASSUME NEW s \in Subscribers, SubscribeFails(s)
      PROVE  LockMoves
  <2>1. IsClosed' = IsClosed
    BY <1>5 DEF SubscribeFails, StartShutdown
  <2>2. SameQueued
    BY <1>5 DEF SubscribeFails, client, SameQueued, Queued
  <2> QED
    BY <1>5, <2>1, <2>2, GivesUp DEF SubscribeFails, AwaitsAck, client
<1>6. ASSUME NEW s \in Subscribers, SubscribeAcked(s)
      PROVE  LockMoves
  <2>1. IsClosed' = IsClosed /\ s # Controller
    BY <1>6 DEF SubscribeAcked
  <2> QED
    BY <1>6, <2>1, Wakes DEF SubscribeAcked, AwaitsAck, client
<1>7. ASSUME NEW s \in Subscribers, ReleaseSubscription(s)
      PROVE  LockMoves
  <2>1. SameQueued /\ UNCHANGED <<permit, wire>>
    BY <1>7 DEF ReleaseSubscription, SameQueued, Queued, manager, client
  <2>2. owner'["notify"] = owner["notify"] /\ IsClosed' = IsClosed
    BY <1>7 DEF ReleaseSubscription, manager
  <2> QED
    BY <2>1, <2>2, Leaves
<1>8. ASSUME NEW t \in Topics, RelayStart(t)
      PROVE  LockMoves
  <2>1. SameQueued /\ UNCHANGED <<permit, wire>>
    BY <1>8 DEF RelayStart, SameQueued, Queued, manager, client
  <2>2. owner'["notify"] = owner["notify"] /\ IsClosed' = IsClosed
    BY <1>8 DEF RelayStart, manager
  <2> QED
    BY <2>1, <2>2, Leaves
<1>9. ASSUME NEW t \in Topics, RelayReceives(t)
      PROVE  LockMoves
  <2>1. SameQueued /\ UNCHANGED <<permit, wire>>
    BY <1>9 DEF RelayReceives, SameQueued, Queued, manager, client
  <2>2. owner'["notify"] = owner["notify"] /\ IsClosed' = IsClosed
    BY <1>9 DEF RelayReceives, manager
  <2> QED
    BY <2>1, <2>2, Leaves
<1>10. ASSUME NEW t \in Topics, RelaySubscriptions(t)
       PROVE  LockMoves
  <2>1. SameQueued /\ UNCHANGED <<permit, wire>>
    BY <1>10 DEF RelaySubscriptions, SameQueued, Queued, manager, client
  <2>2. owner'["notify"] = owner["notify"] /\ IsClosed' = IsClosed
    BY <1>10 DEF RelaySubscriptions, manager
  <2> QED
    BY <2>1, <2>2, Leaves
<1>11. ASSUME NEW t \in Topics, RelayClient(t)
       PROVE  LockMoves
  <2>1. SameQueued /\ UNCHANGED <<permit, wire>>
    BY <1>11 DEF RelayClient, SameQueued, Queued, manager, client
  <2>2. owner'["notify"] = owner["notify"] /\ IsClosed' = IsClosed
    BY <1>11 DEF RelayClient, manager
  <2> QED
    BY <2>1, <2>2, Leaves
<1>12. ASSUME NEW t \in Topics, RelayNotify(t)
       PROVE  LockMoves
  <2>1. IsClosed' = IsClosed
    BY <1>12 DEF RelayNotify
  <2> QED
    BY <1>12, <2>1, Takes DEF RelayNotify, client
<1>13. ASSUME NEW t \in Topics, RelaySend(t)
       PROVE  LockMoves
  <2>1. owner'["notify"] = owner["notify"] /\ IsClosed' = IsClosed
    BY <1>13 DEF RelaySend, manager
  <2> QED
    BY <1>13, <2>1, Queues DEF RelaySend, manager
<1>14. ASSUME NEW t \in Topics, RelaySendFails(t)
       PROVE  LockMoves
  <2>1. SameQueued /\ UNCHANGED <<permit, wire>>
    BY <1>14 DEF RelaySendFails, SameQueued, Queued, manager, client
  <2>2. owner'["notify"] = owner["notify"] /\ IsClosed' = IsClosed
    BY <1>14 DEF RelaySendFails, StartShutdown, manager
  <2> QED
    BY <2>1, <2>2, Leaves
<1>15. ASSUME NEW t \in Topics, RelayAcked(t)
       PROVE  LockMoves
  <2>1. IsClosed' = IsClosed /\ t # Controller
    BY <1>15 DEF RelayAcked
  <2> QED
    BY <1>15, <2>1, Wakes DEF RelayAcked, AwaitsAck, client
<1>16. ASSUME NEW p \in Publishers, PublishBegin(p)
       PROVE  LockMoves
  <2>1. SameQueued /\ UNCHANGED <<permit, wire>>
    BY <1>16 DEF PublishBegin, SameQueued, Queued, manager, client
  <2>2. owner'["notify"] = owner["notify"] /\ IsClosed' = IsClosed
    BY <1>16 DEF PublishBegin, manager
  <2> QED
    BY <2>1, <2>2, Leaves
<1>17. ASSUME NEW p \in Publishers, PublishClient(p)
       PROVE  LockMoves
  <2>1. SameQueued /\ UNCHANGED <<permit, wire>>
    BY <1>17 DEF PublishClient, SameQueued, Queued, manager, client
  <2>2. owner'["notify"] = owner["notify"] /\ IsClosed' = IsClosed
    BY <1>17 DEF PublishClient, manager
  <2> QED
    BY <2>1, <2>2, Leaves
<1>18. ASSUME NEW p \in Publishers, PublishSend(p)
       PROVE  LockMoves
  <2>1. SameQueued /\ UNCHANGED <<permit, wire>>
    BY <1>18, SendOther DEF PublishSend, SameQueued, Queued, Acknowledged
  <2>2. owner'["notify"] = owner["notify"] /\ IsClosed' = IsClosed
    BY <1>18 DEF PublishSend
  <2> QED
    BY <2>1, <2>2, Leaves
<1>19. ASSUME HealthTaskStopped
       PROVE  LockMoves
  <2>1. SameQueued /\ UNCHANGED <<permit, wire>>
    BY <1>19, DisconnectOther DEF HealthTaskStopped, SameQueued, Queued
  <2>2. owner'["notify"] = owner["notify"] /\ IsClosed' = IsClosed
    BY <1>19 DEF HealthTaskStopped
  <2> QED
    BY <2>1, <2>2, Leaves
<1>20. ASSUME NEW a \in {HealthTask, Main, Controller}, ShutdownClient(a)
       PROVE  LockMoves
  <2>1. SameQueued /\ UNCHANGED <<permit, wire>>
    BY <1>20 DEF ShutdownClient, SameQueued, Queued, manager, client
  <2>2. owner'["notify"] = owner["notify"] /\ IsClosed' = IsClosed
    BY <1>20 DEF ShutdownClient, manager
  <2> QED
    BY <2>1, <2>2, Leaves
<1>21. ASSUME ListenerSends
       PROVE  LockMoves
  <2>1. UnderWay' = UnderWay
    BY <1>21, SendsLeaves
  <2> QED
    BY <1>21, <2>1 DEF ListenerSends, manager, LockMoves, LockStutters, SubscriptionLock!notify
<1>22. ASSUME ListenerDisconnects
       PROVE  LockMoves
  <2>1. owner'["notify"] = owner["notify"] /\ IsClosed' = IsClosed
    BY <1>22 DEF ListenerDisconnects, LoopDropped, Listening, manager
  <2> QED
    BY <1>22, <2>1, Loses DEF ListenerDisconnects, LoopDropped, Listening, manager
<1>23. ASSUME NEW r \in wire, ListenerAck(r)
       PROVE  LockMoves
  BY <1>23, Notifies
<1>24. ASSUME NEW t \in Topics, ListenerReceives(t)
       PROVE  LockMoves
  <2>1. SameQueued /\ UNCHANGED <<permit, wire>>
    BY <1>24 DEF ListenerReceives, SameQueued, Queued, manager, client
  <2>2. owner'["notify"] = owner["notify"] /\ IsClosed' = IsClosed
    BY <1>24 DEF ListenerReceives, manager
  <2> QED
    BY <2>1, <2>2, Leaves
<1>25. ASSUME Reconnected
       PROVE  LockMoves
  <2>1. SameQueued /\ UNCHANGED <<permit, wire>>
    BY <1>25 DEF Reconnected, SameQueued, Queued, manager, client
  <2>2. owner'["notify"] = owner["notify"] /\ IsClosed' = IsClosed
    BY <1>25 DEF Reconnected, Listening, manager
  <2> QED
    BY <2>1, <2>2, Leaves
<1>26. ASSUME ConnectionLost
       PROVE  LockMoves
  <2>1. owner'["notify"] = owner["notify"] /\ IsClosed' = IsClosed
    BY <1>26 DEF ConnectionLost, Listening, manager
  <2> QED
    BY <1>26, <2>1, Loses DEF ConnectionLost, Listening, manager
<1>27. ASSUME SessionLost
       PROVE  LockMoves
  <2>1. owner'["notify"] = owner["notify"] /\ permit' = permit /\ IsClosed' = IsClosed
    BY <1>27 DEF SessionLost, StartShutdown, Listening, manager
  <2>2. CASE reason = NoOne
    <3>1. SameQueued /\ wire' = wire
      BY <1>27, <2>2 DEF SessionLost, SameQueued, Queued
    <3> QED
      BY <2>1, <3>1, Leaves
  <2>3. CASE reason # NoOne
    BY <1>27, <2>1, <2>3, Loses DEF SessionLost, LoopDropped
  <2> QED
    BY <2>2, <2>3
<1>28. ASSUME ListenerShutdown
       PROVE  LockMoves
  <2>1. owner'["notify"] = owner["notify"] /\ IsClosed' = IsClosed
    BY <1>28 DEF ListenerShutdown, LoopDropped, manager
  <2> QED
    BY <1>28, <2>1, Loses DEF ListenerShutdown, LoopDropped, manager
<1>29. ASSUME MainCheck
       PROVE  LockMoves
  <2>1. SameQueued /\ UNCHANGED <<permit, wire>>
    BY <1>29 DEF MainCheck, SameQueued, Queued, manager, client
  <2>2. owner'["notify"] = owner["notify"] /\ IsClosed' = IsClosed
    BY <1>29 DEF MainCheck, manager
  <2> QED
    BY <2>1, <2>2, Leaves
<1>30. ASSUME ReconnectClient
       PROVE  LockMoves
  <2>1. SameQueued /\ UNCHANGED <<permit, wire>>
    BY <1>30 DEF ReconnectClient, SameQueued, Queued, manager, client
  <2>2. owner'["notify"] = owner["notify"] /\ IsClosed' = IsClosed
    BY <1>30 DEF ReconnectClient, manager
  <2> QED
    BY <2>1, <2>2, Leaves
<1>31. ASSUME ReconnectOptions
       PROVE  LockMoves
  <2>1. SameQueued /\ UNCHANGED <<permit, wire>>
    BY <1>31 DEF ReconnectOptions, SameQueued, Queued, manager, client
  <2>2. owner'["notify"] = owner["notify"] /\ IsClosed' = IsClosed
    BY <1>31 DEF ReconnectOptions, manager
  <2> QED
    BY <2>1, <2>2, Leaves
<1>32. ASSUME ReconnectFails
       PROVE  LockMoves
  <2>1. SameQueued /\ UNCHANGED <<permit, wire>>
    BY <1>32 DEF ReconnectFails, SameQueued, Queued, manager, client
  <2>2. owner'["notify"] = owner["notify"] /\ IsClosed' = IsClosed
    BY <1>32 DEF ReconnectFails, manager
  <2> QED
    BY <2>1, <2>2, Leaves
<1>33. ASSUME FailClient
       PROVE  LockMoves
  <2>1. SameQueued /\ UNCHANGED <<permit, wire>>
    BY <1>33 DEF FailClient, SameQueued, Queued, manager, client
  <2>2. owner'["notify"] = owner["notify"] /\ IsClosed' = IsClosed
    BY <1>33 DEF FailClient, manager
  <2> QED
    BY <2>1, <2>2, Leaves
<1>34. ASSUME CloseClient
       PROVE  LockMoves
  <2>1. SameQueued /\ UNCHANGED <<permit, wire>>
    BY <1>34 DEF CloseClient, SameQueued, Queued, manager, client
  <2>2. owner'["notify"] = owner["notify"] /\ IsClosed' = IsClosed
    BY <1>34 DEF CloseClient, manager
  <2> QED
    BY <2>1, <2>2, Leaves
<1>35. ASSUME CloseFinish
       PROVE  LockMoves
  <2>1. SameQueued /\ UNCHANGED <<permit, wire>>
    BY <1>35 DEF CloseFinish, SameQueued, Queued, manager, client
  <2>2. owner'["notify"] = owner["notify"] /\ IsClosed' = IsClosed
    BY <1>35 DEF CloseFinish, manager
  <2> QED
    BY <2>1, <2>2, Leaves
<1>36. ASSUME UpdateBegin
       PROVE  LockMoves
  <2>1. SameQueued /\ UNCHANGED <<permit, wire>>
    BY <1>36 DEF UpdateBegin, SameQueued, Queued, manager, client
  <2>2. owner'["notify"] = owner["notify"] /\ IsClosed' = IsClosed
    BY <1>36 DEF UpdateBegin, manager
  <2> QED
    BY <2>1, <2>2, Leaves
<1>37. ASSUME NEW new \in Options, UpdateOptions(new)
       PROVE  LockMoves
  <2>1. SameQueued /\ UNCHANGED <<permit, wire>>
    BY <1>37 DEF UpdateOptions, SameQueued, Queued, manager, client
  <2>2. owner'["notify"] = owner["notify"] /\ IsClosed' = IsClosed
    BY <1>37 DEF UpdateOptions, manager
  <2> QED
    BY <2>1, <2>2, Leaves
<1>38. ASSUME UpdateClient
       PROVE  LockMoves
  <2>1. SameQueued /\ UNCHANGED <<permit, wire>>
    BY <1>38 DEF UpdateClient, SameQueued, Queued, manager, client
  <2>2. owner'["notify"] = owner["notify"] /\ IsClosed' = IsClosed
    BY <1>38 DEF UpdateClient, manager
  <2> QED
    BY <2>1, <2>2, Leaves
<1>39. ASSUME UpdateSend
       PROVE  LockMoves
  <2>1. IsClosed' = IsClosed
    BY <1>39 DEF UpdateSend
  <2>2. SameQueued
    BY <1>39, DisconnectOther DEF UpdateSend
  <2> QED
    BY <1>39, <2>1, <2>2, GivesUp DEF UpdateSend, AwaitsAck
<1>40. ASSUME CloseBegin
       PROVE  LockMoves
  <2>1. SameQueued /\ UNCHANGED <<permit, wire>>
    BY <1>40 DEF CloseBegin, SameQueued, Queued, manager, client
  <2>2. owner'["notify"] = owner["notify"] /\ IsClosed' = IsClosed
    BY <1>40 DEF CloseBegin, StartShutdown, manager
  <2> QED
    BY <2>1, <2>2, Leaves
<1>41. ASSUME CloseSend
       PROVE  LockMoves
  <2>1. SameQueued /\ UNCHANGED <<permit, wire>>
    BY <1>41, DisconnectOther DEF CloseSend, SameQueued, Queued
  <2>2. owner'["notify"] = owner["notify"] /\ IsClosed' = IsClosed
    BY <1>41 DEF CloseSend
  <2> QED
    BY <2>1, <2>2, Leaves
<1>42. ASSUME CloseDone
       PROVE  LockMoves
  BY <1>42, Closes
<1>43. CASE UNCHANGED vars
  <2>1. SameQueued /\ UNCHANGED <<permit, wire, owner>> /\ IsClosed' = IsClosed
    BY <1>43 DEF vars, manager, client, SameQueued, Queued
  <2> QED
    BY <2>1, Leaves
<1> QED
  BY <1>1, <1>2, <1>3, <1>4, <1>5, <1>6, <1>7, <1>8, <1>9, <1>10, <1>11, <1>12,
     <1>13, <1>14, <1>15, <1>16, <1>17, <1>18, <1>19, <1>20, <1>21, <1>22,
     <1>23, <1>24, <1>25, <1>26, <1>27, <1>28, <1>29, <1>30, <1>31, <1>32,
     <1>33, <1>34, <1>35, <1>36, <1>37, <1>38, <1>39, <1>40, <1>41, <1>42, <1>43
  DEF Next, SubscriberStep, RelayStep, PublisherStep, HealthStep, ListenerStep,
      MainStep, ControllerStep, CallerStep

(* The subscription lock keeps the contract of LockableNotify: work that a   *)
(* task queues under the lock wakes that task and no other, whatever the     *)
(* listener loses and however the manager shuts down.                        *)
THEOREM ImplementsLockableNotify == Spec => IsLockableNotify
<1> DEFINE Inv == TypeOK /\ LockInv /\ FlightInv /\ EndInv /\ DeadInv
<1>1. Init => Inv
  BY TypeInit, LockInit, FlightInit, EndInit, DeadInit
<1>2. Inv /\ [Next]_vars => Inv'
  BY TypeStep, LockStep, FlightStep, EndStep, DeadStep
<1>3. Init => SubscriptionLock!Init
  <2> SUFFICES ASSUME Init
               PROVE  SubscriptionLock!Init
    OBVIOUS
  <2>1. UnderWay = {}
    BY DEF Init, UnderWay
  <2> QED
    BY <2>1, ActorsAssumption DEF Init, Actors, Locks, SubscriptionLock!Init
<1>4. Inv /\ [Next]_vars => [SubscriptionLock!Next]_(SubscriptionLock!notify)
  BY LockSimulation DEF LockMoves, LockStutters
<1> QED
  BY <1>1, <1>2, <1>3, <1>4, PTL DEF Spec, IsLockableNotify, SubscriptionLock!Spec
================================================================================
