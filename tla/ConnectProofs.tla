----------------------------- MODULE ConnectProofs -----------------------------
(***************************************************************************)
(* What the handshake establishes, for any topics and whatever an earlier  *)
(* manager or attempt has left at the broker: the manager of Manager, so   *)
(* that everything proved about that holds of one that has just connected. *)
(***************************************************************************)
EXTENDS Connect, TLAPS

(* What the broker has after each step of an attempt.                        *)
AttemptInv ==
  /\ phase \in Connecting \cup Leaving \cup {"done", "failed"}
  /\ phase \in {"leaveClear", "create", "leaveCreate", "resume"} => brokerSubs = {}
  /\ phase \in {"leaveClear", "create"} /\ ~troubled => ~persistent
  /\ phase \in {"leaveCreate", "resume"} /\ ~troubled => persistent
  /\ LeftoversDoNotMatter

LEMMA AttemptInit == ConnectInit => AttemptInv
BY DEF ConnectInit, AttemptInv, Connecting, LeftoversDoNotMatter

LEMMA AttemptStep ==
  ASSUME AttemptInv, [ConnectNext]_allVars
  PROVE  AttemptInv'
<1> USE DEF AttemptInv, Connecting, Leaving, LeftoversDoNotMatter
<1>1. CASE ConnAckArrives
  BY <1>1 DEF ConnAckArrives, Accepts, Present
<1>2. CASE ConnAckLost
  BY <1>2 DEF ConnAckLost, Accepts, Present
<1>3. CASE Refused
  BY <1>3 DEF Refused, Fails
<1>4. CASE DisconnectSent
  BY <1>4 DEF DisconnectSent
<1>5. CASE ConnectionBreaks
  BY <1>5 DEF ConnectionBreaks, Fails
<1>6. CASE StartTimesOut
  BY <1>6 DEF StartTimesOut, Fails
<1>7. CASE BrokerForgets
  BY <1>7 DEF BrokerForgets
<1>8. CASE Retry
  BY <1>8 DEF Retry
<1>9. CASE phase = "done" /\ UNCHANGED attempt
  BY <1>9 DEF attempt
<1>10. CASE UNCHANGED allVars
  BY <1>10 DEF allVars, attempt, vars, client
<1> QED
  BY <1>1, <1>2, <1>3, <1>4, <1>5, <1>6, <1>7, <1>8, <1>9, <1>10 DEF ConnectNext, Attempt

(* What is left at the broker never makes an attempt fail, whatever it is.   *)
THEOREM AttemptsCanSucceed == ConnectSpec => []LeftoversDoNotMatter
<1>1. AttemptInv => LeftoversDoNotMatter
  BY DEF AttemptInv
<1> QED BY <1>1, AttemptInit, AttemptStep, PTL DEF ConnectSpec

(* Until the manager is handed over it is new, and stays so.                 *)
LEMMA AttemptIsQuiet ==
  ASSUME AttemptInv, Attempt, NotYetRunning
  PROVE  UNCHANGED NewManager!vars
<1>1. /\ UNCHANGED <<pc, manager, requests, wire, alive, connected, config, ending>>
  BY DEF NotYetRunning
<1>2. phase # "done"
  BY DEF Attempt, ConnAckArrives, ConnAckLost, Refused, DisconnectSent, ConnectionBreaks,
         StartTimesOut, BrokerForgets, Retry, Connecting, Leaving
<1>3. phase' = "done" => brokerSubs' = {}
  BY DEF Attempt, ConnAckArrives, ConnAckLost, Refused, DisconnectSent, ConnectionBreaks,
         StartTimesOut, BrokerForgets, Retry, Connecting, Leaving, Accepts, Present, Fails,
         AttemptInv
<1> QED
  BY <1>1, <1>2, <1>3
  DEF NewManager!vars, NewManager!manager, NewManager!client, NewManager!config,
      NewManager!ending, manager, config, ending

(* From then on it takes the steps of Manager.                               *)
LEMMA ManagerStep ==
  ASSUME phase = "done", Next, UNCHANGED attempt
  PROVE  NewManager!Next
<1> USE DEF attempt, manager, client, config, ending,
            NewManager!manager, NewManager!client, NewManager!config, NewManager!ending
<1>1. ASSUME NEW s \in Subscribers, SubscribeBegin(s)
      PROVE  NewManager!SubscribeBegin(s)
  BY <1>1 DEF SubscribeBegin, Free, Goto, Acquire, NewManager!SubscribeBegin,
     NewManager!Free, NewManager!Goto, NewManager!Acquire
<1>2. ASSUME NEW s \in Subscribers, SubscribeNotify(s)
      PROVE  NewManager!SubscribeNotify(s)
  BY <1>2 DEF SubscribeNotify, Goto, Acquire, Free, NewManager!SubscribeNotify,
     NewManager!Goto, NewManager!Acquire, NewManager!Free
<1>3. ASSUME NEW s \in Subscribers, SubscribeClient(s)
      PROVE  NewManager!SubscribeClient(s)
  BY <1>3 DEF SubscribeClient, Goto, Acquire, Free, NewManager!SubscribeClient,
     NewManager!Goto, NewManager!Acquire, NewManager!Free
<1>4. ASSUME NEW s \in Subscribers, SubscribeSend(s)
      PROVE  NewManager!SubscribeSend(s)
  BY <1>4 DEF SubscribeSend, Goto, Send, Release, NewManager!SubscribeSend,
     NewManager!Goto, NewManager!Send, NewManager!Release
<1>5. ASSUME NEW s \in Subscribers, SubscribeFails(s)
      PROVE  NewManager!SubscribeFails(s)
  BY <1>5 DEF SubscribeFails, Goto, DropGuards, StartShutdown, Locks,
     NewManager!SubscribeFails, NewManager!Goto, NewManager!DropGuards,
     NewManager!StartShutdown, NewManager!Locks
<1>6. ASSUME NEW s \in Subscribers, SubscribeAcked(s)
      PROVE  NewManager!SubscribeAcked(s)
  BY <1>6 DEF SubscribeAcked, Goto, DropGuards, Locks, NewManager!SubscribeAcked,
     NewManager!Goto, NewManager!DropGuards, NewManager!Locks
<1>7. ASSUME NEW s \in Subscribers, ReleaseSubscription(s)
      PROVE  NewManager!ReleaseSubscription(s)
  BY <1>7 DEF ReleaseSubscription, Goto, NewManager!ReleaseSubscription, NewManager!Goto
<1>8. ASSUME NEW t \in Topics, RelayStart(t)
      PROVE  NewManager!RelayStart(t)
  BY <1>8 DEF RelayStart, Goto, NewManager!RelayStart, NewManager!Goto
<1>9. ASSUME NEW t \in Topics, RelayReceives(t)
      PROVE  NewManager!RelayReceives(t)
  BY <1>9 DEF RelayReceives, Goto, NewManager!RelayReceives, NewManager!Goto
<1>10. ASSUME NEW t \in Topics, RelaySubscriptions(t)
       PROVE  NewManager!RelaySubscriptions(t)
  BY <1>10 DEF RelaySubscriptions, Goto, Acquire, Free, NewManager!RelaySubscriptions,
     NewManager!Goto, NewManager!Acquire, NewManager!Free
<1>11. ASSUME NEW t \in Topics, RelayClient(t)
       PROVE  NewManager!RelayClient(t)
  BY <1>11 DEF RelayClient, Goto, Acquire, Free, NewManager!RelayClient,
     NewManager!Goto, NewManager!Acquire, NewManager!Free
<1>12. ASSUME NEW t \in Topics, RelayNotify(t)
       PROVE  NewManager!RelayNotify(t)
  BY <1>12 DEF RelayNotify, Goto, Acquire, Free, NewManager!RelayNotify,
     NewManager!Goto, NewManager!Acquire, NewManager!Free
<1>13. ASSUME NEW t \in Topics, RelaySend(t)
       PROVE  NewManager!RelaySend(t)
  BY <1>13 DEF RelaySend, Goto, Send, NewManager!RelaySend, NewManager!Goto,
     NewManager!Send
<1>14. ASSUME NEW t \in Topics, RelaySendFails(t)
       PROVE  NewManager!RelaySendFails(t)
  BY <1>14 DEF RelaySendFails, StartShutdown, Goto, NewManager!RelaySendFails,
     NewManager!StartShutdown, NewManager!Goto
<1>15. ASSUME NEW t \in Topics, RelayAcked(t)
       PROVE  NewManager!RelayAcked(t)
  BY <1>15 DEF RelayAcked, Goto, DropGuards, Locks, NewManager!RelayAcked,
     NewManager!Goto, NewManager!DropGuards, NewManager!Locks
<1>16. ASSUME NEW p \in Publishers, PublishBegin(p)
       PROVE  NewManager!PublishBegin(p)
  BY <1>16 DEF PublishBegin, Free, Goto, NewManager!PublishBegin, NewManager!Free,
     NewManager!Goto
<1>17. ASSUME NEW p \in Publishers, PublishClient(p)
       PROVE  NewManager!PublishClient(p)
  BY <1>17 DEF PublishClient, Goto, Acquire, Free, NewManager!PublishClient,
     NewManager!Goto, NewManager!Acquire, NewManager!Free
<1>18. ASSUME NEW p \in Publishers, PublishSend(p)
       PROVE  NewManager!PublishSend(p)
  BY <1>18 DEF PublishSend, Goto, Send, Release, NewManager!PublishSend,
     NewManager!Goto, NewManager!Send, NewManager!Release
<1>19. ASSUME HealthTaskStopped
       PROVE  NewManager!HealthTaskStopped
  BY <1>19 DEF HealthTaskStopped, Goto, Release, DisconnectOrWarn, Send,
     NewManager!HealthTaskStopped, NewManager!Goto, NewManager!Release,
     NewManager!DisconnectOrWarn, NewManager!Send
<1>20. ASSUME NEW a \in {HealthTask, Main, Controller}, ShutdownClient(a)
       PROVE  NewManager!ShutdownClient(a)
  BY <1>20 DEF ShutdownClient, Goto, Acquire, Free, NewManager!ShutdownClient,
     NewManager!Goto, NewManager!Acquire, NewManager!Free
<1>21. ASSUME ListenerSends
       PROVE  NewManager!ListenerSends
  BY <1>21 DEF ListenerSends, Listening, Acknowledged, NewManager!ListenerSends,
     NewManager!Listening, NewManager!Acknowledged
<1>22. ASSUME ListenerDisconnects
       PROVE  NewManager!ListenerDisconnects
  BY <1>22 DEF ListenerDisconnects, Listening, LoopDropped, Goto,
     NewManager!ListenerDisconnects, NewManager!Listening, NewManager!LoopDropped,
     NewManager!Goto
<1>23. ASSUME NEW r \in wire, ListenerAck(r)
       PROVE  NewManager!ListenerAck(r)
  BY <1>23 DEF ListenerAck, Listening, SessionAfter, TopicOfRequest,
     NewManager!ListenerAck, NewManager!Listening, NewManager!SessionAfter,
     NewManager!TopicOfRequest
<1>24. ASSUME NEW t \in Topics, ListenerReceives(t)
       PROVE  NewManager!ListenerReceives(t)
  BY <1>24 DEF ListenerReceives, Listening, NewManager!ListenerReceives,
     NewManager!Listening
<1>25. ASSUME Reconnected
       PROVE  NewManager!Reconnected
  BY <1>25 DEF Reconnected, Listening, NewManager!Reconnected, NewManager!Listening
<1>26. ASSUME ConnectionLost
       PROVE  NewManager!ConnectionLost
  BY <1>26 DEF ConnectionLost, Listening, SessionAfter, TopicOfRequest,
     NewManager!ConnectionLost, NewManager!Listening, NewManager!SessionAfter,
     NewManager!TopicOfRequest
<1>27. ASSUME SessionLost
       PROVE  NewManager!SessionLost
  BY <1>27 DEF SessionLost, Listening, LoopDropped, StartShutdown, Goto,
     NewManager!SessionLost, NewManager!Listening, NewManager!LoopDropped,
     NewManager!StartShutdown, NewManager!Goto
<1>28. ASSUME ListenerShutdown
       PROVE  NewManager!ListenerShutdown
  BY <1>28 DEF ListenerShutdown, Release, LoopDropped, Goto,
     NewManager!ListenerShutdown, NewManager!Release, NewManager!LoopDropped,
     NewManager!Goto
<1>29. ASSUME MainCheck
       PROVE  NewManager!MainCheck
  BY <1>29 DEF MainCheck, Goto, NewManager!MainCheck, NewManager!Goto
<1>30. ASSUME ReconnectClient
       PROVE  NewManager!ReconnectClient
  BY <1>30 DEF ReconnectClient, Goto, Acquire, Free, NewManager!ReconnectClient,
     NewManager!Goto, NewManager!Acquire, NewManager!Free
<1>31. ASSUME ReconnectOptions
       PROVE  NewManager!ReconnectOptions
  BY <1>31 DEF ReconnectOptions, Free, Release, Goto, NewManager!ReconnectOptions,
     NewManager!Free, NewManager!Release, NewManager!Goto
<1>32. ASSUME ReconnectFails
       PROVE  NewManager!ReconnectFails
  BY <1>32 DEF ReconnectFails, Free, Release, Goto, NewManager!ReconnectFails,
     NewManager!Free, NewManager!Release, NewManager!Goto
<1>33. ASSUME FailClient
       PROVE  NewManager!FailClient
  BY <1>33 DEF FailClient, Free, Goto, NewManager!FailClient, NewManager!Free,
     NewManager!Goto
<1>34. ASSUME CloseClient
       PROVE  NewManager!CloseClient
  BY <1>34 DEF CloseClient, Free, Goto, NewManager!CloseClient, NewManager!Free,
     NewManager!Goto
<1>35. ASSUME CloseFinish
       PROVE  NewManager!CloseFinish
  BY <1>35 DEF CloseFinish, Goto, NewManager!CloseFinish, NewManager!Goto
<1>36. ASSUME UpdateBegin
       PROVE  NewManager!UpdateBegin
  BY <1>36 DEF UpdateBegin, Goto, NewManager!UpdateBegin, NewManager!Goto
<1>37. ASSUME NEW new \in Options, UpdateOptions(new)
       PROVE  NewManager!UpdateOptions(new)
  BY <1>37 DEF UpdateOptions, Free, Goto, Acquire, NewManager!UpdateOptions,
     NewManager!Free, NewManager!Goto, NewManager!Acquire
<1>38. ASSUME UpdateClient
       PROVE  NewManager!UpdateClient
  BY <1>38 DEF UpdateClient, Goto, Acquire, Free, NewManager!UpdateClient,
     NewManager!Goto, NewManager!Acquire, NewManager!Free
<1>39. ASSUME UpdateSend
       PROVE  NewManager!UpdateSend
  BY <1>39 DEF UpdateSend, DisconnectOrWarn, Send, DropGuards, Goto, Locks,
     NewManager!UpdateSend, NewManager!DisconnectOrWarn, NewManager!Send,
     NewManager!DropGuards, NewManager!Goto, NewManager!Locks
<1>40. ASSUME CloseBegin
       PROVE  NewManager!CloseBegin
  BY <1>40 DEF CloseBegin, StartShutdown, Goto, NewManager!CloseBegin,
     NewManager!StartShutdown, NewManager!Goto
<1>41. ASSUME CloseSend
       PROVE  NewManager!CloseSend
  BY <1>41 DEF CloseSend, DisconnectOrWarn, Send, Release, Goto, NewManager!CloseSend,
     NewManager!DisconnectOrWarn, NewManager!Send, NewManager!Release, NewManager!Goto
<1>42. ASSUME CloseDone
       PROVE  NewManager!CloseDone
  BY <1>42 DEF CloseDone, DropGuards, Locks, NewManager!CloseDone,
     NewManager!DropGuards, NewManager!Locks
<1> QED
  BY <1>1, <1>2, <1>3, <1>4, <1>5, <1>6, <1>7, <1>8, <1>9, <1>10, <1>11, <1>12,
     <1>13, <1>14, <1>15, <1>16, <1>17, <1>18, <1>19, <1>20, <1>21, <1>22,
     <1>23, <1>24, <1>25, <1>26, <1>27, <1>28, <1>29, <1>30, <1>31, <1>32,
     <1>33, <1>34, <1>35, <1>36, <1>37, <1>38, <1>39, <1>40, <1>41, <1>42
  DEF Next, SubscriberStep, RelayStep, PublisherStep, HealthStep, ListenerStep,
      MainStep, ControllerStep, CallerStep, NewManager!Next,
      NewManager!SubscriberStep, NewManager!RelayStep, NewManager!PublisherStep,
      NewManager!HealthStep, NewManager!ListenerStep, NewManager!MainStep,
      NewManager!ControllerStep, NewManager!CallerStep

(* Whatever an earlier manager or attempt has left, and however attempts     *)
(* fail, a manager that is handed over is a new one of Manager.              *)
THEOREM ImplementsManager == ConnectSpec => IsManager
<1>1. ConnectInit => AttemptInv /\ NewManager!Init
  BY AttemptInit DEF ConnectInit
<1>2. AttemptInv /\ [ConnectNext]_allVars => AttemptInv'
  BY AttemptStep
<1>3. AttemptInv /\ [ConnectNext]_allVars => [NewManager!Next]_(NewManager!vars)
  <2> SUFFICES ASSUME AttemptInv, [ConnectNext]_allVars
               PROVE  NewManager!Next \/ UNCHANGED NewManager!vars
    OBVIOUS
  <2>1. CASE Attempt /\ NotYetRunning
    BY <2>1, AttemptIsQuiet
  <2>2. CASE phase = "done" /\ Next /\ UNCHANGED attempt
    BY <2>2, ManagerStep
  <2>3. CASE UNCHANGED allVars
    BY <2>3
    DEF allVars, attempt, vars, manager, client, config, ending, NewManager!vars,
        NewManager!manager, NewManager!client, NewManager!config, NewManager!ending
  <2> QED BY <2>1, <2>2, <2>3 DEF ConnectNext
<1> QED
  BY <1>1, <1>2, <1>3, PTL DEF ConnectSpec, IsManager, NewManager!Spec
================================================================================
