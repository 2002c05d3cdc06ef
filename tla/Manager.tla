-------------------------------- MODULE Manager --------------------------------
(***************************************************************************)
(* The connection of one Zigbee2MQTT instance (mqtt/manager.rs): the main  *)
(* task with its listener, the health check task, the callers that         *)
(* subscribe and publish, the relay task of every subscribed topic, and    *)
(* the reconciler that updates the options and closes the manager.         *)
(*                                                                         *)
(* One action is the code between two awaits that can block: a tokio mutex,*)
(* the bounded request channel of rumqttc, the notification of the         *)
(* subscription lock, the watch channel of the shutdown.                   *)
(***************************************************************************)
EXTENDS Naturals, Sequences, FiniteSets

CONSTANTS
  Topics,           \* topics that get subscribed; also the names of their relay tasks
  Subscribers,      \* callers of subscribe_topic, HealthTask among them
  Publishers,       \* callers of publish
  HealthTask,       \* the healthcheck task: its failure shuts the manager down
  Main,             \* the main task, which runs the listener
  Controller,       \* the reconciler of the instance: update_options and close
  TopicOf,          \* the topic each subscriber asks for
  Options,          \* the option sets a resource may be edited to
  IdentityOf,       \* client id, host, port and base topic of an option set
  BadOptions,       \* option sets to_rumqtt rejects (no usable credentials)
  RequestCapacity,  \* capacity of the request channel of a client
  Environment,      \* what the surroundings may do, see EnvironmentKinds
  NoOne             \* no actor

EnvironmentKinds ==
  {"close",         \* the reconciler closes the manager
   "update",        \* the reconciler passes on edited options
   "release",       \* a caller drops its subscription
   "lag",           \* a relay falls behind the events of the listener
   "drop",          \* the connection to the broker is lost
   "session_loss"}  \* the broker forgets the session

Actors == Subscribers \cup Topics \cup Publishers \cup {Main, Controller}

ASSUME ActorsAssumption ==
  /\ HealthTask \in Subscribers
  /\ TopicOf \in [Subscribers -> Topics]
  /\ Subscribers \cap Topics = {}
  /\ Subscribers \cap Publishers = {}
  /\ Topics \cap Publishers = {}
  /\ Main \notin Subscribers \cup Topics \cup Publishers
  /\ Controller \notin Subscribers \cup Topics \cup Publishers
  /\ Main # Controller
  /\ NoOne \notin Actors

ASSUME OptionsAssumption ==
  /\ Options # {}
  /\ BadOptions \subseteq Options
  /\ Options \ BadOptions # {}
  /\ DOMAIN IdentityOf = Options

ASSUME BoundsAssumption ==
  /\ RequestCapacity \in Nat \ {0}
  /\ Environment \subseteq EnvironmentKinds

VARIABLES
  pc,             \* where each actor stands
  owner,          \* who holds each mutex
  permit,         \* the stored permit of the Notify: whose (un)subscribe produced it
  receivers,      \* the live receivers of the sender stored for a topic
  inbox,          \* what the event receiver of a topic's relay holds for it
  requests,       \* the request channel of the current client
  wire,           \* (un)subscribe packets sent and not yet acknowledged
  alive,          \* the event loop of the current client has not been dropped
  connected,      \* the event loop has a connection to the broker
  brokerSubs,     \* the subscriptions in the session at the broker
  options,        \* Manager.options
  clientOptions,  \* the options the current client was made from
  reason,         \* shutdown_reason: the actor that set it
  shutdown,       \* the shutdown_done watch, and how it came about
  mainReceiver    \* what the receiver task_main opens at the end has got

manager == <<owner, permit, receivers, inbox>>
client  == <<requests, wire, alive, connected, brokerSubs>>
config  == <<options, clientOptions>>
ending  == <<reason, shutdown, mainReceiver>>
vars    == <<pc, manager, client, config, ending>>

Locks == {"options", "subscriptions", "client", "notify"}

SubscriberStates ==
  {"idle", "subNotify", "subClient", "subSend", "subAck", "subscribed",
   "shutClient", "shutSend", "stopped"}
RelayStates ==
  {"none", "starting", "listening", "relaySubscriptions", "relayClient",
   "relayNotify", "relaySend", "relayAck", "shutClient"}
PublisherStates == {"idle", "pubClient", "pubSend"}
MainStates ==
  {"listening", "shutClient", "shutSend", "ended", "reconnectClient",
   "reconnectOptions", "failClient", "closeClient", "closeWait", "stopped"}
ControllerStates ==
  {"idle", "updateOptions", "updateClient", "updateSend",
   "shutClient", "shutSend", "closing", "closed"}

(* A request of the channel and of the connection: what, and who queued it. *)
Request ==
  [kind : {"subscribe"}, by : Subscribers]
    \cup [kind : {"unsubscribe"}, by : Topics]
    \cup [kind : {"publish", "disconnect"}, by : Actors]
Acknowledged(r) == r.kind \in {"subscribe", "unsubscribe"}
TopicOfRequest(r) == IF r.by \in Topics THEN r.by ELSE TopicOf[r.by]

(* The one type invariant. *)
TypeOK ==
  /\ pc \in [Actors -> SubscriberStates \cup RelayStates \cup PublisherStates
                         \cup MainStates \cup ControllerStates]
  /\ \A s \in Subscribers : pc[s] \in SubscriberStates
  /\ \A t \in Topics : pc[t] \in RelayStates
  /\ \A p \in Publishers : pc[p] \in PublisherStates
  /\ pc[Main] \in MainStates
  /\ pc[Controller] \in ControllerStates
  /\ owner \in [Locks -> Actors \cup {NoOne}]
  /\ permit \in Actors \cup {NoOne}
  /\ receivers \in [Topics -> SUBSET Subscribers]
  /\ inbox \in [Topics -> {"empty", "message", "lagged"}]
  /\ requests \in Seq(Request)
  /\ Len(requests) <= RequestCapacity
  /\ wire \subseteq Request
  /\ alive \in BOOLEAN
  /\ connected \in BOOLEAN
  /\ brokerSubs \subseteq Topics
  /\ options \in Options
  /\ clientOptions \in Options
  /\ reason \in Actors \cup {NoOne}
  /\ shutdown \in {"no", "event", "timeout", "dropped"}
  /\ mainReceiver \in {"none", "empty", "disconnect"}

(* Manager::new returns with its client connected and no subscriptions. *)
Init ==
  /\ pc = [a \in Actors |->
             IF a \in Topics THEN "none"
             ELSE IF a = Main THEN "listening" ELSE "idle"]
  /\ owner = [l \in Locks |-> NoOne]
  /\ permit = NoOne
  /\ receivers = [t \in Topics |-> {}]
  /\ inbox = [t \in Topics |-> "empty"]
  /\ requests = <<>>
  /\ wire = {}
  /\ alive = TRUE
  /\ connected = TRUE
  /\ brokerSubs = {}
  /\ options \in Options \ BadOptions
  /\ clientOptions = options
  /\ reason = NoOne
  /\ shutdown = "no"
  /\ mainReceiver = "none"

--------------------------------------------------------------------------------
(* Locks, the request channel and start_shutdown. *)

Free(l) == owner[l] = NoOne
Goto(a, state) == pc' = [pc EXCEPT ![a] = state]
Acquire(l, a) == Free(l) /\ owner' = [owner EXCEPT ![l] = a]
Release(l) == owner' = [owner EXCEPT ![l] = NoOne]
(* The guards an actor holds are dropped when its scope ends. *)
DropGuards(a) ==
  owner' = [l \in Locks |-> IF owner[l] = a THEN NoOne ELSE owner[l]]

(* Mutant: the channel is not bounded. *)
SendUnbounded(kind, a) ==
  /\ alive
  /\ requests' = Append(requests, [kind |-> kind, by |-> a])

Send(kind, a) ==
  /\ alive
  /\ Len(requests) < RequestCapacity
  /\ requests' = Append(requests, [kind |-> kind, by |-> a])

(* Mutant: a full channel is taken for an error too. *)
TryDisconnectOrWarn(a) ==
  \/ Send("disconnect", a)
  \/ (~alive \/ Len(requests) = RequestCapacity) /\ UNCHANGED requests

(* client_disconnect_or_warn: an error is only logged. *)
DisconnectOrWarn(a) ==
  \/ Send("disconnect", a)
  \/ ~alive /\ UNCHANGED requests

(* Mutant: a later caller replaces the reason. *)
StartShutdownAgain(a, otherwise) ==
  /\ reason' = a
  /\ Goto(a, "shutClient")

(* start_shutdown up to the client lock: only the first caller goes on. *)
StartShutdown(a, otherwise) ==
  /\ reason' = IF reason = NoOne THEN a ELSE reason
  /\ Goto(a, IF reason = NoOne THEN "shutClient" ELSE otherwise)

ShutdownClient(a) ==
  /\ pc[a] = "shutClient"
  /\ Acquire("client", a)
  /\ Goto(a, "shutSend")
  /\ UNCHANGED <<permit, receivers, inbox, client, config, ending>>

(* The event loop is dropped with the connection and all that was queued. *)
LoopDropped ==
  /\ alive' = FALSE
  /\ connected' = FALSE
  /\ requests' = <<>>
  /\ wire' = {}

--------------------------------------------------------------------------------
(* subscribe_topic *)

(* The receiver is taken from the stored sender, or the sender is stored and *)
(* its relay spawned; only the latter lets go of the subscriptions.          *)
SubscribeBegin(s) ==
  LET t == TopicOf[s] IN
  /\ pc[s] = "idle"
  /\ Free("options")
  /\ Free("subscriptions")
  /\ receivers' = [receivers EXCEPT ![t] = @ \cup {s}]
  /\ IF pc[t] = "none"
       THEN /\ pc' = [pc EXCEPT ![s] = "subNotify", ![t] = "starting"]
            /\ UNCHANGED owner
       ELSE /\ Goto(s, "subNotify")
            /\ Acquire("subscriptions", s)
  /\ UNCHANGED <<permit, inbox, client, config, ending>>

(* Mutant: a topic that has a relay is not subscribed to again. *)
SubscribeOnce(s) ==
  /\ pc[s] = "subNotify"
  /\ IF owner["subscriptions"] = s
       THEN DropGuards(s) /\ Goto(s, "subscribed")
       ELSE Acquire("notify", s) /\ Goto(s, "subClient")
  /\ UNCHANGED <<permit, receivers, inbox, client, config, ending>>

SubscribeNotify(s) ==
  /\ pc[s] = "subNotify"
  /\ Acquire("notify", s)
  /\ Goto(s, "subClient")
  /\ UNCHANGED <<permit, receivers, inbox, client, config, ending>>

SubscribeClient(s) ==
  /\ pc[s] = "subClient"
  /\ Acquire("client", s)
  /\ Goto(s, "subSend")
  /\ UNCHANGED <<permit, receivers, inbox, client, config, ending>>

(* Mutant: the subscription lock is let go of with the client lock. *)
SubscribeSendUnlocked(s) ==
  /\ pc[s] = "subSend"
  /\ Send("subscribe", s)
  /\ DropGuards(s)
  /\ Goto(s, "subAck")
  /\ UNCHANGED <<permit, receivers, inbox, wire, alive, connected, brokerSubs,
                 config, ending>>

(* Mutant: the client lock is kept until the acknowledgement. *)
SubscribeSendLocked(s) ==
  /\ pc[s] = "subSend"
  /\ Send("subscribe", s)
  /\ Goto(s, "subAck")
  /\ UNCHANGED <<manager, wire, alive, connected, brokerSubs, config, ending>>

SubscribeSend(s) ==
  /\ pc[s] = "subSend"
  /\ Send("subscribe", s)
  /\ Release("client")
  /\ Goto(s, "subAck")
  /\ UNCHANGED <<permit, receivers, inbox, wire, alive, connected, brokerSubs,
                 config, ending>>

(* The early return: guards and receiver are dropped. An error of the      *)
(* health check ends its task, which shuts the manager down.               *)
SubscribeFails(s) ==
  /\ pc[s] = "subSend"
  /\ ~alive
  /\ DropGuards(s)
  /\ receivers' = [receivers EXCEPT ![TopicOf[s]] = @ \ {s}]
  /\ IF s = HealthTask
       THEN StartShutdown(s, "stopped")
       ELSE Goto(s, "idle") /\ UNCHANGED reason
  /\ UNCHANGED <<permit, inbox, client, config, shutdown, mainReceiver>>

SubscribeAcked(s) ==
  /\ pc[s] = "subAck"
  /\ permit # NoOne
  /\ permit' = NoOne
  /\ DropGuards(s)
  /\ Goto(s, "subscribed")
  /\ UNCHANGED <<receivers, inbox, client, config, ending>>

(* The caller drops its TopicSubscription. *)
ReleaseSubscription(s) ==
  /\ "release" \in Environment
  /\ s # HealthTask
  /\ pc[s] = "subscribed"
  /\ receivers' = [receivers EXCEPT ![TopicOf[s]] = @ \ {s}]
  /\ Goto(s, "idle")
  /\ UNCHANGED <<owner, permit, inbox, client, config, ending>>

(* The failed health check, once start_shutdown has the client. *)
HealthTaskStopped ==
  /\ pc[HealthTask] = "shutSend"
  /\ DisconnectOrWarn(HealthTask)
  /\ Release("client")
  /\ Goto(HealthTask, "stopped")
  /\ UNCHANGED <<permit, receivers, inbox, wire, alive, connected, brokerSubs,
                 config, ending>>

--------------------------------------------------------------------------------
(* The relay of a topic *)

RelayStart(t) ==
  /\ pc[t] = "starting"
  /\ Goto(t, "listening")
  /\ UNCHANGED <<manager, client, config, ending>>

(* Mutant: the last receiver counts as none. *)
RelayReceivesTooFew(t) ==
  /\ pc[t] = "listening"
  /\ inbox[t] # "empty"
  /\ inbox' = [inbox EXCEPT ![t] = "empty"]
  /\ IF inbox[t] = "lagged" \/ Cardinality(receivers[t]) <= 1
       THEN Goto(t, "relaySubscriptions")
       ELSE UNCHANGED pc
  /\ UNCHANGED <<owner, permit, receivers, client, config, ending>>

(* A message is passed on to the receivers. Without any, and when the relay *)
(* has lagged behind the listener, the relay leaves its loop.                *)
RelayReceives(t) ==
  /\ pc[t] = "listening"
  /\ inbox[t] # "empty"
  /\ inbox' = [inbox EXCEPT ![t] = "empty"]
  /\ IF inbox[t] = "lagged" \/ receivers[t] = {}
       THEN Goto(t, "relaySubscriptions")
       ELSE UNCHANGED pc
  /\ UNCHANGED <<owner, permit, receivers, client, config, ending>>

RelaySubscriptions(t) ==
  /\ pc[t] = "relaySubscriptions"
  /\ Acquire("subscriptions", t)
  /\ Goto(t, "relayClient")
  /\ UNCHANGED <<permit, receivers, inbox, client, config, ending>>

(* Mutant: a cleanup does not take the subscription lock. *)
RelayClientAlone(t) ==
  /\ pc[t] = "relayClient"
  /\ Acquire("client", t)
  /\ Goto(t, "relaySend")
  /\ UNCHANGED <<permit, receivers, inbox, client, config, ending>>

RelayClient(t) ==
  /\ pc[t] = "relayClient"
  /\ Acquire("client", t)
  /\ Goto(t, "relayNotify")
  /\ UNCHANGED <<permit, receivers, inbox, client, config, ending>>

RelayNotify(t) ==
  /\ pc[t] = "relayNotify"
  /\ Acquire("notify", t)
  /\ Goto(t, "relaySend")
  /\ UNCHANGED <<permit, receivers, inbox, client, config, ending>>

RelaySend(t) ==
  /\ pc[t] = "relaySend"
  /\ Send("unsubscribe", t)
  /\ Goto(t, "relayAck")
  /\ UNCHANGED <<manager, wire, alive, connected, brokerSubs, config, ending>>

(* start_shutdown asks for the client lock, which the relay itself holds. *)
RelaySendFails(t) ==
  /\ pc[t] = "relaySend"
  /\ ~alive
  /\ StartShutdown(t, "relayAck")
  /\ UNCHANGED <<manager, client, config, shutdown, mainReceiver>>

(* The map entry goes, and with its sender every receiver that is left. *)
RelayAcked(t) ==
  /\ pc[t] = "relayAck"
  /\ permit # NoOne
  /\ permit' = NoOne
  /\ DropGuards(t)
  /\ receivers' = [receivers EXCEPT ![t] = {}]
  /\ Goto(t, "none")
  /\ UNCHANGED <<inbox, client, config, ending>>

--------------------------------------------------------------------------------
(* publish *)

PublishBegin(p) ==
  /\ pc[p] = "idle"
  /\ Free("options")
  /\ Goto(p, "pubClient")
  /\ UNCHANGED <<manager, client, config, ending>>

PublishClient(p) ==
  /\ pc[p] = "pubClient"
  /\ Acquire("client", p)
  /\ Goto(p, "pubSend")
  /\ UNCHANGED <<permit, receivers, inbox, client, config, ending>>

PublishSend(p) ==
  /\ pc[p] = "pubSend"
  /\ Send("publish", p) \/ (~alive /\ UNCHANGED requests)
  /\ Release("client")
  /\ Goto(p, "idle")
  /\ UNCHANGED <<permit, receivers, inbox, wire, alive, connected, brokerSubs,
                 config, ending>>

--------------------------------------------------------------------------------
(* task_listener, with the event loop it polls and the broker behind it *)

Listening == pc[Main] = "listening"

(* The event loop takes the next request while it is connected. *)
ListenerSends ==
  /\ Listening /\ connected
  /\ requests # <<>>
  /\ Head(requests).kind # "disconnect"
  /\ requests' = Tail(requests)
  /\ wire' = IF Acknowledged(Head(requests)) THEN wire \cup {Head(requests)} ELSE wire
  /\ UNCHANGED <<pc, manager, alive, connected, brokerSubs, config, ending>>

(* Outgoing::Disconnect: the event is broadcast and the listener returns. *)
ListenerDisconnects ==
  /\ Listening /\ connected
  /\ requests # <<>>
  /\ Head(requests).kind = "disconnect"
  /\ LoopDropped
  /\ mainReceiver' = IF mainReceiver = "none" THEN "none" ELSE "disconnect"
  /\ Goto(Main, "ended")
  /\ UNCHANGED <<manager, brokerSubs, config, reason, shutdown>>

SessionAfter(r) ==
  IF r.kind = "subscribe" THEN brokerSubs \cup {TopicOfRequest(r)}
                          ELSE brokerSubs \ {TopicOfRequest(r)}

(* An incoming publish is broadcast to the relays; one that falls behind by *)
(* more events than the channel holds finds that it lagged.                  *)
ListenerReceives(t) ==
  /\ Listening /\ connected
  /\ pc[t] = "listening"
  /\ \/ t \in brokerSubs /\ inbox[t] = "empty" /\ inbox' = [inbox EXCEPT ![t] = "message"]
     \/ "lag" \in Environment /\ inbox' = [inbox EXCEPT ![t] = "lagged"]
  /\ UNCHANGED <<pc, owner, permit, receivers, client, config, ending>>

(* SubAck or UnsubAck: Notify::notify_one stores at most one permit. *)
ListenerAck(r) ==
  /\ Listening /\ connected
  /\ wire' = wire \ {r}
  /\ brokerSubs' = SessionAfter(r)
  /\ permit' = r.by
  /\ UNCHANGED <<pc, owner, receivers, inbox, requests, alive, connected, config, ending>>

(* The packets in flight are lost on their way to the broker or back. *)
ConnectionLost ==
  /\ "drop" \in Environment
  /\ Listening /\ connected
  /\ connected' = FALSE
  /\ wire' = {}
  /\ brokerSubs' \in {brokerSubs} \cup {SessionAfter(r) : r \in wire}
  /\ UNCHANGED <<pc, manager, requests, alive, config, ending>>

Reconnected ==
  /\ Listening /\ ~connected
  /\ connected' = TRUE
  /\ UNCHANGED <<pc, manager, requests, wire, alive, brokerSubs, config, ending>>

(* ConnAck without the session: start_shutdown, and the listener returns. *)
SessionLost ==
  /\ "session_loss" \in Environment
  /\ Listening /\ ~connected
  /\ brokerSubs' = {}
  /\ StartShutdown(Main, "ended")
  /\ IF reason = NoOne
       THEN /\ connected' = TRUE
            /\ UNCHANGED <<requests, wire, alive>>
       ELSE LoopDropped
  /\ UNCHANGED <<manager, config, shutdown, mainReceiver>>

ListenerShutdown ==
  /\ pc[Main] = "shutSend"
  /\ Len(requests) < RequestCapacity
  /\ Release("client")
  /\ LoopDropped
  /\ Goto(Main, "ended")
  /\ UNCHANGED <<permit, receivers, inbox, brokerSubs, config, ending>>

--------------------------------------------------------------------------------
(* task_main, after the listener has returned *)

(* shutdown_reason is read with no lock held. *)
MainCheck ==
  /\ pc[Main] = "ended"
  /\ IF reason = NoOne
       THEN Goto(Main, "reconnectClient") /\ UNCHANGED mainReceiver
       ELSE Goto(Main, "closeClient") /\ mainReceiver' = "empty"
  /\ UNCHANGED <<manager, client, config, reason, shutdown>>

ReconnectClient ==
  /\ pc[Main] = "reconnectClient"
  /\ Acquire("client", Main)
  /\ Goto(Main, "reconnectOptions")
  /\ UNCHANGED <<permit, receivers, inbox, client, config, ending>>

(* A new client and event loop, made with both locks held. *)
ReconnectOptions ==
  /\ pc[Main] = "reconnectOptions"
  /\ Free("options")
  /\ options \notin BadOptions
  /\ clientOptions' = options
  /\ alive' = TRUE
  /\ Release("client")
  /\ Goto(Main, "listening")
  /\ UNCHANGED <<permit, receivers, inbox, requests, wire, connected, brokerSubs,
                 options, ending>>

(* to_rumqtt fails: task_main returns and drops the shutdown sender. *)
ReconnectFails ==
  /\ pc[Main] = "reconnectOptions"
  /\ Free("options")
  /\ options \in BadOptions
  /\ shutdown' = "dropped"
  /\ Release("client")
  /\ reason' = IF reason = NoOne THEN Main ELSE reason
  /\ Goto(Main, IF reason = NoOne THEN "failClient" ELSE "stopped")
  /\ UNCHANGED <<permit, receivers, inbox, client, config, mainReceiver>>

FailClient ==
  /\ pc[Main] = "failClient"
  /\ Free("client")
  /\ Goto(Main, "stopped")
  /\ UNCHANGED <<manager, client, config, ending>>

(* The disconnect goes to a client whose event loop is gone. *)
CloseClient ==
  /\ pc[Main] = "closeClient"
  /\ Free("client")
  /\ Goto(Main, "closeWait")
  /\ UNCHANGED <<manager, client, config, ending>>

CloseFinish ==
  /\ pc[Main] = "closeWait"
  /\ shutdown' = IF mainReceiver = "disconnect" THEN "event" ELSE "timeout"
  /\ Goto(Main, "stopped")
  /\ UNCHANGED <<manager, client, config, reason, mainReceiver>>

--------------------------------------------------------------------------------
(* update_options and close, called one after the other by the reconciler *)

UpdateBegin ==
  /\ "update" \in Environment
  /\ pc[Controller] = "idle"
  /\ reason = NoOne
  /\ Goto(Controller, "updateOptions")
  /\ UNCHANGED <<manager, client, config, ending>>

(* A change that needs a new manager is refused; no change is no reconnect. *)
UpdateOptions(new) ==
  /\ pc[Controller] = "updateOptions"
  /\ Free("options")
  /\ IF IdentityOf[new] = IdentityOf[options] /\ new # options
       THEN /\ options' = new
            /\ Acquire("options", Controller)
            /\ Goto(Controller, "updateClient")
       ELSE /\ Goto(Controller, "idle")
            /\ UNCHANGED <<options, owner>>
  /\ UNCHANGED <<permit, receivers, inbox, client, clientOptions, ending>>

UpdateClient ==
  /\ pc[Controller] = "updateClient"
  /\ Acquire("client", Controller)
  /\ Goto(Controller, "updateSend")
  /\ UNCHANGED <<permit, receivers, inbox, client, config, ending>>

UpdateSend ==
  /\ pc[Controller] = "updateSend"
  /\ DisconnectOrWarn(Controller)
  /\ DropGuards(Controller)
  /\ Goto(Controller, "idle")
  /\ UNCHANGED <<permit, receivers, inbox, wire, alive, connected, brokerSubs,
                 config, ending>>

CloseBegin ==
  /\ "close" \in Environment
  /\ pc[Controller] = "idle"
  /\ StartShutdown(Controller, "closing")
  /\ UNCHANGED <<manager, client, config, shutdown, mainReceiver>>

CloseSend ==
  /\ pc[Controller] = "shutSend"
  /\ DisconnectOrWarn(Controller)
  /\ Release("client")
  /\ Goto(Controller, "closing")
  /\ UNCHANGED <<permit, receivers, inbox, wire, alive, connected, brokerSubs,
                 config, ending>>

(* JoinSet::shutdown aborts the main task and the health check, not the relays. *)
CloseDone ==
  /\ pc[Controller] = "closing"
  /\ shutdown # "no"
  /\ pc' = [pc EXCEPT ![Controller] = "closed", ![Main] = "stopped",
                      ![HealthTask] = "stopped"]
  /\ DropGuards(HealthTask)
  /\ receivers' = [receivers EXCEPT ![TopicOf[HealthTask]] = @ \ {HealthTask}]
  /\ UNCHANGED <<permit, inbox, client, config, ending>>

--------------------------------------------------------------------------------

(* What a subscriber, a relay and a publisher do once they have started. *)
SubscriberStep(s) ==
  \/ SubscribeNotify(s) \/ SubscribeClient(s) \/ SubscribeSend(s)
  \/ SubscribeFails(s) \/ SubscribeAcked(s)
RelayStep(t) ==
  \/ RelayStart(t) \/ RelayReceives(t) \/ RelaySubscriptions(t) \/ RelayClient(t) \/ RelayNotify(t)
  \/ RelaySend(t) \/ RelaySendFails(t) \/ RelayAcked(t)
PublisherStep(p) == PublishClient(p) \/ PublishSend(p)
HealthStep == ShutdownClient(HealthTask) \/ HealthTaskStopped
ListenerStep ==
  \/ ListenerSends \/ ListenerDisconnects
  \/ \E r \in wire : ListenerAck(r)
MainStep ==
  \/ ShutdownClient(Main) \/ ListenerShutdown
  \/ MainCheck \/ ReconnectClient \/ ReconnectOptions \/ ReconnectFails
  \/ FailClient \/ CloseClient \/ CloseFinish
ControllerStep ==
  \/ \E new \in Options : UpdateOptions(new)
  \/ UpdateClient \/ UpdateSend
  \/ ShutdownClient(Controller) \/ CloseSend \/ CloseDone

(* What callers and surroundings may do, and need never do. *)
CallerStep ==
  \/ \E s \in Subscribers : SubscribeBegin(s) \/ ReleaseSubscription(s)
  \/ \E p \in Publishers : PublishBegin(p)
  \/ \E t \in Topics : ListenerReceives(t)
  \/ UpdateBegin \/ CloseBegin
  \/ ConnectionLost \/ SessionLost

Next ==
  \/ \E s \in Subscribers : SubscriberStep(s)
  \/ \E t \in Topics : RelayStep(t)
  \/ \E p \in Publishers : PublisherStep(p)
  \/ HealthStep \/ ListenerStep \/ Reconnected \/ MainStep \/ ControllerStep
  \/ CallerStep

Spec == Init /\ [][Next]_vars

(* tokio mutexes and the request channel serve their waiters in order, so a *)
(* task that can go on again and again does: strong fairness per task. The  *)
(* connection, while there is one, moves what is queued.                    *)
TaskFairness ==
  /\ \A s \in Subscribers : SF_vars(SubscriberStep(s))
  /\ \A t \in Topics : SF_vars(RelayStep(t))
  /\ \A p \in Publishers : SF_vars(PublisherStep(p))
  /\ SF_vars(HealthStep)
  /\ SF_vars(MainStep)
  /\ SF_vars(ControllerStep)
  /\ SF_vars(ListenerSends \/ ListenerDisconnects)
  /\ SF_vars(\E r \in wire : ListenerAck(r))

(* The broker may stay away for ever. *)
OutageSpec == Spec /\ TaskFairness
(* The broker always comes back. *)
FairSpec == Spec /\ TaskFairness /\ WF_vars(Reconnected)

--------------------------------------------------------------------------------
(* Properties *)

(* Every acknowledgement wakes the task that queued the work: as long as the *)
(* manager is not closed, whatever is queued, sent or stored on behalf of the*)
(* subscription lock belongs to its holder (sync_utils.rs, the contract of   *)
(* LockableNotify, which cannot tell two units of work apart).               *)
AckForHolder ==
  pc[Controller] # "closed" =>
    /\ permit # NoOne => owner["notify"] = permit
    /\ \A r \in wire : owner["notify"] = r.by
    /\ \A i \in DOMAIN requests :
         Acknowledged(requests[i]) => owner["notify"] = requests[i].by

(* A subscription that was handed out and whose relay still listens is known *)
(* to the broker: a cleanup of the topic never crosses a newer subscribe     *)
(* (subscribe_topic keeps the subscriptions locked for it).                  *)
ListenersAreSubscribed ==
  reason = NoOne =>
    \A s \in Subscribers :
      /\ pc[s] = "subscribed"
      /\ s \in receivers[TopicOf[s]]
      /\ pc[TopicOf[s]] = "listening"
      => TopicOf[s] \in brokerSubs

(* The subscription lock is a LockableNotify: the tasks that subscribe and   *)
(* clean up, the request channel, the connection and the listener implement  *)
(* its contract (sync_utils.rs:9), whatever is lost between them.            *)
UnderWay ==
  {r.by : r \in wire}
    \cup {requests[i].by : i \in {j \in DOMAIN requests : Acknowledged(requests[j])}}
SubscriptionLock == INSTANCE LockableNotify
  WITH Tasks <- Actors, holder <- owner["notify"], work <- UnderWay,
       notice <- permit, closed <- (pc[Controller] = "closed")
IsLockableNotify == SubscriptionLock!Spec

(* Edited options are never forgotten: a listener that still runs on older   *)
(* options has a disconnect ahead of it (update_options and the reconnect of *)
(* task_main, which read and write the options under the options lock).      *)
OptionsApplied ==
  Listening /\ clientOptions # options =>
    \/ \E i \in DOMAIN requests : requests[i].kind = "disconnect"
    \/ pc[Controller] \in {"updateClient", "updateSend"}

(* A shutdown that has begun ends the listener: some task is about to        *)
(* disconnect the client, or the disconnect is queued (start_shutdown).      *)
ShutdownIsDriven ==
  reason # NoOne /\ Listening =>
    \/ \E i \in DOMAIN requests : requests[i].kind = "disconnect"
    \/ \E a \in Actors : pc[a] \in {"shutClient", "shutSend"}

(* The mutex an actor that holds others is waiting for. *)
Wanted(a) ==
  CASE pc[a] \in {"subNotify", "relayNotify"} -> "notify"
    [] pc[a] \in {"subClient", "relayClient", "pubClient", "shutClient",
                  "reconnectClient", "failClient", "closeClient",
                  "updateClient"} -> "client"
    [] pc[a] = "relaySubscriptions" -> "subscriptions"
    [] pc[a] \in {"updateOptions", "reconnectOptions"} -> "options"
    [] OTHER -> "none"
NeedsRoom(a) ==
  pc[a] \in {"subSend", "relaySend", "pubSend", "updateSend", "shutSend"}
    /\ alive /\ Len(requests) = RequestCapacity
NeedsMain(a) ==
  \/ NeedsRoom(a)
  \/ pc[a] \in {"subAck", "relayAck"} /\ permit = NoOne
  \/ pc[a] = "closing" /\ shutdown = "no"
WaitsFor(a, b) ==
  \/ Wanted(a) # "none" /\ owner[Wanted(a)] = b
  \/ NeedsMain(a) /\ b = Main

Blocked == {a \in Actors : \E b \in Actors : WaitsFor(a, b)}

(* Until close has returned no set of tasks waits only for each other, over  *)
(* the mutexes, the room in the request channel and the acknowledgements the *)
(* listener delivers.                                                        *)
NoCyclicWait ==
  pc[Controller] # "closed" =>
    \A S \in SUBSET Blocked :
      S # {} => \E a \in S : \A b \in S : ~WaitsFor(a, b)

(* The shutdown reason is set once and the end it leads to is final          *)
(* (OnceCell, and the watch of shutdown_done).                               *)
ShutdownIsFinal ==
  [][ /\ reason # NoOne => reason' = reason
      /\ shutdown # "no" => shutdown' = shutdown /\ ~alive' ]_vars

(* A shutdown that has begun completes, so that close returns.               *)
ShutdownCompletes == reason # NoOne ~> shutdown # "no"

(* While the connection holds and nothing shuts the manager down, a task that *)
(* asks for a subscription gets it: neither the locks nor the full channel    *)
(* keep it, and its acknowledgement is not given to another (subscribe_topic).*)
Steady == connected /\ reason = NoOne
SubscribeReturns ==
  []Steady => \A s \in Subscribers : pc[s] = "subNotify" ~> pc[s] = "subscribed"

--------------------------------------------------------------------------------
(* What the code is written for and does not guarantee. The README names, for *)
(* each, the change of a configuration under which it is seen to fail.        *)

(* A task that asks for a subscription gets it or an error: an acknowledgement*)
(* that is lost with the connection is waited for for ever.                  *)
SubscribeIsAnswered ==
  \A s \in Subscribers :
    pc[s] = "subNotify" ~> pc[s] \in {"subscribed", "idle", "stopped"}

(* A listener that ended to reconnect is started again, or the manager shuts *)
(* down: task_main can wait for update_options, and that for task_main.      *)
ListenerRestarts ==
  pc[Main] = "reconnectClient" ~> Listening \/ reason # NoOne

(* The final disconnect of task_main is seen: it is always timed out.        *)
DisconnectIsSeen == shutdown # "timeout"

(* A relay only cleans its topic up when nobody listens to it any more: a    *)
(* subscriber may attach until the relay has locked the subscriptions.       *)
CleanupWithoutListeners ==
  \A t \in Topics : pc[t] = "relayAck" => receivers[t] = {}

(* When close returns no task of the manager is left: the relays are.        *)
CloseLeavesNoTask ==
  pc[Controller] = "closed" => \A t \in Topics : pc[t] = "none"
================================================================================
