# Verification of zigbee2mqtt-operator

TLA+ models of the operator, the TLC configurations that check them, and the
theorems TLAPS proves about them. The operator is a Kubernetes controller
(Rust, tokio, kube, rumqttc): for every `Instance` resource it keeps an MQTT
connection to a Zigbee2MQTT, and it brings the devices and groups there into
the state that `Device` and `Group` resources ask for.

Paths below are relative to the repository.

## 1. The system

| Part | State | Operations | Works with |
|---|---|---|---|
| MQTT manager, `src/mqtt/manager.rs` | options, client, subscriptions, `shutdown_reason`, `shutdown_done`, a task set | handshake, `task_main` with `task_listener`, `task_healthcheck`, `subscribe_topic` with a relay task per topic, `publish`, `update_options`, `start_shutdown`, `close` | the broker; the instance reconciler creates, updates and closes it; handlers subscribe and publish |
| Lockable notify, `src/sync_utils.rs` | a mutex and a `Notify` | lock, wait, notify | the subscription lock of the manager |
| Subscriptions, `src/mqtt/subscription.rs` | a broadcast receiver that may lag | next with a timeout, `last`, filters | handlers |
| Instance reconciler and tracker, `src/reconcilers/instance.rs` | a map from instance to manager and status, the time of the last refresh | reconcile (`setup_manager`, status reporter, `process_unmanaged`), cleanup, `InstanceTracker::get` with its refresh | Kubernetes, the managers; devices and groups look managers up |
| Group reconciler, `src/reconcilers/group.rs` | the resource document, a status | `get_or_create_group`, `sync_existence`, `sync_name`, `sync_members`, `sync_options`, cleanup | group handlers |
| Device reconciler, `src/reconcilers/device.rs` | the same for devices | rename, `sync_options`, `sync_capabilities` | device handlers |
| Handlers, `src/mqtt/handlers/*.rs` | topic trackers that hold the latest retained message, requests that await their answer | `BridgeRequest::request`, `ConfigurationManager::sync`, get, set and unset per kind | the manager, the extension |
| Exposes, `src/mqtt/exposes.rs` | none | check and transform a configuration by a schema | the configuration sync |
| Extension, `extension/main.ts` | runs in Zigbee2MQTT | clears options | Zigbee2MQTT |
| Status manager, `src/status_manager.rs` | last written status | `sync`, a patch in the background on drop | reconcilers, Kubernetes |
| Controllers, `src/commands/run.rs` | finalizers, retries | run reconcile or cleanup | kube |
| `error.rs`, `event_manager.rs`, `with_source.rs`, `crds.rs`, `crdgen.rs`, chart | no control of their own | formatting, types, events, deployment | |

What is hard here, and what makes each part correct:

- **Manager.** Five locks, a bounded channel and acknowledgements that carry no
  identity meet in four kinds of tasks. Correct: nobody is woken by another's
  acknowledgement; a subscription with a listener is known to the broker; an
  option change always reaches the client; a shutdown is final and completes;
  no tasks wait for each other in a circle.
- **Instance tracker.** A manager is a live connection with one client id: one
  that nobody can reach any more fights with its successor for the session.
  Correct: a running manager is held by its entry or a cleanup; a closed one is
  never handed out; an instance that is gone has left none.
- **Requests.** Every answer goes to everyone who asked something of the kind, and
  says to whom it belongs by a name or an id only, in an error by a text.
  Correct: a call returns the answer to its own request, and Ok means done.
- **Device reconciler.** Devices are renamed by their address and spoken to by
  their name, which another device may have had before. Correct: capabilities
  reach the device they are for; names are exchanged in the end.
- **Reconcilers.** They work on documents and retained lists that may be old,
  with requests that may have been carried out although they timed out, and
  patches nobody waits for. Correct: what is reported as synced is so; what is
  left alone converges; deletions end; only what is unmanaged is deleted.
- **Configuration sync.** Clear, re-read, compare, set, compare, over a bus
  with lost, late and repeated answers. Correct: the reports are true, the
  identity of a device is kept, syncs converge.
- **Exposes.** A recursive definition with exceptions (null, presets, specific
  types). Correct: it agrees with an independent, declarative definition.

`PROJECT.json` lists every hazard at its line, with the properties that cover it.

## 2. The modules

| Module | With | Models |
|---|---|---|
| `Manager` | `MCManager`, `ManagerProofs`, `ManagerSubscriptionProofs` | the tasks of an MQTT manager, its locks, channel and broker session |
| `Connect`, which extends `Manager` | `MCConnect`, `ConnectProofs` | how a manager comes to be, and the manager from then on |
| `LockableNotify` | `ManagerSubscriptionProofs` | the abstract specification of the subscription lock, which `Manager` implements |
| `TopicMatch` | `MCTopicMatch` | which messages the relays of a manager pass on |
| `InstanceTracker` | `MCInstanceTracker`, `InstanceTrackerProofs` | managers as the instance reconcilers, reporters and look-ups see them |
| `GroupReconciler` | `MCGroupReconciler`, `GroupReconcilerProofs` | group resources against Zigbee2MQTT, and the search for unmanaged groups |
| `DeviceReconciler` | `MCDeviceReconciler`, `DeviceReconcilerProofs` | device resources, the tracker of the list of devices and the cell that keeps it |
| `Bridge` | `MCBridge`, `BridgeProofs` | requests of several callers on shared topics, and which answers they take |
| `ConfigSync` | `MCConfigSync`, `ConfigSyncProofs` | the synchronisation of options and capabilities, with what processing, setting and clearing do left to constants |
| `Configurations`, which extends `Exposes` | `MCConfigSync`, `MCExposes` | those constants: checking and transforming by a schema, what a configuration lacks, merging, and the copy of the extension |
| `Values` | | what configurations are made of; `ConfigSync` and `Exposes` extend it |

Modules that start with `MC` give the constants small values. In each module the
operators marked *Mutant* or *As a bug* stand before the definition they are a
broken variant of; no specification uses them.

The constant `Environment` of a module is the set of things its surroundings
may do (lose a connection, edit a resource, time out ...). A run names the set,
so that the conditions of each result are in its configuration. `Environments`
is a set of such sets, of which a behaviour has one: `GroupReconciler`,
`DeviceReconciler`, `ConfigSync` and `Bridge` check several combinations in one run.

The modules meet at these seams. `InstanceTracker` sees a manager from outside:
that a start ends with a manager as `Manager` has it, or fails, is what `Connect`
shows, and that `close` returns is what `Manager` shows, under its conditions. A request is
one step with its answer in `GroupReconciler` and `DeviceReconciler`; what makes
it so, and when not, is `Bridge`. `SyncOptions` there is a step that may fail;
what happens inside is `ConfigSync`. The tracker of a list is a cell, a queue of
one and a remembered value in `DeviceReconciler`, and a list that lags in
`GroupReconciler`.

### Manager

An action is the code between two awaits that can block. `pc` says where each
task stands; `owner` who holds the four mutexes (`options`, `subscriptions`,
`client`, and `notify`, the subscription lock); `permit` is the stored
permit of the `Notify`, `requests` rumqttc's channel, `wire` what was sent and
not acknowledged, `brokerSubs` the session at the broker.

| Code | Actions |
|---|---|
| `subscribe_topic` | `SubscribeBegin` (map and relay), `SubscribeNotify`, `SubscribeClient`, `SubscribeSend` / `SubscribeFails`, `SubscribeAcked` |
| relay of a topic | `RelayStart`, `RelayReceives`, `RelayClient` ... `RelayAcked` (the cleanup: client and subscriptions locked, unsubscribe, wait, remove) |
| `publish` | `PublishBegin`, `PublishClient`, `PublishSend` |
| `task_listener` | `ListenerSends`, `ListenerReceives`, `ListenerAck`, `ListenerDisconnects`, `SessionLost`, `ListenerShutdown` |
| `task_main` | `MainCheck`, `ReconnectClient`, `ReconnectOptions` / `ReconnectFails`, `FailClient`, `CloseClient`, `CloseFinish` |
| `update_options`, `close`, health check | `UpdateBegin` ... `UpdateSend`, `CloseBegin` ... `CloseDone`, `HealthTaskStopped` |
| `start_shutdown` | `StartShutdown`, `ShutdownClient` and the step that sends |

The initial state is a manager that has just connected; `Connect` models how it
gets there. The contents of messages are left out.

`LockableNotify` knows of the lock only who holds it, whose work is under way and
whose notification is stored. Its operations are `Lock`, `Queue`, `Notify`,
`Notified`, `GiveUp`, and of the surroundings `Lose` and `Close`. `Manager`
instantiates it as `SubscriptionLock`: `holder` is the owner of `notify`, `work`
the tasks whose subscribe or unsubscribe is in the channel or on the wire
(`UnderWay`), `notice` the owner of the permit.

### Connect

`Manager::new` connects with a clean session, to clear what an earlier manager left
at the broker, then begins a session that is kept, and then resumes it. `phase` is
the event it waits for, `persistent` says that the broker keeps a session, and
`troubled`, which only a property reads, that something went wrong in this attempt.

| Code | Actions |
|---|---|
| `wait_for_event!` for a ConnAck | `ConnAckArrives`, `ConnAckLost` (errors are passed over), `Refused` (but a refusal) |
| `wait_for_event!` for a disconnect | `DisconnectSent`, `ConnectionBreaks` (the event loop connects again, and its ConnAck is not what is waited for) |
| timeout of `setup_manager`, next reconcile | `StartTimesOut`, `Retry` |
| the broker | `BrokerForgets` |

Once `phase` is `"done"` the steps are those of `Manager`. `NewManager` instantiates
`Manager` with a broker that has no subscriptions until then, and `IsManager` says
that the result is a manager as `Manager` specifies it.

### TopicMatch

`topic_match` compares the levels of a pattern with those of a topic in order;
one that reads past the end of the topic panics. `Relay` hands a message to every
relay, and a relay that panicked is gone. The reference, `Follows`, is the rule of
MQTT in one line per kind of pattern.

### InstanceTracker

One reconcile of `setup_manager` is a chain of steps that holds the map
(`writer`) throughout: look at the old manager, close it, read the options,
update or replace, start. `status` is the status at Kubernetes, `doc` the copy
the reconcile works on. Each manager has an event queue and a reporter
(`ReporterTakes`, `ReporterSyncs`, `ReporterWrites`); `Get`, `RefreshBegin`,
`RefreshList`, `RefreshStore` and `GetAgain` are the look-up. A manager is seen
from outside: it starts, emits events, goes down by itself, is closed.

### GroupReconciler

`reconcile` is a chain of steps, each one request or one decision; a request is
done, refused, or times out with or without having been done. `groups` is what
Zigbee2MQTT has, `tracked` the list the tracker returns, `patches` the status
patches under way, which arrive in any order. `found` is the group as the
reconcile saw it; its field `latest`, which only properties read, says whether
the list was the latest then. `FindMembers` looks the devices up that a resource
names as members, `SyncMembers` removes and adds them one by one, and `ListFails` is
a tracker, of groups or of devices, that cannot be had. `SearchBegin`, `SearchCompare` and `SearchDelete`
are `process_unmanaged`. `SyncOptions` is one step that may fail; `ConfigSync`
is what happens inside.

### DeviceReconciler

| Code | Actions |
|---|---|
| `Device::reconcile` | `ReconcileBegin` / `ReconcilePostponed` (an instance that is not healthy), then the chain below |
| `get_device_definition_tracker` of the manager, in its `OnceCellMaybe` | `GetTracker`: made at most once, or its error kept |
| look-up in the list of devices | `Lookup` |
| `sync_name` | `SyncName`, and `LateRename` for one that is done after its timeout |
| `sync_options`, `sync_capabilities` | `SyncOptions`, `SyncCapabilities`, `SetCapabilities` |
| `TopicTracker::get` | `Returns`, `GetFails`: an unread list, the remembered one, or an error (nothing arrived, not parsed, the relay is gone) |
| retained list of devices | `Publish` with every change, `Deliver` for one that is delayed, `RelayEnds` |
| status | `Finish` sends a patch, `PatchArrives` in any order |

Capabilities are published to the topic of a name: they reach whoever `Listening`
finds there. `SetCapabilities` stands for both sends (`SendCapabilities`): one that
nobody answers, be it that nobody hears it, that it is lost or that the answer takes
too long, is sent once more, and may reach another device then. `found` is the device as the reconcile saw it, with the mark
`latest` that only properties read.

### Bridge

`Subscribe`, `Request`, `Take`, `TimeOut` and `Return` are `BridgeRequest::request`;
`Takes` is `process_response` with one operator per kind of request
(`RenameAnswer`, `AddAnswer`, `RemoveAnswer`, `MemberAnswer`, `OptionsAnswer`). An
answer is what the code looks at: its status, the id and the name it repeats, and
for an error the values that its text names. The id of a removal is looked for in the
text without its end, so that its error names every number its digits begin with
(`Beginnings`). `Push` is the subscription, which
drops the oldest message when it is full. `Handle` is Zigbee2MQTT, which answers
to everybody on the topic, and may answer late, twice, with an error or not at
all; `Others` is somebody else's traffic.

### Values, Exposes, Configurations and ConfigSync

`ConfigSync` runs with one of three kinds, chosen at the beginning (`kind`):
options of a device or a group, or `capability`. `Begin` finds what to clear,
`Unread` is a configuration or a schema that cannot be had, before or after clearing,
`Compare` processes and compares, `Answer`, `Hear` and `Settle` take answers, and
`Handle` is Zigbee2MQTT. Requests and answers are queues, so that the answer to a
request that timed out can be taken for that to the next one.

What it does to configurations are four operators it has as constants:
`Processing` (the schema), `Missing` (what one configuration lacks of another),
`Merging` (what setting does) and `Copying` (what clearing does). `Configurations`
defines them, for values of any nesting: `Processed`, which is `Exposes` with a
`Schema`, `AllMissing`, `Merge` and `Copy`. They are recursive, which is why
`ConfigSync`, about which theorems are proved, only assumes of them what it needs
(section 4); `ConfigSync_kinds.cfg` gives the constants these definitions. `Configs`
is the set of the configurations there may be; the run computes it, as whatever
requests in any order make of those in `Stored`.

`Exposes` keeps what a value is (`Values`): numbers are integers or floats and the
two are never equal, as in serde_json; a null is a value.

## 3. The runs

| Run | Checks | Bounds |
|---|---|---|
| `manager_safety` | `TypeOK`, `AckForHolder`, `ListenersAreSubscribed`, `OptionsApplied`, `ShutdownIsFinal`, `IsLockableNotify` | two subscribers of one topic, a channel of one, four option sets (one rejected, one with another identity), every kind of surroundings |
| `manager_handshake` | `LeftoversDoNotMatter`, `IsManager` | any number of attempts to connect, at a broker with or without a session, and every kind of trouble; then two subscribers of one topic, a close and lost connections and sessions |
| `manager_progress` | `NoCyclicWait`, `ShutdownIsDriven`, `ShutdownCompletes`, `SubscribeReturns` | two subscribers, a publisher, two topics, a channel of one, lost connections and a close |
| `manager_inversion` | `SubscribeReturns` is violated | two subscribers of two topics that release their subscriptions |
| `tracker_setup` | `TypeOK`, `RunningIsHeld`, `ClosedIsNotListed`, `GoneHasNoManager` | an instance, two managers in a row, every failure of a reconcile, good and bad health reports |
| `tracker_lookup` | `RunningIsHeld`, `DeletionCompletes`, `MissingResolves` | an instance, a manager, a resource that looks it up; instances are created at any time (`"apart"`), but between the list of a refresh and its use |
| `group_converge` | `SyncedIsTrue`, `Converges` | a resource with four specifications, with and without an id, with two members, one of them, an unknown one and any; two ids; with a fixed specification trackers that lag or cannot be had, timeouts, failing options, an unhealthy instance and late creation, with edits timeouts |
| `group_managed` | `TypeOK`, `OnlyUnmanagedDeleted`, `CleanupDeletesOwn`, `DeletionEnds` | two resources that are deleted, and the search beside them |
| `config_kinds` | `TypeOK`, `SyncedIsTrue`, `IdentityIsKept`, `Converges`, `ProcessMatchesReference` | options of a device and of a group, and capabilities; up to three configurations each (one refused), two requests and answers in flight; options in five combinations of surroundings, capabilities in one with all that can happen to them; configurations that cannot be read among them; for the reference four schemas, and every object over three properties and seventeen items |
| `bridge_calls` | `TypeOK`, `AnswersAreOwn`, `OkIsTrue` | two callers at seven kinds of work, and others; ids of one digit and 214, whose beginnings 2 and 21 are no group's; two unread answers and two requests in flight; late, repeated, unparseable, unsent, lost and refused requests |
| `device_names` | `TypeOK`, `SyncedIsTrue`, `CapabilitiesReachTheDevice`, `Converges` | two devices that have each other's names, two names, one patch per resource under way; five combinations of surroundings: edits and timeouts; delayed and unparseable lists; devices that leave and come; an unhealthy instance, a tracker that is not made or ends; late renames and timeouts |
| `topic_rules` | `MatchFollowsRules` is violated | the topics of the list of devices and of the devices `lamp` and `lamp/left` |

Why the bounds suffice. A hazard of the manager needs two tasks that compete for
a lock, a third that holds what they want, and a full channel: one or two topics,
two subscribers, a relay per topic, a publisher and a channel of one have all of
them, and a longer channel only delays what a full one does. One instance with
two managers has the succession in which managers get lost; instances do not
influence each other but through the map's lock, and the theorems hold for any
number. Two groups suffice for the search, which compares resources pairwise with
groups. Two devices and two names have every conflict of names: a name that is
taken, one that is passed on, and an exchange. In `Bridge` a third message would
drop one that is older; two already drop the answer of the call. In `ConfigSync`
two messages in flight are the request of the sync and one that is left of an
earlier sync; the configurations of a device have no property in common, so that one
can be left over beside the other. `EventBound`, `Emitted`, `RequestCapacity`, `Buffer`,
`MaxPending`, `MaxPatches` and `MaxQueue` are the bounds of the models;
`RequestCapacity` and `Buffer` are ones of the code, where they are 16 and 8.

One bound leaves a case out: with `MaxPatches = 1` no two patches of a device's
status are under way, so that none overtakes another in `device_names`. With
`MaxPatches = 2` the run passes for each of `{"edit"}`, `{"fitness"}` and
`{"unready", "subscribe", "lag"}` alone, and is too large for all five together.
In `group_converge` patches overtake each other.

`CHECK_DEADLOCK` is off: a manager that was closed, an operator with nothing left
to do, callers that have what they want, and the tasks that wait for each other in
`manager_inversion` really stop.

`topic_rules` shows that `topic_match` does not follow the rules that its comment
names (`src/src/mqtt/manager.rs:39`): a pattern that is longer than the topic is read
past the end of the topic. With capabilities synchronised for the devices `lamp`
and `lamp/left`, a message to `lamp` makes the relay of `lamp/left` panic; nobody
unsubscribes, and its sender stays in the map. A pattern that is a proper prefix of
the topic matches it, too.

`ProcessMatchesReference` compares with a definition in `MCExposes` that does not
follow the code: it says for each type which values conform and what they stand for, with
the properties of specific types counted as those of their parent. It speaks of no
state, and is evaluated in the initial states.

### Fairness

- tokio's mutexes and channels serve their waiters in order, so that a task
  whose lock is free again and again gets it: strong fairness per task in
  `Manager` and `InstanceTracker`. What callers and surroundings may do is never
  fair, with one exception: the broker comes back (weak fairness of
  `Reconnected`), which `OutageSpec` leaves out.
- A reconcile that began goes on, and kube repeats one that failed (error
  policy in `commands/run.rs`): fairness of the reconcile and cleanup steps.
  Patches and retained messages arrive in the end.
- In `GroupReconciler`, `DeviceReconciler` and `ConfigSync` the surroundings come
  to rest some day (`CalmDown`). `Converges` says something about the time after that only; before
  it they may do what `Environment` allows. `DeletionEnds` is of the same form.
- `DeviceReconciler`: reconciles are repeated, patches, lists and renames that are
  late arrive (weak fairness of each). That two devices exchange their names needs
  no more than this.
- `Bridge` states safety only, without fairness: a call ends by its timeout at the
  latest.

## 4. What is proved

The theorems hold for all values of the constants that satisfy the assumptions
named in the modules; TLC evaluates those in the runs.

| Module | Theorem | Property | Argument |
|---|---|---|---|
| `ManagerProofs` | `TypeCorrect` | `TypeOK` | inductive; three parts, `PlacesOK` (where tasks stand), `QueueOK` (the channel, within its capacity), `RestOK`, each preserved by every step |
| | `AckReachesHolder` | `AckForHolder` | `LockInv`: who stands between taking and dropping the subscription lock owns it. `FlightInv`: until the close is done either nothing is queued, sent or stored on behalf of the lock, or there is one task that owns it and waits, and exactly one unit of work, its own |
| | `ShutdownFinal` | `ShutdownIsFinal` | `EndInv`: the event loop lives exactly while the main task listens, and once the shutdown is done the main task has stopped |
| | `OptionsAreApplied` | `OptionsApplied` | `OptionsInv`: the client runs with the current options unless a disconnect is queued or about to be, or the reconnect has yet to read them |
| `ManagerSubscriptionProofs` | `ListenersSubscribed` | `ListenersAreSubscribed` | `SubscriptionsInv` on top of `FlightInv`: the permit that wakes a subscriber is that of a subscription the broker has, and a request takes a topic from the broker only while its relay waits for that. Most steps are `Quiet`: they hand out no subscription and take none from the broker |
| | `ShutdownDriven` | `ShutdownIsDriven` | without `update`: `DriveInv` (who begins a shutdown has a disconnect to send, is about to send it, or has queued it) on top of `EndInv` |
| | `NobodyWaitsInACircle` | `NoCyclicWait` | with `close` and `drop`, and nothing else: `CalmInv`. Relays stay in their loop (`RelaysInv`) and who holds the client or the notify is about to send or subscribes (`HoldersInv`), so that all waiting leads to the main task, which waits for nobody |
| | `ImplementsLockableNotify` | `IsLockableNotify` | initial states map to initial states, and each action to one operation of the lock or to none; `FlightInv` says that the acknowledgement that notifies is of the task the abstract `Notify` names, `DeadInv` that a client without event loop has nothing under way |
| `ConnectProofs` | `AttemptsCanSucceed` | `LeftoversDoNotMatter` | `AttemptInv`: from the end of the clean connection on the broker has no subscriptions of the client, and without trouble it keeps a session exactly when one is expected |
| | `ImplementsManager` | `IsManager` | before the manager is handed over its steps are stutters of `Manager`; the last ConnAck changes nothing `Manager` sees, by `AttemptInv`; then the steps are the same |
| `BridgeProofs` | `TypeCorrect` | `TypeOK` | inductive; in particular no subscription grows beyond its buffer |
| | `AnswersOwn` | `AnswersAreOwn` | if callers are `Apart`, in particular no id of one is a beginning of an id that another removes (1 is one of 12 and of 123): whatever lies in a subscription was asked for by its `by`, about that caller's own keys, so that a call that accepts it shares a key with the asker, and is the asker |
| | `OkIsDone` | `OkIsTrue` | if callers are `Apart` and `Separate`, and answers are `Prompt` or requests `Complete` and `Unhindered`. Prompt: an answer to a caller is to its last request, and what that asked for holds (`PromptFor`). Complete: the last request that is on its way decides, and without one what the last call asked for holds (`CompleteFor`); an answer taken by mistake does no harm then |
| `DeviceReconcilerProofs` | `TypeCorrect` | `TypeOK` | inductive; names stay unique, because a rename is done only when the name is free |
| | `CapabilitiesReach` | `CapabilitiesReachTheDevice` | without stale lists and late renames: an unread or remembered list that was not replaced is the latest (`TrackerIsFresh`), so that a reconcile past its rename knows the device's real name (`NamesAreTrue`), and what was sent has reached it (`Reached`) |
| | `WhatIsSyncedIsTrue` | `SyncedIsTrue` | `FoundIsTrue`: a device found in the latest list has that name until its own reconcile changes it, since no other renames it. Whatever the surroundings do |
| `InstanceTrackerProofs` | `TypeCorrect` | `TypeOK` | inductive, in five parts, one per group of variables |
| | `ClosedNotListed` | `ClosedIsNotListed` | `Safe`: the manager in an entry is its own instance's and not closed; there is none while one is made or the last one is closed. Whatever the surroundings do |
| | `RunningHeld`, `GoneNoManager` | `RunningIsHeld`, `GoneHasNoManager` | under `NoLateCreation`: `Held` (whatever runs for an instance is in its entry or the one its cleanup is about to close, and then the instance is there) and `ListsAreTrue` (a refresh removes only instances that are gone) |
| `GroupReconcilerProofs` | `TypeCorrect` | `TypeOK` | inductive; in particular what a reconcile found and looks up is a group the tracker may return at that place |
| | `SearchSparesResources` | `OnlyUnmanagedDeleted` | under `NamesApart` and `Orderly`: groups have the name of the resource that made them (`NamesKept`), an id that a status, a patch or a reconcile remembers is that of the resource's own group or of none any more (`IdsKept`, `WorkKept`), and what the search has listed and not excepted is of no resource that exists (`SearchKept`) |
| | `CleanupSparesOthers` | `CleanupDeletesOwn` | under the same conditions: the id a cleanup deletes is one that `IdsKept` speaks of |
| | `SyncedAlone` | `SyncedIsTrue` | with one resource and no search (`Alone`), for any specifications and surroundings: `FoundIsTrue`, by which a group found in the latest list still is as it was found, but for what the reconcile has changed since |
| | `SyncedTogether` | `SyncedIsTrue` | under `NamesApart` and `Orderly`, for any number of resources and with the search: the same, and every step of another is `Spared` by `IdsKept` and `WorkKept` |
| `ConfigSyncProofs` | `TypeCorrect` | `TypeOK` | with `RequestType`: what a request carries is a function of what resources ask for and of what there may be, so that setting and clearing it stays within `Configs`; a set is sent only for what the schema accepts |
| | `WhatIsSyncedIsTrue` | `SyncedIsTrue` | `SyncInv`, see below |
| | `IdentityKept` | `IdentityIsKept` | under `NamesApart` (no resource lists the name): `NameInv`, the name is one that a device or group has by itself. No request that any specification and any configuration lead to sets or clears it, so it does not matter when it is handled |
| | `WhatIsSyncedIsSet` | | without `Orderly`, as long as nobody else changes the options: what the resource asks for is set at every depth, and what may be left over is whole properties. `LastInv`: the last answer on its way is of what is stored |
| | `SyncBringsToRest` | | once all is calm, a sync that ends well with nothing else under way ends in `AtRest`, by `SyncInv` |
| | `SettledStays` | | `AtRest` is kept by every step and implies `Settled`, so that `Converges` lacks no more than to get there |

Why the strengthenings are needed. `AckForHolder` by itself is not inductive: an
acknowledgement that is stored for the holder stays right only if there can be no
second one, which takes the count in `FlightInv`, and the count needs `LockInv` to
know that the task that queued has not let go of the lock. The close is excluded
because aborting the health check drops its guard while its work may be in flight.
`RunningIsHeld` needs `Safe`, since a manager that is started replaces what the
entry holds, and needs `ListsAreTrue`, without which a refresh throws a manager
away; the condition `NoLateCreation` (without refreshes anything, with them no instance
created between a refresh's list and its use) is the one under which that cannot happen,
and section 5 shows what does otherwise. `AnswersAreOwn`, `CapabilitiesReachTheDevice`
and `OnlyUnmanagedDeleted` have conditions for the same reason: `NamesApart` of
`GroupReconciler` says that no two resources want one name, none asks for an id and none
is edited to another name, its `Orderly` that no resource is created beside the search
and that no cleanup is taken for one that timed out although it was done.

`SyncedIsTrue` of `ConfigSync` speaks of a sync between whose requests those of earlier
syncs may be handled, and whose answers may be theirs. `SyncInv` has in `Lined` what
makes it true nevertheless: a request to set is for what the sync works on, one to
clear was made from a configuration that had all that is stored by now, or is asked for
(`Known`), so that whenever it is handled, nothing that may be cleared is left at the top level (`Clean`), which nothing undoes; and of the
answers on their way the last is of the configuration that is stored. This holds while
the resource stays as it is (`Steady`), or where it is edited but nothing is late: then
there is never more than the one request or answer of the sync that runs (`AtOnce`).
What is left over below the top level, and that setting changes nothing any more,
follows from the comparison, by `SettingAssumption`.

What happens without the conditions. TLC finds `SyncedIsTrue` of
`GroupReconciler` violated with two resources that want one name (no trouble at all),
with `{"delete", "timeout"}` and with `{"create", "unmanaged"}`: what is missing each
time is a part of `NamesApart` or `Orderly`. `OkIsTrue` is violated with every
combination of one of `slow`, `again` and `garble` with one of `lose` and `refuse`,
which is what the disjunction in `OkIsDone` leaves out; TLC evaluates `Apart`,
`Separate`, `Unhindered` and the disjunction for the callers of `bridge_calls`.
`Separate` says that nobody undoes what another asked for, `Unhindered` that what is
asked for can be done: devices and groups exist, and names are free. Neither speaks of
what the operator does, but of the resources its users write. `ShutdownDriven`
excludes edits of the options, because of which the main task reconnects without
looking at the reason again (section 5). `NobodyWaitsInACircle` excludes the kinds of
surroundings with each of which TLC finds tasks that wait in a circle:
- `session_loss` (beside `drop`): the main task waits for the client, whose holder waits for room
  in the channel, which the main task would make (section 5);
- `update`: `update_options` and the reconnect take the options and the client in
  opposite order (section 5);
- `release` and `lag`: a cleanup holds the client and waits for the subscription lock,
  `subscribe_topic` the other way round (`manager_inversion`).

`SUBSET A \cup B` is read as `(SUBSET A) \cup B` by TLC and as `SUBSET (A \cup B)` by
tlapm 1.4.5; the modules write the parentheses, so that both speak of one formula.

The assumptions: the kinds of actors are disjoint (`ActorsAssumption`,
`TrackerAssumption`), there is a usable option set (`OptionsAssumption`), the
channel has room for a request (`BoundsAssumption`), a subscription for a message
(`BridgeAssumption`), the search is no resource (`GroupAssumption`), and devices have different names at first
(`DeviceAssumption`);
`Trouble` is a set of the kinds of trouble (`TroubleAssumption`). `ConfigSync` assumes
that what is stored and asked for are objects (`ConfigAssumption`), and of its operators:
- `Configs` has whatever setting and clearing make of its members;
- `SettingAssumption`: processing adds no property; setting the outcome adds no other
  one and leaves the others as they are; where nothing differs, setting changes nothing,
  and all that the resource does not list is at the top level;
- `ClearingAssumption`: what is missing at the top level is among what is missing;
  clearing removes at the top level what it is told to and nothing else, and leaves
  what is not nested as it is.

These are what one look at the top level of `Composite`, `Merge`, `CopyWithout` and
`MissingPaths` shows, but for the last part of `SettingAssumption`, which speaks of every depth. They
say nothing of the order in which things happen, nor of the state. TLC evaluates them
in `config_kinds` with the definitions of `Configurations`, for every configuration
that requests can lead to there, and in each configuration of section 5; `NamesApart`
too, for the run's.

Only model-checked: liveness (`ShutdownCompletes`, `SubscribeReturns`,
`DeletionCompletes`, `MissingResolves`, `Converges`, `DeletionEnds`), which is out of
TLAPS's reach; `TopicMatch`; and `ProcessMatchesReference`. What the recursive
operators of `Exposes` and `Configurations` compute would take induction over data, and
no theorem can stand in a module that reaches one.

## 5. Where the properties end

`manager_inversion` shows a deadlock of the code: the cleanup of a relay locks
the client and then the subscription lock (`manager.rs:742`), `subscribe_topic`
the other way round (`manager.rs:762`).

The passing runs name the surroundings under which a property holds. Outside of
them the following happens. Each line is seen with one change to the
configuration of a run; the properties that no run checks stand at the end of
their module.

| Configuration | Change | Fails | What happens |
|---|---|---|---|
| `Manager_progress` | `SPECIFICATION OutageSpec` | `ShutdownCompletes` | during an outage the disconnect stays queued, and `close` waits for as long as the outage lasts (`manager.rs:689`) |
| `Manager_progress` | `Environment = {"drop"}` | `SubscribeIsAnswered` | a SubAck lost with the connection is waited for for ever, with the subscription lock held (`manager.rs:772`) |
| `Manager_progress` | `Environment = {"update"}`, `Options = {valid, edited}` | `ListenerRestarts` | `update_options` locks options, then client; the reconnect client, then options (`manager.rs:504`, `:675`) |
| `Manager_progress` | `Environment = {"close", "update"}`, `Options = {valid, edited}` | `ShutdownIsDriven` | a shutdown that begins between the check of its reason and the new client disconnects only the old one (`manager.rs:496`) |
| `Manager_progress` | `Environment = {"drop", "session_loss"}` | `ShutdownCompletes` | the listener itself starts a shutdown and waits for the client, whose holder waits for the listener to empty the channel (`manager.rs:688`) |
| `Manager_safety` | | `CleanupWithoutListeners` | a subscriber attaches to a relay that has left its loop, and is cut off (`manager.rs:729`) |
| `Manager_progress` | | `CloseLeavesNoTask` | relays are not in the task set that `close` ends (`manager.rs:718`) |
| `Manager_progress` | | `DisconnectIsSeen` | the last disconnect is never polled for: every shutdown takes the timeout (`manager.rs:512`) |
| `InstanceTracker_lookup` | `Environment = {"create"}` | `RunningIsHeld` | an instance that is created and set up between the list and its use is dropped from the map with a running manager (`instance.rs:112`) |
| `InstanceTracker_lookup` | | `MissingMeansAbsent` | `Missing` for an instance created since the last refresh (`instance.rs:88`) |
| `InstanceTracker_setup` | | `ReadyMeansHealthy` | the reporter begins with the status an earlier manager left, so that the entry says healthy before the first health check (`instance.rs:309`) |
| `GroupReconciler_managed` | | `NothingLeft` | a cleanup while the instance is unhealthy counts as done (`group.rs:65`) |
| `GroupReconciler_managed` | `Environments = {{"create", "unmanaged"}}` | `OnlyUnmanagedDeleted` | a group made after the resources were listed is taken for unmanaged (`instance.rs:403`) |
| `GroupReconciler_managed` | `Environments = {{"delete", "timeout", "unmanaged"}}` | `OnlyUnmanagedDeleted` | a cleanup that was done but timed out is repeated, and deletes the group of another resource that has got the id; that resource makes a new one while the search compares (`group.rs:36`) |
| `GroupReconciler_managed` | `Environments = {{"delete", "timeout"}}` | `CleanupDeletesOwn` | the same without the search: the repeated cleanup deletes the group of another resource (`group.rs:36`) |
| `GroupReconciler_managed` | `Environments = {{"delete", "timeout"}}` | `DeletionEnds` | a delete that was done but timed out is refused whenever the cleanup repeats it, so that the finalizer stays (`handlers/group.rs:139`) |
| `GroupReconciler_converge` | `Environments = {{"edit", "options"}}`, and `Converges` without its exception for edits | `Converges` | the patches of two reconciles arrive in the wrong order; the status names a group of an earlier specification, while another has the name that is asked for (`status_manager.rs:113`) |
| `ConfigSync_kinds` | `Kinds = {"group"}`, `Specs <- MCLevelOnly`, `Environments <- MCQuiet` | `ClearingGoesOn` | the extension answers with the id as a string, the operator parses a number (`main.ts:134`, `handlers/group.rs:470`): the options are cleared and the sync fails; the next one has nothing to clear |
| `ConfigSync_kinds` | `Kinds = {"capability"}`, `Specs <- MCPreset`, `Environments <- MCQuiet` | `Converges` | a preset becomes a float, which never equals the integer that is reported (`exposes.rs:282`) |
| `ConfigSync_kinds` | `Kinds = {"device"}`, `Specs <- MCNestedNull`, `Stored <- MCNamed`, `Environments <- MCQuiet` | `Converges` | a null in an object never equals the property it unset (`handlers/lib.rs:396`) |
| `ConfigSync_kinds` | `Kinds = {"device"}`, `Specs <- MCLists`, `Stored <- MCStoredLists`, `Environments <- MCQuiet` | `OnlyMarkedIsRemoved` | clearing an option makes objects of lists (`main.ts:181`) |
| `ConfigSync_kinds` | `{"edit", "timeout"}` or `{"edit", "stale"}` for options of a device, and `SyncedIsTrue` without `Orderly` | `SyncedIsTrue` | a set of an earlier specification is carried out after its timeout, or is not in the `bridge/info` yet with which the next sync looks for what to clear: what it set is left over, and reported as synced, until the next sync (`handlers/lib.rs:254`). What the resource asks for is set nevertheless, by `WhatIsSyncedIsSet` |
| `ConfigSync_kinds` | `{"others"}`, likewise | `SyncedIsTrue` | somebody else changes the options while a request is under way (`handlers/lib.rs:289`) |
| `Bridge_calls` | `Environments = {{}}` | `TimeoutIsReal` | answers to others fill the subscription, which drops the one that is waited for without a word (`handlers/lib.rs:106`, where the buffer is 8) |
| `Bridge_calls` | `Environments = {{"slow", "refuse"}}`, or any other of `slow`, `again` and `garble` with one of `refuse` and `lose` (without the assumption `Surroundings`) | `OkIsTrue` | the answer to a call that timed out is taken for that to the next one about the same device or group, although it asked for another value, and is refused or lost (`process_response` compares no transaction) |
| `Bridge_calls` | without `CallersAreApart`, callers that rename to one name, that remove the groups 1 and 123, or (with `{{"refuse"}}`) that share a device as member | `AnswersAreOwn` | answers name whom they are for by a name, or by the beginning of an id (`handlers/group.rs:139`) |
| `DeviceReconciler_names` | `Environments = {{}}` or `{{"timeout"}}` | `ExistsIsTrue` | whatever goes wrong with the list or a rename makes the status say that the device does not exist (`device.rs:87`) |
| `DeviceReconciler_names` | `Environments = {{}}`, and `Converges` without `Blocked` | `Converges` | two devices that want each other's names refuse each other for ever |
| `DeviceReconciler_names` | `Environments = {{"lag"}}`, and `Converges` without `box # Closed` | `Converges` | a relay that lags ends, and its tracker answers with an error from then on (`manager.rs:723`) |
| `DeviceReconciler_names` | `Environments = {{"subscribe"}}`, and `Converges` without `cell # "failed"` | `Converges` | the error of creating a tracker is kept for as long as the manager lives (`manager.rs:330`) |
| `DeviceReconciler_names` | `{"timeout", "edit"}` with one of `"late"`, `"delay"`, `"garble"`, and `CapabilitiesReachTheDevice` without its condition | `CapabilitiesReachTheDevice` | capabilities go to the topic of a name that another device has by now |

Both `SyncedIsTrue` of the reconcilers, and that of `ConfigSync`, leave out a sync that
compared with an older list or configuration than the latest: such a sync reports
what is not so, until the next.

## 6. Not modelled, and why

- In `Connect`, another manager with the same client id that is connected during
  an attempt: the two would disconnect each other. That none runs is
  `RunningIsHeld` of `InstanceTracker`, under its conditions.
- `install_extension` and `restart_if_needed`: part of the step that ends an
  instance's reconcile; their requests are the kind `bridge` of `Bridge`, and what a
  restart does to Zigbee2MQTT is a lost connection to `Manager`.
- The log that ends a request for capabilities early: one of the failures of
  `SetCapabilities`.
- Requests that are carried out after their timeout was noticed, in
  `GroupReconciler`, where one is done before its timeout or not at all. `Bridge`,
  `ConfigSync` and the renames of `DeviceReconciler` have late ones.
- Fractions in `Exposes`, parsing of schemas, the wording of errors.
- `event_manager.rs`, `error.rs`, `with_source.rs`, `crds.rs`, `crdgen.rs`, the
  chart: they publish, word, wrap or declare, and keep no state that a property is
  about.

## 7. What is left

- `InstanceTracker` with `Connect` in place of the manager seen from outside.
- `GroupReconciler` with the requests of `Bridge` in place of its steps, in which
  requests are carried out after their timeout and answers mistaken for others.
- Proofs of `SettingAssumption` and `ClearingAssumption` for the definitions in
  `Configurations`, which take an induction over the nesting of configurations.
