---------------------------- MODULE LockableNotify ----------------------------
(***************************************************************************)
(* What LockableNotify (sync_utils.rs) promises to the tasks that share    *)
(* it: work is queued by the holder of the lock only, one unit at a time,  *)
(* and the notification of a unit wakes the task that queued it, although  *)
(* the central location cannot tell the units of two tasks apart. Work may *)
(* get lost; then nobody is notified.                                      *)
(***************************************************************************)
CONSTANTS
  Tasks,  \* the tasks that take the lock
  NoOne   \* no task

VARIABLES
  holder,  \* who holds the mutex
  work,    \* the tasks whose work is under way
  notice,  \* the stored permit of the Notify: whose work produced it
  closed   \* the central location has been shut down for good

notify == <<holder, work, notice, closed>>

Init ==
  /\ holder = NoOne
  /\ work = {}
  /\ notice = NoOne
  /\ closed = FALSE

(* LockableNotify::lock *)
Lock(a) ==
  /\ holder = NoOne
  /\ holder' = a
  /\ UNCHANGED <<work, notice, closed>>

(* The holder puts its work in the queue. *)
Queue(a) ==
  /\ holder = a
  /\ ~closed
  /\ work = {} /\ notice = NoOne
  /\ work' = {a}
  /\ UNCHANGED <<holder, notice, closed>>

(* LockableNotify::notify, when a unit of work was processed *)
Notify(a) ==
  /\ work = {a}
  /\ work' = {}
  /\ notice' = a
  /\ UNCHANGED <<holder, closed>>

Lose ==
  /\ work' = {}
  /\ UNCHANGED <<holder, notice, closed>>

(* LockableNotifyGuard::notified, and the guard is dropped. *)
Notified(a) ==
  /\ holder = a
  /\ closed \/ notice = a
  /\ notice' = NoOne
  /\ holder' = NoOne
  /\ UNCHANGED <<work, closed>>

(* The guard is dropped by a task that could not queue its work. *)
GiveUp(a) ==
  /\ holder = a
  /\ closed \/ (work = {} /\ notice = NoOne)
  /\ holder' = NoOne
  /\ UNCHANGED <<work, notice, closed>>

(* The task that holds the lock may be aborted with its central location. *)
Close ==
  /\ work = {}
  /\ closed' = TRUE
  /\ holder' \in {holder, NoOne}
  /\ UNCHANGED <<work, notice>>

Next ==
  \/ \E a \in Tasks : Lock(a) \/ Queue(a) \/ Notify(a) \/ Notified(a) \/ GiveUp(a)
  \/ Lose \/ Close

Spec == Init /\ [][Next]_notify
================================================================================
