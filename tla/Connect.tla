-------------------------------- MODULE Connect --------------------------------
(***************************************************************************)
(* How a manager comes to be (Manager::new, mqtt/manager.rs), and the      *)
(* manager from then on. An attempt connects three times: with a clean     *)
(* session to clear what an earlier manager left at the broker, to begin a *)
(* session that is kept, and to resume that. The instance is reconciled    *)
(* again after an attempt that failed, whatever that has left behind.      *)
(***************************************************************************)
EXTENDS Manager

CONSTANT Trouble  \* what may go wrong in an attempt, see TroubleKinds

TroubleKinds ==
  {"loss",     \* a packet or the connection is lost
   "refuse",   \* the broker refuses the connection
   "forget",   \* the broker forgets the session
   "timeout"}  \* setup_manager stops waiting

ASSUME TroubleAssumption == Trouble \subseteq TroubleKinds

VARIABLES
  phase,       \* what Manager::new waits for
  persistent,  \* the broker keeps a session for the client id, with brokerSubs
  troubled     \* something went wrong in this attempt

attempt == <<phase, persistent, troubled>>
allVars == <<vars, attempt>>

(* Waiting for the ConnAck of the three connections, and for the Disconnect *)
(* that the event loop sends between them.                                   *)
Connecting == {"clear", "create", "resume"}
Leaving == {"leaveClear", "leaveCreate"}

(* The manager as Manager has it: new, without subscriptions, until it is    *)
(* handed over.                                                              *)
NewManager == INSTANCE Manager WITH
  brokerSubs <- IF phase = "done" THEN brokerSubs ELSE {}

(* At first the broker has what an earlier manager has left. *)
ConnectInit ==
  /\ phase = "clear"
  /\ troubled = FALSE
  /\ persistent \in BOOLEAN
  /\ brokerSubs \in IF persistent THEN SUBSET Topics ELSE {{}}
  /\ NewManager!Init

(* No task of the manager exists yet. *)
NotYetRunning ==
  UNCHANGED <<pc, manager, requests, wire, alive, connected, config, ending>>

Fails == phase' = "failed" /\ troubled' = TRUE

(* Mutant: the clean session of the first connection was forgotten. *)
PresentAlways == persistent

(* session_present: only the first connection asks for a clean session. *)
Present == persistent /\ phase # "clear"

(* The broker accepts a connection. *)
Accepts ==
  /\ persistent' = (phase # "clear")
  /\ brokerSubs' = IF Present THEN brokerSubs ELSE {}

(* wait_for_event: a ConnAck with another session_present than expected is an *)
(* error. The last one ends the handshake, and the tasks are spawned.         *)
ConnAckArrives ==
  /\ phase \in Connecting
  /\ Accepts
  /\ phase' = IF Present # (phase = "resume") THEN "failed"
              ELSE CASE phase = "clear" -> "leaveClear"
                     [] phase = "create" -> "leaveCreate"
                     [] phase = "resume" -> "done"
  /\ troubled' = (troubled /\ phase' # "done")

(* Errors but a refusal are passed over, and the event loop connects again. *)
ConnAckLost ==
  /\ "loss" \in Trouble
  /\ phase \in Connecting
  /\ Accepts
  /\ troubled' = TRUE
  /\ UNCHANGED phase

Refused ==
  /\ "refuse" \in Trouble
  /\ phase \in Connecting
  /\ Fails
  /\ UNCHANGED <<persistent, brokerSubs>>

(* Outgoing::Disconnect. *)
DisconnectSent ==
  /\ phase \in Leaving
  /\ phase' = IF phase = "leaveClear" THEN "create" ELSE "resume"
  /\ UNCHANGED <<persistent, brokerSubs, troubled>>

(* An event loop that loses its connection before connects again, now without *)
(* a clean session, and a ConnAck is not what is waited for.                  *)
ConnectionBreaks ==
  /\ "loss" \in Trouble
  /\ phase \in Leaving
  /\ Accepts
  /\ Fails

(* The timeout of setup_manager around Manager::new. *)
StartTimesOut ==
  /\ "timeout" \in Trouble
  /\ phase \in Connecting \cup Leaving
  /\ Fails
  /\ UNCHANGED <<persistent, brokerSubs>>

BrokerForgets ==
  /\ "forget" \in Trouble
  /\ phase \in Connecting \cup {"failed"}
  /\ persistent' = FALSE
  /\ brokerSubs' = {}
  /\ troubled' = TRUE
  /\ UNCHANGED phase

(* Mutant: an attempt after one that failed takes its session for new. *)
RetryResumes ==
  /\ phase = "failed"
  /\ phase' = "resume"
  /\ troubled' = FALSE
  /\ UNCHANGED <<persistent, brokerSubs>>

(* The next reconcile of the instance. *)
Retry ==
  /\ phase = "failed"
  /\ phase' = "clear"
  /\ troubled' = FALSE
  /\ UNCHANGED <<persistent, brokerSubs>>

Attempt ==
  \/ ConnAckArrives \/ ConnAckLost \/ Refused \/ DisconnectSent \/ ConnectionBreaks
  \/ StartTimesOut \/ BrokerForgets \/ Retry

ConnectNext ==
  \/ Attempt /\ NotYetRunning
  \/ phase = "done" /\ Next /\ UNCHANGED attempt

ConnectSpec == ConnectInit /\ [][ConnectNext]_allVars

--------------------------------------------------------------------------------
(* Properties *)

(* Whatever an earlier manager or attempt has left at the broker, a manager   *)
(* is handed over with a session of its own and without subscriptions: from   *)
(* then on it is the one of Manager ("we don't want state from an earlier     *)
(* MQTTManager", Manager::new).                                               *)
IsManager == NewManager!Spec

(* What is left at the broker never makes an attempt fail: one that fails has *)
(* been troubled itself, so that a retry can succeed (wait_for_event).        *)
LeftoversDoNotMatter == phase = "failed" => troubled
================================================================================
