------------------------------- MODULE TopicMatch ------------------------------
(***************************************************************************)
(* Which messages the relays of a manager pass on: topic_match and the     *)
(* relays of subscribe_topic (manager.rs). A topic is a sequence of levels.*)
(***************************************************************************)
EXTENDS Naturals, Sequences

CONSTANTS
  Patterns,  \* what is subscribed to
  Topics     \* of the messages that arrive

VARIABLES
  running,  \* the relays that run
  heard     \* the topics of the messages each has passed on

vars == <<running, heard>>

(* The levels are compared in the order of the pattern. The topic is not      *)
(* asked for its length.                                                      *)
Decides(pattern, topic, i) ==
  \/ pattern[i] = "#"
  \/ pattern[i] # "+" /\ (i > Len(topic) \/ pattern[i] # topic[i])

topic_match(pattern, topic) ==
  LET deciding == {i \in 1..Len(pattern) : Decides(pattern, topic, i)}
      first == CHOOSE i \in deciding : \A j \in deciding : i <= j
  IN CASE deciding = {}         -> "yes"
       [] pattern[first] = "#"  -> "yes"
       [] first > Len(topic)    -> "panic"
       [] OTHER                 -> "no"

Init ==
  /\ running = Patterns
  /\ heard = [p \in Patterns |-> {}]

(* A message arrives at every relay. One that panics is gone, and the task   *)
(* that would have unsubscribed with it.                                      *)
Relay(topic) ==
  /\ heard' = [p \in Patterns |->
                 IF p \in running /\ topic_match(p, topic) = "yes"
                   THEN heard[p] \cup {topic} ELSE heard[p]]
  /\ running' = {p \in running : topic_match(p, topic) # "panic"}

Next == \E t \in Topics : Relay(t)

Spec == Init /\ [][Next]_vars

--------------------------------------------------------------------------------
(* Properties *)

(* The rules of MQTT: a level is itself, + is any one level, and # at the end *)
(* is any number of them.                                                     *)
Follows(pattern, topic) ==
  LET Agree(n) == \A i \in 1..n : pattern[i] \in {"+", topic[i]}
      n == Len(pattern)
  IN IF n > 0 /\ pattern[n] = "#"
       THEN Len(topic) >= n - 1 /\ Agree(n - 1)
       ELSE Len(topic) = n /\ Agree(n)

(* Each relay runs and has passed on nothing but what matches its pattern by  *)
(* the rules of MQTT (the comment on topic_match).                            *)
MatchFollowsRules ==
  \A p \in Patterns : p \in running /\ \A t \in heard[p] : Follows(p, t)
================================================================================
