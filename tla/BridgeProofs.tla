------------------------------ MODULE BridgeProofs -----------------------------
(***************************************************************************)
(* Proofs about Bridge, for any callers, requests and answers: the types,  *)
(* that no call takes the answer to another caller's request, and that     *)
(* what a call reports as done is done.                                    *)
(***************************************************************************)
EXTENDS Bridge, TLAPS

Anyone == Callers \cup {None}

(* A request is of one of the kinds, with what belongs to the kind. *)
LEMMA RequestKinds ==
  ASSUME NEW r \in RequestType
  PROVE  /\ r.kind \in {"rename", "add", "remove", "member_add", "member_remove",
                        "options", "bridge"}
         /\ r.kind = "rename" => r.from \in Entities /\ r.to \in Names
         /\ r.kind = "add" => r.from \in Ids \cup {None} /\ r.to \in Names
         /\ r.kind = "remove" => r.from \in Ids /\ r.to = None
         /\ r.kind \in {"member_add", "member_remove"} => r.from \in Ids /\ r.to \in Devices
         /\ r.kind = "options" => r.from \in Entities /\ r.to \in Settings
         /\ r.kind = "bridge" => r.from = None /\ r.to = None
BY DEF RequestType

LEMMA RequestsTyped ==
  ASSUME NEW c \in Anyone, NEW r \in RequestsOf(c)
  PROVE  r \in RequestType
<1>1. CASE c = None
  BY <1>1, BridgeAssumption DEF RequestsOf
<1>2. CASE c \in Callers
  <2>1. PICK w \in Works : r \in w[c]
    BY <1>2, BridgeAssumption DEF RequestsOf
  <2> QED BY <1>2, <2>1, BridgeAssumption
<1> QED BY <1>1, <1>2 DEF Anyone

(* What Messages are made of. *)
LEMMA MessageParts ==
  ASSUME NEW m \in Messages
  PROVE  /\ m = [answer |-> m.answer, by |-> m.by]
         /\ m.by \in Anyone
         /\ \E r \in RequestsOf(m.by) : m.answer \in AnswersTo(r)
BY DEF Messages, From, Anyone

LEMMA AnswerIsMessage ==
  ASSUME NEW c \in Anyone, NEW r \in RequestsOf(c), NEW a \in AnswersTo(r)
  PROVE  [answer |-> a, by |-> c] \in Messages
BY DEF Messages, From, Anyone

(* An answer is on the topic of its request and repeats or names what the    *)
(* request named.                                                            *)
LEMMA AnswerParts ==
  ASSUME NEW r \in RequestType, NEW a \in AnswersTo(r)
  PROVE  /\ Topic(a) = Topic(r)
         /\ a.kind = r.kind
         /\ a.status \in {"ok", "error", "garbled"}
         /\ a.to = r.to
         /\ a.from = r.from \/ r.from = None
         /\ a.named \subseteq Mentions(r)
<1> USE DEF Topic
<1>1. CASE \E e \in IF r.from = None THEN Ids \cup {None} ELSE {r.from} : a = Ok(r, e)
  <2>1. PICK e \in IF r.from = None THEN Ids \cup {None} ELSE {r.from} : a = Ok(r, e)
    BY <1>1
  <2>2. e \in Devices <=> r.from \in Devices
    BY <2>1, BridgeAssumption DEF Entities
  <2> QED BY <2>1, <2>2 DEF Ok
<1>2. CASE \E values \in SUBSET Mentions(r) : a = Error(r, values)
  BY <1>2 DEF Error
<1>3. CASE a = Garbled(r)
  BY <1>3 DEF Garbled
<1> QED BY <1>1, <1>2, <1>3 DEF AnswersTo

(* The heart of the matter: between callers that are apart no answer looks   *)
(* like one's own.                                                           *)
LEMMA OthersDoNotMatch ==
  ASSUME Apart, NEW c \in Callers, NEW d \in Anyone, c # d,
         NEW r \in RequestsOf(c), NEW s \in RequestsOf(d), NEW a \in AnswersTo(s),
         Topic(r) = Topic(a), a.status # "garbled"
  PROVE  ~Matches(r, a)
<1>1. r \in RequestType /\ s \in RequestType
  BY RequestsTyped DEF Anyone
<1>2. /\ Topic(a) = Topic(s) /\ a.kind = s.kind /\ a.to = s.to
      /\ a.from = s.from \/ s.from = None
      /\ a.named \subseteq Mentions(s)
  BY <1>1, AnswerParts
<1>3. /\ r.kind # "bridge"
      /\ Keys(r) \cap ({s.from, s.to} \cup Mentions(s)) = {}
  BY <1>2 DEF Apart, Anyone
<1>4. r.kind = s.kind
  BY <1>2 DEF Topic
<1>5. /\ None \notin Entities /\ None \notin Names /\ None \notin Settings
  BY BridgeAssumption
<1>6. CASE r.kind = "rename"
  <2>1. r.from \in Keys(r) /\ r.to \in Keys(r)
    BY <1>1, <1>5, <1>6, RequestKinds DEF Keys
  <2> QED BY <1>2, <1>3, <1>6, <2>1 DEF Matches, RenameAnswer, Succeeds
<1>7. CASE r.kind = "add"
  <2>1. r.to \in Keys(r) /\ {r.from} \ {None} \subseteq Keys(r)
    BY <1>1, <1>5, <1>7, RequestKinds DEF Keys
  <2> QED BY <1>2, <1>3, <1>7, <2>1 DEF Matches, AddAnswer, Succeeds
<1>8. CASE r.kind = "remove"
  <2>1. r.from \in Keys(r)
    BY <1>1, <1>5, <1>8, RequestKinds DEF Keys, Entities
  <2>2. a.from = s.from
    BY <1>1, <1>2, <1>4, <1>5, <1>8, RequestKinds DEF Entities
  <2> QED BY <1>2, <1>3, <1>8, <2>1, <2>2 DEF Matches, RemoveAnswer, Succeeds
<1>9. CASE r.kind \in {"member_add", "member_remove"}
  <2>1. r.from \in Keys(r) /\ r.to \in Keys(r)
    BY <1>1, <1>5, <1>9, RequestKinds DEF Keys, Entities
  <2>2. a.from = s.from
    BY <1>1, <1>2, <1>4, <1>5, <1>9, RequestKinds DEF Entities
  <2> QED BY <1>2, <1>3, <1>9, <2>1, <2>2 DEF Matches, MemberAnswer, Succeeds
<1>10. CASE r.kind = "options"
  <2>1. r.from \in Keys(r)
    BY <1>1, <1>5, <1>10, RequestKinds DEF Keys
  <2>2. a.from = s.from
    BY <1>1, <1>2, <1>4, <1>5, <1>10, RequestKinds
  <2> QED BY <1>2, <1>3, <1>10, <2>1, <2>2 DEF Matches, OptionsAnswer, Succeeds
<1> QED BY <1>1, <1>3, <1>6, <1>7, <1>8, <1>9, <1>10, RequestKinds

--------------------------------------------------------------------------------
(* Type correctness *)

(* Every entity a request is carried out for has its place in the tables.     *)
LEMMA SubjectsTyped ==
  ASSUME NEW r \in RequestType, NEW e \in Subjects(r)
  PROVE  /\ e \in IF r.from = None THEN Ids \cup {None} ELSE {r.from}
         /\ Obstacles(r, e) = {} /\ r.kind # "bridge" => e \in Entities
<1>1. e \in IF r.from = None THEN Ids \cup {None} ELSE {r.from}
  BY DEF Subjects
<1>2. ASSUME Obstacles(r, e) = {}, r.kind # "bridge" PROVE e \in Entities
  <2>1. CASE r.kind = "add"
    BY <2>1, RequestKinds DEF Subjects, Entities
  <2>2. CASE r.kind # "add"
    BY <1>1, <1>2, <2>2, RequestKinds, BridgeAssumption DEF Entities
  <2> QED BY <2>1, <2>2
<1> QED BY <1>1, <1>2

(* The errors of Zigbee2MQTT name nothing but what the request named.         *)
LEMMA ObstaclesMentioned ==
  ASSUME NEW r \in RequestType, NEW e \in Subjects(r), NEW v \in Obstacles(r, e)
  PROVE  v \subseteq Mentions(r)
<1>1. v = Mentions(r) \ {r.to}
      \/ (v = {r.from} /\ r.kind = "add" /\ name[e] # None)
      \/ (v = {r.to} /\ r.kind \in {"rename", "add"})
  BY DEF Obstacles
<1>2. r.kind \in {"rename", "add"} => r.to # None
  BY RequestKinds, BridgeAssumption
<1>3. r.kind = "add" /\ name[e] # None => r.from # None
  BY DEF Subjects
<1> QED BY <1>1, <1>2, <1>3 DEF Mentions

LEMMA ComplaintsMentioned ==
  ASSUME NEW r \in RequestType, NEW v \in Complaints(r)
  PROVE  v \subseteq Mentions(r)
BY DEF Complaints

LEMMA PushTyped ==
  ASSUME NEW q \in Seq(Messages), Len(q) <= Buffer, NEW m \in Messages
  PROVE  /\ Push(q, m) \in Seq(Messages)
         /\ Len(Push(q, m)) <= Buffer
         /\ \A i \in 1..Len(Push(q, m)) :
              Push(q, m)[i] = m \/ \E j \in 1..Len(q) : Push(q, m)[i] = q[j]
<1>1. Buffer \in Nat \ {0}
  BY BridgeAssumption
<1>2. CASE Len(q) = Buffer
  <2>1. q # <<>>
    BY <1>1, <1>2
  <2>2. /\ Tail(q) \in Seq(Messages) /\ Len(Tail(q)) = Len(q) - 1
        /\ \A i \in 1..Len(Tail(q)) : Tail(q)[i] = q[i + 1]
    BY <2>1
  <2>3. Push(q, m) = Append(Tail(q), m)
    BY <1>2 DEF Push
  <2> QED BY <1>1, <1>2, <2>2, <2>3
<1>3. CASE Len(q) # Buffer
  BY <1>1, <1>3 DEF Push
<1> QED BY <1>2, <1>3

InboxOK ==
  /\ inbox \in [Callers -> Seq(Messages)]
  /\ \A c \in Callers : Len(inbox[c]) <= Buffer

(* The subscriptions hold answers on the topic of their call, and nothing     *)
(* between two calls.                                                         *)
InboxInv ==
  \A c \in Callers :
    /\ pc[c] = "idle" => inbox[c] = <<>>
    /\ \A i \in 1..Len(inbox[c]) : Topic(inbox[c][i].answer) = Topic(call[c])

LEMMA PublishKeeps ==
  ASSUME TypeOK, InboxInv,
         NEW by \in Anyone, NEW r \in RequestsOf(by), NEW a \in AnswersTo(r),
         Publish(a, by), UNCHANGED <<pc, call>>
  PROVE  InboxOK' /\ InboxInv'
<1> DEFINE m == [answer |-> a, by |-> by]
<1>1. m \in Messages /\ m.answer = a
  BY AnswerIsMessage
<1> HIDE DEF m
<1>2. ASSUME NEW c \in Callers
      PROVE  /\ inbox'[c] \in Seq(Messages) /\ Len(inbox'[c]) <= Buffer
             /\ pc[c] = "idle" => inbox'[c] = <<>>
             /\ \A i \in 1..Len(inbox'[c]) : Topic(inbox'[c][i].answer) = Topic(call[c])
  <2>1. inbox'[c] = IF pc[c] # "idle" /\ Topic(call[c]) = Topic(a)
                      THEN Push(inbox[c], m) ELSE inbox[c]
    BY DEF Publish, m
  <2>2. inbox[c] \in Seq(Messages) /\ Len(inbox[c]) <= Buffer
    BY DEF TypeOK
  <2>3. CASE pc[c] # "idle" /\ Topic(call[c]) = Topic(a)
    <3>1. inbox'[c] = Push(inbox[c], m)
      BY <2>1, <2>3
    <3>2. /\ inbox'[c] \in Seq(Messages) /\ Len(inbox'[c]) <= Buffer
          /\ \A i \in 1..Len(inbox'[c]) :
               inbox'[c][i] = m \/ \E j \in 1..Len(inbox[c]) : inbox'[c][i] = inbox[c][j]
      <4> DEFINE q == inbox[c]
      <4>1. /\ Push(q, m) \in Seq(Messages) /\ Len(Push(q, m)) <= Buffer
            /\ \A i \in 1..Len(Push(q, m)) :
                 Push(q, m)[i] = m \/ \E j \in 1..Len(q) : Push(q, m)[i] = q[j]
        <5> HIDE DEF q
        <5>1. q \in Seq(Messages) /\ Len(q) <= Buffer
          BY <2>2 DEF q
        <5> QED BY <1>1, <5>1, PushTyped
      <4> QED BY <3>1, <4>1
    <3> QED BY <1>1, <2>3, <3>2 DEF InboxInv
  <2>4. CASE ~(pc[c] # "idle" /\ Topic(call[c]) = Topic(a))
    BY <2>1, <2>2, <2>4 DEF InboxInv
  <2> QED BY <2>3, <2>4
<1>3. inbox' = [d \in Callers |-> inbox'[d]]
  BY DEF Publish
<1> QED BY <1>2, <1>3 DEF InboxOK, InboxInv

(* A request that is sent has its place among those that are on their way.    *)
LEMMA SentTyped ==
  ASSUME NEW p \in Seq(Sent), NEW c \in Anyone, NEW r \in RequestsOf(c)
  PROVE  Append(p, [request |-> r, by |-> c]) \in Seq(Sent)
<1>1. [request |-> r, by |-> c] \in Sent
  BY DEF Sent, Anyone
<1> QED BY <1>1

LEMMA SentParts ==
  ASSUME NEW p \in Seq(Sent), p # <<>>
  PROVE  /\ Head(p) \in Sent
         /\ Head(p).by \in Anyone
         /\ Head(p).request \in RequestsOf(Head(p).by)
         /\ Tail(p) \in Seq(Sent)
<1>1. Head(p) \in Sent /\ Tail(p) \in Seq(Sent)
  OBVIOUS
<1> QED BY <1>1 DEF Sent, Anyone

LEMMA PerformTyped ==
  ASSUME TypeOK, NEW r \in RequestType, NEW e \in Subjects(r), Obstacles(r, e) = {},
         Perform(r, e)
  PROVE  /\ name' \in [Entities -> Names \cup {None}]
         /\ members' \subseteq Ids \X Devices
         /\ options' \in [Entities -> Settings \cup {None}]
<1>1. /\ r.kind # "bridge" => e \in Entities
      /\ r.from # None => e = r.from
  BY SubjectsTyped
<1>2. None \notin Entities
  BY BridgeAssumption
<1>3. name' \in [Entities -> Names \cup {None}]
  BY <1>1, RequestKinds DEF Perform, TypeOK
<1>4. members' \subseteq Ids \X Devices
  <2>1. r.kind \in {"member_add", "member_remove"} => e \in Ids /\ r.to \in Devices
    BY <1>1, <1>2, RequestKinds DEF Entities
  <2> QED BY <2>1 DEF Perform, TypeOK
<1>5. options' \in [Entities -> Settings \cup {None}]
  BY <1>1, RequestKinds DEF Perform, TypeOK
<1> QED BY <1>3, <1>4, <1>5

Inv == TypeOK /\ InboxInv

LEMMA InitInv == Init => Inv
BY BridgeAssumption DEF Init, Inv, TypeOK, InboxInv, ResultType, NoResult

LEMMA ReturnInv ==
  ASSUME Inv, NEW c \in Callers, NEW by \in Anyone,
         NEW status \in {"ok", "error", "garbled", "timeout", "unsent"},
         Return(c, status, by), UNCHANGED <<fixed, call, pending, zigbee2mqtt>>
  PROVE  Inv'
<1>1. [status |-> status, by |-> by] \in ResultType
  BY DEF ResultType, Anyone
<1>2. Len(<<>>) <= Buffer
  BY BridgeAssumption
<1>3. TypeOK'
  BY <1>1, <1>2 DEF Inv, Return, TypeOK, fixed, zigbee2mqtt
<1>4. InboxInv'
  BY DEF Inv, Return, TypeOK, InboxInv
<1> QED BY <1>3, <1>4 DEF Inv

(* Each step keeps the types, and the subscriptions to the topics of calls.   *)
LEMMA NextInv == Inv /\ [Next]_vars => Inv'
<1> SUFFICES ASSUME Inv, [Next]_vars PROVE Inv'
  OBVIOUS
<1> USE DEF Inv
<1>1. ASSUME NEW c \in Callers, Subscribe(c) PROVE Inv'
  <2>1. PICK r \in work[c] : call' = [call EXCEPT ![c] = r]
    BY <1>1 DEF Subscribe
  <2>2. r \in RequestsOf(c) /\ c # None
    BY <2>1, BridgeAssumption DEF RequestsOf, TypeOK
  <2>3. r \in RequestType /\ r # None
    BY <2>2, RequestsTyped, BridgeAssumption DEF Anyone
  <2>4. inbox[c] = <<>>
    BY <1>1 DEF Subscribe, InboxInv
  <2>5. TypeOK'
    BY <1>1, <2>1, <2>2, <2>3 DEF Subscribe, TypeOK, fixed, zigbee2mqtt, NoResult, ResultType
  <2>6. InboxInv'
    <3> SUFFICES ASSUME NEW d \in Callers
                 PROVE  /\ pc'[d] = "idle" => inbox'[d] = <<>>
                        /\ \A i \in 1..Len(inbox'[d]) :
                             Topic(inbox'[d][i].answer) = Topic(call'[d])
      BY DEF InboxInv
    <3>1. CASE d = c
      BY <1>1, <2>4, <3>1 DEF Subscribe
    <3>2. CASE d # c
      <4>1. call'[d] = call[d] /\ pc'[d] = pc[d] /\ inbox' = inbox
        BY <1>1, <2>1, <3>2 DEF Subscribe, TypeOK
      <4> QED BY <4>1 DEF InboxInv
    <3> QED BY <3>1, <3>2
  <2> QED BY <2>5, <2>6
<1>2. ASSUME NEW c \in Callers, Request(c) PROVE Inv'
  <2>1. call[c] \in RequestsOf(c)
    BY <1>2 DEF Request, TypeOK
  <2>2. CASE /\ pending' = Append(pending, [request |-> call[c], by |-> c])
             /\ pc' = [pc EXCEPT ![c] = "waiting"]
             /\ UNCHANGED <<inbox, result>>
    <3>1. pending' \in Seq(Sent)
      BY <2>1, <2>2, SentTyped DEF TypeOK, Anyone
    <3>2. UNCHANGED <<fixed, call, zigbee2mqtt>> /\ pc[c] = "asking"
      BY <1>2 DEF Request
    <3>3. TypeOK'
      BY <2>2, <3>1, <3>2 DEF TypeOK, fixed, zigbee2mqtt
    <3>4. InboxInv'
      BY <2>2, <3>2 DEF InboxInv, TypeOK
    <3> QED BY <3>3, <3>4
  <2>3. CASE Return(c, "unsent", c) /\ UNCHANGED pending
    BY <1>2, <2>3, ReturnInv DEF Request, Anyone
  <2> QED BY <1>2, <2>2, <2>3 DEF Request
<1>3. ASSUME NEW c \in Callers, Take(c) PROVE Inv'
  <2> DEFINE m == Head(inbox[c])
  <2>1. inbox[c] \in Seq(Messages) /\ inbox[c] # <<>>
    BY <1>3 DEF Take, TypeOK
  <2>2. CASE Takes(call[c], m.answer)
    <3>1. m \in Messages
      BY <2>1
    <3>2. m.by \in Anyone /\ m.answer.status \in {"ok", "error", "garbled"}
      BY <3>1, MessageParts, RequestsTyped, AnswerParts
    <3>3. Return(c, m.answer.status, m.by)
      BY <1>3, <2>2 DEF Take
    <3> HIDE DEF m
    <3> QED BY <1>3, <3>2, <3>3, ReturnInv DEF Take
  <2>3. CASE ~Takes(call[c], m.answer)
    <3>1. inbox' = [inbox EXCEPT ![c] = Tail(@)] /\ UNCHANGED <<pc, result>>
      BY <1>3, <2>3 DEF Take
    <3>2. /\ Tail(inbox[c]) \in Seq(Messages) /\ Len(Tail(inbox[c])) = Len(inbox[c]) - 1
          /\ \A i \in 1..Len(Tail(inbox[c])) : Tail(inbox[c])[i] = inbox[c][i + 1]
      BY <2>1
    <3>3. UNCHANGED <<fixed, call, pending, zigbee2mqtt>> /\ pc[c] # "idle"
      BY <1>3 DEF Take
    <3>4. Buffer \in Nat
      BY BridgeAssumption
    <3>5. TypeOK'
      BY <3>1, <3>2, <3>3, <3>4 DEF TypeOK, fixed, zigbee2mqtt
    <3>6. InboxInv'
      <4> SUFFICES ASSUME NEW d \in Callers
                   PROVE  /\ pc[d] = "idle" => inbox'[d] = <<>>
                          /\ \A i \in 1..Len(inbox'[d]) :
                               Topic(inbox'[d][i].answer) = Topic(call[d])
        BY <3>1, <3>3 DEF InboxInv
      <4>1. CASE d = c
        BY <2>1, <3>1, <3>2, <3>3, <4>1 DEF InboxInv, TypeOK
      <4>2. CASE d # c
        BY <3>1, <4>2 DEF InboxInv, TypeOK
      <4> QED BY <4>1, <4>2
    <3> QED BY <3>5, <3>6
  <2> QED BY <2>2, <2>3
<1>4. ASSUME NEW c \in Callers, TimeOut(c) PROVE Inv'
  BY <1>4, ReturnInv DEF TimeOut, Anyone
<1>5. ASSUME Handle PROVE Inv'
  <2> DEFINE r == Head(pending).request
             by == Head(pending).by
  <2>1. by \in Anyone /\ r \in RequestsOf(by) /\ Tail(pending) \in Seq(Sent)
    BY <1>5, SentParts DEF Handle, TypeOK
  <2>2. r \in RequestType
    BY <2>1, RequestsTyped
  <2>3. pending' \in Seq(Sent) /\ UNCHANGED <<fixed, pc, call, result>>
    BY <1>5, <2>1 DEF Handle, TypeOK
  <2>4. PICK e \in Subjects(r) :
          \/ /\ Obstacles(r, e) = {}
             /\ Perform(r, e)
             /\ \/ Publish(Ok(r, e), by)
                \/ UNCHANGED inbox
                \/ Publish(Garbled(r), by)
          \/ /\ \/ \E values \in Obstacles(r, e) : Publish(Error(r, values), by)
                \/ \E values \in Complaints(r) : Publish(Error(r, values), by)
             /\ UNCHANGED zigbee2mqtt
    BY <1>5 DEF Handle
  <2> HIDE DEF r, by
  <2>5. /\ name' \in [Entities -> Names \cup {None}]
        /\ members' \subseteq Ids \X Devices
        /\ options' \in [Entities -> Settings \cup {None}]
    BY <2>2, <2>4, PerformTyped DEF TypeOK, zigbee2mqtt
  <2>6. UNCHANGED inbox \/ \E a \in AnswersTo(r) : Publish(a, by)
    <3>1. Ok(r, e) \in AnswersTo(r) /\ Garbled(r) \in AnswersTo(r)
      BY <2>2, SubjectsTyped DEF AnswersTo
    <3>2. \A values \in Obstacles(r, e) : Error(r, values) \in AnswersTo(r)
      BY <2>2, ObstaclesMentioned DEF AnswersTo
    <3>3. \A values \in Complaints(r) : Error(r, values) \in AnswersTo(r)
      BY <2>2, ComplaintsMentioned DEF AnswersTo
    <3> QED BY <2>4, <3>1, <3>2, <3>3
  <2>7. InboxOK' /\ InboxInv'
    <3>1. CASE UNCHANGED inbox
      BY <2>3, <3>1 DEF InboxOK, InboxInv, TypeOK
    <3>2. CASE \E a \in AnswersTo(r) : Publish(a, by)
      BY <2>1, <2>3, <3>2, PublishKeeps
    <3> QED BY <2>6, <3>1, <3>2
  <2> QED BY <2>3, <2>5, <2>7 DEF TypeOK, InboxOK, fixed
<1>6. ASSUME Lose PROVE Inv'
  <2>1. pending' \in Seq(Sent)
    BY <1>6, SentParts DEF Lose, TypeOK
  <2> QED BY <1>6, <2>1 DEF Lose, TypeOK, InboxInv, fixed, zigbee2mqtt
<1>7. ASSUME Others PROVE Inv'
  <2>1. pending' \in Seq(Sent)
    <3>1. Foreign = RequestsOf(None) /\ None \in Anyone
      BY DEF RequestsOf, Anyone
    <3> QED BY <1>7, <3>1, SentTyped DEF Others, TypeOK
  <2> QED BY <1>7, <2>1 DEF Others, TypeOK, InboxInv, fixed, zigbee2mqtt
<1>8. CASE UNCHANGED vars
  BY <1>8 DEF vars, fixed, zigbee2mqtt, TypeOK, InboxInv
<1> QED BY <1>1, <1>2, <1>3, <1>4, <1>5, <1>6, <1>7, <1>8 DEF Next, CallStep

(* TypeOK: the state of requests, answers and subscriptions keeps its types,  *)
(* and a subscription its bound.                                              *)
THEOREM TypeCorrect == Spec => []TypeOK
<1>1. Inv => TypeOK
  BY DEF Inv
<1> QED BY InitInv, NextInv, <1>1, PTL DEF Spec

--------------------------------------------------------------------------------
(* AnswersAreOwn *)

LEMMA TakeOwn ==
  ASSUME Apart, Inv, NEW c \in Callers, Take(c), AnswersAreOwn
  PROVE  AnswersAreOwn'
<1> DEFINE m == Head(inbox[c])
<1>1. inbox[c] \in Seq(Messages) /\ inbox[c] # <<>> /\ m = inbox[c][1] /\ 1 \in 1..Len(inbox[c])
  BY DEF Take, Inv, TypeOK
<1>2. m \in Messages /\ Topic(m.answer) = Topic(call[c])
  BY <1>1 DEF Inv, InboxInv
<1> HIDE DEF m
<1>3. PICK s \in RequestsOf(m.by) : m.answer \in AnswersTo(s)
  BY <1>2, MessageParts
<1>4. m.by \in Anyone /\ call[c] \in RequestsOf(c)
  BY <1>2, MessageParts DEF Take, Inv, TypeOK
<1>5. CASE ~Takes(call[c], m.answer)
  BY <1>5 DEF Take, AnswersAreOwn, m
<1>6. CASE Takes(call[c], m.answer)
  <2>1. result' = [result EXCEPT ![c] = [status |-> m.answer.status, by |-> m.by]]
    BY <1>6 DEF Take, Return, m
  <2>2. m.answer.status \in {"ok", "error"} => m.by = c
    BY <1>2, <1>3, <1>4, <1>6, OthersDoNotMatch DEF Takes
  <2> QED BY <2>1, <2>2 DEF AnswersAreOwn, Inv, TypeOK
<1> QED BY <1>5, <1>6

(* AnswersAreOwn: as long as what the callers ask for is apart, no call takes *)
(* the answer to another's request, however many there are, whatever is lost, *)
(* late or repeated, and whoever else makes requests.                         *)
THEOREM AnswersOwn == Apart => (Spec => []AnswersAreOwn)
<1> SUFFICES ASSUME Apart PROVE Spec => []AnswersAreOwn
  OBVIOUS
<1>1. Init => AnswersAreOwn
  BY DEF Init, AnswersAreOwn, NoResult
<1>2. Inv /\ AnswersAreOwn /\ [Next]_vars => AnswersAreOwn'
  <2> SUFFICES ASSUME Inv, AnswersAreOwn, [Next]_vars PROVE AnswersAreOwn'
    OBVIOUS
  <2>1. ASSUME NEW c \in Callers, Subscribe(c) \/ Request(c) \/ TimeOut(c)
        PROVE  AnswersAreOwn'
    BY <2>1 DEF Subscribe, Request, TimeOut, Return, AnswersAreOwn, NoResult, Inv, TypeOK
  <2>2. ASSUME NEW c \in Callers, Take(c) PROVE AnswersAreOwn'
    BY <2>2, TakeOwn
  <2>3. ASSUME Handle \/ Lose \/ Others \/ UNCHANGED vars PROVE AnswersAreOwn'
    BY <2>3 DEF Handle, Lose, Others, vars, AnswersAreOwn
  <2> QED BY <2>1, <2>2, <2>3 DEF Next, CallStep
<1> QED BY InitInv, NextInv, <1>1, <1>2, PTL DEF Spec
--------------------------------------------------------------------------------
(* OkIsTrue *)

(* A request of caller c or of others is one of those that may be made.       *)
LEMMA OfTyped ==
  ASSUME TypeOK, NEW c \in Anyone, NEW r \in Of(work, c)
  PROVE  r \in RequestsOf(c) /\ r \in RequestType /\ r \in Asked(work)
<1>1. r \in RequestsOf(c)
  BY BridgeAssumption DEF TypeOK, Of, RequestsOf, Anyone
<1>2. r \in Asked(work)
  BY DEF Asked, Anyone
<1> QED BY <1>1, <1>2, RequestsTyped

(* The places of x's requests among those on their way.                       *)
Outstanding(x) == {i \in 1..Len(pending) : pending[i].by = x}

(* AsAsked, and the group that has the name is one the request can be about.  *)
Holds(r) ==
  IF r.kind \in {"rename", "add"}
    THEN \E e \in Entities : Fits(work, r, e) /\ name[e] = r.to
    ELSE AsAsked(r)

LEMMA HoldsKinds ==
  ASSUME NEW r \in RequestType
  PROVE  /\ r.kind \in {"rename", "add"} =>
              (Holds(r) <=> \E e \in Entities : Fits(work, r, e) /\ name[e] = r.to)
         /\ r.kind = "remove" => (Holds(r) <=> name[r.from] = None)
         /\ r.kind = "member_add" => (Holds(r) <=> <<r.from, r.to>> \in members)
         /\ r.kind = "member_remove" => (Holds(r) <=> <<r.from, r.to>> \notin members)
         /\ r.kind = "options" => (Holds(r) <=> options[r.from] = r.to)
         /\ r.kind = "bridge" => Holds(r)
BY DEF Holds, AsAsked

LEMMA HoldsKindsNext ==
  ASSUME NEW r \in RequestType
  PROVE  /\ r.kind \in {"rename", "add"} =>
              (Holds(r)' <=> \E e \in Entities : Fits(work', r, e) /\ name'[e] = r.to)
         /\ r.kind = "remove" => (Holds(r)' <=> name'[r.from] = None)
         /\ r.kind = "member_add" => (Holds(r)' <=> <<r.from, r.to>> \in members')
         /\ r.kind = "member_remove" => (Holds(r)' <=> <<r.from, r.to>> \notin members')
         /\ r.kind = "options" => (Holds(r)' <=> options'[r.from] = r.to)
         /\ r.kind = "bridge" => Holds(r)'
BY DEF Holds, AsAsked, Fits, Lasting, Asked, Of

LEMMA HoldsAsAsked ==
  ASSUME NEW r \in RequestType, Holds(r)
  PROVE  AsAsked(r)
<1>1. CASE r.kind \in {"rename", "add"}
  <2>1. PICK e \in Entities : Fits(work, r, e) /\ name[e] = r.to
    BY <1>1, HoldsKinds
  <2>2. r.from \in {e, None}
    BY <2>1 DEF Fits
  <2> QED BY <1>1, <2>1, <2>2 DEF AsAsked
<1>2. CASE r.kind \notin {"rename", "add"}
  BY <1>2 DEF Holds
<1> QED BY <1>1, <1>2

WorkInv ==
  /\ \A x \in Callers : call[x] \in Of(work, x) \cup {None}
  /\ \A i \in 1..Len(pending) : pending[i].request \in Of(work, pending[i].by)

(* What nobody removes keeps a name.                                          *)
NamesInv == \A e \in Entities : Lasting(work, e) => name[e] # None

(* Names that callers want are had by nobody else, and a group with an id has *)
(* no other name than the one it was made with.                               *)
WantedInv ==
  \A x \in Callers : \A r \in Of(work, x) :
    /\ r.kind \in {"rename", "add"} =>
         \A e \in Entities : name[e] = r.to => Fits(work, r, e)
    /\ r.kind = "add" /\ r.from # None => name[r.from] \in {None, r.to}

(* With prompt answers only the last call's request can be on its way, and an *)
(* answer to the caller is the answer to that.                                *)
PromptFor(x) ==
  /\ \A i \in Outstanding(x) :
       /\ pc[x] = "waiting"
       /\ pending[i].request = call[x]
       /\ \A j \in Outstanding(x) : i = j
  /\ \A i \in 1..Len(inbox[x]) :
       /\ inbox[x][i].answer.status # "garbled"
       /\ inbox[x][i].by = x =>
            /\ Outstanding(x) = {} /\ pc[x] = "waiting"
            /\ inbox[x][i].answer.status = "ok" => Holds(call[x])
  /\ result[x].status = "ok" => call[x] # None /\ Holds(call[x])

(* When every request is carried out, the last one that is on its way decides, *)
(* or what the last one has left.                                              *)
Called(x) ==
  \/ pc[x] = "waiting"
  \/ pc[x] = "idle" /\ result[x].status \notin {"none", "unsent"}
CompleteFor(x) ==
  Called(x) =>
    /\ call[x] # None
    /\ \A i \in Outstanding(x) :
         (\A j \in Outstanding(x) : j <= i) => pending[i].request = call[x]
    /\ Outstanding(x) = {} => Holds(call[x])

OkInv ==
  /\ WorkInv
  /\ NamesInv
  /\ Prompt(environment) => \A x \in Callers : PromptFor(x)
  /\ Complete(environment) /\ Unhindered =>
       WantedInv /\ \A x \in Callers : CompleteFor(x)

(* What Zigbee2MQTT carries out is as it was asked for.                       *)
LEMMA PerformHolds ==
  ASSUME TypeOK, NamesInv, NEW c \in Anyone, NEW r \in Of(work, c), NEW e \in Subjects(r),
         Obstacles(r, e) = {}, Perform(r, e), UNCHANGED work
  PROVE  Holds(r)'
<1>1. r \in RequestType
  BY OfTyped
<1>2. /\ r.kind # "bridge" => e \in Entities
      /\ r.from # None => e = r.from
  BY <1>1, SubjectsTyped
<1>3. None \notin Entities
  BY BridgeAssumption
<1>4. CASE r.kind \in {"rename", "add"}
  <2>1. e \in Entities /\ name'[e] = r.to
    BY <1>2, <1>4 DEF Perform, TypeOK
  <2>2. CASE r.from # None
    BY <1>1, <1>2, <1>4, <2>1, <2>2, HoldsKindsNext DEF Fits
  <2>3. CASE r.from = None
    <3>1. r.kind = "add"
      BY <1>1, <1>3, <1>4, <2>3, RequestKinds
    <3>2. e \in Ids /\ name[e] = None
      BY <2>3, <3>1 DEF Subjects
    <3>3. ~Lasting(work, e)
      BY <2>1, <3>2 DEF NamesInv
    <3>4. Fits(work', r, e)
      BY <2>3, <3>2, <3>3 DEF Fits
    <3> QED BY <1>1, <1>4, <2>1, <3>4, HoldsKindsNext
  <2> QED BY <2>2, <2>3
<1>5. CASE r.kind \in {"remove", "member_add", "member_remove", "options"}
  <2>1. e = r.from /\ e \in Entities
    BY <1>1, <1>2, <1>3, <1>5, RequestKinds DEF Entities
  <2> QED BY <1>1, <1>5, <2>1, HoldsKindsNext DEF Perform, TypeOK
<1> QED BY <1>1, <1>4, <1>5, RequestKinds, HoldsKindsNext

(* What another asks for does not undo it.                                    *)
LEMMA OthersHold ==
  ASSUME TypeOK, NamesInv, Separate,
         NEW c \in Callers, NEW r \in Of(work, c), Holds(r),
         NEW d \in Anyone, c # d, NEW s \in Of(work, d), NEW e \in Subjects(s),
         Obstacles(s, e) = {}, Perform(s, e), UNCHANGED work
  PROVE  Holds(r)'
<1>1. r \in RequestType /\ s \in RequestType
  BY OfTyped DEF Anyone
<1>2. /\ r.from # None => s.from # r.from
      /\ r.kind = "remove" => ~(s.kind = "add" /\ s.from = None)
      /\ r.kind = "add" /\ r.from = None /\ s.kind \in {"rename", "remove"} =>
           s.from \in Devices \/ Lasting(work, s.from)
  BY DEF Separate, Anyone, TypeOK
<1>3. /\ s.kind # "bridge" => e \in Entities
      /\ s.from # None => e = s.from
  BY <1>1, SubjectsTyped
<1>4. None \notin Entities /\ Ids \cap Devices = {}
  BY BridgeAssumption
<1>5. s.from = None => s.kind \in {"add", "bridge"}
  BY <1>1, <1>4, RequestKinds DEF Entities
<1>6. s.kind = "add" /\ s.from = None => e \in Ids /\ name[e] = None
  BY DEF Subjects
<1>7. CASE r.kind \in {"rename", "add"}
  <2>1. PICK f \in Entities : Fits(work, r, f) /\ name[f] = r.to
    BY <1>1, <1>7, HoldsKinds
  <2>2. r.to # None
    BY <1>1, <1>7, RequestKinds, BridgeAssumption
  <2>3. s.kind \in {"rename", "add", "remove"} => e # f
    <3>1. CASE s.from = None
      BY <1>5, <1>6, <2>1, <2>2, <3>1
    <3>2. CASE s.from # None /\ r.from # None
      BY <1>2, <1>3, <2>1, <3>2 DEF Fits
    <3>3. CASE s.from # None /\ r.from = None
      <4>1. f \in Ids /\ ~Lasting(work, f) /\ e = s.from
        BY <1>3, <2>1, <3>3 DEF Fits
      <4>2. r.kind = "add"
        BY <1>1, <1>4, <1>7, <3>3, RequestKinds
      <4>3. CASE s.kind \in {"rename", "remove"}
        BY <1>2, <1>4, <3>3, <4>1, <4>2, <4>3
      <4>4. CASE s.kind = "add"
        <5>1. name[e] = None
          BY <3>3, <4>1, <4>4 DEF Obstacles
        <5> QED BY <2>1, <2>2, <5>1
      <4> QED BY <4>3, <4>4
    <3> QED BY <3>1, <3>2, <3>3
  <2>4. name'[f] = r.to
    BY <2>1, <2>3 DEF Perform, TypeOK
  <2> QED BY <1>1, <1>7, <2>1, <2>4, HoldsKindsNext
<1>8. CASE r.kind = "remove"
  <2>1. r.from \in Ids /\ r.from # None /\ name[r.from] = None
    BY <1>1, <1>4, <1>8, HoldsKinds, RequestKinds DEF Entities
  <2>2. s.kind \in {"rename", "add"} => e # r.from
    BY <1>2, <1>3, <1>5, <1>8, <2>1
  <2>3. name'[r.from] = None
    BY <2>1, <2>2 DEF Perform, TypeOK, Entities
  <2> QED BY <1>1, <1>8, <2>3, HoldsKindsNext
<1>9. CASE r.kind \in {"member_add", "member_remove"}
  <2>1. r.from \in Ids /\ r.from # None
    BY <1>1, <1>4, <1>9, RequestKinds DEF Entities
  <2>2. s.kind \in {"member_add", "member_remove", "remove"} => e # r.from
    BY <1>2, <1>3, <1>5, <2>1
  <2>3. <<r.from, r.to>> \in members' <=> <<r.from, r.to>> \in members
    BY <2>2 DEF Perform
  <2> QED BY <1>1, <1>9, <2>3, HoldsKinds, HoldsKindsNext
<1>10. CASE r.kind = "options"
  <2>1. r.from \in Entities /\ r.from # None
    BY <1>1, <1>4, <1>10, RequestKinds
  <2>2. s.kind \in {"options", "remove"} => e # r.from
    BY <1>2, <1>3, <1>5, <2>1
  <2>3. options'[r.from] = options[r.from]
    BY <2>1, <2>2 DEF Perform, TypeOK
  <2> QED BY <1>1, <1>10, <2>3, HoldsKinds, HoldsKindsNext
<1> QED BY <1>1, <1>7, <1>8, <1>9, <1>10, RequestKinds, HoldsKindsNext

(* What cannot be carried out is as it was asked for already.                 *)
LEMMA ObstacleHolds ==
  ASSUME TypeOK, NamesInv, WantedInv, Unhindered,
         NEW c \in Callers, NEW r \in Of(work, c), NEW e \in Subjects(r),
         Obstacles(r, e) # {}
  PROVE  Holds(r)
<1>1. r \in RequestType
  BY OfTyped DEF Anyone
<1>2. /\ r.kind \in {"rename", "options", "member_add", "member_remove"} =>
           Lasting(work, r.from)
      /\ r.kind \in {"rename", "add"} =>
           \A f \in Entities : name[f] = r.to => Fits(work, r, f)
      /\ r.kind = "add" /\ r.from # None => name[r.from] \in {None, r.to}
  BY DEF Unhindered, WantedInv, TypeOK
<1>3. r.from # None => e = r.from
  BY <1>1, SubjectsTyped
<1>4. None \notin Entities
  BY BridgeAssumption
<1>5. \/ r.kind \notin {"add", "bridge"} /\ name[e] = None
      \/ r.kind = "add" /\ name[e] # None
      \/ r.kind \in {"rename", "add"} /\ InUse(r.to, e)
  BY DEF Obstacles
<1>6. CASE r.kind \in {"rename", "options", "member_add", "member_remove"}
  <2>1. r.from \in Entities /\ e = r.from
    BY <1>1, <1>3, <1>4, <1>6, RequestKinds DEF Entities
  <2>2. name[e] # None
    BY <1>2, <1>6, <2>1 DEF NamesInv
  <2>3. r.kind = "rename" /\ InUse(r.to, e)
    BY <1>5, <1>6, <2>2
  <2> QED BY <1>2, <1>4, <2>1, <2>3 DEF InUse, Fits
<1>7. CASE r.kind = "add"
  <2>1. CASE r.from # None
    <3>1. r.from \in Entities /\ e = r.from
      BY <1>1, <1>3, <1>7, <2>1, RequestKinds DEF Entities
    <3>2. ~InUse(r.to, e)
      BY <1>2, <1>7, <2>1, <3>1 DEF InUse, Fits
    <3>3. name[e] = r.to
      BY <1>2, <1>5, <1>7, <2>1, <3>1, <3>2
    <3> QED BY <1>1, <1>7, <2>1, <3>1, <3>3, HoldsKinds DEF Fits
  <2>2. CASE r.from = None
    <3>1. name[e] = None
      BY <1>7, <2>2 DEF Subjects
    <3>2. PICK f \in Entities : name[f] = r.to
      BY <1>5, <1>7, <3>1 DEF InUse
    <3> QED BY <1>1, <1>2, <1>7, <3>2, HoldsKinds
  <2> QED BY <2>1, <2>2
<1>8. CASE r.kind = "remove"
  <2>1. e = r.from
    BY <1>1, <1>3, <1>4, <1>8, RequestKinds DEF Entities
  <2> QED BY <1>1, <1>5, <1>8, <2>1, HoldsKinds
<1> QED BY <1>1, <1>5, <1>6, <1>7, <1>8, RequestKinds

LEMMA PerformNames ==
  ASSUME TypeOK, NamesInv, NEW c \in Anyone, NEW r \in Of(work, c), NEW e \in Subjects(r),
         Obstacles(r, e) = {}, Perform(r, e), UNCHANGED work
  PROVE  NamesInv'
<1>1. r \in RequestType /\ r \in Asked(work)
  BY OfTyped
<1>2. /\ r.kind # "bridge" => e \in Entities
      /\ r.from # None => e = r.from
  BY <1>1, SubjectsTyped
<1>3. None \notin Entities /\ None \notin Names
  BY BridgeAssumption
<1>4. r.kind = "remove" => e = r.from /\ \A f \in Entities : Lasting(work, f) => f # e
  BY <1>1, <1>2, <1>3, RequestKinds DEF Lasting, Entities
<1>5. r.kind \in {"rename", "add"} => r.to # None
  BY <1>1, <1>3, RequestKinds
<1>6. ASSUME NEW f \in Entities, Lasting(work, f) PROVE name'[f] # None
  BY <1>4, <1>5, <1>6 DEF NamesInv, Perform, TypeOK
<1>7. \A f \in Entities : Lasting(work, f)' => Lasting(work, f)
  BY DEF Lasting, Asked, Of
<1> QED BY <1>6, <1>7 DEF NamesInv

LEMMA PerformWanted ==
  ASSUME TypeOK, NamesInv, WantedInv, Unhindered,
         NEW c \in Anyone, NEW s \in Of(work, c), NEW e \in Subjects(s),
         Obstacles(s, e) = {}, Perform(s, e), UNCHANGED work
  PROVE  WantedInv'
<1>1. s \in RequestType /\ s \in Asked(work)
  BY OfTyped
<1>2. /\ s.kind # "bridge" => e \in Entities
      /\ s.from # None => e = s.from
  BY <1>1, SubjectsTyped
<1>3. None \notin Entities /\ None \notin Names
  BY BridgeAssumption
<1>n. \A f \in Entities :
        name'[f] = IF f = e /\ s.kind \in {"rename", "add"} THEN s.to
                   ELSE IF f = e /\ s.kind = "remove" THEN None ELSE name[f]
  BY DEF Perform, TypeOK
<1>s. s.from = None /\ s.kind \in {"rename", "add"} => e \in Ids /\ ~Lasting(work, e)
  <2>1. s.from = None /\ s.kind \in {"rename", "add"} => s.kind = "add"
    BY <1>1, <1>3, RequestKinds
  <2>2. s.from = None /\ s.kind = "add" => e \in Ids /\ name[e] = None
    BY DEF Subjects
  <2> QED BY <2>1, <2>2 DEF NamesInv, Entities
<1> SUFFICES ASSUME NEW x \in Callers, NEW r \in Of(work, x)
             PROVE  /\ r.kind \in {"rename", "add"} =>
                         \A f \in Entities : name'[f] = r.to => Fits(work, r, f)
                    /\ r.kind = "add" /\ r.from # None => name'[r.from] \in {None, r.to}
  BY DEF WantedInv, Fits, Lasting, Asked, Of
<1>4. /\ r.kind \in {"rename", "add"} =>
           /\ \A f \in Entities : name[f] = r.to => Fits(work, r, f)
           /\ s.kind \in {"rename", "add"} /\ s.to = r.to => s.from = r.from
      /\ r.kind = "add" /\ r.from # None =>
           /\ name[r.from] \in {None, r.to}
           /\ s.kind \in {"rename", "add"} /\ s.from \in {r.from, None} => s.to = r.to
  BY <1>1 DEF Unhindered, WantedInv, TypeOK
<1>5. r \in RequestType
  BY OfTyped DEF Anyone
<1>6. ASSUME r.kind \in {"rename", "add"}, NEW f \in Entities, name'[f] = r.to
      PROVE  Fits(work, r, f)
  <2>1. r.to # None
    BY <1>3, <1>5, <1>6, RequestKinds
  <2>2. CASE f = e /\ s.kind \in {"rename", "add"}
    <3>1. s.from = r.from
      BY <1>4, <1>6, <1>n, <2>2
    <3> QED BY <1>2, <1>s, <2>2, <3>1 DEF Fits
  <2>3. CASE ~(f = e /\ s.kind \in {"rename", "add"})
    BY <1>4, <1>6, <1>n, <2>1, <2>3
  <2> QED BY <2>2, <2>3
<1>7. ASSUME r.kind = "add", r.from # None PROVE name'[r.from] \in {None, r.to}
  <2>1. r.from \in Entities
    BY <1>5, <1>7, RequestKinds DEF Entities
  <2>2. CASE r.from = e /\ s.kind \in {"rename", "add"}
    BY <1>2, <1>4, <1>7, <1>n, <2>1, <2>2
  <2>3. CASE ~(r.from = e /\ s.kind \in {"rename", "add"})
    BY <1>4, <1>7, <1>n, <2>1, <2>3
  <2> QED BY <2>2, <2>3
<1> QED BY <1>6, <1>7

--------------------------------------------------------------------------------
(* How the steps of callers and of Zigbee2MQTT bear on that                   *)

(* The requests of x move k places forward, and the first k places are gone.  *)
Shifted(x, k) ==
  /\ \A i \in Outstanding(x)' :
       i + k \in Outstanding(x) /\ pending'[i] = pending[i + k]
  /\ \A j \in Outstanding(x) : j > k => j - k \in Outstanding(x)'

LEMMA UnsentShifts ==
  ASSUME TypeOK, UNCHANGED pending, NEW x
  PROVE  Shifted(x, 0)
BY DEF Shifted, Outstanding

LEMMA AppendShifts ==
  ASSUME TypeOK, NEW m \in Sent, pending' = Append(pending, m), NEW x, m.by # x
  PROVE  Shifted(x, 0)
<1>1. pending \in Seq(Sent)
  BY DEF TypeOK
<1>2. /\ Len(pending') = Len(pending) + 1 /\ pending'[Len(pending) + 1] = m
      /\ \A i \in 1..Len(pending) : pending'[i] = pending[i]
      /\ Len(pending) \in Nat
  BY <1>1
<1> QED BY <1>2 DEF Shifted, Outstanding

LEMMA TailShifts ==
  ASSUME TypeOK, pending # <<>>, pending' = Tail(pending), NEW x
  PROVE  Shifted(x, 1)
<1>1. pending \in Seq(Sent)
  BY DEF TypeOK
<1>2. /\ Len(pending') = Len(pending) - 1
      /\ \A i \in 1..Len(pending') : pending'[i] = pending[i + 1]
      /\ Len(pending) \in Nat \ {0}
  BY <1>1
<1> QED BY <1>2 DEF Shifted, Outstanding

(* What Zigbee2MQTT does with the first request: it is carried out or not,    *)
(* and answered or not, and an answer is Ok only when it was carried out.     *)
Performed(r, e) == Obstacles(r, e) = {} /\ Perform(r, e)
Serves(by, r, e) ==
  /\ pending # <<>> /\ pending[1].request = r /\ pending[1].by = by
  /\ UNCHANGED <<fixed, pc, call, result>>
  /\ pending' = Tail(pending) \/ (May("again") /\ UNCHANGED pending)
  /\ \/ Performed(r, e)
     \/ UNCHANGED zigbee2mqtt /\ (Obstacles(r, e) # {} \/ May("refuse"))
  /\ \/ UNCHANGED inbox
     \/ \E a \in AnswersTo(r) :
          /\ Publish(a, by)
          /\ a.status = "ok" => Performed(r, e)
          /\ a.status = "garbled" => May("garble")

LEMMA HandleServes ==
  ASSUME TypeOK, WorkInv, Handle
  PROVE  \E by \in Anyone : \E r \in Of(work, by) : \E e \in Subjects(r) :
           r \in RequestsOf(by) /\ Serves(by, r, e)
<1> DEFINE r == Head(pending).request
           by == Head(pending).by
<1>1. /\ pending # <<>> /\ pending[1] = Head(pending) /\ 1 \in 1..Len(pending)
      /\ by \in Anyone /\ r \in RequestsOf(by)
  BY SentParts DEF Handle, TypeOK
<1>2. r \in RequestType /\ r \in Of(work, by)
  BY <1>1, RequestsTyped DEF WorkInv
<1>3. PICK e \in Subjects(r) :
        \/ /\ Obstacles(r, e) = {}
           /\ Perform(r, e)
           /\ \/ Publish(Ok(r, e), by)
              \/ UNCHANGED inbox
              \/ May("garble") /\ Publish(Garbled(r), by)
        \/ /\ \/ \E values \in Obstacles(r, e) : Publish(Error(r, values), by)
              \/ May("refuse") /\ \E values \in Complaints(r) : Publish(Error(r, values), by)
           /\ UNCHANGED zigbee2mqtt
  BY DEF Handle
<1>4. UNCHANGED <<fixed, pc, call, result>> /\ (pending' = Tail(pending) \/ (May("again") /\ UNCHANGED pending))
  BY DEF Handle
<1> HIDE DEF r, by
<1>5. Ok(r, e) \in AnswersTo(r) /\ Garbled(r) \in AnswersTo(r)
  BY <1>2, SubjectsTyped DEF AnswersTo
<1>6. /\ \A values \in Obstacles(r, e) : Error(r, values) \in AnswersTo(r)
      /\ \A values \in Complaints(r) : Error(r, values) \in AnswersTo(r)
  BY <1>2, ObstaclesMentioned, ComplaintsMentioned DEF AnswersTo
<1>7. /\ \A values : Error(r, values).status = "error"
      /\ Garbled(r).status = "garbled" /\ Ok(r, e).status = "ok"
  BY DEF Error, Garbled, Ok
<1>8. \/ Performed(r, e)
      \/ UNCHANGED zigbee2mqtt /\ (Obstacles(r, e) # {} \/ May("refuse"))
  BY <1>3 DEF Performed
<1>9. \/ UNCHANGED inbox
      \/ \E a \in AnswersTo(r) :
           /\ Publish(a, by)
           /\ a.status = "ok" => Performed(r, e)
           /\ a.status = "garbled" => May("garble")
  BY <1>3, <1>5, <1>6, <1>7 DEF Performed
<1>10. Serves(by, r, e)
  BY <1>1, <1>4, <1>8, <1>9 DEF Serves, r, by
<1> QED BY <1>1, <1>2, <1>3, <1>10

(* A step that leaves devices and groups alone leaves what holds.             *)
LEMMA StillHolds ==
  ASSUME UNCHANGED <<work, zigbee2mqtt>>, NEW x, call'[x] = call[x], Holds(call[x])
  PROVE  Holds(call[x])'
BY DEF Holds, AsAsked, Fits, Lasting, Asked, Of, zigbee2mqtt

LEMMA ServedHolds ==
  ASSUME TypeOK, NamesInv, Separate, NEW by \in Anyone, NEW r \in Of(work, by),
         NEW e \in Subjects(r), Serves(by, r, e),
         NEW x \in Callers, call[x] \in Of(work, x), by = x => r = call[x], Holds(call[x])
  PROVE  Holds(call[x])'
<1>1. call'[x] = call[x] /\ work' = work
  BY DEF Serves, fixed
<1>2. CASE UNCHANGED zigbee2mqtt
  BY <1>1, <1>2, StillHolds
<1>3. CASE Performed(r, e)
  <2>1. PICK s \in Of(work, x) : s = call[x]
    OBVIOUS
  <2>2. x \in Anyone
    BY DEF Anyone
  <2>3. Holds(s)'
    <3>1. CASE by = x
      BY <1>1, <1>3, <2>1, <2>2, <3>1, PerformHolds DEF Performed
    <3>2. CASE by # x
      BY <1>1, <1>3, <2>1, <3>2, OthersHold DEF Performed
    <3> QED BY <3>1, <3>2
  <2> QED BY <1>1, <2>1, <2>3 DEF Holds, AsAsked, Fits, Lasting, Asked, Of
<1> QED BY <1>2, <1>3 DEF Serves

LEMMA OwnServed ==
  ASSUME TypeOK, NamesInv, NEW x \in Callers, NEW r \in Of(work, x), r = call[x],
         NEW e \in Subjects(r), Serves(x, r, e), Performed(r, e)
  PROVE  Holds(call[x])'
<1>1. Holds(r)'
  BY PerformHolds DEF Anyone, Serves, Performed, fixed
<1> QED BY <1>1 DEF Serves, fixed, Holds, AsAsked, Fits, Lasting, Asked, Of

(* An answer in a subscription was there before, or is the new one.           *)
LEMMA Published ==
  ASSUME TypeOK, NEW by \in Anyone, NEW r \in RequestsOf(by), NEW a \in AnswersTo(r),
         Publish(a, by), NEW x \in Callers, NEW i \in 1..Len(inbox'[x])
  PROVE  \/ inbox'[x][i] = [answer |-> a, by |-> by] /\ pc[x] # "idle"
         \/ \E j \in 1..Len(inbox[x]) : inbox'[x][i] = inbox[x][j]
<1> DEFINE q == inbox[x]
           m == [answer |-> a, by |-> by]
<1>1. inbox'[x] = IF pc[x] # "idle" /\ Topic(call[x]) = Topic(a) THEN Push(q, m) ELSE q
  BY DEF Publish
<1>2. q \in Seq(Messages) /\ Len(q) <= Buffer /\ m \in Messages
  BY AnswerIsMessage DEF TypeOK
<1> HIDE DEF q, m
<1>3. \A k \in 1..Len(Push(q, m)) :
        Push(q, m)[k] = m \/ \E j \in 1..Len(q) : Push(q, m)[k] = q[j]
  BY <1>2, PushTyped
<1>4. \/ inbox'[x][i] = m /\ pc[x] # "idle"
      \/ \E j \in 1..Len(q) : inbox'[x][i] = q[j]
  BY <1>1, <1>3
<1> QED BY <1>4 DEF q, m

LEMMA WorkStep ==
  ASSUME TypeOK, WorkInv, [Next]_vars
  PROVE  WorkInv' /\ UNCHANGED fixed
<1>p. pending \in Seq(Sent) /\ None \notin Callers
  BY BridgeAssumption DEF TypeOK
<1>o. UNCHANGED fixed => \A c : Of(work, c)' = Of(work, c)
  BY DEF Of, fixed
<1>f. WorkInv <=> /\ \A x \in Callers : call[x] \in Of(work, x) \cup {None}
                  /\ \A i \in 1..Len(pending) : pending[i].request \in Of(work, pending[i].by)
  BY DEF WorkInv
<1>n. UNCHANGED fixed =>
        (WorkInv' <=>
           /\ \A x \in Callers : call'[x] \in Of(work, x) \cup {None}
           /\ \A i \in 1..Len(pending') : pending'[i].request \in Of(work, pending'[i].by))
  BY DEF WorkInv, fixed, Of
<1>1. ASSUME NEW c \in Callers, Subscribe(c) PROVE WorkInv' /\ UNCHANGED fixed
  <2>1. PICK r \in work[c] : call' = [call EXCEPT ![c] = r]
    BY <1>1 DEF Subscribe
  <2>2. r \in Of(work, c)
    BY <1>p, <2>1 DEF Of
  <2>3. UNCHANGED <<fixed, pending>>
    BY <1>1 DEF Subscribe
  <2> QED BY <1>f, <1>n, <2>1, <2>2, <2>3 DEF TypeOK
<1>2. ASSUME NEW m \in Sent, pending' = Append(pending, m), m.request \in Of(work, m.by),
             UNCHANGED <<fixed, call>>
      PROVE  WorkInv'
  <2>1. /\ Len(pending') = Len(pending) + 1 /\ pending'[Len(pending) + 1] = m
        /\ \A i \in 1..Len(pending) : pending'[i] = pending[i]
        /\ Len(pending) \in Nat
    BY <1>2, <1>p
  <2>2. \A i \in 1..Len(pending') : i \in 1..Len(pending) \/ i = Len(pending) + 1
    BY <2>1
  <2> QED BY <1>2, <1>f, <1>n, <2>1, <2>2
<1>3. ASSUME NEW c \in Callers, Request(c) PROVE WorkInv' /\ UNCHANGED fixed
  <2>1. UNCHANGED <<fixed, call>>
    BY <1>3 DEF Request
  <2>2. call[c] \in Of(work, c) /\ call[c] \in RequestsOf(c)
    BY <1>3, <1>f DEF Request, TypeOK
  <2>3. PICK m : m = [request |-> call[c], by |-> c]
    OBVIOUS
  <2>4. m \in Sent /\ m.request = call[c] /\ m.by = c
    BY <2>2, <2>3 DEF Sent
  <2>5. pending' = Append(pending, m) \/ UNCHANGED pending
    BY <1>3, <2>3 DEF Request
  <2>6. m.request \in Of(work, m.by)
    BY <2>2, <2>4
  <2>7. CASE pending' = Append(pending, m)
    BY <1>2, <2>1, <2>4, <2>6, <2>7
  <2>8. CASE UNCHANGED pending
    BY <1>f, <1>n, <2>1, <2>8
  <2> QED BY <2>1, <2>5, <2>7, <2>8
<1>4. ASSUME Others PROVE WorkInv' /\ UNCHANGED fixed
  <2>1. PICK r \in Foreign : pending' = Append(pending, [request |-> r, by |-> None])
    BY <1>4 DEF Others
  <2>2. PICK m : m = [request |-> r, by |-> None]
    OBVIOUS
  <2>3. m \in Sent /\ m.request = r /\ m.by = None
    BY <2>2 DEF Sent, RequestsOf
  <2>4. m.request \in Of(work, m.by)
    BY <2>3 DEF Of
  <2>5. pending' = Append(pending, m) /\ UNCHANGED <<fixed, call>>
    BY <1>4, <2>1, <2>2 DEF Others
  <2> QED BY <1>2, <2>3, <2>4, <2>5
<1>5. ASSUME UNCHANGED <<fixed, call>>, \/ UNCHANGED pending
                                        \/ pending # <<>> /\ pending' = Tail(pending)
      PROVE  WorkInv'
  <2>1. CASE UNCHANGED pending
    BY <1>5, <1>f, <1>n, <2>1
  <2>2. CASE pending # <<>> /\ pending' = Tail(pending)
    <3>1. /\ Len(pending') = Len(pending) - 1
          /\ \A i \in 1..Len(pending') : pending'[i] = pending[i + 1]
          /\ Len(pending) \in Nat
      BY <1>p, <2>2
    <3> QED BY <1>5, <1>f, <1>n, <3>1
  <2> QED BY <1>5, <2>1, <2>2
<1>6. ASSUME NEW c \in Callers, Take(c) \/ TimeOut(c) PROVE WorkInv' /\ UNCHANGED fixed
  <2>1. UNCHANGED <<fixed, call, pending>>
    BY <1>6 DEF Take, TimeOut
  <2> QED BY <1>5, <2>1
<1>7. ASSUME Handle \/ Lose PROVE WorkInv' /\ UNCHANGED fixed
  <2>1. UNCHANGED <<fixed, call>> /\ pending # <<>> /\ (pending' = Tail(pending) \/ UNCHANGED pending)
    BY <1>7 DEF Handle, Lose
  <2> QED BY <1>5, <2>1
<1>8. ASSUME UNCHANGED vars PROVE WorkInv' /\ UNCHANGED fixed
  <2>1. UNCHANGED <<fixed, call, pending>>
    BY <1>8 DEF vars
  <2> QED BY <1>5, <2>1
<1> QED BY <1>1, <1>3, <1>4, <1>6, <1>7, <1>8 DEF Next, CallStep

(* A caller's step does not concern the others.                               *)
LEMMA CallerApart ==
  ASSUME TypeOK, NEW c \in Callers, CallStep(c), NEW x \in Callers, x # c
  PROVE  /\ pc'[x] = pc[x] /\ call'[x] = call[x] /\ inbox'[x] = inbox[x]
         /\ result'[x] = result[x] /\ Shifted(x, 0)
         /\ UNCHANGED <<fixed, zigbee2mqtt>>
<1>1. /\ pc'[x] = pc[x] /\ call'[x] = call[x] /\ inbox'[x] = inbox[x]
      /\ result'[x] = result[x] /\ UNCHANGED <<fixed, zigbee2mqtt>>
  BY DEF TypeOK, CallStep, Subscribe, Request, Take, TimeOut, Return
<1>2. \/ UNCHANGED pending
      \/ pc[c] = "asking" /\ pending' = Append(pending, [request |-> call[c], by |-> c])
  BY DEF CallStep, Subscribe, Request, Take, TimeOut
<1>3. CASE pc[c] = "asking" /\ pending' = Append(pending, [request |-> call[c], by |-> c])
  <2>1. call[c] \in RequestsOf(c)
    BY <1>3 DEF TypeOK
  <2>2. PICK m : m = [request |-> call[c], by |-> c]
    OBVIOUS
  <2>3. m \in Sent /\ m.by = c
    BY <2>1, <2>2 DEF Sent
  <2> QED BY <1>1, <1>3, <2>2, <2>3, AppendShifts
<1> QED BY <1>1, <1>2, <1>3, UnsentShifts

LEMMA OthersShift ==
  ASSUME TypeOK, Others, NEW x \in Callers
  PROVE  Shifted(x, 0)
<1>1. PICK r \in Foreign : pending' = Append(pending, [request |-> r, by |-> None])
  BY DEF Others
<1>2. PICK m : m = [request |-> r, by |-> None]
  OBVIOUS
<1>3. m \in Sent /\ m.by = None
  BY <1>2 DEF Sent, RequestsOf
<1> QED BY <1>1, <1>2, <1>3, AppendShifts, BridgeAssumption

(* What a caller itself has done, with prompt answers.                        *)
LEMMA PromptStays ==
  ASSUME NEW x \in Callers, PromptFor(x), NEW k \in {0, 1}, Shifted(x, k),
         pc'[x] = pc[x], call'[x] = call[x], result'[x] = result[x],
         \A i \in 1..Len(inbox'[x]) : \E j \in 1..Len(inbox[x]) : inbox'[x][i] = inbox[x][j],
         UNCHANGED <<work, zigbee2mqtt>>
  PROVE  PromptFor(x)'
<1>1. Holds(call[x]) => Holds(call[x])'
  BY StillHolds
<1>2. Outstanding(x) = {} => Outstanding(x)' = {}
  BY DEF Shifted
<1>3. \A i \in Outstanding(x)' :
        /\ pc'[x] = "waiting" /\ pending'[i].request = call'[x]
        /\ \A j \in Outstanding(x)' : i = j
  <2> SUFFICES ASSUME NEW i \in Outstanding(x)', NEW j \in Outstanding(x)'
               PROVE  pc'[x] = "waiting" /\ pending'[i].request = call'[x] /\ i = j
    OBVIOUS
  <2>1. /\ i + k \in Outstanding(x) /\ j + k \in Outstanding(x)
        /\ pending'[i] = pending[i + k]
    BY DEF Shifted
  <2>2. i + k = j + k /\ pc[x] = "waiting" /\ pending[i + k].request = call[x]
    BY <2>1 DEF PromptFor
  <2>3. i \in Nat /\ j \in Nat
    BY DEF Outstanding
  <2> QED BY <2>1, <2>2, <2>3
<1>4. \A i \in 1..Len(inbox'[x]) :
        /\ inbox'[x][i].answer.status # "garbled"
        /\ inbox'[x][i].by = x =>
             /\ Outstanding(x)' = {} /\ pc'[x] = "waiting"
             /\ inbox'[x][i].answer.status = "ok" => Holds(call[x])'
  BY <1>1, <1>2 DEF PromptFor
<1> QED BY <1>1, <1>3, <1>4 DEF PromptFor

LEMMA PromptReturns ==
  ASSUME TypeOK, NEW c \in Callers, NEW status, NEW by, Return(c, status, by),
         Outstanding(c) = {}, UNCHANGED <<fixed, call, pending, zigbee2mqtt>>,
         status = "ok" => call[c] # None /\ Holds(call[c])
  PROVE  PromptFor(c)'
<1>1. /\ inbox'[c] = <<>> /\ result'[c].status = status
      /\ call'[c] = call[c] /\ work' = work
  BY DEF TypeOK, Return, fixed
<1>2. Outstanding(c)' = {}
  BY DEF Outstanding
<1>3. Holds(call[c]) => Holds(call[c])'
  BY <1>1, StillHolds
<1> QED BY <1>1, <1>2, <1>3 DEF PromptFor

LEMMA TakenIsOwn ==
  ASSUME Apart, Inv, NEW c \in Callers, Take(c),
         Takes(call[c], Head(inbox[c]).answer), Head(inbox[c]).answer.status # "garbled"
  PROVE  Head(inbox[c]).by = c
<1> DEFINE m == Head(inbox[c])
<1>1. inbox[c] \in Seq(Messages) /\ inbox[c] # <<>> /\ m = inbox[c][1] /\ 1 \in 1..Len(inbox[c])
  BY DEF Take, Inv, TypeOK
<1>2. m \in Messages /\ Topic(m.answer) = Topic(call[c])
  BY <1>1 DEF Inv, InboxInv
<1>3. Takes(call[c], m.answer) /\ m.answer.status # "garbled"
  OBVIOUS
<1> HIDE DEF m
<1>4. PICK s \in RequestsOf(m.by) : m.answer \in AnswersTo(s)
  BY <1>2, MessageParts
<1>5. m.by \in Anyone /\ call[c] \in RequestsOf(c)
  BY <1>2, MessageParts DEF Take, Inv, TypeOK
<1>6. m.by = c
  BY <1>2, <1>3, <1>4, <1>5, OthersDoNotMatch DEF Takes
<1> QED BY <1>6 DEF m

LEMMA PromptCall ==
  ASSUME Apart, Inv, Prompt(environment), NEW c \in Callers, CallStep(c), PromptFor(c)
  PROVE  PromptFor(c)'
<1>t. TypeOK /\ pending \in Seq(Sent) /\ Len(pending) \in Nat
  BY DEF Inv, TypeOK
<1>1. CASE Subscribe(c)
  <2>1. inbox'[c] = <<>> /\ pending' = pending /\ pc[c] = "idle" /\ result'[c].status = "none"
    BY <1>1, <1>t DEF Subscribe, Inv, InboxInv, TypeOK, NoResult
  <2>2. Outstanding(c)' = {}
    BY <2>1 DEF PromptFor, Outstanding
  <2> QED BY <2>1, <2>2 DEF PromptFor
<1>2. CASE Request(c)
  <2>1. pc[c] = "asking" /\ Outstanding(c) = {} /\ UNCHANGED <<fixed, call, zigbee2mqtt>>
    BY <1>2 DEF Request, PromptFor
  <2>2. CASE Return(c, "unsent", c) /\ UNCHANGED pending
    BY <1>t, <2>1, <2>2, PromptReturns
  <2>3. CASE /\ pending' = Append(pending, [request |-> call[c], by |-> c])
             /\ pc' = [pc EXCEPT ![c] = "waiting"] /\ UNCHANGED <<inbox, result>>
    <3>1. PICK m : m = [request |-> call[c], by |-> c]
      OBVIOUS
    <3>2. m.request = call[c] /\ m.by = c
      BY <3>1
    <3>3. /\ Len(pending') = Len(pending) + 1 /\ pending'[Len(pending) + 1] = m
          /\ \A i \in 1..Len(pending) : pending'[i] = pending[i]
      BY <1>t, <2>3, <3>1
    <3>4. Outstanding(c)' = {Len(pending) + 1}
      BY <1>t, <2>1, <3>2, <3>3 DEF Outstanding
    <3>5. pc'[c] = "waiting" /\ call'[c] = call[c]
      BY <1>t, <2>1, <2>3 DEF TypeOK
    <3>6. \A i \in 1..Len(inbox'[c]) :
            inbox'[c][i].answer.status # "garbled" /\ inbox'[c][i].by # c
      BY <2>1, <2>3 DEF PromptFor
    <3>7. result'[c].status # "ok"
      BY <1>t, <2>1, <2>3 DEF TypeOK, NoResult
    <3> QED BY <3>2, <3>3, <3>4, <3>5, <3>6, <3>7 DEF PromptFor
  <2> QED BY <1>2, <2>2, <2>3 DEF Request
<1>3. CASE Take(c)
  <2> DEFINE m == Head(inbox[c])
  <2>1. /\ inbox[c] \in Seq(Messages) /\ inbox[c] # <<>> /\ m = inbox[c][1]
        /\ 1 \in 1..Len(inbox[c])
        /\ pc[c] = "waiting" /\ call[c] # None
    BY <1>3, <1>t DEF Take, TypeOK
  <2>2. UNCHANGED <<fixed, call, pending, zigbee2mqtt>>
    BY <1>3 DEF Take
  <2>3. CASE Takes(call[c], m.answer)
    <3>1. m.answer.status # "garbled"
      BY <2>1 DEF PromptFor
    <3>2. m.by = c
      BY <1>3, <2>3, <3>1, TakenIsOwn
    <3>3. Outstanding(c) = {} /\ (m.answer.status = "ok" => Holds(call[c]))
      BY <2>1, <3>2 DEF PromptFor
    <3>4. Return(c, m.answer.status, m.by)
      BY <1>3, <2>3 DEF Take
    <3> HIDE DEF m
    <3> QED BY <1>t, <2>1, <2>2, <3>3, <3>4, PromptReturns
  <2>4. CASE ~Takes(call[c], m.answer)
    <3>1. inbox' = [inbox EXCEPT ![c] = Tail(@)] /\ UNCHANGED <<pc, result>>
      BY <1>3, <2>4 DEF Take
    <3>2. /\ inbox'[c] = Tail(inbox[c])
          /\ Len(Tail(inbox[c])) = Len(inbox[c]) - 1
          /\ \A i \in 1..Len(Tail(inbox[c])) : Tail(inbox[c])[i] = inbox[c][i + 1]
      BY <1>t, <2>1, <3>1 DEF TypeOK
    <3>3. \A i \in 1..Len(inbox'[c]) : \E j \in 1..Len(inbox[c]) : inbox'[c][i] = inbox[c][j]
      BY <2>1, <3>2
    <3>4. Shifted(c, 0)
      BY <1>t, <2>2, UnsentShifts
    <3> QED BY <2>2, <3>1, <3>3, <3>4, PromptStays DEF fixed
  <2> QED BY <2>3, <2>4
<1>4. CASE TimeOut(c)
  <2>1. Outstanding(c) = {}
    BY <1>4 DEF TimeOut, May, Prompt, Outstanding
  <2> QED BY <1>4, <1>t, <2>1, PromptReturns DEF TimeOut
<1> QED BY <1>1, <1>2, <1>3, <1>4 DEF CallStep

LEMMA PromptHandle ==
  ASSUME TypeOK, WorkInv, NamesInv, Separate, Prompt(environment), Handle,
         NEW x \in Callers, PromptFor(x)
  PROVE  PromptFor(x)'
<1>1. PICK by, r, e :
        /\ by \in Anyone /\ r \in Of(work, by) /\ e \in Subjects(r)
        /\ r \in RequestsOf(by) /\ Serves(by, r, e)
  BY HandleServes
<1>2. /\ pending # <<>> /\ pending' = Tail(pending)
      /\ pending[1].request = r /\ pending[1].by = by
      /\ pc' = pc /\ call' = call /\ result' = result
      /\ ~May("garble")
  BY <1>1 DEF Serves, May, Prompt
<1>3. Shifted(x, 1)
  BY <1>2, TailShifts
<1>4. 1 \in 1..Len(pending) /\ Len(pending) \in Nat
  BY <1>2 DEF TypeOK
<1>5. by = x => /\ 1 \in Outstanding(x) /\ r = call[x] /\ pc[x] = "waiting"
                /\ Outstanding(x)' = {}
  <2>1. by = x => 1 \in Outstanding(x)
    BY <1>2, <1>4 DEF Outstanding
  <2>2. by = x => r = call[x] /\ pc[x] = "waiting" /\ \A j \in Outstanding(x) : j = 1
    BY <1>2, <2>1 DEF PromptFor
  <2>3. \A i \in Outstanding(x)' : i + 1 \in Outstanding(x) /\ i \in 1..Len(pending')
    BY <1>3 DEF Shifted, Outstanding
  <2>4. by = x => Outstanding(x)' = {}
    BY <2>2, <2>3
  <2> QED BY <2>1, <2>2, <2>4
<1>6. call[x] # None /\ Holds(call[x]) => Holds(call[x])'
  BY <1>1, <1>5, ServedHolds DEF WorkInv
<1>7. \A i \in Outstanding(x)' :
        /\ pc'[x] = "waiting" /\ pending'[i].request = call'[x]
        /\ \A j \in Outstanding(x)' : i = j
  <2> SUFFICES ASSUME NEW i \in Outstanding(x)', NEW j \in Outstanding(x)'
               PROVE  pc'[x] = "waiting" /\ pending'[i].request = call'[x] /\ i = j
    OBVIOUS
  <2>1. /\ i + 1 \in Outstanding(x) /\ j + 1 \in Outstanding(x)
        /\ pending'[i] = pending[i + 1]
    BY <1>3 DEF Shifted
  <2>2. i + 1 = j + 1 /\ pc[x] = "waiting" /\ pending[i + 1].request = call[x]
    BY <2>1 DEF PromptFor
  <2>3. i \in Nat /\ j \in Nat
    BY DEF Outstanding
  <2>4. i = j
    BY <2>2, <2>3
  <2>5. pc'[x] = "waiting" /\ pending'[i].request = call'[x]
    BY <1>2, <2>1, <2>2
  <2> QED BY <2>4, <2>5
<1>8. ASSUME NEW i \in 1..Len(inbox'[x])
      PROVE  /\ inbox'[x][i].answer.status # "garbled"
             /\ inbox'[x][i].by = x =>
                  /\ Outstanding(x)' = {} /\ pc'[x] = "waiting"
                  /\ inbox'[x][i].answer.status = "ok" => Holds(call[x])'
  <2>1. CASE \E j \in 1..Len(inbox[x]) : inbox'[x][i] = inbox[x][j]
    <3>1. PICK j \in 1..Len(inbox[x]) : inbox'[x][i] = inbox[x][j]
      BY <2>1
    <3>2. /\ inbox[x][j].answer.status # "garbled"
          /\ inbox[x][j].by = x =>
               /\ Outstanding(x) = {} /\ pc[x] = "waiting"
               /\ inbox[x][j].answer.status = "ok" => Holds(call[x])
      BY DEF PromptFor
    <3>3. Outstanding(x) = {} => Outstanding(x)' = {}
      BY <1>3 DEF Shifted
    <3>4. pc[x] = "waiting" => call[x] # None
      BY DEF TypeOK
    <3> QED BY <1>2, <1>6, <3>1, <3>2, <3>3, <3>4
  <2>2. CASE ~ \E j \in 1..Len(inbox[x]) : inbox'[x][i] = inbox[x][j]
    <3>1. inbox' # inbox
      BY <2>2
    <3>2. PICK a \in AnswersTo(r) :
            /\ Publish(a, by)
            /\ a.status = "ok" => Performed(r, e)
            /\ a.status = "garbled" => May("garble")
      BY <1>1, <3>1 DEF Serves
    <3>3. inbox'[x][i] = [answer |-> a, by |-> by]
      BY <1>1, <2>2, <3>2, Published
    <3>4. inbox'[x][i].answer = a /\ inbox'[x][i].by = by
      BY <3>3
    <3>5. by = x /\ a.status = "ok" => Holds(call[x])'
      BY <1>1, <1>5, <3>2, OwnServed
    <3> QED BY <1>2, <1>5, <3>2, <3>4, <3>5
  <2> QED BY <2>1, <2>2
<1> QED BY <1>2, <1>6, <1>7, <1>8 DEF PromptFor

(* With prompt answers each step leaves every caller with true results.       *)
LEMMA PromptStep ==
  ASSUME Apart, Separate, Inv, WorkInv, NamesInv, Prompt(environment), [Next]_vars,
         NEW x \in Callers, PromptFor(x)
  PROVE  PromptFor(x)'
<1>t. TypeOK
  BY DEF Inv
<1>1. ASSUME NEW c \in Callers, CallStep(c) PROVE PromptFor(x)'
  <2>1. CASE x = c
    BY <1>1, <2>1, PromptCall
  <2>2. CASE x # c
    BY <1>1, <1>t, <2>2, CallerApart, PromptStays DEF fixed
  <2> QED BY <2>1, <2>2
<1>2. CASE Handle
  BY <1>2, <1>t, PromptHandle
<1>3. CASE Lose
  <2>1. Shifted(x, 1)
    BY <1>3, <1>t, TailShifts DEF Lose
  <2> QED BY <1>3, <2>1, PromptStays DEF Lose, fixed
<1>4. CASE Others
  <2>1. Shifted(x, 0)
    BY <1>4, <1>t, OthersShift
  <2> QED BY <1>4, <2>1, PromptStays DEF Others, fixed
<1>5. CASE UNCHANGED vars
  <2>1. Shifted(x, 0)
    BY <1>5, <1>t, UnsentShifts DEF vars
  <2> QED BY <1>5, <2>1, PromptStays DEF vars, fixed
<1> QED BY <1>1, <1>2, <1>3, <1>4, <1>5 DEF Next

(* When every request is carried out: what others do.                         *)
LEMMA CompleteStays ==
  ASSUME NEW x \in Callers, CompleteFor(x), Shifted(x, 0), Called(x)' => Called(x),
         call'[x] = call[x], UNCHANGED <<work, zigbee2mqtt>>
  PROVE  CompleteFor(x)'
<1> SUFFICES ASSUME Called(x)'
             PROVE  /\ call'[x] # None
                    /\ \A i \in Outstanding(x)' :
                         (\A j \in Outstanding(x)' : j <= i) => pending'[i].request = call'[x]
                    /\ Outstanding(x)' = {} => Holds(call[x])'
  BY DEF CompleteFor
<1>1. /\ call[x] # None
      /\ \A i \in Outstanding(x) :
           (\A j \in Outstanding(x) : j <= i) => pending[i].request = call[x]
      /\ Outstanding(x) = {} => Holds(call[x])
  BY DEF CompleteFor
<1>2. \A i \in Outstanding(x)' : i \in Nat /\ i + 0 = i
  BY DEF Outstanding
<1>3. \A i \in Outstanding(x) : i \in Nat /\ i - 0 = i /\ i > 0
  BY DEF Outstanding
<1>4. /\ \A i \in Outstanding(x)' : i \in Outstanding(x) /\ pending'[i] = pending[i]
      /\ \A i \in Outstanding(x) : i \in Outstanding(x)'
  BY <1>2, <1>3 DEF Shifted
<1>5. Outstanding(x)' = {} => Holds(call[x])'
  BY <1>1, <1>4, StillHolds
<1> QED BY <1>1, <1>4, <1>5

LEMMA CompleteCall ==
  ASSUME TypeOK, NEW c \in Callers, CallStep(c), CompleteFor(c)
  PROVE  CompleteFor(c)'
<1>t. pending \in Seq(Sent) /\ Len(pending) \in Nat
  BY DEF TypeOK
<1>1. CASE Subscribe(c)
  <2>1. pc'[c] = "asking"
    BY <1>1 DEF Subscribe, TypeOK
  <2> QED BY <2>1 DEF CompleteFor, Called
<1>2. CASE Request(c)
  <2>1. pc[c] = "asking" /\ call[c] # None /\ call' = call
    BY <1>2 DEF Request, TypeOK
  <2>2. CASE Return(c, "unsent", c)
    <3>1. pc'[c] = "idle" /\ result'[c].status = "unsent"
      BY <2>2 DEF Return, TypeOK
    <3> QED BY <3>1 DEF CompleteFor, Called
  <2>3. CASE pending' = Append(pending, [request |-> call[c], by |-> c])
    <3>1. PICK m : m = [request |-> call[c], by |-> c]
      OBVIOUS
    <3>2. m.request = call[c] /\ m.by = c
      BY <3>1
    <3>3. /\ Len(pending') = Len(pending) + 1 /\ pending'[Len(pending) + 1] = m
          /\ \A i \in 1..Len(pending) : pending'[i] = pending[i]
      BY <1>t, <2>3, <3>1
    <3>4. /\ Len(pending) + 1 \in Outstanding(c)'
          /\ \A i \in Outstanding(c)' : i \in 1..(Len(pending) + 1)
      BY <1>t, <3>2, <3>3 DEF Outstanding
    <3>5. ASSUME NEW i \in Outstanding(c)', \A j \in Outstanding(c)' : j <= i
          PROVE  pending'[i].request = call'[c]
      <4>1. i = Len(pending) + 1
        BY <1>t, <3>4, <3>5
      <4> QED BY <2>1, <3>2, <3>3, <4>1
    <3> QED BY <2>1, <3>4, <3>5 DEF CompleteFor
  <2> QED BY <1>2, <2>2, <2>3 DEF Request
<1>3. CASE Take(c) \/ TimeOut(c)
  <2>1. Called(c) /\ UNCHANGED <<fixed, call, pending, zigbee2mqtt>>
    BY <1>3 DEF Take, TimeOut, Called
  <2>2. Shifted(c, 0)
    BY <2>1, UnsentShifts
  <2> QED BY <2>1, <2>2, CompleteStays DEF fixed
<1> QED BY <1>1, <1>2, <1>3 DEF CallStep

LEMMA CompleteHandle ==
  ASSUME TypeOK, WorkInv, NamesInv, WantedInv, Separate, Unhindered, Complete(environment),
         Handle, NEW x \in Callers, CompleteFor(x)
  PROVE  CompleteFor(x)'
<1>1. PICK by, r, e :
        /\ by \in Anyone /\ r \in Of(work, by) /\ e \in Subjects(r)
        /\ r \in RequestsOf(by) /\ Serves(by, r, e)
  BY HandleServes
<1>2. /\ pending # <<>>
      /\ pending[1].request = r /\ pending[1].by = by
      /\ pc' = pc /\ call' = call /\ result' = result /\ work' = work
      /\ pending' = Tail(pending) \/ UNCHANGED pending
      /\ Performed(r, e) \/ (UNCHANGED zigbee2mqtt /\ Obstacles(r, e) # {})
  BY <1>1 DEF Serves, May, Complete, fixed
<1>3. 1 \in 1..Len(pending) /\ Len(pending) \in Nat
  BY <1>2 DEF TypeOK
<1>4. by = x <=> 1 \in Outstanding(x)
  BY <1>2, <1>3 DEF Outstanding
<1> SUFFICES ASSUME Called(x)'
             PROVE  /\ call'[x] # None
                    /\ \A i \in Outstanding(x)' :
                         (\A j \in Outstanding(x)' : j <= i) => pending'[i].request = call'[x]
                    /\ Outstanding(x)' = {} => Holds(call[x])'
  BY DEF CompleteFor
<1>5. Called(x)
  BY <1>2 DEF Called
<1>6. /\ call[x] # None
      /\ \A i \in Outstanding(x) :
           (\A j \in Outstanding(x) : j <= i) => pending[i].request = call[x]
      /\ Outstanding(x) = {} => Holds(call[x])
  BY <1>5 DEF CompleteFor
<1>7. ASSUME Outstanding(x) = {} PROVE Holds(call[x])'
  BY <1>1, <1>4, <1>6, <1>7, ServedHolds DEF WorkInv
<1>8. ASSUME Outstanding(x) = {1} PROVE Holds(call[x])'
  <2>1. by = x /\ r = call[x]
    BY <1>2, <1>4, <1>6, <1>8
  <2>2. CASE Performed(r, e)
    BY <1>1, <2>1, <2>2, OwnServed
  <2>3. CASE UNCHANGED zigbee2mqtt /\ Obstacles(r, e) # {}
    <3>1. Holds(r)
      BY <1>1, <2>1, <2>3, ObstacleHolds
    <3> QED BY <1>2, <2>1, <2>3, <3>1, StillHolds
  <2> QED BY <1>2, <2>2, <2>3
<1>9. CASE UNCHANGED pending
  <2>1. Outstanding(x)' = Outstanding(x)
    BY <1>9 DEF Outstanding
  <2> QED BY <1>2, <1>6, <1>7, <1>9, <2>1
<1>10. CASE pending' = Tail(pending)
  <2>1. Shifted(x, 1)
    BY <1>2, <1>10, TailShifts
  <2>2. /\ \A i \in Outstanding(x)' : i \in Nat \ {0}
        /\ \A i \in Outstanding(x) : i \in Nat \ {0}
    BY DEF Outstanding
  <2>3. ASSUME NEW i \in Outstanding(x)', \A j \in Outstanding(x)' : j <= i
        PROVE  pending'[i].request = call'[x]
    <3>1. i + 1 \in Outstanding(x) /\ pending'[i] = pending[i + 1]
      BY <2>1 DEF Shifted
    <3>2. \A j \in Outstanding(x) : j <= i + 1
      <4> SUFFICES ASSUME NEW j \in Outstanding(x), j > 1 PROVE j <= i + 1
        BY <2>2
      <4>1. j - 1 \in Outstanding(x)'
        BY <2>1 DEF Shifted
      <4> QED BY <2>2, <2>3, <4>1
    <3> QED BY <1>2, <1>6, <3>1, <3>2
  <2>4. ASSUME Outstanding(x)' = {} PROVE Holds(call[x])'
    <3>1. \A j \in Outstanding(x) : j = 1
      BY <2>1, <2>2, <2>4 DEF Shifted
    <3>2. Outstanding(x) = {} \/ Outstanding(x) = {1}
      BY <3>1
    <3> QED BY <1>7, <1>8, <3>2
  <2> QED BY <1>2, <1>6, <2>3, <2>4
<1> QED BY <1>2, <1>9, <1>10

LEMMA CompleteStep ==
  ASSUME Separate, Unhindered, TypeOK, WorkInv, NamesInv, WantedInv, Complete(environment),
         [Next]_vars, NEW x \in Callers, CompleteFor(x)
  PROVE  CompleteFor(x)'
<1>1. ASSUME NEW c \in Callers, CallStep(c) PROVE CompleteFor(x)'
  <2>1. CASE x = c
    BY <1>1, <2>1, CompleteCall
  <2>2. CASE x # c
    <3>1. Called(x)' => Called(x)
      BY <1>1, <2>2, CallerApart DEF Called
    <3> QED BY <1>1, <2>2, <3>1, CallerApart, CompleteStays DEF fixed
  <2> QED BY <2>1, <2>2
<1>2. CASE Handle
  BY <1>2, CompleteHandle
<1>3. CASE Lose
  BY <1>3 DEF Lose, May, Complete
<1>4. CASE Others
  <2>1. Shifted(x, 0)
    BY <1>4, OthersShift
  <2> QED BY <1>4, <2>1, CompleteStays DEF Others, fixed, Called
<1>5. CASE UNCHANGED vars
  <2>1. Shifted(x, 0)
    BY <1>5, UnsentShifts DEF vars
  <2> QED BY <1>5, <2>1, CompleteStays DEF vars, fixed, Called
<1> QED BY <1>1, <1>2, <1>3, <1>4, <1>5 DEF Next

(* Names change when a request is carried out, and not otherwise.             *)
LEMMA NamesStep ==
  ASSUME TypeOK, WorkInv, NamesInv, [Next]_vars
  PROVE  /\ NamesInv'
         /\ WantedInv /\ Unhindered => WantedInv'
<1>1. CASE UNCHANGED <<fixed, zigbee2mqtt>>
  BY <1>1 DEF NamesInv, WantedInv, fixed, zigbee2mqtt, Lasting, Asked, Of, Fits
<1>2. CASE Handle
  <2>1. PICK by, r, e :
          /\ by \in Anyone /\ r \in Of(work, by) /\ e \in Subjects(r)
          /\ Serves(by, r, e)
    BY <1>2, HandleServes
  <2>2. work' = work
    BY <2>1 DEF Serves, fixed
  <2>3. CASE UNCHANGED zigbee2mqtt
    BY <2>1, <2>3, <1>1 DEF Serves
  <2>4. CASE Performed(r, e)
    BY <2>1, <2>2, <2>4, PerformNames, PerformWanted DEF Performed
  <2> QED BY <2>1, <2>3, <2>4 DEF Serves
<1>3. CASE ~Handle
  <2>1. UNCHANGED <<fixed, zigbee2mqtt>>
    BY <1>3 DEF Next, CallStep, Subscribe, Request, Take, TimeOut, Lose, Others, vars
  <2> QED BY <1>1, <2>1
<1> QED BY <1>2, <1>3

LEMMA OkInit ==
  ASSUME Init
  PROVE  OkInv
<1>1. WorkInv
  BY DEF Init, WorkInv
<1>2. NamesInv
  BY DEF Init, NamesInv, Lasting
<1>3. \A x \in Callers : Outstanding(x) = {}
  BY DEF Init, Outstanding
<1>4. \A x \in Callers : PromptFor(x)
  BY <1>3 DEF Init, PromptFor, NoResult
<1>5. \A x \in Callers : CompleteFor(x)
  BY DEF Init, CompleteFor, Called, NoResult
<1>6. ASSUME Unhindered PROVE WantedInv
  <2>1. name = Existing /\ work \in Works
    BY DEF Init
  <2>2. \A c \in Callers : \A r \in Of(work, c) :
          /\ r.kind \in {"rename", "add"} =>
               \A e \in Entities : Existing[e] = r.to => Fits(work, r, e)
          /\ r.kind = "add" /\ r.from # None => Existing[r.from] \in {None, r.to}
    BY <1>6, <2>1 DEF Unhindered
  <2> QED BY <2>1, <2>2 DEF WantedInv
<1> QED BY <1>1, <1>2, <1>4, <1>5, <1>6 DEF OkInv

LEMMA OkStep ==
  ASSUME Apart, Separate, Inv, OkInv, [Next]_vars
  PROVE  OkInv'
<1>t. TypeOK /\ WorkInv /\ NamesInv
  BY DEF Inv, OkInv
<1>1. WorkInv' /\ environment' = environment
  BY <1>t, WorkStep DEF fixed
<1>2. NamesInv' /\ (WantedInv /\ Unhindered => WantedInv')
  BY <1>t, NamesStep
<1>3. ASSUME Prompt(environment) PROVE \A x \in Callers : PromptFor(x)'
  BY <1>3, <1>t, PromptStep DEF OkInv
<1>4. ASSUME Complete(environment), Unhindered PROVE \A x \in Callers : CompleteFor(x)'
  BY <1>4, <1>t, CompleteStep DEF OkInv
<1>5. ASSUME Complete(environment), Unhindered PROVE WantedInv'
  BY <1>2, <1>5 DEF OkInv
<1> QED BY <1>1, <1>2, <1>3, <1>4, <1>5 DEF OkInv

(* OkIsTrue: a call that reported success has got what it asked for, however  *)
(* many callers there are, whatever they and others ask for as long as they   *)
(* keep to their own devices and groups: when answers are lost and requests   *)
(* refused, but what arrives is prompt; and when answers come late, twice and *)
(* garbled, so that a call may take the answer to an earlier one, but every   *)
(* request is carried out in the end.                                         *)
THEOREM OkIsDone ==
  ASSUME Apart, Separate,
         \A env \in Environments : Prompt(env) \/ (Complete(env) /\ Unhindered)
  PROVE  Spec => []OkIsTrue
<1>1. Inv /\ OkInv /\ [Next]_vars => OkInv'
  BY OkStep
<1>2. Inv /\ OkInv => OkIsTrue
  <2> SUFFICES ASSUME Inv, OkInv, pending = <<>>, NEW c \in Callers,
                      pc[c] = "idle", result[c].status = "ok"
               PROVE  AsAsked(call[c])
    BY DEF OkIsTrue
  <2>1. Outstanding(c) = {} /\ Called(c)
    BY DEF Outstanding, Called
  <2>2. call[c] # None /\ Holds(call[c])
    <3>1. CASE Prompt(environment)
      BY <3>1 DEF OkInv, PromptFor
    <3>2. CASE Complete(environment) /\ Unhindered
      BY <2>1, <3>2 DEF OkInv, CompleteFor
    <3> QED BY <3>1, <3>2 DEF Inv, TypeOK
  <2>3. PICK r \in RequestType : r = call[c]
    BY <2>2 DEF Inv, TypeOK
  <2> QED BY <2>2, <2>3, HoldsAsAsked
<1> QED BY <1>1, <1>2, InitInv, NextInv, OkInit, PTL DEF Spec
================================================================================
