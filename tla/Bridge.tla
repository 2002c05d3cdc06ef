-------------------------------- MODULE Bridge --------------------------------
(***************************************************************************)
(* Requests to the Zigbee2MQTT bridge: BridgeRequest (handlers/lib.rs) and *)
(* the requests of handlers/device.rs, group.rs and misc.rs.               *)
(*                                                                         *)
(* The answers to all requests of a kind arrive on one topic, for everyone *)
(* who listens to it, and carry no transaction: a call takes the first     *)
(* answer since it subscribed that looks like its own.                     *)
(***************************************************************************)
EXTENDS Naturals, Sequences, FiniteSets

CONSTANTS
  Callers,       \* the tasks of the operator that make requests, one at a time
  Works,         \* what requests each caller may repeat, one function of callers each
  Foreign,       \* requests that others make on the same topics
  Ids,           \* group ids, which are numbers
  Devices,       \* device addresses
  Names,
  Settings,      \* values the options of a device or group can have
  Existing,      \* the names at the beginning, None where there is no group
  Environments,  \* what the surroundings may do: one set of EnvironmentKinds each
  Buffer,        \* messages that a subscription keeps, 8 in the code
  MaxPending,    \* bound on the requests on their way
  None

EnvironmentKinds ==
  {"slow",    \* an answer comes after the timeout
   "lose",    \* a request or an answer is lost
   "again",   \* a request is delivered a second time
   "refuse",  \* Zigbee2MQTT fails to do what it could have done
   "others",  \* others make requests
   "garble",  \* an answer cannot be parsed
   "unsent"}  \* a request cannot be sent

Entities == Ids \cup Devices

(* The entity a request is about (from) and what it asks for (to). Options    *)
(* are set or cleared, "bridge" stands for health checks, restarts and        *)
(* extensions.                                                                *)
RequestType ==
  [kind : {"rename"}, from : Entities, to : Names]
  \cup [kind : {"add"}, from : Ids \cup {None}, to : Names]
  \cup [kind : {"remove"}, from : Ids, to : {None}]
  \cup [kind : {"member_add", "member_remove"}, from : Ids, to : Devices]
  \cup [kind : {"options"}, from : Entities, to : Settings]
  \cup [kind : {"bridge"}, from : {None}, to : {None}]

(* Devices and groups have topics of their own. *)
Topic(x) == <<x.kind, x.from \in Devices>>

RequestsOf(c) == IF c = None THEN Foreign ELSE UNION {w[c] : w \in Works}

(* The numbers whose digits those of n begin with.                           *)
Beginnings[n \in Nat] == IF n < 10 THEN {n} ELSE {n} \cup Beginnings[n \div 10]

(* What the text of an error can be found to name. Quoted values are found as *)
(* a whole; the id in the error of a removal is not: 1 and 12 are found in 123. *)
Mentions(r) ==
  IF r.kind = "remove" THEN Beginnings[r.from] ELSE {r.from, r.to} \ {None}

(* What is named by the error of a request that Zigbee2MQTT fails to carry    *)
(* out: an id with all its beginnings, or one of the quoted values.           *)
Complaints(r) ==
  IF r.kind = "remove" THEN {Mentions(r)} ELSE {{v} : v \in Mentions(r)}

(* What a call recognises an answer by. *)
Keys(r) == (IF r.kind = "options" THEN {r.from} ELSE {r.from, r.to}) \ {None}

(* The callers work on different devices and groups, want different names and *)
(* members, and only one of them checks the health, restarts or installs. No  *)
(* id of one is the beginning of one that another removes.                    *)
Apart ==
  \A c \in Callers, d \in Callers \cup {None} :
    c # d => \A r \in RequestsOf(c), s \in RequestsOf(d) :
      Topic(r) = Topic(s) =>
        /\ r.kind # "bridge"
        /\ Keys(r) \cap ({s.from, s.to} \cup Mentions(s)) = {}

(* What d may ask for besides the callers' work w, and what anyone may.       *)
Of(w, d) == IF d = None THEN Foreign ELSE w[d]
Asked(w) == UNION {Of(w, d) : d \in Callers \cup {None}}

(* A device or group that is there from the beginning and for good.           *)
Lasting(w, e) ==
  Existing[e] # None /\ \A s \in Asked(w) : s.kind = "remove" => s.from # e

(* Who gets the name that r asks for: a group nobody can name yet, if r has no id. *)
Fits(w, r, e) ==
  IF r.from = None THEN e \in Ids /\ ~Lasting(w, e) ELSE e = r.from

(* Nobody undoes what another has asked for: they work on different devices   *)
(* and groups on all topics, who removes a group does not have its id taken   *)
(* by a new one, and a new group is not one that others rename or remove.     *)
Separate ==
  \A w \in Works, c \in Callers, d \in Callers \cup {None} :
    c # d => \A r \in Of(w, c), s \in Of(w, d) :
      /\ r.from # None => s.from # r.from
      /\ r.kind = "remove" => ~(s.kind = "add" /\ s.from = None)
      /\ r.kind = "add" /\ r.from = None /\ s.kind \in {"rename", "remove"} =>
           s.from \in Devices \/ Lasting(w, s.from)

(* What a caller asks for can be done or has been done: devices and groups    *)
(* are there, nobody else has or wants the name, and a group with an id has   *)
(* one name only.                                                             *)
Unhindered ==
  \A w \in Works, c \in Callers : \A r \in Of(w, c) :
    /\ r.kind \in {"rename", "options", "member_add", "member_remove"} => Lasting(w, r.from)
    /\ r.kind \in {"rename", "add"} =>
         /\ \A e \in Entities : Existing[e] = r.to => Fits(w, r, e)
         /\ \A s \in Asked(w) :
              s.kind \in {"rename", "add"} /\ s.to = r.to => s.from = r.from
    /\ r.kind = "add" /\ r.from # None =>
         /\ Existing[r.from] \in {None, r.to}
         /\ \A s \in Asked(w) :
              s.kind \in {"rename", "add"} /\ s.from \in {r.from, None} => s.to = r.to

(* Answers come in time, once and readable; or every request is carried out.  *)
Prompt(e) == e \cap {"slow", "again", "garble"} = {}
Complete(e) == e \cap {"lose", "refuse"} = {}

ASSUME BridgeAssumption ==
  /\ Ids \subseteq Nat /\ Ids \cap Devices = {}
  /\ None \notin Callers \cup Entities \cup Names \cup Settings \cup RequestType
  /\ Works \subseteq [Callers -> SUBSET RequestType]
  /\ Foreign \subseteq RequestType
  /\ Existing \in [Entities -> Names \cup {None}]
  /\ Environments \subseteq SUBSET EnvironmentKinds
  /\ Buffer \in Nat \ {0}

VARIABLES
  environment,
  work,     \* the requests each caller repeats
  pc,       \* where each call stands
  call,     \* the request of each caller's last call
  inbox,    \* the answers its subscription holds, with who had asked
  result,   \* what the call returned, and who had asked for it
  pending,  \* the requests on their way to Zigbee2MQTT, with who asked
  name,     \* the names of groups and devices at Zigbee2MQTT
  members,  \* the devices in groups there
  options   \* the options there

fixed == <<environment, work>>
zigbee2mqtt == <<name, members, options>>
vars == <<fixed, pc, call, inbox, result, pending, zigbee2mqtt>>

(* What an answer repeats of the request that was carried out, or the values *)
(* its error message names. It may also be one that cannot be parsed.        *)
Ok(r, e) == [kind |-> r.kind, status |-> "ok", from |-> e, to |-> r.to, named |-> {}]
Error(r, values) ==
  [kind |-> r.kind, status |-> "error", from |-> r.from, to |-> r.to, named |-> values]
Garbled(r) ==
  [kind |-> r.kind, status |-> "garbled", from |-> r.from, to |-> r.to, named |-> {}]

AnswersTo(r) ==
  {Ok(r, e) : e \in IF r.from = None THEN Ids \cup {None} ELSE {r.from}}
  \cup {Error(r, values) : values \in SUBSET Mentions(r)}
  \cup {Garbled(r)}

From(c) == {[answer |-> a, by |-> c] : a \in UNION {AnswersTo(r) : r \in RequestsOf(c)}}
Messages == UNION {From(c) : c \in Callers \cup {None}}

Sent == UNION {[request : RequestsOf(c), by : {c}] : c \in Callers \cup {None}}

NoResult == [status |-> "none", by |-> None]
ResultType ==
  [status : {"none", "ok", "error", "garbled", "timeout", "unsent"}, by : Callers \cup {None}]

TypeOK ==
  /\ environment \in Environments
  /\ work \in Works
  /\ pc \in [Callers -> {"idle", "asking", "waiting"}]
  /\ call \in [Callers -> RequestType \cup {None}]
  /\ inbox \in [Callers -> Seq(Messages)]
  /\ result \in [Callers -> ResultType]
  /\ \A c \in Callers :
       /\ Len(inbox[c]) <= Buffer
       /\ call[c] \in RequestsOf(c) \cup {None}
       /\ pc[c] # "idle" => call[c] # None /\ result[c] = NoResult
  /\ pending \in Seq(Sent)
  /\ name \in [Entities -> Names \cup {None}]
  /\ members \subseteq Ids \X Devices
  /\ options \in [Entities -> Settings \cup {None}]

Init ==
  /\ environment \in Environments
  /\ work \in Works
  /\ pc = [c \in Callers |-> "idle"]
  /\ call = [c \in Callers |-> None]
  /\ inbox = [c \in Callers |-> <<>>]
  /\ result = [c \in Callers |-> NoResult]
  /\ pending = <<>>
  /\ name = Existing
  /\ members = {}
  /\ options = [e \in Entities |-> None]

May(kind) == kind \in environment

--------------------------------------------------------------------------------
(* Which answers a call takes for its own: process_response of the requests. *)

Succeeds(a) == a.status = "ok"

(* Mutants: every answer with the status Ok counts, or every error that names *)
(* something.                                                                 *)
RenameAnswerAnyOk(r, a) == Succeeds(a) \/ {r.from, r.to} \cap a.named # {}
RenameAnswerAnyError(r, a) == IF Succeeds(a) THEN a.to = r.to ELSE a.named # {}

RenameAnswer(r, a) ==
  IF Succeeds(a) THEN a.to = r.to ELSE {r.from, r.to} \cap a.named # {}
AddAnswer(r, a) ==
  IF Succeeds(a) THEN a.to = r.to ELSE ({r.from, r.to} \ {None}) \cap a.named # {}
RemoveAnswer(r, a) ==
  IF Succeeds(a) THEN a.from = r.from ELSE r.from \in a.named
MemberAnswer(r, a) ==
  IF Succeeds(a) THEN a.from = r.from /\ a.to = r.to ELSE {r.from, r.to} \cap a.named # {}
OptionsAnswer(r, a) ==
  IF Succeeds(a) THEN a.from = r.from ELSE r.from \in a.named

Matches(r, a) ==
  \/ r.kind = "rename" /\ RenameAnswer(r, a)
  \/ r.kind = "add" /\ AddAnswer(r, a)
  \/ r.kind = "remove" /\ RemoveAnswer(r, a)
  \/ r.kind \in {"member_add", "member_remove"} /\ MemberAnswer(r, a)
  \/ r.kind = "options" /\ OptionsAnswer(r, a)
  \/ r.kind = "bridge"

(* An answer that cannot be parsed ends every call that listens. *)
Takes(r, a) == a.status = "garbled" \/ Matches(r, a)

--------------------------------------------------------------------------------
(* Zigbee2MQTT *)

InUse(n, e) == \E f \in Entities \ {e} : name[f] = n

(* Why a request cannot be carried out: the values that its error names. *)
Obstacles(r, e) ==
  LET When(condition, values) == IF condition THEN {values} ELSE {}
      missing == r.kind \notin {"add", "bridge"} /\ name[e] = None
      taken == name[e] # None
  IN When(missing, Mentions(r) \ {r.to})
     \cup When(r.kind = "add" /\ taken, {r.from})
     \cup When(r.kind \in {"rename", "add"} /\ InUse(r.to, e), {r.to})

(* Without an id a new group gets one that is free: Ids are to be enough.    *)
Subjects(r) ==
  IF r.kind = "add" /\ r.from = None THEN {i \in Ids : name[i] = None} ELSE {r.from}

Perform(r, e) ==
  /\ name' = IF r.kind \in {"rename", "add"} THEN [name EXCEPT ![e] = r.to]
             ELSE IF r.kind = "remove" THEN [name EXCEPT ![e] = None] ELSE name
  /\ members' = IF r.kind = "member_add" THEN members \cup {<<e, r.to>>}
                ELSE IF r.kind = "member_remove" THEN members \ {<<e, r.to>>}
                ELSE IF r.kind = "remove" THEN {m \in members : m[1] # e} ELSE members
  /\ options' = IF r.kind = "options" THEN [options EXCEPT ![e] = r.to]
                ELSE IF r.kind = "remove" THEN [options EXCEPT ![e] = None] ELSE options

(* Mutant: a subscription keeps all that arrives. *)
PushAll(queue, m) == Append(queue, m)

(* A subscription that is full drops its oldest message (filter_lag).        *)
Push(queue, m) == Append(IF Len(queue) = Buffer THEN Tail(queue) ELSE queue, m)

Publish(a, c) ==
  inbox' = [d \in Callers |->
              IF pc[d] # "idle" /\ Topic(call[d]) = Topic(a)
                THEN Push(inbox[d], [answer |-> a, by |-> c]) ELSE inbox[d]]

Handle ==
  LET r == Head(pending).request
      asker == Head(pending).by
  IN
  /\ pending # <<>>
  /\ \E e \in Subjects(r) :
       \/ /\ Obstacles(r, e) = {}
          /\ Perform(r, e)
          /\ \/ Publish(Ok(r, e), asker)
             \/ May("lose") /\ UNCHANGED inbox
             \/ May("garble") /\ Publish(Garbled(r), asker)
       \/ /\ \/ \E values \in Obstacles(r, e) : Publish(Error(r, values), asker)
             \/ May("refuse") /\ \E values \in Complaints(r) : Publish(Error(r, values), asker)
          /\ UNCHANGED zigbee2mqtt
  /\ \/ pending' = Tail(pending)
     \/ May("again") /\ UNCHANGED pending
  /\ UNCHANGED <<fixed, pc, call, result>>

Lose ==
  /\ May("lose")
  /\ pending # <<>>
  /\ pending' = Tail(pending)
  /\ UNCHANGED <<fixed, pc, call, inbox, result, zigbee2mqtt>>

Others ==
  /\ May("others")
  /\ Len(pending) < MaxPending
  /\ \E r \in Foreign : pending' = Append(pending, [request |-> r, by |-> None])
  /\ UNCHANGED <<fixed, pc, call, inbox, result, zigbee2mqtt>>

--------------------------------------------------------------------------------
(* BridgeRequest *)

Return(c, status, by) ==
  /\ result' = [result EXCEPT ![c] = [status |-> status, by |-> by]]
  /\ pc' = [pc EXCEPT ![c] = "idle"]
  /\ inbox' = [inbox EXCEPT ![c] = <<>>]

(* A new BridgeRequest, whose subscription starts with nothing. *)
Subscribe(c) ==
  /\ pc[c] = "idle"
  /\ \E r \in work[c] : call' = [call EXCEPT ![c] = r]
  /\ pc' = [pc EXCEPT ![c] = "asking"]
  /\ result' = [result EXCEPT ![c] = NoResult]
  /\ UNCHANGED <<fixed, inbox, pending, zigbee2mqtt>>

Request(c) ==
  /\ pc[c] = "asking"
  /\ \/ /\ Len(pending) < MaxPending
        /\ pending' = Append(pending, [request |-> call[c], by |-> c])
        /\ pc' = [pc EXCEPT ![c] = "waiting"]
        /\ UNCHANGED <<inbox, result>>
     \/ May("unsent") /\ Return(c, "unsent", c) /\ UNCHANGED pending
  /\ UNCHANGED <<fixed, call, zigbee2mqtt>>

Take(c) ==
  LET m == Head(inbox[c]) IN
  /\ pc[c] = "waiting"
  /\ inbox[c] # <<>>
  /\ IF Takes(call[c], m.answer)
       THEN Return(c, m.answer.status, m.by)
       ELSE inbox' = [inbox EXCEPT ![c] = Tail(@)] /\ UNCHANGED <<pc, result>>
  /\ UNCHANGED <<fixed, call, pending, zigbee2mqtt>>

(* The timeout is far longer than it takes to look at what has arrived. *)
TimeOut(c) ==
  /\ pc[c] = "waiting"
  /\ inbox[c] = <<>>
  /\ May("slow") \/ \A i \in 1..Len(pending) : pending[i].by # c
  /\ Return(c, "timeout", c)
  /\ UNCHANGED <<fixed, call, pending, zigbee2mqtt>>

CallStep(c) == Subscribe(c) \/ Request(c) \/ Take(c) \/ TimeOut(c)

Next == (\E c \in Callers : CallStep(c)) \/ Handle \/ Lose \/ Others

Spec == Init /\ [][Next]_vars

--------------------------------------------------------------------------------
(* Properties *)

(* What a call returns is what Zigbee2MQTT answered to that caller, to this   *)
(* call or one that timed out before, whatever else arrives on the topic      *)
(* before, between and after (process_response of every request).             *)
AnswersAreOwn ==
  \A c \in Callers : result[c].status \in {"ok", "error"} => result[c].by = c

AsAsked(r) ==
  CASE r.kind \in {"rename", "add"} -> \E e \in Entities : r.from \in {e, None} /\ name[e] = r.to
    [] r.kind = "remove" -> name[r.from] = None
    [] r.kind = "member_add" -> <<r.from, r.to>> \in members
    [] r.kind = "member_remove" -> <<r.from, r.to>> \notin members
    [] r.kind = "options" -> options[r.from] = r.to
    [] r.kind = "bridge" -> TRUE

(* When a call returned Ok, Zigbee2MQTT is as it asked as soon as nothing is  *)
(* on its way any more, although the answer it took may have been to an       *)
(* earlier call that timed out, and requests arrive late or twice             *)
(* (BridgeRequest::request).                                                  *)
OkIsTrue ==
  pending = <<>> =>
    \A c \in Callers : pc[c] = "idle" /\ result[c].status = "ok" => AsAsked(call[c])

--------------------------------------------------------------------------------
(* What the code is written for and does not guarantee, see the README.       *)

(* A call that times out was not answered: lag drops answers silently.        *)
TimeoutIsReal ==
  \A c \in Callers : result[c].status # "timeout"
================================================================================
