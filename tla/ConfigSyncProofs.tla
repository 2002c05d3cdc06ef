---------------------------- MODULE ConfigSyncProofs ---------------------------
(***************************************************************************)
(* Proofs about ConfigSync, for any schema, any configurations and any     *)
(* surroundings: the types, that a configuration that is reported as       *)
(* synced is in effect, that no sync changes a name, and that what is in   *)
(* effect and left alone stays so. What processing, setting and clearing   *)
(* do is left to SettingAssumption and to ClearingAssumption, which TLC    *)
(* evaluates for Configurations.                                           *)
(***************************************************************************)
EXTENDS ConfigSync, TLAPS

(* What a request carries is a function of what resources ask for and of     *)
(* what there may be: nothing is set that was not processed.                 *)
RequestType ==
  [op : {"get"}, arg : {Null}]
  \cup [op : {"unset"},
        arg : {ClearablePaths(kind, x[1], x[2]) : x \in Specs[kind] \X Configs[kind]}]
  \cup [op : {"set"}, arg : {Processing(s) : s \in Specs[kind]} \ {Error}]

AnswerType == [op : Waiting \cup {"report"}, value : Configs[kind] \cup {Error}]

TypeInv == TypeOK /\ requests \in Seq(RequestType)

--------------------------------------------------------------------------------
(* Sequences *)

LEMMA AppendedAll ==
  ASSUME NEW S, NEW s \in Seq(S), NEW e
  PROVE  /\ Len(Append(s, e)) = Len(s) + 1
         /\ \A i \in DOMAIN Append(s, e) :
              \/ i \in DOMAIN s /\ Append(s, e)[i] = s[i]
              \/ i = Len(s) + 1 /\ Append(s, e)[i] = e
OBVIOUS

LEMMA TailAll ==
  ASSUME NEW S, NEW s \in Seq(S), s # <<>>
  PROVE  /\ Tail(s) \in Seq(S) /\ Len(Tail(s)) = Len(s) - 1
         /\ Head(s) = s[1] /\ s[1] \in S /\ 1 \in DOMAIN s
         /\ \A i \in DOMAIN Tail(s) : i + 1 \in DOMAIN s /\ Tail(s)[i] = s[i + 1]
OBVIOUS

--------------------------------------------------------------------------------
(* Setting and clearing *)

(* Setting what a resource asks for.                                         *)
LEMMA SettingLaw ==
  ASSUME NEW k \in Kinds, NEW c \in Configs[k], NEW s \in Specs[k], Processing(s) # Error
  PROVE  /\ Keys(Processing(s)) \subseteq Keys(s)
         /\ Merging(c, Processing(s)) \in Configs[k]
         /\ Keys(Merging(c, Processing(s))) \subseteq Keys(c) \cup Keys(Processing(s))
         /\ \A x \in Keys(c) \ Keys(Processing(s)) :
              /\ x \in Keys(Merging(c, Processing(s)))
              /\ Merging(c, Processing(s)).fields[x] = c.fields[x]
         /\ Differences(Processing(s), c) = {} =>
              /\ Merging(c, Processing(s)) = c
              /\ Missing(s, c) \subseteq {<<x>> : x \in Keys(c) \ Keys(s)}
<1> DEFINE p == Processing(s)
<1>1. Differences(p, c) = {} => \A x \in Keys(p) : Item(p, x) = Item(c, x)
  BY DEF Differences
<1> QED
  BY <1>1, SettingAssumption

(* Clearing what a resource does not ask for, of what there was some time.   *)
LEMMA ClearingLaw ==
  ASSUME NEW k \in Kinds, NEW c \in Configs[k], NEW d \in Configs[k], NEW s \in Specs[k]
  PROVE  /\ \A x \in Keys(d) \ Keys(s) : <<x>> \in Missing(s, d)
         /\ Copying(c, ClearablePaths(k, s, d)) \in Configs[k]
         /\ \A x : x \in Keys(Copying(c, ClearablePaths(k, s, d))) <=>
                   x \in Keys(c) /\ <<x>> \notin ClearablePaths(k, s, d)
         /\ \A x \in Keys(Copying(c, ClearablePaths(k, s, d))) :
              ~IsNested(c.fields[x]) =>
                Copying(c, ClearablePaths(k, s, d)).fields[x] = c.fields[x]
<1> DEFINE paths == ClearablePaths(k, s, d)
           m == Copying(c, paths)
<1>1. /\ {<<x>> : x \in Keys(d) \ Keys(s)} \subseteq Missing(s, d)
      /\ m \in Configs[k] /\ Keys(m) = {x \in Keys(c) : <<x>> \notin paths}
      /\ \A x \in Keys(m) : ~IsNested(c.fields[x]) => m.fields[x] = c.fields[x]
  BY ClearingAssumption
<1> HIDE DEF m
<1> QED
  BY <1>1 DEF m

(* A property of the top level that is not asked for is cleared, or it is    *)
(* one of those that never are.                                              *)
LEMMA LeftOver ==
  ASSUME NEW k \in Kinds, NEW d \in Configs[k], NEW s \in Specs[k],
         NEW x \in Keys(d) \ Keys(s)
  PROVE  <<x>> \in ClearablePaths(k, s, d) \/ ~IsClearable(k, <<x>>)
<1>1. <<x>> \in Missing(s, d)
  BY ClearingLaw
<1> QED
  BY <1>1 DEF ClearablePaths

LEMMA RequestCases ==
  ASSUME NEW r \in RequestType
  PROVE  \/ r.op = "get"
         \/ /\ r.op = "unset"
            /\ \E s \in Specs[kind], c \in Configs[kind] : r.arg = ClearablePaths(kind, s, c)
         \/ /\ r.op = "set"
            /\ \E s \in Specs[kind] : Processing(s) # Error /\ r.arg = Processing(s)
BY DEF RequestType

LEMMA ApplyType ==
  ASSUME TypeInv, NEW r \in RequestType
  PROVE  Apply(r) \in Configs[kind]
<1> stored \in Configs[kind] /\ kind \in Kinds
  BY DEF TypeInv, TypeOK
<1>1. CASE r.op = "get"
  BY <1>1 DEF Apply
<1>2. CASE r.op = "unset"
  BY <1>2, RequestCases, ClearingLaw DEF Apply
<1>3. CASE r.op = "set"
  BY <1>3, RequestCases, SettingLaw DEF Apply
<1> QED
  BY <1>1, <1>2, <1>3, RequestCases

--------------------------------------------------------------------------------
(* Types *)

LEMMA TypeInit == Init => TypeInv
<1> SUFFICES ASSUME Init
             PROVE  TypeInv
  OBVIOUS
<1>1. requests = <<>> /\ answers = <<>> /\ Len(<<>>) <= MaxQueue
  BY ConfigAssumption DEF Init
<1>2. requests \in Seq(RequestType) /\ answers \in Seq(AnswerType)
  BY <1>1
<1>3. {stored, tracked, current} \subseteq Configs[kind]
  BY ConfigAssumption DEF Init
<1>4. \A i \in DOMAIN requests : requests[i].op \in Waiting
  BY <1>1
<1>5. Len(requests) <= MaxQueue /\ Len(answers) <= MaxQueue
  BY <1>1
<1> QED
  BY <1>2, <1>3, <1>4, <1>5 DEF Init, TypeInv, TypeOK, AnswerType

LEMMA UnsetType ==
  ASSUME NEW s \in Specs[kind], NEW c \in Configs[kind]
  PROVE  Request("unset", ClearablePaths(kind, s, c)) \in RequestType
<1>1. ClearablePaths(kind, s, c) \in
        {ClearablePaths(kind, x[1], x[2]) : x \in Specs[kind] \X Configs[kind]}
  <2>1. <<s, c>> \in Specs[kind] \X Configs[kind]
    OBVIOUS
  <2> QED
    BY <2>1
<1> QED
  BY <1>1 DEF Request, RequestType

LEMMA SetType ==
  ASSUME NEW s \in Specs[kind], Processing(s) # Error
  PROVE  Request("set", Processing(s)) \in RequestType
BY DEF Request, RequestType

LEMMA GetType == Request("get", Null) \in RequestType
BY DEF Request, RequestType

LEMMA AskType ==
  ASSUME TypeInv, NEW op, NEW arg, Ask(op, arg), Request(op, arg) \in RequestType
  PROVE  /\ requests' \in Seq(RequestType)
         /\ \A i \in DOMAIN requests' : requests'[i].op \in Waiting
         /\ Len(requests') <= MaxQueue
BY ConfigAssumption DEF TypeInv, TypeOK, Ask, RequestType, Waiting

LEMMA TailType ==
  ASSUME TypeInv, requests # <<>>, requests' = Tail(requests)
  PROVE  /\ requests' \in Seq(RequestType)
         /\ \A i \in DOMAIN requests' : requests'[i].op \in Waiting
         /\ Len(requests') <= MaxQueue
BY TailAll, ConfigAssumption DEF TypeInv, TypeOK

LEMMA AnsweredType ==
  ASSUME TypeInv, NEW a \in AnswerType, Answered(a)
  PROVE  answers' \in Seq(AnswerType) /\ Len(answers') <= MaxQueue
BY ConfigAssumption DEF TypeInv, TypeOK, Answered, AnswerType
LEMMA SomeType ==
  ASSUME TypeInv, UNCHANGED fixed,
         spec' \in Specs[kind], wanted' \in Specs[kind],
         stored' \in Configs[kind], tracked' \in Configs[kind], current' \in Configs[kind],
         requests' \in Seq(RequestType),
         \A i \in DOMAIN requests' : requests'[i].op \in Waiting,
         answers' \in Seq(AnswerType),
         Len(requests') <= MaxQueue, Len(answers') <= MaxQueue,
         pc' \in {"idle", "process"} \cup Waiting,
         pc' = "unset" => kind # "capability",
         pc' = "set" => Processing(wanted') # Error,
         heard' \in Configs[kind] \cup {Silence},
         resent' \in BOOLEAN, calm' \in BOOLEAN,
         outcome' \in {"none", "synced", "failed"}
  PROVE  TypeInv'
BY DEF TypeInv, TypeOK, fixed, RequestType, AnswerType, ClearablePaths, IsClearable

LEMMA TypeStep == TypeInv /\ [Next]_vars => TypeInv'
<1> SUFFICES ASSUME TypeInv, [Next]_vars
             PROVE  TypeInv'
  OBVIOUS
<1> USE DEF fixed, store, flight, sync
<1>0. /\ kind \in Kinds /\ environment \in Environments[kind]
      /\ spec \in Specs[kind] /\ wanted \in Specs[kind]
      /\ stored \in Configs[kind] /\ tracked \in Configs[kind] /\ current \in Configs[kind]
      /\ requests \in Seq(RequestType)
      /\ \A i \in DOMAIN requests : requests[i].op \in Waiting
      /\ answers \in Seq(AnswerType)
      /\ Len(requests) <= MaxQueue /\ Len(answers) <= MaxQueue
      /\ pc \in {"idle", "process"} \cup Waiting
      /\ pc = "unset" => kind # "capability"
      /\ pc = "set" => Processing(wanted) # Error
      /\ heard \in Configs[kind] \cup {Silence}
      /\ resent \in BOOLEAN /\ calm \in BOOLEAN
      /\ outcome \in {"none", "synced", "failed"}
  BY DEF TypeInv, TypeOK, AnswerType
<1>1. CASE Begin
  <2>1. CASE kind = "capability" /\ Ask("get", Null)
    BY <1>0, <1>1, <2>1, AskType, GetType, SomeType DEF Begin, Ask, Waiting
  <2>2. CASE kind # "capability" /\ Ask("unset", ClearablePaths(kind, spec, tracked))
    <3>1. Request("unset", ClearablePaths(kind, spec, tracked)) \in RequestType
      BY <1>0, UnsetType
    <3> QED
      BY <1>0, <1>1, <2>2, <3>1, AskType, SomeType DEF Begin, Ask, Waiting
  <2>3. CASE pc' = "process" /\ UNCHANGED <<requests, heard, resent>>
    BY <1>0, <1>1, <2>3, SomeType DEF Begin, Ask
  <2> QED
    BY <1>1, <2>1, <2>2, <2>3 DEF Begin
<1>2. CASE Compare
  <2>1. CASE Processing(wanted) # Error /\ Ask("set", Processing(wanted))
    <3>1. Request("set", Processing(wanted)) \in RequestType
      BY <1>0, <2>1, SetType
    <3>2. /\ requests' \in Seq(RequestType) /\ Len(requests') <= MaxQueue
          /\ \A i \in DOMAIN requests' : requests'[i].op \in Waiting
      BY <2>1, <3>1, AskType
    <3>3. pc' = "set" /\ heard' = Silence /\ resent' = FALSE
      BY <2>1 DEF Ask
    <3>4. /\ UNCHANGED <<fixed, spec, store, answers, wanted, current, calm>>
          /\ outcome' \in {"none", "synced", "failed"}
      BY <1>0, <1>2 DEF Compare, Finish
    <3> QED
      BY <1>0, <2>1, <3>2, <3>3, <3>4, SomeType DEF Waiting
  <2>2. CASE (Finish("failed") \/ Finish("synced")) /\ UNCHANGED requests
    BY <1>0, <1>2, <2>2, SomeType DEF Compare, Finish
  <2> QED
    BY <1>2, <2>1, <2>2 DEF Compare
<1>3. CASE Answer
  <2>1. /\ answers' \in Seq(AnswerType) /\ Len(answers') <= MaxQueue
        /\ Head(answers) \in AnswerType
    BY <1>0, <1>3, TailAll, ConfigAssumption DEF Answer
  <2>2. CASE Continue(Head(answers).value)
    <3>1. Head(answers).value = Error \/ Head(answers).value \in Configs[kind]
      BY <2>1 DEF AnswerType
    <3>2. /\ current' \in Configs[kind] /\ heard' \in {heard, Silence}
          /\ pc' \in {"idle", "process"} /\ resent' \in BOOLEAN
          /\ outcome' \in {"none", "synced", "failed"}
      BY <1>0, <2>2, <3>1 DEF Continue, Finish
    <3> QED
      BY <1>0, <1>3, <2>1, <3>2, SomeType DEF Answer
  <2>3. CASE UNCHANGED <<pc, current, heard, resent, outcome>>
    BY <1>0, <1>3, <2>1, <2>3, SomeType DEF Answer
  <2> QED
    BY <1>3, <2>2, <2>3 DEF Answer
<1>4. CASE Hear
  <2>1. /\ answers' \in Seq(AnswerType) /\ Len(answers') <= MaxQueue
        /\ Head(answers) \in AnswerType
    BY <1>0, <1>4, TailAll, ConfigAssumption DEF Hear
  <2>2. CASE UNCHANGED <<pc, heard, resent, outcome>>
    BY <1>0, <1>4, <2>1, <2>2, SomeType DEF Hear
  <2>3. CASE Finish("failed")
    BY <1>0, <1>4, <2>1, <2>3, SomeType DEF Hear, Finish
  <2>4. CASE /\ Head(answers).value # Error /\ heard' = Head(answers).value
             /\ UNCHANGED <<pc, resent, outcome>>
    BY <1>0, <1>4, <2>1, <2>4, SomeType DEF Hear, AnswerType
  <2> QED
    BY <1>4, <2>2, <2>3, <2>4 DEF Hear
<1>5. CASE Settle
  BY <1>0, <1>5, SomeType DEF Settle, Continue, Finish
<1>6. CASE Resend
  <2>1. pc \in {"get", "set"}
    BY <1>0, <1>6 DEF Resend, Waiting
  <2>2. Request(pc, IF pc = "get" THEN Null ELSE Processing(wanted)) \in RequestType
    BY <1>0, <2>1, GetType, SetType
  <2>3. /\ requests' \in Seq(RequestType) /\ Len(requests') <= MaxQueue
        /\ \A i \in DOMAIN requests' : requests'[i].op \in Waiting
    BY <1>0, <1>6, <2>1, <2>2, AppendedAll, ConfigAssumption DEF Resend, Request, Waiting
  <2> QED
    BY <1>0, <1>6, <2>3, SomeType DEF Resend
<1>7. CASE Timeout
  BY <1>0, <1>7, SomeType DEF Timeout, Finish
<1>8. CASE Handle
  <2>1. Head(requests) \in RequestType
    BY <1>0, <1>8, TailAll DEF Handle
  <2>2. Apply(Head(requests)) \in Configs[kind]
    BY <2>1, ApplyType
  <2>3. stored' \in Configs[kind] /\ tracked' \in Configs[kind]
    BY <1>0, <1>8, <2>2 DEF Handle, Store
  <2>4. AnswerTo(Head(requests), Apply(Head(requests))) \in AnswerType
    BY <2>1, <2>2, RequestCases DEF AnswerTo, AnswerType, Waiting
  <2>5. answers' \in Seq(AnswerType) /\ Len(answers') <= MaxQueue
    <3>1. [op |-> "report", value |-> stored] \in AnswerType
      BY <1>0 DEF AnswerType
    <3>2. CASE Answered(AnswerTo(Head(requests), Apply(Head(requests))))
      BY <2>4, <3>2, AnsweredType
    <3>3. CASE /\ Len(answers) + 2 <= MaxQueue
               /\ answers' = Append(Append(answers, [op |-> "report", value |-> stored]),
                                    AnswerTo(Head(requests), Apply(Head(requests))))
      <4> DEFINE old == [op |-> "report", value |-> stored]
                 new == AnswerTo(Head(requests), Apply(Head(requests)))
      <4>1. old \in AnswerType /\ new \in AnswerType /\ answers' = Append(Append(answers, old), new)
        BY <2>4, <3>1, <3>3
      <4> HIDE DEF old, new
      <4>2. Append(answers, old) \in Seq(AnswerType) /\ Len(Append(answers, old)) = Len(answers) + 1
        BY <1>0, <4>1
      <4>3. answers' \in Seq(AnswerType) /\ Len(answers') = Len(answers) + 2
        BY <1>0, <4>1, <4>2
      <4> QED
        BY <3>3, <4>3
    <3> QED
      BY <1>8, <3>2, <3>3 DEF Handle
  <2> QED
    BY <1>0, <1>8, <2>3, <2>5, TailType, SomeType DEF Handle
<1>9. CASE Refuse
  <2>1. [op |-> IF kind = "capability" THEN "report" ELSE Head(requests).op,
         value |-> Error] \in AnswerType
    BY <1>0, <1>9, TailAll DEF Refuse, AnswerType
  <2> QED
    BY <1>0, <1>9, <2>1, AnsweredType, TailType, SomeType DEF Refuse
<1>10. CASE Lose
  BY <1>0, <1>10, TailType, SomeType DEF Lose
<1>11. CASE Deliver
  BY <1>0, <1>11, SomeType DEF Deliver
<1>12. CASE Others
  <2>1. stored' \in Configs[kind] /\ tracked' \in Configs[kind]
    BY <1>0, <1>12, ConfigAssumption DEF Others, Store
  <2> QED
    BY <1>0, <1>12, <2>1, SomeType DEF Others
<1>13. CASE Report
  <2>1. [op |-> "report", value |-> stored] \in AnswerType
    BY <1>0 DEF AnswerType
  <2> QED
    BY <1>0, <1>13, <2>1, AnsweredType, SomeType DEF Report
<1>14. CASE Edit
  BY <1>0, <1>14, SomeType DEF Edit
<1>15. CASE CalmDown
  BY <1>0, <1>15, SomeType DEF CalmDown
<1>16. CASE UNCHANGED vars
  BY <1>0, <1>16, SomeType DEF vars
<1>17. CASE Unread
  BY <1>0, <1>17, SomeType DEF Unread, Finish
<1> QED
  BY <1>1, <1>2, <1>3, <1>4, <1>5, <1>6, <1>7, <1>8, <1>9, <1>10, <1>11, <1>12, <1>13,
     <1>14, <1>15, <1>16, <1>17 DEF Next, Sync, Surroundings

(* The state has its types throughout, and nothing is set that the schema    *)
(* refuses, whatever is lost, late, refused or edited meanwhile (sync in     *)
(* mqtt/handlers/lib.rs).                                                    *)
THEOREM TypeCorrect == Spec => []TypeOK
<1>1. TypeInv => TypeOK
  BY DEF TypeInv
<1> QED
  BY <1>1, TypeInit, TypeStep, PTL DEF Spec

--------------------------------------------------------------------------------
(* What is reported as synced is in effect *)

(* The resource stays as it is, or nothing is late.                          *)
Steady == "edit" \notin environment
Prompt == environment \cap {"stale", "timeout"} = {}

(* Nothing is left over at the top level that may be cleared.                *)
Clean == \A x \in Keys(stored) \ Keys(wanted) : ~IsClearable(kind, <<x>>)

(* A request on its way is for what the sync works on: one that clears was   *)
(* made from a configuration that had all that is stored by now, or is asked *)
(* for.                                                                      *)
Known(r) ==
  /\ r.op = "set" => r.arg = Processing(wanted)
  /\ r.op = "unset" =>
       \E c \in Configs[kind] :
         /\ r.arg = ClearablePaths(kind, wanted, c)
         /\ Keys(stored) \subseteq Keys(c) \cup Keys(wanted)

(* What has been cleared stays clear, and the last answer on its way has     *)
(* what is stored: the earlier ones may be out of date.                      *)
Lined ==
  /\ \A i \in DOMAIN requests : Known(requests[i])
  /\ Keys(stored) \subseteq Keys(tracked) \cup Keys(wanted)
  /\ \A i \in DOMAIN answers : answers[i].op = "unset" /\ answers[i].value # Error => Clean
  /\ pc \in {"process", "set"} => Clean
  /\ answers # <<>> /\ answers[Len(answers)].value # Error =>
       answers[Len(answers)].value = stored
  /\ pc # "get"
  /\ heard = Silence

(* Where nothing is late, there is one request or answer at a time, and it   *)
(* is that of the sync.                                                      *)
AtOnce ==
  /\ tracked = stored
  /\ pc \notin Waiting => requests = <<>> /\ answers = <<>>
  /\ requests # <<>> => Len(requests) = 1 /\ answers = <<>> /\ requests[1].op = pc
  /\ answers # <<>> => Len(answers) = 1 /\ answers[1].op = pc

SyncInv ==
  kind # "capability" /\ Orderly =>
    /\ Lined
    /\ Steady => wanted = spec
    /\ Prompt => AtOnce

LEMMA SyncInit == Init => SyncInv
BY DEF Init, SyncInv, Lined, AtOnce

(* Fewer properties than before that the resource does not ask for, if any.  *)
LEMMA StaysClean ==
  ASSUME Keys(stored') \subseteq Keys(stored) \cup Keys(wanted), UNCHANGED <<kind, wanted>>
  PROVE  Clean => Clean'
BY DEF Clean, IsClearable

LEMMA StaysKnown ==
  ASSUME Keys(stored') \subseteq Keys(stored) \cup Keys(wanted), UNCHANGED <<kind, wanted>>,
         NEW r, Known(r)
  PROVE  Known(r)'
BY DEF Known, ClearablePaths, IsClearable

(* What a request does to what is stored.                                    *)
LEMMA ApplyKnown ==
  ASSUME TypeInv, NEW r \in RequestType, Known(r), stored' = Apply(r), UNCHANGED <<kind, wanted>>
  PROVE  /\ Keys(stored') \subseteq Keys(stored) \cup Keys(wanted)
         /\ r.op = "unset" => Clean'
<1>0. kind \in Kinds /\ stored \in Configs[kind] /\ wanted \in Specs[kind]
  BY DEF TypeInv, TypeOK
<1>1. CASE r.op = "get"
  BY <1>1 DEF Apply
<1>2. CASE r.op = "unset"
  <2>1. PICK c \in Configs[kind] :
          /\ r.arg = ClearablePaths(kind, wanted, c)
          /\ Keys(stored) \subseteq Keys(c) \cup Keys(wanted)
    BY <1>2 DEF Known
  <2>2. \A x : x \in Keys(stored') <=>
              x \in Keys(stored) /\ <<x>> \notin ClearablePaths(kind, wanted, c)
    <3>1. stored' = Copying(stored, ClearablePaths(kind, wanted, c))
      BY <1>2, <2>1 DEF Apply
    <3> QED
      BY <1>0, <3>1, ClearingLaw
  <2>3. ASSUME NEW x \in Keys(stored') \ Keys(wanted)
        PROVE  ~IsClearable(kind, <<x>>)
    <3>1. x \in Keys(c) \ Keys(wanted) /\ <<x>> \notin ClearablePaths(kind, wanted, c)
      BY <2>1, <2>2, <2>3
    <3> QED
      BY <1>0, <3>1, LeftOver
  <2>4. Clean'
    BY <2>3 DEF Clean
  <2> QED
    BY <1>2, <2>2, <2>4
<1>3. CASE r.op = "set"
  <2>1. r.arg = Processing(wanted) /\ Processing(wanted) # Error
    BY <1>3, RequestCases DEF Known
  <2> QED
    BY <1>0, <1>3, <2>1, SettingLaw DEF Apply
<1> QED
  BY <1>1, <1>2, <1>3, RequestCases

LEMMA FixedStep == [Next]_vars => UNCHANGED fixed
BY DEF Next, Sync, Surroundings, vars, fixed, Begin, Unread, Compare, Answer, Hear, Settle, Resend,
       Timeout, Handle, Refuse, Lose, Deliver, Others, Report, Edit, CalmDown

(* The requests that are left are known, when nothing is added to what is    *)
(* stored but what the resource asks for.                                    *)
LEMMA TailKnown ==
  ASSUME TypeInv, requests # <<>>, requests' = Tail(requests), UNCHANGED <<kind, wanted>>,
         Keys(stored') \subseteq Keys(stored) \cup Keys(wanted),
         \A i \in DOMAIN requests : Known(requests[i])
  PROVE  \A i \in DOMAIN requests' : Known(requests[i])'
<1>1. requests \in Seq(RequestType)
  BY DEF TypeInv
<1>2. ASSUME NEW i \in DOMAIN requests'
      PROVE  Known(requests[i])'
  <2>1. i + 1 \in DOMAIN requests /\ requests'[i] = requests[i + 1]
    BY <1>1, <1>2, TailAll
  <2>2. Known(requests[i + 1])
    BY <2>1
  <2> DEFINE r == requests[i + 1]
  <2> HIDE DEF r
  <2>3. Known(r) /\ requests'[i] = r
    BY <2>1, <2>2 DEF r
  <2> QED
    BY <2>3, StaysKnown DEF Known
<1> QED
  BY <1>2

LEMMA SameKnown ==
  ASSUME UNCHANGED <<requests, kind, wanted, stored>> \/ requests' = <<>>,
         \A i \in DOMAIN requests : Known(requests[i])
  PROVE  \A i \in DOMAIN requests' : Known(requests[i])'
<1>1. ASSUME NEW i \in DOMAIN requests, UNCHANGED <<requests, kind, wanted, stored>>
      PROVE  Known(requests[i])'
  <2>1. Known(requests[i])
    BY <1>1
  <2>2. PICK r : r = requests[i]
    OBVIOUS
  <2> QED
    BY <1>1, <2>1, <2>2, StaysKnown DEF Known
<1> QED
  BY <1>1

LEMMA MoreKnown ==
  ASSUME TypeInv, NEW r, requests' = Append(requests, r), Known(r)',
         UNCHANGED <<kind, wanted, stored>> \/ requests = <<>>,
         \A i \in DOMAIN requests : Known(requests[i])
  PROVE  \A i \in DOMAIN requests' : Known(requests[i])'
<1>0. requests \in Seq(RequestType)
  BY DEF TypeInv
<1>1. ASSUME NEW i \in DOMAIN requests, UNCHANGED <<kind, wanted, stored>>,
             requests'[i] = requests[i]
      PROVE  Known(requests[i])'
  <2>1. Known(requests[i])
    BY <1>1
  <2>2. PICK x : x = requests[i]
    OBVIOUS
  <2> QED
    BY <1>1, <2>1, <2>2, StaysKnown DEF Known
<1>2. ASSUME NEW i, requests'[i] = r
      PROVE  Known(requests[i])'
  BY <1>2 DEF Known
<1>3. \A i \in DOMAIN requests' :
        \/ i \in DOMAIN requests /\ requests'[i] = requests[i]
        \/ requests'[i] = r
  BY <1>0, AppendedAll
<1>4. requests = <<>> => \A i \in DOMAIN requests' : requests'[i] = r
  BY <1>0, AppendedAll
<1> QED
  BY <1>1, <1>2, <1>3, <1>4

LEMMA SyncStep == TypeInv /\ SyncInv /\ [Next]_vars => SyncInv'
<1> SUFFICES ASSUME TypeInv, SyncInv, [Next]_vars, kind # "capability", Orderly
             PROVE  /\ Lined'
                    /\ Steady => wanted' = spec'
                    /\ Prompt => AtOnce'
  BY FixedStep DEF SyncInv, Orderly, Steady, Prompt, fixed
<1> USE DEF fixed, store, flight, sync
<1>0. /\ kind \in Kinds /\ spec \in Specs[kind] /\ wanted \in Specs[kind]
      /\ stored \in Configs[kind] /\ tracked \in Configs[kind]
      /\ requests \in Seq(RequestType) /\ answers \in Seq(AnswerType)
  BY DEF TypeInv, TypeOK, AnswerType
<1>a. Lined /\ (Steady => wanted = spec) /\ (Prompt => AtOnce) /\ (Steady \/ Prompt)
  BY DEF SyncInv, Orderly, Steady, Prompt
<1>b. kind' = kind /\ environment' = environment
  BY FixedStep
<1>c. /\ "others" \notin environment
      /\ Prompt => ~May("stale") /\ ~May("timeout")
      /\ Steady => ~May("edit")
  BY DEF Orderly, May, Prompt, Steady
<1>1. CASE Begin
  <2>0. /\ pc = "idle" /\ wanted' = spec
        /\ UNCHANGED <<fixed, spec, store, answers, outcome, calm>>
    BY <1>1 DEF Begin
  <2>1. Steady => wanted' = wanted
    BY <1>a, <2>0
  <2>2. Prompt => tracked = stored /\ requests = <<>> /\ answers = <<>>
    BY <1>a, <2>0 DEF AtOnce, Waiting
  <2>3. Keys(stored) \subseteq Keys(tracked) \cup Keys(spec)
    BY <1>a, <2>1, <2>0, <2>2 DEF Lined
  <2>4. \A i \in DOMAIN requests : Known(requests[i])
    BY <1>a DEF Lined
  <2>5. UNCHANGED <<kind, wanted, stored>> \/ (requests = <<>> /\ answers = <<>>)
    BY <1>a, <1>b, <2>0, <2>1, <2>2
  <2>6. \A i \in DOMAIN answers' : answers'[i].op = "unset" /\ answers'[i].value # Error => Clean'
    BY <1>a, <2>0, <2>5, StaysClean DEF Lined
  <2>7. answers' # <<>> /\ answers'[Len(answers')].value # Error =>
          answers'[Len(answers')].value = stored'
    BY <1>a, <2>0 DEF Lined
  <2>8. CASE Ask("unset", ClearablePaths(kind, spec, tracked))
    <3>1. PICK r : r = Request("unset", ClearablePaths(kind, spec, tracked))
      OBVIOUS
    <3>2. Known(r)'
      BY <1>0, <1>b, <2>0, <2>3, <3>1 DEF Known, Request, ClearablePaths, IsClearable
    <3>3. \A i \in DOMAIN requests' : Known(requests[i])'
      BY <2>4, <2>5, <2>8, <3>1, <3>2, MoreKnown DEF Ask
    <3>4. Lined'
      BY <2>0, <2>3, <2>6, <2>7, <2>8, <3>3 DEF Lined, Ask
    <3>5. Prompt => AtOnce'
      BY <2>0, <2>2, <2>8 DEF AtOnce, Ask, Request, Waiting
    <3> QED
      BY <2>0, <3>4, <3>5
  <2>9. CASE /\ ClearablePaths(kind, spec, tracked) = {}
             /\ pc' = "process" /\ UNCHANGED <<requests, heard, resent>>
    <3>1. Clean'
      <4> SUFFICES ASSUME NEW x \in Keys(stored) \ Keys(spec)
                   PROVE  ~IsClearable(kind, <<x>>)
        BY <1>b, <2>0 DEF Clean, IsClearable
      <4>1. x \in Keys(tracked) \ Keys(spec)
        BY <2>3
      <4> QED
        BY <1>0, <2>9, <4>1, LeftOver
    <3>2. \A i \in DOMAIN requests' : Known(requests[i])'
      BY <2>4, <2>5, <2>9, <2>0, <1>b, SameKnown
    <3>3. Lined'
      BY <1>a, <2>0, <2>3, <2>6, <2>7, <2>9, <3>1, <3>2 DEF Lined
    <3>4. Prompt => AtOnce'
      BY <2>0, <2>2, <2>9 DEF AtOnce
    <3> QED
      BY <2>0, <3>3, <3>4
  <2> QED
    BY <1>1, <2>8, <2>9 DEF Begin
<1>2. CASE Compare
  <2>0. /\ pc = "process" /\ UNCHANGED <<fixed, spec, store, answers, wanted, current, calm>>
    BY <1>2 DEF Compare
  <2>1. Clean' /\ \A i \in DOMAIN requests : Known(requests[i])
    BY <1>a, <2>0, StaysClean DEF Lined
  <2>2. Prompt => requests = <<>> /\ answers = <<>>
    BY <1>a, <2>0 DEF AtOnce, Waiting
  <2>3. CASE Ask("set", Processing(wanted))
    <3>1. PICK r : r = Request("set", Processing(wanted))
      OBVIOUS
    <3>2. Known(r)'
      BY <2>0, <3>1 DEF Known, Request
    <3>3. \A i \in DOMAIN requests' : Known(requests[i])'
      BY <2>0, <2>1, <2>3, <3>1, <3>2, MoreKnown DEF Ask
    <3>4. Lined'
      BY <1>a, <2>0, <2>1, <2>3, <3>3 DEF Lined, Ask
    <3>5. Prompt => AtOnce'
      BY <1>a, <2>0, <2>2, <2>3 DEF AtOnce, Ask, Request, Waiting
    <3> QED
      BY <1>a, <2>0, <3>4, <3>5
  <2>4. CASE pc' = "idle" /\ heard' = Silence /\ UNCHANGED requests
    <3>1. \A i \in DOMAIN requests' : Known(requests[i])'
      BY <2>0, <2>1, <2>4, SameKnown
    <3>2. Lined'
      BY <1>a, <2>0, <2>1, <2>4, <3>1 DEF Lined
    <3>3. Prompt => AtOnce'
      BY <1>a, <2>0, <2>2, <2>4 DEF AtOnce, Waiting
    <3> QED
      BY <1>a, <2>0, <3>2, <3>3
  <2> QED
    BY <1>2, <2>3, <2>4 DEF Compare, Finish
<1>3. CASE Answer
  <2> DEFINE answer == Head(answers)
  <2>0. /\ answers # <<>> /\ answers' = Tail(answers)
        /\ UNCHANGED <<fixed, spec, store, requests, wanted, calm>>
    BY <1>3 DEF Answer
  <2>1. /\ Len(answers') = Len(answers) - 1 /\ answer = answers[1] /\ 1 \in DOMAIN answers
        /\ \A i \in DOMAIN answers' : i + 1 \in DOMAIN answers /\ answers'[i] = answers[i + 1]
    BY <1>0, <2>0, TailAll
  <2>2. \A i \in DOMAIN requests' : Known(requests[i])'
    BY <1>a, <2>0, SameKnown DEF Lined
  <2>3. Clean => Clean'
    BY <1>b, <2>0, StaysClean
  <2>4. \A i \in DOMAIN answers' : answers'[i].op = "unset" /\ answers'[i].value # Error => Clean'
    BY <1>a, <2>1, <2>3 DEF Lined
  <2>5. answers' # <<>> => Len(answers') \in DOMAIN answers' /\ Len(answers') + 1 = Len(answers)
    BY <1>0, <2>0, <2>1
  <2>6. answers' # <<>> /\ answers'[Len(answers')].value # Error =>
          answers'[Len(answers')].value = stored'
    BY <1>a, <2>0, <2>1, <2>5 DEF Lined
  <2>7. /\ pc' \in {"idle", "process", pc} /\ heard' = Silence
        /\ pc' = "process" /\ pc # "process" => answer.op = "unset" /\ answer.value # Error
    BY <1>a, <1>3 DEF Answer, Continue, Finish, Lined
  <2>8. Lined'
    BY <1>a, <2>0, <2>1, <2>2, <2>3, <2>4, <2>6, <2>7 DEF Lined
  <2>9. Prompt => AtOnce'
    <3> SUFFICES ASSUME Prompt
                 PROVE  AtOnce'
      OBVIOUS
    <3>1. /\ tracked = stored /\ requests = <<>> /\ Len(answers) = 1 /\ answers' = <<>>
          /\ answer.op = pc
      BY <1>a, <1>0, <2>0, <2>1 DEF AtOnce
    <3> QED
      BY <2>0, <3>1 DEF AtOnce
  <2> QED
    BY <1>a, <2>0, <2>8, <2>9
<1>4. CASE Timeout
  <2>0. pc' = "idle" /\ heard' = Silence /\ UNCHANGED <<fixed, spec, store, flight, wanted, calm>>
    BY <1>4 DEF Timeout, Finish
  <2>1. Prompt => requests = <<>> /\ answers = <<>>
    BY <1>c, <1>4 DEF Timeout, Unanswered
  <2>2. \A i \in DOMAIN requests' : Known(requests[i])'
    BY <1>a, <2>0, SameKnown DEF Lined
  <2>3. Lined'
    BY <1>a, <1>b, <2>0, <2>2, StaysClean DEF Lined
  <2>4. Prompt => AtOnce'
    BY <1>a, <2>0, <2>1 DEF AtOnce, Waiting
  <2> QED
    BY <1>a, <2>0, <2>3, <2>4
<1>5. CASE Handle
  <2> DEFINE answer == AnswerTo(Head(requests), Apply(Head(requests)))
  <2>0. /\ requests # <<>> /\ requests' = Tail(requests) /\ stored' = Apply(Head(requests))
        /\ tracked' = stored' \/ (May("stale") /\ UNCHANGED tracked)
        /\ answers' = Append(answers, answer)
        /\ UNCHANGED <<fixed, spec, sync, calm>>
    BY <1>5 DEF Handle, Store, Answered
  <2>1. PICK r \in RequestType : r = Head(requests) /\ r = requests[1] /\ 1 \in DOMAIN requests
    BY <1>0, <2>0, TailAll
  <2>2. Known(r)
    BY <1>a, <2>1 DEF Lined
  <2>3. /\ Keys(stored') \subseteq Keys(stored) \cup Keys(wanted)
        /\ r.op = "unset" => Clean'
    BY <2>0, <2>1, <2>2, ApplyKnown
  <2>4. \A i \in DOMAIN requests' : Known(requests[i])'
    BY <1>a, <2>0, <2>3, TailKnown DEF Lined
  <2>5. Clean => Clean'
    BY <2>0, <2>3, StaysClean
  <2>6. answer.op = r.op /\ (answer.value = stored' \/ answer.value = Error)
    BY <2>0, <2>1 DEF AnswerTo
  <2> HIDE DEF answer
  <2>7. /\ Len(answers') = Len(answers) + 1 /\ answers'[Len(answers')] = answer
        /\ \A i \in DOMAIN answers' :
             (i \in DOMAIN answers /\ answers'[i] = answers[i]) \/ answers'[i] = answer
    BY <1>0, <2>0
  <2>8. \A i \in DOMAIN answers' : answers'[i].op = "unset" /\ answers'[i].value # Error => Clean'
    BY <1>a, <2>3, <2>5, <2>6, <2>7 DEF Lined
  <2>9. Lined'
    BY <1>a, <2>0, <2>3, <2>4, <2>5, <2>6, <2>7, <2>8 DEF Lined
  <2>10. Prompt => AtOnce'
    <3> SUFFICES ASSUME Prompt
                 PROVE  AtOnce'
      OBVIOUS
    <3>1. /\ Len(requests) = 1 /\ requests' = <<>> /\ answers = <<>> /\ r.op = pc
          /\ tracked' = stored'
      BY <1>a, <1>c, <1>0, <2>0, <2>1 DEF AtOnce
    <3>2. pc \in Waiting
      BY <1>a, <2>0 DEF AtOnce
    <3>3. Len(answers') = 1 /\ answers'[1].op = pc
      BY <2>6, <2>7, <3>1
    <3> QED
      BY <2>0, <3>1, <3>2, <3>3 DEF AtOnce
  <2> QED
    BY <1>a, <2>0, <2>9, <2>10
<1>6. CASE Refuse
  <2> DEFINE answer == [op |-> Head(requests).op, value |-> Error]
  <2>0. /\ requests # <<>> /\ requests' = Tail(requests) /\ answers' = Append(answers, answer)
        /\ UNCHANGED <<fixed, spec, store, sync, calm>>
    BY <1>6 DEF Refuse, Answered
  <2>1. \A i \in DOMAIN requests' : Known(requests[i])'
    BY <1>a, <2>0, TailKnown DEF Lined
  <2>2. Clean => Clean'
    BY <2>0, StaysClean
  <2>3. answer.op = Head(requests).op /\ answer.value = Error /\ Head(requests) = requests[1]
    BY <1>0, <2>0, TailAll
  <2> HIDE DEF answer
  <2>4. /\ Len(answers') = Len(answers) + 1 /\ answers'[Len(answers')] = answer
        /\ \A i \in DOMAIN answers' :
             (i \in DOMAIN answers /\ answers'[i] = answers[i]) \/ answers'[i] = answer
    BY <1>0, <2>0
  <2>5. Lined'
    BY <1>a, <2>0, <2>1, <2>2, <2>3, <2>4 DEF Lined
  <2>6. Prompt => AtOnce'
    <3> SUFFICES ASSUME Prompt
                 PROVE  AtOnce'
      OBVIOUS
    <3>1. Len(requests) = 1 /\ requests' = <<>> /\ answers = <<>> /\ requests[1].op = pc
      BY <1>a, <1>0, <2>0 DEF AtOnce
    <3>2. pc \in Waiting /\ tracked = stored
      BY <1>a, <2>0 DEF AtOnce
    <3>3. Len(answers') = 1 /\ answers'[1].op = pc
      BY <2>3, <2>4, <3>1
    <3> QED
      BY <2>0, <3>1, <3>2, <3>3 DEF AtOnce
  <2> QED
    BY <1>a, <2>0, <2>5, <2>6
<1>7. CASE Lose
  <2>0. /\ requests # <<>> /\ requests' = Tail(requests)
        /\ UNCHANGED <<fixed, spec, store, answers, sync, calm>>
    BY <1>7 DEF Lose
  <2>1. \A i \in DOMAIN requests' : Known(requests[i])'
    BY <1>a, <2>0, TailKnown DEF Lined
  <2>2. Clean => Clean'
    BY <2>0, StaysClean
  <2>3. Lined'
    BY <1>a, <2>0, <2>1, <2>2 DEF Lined
  <2>4. Prompt => AtOnce'
    <3> SUFFICES ASSUME Prompt
                 PROVE  AtOnce'
      OBVIOUS
    <3>1. requests' = <<>> /\ answers = <<>> /\ tracked = stored
      BY <1>a, <1>0, <2>0 DEF AtOnce
    <3> QED
      BY <2>0, <3>1 DEF AtOnce
  <2> QED
    BY <1>a, <2>0, <2>3, <2>4
<1>8. CASE Deliver
  <2>0. tracked # stored /\ tracked' = stored /\ UNCHANGED <<fixed, spec, stored, flight, sync, calm>>
    BY <1>8 DEF Deliver
  <2>1. \A i \in DOMAIN requests' : Known(requests[i])'
    BY <1>a, <2>0, SameKnown DEF Lined
  <2>2. Lined'
    BY <1>a, <2>0, <2>1, StaysClean DEF Lined
  <2> QED
    BY <1>a, <2>0, <2>2 DEF AtOnce
<1>9. CASE Edit \/ CalmDown \/ UNCHANGED vars
  <2>0. /\ UNCHANGED <<fixed, store, flight, sync>>
        /\ Steady => UNCHANGED spec
    BY <1>c, <1>9 DEF Edit, CalmDown, vars
  <2>1. \A i \in DOMAIN requests' : Known(requests[i])'
    BY <1>a, <2>0, SameKnown DEF Lined
  <2>2. Lined'
    BY <1>a, <2>0, <2>1, StaysClean DEF Lined
  <2> QED
    BY <1>a, <2>0, <2>2 DEF AtOnce
<1>10. CASE Hear \/ Settle \/ Resend \/ Others \/ Report
  BY <1>a, <1>c, <1>10 DEF Hear, Settle, Resend, Others, Report, Lined, May
<1>11. CASE Unread
  <2>0. /\ pc \in {"idle", "process"} /\ pc' = "idle" /\ heard' = Silence
        /\ wanted' = wanted \/ (pc = "idle" /\ wanted' = spec)
        /\ UNCHANGED <<fixed, spec, store, flight, calm>>
    BY <1>11 DEF Unread, Finish
  <2>1. Steady => wanted' = wanted /\ wanted' = spec'
    BY <1>a, <2>0
  <2>2. Prompt => tracked = stored /\ requests = <<>> /\ answers = <<>>
    BY <1>a, <2>0 DEF AtOnce, Waiting
  <2>3. UNCHANGED <<requests, kind, wanted, stored>> \/ (requests' = <<>> /\ answers' = <<>>)
    BY <1>a, <1>b, <2>0, <2>1, <2>2
  <2>4. \A i \in DOMAIN requests' : Known(requests[i])'
    BY <1>a, <2>3, SameKnown DEF Lined
  <2>5. Keys(stored') \subseteq Keys(tracked') \cup Keys(wanted')
    BY <1>a, <2>0, <2>1, <2>2 DEF Lined
  <2>6. \A i \in DOMAIN answers' : answers'[i].op = "unset" /\ answers'[i].value # Error => Clean'
    BY <1>a, <2>0, <2>3, StaysClean DEF Lined
  <2>7. Lined'
    BY <1>a, <2>0, <2>4, <2>5, <2>6 DEF Lined
  <2>8. Prompt => AtOnce'
    BY <2>0, <2>2 DEF AtOnce, Waiting
  <2> QED
    BY <2>1, <2>7, <2>8
<1> QED
  BY <1>1, <1>2, <1>3, <1>4, <1>5, <1>6, <1>7, <1>8, <1>9, <1>10, <1>11
  DEF Next, Sync, Surroundings

(* What differs in nothing from what is stored, with nothing left over that  *)
(* may be cleared at the top level, is in effect at every depth.             *)
LEMMA NothingDiffers ==
  ASSUME TypeInv, kind # "capability", Clean,
         Processing(wanted) # Error, Differences(Processing(wanted), stored) = {}
  PROVE  InEffect(wanted, stored)
<1>0. kind \in Kinds /\ kind \in AllKinds /\ stored \in Configs[kind] /\ wanted \in Specs[kind]
  BY ConfigAssumption DEF TypeInv, TypeOK
<1>1. /\ Merging(stored, Processing(wanted)) = stored
      /\ Missing(wanted, stored) \subseteq {<<x>> : x \in Keys(stored) \ Keys(wanted)}
  BY <1>0, SettingLaw
<1>2. ASSUME NEW p \in Missing(wanted, stored)
      PROVE  p \in {<<"ID">>, <<"friendly_name">>} \/ (kind = "group" /\ p = <<"devices">>)
  <2>1. PICK x \in Keys(stored) \ Keys(wanted) : p = <<x>>
    BY <1>1
  <2>2. ~IsClearable(kind, p)
    BY <2>1 DEF Clean
  <2> QED
    BY <2>2 DEF IsClearable
<1> QED
  BY <1>1, <1>2 DEF InEffect

(* A sync ends well where the configuration it found, or that the answer to  *)
(* its request has, differs in nothing from what it asked for.               *)
LEMMA ReportsNoDifference ==
  ASSUME TypeInv, [Next]_vars, kind # "capability",
         pc # "idle", pc' = "idle", outcome' = "synced", answers' = <<>>,
         pc = "process" => current = stored,
         heard = Silence,
         answers # <<>> /\ answers[Len(answers)].value # Error =>
           answers[Len(answers)].value = stored
  PROVE  /\ Processing(wanted) # Error /\ Differences(Processing(wanted), stored) = {}
         /\ pc \in {"process", "set"}
         /\ UNCHANGED <<fixed, spec, store, requests, wanted, calm>>
<1> USE DEF fixed, store, flight, sync
<1>0. answers \in Seq(AnswerType) /\ (pc = "set" => Processing(wanted) # Error)
  BY DEF TypeInv, TypeOK, AnswerType
<1>1. CASE Compare
  <2>1. /\ pc = "process" /\ Processing(wanted) # Error
        /\ Differences(Processing(wanted), current) = {}
    BY <1>1 DEF Compare, Finish, Ask
  <2> QED
    BY <1>1, <2>1 DEF Compare, Finish
<1>2. CASE Answer
  <2> DEFINE answer == Head(answers)
  <2>1. /\ pc = "set" /\ answer.value # Error
        /\ Differences(Processing(wanted), answer.value) = {}
    BY <1>2 DEF Answer, Continue, Finish
  <2>2. answers # <<>> /\ Len(answers) = 1 /\ answer = answers[1]
    <3>1. answers # <<>> /\ Tail(answers) = <<>>
      BY <1>2 DEF Answer
    <3>2. Len(<<>>) = Len(answers) - 1 /\ answer = answers[1]
      BY <1>0, <3>1, TailAll
    <3> QED
      BY <1>0, <3>1, <3>2
  <2>3. answer.value = stored
    BY <2>1, <2>2
  <2> QED
    BY <1>0, <1>2, <2>1, <2>3 DEF Answer
<1>3. CASE Timeout
  BY <1>3 DEF Timeout, Finish
<1>4. CASE Begin \/ Unread \/ Hear \/ Settle \/ Resend
  BY <1>4 DEF Begin, Unread, Finish, Hear, Settle, Resend
<1>5. CASE Handle \/ Deliver \/ Surroundings \/ CalmDown \/ UNCHANGED vars
  BY <1>5 DEF Handle, Deliver, Surroundings, Refuse, Lose, Others, Report, Edit, CalmDown, vars
<1> QED
  BY <1>1, <1>2, <1>3, <1>4, <1>5 DEF Next, Sync

(* With SyncInv it leaves nothing over, either.                              *)
LEMMA EndsWell ==
  ASSUME TypeInv, SyncInv, [Next]_vars, kind # "capability", Orderly,
         pc # "idle", pc' = "idle", outcome' = "synced", answers' = <<>>,
         pc = "process" => current = stored
  PROVE  /\ Processing(wanted) # Error /\ Differences(Processing(wanted), stored) = {}
         /\ Clean
         /\ UNCHANGED <<fixed, spec, store, requests, wanted, calm>>
BY ReportsNoDifference DEF SyncInv, Lined

(* When a sync reports that the resource is synced, what it asks for is in   *)
(* effect at every depth, and nothing is left over that may be cleared (sync *)
(* in mqtt/handlers/lib.rs), for any schema and any configurations.          *)
THEOREM WhatIsSyncedIsTrue == Spec => SyncedIsTrue
<1> DEFINE Inv == TypeInv /\ SyncInv
<1>1. Init => Inv
  BY TypeInit, SyncInit
<1>2. Inv /\ [Next]_vars => Inv'
  BY TypeStep, SyncStep
<1>3. Inv /\ [Next]_vars =>
        [ /\ kind # "capability" /\ Orderly
          /\ pc # "idle" /\ pc' = "idle" /\ outcome' = "synced"
          /\ requests' = <<>> /\ answers' = <<>>
          /\ pc = "process" => current = stored
          => InEffect(wanted, stored) ]_vars
  BY EndsWell, NothingDiffers
<1> QED
  BY <1>1, <1>2, <1>3, PTL DEF Spec, SyncedIsTrue

(* The last answer on its way is of what is stored, or is an error, as long  *)
(* as nobody else changes that, however late answers are.                    *)
LastInv ==
  kind # "capability" /\ "others" \notin environment =>
    /\ heard = Silence
    /\ answers # <<>> /\ answers[Len(answers)].value # Error =>
         answers[Len(answers)].value = stored

LEMMA LastStep == TypeInv /\ LastInv /\ [Next]_vars => LastInv'
<1> SUFFICES ASSUME TypeInv, LastInv, [Next]_vars,
                    kind # "capability", "others" \notin environment
             PROVE  /\ heard' = Silence
                    /\ answers' # <<>> /\ answers'[Len(answers')].value # Error =>
                         answers'[Len(answers')].value = stored'
  BY FixedStep DEF LastInv, fixed
<1> USE DEF fixed, store, flight, sync
<1>0. answers \in Seq(AnswerType)
  BY DEF TypeInv, TypeOK, AnswerType
<1>1. CASE Begin \/ Unread \/ Compare \/ Resend \/ Timeout
  BY <1>1 DEF Begin, Unread, Compare, Resend, Timeout, Ask, Finish, LastInv
<1>2. CASE Answer
  <2>1. answers' = Tail(answers) /\ answers # <<>> /\ UNCHANGED stored /\ heard' = Silence
    BY <1>2 DEF Answer, Continue, Finish, LastInv
  <2>2. answers' # <<>> => answers'[Len(answers')] = answers[Len(answers)]
    BY <1>0, <2>1
  <2> QED
    BY <2>1, <2>2 DEF LastInv
<1>3. CASE Handle
  <2>1. PICK answer : /\ answers' = Append(answers, answer)
                      /\ answer.value = stored' \/ answer.value = Error
    BY <1>3 DEF Handle, Store, Answered, AnswerTo
  <2>2. answers'[Len(answers')] = answer
    BY <1>0, <2>1
  <2> QED
    BY <1>3, <2>1, <2>2 DEF Handle, LastInv
<1>4. CASE Refuse
  <2>1. PICK answer : answers' = Append(answers, answer) /\ answer.value = Error
    BY <1>4 DEF Refuse, Answered
  <2>2. answers'[Len(answers')] = answer
    BY <1>0, <2>1
  <2> QED
    BY <1>4, <2>1, <2>2 DEF Refuse, LastInv
<1>5. CASE Hear \/ Settle \/ Others \/ Report
  BY <1>5 DEF Hear, Settle, Others, Report, LastInv, May
<1>6. CASE Lose \/ Deliver \/ Edit \/ CalmDown \/ UNCHANGED vars
  BY <1>6 DEF Lose, Deliver, Edit, CalmDown, vars, LastInv
<1> QED
  BY <1>1, <1>2, <1>3, <1>4, <1>5, <1>6 DEF Next, Sync, Surroundings

(* What is left of SyncedIsTrue where the resource is edited while its       *)
(* requests or the tracker are late: what it asks for is set, at every depth,*)
(* and what may be left over beside it is whole properties of the top level. *)
THEOREM WhatIsSyncedIsSet ==
  Spec => [][ /\ kind # "capability" /\ "others" \notin environment
              /\ pc # "idle" /\ pc' = "idle" /\ outcome' = "synced"
              /\ requests' = <<>> /\ answers' = <<>>
              /\ pc = "process" => current = stored
              => /\ Merging(stored, Processing(wanted)) = stored
                 /\ Missing(wanted, stored) \subseteq
                      {<<x>> : x \in Keys(stored) \ Keys(wanted)} ]_vars
<1> DEFINE Inv == TypeInv /\ LastInv
<1>1. Init => Inv
  BY TypeInit DEF Init, LastInv
<1>2. Inv /\ [Next]_vars => Inv'
  BY TypeStep, LastStep
<1>3. ASSUME Inv, [Next]_vars, kind # "capability", "others" \notin environment,
             pc # "idle", pc' = "idle", outcome' = "synced", answers' = <<>>,
             pc = "process" => current = stored
      PROVE  /\ Merging(stored, Processing(wanted)) = stored
             /\ Missing(wanted, stored) \subseteq {<<x>> : x \in Keys(stored) \ Keys(wanted)}
  <2>1. Processing(wanted) # Error /\ Differences(Processing(wanted), stored) = {}
    BY <1>3, ReportsNoDifference DEF LastInv
  <2>2. kind \in Kinds /\ stored \in Configs[kind] /\ wanted \in Specs[kind]
    BY <1>3 DEF TypeInv, TypeOK
  <2> QED
    BY <2>1, <2>2, SettingLaw
<1> HIDE DEF Inv
<1>4. Inv /\ [Next]_vars =>
        [ /\ kind # "capability" /\ "others" \notin environment
          /\ pc # "idle" /\ pc' = "idle" /\ outcome' = "synced"
          /\ requests' = <<>> /\ answers' = <<>>
          /\ pc = "process" => current = stored
          => /\ Merging(stored, Processing(wanted)) = stored
             /\ Missing(wanted, stored) \subseteq
                  {<<x>> : x \in Keys(stored) \ Keys(wanted)} ]_vars
  BY <1>3
<1> QED
  BY <1>1, <1>2, <1>4, PTL DEF Spec

--------------------------------------------------------------------------------
(* Names *)

NameInv == \E c \in Stored[kind] : Item(stored, "friendly_name") = Item(c, "friendly_name")

(* No request changes the name, whenever it is handled.                      *)
LEMMA ApplyKeepsName ==
  ASSUME TypeInv, NamesApart, NameInv, NEW r \in RequestType
  PROVE  Item(Apply(r), "friendly_name") = Item(stored, "friendly_name")
<1>0. kind \in Kinds /\ stored \in Configs[kind]
  BY DEF TypeInv, TypeOK
<1> DEFINE new == Apply(r)
<1>1. ~IsNested(Item(stored, "friendly_name"))
  BY <1>0 DEF NamesApart, NameInv
<1>2. CASE r.op = "get"
  BY <1>2 DEF Apply
<1>3. CASE r.op = "unset"
  <2>1. PICK s \in Specs[kind], c \in Configs[kind] : r.arg = ClearablePaths(kind, s, c)
    BY <1>3, RequestCases
  <2>2. <<"friendly_name">> \notin ClearablePaths(kind, s, c)
    BY DEF ClearablePaths, IsClearable
  <2>3. new = Copying(stored, ClearablePaths(kind, s, c))
    BY <1>3, <2>1 DEF Apply
  <2> HIDE DEF new
  <2>4. "friendly_name" \in Keys(new) <=> "friendly_name" \in Keys(stored)
    BY <1>0, <2>2, <2>3, ClearingLaw
  <2>5. "friendly_name" \in Keys(stored) =>
          new.fields["friendly_name"] = stored.fields["friendly_name"]
    <3> SUFFICES ASSUME "friendly_name" \in Keys(stored)
                 PROVE  new.fields["friendly_name"] = stored.fields["friendly_name"]
      OBVIOUS
    <3>1. ~IsNested(stored.fields["friendly_name"])
      BY <1>1 DEF Item
    <3>2. \A x \in Keys(Copying(stored, ClearablePaths(kind, s, c))) :
            ~IsNested(stored.fields[x]) =>
              Copying(stored, ClearablePaths(kind, s, c)).fields[x] = stored.fields[x]
      BY <1>0, ClearingLaw
    <3>3. \A x \in Keys(new) : ~IsNested(stored.fields[x]) => new.fields[x] = stored.fields[x]
      BY <2>3, <3>2
    <3> QED
      BY <2>4, <3>1, <3>3
  <2>6. Item(new, "friendly_name") = Item(stored, "friendly_name")
    BY <2>4, <2>5 DEF Item
  <2> QED
    BY <2>6 DEF new
<1>4. CASE r.op = "set"
  <2>1. PICK s \in Specs[kind] : Processing(s) # Error /\ r.arg = Processing(s)
    BY <1>4, RequestCases
  <2>2. "friendly_name" \notin Keys(Processing(s))
    BY <1>0, <2>1, SettingLaw DEF NamesApart
  <2>3. new = Merging(stored, Processing(s))
    BY <1>4, <2>1 DEF Apply
  <2> HIDE DEF new
  <2>4. /\ "friendly_name" \in Keys(new) <=> "friendly_name" \in Keys(stored)
        /\ "friendly_name" \in Keys(stored) =>
             new.fields["friendly_name"] = stored.fields["friendly_name"]
    BY <1>0, <2>1, <2>2, <2>3, SettingLaw
  <2>5. Item(new, "friendly_name") = Item(stored, "friendly_name")
    BY <2>4 DEF Item
  <2> QED
    BY <2>5 DEF new
<1> QED
  BY <1>2, <1>3, <1>4, RequestCases

LEMMA NameStep ==
  ASSUME NamesApart, TypeInv, NameInv, [Next]_vars
  PROVE  NameInv' /\ Item(stored', "friendly_name") = Item(stored, "friendly_name")
<1>1. kind' = kind /\ kind \in Kinds
  BY FixedStep DEF fixed, TypeInv, TypeOK
<1>2. CASE Handle
  <2>1. stored' = Apply(Head(requests)) /\ Head(requests) \in RequestType
    BY <1>2, TailAll DEF Handle, Store, TypeInv
  <2>2. Item(stored', "friendly_name") = Item(stored, "friendly_name")
    BY <2>1, ApplyKeepsName
  <2> QED
    BY <1>1, <2>2 DEF NameInv
<1>3. CASE Others
  BY <1>1, <1>3 DEF Others, Store, NameInv, NamesApart
<1>4. CASE UNCHANGED stored
  BY <1>1, <1>4 DEF NameInv
<1> QED
  BY <1>2, <1>3, <1>4
  DEF Next, Sync, Surroundings, vars, store, Begin, Unread, Compare, Answer, Hear, Settle, Resend,
      Timeout, Refuse, Lose, Deliver, Report, Edit, CalmDown

(* No sync changes the name of a device or group, which clearing the options *)
(* that a resource does not list would take too (is_clearable of             *)
(* mqtt/handlers/{device,group}.rs): as long as no resource lists it.        *)
THEOREM IdentityKept == NamesApart /\ Spec => IdentityIsKept
<1> SUFFICES ASSUME NamesApart
             PROVE  Spec => IdentityIsKept
  OBVIOUS
<1>1. Init => TypeInv /\ NameInv
  BY TypeInit DEF Init, NameInv
<1>2. TypeInv /\ NameInv /\ [Next]_vars => TypeInv' /\ NameInv'
  BY TypeStep, NameStep
<1>3. TypeInv /\ NameInv /\ [Next]_vars =>
        [Item(stored', "friendly_name") = Item(stored, "friendly_name")]_vars
  BY NameStep
<1> QED
  BY <1>1, <1>2, <1>3, PTL DEF Spec, IdentityIsKept

--------------------------------------------------------------------------------
(* What stays as it is *)

(* A configuration that differs in nothing from what the resource asks for,  *)
(* with nothing left to clear, while nothing is under way and the            *)
(* surroundings have come to rest.                                           *)
AtRest ==
  /\ calm /\ kind # "capability"
  /\ requests = <<>> /\ answers = <<>> /\ heard = Silence
  /\ tracked = stored /\ wanted = spec
  /\ pc \in {"idle", "process"}
  /\ pc = "process" => current = stored
  /\ outcome = "synced"
  /\ Processing(spec) # Error
  /\ Differences(Processing(spec), stored) = {}
  /\ Clean

LEMMA AtRestSettled == TypeInv /\ AtRest => Settled
BY NothingDiffers DEF AtRest, Settled, InEffect

LEMMA AtRestStep ==
  ASSUME TypeInv, AtRest, [Next]_vars
  PROVE  AtRest'
<1> USE DEF fixed, store, flight, sync
<1>0. /\ kind \in Kinds /\ stored \in Configs[kind] /\ spec \in Specs[kind]
      /\ kind' = kind /\ \A what : ~May(what)
  BY FixedStep DEF TypeInv, TypeOK, AtRest, May
<1>1. UNCHANGED <<kind, wanted, stored>> => Clean'
  BY DEF AtRest, Clean, IsClearable
<1>2. CASE Begin
  <2>1. ClearablePaths(kind, spec, tracked) = {}
    <3> SUFFICES ASSUME NEW p \in Missing(spec, stored), IsClearable(kind, p)
                 PROVE  FALSE
      BY DEF AtRest, ClearablePaths
    <3>1. Missing(spec, stored) \subseteq {<<x>> : x \in Keys(stored) \ Keys(spec)}
      BY <1>0, SettingLaw DEF AtRest
    <3>2. PICK x \in Keys(stored) \ Keys(spec) : p = <<x>>
      BY <3>1
    <3> QED
      BY <3>2 DEF AtRest, Clean
  <2>2. /\ pc' = "process" /\ current' = tracked /\ wanted' = spec
        /\ UNCHANGED <<requests, heard, resent, fixed, spec, store, answers, outcome, calm>>
    BY <1>2, <2>1 DEF Begin, AtRest
  <2> QED
    BY <1>1, <2>2 DEF AtRest
<1>3. CASE Compare
  <2>1. /\ pc' = "idle" /\ heard' = Silence /\ outcome' = "synced" /\ UNCHANGED requests
        /\ UNCHANGED <<fixed, spec, store, answers, wanted, current, calm>>
    BY <1>3 DEF Compare, Finish, AtRest
  <2> QED
    BY <1>1, <2>1 DEF AtRest
<1>4. CASE Unread \/ Answer \/ Hear \/ Settle \/ Resend \/ Timeout
  BY <1>0, <1>4 DEF Unread, Answer, Hear, Settle, Resend, Timeout, AtRest, Waiting
<1>5. CASE Handle \/ Deliver \/ Surroundings \/ CalmDown
  BY <1>0, <1>5 DEF Handle, Deliver, Surroundings, Refuse, Lose, Others, Report, Edit, CalmDown,
                    AtRest
<1>6. CASE UNCHANGED vars
  BY <1>1, <1>6 DEF vars, AtRest
<1> QED
  BY <1>2, <1>3, <1>4, <1>5, <1>6 DEF Next, Sync

(* Once all is calm, a sync that reports that the resource is synced brings  *)
(* it to rest: there is nothing that a later one would find to do.           *)
THEOREM SyncBringsToRest ==
  Spec => [][ /\ calm /\ kind # "capability" /\ Orderly
              /\ pc # "idle" /\ pc' = "idle" /\ outcome' = "synced"
              /\ requests' = <<>> /\ answers' = <<>>
              /\ tracked = stored /\ wanted = spec
              /\ pc = "process" => current = stored
              => AtRest' ]_vars
<1> DEFINE Inv == TypeInv /\ SyncInv
<1>1. Init => Inv
  BY TypeInit, SyncInit
<1>2. Inv /\ [Next]_vars => Inv'
  BY TypeStep, SyncStep
<1>3. ASSUME Inv, [Next]_vars, calm, kind # "capability", Orderly,
             pc # "idle", pc' = "idle", outcome' = "synced", requests' = <<>>, answers' = <<>>,
             tracked = stored, wanted = spec, pc = "process" => current = stored
      PROVE  AtRest'
  <2>1. /\ Processing(wanted) # Error /\ Differences(Processing(wanted), stored) = {}
        /\ Clean
        /\ UNCHANGED <<fixed, spec, store, requests, wanted, calm>>
    BY <1>3, EndsWell
  <2>2. heard' = Silence
    <3>1. SyncInv' /\ kind' # "capability" /\ Orderly'
      BY <1>3, SyncStep, FixedStep DEF Orderly, fixed
    <3> QED
      BY <3>1 DEF SyncInv, Lined
  <2>3. Clean'
    BY <2>1 DEF Clean, IsClearable, fixed, store
  <2> QED
    BY <1>3, <2>1, <2>2, <2>3 DEF AtRest, fixed, store
<1> HIDE DEF Inv
<1>4. Inv /\ [Next]_vars =>
        [ /\ calm /\ kind # "capability" /\ Orderly
          /\ pc # "idle" /\ pc' = "idle" /\ outcome' = "synced"
          /\ requests' = <<>> /\ answers' = <<>>
          /\ tracked = stored /\ wanted = spec
          /\ pc = "process" => current = stored
          => AtRest' ]_vars
  BY <1>3
<1> QED
  BY <1>1, <1>2, <1>4, PTL DEF Spec

(* Half of Converges: a resource that is in effect, and is left alone, stays *)
(* so: the syncs that follow end well and send nothing (sync in              *)
(* mqtt/handlers/lib.rs).                                                    *)
THEOREM SettledStays == Spec => [](AtRest => []Settled)
<1>1. TypeInv /\ AtRest /\ [Next]_vars => AtRest'
  BY AtRestStep
<1> QED
  BY <1>1, TypeInit, TypeStep, AtRestSettled, PTL DEF Spec

================================================================================
