-------------------------- MODULE SubClientsProofs --------------------------
(* Theorems about SubClients, for every number of tasks, methods and calls  *)
(* and every policy. What is known of Resilience's own steps is taken from  *)
(* ResilienceProofs.                                                        *)
EXTENDS SubClients, ResilienceProofs

USE DEF breaker, call, vars, latest, sub_vars

\* The requests a call has sent that are not lost, by the number of the call.
Sent == wire \cup executed
SentFor(c) == {r \in Sent : r.call = c}

-----------------------------------------------------------------------------
(* The invariant. Its parts say, in turn: a task inside execute has a call; *)
(* calls and ids are numbered as they come, and no two tasks share one; a   *)
(* request's id leads to its call; a refused call has sent nothing; all     *)
(* tries of a command carry one id; a call has not sent more requests than  *)
(* it has started tries; and a success was executed.                        *)

CallInv ==
  \A t \in Tasks :
    /\ serial[t] <= calls
    /\ pc[t] # "idle" => serial[t] >= 1 /\ method[t] \in Methods
    /\ tid[t] <= ids
    /\ service = "commands" => build[t] = "first"

DistinctInv ==
  \A t, u \in Tasks :
    t # u => /\ serial[t] # 0 => serial[t] # serial[u]
             /\ tid[t] # 0 => tid[t] # tid[u]

NumberInv == \A r \in Sent : r.call <= calls /\ r.id <= ids

IdInv == \A t \in Tasks, r \in Sent : r.id = tid[t] => r.call = serial[t]

RefusedInv ==
  \A t \in Tasks :
    tid[t] = 0 \/ (pc[t] = "idle" /\ result[t] \in {"rejected", "assertion"}) =>
      SentFor(serial[t]) = {}

OneIdInv ==
  service = "commands" =>
    /\ \A t \in Tasks, r \in Sent : r.call = serial[t] => r.id = tid[t]
    /\ \A r, s \in Sent : r.call = s.call => r = s

\* The requests a call may have sent: one per try it has started.
Allowance(t) == CASE pc[t] = "op"    -> attempt[t] + 1
                  [] pc[t] = "sleep" -> attempt[t]
                  [] OTHER           -> MaxRetryAttempts + 1

AtMost(S, n) == S # {} => Cardinality(S) <= n

CountInv ==
  /\ IsFiniteSet(Sent)
  /\ \A c \in Nat : AtMost(SentFor(c), MaxRetryAttempts + 1)
  /\ \A t \in Tasks : AtMost(SentFor(serial[t]), Allowance(t))

OwnInv ==
  \A t \in Tasks : result[t] = "success" => ExecutedFor(serial[t]) # {}

SubInv ==
  CallInv /\ DistinctInv /\ NumberInv /\ IdInv /\ RefusedInv /\ OneIdInv
  /\ CountInv /\ OwnInv

-----------------------------------------------------------------------------
(* The steps, as far as the invariant can tell them apart.                  *)

Others(t) ==
  \A u \in Tasks \ {t} :
    /\ pc'[u] = pc[u] /\ attempt'[u] = attempt[u] /\ result'[u] = result[u]
    /\ serial'[u] = serial[u] /\ method'[u] = method[u] /\ build'[u] = build[u]
    /\ tid'[u] = tid[u]

\* The request of t's latest call, as a step leaves it.
NewRequest(t) == [call |-> serial'[t], id |-> tid'[t]]

SendsAtMost(t) ==
  wire' = wire \/ (wire' = wire \cup {NewRequest(t)} /\ tid'[t] # 0 /\ pc'[t] = "op")

\* A call begins, and sends a request or is refused.
Begins(t) ==
  /\ pc[t] = "idle" /\ Others(t)
  /\ calls < MaxCalls /\ calls' = calls + 1 /\ serial'[t] = calls + 1
  /\ method'[t] \in Methods
  /\ service = "commands" => build'[t] = "first"
  /\ UNCHANGED <<service, executed>>
  /\ (tid'[t] = 0 /\ ids' = ids) \/ (tid'[t] = ids + 1 /\ ids' = ids + 1)
  /\ SendsAtMost(t)
  /\ \/ pc'[t] = "op" /\ attempt'[t] = 0 /\ result'[t] = "none"
     \/ pc'[t] = "idle" /\ result'[t] # "success"

\* A call tries again.
Repeats(t) ==
  /\ pc[t] = "sleep" /\ pc'[t] = "op" /\ Others(t)
  /\ UNCHANGED <<attempt, result, service, latest, calls, executed>>
  /\ \/ UNCHANGED <<tid, ids>>
     \/ build[t] = "each" /\ tid'[t] = ids + 1 /\ ids' = ids + 1
  /\ SendsAtMost(t)

\* A try ends, with or without the call.
Finishes(t) ==
  /\ pc[t] # "idle" /\ Others(t)
  /\ UNCHANGED <<service, latest, tid, calls, ids, wire, executed>>
  /\ \/ /\ pc'[t] = "idle" /\ attempt'[t] = attempt[t]
        /\ result'[t] \notin {"rejected", "assertion"}
        /\ result'[t] = "success" => \E r \in executed : r.id = tid[t]
     \/ /\ pc[t] = "op" /\ pc'[t] = "sleep" /\ attempt'[t] = attempt[t] + 1
        /\ result'[t] = result[t]

\* The network, the server or the clock.
Rests ==
  /\ UNCHANGED <<pc, attempt, result, service, latest, tid, calls, ids>>
  /\ Sent' \subseteq Sent /\ executed \subseteq executed'

LEMMA CallBegins ==
  ASSUME SubTypeOK, NEW t \in Tasks, NEW m \in Methods, Call(t, m)
  PROVE  Begins(t)
<1> USE DEF SubTypeOK, TypeOK
<1>1. /\ pc[t] = "idle"
      /\ \A u \in Tasks \ {t} :
           pc'[u] = pc[u] /\ attempt'[u] = attempt[u] /\ result'[u] = result[u]
      /\ \/ pc'[t] = "op" /\ attempt'[t] = 0 /\ result'[t] = "none"
         \/ pc'[t] = "idle" /\ result'[t] # "success"
  BY DEF Call, Execute, Admit, Reject, NewLocals, Return
<1>2. /\ calls < MaxCalls /\ calls' = calls + 1
      /\ serial' = [serial EXCEPT ![t] = calls + 1]
      /\ method' = [method EXCEPT ![t] = m]
      /\ UNCHANGED <<service, executed>>
  BY DEF Call, NewCall
<1>3. PICK b \in Build[service] :
        /\ build' = [build EXCEPT ![t] = b]
        /\ IF BuildsRequest(t, b) THEN NewId(t) ELSE NoId(t)
  BY DEF Call
<1>4. service = "commands" => build'[t] = "first"
  BY <1>3 DEF Build
<1>5. /\ \A u \in Tasks \ {t} : tid'[u] = tid[u]
      /\ (tid'[t] = 0 /\ ids' = ids) \/ (tid'[t] = ids + 1 /\ ids' = ids + 1)
  BY <1>3 DEF NewId, NoId
<1>6. SendsAtMost(t)
  BY DEF Call, Send, SendsAtMost, NewRequest
<1>7. Others(t)
  BY <1>1, <1>2, <1>3, <1>5 DEF Others
<1>8. QED
  BY <1>1, <1>2, <1>4, <1>5, <1>6, <1>7 DEF Begins

LEMMA InvalidBegins ==
  ASSUME SubTypeOK, NEW t \in Tasks, NEW m \in Methods, Invalid(t, m), CallInv
  PROVE  Begins(t)
<1> USE DEF SubTypeOK, TypeOK
<1>1. Others(t)
  BY DEF Invalid, NewCall, NoId, Return, Others
<1>2. QED
  BY <1>1 DEF Invalid, NewCall, NoId, Return, Begins, SendsAtMost, CallInv

LEMMA RetryRepeats ==
  ASSUME SubTypeOK, NEW t \in Tasks, Retry(t)
  PROVE  Repeats(t)
<1> USE DEF SubTypeOK, TypeOK
<1>1. /\ pc[t] = "sleep" /\ pc' = [pc EXCEPT ![t] = "op"]
      /\ UNCHANGED <<attempt, result, service, latest, calls, executed>>
  BY DEF Retry, Wake
<1>2. /\ \A u \in Tasks \ {t} : tid'[u] = tid[u]
      /\ \/ UNCHANGED <<tid, ids>>
         \/ build[t] = "each" /\ tid'[t] = ids + 1 /\ ids' = ids + 1
  BY DEF Retry, RetryId, NewId
<1>3. SendsAtMost(t)
  BY DEF Retry, Send, SendsAtMost, NewRequest
<1>4. Others(t)
  BY <1>1, <1>2 DEF Others
<1>5. QED
  BY <1>1, <1>2, <1>3, <1>4 DEF Repeats

LEMMA EndsFinishes ==
  ASSUME SubTypeOK, NEW t \in Tasks, Ends(t)
  PROVE  Finishes(t)
<1> USE DEF SubTypeOK, TypeOK
<1>1. UNCHANGED <<service, latest, tid, calls, ids, wire, executed>>
  BY DEF Ends
<1>2. CASE Answered(t)
  BY <1>1, <1>2 DEF Answered, OpSucceeds, Return, Others, Finishes
<1>3. ASSUME NEW e \in OpErrors, RetryLater(t, e) PROVE Finishes(t)
  BY <1>1, <1>3 DEF RetryLater, Others, Finishes
<1>4. ASSUME NEW e \in OpErrors, GiveUp(t, e) PROVE Finishes(t)
  <2>1. Surfaced(t, e) \notin {"rejected", "assertion", "success"}
    BY ResilienceAssumption DEF Surfaced, ErrorKind
  <2>2. QED
    BY <1>1, <1>4, <2>1 DEF GiveUp, Return, Others, Finishes
<1>5. CASE CancelSleep(t)
  BY <1>1, <1>5 DEF CancelSleep, Return, Others, Finishes
<1>6. QED
  BY <1>2, <1>3, <1>4, <1>5 DEF Ends, Failed

LEMMA RestRests ==
  ASSUME Time \/ (\E r \in wire : Perform(r) \/ Lose(r)) \/ UNCHANGED sub_vars
  PROVE  Rests
  BY DEF Time, Tick, Perform, Lose, Rests, Sent

\* Every step is one of these.
LEMMA SubSteps ==
  ASSUME SubTypeOK, CallInv, [SubNext]_sub_vars
  PROVE  \/ \E t \in Tasks : Begins(t) \/ Repeats(t) \/ Finishes(t)
         \/ Rests
  BY CallBegins, InvalidBegins, RetryRepeats, EndsFinishes, RestRests DEF SubNext

\* And every step but Invalid is one of the helper's.
LEMMA HelperSteps ==
  ASSUME [SubNext]_sub_vars
  PROVE  [Next]_vars \/ \E t \in Tasks, m \in Methods : Invalid(t, m)
<1>1. ASSUME NEW t \in Tasks, NEW m \in Methods, Call(t, m) PROVE Next
  BY <1>1 DEF Call, Next
<1>2. ASSUME NEW t \in Tasks, Retry(t) PROVE Next
  BY <1>2 DEF Retry, Next
<1>3. ASSUME NEW t \in Tasks, Ends(t) PROVE Next
  BY <1>3 DEF Ends, Answered, Failed, Next, OpReturns, OpFails
<1>4. CASE Time
  BY <1>4 DEF Time, Next
<1>5. CASE (\E r \in wire : Perform(r) \/ Lose(r)) \/ UNCHANGED sub_vars
  BY <1>5 DEF Perform, Lose
<1>6. QED
  BY <1>1, <1>2, <1>3, <1>4, <1>5 DEF SubNext

-----------------------------------------------------------------------------
(* Type correctness, and what ResilienceProofs knows of a call's outcome,   *)
(* which a call that fails validation does not disturb.                     *)

LEMMA HelperTypeStep == SubTypeOK /\ [SubNext]_sub_vars => TypeOK'
<1> SUFFICES ASSUME SubTypeOK, [SubNext]_sub_vars PROVE TypeOK'
  OBVIOUS
<1>1. ASSUME NEW t \in Tasks, NEW m \in Methods, Invalid(t, m) PROVE TypeOK'
  BY <1>1 DEF Invalid, Return, SubTypeOK, TypeOK, Outcome, ErrorKind
<1>2. QED
  BY <1>1, HelperSteps, TypeStep DEF SubTypeOK

LEMMA HelperOutcomeStep ==
  SubTypeOK /\ OutcomeInv /\ [SubNext]_sub_vars => OutcomeInv'
<1> SUFFICES ASSUME SubTypeOK, OutcomeInv, [SubNext]_sub_vars PROVE OutcomeInv'
  OBVIOUS
<1>1. ASSUME NEW t \in Tasks, NEW m \in Methods, Invalid(t, m) PROVE OutcomeInv'
  <2> SUFFICES ASSUME NEW u \in Tasks PROVE Explained(u)'
    BY DEF OutcomeInv
  <2>1. /\ pc' = [pc EXCEPT ![t] = "idle"] /\ pc[t] = "idle"
        /\ result' = [result EXCEPT ![t] = "value_error"]
        /\ UNCHANGED <<attempt, retried>>
    BY <1>1 DEF Invalid, Return
  <2>2. QED
    BY <2>1 DEF OutcomeInv, Explained, IsRetryable, SubTypeOK, TypeOK
<1>2. QED
  BY <1>1, HelperSteps, OutcomeStep DEF SubTypeOK

LEMMA BlameType ==
  ASSUME SubTypeOK, NEW t \in Tasks, Blame(t),
         failure_count' > failure_count => method[t] \in Methods
  PROVE  blamed' \subseteq Methods
  BY DEF SubTypeOK, Blame

LEMMA SubTypeStep == SubTypeOK /\ CallInv /\ [SubNext]_sub_vars => SubTypeOK'
<1> SUFFICES ASSUME SubTypeOK, CallInv, [SubNext]_sub_vars PROVE SubTypeOK'
  OBVIOUS
<1>0. TypeOK'
  BY HelperTypeStep
<1> USE SubClientsAssumption DEF SubTypeOK
<1>1. ASSUME NEW t \in Tasks, NEW m \in Methods, Invalid(t, m) PROVE SubTypeOK'
  BY <1>0, <1>1 DEF Invalid, NewCall, NoId
<1>2. ASSUME NEW t \in Tasks, NEW m \in Methods, Call(t, m) PROVE SubTypeOK'
  <2>1. /\ service' \in DOMAIN Build
        /\ method' \in [Tasks -> Methods \cup {"none"}]
        /\ serial' \in [Tasks -> 0..MaxCalls]
        /\ calls' \in 0..MaxCalls /\ executed' \subseteq Request
        /\ serial'[t] \in 1..MaxCalls
    BY <1>2 DEF Call, NewCall
  <2>2. /\ build' \in [Tasks -> UNION {Build[s] : s \in DOMAIN Build}]
        /\ tid' \in [Tasks -> Nat] /\ ids' \in Nat
    BY <1>2 DEF Call, NewId, NoId
  <2>3. wire' \subseteq Request
    BY <1>2, <2>1, <2>2 DEF Call, Send, Request
  <2>4. blamed' \subseteq Methods
    <3>1. ~(failure_count' > failure_count)
      BY <1>2 DEF Call, Execute, Admit, Reject, CheckCircuit, ResetByProbe, CheckRaises,
                  TypeOK
    <3>2. QED
      BY <1>2, <3>1, BlameType DEF Call
  <2>5. QED
    BY <1>0, <2>1, <2>2, <2>3, <2>4
<1>3. ASSUME NEW t \in Tasks, Retry(t) PROVE SubTypeOK'
  <2>1. serial[t] \in 1..MaxCalls /\ method[t] \in Methods
    BY <1>3 DEF Retry, Wake, CallInv
  <2>2. /\ UNCHANGED <<service, method, serial, build, calls, executed>>
        /\ tid' \in [Tasks -> Nat] /\ ids' \in Nat
    BY <1>3 DEF Retry, RetryId, NewId
  <2>3. wire' \subseteq Request
    BY <1>3, <2>1, <2>2 DEF Retry, Send, Request
  <2>4. blamed' \subseteq Methods
    BY <1>3, <2>1, BlameType DEF Retry
  <2>5. QED
    BY <1>0, <2>2, <2>3, <2>4
<1>4. ASSUME NEW t \in Tasks, Ends(t) PROVE SubTypeOK'
  <2>1. method[t] \in Methods
    BY <1>4, EndsFinishes DEF Finishes, CallInv
  <2>2. blamed' \subseteq Methods
    BY <1>4, <2>1, BlameType DEF Ends
  <2>3. QED
    BY <1>0, <1>4, <2>2 DEF Ends
<1>5. CASE Time \/ (\E r \in wire : Perform(r) \/ Lose(r)) \/ UNCHANGED sub_vars
  BY <1>0, <1>5 DEF Time, Perform, Lose
<1>6. QED
  BY <1>1, <1>2, <1>3, <1>4, <1>5 DEF SubNext

LEMMA SubTypeInit == SubInit => SubTypeOK
<1> SUFFICES ASSUME SubInit PROVE SubTypeOK
  OBVIOUS
<1>1. TypeOK
  BY TypeInit DEF SubInit
<1>2. "first" \in UNION {Build[s] : s \in DOMAIN Build}
  BY DEF Build
<1>3. QED
  BY <1>1, <1>2, SubClientsAssumption DEF SubInit, SubTypeOK

-----------------------------------------------------------------------------
(* The invariant, part by part.                                             *)

LEMMA SentSteps ==
  ASSUME NEW t, Begins(t) \/ Repeats(t) \/ Finishes(t)
  PROVE  \/ Sent' = Sent
         \/ /\ Sent' = Sent \cup {NewRequest(t)}
            /\ tid'[t] # 0 /\ pc'[t] = "op"
            /\ Begins(t) \/ Repeats(t)
  BY DEF Begins, Repeats, Finishes, SendsAtMost, Sent

LEMMA SentType ==
  ASSUME SubTypeOK
  PROVE  \A r \in Sent : /\ r.call \in 1..MaxCalls /\ r.id \in Nat \ {0}
                         /\ r = [call |-> r.call, id |-> r.id]
  BY DEF SubTypeOK, Sent, Request

LEMMA CallStep == SubTypeOK /\ CallInv /\ [SubNext]_sub_vars => CallInv'
<1> SUFFICES ASSUME SubTypeOK, CallInv, [SubNext]_sub_vars PROVE CallInv'
  OBVIOUS
<1> USE DEF CallInv, SubTypeOK
<1>1. ASSUME NEW t \in Tasks, Begins(t) PROVE CallInv'
  BY <1>1 DEF Begins, Others
<1>2. ASSUME NEW t \in Tasks, Repeats(t) PROVE CallInv'
  BY <1>2 DEF Repeats, Others
<1>3. ASSUME NEW t \in Tasks, Finishes(t) PROVE CallInv'
  BY <1>3 DEF Finishes, Others
<1>4. CASE Rests
  BY <1>4 DEF Rests
<1>5. QED
  BY <1>1, <1>2, <1>3, <1>4, SubSteps

LEMMA DistinctStep ==
  SubTypeOK /\ CallInv /\ DistinctInv /\ [SubNext]_sub_vars => DistinctInv'
<1> SUFFICES ASSUME SubTypeOK, CallInv, DistinctInv, [SubNext]_sub_vars
             PROVE  DistinctInv'
  OBVIOUS
<1>0. /\ calls \in Nat /\ ids \in Nat
      /\ \A t \in Tasks : /\ serial[t] \in Nat /\ serial[t] <= calls
                          /\ tid[t] \in Nat /\ tid[t] <= ids
  BY SubClientsAssumption DEF CallInv, SubTypeOK
<1>1. ASSUME NEW t \in Tasks, Begins(t) PROVE DistinctInv'
  BY <1>0, <1>1 DEF Begins, Others, DistinctInv
<1>2. ASSUME NEW t \in Tasks, Repeats(t) PROVE DistinctInv'
  BY <1>0, <1>2 DEF Repeats, Others, DistinctInv
<1>3. ASSUME NEW t \in Tasks, Finishes(t) PROVE DistinctInv'
  BY <1>3 DEF Finishes, DistinctInv
<1>4. CASE Rests
  BY <1>4 DEF Rests, DistinctInv
<1>5. QED
  BY <1>1, <1>2, <1>3, <1>4, SubSteps

\* Numbers of requests sent; the new one bears the number of its call.
LEMMA NumberStep ==
  SubTypeOK /\ CallInv /\ CallInv' /\ NumberInv /\ [SubNext]_sub_vars => NumberInv'
<1> SUFFICES ASSUME SubTypeOK, CallInv, CallInv', NumberInv, [SubNext]_sub_vars
             PROVE  NumberInv'
  OBVIOUS
<1>0. /\ calls \in Nat /\ ids \in Nat
      /\ \A r \in Sent : r.call \in Nat /\ r.id \in Nat
  BY SentType DEF SubTypeOK
<1>1. ASSUME NEW t \in Tasks, Begins(t) \/ Repeats(t) \/ Finishes(t)
      PROVE  NumberInv'
  <2>1. calls' \in Nat /\ calls <= calls' /\ ids' \in Nat /\ ids <= ids'
    BY <1>0, <1>1 DEF Begins, Repeats, Finishes
  <2>2. NewRequest(t).call <= calls' /\ NewRequest(t).id <= ids'
    BY DEF CallInv, NewRequest
  <2>3. ASSUME NEW r \in Sent PROVE r.call <= calls' /\ r.id <= ids'
    BY <1>0, <2>1 DEF NumberInv
  <2>4. QED
    BY <1>1, <2>2, <2>3, SentSteps DEF NumberInv
<1>2. CASE Rests
  BY <1>2 DEF Rests, NumberInv
<1>3. QED
  BY <1>1, <1>2, SubSteps

LEMMA IdStep ==
  SubTypeOK /\ SubTypeOK' /\ CallInv /\ DistinctInv' /\ NumberInv /\ IdInv
    /\ [SubNext]_sub_vars => IdInv'
<1> SUFFICES ASSUME SubTypeOK, SubTypeOK', CallInv, DistinctInv', NumberInv, IdInv,
                    [SubNext]_sub_vars
             PROVE  IdInv'
  OBVIOUS
<1>0. /\ ids \in Nat
      /\ \A r \in Sent : r.id \in Nat /\ r.id # 0 /\ r.id <= ids
  BY SentType DEF NumberInv, SubTypeOK
<1>1. ASSUME NEW t \in Tasks, Begins(t) \/ Repeats(t) \/ Finishes(t)
      PROVE  IdInv'
  <2> SUFFICES ASSUME NEW u \in Tasks, NEW r \in Sent', r.id = tid'[u]
               PROVE  r.call = serial'[u]
    BY DEF IdInv
  <2>1. CASE r \in Sent
    <3>1. CASE tid'[u] = tid[u] /\ serial'[u] = serial[u]
      BY <2>1, <3>1 DEF IdInv
    <3>2. CASE tid'[u] = 0 \/ tid'[u] = ids + 1
      BY <1>0, <2>1, <3>2
    <3>3. QED
      BY <1>1, <3>1, <3>2 DEF Begins, Repeats, Finishes, Others
  <2>2. CASE r = NewRequest(t) /\ tid'[t] # 0
    BY <2>2 DEF NewRequest, DistinctInv
  <2>3. QED
    BY <1>1, <2>1, <2>2, SentSteps
<1>2. CASE Rests
  BY <1>2 DEF Rests, IdInv
<1>3. QED
  BY <1>1, <1>2, SubSteps

\* A request that is sent belongs to its sender's call, and so to no other
\* task's; a call that begins has a number nothing was sent under.
LEMMA SentForOthers ==
  ASSUME SubTypeOK, CallInv, DistinctInv, NEW t \in Tasks, NEW u \in Tasks \ {t},
         Begins(t) \/ Repeats(t) \/ Finishes(t)
  PROVE  serial'[u] = serial[u] /\ SentFor(serial[u])' = SentFor(serial[u])
<1>1. serial'[u] = serial[u]
  BY DEF Begins, Repeats, Finishes, Others
<1>2. Begins(t) \/ Repeats(t) => NewRequest(t).call # serial[u]
  <2>1. Begins(t) => NewRequest(t).call > serial[u]
    BY SubClientsAssumption DEF Begins, NewRequest, CallInv, SubTypeOK
  <2>2. Repeats(t) => NewRequest(t).call = serial[t] /\ serial[t] # 0
    BY SubClientsAssumption DEF Repeats, NewRequest, CallInv, SubTypeOK
  <2>3. QED
    BY <2>1, <2>2, SubClientsAssumption DEF DistinctInv, SubTypeOK
<1>3. QED
  BY <1>1, <1>2, SentSteps DEF SentFor

LEMMA NothingSentYet ==
  ASSUME SubTypeOK, NumberInv
  PROVE  SentFor(calls + 1) = {}
  BY SentType DEF SentFor, NumberInv, SubTypeOK

LEMMA RefusedStep ==
  SubTypeOK /\ CallInv /\ DistinctInv /\ NumberInv /\ RefusedInv /\ [SubNext]_sub_vars
    => RefusedInv'
<1> SUFFICES ASSUME SubTypeOK, CallInv, DistinctInv, NumberInv, RefusedInv,
                    [SubNext]_sub_vars
             PROVE  RefusedInv'
  OBVIOUS
<1> DEFINE Refused(u) ==
      tid[u] = 0 \/ (pc[u] = "idle" /\ result[u] \in {"rejected", "assertion"})
<1>1. ASSUME NEW t \in Tasks, NEW u \in Tasks \ {t}, Refused(u)',
             Begins(t) \/ Repeats(t) \/ Finishes(t)
      PROVE  SentFor(serial[u])' = {}
  <2>1. Refused(u)
    BY <1>1 DEF Begins, Repeats, Finishes, Others
  <2>2. QED
    BY <1>1, <2>1, SentForOthers DEF RefusedInv, SentFor
<1>2. ASSUME NEW t \in Tasks, Begins(t), Refused(t)'
      PROVE  SentFor(serial[t])' = {}
  <2>1. Sent' = Sent /\ serial'[t] = calls + 1
    BY <1>2, SentSteps DEF Begins
  <2>2. QED
    BY <2>1, NothingSentYet DEF SentFor
<1>3. ASSUME NEW t \in Tasks, Repeats(t), Refused(t)'
      PROVE  SentFor(serial[t])' = {}
  <2>1. tid'[t] = 0 /\ Sent' = Sent /\ serial' = serial
    BY <1>3, SentSteps DEF Repeats
  <2>2. tid[t] = 0
    BY <1>3, <2>1 DEF Repeats, SubTypeOK
  <2>3. QED
    BY <2>1, <2>2 DEF RefusedInv, SentFor
<1>4. ASSUME NEW t \in Tasks, Finishes(t), Refused(t)'
      PROVE  SentFor(serial[t])' = {}
  <2>1. tid[t] = 0 /\ Sent' = Sent /\ serial' = serial
    BY <1>4 DEF Finishes, Sent
  <2>2. QED
    BY <2>1 DEF RefusedInv, SentFor
<1>5. CASE Rests
  BY <1>5 DEF Rests, RefusedInv, SentFor
<1>6. QED
  <2>1. ASSUME NEW t \in Tasks, Begins(t) \/ Repeats(t) \/ Finishes(t)
        PROVE  RefusedInv'
    BY <1>1, <1>2, <1>3, <1>4, <2>1 DEF RefusedInv
  <2>2. QED
    BY <1>5, <2>1, SubSteps

LEMMA OneIdStep ==
  SubTypeOK /\ CallInv /\ DistinctInv /\ NumberInv /\ OneIdInv /\ [SubNext]_sub_vars
    => OneIdInv'
<1> SUFFICES ASSUME SubTypeOK, CallInv, DistinctInv, NumberInv, OneIdInv,
                    [SubNext]_sub_vars, service' = "commands"
             PROVE  /\ \A t \in Tasks, r \in Sent' : r.call = serial'[t] => r.id = tid'[t]
                    /\ \A r, s \in Sent' : r.call = s.call => r = s
  BY DEF OneIdInv
<1>0. service = "commands"
  BY SubSteps DEF Begins, Repeats, Finishes, Rests
<1>1. ASSUME NEW t \in Tasks, Begins(t)
      PROVE  /\ \A u \in Tasks, r \in Sent' : r.call = serial'[u] => r.id = tid'[u]
             /\ \A r, s \in Sent' : r.call = s.call => r = s
  <2>1. \A r \in Sent : r.call # serial'[t]
    BY <1>1, NothingSentYet DEF Begins, SentFor
  <2>2. ASSUME NEW u \in Tasks \ {t}, NEW r \in Sent', r.call = serial'[u]
        PROVE  r.id = tid'[u]
    <3>1. r \in Sent /\ serial'[u] = serial[u]
      BY <1>1, <2>2, SentForOthers DEF SentFor
    <3>2. tid'[u] = tid[u]
      BY <1>1 DEF Begins, Others
    <3>3. QED
      BY <1>0, <2>2, <3>1, <3>2 DEF OneIdInv
  <2>3. \A r \in Sent' : r \in Sent \/ r = NewRequest(t)
    BY <1>1, SentSteps
  <2>4. QED
    BY <1>0, <2>1, <2>2, <2>3 DEF OneIdInv, NewRequest
<1>2. ASSUME NEW t \in Tasks, Repeats(t) \/ Finishes(t)
      PROVE  /\ \A u \in Tasks, r \in Sent' : r.call = serial'[u] => r.id = tid'[u]
             /\ \A r, s \in Sent' : r.call = s.call => r = s
  <2>1. UNCHANGED <<tid, serial>>
    BY <1>0, <1>2 DEF Repeats, Finishes, CallInv
  <2>2. Sent' = Sent \/ Sent' = Sent \cup {[call |-> serial[t], id |-> tid[t]]}
    BY <1>2, <2>1, SentSteps DEF NewRequest
  <2>3. serial[t] # 0
    BY <1>2 DEF Repeats, Finishes, CallInv
  <2>4. ASSUME NEW r \in Sent, r.call = serial[t]
        PROVE  r = [call |-> serial[t], id |-> tid[t]]
    BY <1>0, <2>4, SentType DEF OneIdInv
  <2>5. ASSUME NEW u \in Tasks, serial[u] = serial[t] PROVE u = t
    BY <2>3, <2>5 DEF DistinctInv
  <2>6. QED
    BY <1>0, <2>1, <2>2, <2>4, <2>5 DEF OneIdInv
<1>3. CASE Rests
  BY <1>0, <1>3 DEF Rests, OneIdInv
<1>4. QED
  BY <1>1, <1>2, <1>3, SubSteps

LEMMA OwnStep ==
  SubTypeOK /\ CallInv /\ IdInv /\ OwnInv /\ [SubNext]_sub_vars => OwnInv'
<1> SUFFICES ASSUME SubTypeOK, CallInv, IdInv, OwnInv, [SubNext]_sub_vars,
                    NEW u \in Tasks, result'[u] = "success"
             PROVE  \E r \in executed' : r.call = serial'[u]
  BY DEF OwnInv, ExecutedFor
<1>1. CASE result[u] = "success" /\ serial'[u] = serial[u] /\ executed \subseteq executed'
  BY <1>1 DEF OwnInv, ExecutedFor
<1>2. ASSUME NEW t \in Tasks, Begins(t)
      PROVE  \E r \in executed' : r.call = serial'[u]
  BY <1>1, <1>2 DEF Begins, Others
<1>3. ASSUME NEW t \in Tasks, Repeats(t)
      PROVE  \E r \in executed' : r.call = serial'[u]
  BY <1>1, <1>3 DEF Repeats
<1>4. ASSUME NEW t \in Tasks, Finishes(t)
      PROVE  \E r \in executed' : r.call = serial'[u]
  <2>1. CASE u = t /\ \E r \in executed : r.id = tid[t]
    BY <1>4, <2>1 DEF Finishes, IdInv, Sent
  <2>2. QED
    BY <1>1, <1>4, <2>1 DEF Finishes, Others
<1>5. CASE Rests
  BY <1>1, <1>5 DEF Rests
<1>6. QED
  BY <1>2, <1>3, <1>4, <1>5, SubSteps

-----------------------------------------------------------------------------
(* Counting the requests of a call.                                         *)

LEMMA AllowanceBound ==
  ASSUME TypeOK, OutcomeInv, NEW t \in Tasks
  PROVE  Allowance(t) \in Int /\ Allowance(t) <= MaxRetryAttempts + 1
<1>1. Explained(t) /\ attempt[t] \in Nat /\ pc[t] \in {"idle", "op", "sleep"}
      /\ MaxRetryAttempts \in Int
  BY ResilienceAssumption DEF TypeOK, OutcomeInv
<1>2. QED
  BY <1>1 DEF Explained, Allowance

LEMMA AtMostSubset ==
  ASSUME NEW S, IsFiniteSet(S), NEW T \in SUBSET S, NEW n \in Int, AtMost(S, n)
  PROVE  IsFiniteSet(T) /\ AtMost(T, n)
  BY FS_Subset, FS_CardinalityType DEF AtMost

LEMMA AtMostAdd ==
  ASSUME NEW S, IsFiniteSet(S), NEW x, NEW n \in Nat, AtMost(S, n)
  PROVE  IsFiniteSet(S \cup {x}) /\ AtMost(S \cup {x}, n + 1)
<1>1. /\ IsFiniteSet(S \cup {x}) /\ Cardinality(S) \in Nat
      /\ Cardinality(S \cup {x}) <= Cardinality(S) + 1
  BY FS_AddElement, FS_CardinalityType
<1>2. Cardinality(S) <= n
  BY FS_EmptySet DEF AtMost
<1>3. QED
  BY <1>1, <1>2, FS_CardinalityType DEF AtMost

LEMMA CountStep ==
  SubTypeOK /\ SubTypeOK' /\ CallInv /\ DistinctInv /\ NumberInv /\ CountInv
    /\ OutcomeInv /\ OutcomeInv' /\ [SubNext]_sub_vars => CountInv'
<1> SUFFICES ASSUME SubTypeOK, SubTypeOK', CallInv, DistinctInv, NumberInv, CountInv,
                    OutcomeInv, OutcomeInv', [SubNext]_sub_vars
             PROVE  CountInv'
  OBVIOUS
<1>0. \A c : SentFor(c) \subseteq Sent /\ IsFiniteSet(SentFor(c))
  BY FS_Subset DEF SentFor, CountInv
<1>1. ASSUME NEW t \in Tasks, Begins(t) \/ Repeats(t) \/ Finishes(t)
      PROVE  CountInv'
  <2>1. /\ attempt[t] \in Nat /\ attempt'[t] \in Nat
        /\ Allowance(t) \in Int /\ Allowance(t)' \in Int
        /\ Allowance(t)' <= MaxRetryAttempts + 1
        /\ MaxRetryAttempts \in Int
    <3>1. Allowance(t)' \in Int /\ Allowance(t)' <= MaxRetryAttempts + 1
      <4>1. Explained(t)' /\ attempt'[t] \in Nat /\ pc'[t] \in {"idle", "op", "sleep"}
            /\ MaxRetryAttempts \in Int
        BY ResilienceAssumption DEF SubTypeOK, TypeOK, OutcomeInv
      <4>2. QED
        BY <4>1 DEF Explained, Allowance
    <3>2. QED
      BY <3>1, AllowanceBound, ResilienceAssumption DEF SubTypeOK, TypeOK
  <2>2. Sent' = Sent \/ Sent' = Sent \cup {NewRequest(t)}
    BY <1>1, SentSteps
  <2>3. IsFiniteSet(Sent')
    BY <2>2, FS_AddElement DEF CountInv
  <2>4. ASSUME NEW u \in Tasks \ {t}
        PROVE  AtMost(SentFor(serial[u])', Allowance(u)')
    <3>1. SentFor(serial[u])' = SentFor(serial[u])
      BY <1>1, SentForOthers DEF SentFor
    <3>2. Allowance(u)' = Allowance(u)
      BY <1>1 DEF Begins, Repeats, Finishes, Others, Allowance
    <3>3. QED
      BY <3>1, <3>2 DEF CountInv
  <2>5. AtMost(SentFor(serial[t])', Allowance(t)')
    <3>1. CASE Begins(t)
      <4>1. SentFor(serial'[t]) = {}
        BY <3>1, NothingSentYet DEF Begins
      <4>2. CASE Sent' = Sent
        BY <4>1, <4>2 DEF SentFor, AtMost
      <4>3. CASE Sent' = Sent \cup {NewRequest(t)} /\ pc'[t] = "op"
        <5>1. SentFor(serial[t])' = {NewRequest(t)}
          BY <4>1, <4>3 DEF SentFor, NewRequest
        <5>2. Allowance(t)' = 1
          BY <3>1, <4>3, <2>1 DEF Begins, Allowance
        <5>3. QED
          BY <5>1, <5>2, FS_Singleton DEF AtMost
      <4>4. QED
        BY <1>1, <4>2, <4>3, SentSteps
    <3>2. CASE Repeats(t)
      <4>1. /\ serial' = serial /\ Allowance(t) = attempt[t]
            /\ Allowance(t)' = attempt[t] + 1
        BY <3>2 DEF Repeats, Allowance
      <4>2. AtMost(SentFor(serial[t]), attempt[t])
        BY <4>1 DEF CountInv
      <4>3. AtMost(SentFor(serial[t]) \cup {NewRequest(t)}, attempt[t] + 1)
            /\ IsFiniteSet(SentFor(serial[t]) \cup {NewRequest(t)})
        BY <1>0, <2>1, <4>2, AtMostAdd
      <4>4. SentFor(serial[t])' \subseteq SentFor(serial[t]) \cup {NewRequest(t)}
        BY <2>2, <4>1 DEF SentFor
      <4>5. QED
        BY <2>1, <4>1, <4>3, <4>4, AtMostSubset
    <3>3. CASE Finishes(t)
      <4>1. SentFor(serial[t])' = SentFor(serial[t])
        BY <3>3 DEF Finishes, SentFor, Sent
      <4>2. Allowance(t) <= Allowance(t)'
        <5>1. CASE pc'[t] = "idle"
          BY <5>1, <2>1, AllowanceBound DEF Allowance, SubTypeOK
        <5>2. CASE pc[t] = "op" /\ pc'[t] = "sleep" /\ attempt'[t] = attempt[t] + 1
          BY <5>2, <2>1 DEF Allowance
        <5>3. QED
          BY <3>3, <5>1, <5>2 DEF Finishes
      <4>3. Cardinality(SentFor(serial[t])) \in Nat
        BY <1>0, FS_CardinalityType
      <4>4. QED
        BY <2>1, <4>1, <4>2, <4>3 DEF CountInv, AtMost
    <3>4. QED
      BY <1>1, <3>1, <3>2, <3>3
  <2>6. ASSUME NEW c \in Nat PROVE AtMost(SentFor(c)', MaxRetryAttempts + 1)
    <3>1. CASE c = serial'[t]
      <4>1. SentFor(c)' = SentFor(serial[t])' /\ IsFiniteSet(SentFor(serial[t])')
        BY <3>1, <2>3, FS_Subset DEF SentFor
      <4>2. Cardinality(SentFor(serial[t])') \in Nat
        BY <4>1, FS_CardinalityType
      <4>3. QED
        BY <2>1, <2>5, <4>1, <4>2 DEF AtMost
    <3>2. CASE c # serial'[t]
      <4>1. SentFor(c)' = SentFor(c)
        BY <2>2, <3>2 DEF SentFor, NewRequest
      <4>2. QED
        BY <4>1 DEF CountInv
    <3>3. QED
      BY <3>1, <3>2
  <2>7. QED
    BY <2>3, <2>4, <2>5, <2>6 DEF CountInv
<1>2. CASE Rests
  <2>1. /\ IsFiniteSet(Sent') /\ MaxRetryAttempts + 1 \in Int
        /\ \A c : SentFor(c)' \subseteq SentFor(c)
        /\ serial' = serial /\ \A t \in Tasks : Allowance(t)' = Allowance(t)
    BY <1>2, FS_Subset, ResilienceAssumption DEF Rests, CountInv, SentFor, Allowance
  <2>2. ASSUME NEW c \in Nat PROVE AtMost(SentFor(c)', MaxRetryAttempts + 1)
    BY <1>0, <2>1, AtMostSubset DEF CountInv
  <2>3. ASSUME NEW t \in Tasks PROVE AtMost(SentFor(serial[t])', Allowance(t)')
    <3>1. Allowance(t) \in Int /\ AtMost(SentFor(serial[t]), Allowance(t))
      BY AllowanceBound DEF CountInv, SubTypeOK
    <3>2. SentFor(serial[t])' \subseteq SentFor(serial[t])
      BY <2>1 DEF SentFor
    <3>3. QED
      BY <1>0, <2>1, <3>1, <3>2, AtMostSubset
  <2>4. QED
    BY <2>1, <2>2, <2>3 DEF CountInv
<1>3. QED
  BY <1>1, <1>2, SubSteps

-----------------------------------------------------------------------------
(* The theorems.                                                            *)

LEMMA SubInvInit == SubInit => OutcomeInv /\ SubInv
<1> SUFFICES ASSUME SubInit PROVE OutcomeInv /\ SubInv
  OBVIOUS
<1>1. OutcomeInv
  BY ResilienceAssumption DEF SubInit, Init, OutcomeInv, Explained, IsRetryable
<1>2. Sent = {} /\ \A c : SentFor(c) = {}
  BY DEF SubInit, Sent, SentFor
<1>3. CallInv
  BY DEF SubInit, Init, CallInv
<1>4. CountInv
  BY <1>2, FS_EmptySet DEF CountInv, AtMost
<1>5. OwnInv
  BY DEF SubInit, Init, OwnInv
<1>6. DistinctInv /\ NumberInv /\ IdInv /\ RefusedInv /\ OneIdInv
  BY <1>2 DEF SubInit, DistinctInv, NumberInv, IdInv, RefusedInv, OneIdInv
<1>7. QED
  BY <1>1, <1>3, <1>4, <1>5, <1>6 DEF SubInv

LEMMA SubInvStep ==
  SubTypeOK /\ OutcomeInv /\ SubInv /\ [SubNext]_sub_vars
    => SubTypeOK' /\ OutcomeInv' /\ SubInv'
  BY SubTypeStep, HelperOutcomeStep, CallStep, DistinctStep, NumberStep, IdStep,
     RefusedStep, OneIdStep, CountStep, OwnStep
  DEF SubInv

LEMMA SubInvariant == SubSpec => [](SubTypeOK /\ OutcomeInv /\ SubInv)
  BY SubTypeInit, SubInvInit, SubInvStep, PTL DEF SubSpec

\* The sub-client's state is well typed, whatever its methods and its policy.
THEOREM SubTypeCorrect == SubSpec => []SubTypeOK
  BY SubInvariant, PTL

\* A command is executed once at most, a live-data request once per try at
\* most, whatever is retried, lost or late (execute, build_request_base).
THEOREM OncePerCallTheorem == SubSpec => []OncePerCall
<1>1. ASSUME SubTypeOK, SubInv PROVE OncePerCall
  <2> SUFFICES ASSUME NEW c \in 1..calls, ExecutedFor(c) # {}
               PROVE  Cardinality(ExecutedFor(c)) <=
                        IF service = "commands" THEN 1 ELSE MaxRetryAttempts + 1
    BY DEF OncePerCall
  <2>1. ExecutedFor(c) \subseteq SentFor(c) /\ c \in Nat
    BY DEF ExecutedFor, SentFor, Sent
  <2>2. CASE service = "commands"
    <3>1. PICK r \in ExecutedFor(c) : TRUE
      OBVIOUS
    <3>2. ExecutedFor(c) = {r}
      BY <1>1, <2>1, <2>2, <3>1 DEF SubInv, OneIdInv, SentFor
    <3>3. QED
      BY <2>2, <3>2, FS_Singleton
  <2>3. CASE service # "commands"
    <3>1. IsFiniteSet(SentFor(c)) /\ AtMost(SentFor(c), MaxRetryAttempts + 1)
      BY <1>1, <2>1, FS_Subset DEF SubInv, CountInv, SentFor
    <3>2. AtMost(ExecutedFor(c), MaxRetryAttempts + 1)
      BY <2>1, <3>1, AtMostSubset, ResilienceAssumption
    <3>3. QED
      BY <2>3, <3>2 DEF AtMost
  <2>4. QED
    BY <2>2, <2>3
<1>2. QED
  BY <1>1, SubInvariant, PTL

\* A call that succeeds was executed itself: answers are not mixed up.
THEOREM AnswerTheorem == SubSpec => []AnswerIsOwn
<1>1. SubInv => AnswerIsOwn
  BY DEF SubInv, OwnInv, AnswerIsOwn
<1>2. QED
  BY <1>1, SubInvariant, PTL

\* What validation or the breaker refused has left nothing that could be
\* executed later.
THEOREM RefusedTheorem == SubSpec => []RefusedNotSent
<1>1. SubInv => RefusedNotSent
  BY DEF SubInv, RefusedInv, RefusedNotSent, SentFor, Sent
<1>2. QED
  BY <1>1, SubInvariant, PTL
-----------------------------------------------------------------------------
(* The breaker that all methods of the service share. A call that fails     *)
(* validation does not come near it.                                        *)

LEMMA InvalidKeepsBreaker ==
  ASSUME SubTypeOK, NEW t \in Tasks, NEW m \in Methods, Invalid(t, m)
  PROVE  UNCHANGED breaker /\ InFlight' = InFlight
  BY DEF Invalid, Return, InFlight, SubTypeOK, TypeOK

SharedInv == BreakerAgrees /\ LateFailuresBounded

LEMMA SharedStep ==
  SubTypeOK /\ SubTypeOK' /\ SharedInv /\ [SubNext]_sub_vars => SharedInv'
<1> SUFFICES ASSUME SubTypeOK, SubTypeOK', SharedInv, [SubNext]_sub_vars
             PROVE  SharedInv'
  OBVIOUS
<1>1. CASE [Next]_vars
  BY <1>1, BreakerStep, LateStep DEF SharedInv, SubTypeOK
<1>2. ASSUME NEW t \in Tasks, NEW m \in Methods, Invalid(t, m) PROVE SharedInv'
  BY <1>2, InvalidKeepsBreaker
  DEF SharedInv, BreakerAgrees, LateFailuresBounded, Trip
<1>3. QED
  BY <1>1, <1>2, HelperSteps

\* What execute promises its callers it keeps for all the methods of a service
\* that share it, with calls that fail validation among them: flag and count
\* agree, the count of an open breaker stays bounded, and every outcome is
\* explained by its tries.
THEOREM SharedBreakerTheorem ==
  SubSpec => [](BreakerAgrees /\ LateFailuresBounded /\ OutcomeExplained)
<1>1. SubInit => SharedInv
  BY BreakerInit, LateInit DEF SubInit, SharedInv
<1>2. OutcomeInv => OutcomeExplained
  BY DEF OutcomeInv, Explained, OutcomeExplained
<1>3. QED
  BY <1>1, <1>2, SharedStep, SubInvariant, PTL DEF SubSpec, SharedInv

\* No method of the service puts a new call through to the server while the
\* breaker is open, and no late failure of one extends the window for the
\* others.
THEOREM SharedWindowTheorem == SubSpec => OpenAdmitsNobody /\ OpenWindowFixed
<1>1. ASSUME SubTypeOK, [SubNext]_sub_vars, circuit_open, circuit_open'
      PROVE  InFlight' \subseteq InFlight /\ since_opened' >= since_opened
  <2>1. CASE [Next]_vars
    BY <1>1, <2>1, AdmitsStep, WindowStep DEF SubTypeOK
  <2>2. ASSUME NEW t \in Tasks, NEW m \in Methods, Invalid(t, m)
        PROVE  InFlight' \subseteq InFlight /\ since_opened' >= since_opened
    BY <1>1, <2>2, InvalidKeepsBreaker, ResilienceAssumption DEF SubTypeOK, TypeOK
  <2>3. QED
    BY <1>1, <2>1, <2>2, HelperSteps
<1>2. QED
  BY <1>1, SubInvariant, PTL DEF SubSpec, OpenAdmitsNobody, OpenWindowFixed
=============================================================================
