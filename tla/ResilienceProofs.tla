-------------------------- MODULE ResilienceProofs --------------------------
(* Theorems about Resilience, for every number of tasks, every policy and   *)
(* every set of errors the operation may raise.                             *)
EXTENDS Resilience, FiniteSetTheorems, TLAPS

USE DEF breaker, call, vars

-----------------------------------------------------------------------------
(* Type correctness.                                                        *)

LEMMA ErrorsAreOutcomes == ErrorKind \subseteq Outcome /\ OpErrors \subseteq Outcome
  BY ResilienceAssumption DEF Outcome

LEMMA TypeInit == Init => TypeOK
<1>1. "none" \in Outcome
  BY DEF Outcome
<1>2. WaitDuration \in 0..WaitDuration
  BY ResilienceAssumption
<1>3. 0 \in Nat
  OBVIOUS
<1>4. QED
  BY <1>1, <1>2, <1>3, Zenon DEF Init, TypeOK

LEMMA TypeStep == TypeOK /\ [Next]_vars => TypeOK'
<1> SUFFICES ASSUME TypeOK, [Next]_vars PROVE TypeOK'
  OBVIOUS
<1> USE ResilienceAssumption, ErrorsAreOutcomes DEF TypeOK
<1>1. ASSUME NEW t \in Tasks, Admit(t) PROVE TypeOK'
  BY <1>1 DEF Admit, CheckCircuit, ResetByProbe, NewLocals, Return, Outcome
<1>2. ASSUME NEW t \in Tasks, Reject(t) PROVE TypeOK'
  BY <1>2 DEF Reject, CheckRaises, NewLocals, Return, Outcome
<1>3. ASSUME NEW t \in Tasks, OpSucceeds(t) PROVE TypeOK'
  BY <1>3 DEF OpSucceeds, RecordSuccess, Return, Outcome
<1>4. ASSUME NEW t \in Tasks, NEW e \in OpErrors, RetryLater(t, e) PROVE TypeOK'
  <2>1. Delay(attempt[t]) \in Nat
    BY DEF Delay
  <2>2. QED
    BY <1>4, <2>1 DEF RetryLater, BeforeRetry
<1>5. ASSUME NEW t \in Tasks, NEW e \in OpErrors, GiveUp(t, e) PROVE TypeOK'
  <2>1. Surfaced(t, e) \in Outcome
    BY DEF Surfaced, Outcome
  <2>2. QED
    BY <1>5, <2>1 DEF GiveUp, RecordFailure, Return
<1>6. ASSUME NEW t \in Tasks, NestedOpen(t) PROVE TypeOK'
  BY <1>6 DEF NestedOpen, Return
<1>7. ASSUME NEW t \in Tasks, Wake(t) PROVE TypeOK'
  BY <1>7 DEF Wake
<1>8. ASSUME NEW t \in Tasks, CancelSleep(t) PROVE TypeOK'
  BY <1>8 DEF CancelSleep, Return
<1>9. CASE Tick
  BY <1>9 DEF Tick
<1>10. CASE UNCHANGED vars
  BY <1>10
<1>11. QED
  BY <1>1, <1>2, <1>3, <1>4, <1>5, <1>6, <1>7, <1>8, <1>9, <1>10
  DEF Next, Execute, OpReturns, OpFails

\* Every reachable state is well typed.
THEOREM TypeCorrect == Spec => []TypeOK
  BY TypeInit, TypeStep, PTL DEF Spec

-----------------------------------------------------------------------------
(* The breaker. Each step of a task changes the counters in one of the four *)
(* ways of this lemma; the invariants follow from them.                     *)

LEMMA BreakerSteps ==
  ASSUME TypeOK, [Next]_vars
  PROVE  \/ UNCHANGED <<failure_count, circuit_open>>
         \/ CheckCircuit
         \/ RecordSuccess
         \/ RecordFailure
  BY DEF Next, Execute, OpReturns, OpFails, Admit, Reject, CheckRaises, OpSucceeds,
         RetryLater, BeforeRetry, GiveUp, NestedOpen, Wake, CancelSleep, Tick

LEMMA BreakerInit == Init => BreakerAgrees
  BY ResilienceAssumption DEF Init, BreakerAgrees, Trip

LEMMA BreakerStep == TypeOK /\ BreakerAgrees /\ [Next]_vars => BreakerAgrees'
<1> SUFFICES ASSUME TypeOK, BreakerAgrees, [Next]_vars PROVE BreakerAgrees'
  OBVIOUS
<1> USE ResilienceAssumption DEF TypeOK, BreakerAgrees, Trip
<1>1. CASE UNCHANGED <<failure_count, circuit_open>>
  BY <1>1
<1>2. CASE CheckCircuit
  BY <1>2 DEF CheckCircuit, ResetByProbe
<1>3. CASE RecordSuccess
  BY <1>3 DEF RecordSuccess
<1>4. CASE RecordFailure
  <2>1. failure_count' = failure_count + 1
    BY <1>4 DEF RecordFailure
  <2>2. circuit_open' <=> (circuit_open \/ Opens)
    BY <1>4, Zenon DEF RecordFailure
  <2>3. Opens <=> ~circuit_open /\ failure_count + 1 >= FailureThreshold
    BY DEF Opens
  <2>4. QED
    BY <2>1, <2>2, <2>3
<1>5. QED
  BY <1>1, <1>2, <1>3, <1>4, BreakerSteps

\* The breaker's flag and its count agree in every reachable state.
THEOREM BreakerCorrect == Spec => []BreakerAgrees
  BY BreakerInit, BreakerStep, TypeCorrect, PTL DEF Spec

LEMMA WindowStep ==
  ASSUME TypeOK, [Next]_vars, circuit_open, circuit_open'
  PROVE  since_opened' >= since_opened
<1> USE ResilienceAssumption DEF TypeOK
<1>1. CASE Tick
  BY <1>1 DEF Tick
<1>2. CASE \E t \in Tasks, e \in OpErrors : GiveUp(t, e)
  BY <1>2 DEF GiveUp, RecordFailure, Opens
<1>3. CASE UNCHANGED since_opened
  BY <1>3
<1>4. QED
  BY <1>1, <1>2, <1>3
  DEF Next, Execute, OpReturns, OpFails, Admit, CheckCircuit, ResetByProbe,
      Reject, CheckRaises, OpSucceeds, RecordSuccess, RetryLater, BeforeRetry,
      NestedOpen, Wake, CancelSleep

\* A failure that is recorded while the breaker is open leaves the end of the
\* open window where it was.
THEOREM OpenWindowTheorem == Spec => OpenWindowFixed
  BY WindowStep, TypeCorrect, PTL DEF Spec, OpenWindowFixed

-----------------------------------------------------------------------------
(* Late failures. A task enters InFlight only through a closed breaker, and *)
(* pays for the failure it counts by leaving InFlight.                      *)

LEMMA InFlightFinite ==
  /\ InFlight \subseteq Tasks
  /\ IsFiniteSet(InFlight)
  /\ Cardinality(InFlight) \in Nat
  /\ Cardinality(Tasks) \in Nat
  /\ Cardinality(InFlight) <= Cardinality(Tasks)
  BY TasksFinite, FS_Subset, FS_CardinalityType DEF InFlight

\* A step either leaves the set of calls in flight alone, or lets one in
\* through the breaker, or ends one.
LEMMA InFlightSteps ==
  ASSUME TypeOK, [Next]_vars
  PROVE  \/ UNCHANGED failure_count /\ InFlight' = InFlight
         \/ CheckCircuit
         \/ RecordSuccess
         \/ \E t \in InFlight : /\ InFlight' = InFlight \ {t}
                                /\ UNCHANGED failure_count \/ RecordFailure
<1> USE DEF TypeOK, InFlight
<1>1. ASSUME NEW t \in Tasks, Admit(t) PROVE CheckCircuit
  BY <1>1 DEF Admit
<1>2. ASSUME NEW t \in Tasks, Reject(t)
      PROVE  UNCHANGED failure_count /\ InFlight' = InFlight
  BY <1>2 DEF Reject, CheckRaises, Return
<1>3. ASSUME NEW t \in Tasks, OpSucceeds(t) PROVE RecordSuccess
  BY <1>3 DEF OpSucceeds
<1>4. ASSUME NEW t \in Tasks, NEW e \in OpErrors, RetryLater(t, e)
      PROVE  UNCHANGED failure_count /\ InFlight' = InFlight
  BY <1>4 DEF RetryLater, BeforeRetry
<1>5. ASSUME NEW t \in Tasks, NEW e \in OpErrors, GiveUp(t, e)
      PROVE  t \in InFlight /\ InFlight' = InFlight \ {t} /\ RecordFailure
  BY <1>5 DEF GiveUp, Return
<1>6. ASSUME NEW t \in Tasks, NestedOpen(t) \/ CancelSleep(t)
      PROVE  t \in InFlight /\ InFlight' = InFlight \ {t} /\ UNCHANGED failure_count
  BY <1>6 DEF NestedOpen, CancelSleep, Return
<1>7. ASSUME NEW t \in Tasks, Wake(t)
      PROVE  UNCHANGED failure_count /\ InFlight' = InFlight
  BY <1>7 DEF Wake
<1>8. CASE Tick \/ UNCHANGED vars
  BY <1>8 DEF Tick
<1>9. QED
  BY <1>1, <1>2, <1>3, <1>4, <1>5, <1>6, <1>7, <1>8
  DEF Next, Execute, OpReturns, OpFails

LEMMA LateStep ==
  TypeOK /\ TypeOK' /\ BreakerAgrees /\ LateFailuresBounded /\ [Next]_vars
    => LateFailuresBounded'
<1> SUFFICES ASSUME TypeOK, TypeOK', BreakerAgrees, LateFailuresBounded, [Next]_vars
             PROVE  LateFailuresBounded'
  OBVIOUS
<1> USE ResilienceAssumption DEF LateFailuresBounded
<1>1. /\ failure_count \in Nat
      /\ Trip \in Nat
      /\ Trip >= 1
  BY DEF TypeOK, Trip
<1>2. /\ Cardinality(InFlight) \in Nat
      /\ Cardinality(InFlight') \in Nat
      /\ Cardinality(Tasks) \in Nat
      /\ Cardinality(InFlight') <= Cardinality(Tasks)
  <2>1. InFlight' \subseteq Tasks
    BY DEF InFlight
  <2>2. QED
    BY <2>1, InFlightFinite, TasksFinite, FS_Subset, FS_CardinalityType
<1>3. CASE UNCHANGED failure_count /\ InFlight' = InFlight
  BY <1>3, <1>1
<1>4. CASE CheckCircuit \/ RecordSuccess
  <2>1. failure_count' < Trip
    BY <1>4, <1>1 DEF CheckCircuit, ResetByProbe, RecordSuccess, BreakerAgrees, TypeOK
  <2>2. failure_count' \in Nat
    BY DEF TypeOK
  <2>3. QED
    BY <1>1, <1>2, <2>1, <2>2
<1>5. ASSUME NEW t \in InFlight, InFlight' = InFlight \ {t},
             UNCHANGED failure_count \/ RecordFailure
      PROVE  LateFailuresBounded'
  <2>1. Cardinality(InFlight') = Cardinality(InFlight) - 1
    BY <1>5, InFlightFinite, FS_RemoveElement
  <2>2. failure_count' <= failure_count + 1 /\ failure_count' \in Nat
    BY <1>5, <1>1 DEF RecordFailure
  <2>3. QED
    BY <1>1, <1>2, <2>1, <2>2
<1>6. QED
  BY <1>3, <1>4, <1>5, InFlightSteps

LEMMA LateInit == Init => LateFailuresBounded
<1> SUFFICES ASSUME Init PROVE LateFailuresBounded
  OBVIOUS
<1>1. InFlight = {}
  BY DEF Init, InFlight
<1>2. Cardinality(InFlight) = 0
  BY <1>1, FS_EmptySet
<1>3. failure_count = 0 /\ Trip >= 1 /\ Trip \in Nat
  BY ResilienceAssumption DEF Init, Trip
<1>4. QED
  BY <1>2, <1>3, InFlightFinite DEF LateFailuresBounded

\* The count of an open breaker cannot run past its threshold by as much as
\* the number of tasks, however often their calls are retried.
THEOREM LateFailures == Spec => []LateFailuresBounded
  BY LateInit, LateStep, TypeCorrect, BreakerCorrect, PTL DEF Spec

LEMMA AdmitsStep ==
  ASSUME TypeOK, [Next]_vars, circuit_open, circuit_open'
  PROVE  InFlight' \subseteq InFlight
<1>1. CASE CheckCircuit \/ RecordSuccess
  BY <1>1 DEF CheckCircuit, ResetByProbe, RecordSuccess
<1>2. CASE UNCHANGED failure_count /\ InFlight' = InFlight
  BY <1>2
<1>3. CASE \E t \in InFlight : InFlight' = InFlight \ {t}
  BY <1>3
<1>4. QED
  BY <1>1, <1>2, <1>3, InFlightSteps

\* While the breaker stays open nobody new gets to the server.
THEOREM OpenAdmitsNobodyTheorem == Spec => OpenAdmitsNobody
  BY AdmitsStep, TypeCorrect, PTL DEF Spec, OpenAdmitsNobody

-----------------------------------------------------------------------------
(* The outcome of a call.                                                   *)

\* OutcomeExplained for one task.
Explained(t) ==
  /\ retried[t] <=> attempt[t] > 0
  /\ attempt[t] > 0 => attempt[t] <= MaxRetryAttempts
  /\ pc[t] = "sleep" => retried[t]
  /\ pc[t] = "op" => MaxRetryAttempts >= 0
  /\ pc[t] = "idle" =>
       /\ result[t] = "exhausted" =>
            attempt[t] = MaxRetryAttempts /\ MaxRetryAttempts >= 1
       /\ IsRetryable(result[t]) => MaxRetryAttempts = 0
       /\ result[t] \in {"rejected", "assertion"} => attempt[t] = 0

OutcomeInv == \A t \in Tasks : Explained(t)

LEMMA OutcomeStep == TypeOK /\ OutcomeInv /\ [Next]_vars => OutcomeInv'
<1> SUFFICES ASSUME TypeOK, OutcomeInv, [Next]_vars, NEW u \in Tasks
             PROVE  Explained(u)'
  BY DEF OutcomeInv
<1>0. Explained(u)
  BY DEF OutcomeInv
<1>a. CASE /\ attempt'[u] = attempt[u] /\ retried'[u] = retried[u]
           /\ pc'[u] = pc[u] /\ result'[u] = result[u]
  BY <1>0, <1>a DEF Explained
<1> USE ResilienceAssumption DEF TypeOK
<1>1. ASSUME NEW t \in Tasks, Admit(t) PROVE Explained(u)'
  <2>1. CASE t = u
    BY <1>1, <2>1 DEF Admit, NewLocals, Return, Explained, IsRetryable
  <2>2. QED
    BY <1>1, <1>a, <2>1 DEF Admit, NewLocals, Return
<1>2. ASSUME NEW t \in Tasks, Reject(t) PROVE Explained(u)'
  <2>1. CASE t = u
    BY <1>2, <2>1 DEF Reject, NewLocals, Return, Explained, IsRetryable
  <2>2. QED
    BY <1>2, <1>a, <2>1 DEF Reject, NewLocals, Return
<1>3. ASSUME NEW t \in Tasks, OpSucceeds(t) PROVE Explained(u)'
  <2>1. CASE t = u
    BY <1>0, <1>3, <2>1 DEF OpSucceeds, Return, Explained, IsRetryable
  <2>2. QED
    BY <1>3, <1>a, <2>1 DEF OpSucceeds, Return
<1>4. ASSUME NEW t \in Tasks, NEW e \in OpErrors, RetryLater(t, e)
      PROVE  Explained(u)'
  <2>1. CASE t = u
    BY <1>0, <1>4, <2>1 DEF RetryLater, MayRetry, Explained
  <2>2. QED
    BY <1>4, <1>a, <2>1 DEF RetryLater
<1>5. ASSUME NEW t \in Tasks, NEW e \in OpErrors, GiveUp(t, e)
      PROVE  Explained(u)'
  <2>1. CASE t = u
    <3>1. /\ pc'[u] = "idle" /\ result'[u] = Surfaced(u, e)
          /\ attempt'[u] = attempt[u] /\ retried'[u] = retried[u]
      BY <1>5, <2>1 DEF GiveUp, Return
    <3>2. Surfaced(u, e) = "exhausted" \/ Surfaced(u, e) \in OpErrors
      BY DEF Surfaced
    <3>3. Surfaced(u, e) \notin {"rejected", "assertion"}
      BY <3>2 DEF ErrorKind
    <3>4. IsRetryable(e) => attempt[u] >= MaxRetryAttempts
      BY <1>5, <2>1 DEF GiveUp, MayRetry
    <3>5. "exhausted" \notin ErrorKind /\ ~IsRetryable("exhausted")
      BY DEF ErrorKind, IsRetryable
    <3>6. CASE retried[u] /\ IsRetryable(e)
      BY <1>0, <1>5, <2>1, <3>1, <3>4, <3>5, <3>6 DEF Surfaced, Explained, GiveUp
    <3>7. CASE ~(retried[u] /\ IsRetryable(e))
      BY <1>0, <1>5, <2>1, <3>1, <3>3, <3>4, <3>5, <3>7
      DEF Surfaced, Explained, GiveUp
    <3>8. QED
      BY <3>6, <3>7
  <2>2. QED
    BY <1>5, <1>a, <2>1 DEF GiveUp, Return
<1>6. ASSUME NEW t \in Tasks, NestedOpen(t) PROVE Explained(u)'
  <2>1. CASE t = u
    BY <1>0, <1>6, <2>1 DEF NestedOpen, Return, Explained, IsRetryable
  <2>2. QED
    BY <1>6, <1>a, <2>1 DEF NestedOpen, Return
<1>7. ASSUME NEW t \in Tasks, Wake(t) PROVE Explained(u)'
  <2>1. CASE t = u
    BY <1>0, <1>7, <2>1 DEF Wake, Explained
  <2>2. QED
    BY <1>7, <1>a, <2>1 DEF Wake
<1>8. ASSUME NEW t \in Tasks, CancelSleep(t) PROVE Explained(u)'
  <2>1. CASE t = u
    BY <1>0, <1>8, <2>1 DEF CancelSleep, Return, Explained, IsRetryable
  <2>2. QED
    BY <1>8, <1>a, <2>1 DEF CancelSleep, Return
<1>9. CASE Tick \/ UNCHANGED vars
  BY <1>9, <1>a DEF Tick
<1>10. QED
  BY <1>1, <1>2, <1>3, <1>4, <1>5, <1>6, <1>7, <1>8, <1>9
  DEF Next, Execute, OpReturns, OpFails

LEMMA OutcomeInvariant == Spec => []OutcomeInv
<1>1. Init => OutcomeInv
  BY ResilienceAssumption DEF Init, OutcomeInv, Explained, IsRetryable
<1>2. QED
  BY <1>1, OutcomeStep, TypeCorrect, PTL DEF Spec

\* The outcome of every call says how often and why it was tried.
THEOREM OutcomeTheorem == Spec => []OutcomeExplained
<1>1. OutcomeInv => OutcomeExplained
  BY DEF OutcomeInv, Explained, OutcomeExplained
<1>2. QED
  BY <1>1, OutcomeInvariant, PTL

-----------------------------------------------------------------------------
(* execute implements UnaryContract.                                        *)

\* A step that leaves a task's place and attempt alone leaves its tries alone.
LEMMA TriesOfOne ==
  ASSUME TypeOK, TypeOK', NEW t \in Tasks,
         \A u \in Tasks \ {t} : pc'[u] = pc[u] /\ attempt'[u] = attempt[u]
  PROVE  Tries' = [Tries EXCEPT ![t] = Tries'[t]]
  BY DEF Tries

LEMMA ContractStep ==
  TypeOK /\ TypeOK' /\ OutcomeInv /\ [Next]_vars => [Contract!Next]_(Contract!vars)
<1> SUFFICES ASSUME TypeOK, TypeOK', OutcomeInv, [Next]_vars
             PROVE  [Contract!Next]_(Contract!vars)
  OBVIOUS
<1> USE ResilienceAssumption
<1>1. ASSUME NEW t \in Tasks, Admit(t) PROVE Contract!Next
  <2>1. CASE 0 <= MaxRetryAttempts
    <3>1. /\ pc[t] = "idle"
          /\ pc' = [pc EXCEPT ![t] = "op"]
          /\ attempt' = [attempt EXCEPT ![t] = 0]
          /\ result' = [result EXCEPT ![t] = "none"]
      BY <1>1, <2>1 DEF Admit, NewLocals
    <3>2. t \notin InFlight /\ InFlight' = InFlight \cup {t}
      BY <3>1 DEF InFlight, TypeOK
    <3>3. Tries'[t] = 1
      BY <3>1 DEF Tries, TypeOK
    <3>4. Tries' = [Tries EXCEPT ![t] = 1]
      BY <3>1, <3>3, TriesOfOne DEF TypeOK
    <3>5. Contract!Start(t)
      BY <2>1, <3>1, <3>2, <3>4 DEF Contract!Start
    <3>6. QED
      BY <3>5 DEF Contract!Next
  <2>2. CASE ~(0 <= MaxRetryAttempts)
    <3>1. /\ pc[t] = "idle" /\ pc' = pc
          /\ attempt' = [attempt EXCEPT ![t] = 0]
          /\ result' = [result EXCEPT ![t] = "assertion"]
      BY <1>1, <2>2 DEF Admit, NewLocals, Return, TypeOK
    <3>2. t \notin InFlight /\ InFlight' = InFlight /\ Tries' = Tries
      BY <3>1 DEF InFlight, Tries, TypeOK
    <3>3. Contract!Refuse(t)
      BY <2>2, <3>1, <3>2 DEF Contract!Refuse
    <3>4. QED
      BY <3>3 DEF Contract!Next
  <2>3. QED
    BY <2>1, <2>2
<1>2. ASSUME NEW t \in Tasks, Reject(t) PROVE Contract!Next
  <2>1. /\ pc[t] = "idle" /\ pc' = pc
        /\ attempt' = [attempt EXCEPT ![t] = 0]
        /\ result' = [result EXCEPT ![t] = "rejected"]
    BY <1>2 DEF Reject, NewLocals, Return, TypeOK
  <2>2. t \notin InFlight /\ InFlight' = InFlight /\ Tries' = Tries
    BY <2>1 DEF InFlight, Tries, TypeOK
  <2>3. Contract!Refuse(t)
    BY <2>1, <2>2 DEF Contract!Refuse
  <2>4. QED
    BY <2>3 DEF Contract!Next
<1>3. ASSUME NEW t \in Tasks, NEW r, pc[t] # "idle", Return(t, r),
             UNCHANGED attempt, r \in Contract!Outcomes(Tries[t])
      PROVE  Contract!Next
  <2>1. t \in InFlight /\ InFlight' = InFlight \ {t}
    BY <1>3 DEF InFlight, Return, TypeOK
  <2>2. Tries'[t] = 0
    BY <1>3 DEF Tries, Return, TypeOK
  <2>3. Tries' = [Tries EXCEPT ![t] = 0]
    BY <1>3, <2>2, TriesOfOne DEF Return, TypeOK
  <2>4. Contract!Finish(t)
    BY <1>3, <2>1, <2>3 DEF Contract!Finish, Return
  <2>5. QED
    BY <2>4 DEF Contract!Next
<1>4. ASSUME NEW t \in Tasks, OpSucceeds(t) PROVE Contract!Next
  <2>1. "success" \in Contract!Outcomes(Tries[t])
    BY DEF Contract!Outcomes
  <2>2. QED
    BY <1>3, <1>4, <2>1 DEF OpSucceeds
<1>5. ASSUME NEW t \in Tasks, NEW e \in OpErrors, RetryLater(t, e)
      PROVE  UNCHANGED Contract!vars
  <2>1. InFlight' = InFlight
    BY <1>5 DEF RetryLater, InFlight, TypeOK
  <2>2. Tries' = Tries
    BY <1>5 DEF RetryLater, Tries, TypeOK
  <2>3. QED
    BY <1>5, <2>1, <2>2 DEF RetryLater, Contract!vars
<1>6. ASSUME NEW t \in Tasks, NEW e \in OpErrors, GiveUp(t, e)
      PROVE  Contract!Next
  <2>1. Tries[t] = attempt[t] + 1 /\ attempt[t] \in Nat
    BY <1>6 DEF GiveUp, Tries, TypeOK
  <2>2. CASE ~IsRetryable(e)
    BY <1>3, <1>6, <2>2 DEF GiveUp, Surfaced, Contract!Outcomes
  <2>3. CASE IsRetryable(e)
    <3>1. Explained(t) /\ pc[t] = "op" /\ attempt[t] >= MaxRetryAttempts
      BY <1>6, <2>1, <2>3 DEF GiveUp, MayRetry, OutcomeInv
    <3>2. attempt[t] = MaxRetryAttempts
      BY <2>1, <3>1 DEF Explained
    <3>3. Surfaced(t, e) \in Contract!Outcomes(Tries[t])
      <4>1. CASE retried[t]
        BY <2>1, <2>3, <3>1, <3>2, <4>1 DEF Surfaced, Explained, Contract!Outcomes
      <4>2. CASE ~retried[t]
        BY <2>1, <2>3, <3>1, <3>2, <4>2 DEF Surfaced, Explained, Contract!Outcomes
      <4>3. QED
        BY <4>1, <4>2
    <3>4. QED
      BY <1>3, <1>6, <3>3 DEF GiveUp
  <2>4. QED
    BY <2>2, <2>3
<1>7. ASSUME NEW t \in Tasks, NestedOpen(t) PROVE Contract!Next
  BY <1>3, <1>7 DEF NestedOpen, IsRetryable, Contract!Outcomes
<1>8. ASSUME NEW t \in Tasks, CancelSleep(t) PROVE Contract!Next
  BY <1>3, <1>8 DEF CancelSleep, IsRetryable, Contract!Outcomes
<1>9. ASSUME NEW t \in Tasks, Wake(t) PROVE Contract!Next
  <2>1. Explained(t) /\ pc[t] = "sleep" /\ UNCHANGED <<attempt, result>>
        /\ pc' = [pc EXCEPT ![t] = "op"] /\ attempt[t] \in Nat
    BY <1>9 DEF Wake, OutcomeInv, TypeOK
  <2>2. t \in InFlight /\ InFlight' = InFlight
    BY <2>1 DEF InFlight, TypeOK
  <2>3. Tries[t] = attempt[t] /\ Tries'[t] = attempt[t] + 1
    BY <2>1 DEF Tries, TypeOK
  <2>4. Tries[t] < MaxRetryAttempts + 1
    BY <2>1, <2>3 DEF Explained
  <2>5. Tries' = [Tries EXCEPT ![t] = @ + 1]
    BY <2>1, <2>3, TriesOfOne DEF TypeOK
  <2>6. Contract!Again(t)
    BY <2>1, <2>2, <2>4, <2>5 DEF Contract!Again
  <2>7. QED
    BY <2>6 DEF Contract!Next
<1>10. ASSUME Tick \/ UNCHANGED vars PROVE UNCHANGED Contract!vars
  BY <1>10 DEF Tick, InFlight, Tries, Contract!vars
<1>11. QED
  BY <1>1, <1>2, <1>4, <1>5, <1>6, <1>7, <1>8, <1>9, <1>10
  DEF Next, Execute, OpReturns, OpFails

\* Every behaviour of the helper is, call by call, one the contract allows.
THEOREM ContractTheorem == Spec => KeepsContract
<1>1. Init => Contract!Init
  BY DEF Init, InFlight, Tries, Contract!Init
<1>2. QED
  BY <1>1, ContractStep, TypeCorrect, OutcomeInvariant, PTL
  DEF Spec, KeepsContract, Contract!Spec
-----------------------------------------------------------------------------
(* Why every call comes back, as far as it is safety: a call in flight has  *)
(* a finite allowance, retries before sleep, which its own steps use up,    *)
(* the clock too while it sleeps, and which nothing gives back. What is     *)
(* left of EveryCallReturns is that Fairness makes those steps happen.      *)

RetriesLeft(t) == MaxRetryAttempts - attempt[t]
SleepLeft(t) == IF pc[t] = "sleep" THEN sleep_left[t] + 1 ELSE 0

Shrinks(t) ==
  \/ RetriesLeft(t)' < RetriesLeft(t)
  \/ RetriesLeft(t)' = RetriesLeft(t) /\ SleepLeft(t)' < SleepLeft(t)

Keeps(t) == RetriesLeft(t)' = RetriesLeft(t) /\ SleepLeft(t)' = SleepLeft(t)

InCall(t) == pc[t] # "idle"

\* The steps of a task, and of the clock while it sleeps.
Moves(t) == OpReturns(t) \/ Wake(t) \/ CancelSleep(t)
              \/ (Tick /\ pc[t] = "sleep" /\ sleep_left[t] > 0)

\* The allowance of a call in flight is a pair of natural numbers, ...
AllowanceFinite ==
  \A t \in Tasks : InCall(t) => RetriesLeft(t) \in Nat /\ SleepLeft(t) \in Nat

\* ... which the moves of the call lower and no other step raises.
AllowanceShrinks ==
  [][\A t \in Tasks : InCall(t) /\ InCall(t)' =>
       /\ Shrinks(t) \/ Keeps(t)
       /\ Moves(t) => Shrinks(t)]_vars

LEMMA MoveShrinks ==
  ASSUME TypeOK, NEW t \in Tasks, Moves(t), InCall(t)' PROVE Shrinks(t)
<1> USE ResilienceAssumption DEF TypeOK, RetriesLeft, SleepLeft, Shrinks, InCall
<1>1. CASE \E e \in OpErrors : RetryLater(t, e)
  BY <1>1 DEF RetryLater
<1>2. CASE Wake(t)
  BY <1>2 DEF Wake
<1>3. CASE Tick /\ pc[t] = "sleep" /\ sleep_left[t] > 0
  BY <1>3 DEF Tick
<1>4. CASE pc'[t] = "idle"
  BY <1>4
<1>5. QED
  BY <1>1, <1>2, <1>3, <1>4
  DEF Moves, OpReturns, OpSucceeds, OpFails, GiveUp, NestedOpen, CancelSleep, Return

LEMMA OtherKeeps ==
  ASSUME TypeOK, NEW t \in Tasks, NEW u \in Tasks \ {t},
         Execute(u) \/ OpReturns(u) \/ Wake(u) \/ CancelSleep(u)
  PROVE  Keeps(t)
<1>1. /\ pc'[t] = pc[t] /\ attempt'[t] = attempt[t]
      /\ sleep_left'[t] = sleep_left[t]
  BY DEF TypeOK, Execute, Admit, Reject, NewLocals, Return, OpReturns, OpSucceeds,
         OpFails, RetryLater, GiveUp, NestedOpen, Wake, CancelSleep
<1>2. QED
  BY <1>1 DEF Keeps, RetriesLeft, SleepLeft

LEMMA AllowanceStep ==
  ASSUME TypeOK, [Next]_vars, NEW t \in Tasks, InCall(t), InCall(t)'
  PROVE  /\ Shrinks(t) \/ Keeps(t)
         /\ Moves(t) => Shrinks(t)
<1> SUFFICES Shrinks(t) \/ Keeps(t)
  BY MoveShrinks
<1>1. ASSUME NEW u \in Tasks, Execute(u) \/ OpReturns(u) \/ Wake(u) \/ CancelSleep(u)
      PROVE  Shrinks(t) \/ Keeps(t)
  <2>1. CASE u = t
    <3>1. ~Execute(t)
      BY DEF InCall, Execute, Admit, Reject
    <3>2. QED
      BY <1>1, <2>1, <3>1, MoveShrinks DEF Moves
  <2>2. CASE u # t
    BY <1>1, <2>2, OtherKeeps
  <2>3. QED
    BY <2>1, <2>2
<1>2. CASE Tick
  <2>1. CASE pc[t] = "sleep" /\ sleep_left[t] > 0
    BY <1>2, <2>1, MoveShrinks DEF Moves
  <2>2. CASE ~(pc[t] = "sleep" /\ sleep_left[t] > 0)
    <3>1. /\ pc' = pc /\ attempt' = attempt /\ sleep_left[t] \in Nat
          /\ sleep_left'[t] = IF sleep_left[t] > 0 THEN sleep_left[t] - 1 ELSE 0
      BY <1>2 DEF Tick, TypeOK
    <3>2. QED
      BY <2>2, <3>1 DEF Keeps, RetriesLeft, SleepLeft
  <2>3. QED
    BY <2>1, <2>2
<1>3. CASE UNCHANGED vars
  BY <1>3 DEF Keeps, RetriesLeft, SleepLeft
<1>4. QED
  BY <1>1, <1>2, <1>3 DEF Next

\* A call in flight has a finite allowance of retries and sleep, and each step
\* of its own, and of the clock while it sleeps, ends the call or uses some of
\* it; no step of another call gives any back (execute's loop and its sleep).
THEOREM AllowanceTheorem == Spec => []AllowanceFinite /\ AllowanceShrinks
<1>1. TypeOK /\ OutcomeInv => AllowanceFinite
  <2> SUFFICES ASSUME TypeOK, OutcomeInv, NEW t \in Tasks, InCall(t)
               PROVE  RetriesLeft(t) \in Nat /\ SleepLeft(t) \in Nat
    BY DEF AllowanceFinite
  <2>1. /\ attempt[t] \in Nat /\ sleep_left[t] \in Nat /\ Explained(t)
        /\ pc[t] \in {"op", "sleep"} /\ MaxRetryAttempts \in Int
    BY ResilienceAssumption DEF TypeOK, OutcomeInv, InCall
  <2>2. QED
    BY <2>1 DEF Explained, RetriesLeft, SleepLeft
<1>2. TypeOK /\ [Next]_vars =>
        [\A t \in Tasks : InCall(t) /\ InCall(t)' =>
           /\ Shrinks(t) \/ Keeps(t)
           /\ Moves(t) => Shrinks(t)]_vars
  BY AllowanceStep
<1>3. QED
  BY <1>1, <1>2, TypeCorrect, OutcomeInvariant, PTL DEF Spec, AllowanceShrinks
=============================================================================
