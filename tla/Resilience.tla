----------------------------- MODULE Resilience -----------------------------
(* client_sdk/grpc_/resilience.py: one GrpcResilience object shared by the  *)
(* asyncio tasks that call its execute method (every method of a sub-client *)
(* shares one). _lock is never held across a suspension, so a call of       *)
(* _check_circuit, _record_success or _record_failure is one step; tasks    *)
(* interleave where execute suspends, at "await op()" and "asyncio.sleep".  *)
EXTENDS Integers, FiniteSets

CONSTANTS
  Tasks,             \* asyncio tasks that call execute
  MaxRetryAttempts,  \* config.max_retry_attempts
  RetryDelay,        \* config.retry_delay_millis, in ticks
  FailureThreshold,  \* config.circuit_breaker_failure_threshold
  WaitDuration,      \* config.circuit_breaker_wait_duration_millis, in ticks
  OpErrors           \* the kinds of exception op may raise

\* The exceptions execute tells apart: a status inside and outside
\* _RETRYABLE_CODES, asyncio.TimeoutError, ValueError, CancelledError, a
\* CircuitBreakerOpen raised by op itself, and any other exception.
ErrorKind ==
  {"retryable_status", "other_status", "timeout", "value_error",
   "cancelled", "breaker_open", "unknown"}

IsRetryable(e) == e \in {"retryable_status", "timeout", "unknown"}

\* env_loader accepts any integer for the counts, a negative one included.
ASSUME ResilienceAssumption ==
  /\ MaxRetryAttempts \in Int
  /\ RetryDelay \in Nat
  /\ FailureThreshold \in Int
  /\ WaitDuration \in Nat
  /\ OpErrors \subseteq ErrorKind

ASSUME TasksFinite == IsFiniteSet(Tasks)

Outcome == {"none", "success", "exhausted", "rejected", "assertion"} \cup ErrorKind

VARIABLES
  failure_count,  \* _failure_count
  circuit_open,   \* _circuit_open
  since_opened,   \* now - _opened_at_monotonic, saturating at WaitDuration
  pc,             \* where each task is: outside execute, in op, in the sleep
  attempt,        \* execute's local of that name, kept after it returns
  retried,        \* execute's local of that name, kept after it returns
  sleep_left,     \* ticks left of the task's asyncio.sleep
  result          \* how the latest execute of the task ended (history)

breaker == <<failure_count, circuit_open, since_opened>>
call == <<pc, attempt, retried, sleep_left, result>>
vars == <<breaker, call>>

Init ==
  /\ failure_count = 0
  /\ circuit_open = FALSE
  /\ since_opened = WaitDuration
  /\ pc = [t \in Tasks |-> "idle"]
  /\ attempt = [t \in Tasks |-> 0]
  /\ retried = [t \in Tasks |-> FALSE]
  /\ sleep_left = [t \in Tasks |-> 0]
  /\ result = [t \in Tasks |-> "none"]

-----------------------------------------------------------------------------
(* The breaker.                                                             *)

\* _check_circuit lets the call pass, closing the breaker after the wait, ...
CheckPasses == ~circuit_open \/ since_opened >= WaitDuration

ResetByProbe_Not == UNCHANGED breaker  \* mutant: the probe leaves it open
ResetByProbe ==
  /\ circuit_open' = FALSE
  /\ failure_count' = IF circuit_open THEN 0 ELSE failure_count
  /\ UNCHANGED since_opened

CheckCircuit == CheckPasses /\ ResetByProbe

\* ... or raises CircuitBreakerOpen.
CheckRaises_Restarts ==                \* mutant: a rejected call restarts the wait
  ~CheckPasses /\ since_opened' = 0 /\ UNCHANGED <<failure_count, circuit_open>>
CheckRaises == ~CheckPasses /\ UNCHANGED breaker

RecordSuccess_Decrements ==            \* mutant: takes back one failure
  failure_count' = failure_count - 1 /\ circuit_open' = FALSE /\ UNCHANGED since_opened
RecordSuccess_KeepsOpen ==             \* mutant: forgets the flag
  failure_count' = 0 /\ UNCHANGED <<circuit_open, since_opened>>
RecordSuccess == failure_count' = 0 /\ circuit_open' = FALSE /\ UNCHANGED since_opened

\* Only the failure that opens the breaker starts its wait.
Opens_Again == failure_count + 1 >= FailureThreshold                \* mutant
Opens == ~circuit_open /\ failure_count + 1 >= FailureThreshold

RecordFailure ==
  /\ failure_count' = failure_count + 1
  /\ circuit_open' = (circuit_open \/ Opens)
  /\ since_opened' = IF Opens THEN 0 ELSE since_opened

-----------------------------------------------------------------------------
(* execute, from one suspension to the next.                                *)

Return(t, r) ==
  /\ pc' = [pc EXCEPT ![t] = "idle"]
  /\ result' = [result EXCEPT ![t] = r]

NewLocals(t) ==
  /\ attempt' = [attempt EXCEPT ![t] = 0]
  /\ retried' = [retried EXCEPT ![t] = FALSE]
  /\ UNCHANGED sleep_left

\* The loop is entered if it allows a try at all; else the assertion after
\* it fails.
Admit(t) ==
  /\ pc[t] = "idle"
  /\ CheckCircuit
  /\ NewLocals(t)
  /\ IF 0 <= MaxRetryAttempts
       THEN /\ pc' = [pc EXCEPT ![t] = "op"]
            /\ result' = [result EXCEPT ![t] = "none"]
       ELSE Return(t, "assertion")

Reject(t) ==
  /\ pc[t] = "idle"
  /\ CheckRaises
  /\ NewLocals(t)
  /\ Return(t, "rejected")

OpSucceeds(t) ==
  /\ pc[t] = "op"
  /\ RecordSuccess
  /\ Return(t, "success")
  /\ UNCHANGED <<attempt, retried, sleep_left>>

MayRetry_OneMore(t, e) ==              \* mutant: one retry too many
  attempt[t] <= MaxRetryAttempts /\ IsRetryable(e)
MayRetry(t, e) == attempt[t] < MaxRetryAttempts /\ IsRetryable(e)

Delay(n) == RetryDelay * (n + 1)

BeforeRetry_Records == RecordFailure   \* mutant: every failed attempt counts
BeforeRetry == UNCHANGED breaker

\* op raised e and the policy allows another attempt: sleep, nothing recorded.
RetryLater(t, e) ==
  /\ pc[t] = "op"
  /\ e # "breaker_open"
  /\ MayRetry(t, e)
  /\ BeforeRetry
  /\ pc' = [pc EXCEPT ![t] = "sleep"]
  /\ sleep_left' = [sleep_left EXCEPT ![t] = Delay(attempt[t])]
  /\ attempt' = [attempt EXCEPT ![t] = @ + 1]
  /\ retried' = [retried EXCEPT ![t] = TRUE]
  /\ UNCHANGED result

Surfaced_Retried(t, e) ==              \* mutant: whatever the last error is
  IF retried[t] THEN "exhausted" ELSE e
Surfaced(t, e) == IF retried[t] /\ IsRetryable(e) THEN "exhausted" ELSE e

\* op raised e for the last time: the call counts as one failure.
GiveUp(t, e) ==
  /\ pc[t] = "op"
  /\ e # "breaker_open"
  /\ ~MayRetry(t, e)
  /\ RecordFailure
  /\ Return(t, Surfaced(t, e))
  /\ UNCHANGED <<attempt, retried, sleep_left>>

\* op itself raised CircuitBreakerOpen: passed on, nothing recorded.
NestedOpen(t) ==
  /\ pc[t] = "op"
  /\ "breaker_open" \in OpErrors
  /\ Return(t, "breaker_open")
  /\ UNCHANGED <<breaker, attempt, retried, sleep_left>>

SleepOver_AndClosed(t) ==              \* mutant: retries wait for the breaker
  sleep_left[t] = 0 /\ ~circuit_open
SleepOver(t) == sleep_left[t] = 0

\* The next attempt does not look at the breaker.
Wake(t) ==
  /\ pc[t] = "sleep"
  /\ SleepOver(t)
  /\ pc' = [pc EXCEPT ![t] = "op"]
  /\ UNCHANGED <<breaker, attempt, retried, sleep_left, result>>

\* The caller's task is cancelled in the sleep: nothing is recorded.
CancelSleep(t) ==
  /\ pc[t] = "sleep"
  /\ "cancelled" \in OpErrors
  /\ Return(t, "cancelled")
  /\ sleep_left' = [sleep_left EXCEPT ![t] = 0]
  /\ UNCHANGED <<breaker, attempt, retried>>

\* The monotonic clock, as far as the breaker and the sleeps can tell.
Tick ==
  /\ since_opened < WaitDuration \/ \E t \in Tasks : sleep_left[t] > 0
  /\ since_opened' = IF since_opened < WaitDuration THEN since_opened + 1
                                                    ELSE since_opened
  /\ sleep_left' = [t \in Tasks |-> IF sleep_left[t] > 0 THEN sleep_left[t] - 1
                                                         ELSE 0]
  /\ UNCHANGED <<failure_count, circuit_open, pc, attempt, retried, result>>

OpFails(t) == \E e \in OpErrors : RetryLater(t, e) \/ GiveUp(t, e)

OpReturns(t) == OpSucceeds(t) \/ OpFails(t) \/ NestedOpen(t)

Execute(t) == Admit(t) \/ Reject(t)

Next ==
  \/ \E t \in Tasks : Execute(t) \/ OpReturns(t) \/ Wake(t) \/ CancelSleep(t)
  \/ Tick

Spec == Init /\ [][Next]_vars

\* Every operation carries a gRPC deadline (timeout=request_timeout_seconds)
\* and asyncio runs a ready task and a due timer, so these cannot stall.
Fairness ==
  /\ \A t \in Tasks : WF_vars(OpReturns(t)) /\ WF_vars(Wake(t))
  /\ WF_vars(Tick)

FairSpec == Spec /\ Fairness

\* The application keeps calling: a task outside execute enters it again.
KeepsCalling == \A t \in Tasks : WF_vars(Execute(t))

-----------------------------------------------------------------------------
(* Properties.                                                              *)

\* The type of every variable.
TypeOK ==
  /\ failure_count \in Nat
  /\ circuit_open \in BOOLEAN
  /\ since_opened \in 0..WaitDuration
  /\ pc \in [Tasks -> {"idle", "op", "sleep"}]
  /\ attempt \in [Tasks -> Nat]
  /\ retried \in [Tasks -> BOOLEAN]
  /\ sleep_left \in [Tasks -> Nat]
  /\ result \in [Tasks -> Outcome]

\* The count at which the breaker opens: a threshold below one acts as one.
Trip == IF FailureThreshold < 1 THEN 1 ELSE FailureThreshold

InFlight == {t \in Tasks : pc[t] # "idle"}

\* The flag and the count never disagree, whatever the tasks in flight
\* record late: the breaker is open exactly while the failures counted since
\* the last success or probe reach the threshold (_check_circuit,
\* _record_success, _record_failure).
BreakerAgrees == circuit_open <=> failure_count >= Trip

\* Failures that arrive after the breaker opened come only from calls already
\* in flight, and each call counts once however often it was retried: the
\* count cannot run past the threshold by as much as the number of tasks.
LateFailuresBounded ==
  failure_count + Cardinality(InFlight) < Trip + Cardinality(Tasks)

\* The outcome of a call says how it was tried: "exhausted" only after every
\* retry the policy allows, a bare retryable error only if it allows none,
\* and a call that has not retried is on its first attempt (execute 85-104).
OutcomeExplained ==
  \A t \in Tasks :
    /\ retried[t] <=> attempt[t] > 0
    /\ attempt[t] > 0 => attempt[t] <= MaxRetryAttempts
    /\ pc[t] = "sleep" => retried[t]
    /\ pc[t] = "idle" =>
         /\ result[t] = "exhausted" =>
              attempt[t] = MaxRetryAttempts /\ MaxRetryAttempts >= 1
         /\ IsRetryable(result[t]) => MaxRetryAttempts = 0
         /\ result[t] \in {"rejected", "assertion"} => attempt[t] = 0

\* A late failure of a call in flight does not push the end of the open
\* window back: the wait runs from the moment the breaker opened.
OpenWindowFixed ==
  [][circuit_open /\ circuit_open' => since_opened' >= since_opened]_vars

\* While the breaker stays open no call gets through to the server that was
\* not already in flight.
OpenAdmitsNobody ==
  [][circuit_open /\ circuit_open' => InFlight' \subseteq InFlight]_vars

\* Every call of execute comes back, whatever the server answers.
EveryCallReturns == \A t \in Tasks : pc[t] # "idle" ~> pc[t] = "idle"

\* An open breaker is not open for ever if the application keeps calling.
BreakerRecovers == KeepsCalling => (circuit_open ~> ~circuit_open)

\* Tries of op the current call has started; the sleep belongs to the last.
Tries == [t \in Tasks |-> CASE pc[t] = "op"    -> attempt[t] + 1
                          [] pc[t] = "sleep" -> attempt[t]
                          [] OTHER           -> 0]

\* Each call keeps the contract of UnaryContract: refused before its first
\* try, or tried within the policy and ended with an outcome that says why.
Contract == INSTANCE UnaryContract WITH
  MaxTries <- MaxRetryAttempts + 1,
  Errors <- OpErrors,
  Retryable <- {e \in OpErrors : IsRetryable(e)},
  calling <- InFlight,
  tries <- Tries,
  result <- result

KeepsContract == Contract!Spec
=============================================================================
