--------------------------- MODULE UnaryContract ---------------------------
(* What GrpcResilience.execute promises each of its callers, without the    *)
(* breaker's counters, the clock or the retry delays: a call is refused     *)
(* before its first try, or is tried at most MaxTries times and ends with   *)
(* one outcome, which says why it ended (execute's docstring).              *)
EXTENDS Integers

CONSTANTS
  Tasks,      \* the callers
  MaxTries,   \* tries the policy allows a call, max_retry_attempts + 1
  Errors,     \* what one try may raise
  Retryable   \* the errors worth another try

VARIABLES
  calling,    \* the tasks inside a call
  tries,      \* times the current call invoked the operation, 0 outside
  result      \* how the latest call of the task ended

vars == <<calling, tries, result>>

Init ==
  /\ calling = {}
  /\ tries = [t \in Tasks |-> 0]
  /\ result = [t \in Tasks |-> "none"]

\* The call is let through and makes its first try.
Start(t) ==
  /\ t \notin calling
  /\ MaxTries >= 1
  /\ calling' = calling \cup {t}
  /\ tries' = [tries EXCEPT ![t] = 1]
  /\ result' = [result EXCEPT ![t] = "none"]

\* The call ends without a try: the breaker is open, or the policy allows none.
Refuse(t) ==
  /\ t \notin calling
  /\ \/ result' = [result EXCEPT ![t] = "rejected"]
     \/ MaxTries < 1 /\ result' = [result EXCEPT ![t] = "assertion"]
  /\ UNCHANGED <<calling, tries>>

\* One more try, within the allowance.
Again(t) ==
  /\ t \in calling
  /\ tries[t] < MaxTries
  /\ tries' = [tries EXCEPT ![t] = @ + 1]
  /\ UNCHANGED <<calling, result>>

\* The outcomes a call may end with after n tries: a retryable error is
\* reported as such only when the policy allows a single try, and as an
\* exhausted retry only when every allowed try was made.
Outcomes(n) ==
  {"success"} \cup (Errors \ Retryable)
    \cup (IF n = MaxTries THEN IF n = 1 THEN Retryable ELSE {"exhausted"}
                          ELSE {})

Finish(t) ==
  /\ t \in calling
  /\ calling' = calling \ {t}
  /\ \E r \in Outcomes(tries[t]) : result' = [result EXCEPT ![t] = r]
  /\ tries' = [tries EXCEPT ![t] = 0]

Next == \E t \in Tasks : Start(t) \/ Refuse(t) \/ Again(t) \/ Finish(t)

Spec == Init /\ [][Next]_vars
=============================================================================
