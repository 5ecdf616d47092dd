------------------------ MODULE LiveDataStreamProofs ------------------------
(* Theorems about LiveDataStream, for every number of tasks and of frames,  *)
(* every reconnect allowance and either kind of callback.                   *)
EXTENDS LiveDataStream, TLAPS

USE StreamAssumption DEF handle, counts, users, vars

\* How the connections made since the last frame relate to the attempt
\* counter wherever the task is suspended.
ReconnectInv ==
  /\ connects <= 1 + Allowance
  /\ pc = "created" => attempt = 0 /\ connects = 0
  /\ pc = "sleep" => connects <= attempt /\ attempt <= MaxRetryAttempts
  /\ pc = "callback" => data_received
  /\ pc \in {"read", "callback"} =>
       IF data_received THEN connects = 0
                        ELSE connects <= attempt + 1 /\ attempt <= Allowance

\* An error is told once, by the last thing the task does.
EndInv ==
  /\ errors = IF pc = "on_error" THEN 1 ELSE IF pc = "finished" THEN errors ELSE 0
  /\ pc = "finished" => stopped \/ errors = 1 \/ interrupted
  /\ cancelling => stopped
  /\ done => pc = "finished"
  /\ \A u \in Users : result[u] = "waited" => pc = "finished"

-----------------------------------------------------------------------------
(* Type correctness.                                                        *)

LEMMA TypeStep == TypeOK /\ [Next]_vars => TypeOK'
<1> SUFFICES ASSUME TypeOK, [Next]_vars PROVE TypeOK'
  OBVIOUS
<1> USE DEF TypeOK
<1>a. ASSUME UNCHANGED <<handle, users, counts>>, pc' \in {"read", "finished"}
      PROVE  TypeOK'
  BY <1>a
<1>b. ASSUME UNCHANGED <<handle, users, attempt>>, Tell PROVE TypeOK'
  BY <1>b DEF Tell
<1>1. CASE Start \/ Wake
  <2>1. UNCHANGED <<handle, users>> /\ Subscribe
    BY <1>1 DEF Start, Wake, Runs
  <2>2. CASE Finish
    BY <1>a, <2>1, <2>2 DEF Finish
  <2>3. CASE Tell /\ UNCHANGED attempt
    BY <1>b, <2>1, <2>3
  <2>4. ASSUME pc' = "read", data_received' = FALSE, connects' \in {connects, connects + 1},
               UNCHANGED <<attempt, frames, errors, interrupted>>
        PROVE  TypeOK'
    <3>1. connects' \in Nat
      BY <2>4
    <3>2. data_received' \in BOOLEAN
      BY <2>4
    <3>3. QED
      BY <2>1, <2>4, <3>1, <3>2
  <2>5. QED
    BY <2>1, <2>2, <2>3, <2>4 DEF Subscribe
<1>2. CASE Frame
  <2>1. CASE stopped
    BY <1>2, <1>a, <2>1 DEF Frame, Runs, Stopping, Finish
  <2>2. CASE ~stopped
    <3>1. /\ pc' = "callback" /\ data_received' = TRUE
          /\ attempt' \in Nat /\ frames' \in Nat /\ connects' \in Nat
          /\ UNCHANGED <<handle, users, errors, interrupted>>
      BY <1>2, <2>2 DEF Frame, Runs, Stopping
    <3>2. data_received' \in BOOLEAN
      BY <3>1
    <3>3. QED
      BY <3>1, <3>2
  <2>3. QED
    BY <2>1, <2>2
<1>3. CASE StreamBreaks
  <2>1. Attempts \in Nat
    BY DEF Attempts
  <2>2. QED
    BY <1>3, <2>1 DEF StreamBreaks, Runs, Finish, Tell
<1>4. CASE StreamFails
  BY <1>4 DEF StreamFails, Runs, Finish, Tell
<1>5. CASE CallbackEnds \/ OnErrorEnds \/ Interrupted
  BY <1>5 DEF CallbackEnds, OnErrorEnds, Interrupted, Runs, Finish
<1>6. CASE CancelDelivered
  BY <1>6 DEF CancelDelivered
<1>7. CASE DoneCallback \/ SelfStop
  BY <1>7 DEF DoneCallback, SelfStop, CancelTask
<1>8. ASSUME NEW u \in Users, Stop(u) \/ StopAgain(u) \/ StopReturns(u) \/ StopAbandoned(u)
      PROVE  TypeOK'
  BY <1>8 DEF Stop, CancelTask, StopAgain, StopReturns, StopAbandoned
<1>9. CASE UNCHANGED vars
  BY <1>9
<1>10. QED
  BY <1>1, <1>2, <1>3, <1>4, <1>5, <1>6, <1>7, <1>8, <1>9 DEF Next, Loop, Server

\* Every reachable state is well typed.
THEOREM TypeCorrect == Spec => []TypeOK
<1>1. 0 \in Nat
  OBVIOUS
<1>2. Init => TypeOK
  BY <1>1, Zenon DEF Init, TypeOK
<1>3. QED
  BY <1>2, TypeStep, PTL DEF Spec

-----------------------------------------------------------------------------
(* Reconnects.                                                              *)

LEMMA SubscribeReconnects ==
  ASSUME TypeOK, ReconnectInv, Subscribe, pc \in {"created", "sleep"}
  PROVE  ReconnectInv'
  BY DEF TypeOK, ReconnectInv, Allowance, Subscribe, Tell, Finish

LEMMA ReconnectStep == TypeOK /\ ReconnectInv /\ [Next]_vars => ReconnectInv'
<1> SUFFICES ASSUME TypeOK, ReconnectInv, [Next]_vars PROVE ReconnectInv'
  OBVIOUS
<1> USE DEF TypeOK, ReconnectInv, Allowance
<1>1. CASE Start \/ Wake
  BY <1>1, SubscribeReconnects DEF Start, Wake, Runs
<1>2. CASE Frame
  BY <1>2 DEF Frame, Runs, Finish
<1>3. CASE StreamBreaks
  BY <1>3 DEF StreamBreaks, Runs, Finish, Tell, Attempts, GivesUp
<1>4. CASE StreamFails
  BY <1>4 DEF StreamFails, Runs, Finish, Tell
<1>5. CASE CallbackEnds \/ OnErrorEnds \/ Interrupted
  BY <1>5 DEF CallbackEnds, OnErrorEnds, Interrupted, Runs, Finish
<1>6. CASE CancelDelivered
  BY <1>6 DEF CancelDelivered
<1>7. CASE UNCHANGED <<pc, counts>>
  BY <1>7
<1>8. QED
  BY <1>1, <1>2, <1>3, <1>4, <1>5, <1>6, <1>7
  DEF Next, Loop, Server, DoneCallback, SelfStop, Stop, StopAgain, StopReturns,
      StopAbandoned

\* Whatever the server does, a subscription that gets no frame is made at most
\* max_retry_attempts + 1 times.
THEOREM ReconnectsTheorem == Spec => []ReconnectsBounded
<1>1. Init => ReconnectInv
  BY DEF Init, ReconnectInv, Allowance
<1>2. ReconnectInv => ReconnectsBounded
  BY DEF ReconnectInv, Allowance, ReconnectsBounded
<1>3. QED
  BY <1>1, <1>2, ReconnectStep, TypeCorrect, PTL DEF Spec

-----------------------------------------------------------------------------
(* The end of the stream.                                                   *)

LEMMA EndStep == TypeOK /\ EndInv /\ [Next]_vars => EndInv'
<1> SUFFICES ASSUME TypeOK, EndInv, [Next]_vars PROVE EndInv'
  OBVIOUS
<1> USE DEF TypeOK, EndInv
<1>1. CASE Start \/ Wake
  BY <1>1 DEF Start, Wake, Runs, Subscribe, Tell, Finish
<1>2. CASE Frame
  BY <1>2 DEF Frame, Runs, Stopping, Finish
<1>3. CASE StreamBreaks
  BY <1>3 DEF StreamBreaks, Runs, Finish, Tell
<1>4. CASE StreamFails
  BY <1>4 DEF StreamFails, Runs, Finish, Tell
<1>5. CASE CallbackEnds \/ OnErrorEnds \/ Interrupted
  BY <1>5 DEF CallbackEnds, OnErrorEnds, Interrupted, Runs, Finish
<1>6. CASE CancelDelivered
  BY <1>6 DEF CancelDelivered
<1>7. CASE DoneCallback \/ SelfStop
  BY <1>7 DEF DoneCallback, TaskDone, SelfStop, CancelTask
<1>8. ASSUME NEW u \in Users, Stop(u) \/ StopAgain(u) \/ StopReturns(u) \/ StopAbandoned(u)
      PROVE  EndInv'
  BY <1>8 DEF Stop, CancelTask, StopAgain, StopReturns, StopAbandoned
<1>9. CASE UNCHANGED vars
  BY <1>9
<1>10. QED
  BY <1>1, <1>2, <1>3, <1>4, <1>5, <1>6, <1>7, <1>8, <1>9 DEF Next, Loop, Server

LEMMA EndInvariant == Spec => []EndInv
<1>1. Init => EndInv
  BY DEF Init, EndInv
<1>2. QED
  BY <1>1, EndStep, TypeCorrect, PTL DEF Spec

\* The stream ends because it was stopped, gave up aloud, or was cancelled
\* from outside the handle.
THEOREM EndTheorem == Spec => []EndExplained
<1>1. EndInv => EndExplained
  BY DEF EndInv, EndExplained
<1>2. QED
  BY <1>1, EndInvariant, PTL

\* The stop() that waited has waited for the end of the background task.
THEOREM StopWaitsTheorem == Spec => []StopWaits
<1>1. EndInv => StopWaits
  BY DEF EndInv, StopWaits
<1>2. QED
  BY <1>1, EndInvariant, PTL

-----------------------------------------------------------------------------
(* The loop and its handle implement Subscription.                          *)

LEMMA ContractStep ==
  TypeOK /\ TypeOK' /\ EndInv /\ EndInv' /\ [Next]_vars
    => [Contract!Next]_(Contract!vars)
<1> SUFFICES ASSUME TypeOK, TypeOK', EndInv, EndInv', [Next]_vars
             PROVE  [Contract!Next]_(Contract!vars)
  OBVIOUS
<1>1. ASSUME pc # "finished", pc' = "finished", UNCHANGED frames PROVE Contract!Next
  BY <1>1 DEF Contract!End, Contract!Next, Phase
<1>2. ASSUME pc \in {"created", "sleep", "read"}, ~stopped, ~stopped',
             UNCHANGED frames, errors' = errors + 1, pc' = "on_error"
      PROVE  Contract!Next
  BY <1>2 DEF EndInv, Contract!Tell, Contract!Next, Phase
<1>3. ASSUME pc # "finished", ~stopped, stopped', UNCHANGED <<pc, errors, frames>>
      PROVE  Contract!Next
  BY <1>3 DEF Contract!AskStop, Contract!Next, Phase
<1>4. ASSUME pc # "finished" <=> pc' # "finished", UNCHANGED <<stopped, errors, frames>>
      PROVE  UNCHANGED Contract!vars
  BY <1>4 DEF Contract!vars, Phase
<1>5. CASE Start \/ Wake \/ StreamBreaks \/ StreamFails
  <2>1. /\ pc \in {"created", "sleep", "read"} /\ UNCHANGED <<stopped, frames>>
        /\ \/ stopped /\ Finish
           \/ ~stopped /\ Tell
           \/ pc' \in {"read", "sleep"} /\ UNCHANGED errors
    BY <1>5 DEF Start, Wake, StreamBreaks, StreamFails, Runs, Subscribe, Tell, Finish
  <2>2. CASE Finish
    BY <1>1, <2>1, <2>2 DEF Finish
  <2>3. CASE ~stopped /\ Tell
    BY <1>2, <2>1, <2>3 DEF Tell
  <2>4. CASE pc' \in {"read", "sleep"} /\ UNCHANGED errors
    BY <1>4, <2>1, <2>4
  <2>5. QED
    BY <2>1, <2>2, <2>3, <2>4
<1>6. CASE Frame
  <2>1. CASE stopped
    BY <1>1, <1>6, <2>1 DEF Frame, Runs, Stopping, Finish
  <2>2. CASE ~stopped
    <3>1. /\ pc = "read" /\ pc' = "callback" /\ ~stopped'
          /\ frames' = frames + 1 /\ UNCHANGED errors
      BY <1>6, <2>2 DEF Frame, Runs, Stopping
    <3>2. Phase = "active" /\ Phase' = "active"
      BY <2>2, <3>1 DEF EndInv, Phase
    <3>3. QED
      BY <3>1, <3>2 DEF Contract!Deliver, Contract!Next
  <2>3. QED
    BY <2>1, <2>2
<1>7. CASE CallbackEnds \/ OnErrorEnds \/ Interrupted
  BY <1>1, <1>4, <1>7 DEF CallbackEnds, OnErrorEnds, Interrupted, Runs, Finish
<1>8. CASE CancelDelivered
  BY <1>1, <1>4, <1>8 DEF CancelDelivered
<1>9. ASSUME NEW u \in Users, Stop(u) PROVE [Contract!Next]_(Contract!vars)
  <2>1. ~stopped /\ stopped' /\ UNCHANGED <<pc, errors, frames>>
    BY <1>9 DEF Stop
  <2>2. CASE pc = "finished"
    BY <2>1, <2>2 DEF Phase, Contract!vars
  <2>3. CASE pc # "finished"
    BY <1>3, <2>1, <2>3
  <2>4. QED
    BY <2>2, <2>3
<1>10. CASE SelfStop
  BY <1>3, <1>10 DEF SelfStop
<1>11. CASE UNCHANGED <<stopped, pc, errors, frames>>
  BY <1>4, <1>11
<1>12. QED
  BY <1>5, <1>6, <1>7, <1>8, <1>9, <1>10, <1>11
  DEF Next, Loop, Server, DoneCallback, StopAgain, StopReturns, StopAbandoned

\* Nothing reaches the application after stop(), and an error only once.
THEOREM SubscriptionTheorem == Spec => KeepsSubscription
<1>1. Init => Contract!Init
  BY DEF Init, Phase, Contract!Init
<1>2. QED
  BY <1>1, ContractStep, TypeCorrect, EndInvariant, PTL
  DEF Spec, KeepsSubscription, Contract!Spec
=============================================================================
