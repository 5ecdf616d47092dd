------------------------ MODULE ClientServicesProofs ------------------------
(* Theorems about Client, with Resilience, Config and Stubs: the unary calls *)
(* of each service run through one breaker, whatever the calls of other     *)
(* services, the subscriptions and close() do in between; and each request  *)
(* arrives where the variables of its service point, at a handler that      *)
(* reads it.                                                                *)
EXTENDS ClientProofs

USE DEF setup, life, unary, streaming, client_vars

-----------------------------------------------------------------------------
(* What Client leaves to its types: the locals of the calls.                *)

Ends == {"none", "success", "rejected", "assertion", "exhausted",
         "retryable_status", "other_status", "cancelled", "unknown"}

LocalsInv ==
  /\ retried \in [Callers -> BOOLEAN]
  /\ result \in [Callers -> Ends]

LEMMA LocalsInit == ClientInit => LocalsInv
<1> SUFFICES ASSUME ClientInit PROVE LocalsInv
  OBVIOUS
<1>1. retried = [c \in Callers |-> FALSE] /\ result = [c \in Callers |-> "none"]
  BY Zenon DEF ClientInit
<1>2. QED
  BY <1>1 DEF LocalsInv, Ends

LEMMA LocalsStep == LocalsInv /\ [ClientNext]_client_vars => LocalsInv'
<1> SUFFICES ASSUME LocalsInv, [ClientNext]_client_vars PROVE LocalsInv'
  OBVIOUS
<1>1. ASSUME NEW c \in Callers, NEW r, Call(c, r) PROVE LocalsInv'
  BY <1>1 DEF Call, LocalsInv, Ends
<1>2. ASSUME NEW c \in Callers, NEW e, Fails(c, e) PROVE LocalsInv'
  <2>1. CASE MayRetry(c, e)
    BY <1>2, <2>1 DEF Fails, LocalsInv
  <2>2. CASE ~MayRetry(c, e)
    <3>1. PICK z \in Ends : result' = [result EXCEPT ![c] = z] /\ retried' = retried
      BY <1>2, <2>2 DEF Fails, Errors, Ends
    <3>2. QED
      BY <3>1 DEF LocalsInv
  <2>3. QED
    BY <2>1, <2>2
<1>3. ASSUME NEW c \in Callers, Succeeds(c) PROVE LocalsInv'
  BY <1>3 DEF Succeeds, LocalsInv, Ends
<1>4. ASSUME UNCHANGED <<retried, result>> PROVE LocalsInv'
  BY <1>4 DEF LocalsInv
<1>5. CASE FromEnv \/ Close \/ CloseNext \/ CloseCancelled \/ Tick \/ UNCHANGED client_vars
  BY <1>4, <1>5 DEF FromEnv, Close, CloseNext, CloseCancelled, Tick
<1>6. ASSUME NEW c \in Callers, NEW r, CallMissing(c, r) \/ Wake(c) PROVE LocalsInv'
  BY <1>4, <1>6 DEF CallMissing, Wake
<1>7. ASSUME NEW x \in Subscriptions,
             \/ Subscribe(x) \/ Connect(x) \/ Frame(x)
             \/ Breaks(x) \/ BreaksForGood(x) \/ CutOff(x)
      PROVE  LocalsInv'
  BY <1>4, <1>7 DEF Subscribe, Connect, Frame, Breaks, BreaksForGood, CutOff
<1>8. QED
  BY <1>1, <1>2, <1>3, <1>5, <1>6, <1>7 DEF ClientNext, TryEnds

-----------------------------------------------------------------------------
(* What a breaker sees of the client.                                       *)

\* The variables of the breaker of service s are those of its sub-client,
\* or of the one that is made when it is first used.
LEMMA BreakerVars ==
  ASSUME NEW s \in Services
  PROVE  Breaker(s)!vars =
           <<<<Sub(s).failures, Sub(s).open, Sub(s).since>>,
             <<[c \in Of(s) |-> IF pc[c] = "refused" THEN "op" ELSE pc[c]],
               [c \in Of(s) |-> attempt[c]], [c \in Of(s) |-> retried[c]],
               [c \in Of(s) |-> 0], [c \in Of(s) |-> result[c]]>>>>
  BY DEF Breaker!vars, Breaker!breaker, Breaker!call, Sub, NewSub

LEMMA BreakerInit ==
  ASSUME ClientInit, NEW s \in Services
  PROVE  Breaker(s)!Init
<1>1. /\ subs = [x \in Services |-> None]
      /\ pc = [c \in Callers |-> "idle"] /\ attempt = [c \in Callers |-> 0]
      /\ retried = [c \in Callers |-> FALSE] /\ result = [c \in Callers |-> "none"]
  BY Zenon DEF ClientInit
<1>2. QED
  BY <1>1 DEF Breaker!Init, Of
LEMMA SubFields ==
  ASSUME NEW s \in Services
  PROVE  /\ (IF subs[s] = None THEN 0 ELSE subs[s].failures) = Sub(s).failures
         /\ (IF subs[s] = None THEN FALSE ELSE subs[s].open) = Sub(s).open
         /\ (IF subs[s] = None THEN WaitDuration ELSE subs[s].since) = Sub(s).since
         /\ (IF subs'[s] = None THEN 0 ELSE subs'[s].failures) = Sub(s)'.failures
         /\ (IF subs'[s] = None THEN FALSE ELSE subs'[s].open) = Sub(s)'.open
         /\ (IF subs'[s] = None THEN WaitDuration ELSE subs'[s].since) = Sub(s)'.since
  BY DEF Sub, NewSub

LEMMA SubAfter ==
  ASSUME ClientTypeOK, NEW s \in Services, NEW b \in SubClient,
         subs' = [subs EXCEPT ![s] = b]
  PROVE  Sub(s)' = b /\ subs'[s] = b /\ \A x \in Services \ {s} : Sub(x)' = Sub(x)
<1>1. subs'[s] = b /\ \A x \in Services \ {s} : subs'[x] = subs[x]
  BY DEF ClientTypeOK
<1>2. QED
  BY <1>1, NoneAssumption DEF Sub

\* A step that leaves the sub-client of a service and the calls of it alone
\* is none to the breaker of the service.
LEMMA BreakerRests ==
  ASSUME NEW s \in Services, Sub(s)' = Sub(s),
         \A c \in Of(s) : /\ pc'[c] = pc[c] /\ attempt'[c] = attempt[c]
                         /\ retried'[c] = retried[c] /\ result'[c] = result[c]
  PROVE  UNCHANGED Breaker(s)!vars
<1>1. Of(s)' = Of(s)
  BY DEF Of, Callers
<1>2. UNCHANGED [c \in Of(s) |-> IF pc[c] = "refused" THEN "op" ELSE pc[c]]
  OBVIOUS
<1>3. UNCHANGED [c \in Of(s) |-> attempt[c]] /\ UNCHANGED [c \in Of(s) |-> retried[c]]
      /\ UNCHANGED [c \in Of(s) |-> result[c]]
  OBVIOUS
<1>4. UNCHANGED <<Sub(s).failures, Sub(s).open, Sub(s).since>>
  OBVIOUS
<1>5. QED
  BY <1>2, <1>3, <1>4 DEF Breaker!vars, Breaker!breaker, Breaker!call, Sub, NewSub

\* A call that ends where it began.
LEMMA RestsIdle ==
  ASSUME ClientTypeOK, LocalsInv, NEW s \in Services, NEW c \in Of(s), pc[c] = "idle",
         NEW z, pc' = pc, result' = [result EXCEPT ![c] = z]
  PROVE  Breaker(s)!Return(c, z)
<1>1. [d \in Of(s) |-> IF pc'[d] = "refused" THEN "op" ELSE pc'[d]]
        = [[d \in Of(s) |-> IF pc[d] = "refused" THEN "op" ELSE pc[d]] EXCEPT ![c] = "idle"]
  BY DEF ClientTypeOK, Of
<1>2. [d \in Of(s) |-> result'[d]] = [[d \in Of(s) |-> result[d]] EXCEPT ![c] = z]
  BY DEF LocalsInv, Of
<1>3. QED
  BY <1>1, <1>2 DEF Breaker!Return

LEMMA CallBreaker ==
  ASSUME ClientTypeOK, ClientInv, LocalsInv, NEW c \in Callers, NEW r, Call(c, r),
         NEW s \in Services, s = c[1]
  PROVE  Breaker(s)!Admit(c) \/ Breaker(s)!Reject(c)
<1>1. c \in Of(s) /\ Sub(s) \in SubClient
  BY SubIs DEF Of, ClientInv
<1>2. /\ [d \in Of(s) |-> attempt'[d]] = [[d \in Of(s) |-> attempt[d]] EXCEPT ![c] = 0]
      /\ [d \in Of(s) |-> retried'[d]] = [[d \in Of(s) |-> retried[d]] EXCEPT ![c] = FALSE]
  BY DEF Call, ClientTypeOK, LocalsInv, Of
<1>3. CASE Passes(Sub(s))
  <2>1. PICK b : b = Checked(Sub(s))
    OBVIOUS
  <2>2. /\ b \in SubClient /\ b.open = FALSE /\ b.since = Sub(s).since
        /\ b.failures = IF Sub(s).open THEN 0 ELSE Sub(s).failures
    BY <1>1, <1>3, <2>1, CheckedIs
  <2>3. subs' = [subs EXCEPT ![s] = b] /\ pc[c] = "idle"
    BY <2>1 DEF Call
  <2>4. Sub(s)' = b
    BY <2>2, <2>3, SubAfter
  <2>5. Breaker(s)!CheckCircuit
    BY <1>3, <2>2, <2>4
    DEF Passes, Breaker!CheckCircuit, Breaker!CheckPasses, Breaker!ResetByProbe, Sub, NewSub
  <2>6. Breaker(s)!NewLocals(c)
    BY <1>2 DEF Breaker!NewLocals
  <2>7. CASE 0 <= MaxRetryAttempts
    <3>1. pc' = [pc EXCEPT ![c] = Try(s)] /\ result' = [result EXCEPT ![c] = "none"]
      BY <1>3, <2>7 DEF Call
    <3>2. [d \in Of(s) |-> IF pc'[d] = "refused" THEN "op" ELSE pc'[d]]
            = [[d \in Of(s) |-> IF pc[d] = "refused" THEN "op" ELSE pc[d]] EXCEPT ![c] = "op"]
      BY <1>1, <3>1 DEF Try, ClientTypeOK, Of
    <3>3. [d \in Of(s) |-> result'[d]] = [[d \in Of(s) |-> result[d]] EXCEPT ![c] = "none"]
      BY <1>1, <3>1 DEF LocalsInv, Of
    <3>4. QED
      BY <1>1, <2>3, <2>5, <2>6, <2>7, <3>2, <3>3 DEF Breaker!Admit
  <2>8. CASE ~(0 <= MaxRetryAttempts)
    <3>1. pc' = pc /\ result' = [result EXCEPT ![c] = "assertion"]
      BY <1>3, <2>8 DEF Call
    <3>2. Breaker(s)!Return(c, "assertion")
      BY <1>1, <2>3, <3>1, RestsIdle
    <3>3. QED
      BY <1>1, <2>3, <2>5, <2>6, <2>8, <3>2 DEF Breaker!Admit
  <2>9. QED
    BY <2>7, <2>8
<1>4. CASE ~Passes(Sub(s))
  <2>1. /\ subs' = [subs EXCEPT ![s] = Sub(s)] /\ pc' = pc /\ pc[c] = "idle"
        /\ result' = [result EXCEPT ![c] = "rejected"]
    BY <1>1, <1>4, CheckedIs DEF Call
  <2>2. Sub(s)' = Sub(s)
    BY <1>1, <2>1, SubAfter
  <2>3. Breaker(s)!CheckRaises
    <3>1. ~Breaker(s)!CheckPasses
      BY <1>4, SubFields DEF Passes, Breaker!CheckPasses
    <3>2. UNCHANGED Breaker(s)!breaker
      <4>1. /\ Sub(s)'.failures = Sub(s).failures /\ Sub(s)'.open = Sub(s).open
            /\ Sub(s)'.since = Sub(s).since
        BY <2>2, Zenon
      <4>2. /\ UNCHANGED (IF subs[s] = None THEN 0 ELSE subs[s].failures)
            /\ UNCHANGED (IF subs[s] = None THEN FALSE ELSE subs[s].open)
            /\ UNCHANGED (IF subs[s] = None THEN WaitDuration ELSE subs[s].since)
        BY <4>1, SubFields, Zenon
      <4>3. QED
        BY <4>2, Zenon DEF Breaker!breaker
    <3>3. QED
      BY <3>1, <3>2 DEF Breaker!CheckRaises
  <2>4. Breaker(s)!NewLocals(c) /\ Breaker(s)!Return(c, "rejected")
    BY <1>1, <1>2, <2>1, RestsIdle DEF Breaker!NewLocals
  <2>5. QED
    BY <1>1, <2>1, <2>3, <2>4 DEF Breaker!Reject
<1>5. QED
  BY <1>3, <1>4

LEMMA TryBreaker ==
  ASSUME ClientTypeOK, ClientInv, LocalsInv, NEW c \in Callers, TryEnds(c) \/ Wake(c),
         NEW s \in Services, s = c[1]
  PROVE  Breaker(s)!OpReturns(c) \/ Breaker(s)!Wake(c)
<1>1. c \in Of(s) /\ subs[s] \in SubClient /\ subs[s] = Sub(s)
  BY NoneAssumption DEF Of, TryEnds, Succeeds, Fails, Wake, ClientInv, MadeInv, ClientTypeOK, Sub
<1>2. CASE Succeeds(c)
  <2>1. PICK b : b = [Sub(s) EXCEPT !.failures = 0, !.open = FALSE]
    OBVIOUS
  <2>2. b \in SubClient /\ b.failures = 0 /\ b.open = FALSE /\ b.since = Sub(s).since
    BY <1>1, <2>1 DEF SubClient
  <2>3. /\ subs' = [subs EXCEPT ![s] = b] /\ pc' = [pc EXCEPT ![c] = "idle"]
        /\ result' = [result EXCEPT ![c] = "success"] /\ pc[c] = "op"
        /\ UNCHANGED <<attempt, retried>>
    BY <1>1, <1>2, <2>1 DEF Succeeds, ClientTypeOK
  <2>4. Sub(s)' = b
    BY <2>2, <2>3, SubAfter
  <2>5. /\ [d \in Of(s) |-> IF pc'[d] = "refused" THEN "op" ELSE pc'[d]]
           = [[d \in Of(s) |-> IF pc[d] = "refused" THEN "op" ELSE pc[d]] EXCEPT ![c] = "idle"]
        /\ [d \in Of(s) |-> result'[d]]
           = [[d \in Of(s) |-> result[d]] EXCEPT ![c] = "success"]
    BY <1>1, <2>3 DEF ClientTypeOK, LocalsInv, Of
  <2>6. Breaker(s)!RecordSuccess
    BY <2>2, <2>4 DEF Breaker!RecordSuccess, Sub, NewSub
  <2>7. Breaker(s)!Return(c, "success")
    BY <2>5 DEF Breaker!Return
  <2>8. Breaker(s)!OpSucceeds(c)
    BY <1>1, <2>3, <2>6, <2>7 DEF Breaker!OpSucceeds
  <2>9. QED
    BY <2>8 DEF Breaker!OpReturns
<1>3. ASSUME NEW e, Fails(c, e) PROVE Breaker(s)!OpFails(c)
  <2>1. /\ e \in {"retryable_status", "other_status", "cancelled", "unknown"}
        /\ Retryable(e) = Breaker(s)!IsRetryable(e)
        /\ MayRetry(c, e) = Breaker(s)!MayRetry(c, e)
    BY <1>1, <1>3 DEF Fails, Errors, Retryable, MayRetry, Breaker!IsRetryable, Breaker!MayRetry
  <2>2. /\ pc[c] \in {"op", "refused"}
        /\ [d \in Of(s) |-> IF pc[d] = "refused" THEN "op" ELSE pc[d]][c] = "op"
    BY <1>1, <1>3 DEF Fails
  <2>3. CASE MayRetry(c, e)
    <3>1. /\ pc' = [pc EXCEPT ![c] = "sleep"] /\ attempt' = [attempt EXCEPT ![c] = @ + 1]
          /\ retried' = [retried EXCEPT ![c] = TRUE] /\ UNCHANGED <<result, subs>>
      BY <1>3, <2>3 DEF Fails
    <3>2. /\ [d \in Of(s) |-> IF pc'[d] = "refused" THEN "op" ELSE pc'[d]]
             = [[d \in Of(s) |-> IF pc[d] = "refused" THEN "op" ELSE pc[d]] EXCEPT ![c] = "sleep"]
          /\ [d \in Of(s) |-> attempt'[d]] = [[d \in Of(s) |-> attempt[d]] EXCEPT ![c] = @ + 1]
          /\ [d \in Of(s) |-> retried'[d]] = [[d \in Of(s) |-> retried[d]] EXCEPT ![c] = TRUE]
          /\ UNCHANGED [d \in Of(s) |-> result[d]]
      BY <1>1, <3>1 DEF ClientTypeOK, LocalsInv, Of
    <3>3. [d \in Of(s) |-> 0]
            = [[d \in Of(s) |-> 0] EXCEPT ![c] = 0 * ([d \in Of(s) |-> attempt[d]][c] + 1)]
      BY <1>1 DEF ClientTypeOK, Of
    <3>4. Breaker(s)!BeforeRetry
      BY <3>1 DEF Breaker!BeforeRetry, Breaker!breaker
    <3>5. Breaker(s)!RetryLater(c, e)
      BY <2>1, <2>2, <2>3, <3>2, <3>3, <3>4 DEF Breaker!RetryLater, Breaker!Delay
    <3>6. QED
      BY <2>1, <3>5 DEF Breaker!OpFails
  <2>4. CASE ~MayRetry(c, e)
    <3>1. PICK opens : opens = (~subs[s].open /\ subs[s].failures + 1 >= FailureThreshold)
      OBVIOUS
    <3>2. PICK b : b = [subs[s] EXCEPT !.failures = @ + 1, !.open = @ \/ opens,
                                       !.since = IF opens THEN 0 ELSE @]
      OBVIOUS
    <3>3. /\ b \in SubClient /\ b.failures = subs[s].failures + 1
          /\ b.open = (subs[s].open \/ opens) /\ b.since = IF opens THEN 0 ELSE subs[s].since
      <4>1. (subs[s].open \/ opens) \in BOOLEAN
        OBVIOUS
      <4>2. subs[s].failures + 1 \in Nat /\ (IF opens THEN 0 ELSE subs[s].since) \in 0..WaitDuration
        BY <1>1, ClientAssumption DEF SubClient
      <4>3. QED
        BY <1>1, <3>2, <4>1, <4>2 DEF SubClient
    <3>4. PICK z : z = IF retried[c] /\ Retryable(e) THEN "exhausted" ELSE e
      OBVIOUS
    <3>5. /\ pc' = [pc EXCEPT ![c] = "idle"] /\ result' = [result EXCEPT ![c] = z]
          /\ UNCHANGED <<attempt, retried>> /\ subs' = [subs EXCEPT ![s] = b]
      BY <1>3, <2>4, <3>1, <3>2, <3>4, Zenon DEF Fails
    <3>6. Sub(s)' = b
      BY <3>3, <3>5, SubAfter
    <3>7. /\ [d \in Of(s) |-> IF pc'[d] = "refused" THEN "op" ELSE pc'[d]]
             = [[d \in Of(s) |-> IF pc[d] = "refused" THEN "op" ELSE pc[d]] EXCEPT ![c] = "idle"]
          /\ [d \in Of(s) |-> result'[d]] = [[d \in Of(s) |-> result[d]] EXCEPT ![c] = z]
      BY <1>1, <3>5 DEF ClientTypeOK, LocalsInv, Of
    <3>8. z = Breaker(s)!Surfaced(c, e)
      BY <1>1, <2>1, <3>4 DEF Breaker!Surfaced
    <3>9. Breaker(s)!RecordFailure
      <4> subs[s] # None
        BY <1>1, NoneAssumption
      <4>1. Breaker(s)!Opens = opens
        BY <3>1 DEF Breaker!Opens
      <4>2. /\ Sub(s)'.failures = Sub(s).failures + 1
            /\ Sub(s)'.open = (Sub(s).open \/ opens)
            /\ Sub(s)'.since = IF opens THEN 0 ELSE Sub(s).since
        BY <1>1, <3>3, <3>6
      <4>3. QED
        BY <4>1, <4>2, SubFields, Zenon DEF Breaker!RecordFailure
    <3>10. Breaker(s)!Return(c, Breaker(s)!Surfaced(c, e))
      BY <3>7, <3>8 DEF Breaker!Return
    <3>11. Breaker(s)!GiveUp(c, e)
      BY <2>1, <2>2, <2>4, <3>5, <3>9, <3>10 DEF Breaker!GiveUp
    <3>12. QED
      BY <2>1, <3>11 DEF Breaker!OpFails
  <2>5. QED
    BY <2>3, <2>4
<1>4. CASE Wake(c)
  <2>1. /\ pc' = [pc EXCEPT ![c] = Try(s)] /\ pc[c] = "sleep"
        /\ UNCHANGED <<subs, attempt, retried, result>>
    BY <1>4 DEF Wake
  <2>2. [d \in Of(s) |-> IF pc'[d] = "refused" THEN "op" ELSE pc'[d]]
          = [[d \in Of(s) |-> IF pc[d] = "refused" THEN "op" ELSE pc[d]] EXCEPT ![c] = "op"]
    BY <1>1, <2>1 DEF Try, ClientTypeOK, Of
  <2>3. Breaker(s)!Wake(c)
    BY <1>1, <2>1, <2>2 DEF Breaker!Wake, Breaker!SleepOver, Breaker!breaker
  <2>4. QED
    BY <2>3
<1>5. QED
  BY <1>2, <1>3, <1>4 DEF TryEnds, Breaker!OpReturns

LEMMA TickBreaker ==
  ASSUME ClientTypeOK, Tick, NEW s \in Services
  PROVE  Breaker(s)!Tick \/ UNCHANGED Breaker(s)!vars
<1>1. UNCHANGED <<pc, attempt, retried, result>>
  BY DEF Tick
<1>2. CASE subs[s] # None /\ subs[s].since < WaitDuration
  <2>1. subs[s] \in SubClient /\ subs'[s] = [subs[s] EXCEPT !.since = @ + 1]
    BY <1>2 DEF Tick, ClientTypeOK
  <2>2. /\ subs'[s] \in SubClient /\ subs'[s].since = subs[s].since + 1
        /\ subs'[s].failures = subs[s].failures /\ subs'[s].open = subs[s].open
    BY <1>2, <2>1, ClientAssumption DEF SubClient
  <2>3. subs'[s] # None
    BY <2>2, NoneAssumption
  <2>4. Breaker(s)!Tick
    BY <1>1, <1>2, <2>2, <2>3 DEF Breaker!Tick
  <2>5. QED
    BY <2>4
<1>3. CASE ~(subs[s] # None /\ subs[s].since < WaitDuration)
  <2>1. subs'[s] = subs[s]
    BY <1>3 DEF Tick
  <2>2. Sub(s)' = Sub(s)
    BY <2>1 DEF Sub
  <2>3. QED
    BY <1>1, <2>2, BreakerRests
<1>4. QED
  BY <1>2, <1>3

\* A step that is no part of a call: at most it makes a sub-client.
LEMMA OtherBreaker ==
  ASSUME ClientTypeOK, ClientInv, NEW s \in Services,
         UNCHANGED <<pc, attempt, retried, result>>,
         \/ UNCHANGED subs
         \/ \E x \in Services : subs' = [subs EXCEPT ![x] = Sub(x)]
  PROVE  UNCHANGED Breaker(s)!vars
<1>1. CASE UNCHANGED subs
  BY <1>1, BreakerRests DEF Sub
<1>2. ASSUME NEW x \in Services, subs' = [subs EXCEPT ![x] = Sub(x)]
      PROVE  UNCHANGED Breaker(s)!vars
  <2>1. Sub(x) \in SubClient
    BY SubIs DEF ClientInv
  <2>2. Sub(s)' = Sub(s)
    BY <1>2, <2>1, SubAfter
  <2>3. QED
    BY <2>2, BreakerRests
<1>3. QED
  BY <1>1, <1>2

\* A step of a call is none to the breakers of the other services.
LEMMA OneBreaker ==
  ASSUME ClientTypeOK, ClientInv, LocalsInv, NEW c \in Callers,
         TryEnds(c) \/ Wake(c) \/ \E r : Call(c, r),
         NEW s \in Services, s # c[1]
  PROVE  UNCHANGED Breaker(s)!vars
<1>1. subs'[s] = subs[s]
  BY DEF TryEnds, Succeeds, Fails, Wake, Call, ClientTypeOK
<1>2. \A d \in Callers \ {c} :
        /\ pc'[d] = pc[d] /\ attempt'[d] = attempt[d]
        /\ retried'[d] = retried[d] /\ result'[d] = result[d]
  BY DEF TryEnds, Succeeds, Fails, Wake, Call, ClientTypeOK, LocalsInv
<1>3. Of(s) \subseteq Callers \ {c}
  BY DEF Of
<1>4. QED
  BY <1>1, <1>2, <1>3, BreakerRests DEF Sub

LEMMA BreakerStep ==
  ASSUME ClientTypeOK, ClientInv, LocalsInv, ClientNext, NEW s \in Services
  PROVE  Breaker(s)!Next \/ UNCHANGED Breaker(s)!vars
<1>1. CASE FromEnv \/ Close \/ CloseNext \/ CloseCancelled
  BY <1>1, OtherBreaker DEF FromEnv, Close, CloseNext, CloseCancelled
<1>2. CASE Tick
  BY <1>2, TickBreaker DEF Breaker!Next
<1>3. ASSUME NEW c \in Callers, NEW r, CallMissing(c, r)
      PROVE  UNCHANGED Breaker(s)!vars
  BY <1>3, OtherBreaker, CallersAre DEF CallMissing
<1>4. ASSUME NEW c \in Callers, TryEnds(c) \/ Wake(c) \/ \E r : Call(c, r)
      PROVE  Breaker(s)!Next \/ UNCHANGED Breaker(s)!vars
  <2>1. CASE s = c[1]
    <3>1. c \in Of(s)
      BY <2>1 DEF Of
    <3>2. Breaker(s)!Execute(c) \/ Breaker(s)!OpReturns(c) \/ Breaker(s)!Wake(c)
      BY <1>4, <2>1, CallBreaker, TryBreaker DEF Breaker!Execute
    <3>3. QED
      BY <3>1, <3>2 DEF Breaker!Next
  <2>2. CASE s # c[1]
    BY <1>4, <2>2, OneBreaker
  <2>3. QED
    BY <2>1, <2>2
<1>5. ASSUME NEW x \in Subscriptions,
             \/ Subscribe(x) \/ Connect(x) \/ Frame(x)
             \/ Breaks(x) \/ BreaksForGood(x) \/ CutOff(x)
      PROVE  UNCHANGED Breaker(s)!vars
  BY <1>5, OtherBreaker
  DEF Subscribe, Connect, Frame, Breaks, BreaksForGood, CutOff, Services
<1>6. QED
  BY <1>1, <1>2, <1>3, <1>4, <1>5 DEF ClientNext

-----------------------------------------------------------------------------
(* The first theorem.                                                       *)

\* Whatever else the client does, the calls of a service are a behaviour of
\* GrpcResilience: its breaker lives from the first use of the sub-client to
\* the end, and no call of another service, subscription or close() touches
\* it (zequent_client.py 60-78, the sub-clients' execute).
THEOREM BreakersTheorem == ClientSpec => KeepsBreakers
<1>1. ClientInit => \A s \in Services : Breaker(s)!Init
  BY BreakerInit
<1>2. ClientTypeOK /\ ClientInv /\ LocalsInv /\ [ClientNext]_client_vars =>
        [\A s \in Services : [Breaker(s)!Next]_(Breaker(s)!vars)]_client_vars
  BY BreakerStep
<1>3. ClientSpec => []LocalsInv
  BY LocalsInit, LocalsStep, PTL DEF ClientSpec
<1>4. QED
  BY <1>1, <1>2, <1>3, ClientInvariant, PTL DEF ClientSpec, KeepsBreakers

-----------------------------------------------------------------------------
(* The tables of Stubs, read in full: what a client calls and a stub has,   *)
(* a server handles, and reads as what the client built.                    *)

Callable(s) == DOMAIN Stub[s] \cap DOMAIN Builds[s]

Understood(s) ==
  \A r \in Callable(s) : r \in DOMAIN Handlers[s] /\ Handlers[s][r] = Builds[s][r]

LEMMA RemoteControlTables == Understood("remote_control")
<1> DEFINE builds == RemoteControlClient
           handles == add_RemoteControlServiceServicer_to_server
           manual == {"EnterManualControl", "ExitManualControl"}
           debug == "EnterOrCloseRemoteDebugMode"
           input == "ManualControlInput"
<1>1. /\ Stub["remote_control"] = RemoteControlServiceStub
      /\ Builds["remote_control"] = builds /\ Handlers["remote_control"] = handles
  BY DEF Stub, Builds, Handlers
<1>2. DOMAIN handles = DOMAIN RemoteControlServiceStub
  BY DEF RemoteControlServiceStub, add_RemoteControlServiceServicer_to_server, Named,
         Taking, @@, Merge
<1>3. /\ \A r \in manual : handles[r] = "RemoteControlManualControlRequest"
      /\ handles[debug] = "RemoteControlDebugModeRequest"
  BY DEF add_RemoteControlServiceServicer_to_server, Named, Taking, @@, Merge
<1>4. \A r \in DOMAIN handles \ (manual \cup {debug, input}) :
         handles[r] = "RemoteControl" \o r \o "Request"
  BY DEF add_RemoteControlServiceServicer_to_server, Named, Taking, @@, Merge
<1>5. /\ \A r \in manual : builds[r] = "RemoteControlManualControlRequest"
      /\ builds[debug] = "RemoteControlDebugModeRequest" /\ input \notin DOMAIN builds
  BY DEF RemoteControlClient, Named, Taking, @@, Merge
<1>6. \A r \in DOMAIN builds \ (manual \cup {debug}) :
         builds[r] = "RemoteControl" \o r \o "Request"
  BY DEF RemoteControlClient, Named, Taking, @@, Merge
<1> HIDE DEF builds, handles, manual, debug, input
<1>7. QED
  BY <1>1, <1>2, <1>3, <1>4, <1>5, <1>6, Zenon DEF Understood, Callable

LEMMA MissionAutonomyTables == Understood("mission_autonomy")
<1> DEFINE builds == MissionAutonomyClient
           handles == add_MissionAutonomyServiceServicer_to_server
           others == {"GetTaskByFlightId", "GetAllSchedulers"}
<1>1. /\ Stub["mission_autonomy"] = MissionAutonomyServiceStub
      /\ Builds["mission_autonomy"] = builds /\ Handlers["mission_autonomy"] = handles
  BY DEF Stub, Builds, Handlers
<1>2. DOMAIN handles = DOMAIN MissionAutonomyServiceStub
  BY DEF MissionAutonomyServiceStub, add_MissionAutonomyServiceServicer_to_server, Named,
         Taking, @@, Merge
<1>3. \A r \in others : handles[r] = "GetTaskRequest"
  BY DEF add_MissionAutonomyServiceServicer_to_server, Named, Taking, @@, Merge
<1>4. \A r \in DOMAIN handles \ others : handles[r] = "" \o r \o "Request"
  BY DEF add_MissionAutonomyServiceServicer_to_server, Named, Taking, @@, Merge
<1>5. \A r \in others : builds[r] = "GetTaskRequest"
  BY DEF MissionAutonomyClient, Named, Taking, @@, Merge
<1>6. \A r \in DOMAIN builds \ others : builds[r] = "" \o r \o "Request"
  BY DEF MissionAutonomyClient, Named, Taking, @@, Merge
<1> HIDE DEF builds, handles, others
<1>7. QED
  BY <1>1, <1>2, <1>3, <1>4, <1>5, <1>6, Zenon DEF Understood, Callable

LEMMA LiveDataTables ==
  /\ Understood("live_data")
  /\ Streams \subseteq Callable("live_data")
<1>1. /\ Stub["live_data"] = LiveDataServiceStub /\ Builds["live_data"] = LiveDataClient
      /\ Handlers["live_data"] = add_LiveDataServiceServicer_to_server
  BY DEF Stub, Builds, Handlers
<1>2. /\ \A r \in DOMAIN LiveDataClient :
           LiveDataClient[r] = "LiveData" \o r \o "Request"
      /\ DOMAIN LiveDataClient \subseteq DOMAIN add_LiveDataServiceServicer_to_server
      /\ Streams \subseteq DOMAIN LiveDataClient \cap DOMAIN LiveDataServiceStub
  BY DEF LiveDataClient, LiveDataServiceStub, Streams,
         add_LiveDataServiceServicer_to_server, Named, @@, Merge
<1>3. \A r \in DOMAIN LiveDataClient :
        add_LiveDataServiceServicer_to_server[r] = "LiveData" \o r \o "Request"
  BY DEF LiveDataClient, add_LiveDataServiceServicer_to_server, Named, @@, Merge
<1>4. QED
  BY <1>1, <1>2, <1>3, Zenon DEF Understood, Callable

\* What is read from the environment leads where the variables point, in the
\* transport they ask for.
LEMMA ChannelMeant ==
  ASSUME NEW s \in Services, NEW raw \in Raw, ~ServiceRaises(raw)
  PROVE  create_channel(Service(s, raw)) = Meant(s, raw)
<1> DEFINE asked == raw.USE_STORK = "true" /\ raw.STORK_NAME # "empty"
           secure == raw.USE_PLAINTEXT \notin {"unset", "true"}
<1>1. PICK c : c = Service(s, raw)
  OBVIOUS
<1>2. /\ UsesDns(c) <=> asked
      /\ (~c.use_plaintext) = secure
      /\ c.host = IF raw.HOST = "unset" THEN "localhost" ELSE raw.HOST
      /\ c.stork_service_name = IF raw.STORK_NAME = "unset" THEN "own" ELSE raw.STORK_NAME
  BY <1>1 DEF UsesDns, Service, EnvBool, EnvText, Raw
<1>3. c.port = IF raw.PORT = "number" THEN Number ELSE DEFAULT_PORTS[s]
  BY <1>1 DEF Service, EnvInt, Raw, ServiceRaises
<1>4. Meant(s, raw) =
        [scheme |-> IF asked THEN "dns" ELSE "direct",
         name |-> IF asked THEN c.stork_service_name ELSE c.host,
         port |-> IF asked THEN 0 ELSE c.port, secure |-> secure]
  <2> DEFINE named == IF raw.STORK_NAME = "unset" THEN "own" ELSE raw.STORK_NAME
             host == IF raw.HOST = "unset" THEN "localhost" ELSE raw.HOST
             port == IF raw.PORT = "number" THEN Number ELSE DEFAULT_PORTS[s]
  <2>1. Meant(s, raw) =
          [scheme |-> IF asked THEN "dns" ELSE "direct",
           name |-> IF asked THEN named ELSE host,
           port |-> IF asked THEN 0 ELSE port, secure |-> secure]
    BY DEF Meant, DEFAULT_PORTS
  <2>2. named = c.stork_service_name /\ host = c.host /\ port = c.port
    BY <1>2, <1>3, Zenon
  <2> HIDE DEF named, host, port, asked, secure
  <2>3. QED
    BY <2>1, <2>2, Zenon
<1>5. create_channel(c) =
        [scheme |-> IF asked THEN "dns" ELSE "direct",
         name |-> IF asked THEN c.stork_service_name ELSE c.host,
         port |-> IF asked THEN 0 ELSE c.port, secure |-> secure]
  <2> HIDE DEF asked, secure
  <2>1. QED
    BY <1>2, Zenon DEF create_channel, Address
<1>6. QED
  BY <1>1, <1>4, <1>5

-----------------------------------------------------------------------------
(* The invariant: a channel leads where it was meant to, and what is tried  *)
(* was built by a method and is among the stubs.                            *)

MeantInv == \A s \in Services : channels[s] # None => channels[s].at = meant[s]

CallableInv ==
  /\ used \subseteq Methods /\ DOMAIN rpc = Callers
  /\ \A c \in Callers : pc[c] # "idle" => rpc[c] \in Callable(c[1])

RoutingInv == MeantInv /\ CallableInv /\ Routed

LEMMA RoutingInit == ClientInit => RoutingInv
<1> SUFFICES ASSUME ClientInit PROVE RoutingInv
  OBVIOUS
<1>1. /\ channels = [s \in Services |-> None] /\ pc = [c \in Callers |-> "idle"]
      /\ sent = {} /\ rpc = [c \in Callers |-> None]
  BY Zenon DEF ClientInit
<1>2. used \subseteq Methods
  <2>1. /\ {"TakeOff", "GoTo"} \subseteq DOMAIN RemoteControlClient
        /\ {"GetMission", "GetTask"} \subseteq DOMAIN MissionAutonomyClient
        /\ {"StreamTelemetry", "ChangeLens"} \subseteq DOMAIN LiveDataClient
    BY DEF RemoteControlClient, MissionAutonomyClient, LiveDataClient, Named, @@, Merge
  <2>2. /\ Typical \subseteq Methods
        /\ \A s \in Services : <<s, Sample[s]>> \in Methods
    BY <2>1 DEF Typical, Methods, Builds, Services, Sample
  <2>3. used = Typical \/ (\E m \in Methods : used = {m})
          \/ \E s \in Services : used = {<<s, Sample[s]>>}
    BY Zenon DEF ClientInit
  <2>4. QED
    BY <2>2, <2>3
<1>3. QED
  BY <1>1, <1>2 DEF RoutingInv, MeantInv, CallableInv, Routed

\* What a step may send: a request a server of the service understands, on
\* the channel of the service.
SendsRouted ==
  \/ sent' = sent
  \/ \E s \in Services : \E r \in Callable(s) :
       channels[s] # None /\ Sub(s).channel = s /\ sent' = {Request(s, r)}

LEMMA SendsRequest ==
  ASSUME ClientTypeOK, ClientInv, Usable, NEW s \in Services, NEW r \in Callable(s),
         Sends(s, r)
  PROVE  SendsRouted
<1>1. Sub(s).channel = s /\ channels[s] # None
  BY SubIs DEF ClientInv, MadeInv
<1>2. QED
  BY <1>1, Zenon DEF Sends, SendsRouted

\* What every step but those of the client's own life leaves as it must be.
KeepsRouting ==
  /\ UNCHANGED <<channels, meant, used>>
  /\ DOMAIN rpc' = Callers
  /\ SendsRouted
  /\ \A c \in Callers : pc'[c] # "idle" => rpc'[c] \in Callable(c[1])

LEMMA CallRouted ==
  ASSUME ClientTypeOK, ClientInv, RoutingInv, NEW c \in Callers, NEW m \in used,
         m[1] = c[1], Call(c, m[2])
  PROVE  KeepsRouting
<1>1. m[2] \in Callable(c[1]) /\ c[1] \in Services /\ Usable
  <2>1. PICK s \in Services : m \in {s} \X DOMAIN Builds[s]
    BY DEF RoutingInv, CallableInv, Methods
  <2>2. m[2] \in DOMAIN Builds[c[1]] /\ m[2] \in DOMAIN Stub[c[1]]
    BY <2>1 DEF Call
  <2>3. QED
    BY <2>2, CallersAre DEF Callable, Call
<1>2. SendsRouted
  <2>1. Sends(c[1], m[2]) \/ sent' = sent
    BY Zenon DEF Call
  <2>2. QED
    BY <1>1, <2>1, SendsRequest DEF SendsRouted
<1>3. /\ rpc' = [rpc EXCEPT ![c] = m[2]] /\ UNCHANGED <<channels, meant, used>>
      /\ \A d \in Callers \ {c} : pc'[d] = pc[d]
  BY DEF Call, ClientTypeOK
<1>4. DOMAIN rpc' = Callers
      /\ \A d \in Callers : rpc'[d] = IF d = c THEN m[2] ELSE rpc[d]
  BY <1>3 DEF RoutingInv, CallableInv
<1>5. QED
  BY <1>1, <1>2, <1>3, <1>4 DEF KeepsRouting, RoutingInv, CallableInv

LEMMA TryRouted ==
  ASSUME ClientTypeOK, ClientInv, RoutingInv, NEW c \in Callers, TryEnds(c) \/ Wake(c)
  PROVE  KeepsRouting
<1>1. /\ UNCHANGED <<channels, meant, used, rpc>> /\ pc[c] # "idle"
      /\ \A d \in Callers \ {c} : pc'[d] = pc[d]
  BY DEF TryEnds, Succeeds, Fails, Wake, ClientTypeOK
<1>2. rpc[c] \in Callable(c[1]) /\ c[1] \in Services /\ Usable
  BY <1>1, CallersAre DEF RoutingInv, CallableInv, ClientInv, MadeInv
<1>3. SendsRouted
  <2>1. Sends(c[1], rpc[c]) \/ sent' = sent
    BY DEF TryEnds, Succeeds, Fails, Wake
  <2>2. QED
    BY <1>2, <2>1, SendsRequest DEF SendsRouted
<1>4. QED
  BY <1>1, <1>2, <1>3 DEF KeepsRouting, RoutingInv, CallableInv

LEMMA StreamRouted ==
  ASSUME ClientTypeOK, ClientInv, RoutingInv, NEW x \in Subscriptions,
         \/ Subscribe(x) \/ Connect(x) \/ Frame(x)
         \/ Breaks(x) \/ BreaksForGood(x) \/ CutOff(x)
  PROVE  KeepsRouting
<1>1. UNCHANGED <<channels, meant, used, rpc, pc>>
  BY DEF Subscribe, Connect, Frame, Breaks, BreaksForGood, CutOff
<1>2. SendsRouted
  <2>1. CASE Connect(x)
    <3>1. x \in Callable("live_data") /\ Usable /\ "live_data" \in Services
      BY <2>1, LiveDataTables DEF Connect, Subscriptions, ClientInv, MadeInv, Services
    <3>2. QED
      BY <2>1, <3>1, SendsRequest DEF Connect
  <2>2. CASE ~Connect(x)
    BY <2>2 DEF Subscribe, Frame, Breaks, BreaksForGood, CutOff, SendsRouted
  <2>3. QED
    BY <2>1, <2>2
<1>3. QED
  BY <1>1, <1>2 DEF KeepsRouting, RoutingInv, CallableInv

LEMMA RoutedAfter ==
  ASSUME ClientTypeOK, RoutingInv, KeepsRouting
  PROVE  RoutingInv'
<1>1. MeantInv' /\ CallableInv'
  BY DEF KeepsRouting, RoutingInv, MeantInv, CallableInv
<1>2. Routed'
  <2>1. ASSUME NEW s \in Services, NEW r \in Callable(s), channels[s] # None,
               Sub(s).channel = s, sent' = {Request(s, r)}
        PROVE  Routed'
    <3>1. PICK m : m = Request(s, r)
      OBVIOUS
    <3>2. /\ m.service = s /\ m.rpc = r /\ m.message = Builds[s][r] /\ m.at = meant[s]
      BY <2>1, <3>1, RequestIs DEF RoutingInv, MeantInv
    <3>3. r \in DOMAIN Handlers[s] /\ Handlers[s][r] = Builds[s][r]
      BY RemoteControlTables, MissionAutonomyTables, LiveDataTables, Zenon
      DEF Understood, Services
    <3>4. QED
      BY <2>1, <3>1, <3>2, <3>3 DEF KeepsRouting, Routed
  <2>2. QED
    BY <2>1 DEF KeepsRouting, SendsRouted, RoutingInv, Routed
<1>3. QED
  BY <1>1, <1>2 DEF RoutingInv

LEMMA LifeRouted ==
  ASSUME ClientTypeOK, ClientInv, RoutingInv,
         FromEnv \/ Close \/ CloseNext \/ CloseCancelled
  PROVE  RoutingInv'
<1>1. UNCHANGED <<used, rpc, pc, sent>>
  BY DEF FromEnv, Close, CloseNext, CloseCancelled
<1>2. CallableInv'
  BY <1>1 DEF RoutingInv, CallableInv
<1>3. CASE FromEnv
  <2>1. sent = {}
    BY <1>3 DEF FromEnv, ClientInv, MadeInv
  <2>2. MeantInv'
    <3>1. CASE Bad
      BY <1>3, <3>1 DEF FromEnv, RoutingInv, MeantInv
    <3>2. CASE ~Bad
      <4> SUFFICES ASSUME NEW s \in Services PROVE channels'[s].at = meant'[s]
        BY DEF MeantInv
      <4>1. environment[s] \in Raw /\ ~ServiceRaises(environment[s])
        BY <3>2 DEF Bad, ClientInv, EnvInv
      <4>2. create_channel(Service(s, environment[s])) = Meant(s, environment[s])
        BY <4>1, ChannelMeant
      <4>3. /\ channels'[s] =
                 [at |-> create_channel(Service(s, environment[s])), open |-> TRUE]
            /\ meant'[s] = Meant(s, environment[s])
        BY <1>3, <3>2, Zenon DEF FromEnv
      <4>4. QED
        BY <4>2, <4>3
    <3>3. QED
      BY <3>1, <3>2
  <2>3. QED
    BY <1>1, <1>2, <2>1, <2>2 DEF RoutingInv, Routed
<1>4. CASE Close
  BY <1>1, <1>2, <1>4 DEF Close, RoutingInv, MeantInv, Routed
<1>5. CASE CloseNext \/ CloseCancelled
  <2>1. meant' = meant
    BY <1>5 DEF CloseNext, CloseCancelled
  <2>2. \A s \in Services : channels'[s].at = channels[s].at /\ channels[s] # None
    <3> SUFFICES ASSUME NEW s \in Services
                 PROVE  channels'[s].at = channels[s].at /\ channels[s] # None
      OBVIOUS
    <3>1. channels[s] \in Channel /\ channels[s] # None
      BY <1>5 DEF CloseNext, CloseCancelled, ClientInv, MadeInv, Usable, ClientTypeOK
    <3>2. channels'[s] = channels[s] \/ channels'[s] = [channels[s] EXCEPT !.open = FALSE]
      BY <1>5 DEF CloseNext, CloseCancelled, ClientTypeOK
    <3>3. [channels[s] EXCEPT !.open = FALSE].at = channels[s].at
      BY <3>1 DEF Channel
    <3>4. QED
      BY <3>1, <3>2, <3>3
  <2>3. MeantInv'
    BY <2>1, <2>2 DEF RoutingInv, MeantInv
  <2>4. QED
    BY <1>1, <1>2, <2>1, <2>3 DEF RoutingInv, Routed
<1>6. QED
  BY <1>3, <1>4, <1>5

LEMMA RoutingStep ==
  ClientTypeOK /\ ClientInv /\ RoutingInv /\ [ClientNext]_client_vars => RoutingInv'
<1> SUFFICES ASSUME ClientTypeOK, ClientInv, RoutingInv, [ClientNext]_client_vars
             PROVE  RoutingInv'
  OBVIOUS
<1>1. CASE FromEnv \/ Close \/ CloseNext \/ CloseCancelled
  BY <1>1, LifeRouted
<1>2. ASSUME NEW c \in Callers, NEW m \in used, m[1] = c[1], Call(c, m[2])
      PROVE  RoutingInv'
  BY <1>2, CallRouted, RoutedAfter
<1>3. ASSUME NEW c \in Callers, TryEnds(c) \/ Wake(c)
      PROVE  RoutingInv'
  BY <1>3, TryRouted, RoutedAfter
<1>4. ASSUME NEW x \in Subscriptions,
             \/ Subscribe(x) \/ Connect(x) \/ Frame(x)
             \/ Breaks(x) \/ BreaksForGood(x) \/ CutOff(x)
      PROVE  RoutingInv'
  BY <1>4, StreamRouted, RoutedAfter
<1>5. ASSUME UNCHANGED <<channels, meant, used, rpc, pc, sent>> PROVE RoutingInv'
  BY <1>5 DEF RoutingInv, MeantInv, CallableInv, Routed
<1>6. ASSUME NEW c \in Callers, NEW m \in used, CallMissing(c, m[2])
      PROVE  RoutingInv'
  BY <1>5, <1>6 DEF CallMissing
<1>7. CASE Tick \/ UNCHANGED client_vars
  BY <1>5, <1>7 DEF Tick
<1>8. QED
  BY <1>1, <1>2, <1>3, <1>4, <1>6, <1>7 DEF ClientNext

-----------------------------------------------------------------------------
(* The second theorem.                                                      *)

\* Each request arrives where the variables of its own service point, at a
\* handler that reads the message the method built, whichever method is
\* called, whatever is set in the environment and whatever is retried
\* (env_loader.py, channel_factory.py, zequent_client.py, generated/).
THEOREM RoutedTheorem == ClientSpec => []Routed
<1>1. RoutingInv => Routed
  BY DEF RoutingInv
<1>2. QED
  BY <1>1, RoutingInit, RoutingStep, ClientInvariant, PTL DEF ClientSpec
=============================================================================
