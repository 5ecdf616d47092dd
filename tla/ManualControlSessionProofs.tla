--------------------- MODULE ManualControlSessionProofs ---------------------
(* Theorems about ManualControlSession, for every number of tasks and of    *)
(* inputs.                                                                  *)
EXTENDS ManualControlSession, TLAPS

USE SessionAssumption DEF flags, stream, tasks, vars

-----------------------------------------------------------------------------
(* Type correctness.                                                        *)

\* A task that waits for the response waits on an RPC that exists.
TypeInv == TypeOK /\ (awaiting # {} => call # "none")

LEMMA EmptyTypes ==
  /\ << >> \in Seq(Inputs)
  /\ << >> \in Seq(Inputs \cup {CLOSE})
  /\ 0 \in 0..MaxInputs
  OBVIOUS

LEMMA TypeInit == Init => TypeInv
  BY EmptyTypes, Zenon DEF Init, TypeOK, TypeInv

LEMMA OpenType ==
  ASSUME TypeOK, Open
  PROVE  /\ call' \in {"none", "live", "ok", "error", "cancelled"}
         /\ pump' \in {"off", "get", "write", "half", "dead"}
         /\ in_hand' \in Seq(Inputs)
         /\ sent' \in Seq(Inputs)
  BY DEF TypeOK, Open

LEMMA CancelCallType ==
  ASSUME TypeOK, CancelCall
  PROVE  /\ call' \in {"none", "live", "ok", "error", "cancelled"}
         /\ pump' \in {"off", "get", "write", "half", "dead"}
         /\ in_hand' \in Seq(Inputs)
         /\ sent' \in Seq(Inputs)
<1>1. CASE call = "live"
  BY <1>1, EmptyTypes DEF TypeOK, CancelCall
<1>2. CASE call # "live"
  BY <1>2 DEF TypeOK, CancelCall
<1>3. QED
  BY <1>1, <1>2

LEMMA SentinelType ==
  ASSUME TypeOK, QueueSentinel
  PROVE  queue' \in Seq(Inputs \cup {CLOSE})
  BY DEF TypeOK, QueueSentinel

LEMMA CloseType ==
  ASSUME TypeOK, NEW u \in Users, Close(u) \/ CompleteWithError(u)
  PROVE  TypeOK'
<1> USE DEF TypeOK
<1>1. CASE SetCompleted /\ CancelCall /\ QueueSentinel
  <2>1. completed' = TRUE /\ cut' = accepted
    BY <1>1 DEF SetCompleted
  <2>2. closed' = TRUE \/ closed' = closed
    BY DEF Close, CompleteWithError
  <2>3. UNCHANGED <<accepted, awaiting>> /\ Returns(u, "ok")
    BY DEF Close, CompleteWithError
  <2>4. QED
    BY <1>1, <2>1, <2>2, <2>3, CancelCallType, SentinelType DEF Returns
<1>2. CASE UNCHANGED <<queue, call, completed, cut, stream>>
  <2>1. UNCHANGED <<accepted, awaiting>> /\ Returns(u, "ok")
    BY DEF Close, CompleteWithError
  <2>2. closed' = TRUE \/ closed' = closed
    BY DEF Close, CompleteWithError
  <2>3. QED
    BY <1>2, <2>1, <2>2 DEF Returns
<1>3. QED
  BY <1>1, <1>2 DEF Close, CompleteWithError, CloseStream

LEMMA TypeStep == TypeInv /\ [Next]_vars => TypeOK'
<1> SUFFICES ASSUME TypeOK, awaiting # {} => call # "none", [Next]_vars PROVE TypeOK'
  BY DEF TypeInv
<1>1. ASSUME NEW u \in Users, Enter(u) PROVE TypeOK'
  BY <1>1, OpenType DEF TypeOK, Enter, Returns
<1>2. ASSUME NEW u \in Users, SendInput(u) PROVE TypeOK'
  <2>1. accepted' \in Inputs /\ accepted' \in 0..MaxInputs
    BY <1>2 DEF TypeOK, SendInput, Inputs
  <2>2. queue' \in Seq(Inputs \cup {CLOSE})
    BY <1>2, <2>1 DEF TypeOK, SendInput
  <2>3. QED
    BY <1>2, <2>1, <2>2, OpenType DEF TypeOK, SendInput, Returns
<1>3. ASSUME NEW u \in Users, OpenRaises(u) \/ RejectInput(u) \/ CompleteAgain(u)
      PROVE  TypeOK'
  BY <1>3 DEF TypeOK, OpenRaises, RejectInput, CompleteAgain, Returns
<1>4. ASSUME NEW u \in Users, Complete(u) PROVE TypeOK'
  <2>1. completed' = TRUE /\ cut' = accepted /\ awaiting' = awaiting \cup {u}
    BY <1>4 DEF Complete, SetCompleted
  <2>2. UNCHANGED <<accepted, closed>> /\ result' = [result EXCEPT ![u] = "none"]
    BY <1>4 DEF Complete, Returns
  <2>3. QED
    BY <1>4, <2>1, <2>2, OpenType, SentinelType DEF TypeOK, Complete
<1>5. ASSUME NEW u \in Users, CompleteReturns(u) PROVE TypeOK'
  <2>1. call \in {"ok", "error", "cancelled"}
    BY <1>5 DEF TypeOK, CompleteReturns
  <2>2. EndOf[call] \in {"response", "rpc_error", "cancelled"}
    BY <2>1 DEF EndOf
  <2>3. QED
    BY <1>5, <2>2 DEF TypeOK, CompleteReturns, Returns
<1>6. ASSUME NEW u \in Users, CancelComplete(u) PROVE TypeOK'
  BY <1>6, CancelCallType DEF TypeOK, CancelComplete, Returns
<1>7. CASE Pump
  <2>1. queue # << >> => /\ Head(queue) \in Inputs \cup {CLOSE}
                         /\ Tail(queue) \in Seq(Inputs \cup {CLOSE})
    BY DEF TypeOK
  <2>2. CASE TakeInput
    <3>1. in_hand' \in Seq(Inputs)
      BY <2>1, <2>2 DEF TakeInput, HandOver
    <3>2. QED
      BY <2>1, <2>2, <3>1 DEF TypeOK, TakeInput
  <2>3. CASE TakeSentinel
    BY <2>1, <2>3 DEF TypeOK, TakeSentinel
  <2>4. CASE Write
    <3>1. sent \o in_hand \in Seq(Inputs)
      BY DEF TypeOK
    <3>2. QED
      BY <2>4, <3>1, EmptyTypes DEF TypeOK, Write
  <2>5. CASE ConversionFails
    BY <2>5, EmptyTypes DEF TypeOK, ConversionFails
  <2>6. QED
    BY <1>7, <2>2, <2>3, <2>4, <2>5 DEF Pump
<1>8. CASE Answer \/ Fail
  BY <1>8 DEF TypeOK, Answer, Fail
<1>9. CASE UNCHANGED vars
  BY <1>9 DEF TypeOK
<1>10. QED
  BY <1>1, <1>2, <1>3, <1>4, <1>5, <1>6, <1>7, <1>8, <1>9, CloseType
  DEF Next, Exit

LEMMA AwaitedExists == TypeInv /\ [Next]_vars => (awaiting' # {} => call' # "none")
  BY DEF TypeInv, Next, Exit, Enter, OpenRaises, SendInput, RejectInput, Complete,
         CompleteAgain, CompleteReturns, CancelComplete, CompleteWithError, Close,
         CloseStream, Open, CancelCall, Pump, TakeInput, TakeSentinel, Write, ConversionFails, Answer, Fail

\* Every reachable state is well typed.
THEOREM TypeCorrect == Spec => []TypeOK
<1>1. TypeInv /\ [Next]_vars => TypeInv'
  BY TypeStep, AwaitedExists DEF TypeInv
<1>2. TypeInv => TypeOK
  BY DEF TypeInv
<1>3. QED
  BY <1>1, <1>2, TypeInit, PTL DEF Spec

-----------------------------------------------------------------------------
(* The sentinel. What the operations on the queue do to its positions.      *)

LEMMA AppendInput ==
  ASSUME TypeOK, NEW x, x # CLOSE, queue' = Append(queue, x)
  PROVE  SentinelsQueued' = SentinelsQueued
  BY DEF TypeOK, SentinelsQueued

LEMMA AppendSentinel ==
  ASSUME TypeOK, QueueSentinel
  PROVE  SentinelsQueued' = SentinelsQueued \cup {Len(queue) + 1}
  BY DEF TypeOK, SentinelsQueued, QueueSentinel

LEMMA PopInput ==
  ASSUME TypeOK, queue # << >>, Head(queue) # CLOSE, queue' = Tail(queue)
  PROVE  /\ \A i \in SentinelsQueued : i - 1 \in SentinelsQueued'
         /\ \A i \in SentinelsQueued' : i + 1 \in SentinelsQueued
  BY DEF TypeOK, SentinelsQueued

LEMMA PopSentinel ==
  ASSUME TypeOK, OneSentinel, queue # << >>, Head(queue) = CLOSE, queue' = Tail(queue)
  PROVE  completed /\ SentinelsQueued' = {}
<1>1. 1 \in SentinelsQueued
  BY DEF TypeOK, SentinelsQueued
<1>2. ASSUME NEW i \in SentinelsQueued' PROVE FALSE
  <2>1. i + 1 \in SentinelsQueued /\ i + 1 # 1
    BY DEF TypeOK, SentinelsQueued
  <2>2. QED
    BY <1>1, <2>1 DEF OneSentinel
<1>3. QED
  BY <1>1, <1>2 DEF OneSentinel

\* The pump may still take an item from the queue (or is yet to start).
AtWork == pump \in {"off", "get", "write"}

\* The invariants, with what makes them inductive: whatever became of the RPC,
\* a completed session holds its sentinel until the pump takes it.
SentinelInv ==
  /\ OneSentinel
  /\ EndOfStreamComing
  /\ SoleAwaiter
  /\ pump = "off" <=> call = "none"
  /\ pump = "half" => completed
  /\ completed /\ AtWork => SentinelsQueued # {}

LEMMA SentinelInit == Init => SentinelInv
  BY DEF Init, SentinelInv, OneSentinel, EndOfStreamComing, SoleAwaiter, SentinelsQueued,
         AtWork

\* A step that opens the RPC, ends it, writes, returns, or queues an input.
LEMMA NoSentinelStep ==
  ASSUME SentinelInv, SentinelsQueued' = SentinelsQueued, completed' = completed,
         closed' => completed,
         pump' = "half" <=> pump = "half",
         AtWork' => AtWork,
         pump' = "off" <=> call' = "none",
         call' = "live" => call \in {"live", "none"},
         call' = "none" => call = "none",
         awaiting' \subseteq awaiting
  PROVE  SentinelInv'
  BY DEF SentinelInv, OneSentinel, EndOfStreamComing, SoleAwaiter, AtWork

\* A step that completes the session.
LEMMA CompletingStep ==
  ASSUME TypeOK, SentinelInv, ~completed, completed', QueueSentinel,
         pump' # "half",
         pump' = "off" <=> call' = "none",
         awaiting' = {} \/ (call' # "none" /\ \E u \in Users : awaiting' = {u})
  PROVE  SentinelInv'
<1>1. SentinelsQueued = {}
  BY DEF SentinelInv, OneSentinel
<1>2. SentinelsQueued' = {Len(queue) + 1}
  BY <1>1, AppendSentinel
<1>3. QED
  BY <1>2 DEF SentinelInv, OneSentinel, EndOfStreamComing, SoleAwaiter

LEMMA SentinelStep == TypeOK /\ SentinelInv /\ [Next]_vars => SentinelInv'
<1> SUFFICES ASSUME TypeOK, SentinelInv, [Next]_vars PROVE SentinelInv'
  OBVIOUS
<1>a. queue' = queue => SentinelsQueued' = SentinelsQueued
  BY DEF SentinelsQueued
<1> USE DEF AtWork
<1>b. /\ closed => completed
      /\ pump = "off" <=> call = "none"
      /\ pump = "half" => completed
      /\ awaiting # {} => completed
  BY DEF SentinelInv, EndOfStreamComing, SoleAwaiter
<1>1. ASSUME NEW u \in Users, Enter(u) PROVE SentinelInv'
  BY <1>1, <1>a, <1>b, NoSentinelStep DEF Enter, Open
<1>2. ASSUME NEW u \in Users, SendInput(u) PROVE SentinelInv'
  <2>1. accepted' # CLOSE
    BY <1>2 DEF SendInput, TypeOK
  <2>2. SentinelsQueued' = SentinelsQueued
    BY <1>2, <2>1, AppendInput DEF SendInput
  <2>3. QED
    BY <1>2, <1>b, <2>2, NoSentinelStep DEF SendInput, Open
<1>3. ASSUME NEW u \in Users, OpenRaises(u) \/ RejectInput(u) \/ CompleteAgain(u)
      PROVE  SentinelInv'
  BY <1>3, <1>a, <1>b, NoSentinelStep DEF OpenRaises, RejectInput, CompleteAgain
<1>4. ASSUME NEW u \in Users, Complete(u) PROVE SentinelInv'
  <2>1. awaiting = {} /\ awaiting' = {u} /\ ~completed
    BY <1>4, <1>b DEF Complete, MayComplete
  <2>2. QED
    BY <1>4, <1>b, <2>1, CompletingStep DEF Complete, SetCompleted, Open
<1>5. ASSUME NEW u \in Users, CompleteReturns(u) PROVE SentinelInv'
  BY <1>5, <1>a, <1>b, NoSentinelStep DEF CompleteReturns
<1>6. ASSUME NEW u \in Users, CancelComplete(u) PROVE SentinelInv'
  BY <1>6, <1>a, <1>b, NoSentinelStep DEF CancelComplete, CancelCall
<1>7. ASSUME NEW u \in Users, CompleteWithError(u) \/ Close(u) PROVE SentinelInv'
  <2>1. CASE ~completed
    <3>1. awaiting' = {} /\ completed' /\ QueueSentinel /\ CancelCall
      BY <1>7, <1>b, <2>1
      DEF CompleteWithError, Close, CloseStream, SetCompleted
    <3>2. QED
      BY <1>b, <2>1, <3>1, CompletingStep DEF CancelCall
  <2>2. CASE completed
    BY <1>7, <1>a, <1>b, <2>2, NoSentinelStep DEF CompleteWithError, Close, CloseStream
  <2>3. QED
    BY <2>1, <2>2
<1>8. CASE TakeInput
  <2>1. SentinelsQueued' # {} <=> SentinelsQueued # {}
    BY <1>8, PopInput DEF TakeInput
  <2>2. ASSUME NEW i \in SentinelsQueued', NEW j \in SentinelsQueued' PROVE i = j
    <3>1. i + 1 = j + 1
      BY <1>8, PopInput DEF TakeInput, SentinelInv, OneSentinel
    <3>2. QED
      BY <3>1 DEF SentinelsQueued
  <2>3. QED
    BY <1>8, <2>1, <2>2
    DEF TakeInput, SentinelInv, OneSentinel, EndOfStreamComing, SoleAwaiter
<1>9. CASE TakeSentinel
  <2>1. completed /\ SentinelsQueued' = {}
    BY <1>9, PopSentinel DEF TakeSentinel, SentinelInv
  <2>2. QED
    BY <1>9, <2>1
    DEF TakeSentinel, SentinelInv, OneSentinel, EndOfStreamComing, SoleAwaiter
<1>10. CASE Write \/ ConversionFails
  BY <1>10, <1>a, <1>b, NoSentinelStep DEF Write, ConversionFails
<1>11. CASE Answer \/ Fail
  BY <1>11, <1>a, <1>b, NoSentinelStep DEF Answer, Fail
<1>12. CASE UNCHANGED vars
  BY <1>12, <1>a, <1>b, NoSentinelStep
<1>13. QED
  BY <1>1, <1>2, <1>3, <1>4, <1>5, <1>6, <1>7, <1>8, <1>9, <1>10, <1>11, <1>12
  DEF Next, Exit, Pump

LEMMA SentinelInvariant == Spec => []SentinelInv
  BY SentinelInit, SentinelStep, TypeCorrect, PTL DEF Spec

\* A session queues one sentinel, however its ends overlap.
THEOREM OneSentinelTheorem == Spec => []OneSentinel
<1>1. SentinelInv => OneSentinel
  BY DEF SentinelInv
<1>2. QED
  BY <1>1, SentinelInvariant, PTL

\* A completed or closed session's stream is told to end.
THEOREM EndOfStreamTheorem == Spec => []EndOfStreamComing
<1>1. SentinelInv => EndOfStreamComing
  BY DEF SentinelInv
<1>2. QED
  BY <1>1, SentinelInvariant, PTL

\* At most one task waits for the response of a session.
THEOREM SoleAwaiterTheorem == Spec => []SoleAwaiter
<1>1. SentinelInv => SoleAwaiter
  BY DEF SentinelInv
<1>2. QED
  BY <1>1, SentinelInvariant, PTL

-----------------------------------------------------------------------------
(* Order. While the pump is at work, what is left of the queue before its   *)
(* sentinel continues the inputs sent, and the sentinel stands at the cut.  *)

Taken == Len(sent) + Len(in_hand)

OrderInv ==
  /\ SentInOrder
  /\ pump = "write" => Len(in_hand) = 1
  /\ pump # "write" => in_hand = << >>
  /\ AtWork /\ pump = "write" => in_hand[1] = Len(sent) + 1
  /\ AtWork => \A i \in 1..Len(queue) :
                 (\A j \in 1..i : queue[j] # CLOSE) => queue[i] = Taken + i
  /\ AtWork /\ ~completed => accepted = Taken + Len(queue)
  /\ AtWork => \A i \in SentinelsQueued : cut = Taken + i - 1

LEMMA OrderInit == Init => OrderInv
<1> SUFFICES ASSUME Init PROVE OrderInv
  OBVIOUS
<1>1. Len(queue) = 0 /\ Len(sent) = 0 /\ Len(in_hand) = 0
  BY DEF Init
<1>2. QED
  BY <1>1 DEF Init, OrderInv, SentInOrder, Taken, SentinelsQueued

\* A step that opens the RPC, ends it, or returns to a caller.
LEMMA OrderUntouched ==
  ASSUME OrderInv, UNCHANGED <<queue, accepted, sent, in_hand, cut, completed>>,
         pump' = pump \/ (pump = "off" /\ pump' = "get")
  PROVE  OrderInv'
  BY DEF OrderInv, SentInOrder, AtWork, Taken, SentinelsQueued

\* A step after which the pump is dead.
LEMMA OrderDead ==
  ASSUME OrderInv, UNCHANGED sent, pump' = "dead", in_hand' = << >>
  PROVE  OrderInv'
  BY DEF OrderInv, SentInOrder, AtWork

\* A step that completes the session and leaves the pump at work.
LEMMA OrderCompleting ==
  ASSUME TypeOK, OrderInv, SentinelInv, ~completed, SetCompleted, QueueSentinel,
         UNCHANGED <<accepted, sent, in_hand>>,
         pump' = pump \/ (pump = "off" /\ pump' = "get")
  PROVE  OrderInv'
<1>1. SentinelsQueued = {} /\ pump # "half"
  BY DEF SentinelInv, OneSentinel
<1>2. SentinelsQueued' = {Len(queue) + 1}
  BY <1>1, AppendSentinel
<1>3. Taken' = Taken /\ cut' = accepted /\ completed'
  BY DEF Taken, SetCompleted
<1>4. AtWork' => AtWork
  BY DEF AtWork
<1>5. ASSUME AtWork' PROVE \A i \in SentinelsQueued' : cut' = Taken' + i - 1
  <2>1. Taken \in Int /\ Len(queue) \in Nat
    BY DEF Taken, TypeOK
  <2>2. accepted = Taken + Len(queue)
    BY <1>4, <1>5 DEF OrderInv
  <2>3. QED
    BY <1>2, <1>3, <2>1, <2>2
<1>6. ASSUME AtWork', NEW i \in 1..Len(queue'), \A j \in 1..i : queue'[j] # CLOSE
      PROVE  queue'[i] = Taken' + i
  <2>1. Len(queue') = Len(queue) + 1 /\ queue'[Len(queue) + 1] = CLOSE
    BY DEF QueueSentinel, TypeOK
  <2>2. i \in 1..Len(queue)
    BY <1>6, <2>1 DEF TypeOK
  <2>3. \A j \in 1..i : queue'[j] = queue[j]
    BY <2>2 DEF QueueSentinel, TypeOK
  <2>4. QED
    BY <1>3, <1>4, <1>6, <2>2, <2>3 DEF OrderInv
<1>7. SentInOrder' /\ pump' # "half"
  BY <1>1 DEF OrderInv, SentInOrder
<1>8. /\ pump' = "write" => Len(in_hand') = 1
      /\ pump' # "write" => in_hand' = << >>
      /\ AtWork' /\ pump' = "write" => in_hand'[1] = Len(sent') + 1
  BY <1>4 DEF OrderInv
<1>9. QED
  BY <1>3, <1>5, <1>6, <1>7, <1>8 DEF OrderInv

LEMMA OrderSend ==
  ASSUME TypeOK, OrderInv, SentinelInv, NEW u \in Users, SendInput(u)
  PROVE  OrderInv'
<1>1. /\ queue' = Append(queue, accepted + 1)
      /\ accepted' = accepted + 1
      /\ UNCHANGED <<sent, in_hand, cut, completed>>
      /\ pump' = pump \/ (pump = "off" /\ pump' = "get")
  BY DEF SendInput, Open, SentinelInv
<1>2. /\ Len(queue') = Len(queue) + 1
      /\ queue'[Len(queue) + 1] = accepted + 1
      /\ \A i \in 1..Len(queue) : queue'[i] = queue[i]
      /\ Len(queue) \in Nat
  <2>1. accepted + 1 \in Inputs \cup {CLOSE}
    BY DEF SendInput, TypeOK, Inputs
  <2>2. queue \in Seq(Inputs \cup {CLOSE})
    BY DEF TypeOK
  <2>3. QED
    BY <1>1, <2>1, <2>2
<1>3. SentinelsQueued' = SentinelsQueued
  BY <1>1, AppendInput DEF TypeOK
<1>4. Taken' = Taken /\ Taken \in Int
  BY <1>1 DEF Taken, TypeOK
<1>5. (AtWork' => AtWork) /\ (pump' = "half" <=> pump = "half")
  BY <1>1 DEF AtWork
<1>6. ASSUME AtWork', NEW i \in 1..Len(queue'), \A j \in 1..i : queue'[j] # CLOSE
      PROVE  queue'[i] = Taken' + i
  <2>1. CASE i \in 1..Len(queue)
    <3>1. \A j \in 1..i : queue[j] # CLOSE
      BY <1>2, <1>6, <2>1
    <3>2. QED
      BY <1>2, <1>4, <1>5, <1>6, <2>1, <3>1 DEF OrderInv
  <2>2. CASE i = Len(queue) + 1
    <3>1. ~completed
      <4>1. SUFFICES ASSUME completed PROVE FALSE
        OBVIOUS
      <4>2. SentinelsQueued # {}
        BY <1>5, <1>6, <4>1 DEF SentinelInv
      <4>3. QED
        BY <1>2, <1>6, <2>2, <4>2 DEF SentinelsQueued
    <3>2. accepted = Taken + Len(queue)
      BY <1>5, <1>6, <3>1 DEF OrderInv
    <3>3. QED
      BY <1>2, <1>4, <2>2, <3>2
  <2>3. QED
    BY <1>2, <1>6, <2>1, <2>2
<1>7. AtWork' /\ ~completed' => accepted' = Taken' + Len(queue')
  BY <1>1, <1>2, <1>4, <1>5 DEF OrderInv
<1>8. SentInOrder'
  BY <1>1, <1>5 DEF OrderInv, SentInOrder
<1>9. AtWork' => \A i \in SentinelsQueued' : cut' = Taken' + i - 1
  BY <1>1, <1>3, <1>4, <1>5 DEF OrderInv
<1>10. QED
  BY <1>1, <1>5, <1>6, <1>7, <1>8, <1>9 DEF OrderInv

LEMMA OrderTakeInput ==
  ASSUME TypeOK, OrderInv, TakeInput
  PROVE  OrderInv'
<1>1. /\ pump = "get" /\ pump' = "write"
      /\ queue # << >> /\ Head(queue) # CLOSE
      /\ in_hand = << >> /\ in_hand' = <<Head(queue)>>
      /\ queue' = Tail(queue)
      /\ UNCHANGED <<accepted, sent, cut, completed>>
  BY DEF TakeInput, HandOver, OrderInv
<1>2. /\ Len(queue) \in Nat /\ Len(queue) >= 1
      /\ Len(queue') = Len(queue) - 1
      /\ \A i \in 1..Len(queue') : queue'[i] = queue[i + 1]
      /\ Head(queue) = queue[1]
  BY <1>1 DEF TypeOK
<1>3. Taken' = Taken + 1 /\ Taken = Len(sent) /\ Taken \in Nat
  BY <1>1 DEF Taken, TypeOK
<1>4. AtWork /\ AtWork'
  BY <1>1 DEF AtWork
<1>5. in_hand'[1] = Len(sent') + 1 /\ Len(in_hand') = 1
  <2>1. \A j \in 1..1 : queue[j] # CLOSE
    BY <1>1, <1>2
  <2>2. queue[1] = Taken + 1
    BY <1>2, <1>4, <2>1 DEF OrderInv
  <2>3. QED
    BY <1>1, <1>2, <1>3, <2>2
<1>6. ASSUME NEW i \in 1..Len(queue'), \A j \in 1..i : queue'[j] # CLOSE
      PROVE  queue'[i] = Taken' + i
  <2>1. ASSUME NEW j \in 1..(i + 1) PROVE queue[j] # CLOSE
    <3>1. CASE j = 1
      BY <1>1, <1>2, <3>1
    <3>2. CASE j # 1
      <4>1. j - 1 \in 1..i /\ j - 1 \in 1..Len(queue') /\ (j - 1) + 1 = j
        BY <1>2, <2>1, <3>2
      <4>2. QED
        BY <1>2, <1>6, <4>1
    <3>3. QED
      BY <3>1, <3>2
  <2>2. i + 1 \in 1..Len(queue)
    BY <1>2
  <2>3. queue[i + 1] = Taken + (i + 1)
    BY <1>4, <2>1, <2>2 DEF OrderInv
  <2>4. QED
    BY <1>2, <1>3, <2>3
<1>7. ~completed' => accepted' = Taken' + Len(queue')
  BY <1>1, <1>2, <1>3, <1>4 DEF OrderInv
<1>8. ASSUME NEW i \in SentinelsQueued' PROVE cut' = Taken' + i - 1
  <2>1. i + 1 \in SentinelsQueued /\ i \in Int
    BY <1>1, PopInput DEF SentinelsQueued
  <2>2. cut = Taken + (i + 1) - 1
    BY <1>4, <2>1 DEF OrderInv
  <2>3. QED
    BY <1>1, <1>3, <2>1, <2>2
<1>9. SentInOrder'
  BY <1>1 DEF OrderInv, SentInOrder
<1>10. QED
  BY <1>1, <1>5, <1>6, <1>7, <1>8, <1>9 DEF OrderInv

LEMMA OrderTakeSentinel ==
  ASSUME TypeOK, OrderInv, TakeSentinel
  PROVE  OrderInv'
<1>1. /\ AtWork /\ pump' \in {"half", "dead"} /\ Head(queue) = CLOSE /\ queue # << >>
      /\ in_hand = << >> /\ in_hand' = << >>
      /\ UNCHANGED <<sent, cut>>
  BY DEF TakeSentinel, OrderInv, AtWork
<1>2. 1 \in SentinelsQueued
  BY <1>1 DEF SentinelsQueued, TypeOK
<1>3. cut = Len(sent) + 0 + 1 - 1
  BY <1>1, <1>2 DEF OrderInv, Taken
<1>4. Len(sent) = cut
  BY <1>3 DEF TypeOK
<1>5. QED
  BY <1>1, <1>4 DEF OrderInv, SentInOrder, AtWork

LEMMA OrderWrite ==
  ASSUME TypeOK, OrderInv, Write, call = "live"
  PROVE  OrderInv'
<1>1. /\ pump = "write" /\ pump' = "get" /\ AtWork /\ AtWork'
      /\ in_hand' = << >> /\ sent' = sent \o in_hand
      /\ UNCHANGED <<queue, accepted, cut, completed>>
  BY DEF Write, AtWork
<1>2. Len(in_hand) = 1 /\ in_hand[1] = Len(sent) + 1 /\ Len(sent) \in Nat
  BY <1>1 DEF OrderInv, TypeOK
<1> DEFINE s == sent  h == in_hand
<1>a. s \in Seq(Inputs) /\ h \in Seq(Inputs) /\ sent' = s \o h
  BY <1>1 DEF TypeOK
<1>b. /\ Len(s \o h) = Len(s) + Len(h)
      /\ \A i \in 1..(Len(s) + Len(h)) :
           (s \o h)[i] = IF i <= Len(s) THEN s[i] ELSE h[i - Len(s)]
  <2> HIDE DEF s, h
  <2>1. QED
    BY <1>a
<1>3. Len(sent') = Len(sent) + 1 /\ sent'[Len(sent) + 1] = in_hand[1]
  BY <1>a, <1>b, <1>2
<1>4. \A i \in 1..Len(sent) : sent'[i] = sent[i]
  BY <1>a, <1>b, <1>2
<1>5. SentInOrder'
  <2>1. ASSUME NEW i \in 1..Len(sent') PROVE sent'[i] = i
    <3>1. i \in 1..Len(sent) \/ i = Len(sent) + 1
      BY <1>2, <1>3
    <3>2. QED
      BY <1>2, <1>3, <1>4, <3>1 DEF OrderInv, SentInOrder
  <2>2. QED
    BY <1>1, <2>1 DEF SentInOrder
<1>6. Taken' = Taken
  BY <1>1, <1>2, <1>3 DEF Taken, TypeOK
<1>7. SentinelsQueued' = SentinelsQueued
  BY <1>1 DEF SentinelsQueued
<1>8. QED
  BY <1>1, <1>5, <1>6, <1>7 DEF OrderInv

LEMMA OrderStep == TypeOK /\ SentinelInv /\ OrderInv /\ [Next]_vars => OrderInv'
<1> SUFFICES ASSUME TypeOK, SentinelInv, OrderInv, [Next]_vars PROVE OrderInv'
  OBVIOUS
<1>0. /\ pump = "half" => completed
      /\ pump = "off" <=> call = "none"
      /\ pump # "write" => in_hand = << >>
  BY DEF SentinelInv, OrderInv
<1>a. ASSUME CancelCall,
             \/ UNCHANGED <<queue, accepted, cut, completed>>
             \/ ~completed /\ SetCompleted /\ QueueSentinel /\ UNCHANGED accepted
      PROVE  OrderInv'
  <2>1. CASE call = "live" /\ pump # "half"
    BY <1>a, <2>1, OrderDead DEF CancelCall
  <2>2. CASE ~(call = "live" /\ pump # "half")
    <3>1. UNCHANGED <<pump, in_hand, sent>>
      BY <1>0, <1>a, <2>2 DEF CancelCall
    <3>2. QED
      BY <1>a, <3>1, OrderUntouched, OrderCompleting
  <2>3. QED
    BY <2>1, <2>2
<1>1. ASSUME NEW u \in Users, Enter(u) PROVE OrderInv'
  BY <1>0, <1>1, OrderUntouched DEF Enter, Open
<1>2. ASSUME NEW u \in Users, SendInput(u) PROVE OrderInv'
  BY <1>2, OrderSend
<1>3. ASSUME NEW u \in Users,
             OpenRaises(u) \/ RejectInput(u) \/ CompleteAgain(u) \/ CompleteReturns(u)
      PROVE  OrderInv'
  BY <1>3, OrderUntouched DEF OpenRaises, RejectInput, CompleteAgain, CompleteReturns
<1>4. ASSUME NEW u \in Users, Complete(u) PROVE OrderInv'
  BY <1>0, <1>4, OrderCompleting DEF Complete, MayComplete, Open
<1>5. ASSUME NEW u \in Users, CancelComplete(u) PROVE OrderInv'
  BY <1>5, <1>a DEF CancelComplete
<1>6. ASSUME NEW u \in Users, CompleteWithError(u) \/ Close(u) PROVE OrderInv'
  <2>1. CASE ~completed /\ SetCompleted /\ QueueSentinel /\ CancelCall
    BY <1>6, <1>a, <2>1 DEF CompleteWithError, Close
  <2>2. CASE UNCHANGED <<queue, completed, cut, stream>>
    BY <1>6, <2>2, OrderUntouched DEF CompleteWithError, Close
  <2>3. QED
    BY <1>6, <2>1, <2>2 DEF CompleteWithError, Close, CloseStream
<1>7. CASE TakeInput \/ TakeSentinel
  BY <1>7, OrderTakeInput, OrderTakeSentinel
<1>8. CASE Write
  <2>1. CASE call # "live"
    BY <1>8, <2>1, OrderDead DEF Write
  <2>2. QED
    BY <1>8, <2>1, OrderWrite
<1>9. CASE ConversionFails
  BY <1>9, OrderDead DEF ConversionFails
<1>10. CASE Answer \/ Fail \/ UNCHANGED vars
  BY <1>10, OrderUntouched DEF Answer, Fail
<1>11. QED
  BY <1>1, <1>2, <1>3, <1>4, <1>5, <1>6, <1>7, <1>8, <1>9, <1>10
  DEF Next, Exit, Pump

\* Inputs are sent in order, none left out, and all that were accepted before
\* the session was completed are sent before the stream is half-closed.
THEOREM SentInOrderTheorem == Spec => []SentInOrder
<1>1. OrderInv => SentInOrder
  BY DEF OrderInv
<1>2. QED
  BY <1>1, OrderInit, OrderStep, TypeCorrect, SentinelInvariant, PTL DEF Spec

\* The other tasks do not cancel the RPC under a pending complete().
THEOREM PendingCompleteTheorem == Spec => PendingCompleteKept
<1>1. ASSUME SentinelInv, [Next]_vars, awaiting # {}, call = "live", call' = "cancelled"
      PROVE  ConversionFails \/ \E u \in awaiting : CancelComplete(u)
  <2>1. completed
    BY <1>1 DEF SentinelInv, SoleAwaiter
  <2>2. QED
    BY <1>1, <2>1
    DEF Next, Exit, Enter, Open, OpenRaises, SendInput, RejectInput, Complete, MayComplete,
        CompleteAgain, CompleteReturns, CancelComplete, CompleteWithError, Close,
        CloseStream, Pump, TakeInput, TakeSentinel, Write, Answer, Fail
<1>2. QED
  BY <1>1, SentinelInvariant, PTL DEF Spec, PendingCompleteKept
=============================================================================
