------------------------ MODULE ManualControlSession ------------------------
(* client_sdk/remote_control/manual_control_session.py: a client-streaming  *)
(* RPC fed from an asyncio.Queue. The tasks that share a session run        *)
(* send_input, complete, complete_with_error and close; none of them        *)
(* suspends (the queue is unbounded) but complete, at "await self._call".   *)
(* grpc.aio runs _request_iterator in a task of its own, the pump.          *)
EXTENDS Integers, Sequences

CONSTANTS
  Users,      \* asyncio tasks that hold the session
  MaxInputs,  \* bound: inputs a behaviour may queue
  BadInputs,  \* the inputs, by number, the iterator cannot convert
  CLOSE       \* _CLOSE, the sentinel

Inputs == 1..MaxInputs

ASSUME SessionAssumption ==
  /\ MaxInputs \in Nat
  /\ BadInputs \subseteq Inputs
  /\ CLOSE \notin Int

VARIABLES
  queue,      \* _queue: inputs, numbered as they were accepted, and CLOSE
  accepted,   \* inputs accepted by send_input (history)
  call,       \* _call: None, or the state of the RPC
  closed,     \* _closed
  completed,  \* _completed
  cut,        \* inputs accepted when _completed was set (history)
  pump,       \* where the task that runs _request_iterator is
  in_hand,    \* the input it took from the queue and has not sent
  sent,       \* the inputs handed to the transport (history)
  awaiting,   \* the tasks inside complete, at "await self._call"
  result      \* how the latest operation of each task ended (history)

flags == <<closed, completed, cut>>
stream == <<pump, in_hand, sent>>
tasks == <<awaiting, result>>
vars == <<queue, accepted, call, flags, stream, tasks>>

Init ==
  /\ queue = << >> /\ accepted = 0 /\ call = "none"
  /\ closed = FALSE /\ completed = FALSE /\ cut = 0
  /\ pump = "off" /\ in_hand = << >> /\ sent = << >>
  /\ awaiting = {} /\ result = [u \in Users |-> "none"]

-----------------------------------------------------------------------------
(* The session.                                                             *)

Returns(u, r) == result' = [result EXCEPT ![u] = r]

\* _open: the RPC starts once, and with it the pump.
Open ==
  /\ call' = IF call = "none" THEN "live" ELSE call
  /\ pump' = IF call = "none" THEN "get" ELSE pump
  /\ UNCHANGED <<in_hand, sent>>

\* self._call.cancel(): no effect on an RPC that is over. grpc cancels the
\* pump with it.
CancelCall ==
  /\ call' = IF call = "live" THEN "cancelled" ELSE call
  /\ pump' = IF call = "live" /\ pump # "half" THEN "dead" ELSE pump
  /\ in_hand' = IF call = "live" THEN << >> ELSE in_hand
  /\ UNCHANGED sent

SetCompleted == completed' = TRUE /\ cut' = accepted

Enter(u) ==
  /\ u \notin awaiting
  /\ Open
  /\ Returns(u, "ok")
  /\ UNCHANGED <<queue, accepted, flags, awaiting>>

\* Only _closed is looked at: a session that is completing still accepts.
SendInput(u) ==
  /\ u \notin awaiting
  /\ ~closed
  /\ accepted < MaxInputs
  /\ Open
  /\ accepted' = accepted + 1
  /\ queue' = Append(queue, accepted')
  /\ Returns(u, "ok")
  /\ UNCHANGED <<flags, awaiting>>

RejectInput(u) ==
  /\ u \notin awaiting
  /\ closed
  /\ Returns(u, "raised")
  /\ UNCHANGED <<queue, accepted, call, flags, stream, awaiting>>

\* On a closed channel the stub's call raises out of _open, whichever operation
\* it opens the RPC for; the session stays as it was.
OpenRaises(u) ==
  /\ u \notin awaiting
  /\ call = "none"
  /\ Returns(u, "raised")
  /\ UNCHANGED <<queue, accepted, call, flags, stream, awaiting>>

QueueSentinel_None == UNCHANGED queue                \* mutant: forgotten
QueueSentinel_First == queue' = <<CLOSE>> \o queue   \* mutant: overtakes the inputs
QueueSentinel == queue' = Append(queue, CLOSE)

MayComplete_Open == ~closed             \* mutant: looks at the other flag
MayComplete == ~completed

Complete(u) ==
  /\ u \notin awaiting
  /\ MayComplete
  /\ Open
  /\ SetCompleted
  /\ QueueSentinel
  /\ awaiting' = awaiting \cup {u}
  /\ Returns(u, "none")
  /\ UNCHANGED <<accepted, closed>>

CompleteAgain(u) ==
  /\ u \notin awaiting
  /\ ~MayComplete
  /\ Returns(u, "raised")
  /\ UNCHANGED <<queue, accepted, call, flags, stream, awaiting>>

\* What "await self._call" gives for each end of the RPC.
EndOf == [ok |-> "response", error |-> "rpc_error", cancelled |-> "cancelled"]

CompleteReturns(u) ==
  /\ u \in awaiting
  /\ call # "live"
  /\ awaiting' = awaiting \ {u}
  /\ closed' = TRUE
  /\ Returns(u, EndOf[call])
  /\ UNCHANGED <<queue, accepted, call, completed, cut, stream>>

\* The task is cancelled in that await: grpc cancels the RPC with it.
CancelComplete(u) ==
  /\ u \in awaiting
  /\ CancelCall
  /\ awaiting' = awaiting \ {u}
  /\ closed' = TRUE
  /\ Returns(u, "cancelled")
  /\ UNCHANGED <<queue, accepted, completed, cut>>

CompleteWithError(u) ==
  /\ u \notin awaiting
  /\ IF completed
       THEN UNCHANGED <<queue, call, flags, stream>>
       ELSE SetCompleted /\ CancelCall /\ QueueSentinel /\ closed' = TRUE
  /\ Returns(u, "ok")
  /\ UNCHANGED <<accepted, awaiting>>

\* close leaves a stream that is completing alone.
CloseStream_Always == SetCompleted /\ QueueSentinel /\ CancelCall   \* mutant
CloseStream ==
  IF completed THEN UNCHANGED <<queue, call, completed, cut, stream>>
               ELSE SetCompleted /\ QueueSentinel /\ CancelCall

Close(u) ==
  /\ u \notin awaiting
  /\ IF closed THEN UNCHANGED <<queue, call, flags, stream>>
               ELSE closed' = TRUE /\ CloseStream
  /\ Returns(u, "ok")
  /\ UNCHANGED <<accepted, awaiting>>

\* __aexit__: complete_with_error leaves nothing for close to do.
Exit(u, failed) ==
  IF failed /\ ~completed THEN CompleteWithError(u) ELSE Close(u)

-----------------------------------------------------------------------------
(* The pump and the RPC.                                                    *)

HandOver_All == in_hand' = queue   \* mutant: the queue itself, sentinel included
HandOver == in_hand' = <<Head(queue)>>

\* queue.get() hands over the next input ...
TakeInput ==
  /\ pump = "get"
  /\ queue # << >>
  /\ Head(queue) # CLOSE
  /\ pump' = "write"
  /\ HandOver
  /\ queue' = Tail(queue)
  /\ UNCHANGED <<accepted, call, flags, sent, tasks>>

\* ... or the sentinel: the iterator ends and grpc half-closes a live stream.
TakeSentinel ==
  /\ pump = "get"
  /\ queue # << >>
  /\ Head(queue) = CLOSE
  /\ pump' = IF call = "live" THEN "half" ELSE "dead"
  /\ queue' = Tail(queue)
  /\ UNCHANGED <<accepted, call, flags, in_hand, sent, tasks>>

\* The converted request is written; on an RPC that is over the write fails
\* and grpc drops the iterator.
Write ==
  /\ pump = "write"
  /\ in_hand[1] \notin BadInputs
  /\ in_hand' = << >>
  /\ IF call = "live" THEN pump' = "get" /\ sent' = sent \o in_hand
                      ELSE pump' = "dead" /\ UNCHANGED sent
  /\ UNCHANGED <<queue, accepted, call, flags, tasks>>

\* The conversion raises inside the iterator: grpc cancels the RPC.
ConversionFails ==
  /\ pump = "write"
  /\ in_hand[1] \in BadInputs
  /\ pump' = "dead"
  /\ in_hand' = << >>
  /\ call' = IF call = "live" THEN "cancelled" ELSE call
  /\ UNCHANGED <<queue, accepted, flags, sent, tasks>>

Pump == TakeInput \/ TakeSentinel \/ Write \/ ConversionFails

\* The server answers, before or after the stream's end ...
Answer ==
  /\ call = "live"
  /\ call' = "ok"
  /\ UNCHANGED <<queue, accepted, flags, stream, tasks>>

\* ... or the RPC fails; the timeout of the session is one such failure.
Fail ==
  /\ call = "live"
  /\ call' = "error"
  /\ UNCHANGED <<queue, accepted, flags, stream, tasks>>

Next ==
  \/ \E u \in Users :
       \/ Enter(u) \/ OpenRaises(u) \/ SendInput(u) \/ RejectInput(u)
       \/ Complete(u) \/ CompleteAgain(u) \/ CompleteReturns(u) \/ CancelComplete(u)
       \/ CompleteWithError(u) \/ Close(u)
       \/ \E failed \in BOOLEAN : Exit(u, failed)
  \/ Pump
  \/ Answer
  \/ Fail

Spec == Init /\ [][Next]_vars

\* The event loop runs the pump and a finished await; the server reads the
\* stream to its end and answers. No timeout helps.
Fairness ==
  /\ WF_vars(Pump)
  /\ WF_vars(pump = "half" /\ Answer)
  /\ \A u \in Users : WF_vars(CompleteReturns(u))

FairSpec == Spec /\ Fairness

-----------------------------------------------------------------------------
(* Properties.                                                              *)

\* The type of every variable.
TypeOK ==
  /\ queue \in Seq(Inputs \cup {CLOSE})
  /\ accepted \in 0..MaxInputs
  /\ call \in {"none", "live", "ok", "error", "cancelled"}
  /\ closed \in BOOLEAN /\ completed \in BOOLEAN
  /\ cut \in 0..MaxInputs
  /\ pump \in {"off", "get", "write", "half", "dead"}
  /\ in_hand \in Seq(Inputs)
  /\ sent \in Seq(Inputs)
  /\ awaiting \subseteq Users
  /\ result \in [Users -> {"none", "ok", "raised", "response", "rpc_error", "cancelled"}]

SentinelsQueued == {i \in 1..Len(queue) : queue[i] = CLOSE}

\* However complete, complete_with_error, close and __aexit__ overlap, the
\* queue gets one sentinel, once the session is completed.
OneSentinel ==
  /\ \A i, j \in SentinelsQueued : i = j
  /\ SentinelsQueued # {} => completed /\ pump # "half"

\* A session that was completed or closed never leaves its stream open for
\* good: while the RPC lives the sentinel is on its way or was taken (also
\* for an RPC that __aenter__ opens on a closed session).
EndOfStreamComing ==
  /\ closed => completed
  /\ completed /\ call = "live" => SentinelsQueued # {} \/ pump = "half"

\* One task at most waits for the response, and it waits on an RPC that
\* exists and whose stream was told to end.
SoleAwaiter ==
  /\ \A u, v \in awaiting : u = v
  /\ awaiting # {} => completed /\ call # "none"

\* Inputs reach the transport in the order send_input accepted them, with
\* none left out, and the stream is half-closed only after every input that
\* was accepted before the session was completed.
SentInOrder ==
  /\ \A i \in 1..Len(sent) : sent[i] = i
  /\ pump = "half" => Len(sent) = cut

\* A pending complete() is not cut short by the other tasks: nothing but its
\* own cancellation or an input that cannot be converted cancels the RPC.
PendingCompleteKept ==
  [][awaiting # {} /\ call = "live" /\ call' = "cancelled" =>
       ConversionFails \/ \E u \in awaiting : CancelComplete(u)]_vars

\* complete() returns when the server answers streams that end: the server is
\* always told of the end, behind whatever was queued.
CompleteEnds == \A u \in Users : u \in awaiting ~> u \notin awaiting
=============================================================================
