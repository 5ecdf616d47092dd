--------------------------- MODULE LiveDataStream ---------------------------
(* client_sdk/live_data: a StreamHandle and the background task it owns,    *)
(* which runs LiveDataClient._stream_loop (_notification_stream_loop is the *)
(* same loop for another RPC). The task reads frames, awaits the user's     *)
(* callback on each, and reconnects with a pause when the stream breaks;    *)
(* other tasks stop the handle. An action is a stretch of one task between  *)
(* two suspensions. task.cancel() is a request: the task's next step, and   *)
(* no other, is the CancelledError thrown where the task is suspended.      *)
EXTENDS Integers

CONSTANTS
  Users,             \* asyncio tasks that hold the handle
  MaxRetryAttempts,  \* config.max_retry_attempts
  MaxFrames,         \* bound: frames the server sends in a behaviour
  CallbackSwallows   \* whether a user callback may catch CancelledError

ASSUME StreamAssumption ==
  /\ MaxRetryAttempts \in Int
  /\ MaxFrames \in Nat
  /\ CallbackSwallows \in BOOLEAN

\* The reconnects allowed after a frame.
Allowance == IF MaxRetryAttempts > 0 THEN MaxRetryAttempts ELSE 0

VARIABLES
  stopped,        \* StreamHandle._stopped
  done,           \* StreamHandle._done, set by the task's done callback
  pc,             \* where the background task is suspended
  cancelling,     \* task.cancel() was called and is not delivered yet
  attempt,        \* _stream_loop's local
  data_received,  \* _stream_loop's local
  frames,         \* frames handed to the callback (history)
  connects,       \* connections since the last frame (history), counted up
                  \* to one more than Allowance lets through
  errors,         \* calls of on_error (history)
  interrupted,    \* a CancelledError came without a stop (history)
  waiting,        \* the tasks inside stop, at "await self._done.wait()"
  result          \* how the latest stop of each task ended (history)

handle == <<stopped, done, cancelling>>
counts == <<attempt, data_received, frames, connects, errors, interrupted>>
users == <<waiting, result>>
vars == <<handle, pc, counts, users>>

Init ==
  /\ stopped = FALSE /\ done = FALSE /\ cancelling = FALSE
  /\ pc = "created"
  /\ attempt = 0 /\ data_received = FALSE
  /\ frames = 0 /\ connects = 0 /\ errors = 0 /\ interrupted = FALSE
  /\ waiting = {} /\ result = [u \in Users |-> "none"]

-----------------------------------------------------------------------------
(* The background task.                                                     *)

\* The task is suspended at p and its next step is not a CancelledError.
Runs(p) == pc = p /\ ~cancelling /\ UNCHANGED <<handle, users>>

Finish == pc' = "finished" /\ UNCHANGED counts

\* await _maybe_call(on_error, exc), and the loop returns after it.
Tell_Nothing == Finish                          \* mutant: returns silently
Tell ==
  /\ pc' = "on_error"
  /\ errors' = errors + 1
  /\ UNCHANGED <<data_received, frames, connects, interrupted>>

\* The top of the loop: subscribe and wait for a frame, unless converting the
\* request or calling the stub raises.
Subscribe ==
  IF stopped THEN Finish
  ELSE \/ /\ pc' = "read"
          /\ data_received' = FALSE
          /\ connects' = IF connects > 1 + Allowance THEN connects ELSE connects + 1
          /\ UNCHANGED <<attempt, frames, errors, interrupted>>
       \/ Tell /\ UNCHANGED attempt

Start == Runs("created") /\ Subscribe

Stopping_Ignored == FALSE                       \* mutant: no check per frame
Stopping == stopped

\* A frame: delivered and its callback awaited, or the reason to leave.
Frame ==
  /\ Runs("read")
  /\ frames < MaxFrames
  /\ IF Stopping THEN Finish
     ELSE /\ pc' = "callback"
          /\ data_received' = TRUE
          /\ attempt' = 0
          /\ frames' = frames + 1
          /\ connects' = 0
          /\ UNCHANGED <<errors, interrupted>>

\* The callback returns or raises an Exception, or there is none, for the frame
\* cannot be converted: either is only logged.
CallbackEnds == Runs("callback") /\ pc' = "read" /\ UNCHANGED counts

Attempts_Forgotten == 1                         \* mutant: counted per connection
Attempts_Back ==                                \* mutant: counts down
  IF data_received THEN 0 ELSE attempt - 1
Attempts == IF data_received THEN 1 ELSE attempt + 1

GivesUp_Late(n) == n > MaxRetryAttempts + 1     \* mutant: one reconnect more
GivesUp(n) == n > MaxRetryAttempts

\* The server closes the stream, or it breaks with a retryable status.
StreamBreaks ==
  /\ Runs("read")
  /\ IF stopped THEN Finish
     ELSE /\ attempt' = Attempts
          /\ IF GivesUp(Attempts) THEN Tell
             ELSE pc' = "sleep"
                  /\ UNCHANGED <<data_received, frames, connects, errors, interrupted>>

\* The stream ends with another status or an unexpected exception.
StreamFails ==
  /\ Runs("read")
  /\ IF stopped THEN Finish ELSE Tell /\ UNCHANGED attempt

Wake == Runs("sleep") /\ Subscribe

OnErrorEnds == Runs("on_error") /\ Finish

\* CancelledError where the task is suspended. A task not yet started never
\* runs; the loop returns quietly; a callback is abandoned, or catches it, and
\* goes on or returns.
CancelDelivered ==
  /\ cancelling
  /\ pc # "finished"
  /\ cancelling' = FALSE
  /\ \/ pc' = "finished"
     \/ CallbackSwallows /\ pc \in {"callback", "on_error"} /\ pc' = pc
     \/ CallbackSwallows /\ pc = "callback" /\ pc' = "read"
  /\ UNCHANGED <<stopped, done, counts, users>>

\* A CancelledError nobody asked for: the channel is closed under the stream,
\* or the callback raises one of its own.
Interrupted ==
  /\ pc \in {"read", "callback"}
  /\ Runs(pc)
  /\ pc' = "finished"
  /\ interrupted' = TRUE
  /\ UNCHANGED <<attempt, data_received, frames, connects, errors>>

TaskDone_Asked == pc = "finished" \/ cancelling  \* mutant: set by the request
TaskDone == pc = "finished"

\* The task's done callback runs.
DoneCallback ==
  /\ TaskDone
  /\ ~done
  /\ done' = TRUE
  /\ UNCHANGED <<stopped, cancelling, pc, counts, users>>

-----------------------------------------------------------------------------
(* StreamHandle.stop, by another task or inside a callback of the stream.   *)

CancelTask_Not == UNCHANGED cancelling          \* mutant: leaves it to the flag
CancelTask == cancelling' = (pc # "finished")

Stop(u) ==
  /\ u \notin waiting
  /\ ~stopped
  /\ stopped' = TRUE
  /\ CancelTask
  /\ waiting' = waiting \cup {u}
  /\ UNCHANGED <<done, pc, counts, result>>

\* Only the first stop waits.
StopAgain(u) ==
  /\ u \notin waiting
  /\ stopped
  /\ result' = [result EXCEPT ![u] = "returned"]
  /\ UNCHANGED <<handle, pc, counts, waiting>>

StopReturns(u) ==
  /\ u \in waiting
  /\ done
  /\ waiting' = waiting \ {u}
  /\ result' = [result EXCEPT ![u] = "waited"]
  /\ UNCHANGED <<handle, pc, counts>>

\* The stopping task is itself cancelled while it waits (a timeout around
\* stop, say).
StopAbandoned(u) ==
  /\ u \in waiting
  /\ waiting' = waiting \ {u}
  /\ result' = [result EXCEPT ![u] = "cancelled"]
  /\ UNCHANGED <<handle, pc, counts>>

\* The callback of a frame, or on_error, awaits stop(): it cancels the task it
\* runs in, so its own wait is cut off.
SelfStop ==
  /\ pc \in {"callback", "on_error"}
  /\ ~stopped
  /\ ~cancelling
  /\ stopped' = TRUE
  /\ CancelTask
  /\ UNCHANGED <<done, pc, counts, users>>

Loop ==
  Start \/ CallbackEnds \/ Wake \/ OnErrorEnds \/ CancelDelivered \/ DoneCallback

Server == Frame \/ StreamBreaks \/ StreamFails

Next ==
  \/ Loop \/ Server \/ Interrupted \/ SelfStop
  \/ \E u \in Users : Stop(u) \/ StopAgain(u) \/ StopReturns(u) \/ StopAbandoned(u)

Spec == Init /\ [][Next]_vars

\* The event loop runs the task; callbacks end. The server owes nothing.
FairSpec == Spec /\ WF_vars(Loop) /\ \A u \in Users : WF_vars(StopReturns(u))

\* A server that lets no connection stand, and sends MaxFrames frames at most.
BreakingServer == WF_vars(StreamBreaks)

-----------------------------------------------------------------------------
(* Properties.                                                              *)

\* The type of every variable.
TypeOK ==
  /\ stopped \in BOOLEAN /\ done \in BOOLEAN /\ cancelling \in BOOLEAN
  /\ data_received \in BOOLEAN /\ interrupted \in BOOLEAN
  /\ pc \in {"created", "read", "callback", "on_error", "sleep", "finished"}
  /\ attempt \in Nat /\ frames \in Nat /\ connects \in Nat /\ errors \in Nat
  /\ waiting \subseteq Users
  /\ result \in [Users -> {"none", "returned", "waited", "cancelled"}]

Phase == CASE pc = "finished" -> "over"
           [] pc # "finished" /\ stopped -> "stopping"
           [] pc # "finished" /\ ~stopped /\ errors > 0 -> "told"
           [] OTHER -> "active"

\* However frames, broken connections, stops and callbacks that swallow a
\* cancellation interleave: no frame is delivered and no error told after
\* stop() was called, and an error is told once and last (Subscription).
Contract == INSTANCE Subscription WITH phase <- Phase, delivered <- frames

KeepsSubscription == Contract!Spec

\* A server that accepts subscriptions and never sends a frame is tried once
\* and max_retry_attempts times more; only a frame renews the allowance.
ReconnectsBounded == connects <= 1 + Allowance

\* The stream does not end behind the application's back: it asked for it, or
\* on_error was called, or a CancelledError came from the channel or callback.
EndExplained == pc = "finished" => stopped \/ errors = 1 \/ interrupted

\* The stop() that waited returns when the background task is over, so no
\* callback of the stream is running behind it.
StopWaits == \A u \in Users : result[u] = "waited" => pc = "finished"

\* A stopped stream ends and stop() returns, also when the server is silent
\* (if callbacks let the cancellation through).
StopEnds ==
  /\ stopped ~> done
  /\ \A u \in Users : u \in waiting ~> u \notin waiting

\* A server that breaks every connection and stops sending is given up.
BrokenServerGivenUp == BreakingServer => <>(pc = "finished")
=============================================================================
