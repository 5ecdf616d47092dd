----------------------------- MODULE SubClients -----------------------------
(* The unary methods of one sub-client (remote_control/client.py,           *)
(* mission_autonomy/client.py, live_data/client.py): check the arguments,   *)
(* build a request with an id, run the stub's call through the sub-client's *)
(* only GrpcResilience. Remote-control and mission methods build the        *)
(* request before execute, live-data methods in the operation it retries.   *)
(* The network may lose and delay requests; a caller that has its outcome   *)
(* may have one under way still.                                            *)
EXTENDS Resilience

CONSTANTS
  Methods,    \* the methods of the sub-client
  MaxCalls    \* bound: calls in a behaviour

ASSUME SubClientsAssumption == MaxCalls \in Nat

\* How a call's requests come by their ids: one built first; one built on
\* each try, with a new id or the caller's own; none, as its conversion raises.
Build == [commands |-> {"first"}, live_data |-> {"each", "chosen", "never"}]

VARIABLES
  service,    \* which kind of sub-client this is
  method,     \* the method of each task's latest call
  serial,     \* the number of that call, 0 before the first
  build,      \* how its requests come by their ids
  tid,        \* the id of its latest request, 0 if it built none
  calls,      \* calls made
  ids,        \* ids drawn
  wire,       \* requests under way
  executed,   \* requests the server executed (history)
  blamed      \* methods whose failures the breaker counts (history)

latest == <<method, serial, build>>
sub_vars == <<vars, service, latest, tid, calls, ids, wire, executed, blamed>>

SubInit ==
  /\ Init
  /\ service \in DOMAIN Build
  /\ method = [t \in Tasks |-> "none"]
  /\ serial = [t \in Tasks |-> 0]
  /\ build = [t \in Tasks |-> "first"]
  /\ tid = [t \in Tasks |-> 0]
  /\ calls = 0 /\ ids = 0
  /\ wire = {} /\ executed = {} /\ blamed = {}

-----------------------------------------------------------------------------
(* A method.                                                                *)

NewCall(t, m) ==
  /\ calls < MaxCalls
  /\ calls' = calls + 1
  /\ serial' = [serial EXCEPT ![t] = calls + 1]
  /\ method' = [method EXCEPT ![t] = m]

\* build_request_base: a new uuid4, or the caller's id, taken to be new too.
NewId_Shared(t) ==                     \* mutant: every call draws the same id
  ids' = 1 /\ tid' = [tid EXCEPT ![t] = 1]
NewId(t) == ids' = ids + 1 /\ tid' = [tid EXCEPT ![t] = ids + 1]

NoId(t) == tid' = [tid EXCEPT ![t] = 0] /\ UNCHANGED ids

\* The stub's call, if the operation runs and has a request.
Send_Unchecked(t) ==                   \* mutant: sent before the breaker is asked
  wire' = IF tid'[t] # 0 THEN wire \cup {[call |-> serial'[t], id |-> tid'[t]]} ELSE wire
Send_Unbuilt(t) ==                     \* mutant: sent without a request id
  wire' = IF pc'[t] = "op" THEN wire \cup {[call |-> serial'[t], id |-> tid'[t]]} ELSE wire
Send(t) ==
  wire' = IF pc'[t] = "op" /\ tid'[t] # 0
            THEN wire \cup {[call |-> serial'[t], id |-> tid'[t]]}
            ELSE wire

\* The methods behind the breaker's count.
Blame(t) ==
  blamed' = CASE failure_count' = 0             -> {}
              [] failure_count' > failure_count -> blamed \cup {method[t]}
              [] OTHER                          -> blamed

\* A validate_ function, or a conversion before execute, raises.
Invalid(t, m) ==
  /\ pc[t] = "idle"
  /\ NewCall(t, m)
  /\ NoId(t)
  /\ Return(t, "value_error")
  /\ UNCHANGED <<breaker, attempt, retried, sleep_left, service, build, wire,
                 executed, blamed>>

\* The request is built before execute, or on a try that execute makes.
BuildsRequest(t, b) == b = "first" \/ (b # "never" /\ pc'[t] = "op")

\* What a call does before its first suspension, or its rejection.
Call(t, m) ==
  /\ NewCall(t, m)
  /\ Execute(t)
  /\ \E b \in Build[service] :
       /\ build' = [build EXCEPT ![t] = b]
       /\ IF BuildsRequest(t, b) THEN NewId(t) ELSE NoId(t)
  /\ Send(t)
  /\ Blame(t)
  /\ UNCHANGED <<service, executed>>

RetryId_New(t) == NewId(t)             \* mutant: every retry builds its request
RetryId(t) == IF build[t] = "each" THEN NewId(t) ELSE UNCHANGED <<ids, tid>>

Retry(t) ==
  /\ Wake(t)
  /\ RetryId(t)
  /\ UNCHANGED <<service, latest, calls, executed>>
  /\ Send(t)
  /\ Blame(t)

Answered(t) ==
  /\ \E r \in executed : r.id = tid[t]
  /\ OpSucceeds(t)

\* The status, the deadline, a cancellation, or the conversion's error (which
\* comes without a suspension in the code, and here as a step of its own).
Failed(t) ==
  \E e \in OpErrors :
    /\ build[t] = "never" => e \in {"value_error", "unknown"}
    /\ RetryLater(t, e) \/ GiveUp(t, e)

Ends(t) ==
  /\ Answered(t) \/ Failed(t) \/ CancelSleep(t)
  /\ Blame(t)
  /\ UNCHANGED <<service, latest, tid, calls, ids, wire, executed>>

Time ==
  /\ Tick
  /\ UNCHANGED <<service, latest, tid, calls, ids, wire, executed, blamed>>

-----------------------------------------------------------------------------
(* The network and the server, which takes a repeated id for a repeated     *)
(* request and executes it once.                                            *)

Perform(r) ==
  /\ wire' = wire \ {r}
  /\ executed' = IF \E x \in executed : x.id = r.id THEN executed ELSE executed \cup {r}
  /\ UNCHANGED <<vars, service, latest, tid, calls, ids, blamed>>

Lose(r) ==
  /\ wire' = wire \ {r}
  /\ UNCHANGED <<vars, service, latest, tid, calls, ids, executed, blamed>>

SubNext ==
  \/ \E t \in Tasks, m \in Methods : Invalid(t, m) \/ Call(t, m)
  \/ \E t \in Tasks : Retry(t) \/ Ends(t)
  \/ Time
  \/ \E r \in wire : Perform(r) \/ Lose(r)

SubSpec == SubInit /\ [][SubNext]_sub_vars

-----------------------------------------------------------------------------
(* Properties.                                                              *)

Request == [call : 1..MaxCalls, id : Nat \ {0}]

\* The type of every variable.
SubTypeOK ==
  /\ TypeOK
  /\ service \in DOMAIN Build
  /\ method \in [Tasks -> Methods \cup {"none"}]
  /\ serial \in [Tasks -> 0..MaxCalls]
  /\ build \in [Tasks -> UNION {Build[s] : s \in DOMAIN Build}]
  /\ tid \in [Tasks -> Nat]
  /\ calls \in 0..MaxCalls /\ ids \in Nat
  /\ wire \subseteq Request /\ executed \subseteq Request
  /\ blamed \subseteq Methods

ExecutedFor(c) == {r \in executed : r.call = c}

\* However often a remote-control or mission command is retried, and however
\* late its requests arrive, its tries carry one id and a server that knows
\* ids executes it once; a live-data request may be executed once per try.
OncePerCall ==
  \A c \in 1..calls :
    ExecutedFor(c) # {} =>
      Cardinality(ExecutedFor(c)) <=
        IF service = "commands" THEN 1 ELSE MaxRetryAttempts + 1

\* A call that succeeds was executed itself: its answer is not another
\* call's, taken for its own because they share an id.
AnswerIsOwn ==
  \A t \in Tasks : pc[t] = "idle" /\ result[t] = "success" => ExecutedFor(serial[t]) # {}

\* A call that was refused, by validation or by the breaker, sent nothing: no
\* request of it can be executed later.
RefusedNotSent ==
  \A t \in Tasks :
    pc[t] = "idle" /\ (result[t] \in {"rejected", "assertion"} \/ tid[t] = 0) =>
      \A r \in wire \cup executed : r.call # serial[t]
=============================================================================
