------------------------------- MODULE Client -------------------------------
(* zequent_client.py with what it holds together: the environment it is     *)
(* made from, one channel per service, the sub-clients made on first use,   *)
(* each with a breaker of its own (Resilience), the unary calls and the     *)
(* subscriptions in progress on them, and close(). An action is a stretch   *)
(* of one asyncio task between two suspensions; a stub's call on a closed   *)
(* channel raises without one and is here a step of its own.                *)
EXTENDS Config, Stubs, FiniteSets

CONSTANTS
  Numbers,           \* each service is called by a task of each number
  MaxRetryAttempts, FailureThreshold, WaitDuration,   \* as in Resilience
  MaxCalls,          \* bound: unary calls in a behaviour
  None               \* of a variable that has no value yet

ASSUME ClientAssumption ==
  /\ IsFiniteSet(Numbers)
  /\ MaxRetryAttempts \in Int /\ FailureThreshold \in Int /\ WaitDuration \in Nat
  /\ MaxCalls \in Nat

Callers == Services \X Numbers

\* The subscriptions, one to each streaming RPC.
Subscriptions == Streams

VARIABLES
  environment,  \* the variables of each service; none once they are read
  limits,       \* a variable of the resilience settings
  used,         \* the RPCs the application uses, with their services
  phase,        \* of the client: new, failed, open, closing, closed, abandoned
  to_close,     \* the channels close() has not come to
  channels,     \* per service: its address, and whether it is open
  raised,       \* channels that raised when they were closed
  subs,         \* per service: the sub-client, if there is one
  pc, attempt, retried, result,   \* of each unary call, as in Resilience
  rpc,          \* the RPC of each caller's latest call
  calls,        \* calls the application has yet to make
  streams,      \* the loop of each subscription
  reconnects,   \* its attempt
  sent,         \* the latest request that left, if any (history)
  meant         \* per service: where its variables point (history)

setup == <<environment, limits, used, meant>>
life == <<phase, to_close, channels, raised>>
unary == <<pc, attempt, retried, result, rpc, calls>>
streaming == <<streams, reconnects>>
client_vars == <<setup, life, subs, unary, streaming, sent>>

\* What an application uses in the behaviours about calls, streams and close.
Typical ==
  {<<"remote_control", "TakeOff">>, <<"mission_autonomy", "GetMission">>,
   <<"live_data", "StreamTelemetry">>}

Methods == UNION {{s} \X DOMAIN Builds[s] : s \in Services}

\* A method of each service, for the behaviours about the environment.
Sample ==
  [remote_control |-> "GoTo", mission_autonomy |-> "GetTask", live_data |-> "ChangeLens"]

\* The typical methods are used, or any one of all with a single call, or the
\* variables of one service are set and a method of it is called.
ClientInit ==
  /\ \/ /\ environment = [s \in Services |-> Unset]
        /\ limits \in {"unset", "empty", "number", "text"}
        /\ \/ used = Typical /\ calls = MaxCalls
           \/ calls = 1 /\ \E m \in Methods : used = {m}
     \/ \E s \in Services, raw \in Raw :
          /\ environment = [[x \in Services |-> Unset] EXCEPT ![s] = raw]
          /\ limits = "unset"
          /\ used = {<<s, Sample[s]>>} /\ calls = 1
  /\ phase = "new" /\ to_close = << >> /\ raised = {}
  /\ channels = [s \in Services |-> None] /\ meant = [s \in Services |-> None]
  /\ subs = [s \in Services |-> None]
  /\ pc = [c \in Callers |-> "idle"]
  /\ attempt = [c \in Callers |-> 0] /\ retried = [c \in Callers |-> FALSE]
  /\ result = [c \in Callers |-> "none"] /\ rpc = [c \in Callers |-> None]
  /\ streams = [x \in Subscriptions |-> "none"]
  /\ reconnects = [x \in Subscriptions |-> 0]
  /\ sent = {}

-----------------------------------------------------------------------------
(* from_env, __init__ and close.                                            *)

\* Where the variables of a service point: to its host and port, unless a
\* name to look up is asked for and given; in plain text unless the variable
\* for it is set to something else than a word for true.
Meant(s, raw) ==
  LET asked == raw.USE_STORK = "true" /\ raw.STORK_NAME # "empty"
      named == IF raw.STORK_NAME = "unset" THEN "own" ELSE raw.STORK_NAME
      host == IF raw.HOST = "unset" THEN "localhost" ELSE raw.HOST
      usual == [remote_control |-> 8002, live_data |-> 8003, mission_autonomy |-> 8004]
      port == IF raw.PORT = "number" THEN Number ELSE usual[s]
  IN  [scheme |-> IF asked THEN "dns" ELSE "direct",
       name |-> IF asked THEN named ELSE host,
       port |-> IF asked THEN 0 ELSE port,
       secure |-> raw.USE_PLAINTEXT \notin {"unset", "true"}]

Bad == limits = "text" \/ \E s \in Services : ServiceRaises(environment[s])

\* Everything is read before the first channel is made. What is read is not
\* read again.
FromEnv ==
  /\ phase = "new"
  /\ environment' = [s \in Services |-> Unset] /\ limits' = "unset"
  /\ IF Bad
       THEN phase' = "failed" /\ UNCHANGED <<channels, meant>>
       ELSE /\ phase' = "open"
            /\ channels' = [s \in Services |->
                 [at |-> create_channel(Service(s, environment[s])), open |-> TRUE]]
            /\ meant' = [s \in Services |-> Meant(s, environment[s])]
  /\ UNCHANGED <<used, to_close, raised, subs, unary, streaming, sent>>

\* self._channels, the order in which close() goes through them.
Channels_Two == <<"remote_control", "mission_autonomy">>   \* mutant: one left out
Channels == <<"remote_control", "mission_autonomy", "live_data">>

\* The first close(); any other returns at once.
Close ==
  /\ phase = "open"
  /\ phase' = "closing" /\ to_close' = Channels
  /\ UNCHANGED <<setup, channels, raised, subs, unary, streaming, sent>>

\* await channel.close(): an exception it raises is logged.
CloseNext ==
  /\ phase = "closing"
  /\ \/ channels' = [channels EXCEPT ![Head(to_close)].open = FALSE] /\ UNCHANGED raised
     \/ raised' = raised \cup {Head(to_close)} /\ UNCHANGED channels
  /\ to_close' = Tail(to_close)
  /\ phase' = IF Tail(to_close) = << >> THEN "closed" ELSE "closing"
  /\ UNCHANGED <<setup, subs, unary, streaming, sent>>

\* close() is cancelled while it awaits a channel, which may be closed by then:
\* CancelledError is no Exception, so the channels after it stay open, and
\* _closed is set, so another close() returns at once.
CloseCancelled ==
  /\ phase = "closing"
  /\ \/ channels' = [channels EXCEPT ![Head(to_close)].open = FALSE]
     \/ UNCHANGED channels
  /\ phase' = "abandoned" /\ to_close' = << >>
  /\ UNCHANGED <<setup, raised, subs, unary, streaming, sent>>

-----------------------------------------------------------------------------
(* The properties remote_control, mission_autonomy and live_data.           *)

NewSub(s) ==
  [channel |-> s, failures |-> 0, open |-> FALSE, since |-> WaitDuration]

Sub_New(s) == NewSub(s)                \* mutant: made on every use
Sub(s) == IF subs[s] = None THEN NewSub(s) ELSE subs[s]

Usable == phase \in {"open", "closing", "closed", "abandoned"}

Open(s) == channels[Sub(s).channel].open

\* A request, told from the one before it although they may be alike: a retry,
\* a reconnection and a second call of the same RPC each show in sent.
Request(s, r) ==
  LET q == [service |-> s, rpc |-> r, message |-> Builds[s][r],
            at |-> channels[Sub(s).channel].at, again |-> FALSE]
  IN  IF sent = {q} THEN [q EXCEPT !.again = TRUE] ELSE q

\* It leaves on the channel of the sub-client, if that is open.
Sends_Own(s, r) == sent' = {Request(s, r)}   \* mutant: whatever its channel is
Sends(s, r) == sent' = IF Open(s) THEN {Request(s, r)} ELSE sent

\* Where a try is: under way, or about to be refused by a closed channel.
Try(s) == IF Open(s) THEN "op" ELSE "refused"

-----------------------------------------------------------------------------
(* Unary methods, through execute of the sub-client's GrpcResilience.       *)

\* A method whose RPC or request is not among the stubs: AttributeError.
CallMissing(c, r) ==
  /\ Usable /\ pc[c] = "idle" /\ calls > 0
  /\ r \notin DOMAIN Stub[c[1]]
  /\ calls' = calls - 1
  /\ subs' = [subs EXCEPT ![c[1]] = Sub(c[1])]
  /\ UNCHANGED <<setup, life, pc, attempt, retried, result, rpc, streaming, sent>>

\* _check_circuit: the call passes, or is rejected.
Passes(b) == ~b.open \/ b.since >= WaitDuration
Checked(b) ==
  IF Passes(b) THEN [b EXCEPT !.open = FALSE, !.failures = IF b.open THEN 0 ELSE @]
  ELSE b

\* A policy that allows no try, not even the first, ends in the assertion after
\* the loop of execute.
Call(c, r) ==
  LET s == c[1]
  IN  /\ Usable /\ pc[c] = "idle" /\ calls > 0
      /\ r \in DOMAIN Stub[s] \ Streams
      /\ calls' = calls - 1
      /\ rpc' = [rpc EXCEPT ![c] = r]
      /\ attempt' = [attempt EXCEPT ![c] = 0]
      /\ retried' = [retried EXCEPT ![c] = FALSE]
      /\ subs' = [subs EXCEPT ![s] = Checked(Sub(s))]
      /\ IF Passes(Sub(s)) /\ 0 <= MaxRetryAttempts
           THEN /\ pc' = [pc EXCEPT ![c] = Try(s)]
                /\ result' = [result EXCEPT ![c] = "none"]
                /\ Sends(s, r)
           ELSE /\ result' = [result EXCEPT ![c] =
                     IF Passes(Sub(s)) THEN "assertion" ELSE "rejected"]
                /\ UNCHANGED <<pc, sent>>
      /\ UNCHANGED <<setup, life, streaming>>

Succeeds(c) ==
  /\ pc[c] = "op"
  /\ pc' = [pc EXCEPT ![c] = "idle"]
  /\ result' = [result EXCEPT ![c] = "success"]
  /\ subs' = [subs EXCEPT ![c[1]].failures = 0, ![c[1]].open = FALSE]
  /\ UNCHANGED <<setup, life, attempt, retried, rpc, calls, streaming, sent>>

\* How a try under way, and one on a closed channel (UsageError), may fail;
\* the former is cancelled if its channel is closed.
Errors(c) ==
  IF pc[c] = "op" THEN {"retryable_status", "other_status", "cancelled"} ELSE {"unknown"}

Retryable(e) == e \in {"retryable_status", "unknown"}

MayRetry_OneMore(c, e) ==              \* mutant: one retry too many
  attempt[c] <= MaxRetryAttempts /\ Retryable(e)
MayRetry(c, e) == attempt[c] < MaxRetryAttempts /\ Retryable(e)

Fails(c, e) ==
  /\ pc[c] \in {"op", "refused"} /\ e \in Errors(c)
  /\ IF MayRetry(c, e)
       THEN /\ pc' = [pc EXCEPT ![c] = "sleep"]
            /\ attempt' = [attempt EXCEPT ![c] = @ + 1]
            /\ retried' = [retried EXCEPT ![c] = TRUE]
            /\ UNCHANGED <<result, subs>>
       ELSE /\ pc' = [pc EXCEPT ![c] = "idle"]
            /\ result' = [result EXCEPT ![c] =
                 IF retried[c] /\ Retryable(e) THEN "exhausted" ELSE e]
            /\ LET b == subs[c[1]]
                   opens == ~b.open /\ b.failures + 1 >= FailureThreshold
               IN  subs' = [subs EXCEPT ![c[1]] =
                     [b EXCEPT !.failures = @ + 1, !.open = @ \/ opens,
                               !.since = IF opens THEN 0 ELSE @]]
            /\ UNCHANGED <<attempt, retried>>
  /\ UNCHANGED <<setup, life, rpc, calls, streaming, sent>>

\* The next try, on a channel that may have been closed in the meantime.
Wake(c) ==
  /\ pc[c] = "sleep"
  /\ pc' = [pc EXCEPT ![c] = Try(c[1])]
  /\ Sends(c[1], rpc[c])
  /\ UNCHANGED <<setup, life, subs, attempt, retried, result, rpc, calls, streaming>>

\* Time, as far as the breakers can tell.
Tick ==
  /\ \E s \in Services : subs[s] # None /\ subs[s].since < WaitDuration
  /\ subs' = [s \in Services |->
       IF subs[s] # None /\ subs[s].since < WaitDuration
         THEN [subs[s] EXCEPT !.since = @ + 1] ELSE subs[s]]
  /\ UNCHANGED <<setup, life, unary, streaming, sent>>

-----------------------------------------------------------------------------
(* Subscriptions, as the loop of LiveDataStream sees channels; stop() is    *)
(* there.                                                                   *)

Subscribe(x) ==
  /\ Usable /\ streams[x] = "none"
  /\ <<"live_data", x>> \in used
  /\ subs' = [subs EXCEPT !["live_data"] = Sub("live_data")]
  /\ streams' = [streams EXCEPT ![x] = "pause"]
  /\ UNCHANGED <<setup, life, unary, reconnects, sent>>

\* The first connection, or one after a pause. A closed channel raises
\* UsageError, and on_error is told.
Connect(x) ==
  /\ streams[x] = "pause"
  /\ streams' = [streams EXCEPT ![x] = IF Open("live_data") THEN "read" ELSE "told"]
  /\ Sends("live_data", x)
  /\ UNCHANGED <<setup, life, subs, unary, reconnects>>

Frame(x) ==
  /\ streams[x] = "read"
  /\ reconnects' = [reconnects EXCEPT ![x] = 0]
  /\ UNCHANGED <<setup, life, subs, unary, streams, sent>>

\* The stream breaks or ends: a pause, or the end of the allowance.
Breaks(x) ==
  /\ streams[x] = "read"
  /\ IF reconnects[x] + 1 > MaxRetryAttempts
       THEN streams' = [streams EXCEPT ![x] = "told"] /\ UNCHANGED reconnects
       ELSE /\ streams' = [streams EXCEPT ![x] = "pause"]
            /\ reconnects' = [reconnects EXCEPT ![x] = @ + 1]
  /\ UNCHANGED <<setup, life, subs, unary, sent>>

\* It fails with another status.
BreaksForGood(x) ==
  /\ streams[x] = "read"
  /\ streams' = [streams EXCEPT ![x] = "told"]
  /\ UNCHANGED <<setup, life, subs, unary, reconnects, sent>>

\* Its channel is closed: the read is cancelled, and the loop ends silently.
CutOff(x) ==
  /\ streams[x] = "read" /\ ~Open("live_data")
  /\ streams' = [streams EXCEPT ![x] = "cut"]
  /\ UNCHANGED <<setup, life, subs, unary, reconnects, sent>>

-----------------------------------------------------------------------------

TryEnds(c) == Succeeds(c) \/ \E e \in {"retryable_status", "other_status", "cancelled",
                                       "unknown"} : Fails(c, e)

ClientNext ==
  \/ FromEnv \/ Close \/ CloseNext \/ CloseCancelled \/ Tick
  \/ \E c \in Callers, m \in used :
       m[1] = c[1] /\ (Call(c, m[2]) \/ CallMissing(c, m[2]))
  \/ \E c \in Callers : TryEnds(c) \/ Wake(c)
  \/ \E x \in Subscriptions :
       Subscribe(x) \/ Connect(x) \/ Frame(x) \/ Breaks(x) \/ BreaksForGood(x) \/ CutOff(x)

ClientSpec == ClientInit /\ [][ClientNext]_client_vars

\* Unary tries have deadlines, sleeps and pauses are timers, close() goes on
\* to the next channel, and a closed channel ends the reads on it.
FairClient ==
  /\ ClientSpec
  /\ WF_client_vars(CloseNext)
  /\ \A c \in Callers : WF_client_vars(TryEnds(c) \/ Wake(c))
  /\ \A x \in Subscriptions : WF_client_vars(Connect(x) \/ CutOff(x))

-----------------------------------------------------------------------------
(* Properties.                                                              *)

At == [scheme : {"dns", "direct"}, name : {"own", "localhost", "empty", "text"},
       port : {0, 8002, 8003, 8004, Number}, secure : BOOLEAN]
Channel == [at : At, open : BOOLEAN]
SubClient == [channel : Services, failures : Nat, open : BOOLEAN, since : 0..WaitDuration]

ASSUME NoneAssumption == None \notin Channel /\ None \notin SubClient

\* The type of every variable that says where the client is.
ClientTypeOK ==
  /\ phase \in {"new", "failed", "open", "closing", "closed", "abandoned"}
  /\ channels \in [Services -> Channel \cup {None}]
  /\ subs \in [Services -> SubClient \cup {None}]
  /\ pc \in [Callers -> {"idle", "op", "refused", "sleep"}]
  /\ attempt \in [Callers -> {0} \cup 0..MaxRetryAttempts]
  /\ streams \in [Subscriptions -> {"none", "pause", "read", "told", "cut"}]
  /\ reconnects \in [Subscriptions -> {0} \cup 0..MaxRetryAttempts]

\* Each request arrives where the variables of its own service point, in the
\* transport they ask for, at a handler that reads the message the method
\* built: through the configuration, the channel, the sub-client and the stub.
Routed ==
  \A m \in sent :
    /\ m.at = meant[m.service]
    /\ m.rpc \in DOMAIN Handlers[m.service]
    /\ Handlers[m.service][m.rpc] = m.message

\* The calls of a service run through one breaker, which lives as long as
\* the client and which calls of other services do not touch.
Of(s) == {c \in Callers : c[1] = s}
Breaker(s) == INSTANCE Resilience WITH
  Tasks <- Of(s),
  RetryDelay <- 0,
  OpErrors <- {"retryable_status", "other_status", "cancelled", "unknown"},
  failure_count <- IF subs[s] = None THEN 0 ELSE subs[s].failures,
  circuit_open <- IF subs[s] = None THEN FALSE ELSE subs[s].open,
  since_opened <- IF subs[s] = None THEN WaitDuration ELSE subs[s].since,
  pc <- [c \in Of(s) |-> IF pc[c] = "refused" THEN "op" ELSE pc[c]],
  attempt <- [c \in Of(s) |-> attempt[c]],
  retried <- [c \in Of(s) |-> retried[c]],
  sleep_left <- [c \in Of(s) |-> 0],
  result <- [c \in Of(s) |-> result[c]]

KeepsBreakers ==
  /\ \A s \in Services : Breaker(s)!Init
  /\ [][\A s \in Services : [Breaker(s)!Next]_(Breaker(s)!vars)]_client_vars

\* The client is made with all of its channels or not at all; nothing leaves
\* on a closed channel, be it a first try, a retry after a sleep, a connection
\* after a pause or a call made after close(); close() comes to every channel
\* although one of them raises, unless it is cancelled itself.
Whole == INSTANCE Lifecycle WITH
  serving <- {s \in Services : channels[s] # None /\ channels[s].open}

KeepsLifecycle == Whole!Spec

\* Once the client is closed (and the application stops calling), the calls
\* and subscriptions it left behind end, unless the channel could not be
\* closed, for all that retries and pauses go on after close().
Quiet ==
  /\ \A c \in Callers : pc[c] = "idle"
  /\ "live_data" \in raised \/ \A x \in Subscriptions : streams[x] \in {"none", "told", "cut"}

CloseEndsAll == phase = "closed" ~> Quiet
=============================================================================
