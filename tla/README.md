# A verification of the Zequent Python client SDK

TLA+ models of `client_sdk`, the asyncio client library under `src/client_sdk`,
checked by TLC on small instances, with theorems proved by TLAPS for every
value of the constants. Line numbers below refer to the Python sources.

## 1. The system

`ZequentClient` holds one `grpc.aio.Channel` for each of three services and
creates a sub-client per service on first use. A sub-client offers unary
methods, each wrapped in the retry and circuit-breaker helper; two of them offer
streams too: the manual-control session (client streaming) and the live-data
subscriptions (server streaming). Everything runs on one asyncio event loop:
code between two `await`s is atomic, tasks interleave at the `await`s, and
cancellation is a `CancelledError` thrown at the `await` where a task hangs.

| component | state it keeps | operations | talks to |
|---|---|---|---|
| retry and circuit breaker, `grpc_/resilience.py` | `_failure_count`, `_circuit_open`, `_opened_at_monotonic`; per call `attempt`, `retried` | `execute`, and inside it `_check_circuit`, `_record_success`, `_record_failure` | called by all unary methods of one sub-client, by any number of tasks; calls the stub; sleeps |
| manual control session, `remote_control/manual_control_session.py` | `_queue`, `_call`, `_closed`, `_completed` | `__aenter__`, `send_input`, `complete`, `complete_with_error`, `close`, `__aexit__`, `_request_iterator` | grpc runs the iterator in a task of its own; the server answers or the RPC fails |
| live-data subscriptions, `live_data/stream_handle.py`, `live_data/client.py` 139-338 | `_stopped`, `_done`, `_task`; in the loop `attempt`, `data_received` | `stream_telemetry`, `stream_notifications`, `stop`, `wait_closed`, `_stream_loop`, `_notification_stream_loop`, `_maybe_call` | a background task reads the server's stream and awaits user callbacks, which may call `stop` |
| unary methods of the sub-clients, `remote_control/client.py`, `mission_autonomy/client.py`, `live_data/client.py` 93-133, `models/_validation.py` | one resilience helper and one stub per sub-client | about 30 methods: validate, build the request, `execute`, convert the answer | breaker, converters, channel |
| client lifecycle, `zequent_client.py`, `grpc_/channel_factory.py` | three channels, three lazily created sub-clients, `_closed` | `from_env`, constructor, the sub-client properties, `close` | closes channels under calls and streams in flight |
| converters, `models/_converters.py`, `live_data/_converters.py`, `mission_autonomy/_converters.py`; data models, `models/*.py` | none; the objects belong to the caller | dataclass to protobuf and back | called before, inside and after the retried operation |
| configuration, `config/` | none | environment variables to `ServiceConfig` and `ResilienceConfig` | feeds channels and the policy of the breaker, unvalidated |
| stubs of the three services, `generated/` | none | RPCs and their messages | between sub-clients and services |
| stubs of the edge and connector services, `generated/` | none | not imported by the SDK | |

What makes each part hard, and what makes it correct:

* **Breaker.** It is asked once per call, before the first try, while calls
  already in flight go on retrying and report late. Correct means: flag and
  count agree whatever arrives late; the open window is not pushed back; an open
  breaker admits nobody; a call ends with an outcome that its tries explain;
  every call comes back; an application that keeps calling gets the breaker closed.
* **Session.** Four operations may end it, from several tasks and in any order,
  while the pump is between any two inputs and while another task awaits the
  response. Correct means: the stream is told to end exactly once, after
  everything accepted before; inputs go out in order; nobody else breaks a
  pending `complete()`; `complete()` returns.
* **Subscription.** `stop()` races frames, breaks, the reconnect pause and a
  callback in progress, which may itself call `stop()` or swallow the
  cancellation. Correct means: nothing arrives after `stop()`; an error is told
  once and last; reconnects are bounded; `stop()` returns and has waited.
* **Sub-clients.** A retry repeats a command whose first try may have been
  executed, or may be executed later, when its caller has long had an outcome.
  The request id is the same on each try for remote control and mission
  autonomy and a new one for live data. All methods share a breaker. Correct
  means: a command can be executed once per call, an answer belongs to the call
  that gets it, and what was refused leaves nothing behind.
* **Lifecycle.** `close()` meets calls that sleep before a retry, streams in
  their reconnect pause and its own second invocation; sub-clients can still be
  created afterwards. Correct means: all channels are made or none; each
  request leaves on the channel of its own service, and none on a closed one; a
  service keeps one breaker; what is in progress at `close()` ends. A `close()` that is
  cancelled stops between two channels.
* **Converters.** An object is read, edited and written back whole, through two
  converters and dozens of optional attributes, while others change the document
  and a retry may repeat the write. Correct means: what is not edited goes back
  as it was, zero is not absent, absent is not zero, and what is stored and read is an
  object somebody had, in whatever order tries arrive.
* **Configuration.** Unset, empty and malformed variables; integers nobody bounds.

`PROJECT.json` lists every such hazard at its line with the properties that
cover it.

## 2. Modules

| module | role |
|---|---|
| `UnaryContract` | abstract: what one `execute` call promises its caller |
| `Resilience` | `GrpcResilience`, shared by tasks, with a clock |
| `ResilienceProofs` | its theorems |
| `ManualControlSession` | the session, grpc's pump and the RPC |
| `ManualControlSessionProofs` | its theorems |
| `Subscription` | abstract: what a subscription promises the application |
| `LiveDataStream` | `StreamHandle`, the reconnect loop, callbacks and cancellation |
| `LiveDataStreamProofs` | its theorems |
| `SubClients` | the unary methods over `Resilience` (which it extends), the network and the service |
| `SubClientsProofs` | its theorems, on top of `ResilienceProofs` |
| `Tables` | functions as tables, joined with `@@`, in a form the provers can use |
| `Fields` | how one attribute of each kind is written to and read from a message |
| `MissionMessages`, `LiveDataMessages`, `RemoteControlMessages` | the dataclasses, and every converter as the table of what it carries |
| `DocumentRegister` | abstract: what reading, editing and writing an object promises |
| `Documents` | objects and messages on their way between a caller and a service |
| `ConvertersProofs` | what every converter carries, as a theorem over the tables |
| `DocumentsProofs` | the theorems of `Documents`, on top of it |
| `Config` | from environment variables to the address and transport of a channel |
| `Stubs` | which RPC each method calls, which message it builds and a handler reads |
| `Lifecycle` | abstract: what the client as a whole promises |
| `Client` | environment, channels, sub-clients, calls, subscriptions and `close()` |
| `ClientProofs` | its theorems about its life: types and `Lifecycle` |
| `ClientServicesProofs` | its theorems about each service: breakers and routes |
| `MCResilience`, `MCManualControlSession`, `MCLiveDataStream`, `MCSubClients`, `MCDocuments` | instances for TLC: symmetry, and statements of comments and docs that the code does not keep |

An action is a stretch of one task between two suspensions. A definition named
`X_Something` directly above `X` is a mutated form of `X`, a plausible slip in
the code it stands for; it is used nowhere in the specification, and replacing
`X` by it makes TLC refute the property it is paired with in `PROJECT.json`.

### Resilience

`execute` is cut at `await op()` and `await asyncio.sleep(...)`: `pc` says where
each task is. `Admit` and `Reject` are `_check_circuit` and what follows up to
the first `await`; `RetryLater`, `GiveUp`, `OpSucceeds` and `NestedOpen` are what
happens when `op` ends; `Wake` and `CancelSleep` end the sleep. The lock of the
helper is never held across a suspension, so each breaker operation is one step.

| Python | TLA+ |
|---|---|
| `_opened_at_monotonic` against `time.monotonic()` | `since_opened`, ticks since the opening, saturating at the wait: `_check_circuit` only asks whether the wait is over |
| an exception | one of seven kinds, those `except` clauses and `_is_retryable` tell apart |
| `attempt`, `retried` | kept per task after the return, as a history the properties read |
| the assertion after the loop | outcome `"assertion"`, reached when `max_retry_attempts` is negative, which `config/env_loader.py` accepts |

A negative retry delay or wait behaves as 0 does (the sleep returns, the wait is
over), so both are naturals; the counts are any integers. `UnaryContract` knows
neither breaker nor clock: a call is refused before its first try, or is tried
at most `MaxTries` times and ends with an outcome allowed after that many tries.
`KeepsContract` instantiates it with `tries` and `calling` computed from `pc` and
`attempt`.

### ManualControlSession

Only `complete()` suspends, at `await self._call`; `send_input` awaits the `put`
of an unbounded queue, which does not. So each operation is one action, and
`complete` is `Complete` followed by `CompleteReturns` or `CancelComplete`.
`Exit` is `__aexit__` for a body that ended well or raised. The pump is grpc's
task: it takes from the queue, converts and writes (`TakeInput`, `Write`,
`ConversionFails`) and half-closes on the sentinel (`TakeSentinel`). What grpc
does (`CancelCall`, `Answer`, `Fail`) is external and modelled from how the
session uses it: cancelling a finished call does nothing, cancelling a live one
ends the pump, an exception of the iterator cancels the RPC, and on a closed channel
the stub's call raises out of `_open` (`OpenRaises`). The server may
answer at any time, also before the stream's end; the timeout of the RPC is one
of the failures of `Fail`. An input is a number, its place among the accepted
ones, and either convertible or not (`BadInputs`: a value protobuf refuses).

### LiveDataStream

One module stands for `_stream_loop` and for its copy
`_notification_stream_loop`. `pc` says where the background task is suspended: not
started, reading, in the frame callback, in `on_error`, in the reconnect pause,
finished. `task.cancel()` sets `cancelling`; while it is set the task's only step
is `CancelDelivered`, which is how asyncio delivers it. `SelfStop` is a callback
that calls `stop()` on its own handle. `Interrupted` is a `CancelledError` nobody
asked for: the channel is closed under the stream or the callback raises its
own. `CallbackSwallows` says whether callbacks, `on_error` among them, may catch the
cancellation. A frame that cannot be converted raises where the callback is called and is
logged like an exception of it (`CallbackEnds`).
`on_error` is taken as given (without it the loop takes the same exits with one
suspension less), and a callback that is not a coroutine is an asynchronous one that
does not suspend; the length of the pause is not modelled, only that it ends.
`connects`, `errors`, `frames`, `interrupted` and `result` are histories.

`Subscription` is the promise: frames while active, then told of an error or
asked to stop, then over. `KeepsSubscription` maps `pc`, `stopped` and `errors` to
its `phase`.

### SubClients

The module composes the retry helper with what surrounds it: each of its actions
is an action of `Resilience` together with the request it builds and sends.
About 30 methods differ only in their arguments, so a method is a model value,
its argument checks are `Invalid`, and its conversions either raise or do not.
What differs between the sub-clients is where the request is built: before
`execute` (`build = "first"`, remote control and mission autonomy) or in the
lambda that `execute` retries (live data: `"each"` try draws a new id, or carries the
id `"chosen"` by the caller, or `"never"` gets that far because the
conversion raises, which `execute` treats as an error of the service). `service`
is chosen initially, so one run covers both kinds. The network loses and delays
requests; the service is taken to execute a request once per id, which is what
the ids are good for. `OncePerCall` therefore says what the client contributes: the
tries of one command carry one id. `start_manual_control_input` only constructs
a session and has no action.

### Fields, the messages and Documents

A converter copies attributes one at a time, so it is modelled as a table: a
function from the paths `<<class, attribute>>` it carries to the kind of each, which
says how the value is written and read (`Fields`). A value is absent, present
and falsy, present otherwise, or an enumerator this SDK does not know: what
`is not None`, `if value`, `HasField` and `TaskStatus(n)` tell apart. A time may also be
`fine` or `far`, because `proto_ts_to_datetime` converts `seconds + nanos / 1e9`, a double,
to a `datetime` of microseconds. A `fine` time is one that comes out as another time; what
came out once goes through unchanged, so reading rounds once. A `far` time raises: one out of the years
of a `datetime`, or `datetime.max`, which the double rounds up to the year 10000. Objects
hold `fine` and `far` times too (a datetime some centuries away has more microseconds than a double
keeps). Left out is a time less than a microsecond from the epoch, which comes out as the
epoch.

| kind | Python |
|---|---|
| `plain` | a required attribute, copied |
| `optional` | `_set_opt` and `opt_field`: sent exactly when it is not `None` |
| `time` | `datetime_to_proto_ts` and `proto_ts_to_datetime`: zero reads as none, `fine` as another time, `far` raises |
| `status`, `type` | `TaskStatus(proto.status)`, required or optional: raises for an unknown number |
| `named`, `code` | the name of an enumerator, or nothing or the number for an unknown one |
| `list` | a repeated field; one element stands for all |
| `count` | sent if true (`frequency_ms`, `duration_seconds`) |
| `id` | `tid or str(uuid.uuid4())` |
| `switch` | `bool(value) if value is not None else False` |

The three message modules state the attributes of every dataclass (the class named
like it) and the table of every converter (named like it, a leading underscore
dropped); where a converter forgets an attribute its table is `Except` of the class.
A nested object is the paths of its class. In `Documents` one behaviour is about
one of 26 kinds of message and watches one of its attributes, because converters treat
attributes independently and an exception is the only thing that couples them: the id and
the creation time of a document have its status beside them. An answer that cannot be
converted fails its call (`unreadable`) or, in a stream, does not reach the callback
(`dropped`, one of `Frames`). The caller gets (`Get`, `Decode`), composes, edits
and sends; a retry sends again; service and other clients change the document
(`Change`) and execute tries (`Perform`). `Rebuilt` names the four requests that are
converted inside the retried operation, so their tries may differ. Every try is kept in
`under_way` with its own message until the service executes it, which may be after a
newer try and after the end of its call.

`DocumentRegister` is the promise: the caller gets the object the service had, and
a write stores the object the caller had when one of its tries was made. `KeepsRegister` maps a message to the
object it stands for (`View`), which leaves out `Lost`, the known losses: attributes
the message has no field for, ten enums of `WaypointTaskConfig`, `vehicle_action`,
`break_reason`, the fourth telemetry variant, `TaskProtoDTO.config`, the context ids of
commands and the value of dock operations that take none. Everything not in
`Lost` must come through, so the set is what a reader should look at.

### Config, Stubs and Client

`Config` has one operator per function of `env_loader.py` and `channel_factory.py`; a
raw variable is unset, empty, readable or some other text. `Stubs` has three tables per
service, from RPCs to request messages: what the sub-client calls and builds, what the
stub sends, what a registered handler reads. `pause_task` and `resume_task` call RPCs
that the stub lacks.

`Client` puts them together. `FromEnv` reads everything before it makes the first
channel. `Sub` is the lazily created sub-client with its breaker; `Call`, `Fails`,
`Succeeds` and `Wake` are `execute` again, now per service and on a channel that may
be closed, in which case the stub raises `UsageError` and the try is retried like any
unknown exception. `Close` and `CloseNext` are `close()`, one channel after the
other as its `await`s allow (grpc closes without a suspension today), an exception
of one only logged. `Subscribe` to `CutOff` are the loop of `LiveDataStream` as far as
channels matter. What happens to a try in flight on a channel that is closed is grpc's
affair: it may still succeed, fail with a status, or be cancelled. `CloseCancelled` is a
`close()` that is cancelled while it awaits a channel: `except Exception` lets
`CancelledError` through, and what is still open stays open (`phase = "abandoned"`). A
policy with a negative retry count ends a call in the assertion after the loop, as in
`Resilience`.

`sent` holds the latest request that left, and `again` tells it from an equal one before it, so
every send changes `sent`: a retry, a reconnection or a second call of the same RPC is a
`Send` of `Lifecycle`, whose guard is that the channel is open.

`KeepsBreakers` says that, seen from each service, the client is a `Resilience`
whose tasks are the callers of that service (sleeps without length). `KeepsLifecycle` is the
refinement of `Lifecycle`.

## 3. What is checked

| run | question | bounds |
|---|---|---|
| `resilience` | can overlapping calls make flag, count and window disagree; does every call keep its contract, explain its outcome and return; does the breaker close again? | 3 tasks, 2 retries, threshold 2, wait 2, four kinds of error (the other three take the branches of one of them) |
| `sub_clients` | can retries, lost and late requests execute a command twice, mix up answers, or send what was refused? | 2 tasks, 2 methods, 2 calls, 1 retry, threshold 1, either kind of sub-client |
| `session` | can tasks that feed and end one session disturb each other; does `complete()` return? | 3 tasks, 3 inputs, one of them inconvertible |
| `stream_safety` | do stops, breaks, frames and swallowed cancellations ever break the subscription's promise? | 2 tasks, 2 retries, 3 frames, swallowing callbacks |
| `stream_liveness` | does `stop()` end the stream though the server is silent; is a server that breaks every connection given up? | 2 tasks, 2 retries, 2 frames |
| `documents` | does a write change what its caller did not edit; is what is read and stored always an object that somebody had, beyond the listed losses and although tries are late and out of order? | every attribute of 26 kinds of message, id and creation time with the status; 2 tries, of one call or of two, or a try and a change by others; 1 edit |
| `client` | do requests arrive where the environment says and at a handler that reads them; does each service keep its breaker; does nothing leave after `close()` and everything left behind end? | any environment of one service (1728 each) and any one method (38) with one call, or three typical methods with 2 calls; 1 retry, threshold 1, wait 1 |
| `claim_probe`, `claim_method`, `claim_transmission`, `claim_stop`, `claim_mirror` | statements of comments and docstrings the code does not keep | as small as shows the case |

`client` takes about three minutes, the other passing runs about one at most. Why the bounds are enough for the cases
that matter:

* three tasks let one open the breaker while another is in flight and a third is
  rejected or probes; a threshold of 2 tells one failure from opening; a wait of 2
  ticks lets a retry sleep (1 tick, then 2) end before, at and after it;
* two calls are enough for one call's late request to meet another call, for one
  method's failure to reject the other, and, with a retry each, for two tries of one
  command to be under way together;
* a session needs one task in `complete()`, one that closes and one that sends;
  the third input is the bad one, so the stream can break with inputs sent,
  with inputs queued and with the sentinel queued;
* two retries tell the reset of the attempt counter on a frame from the restart
  at 1 after a connection that delivered (219-221), and three frames allow
  delivery, break, reconnect and delivery again; a first and a second `stop()` need
  two tasks, and `SelfStop` adds the callback;
* one attribute, and a status that can make the conversion of its object
  raise, are all that a converter can tell apart; a read, a change by another, an edit and
  a write of it fit in one edit and two writes, one of them the change. Two tries with an edit
  between them are the least of which an older one can be executed after a newer one, with
  another content;
* a first call, with its retry, opens a breaker with threshold 1 and a second finds it open (that
  failures add up to a higher threshold is the `resilience` run's question and the
  theorems'); the typical methods
  keep two services and a stream in progress when `close()` comes; what a method or an
  environment changes (RPC, message, address) shows in one call.

The counters that grow without end in the code are bounded by the model's
guards alone: `MaxInputs` in `SendInput`, `MaxFrames` in `Frame`,
`MaxCalls` in `NewCall`, `calls` in `Call` of `Client`, `MaxWrites` and `MaxEdits` in
`Documents`; the history `connects` stops one above the bound it is checked against. `failure_count` has
no bound in the model: that it stays finite is `LateFailuresBounded`. Deadlock is
checked in every run but those of `SubClients`, `Documents` and `Client`, whose bounds stop the model: a task outside `execute` may call again, a session may be
closed again, `stop()` may be called again.

**Fairness.** `Resilience`: an operation in flight ends, because every stub call
carries `timeout=request_timeout_seconds`; ready tasks run and timers fire,
because the event loop schedules them. Whether the application calls is not the
code's to promise, so `BreakerRecovers` carries it as its premise
(`KeepsCalling`). `ManualControlSession`: the pump and finished awaits run; the
server answers a stream that was half-closed. No fairness on `Fail`: the
deadline is not what makes `complete()` return. `LiveDataStream`: the loop runs
when it can and callbacks end; the server owes nothing, so a silent server is
among the behaviours of `StopEnds`. `BrokenServerGivenUp` has the breaking server
as its premise. `StopEnds` is checked for callbacks that let `CancelledError`
through; one that swallows it and a silent server do make `stop()` wait for
ever, and nothing documents otherwise. `Client`: tries have deadlines, sleeps and
pauses are timers, `close()` goes on to its next channel, and a closed channel
ends the reads on it, as grpc documents; nothing is assumed of an open channel.

**Disagreements found.** The five `claim_` runs end in a counterexample:

* `claim_probe`: `_check_circuit` closes the breaker and forgets the count
  before the probe is sent (131-132). All other callers pass while it is on its way, and with
  a threshold of two or more a probe that fails leaves the breaker closed. The module docstring says that the breaker closes if
  the probe succeeds.
* `claim_method`: the README calls the breaker per-method; a sub-client has one, so
  failures of one method reject the calls of another.
* `claim_transmission`: while `complete()` awaits the answer `send_input` still
  accepts inputs, behind the sentinel, where nobody reads them.
* `claim_stop`: only the first `stop()` waits; a second one returns while a
  callback may be running.
* `claim_mirror`: an enum of `WaypointTaskConfig` that the caller sets (say
  `fly_to_wayline_mode`) is not sent, although the dataclasses are said to mirror the
  proto.

Read in the code and visible in the models, without a run of their own: `datetime.max` is
accepted and written, and every later read of the document raises `ValueError`, because
the double of `proto_ts_to_datetime` (`models/_converters.py` 52) is in the year 10000; a
datetime far from today comes back with other microseconds than were written; a late
success of a call in flight closes the breaker before its wait is over (140-141,
against lines 9-10 of the docstring); the retry delay grows linearly, the
docstring says exponentially (86); a bare gRPC status reaches the caller although
the README says that all errors derive from `ZequentClientError` (99-104); streams
reconnect by themselves although the README says that they do not (live_data
219-237); a `CancelledError` the user's callback raises passes `except Exception` and ends
the stream without `on_error` (197); leaving the client's `async with` does not cancel
a stream in its reconnect pause, as the README says it does, but lets it fail on the
closed channel (`Connect`), and a stream that is reading ends without `on_error`
(`CutOff`); channels are made in the constructor "so that connection
problems surface" there (`zequent_client.py` 58-59), while grpc connects on first use;
`connection_timeout_seconds` is read and never used; the README's
`ZequentClientConfig` does not exist.

## 4. What is proved

The theorems hold for every number of tasks, retries, threshold, wait, input,
frame, edit and change, and for every kind of message and attribute. The only
assumptions are the named ones of each module: the types of the constants,
`TasksFinite` (the tasks of a process are finitely many; needed for
`Cardinality`), that the sentinel is not an input, and that `None` is no channel and no
sub-client. Every
passing run evaluates the assumptions of its modules.

Every safety property, action property and refinement that a passing run checks
has a theorem; liveness does not.

**Resilience.** `TypeOK` is inductive. `BreakerAgrees` (open exactly while the
count has reached `Trip`) is inductive on top of it: a failure that reaches `Trip` sets the flag in the
same step; a success and a probe clear both. `LateFailuresBounded` needs
more than its own statement only in how a step changes the set of calls in flight:
the lemmas on `InFlight` say that a step adds or removes one task, and that a failure
is recorded only by a step that removes one; a step that adds one finds, or makes, the breaker
closed, where `BreakerAgrees` gives `failure_count < Trip`. `OpenWindowFixed` and
`OpenAdmitsNobody` follow step by step from the same invariants. `OutcomeExplained`
is inductive after it is restated per task (`Explained`) with the facts about
a task inside `execute` that the outcome is computed from (`OutcomeInv`).
`ContractTheorem` maps each action to a step of `UnaryContract` or a stutter;
`OutcomeInv` supplies that `retried` means a second try, which is what makes
`"exhausted"` an allowed outcome. `AllowanceTheorem` is the part of
`EveryCallReturns` that is safety: the pair of retries and sleep left to a call is made of natural
numbers (`OutcomeInv` again), every step of the call or of the clock while it sleeps lowers it
lexicographically or ends the call, and nothing raises it.

**ManualControlSession.** `TypeOK` needs to know that an awaited RPC exists
(`TypeInv`), or `EndOf` would be applied outside its domain. `SentinelInv` joins `OneSentinel`,
`EndOfStreamComing` and `SoleAwaiter` with three facts that make them inductive
together: the pump exists exactly when the RPC does, only a completed session is
half-closed, and a completed session whose pump is at work holds its sentinel
until the pump takes it.
`OrderInv` is the strengthening for `SentInOrder`: while the pump works, what was
sent, what it holds and the inputs left in the queue are consecutive numbers, up to `accepted`
before the sentinel is queued and split at `cut` after. Lemmas on `Append`, `Head` and `Tail` of the
queue carry it. `PendingCompleteKept` follows from `SoleAwaiter`'s
`completed`: `close` and `complete_with_error` leave a completed session's call alone.

**LiveDataStream.** `ReconnectInv` relates the history `connects` to
`attempt`, per suspension point, as the counter is raised after a break and reset by a
frame; it gives `ReconnectsBounded`. `EndInv` says that an error is told once and by
the last thing the task does, that only a stop cancels, that `done` comes after
the end, and why the task ended; `EndExplained` and
`StopWaits` follow, and it is the invariant under which each action maps to a
step of `Subscription` or a stutter (`SubscriptionTheorem`).

**SubClients.** All four invariants follow from one induction (`SubInv`). Its core
relates three numberings: calls, ids, and the requests sent (`Sent`: under way or
executed). No two tasks share a call or an id (`DistinctInv`), nothing was sent
under a number to come (`NumberInv`), and the id of a task's latest request leads to its
own call (`IdInv`), so an answer found by id is the call's own (`OwnInv`, `AnswerIsOwn`).
`RefusedInv` is `RefusedNotSent` without its condition on `pc`: a call without an id
has sent nothing in the middle of its tries either. `OneIdInv` (commands) holds for all
requests of a call, not only the executed ones; `CountInv` (live data) bounds them by the
tries the call has started, and `OutcomeInv` of `ResilienceProofs` bounds those by the
policy. Steps are first reduced to four shapes (a call begins, tries again, ends a try; the rest),
and each part of the invariant is proved per shape. `TypeStep` and `OutcomeStep`
of the helper are used as they are: all steps but `Invalid` are steps of `Resilience`.
In the same way `BreakerStep`, `LateStep`, `AdmitsStep` and `WindowStep` carry over what
is known of the breaker to the service whose methods share it, where calls that fail
validation come in between (`SharedBreakerTheorem`, `SharedWindowTheorem`).

**Client.** `KeepsLifecycle` rests on `ClientInv`: a sub-client has the channel of its own
service, all channels exist exactly while the client is usable, nothing is in progress
before that, and during `close()` the channels still to come are exactly those that are open
and have not raised (`CloseInv`; a cancelled `close()` has none to come), which is why the end of the list and the end of
`Lifecycle`'s closing coincide. All other steps are `Works`: they leave the channels alone and
send at most one request, on an open one. `NoneAssumption` says that `None` is no channel
and no sub-client. `CloseInv` ends with what close() leaves behind: the channels that are
still open are among those that raised. So a subscription of a client that is closed can
only go on from reading to a pause and from a pause to its end, and a call only through the
retries it has left; `ShrinkTheorem` states both, which is the safety part of `CloseEndsAll`.

`KeepsBreakers` says of each service that its calls are a behaviour of `Resilience`. A
step that leaves the service's sub-client and the `pc`, `attempt`, `retried` and `result` of its
callers alone is a stutter of its breaker (`BreakerRests`), one that makes the sub-client too, since
a missing one is seen as a fresh breaker; a `Call` is `Admit` or `Reject`; the end of a try is
`OpSucceeds`, `RetryLater` or `GiveUp`. A try refused by a closed channel counts as `op`, as
its exception comes out of the operation; a call whose request is not among the stubs
raises before `execute` and is a stutter. `Routed` needs the
tables of `Stubs` in full: `Understood` says, service by service, that what
a method calls and the stub has, the server handles and reads as what was built. `ChannelMeant`
goes through `Config`, and `MeantInv` keeps a channel's address and transport what the
environment meant. `Meant` had to be rewritten for this with exclusive arms: its `CASE` had two that
overlapped, equal where they did, which TLC does not mind and a proof cannot use.

**Documents.** The tables of the converters are finite, but joined from many others, and a
prover that looks into all of them at once gives up. So `ConvertersProofs` proves
first what joining preserves: the kinds (`Sorted`) and classes (`Classed`) that occur in
a table, that a converter carries its class (`Conveys`) or all but attributes of some
classes (`Trims`), and what it gives an attribute (`Gives`); then looks at each table
alone. `ConvertersTheorem` is the result, attribute by attribute: a converter that writes
the kind writes it as declared (or a required one as an optional one), one that reads it
reads it as declared, or the attribute is in `Loses`. There is no behaviour in
it: it says of the converters of 26 kinds of message what one would otherwise compare by hand.

The behaviours are built on it with `AttributesInv`, which says it of the attributes a
behaviour watches, and `CallInv` (a call in progress is of a kind that can be written, an
answer of one that can be read); with `DocTypeOK` they are inductive (`DocInv`). A value is then
written and read without a change of meaning (`WrittenValue`, `ReadValue`), or bit for bit
(`SameValue`). `WriteKeepsUnedited` needs two more facts: what is not edited in the
copy is what was read (`CopyInv`), and what is not edited in the request is what was
read, written (`RequestInv`); neither follows from the property, which speaks of
requests only. Times that are zero or too fine are excepted throughout. `RegisterTheorem` maps every action to a step of `DocumentRegister` or a
stutter by the lemmas on `View`: written or read, a message is of the same view. A try is told by
its number, so a new one adds one element to the tries under way and an executed one takes one
away, in the view too (`TryViews`, `PerformViews`).

**Model-checked only.** `EveryCallReturns`, `BreakerRecovers`, `CompleteEnds`,
`StopEnds`, `BrokenServerGivenUp` and `CloseEndsAll`: liveness under fairness is
beyond the prover. For `EveryCallReturns` and `CloseEndsAll` the measure that makes them true is proved
(`AllowanceTheorem`, `ShrinkTheorem`); that fairness makes its steps happen is left to TLC.

## 5. Not modelled, and the plan

Not modelled: logging, the contents of messages beyond presence and truth, the
length of pauses, options of the channels (keep-alive, load balancing, message size:
`channel_factory` hands them to grpc), the serialized descriptors (read only for
which fields exist), the stubs' static call helpers and the stubs of
the edge and connector services, which the SDK does not use. A manual control session on a
client that is closed is not composed: its RPC fails, which `ManualControlSession` has.

The plan for what is left:

1. The measures behind the other liveness properties: the inputs queued before the
   sentinel for `CompleteEnds`, the steps to the end of a cancelled task for `StopEnds`, the
   reconnects left for `BrokenServerGivenUp` (`ReconnectInv` is most of it).
2. What is known of the breaker, restated for the client service by service: it
   follows from `KeepsBreakers`, but the theorems of `Resilience` cannot be cited for an
   instance with a parameter.
3. The hazards without a property.
