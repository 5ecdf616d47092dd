---------------------------- MODULE ClientProofs ----------------------------
(* Theorems about Client, for every number of tasks and calls and every     *)
(* policy: its state is well typed, and it keeps the promise of Lifecycle.  *)
EXTENDS Client, TLAPS

USE DEF setup, life, unary, streaming, client_vars

-----------------------------------------------------------------------------
(* The invariant. Beyond the types it says that what is in progress has a   *)
(* sub-client and a client to belong to, that a sub-client has the channel  *)
(* of its own service, that the channels are made together, and which of    *)
(* them close() has yet to come to.                                         *)

EnvInv == environment \in [Services -> Raw]

OwnChannelInv == \A s \in Services : subs[s] # None => subs[s].channel = s

MadeInv ==
  /\ Usable => \A s \in Services : channels[s] # None
  /\ ~Usable => /\ \A s \in Services : channels[s] = None
                /\ \A c \in Callers : pc[c] = "idle"
                /\ \A x \in Subscriptions : streams[x] = "none"
  /\ phase = "new" => raised = {} /\ sent = {}
  /\ \A c \in Callers : pc[c] # "idle" => subs[c[1]] # None

\* The channels that are open, as Lifecycle has them.
Serving == {s \in Services : channels[s] # None /\ channels[s].open}

CloseInv ==
  /\ phase = "open" => Serving = Services /\ raised = {}
  /\ phase = "closing" =>
       \/ /\ to_close = <<"remote_control", "mission_autonomy", "live_data">>
          /\ Serving = Services /\ raised = {}
       \/ /\ to_close = <<"mission_autonomy", "live_data">>
          /\ {"mission_autonomy", "live_data"} \subseteq Serving \ raised
          /\ Serving \subseteq {"mission_autonomy", "live_data"} \cup raised
       \/ /\ to_close = <<"live_data">>
          /\ "live_data" \in Serving \ raised
          /\ Serving \subseteq {"live_data"} \cup raised
  /\ phase = "closed" => Serving \subseteq raised

ClientInv == EnvInv /\ OwnChannelInv /\ MadeInv /\ CloseInv

-----------------------------------------------------------------------------
(* The configuration.                                                       *)

LEMMA EnvironmentRead ==
  ASSUME NEW s \in Services, NEW raw \in Raw
  PROVE  create_channel(Service(s, raw)) \in At
<1>1. /\ EnvText(raw.HOST, "localhost") \in {"own", "localhost", "empty", "text"}
      /\ EnvText(raw.STORK_NAME, "own") \in {"own", "localhost", "empty", "text"}
  BY DEF Raw, EnvText
<1>2. EnvInt(raw.PORT, DEFAULT_PORTS[s]) \in {0, 8002, 8003, 8004, Number}
  BY DEF Raw, EnvInt, DEFAULT_PORTS, Services
<1>3. EnvBool(raw.USE_PLAINTEXT, TRUE) \in BOOLEAN
  BY DEF EnvBool
<1>4. QED
  BY <1>1, <1>2, <1>3 DEF create_channel, Service, Address, At

LEMMA UnsetIsRaw == Unset \in Raw
  BY DEF Unset, Raw

LEMMA CallersAre == \A c \in Callers : c[1] \in Services
  BY DEF Callers

LEMMA SubIs ==
  ASSUME ClientTypeOK, OwnChannelInv, NEW s \in Services
  PROVE  Sub(s) \in SubClient /\ Sub(s).channel = s /\ Sub(s) # None
         /\ Open(s) = channels[s].open
<1>1. NewSub(s) \in SubClient /\ NewSub(s).channel = s
  BY ClientAssumption DEF NewSub, SubClient
<1>2. QED
  BY <1>1, NoneAssumption DEF ClientTypeOK, OwnChannelInv, Sub, Open

\* What _check_circuit leaves of a sub-client.
LEMMA CheckedIs ==
  ASSUME NEW b \in SubClient
  PROVE  /\ Checked(b) \in SubClient /\ Checked(b).channel = b.channel
         /\ Checked(b).since = b.since
         /\ Passes(b) => /\ Checked(b).open = FALSE
                         /\ Checked(b).failures = IF b.open THEN 0 ELSE b.failures
         /\ ~Passes(b) => Checked(b) = b
  BY DEF Checked, SubClient

-----------------------------------------------------------------------------
(* Type correctness.                                                        *)

LEMMA ClientTypeInit == ClientInit => ClientTypeOK /\ EnvInv
<1> SUFFICES ASSUME ClientInit PROVE ClientTypeOK /\ EnvInv
  OBVIOUS
<1>1. EnvInv
  BY UnsetIsRaw DEF ClientInit, EnvInv
<1>2. /\ phase = "new" /\ channels = [s \in Services |-> None]
      /\ subs = [s \in Services |-> None]
      /\ pc = [c \in Callers |-> "idle"] /\ attempt = [c \in Callers |-> 0]
      /\ streams = [x \in Subscriptions |-> "none"]
      /\ reconnects = [x \in Subscriptions |-> 0]
  BY Zenon DEF ClientInit
<1>3. ClientTypeOK
  BY <1>2 DEF ClientTypeOK
<1>4. QED
  BY <1>1, <1>3

LEMMA FromEnvType ==
  ASSUME ClientTypeOK, EnvInv, FromEnv
  PROVE  ClientTypeOK' /\ EnvInv'
<1>1. EnvInv'
  BY UnsetIsRaw DEF FromEnv, EnvInv
<1>2. channels' \in [Services -> Channel \cup {None}]
  <2>1. ASSUME NEW s \in Services
        PROVE  [at |-> create_channel(Service(s, environment[s])), open |-> TRUE]
                 \in Channel
    BY EnvironmentRead DEF EnvInv, Channel
  <2>2. QED
    BY <2>1 DEF FromEnv, ClientTypeOK
<1>3. phase' \in {"failed", "open"}
  BY DEF FromEnv
<1>4. QED
  BY <1>1, <1>2, <1>3 DEF FromEnv, ClientTypeOK

LEMMA CloseType ==
  ASSUME ClientTypeOK, MadeInv, CloseInv, Close \/ CloseNext \/ CloseCancelled
  PROVE  ClientTypeOK'
<1>1. CASE Close
  BY <1>1 DEF Close, ClientTypeOK
<1>2. CASE CloseNext \/ CloseCancelled
  <2>1. /\ Head(to_close) \in Services
        /\ channels[Head(to_close)] \in Channel
    <3>1. /\ to_close \in {<<"remote_control", "mission_autonomy", "live_data">>,
                           <<"mission_autonomy", "live_data">>, <<"live_data">>}
      BY <1>2 DEF CloseNext, CloseCancelled, CloseInv
    <3>2. Head(to_close) \in Services
      BY <3>1 DEF Services
    <3>3. QED
      BY <1>2, <3>2 DEF CloseNext, CloseCancelled, MadeInv, Usable, ClientTypeOK
  <2>2. channels' \in [Services -> Channel \cup {None}]
    <3>1. [channels[Head(to_close)] EXCEPT !.open = FALSE] \in Channel
      BY <2>1 DEF Channel
    <3>2. QED
      BY <1>2, <2>1, <3>1 DEF CloseNext, CloseCancelled, ClientTypeOK
  <2>3. QED
    BY <1>2, <2>2 DEF CloseNext, CloseCancelled, ClientTypeOK
<1>3. QED
  BY <1>1, <1>2

LEMMA CallType ==
  ASSUME ClientTypeOK, OwnChannelInv, NEW c \in Callers, NEW r,
         Call(c, r) \/ CallMissing(c, r)
  PROVE  ClientTypeOK'
<1>0. Sub(c[1]) \in SubClient /\ Checked(Sub(c[1])) \in SubClient /\ c[1] \in Services
  BY SubIs, CallersAre, CheckedIs
<1>1. CASE Call(c, r)
  <2>1. /\ pc' \in [Callers -> {"idle", "op", "refused", "sleep"}]
        /\ attempt' \in [Callers -> {0} \cup 0..MaxRetryAttempts]
        /\ UNCHANGED <<phase, channels, streams, reconnects>>
    BY <1>1 DEF Call, Try, ClientTypeOK
  <2>2. subs' \in [Services -> SubClient \cup {None}]
    BY <1>0, <1>1 DEF Call, ClientTypeOK
  <2>3. QED
    BY <2>1, <2>2 DEF ClientTypeOK
<1>2. CASE CallMissing(c, r)
  BY <1>0, <1>2 DEF CallMissing, ClientTypeOK
<1>3. QED
  BY <1>1, <1>2

LEMMA TryType ==
  ASSUME ClientTypeOK, MadeInv, NEW c \in Callers, TryEnds(c) \/ Wake(c)
  PROVE  ClientTypeOK'
<1>0. /\ c[1] \in Services
      /\ subs[c[1]] \in SubClient
  BY CallersAre DEF TryEnds, Succeeds, Fails, Wake, MadeInv, ClientTypeOK
<1>1. CASE Succeeds(c)
  <2>1. [subs[c[1]] EXCEPT !.failures = 0, !.open = FALSE] \in SubClient
    BY <1>0 DEF SubClient
  <2>2. subs' \in [Services -> SubClient \cup {None}]
    BY <1>0, <1>1, <2>1 DEF Succeeds, ClientTypeOK
  <2>3. QED
    BY <1>1, <2>2 DEF Succeeds, ClientTypeOK
<1>2. ASSUME NEW e, Fails(c, e) PROVE ClientTypeOK'
  <2>1. CASE MayRetry(c, e)
    <3>1. attempt[c] + 1 \in {0} \cup 0..MaxRetryAttempts
      BY <2>1, ClientAssumption DEF MayRetry, ClientTypeOK
    <3>2. QED
      BY <1>2, <2>1, <3>1 DEF Fails, ClientTypeOK
  <2>2. CASE ~MayRetry(c, e)
    <3> DEFINE b == subs[c[1]]
               opens == ~b.open /\ b.failures + 1 >= FailureThreshold
    <3>1. [b EXCEPT !.failures = @ + 1, !.open = @ \/ opens,
                    !.since = IF opens THEN 0 ELSE @] \in SubClient
      <4>1. (b.open \/ opens) \in BOOLEAN
        BY <1>0 DEF SubClient
      <4>2. b.failures + 1 \in Nat /\ (IF opens THEN 0 ELSE b.since) \in 0..WaitDuration
        BY <1>0, ClientAssumption DEF SubClient
      <4> HIDE DEF opens
      <4>3. QED
        BY <1>0, <4>1, <4>2 DEF SubClient
    <3>2. subs' \in [Services -> SubClient \cup {None}]
      BY <1>0, <1>2, <2>2, <3>1 DEF Fails, ClientTypeOK
    <3>3. QED
      BY <1>2, <2>2, <3>2 DEF Fails, ClientTypeOK
  <2>3. QED
    BY <2>1, <2>2
<1>3. CASE Wake(c)
  BY <1>3 DEF Wake, Try, ClientTypeOK
<1>4. QED
  BY <1>1, <1>2, <1>3 DEF TryEnds

LEMMA TickType ==
  ASSUME ClientTypeOK, Tick
  PROVE  ClientTypeOK'
<1>1. ASSUME NEW s \in Services, subs[s] # None, subs[s].since < WaitDuration
      PROVE  [subs[s] EXCEPT !.since = @ + 1] \in SubClient
  BY <1>1, ClientAssumption DEF ClientTypeOK, SubClient
<1>2. subs' \in [Services -> SubClient \cup {None}]
  BY <1>1 DEF Tick, ClientTypeOK
<1>3. QED
  BY <1>2 DEF Tick, ClientTypeOK

LEMMA StreamType ==
  ASSUME ClientTypeOK, OwnChannelInv, NEW x \in Subscriptions,
         \/ Subscribe(x) \/ Connect(x) \/ Frame(x)
         \/ Breaks(x) \/ BreaksForGood(x) \/ CutOff(x)
  PROVE  ClientTypeOK'
<1>1. CASE Subscribe(x)
  BY <1>1, SubIs DEF Subscribe, ClientTypeOK, Services
<1>2. CASE Breaks(x)
  BY <1>2, ClientAssumption DEF Breaks, ClientTypeOK
<1>3. CASE Connect(x) \/ Frame(x) \/ BreaksForGood(x) \/ CutOff(x)
  BY <1>3, ClientAssumption DEF Connect, Frame, BreaksForGood, CutOff, ClientTypeOK
<1>4. QED
  BY <1>1, <1>2, <1>3

LEMMA ClientTypeStep ==
  ClientTypeOK /\ ClientInv /\ [ClientNext]_client_vars => ClientTypeOK'
<1> SUFFICES ASSUME ClientTypeOK, ClientInv, [ClientNext]_client_vars
             PROVE  ClientTypeOK'
  OBVIOUS
<1>1. CASE UNCHANGED client_vars
  BY <1>1 DEF ClientTypeOK
<1>2. QED
  BY <1>1, FromEnvType, CloseType, CallType, TryType, TickType, StreamType
  DEF ClientNext, ClientInv

-----------------------------------------------------------------------------
(* Every step but those of the client's own life is work: it leaves the     *)
(* channels alone, and what it sends leaves on an open channel.             *)

SendsOnOpen ==
  \/ sent' = sent
  \/ \E r : Usable /\ r.service \in Serving /\ sent' = {r} /\ sent' # sent

Works ==
  /\ UNCHANGED <<environment, life>>
  /\ SendsOnOpen
  /\ ~Usable => UNCHANGED <<pc, streams>>
  /\ OwnChannelInv'
  /\ \A c \in Callers : pc'[c] # "idle" => subs'[c[1]] # None

\* A request is what it says, and is not the one that left before it.
LEMMA RequestIs ==
  ASSUME NEW s \in Services, NEW r
  PROVE  /\ Request(s, r).service = s /\ Request(s, r).rpc = r
         /\ Request(s, r).message = Builds[s][r]
         /\ Request(s, r).at = channels[Sub(s).channel].at
         /\ sent # {Request(s, r)}
<1> DEFINE q == [service |-> s, rpc |-> r, message |-> Builds[s][r],
                 at |-> channels[Sub(s).channel].at, again |-> FALSE]
<1>1. Request(s, r) = IF sent = {q} THEN [q EXCEPT !.again = TRUE] ELSE q
  BY Zenon DEF Request
<1>2. /\ [q EXCEPT !.again = TRUE].service = s /\ [q EXCEPT !.again = TRUE].rpc = r
      /\ [q EXCEPT !.again = TRUE].message = Builds[s][r]
      /\ [q EXCEPT !.again = TRUE].at = channels[Sub(s).channel].at
      /\ [q EXCEPT !.again = TRUE].again = TRUE /\ q.again = FALSE
  OBVIOUS
<1>3. /\ q.service = s /\ q.rpc = r /\ q.message = Builds[s][r]
      /\ q.at = channels[Sub(s).channel].at
  OBVIOUS
<1> HIDE DEF q
<1>4. QED
  BY <1>1, <1>2, <1>3

LEMMA SendsWell ==
  ASSUME ClientTypeOK, OwnChannelInv, MadeInv, Usable, NEW s \in Services, NEW r, Sends(s, r)
  PROVE  SendsOnOpen
<1>1. CASE ~Open(s)
  BY <1>1 DEF Sends, SendsOnOpen
<1>2. CASE Open(s)
  <2>1. s \in Serving
    BY <1>2, SubIs DEF Serving, MadeInv
  <2>2. Request(s, r).service = s /\ sent # {Request(s, r)}
    BY RequestIs
  <2>3. sent' = {Request(s, r)}
    BY <1>2, Zenon DEF Sends
  <2>4. QED
    BY <2>1, <2>2, <2>3 DEF SendsOnOpen
<1>3. QED
  BY <1>1, <1>2

LEMMA CallWorks ==
  ASSUME ClientTypeOK, OwnChannelInv, MadeInv, NEW c \in Callers, NEW r,
         Call(c, r) \/ CallMissing(c, r)
  PROVE  Works
<1>0. /\ Sub(c[1]) \in SubClient /\ Sub(c[1]).channel = c[1] /\ Sub(c[1]) # None
      /\ c[1] \in Services /\ Usable
  BY SubIs, CallersAre DEF Call, CallMissing
<1>1. CASE CallMissing(c, r)
  BY <1>0, <1>1 DEF CallMissing, Works, SendsOnOpen, OwnChannelInv, MadeInv, ClientTypeOK
<1>2. CASE Call(c, r)
  <2>1. SendsOnOpen
    BY <1>0, <1>2, SendsWell DEF Call, SendsOnOpen
  <2>2. PICK b \in SubClient : b.channel = c[1] /\ subs' = [subs EXCEPT ![c[1]] = b]
    <3>1. Checked(Sub(c[1])) \in SubClient /\ Checked(Sub(c[1])).channel = c[1]
      BY <1>0, CheckedIs
    <3>2. QED
      BY <1>2, <3>1 DEF Call
  <2>3. OwnChannelInv'
    BY <1>0, <2>2 DEF OwnChannelInv, ClientTypeOK
  <2>4. \A d \in Callers : pc'[d] # "idle" => subs'[d[1]] # None
    BY <1>0, <1>2, <2>2, NoneAssumption, CallersAre DEF Call, MadeInv, ClientTypeOK
  <2>5. QED
    BY <1>0, <1>2, <2>1, <2>3, <2>4 DEF Call, Works
<1>3. QED
  BY <1>1, <1>2

LEMMA TryWorks ==
  ASSUME ClientTypeOK, OwnChannelInv, MadeInv, NEW c \in Callers, TryEnds(c) \/ Wake(c)
  PROVE  Works
<1>0. c[1] \in Services /\ subs[c[1]] \in SubClient /\ subs[c[1]].channel = c[1] /\ Usable
  BY CallersAre DEF TryEnds, Succeeds, Fails, Wake, MadeInv, ClientTypeOK, OwnChannelInv
<1>1. ASSUME NEW b \in SubClient, b.channel = c[1],
             subs' = [subs EXCEPT ![c[1]] = b] \/ subs' = subs
      PROVE  /\ OwnChannelInv'
             /\ \A s \in Services : subs[s] # None => subs'[s] # None
  BY <1>0, <1>1, NoneAssumption DEF OwnChannelInv, ClientTypeOK
<1>2. CASE Wake(c)
  <2>1. SendsOnOpen
    BY <1>0, <1>2, SendsWell DEF Wake
  <2>2. QED
    BY <1>0, <1>2, <2>1 DEF Wake, Works, MadeInv, OwnChannelInv, ClientTypeOK
<1>3. CASE Succeeds(c)
  <2>1. [subs[c[1]] EXCEPT !.failures = 0, !.open = FALSE] \in SubClient
    BY <1>0 DEF SubClient
  <2>2. [subs[c[1]] EXCEPT !.failures = 0, !.open = FALSE].channel = c[1]
    BY <1>0 DEF SubClient
  <2>3. /\ OwnChannelInv'
        /\ \A s \in Services : subs[s] # None => subs'[s] # None
    BY <1>0, <1>1, <1>3, <2>1, <2>2 DEF Succeeds, ClientTypeOK
  <2>4. QED
    BY <1>0, <1>3, <2>3, CallersAre DEF Succeeds, Works, SendsOnOpen, MadeInv, ClientTypeOK
<1>4. ASSUME NEW e, Fails(c, e) PROVE Works
  <2>1. PICK b \in SubClient : /\ b.channel = c[1]
                               /\ subs' = [subs EXCEPT ![c[1]] = b] \/ subs' = subs
    <3>1. CASE MayRetry(c, e)
      BY <1>0, <1>4, <3>1 DEF Fails
    <3>2. CASE ~MayRetry(c, e)
      <4> DEFINE b == subs[c[1]]
                 opens == ~b.open /\ b.failures + 1 >= FailureThreshold
                 after == [b EXCEPT !.failures = @ + 1, !.open = @ \/ opens,
                                    !.since = IF opens THEN 0 ELSE @]
      <4>1. subs' = [subs EXCEPT ![c[1]] = after]
        BY <1>4, <3>2, Zenon DEF Fails
      <4>2. /\ (b.open \/ opens) \in BOOLEAN /\ b.failures + 1 \in Nat
            /\ (IF opens THEN 0 ELSE b.since) \in 0..WaitDuration
        BY <1>0, ClientAssumption DEF SubClient
      <4>3. after \in SubClient /\ after.channel = c[1]
        <5> HIDE DEF opens
        <5>1. QED
          BY <1>0, <4>2 DEF SubClient
      <4> HIDE DEF after
      <4>4. QED
        BY <4>1, <4>3
    <3>3. QED
      BY <3>1, <3>2
  <2>2. /\ OwnChannelInv'
        /\ \A s \in Services : subs[s] # None => subs'[s] # None
    BY <1>1, <2>1
  <2>3. /\ \A d \in Callers : pc'[d] # "idle" => d = c \/ pc[d] # "idle"
        /\ UNCHANGED <<environment, life, sent>> /\ pc[c] # "idle"
    BY <1>4 DEF Fails, ClientTypeOK
  <2>4. QED
    BY <1>0, <2>2, <2>3, CallersAre DEF Works, SendsOnOpen, MadeInv
<1>5. QED
  BY <1>2, <1>3, <1>4 DEF TryEnds

LEMMA TickWorks ==
  ASSUME ClientTypeOK, OwnChannelInv, MadeInv, Tick
  PROVE  Works
<1>1. \A s \in Services : /\ subs'[s] # None => subs[s] # None /\ subs'[s].channel = subs[s].channel
                          /\ subs[s] # None => subs'[s] # None
  <2> SUFFICES ASSUME NEW s \in Services
               PROVE  /\ subs'[s] # None => subs[s] # None /\ subs'[s].channel = subs[s].channel
                      /\ subs[s] # None => subs'[s] # None
    OBVIOUS
  <2>1. CASE subs[s] # None /\ subs[s].since < WaitDuration
    <3>1. subs[s] \in SubClient /\ subs'[s] = [subs[s] EXCEPT !.since = @ + 1]
      BY <2>1 DEF Tick, ClientTypeOK
    <3>2. subs'[s] \in SubClient /\ subs'[s].channel = subs[s].channel
      BY <2>1, <3>1, ClientAssumption DEF SubClient
    <3>3. QED
      BY <2>1, <3>2, NoneAssumption
  <2>2. CASE ~(subs[s] # None /\ subs[s].since < WaitDuration)
    BY <2>2 DEF Tick
  <2>3. QED
    BY <2>1, <2>2
<1>2. QED
  BY <1>1, CallersAre DEF Tick, Works, SendsOnOpen, OwnChannelInv, MadeInv

LEMMA StreamWorks ==
  ASSUME ClientTypeOK, OwnChannelInv, MadeInv, NEW x \in Subscriptions,
         \/ Subscribe(x) \/ Connect(x) \/ Frame(x)
         \/ Breaks(x) \/ BreaksForGood(x) \/ CutOff(x)
  PROVE  Works
<1>1. Usable
  BY DEF Subscribe, Connect, Frame, Breaks, BreaksForGood, CutOff, MadeInv
<1>2. CASE Subscribe(x)
  <2>1. "live_data" \in Services
    BY DEF Services
  <2>2. OwnChannelInv' /\ \A s \in Services : subs[s] # None => subs'[s] # None
    BY <1>2, <2>1, SubIs DEF Subscribe, OwnChannelInv, ClientTypeOK
  <2>3. QED
    BY <1>1, <1>2, <2>2, CallersAre DEF Subscribe, Works, SendsOnOpen, MadeInv
<1>3. CASE Connect(x)
  <2>1. SendsOnOpen
    BY <1>1, <1>3, SendsWell DEF Connect, Services
  <2>2. QED
    BY <1>1, <1>3, <2>1 DEF Connect, Works, OwnChannelInv, MadeInv
<1>4. CASE Frame(x) \/ Breaks(x) \/ BreaksForGood(x) \/ CutOff(x)
  BY <1>1, <1>4 DEF Frame, Breaks, BreaksForGood, CutOff, Works, SendsOnOpen,
                    OwnChannelInv, MadeInv
<1>5. QED
  BY <1>2, <1>3, <1>4

LEMMA ClientSteps ==
  ASSUME ClientTypeOK, ClientInv, [ClientNext]_client_vars
  PROVE  FromEnv \/ Close \/ CloseNext \/ CloseCancelled \/ Works
<1>1. CASE UNCHANGED client_vars
  BY <1>1 DEF Works, SendsOnOpen, ClientInv, OwnChannelInv, MadeInv
<1>2. QED
  BY <1>1, CallWorks, TryWorks, TickWorks, StreamWorks DEF ClientNext, ClientInv

-----------------------------------------------------------------------------
(* The invariant, and what each step is to Lifecycle.                       *)

LEMMA FromEnvStep ==
  ASSUME ClientTypeOK, ClientInv, FromEnv
  PROVE  ClientInv' /\ (Whole!Make \/ Whole!Fail)
<1>1. /\ EnvInv' /\ OwnChannelInv' /\ ~Usable /\ phase = "new"
      /\ UNCHANGED <<raised, sent, pc, streams, subs>>
  BY FromEnvType DEF FromEnv, ClientInv, OwnChannelInv, Usable
<1>2. Serving = {} /\ raised = {} /\ sent = {}
  BY <1>1 DEF ClientInv, MadeInv, Serving
<1>3. CASE Bad
  <2>1. phase' = "failed" /\ channels' = channels
    BY <1>3 DEF FromEnv
  <2>2. ClientInv'
    BY <1>1, <2>1 DEF ClientInv, MadeInv, CloseInv, Usable
  <2>3. Whole!Fail
    BY <1>1, <2>1 DEF Whole!Fail
  <2>4. QED
    BY <2>2, <2>3
<1>4. CASE ~Bad
  <2>1. phase' = "open"
        /\ \A s \in Services : channels'[s] =
             [at |-> create_channel(Service(s, environment[s])), open |-> TRUE]
    BY <1>4 DEF FromEnv
  <2>2. \A s \in Services : channels'[s] \in Channel /\ channels'[s].open
    <3> SUFFICES ASSUME NEW s \in Services
                 PROVE  channels'[s] \in Channel /\ channels'[s].open
      OBVIOUS
    <3>1. create_channel(Service(s, environment[s])) \in At
      BY EnvironmentRead DEF ClientInv, EnvInv
    <3>2. channels'[s] =
            [at |-> create_channel(Service(s, environment[s])), open |-> TRUE]
      BY <2>1
    <3>3. QED
      BY <3>1, <3>2 DEF Channel
  <2>3. Serving' = Services /\ \A s \in Services : channels'[s] # None
    BY <2>2, NoneAssumption DEF Serving
  <2>4. ClientInv'
    BY <1>1, <1>2, <2>1, <2>3 DEF ClientInv, MadeInv, CloseInv, Usable
  <2>5. Whole!Make
    BY <1>1, <1>2, <2>1, <2>3 DEF Whole!Make, Serving
  <2>6. QED
    BY <2>4, <2>5
<1>5. QED
  BY <1>3, <1>4

LEMMA CloseStep ==
  ASSUME ClientTypeOK, ClientInv, Close
  PROVE  ClientInv' /\ Whole!Close
<1>1. /\ phase = "open" /\ phase' = "closing" /\ Serving' = Serving
      /\ UNCHANGED <<environment, channels, raised, subs, pc, streams, sent>>
      /\ to_close' = <<"remote_control", "mission_autonomy", "live_data">>
  BY DEF Close, Channels, Serving
<1>2. ClientInv'
  BY <1>1 DEF ClientInv, EnvInv, OwnChannelInv, MadeInv, CloseInv, Usable
<1>3. Whole!Close
  BY <1>1 DEF Whole!Close, Serving
<1>4. QED
  BY <1>2, <1>3

LEMMA CloseNextStep ==
  ASSUME ClientTypeOK, ClientInv, CloseNext
  PROVE  ClientInv' /\ Whole!Next
<1>0. PICK s : s = Head(to_close)
  OBVIOUS
<1>1. /\ phase = "closing" /\ Usable /\ UNCHANGED <<environment, subs, pc, streams, sent>>
      /\ to_close' = Tail(to_close)
      /\ phase' = IF Tail(to_close) = << >> THEN "closed" ELSE "closing"
  BY DEF CloseNext, Usable
<1>2. s \in Serving \ raised /\ s \in Services
  BY <1>0, <1>1 DEF ClientInv, CloseInv, Services, Serving
<1>3. channels[s] \in Channel
  BY <1>2, <1>1 DEF ClientInv, MadeInv, ClientTypeOK
<1>4. /\ \A x \in Services : channels'[x] # None
      /\ \/ Serving' = Serving \ {s} /\ raised' = raised
         \/ Serving' = Serving /\ raised' = raised \cup {s}
  <2>1. CASE channels' = [channels EXCEPT ![s].open = FALSE] /\ raised' = raised
    <3>1. channels'[s] = [channels[s] EXCEPT !.open = FALSE]
      BY <1>2, <2>1 DEF ClientTypeOK
    <3>2. channels'[s] \in Channel /\ ~channels'[s].open
      BY <1>3, <3>1 DEF Channel
    <3>3. \A x \in Services \ {s} : channels'[x] = channels[x]
      BY <2>1 DEF ClientTypeOK
    <3>4. QED
      BY <1>1, <2>1, <3>2, <3>3, NoneAssumption DEF Serving, ClientInv, MadeInv
  <2>2. CASE channels' = channels /\ raised' = raised \cup {s}
    BY <1>1, <2>2 DEF Serving, ClientInv, MadeInv
  <2>3. QED
    BY <1>0, <2>1, <2>2 DEF CloseNext
<1>5. /\ CloseInv'
      /\ phase' = IF Serving' \subseteq raised' THEN "closed" ELSE "closing"
  <2>1. CASE to_close = <<"remote_control", "mission_autonomy", "live_data">>
    <3>1. /\ s = "remote_control" /\ to_close' = <<"mission_autonomy", "live_data">>
          /\ phase' = "closing" /\ Serving = Services /\ raised = {}
      BY <1>0, <1>1, <2>1 DEF ClientInv, CloseInv
    <3>2. QED
      BY <1>4, <3>1 DEF CloseInv, Services
  <2>2. CASE to_close = <<"mission_autonomy", "live_data">>
    <3>1. /\ s = "mission_autonomy" /\ to_close' = <<"live_data">> /\ phase' = "closing"
          /\ {"mission_autonomy", "live_data"} \subseteq Serving \ raised
          /\ Serving \subseteq {"mission_autonomy", "live_data"} \cup raised
      BY <1>0, <1>1, <2>2 DEF ClientInv, CloseInv
    <3>2. QED
      BY <1>4, <3>1 DEF CloseInv
  <2>3. CASE to_close = <<"live_data">>
    <3>1. /\ s = "live_data" /\ phase' = "closed"
          /\ Serving \subseteq {"live_data"} \cup raised
      BY <1>0, <1>1, <2>3 DEF ClientInv, CloseInv
    <3>2. QED
      BY <1>4, <3>1 DEF CloseInv
  <2>4. QED
    BY <1>1, <2>1, <2>2, <2>3 DEF ClientInv, CloseInv
<1>6. ClientInv'
  BY <1>1, <1>4, <1>5 DEF ClientInv, EnvInv, OwnChannelInv, MadeInv, Usable
<1>7. Whole!CloseOne(s)
  BY <1>1, <1>4, <1>5 DEF Whole!CloseOne, Serving
<1>8. \E x \in Services : Whole!CloseOne(x)
  BY <1>2, <1>7
<1>9. QED
  BY <1>6, <1>8 DEF Whole!Next

LEMMA CloseCancelledStep ==
  ASSUME ClientTypeOK, ClientInv, CloseCancelled
  PROVE  ClientInv' /\ Whole!Abandon
<1>0. PICK s : s = Head(to_close)
  OBVIOUS
<1>1. /\ phase = "closing" /\ phase' = "abandoned" /\ Usable /\ Usable'
      /\ UNCHANGED <<environment, subs, pc, streams, sent, raised>>
  BY DEF CloseCancelled, Usable
<1>2. s \in Serving /\ s \in Services
  BY <1>0, <1>1 DEF ClientInv, CloseInv, Services, Serving
<1>3. channels[s] \in Channel
  BY <1>2, <1>1 DEF ClientInv, MadeInv, ClientTypeOK
<1>4. /\ \A x \in Services : channels'[x] # None
      /\ Serving' = Serving \ {s} \/ Serving' = Serving
  <2>1. CASE channels' = [channels EXCEPT ![s].open = FALSE]
    <3>1. channels'[s] = [channels[s] EXCEPT !.open = FALSE]
      BY <1>2, <2>1 DEF ClientTypeOK
    <3>2. channels'[s] \in Channel /\ ~channels'[s].open
      BY <1>3, <3>1 DEF Channel
    <3>3. \A x \in Services \ {s} : channels'[x] = channels[x]
      BY <2>1 DEF ClientTypeOK
    <3>4. QED
      BY <1>1, <2>1, <3>2, <3>3, NoneAssumption DEF Serving, ClientInv, MadeInv
  <2>2. CASE channels' = channels
    BY <1>1, <2>2 DEF Serving, ClientInv, MadeInv
  <2>3. QED
    BY <1>0, <2>1, <2>2 DEF CloseCancelled
<1>5. ClientInv'
  BY <1>1, <1>4 DEF ClientInv, EnvInv, OwnChannelInv, MadeInv, CloseInv
<1>6. Whole!Abandon
  BY <1>1, <1>2, <1>4 DEF Whole!Abandon, Serving
<1>7. QED
  BY <1>5, <1>6

LEMMA WorksStep ==
  ASSUME ClientTypeOK, ClientInv, Works
  PROVE  ClientInv' /\ (Whole!Send \/ UNCHANGED Whole!vars)
<1>1. /\ UNCHANGED <<environment, phase, to_close, channels, raised>>
      /\ Serving' = Serving /\ (Usable' <=> Usable) /\ OwnChannelInv'
  BY DEF Works, Serving, Usable
<1>2. MadeInv'
  BY <1>1 DEF Works, ClientInv, MadeInv, SendsOnOpen, Usable
<1>3. ClientInv'
  BY <1>1, <1>2 DEF ClientInv, EnvInv, CloseInv
<1>4. Whole!Send \/ UNCHANGED Whole!vars
  BY <1>1 DEF Works, SendsOnOpen, Whole!Send, Whole!vars, Serving
<1>5. QED
  BY <1>3, <1>4

LEMMA ClientInvInit == ClientInit => ClientInv
<1> SUFFICES ASSUME ClientInit PROVE ClientInv
  OBVIOUS
<1>1. /\ phase = "new" /\ raised = {} /\ sent = {}
      /\ channels = [s \in Services |-> None] /\ subs = [s \in Services |-> None]
      /\ pc = [c \in Callers |-> "idle"]
      /\ streams = [x \in Subscriptions |-> "none"]
  BY Zenon DEF ClientInit
<1>2. QED
  BY <1>1, ClientTypeInit
  DEF ClientInv, OwnChannelInv, MadeInv, CloseInv, Usable

LEMMA ClientInvStep ==
  ClientTypeOK /\ ClientInv /\ [ClientNext]_client_vars =>
    ClientInv' /\ [Whole!Next]_(Whole!vars)
  BY ClientSteps, FromEnvStep, CloseStep, CloseNextStep, CloseCancelledStep, WorksStep
  DEF Whole!Next

LEMMA ClientInvariant == ClientSpec => [](ClientTypeOK /\ ClientInv)
  BY ClientTypeInit, ClientInvInit, ClientTypeStep, ClientInvStep, PTL DEF ClientSpec

-----------------------------------------------------------------------------
(* The theorems.                                                            *)

\* The client's state is well typed, whatever the environment and the policy,
\* counts of retries that allow no try included.
THEOREM ClientTypeCorrect == ClientSpec => []ClientTypeOK
  BY ClientInvariant, PTL

\* The client is made whole or not at all; every try, retry and connection
\* leaves on an open channel, and close() comes to every channel unless it is
\* cancelled (from_env, __init__, close; execute, _stream_loop).
THEOREM LifecycleTheorem == ClientSpec => KeepsLifecycle
<1>1. ClientInit => Whole!Init
  <2> SUFFICES ASSUME ClientInit PROVE Whole!Init
    OBVIOUS
  <2>1. /\ phase = "new" /\ raised = {} /\ sent = {}
        /\ channels = [s \in Services |-> None]
    BY Zenon DEF ClientInit
  <2>2. QED
    BY <2>1 DEF Whole!Init
<1>2. ClientTypeOK /\ ClientInv /\ [ClientNext]_client_vars => [Whole!Next]_(Whole!vars)
  BY ClientInvStep
<1>3. QED
  BY <1>1, <1>2, ClientInvariant, PTL DEF ClientSpec, KeepsLifecycle, Whole!Spec
-----------------------------------------------------------------------------
(* Why everything ends after close(), as far as it is safety. A call that   *)
(* goes on has retries and one sleep before each, which its steps use up,   *)
(* and a subscription on a closed channel only comes nearer to its end. The *)
(* rest of CloseEndsAll is that FairClient makes these steps happen.        *)

RetriesLeft(c) == MaxRetryAttempts - attempt[c]
SleepsLeft(c) == IF pc[c] = "sleep" THEN 1 ELSE 0

CallShrinks(c) ==
  \/ RetriesLeft(c)' < RetriesLeft(c)
  \/ RetriesLeft(c)' = RetriesLeft(c) /\ SleepsLeft(c)' < SleepsLeft(c)

CallKeeps(c) == RetriesLeft(c)' = RetriesLeft(c) /\ SleepsLeft(c)' = SleepsLeft(c)

InCall(c) == pc[c] # "idle"

\* A call in progress uses up its allowance by its own steps, and no other
\* step gives any back.
CallsShrink ==
  [][\A c \in Callers : InCall(c) /\ InCall(c)' =>
       /\ CallShrinks(c) \/ CallKeeps(c)
       /\ TryEnds(c) \/ Wake(c) => CallShrinks(c)]_client_vars

\* The ways a subscription has to go when its channel is closed.
Distance(x) == CASE streams[x] = "none"  -> 3
                 [] streams[x] = "read"  -> 2
                 [] streams[x] = "pause" -> 1
                 [] OTHER                -> 0

Shut == phase = "closed" /\ "live_data" \notin raised

\* Once the client is closed a subscription comes nearer to its end by every
\* step but the frames still to be read, whether it was reading, between two
\* connections, or made after close().
StreamsShrink ==
  [][Shut => \A x \in Subscriptions :
       /\ Distance(x)' <= Distance(x)
       /\ Connect(x) \/ CutOff(x) => Distance(x)' < Distance(x)]_client_vars

LEMMA OwnStepShrinks ==
  ASSUME ClientTypeOK, NEW c \in Callers, TryEnds(c) \/ Wake(c), InCall(c)'
  PROVE  CallShrinks(c)
<1> USE ClientAssumption DEF ClientTypeOK, InCall, RetriesLeft, SleepsLeft, CallShrinks
<1>1. CASE Succeeds(c)
  BY <1>1 DEF Succeeds
<1>2. ASSUME NEW e, Fails(c, e) PROVE CallShrinks(c)
  BY <1>2 DEF Fails
<1>3. CASE Wake(c)
  BY <1>3 DEF Wake, Try
<1>4. QED
  BY <1>1, <1>2, <1>3 DEF TryEnds

LEMMA OtherStepKeeps ==
  ASSUME ClientTypeOK, [ClientNext]_client_vars, NEW c \in Callers, InCall(c),
         ~(TryEnds(c) \/ Wake(c))
  PROVE  CallKeeps(c)
<1> SUFFICES pc'[c] = pc[c] /\ attempt'[c] = attempt[c]
  BY DEF CallKeeps, RetriesLeft, SleepsLeft
<1>1. ASSUME NEW d \in Callers, NEW r, Call(d, r) \/ CallMissing(d, r)
      PROVE  pc'[c] = pc[c] /\ attempt'[c] = attempt[c]
  BY <1>1 DEF Call, CallMissing, InCall, ClientTypeOK
<1>2. ASSUME NEW d \in Callers, TryEnds(d) \/ Wake(d)
      PROVE  pc'[c] = pc[c] /\ attempt'[c] = attempt[c]
  <2>1. d # c
    BY <1>2
  <2>2. ASSUME NEW e, Fails(d, e) PROVE pc'[c] = pc[c] /\ attempt'[c] = attempt[c]
    <3>1. CASE MayRetry(d, e)
      BY <2>1, <2>2, <3>1, Zenon DEF Fails, ClientTypeOK
    <3>2. CASE ~MayRetry(d, e)
      BY <2>1, <2>2, <3>2, Zenon DEF Fails, ClientTypeOK
    <3>3. QED
      BY <3>1, <3>2
  <2>3. CASE Succeeds(d)
    BY <2>1, <2>3 DEF Succeeds, ClientTypeOK
  <2>4. CASE Wake(d)
    BY <2>1, <2>4 DEF Wake, ClientTypeOK
  <2>5. QED
    BY <1>2, <2>2, <2>3, <2>4 DEF TryEnds
<1>3. CASE \/ FromEnv \/ Close \/ CloseNext \/ CloseCancelled \/ Tick
           \/ UNCHANGED client_vars
  BY <1>3 DEF FromEnv, Close, CloseNext, CloseCancelled, Tick
<1>4. ASSUME NEW x \in Subscriptions,
             \/ Subscribe(x) \/ Connect(x) \/ Frame(x)
             \/ Breaks(x) \/ BreaksForGood(x) \/ CutOff(x)
      PROVE  pc'[c] = pc[c] /\ attempt'[c] = attempt[c]
  BY <1>4 DEF Subscribe, Connect, Frame, Breaks, BreaksForGood, CutOff
<1>5. QED
  BY <1>1, <1>2, <1>3, <1>4 DEF ClientNext

LEMMA StreamStep ==
  ASSUME ClientTypeOK, ClientInv, [ClientNext]_client_vars, Shut,
         NEW x \in Subscriptions
  PROVE  /\ Distance(x)' <= Distance(x)
         /\ Connect(x) \/ CutOff(x) => Distance(x)' < Distance(x)
<1>1. ~Open("live_data")
  BY SubIs DEF Shut, ClientInv, CloseInv, MadeInv, Usable, Serving, Services
<1>2. Connect(x) \/ CutOff(x) => Distance(x)' < Distance(x)
  BY <1>1 DEF Connect, CutOff, Distance, ClientTypeOK
<1> SUFFICES Distance(x)' <= Distance(x)
  BY <1>2
<1>3. ASSUME NEW y \in Subscriptions,
             \/ Subscribe(y) \/ Connect(y) \/ Frame(y)
             \/ Breaks(y) \/ BreaksForGood(y) \/ CutOff(y)
      PROVE  Distance(x)' <= Distance(x)
  <2>1. CASE y = x
    BY <1>1, <1>3, <2>1
    DEF Subscribe, Connect, Frame, Breaks, BreaksForGood, CutOff, Distance, ClientTypeOK
  <2>2. CASE streams'[x] = streams[x]
    BY <2>2 DEF Distance
  <2>3. QED
    BY <1>3, <2>1, <2>2
    DEF Subscribe, Connect, Frame, Breaks, BreaksForGood, CutOff, ClientTypeOK
<1>4. CASE UNCHANGED streams
  BY <1>4 DEF Distance
<1>5. QED
  BY <1>3, <1>4
  DEF ClientNext, FromEnv, Close, CloseNext, CloseCancelled, Tick, Call, CallMissing,
      TryEnds, Succeeds, Fails, Wake

\* After close() the calls left behind run out of tries and the subscriptions
\* out of connections, whatever the order of their steps (execute 85-104,
\* _stream_loop, close).
THEOREM ShrinkTheorem == ClientSpec => CallsShrink /\ StreamsShrink
<1>1. ClientTypeOK /\ [ClientNext]_client_vars =>
        [\A c \in Callers : InCall(c) /\ InCall(c)' =>
           /\ CallShrinks(c) \/ CallKeeps(c)
           /\ TryEnds(c) \/ Wake(c) => CallShrinks(c)]_client_vars
  BY OwnStepShrinks, OtherStepKeeps
<1>2. ClientTypeOK /\ ClientInv /\ [ClientNext]_client_vars =>
        [Shut => \A x \in Subscriptions :
           /\ Distance(x)' <= Distance(x)
           /\ Connect(x) \/ CutOff(x) => Distance(x)' < Distance(x)]_client_vars
  BY StreamStep
<1>3. QED
  BY <1>1, <1>2, ClientInvariant, PTL DEF ClientSpec, CallsShrink, StreamsShrink
=============================================================================
