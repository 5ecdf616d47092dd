------------------------------- MODULE Config -------------------------------
(* From the environment to a channel: config/env_loader.py,                 *)
(* config/service_config.py and grpc_/channel_factory.py. The value of a    *)
(* variable is abstracted to what these modules tell apart: not set, set to *)
(* the empty string, set to something that can be read as asked (a number,  *)
(* a word for true, the name of a policy), or set to some other text.       *)
EXTENDS Integers

Services == {"remote_control", "mission_autonomy", "live_data"}

\* The variables of one service, by the part of their names after its prefix.
Raw ==
  [HOST          : {"unset", "empty", "text"},
   PORT          : {"unset", "empty", "number", "text"},
   USE_PLAINTEXT : {"unset", "empty", "true", "text"},
   USE_STORK     : {"unset", "empty", "true", "text"},
   STORK_NAME    : {"unset", "empty", "text"},
   LOAD_BALANCER : {"unset", "policy", "text"}]

Unset == [v \in {"HOST", "PORT", "USE_PLAINTEXT", "USE_STORK", "STORK_NAME",
                 "LOAD_BALANCER"} |-> "unset"]

-----------------------------------------------------------------------------
(* env_loader.py.                                                           *)

DEFAULT_PORTS == [remote_control |-> 8002, live_data |-> 8003, mission_autonomy |-> 8004]

\* The number a PORT variable holds.
Number == 9000

EnvBool(raw, default) == IF raw = "unset" THEN default ELSE raw = "true"

EnvInt(raw, default) == IF raw \in {"unset", "empty"} THEN default ELSE Number

EnvText(raw, default) == IF raw = "unset" THEN default ELSE raw

\* int() and LoadBalancerType() raise ValueError, and so does from_env.
ServiceRaises(raw) == raw.PORT = "text" \/ raw.LOAD_BALANCER = "text"

Service(s, raw) ==
  [host |-> EnvText(raw.HOST, "localhost"),
   port |-> EnvInt(raw.PORT, DEFAULT_PORTS[s]),
   use_plaintext |-> EnvBool(raw.USE_PLAINTEXT, TRUE),
   use_stork |-> EnvBool(raw.USE_STORK, FALSE),
   stork_service_name |-> EnvText(raw.STORK_NAME, "own")]

-----------------------------------------------------------------------------
(* channel_factory.py. Every policy becomes round_robin.                    *)

Address(scheme, name, port, secure) ==
  [scheme |-> scheme, name |-> name, port |-> port, secure |-> secure]

\* "config.use_stork and config.stork_service_name"
UsesDns_Unnamed(c) == c.use_stork      \* mutant: does not look at the name
UsesDns(c) == c.use_stork /\ c.stork_service_name # "empty"

create_channel(c) ==
  IF UsesDns(c)
    THEN Address("dns", c.stork_service_name, 0, ~c.use_plaintext)
    ELSE Address("direct", c.host, c.port, ~c.use_plaintext)
=============================================================================
