---------------------------- MODULE MCResilience ----------------------------
(* Resilience for TLC, and a statement of its documents that the code does  *)
(* not keep: the run that checks it ends in a counterexample.               *)
EXTENDS Resilience

\* resilience.py:11, "the next call probes - if it succeeds the breaker closes
\* again": an open breaker closes by a call that succeeds. _check_circuit
\* closes it, and forgets the count, before the probe is sent (131-132).
ProbeDecides ==
  [][circuit_open /\ ~circuit_open' => \E t \in Tasks : OpSucceeds(t)]_vars
=============================================================================
