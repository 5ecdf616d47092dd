---------------------------- MODULE MCSubClients ----------------------------
(* SubClients for TLC, and a statement of the documents the code does not   *)
(* keep.                                                                    *)
EXTENDS SubClients, TLC

Symmetry == Permutations(Tasks) \cup Permutations(Methods)

\* README.md:173-174, CircuitBreakerOpen is "raised when the per-method
\* breaker is open": a call is rejected for failures of its own method. The
\* sub-client has one breaker, so other methods' failures reject it too.
PerMethodBreaker ==
  [][\A t \in Tasks : result'[t] = "rejected" /\ serial'[t] # serial[t] =>
       method'[t] \in blamed]_sub_vars
=============================================================================
