-------------------------- MODULE MCLiveDataStream --------------------------
(* LiveDataStream for TLC, and a statement of the code's documentation that *)
(* it does not keep.                                                        *)
EXTENDS LiveDataStream, TLC

Symmetry == Permutations(Users)

\* stream_handle.py:48, "Signal the stream to stop and wait for cleanup": when
\* stop() has returned the background task is over. A stop() that finds
\* _stopped set returns at once (49-50).
StopWaitsForCleanup ==
  \A u \in Users : result[u] \in {"returned", "waited"} => pc = "finished"
=============================================================================
