----------------------- MODULE MCManualControlSession -----------------------
(* ManualControlSession for TLC, and a statement of its documents that the  *)
(* code does not keep.                                                      *)
EXTENDS ManualControlSession

\* manual_control_session.py:101, "Queue a single ManualControlInput for
\* transmission": an input that send_input accepted is transmitted before the
\* stream's end. While complete() waits, _closed is still False and the input
\* goes behind the sentinel (102-106).
AcceptedAreSent == pump = "half" => Len(sent) = accepted
=============================================================================
