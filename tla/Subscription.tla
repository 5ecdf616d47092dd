---------------------------- MODULE Subscription ----------------------------
(* What a live-data subscription promises the application: frames arrive    *)
(* while it is active, an error is told at most once and ends it, and       *)
(* nothing arrives any more once the application has asked it to stop.      *)
EXTENDS Integers

VARIABLES
  phase,      \* active; told of an error; asked to stop; over
  delivered   \* frames handed to the callback

vars == <<phase, delivered>>

Init == phase = "active" /\ delivered = 0

Deliver == phase = "active" /\ delivered' = delivered + 1 /\ UNCHANGED phase

Tell == phase = "active" /\ phase' = "told" /\ UNCHANGED delivered

AskStop == phase \in {"active", "told"} /\ phase' = "stopping" /\ UNCHANGED delivered

End == phase # "over" /\ phase' = "over" /\ UNCHANGED delivered

Next == Deliver \/ Tell \/ AskStop \/ End

Spec == Init /\ [][Next]_vars
=============================================================================
