------------------------------ MODULE Lifecycle ------------------------------
(* What a ZequentClient promises as a whole: it is made with all of its     *)
(* channels or not at all, a request leaves only on an open channel, and    *)
(* closing shuts every channel for good, whatever happens to one of them,   *)
(* unless the closing is abandoned.                                         *)
EXTENDS Integers

CONSTANTS Services

VARIABLES
  phase,     \* new; failed; open; closing; closed; abandoned
  serving,   \* the services whose channels are open
  raised,    \* those whose channels raised an exception when they were closed
  sent       \* the latest request that left, if any, with its service

vars == <<phase, serving, raised, sent>>

Init == phase = "new" /\ serving = {} /\ raised = {} /\ sent = {}

Make ==
  /\ phase = "new"
  /\ phase' = "open" /\ serving' = Services
  /\ UNCHANGED <<raised, sent>>

Fail == phase = "new" /\ phase' = "failed" /\ UNCHANGED <<serving, raised, sent>>

Send ==
  /\ sent' # sent
  /\ \A r \in sent' : r.service \in serving
  /\ UNCHANGED <<phase, serving, raised>>

Close == phase = "open" /\ phase' = "closing" /\ UNCHANGED <<serving, raised, sent>>

CloseOne(s) ==
  /\ phase = "closing"
  /\ \/ serving' = serving \ {s} /\ UNCHANGED raised
     \/ raised' = raised \cup {s} /\ UNCHANGED serving
  /\ phase' = IF serving' \subseteq raised' THEN "closed" ELSE "closing"
  /\ UNCHANGED sent

\* What is not shut by then serves on, and nothing will shut it.
Abandon ==
  /\ phase = "closing" /\ phase' = "abandoned"
  /\ serving' = serving \/ \E s \in serving : serving' = serving \ {s}
  /\ UNCHANGED <<raised, sent>>

Next ==
  \/ Make \/ Fail \/ Send \/ Close \/ Abandon
  \/ \E s \in Services : CloseOne(s)

Spec == Init /\ [][Next]_vars
=============================================================================
