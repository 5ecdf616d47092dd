-------------------------- MODULE DocumentRegister --------------------------
(* What the conversions promise together: a document kept by a service is a *)
(* register of SDK objects. A caller gets the object the service had, and a *)
(* service stores an object the caller had when it made a try, however late *)
(* and in whatever order tries arrive, and whoever changes the document.    *)
EXTENDS Integers

VARIABLES
  document,   \* the service's, as the object it stands for
  answer,     \* on its way to the caller
  copy,       \* the caller's object
  writing,    \* the object of the write in progress
  under_way   \* tries not executed yet, each with a number and its object

Nothing == << >>

vars == <<document, answer, copy, writing, under_way>>

\* The service, or another client of it, changes the document.
Change == UNCHANGED <<answer, copy, writing, under_way>>

Fetch == answer' = document /\ UNCHANGED <<document, copy, writing, under_way>>

\* The caller gets the object, or an error in its place.
Deliver ==
  /\ copy' \in {answer, copy}
  /\ answer' = Nothing
  /\ UNCHANGED <<document, writing, under_way>>

\* The caller changes its object, or begins a new one.
Edit == UNCHANGED <<document, answer, writing, under_way>>

\* One more try is under way, of the object given.
Sent(object) ==
  \E t \in under_way' \ under_way :
    t.message = object /\ under_way' = under_way \cup {t}

Send ==
  /\ writing' = copy
  /\ Sent(copy)
  /\ UNCHANGED <<document, answer, copy>>

\* Another try, of the same object or of what has become of it.
Again ==
  /\ \E object \in {writing, copy} : writing' = object /\ Sent(object)
  /\ UNCHANGED <<document, answer, copy>>

\* Any try, also one of an earlier write.
Execute ==
  /\ \E t \in under_way : document' = t.message /\ under_way' = under_way \ {t}
  /\ UNCHANGED <<answer, copy, writing>>

\* The write ends; its answer may hold what was stored.
Finish ==
  /\ writing' = Nothing
  /\ answer' \in {Nothing, writing}
  /\ UNCHANGED <<document, copy, under_way>>

Init == answer = Nothing /\ copy = Nothing /\ writing = Nothing /\ under_way = {}

Next ==
  \/ Change \/ Fetch \/ Deliver \/ Edit
  \/ Send \/ Again \/ Execute \/ Finish

Spec == Init /\ [][Next]_vars
=============================================================================
