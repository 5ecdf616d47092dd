----------------------------- MODULE MCDocuments -----------------------------
(* What models/task_config.py claims of Documents.                          *)
EXTENDS Documents

TaskConfigClasses == {p[1] : p \in DOMAIN TaskConfigs}

\* "These map 1:1 to the oneof taskConfig variants ... Field names mirror the
\* proto exactly ... and field types preserve optionality" (models/task_config.py:3-5):
\* what a caller sets in a task's configuration, the request says.
ConfigMirrored ==
  [][request = Nothing /\ request' # Nothing =>
       \A p \in DOMAIN copy :
         p[1] \in TaskConfigClasses /\ copy[p] # "none" => request'[p] # "none"]_doc_vars
=============================================================================
