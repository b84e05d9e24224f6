----------------------------- MODULE MCThreadPool ----------------------------
(* Three connections; two for the run that loses a task.                     *)
EXTENDS ThreadPool
==============================================================================
