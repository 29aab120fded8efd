------------------------- MODULE MCExecuteExecutor -------------------------
(* A script of at most three calls against a budget of two, two queued jobs *)
(* and two jobs per executePendingJobs: every order of answers, refusals,    *)
(* local failures, job interruptions and the deadline.                       *)
EXTENDS ExecuteExecutor
=============================================================================
