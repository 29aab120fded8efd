---------------------------- MODULE MCHttpClient ----------------------------
(* Delays below, at and above what setTimeout keeps, scaled to a few ticks.  *)
EXTENDS HttpClient

MCRetryAfters ==
    [form : {"seconds"}, ms : {-1, 0, 1, 3, 5}] \cup
    { [form |-> "date", ms |-> -2], [form |-> "date", ms |-> 2],
      [form |-> "other", ms |-> 0] }
=============================================================================
