--------------------------- MODULE MCRateLimiter ---------------------------
(* Two clients, a window of two clock ticks, two requests per window and a   *)
(* clock that runs for six ticks: three windows, so that entries are trimmed,*)
(* removed by cleanup and created again.                                     *)
EXTENDS RateLimiter
=============================================================================
