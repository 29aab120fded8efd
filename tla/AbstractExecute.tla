-------------------------- MODULE AbstractExecute --------------------------
(* What one `execute` tool call promises its caller, whatever the sandboxed *)
(* script does: it issues at most MaxCalls requests, hands the script each   *)
(* answer at most once and only while it runs, and ends with one verdict     *)
(* that the state of its requests and of the clock justifies.                *)
EXTENDS Naturals, FiniteSets

CONSTANTS
    Calls,    \* identities of the calls a script may make
    MaxCalls  \* limits.maxCallsPerExecute

VARIABLES
    verdict,    \* "none" while the script runs, then the kind of ExecuteResult
    issued,     \* calls whose request left for the Unraid server
    delivered,  \* issued calls whose answer the script has been handed
    late        \* the wall-clock budget is spent

avars == <<verdict, issued, delivered, late>>

Verdicts == {"value", "error", "deadlock", "timeout"}

AInit ==
    /\ verdict = "none"
    /\ issued = {}
    /\ delivered = {}
    /\ late = FALSE

Issue(c) ==
    /\ verdict = "none"
    /\ c \notin issued
    /\ Cardinality(issued) < MaxCalls
    /\ issued' = issued \cup {c}
    /\ UNCHANGED <<verdict, delivered, late>>

Deliver(c) ==
    /\ verdict = "none"
    /\ c \in issued \ delivered
    /\ delivered' = delivered \cup {c}
    /\ UNCHANGED <<verdict, issued, late>>

Finish(v) ==
    /\ verdict = "none"
    /\ v = "deadlock" => delivered = issued
    /\ v = "timeout" => late
    /\ verdict' = v
    /\ UNCHANGED <<issued, delivered, late>>

Expire ==
    /\ ~late
    /\ late' = TRUE
    /\ UNCHANGED <<verdict, issued, delivered>>

ANext ==
    \/ \E c \in Calls : Issue(c) \/ Deliver(c)
    \/ \E v \in Verdicts : Finish(v)
    \/ Expire

ASpec == AInit /\ [][ANext]_avars
=============================================================================
