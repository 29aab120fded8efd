----------------------------- MODULE HttpClient -----------------------------
(* One host call: GraphqlClient.execute (client/graphql.ts) or a raw         *)
(* HttpClient.request (client/http.ts) to the Unraid server, with the        *)
(* AbortSignal of each attempt, the 429 retry and the reading of the body.   *)
(* It is made by a script whose execute budget runs at the same time.        *)
(*                                                                           *)
(* Time is kept in timers that count down to 0 and stay there. A timer at 0  *)
(* may fire now or later: the thread may be busy running script code.        *)
EXTENDS Integers

CONSTANTS
    TimeoutMs,    \* config.timeoutMs, DEFAULT_TIMEOUT_MS unless given
    ExecuteMs,    \* limits.timeoutMs of the execute that makes the call
    TimerMax,     \* the longest delay setTimeout keeps, 2^31 - 1 in Node
    RetryAfters   \* Retry-After headers: [form, ms], ms what the text stands for

ASSUME TimeoutAssumption == TimeoutMs \in Nat \ {0}
ASSUME ExecuteAssumption == ExecuteMs \in Nat
ASSUME TimerMaxAssumption == TimerMax \in Nat \ {0}
ASSUME RetryAfterAssumption ==
    RetryAfters \subseteq [form : {"seconds", "date", "other"}, ms : Int]

VARIABLES
    api,      \* "graphql" or "raw"
    phase,    \* what the promise chain awaits: "new", "headers", "sleep",
              \* "body", "done"
    attempt,
    timer,    \* of the attempt's AbortSignal, or of sleep
    budget,   \* of the calling execute: 0 when its deadline has passed
    asked,    \* the parsed Retry-After that is being honoured
    owed,     \* what is left of it in true time
    sent,     \* requests handed to fetch
    refusals, \* 429 answers received
    status,   \* of the response whose body is read, 0 before
    body,     \* what reading the body gave
    outcome   \* how the call settled

vars == <<api, phase, attempt, timer, budget, asked, owed, sent, refusals,
          status, body, outcome>>

\* Bodies a reader can get: no JSON and no text ("undefined"), a text, or a
\* JSON document with data, with errors, with both, or with neither.
\* "aborted" is "undefined" to the code; it marks the body its signal cut.
Bodies == {"undefined", "text", "data", "errors", "both", "neither"}

Init ==
    /\ api \in {"graphql", "raw"}
    /\ phase = "new"
    /\ attempt = 0
    /\ timer = 0
    /\ budget = ExecuteMs
    /\ asked = 0
    /\ owed = 0
    /\ sent = 0
    /\ refusals = 0
    /\ status = 0
    /\ body = "none"
    /\ outcome = "none"

Settle(o) ==
    /\ phase' = "done"
    /\ outcome' = o

-----------------------------------------------------------------------------
\* send, up to the await of fetch

SendAttempt ==
    /\ phase' = "headers"
    /\ sent' = sent + 1
    /\ timer' = TimeoutMs
    /\ UNCHANGED <<api, budget, asked, owed, refusals, status, body, outcome>>

Request ==
    /\ phase = "new"
    /\ SendAttempt
    /\ UNCHANGED attempt

\* sleep has resolved: the same request once more.
Retry ==
    /\ phase = "sleep"
    /\ timer = 0
    /\ SendAttempt
    /\ attempt' = attempt + 1

-----------------------------------------------------------------------------
\* fetch settles

NetworkFails ==
    /\ phase = "headers"
    /\ Settle("network")
    /\ UNCHANGED <<api, attempt, timer, budget, asked, owed, sent, refusals,
                   status, body>>

\* Mutated form: fetch gets no AbortSignal.
NeverAborts == FALSE

\* Mutated form: the limit, given in seconds, is taken for milliseconds.
AbortsAtOnce == TRUE

\* AbortSignal.timeout has fired.
Aborted == timer = 0

AttemptTimesOut ==
    /\ phase = "headers"
    /\ Aborted
    /\ Settle("timeout")
    /\ UNCHANGED <<api, attempt, timer, budget, asked, owed, sent, refusals,
                   status, body>>

\* Mutated forms: no limit on retries; whatever failed is tried again.
RetryForEver(s) == s = 429
RetryFailures(s) == s >= 400 /\ attempt < 1

MayRetry(s) == s = 429 /\ attempt < 1

\* parseRetryAfter: a number of seconds, which may be negative; a date, in the
\* past perhaps; a text that is neither, or no header.
Usable(h) == h.form # "other"
ParseRetryAfter(h) == IF h.form = "date" /\ h.ms < 0 THEN 0 ELSE h.ms

\* Mutated form: the header's seconds are passed to setTimeout as they are,
\* which makes every delay the shortest.
SecondsAsMs(ms) == 1

\* setTimeout: a delay below 1 or above TimerMax becomes 1.
SleepMs(ms) == IF ms >= 1 /\ ms <= TimerMax THEN ms ELSE 1

\* Negative seconds count as none owed.
RetryLater(s, h) ==
    /\ phase = "headers"
    /\ MayRetry(s)
    /\ Usable(h)
    /\ phase' = "sleep"
    /\ timer' = SleepMs(ParseRetryAfter(h))
    /\ asked' = ParseRetryAfter(h)
    /\ owed' = IF ParseRetryAfter(h) > 0 THEN ParseRetryAfter(h) ELSE 0
    /\ refusals' = refusals + (IF s = 429 THEN 1 ELSE 0)
    /\ UNCHANGED <<api, attempt, budget, sent, status, body, outcome>>

\* Any other headers; a 429 without a usable Retry-After is one of them.
TakeHeaders(s, h) ==
    /\ phase = "headers"
    /\ ~(MayRetry(s) /\ Usable(h))
    /\ phase' = "body"
    /\ status' = s
    /\ refusals' = refusals + (IF s = 429 THEN 1 ELSE 0)
    /\ UNCHANGED <<api, attempt, timer, budget, asked, owed, sent, body, outcome>>

-----------------------------------------------------------------------------
\* The body, then the verdict of send and of GraphqlClient.execute. No await
\* separates the end of the read from the verdict.

Ok(s) == s \in 200..299

\* Mutated form: a body that could not be read passes for an empty answer.
TolerantVerdict(s, b) ==
    IF ~Ok(s) THEN "http_error"
    ELSE IF api = "raw" THEN "response"
    ELSE IF b \in {"errors", "both"} THEN "graphql_error" ELSE "data"

Verdict(s, b) ==
    IF ~Ok(s) THEN "http_error"
    ELSE IF api = "raw" THEN "response"
    ELSE IF b = "data" THEN "data" ELSE "graphql_error"

\* The read ends, or fails: broken connection, bytes that are not JSON.
ReadBody(b) ==
    /\ phase = "body"
    /\ body' = b
    /\ Settle(Verdict(status, b))
    /\ UNCHANGED <<api, attempt, timer, budget, asked, owed, sent, refusals, status>>

\* The signal of the attempt also covers the read, whose failure is caught.
ReadAborted ==
    /\ Aborted
    /\ ReadBody("aborted")

-----------------------------------------------------------------------------
CountDown(n) == IF n > 0 THEN n - 1 ELSE 0

Tick ==
    /\ timer' = CountDown(timer)
    /\ budget' = CountDown(budget)
    /\ owed' = CountDown(owed)
    /\ UNCHANGED <<api, phase, attempt, asked, sent, refusals, status, body, outcome>>

HttpStatuses == {200, 204, 401, 429, 500}

\* A 204 has no JSON and its text is not read.
BodiesOf(s) == IF s = 204 THEN {"undefined"} ELSE Bodies

Server ==
    \/ NetworkFails
    \/ \E s \in HttpStatuses, h \in RetryAfters : RetryLater(s, h) \/ TakeHeaders(s, h)
    \/ \E b \in BodiesOf(status) : ReadBody(b)

Client ==
    \/ Request
    \/ Retry
    \/ AttemptTimesOut
    \/ ReadAborted

Next == Server \/ Client \/ Tick

Spec == Init /\ [][Next]_vars

\* Timers run and the client acts when they fire. Nothing makes a server or
\* the network answer.
Fairness == WF_vars(Tick) /\ WF_vars(Client)

FairSpec == Spec /\ Fairness

-----------------------------------------------------------------------------
TypeOK ==
    /\ api \in {"graphql", "raw"}
    /\ phase \in {"new", "headers", "sleep", "body", "done"}
    /\ attempt \in 0..1
    /\ timer \in Nat
    /\ budget \in 0..ExecuteMs
    /\ asked \in Int
    /\ owed \in Nat
    /\ sent \in 0..2
    /\ refusals \in 0..2
    /\ status \in HttpStatuses \cup {0}
    /\ body \in Bodies \cup {"none", "aborted"}
    /\ outcome \in {"none", "network", "timeout", "http_error", "response",
                    "graphql_error", "data"}

\* A request, which may be a mutation, is sent a second time only if the
\* server refused the first with 429, and never a third time (MAX_RETRIES_429).
RepeatedOnlyIfRefused == sent <= 2 /\ (sent = 2 => refusals >= 1)

\* A retry waits as long as the server asked, unless the delay is longer than
\* setTimeout can keep (then the code retries after 1 ms).
RetryHonoursServer == [][sent' > sent => owed = 0 \/ asked > TimerMax]_vars

\* GraphqlClient.execute hands the script data only from a 2xx answer whose
\* body was read to its end and reported no errors: neither a truncated body
\* nor partial data counts.
DataIsWhole == outcome = "data" => status = 200 /\ body = "data"

\* The client's own limit cuts a call short, before the headers or while the
\* body is read, only when the execute that made it is past its deadline.
OwnLimitAfterDeadline ==
    outcome = "timeout" \/ body = "aborted" => budget = 0

\* config.ts:46 says of the execute deadline: "Useful for legitimately
\* long-running operations like a slow-booting VM cycle". Raised above the
\* HTTP client's limit it would let one call run until that deadline.
LongCallsMayUseTheDeadline == outcome = "timeout" => budget = 0

\* Every call settles although the server need never answer: the signal of an
\* attempt ends the wait for headers and the read of the body.
CallSettles == <>(phase = "done")

-----------------------------------------------------------------------------
\* The inductive invariant.

\* While an attempt runs, its signal outlives the budget of the caller.
TimerInv ==
    phase \in {"headers", "body"} => budget <= timer \/ budget = 0

AttemptInv ==
    /\ phase = "new" => attempt = 0 /\ sent = 0
    /\ phase # "done" => outcome = "none"
    /\ phase # "new" => sent = attempt + 1
    /\ phase = "sleep" => attempt = 0
    /\ refusals >= attempt + (IF phase = "sleep" THEN 1 ELSE 0)
    /\ phase = "body" /\ status = 429 => refusals >= 1
    /\ refusals <= attempt + (IF phase \in {"sleep", "body", "done"} THEN 1 ELSE 0)

\* The sleep lasts at least as long as what is still owed.
OwedInv ==
    /\ phase # "sleep" => owed = 0 \/ asked > TimerMax
    /\ phase = "sleep" => owed <= timer \/ asked > TimerMax

Inv ==
    /\ TypeOK
    /\ AttemptInv
    /\ OwedInv
    /\ DataIsWhole

-----------------------------------------------------------------------------
\* Refinement: what the server sees of a call. A refusal whose body is being
\* read counts when the call settles.
Seen ==
    [phase   |-> CASE phase = "new"   -> "idle"
                   [] phase = "sleep" -> "waiting"
                   [] phase = "done"  -> "settled"
                   [] OTHER           -> "open",
     sent    |-> sent,
     refused |-> IF phase = "body" /\ status = 429 THEN refusals - 1 ELSE refusals]

Abstract == INSTANCE AbstractCall WITH call <- Seen

\* Whatever timers, limits and bodies do, a call sends its request once, and
\* again only after the server refused it.
ImplementsCall == Abstract!CallSpec
=============================================================================
