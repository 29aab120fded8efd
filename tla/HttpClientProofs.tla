-------------------------- MODULE HttpClientProofs --------------------------
(* What holds of one host call for every timeout, every execute budget and   *)
(* every Retry-After.                                                        *)
EXTENDS HttpClient, TLAPS

\* Every verdict is an outcome, and "data" is the verdict of whole data only.
LEMMA VerdictSpec ==
    ASSUME NEW s \in HttpStatuses \cup {0}, NEW b \in BodiesOf(s) \cup {"aborted"}
    PROVE  /\ Verdict(s, b) \in {"http_error", "response", "graphql_error", "data"}
           /\ Verdict(s, b) = "data" => s = 200 /\ b = "data"
<1>1. s = 204 => b # "data"
  BY DEF BodiesOf
<1>2. Ok(s) => s \in {200, 204}
  BY DEF Ok, HttpStatuses
<1>3. QED
  BY <1>1, <1>2 DEF Verdict

\* Timers that count down together keep their order.
LEMMA CountDownSpec ==
    ASSUME NEW m \in Nat, NEW n \in Nat
    PROVE  /\ CountDown(m) \in Nat
           /\ CountDown(m) <= m
           /\ m <= n => CountDown(m) <= CountDown(n)
           /\ m = 0 => CountDown(m) = 0
  BY DEF CountDown

\* A verdict on a body leaves a state of the invariant.
LEMMA ReadBodyKeepsInv ==
    ASSUME Inv, NEW b \in BodiesOf(status) \cup {"aborted"}, ReadBody(b)
    PROVE  Inv'
<1> USE DEF Inv
<1>1. status \in HttpStatuses \cup {0} /\ b \in Bodies \cup {"aborted"}
  BY DEF TypeOK, BodiesOf, Bodies
<1>2. outcome' = Verdict(status, b) /\ body' = b /\ phase' = "done"
  BY DEF ReadBody, Settle
<1>3. /\ outcome' \in {"http_error", "response", "graphql_error", "data"}
      /\ outcome' = "data" => status = 200 /\ b = "data"
  BY <1>1, <1>2, VerdictSpec
<1>4. TypeOK'
  BY <1>1, <1>2, <1>3 DEF ReadBody, TypeOK
<1>5. AttemptInv' /\ OwedInv' /\ DataIsWhole'
  BY <1>2, <1>3 DEF ReadBody, TypeOK, AttemptInv, OwedInv, DataIsWhole
<1>6. QED
  BY <1>4, <1>5

\* The invariant of a call holds in every reachable state.
THEOREM Invariance == Spec => []Inv
<1>1. Init => Inv
  BY ExecuteAssumption DEF Init, Inv, TypeOK, AttemptInv, OwedInv, DataIsWhole,
     ExecuteAssumption, Bodies, HttpStatuses
<1>2. Inv /\ [Next]_vars => Inv'
  <2> SUFFICES ASSUME Inv, [Next]_vars PROVE Inv'
    OBVIOUS
  <2> USE DEF Inv
  <2>1. CASE Request
    BY <2>1, TimeoutAssumption DEF Request, SendAttempt, TypeOK, AttemptInv,
       OwedInv, DataIsWhole, TimeoutAssumption
  <2>2. CASE Retry
    BY <2>2, TimeoutAssumption DEF Retry, SendAttempt, TypeOK, AttemptInv,
       OwedInv, DataIsWhole, TimeoutAssumption
  <2>3. CASE NetworkFails \/ AttemptTimesOut
    BY <2>3 DEF NetworkFails, AttemptTimesOut, Settle, TypeOK, AttemptInv,
       OwedInv, DataIsWhole
  <2>4. ASSUME NEW s \in HttpStatuses, NEW h \in RetryAfters, RetryLater(s, h)
        PROVE  Inv'
    <3> DEFINE ms == ParseRetryAfter(h)
    <3>1. ms \in Int /\ SleepMs(ms) \in Nat
      BY RetryAfterAssumption DEF RetryAfterAssumption, ParseRetryAfter, SleepMs
    <3> HIDE DEF ms
    <3>0. /\ timer' = SleepMs(ms) /\ asked' = ms
          /\ owed' = IF ms > 0 THEN ms ELSE 0
      BY <2>4 DEF RetryLater, ms
    <3>2. s = 429 /\ attempt = 0
      BY <2>4 DEF RetryLater, MayRetry, TypeOK
    <3>3. TypeOK' /\ AttemptInv'
      BY <2>4, <3>0, <3>1, <3>2 DEF RetryLater, TypeOK, AttemptInv
    <3>4. OwedInv'
      BY <2>4, <3>0, <3>1, TimerMaxAssumption
         DEF RetryLater, OwedInv, SleepMs, TimerMaxAssumption
    <3>5. DataIsWhole'
      BY <2>4 DEF RetryLater, DataIsWhole
    <3>6. QED
      BY <3>3, <3>4, <3>5
  <2>5. ASSUME NEW s \in HttpStatuses, NEW h \in RetryAfters, TakeHeaders(s, h)
        PROVE  Inv'
    BY <2>5 DEF TakeHeaders, TypeOK, AttemptInv, OwedInv, DataIsWhole
  <2>6. ASSUME NEW b \in BodiesOf(status) \cup {"aborted"}, ReadBody(b)
        PROVE  Inv'
    BY <2>6, ReadBodyKeepsInv
  <2>7. CASE Tick
    <3>1. timer \in Nat /\ budget \in Nat /\ owed \in Nat
      BY ExecuteAssumption DEF TypeOK, ExecuteAssumption
    <3>2. /\ timer' \in Nat /\ owed' \in Nat /\ budget' \in 0..ExecuteMs
          /\ owed <= timer => owed' <= timer'
          /\ owed = 0 => owed' = 0
      BY <2>7, <3>1, CountDownSpec, ExecuteAssumption
         DEF Tick, TypeOK, ExecuteAssumption
    <3>3. QED
      BY <2>7, <3>2 DEF Tick, TypeOK, AttemptInv, OwedInv, DataIsWhole
  <2>8. CASE UNCHANGED vars
    BY <2>8 DEF vars, TypeOK, AttemptInv, OwedInv, DataIsWhole
  <2>9. QED
    BY <2>1, <2>2, <2>3, <2>4, <2>5, <2>6, <2>7, <2>8
       DEF Next, Server, Client, ReadAborted
<1>3. QED
  BY <1>1, <1>2, PTL DEF Spec

\* A request goes out twice only after a refusal, and never three times.
THEOREM NeverRepeated == Spec => []RepeatedOnlyIfRefused
<1>1. Inv => RepeatedOnlyIfRefused
  BY DEF Inv, TypeOK, AttemptInv, RepeatedOnlyIfRefused
<1>2. QED
  BY <1>1, Invariance, PTL

\* GraphqlClient.execute never passes on truncated or partial data.
THEOREM OnlyWholeData == Spec => []DataIsWhole
<1>1. Inv => DataIsWhole
  BY DEF Inv
<1>2. QED
  BY <1>1, Invariance, PTL

\* The retry waits out a Retry-After that setTimeout can keep.
THEOREM RetryWaits == Spec => RetryHonoursServer
<1>1. Inv /\ [Next]_vars => [sent' > sent => owed = 0 \/ asked > TimerMax]_vars
  <2> SUFFICES ASSUME Inv, Next, sent' > sent
               PROVE  owed = 0 \/ asked > TimerMax
    OBVIOUS
  <2>1. sent \in Nat /\ owed \in Nat
    BY DEF Inv, TypeOK
  <2>2. CASE Request
    BY <2>2 DEF Request, Inv, OwedInv
  <2>3. CASE Retry
    BY <2>1, <2>3 DEF Retry, Inv, OwedInv
  <2>4. CASE ~Request /\ ~Retry
    <3>1. sent' = sent
      BY <2>4 DEF Next, Server, Client, NetworkFails, RetryLater, TakeHeaders,
         ReadBody, AttemptTimesOut, ReadAborted, Tick
    <3>2. QED
      BY <2>1, <3>1
  <2>5. QED
    BY <2>2, <2>3, <2>4
<1>2. QED
  BY <1>1, Invariance, PTL DEF Spec, RetryHonoursServer

\* With a per-request limit of at least the execute budget, the client's own
\* limit is never what a waiting script sees.
THEOREM OwnLimitIsLast ==
    ASSUME ExecuteMs <= TimeoutMs
    PROVE  Spec => []OwnLimitAfterDeadline
<1> DEFINE Late == TimerInv /\ OwnLimitAfterDeadline
<1>1. Init => Late
  BY DEF Init, TimerInv, OwnLimitAfterDeadline
<1>2. Inv /\ Late /\ [Next]_vars => Late'
  <2> SUFFICES ASSUME Inv, Late, [Next]_vars PROVE Late'
    OBVIOUS
  <2> USE DEF TimerInv, OwnLimitAfterDeadline
  <2>1. budget \in Nat /\ timer \in Nat /\ budget <= TimeoutMs
    BY ExecuteAssumption, TimeoutAssumption
       DEF ExecuteAssumption, TimeoutAssumption, Inv, TypeOK
  <2>2. CASE Request \/ Retry
    BY <2>1, <2>2 DEF Request, Retry, SendAttempt, Inv, AttemptInv
  <2>3. CASE NetworkFails \/ AttemptTimesOut
    BY <2>1, <2>3 DEF NetworkFails, AttemptTimesOut, Settle, Aborted
  <2>4. ASSUME NEW s \in HttpStatuses, NEW h \in RetryAfters,
               RetryLater(s, h) \/ TakeHeaders(s, h)
        PROVE  Late'
    BY <2>1, <2>4 DEF RetryLater, TakeHeaders
  <2>5. ASSUME NEW b \in BodiesOf(status), ReadBody(b) PROVE Late'
    <3>1. status \in HttpStatuses \cup {0} /\ b # "aborted"
      BY DEF Inv, TypeOK, BodiesOf, Bodies
    <3>2. outcome' # "timeout"
      BY <2>5, <3>1, VerdictSpec DEF ReadBody, Settle
    <3>3. QED
      BY <2>5, <3>1, <3>2 DEF ReadBody, Settle
  <2>6. CASE ReadAborted
    BY <2>1, <2>6 DEF ReadAborted, ReadBody, Settle, Aborted
  <2>7. CASE Tick
    <3>1. /\ budget <= timer => budget' <= timer'
          /\ budget = 0 => budget' = 0
      BY <2>1, <2>7, CountDownSpec DEF Tick
    <3>2. QED
      BY <2>7, <3>1 DEF Tick
  <2>8. CASE UNCHANGED vars
    BY <2>8 DEF vars
  <2>9. QED
    BY <2>2, <2>3, <2>4, <2>5, <2>6, <2>7, <2>8 DEF Next, Server, Client
<1>3. QED
  BY <1>1, <1>2, Invariance, PTL DEF Spec

\* The steps of an AbstractCall, on records.
LEMMA CallSteps ==
    ASSUME NEW p, NEW n \in Nat, NEW r \in Nat,
           Seen = [phase |-> p, sent |-> n, refused |-> r]
    PROVE  /\ p \in {"idle", "waiting"}
              /\ Seen' = [phase |-> "open", sent |-> n + 1, refused |-> r]
              => Abstract!CallNext
           /\ p = "open"
              /\ Seen' \in [phase : {"settled"}, sent : {n}, refused : {r, r + 1}]
              => Abstract!CallNext
           /\ p = "open" /\ n < 2
              /\ Seen' = [phase |-> "waiting", sent |-> n, refused |-> r + 1]
              => Abstract!CallNext
<1> DEFINE k == [phase |-> p, sent |-> n, refused |-> r]
      kr == [phase |-> p, sent |-> n, refused |-> r + 1]
<1>1. /\ Abstract!Sent(k) = [phase |-> "open", sent |-> n + 1, refused |-> r]
      /\ Abstract!Settled(k) = [phase |-> "settled", sent |-> n, refused |-> r]
      /\ Abstract!Settled(Abstract!Refused(k))
           = [phase |-> "settled", sent |-> n, refused |-> r + 1]
      /\ [Abstract!Refused(k) EXCEPT !.phase = "waiting"]
           = [phase |-> "waiting", sent |-> n, refused |-> r + 1]
  <2>1. Abstract!Sent(k) = [phase |-> "open", sent |-> n + 1, refused |-> r]
    BY DEF Abstract!Sent
  <2>2. Abstract!Settled(k) = [phase |-> "settled", sent |-> n, refused |-> r]
    BY DEF Abstract!Settled
  <2>3. Abstract!Refused(k) = kr
    BY DEF Abstract!Refused
  <2>4. Abstract!Settled(kr) = [phase |-> "settled", sent |-> n, refused |-> r + 1]
    BY DEF Abstract!Settled
  <2>5. [kr EXCEPT !.phase = "waiting"]
          = [phase |-> "waiting", sent |-> n, refused |-> r + 1]
    OBVIOUS
  <2>6. QED
    BY <2>1, <2>2, <2>3, <2>4, <2>5
<1>2. Seen = k /\ k.phase = p /\ k.sent = n
  OBVIOUS
<1>3. ASSUME NEW q \in [phase : {"settled"}, sent : {n}, refused : {r, r + 1}]
      PROVE  \/ q = [phase |-> "settled", sent |-> n, refused |-> r]
             \/ q = [phase |-> "settled", sent |-> n, refused |-> r + 1]
  OBVIOUS
<1> HIDE DEF k
<1>4. /\ p = "waiting" => Abstract!Successors(k) = {Abstract!Sent(k)}
      /\ p = "open" => {Abstract!Settled(k), Abstract!Settled(Abstract!Refused(k))}
                         \subseteq Abstract!Successors(k)
      /\ p = "open" /\ n < 2 => [Abstract!Refused(k) EXCEPT !.phase = "waiting"]
                                  \in Abstract!Successors(k)
  BY <1>2 DEF Abstract!Successors
<1>5. QED
  BY <1>1, <1>2, <1>3, <1>4 DEF Abstract!CallNext

\* Whatever timers, limits and bodies do, the server sees an AbstractCall.
THEOREM Refinement == Spec => ImplementsCall
<1>1. Init => Abstract!CallInit
  BY DEF Init, Abstract!CallInit, Abstract!NewCall, Seen
<1>2. Inv /\ [Next]_vars => [Abstract!CallNext]_Seen
  <2> SUFFICES ASSUME Inv, Next PROVE Abstract!CallNext \/ UNCHANGED Seen
    BY DEF vars, Seen
  <2> DEFINE r == IF phase = "body" /\ status = 429 THEN refusals - 1 ELSE refusals
  <2> USE DEF Inv, Seen
  <2>1. /\ sent \in Nat /\ refusals \in Nat
        /\ phase \in {"headers", "body"} => sent < 2 <=> attempt = 0
    BY DEF TypeOK, AttemptInv
  <2>2. phase = "body" /\ status = 429 => refusals >= 1
    BY DEF TypeOK, AttemptInv
  <2>3. CASE Request
    BY <2>1, <2>3, CallSteps DEF Request, SendAttempt
  <2>4. CASE Retry
    BY <2>1, <2>4, CallSteps DEF Retry, SendAttempt
  <2>5. CASE NetworkFails \/ AttemptTimesOut
    <3>1. /\ Seen = [phase |-> "open", sent |-> sent, refused |-> refusals]
          /\ Seen' = [phase |-> "settled", sent |-> sent, refused |-> refusals]
      BY <2>5 DEF NetworkFails, AttemptTimesOut, Settle
    <3>2. QED
      BY <2>1, <3>1, CallSteps
  <2>6. ASSUME NEW s \in HttpStatuses, NEW h \in RetryAfters, RetryLater(s, h)
        PROVE  Abstract!CallNext
    <3>1. s = 429 /\ attempt = 0
      BY <2>6 DEF RetryLater, MayRetry, TypeOK
    <3>2. /\ Seen = [phase |-> "open", sent |-> sent, refused |-> refusals]
          /\ Seen' = [phase |-> "waiting", sent |-> sent, refused |-> refusals + 1]
          /\ sent < 2
      BY <2>1, <2>6, <3>1 DEF RetryLater
    <3>3. QED
      BY <2>1, <3>2, CallSteps
  <2>7. ASSUME NEW s \in HttpStatuses, NEW h \in RetryAfters, TakeHeaders(s, h)
        PROVE  UNCHANGED Seen
    BY <2>1, <2>7 DEF TakeHeaders
  <2>8. ASSUME NEW b, ReadBody(b) PROVE Abstract!CallNext
    <3>1. /\ Seen = [phase |-> "open", sent |-> sent, refused |-> r]
          /\ Seen' = [phase |-> "settled", sent |-> sent, refused |-> refusals]
      BY <2>8 DEF ReadBody, Settle
    <3>2. r \in Nat /\ (refusals = r \/ refusals = r + 1)
      BY <2>1, <2>2
    <3> HIDE DEF r, Seen
    <3>3. Seen' \in [phase : {"settled"}, sent : {sent}, refused : {r, r + 1}]
      BY <3>1, <3>2
    <3>4. QED
      BY <2>1, <3>1, <3>2, <3>3, CallSteps
  <2>9. CASE Tick
    BY <2>9 DEF Tick
  <2>10. QED
    BY <2>3, <2>4, <2>5, <2>6, <2>7, <2>8, <2>9
       DEF Next, Server, Client, ReadAborted
<1>3. QED
  BY <1>1, <1>2, Invariance, PTL DEF Spec, ImplementsCall, Abstract!CallSpec
=============================================================================
