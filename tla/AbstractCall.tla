---------------------------- MODULE AbstractCall ----------------------------
(* What one host call means to the Unraid server, whatever its timers do:    *)
(* it sends its request once, and once more only if the server refused it.   *)
EXTENDS Naturals

VARIABLE call  \* [phase, sent, refused]

NewCall == [phase |-> "idle", sent |-> 0, refused |-> 0]

Sent(k) == [phase |-> "open", sent |-> k.sent + 1, refused |-> k.refused]

Settled(k) == [k EXCEPT !.phase = "settled"]

Refused(k) == [k EXCEPT !.refused = @ + 1]

\* Mutated form: whatever failed is sent once more.
RepeatsFailures(k) ==
    CASE k.phase = "open"    -> {Settled(k), Settled(Refused(k))} \cup
                                (IF k.sent < 2 THEN {[k EXCEPT !.phase = "waiting"]} ELSE {})
      [] k.phase = "waiting" -> {Sent(k)}
      [] OTHER               -> {}

\* Where a call that was made can go next: an answer, a failure or a final
\* refusal settles it; the first refusal may make it wait and repeat.
Successors(k) ==
    CASE k.phase = "open"    -> {Settled(k), Settled(Refused(k))} \cup
                                (IF k.sent < 2 THEN {[Refused(k) EXCEPT !.phase = "waiting"]} ELSE {})
      [] k.phase = "waiting" -> {Sent(k)}
      [] OTHER               -> {}

CallInit == call = NewCall

CallNext ==
    \/ call.phase = "idle" /\ call' = Sent(call)
    \/ call' \in Successors(call)

CallSpec == CallInit /\ [][CallNext]_call
=============================================================================
