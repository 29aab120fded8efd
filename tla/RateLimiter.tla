---------------------------- MODULE RateLimiter ----------------------------
(* The RateLimiter class of server/transport.ts: a map from client address   *)
(* to the timestamps of its recent admissions, trimmed when the client calls *)
(* and by a periodic cleanup. history and last are not in the code: they     *)
(* record what callers were told.                                            *)
EXTENDS Integers, Sequences, FiniteSets

CONSTANTS
    Clients,      \* client addresses
    WindowMs,     \* 60_000 in startHttpTransport
    MaxRequests,  \* rateLimitPerMinute, 60 unless configured
    MaxTime       \* bound of the model: the clock stops there

ASSUME WindowAssumption == WindowMs \in Nat
ASSUME MaxRequestsAssumption == MaxRequests \in Nat
ASSUME MaxTimeAssumption == MaxTime \in Nat

VARIABLES now, windows, history, last

vars == <<now, windows, history, last>>

Window(c) == IF c \in DOMAIN windows THEN windows[c] ELSE << >>

\* The position at which dropping heads older than the cutoff stops.
FirstKept(ts, cutoff) ==
    CHOOSE i \in 1..(Len(ts) + 1) :
        /\ \A j \in 1..(i - 1) : ts[j] < cutoff
        /\ i <= Len(ts) => ts[i] >= cutoff

\* Mutated form: the whole list is dropped with its head.
DropWithHead(ts, cutoff) ==
    IF ts # << >> /\ ts[1] < cutoff THEN << >> ELSE ts

DropOld(ts, cutoff) == SubSeq(ts, FirstKept(ts, cutoff), Len(ts))

Trimmed(c) == DropOld(Window(c), now - WindowMs)

Store(c, ts) == [d \in DOMAIN windows \cup {c} |-> IF d = c THEN ts ELSE windows[d]]

Init ==
    /\ now = 0
    /\ windows = [c \in {} |-> << >>]
    /\ history = [c \in Clients |-> << >>]
    /\ last = << >>

\* Mutated form: one request too many.
AtMostFull(ts) == Len(ts) <= MaxRequests

HasRoom(ts) == Len(ts) < MaxRequests

Admit(c) ==
    /\ HasRoom(Trimmed(c))
    /\ windows' = Store(c, Append(Trimmed(c), now))
    /\ history' = [history EXCEPT ![c] = Append(@, now)]
    /\ last' = [client |-> c, admitted |-> TRUE]
    /\ UNCHANGED now

Refuse(c) ==
    /\ ~HasRoom(Trimmed(c))
    /\ windows' = Store(c, Trimmed(c))
    /\ last' = [client |-> c, admitted |-> FALSE]
    /\ UNCHANGED <<now, history>>

Allow(c) == Admit(c) \/ Refuse(c)

\* Mutated form: cleanup forgets every client whose list it had to trim.
Untrimmed == {c \in DOMAIN windows : Trimmed(c) = windows[c]}

Remaining == {c \in DOMAIN windows : Trimmed(c) # << >>}

Cleanup ==
    /\ windows' = [c \in Remaining |-> Trimmed(c)]
    /\ UNCHANGED <<now, history, last>>

Tick ==
    /\ now < MaxTime
    /\ now' = now + 1
    /\ UNCHANGED <<windows, history, last>>

Next ==
    \/ \E c \in Clients : Allow(c)
    \/ Cleanup
    \/ Tick

Spec == Init /\ [][Next]_vars

-----------------------------------------------------------------------------
TypeOK ==
    /\ now \in Nat
    /\ DOMAIN windows \subseteq Clients
    /\ \A c \in DOMAIN windows : windows[c] \in Seq(Nat)
    /\ history \in [Clients -> Seq(Nat)]

\* No stretch of WindowMs milliseconds, wherever it starts, holds more than
\* MaxRequests admissions of one client.
SlidingBound ==
    \A c \in Clients : \A i, j \in 1..Len(history[c]) :
        j - i >= MaxRequests => history[c][j] - history[c][i] > WindowMs

\* A client's entry never grows past the limit.
EntriesBounded == \A c \in DOMAIN windows : Len(windows[c]) <= MaxRequests

\* The admissions that the map no longer holds.
Dropped(c) == Len(history[c]) - Len(Window(c))

\* A client's list is the end of its history, and what was dropped is older
\* than the window.
SuffixInv ==
    \A c \in Clients :
        /\ Dropped(c) >= 0
        /\ \A i \in 1..Len(Window(c)) : Window(c)[i] = history[c][Dropped(c) + i]
        /\ \A i \in 1..Dropped(c) : history[c][i] < now - WindowMs

HistoryInv ==
    \A c \in Clients :
        /\ \A i \in 1..Len(history[c]) : history[c][i] <= now
        /\ \A i, j \in 1..Len(history[c]) :
              i <= j => history[c][i] <= history[c][j]

Inv ==
    /\ TypeOK
    /\ SuffixInv
    /\ HistoryInv
    /\ EntriesBounded
    /\ SlidingBound

\* The map, its lazy trimming and its cleanup decide every request as the
\* history alone would.
Abstract == INSTANCE SlidingWindow
ImplementsSlidingWindow == Abstract!SSpec
=============================================================================
