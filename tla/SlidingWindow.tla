--------------------------- MODULE SlidingWindow ---------------------------
(* What the rate limit of the HTTP transport promises: a request is admitted *)
(* exactly when its client had fewer than MaxRequests admissions during the  *)
(* last WindowMs milliseconds. Kept as a history of admissions, without the  *)
(* data structure that implements it.                                        *)
EXTENDS Integers, Sequences, FiniteSets

CONSTANTS Clients, WindowMs, MaxRequests

VARIABLES
    now,      \* Date.now()
    history,  \* for each client the times of its admissions, oldest first
    last      \* the latest decision, as [client, admitted]

svars == <<now, history, last>>

Recent(c) == {i \in 1..Len(history[c]) : history[c][i] >= now - WindowMs}

SInit ==
    /\ now = 0
    /\ history = [c \in Clients |-> << >>]
    /\ last = << >>

AdmitRecent(c) ==
    /\ Cardinality(Recent(c)) < MaxRequests
    /\ history' = [history EXCEPT ![c] = Append(@, now)]
    /\ last' = [client |-> c, admitted |-> TRUE]
    /\ UNCHANGED now

RefuseRecent(c) ==
    /\ Cardinality(Recent(c)) >= MaxRequests
    /\ last' = [client |-> c, admitted |-> FALSE]
    /\ UNCHANGED <<now, history>>

Advance == now' = now + 1 /\ UNCHANGED <<history, last>>

SNext ==
    \/ \E c \in Clients : AdmitRecent(c) \/ RefuseRecent(c)
    \/ Advance

SSpec == SInit /\ [][SNext]_svars
=============================================================================
