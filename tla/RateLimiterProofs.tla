------------------------- MODULE RateLimiterProofs -------------------------
(* Proofs about RateLimiter for every set of clients, every window and every *)
(* limit: the sliding bound, and the refinement of SlidingWindow.            *)
EXTENDS RateLimiter, FiniteSetTheorems, WellFoundedInduction, TLAPS

\* Every nonempty set of naturals has a least element.
LEMMA LeastNat ==
    ASSUME NEW T \in SUBSET Nat, T # {}
    PROVE  \E x \in T : \A y \in T : x <= y
<1>1. \E x \in T : \A y \in T : <<y, x>> \notin OpToRel(<, Nat)
    BY NatLessThanWellFounded, WFMin, Zenon
<1>2. \A x, y \in Nat : <<y, x>> \notin OpToRel(<, Nat) => x <= y
    BY DEF OpToRel
<1> QED
    BY <1>1, <1>2

\* Dropping heads stops somewhere: at the first timestamp inside the window,
\* or past the end of the list.
LEMMA FirstKeptSpec ==
    ASSUME NEW ts \in Seq(Nat), NEW cutoff \in Int
    PROVE  /\ FirstKept(ts, cutoff) \in 1..(Len(ts) + 1)
           /\ \A j \in 1..(FirstKept(ts, cutoff) - 1) : ts[j] < cutoff
           /\ FirstKept(ts, cutoff) <= Len(ts) => ts[FirstKept(ts, cutoff)] >= cutoff
<1> DEFINE T == {i \in 1..(Len(ts) + 1) : i <= Len(ts) => ts[i] >= cutoff}
<1>1. Len(ts) \in Nat /\ \A i \in 1..Len(ts) : ts[i] \in Nat
    OBVIOUS
<1>2. T \in SUBSET Nat /\ Len(ts) + 1 \in T
    BY <1>1
<1>3. PICK x \in T : \A y \in T : x <= y
    BY <1>2, LeastNat
<1>4. /\ x \in 1..(Len(ts) + 1)
      /\ x <= Len(ts) => ts[x] >= cutoff
    OBVIOUS
<1>5. \A j \in 1..(x - 1) : ts[j] < cutoff
    <2> SUFFICES ASSUME NEW j \in 1..(x - 1), ~(ts[j] < cutoff) PROVE FALSE
        OBVIOUS
    <2>1. j \in 1..Len(ts) /\ ts[j] >= cutoff
        BY <1>1, <1>4
    <2>2. j \in T
        BY <1>1, <2>1
    <2> QED
        BY <1>1, <1>3, <1>4, <2>2
<1>6. \E i \in 1..(Len(ts) + 1) :
         /\ \A j \in 1..(i - 1) : ts[j] < cutoff
         /\ i <= Len(ts) => ts[i] >= cutoff
    BY <1>4, <1>5
<1> QED
    BY <1>6 DEF FirstKept

\* The trimmed list is the rest of the list after a prefix of old timestamps.
LEMMA DropOldSpec ==
    ASSUME NEW ts \in Seq(Nat), NEW cutoff \in Int
    PROVE  \E k \in 0..Len(ts) :
              /\ DropOld(ts, cutoff) \in Seq(Nat)
              /\ Len(DropOld(ts, cutoff)) = Len(ts) - k
              /\ \A i \in 1..(Len(ts) - k) : DropOld(ts, cutoff)[i] = ts[k + i]
              /\ \A i \in 1..k : ts[i] < cutoff
              /\ k < Len(ts) => ts[k + 1] >= cutoff
<1> DEFINE f == FirstKept(ts, cutoff)
<1>1. /\ f \in 1..(Len(ts) + 1)
      /\ \A j \in 1..(f - 1) : ts[j] < cutoff
      /\ f <= Len(ts) => ts[f] >= cutoff
    BY FirstKeptSpec
<1> HIDE DEF f
<1> DEFINE k == f - 1
<1>2. /\ k \in 0..Len(ts) /\ k + 1 = f
      /\ \A i \in 1..k : ts[i] < cutoff
      /\ k < Len(ts) => ts[k + 1] >= cutoff
    BY <1>1
<1>3. /\ SubSeq(ts, f, Len(ts)) \in Seq(Nat)
      /\ Len(SubSeq(ts, f, Len(ts))) = Len(ts) - k
      /\ \A i \in 1..(Len(ts) - k) : SubSeq(ts, f, Len(ts))[i] = ts[k + i]
    BY <1>1
<1>4. DropOld(ts, cutoff) = SubSeq(ts, f, Len(ts))
    BY DEF DropOld, f
<1> HIDE DEF k
<1> QED
    BY <1>2, <1>3, <1>4
\* A client without an entry has an empty list.
LEMMA WindowType ==
    ASSUME TypeOK, NEW c \in Clients
    PROVE  Window(c) \in Seq(Nat)
BY DEF TypeOK, Window

\* After trimming, a client's list is exactly the part of its history that
\* lies inside the window.
LEMMA TrimmedSpec ==
    ASSUME Inv, NEW c \in Clients
    PROVE  \E d \in Nat :
              /\ Trimmed(c) \in Seq(Nat)
              /\ Len(Trimmed(c)) = Len(history[c]) - d
              /\ Len(Trimmed(c)) <= Len(Window(c))
              /\ \A i \in 1..Len(Trimmed(c)) : Trimmed(c)[i] = history[c][d + i]
              /\ \A i \in 1..d : history[c][i] < now - WindowMs
              /\ \A i \in (d + 1)..Len(history[c]) : history[c][i] >= now - WindowMs
<1> DEFINE w == Window(c)
           h == history[c]
           t == Trimmed(c)
           cutoff == now - WindowMs
<1>1. w \in Seq(Nat) /\ h \in Seq(Nat) /\ cutoff \in Int
    BY WindowType, WindowAssumption DEF Inv, TypeOK, WindowAssumption
<1>2. PICK k \in 0..Len(w) :
         /\ t \in Seq(Nat)
         /\ Len(t) = Len(w) - k
         /\ \A i \in 1..(Len(w) - k) : t[i] = w[k + i]
         /\ \A i \in 1..k : w[i] < cutoff
         /\ k < Len(w) => w[k + 1] >= cutoff
    BY <1>1, DropOldSpec DEF Trimmed
<1>3. /\ Len(h) - Len(w) >= 0
      /\ \A i \in 1..Len(w) : w[i] = h[(Len(h) - Len(w)) + i]
      /\ \A i \in 1..(Len(h) - Len(w)) : h[i] < cutoff
    BY DEF Inv, SuffixInv, Dropped
<1>4. \A i, j \in 1..Len(h) : i <= j => h[i] <= h[j]
    BY DEF Inv, HistoryInv
<1> DEFINE e == Len(h) - Len(w)
           d == e + k
<1> HIDE DEF w, h, t, cutoff
<1>5. Len(h) \in Nat /\ Len(w) \in Nat /\ e \in Nat /\ d \in Nat
      /\ \A i \in 1..Len(h) : h[i] \in Nat
    BY <1>1, <1>2, <1>3
<1>6. Len(t) = Len(h) - d /\ Len(t) <= Len(w)
    BY <1>2, <1>5
<1>7. \A i \in 1..Len(t) : t[i] = h[d + i]
    <2> SUFFICES ASSUME NEW i \in 1..Len(t) PROVE t[i] = h[d + i]
        OBVIOUS
    <2>1. k + i \in 1..Len(w) /\ i \in 1..(Len(w) - k) /\ e + (k + i) = d + i
        BY <1>2, <1>5, <1>6
    <2> QED
        BY <1>2, <1>3, <2>1
<1>8. \A i \in 1..d : h[i] < cutoff
    <2> SUFFICES ASSUME NEW i \in 1..d, i > e PROVE h[i] < cutoff
        BY <1>3, <1>5
    <2>1. i - e \in 1..k /\ i - e \in 1..Len(w) /\ e + (i - e) = i
        BY <1>2, <1>5
    <2> QED
        BY <1>2, <1>3, <2>1
<1>9. \A i \in (d + 1)..Len(h) : h[i] >= cutoff
    <2> SUFFICES ASSUME NEW i \in (d + 1)..Len(h) PROVE h[i] >= cutoff
        OBVIOUS
    <2>1. k < Len(w) /\ k + 1 \in 1..Len(w) /\ e + (k + 1) = d + 1
        BY <1>2, <1>5
    <2>2. h[d + 1] >= cutoff
        BY <1>2, <1>3, <2>1
    <2>3. d + 1 \in 1..Len(h) /\ i \in 1..Len(h) /\ d + 1 <= i
        BY <1>5
    <2>4. h[d + 1] <= h[i] /\ h[d + 1] \in Nat /\ h[i] \in Nat
        BY <1>4, <1>5, <2>3
    <2> QED
        BY <1>1, <2>2, <2>4
<1> HIDE DEF d
<1> QED
    BY <1>2, <1>5, <1>6, <1>7, <1>8, <1>9 DEF w, h, t, cutoff

-----------------------------------------------------------------------------
\* The inductive invariant

\* At the start no client is known.
LEMMA InitInv == Init => Inv
BY DEF Init, Inv, TypeOK, SuffixInv, HistoryInv, EntriesBounded, SlidingBound,
    Window, Dropped

\* An admission at time now: whatever is MaxRequests places back in the
\* history has already left the window.
LEMMA AdmitInv ==
    ASSUME Inv, NEW c \in Clients, Admit(c)
    PROVE  Inv'
<1> DEFINE h == history[c]
           t == Trimmed(c)
           h2 == Append(h, now)
           t2 == Append(t, now)
<1>1. PICK d \in Nat :
         /\ t \in Seq(Nat)
         /\ Len(t) = Len(h) - d
         /\ Len(t) <= Len(Window(c))
         /\ \A i \in 1..Len(t) : t[i] = h[d + i]
         /\ \A i \in 1..d : h[i] < now - WindowMs
         /\ \A i \in (d + 1)..Len(h) : h[i] >= now - WindowMs
    BY TrimmedSpec
<1>2. /\ now \in Nat /\ now' = now
      /\ h \in Seq(Nat) /\ Len(h) \in Nat /\ Len(t) \in Nat
      /\ WindowMs \in Nat /\ MaxRequests \in Nat
      /\ Len(t) < MaxRequests
    BY <1>1, WindowAssumption, MaxRequestsAssumption
    DEF Inv, TypeOK, Admit, HasRoom, WindowAssumption, MaxRequestsAssumption
<1>3. /\ history' = [history EXCEPT ![c] = h2]
      /\ history'[c] = h2
      /\ history \in [Clients -> Seq(Nat)]
    BY DEF Admit, Inv, TypeOK
<1>4. /\ windows' = Store(c, t2)
      /\ Window(c)' = t2
      /\ \A b \in Clients \ {c} : Window(b)' = Window(b) /\ history'[b] = history[b]
    BY <1>3 DEF Admit, Store, Window
<1> HIDE DEF h, t
<1>5. /\ h2 \in Seq(Nat) /\ t2 \in Seq(Nat)
      /\ Len(h2) = Len(h) + 1 /\ Len(t2) = Len(t) + 1
      /\ h2[Len(h) + 1] = now /\ t2[Len(t) + 1] = now
      /\ \A i \in 1..Len(h) : h2[i] = h[i]
      /\ \A i \in 1..Len(t) : t2[i] = t[i]
    BY <1>1, <1>2
<1> HIDE DEF h2, t2
<1>6. TypeOK'
    BY <1>2, <1>3, <1>4, <1>5 DEF Inv, TypeOK, Store
<1>5a. Window(c)' = t2 /\ history'[c] = h2 /\ Dropped(c)' = Len(h2) - Len(t2)
    BY <1>3, <1>4 DEF Dropped
<1>5b. Len(h2) - Len(t2) = d
    BY <1>1, <1>2, <1>5
<1>5c. Len(t) \in Nat /\ Len(h) \in Nat /\ now \in Nat /\ now' = now
    BY <1>2
<1>5d. \A i \in 1..Len(h2) : i \in 1..Len(h) \/ i = Len(h) + 1
    BY <1>2, <1>5
<1>5e. \A i \in 1..d : i \in 1..Len(h)
    BY <1>1, <1>5c
<1>7. SuffixInv'
    <2> SUFFICES ASSUME NEW b \in Clients
                 PROVE  /\ Dropped(b)' >= 0
                        /\ \A i \in 1..Len(Window(b)') :
                              Window(b)'[i] = history'[b][Dropped(b)' + i]
                        /\ \A i \in 1..Dropped(b)' : history'[b][i] < now' - WindowMs
        BY DEF SuffixInv
    <2>1. CASE b = c
        <3>1. Dropped(c)' = d
            BY <1>5a, <1>5b
        <3>2. \A i \in 1..(Len(t) + 1) : t2[i] = h2[d + i]
            <4> SUFFICES ASSUME NEW i \in 1..(Len(t) + 1)
                         PROVE  t2[i] = h2[d + i]
                OBVIOUS
            <4>1. CASE i = Len(t) + 1
                BY <1>1, <1>2, <1>5, <4>1
            <4>2. CASE i \in 1..Len(t)
                <5>1. d + i \in 1..Len(h)
                    BY <1>1, <1>2, <4>2
                <5> QED
                    BY <1>1, <1>5, <4>2, <5>1
            <4> QED
                BY <1>5c, <4>1, <4>2
        <3>3. \A i \in 1..d : h2[i] < now - WindowMs
            <4>1. \A i \in 1..d : h[i] < now - WindowMs
                BY <1>1
            <4>2. \A i \in 1..d : h2[i] = h[i]
                BY <1>5, <1>5e
            <4> QED
                BY <4>1, <4>2
        <3>4. Len(t2) = Len(t) + 1 /\ d >= 0
            BY <1>5
        <3> QED
            BY <1>5a, <1>5c, <2>1, <3>1, <3>2, <3>3, <3>4
    <2>2. CASE b # c
        BY <1>2, <1>4, <2>2 DEF Inv, SuffixInv, Dropped
    <2> QED
        BY <2>1, <2>2
<1>8. HistoryInv'
    <2> SUFFICES ASSUME NEW b \in Clients
                 PROVE  /\ \A i \in 1..Len(history'[b]) : history'[b][i] <= now
                        /\ \A i, j \in 1..Len(history'[b]) :
                              i <= j => history'[b][i] <= history'[b][j]
        BY <1>2 DEF HistoryInv
    <2>1. CASE b = c
        <3>1. /\ \A i \in 1..Len(h) : h[i] <= now
              /\ \A i, j \in 1..Len(h) : i <= j => h[i] <= h[j]
            BY DEF Inv, HistoryInv, h
        <3>2. /\ h2[Len(h) + 1] = now /\ Len(h2) = Len(h) + 1
              /\ \A i \in 1..Len(h) : h2[i] = h[i]
            BY <1>5
        <3>3. \A i \in 1..Len(h2) : h2[i] <= now
            BY <1>5c, <1>5d, <3>1, <3>2
        <3>4. \A i, j \in 1..Len(h2) : i <= j => h2[i] <= h2[j]
            <4> SUFFICES ASSUME NEW i \in 1..Len(h2), NEW j \in 1..Len(h2), i <= j
                         PROVE  h2[i] <= h2[j]
                OBVIOUS
            <4>1. CASE j = Len(h) + 1
                BY <3>2, <3>3, <4>1
            <4>2. CASE j \in 1..Len(h)
                <5>1. i \in 1..Len(h)
                    BY <1>5c, <4>2
                <5> QED
                    BY <3>1, <3>2, <4>2, <5>1
            <4> QED
                BY <1>5d, <4>1, <4>2
        <3> QED
            BY <1>5a, <2>1, <3>3, <3>4
    <2>2. CASE b # c
        BY <1>4, <2>2 DEF Inv, HistoryInv
    <2> QED
        BY <2>1, <2>2
<1>9. EntriesBounded'
    <2>1. \A b \in DOMAIN windows' : b = c \/ b \in DOMAIN windows
        BY <1>4 DEF Store
    <2>2. windows'[c] = t2
        BY <1>4 DEF Store
    <2>3. \A b \in DOMAIN windows : b # c => windows'[b] = windows[b]
        BY <1>4 DEF Store
    <2>4. Len(t2) <= MaxRequests
        <3>1. Len(t2) = Len(t) + 1
            BY <1>5
        <3> QED
            BY <1>2, <3>1
    <2>5. \A b \in DOMAIN windows : Len(windows[b]) <= MaxRequests
        BY DEF Inv, EntriesBounded
    <2> QED
        BY <2>1, <2>2, <2>3, <2>4, <2>5 DEF EntriesBounded
<1>10. SlidingBound'
    <2> SUFFICES ASSUME NEW b \in Clients,
                        NEW i \in 1..Len(history'[b]), NEW j \in 1..Len(history'[b]),
                        j - i >= MaxRequests
                 PROVE  history'[b][j] - history'[b][i] > WindowMs
        BY DEF SlidingBound
    <2>1. CASE b = c /\ j = Len(h) + 1
        <3>1. i \in 1..d /\ i \in 1..Len(h)
            BY <1>1, <1>2, <1>3, <1>5, <2>1
        <3>2. h[i] < now - WindowMs /\ h[i] \in Nat
            BY <1>1, <1>2, <3>1
        <3>3. h2[j] = now /\ h2[i] = h[i]
            BY <1>5, <2>1, <3>1
        <3>4. now - h[i] > WindowMs
            BY <1>5c, <3>2, WindowAssumption DEF WindowAssumption
        <3> QED
            BY <1>5a, <2>1, <3>3, <3>4
    <2>2. CASE b = c /\ j # Len(h) + 1
        <3>0. i \in 1..Len(h2) /\ j \in 1..Len(h2)
            BY <1>5a, <2>2
        <3>1. i \in 1..Len(h) /\ j \in 1..Len(h)
            BY <1>2, <1>5d, <2>2, <3>0
        <3>2. h[j] - h[i] > WindowMs
            BY <3>1 DEF Inv, SlidingBound, h
        <3>3. h2[j] = h[j] /\ h2[i] = h[i]
            BY <1>5, <3>1
        <3> QED
            BY <1>5a, <2>2, <3>2, <3>3
    <2>3. CASE b # c
        BY <1>4, <2>3 DEF Inv, SlidingBound
    <2> QED
        BY <2>1, <2>2, <2>3
<1> QED
    BY <1>6, <1>7, <1>8, <1>9, <1>10 DEF Inv
\* Trimming lists, of one client or of all, loses nothing the invariant needs.
LEMMA TrimInv ==
    ASSUME Inv, TypeOK', EntriesBounded',
           UNCHANGED <<now, history>>,
           \A c \in Clients : Window(c)' = Window(c) \/ Window(c)' = Trimmed(c)
    PROVE  Inv'
<1>1. SuffixInv'
    <2> SUFFICES ASSUME NEW c \in Clients
                 PROVE  /\ Dropped(c)' >= 0
                        /\ \A i \in 1..Len(Window(c)') :
                              Window(c)'[i] = history[c][Dropped(c)' + i]
                        /\ \A i \in 1..Dropped(c)' : history[c][i] < now - WindowMs
        BY DEF SuffixInv
    <2>1. CASE Window(c)' = Window(c)
        <3>1. Dropped(c)' = Dropped(c)
            BY <2>1 DEF Dropped
        <3> QED
            BY <2>1, <3>1 DEF Inv, SuffixInv
    <2>2. CASE Window(c)' = Trimmed(c)
        <3>1. PICK d \in Nat :
                 /\ Len(Trimmed(c)) = Len(history[c]) - d
                 /\ \A i \in 1..Len(Trimmed(c)) : Trimmed(c)[i] = history[c][d + i]
                 /\ \A i \in 1..d : history[c][i] < now - WindowMs
            BY TrimmedSpec
        <3>2. Len(history[c]) \in Nat
            BY DEF Inv, TypeOK
        <3>3. Dropped(c)' = Len(history[c]) - Len(Trimmed(c))
            BY <2>2 DEF Dropped
        <3>4. Dropped(c)' = d
            BY <3>1, <3>2, <3>3
        <3> QED
            BY <2>2, <3>1, <3>4
    <2> QED
        BY <2>1, <2>2
<1>2. HistoryInv'
    BY DEF Inv, HistoryInv
<1>3. SlidingBound'
    BY DEF Inv, SlidingBound
<1> QED
    BY <1>1, <1>2, <1>3 DEF Inv

\* What Refuse and Cleanup store is well typed and within the limit.
LEMMA TrimmedType ==
    ASSUME Inv, NEW c \in Clients
    PROVE  /\ Trimmed(c) \in Seq(Nat)
           /\ Len(Trimmed(c)) <= Len(Window(c))
           /\ Len(Window(c)) <= MaxRequests
           /\ Len(Trimmed(c)) <= MaxRequests
<1>1. Trimmed(c) \in Seq(Nat) /\ Len(Trimmed(c)) <= Len(Window(c))
    BY TrimmedSpec
<1>2. Len(Window(c)) \in Nat /\ Len(Trimmed(c)) \in Nat
    BY <1>1, WindowType DEF Inv
<1>3. Len(Window(c)) <= MaxRequests
    BY MaxRequestsAssumption DEF Inv, EntriesBounded, Window, MaxRequestsAssumption
<1> QED
    BY <1>1, <1>2, <1>3, MaxRequestsAssumption DEF MaxRequestsAssumption

LEMMA RefuseInv ==
    ASSUME Inv, NEW c \in Clients, Refuse(c)
    PROVE  Inv'
<1>1. UNCHANGED <<now, history>> /\ windows' = Store(c, Trimmed(c))
    BY DEF Refuse
<1>2. DOMAIN windows' = DOMAIN windows \cup {c}
    BY <1>1 DEF Store
<1>3. \A b \in DOMAIN windows' :
         windows'[b] = IF b = c THEN Trimmed(c) ELSE windows[b]
    BY <1>1 DEF Store
<1>4. TypeOK'
    BY <1>1, <1>2, <1>3, TrimmedType DEF Inv, TypeOK
<1>5. EntriesBounded'
    BY <1>2, <1>3, TrimmedType DEF Inv, EntriesBounded
<1>6. \A b \in Clients : Window(b)' = Window(b) \/ Window(b)' = Trimmed(b)
    BY <1>2, <1>3 DEF Window
<1> QED
    BY <1>1, <1>4, <1>5, <1>6, TrimInv

LEMMA CleanupInv ==
    ASSUME Inv, Cleanup
    PROVE  Inv'
<1>1. UNCHANGED <<now, history>> /\ windows' = [c \in Remaining |-> Trimmed(c)]
    BY DEF Cleanup
<1>2. /\ DOMAIN windows' = Remaining /\ Remaining \subseteq Clients
      /\ \A c \in Remaining : windows'[c] = Trimmed(c)
      /\ \A c \in DOMAIN windows \ Remaining : Trimmed(c) = << >>
    BY <1>1 DEF Remaining, Inv, TypeOK
<1>3. TypeOK'
    BY <1>1, <1>2, TrimmedType DEF Inv, TypeOK
<1>4. EntriesBounded'
    BY <1>2, TrimmedType DEF EntriesBounded
<1>5. \A c \in Clients : Window(c)' = Window(c) \/ Window(c)' = Trimmed(c)
    BY <1>2 DEF Window, Remaining
<1> QED
    BY <1>1, <1>3, <1>4, <1>5, TrimInv

LEMMA TickInv ==
    ASSUME Inv, Tick
    PROVE  Inv'
<1>1. now \in Nat /\ now' = now + 1 /\ UNCHANGED <<windows, history>>
    BY DEF Tick, Inv, TypeOK
<1>2. TypeOK'
    BY <1>1 DEF Inv, TypeOK
<1>3. EntriesBounded' /\ SlidingBound'
    BY <1>1 DEF Inv, EntriesBounded, SlidingBound
<1>4. \A c \in Clients : /\ Window(c)' = Window(c) /\ Dropped(c)' = Dropped(c)
                         /\ history'[c] = history[c]
    BY <1>1 DEF Window, Dropped
<1>5. \A c \in Clients : /\ Dropped(c) \in Int /\ Len(history[c]) \in Nat
                         /\ Dropped(c) <= Len(history[c])
    BY WindowType DEF Inv, TypeOK, Dropped
<1>6. \A c \in Clients : \A i \in 1..Len(history[c]) : history[c][i] \in Nat
    BY DEF Inv, TypeOK
<1>7. SuffixInv'
    <2> SUFFICES ASSUME NEW c \in Clients, NEW i \in 1..Dropped(c)
                 PROVE  history[c][i] < (now + 1) - WindowMs
        BY <1>1, <1>4 DEF Inv, SuffixInv
    <2>1. history[c][i] < now - WindowMs
        BY DEF Inv, SuffixInv
    <2>2. history[c][i] \in Nat
        BY <1>5, <1>6
    <2> QED
        BY <1>1, <2>1, <2>2, WindowAssumption DEF WindowAssumption
<1>8. HistoryInv'
    <2>1. \A c \in Clients : \A i \in 1..Len(history[c]) : history[c][i] <= now + 1
        BY <1>1, <1>6 DEF Inv, HistoryInv
    <2> QED
        BY <1>1, <2>1 DEF Inv, HistoryInv
<1> QED
    BY <1>2, <1>3, <1>7, <1>8 DEF Inv

LEMMA NextInv == Inv /\ [Next]_vars => Inv'
<1> SUFFICES ASSUME Inv, [Next]_vars PROVE Inv'
    OBVIOUS
<1>1. CASE UNCHANGED vars
    BY <1>1 DEF vars, Inv, TypeOK, SuffixInv, HistoryInv, EntriesBounded,
        SlidingBound, Window, Dropped
<1> QED
    BY <1>1, AdmitInv, RefuseInv, CleanupInv, TickInv DEF Next, Allow

\* The inductive invariant holds in every reachable state.
THEOREM Invariance == Spec => []Inv
<1> QED
    BY InitInv, NextInv, PTL DEF Spec

\* For every window and limit, no WindowMs-long stretch of time holds more
\* than MaxRequests admissions of one client (RateLimiter.allow).
THEOREM SlidingBoundHolds == Spec => []SlidingBound
<1>1. Inv => SlidingBound
    BY DEF Inv
<1> QED
    BY <1>1, Invariance, PTL

-----------------------------------------------------------------------------
\* Refinement

\* The history inside the window is as long as the trimmed list.
LEMMA RecentIsTrimmed ==
    ASSUME Inv, NEW c \in Clients
    PROVE  Abstract!Cardinality(Abstract!Recent(c)) = Len(Trimmed(c))
<1> DEFINE h == history[c]
<1>1. PICK d \in Nat :
         /\ Trimmed(c) \in Seq(Nat)
         /\ Len(Trimmed(c)) = Len(h) - d
         /\ \A i \in 1..d : h[i] < now - WindowMs
         /\ \A i \in (d + 1)..Len(h) : h[i] >= now - WindowMs
    BY TrimmedSpec
<1>2. /\ Len(h) \in Nat /\ Len(Trimmed(c)) \in Nat /\ now - WindowMs \in Int
      /\ \A i \in 1..Len(h) : h[i] \in Nat
    BY <1>1, WindowAssumption DEF Inv, TypeOK, WindowAssumption
<1>3. \A i \in 1..Len(h) : i \in 1..d \/ i \in (d + 1)..Len(h)
    BY <1>2
<1>4. \A i \in 1..Len(h) : h[i] >= now - WindowMs <=> i \in (d + 1)..Len(h)
    <2> SUFFICES ASSUME NEW i \in 1..Len(h)
                 PROVE  h[i] >= now - WindowMs <=> i \in (d + 1)..Len(h)
        OBVIOUS
    <2>1. CASE i \in 1..d
        <3>1. h[i] < now - WindowMs /\ i \notin (d + 1)..Len(h)
            BY <1>1, <2>1
        <3> QED
            BY <1>2, <3>1
    <2>2. CASE i \in (d + 1)..Len(h)
        BY <1>1, <2>2
    <2> QED
        BY <1>3, <2>1, <2>2
<1>5. Abstract!Recent(c) = (d + 1)..Len(h)
    <2>1. (d + 1)..Len(h) \subseteq 1..Len(h)
        BY <1>2
    <2> HIDE DEF h
    <2>2. {i \in 1..Len(h) : h[i] >= now - WindowMs} = (d + 1)..Len(h)
        BY <1>4, <2>1
    <2> QED
        BY <2>2 DEF Abstract!Recent, h
<1>6. Cardinality((d + 1)..Len(h)) = Len(h) - d
    <2> DEFINE m == d + 1
               n == Len(h)
    <2>1. m \in Int /\ n \in Int /\ n - m + 1 = n - d /\ (m > n => n - d = 0)
        BY <1>1, <1>2
    <2> HIDE DEF m, n
    <2>2. Cardinality(m..n) = IF m > n THEN 0 ELSE n - m + 1
        BY <2>1, FS_Interval
    <2>3. Cardinality(m..n) = n - d
        BY <2>1, <2>2
    <2> QED
        BY <2>3 DEF m, n
<1>7. Abstract!Cardinality(Abstract!Recent(c)) = Cardinality(Abstract!Recent(c))
    BY Zenon DEF Cardinality, Abstract!Cardinality
<1> QED
    BY <1>1, <1>5, <1>6, <1>7

\* Each decision is the one the history calls for; cleanup decides nothing.
LEMMA StepRefines ==
    ASSUME Inv, [Next]_vars
    PROVE  [Abstract!SNext]_Abstract!svars
<1>1. ASSUME NEW c \in Clients, Admit(c) PROVE Abstract!AdmitRecent(c)
    BY <1>1, RecentIsTrimmed DEF Admit, HasRoom, Abstract!AdmitRecent
<1>2. ASSUME NEW c \in Clients, Refuse(c) PROVE Abstract!RefuseRecent(c)
    <2>1. Len(Trimmed(c)) \in Nat
        BY TrimmedType
    <2>2. Len(Trimmed(c)) >= MaxRequests
        BY <1>2, <2>1, MaxRequestsAssumption
        DEF Refuse, HasRoom, MaxRequestsAssumption
    <2> QED
        BY <1>2, <2>2, RecentIsTrimmed DEF Refuse, Abstract!RefuseRecent
<1>3. CASE Cleanup
    BY <1>3 DEF Cleanup, Abstract!svars
<1>4. CASE Tick
    BY <1>4 DEF Tick, Abstract!SNext, Abstract!Advance
<1>5. CASE UNCHANGED vars
    BY <1>5 DEF vars, Abstract!svars
<1> QED
    BY <1>1, <1>2, <1>3, <1>4, <1>5 DEF Next, Allow, Abstract!SNext

\* Lazy trimming and periodic cleanup never change a decision.
THEOREM Refinement == Spec => ImplementsSlidingWindow
<1>1. Init => Abstract!SInit
    BY DEF Init, Abstract!SInit
<1>2. Inv /\ [Next]_vars => [Abstract!SNext]_Abstract!svars
    BY StepRefines
<1> QED
    BY <1>1, <1>2, Invariance, PTL
    DEF Spec, ImplementsSlidingWindow, Abstract!SSpec
=============================================================================
