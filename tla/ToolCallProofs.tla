--------------------------- MODULE ToolCallProofs ---------------------------
(* What holds of one tool call for every budget, every limit of the console  *)
(* and every nesting of console calls.                                       *)
EXTENDS ToolCall, FiniteSetTheorems, TLAPS

\* A host call that was made stays one whose requests but the last were refused.
LEMMA HostCallStep ==
    ASSUME NEW k \in CallStates, CallOK(k), NEW q \in Host!Successors(k)
    PROVE  q \in CallStates /\ CallOK(q)
<1>0. ASSUME NEW j \in CallStates, NEW p \in {"open", "waiting", "settled"}
      PROVE  /\ [j EXCEPT !.phase = p] \in CallStates
             /\ [j EXCEPT !.phase = p].phase = p
             /\ [j EXCEPT !.phase = p].sent = j.sent
             /\ [j EXCEPT !.phase = p].refused = j.refused
  BY DEF CallStates
<1>1. CASE k.phase = "open"
  <2> DEFINE r == Host!Refused(k)
  <2>1. k.sent \in 0..2 /\ k.refused \in 0..1 /\ k.sent = k.refused + 1
    BY <1>1 DEF CallStates, CallOK
  <2>2. /\ r \in CallStates /\ r.sent = k.sent /\ r.refused = k.refused + 1
    BY <2>1 DEF CallStates, Host!Refused
  <2> HIDE DEF r
  <2>3. \/ q = [k EXCEPT !.phase = "settled"]
        \/ q = [r EXCEPT !.phase = "settled"]
        \/ k.sent < 2 /\ q = [r EXCEPT !.phase = "waiting"]
    BY <1>1 DEF Host!Successors, Host!Settled, r
  <2>4. CASE q = [k EXCEPT !.phase = "settled"]
    BY <1>0, <2>1, <2>4 DEF CallOK
  <2>5. CASE q = [r EXCEPT !.phase = "settled"]
    <3>1. /\ q \in CallStates /\ q.phase = "settled"
          /\ q.sent = k.sent /\ q.refused = k.refused + 1
      BY <1>0, <2>2, <2>5
    <3>2. QED
      BY <2>1, <3>1 DEF CallOK
  <2>6. CASE k.sent < 2 /\ q = [r EXCEPT !.phase = "waiting"]
    <3>1. /\ q \in CallStates /\ q.phase = "waiting"
          /\ q.sent = k.sent /\ q.refused = k.refused + 1
      BY <1>0, <2>2, <2>6
    <3>2. QED
      BY <2>1, <2>6, <3>1 DEF CallOK
  <2>7. QED
    BY <2>3, <2>4, <2>5, <2>6
<1>2. CASE k.phase = "waiting"
  <2>1. q = Host!Sent(k)
    BY <1>2 DEF Host!Successors
  <2>2. QED
    BY <1>2, <2>1 DEF CallStates, CallOK, Host!Sent
<1>3. CASE k.phase = "settled"
  BY <1>3 DEF Host!Successors
<1>4. QED
  BY <1>1, <1>2, <1>3 DEF CallStates, CallOK

\* One more request is within the budget that was tested, and is its call's first.
LEMMA IssueKeepsCallInv ==
    ASSUME TypeOK, CallInv, NEW c \in Calls, IssueCall(c)
    PROVE  hostCalls' \in [Calls -> CallStates] /\ CallInv'
<1>1. /\ c \notin issued /\ Cardinality(issued) < MaxCalls
      /\ issued' = issued \cup {c}
      /\ hostCalls' = [hostCalls EXCEPT ![c] = Host!Sent(@)]
      /\ called' /\ warned' = (warned \/ insecure) /\ insecure' = insecure
  BY DEF IssueCall, Issue
<1>2. IsFiniteSet(issued') /\ Cardinality(issued') <= MaxCalls
  <2>1. IsFiniteSet(issued) /\ Cardinality(issued) \in Nat
    BY FS_CardinalityType DEF CallInv
  <2>2. IsFiniteSet(issued') /\ Cardinality(issued') = Cardinality(issued) + 1
    BY <1>1, <2>1, FS_AddElement
  <2>3. QED
    BY <1>1, <2>1, <2>2, MaxCallsAssumption DEF MaxCallsAssumption
<1>3. Host!Sent(hostCalls[c]) = [phase |-> "open", sent |-> 1, refused |-> 0]
  BY <1>1 DEF CallInv, Host!NewCall, Host!Sent
<1>4. hostCalls' \in [Calls -> CallStates] /\ CallOK(hostCalls'[c])
  <2>1. Host!Sent(hostCalls[c]) \in CallStates /\ CallOK(Host!Sent(hostCalls[c]))
    BY <1>3 DEF CallStates, CallOK
  <2>2. QED
    BY <1>1, <2>1 DEF TypeOK
<1>5. \A d \in Calls \ {c} : hostCalls'[d] = hostCalls[d]
  BY <1>1 DEF TypeOK
<1>6. QED
  BY <1>1, <1>2, <1>4, <1>5 DEF CallInv, TypeOK

\* A console call that returns fills the place it was given.
LEMMA CloseKeepsConsole ==
    ASSUME TypeOK, ConsoleInv, NEW n \in Sizes, CloseConsole(n)
    PROVE  /\ logs' \in Seq({"message", "notice"}) /\ Len(logs') = Len(logs) + 1
           /\ \A i \in 1..Len(logs) : logs'[i] = logs[i]
           /\ logs'[Len(logs) + 1] \in {"message", "notice"}
           /\ totalLogSize' \in Nat /\ kept' \in Nat /\ open' \in 0..MaxDepth
           /\ ConsoleInv'
<1>1. n \in Nat /\ MaxLogSize \in Nat /\ MaxLogEntries \in Nat /\ MaxDepth \in Nat
  BY LogAssumption DEF LogAssumption
<1>2. /\ open > 0 /\ open' = open - 1 /\ totalLogSize' = totalLogSize + n
      /\ \/ TooLong(n) /\ logs' = Append(logs, "notice") /\ kept' = kept
         \/ ~TooLong(n) /\ logs' = Append(logs, "message") /\ kept' = kept + n
  BY DEF CloseConsole
<1>3. /\ logs' \in Seq({"message", "notice"}) /\ Len(logs') = Len(logs) + 1
      /\ \A i \in 1..Len(logs) : logs'[i] = logs[i]
      /\ TooLong(n) => logs'[Len(logs) + 1] = "notice"
      /\ ~TooLong(n) => logs'[Len(logs) + 1] = "message"
      /\ Len(logs) \in Nat
  BY <1>2 DEF TypeOK
<1>4. totalLogSize' \in Nat /\ kept' \in Nat /\ open' \in 0..MaxDepth
  BY <1>1, <1>2 DEF TypeOK
<1>5. /\ kept' <= totalLogSize' /\ kept' <= MaxLogSize
      /\ totalLogSize' = kept' \/ totalLogSize' > MaxLogSize
      /\ TooLong(n) => totalLogSize' > MaxLogSize
      /\ totalLogSize > MaxLogSize => totalLogSize' > MaxLogSize
  BY <1>1, <1>2 DEF TypeOK, ConsoleInv, TooLong
<1>6. ConsoleInv'
  <2>1. Len(logs') + open' <= MaxLogEntries + MaxDepth - 1
    BY <1>1, <1>2, <1>3 DEF TypeOK, ConsoleInv
  <2>2. ASSUME NEW i \in 1..Len(logs'), logs'[i] = "notice"
        PROVE  totalLogSize' > MaxLogSize
    <3>1. i \in 1..Len(logs) \/ i = Len(logs) + 1
      BY <1>3
    <3>2. QED
      BY <1>3, <1>5, <2>2, <3>1 DEF ConsoleInv
  <2>3. QED
    BY <1>1, <1>3, <1>4, <1>5, <2>1, <2>2 DEF ConsoleInv
<1>7. QED
  BY <1>3, <1>4, <1>6

\* The invariant of a tool call holds in every reachable state.
THEOREM Invariance == Spec => []Inv
<1>1. Init => Inv
  <2> SUFFICES ASSUME Init PROVE Inv
    OBVIOUS
  <2> USE LogAssumption, MaxCallsAssumption
      DEF LogAssumption, MaxCallsAssumption, Init, AInit
  <2>1. TypeOK
    <3>1. hostCalls \in [Calls -> CallStates]
      BY DEF CallStates, Host!NewCall
    <3>2. answer \in [isError : BOOLEAN, shows : SUBSET Parts]
      OBVIOUS
    <3>3. open \in 0..MaxDepth /\ logs \in Seq({"message", "notice"})
      OBVIOUS
    <3>4. QED
      BY <3>1, <3>2, <3>3 DEF TypeOK
  <2>2. PhaseInv /\ ConsoleInv
    BY DEF PhaseInv, ConsoleInv
  <2>3. CallInv
    BY FS_EmptySet DEF CallInv
  <2>4. QED
    BY <2>1, <2>2, <2>3 DEF Inv
<1>2. Inv /\ [Next]_vars => Inv'
  <2> SUFFICES ASSUME Inv, [Next]_vars PROVE Inv'
    OBVIOUS
  <2> USE DEF Inv, avars, console
  <2>1. CASE Reject
    BY <2>1 DEF Reject, Answer, ErrorResult, TypeOK, Parts, PhaseInv, ConsoleInv, CallInv
  <2>2. CASE Start
    BY <2>2 DEF Start, TypeOK, PhaseInv, ConsoleInv, CallInv
  <2>3. CASE OpenConsole
    <3>1. open' \in 0..MaxDepth /\ Len(logs) + open' <= MaxLogEntries + MaxDepth - 1
      BY <2>3, LogAssumption DEF OpenConsole, HasRoom, TypeOK, LogAssumption
    <3>2. QED
      BY <2>3, <3>1 DEF OpenConsole, TypeOK, PhaseInv, ConsoleInv, CallInv
  <2>4. CASE OmitMessage
    BY <2>4 DEF OmitMessage, TypeOK, PhaseInv, ConsoleInv, CallInv
  <2>5. ASSUME NEW n \in Sizes, CloseConsole(n) PROVE Inv'
    <3>1. PhaseInv'
      BY <2>5 DEF CloseConsole, PhaseInv, TypeOK
    <3>2. TypeOK' /\ CallInv'
      BY <2>5, CloseKeepsConsole DEF CloseConsole, TypeOK, CallInv
    <3>3. QED
      BY <2>5, <3>1, <3>2, CloseKeepsConsole
  <2>6. CASE FailCall
    BY <2>6 DEF FailCall, TypeOK, PhaseInv, ConsoleInv, CallInv
  <2>7. ASSUME NEW c \in Calls, IssueCall(c) PROVE Inv'
    <3>1. TypeOK' /\ PhaseInv' /\ ConsoleInv'
      BY <2>7, IssueKeepsCallInv DEF IssueCall, Issue, TypeOK, PhaseInv, ConsoleInv
    <3>2. QED
      BY <2>7, <3>1, IssueKeepsCallInv
  <2>8. ASSUME NEW c \in Calls, HostStep(c) PROVE Inv'
    <3>1. PICK q \in Host!Successors(hostCalls[c]) :
                hostCalls' = [hostCalls EXCEPT ![c] = q]
      BY <2>8 DEF HostStep
    <3>2. c \in issued
      BY <3>1 DEF CallInv, Host!NewCall, Host!Successors
    <3>3. q \in CallStates /\ CallOK(q)
      BY <3>1, <3>2, HostCallStep DEF TypeOK, CallInv
    <3>4. TypeOK' /\ PhaseInv' /\ ConsoleInv'
      BY <2>8, <3>1, <3>3 DEF HostStep, TypeOK, PhaseInv, ConsoleInv
    <3>5. CallInv'
      BY <2>8, <3>1, <3>2, <3>3 DEF HostStep, TypeOK, CallInv
    <3>6. QED
      BY <3>4, <3>5
  <2>9. ASSUME NEW c \in Calls, DeliverCall(c) PROVE Inv'
    BY <2>9 DEF DeliverCall, Deliver, TypeOK, PhaseInv, ConsoleInv, CallInv
  <2>10. ASSUME NEW v \in Verdicts, FinishRun(v) PROVE Inv'
    BY <2>10 DEF FinishRun, Finish, Verdicts, TypeOK, PhaseInv, ConsoleInv, CallInv
  <2>11. CASE Reply
    <3>1. ResultParts \subseteq Parts /\ {"error"} \subseteq Parts
      BY DEF ResultParts, Parts
    <3>2. /\ \/ answer' = [isError |-> TRUE, shows |-> {"error"}]
             \/ answer' = [isError |-> (verdict # "value"), shows |-> ResultParts]
          /\ phase' = "answered"
      BY <2>11 DEF Reply, FormatToolResult, FormatFails, Answer, ErrorResult
    <3>3. (verdict # "value") \in BOOLEAN
      OBVIOUS
    <3>4. answer' \in [isError : BOOLEAN, shows : SUBSET Parts]
      <4>1. ASSUME NEW e \in BOOLEAN, NEW S \in SUBSET Parts
            PROVE  [isError |-> e, shows |-> S] \in [isError : BOOLEAN, shows : SUBSET Parts]
        OBVIOUS
      <4>2. ResultParts \in SUBSET Parts /\ {"error"} \in SUBSET Parts
        BY <3>1
      <4>3. [isError |-> (verdict # "value"), shows |-> ResultParts]
              \in [isError : BOOLEAN, shows : SUBSET Parts]
        BY <3>3, <4>1, <4>2, Zenon
      <4>4. [isError |-> TRUE, shows |-> {"error"}] \in [isError : BOOLEAN, shows : SUBSET Parts]
        BY <4>1, <4>2
      <4>5. QED
        BY <3>2, <4>3, <4>4, Zenon
    <3>5. QED
      BY <2>11, <3>2, <3>4 DEF Reply, TypeOK, PhaseInv, ConsoleInv, CallInv
  <2>12. CASE DeadlinePasses
    BY <2>12 DEF DeadlinePasses, Expire, TypeOK, PhaseInv, ConsoleInv, CallInv
  <2>13. CASE UNCHANGED vars
    BY <2>13 DEF vars, TypeOK, PhaseInv, ConsoleInv, CallInv
  <2>14. QED
    BY <2>1, <2>2, <2>3, <2>4, <2>5, <2>6, <2>7, <2>8, <2>9, <2>10, <2>11,
       <2>12, <2>13 DEF Next, Script, Handler
<1>3. QED
  BY <1>1, <1>2, PTL DEF Spec

\* No script gets more entries or more text into its tool's output.
THEOREM ConsoleIsBounded == Spec => []ConsoleBounded
<1>1. Inv => ConsoleBounded
  BY DEF Inv, ConsoleInv, ConsoleBounded
<1>2. QED
  BY <1>1, Invariance, PTL

\* Console output is never cut without a notice at its end.
THEOREM CutsAnnounced == Spec => []CutsAreAnnounced
<1>1. Init => CutsAreAnnounced
  BY DEF Init, CutsAreAnnounced
<1>2. Inv /\ CutsAreAnnounced /\ [Next]_vars => CutsAreAnnounced'
  <2> SUFFICES ASSUME Inv, CutsAreAnnounced, [Next]_vars
               PROVE  CutsAreAnnounced'
    OBVIOUS
  <2> USE DEF Inv, console
  <2>1. ASSUME NEW n \in Sizes, CloseConsole(n) PROVE CutsAreAnnounced'
    <3>1. /\ Len(logs') = Len(logs) + 1 /\ Len(logs) \in Nat
          /\ \A i \in 1..Len(logs) : logs'[i] = logs[i]
          /\ TooLong(n) => logs'[Len(logs) + 1] = "notice" /\ kept' = kept
          /\ ~TooLong(n) => logs'[Len(logs) + 1] = "message" /\ kept' = kept + n
          /\ logs' # <<>>
      BY <2>1, CloseKeepsConsole DEF CloseConsole, TypeOK
    <3>2. n \in Nat /\ MaxLogSize \in Nat /\ MaxLogEntries \in Nat
      BY LogAssumption DEF LogAssumption
    <3>3. /\ totalLogSize' = totalLogSize + n /\ totalLogSize \in Nat /\ kept \in Nat
          /\ kept <= totalLogSize /\ kept <= MaxLogSize
      BY <2>1 DEF CloseConsole, TypeOK, ConsoleInv
    <3>4. ~TooLong(n) => totalLogSize = kept
                         /\ \A i \in 1..Len(logs) : logs[i] # "notice"
      BY <3>2, <3>3 DEF TooLong, ConsoleInv
    <3>5. ASSUME NEW i \in 1..Len(logs'), logs'[i] = "notice", NEW j \in i..Len(logs')
          PROVE  logs'[j] = "notice"
      <4>1. TooLong(n) \/ (i = Len(logs) + 1 /\ j = i)
        BY <3>1, <3>4, <3>5
      <4>2. CASE i \in 1..Len(logs) /\ j \in i..Len(logs)
        BY <3>1, <3>5, <4>2 DEF CutsAreAnnounced
      <4>3. QED
        BY <3>1, <3>5, <4>1, <4>2
    <3>6. totalLogSize' > kept' => logs'[Len(logs')] = "notice"
      BY <3>1, <3>2, <3>3, <3>4
    <3>7. ASSUME omitted'
          PROVE  \/ totalLogSize' > kept' \/ Len(logs') >= MaxLogEntries
                 \/ totalLogSize' = MaxLogSize
      <4>1. omitted
        BY <2>1, <3>7 DEF CloseConsole
      <4>2. TooLong(n) => totalLogSize' > kept'
        BY <3>1, <3>2, <3>3 DEF TooLong
      <4>3. ~TooLong(n) => totalLogSize' <= MaxLogSize
        BY <3>2, <3>3 DEF TooLong
      <4>4. QED
        BY <3>1, <3>2, <3>3, <3>4, <4>1, <4>2, <4>3 DEF CutsAreAnnounced
    <3>8. QED
      BY <3>1, <3>5, <3>6, <3>7 DEF CutsAreAnnounced
  <2>2. CASE OmitMessage
    <3>1. Len(logs) >= MaxLogEntries \/ totalLogSize = MaxLogSize \/ totalLogSize > kept
      BY <2>2, LogAssumption DEF OmitMessage, HasRoom, TypeOK, ConsoleInv, LogAssumption
    <3>2. QED
      BY <2>2, <3>1 DEF OmitMessage, CutsAreAnnounced
  <2>3. CASE UNCHANGED <<logs, totalLogSize, kept, omitted>>
    BY <2>3 DEF CutsAreAnnounced
  <2>4. QED
    BY <2>1, <2>2, <2>3
       DEF Next, Script, Handler, vars, Reject, Start, OpenConsole, FailCall,
           IssueCall, HostStep, DeliverCall, FinishRun, Reply, DeadlinePasses
<1>3. QED
  BY <1>1, <1>2, Invariance, PTL DEF Spec

\* The budget bounds what the server accepts, whatever is retried and however late.
THEOREM BudgetBoundsServer == Spec => []AcceptedWithinBudget
<1>1. Inv => AcceptedWithinBudget
  <2> SUFFICES ASSUME Inv PROVE AcceptedWithinBudget
    OBVIOUS
  <2> DEFINE S == {c \in Calls : hostCalls[c].sent > hostCalls[c].refused}
  <2>1. \A c \in Calls \ issued : hostCalls[c].sent = 0 /\ hostCalls[c].refused = 0
    BY DEF Inv, CallInv, Host!NewCall
  <2>2. S \subseteq issued
    BY <2>1
  <2>3. Cardinality(S) <= MaxCalls
    <3>1. /\ IsFiniteSet(issued) /\ Cardinality(issued) <= MaxCalls
          /\ Cardinality(issued) \in Nat
      BY FS_CardinalityType DEF Inv, CallInv
    <3>2. IsFiniteSet(S) /\ Cardinality(S) <= Cardinality(issued)
      BY <2>2, <3>1, FS_Subset
    <3>3. Cardinality(S) \in Nat
      BY <3>2, FS_CardinalityType
    <3>4. QED
      BY <3>1, <3>2, <3>3, MaxCallsAssumption DEF MaxCallsAssumption
  <2>4. \A c \in Calls : hostCalls[c].sent <= hostCalls[c].refused + 1
    BY <2>1 DEF Inv, CallInv, CallOK
  <2>5. QED
    BY <2>3, <2>4 DEF AcceptedWithinBudget
<1>2. QED
  BY <1>1, Invariance, PTL

\* The answer tells what the script did, if its value can be expressed.
THEOREM AnswerAccounts == Spec => []AnswerAccountsForRun
<1>1. Init => AnswerAccountsForRun
  BY DEF Init, AnswerAccountsForRun
<1>2. Inv /\ AnswerAccountsForRun /\ [Next]_vars => AnswerAccountsForRun'
  <2> SUFFICES ASSUME Inv, AnswerAccountsForRun, [Next]_vars
               PROVE  AnswerAccountsForRun'
    OBVIOUS
  <2> USE DEF Inv, PhaseInv, Unserializable, AnswerAccountsForRun
  <2>1. CASE Reject
    BY <2>1 DEF Reject, Answer, ErrorResult, avars, console
  <2>2. CASE Reply
    <3>1. /\ UNCHANGED <<verdict, issued, insecure, logs, called, warned, data>>
          /\ FormatToolResult
      BY <2>2 DEF Reply, avars, console
    <3>2. ASSUME ~Unserializable
          PROVE  answer'.isError = (verdict # "value") /\ answer'.shows = ResultParts
      BY <3>1, <3>2 DEF FormatToolResult, FormatFails, Answer
    <3>3. /\ called => "calls" \in ResultParts
          /\ warned => "warnings" \in ResultParts
          /\ logs # <<>> => "console" \in ResultParts
      BY DEF ResultParts, Parts
    <3>4. QED
      BY <3>1, <3>2, <3>3 DEF CallInv
  <2>3. CASE phase' # "answered"
    BY <2>3
  <2>4. CASE UNCHANGED <<phase, data, answer, verdict, issued, insecure, logs>>
    BY <2>4
  <2>5. ASSUME NEW n \in Sizes, CloseConsole(n) PROVE phase' # "answered"
    BY <2>5 DEF CloseConsole, TypeOK
  <2>6. QED
    BY <2>1, <2>2, <2>3, <2>4, <2>5
       DEF Next, Script, Handler, vars, avars, console, Start, OpenConsole,
           OmitMessage, FailCall, IssueCall, HostStep, DeliverCall, Deliver,
           FinishRun, DeadlinePasses, Expire
<1>3. QED
  BY <1>1, <1>2, Invariance, PTL DEF Spec

\* Whatever a script logs and a handler formats, the run is one that
\* AbstractExecute allows: the handler adds nothing to what its executor may do.
THEOREM RunIsAbstract == Spec => ASpec
<1>1. Init => AInit
  BY DEF Init
<1>2. [Next]_vars => [ANext]_avars
  <2> SUFFICES ASSUME Next PROVE ANext \/ UNCHANGED avars
    BY DEF vars
  <2>1. CASE Script
    BY <2>1 DEF Script, OpenConsole, OmitMessage, FailCall, IssueCall, ANext
  <2>2. CASE Handler
    BY <2>2 DEF Handler, Reject, Start, CloseConsole, FinishRun, Reply, ANext
  <2>3. ASSUME NEW c \in Calls, HostStep(c) \/ DeliverCall(c) PROVE ANext \/ UNCHANGED avars
    BY <2>3 DEF HostStep, DeliverCall, ANext
  <2>4. CASE DeadlinePasses
    BY <2>4 DEF DeadlinePasses, ANext
  <2>5. QED
    BY <2>1, <2>2, <2>3, <2>4 DEF Next
<1>3. QED
  BY <1>1, <1>2, PTL DEF Spec, ASpec

\* Each host call is an AbstractCall of its own.
One(c) == INSTANCE AbstractCall WITH call <- hostCalls[c]

\* While a script runs and after its tool has answered, each of its calls keeps
\* the promise of HttpClient: one request, and one more only after a refusal.
THEOREM CallsAreAbstract ==
    ASSUME NEW c \in Calls
    PROVE  Spec => One(c)!CallSpec
<1>1. Init => One(c)!CallInit
  BY DEF Init, One!CallInit, One!NewCall, Host!NewCall
<1>2. Inv /\ [Next]_vars => [One(c)!CallNext]_(hostCalls[c])
  <2> SUFFICES ASSUME Inv, Next, hostCalls' # hostCalls
               PROVE  One(c)!CallNext \/ hostCalls'[c] = hostCalls[c]
    BY DEF vars
  <2>1. ASSUME NEW d \in Calls, IssueCall(d)
        PROVE  One(c)!CallNext \/ hostCalls'[c] = hostCalls[c]
    <3>1. hostCalls[d] = Host!NewCall /\ hostCalls' = [hostCalls EXCEPT ![d] = Host!Sent(@)]
      BY <2>1 DEF Inv, CallInv, IssueCall, Issue
    <3>2. QED
      BY <3>1 DEF Inv, TypeOK, Host!NewCall, Host!Sent, One!CallNext, One!Sent
  <2>2. ASSUME NEW d \in Calls, HostStep(d)
        PROVE  One(c)!CallNext \/ hostCalls'[c] = hostCalls[c]
    <3>1. PICK k \in Host!Successors(hostCalls[d]) : hostCalls' = [hostCalls EXCEPT ![d] = k]
      BY <2>2 DEF HostStep
    <3>2. CASE d = c
      BY <3>1, <3>2 DEF Inv, TypeOK, One!CallNext, Host!Successors, One!Successors,
         Host!Settled, One!Settled, Host!Refused, One!Refused, Host!Sent, One!Sent
    <3>3. CASE d # c
      BY <3>1, <3>3 DEF Inv, TypeOK
    <3>4. QED
      BY <3>2, <3>3
  <2>3. QED
    BY <2>1, <2>2
       DEF Next, Script, Handler, OpenConsole, OmitMessage, FailCall, Reject, Start,
           CloseConsole, FinishRun, Reply, DeliverCall, DeadlinePasses
<1>3. QED
  BY <1>1, <1>2, Invariance, PTL DEF Spec, One!CallSpec
=============================================================================
