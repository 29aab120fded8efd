------------------------------ MODULE ToolCall ------------------------------
(* One call of an MCP tool, from the handler in server/server.ts to the      *)
(* content it answers with: the sandboxed run (AbstractExecute, which        *)
(* ExecuteExecutor implements; BaseSyncExecutor for `search`), the capture   *)
(* of console output, and the requests of every host call (AbstractCall,     *)
(* which HttpClient implements), some of which outlive the answer.           *)
(*                                                                           *)
(* The host has one thread. context.dump of a console argument may run       *)
(* script code (toJSON, getters), which may call console again.              *)
EXTENDS AbstractExecute, Sequences

CONSTANTS
    MaxLogEntries,  \* MAX_LOG_ENTRIES
    MaxLogSize,     \* MAX_LOG_SIZE_BYTES, compared with UTF-16 lengths
    MaxDepth,       \* console calls within console calls the stack has room for
    Sizes           \* lengths of console messages

ASSUME MaxCallsAssumption == MaxCalls \in Nat
ASSUME LogAssumption ==
    /\ MaxLogEntries \in Nat \ {0}
    /\ MaxLogSize \in Nat \ {0}
    /\ MaxDepth \in Nat \ {0}
    /\ Sizes \subseteq Nat

VARIABLES
    tool,          \* "search" or "execute"
    insecure,      \* the tenant turned TLS verification off
    phase,         \* "received", "running", "finished", "answered"
    logs,          \* what was pushed: "message" or truncation "notice"
    totalLogSize,
    open,          \* console calls that passed the test and have not pushed
    kept,          \* the length of the messages in logs
    omitted,       \* a console call returned at the test
    called,        \* callsMade > 0
    warned,        \* warnings is not empty
    data,          \* what kind of value the script gave, "none" before
    hostCalls,     \* the requests of each host call, as in AbstractCall
    answer         \* the tool result

console == <<logs, totalLogSize, open, kept, omitted>>
vars == <<avars, tool, insecure, phase, console, called, warned, data, hostCalls, answer>>

Host == INSTANCE AbstractCall WITH call <- hostCalls

\* Values by what formatToolResult makes of them; JSON.stringify throws on a
\* BigInt and gives a symbol no text.
DataKinds == {"undefined", "fits", "too_long", "unserializable"}

\* The parts of a result's content.
Parts == {"warnings", "console", "data", "cut", "error", "calls"}

Init ==
    /\ AInit
    /\ tool \in {"search", "execute"}
    /\ insecure \in BOOLEAN
    /\ phase = "received"
    /\ logs = <<>>
    /\ totalLogSize = 0
    /\ open = 0
    /\ kept = 0
    /\ omitted = FALSE
    /\ called = FALSE
    /\ warned = FALSE
    /\ data = "none"
    /\ hostCalls = [c \in Calls |-> Host!NewCall]
    /\ answer = [isError |-> FALSE, shows |-> {}]

-----------------------------------------------------------------------------
\* The handler before the script runs

ErrorResult == [isError |-> TRUE, shows |-> {"error"}]

Answer(r) ==
    /\ phase' = "answered"
    /\ answer' = r

\* The code is too long; execute has no tenant; the sandbox module does not
\* load, which makes execute() reject.
Reject ==
    /\ phase = "received"
    /\ Answer(ErrorResult)
    /\ UNCHANGED <<avars, tool, insecure, console, called, warned, data, hostCalls>>

Start ==
    /\ phase = "received"
    /\ phase' = "running"
    /\ UNCHANGED <<avars, tool, insecure, console, called, warned, data, hostCalls, answer>>

-----------------------------------------------------------------------------
\* setupConsole: the script calls console.log, info, warn or error

\* Mutated form: only the size is tested.
RoomInSize == totalLogSize < MaxLogSize

HasRoom == Len(logs) < MaxLogEntries /\ totalLogSize < MaxLogSize

OpenConsole ==
    /\ phase = "running"
    /\ open < MaxDepth
    /\ HasRoom
    /\ open' = open + 1
    /\ UNCHANGED <<avars, tool, insecure, phase, logs, totalLogSize, kept, omitted,
                   called, warned, data, hostCalls, answer>>

OmitMessage ==
    /\ phase = "running"
    /\ ~HasRoom
    /\ omitted' = TRUE
    /\ UNCHANGED <<avars, tool, insecure, phase, logs, totalLogSize, open, kept,
                   called, warned, data, hostCalls, answer>>

\* Mutated form: the size is tested before the message is added to it.
FullBefore(n) == totalLogSize > MaxLogSize

TooLong(n) == totalLogSize + n > MaxLogSize

\* The arguments are stringified; console calls they made are closed by then.
CloseConsole(n) ==
    /\ open > 0
    /\ open' = open - 1
    /\ totalLogSize' = totalLogSize + n
    /\ \/ /\ TooLong(n)
          /\ logs' = Append(logs, "notice")
          /\ UNCHANGED kept
       \/ /\ ~TooLong(n)
          /\ logs' = Append(logs, "message")
          /\ kept' = kept + n
    /\ UNCHANGED <<avars, tool, insecure, phase, omitted, called, warned, data,
                   hostCalls, answer>>

-----------------------------------------------------------------------------
\* Host calls

\* callsMade is increased first; the call is refused or fails before it sends
\* anything, with or without having built the client, which warns.
FailCall ==
    /\ phase = "running"
    /\ tool = "execute"
    /\ called' = TRUE
    /\ warned' \in {warned, warned \/ insecure}
    /\ UNCHANGED <<avars, tool, insecure, phase, console, data, hostCalls, answer>>

IssueCall(c) ==
    /\ phase = "running"
    /\ tool = "execute"
    /\ Issue(c)
    /\ hostCalls' = [hostCalls EXCEPT ![c] = Host!Sent(@)]
    /\ called' = TRUE
    /\ warned' = (warned \/ insecure)
    /\ UNCHANGED <<tool, insecure, phase, console, data, answer>>

\* A fetch settles or a retry is due, while the script runs or after it.
HostStep(c) ==
    /\ open = 0
    /\ \E k \in Host!Successors(hostCalls[c]) : hostCalls' = [hostCalls EXCEPT ![c] = k]
    /\ UNCHANGED <<avars, tool, insecure, phase, console, called, warned, data, answer>>

DeliverCall(c) ==
    /\ open = 0
    /\ hostCalls[c].phase = "settled"
    /\ Deliver(c)
    /\ UNCHANGED <<tool, insecure, phase, console, called, warned, data, hostCalls, answer>>

-----------------------------------------------------------------------------
\* The run ends and the handler formats its result

\* BaseSyncExecutor.execute knows values and errors only.
FinishRun(v) ==
    /\ phase = "running"
    /\ open = 0
    /\ tool = "search" => v \in {"value", "error"}
    /\ Finish(v)
    /\ IF v = "value" THEN data' \in DataKinds ELSE UNCHANGED data
    /\ phase' = "finished"
    /\ UNCHANGED <<tool, insecure, console, called, warned, hostCalls, answer>>

\* Mutated form: the line with the calls is part of a success.
SuccessParts ==
    {p \in Parts :
        CASE p = "warnings" -> warned
          [] p = "console"  -> logs # <<>>
          [] p = "data"     -> verdict = "value"
          [] p = "cut"      -> verdict = "value" /\ data = "too_long"
          [] p = "error"    -> verdict # "value"
          [] p = "calls"    -> verdict = "value" /\ called}

ResultParts ==
    {p \in Parts :
        CASE p = "warnings" -> warned
          [] p = "console"  -> logs # <<>>
          [] p = "data"     -> verdict = "value"
          [] p = "cut"      -> verdict = "value" /\ data = "too_long"
          [] p = "error"    -> verdict # "value"
          [] p = "calls"    -> called}

Unserializable == data = "unserializable"

\* formatToolResult throws: the handler's catch clause answers.
FormatFails ==
    /\ Unserializable
    /\ Answer(ErrorResult)

\* Mutated form: the result is formatted outside the try statement.
FormatEscapes ==
    /\ ~Unserializable
    /\ Answer([isError |-> verdict # "value", shows |-> ResultParts])

FormatToolResult ==
    \/ FormatFails
    \/ ~Unserializable /\ Answer([isError |-> verdict # "value", shows |-> ResultParts])

Reply ==
    /\ phase = "finished"
    /\ FormatToolResult
    /\ UNCHANGED <<avars, tool, insecure, console, called, warned, data, hostCalls>>

-----------------------------------------------------------------------------
DeadlinePasses ==
    /\ Expire
    /\ UNCHANGED <<tool, insecure, phase, console, called, warned, data, hostCalls, answer>>

Script ==
    \/ OpenConsole
    \/ OmitMessage
    \/ FailCall
    \/ \E c \in Calls : IssueCall(c)

Handler ==
    \/ Reject
    \/ Start
    \/ \E n \in Sizes : CloseConsole(n)
    \/ \E v \in Verdicts : FinishRun(v)
    \/ Reply

Next ==
    \/ Script
    \/ Handler
    \/ \E c \in Calls : HostStep(c) \/ DeliverCall(c)
    \/ DeadlinePasses

Spec == Init /\ [][Next]_vars

\* The handler's own steps, and that a run ends: ExecuteExecutor!Termination,
\* and the interrupt handler for a search. No host call need settle.
FairSpec == Spec /\ WF_vars(Handler)

-----------------------------------------------------------------------------
CallStates ==
    [phase : {"idle", "open", "waiting", "settled"}, sent : 0..2, refused : 0..2]

TypeOK ==
    /\ tool \in {"search", "execute"}
    /\ insecure \in BOOLEAN /\ omitted \in BOOLEAN /\ called \in BOOLEAN /\ warned \in BOOLEAN
    /\ phase \in {"received", "running", "finished", "answered"}
    /\ verdict \in Verdicts \cup {"none"}
    /\ issued \subseteq Calls /\ delivered \subseteq issued
    /\ logs \in Seq({"message", "notice"})
    /\ totalLogSize \in Nat /\ kept \in Nat
    /\ open \in 0..MaxDepth
    /\ data \in DataKinds \cup {"none"}
    /\ hostCalls \in [Calls -> CallStates]
    /\ answer \in [isError : BOOLEAN, shows : SUBSET Parts]

\* A script cannot make the output of its tool grow without bound, although
\* the limits are tested before the arguments of console run script code: the
\* calls that were under way at the limit add one entry each.
ConsoleBounded ==
    /\ Len(logs) <= MaxLogEntries + MaxDepth - 1
    /\ kept <= MaxLogSize

\* Console output that is cut says so: where a message was too long a notice
\* stands in its place and nothing but notices follows. Messages disappear
\* unmentioned only when one of the two limits was met exactly.
CutsAreAnnounced ==
    /\ \A i \in 1..Len(logs) : logs[i] = "notice" =>
          \A j \in i..Len(logs) : logs[j] = "notice"
    /\ totalLogSize > kept => logs # <<>> /\ logs[Len(logs)] = "notice"
    /\ omitted => \/ totalLogSize > kept
                  \/ Len(logs) >= MaxLogEntries
                  \/ totalLogSize = MaxLogSize

\* Over the life of a tool call, its late retries included, the Unraid server
\* accepts or leaves open at most MaxCalls requests, and none of them twice:
\* the budget of the sandbox bounds what the client's retries can do.
AcceptedWithinBudget ==
    /\ Cardinality({c \in Calls : hostCalls[c].sent > hostCalls[c].refused}) <= MaxCalls
    /\ \A c \in Calls : hostCalls[c].sent <= hostCalls[c].refused + 1

\* However a script ends, its caller learns what it did until then: that
\* requests were sent, that they were sent without TLS verification, what it
\* logged. The exception is a value JSON cannot express.
AnswerAccountsForRun ==
    phase = "answered" /\ ~Unserializable =>
        /\ answer.isError <=> verdict # "value"
        /\ issued # {} => "calls" \in answer.shows
        /\ issued # {} /\ insecure => "warnings" \in answer.shows
        /\ logs # <<>> => "console" \in answer.shows

\* Every tool call is answered, although the server need never answer.
CallAnswered == <>(phase = "answered")

-----------------------------------------------------------------------------
\* The inductive invariant.

PhaseInv ==
    /\ phase = "received" => logs = <<>> /\ issued = {}
    /\ phase \in {"received", "running"} => verdict = "none" /\ data = "none"
    /\ phase = "finished" => verdict # "none"
    /\ phase # "running" => open = 0

\* Console calls that passed the test share the room they saw.
ConsoleInv ==
    /\ open > 0 => Len(logs) + open <= MaxLogEntries + MaxDepth - 1
    /\ Len(logs) <= MaxLogEntries + MaxDepth - 1
    /\ kept <= totalLogSize /\ kept <= MaxLogSize
    /\ totalLogSize = kept \/ totalLogSize > MaxLogSize
    /\ \A i \in 1..Len(logs) : logs[i] = "notice" => totalLogSize > MaxLogSize

\* Every request but the last was refused; a call waits after one refusal.
CallOK(k) ==
    /\ k.phase # "idle"
    /\ k.sent <= k.refused + 1 /\ k.refused <= k.sent
    /\ k.phase = "open" => k.sent = k.refused + 1
    /\ k.phase = "waiting" => k.sent = 1 /\ k.refused = 1

CallInv ==
    /\ IsFiniteSet(issued) /\ Cardinality(issued) <= MaxCalls
    /\ \A c \in Calls \ issued : hostCalls[c] = Host!NewCall
    /\ \A c \in issued : CallOK(hostCalls[c])
    /\ issued # {} => called /\ (insecure => warned)

Inv ==
    /\ TypeOK
    /\ PhaseInv
    /\ ConsoleInv
    /\ CallInv
=============================================================================
