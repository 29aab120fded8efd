-------------------------- MODULE ExecuteExecutor --------------------------
(* One invocation of ExecuteExecutor.execute (sandbox/execute-executor.ts):  *)
(* a QuickJS context runs a script, the script's calls cross a bridge to the *)
(* host, and a drain loop alternates sandbox microtasks with yields to the   *)
(* host event loop until it can give a verdict.                              *)
(*                                                                           *)
(* Everything runs on one JavaScript thread. pc names what holds it:         *)
(*   "load"     waiting for the WASM module                                  *)
(*   "eval"     evalCode of the script                                       *)
(*   "check"    top of the drain loop                                        *)
(*   "drain"    inside executePendingJobs                                    *)
(*   "drained"  executePendingJobs has returned                              *)
(*   "yield"    await setImmediate: host callbacks run                       *)
(*   "settle"   a host callback runs a script function (callFunction)        *)
(*   "finally"  a result is chosen, the finally block is next                *)
(*   "returned" the result is delivered; host callbacks may still run        *)
EXTENDS Naturals, FiniteSets

CONSTANTS
    Calls,     \* identities of the bridge calls the script may make
    MaxCalls,  \* limits.maxCallsPerExecute
    Batch,     \* the argument of executePendingJobs, 64 in the code
    MaxJobs    \* bound of the model: sandbox microtasks queued at once

ASSUME MaxCallsAssumption == MaxCalls \in Nat
ASSUME BatchAssumption == Batch \in Nat \ {0}
ASSUME MaxJobsAssumption == MaxJobs \in Nat

VARIABLES
    pc,
    status,     \* what became of each call
    pending,    \* the Set<PendingHostCall>: calls whose handle pair the host owns
    disposals,  \* how often each call's handle pair was disposed
    jobs,       \* microtasks queued in the sandbox runtime
    drained,    \* jobs run by the current executePendingJobs
    promise,    \* state of the script's completion value, "none" if not a Promise
    callsMade,
    issued,     \* calls whose request was handed to fetch
    context,    \* "none", "alive" or "disposed"
    expired,    \* Date.now() > startTime + limits.timeoutMs
    result      \* "none" until a return statement is reached

vars == <<pc, status, pending, disposals, jobs, drained, promise, callsMade,
          issued, context, expired, result>>
sandbox == <<jobs, drained, promise>>
bridge == <<status, pending, disposals, callsMade, issued>>

Phases == {"load", "eval", "check", "drain", "drained", "yield", "settle",
           "finally", "returned"}
\* "refused": over budget, its rejection waits in a host microtask.
\* "failed":  threw before fetch (no spec, no credentials, unknown operation,
\*            missing selection), its rejection waits in a host microtask.
\* "dropped": its answer came after the handles were gone and was ignored.
Statuses == {"unused", "refused", "failed", "inflight", "settling",
             "answered", "dropped"}
InMicrotask == {"refused", "failed"}
Unanswered == InMicrotask \cup {"inflight"}
Results == {"none", "value", "error", "deadlock", "timeout"}

Init ==
    /\ pc = "load"
    /\ status = [c \in Calls |-> "unused"]
    /\ pending = {}
    /\ disposals = [c \in Calls |-> 0]
    /\ jobs = 0
    /\ drained = 0
    /\ promise = "none"
    /\ callsMade = 0
    /\ issued = {}
    /\ context = "none"
    /\ expired = FALSE
    /\ result = "none"

Return(r) ==
    /\ result' = r
    /\ pc' = "finally"

-----------------------------------------------------------------------------
\* Setting up

\* The module resolves, the context gets its limits, console, bridges, prelude.
LoadAndSetup ==
    /\ pc = "load"
    /\ context' = "alive"
    /\ pc' = "eval"
    /\ UNCHANGED <<bridge, sandbox, expired, result>>

\* setupConsole, bindLocalFunctions or the prelude throws: caught, ok: false.
SetupFails ==
    /\ pc = "load"
    /\ context' = "alive"
    /\ Return("error")
    /\ UNCHANGED <<bridge, sandbox, expired>>

\* The await is outside the try: execute rejects and the tool handler answers
\* with errorResult; there is no context to dispose.
LoadFails ==
    /\ pc = "load"
    /\ pc' = "returned"
    /\ result' = "error"
    /\ UNCHANGED <<bridge, sandbox, context, expired>>

-----------------------------------------------------------------------------
\* What script code may do while it runs: during evalCode, in a job, in a
\* resolve/reject function the host called, or in a toJSON method or a getter
\* that context.dump runs when it copies the settled value out.

InScript ==
    \/ pc \in {"eval", "settle"}
    \/ pc = "drain" /\ drained > 0
    \/ pc = "check" /\ promise # "pending"

\* Mutated form: the budget is tested before the counter moves.
BudgetTestedFirst == callsMade > MaxCalls

OverBudget == callsMade + 1 > MaxCalls

\* startCall: own the handles, count the call, then refuse it or run work()
\* up to its first await, which either throws or hands a request to fetch.
StartCall(c) ==
    /\ InScript
    /\ status[c] = "unused"
    /\ pending' = pending \cup {c}
    /\ callsMade' = callsMade + 1
    /\ \/ /\ OverBudget
          /\ status' = [status EXCEPT ![c] = "refused"]
          /\ UNCHANGED issued
       \/ /\ ~OverBudget
          /\ status' = [status EXCEPT ![c] = "failed"]
          /\ UNCHANGED issued
       \/ /\ ~OverBudget
          /\ status' = [status EXCEPT ![c] = "inflight"]
          /\ issued' = issued \cup {c}
    /\ UNCHANGED <<pc, disposals, sandbox, context, expired, result>>

QueueJob ==
    /\ InScript
    /\ jobs < MaxJobs
    /\ jobs' = jobs + 1
    /\ UNCHANGED <<pc, bridge, drained, promise, context, expired, result>>

\* A job or a callback settles the promise evalCode returned.
SettlePromise(p) ==
    /\ InScript
    /\ promise = "pending"
    /\ promise' = p
    /\ UNCHANGED <<pc, bridge, jobs, drained, context, expired, result>>

-----------------------------------------------------------------------------
\* The completion of evalCode

EvalThrows ==
    /\ pc = "eval"
    /\ Return("error")
    /\ UNCHANGED <<bridge, sandbox, context, expired>>

\* A primitive, or an object that is not a Promise, is the result at once.
EvalReturnsPlainValue ==
    /\ pc = "eval"
    /\ Return("value")
    /\ UNCHANGED <<bridge, sandbox, context, expired>>

EvalReturnsPromise(p) ==
    /\ pc = "eval"
    /\ promise' = p
    /\ pc' = "check"
    /\ UNCHANGED <<bridge, jobs, drained, context, expired, result>>

-----------------------------------------------------------------------------
\* The drain loop

CheckSettled ==
    /\ pc = "check"
    /\ \/ promise = "fulfilled" /\ Return("value")
       \/ promise = "rejected" /\ Return("error")
    /\ UNCHANGED <<bridge, sandbox, context, expired>>

CheckPending ==
    /\ pc = "check"
    /\ promise = "pending"
    /\ pc' = "drain"
    /\ drained' = 0
    /\ UNCHANGED <<bridge, jobs, promise, context, expired, result>>

BatchHasRoom == drained < Batch

RunJob ==
    /\ pc = "drain"
    /\ jobs > 0
    /\ BatchHasRoom
    /\ jobs' = jobs - 1
    /\ drained' = drained + 1
    /\ UNCHANGED <<pc, bridge, promise, context, expired, result>>

\* A job is interrupted at the deadline or hits the memory limit: drain.error.
DrainFails ==
    /\ pc = "drain"
    /\ drained > 0
    /\ Return("error")
    /\ UNCHANGED <<bridge, sandbox, context, expired>>

DrainEnds ==
    /\ pc = "drain"
    /\ jobs = 0 \/ drained = Batch
    /\ pc' = "drained"
    /\ UNCHANGED <<bridge, sandbox, context, expired, result>>

\* Mutated form: calls that are still pending are forgotten.
NoJobRan == drained = 0

NothingLeft == drained = 0 /\ pending = {}

ReportDeadlock ==
    /\ pc = "drained"
    /\ NothingLeft
    /\ Return("deadlock")
    /\ UNCHANGED <<bridge, sandbox, context, expired>>

\* Mutated form: the loop trusts the host to answer.
NeverPassed == FALSE

DeadlinePassed == expired

ReportTimeout ==
    /\ pc = "drained"
    /\ ~NothingLeft
    /\ DeadlinePassed
    /\ Return("timeout")
    /\ UNCHANGED <<bridge, sandbox, context, expired>>

Yield ==
    /\ pc = "drained"
    /\ ~NothingLeft
    /\ ~DeadlinePassed
    /\ pc' = "yield"
    /\ UNCHANGED <<bridge, sandbox, context, expired, result>>

\* setImmediate fires in a later macrotask, after every queued microtask.
Resume ==
    /\ pc = "yield"
    /\ \A c \in Calls : status[c] \notin InMicrotask
    /\ pc' = "check"
    /\ UNCHANGED <<bridge, sandbox, context, expired, result>>

-----------------------------------------------------------------------------
\* Host callbacks: the continuation of work(), or the microtask that carries a
\* refusal. They run when execute has yielded and after it has returned.

\* Mutated form: the callback trusts its closure and does not look.
TrustClosure(c) == TRUE

StillPending(c) == c \in pending

\* settleResolve / settleReject up to the call of the script's function.
SettleBegins(c) ==
    /\ pc \in {"yield", "returned"}
    /\ status[c] \in Unanswered
    /\ StillPending(c)
    /\ status' = [status EXCEPT ![c] = "settling"]
    /\ pc' = "settle"
    /\ UNCHANGED <<pending, disposals, callsMade, issued, sandbox, context,
                   expired, result>>

\* Mutated forms: the handles are disposed, the entry stays in the set; the
\* whole set is cleared with the entry.
ForgetDelete(c) == pending
ClearAll(c) == {}

WithoutCall(c) == pending \ {c}

\* callFunction is back, normally or with an error that is disposed unread;
\* the finally clause gives up the handles and the entry.
SettleEnds(c) ==
    /\ pc = "settle"
    /\ status[c] = "settling"
    /\ status' = [status EXCEPT ![c] = "answered"]
    /\ disposals' = [disposals EXCEPT ![c] = @ + 1]
    /\ pending' = WithoutCall(c)
    /\ pc' = "yield"
    /\ UNCHANGED <<callsMade, issued, sandbox, context, expired, result>>

DropAnswer(c) ==
    /\ pc \in {"yield", "returned"}
    /\ status[c] \in Unanswered
    /\ ~StillPending(c)
    /\ status' = [status EXCEPT ![c] = "dropped"]
    /\ UNCHANGED <<pc, pending, disposals, callsMade, issued, sandbox, context,
                   expired, result>>

-----------------------------------------------------------------------------
\* The outer finally: free what never settled, then the context.

\* Mutated form: nothing but the context is freed.
FreeNone == {}

HandlesToFree == pending

Finally ==
    /\ pc = "finally"
    /\ disposals' = [c \in Calls |->
                        disposals[c] + (IF c \in HandlesToFree THEN 1 ELSE 0)]
    /\ pending' = {}
    /\ context' = "disposed"
    /\ pc' = "returned"
    /\ UNCHANGED <<status, callsMade, issued, sandbox, expired, result>>

\* Wall-clock time passes on its own.
Expire ==
    /\ ~expired
    /\ expired' = TRUE
    /\ UNCHANGED <<pc, bridge, sandbox, context, result>>

-----------------------------------------------------------------------------

Script ==
    \/ \E c \in Calls : StartCall(c)
    \/ QueueJob
    \/ \E p \in {"fulfilled", "rejected"} : SettlePromise(p)

Executor ==
    \/ LoadAndSetup
    \/ SetupFails
    \/ LoadFails
    \/ EvalThrows
    \/ EvalReturnsPlainValue
    \/ \E p \in {"pending", "fulfilled", "rejected"} : EvalReturnsPromise(p)
    \/ CheckSettled
    \/ CheckPending
    \/ RunJob
    \/ DrainFails
    \/ DrainEnds
    \/ ReportDeadlock
    \/ ReportTimeout
    \/ Yield
    \/ Resume
    \/ \E c \in Calls : SettleEnds(c)
    \/ Finally

HostCallback(c) == SettleBegins(c) \/ DropAnswer(c)

Next ==
    \/ Script
    \/ Executor
    \/ \E c \in Calls : HostCallback(c)
    \/ Expire

Spec == Init /\ [][Next]_vars

\* The thread is never abandoned and the clock runs. A queued microtask runs
\* before the thread can idle. Nothing makes the Unraid server answer: an
\* inflight call may stay so for ever.
Fairness ==
    /\ WF_vars(Executor)
    /\ WF_vars(Expire)
    /\ \A c \in Calls : WF_vars(status[c] \in InMicrotask /\ HostCallback(c))

FairSpec == Spec /\ Fairness

-----------------------------------------------------------------------------
TypeOK ==
    /\ pc \in Phases
    /\ status \in [Calls -> Statuses]
    /\ pending \subseteq Calls
    /\ disposals \in [Calls -> Nat]
    /\ jobs \in 0..MaxJobs
    /\ drained \in 0..Batch
    /\ promise \in {"none", "pending", "fulfilled", "rejected"}
    /\ callsMade \in Nat
    /\ issued \subseteq Calls
    /\ context \in {"none", "alive", "disposed"}
    /\ expired \in BOOLEAN
    /\ result \in Results

\* The request budget holds whatever the script does: in evalCode, in jobs and
\* inside the resolve functions the host calls (callBudgetGuard in startCall).
BudgetBoundsRequests == Cardinality(issued) <= MaxCalls

\* No handle pair is disposed twice, by settleResolve/settleReject and by the
\* finally block, and none survives the context it belongs to.
HandlesDisposedOnce ==
    /\ \A c \in Calls : disposals[c] <= 1
    /\ pc = "returned" =>
          \A c \in Calls : status[c] # "unused" => disposals[c] = 1

\* When the loop reports a deadlock, nothing is left that could have settled
\* the promise: no answer to come, no refusal on its way, no job queued, and
\* the last drain did not settle it.
DeadlockVerdictSound ==
    result = "deadlock" =>
        /\ promise = "pending"
        /\ jobs = 0
        /\ \A c \in Calls : status[c] \notin Unanswered \cup {"dropped"}

\* An answer is ignored only if it comes after execute has returned.
NoAnswerLostWhileRunning ==
    (\E c \in Calls : status[c] = "dropped") => pc = "returned"

\* Once the context is disposed, the callbacks of fetches that were still in
\* flight leave the sandbox, the handles and the result alone.
FrozenAfterReturn ==
    [][context = "disposed" =>
        UNCHANGED <<sandbox, pending, disposals, callsMade, issued, context,
                    result, pc>>]_vars

\* execute returns although no server need ever answer.
Termination == <>(pc = "returned")

-----------------------------------------------------------------------------
\* The inductive invariant.

\* Where the thread is tells whether there is a context and a result.
ControlInv ==
    /\ pc = "load" <=> result = "none" /\ context = "none"
    /\ pc \in {"finally", "returned"} <=> result # "none"
    /\ context = "disposed" => pc = "returned"
    /\ pc = "returned" => context # "alive"
    /\ context = "none" => \A c \in Calls : status[c] = "unused"

\* The pending set holds exactly the calls the host still owes a disposal.
HandleInv ==
    /\ \A c \in Calls :
        /\ disposals[c] =
              IF status[c] = "unused" \/ c \in pending THEN 0 ELSE 1
        /\ c \in pending => status[c] \in Unanswered \cup {"settling"}
        /\ status[c] \in Unanswered /\ pc # "returned" => c \in pending
        /\ status[c] = "settling" => c \in pending /\ pc = "settle"
        /\ status[c] = "dropped" => pc = "returned"
    /\ \A c, d \in Calls :
        status[c] = "settling" /\ status[d] = "settling" => c = d
    /\ pc = "returned" => pending = {}

\* A drain that ran nothing found the queue empty and the promise pending.
DrainInv ==
    /\ pc \in {"drain", "drained"} /\ drained = 0 => promise = "pending"
    /\ pc = "drained" /\ drained = 0 => jobs = 0

\* An issued request is in flight or dealt with, and was paid for.
BudgetInv ==
    /\ IsFiniteSet(issued)
    /\ Cardinality(issued) <= callsMade
    /\ Cardinality(issued) <= MaxCalls
    /\ \A c \in issued :
          status[c] \in {"inflight", "settling", "answered", "dropped"}

Inv ==
    /\ TypeOK
    /\ ControlInv
    /\ HandleInv
    /\ DrainInv
    /\ BudgetInv
    /\ DeadlockVerdictSound

-----------------------------------------------------------------------------
\* Refinement: what the caller and the Unraid server can see of a run.

Delivered == {c \in issued : status[c] \in {"settling", "answered"}}

Abstract == INSTANCE AbstractExecute
    WITH verdict <- result, delivered <- Delivered, late <- expired

\* Every run of the executor is a run of AbstractExecute.
ImplementsAbstract == Abstract!ASpec
=============================================================================
