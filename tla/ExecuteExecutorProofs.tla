----------------------- MODULE ExecuteExecutorProofs -----------------------
(* Proofs about ExecuteExecutor for every set of calls, every budget, every  *)
(* batch size and every bound on queued jobs.                                *)
EXTENDS ExecuteExecutor, FiniteSetTheorems, TLAPS

\* In the initial states nothing has been called, so every part of the
\* inductive invariant holds.
LEMMA InitInv == Init => Inv
<1> SUFFICES ASSUME Init PROVE Inv
    OBVIOUS
<1> USE MaxCallsAssumption, BatchAssumption, MaxJobsAssumption
    DEF Init, MaxCallsAssumption, BatchAssumption, MaxJobsAssumption
<1>1. TypeOK
    <2>1. jobs \in 0..MaxJobs /\ drained \in 0..Batch
        OBVIOUS
    <2>2. /\ status \in [Calls -> Statuses]
          /\ disposals \in [Calls -> Nat]
        BY DEF Statuses
    <2>3. expired \in BOOLEAN
        OBVIOUS
    <2> QED
        BY <2>1, <2>2, <2>3 DEF TypeOK, Phases, Results
<1>2. ControlInv
    BY DEF ControlInv
<1>3. HandleInv
    BY DEF HandleInv, Unanswered, InMicrotask
<1>4. DrainInv
    BY DEF DrainInv
<1>5. BudgetInv
    BY FS_EmptySet DEF BudgetInv
<1>6. DeadlockVerdictSound
    BY DEF DeadlockVerdictSound
<1> QED
    BY <1>1, <1>2, <1>3, <1>4, <1>5, <1>6 DEF Inv

\* startCall: the only step that issues a request or takes a handle pair.
LEMMA StartCallInv ==
    ASSUME Inv, NEW c \in Calls, StartCall(c)
    PROVE  Inv'
<1> USE MaxCallsAssumption, BatchAssumption, MaxJobsAssumption
    DEF MaxCallsAssumption, BatchAssumption, MaxJobsAssumption
<1> USE DEF Inv, StartCall, InScript, sandbox
<1>1. TypeOK'
    BY DEF TypeOK, Phases, Statuses, Results
<1>2. ControlInv'
    BY DEF ControlInv, TypeOK
<1>3. HandleInv'
    BY DEF HandleInv, TypeOK, ControlInv, Unanswered, InMicrotask
<1>4. DrainInv'
    BY DEF DrainInv
<1>5. BudgetInv'
    <2>1. c \notin issued
        BY DEF BudgetInv
    <2>2. CASE issued' = issued
        <3>1. \A d \in issued : status'[d] = status[d]
            BY <2>1 DEF TypeOK
        <3> QED
            BY <2>2, <3>1, FS_CardinalityType DEF BudgetInv, TypeOK
    <2>3. CASE ~OverBudget /\ status' = [status EXCEPT ![c] = "inflight"]
                           /\ issued' = issued \cup {c}
        <3>1. /\ IsFiniteSet(issued')
              /\ Cardinality(issued') = Cardinality(issued) + 1
            BY <2>1, <2>3, FS_AddElement DEF BudgetInv
        <3>2. Cardinality(issued) \in Nat
            BY FS_CardinalityType DEF BudgetInv
        <3>3. callsMade + 1 <= MaxCalls
            BY <2>3 DEF OverBudget, TypeOK
        <3>4. \A d \in issued' :
                 status'[d] \in {"inflight", "settling", "answered", "dropped"}
            BY <2>3 DEF BudgetInv, TypeOK
        <3> QED
            BY <3>1, <3>2, <3>3, <3>4 DEF BudgetInv, TypeOK
    <2> QED
        BY <2>2, <2>3
<1>6. DeadlockVerdictSound'
    BY DEF DeadlockVerdictSound, ControlInv
<1> QED
    BY <1>1, <1>2, <1>3, <1>4, <1>5, <1>6

\* The other steps of the script touch the sandbox alone.
LEMMA ScriptInv ==
    ASSUME Inv, Script
    PROVE  Inv'
<1> USE MaxCallsAssumption, BatchAssumption, MaxJobsAssumption
    DEF MaxCallsAssumption, BatchAssumption, MaxJobsAssumption
<1>1. ASSUME NEW c \in Calls, StartCall(c) PROVE Inv'
    BY <1>1, StartCallInv
<1>2. CASE QueueJob
    BY <1>2 DEF QueueJob, InScript, bridge, Inv, TypeOK, ControlInv, HandleInv,
        DrainInv, BudgetInv, DeadlockVerdictSound, Phases, Unanswered, InMicrotask
<1>3. ASSUME NEW p \in {"fulfilled", "rejected"}, SettlePromise(p) PROVE Inv'
    BY <1>3 DEF SettlePromise, InScript, bridge, Inv, TypeOK, ControlInv, HandleInv,
        DrainInv, BudgetInv, DeadlockVerdictSound, Phases, Unanswered, InMicrotask
<1> QED
    BY <1>1, <1>2, <1>3 DEF Script
\* Loading the module, running the script and leaving evalCode: no host
\* callback can have run yet.
LEMMA EvalInv ==
    ASSUME Inv,
           \/ LoadAndSetup \/ SetupFails \/ LoadFails
           \/ EvalThrows \/ EvalReturnsPlainValue
           \/ \E p \in {"pending", "fulfilled", "rejected"} : EvalReturnsPromise(p)
    PROVE  Inv'
<1> USE MaxCallsAssumption, BatchAssumption, MaxJobsAssumption
    DEF MaxCallsAssumption, BatchAssumption, MaxJobsAssumption
<1> USE DEF Inv, TypeOK, ControlInv, HandleInv, DrainInv, BudgetInv,
        DeadlockVerdictSound, Phases, Results, Unanswered, InMicrotask,
        Return, bridge, sandbox
<1>1. CASE LoadAndSetup
    BY <1>1 DEF LoadAndSetup
<1>2. CASE SetupFails
    BY <1>2 DEF SetupFails
<1>3. CASE LoadFails
    BY <1>3 DEF LoadFails
<1>4. CASE EvalThrows
    BY <1>4 DEF EvalThrows
<1>5. CASE EvalReturnsPlainValue
    BY <1>5 DEF EvalReturnsPlainValue
<1>6. ASSUME NEW p \in {"pending", "fulfilled", "rejected"}, EvalReturnsPromise(p)
      PROVE  Inv'
    BY <1>6 DEF EvalReturnsPromise
<1> QED
    BY <1>1, <1>2, <1>3, <1>4, <1>5, <1>6

\* One turn of the drain loop, up to its verdict or its yield.
LEMMA DrainLoopInv ==
    ASSUME Inv,
           \/ CheckSettled \/ CheckPending \/ RunJob \/ DrainFails \/ DrainEnds
           \/ ReportDeadlock \/ ReportTimeout \/ Yield \/ Resume
    PROVE  Inv'
<1> USE MaxCallsAssumption, BatchAssumption, MaxJobsAssumption
    DEF MaxCallsAssumption, BatchAssumption, MaxJobsAssumption
<1> USE DEF Inv, TypeOK, ControlInv, HandleInv, DrainInv, BudgetInv,
        DeadlockVerdictSound, Phases, Results, Unanswered, InMicrotask,
        Return, bridge, sandbox
<1>1. CASE CheckSettled
    BY <1>1 DEF CheckSettled
<1>2. CASE CheckPending
    BY <1>2 DEF CheckPending
<1>3. CASE RunJob
    BY <1>3 DEF RunJob, BatchHasRoom
<1>4. CASE DrainFails
    BY <1>4 DEF DrainFails
<1>5. CASE DrainEnds
    BY <1>5 DEF DrainEnds
<1>6. CASE ReportDeadlock
    BY <1>6 DEF ReportDeadlock, NothingLeft
<1>7. CASE ReportTimeout
    BY <1>7 DEF ReportTimeout, DeadlinePassed
<1>8. CASE Yield
    BY <1>8 DEF Yield
<1>9. CASE Resume
    BY <1>9 DEF Resume
<1> QED
    BY <1>1, <1>2, <1>3, <1>4, <1>5, <1>6, <1>7, <1>8, <1>9

\* Settling a call, dropping a late answer, and the finally block.
LEMMA HandleStepsInv ==
    ASSUME Inv,
           \/ \E c \in Calls : SettleBegins(c) \/ SettleEnds(c) \/ DropAnswer(c)
           \/ Finally
    PROVE  Inv'
<1> USE MaxCallsAssumption, BatchAssumption, MaxJobsAssumption
    DEF MaxCallsAssumption, BatchAssumption, MaxJobsAssumption
<1> USE DEF Inv, TypeOK, ControlInv, HandleInv, DrainInv, BudgetInv,
        DeadlockVerdictSound, Phases, Statuses, Results, Unanswered,
        InMicrotask, bridge, sandbox
<1>1. ASSUME NEW c \in Calls, SettleBegins(c) PROVE Inv'
    BY <1>1 DEF SettleBegins, StillPending
<1>2. ASSUME NEW c \in Calls, SettleEnds(c) PROVE Inv'
    BY <1>2 DEF SettleEnds, WithoutCall
<1>3. ASSUME NEW c \in Calls, DropAnswer(c) PROVE Inv'
    BY <1>3 DEF DropAnswer, StillPending
<1>4. CASE Finally
    BY <1>4 DEF Finally, HandlesToFree
<1> QED
    BY <1>1, <1>2, <1>3, <1>4

\* Every step of the executor, of the script, of the host and of the clock
\* preserves the inductive invariant.
LEMMA NextInv == Inv /\ [Next]_vars => Inv'
<1> SUFFICES ASSUME Inv, [Next]_vars PROVE Inv'
    OBVIOUS
<1>1. CASE Script
    BY <1>1, ScriptInv
<1>2. CASE Executor
    BY <1>2, EvalInv, DrainLoopInv, HandleStepsInv DEF Executor
<1>3. ASSUME NEW c \in Calls, HostCallback(c) PROVE Inv'
    BY <1>3, HandleStepsInv DEF HostCallback
<1>4. CASE Expire
    BY <1>4 DEF Expire, Inv, TypeOK, ControlInv, HandleInv, DrainInv, BudgetInv,
        DeadlockVerdictSound, bridge, sandbox
<1>5. CASE UNCHANGED vars
    BY <1>5 DEF vars, Inv, TypeOK, ControlInv, HandleInv, DrainInv, BudgetInv,
        DeadlockVerdictSound
<1> QED
    BY <1>1, <1>2, <1>3, <1>4, <1>5 DEF Next
\* The inductive invariant holds in every reachable state.
THEOREM Invariance == Spec => []Inv
<1>1. Init => Inv
    BY InitInv
<1>2. Inv /\ [Next]_vars => Inv'
    BY NextInv
<1> QED
    BY <1>1, <1>2, PTL DEF Spec

\* Every variable of the executor keeps its type.
THEOREM TypeCorrect == Spec => []TypeOK
<1>1. Inv => TypeOK
    BY DEF Inv
<1> QED
    BY <1>1, Invariance, PTL

\* However the script spreads its calls over evalCode, jobs and callbacks, at
\* most MaxCalls requests reach fetch (callBudgetGuard).
THEOREM BudgetBounded == Spec => []BudgetBoundsRequests
<1>1. Inv => BudgetBoundsRequests
    BY DEF Inv, BudgetInv, BudgetBoundsRequests
<1> QED
    BY <1>1, Invariance, PTL

\* Each resolve/reject pair is disposed at most once, and exactly once by the
\* time execute returns.
THEOREM HandlesDisposed == Spec => []HandlesDisposedOnce
<1>1. Inv => HandlesDisposedOnce
    BY DEF Inv, TypeOK, HandleInv, HandlesDisposedOnce
<1> QED
    BY <1>1, Invariance, PTL

\* A reported deadlock is a real one: nothing could have settled the promise.
THEOREM DeadlockVerdictIsSound == Spec => []DeadlockVerdictSound
<1>1. Inv => DeadlockVerdictSound
    BY DEF Inv
<1> QED
    BY <1>1, Invariance, PTL

\* The pending-set check drops no answer while the script is running.
THEOREM AnswersReachTheScript == Spec => []NoAnswerLostWhileRunning
<1>1. Inv => NoAnswerLostWhileRunning
    BY DEF Inv, HandleInv, NoAnswerLostWhileRunning
<1> QED
    BY <1>1, Invariance, PTL

\* After the context is disposed only late answers and the clock move, and
\* they change nothing the sandbox, the host bridge or the caller can see.
LEMMA FrozenStep ==
    ASSUME Inv, [Next]_vars, context = "disposed"
    PROVE  UNCHANGED <<sandbox, pending, disposals, callsMade, issued, context,
                       result, pc>>
<1>1. pc = "returned" /\ pending = {}
    BY DEF Inv, ControlInv, HandleInv
<1>2. \A c \in Calls : status[c] # "settling"
    BY <1>1 DEF Inv, HandleInv
<1>3. ~Script
    BY <1>1 DEF Script, StartCall, QueueJob, SettlePromise, InScript
<1>4. ~Executor
    BY <1>1 DEF Executor, LoadAndSetup, SetupFails, LoadFails, EvalThrows,
        EvalReturnsPlainValue, EvalReturnsPromise, CheckSettled, CheckPending,
        RunJob, DrainFails, DrainEnds, ReportDeadlock, ReportTimeout, Yield,
        Resume, SettleEnds, Finally
<1>5. ASSUME NEW c \in Calls, HostCallback(c)
      PROVE  UNCHANGED <<sandbox, pending, disposals, callsMade, issued, context,
                         result, pc>>
    BY <1>1, <1>5 DEF HostCallback, SettleBegins, DropAnswer, StillPending, sandbox
<1>6. CASE Expire
    BY <1>6 DEF Expire, bridge, sandbox
<1>7. CASE UNCHANGED vars
    BY <1>7 DEF vars, sandbox
<1> QED
    BY <1>3, <1>4, <1>5, <1>6, <1>7 DEF Next

\* Late host callbacks change nothing but their own status.
THEOREM Frozen == Spec => FrozenAfterReturn
<1>1. Inv /\ [Next]_vars =>
        [context = "disposed" =>
            UNCHANGED <<sandbox, pending, disposals, callsMade, issued, context,
                        result, pc>>]_vars
    BY FrozenStep
<1> QED
    BY <1>1, Invariance, PTL DEF Spec, FrozenAfterReturn

-----------------------------------------------------------------------------
\* Refinement

\* Initially nothing is issued and there is no verdict.
LEMMA AbstractInit == Init => Abstract!AInit
    BY DEF Init, Abstract!AInit, Delivered

\* A step that keeps result, issued, expired and the answers delivered to the
\* script is a stutter of the abstract specification.
LEMMA AbstractStutter ==
    ASSUME UNCHANGED <<status, issued, result, expired>>
    PROVE  UNCHANGED Abstract!avars
    BY DEF Abstract!avars, Delivered

\* A step of the executor that returns a result is Finish.
LEMMA ReturnIsFinish ==
    ASSUME Inv, NEW r \in {"value", "error", "deadlock", "timeout"},
           result = "none", result' = r,
           UNCHANGED <<status, issued, expired>>,
           r = "deadlock" => \A c \in Calls : status[c] \notin Unanswered,
           r = "timeout" => expired
    PROVE  Abstract!ANext
<1>1. r \in Abstract!Verdicts
    BY DEF Abstract!Verdicts
<1>2. Delivered' = Delivered
    BY DEF Delivered
<1>3. r = "deadlock" => Delivered = issued
    <2> SUFFICES ASSUME r = "deadlock", NEW c \in issued
                 PROVE  status[c] \in {"settling", "answered"}
        BY DEF Delivered
    <2>1. status[c] \in {"inflight", "settling", "answered", "dropped"}
        BY DEF Inv, BudgetInv
    <2>2. c \in Calls
        BY DEF Inv, TypeOK
    <2>3. pc # "returned"
        BY DEF Inv, ControlInv
    <2> QED
        BY <2>1, <2>2, <2>3 DEF Inv, HandleInv, Unanswered
<1>4. Abstract!Finish(r)
    BY <1>2, <1>3 DEF Abstract!Finish
<1> QED
    BY <1>1, <1>4 DEF Abstract!ANext

\* Inside the script only a dispatched call is visible outside: it is Issue.
LEMMA ScriptRefines ==
    ASSUME Inv, Script
    PROVE  [Abstract!ANext]_Abstract!avars
<1>1. ASSUME NEW c \in Calls, StartCall(c)
      PROVE  [Abstract!ANext]_Abstract!avars
    <2>1. /\ status[c] = "unused"
          /\ c \notin issued
          /\ UNCHANGED <<result, expired>>
        BY <1>1 DEF StartCall, Inv, BudgetInv
    <2>2. \A d \in issued : status'[d] = status[d]
        BY <1>1, <2>1 DEF StartCall, Inv, TypeOK
    <2>3. CASE issued' = issued
        BY <2>1, <2>2, <2>3 DEF Abstract!avars, Delivered
    <2>4. CASE ~OverBudget /\ status' = [status EXCEPT ![c] = "inflight"]
                           /\ issued' = issued \cup {c}
        <3>1. result = "none"
            BY <1>1 DEF StartCall, InScript, Inv, ControlInv
        <3>2. Cardinality(issued) < MaxCalls
            <4>1. Cardinality(issued) \in Nat
                BY FS_CardinalityType DEF Inv, BudgetInv
            <4> QED
                BY <2>4, <4>1, MaxCallsAssumption
                DEF OverBudget, Inv, TypeOK, BudgetInv, MaxCallsAssumption
        <3>3. Delivered' = Delivered
            <4>1. status'[c] = "inflight"
                BY <2>4 DEF Inv, TypeOK
            <4> QED
                BY <2>1, <2>2, <2>4, <4>1 DEF Delivered
        <3>4. Abstract!Cardinality(issued) = Cardinality(issued)
            BY Zenon DEF Cardinality, Abstract!Cardinality
        <3>5. Abstract!Issue(c)
            BY <2>1, <2>4, <3>1, <3>2, <3>3, <3>4 DEF Abstract!Issue
        <3> QED
            BY <3>5 DEF Abstract!ANext
    <2> QED
        BY <1>1, <2>3, <2>4 DEF StartCall
<1>2. CASE QueueJob
    BY <1>2, AbstractStutter DEF QueueJob, bridge
<1>3. ASSUME NEW p \in {"fulfilled", "rejected"}, SettlePromise(p)
      PROVE  [Abstract!ANext]_Abstract!avars
    BY <1>3, AbstractStutter DEF SettlePromise, bridge
<1> QED
    BY <1>1, <1>2, <1>3 DEF Script

\* The executor's own steps are Finish or invisible.
LEMMA ExecutorRefines ==
    ASSUME Inv, Executor
    PROVE  [Abstract!ANext]_Abstract!avars
<1> USE DEF Inv, ControlInv, Return, bridge
<1>1. CASE LoadAndSetup \/ CheckPending \/ RunJob \/ DrainEnds \/ Yield \/ Resume
    BY <1>1, AbstractStutter
    DEF LoadAndSetup, CheckPending, RunJob, DrainEnds, Yield, Resume
<1>2. CASE SetupFails \/ LoadFails \/ EvalThrows \/ DrainFails
    BY <1>2, ReturnIsFinish DEF SetupFails, LoadFails, EvalThrows, DrainFails
<1>3. CASE EvalReturnsPlainValue
    BY <1>3, ReturnIsFinish DEF EvalReturnsPlainValue
<1>4. CASE CheckSettled
    BY <1>4, ReturnIsFinish DEF CheckSettled
<1>5. CASE ReportDeadlock
    <2>1. \A c \in Calls : status[c] \notin Unanswered
        BY <1>5 DEF ReportDeadlock, NothingLeft, HandleInv
    <2> QED
        BY <1>5, <2>1, ReturnIsFinish DEF ReportDeadlock
<1>6. CASE ReportTimeout
    BY <1>6, ReturnIsFinish DEF ReportTimeout, DeadlinePassed
<1>7. ASSUME NEW p \in {"pending", "fulfilled", "rejected"}, EvalReturnsPromise(p)
      PROVE  [Abstract!ANext]_Abstract!avars
    BY <1>7, AbstractStutter DEF EvalReturnsPromise
<1>8. ASSUME NEW c \in Calls, SettleEnds(c)
      PROVE  [Abstract!ANext]_Abstract!avars
    <2>1. status[c] = "settling" /\ status' = [status EXCEPT ![c] = "answered"]
        BY <1>8 DEF SettleEnds
    <2>2. \A d \in issued : status'[d] \in {"settling", "answered"} <=>
                            status[d] \in {"settling", "answered"}
        BY <2>1 DEF TypeOK
    <2> QED
        BY <1>8, <2>2 DEF SettleEnds, Abstract!avars, Delivered
<1>9. CASE Finally
    BY <1>9, AbstractStutter DEF Finally
<1> QED
    BY <1>1, <1>2, <1>3, <1>4, <1>5, <1>6, <1>7, <1>8, <1>9 DEF Executor

\* A host callback that reaches the script with the answer of an issued call
\* is Deliver; refusals, local failures and late answers are invisible.
LEMMA HostCallbackRefines ==
    ASSUME Inv, NEW c \in Calls, HostCallback(c)
    PROVE  [Abstract!ANext]_Abstract!avars
<1>1. status[c] \in Unanswered /\ UNCHANGED <<issued, result, expired>>
    BY DEF HostCallback, SettleBegins, DropAnswer, sandbox
<1>2. CASE SettleBegins(c)
    <2>1. status' = [status EXCEPT ![c] = "settling"] /\ c \in pending
        BY <1>2 DEF SettleBegins, StillPending
    <2>2. result = "none"
        BY <1>2, <2>1 DEF SettleBegins, Inv, ControlInv, HandleInv
    <2>3. CASE c \in issued
        <3>1. c \in issued \ Delivered
            BY <1>1, <2>3 DEF Delivered, Unanswered, InMicrotask
        <3>2. Delivered' = Delivered \cup {c}
            BY <1>1, <2>1, <2>3 DEF Delivered, Inv, TypeOK
        <3>3. Abstract!Deliver(c)
            BY <1>1, <2>2, <3>1, <3>2 DEF Abstract!Deliver
        <3> QED
            BY <3>3 DEF Abstract!ANext
    <2>4. CASE c \notin issued
        <3>1. \A d \in issued : status'[d] = status[d]
            BY <2>1, <2>4 DEF Inv, TypeOK
        <3> QED
            BY <1>1, <3>1 DEF Abstract!avars, Delivered
    <2> QED
        BY <2>3, <2>4
<1>3. CASE DropAnswer(c)
    <2>1. status' = [status EXCEPT ![c] = "dropped"]
        BY <1>3 DEF DropAnswer
    <2>2. \A d \in issued : status'[d] \in {"settling", "answered"} <=>
                            status[d] \in {"settling", "answered"}
        BY <1>1, <2>1 DEF Unanswered, InMicrotask, Inv, TypeOK
    <2> QED
        BY <1>1, <2>2 DEF Abstract!avars, Delivered
<1> QED
    BY <1>2, <1>3 DEF HostCallback

\* Each step of the executor is a step of AbstractExecute or a stutter.
LEMMA StepRefines ==
    ASSUME Inv, [Next]_vars
    PROVE  [Abstract!ANext]_Abstract!avars
<1>1. CASE Expire
    <2>1. Abstract!Expire
        BY <1>1 DEF Expire, Abstract!Expire, bridge, Delivered
    <2> QED
        BY <2>1 DEF Abstract!ANext
<1>2. CASE UNCHANGED vars
    BY <1>2, AbstractStutter DEF vars
<1> QED
    BY <1>1, <1>2, ScriptRefines, ExecutorRefines, HostCallbackRefines DEF Next

\* The executor implements the promise made to its caller: bounded requests,
\* answers only while the script runs, one justified verdict.
THEOREM Refinement == Spec => ImplementsAbstract
<1>1. Init => Abstract!AInit
    BY AbstractInit
<1>2. Inv /\ [Next]_vars => [Abstract!ANext]_Abstract!avars
    BY StepRefines
<1> QED
    BY <1>1, <1>2, Invariance, PTL DEF Spec, ImplementsAbstract, Abstract!ASpec
=============================================================================
