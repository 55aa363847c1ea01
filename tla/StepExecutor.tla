---------------------------- MODULE StepExecutor ----------------------------
(***************************************************************************)
(* ParallelExecutor.executeWorkflow with its Scheduler (packages/engine/   *)
(* src/executor/parallel-executor.ts, scheduler.ts, dependency-resolver.ts)*)
(* from resolveExecutionPlan to the result.                                *)
(*                                                                         *)
(* The plan is made without interruption.  The loop of executeSteps runs   *)
(* without interruption from one await to the next; the promises of the    *)
(* steps it has started and the caller's abort signal interleave with it   *)
(* at the awaits.  The output of a step matters only through conditions,   *)
(* which are left open; the priority of a step, through the choice of a    *)
(* batch, which is left open too.  What an attempt does after it has timed *)
(* out is ignored by the code and not modelled; the progress callbacks are *)
(* taken not to throw.                                                     *)
(***************************************************************************)
EXTENDS PlanResolver

CONSTANTS
    MaxParallel,    \* maxParallelSteps
    MaxAttempts     \* maxAttempts of the retry configuration

ASSUME ExecutorAssumption ==
    /\ MaxParallel \in Nat \ {0}
    /\ MaxAttempts \in Nat \ {0}

VARIABLES
    status,     \* status[s]: executions.get(s).status
    phase,      \* phase[s]: where the executeStep of s is
    tries,      \* tries[s]: failed attempts of s
    pc,         \* where executeWorkflow is, or the result it returned
    raced,      \* the promises of the pending Promise.race
    aborted,    \* abortController.signal.aborted
    declined    \* observation only: steps whose condition was not met

execVars == <<status, phase, tries, pc, raced, aborted, declined>>

vars == <<planVars, execVars>>

Status == {"pending", "running", "completed", "failed", "skipped", "cancelled"}
Result == {"refused", "success", "failed", "cancelled", "deadlock"}

TypeOK ==
    /\ PlanTypeOK
    /\ status \in [Step -> Status]
    /\ phase \in [Step -> {"none", "attempt", "backoff", "returned"}]
    /\ tries \in [Step -> 0 .. MaxAttempts]
    /\ pc \in {"plan", "loop", "race", "drain"} \cup Result
    /\ raced \subseteq Step
    /\ aborted \in BOOLEAN
    /\ declined \subseteq Step

Init ==
    /\ ResolverInit
    /\ status = [s \in Step |-> "pending"]
    /\ phase = [s \in Step |-> "none"]
    /\ tries = [s \in Step |-> 0]
    /\ pc = "plan"
    /\ raced = {}
    /\ aborted = FALSE
    /\ declined = {}

----------------------------------------------------------------------------
(* What comes before the loop *)

MakePlan == pc = "plan" /\ Resolve /\ UNCHANGED execVars

\* resolveExecutionPlan returns, or throws and executeWorkflow with it.
EndPlanning ==
    /\ pc = "plan"
    /\ stage \in {"planned"} \cup Refusal
    /\ pc' = IF stage = "planned" THEN "loop" ELSE "refused"
    /\ UNCHANGED <<planVars, status, phase, tries, raced, aborted, declined>>

----------------------------------------------------------------------------
(* Scheduler *)

In(st) == {s \in Step : status[s] = st}

\* runningSteps: started, and the finally of the promise has not run yet.
InFlight == {s \in Step : phase[s] # "none"}

\* Wrong: a dependency that is still running counts as resolved.
ReadyTooEarly == {s \in In("pending") : \A d \in deps[s] : status[d] # "pending"}

\* getReadySteps
Ready == {s \in In("pending") :
            \A d \in deps[s] : status[d] \in {"completed", "failed", "skipped"}}

\* Wrong: only a failed dependency is a reason to skip.
ShouldSkipOnFailure(s) == \E d \in deps[s] : status[d] = "failed"

\* shouldSkipStep
ShouldSkip(s) == \E d \in deps[s] : status[d] \in {"failed", "skipped"}

\* Wrong: off by one.
SlotsOneTooMany == MaxParallel - Cardinality(In("running")) + 1

\* Wrong: a step keeps its slot when it ends.
SlotsNeverFreed ==
    MaxParallel - Cardinality({s \in Step : status[s] \notin {"pending", "skipped"}})

Slots == MaxParallel - Cardinality(In("running"))

\* getNextBatch: with no free slot it looks at no step; of the ready steps it
\* marks those to skip and those whose condition is not met, and returns as
\* many of the others as there are slots.
Skipped == {s \in Ready : Slots > 0 /\ ShouldSkip(s)}

Runnable == {s \in Ready : Slots > 0 /\ ~ShouldSkip(s)}

IsBatch(batch, from) ==
    /\ Cardinality(batch) <= Slots
    /\ batch = from \/ Cardinality(batch) = Slots

\* Wrong: the first failure ends the workflow.
CompleteOnFailure ==
    In("failed") # {} \/ In("pending") \cup In("running") = {}

\* isComplete
Complete == In("pending") \cup In("running") = {}

----------------------------------------------------------------------------
(* executeSteps and executeWorkflow *)

\* One turn of the loop, up to Promise.race or to the deadlock error: no are
\* the steps whose condition is not met, batch those that are started.
Iterate(no, batch) ==
    /\ pc = "loop" /\ ~Complete /\ ~aborted
    /\ IsBatch(batch, Runnable \ no)
    /\ status' = [s \in Step |-> IF s \in Skipped \cup no THEN "skipped"
                                 ELSE IF s \in batch THEN "running"
                                 ELSE status[s]]
    /\ phase' = [s \in Step |-> IF s \in batch THEN "attempt" ELSE phase[s]]
    /\ declined' = declined \cup no
    /\ raced' = InFlight \cup batch
    /\ pc' = IF InFlight \cup batch # {} THEN "race"
             ELSE IF In("pending") \subseteq Skipped \cup no THEN "loop"
             ELSE "deadlock"
    /\ UNCHANGED <<planVars, tries, aborted>>

\* Promise.race resolves when one of its promises has.
Wake ==
    /\ pc = "race"
    /\ \E s \in raced : phase[s] = "none"
    /\ pc' = "loop"
    /\ UNCHANGED <<planVars, status, phase, tries, raced, aborted, declined>>

LeaveLoop ==
    /\ pc = "loop"
    /\ Complete \/ aborted
    /\ pc' = "drain"
    /\ UNCHANGED <<planVars, status, phase, tries, raced, aborted, declined>>

\* Wrong: the steps still at work are not waited for.
ReturnWithoutWaiting ==
    /\ pc = "drain"
    /\ pc' = IF aborted THEN "cancelled"
             ELSE IF In("failed") # {} THEN "failed" ELSE "success"
    /\ UNCHANGED <<planVars, status, phase, tries, raced, aborted, declined>>

\* Promise.all, then createCancelledResult or the final result.
Return ==
    /\ pc = "drain"
    /\ InFlight = {}
    /\ pc' = IF aborted THEN "cancelled"
             ELSE IF In("failed") # {} THEN "failed" ELSE "success"
    /\ status' = [s \in Step |->
                    IF aborted /\ status[s] \in {"pending", "running"}
                    THEN "cancelled" ELSE status[s]]
    /\ UNCHANGED <<planVars, phase, tries, raced, aborted, declined>>

----------------------------------------------------------------------------
(* executeStep *)

AttemptSucceeds(s) ==
    /\ phase[s] = "attempt"
    /\ status' = [status EXCEPT ![s] = "completed"]
    /\ phase' = [phase EXCEPT ![s] = "returned"]
    /\ UNCHANGED <<planVars, tries, pc, raced, aborted, declined>>

\* The attempt throws, times out or is aborted; the error is one that is not
\* retried, or all attempts are used up.
StepFails(s) ==
    /\ phase[s] = "attempt"
    /\ status' = [status EXCEPT ![s] = "failed"]
    /\ phase' = [phase EXCEPT ![s] = "returned"]
    /\ tries' = [tries EXCEPT ![s] = @ + 1]
    /\ UNCHANGED <<planVars, pc, raced, aborted, declined>>

\* Wrong: one attempt too many.
AttemptFailsOnceMore(s) ==
    /\ phase[s] = "attempt"
    /\ tries[s] < MaxAttempts
    /\ phase' = [phase EXCEPT ![s] = "backoff"]
    /\ tries' = [tries EXCEPT ![s] = @ + 1]
    /\ UNCHANGED <<planVars, status, pc, raced, aborted, declined>>

AttemptFails(s) ==
    /\ phase[s] = "attempt"
    /\ tries[s] + 1 < MaxAttempts
    /\ phase' = [phase EXCEPT ![s] = "backoff"]
    /\ tries' = [tries EXCEPT ![s] = @ + 1]
    /\ UNCHANGED <<planVars, status, pc, raced, aborted, declined>>

\* The delay is over: the next attempt, unless the signal was aborted.
BackoffEnds(s) ==
    /\ phase[s] = "backoff"
    /\ status' = IF aborted THEN [status EXCEPT ![s] = "cancelled"] ELSE status
    /\ phase' = [phase EXCEPT ![s] = IF aborted THEN "returned" ELSE "attempt"]
    /\ UNCHANGED <<planVars, tries, pc, raced, aborted, declined>>

\* Wrong: only a step that completed leaves runningSteps.
StepReturnsOnSuccess(s) ==
    /\ phase[s] = "returned" /\ status[s] = "completed"
    /\ phase' = [phase EXCEPT ![s] = "none"]
    /\ UNCHANGED <<planVars, status, tries, pc, raced, aborted, declined>>

\* The finally callback removes the promise from runningSteps.
StepReturns(s) ==
    /\ phase[s] = "returned"
    /\ phase' = [phase EXCEPT ![s] = "none"]
    /\ UNCHANGED <<planVars, status, tries, pc, raced, aborted, declined>>

\* The caller aborts context.abortSignal.
Abort ==
    /\ pc \notin {"plan"} \cup Result /\ ~aborted
    /\ aborted' = TRUE
    /\ UNCHANGED <<planVars, status, phase, tries, pc, raced, declined>>

Schedule ==
    \/ MakePlan \/ EndPlanning
    \/ /\ pc = "loop"
       /\ \E no \in SUBSET Runnable : \E batch \in SUBSET (Runnable \ no) :
            Iterate(no, batch)
    \/ Wake \/ LeaveLoop \/ Return

RunStep(s) ==
    \/ AttemptSucceeds(s) \/ StepFails(s) \/ AttemptFails(s)
    \/ BackoffEnds(s) \/ StepReturns(s)

Next == Schedule \/ Abort \/ \E s \in Step : RunStep(s)

Spec == Init /\ [][Next]_vars

\* The event loop runs what is ready, and the timer of executeWithTimeout
\* ends every attempt.
FairSpec == Spec /\ WF_vars(Schedule) /\ \A s \in Step : WF_vars(RunStep(s))

----------------------------------------------------------------------------
(* Properties *)

\* A step is started only after every step it depends on has completed.
StartedAfterDependencies ==
    \A s \in Step : \A d \in deps[s] :
        status[s] \in {"running", "completed", "failed"} => status[d] = "completed"

\* No more than maxParallelSteps steps run at a time.
WithinLimit == Cardinality(In("running")) <= MaxParallel

\* A result without cancellation accounts for every step: it was skipped
\* because of a dependency that failed or was skipped or because of its own
\* condition, and otherwise it ran to an end.
ResultAccountsForSteps ==
    pc \in {"success", "failed"} =>
        \A s \in Step :
            /\ status[s] \in {"completed", "failed", "skipped"}
            /\ status[s] = "skipped" <=>
                  \/ s \in declined
                  \/ \E d \in deps[s] : status[d] \in {"failed", "skipped"}

\* The executor gives up with "Workflow deadlock" only when a dependency of a
\* pending step was skipped; a graph that was planned never blocks it.
DeadlockOnlyAfterSkip ==
    pc = "deadlock" =>
        \E s \in Step : /\ status[s] = "pending"
                       /\ \E d \in deps[s] : status[d] \in {"failed", "skipped"}

\* Once executeWorkflow has returned, no step of it is still at work and the
\* result it returned does not change under the caller.
ResultIsFinal ==
    [][(pc \in Result) => UNCHANGED <<status, phase, pc>>]_vars

\* executeWorkflow returns.
Returns == <>(pc \in Result)

\* "no steps can run but workflow incomplete": the deadlock error means that
\* no pending step can be started or skipped.
DeadlockMeansStuck ==
    pc = "deadlock" =>
        \A s \in Step :
            status[s] = "pending" =>
                \E d \in deps[s] : status[d] \in {"pending", "running"}

\* The executor keeps the promises of StepOrder, from any workflow on.
Promised == INSTANCE StepOrder
            WITH Step <- Step, NoStep <- NoStep, MaxParallel <- MaxParallel,
                 deps <- deps, status <- status
KeepsStepOrder == Promised!Spec

=============================================================================
