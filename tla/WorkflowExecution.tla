------------------------- MODULE WorkflowExecution -------------------------
(***************************************************************************)
(* validateWorkflow, executeWorkflow and createExecutionSchedule beside    *)
(* each other, three functions that share nothing but the workflow.  Here a*)
(* workflow is validated before it is executed, whatever the validator says*)
(* of it, and drawn once resolveExecutionPlan has planned it, so that all  *)
(* the results are at hand.                                                *)
(***************************************************************************)
EXTENDS StepExecutor, WorkflowSchedule, WorkflowValidator

allVars == <<vars, drawVars, validVars>>

ValidateFirst ==
    /\ Validate
    /\ UNCHANGED <<vars, drawVars>>

DrawPlanned ==
    /\ pc = "plan" /\ stage = "planned"
    /\ Draw
    /\ UNCHANGED <<vars, validVars>>

Beside(A) ==
    /\ judging = "done"
    /\ pc = "plan" /\ stage = "planned" => drawing = "drawn"
    /\ A
    /\ UNCHANGED <<drawVars, validVars>>

ExecutionInit == Unjudged /\ deps = Graph /\ Init /\ Undrawn

ExecutionNext == ValidateFirst \/ DrawPlanned \/ Beside(Next)

ExecutionSpec == ExecutionInit /\ [][ExecutionNext]_allVars

\* Each function runs on once it has been called.
FairExecution ==
    /\ ExecutionSpec
    /\ WF_allVars(ValidateFirst) /\ WF_allVars(DrawPlanned)
    /\ WF_allVars(Beside(Schedule))
    /\ \A s \in Step : WF_allVars(Beside(RunStep(s)))

Decided == stage \in {"planned"} \cup Refusal

\* No step is listed before one that it depends on.
ListedInOrder == \A s \in Step : \A d \in Graph[s] : Before(d, s)

----------------------------------------------------------------------------
(* Properties *)

\* validateWorkflow and resolveExecutionPlan, two searches of their own,
\* accept the same workflows: what the one calls valid the other plans.
ValidatorDecides ==
    /\ WorkflowsJudged
    /\ judging = "done" /\ Decided /\ Step # {} => (Valid <=> stage = "planned")

\* The depth that decides the warning about deep chains is never more than
\* the levels tell, and not less if steps are listed in order.
DepthWarningIsDue ==
    stage = "planned" /\ Step # {} =>
        /\ deepest < Len(levels)
        /\ ListedInOrder => deepest + 1 = Len(levels)

\* The schedule has the levels of the executor's plan, although one relaxes
\* depths along a queue and the other counts dependencies off.  Only without
\* any step they differ: the schedule then has one level, an empty one.
SchedulesAgree ==
    drawing = "drawn" /\ Step # {} => levels = ExecutionSchedule

=============================================================================
