------------------------- MODULE StepExecutorProofs -------------------------
(***************************************************************************)
(* Theorems about StepExecutor, for every finite set of steps, every graph *)
(* and every limit.  The inductive invariant is Inv: that of PlanResolver, *)
(* what the status of a step says of its promise, and what where           *)
(* executeWorkflow is says of both.                                        *)
(***************************************************************************)
EXTENDS StepExecutor, PlanResolverProofs

\* A step is running exactly while its executeStep is at work and pending
\* only before; nothing is at work when executeWorkflow has returned.
PhaseAgrees ==
    /\ \A s \in Step : status[s] = "running" <=> phase[s] \in {"attempt", "backoff"}
    /\ \A s \in Step : status[s] = "pending" => phase[s] = "none"
    /\ pc \in Result => InFlight = {}

\* A step at work has an attempt left, and one not yet started has them all.
TriesLeft ==
    /\ \A s \in Step : phase[s] \in {"attempt", "backoff"} => tries[s] < MaxAttempts
    /\ \A s \in Step : status[s] = "pending" => tries[s] = 0

\* Only an aborted execution has cancelled steps.
CancelledByAbort == aborted \/ In("cancelled") = {}

\* A step is skipped for one of two reasons, and stays skipped.
SkipHasReason ==
    /\ \A s \in Step : status[s] = "skipped" =>
          s \in declined \/ \E d \in deps[s] : status[d] \in {"failed", "skipped"}
    /\ \A s \in declined : status[s] = "skipped"

\* The loop is left with every step ended, or by an abort.
ResultSettled ==
    /\ pc = "drain" => aborted \/ Complete
    /\ pc \in {"success", "failed"} =>
          \A s \in Step : status[s] \in {"completed", "failed", "skipped"}

\* The loop has a plan to go by, and before it no step is touched.
GoesByPlan ==
    IF pc \in {"plan", "refused"}
    THEN /\ \A s \in Step : status[s] = "pending" /\ phase[s] = "none" /\ tries[s] = 0
         /\ declined = {} /\ ~aborted
    ELSE stage = "planned"

Inv ==
    /\ TypeOK /\ PlanInv /\ GoesByPlan
    /\ PhaseAgrees /\ TriesLeft /\ CancelledByAbort
    /\ SkipHasReason /\ ResultSettled
    /\ StartedAfterDependencies
    /\ WithinLimit
    /\ DeadlockOnlyAfterSkip

----------------------------------------------------------------------------

\* What getNextBatch selects are pending steps whose dependencies all have an
\* outcome, and what it may return are steps whose dependencies completed.
LEMMA Selected ==
    ASSUME TypeOK
    PROVE  /\ Runnable \subseteq In("pending") /\ Skipped \subseteq In("pending")
           /\ \A s \in Runnable : \A d \in deps[s] : status[d] = "completed"
           /\ \A s \in Skipped \cup Runnable : \A d \in deps[s] :
                 status[d] \in {"completed", "failed", "skipped"}
           /\ \A s \in Skipped : \E d \in deps[s] : status[d] \in {"failed", "skipped"}
           /\ Runnable # {} => Slots > 0
  BY DEF Runnable, Skipped, Ready, ShouldSkip

\* The number of steps with a status is a natural number, and no smaller for
\* a larger set of steps.
LEMMA Counts ==
    ASSUME NEW S \in SUBSET Step, NEW T \in SUBSET S
    PROVE  /\ IsFiniteSet(S) /\ IsFiniteSet(T)
           /\ Cardinality(S) \in Nat /\ Cardinality(T) \in Nat
           /\ Cardinality(T) <= Cardinality(S)
<1>1. IsFiniteSet(S)
  BY StepAssumption, FS_Subset
<1> QED
  BY <1>1, FS_Subset, FS_CardinalityType

\* While steps are executed their graph is one that can be.
LEMMA PlanToGoBy ==
    ASSUME PlanInv, GoesByPlan, pc \notin {"plan", "refused"}
    PROVE  Plannable(deps) /\ \A s \in Step : deps[s] \in SUBSET Step
BY DEF PlanInv, GoesByPlan, ResolverDecides, Plannable, WellNamed

\* The plan is not touched any more.
LEMMA PlanStays ==
    ASSUME PlanInv, GoesByPlan, UNCHANGED planVars,
           pc \notin {"plan", "refused"}, pc' \notin {"plan", "refused"}
    PROVE  PlanInv' /\ GoesByPlan'
BY PlanStep DEF GoesByPlan, planVars

LEMMA ExecutorInit == Init => Inv
<1> SUFFICES ASSUME Init PROVE Inv
  OBVIOUS
<1>1. TypeOK /\ PlanInv /\ GoesByPlan
  <2>1. PlanInv
    BY PlanInit DEF Init
  <2>2. /\ status = [s \in Step |-> "pending"] /\ phase = [s \in Step |-> "none"]
        /\ tries = [s \in Step |-> 0] /\ pc = "plan" /\ raced = {}
        /\ aborted = FALSE /\ declined = {}
    BY DEF Init
  <2>3. /\ status \in [Step -> Status]
        /\ phase \in [Step -> {"none", "attempt", "backoff", "returned"}]
        /\ tries \in [Step -> 0 .. MaxAttempts]
    BY <2>2, ExecutorAssumption DEF Status
  <2>4. TypeOK
    BY <2>1, <2>2, <2>3, Zenon DEF TypeOK, PlanInv
  <2> QED
    BY <2>1, <2>2, <2>4 DEF GoesByPlan
<1>2. PhaseAgrees /\ TriesLeft /\ CancelledByAbort /\ SkipHasReason /\ ResultSettled
  BY ExecutorAssumption
     DEF Init, PhaseAgrees, TriesLeft, CancelledByAbort, SkipHasReason, ResultSettled,
         InFlight, In, Result
<1>3. StartedAfterDependencies /\ DeadlockOnlyAfterSkip
  BY DEF Init, StartedAfterDependencies, DeadlockOnlyAfterSkip
<1>4. WithinLimit
  <2>1. In("running") = {}
    BY DEF Init, In
  <2> QED
    BY <2>1, FS_EmptySet, ExecutorAssumption DEF WithinLimit
<1> QED
  BY <1>1, <1>2, <1>3, <1>4 DEF Inv

\* A step that puts no step to work keeps the limit.
LEMMA FewerRunning ==
    ASSUME WithinLimit, In("running")' \subseteq In("running")
    PROVE  WithinLimit'
<1>1. In("running") \subseteq Step
  BY DEF In
<1>2. Cardinality(In("running")') <= Cardinality(In("running"))
  BY <1>1, Counts
<1>3. Cardinality(In("running")') \in Nat /\ Cardinality(In("running")) \in Nat
  BY <1>1, Counts
<1> QED
  BY <1>2, <1>3, ExecutorAssumption DEF WithinLimit

\* Every action keeps the invariant.
LEMMA ExecutorStep == Inv /\ [Next]_vars => Inv'
<1> SUFFICES ASSUME Inv, [Next]_vars PROVE Inv'
  OBVIOUS
<1> DEFINE Rest == PhaseAgrees /\ TriesLeft /\ CancelledByAbort
<1> DEFINE Ends == SkipHasReason /\ ResultSettled
<1> USE ExecutorAssumption
<1>t. /\ TypeOK /\ PlanInv /\ GoesByPlan /\ Rest /\ Ends
      /\ StartedAfterDependencies /\ WithinLimit /\ DeadlockOnlyAfterSkip
  BY DEF Inv
<1>p. pc \notin {"plan", "refused"} =>
        Plannable(deps) /\ \A s \in Step : deps[s] \in SUBSET Step
  BY <1>t, PlanToGoBy
<1>5. CASE MakePlan
  <2>1. /\ pc = "plan" /\ UNCHANGED <<status, phase, tries, pc, raced, aborted, declined>>
        /\ \A s \in Step : status[s] = "pending" /\ phase[s] = "none" /\ tries[s] = 0
        /\ declined = {} /\ ~aborted
    BY <1>t, <1>5 DEF MakePlan, execVars, GoesByPlan
  <2>2. PlanInv'
    BY <1>t, <1>5, PlanStep DEF MakePlan
  <2>3. TypeOK'
    BY <1>t, <2>1, <2>2 DEF TypeOK, PlanInv
  <2>4. GoesByPlan' /\ Rest'
    BY <1>t, <2>1 DEF GoesByPlan, PhaseAgrees, TriesLeft, CancelledByAbort, In, InFlight
  <2>5. (Ends /\ StartedAfterDependencies /\ DeadlockOnlyAfterSkip)'
    BY <2>1 DEF SkipHasReason, ResultSettled, StartedAfterDependencies, DeadlockOnlyAfterSkip
  <2>6. WithinLimit'
    BY <1>t, <2>1, FewerRunning DEF In
  <2> QED
    BY <2>2, <2>3, <2>4, <2>5, <2>6 DEF Inv
<1>6. CASE EndPlanning
  <2>1. /\ pc = "plan" /\ UNCHANGED <<planVars, status, phase, tries, raced, aborted, declined>>
        /\ pc' \in {"loop", "refused"} /\ (pc' = "loop" => stage = "planned")
        /\ \A s \in Step : status[s] = "pending" /\ phase[s] = "none" /\ tries[s] = 0
        /\ declined = {} /\ ~aborted
    BY <1>t, <1>6 DEF EndPlanning, GoesByPlan
  <2>2. PlanInv'
    BY <1>t, <2>1, PlanStep
  <2>3. TypeOK'
    BY <1>t, <2>1, <2>2 DEF TypeOK, PlanInv, Result
  <2>4. GoesByPlan' /\ Rest'
    BY <1>t, <2>1
       DEF GoesByPlan, PhaseAgrees, TriesLeft, CancelledByAbort, In, InFlight, planVars
  <2>5. (Ends /\ StartedAfterDependencies /\ DeadlockOnlyAfterSkip)'
    BY <2>1 DEF SkipHasReason, ResultSettled, StartedAfterDependencies, DeadlockOnlyAfterSkip
  <2>6. WithinLimit'
    BY <1>t, <2>1, FewerRunning DEF In
  <2> QED
    BY <2>2, <2>3, <2>4, <2>5, <2>6 DEF Inv
<1>1. ASSUME NEW no \in SUBSET Runnable, NEW batch \in SUBSET (Runnable \ no),
             Iterate(no, batch)
      PROVE  Inv'
  <2>g. /\ pc = "loop" /\ UNCHANGED planVars /\ deps' = deps
        /\ pc' \in {"race", "loop", "deadlock"}
        /\ Plannable(deps) /\ \A s \in Step : deps[s] \in SUBSET Step
    BY <1>p, <1>1 DEF Iterate, planVars
  <2>0. PlanInv' /\ GoesByPlan'
    BY <1>t, <2>g, PlanStays
  <2>1. TypeOK'
    <3>1. no \subseteq Step /\ batch \subseteq Step /\ InFlight \subseteq Step
      BY DEF Runnable, Ready, In, InFlight
    <3> QED
      BY <1>t, <1>1, <2>0, <3>1 DEF Iterate, TypeOK, Status, Result, PlanInv
  <2>2. Rest'
    BY <1>t, <1>1, Selected
       DEF Iterate, TypeOK, PhaseAgrees, TriesLeft, CancelledByAbort, In, InFlight, Result
  <2>3. StartedAfterDependencies'
    BY <1>t, <1>1, <2>g, Selected
       DEF Iterate, TypeOK, StartedAfterDependencies, In
  <2>4. WithinLimit'
    <3>1. In("running")' = In("running") \cup batch
      BY <1>t, <1>1, Selected DEF Iterate, TypeOK, In
    <3>2. CASE batch = {}
      BY <1>t, <3>1, <3>2, FewerRunning
    <3>3. CASE batch # {}
      <4>1. In("running") \in SUBSET Step /\ batch \in SUBSET Step
        BY DEF In, Runnable, Ready
      <4>2. /\ IsFiniteSet(In("running")) /\ IsFiniteSet(batch)
            /\ Cardinality(In("running")) \in Nat /\ Cardinality(batch) \in Nat
        BY <4>1, Counts
      <4>3. In("running") \cap batch = {}
        BY <1>t, Selected DEF In
      <4>4. Cardinality(In("running") \cup batch)
              = Cardinality(In("running")) + Cardinality(batch)
        <5>1. Cardinality(In("running") \cap batch) = 0
          BY <4>3, FS_EmptySet
        <5>2. Cardinality(In("running") \cup batch)
                = Cardinality(In("running")) + Cardinality(batch)
                    - Cardinality(In("running") \cap batch)
          BY <4>2, FS_Union
        <5> QED
          BY <4>2, <5>1, <5>2
      <4>5. Cardinality(batch) <= MaxParallel - Cardinality(In("running"))
        BY <1>1 DEF Iterate, IsBatch, Slots
      <4>6. Cardinality(In("running")') = Cardinality(In("running")) + Cardinality(batch)
        BY <3>1, <4>4, Zenon
      <4>7. Cardinality(In("running")') <= MaxParallel
        BY <4>2, <4>5, <4>6
      <4> QED
        BY <4>7 DEF WithinLimit
    <3> QED
      BY <3>2, <3>3
  <2>5. DeadlockOnlyAfterSkip'
    <3> SUFFICES ASSUME pc' = "deadlock"
                 PROVE  \E s \in Step : /\ status'[s] = "pending"
                                        /\ \E d \in deps'[s] :
                                              status'[d] \in {"failed", "skipped"}
      BY DEF DeadlockOnlyAfterSkip
    <3> DEFINE P == In("pending") \ (Skipped \cup no)
    <3>1. InFlight = {} /\ batch = {} /\ P # {} /\ ~aborted /\ deps' = deps
      BY <1>1, <2>g DEF Iterate
    <3>2. PICK p \in P : deps[p] \cap P = {}
      <4>1. P \in SUBSET Step
        BY DEF In
      <4> QED
        BY <2>g, <3>1, <4>1 DEF Plannable, Acyclic
    <3>3. In("running") = {} /\ In("cancelled") = {}
      BY <1>t, <3>1 DEF PhaseAgrees, CancelledByAbort, In, InFlight
    <3>4. Slots = MaxParallel
      <4>1. Cardinality(In("running")) = 0
        BY <3>3, FS_EmptySet
      <4> QED
        BY <4>1 DEF Slots
    <3>5. Runnable \ no = {}
      <4>1. Cardinality(batch) # Slots
        BY <3>1, <3>4, FS_EmptySet
      <4> QED
        BY <1>1, <3>1, <4>1 DEF Iterate, IsBatch
    <3>6. p \notin Ready
      BY <3>2, <3>4, <3>5 DEF Runnable, Skipped
    <3>7. PICK d \in deps[p] : status[d] \notin {"completed", "failed", "skipped"}
      BY <3>2, <3>6 DEF Ready
    <3>8. d \in Step /\ p \in Step /\ status[p] = "pending"
      BY <2>g, <3>2 DEF In
    <3>9. d \in In("pending")
      BY <1>t, <3>3, <3>7, <3>8 DEF TypeOK, Status, In
    <3>10. d \in Skipped \cup no
      BY <3>2, <3>7, <3>9
    <3>11. status'[d] = "skipped" /\ status'[p] = "pending"
      BY <1>1, <3>1, <3>2, <3>8, <3>10 DEF Iterate
    <3> QED
      BY <3>1, <3>7, <3>8, <3>11
  <2>7. Ends'
    <3>1. SkipHasReason'
      BY <1>t, <1>1, <2>g, Selected
         DEF Iterate, TypeOK, SkipHasReason, In
    <3>2. ResultSettled'
      BY <1>1 DEF Iterate, ResultSettled
    <3> QED
      BY <3>1, <3>2
  <2> QED
    BY <2>0, <2>1, <2>2, <2>3, <2>4, <2>5, <2>7 DEF Inv
<1>2. CASE Wake \/ LeaveLoop \/ Abort
  <2>1. /\ UNCHANGED <<planVars, deps, status, phase, tries>>
        /\ pc \notin {"plan"} \cup Result
        /\ pc' = pc \/ pc' \in {"loop", "drain"}
        /\ aborted => aborted'
    BY <1>2 DEF Wake, LeaveLoop, Abort, Result, planVars
  <2>2. PlanInv' /\ GoesByPlan'
    BY <1>t, <2>1, PlanStays DEF Result
  <2>3. TypeOK'
    BY <1>t, <1>2, <2>2 DEF Wake, LeaveLoop, Abort, TypeOK, PlanInv
  <2>4. Rest'
    BY <1>t, <2>1 DEF PhaseAgrees, TriesLeft, CancelledByAbort, In, InFlight, Result
  <2>5. StartedAfterDependencies' /\ DeadlockOnlyAfterSkip'
    BY <1>t, <2>1 DEF StartedAfterDependencies, DeadlockOnlyAfterSkip
  <2>6. WithinLimit'
    BY <1>t, <2>1, FewerRunning DEF In
  <2>7. Ends'
    BY <1>t, <1>2, <2>1
       DEF Wake, LeaveLoop, Abort, SkipHasReason, ResultSettled, Complete, In, Result
  <2> QED
    BY <2>2, <2>3, <2>4, <2>5, <2>6, <2>7 DEF Inv
<1>7. CASE UNCHANGED vars
  <2>1. UNCHANGED <<planVars, deps, stage, status, phase, tries, pc, raced, aborted, declined>>
    BY <1>7 DEF vars, planVars, execVars
  <2>2. PlanInv' /\ GoesByPlan'
    BY <1>t, <2>1, PlanStep DEF GoesByPlan
  <2>3. TypeOK'
    BY <1>t, <2>1, <2>2 DEF TypeOK, PlanInv
  <2>4. Rest' /\ Ends'
    BY <1>t, <2>1
       DEF PhaseAgrees, TriesLeft, CancelledByAbort, In, InFlight, SkipHasReason,
           ResultSettled, Complete
  <2>5. StartedAfterDependencies' /\ DeadlockOnlyAfterSkip'
    BY <1>t, <2>1 DEF StartedAfterDependencies, DeadlockOnlyAfterSkip
  <2>6. WithinLimit'
    BY <1>t, <2>1, FewerRunning DEF In
  <2> QED
    BY <2>2, <2>3, <2>4, <2>5, <2>6 DEF Inv
<1>3. CASE Return
  <2>g. /\ pc = "drain" /\ UNCHANGED planVars /\ deps' = deps
        /\ pc' \in {"cancelled", "failed", "success"}
        /\ \A s \in Step : deps[s] \in SUBSET Step
    BY <1>p, <1>3 DEF Return, planVars
  <2>0. PlanInv' /\ GoesByPlan'
    BY <1>t, <2>g, PlanStays
  <2>1. TypeOK'
    BY <1>t, <1>3, <2>0 DEF Return, TypeOK, Status, Result, PlanInv
  <2>2. Rest'
    BY <1>t, <1>3
       DEF Return, TypeOK, PhaseAgrees, TriesLeft, CancelledByAbort, In, InFlight, Result
  <2>3. StartedAfterDependencies'
    BY <1>t, <1>3, <2>g DEF Return, TypeOK, StartedAfterDependencies
  <2>4. WithinLimit'
    BY <1>t, <1>3, FewerRunning DEF Return, TypeOK, In
  <2>5. DeadlockOnlyAfterSkip'
    BY <2>g DEF DeadlockOnlyAfterSkip
  <2>6. SkipHasReason'
    BY <1>t, <1>3, <2>g DEF Return, TypeOK, SkipHasReason
  <2>7. ResultSettled'
    BY <1>t, <1>3
       DEF Return, TypeOK, Status, ResultSettled, CancelledByAbort, Complete, In
  <2> QED
    BY <2>0, <2>1, <2>2, <2>3, <2>4, <2>5, <2>6, <2>7 DEF Inv
<1>4. ASSUME NEW s \in Step, RunStep(s)
      PROVE  Inv'
  <2>1. /\ phase[s] # "none" /\ UNCHANGED planVars /\ deps' = deps
        /\ pc' = pc /\ aborted' = aborted
    BY <1>4 DEF RunStep, AttemptSucceeds, StepFails, AttemptFails, BackoffEnds, StepReturns,
                planVars
  <2>2. pc \notin Result
    BY <1>t, <2>1 DEF PhaseAgrees, InFlight
  <2>g. pc \notin {"plan", "refused"} /\ \A r \in Step : deps[r] \in SUBSET Step
    BY <1>t, <1>p, <2>1, <2>2 DEF GoesByPlan, Result
  <2>0. PlanInv' /\ GoesByPlan'
    BY <1>t, <2>1, <2>g, PlanStays
  <2>3. \A r \in Step \ {s} : status'[r] = status[r] /\ phase'[r] = phase[r] /\ tries'[r] = tries[r]
    BY <1>t, <1>4 DEF RunStep, AttemptSucceeds, StepFails, AttemptFails, BackoffEnds, StepReturns, TypeOK
  <2>4. TypeOK'
    <3>1. PlanTypeOK'
      BY <2>0 DEF PlanInv
    <3>2. /\ status' \in [Step -> Status]
          /\ phase' \in [Step -> {"none", "attempt", "backoff", "returned"}]
          /\ UNCHANGED <<pc, raced, aborted, declined>>
      BY <1>t, <1>4
         DEF RunStep, AttemptSucceeds, StepFails, AttemptFails, BackoffEnds, StepReturns,
             TypeOK, Status
    <3>3. tries' \in [Step -> 0 .. MaxAttempts]
      BY <1>t, <1>4
         DEF RunStep, AttemptSucceeds, StepFails, AttemptFails, BackoffEnds, StepReturns,
             TypeOK, TriesLeft
    <3> QED
      BY <1>t, <3>1, <3>2, <3>3 DEF TypeOK
  <2>5. Rest'
    BY <1>t, <1>4, <2>2
       DEF RunStep, AttemptSucceeds, StepFails, AttemptFails, BackoffEnds, StepReturns,
           TypeOK, PhaseAgrees, TriesLeft, CancelledByAbort, In, InFlight
  <2>6. /\ status[s] = "running" \/ status'[s] = status[s]
        /\ status'[s] = "running" => status[s] = "running"
        /\ status[s] = "completed" => status'[s] = "completed"
    BY <1>t, <1>4
       DEF RunStep, AttemptSucceeds, StepFails, AttemptFails, BackoffEnds, StepReturns,
           TypeOK, PhaseAgrees
  <2>7. StartedAfterDependencies'
    BY <1>t, <2>1, <2>3, <2>6, <2>g DEF StartedAfterDependencies, TypeOK
  <2>8. WithinLimit'
    BY <1>t, <2>3, <2>6, FewerRunning DEF In
  <2>9. DeadlockOnlyAfterSkip'
    BY <2>1, <2>2 DEF DeadlockOnlyAfterSkip, Result
  <2>10. declined' = declined
    BY <1>4 DEF RunStep, AttemptSucceeds, StepFails, AttemptFails, BackoffEnds, StepReturns
  <2>11. status[s] # "pending" /\ (status'[s] = "skipped" <=> status[s] = "skipped")
    BY <1>t, <1>4
       DEF RunStep, AttemptSucceeds, StepFails, AttemptFails, BackoffEnds, StepReturns,
           TypeOK, PhaseAgrees
  <2>12. status[s] \in {"failed", "skipped"} => status'[s] = status[s]
    BY <2>6
  <2>13. SkipHasReason'
    BY <1>t, <2>1, <2>3, <2>10, <2>11, <2>12, <2>g DEF SkipHasReason, TypeOK
  <2>14. ResultSettled'
    <3>1. Complete => Complete'
      BY <2>3, <2>6, <2>11, <2>4 DEF Complete, In
    <3> QED
      BY <1>t, <2>1, <2>2, <3>1 DEF ResultSettled, Result
  <2> QED
    BY <2>0, <2>4, <2>5, <2>7, <2>8, <2>9, <2>13, <2>14 DEF Inv
<1> QED
  BY <1>1, <1>2, <1>3, <1>4, <1>5, <1>6, <1>7 DEF Next, Schedule

----------------------------------------------------------------------------

\* The invariant holds of every execution.
THEOREM ExecutorInvariant == Spec => []Inv
<1> QED
  BY ExecutorInit, ExecutorStep, PTL DEF Spec

\* executeWorkflow refuses the workflows that cannot be executed and no other:
\* those with a dependency that is no step and those with a cycle, which it names.
THEOREM WorkflowsDecided == Spec => []ResolverDecides
<1>1. Inv => ResolverDecides
  BY DEF Inv, PlanInv
<1> QED
  BY <1>1, ExecutorInvariant, PTL

\* The levels it executes by are the depths of the steps.
THEOREM LevelsByDepth == Spec => []LevelsAreDepths
<1>1. Inv => LevelsAreDepths
  BY DEF Inv, PlanInv
<1> QED
  BY <1>1, ExecutorInvariant, PTL

\* Every variable keeps its type.
THEOREM ExecutorTypes == Spec => []TypeOK
<1>1. Inv => TypeOK
  BY DEF Inv
<1> QED
  BY <1>1, ExecutorInvariant, PTL

\* getReadySteps and shouldSkipStep together start no step before all its
\* dependencies have completed, whatever fails or is skipped meanwhile.
THEOREM DependenciesFirst == Spec => []StartedAfterDependencies
<1>1. Inv => StartedAfterDependencies
  BY DEF Inv
<1> QED
  BY <1>1, ExecutorInvariant, PTL

\* The free slots computed from the statuses keep the limit over all batches.
THEOREM LimitKept == Spec => []WithinLimit
<1>1. Inv => WithinLimit
  BY DEF Inv
<1> QED
  BY <1>1, ExecutorInvariant, PTL

\* On an accepted graph the deadlock error is never the graph's fault: a step
\* was skipped in the very turn that raised it.
THEOREM DeadlockNeedsSkip == Spec => []DeadlockOnlyAfterSkip
<1>1. Inv => DeadlockOnlyAfterSkip
  BY DEF Inv
<1> QED
  BY <1>1, ExecutorInvariant, PTL

\* The result of an execution that was not cancelled accounts for every step.
THEOREM StepsAccountedFor == Spec => []ResultAccountsForSteps
<1>1. Inv => ResultAccountsForSteps
  <2> SUFFICES ASSUME Inv, pc \in {"success", "failed"}, NEW s \in Step
               PROVE  /\ status[s] \in {"completed", "failed", "skipped"}
                      /\ status[s] = "skipped" <=>
                            \/ s \in declined
                            \/ \E d \in deps[s] : status[d] \in {"failed", "skipped"}
    BY DEF ResultAccountsForSteps
  <2>1. status[s] \in {"completed", "failed", "skipped"}
    BY DEF Inv, ResultSettled
  <2>2. ASSUME status[s] # "skipped", NEW d \in deps[s] PROVE status[d] = "completed"
    BY <2>1, <2>2 DEF Inv, StartedAfterDependencies
  <2> QED
    BY <2>1, <2>2 DEF Inv, SkipHasReason
<1> QED
  BY <1>1, ExecutorInvariant, PTL

\* Nothing of an execution goes on after executeWorkflow has returned.
THEOREM ResultFinal == Spec => ResultIsFinal
<1> DEFINE A == (pc \in Result) => UNCHANGED <<status, phase, pc>>
<1>1. Inv /\ [Next]_vars => [A]_vars
  <2> SUFFICES ASSUME Inv, Next, pc \in Result PROVE FALSE
    OBVIOUS
  <2>1. \A s \in Step : phase[s] = "none"
    BY DEF Inv, PhaseAgrees, InFlight
  <2>2. ~ \E s \in Step : RunStep(s)
    BY <2>1 DEF RunStep, AttemptSucceeds, StepFails, AttemptFails, BackoffEnds, StepReturns
  <2>3. ~Schedule
    BY DEF Schedule, MakePlan, EndPlanning, Iterate, Wake, LeaveLoop, Return, Result
  <2>4. ~Abort
    BY DEF Abort
  <2> QED
    BY <2>2, <2>3, <2>4 DEF Next
<1> QED
  BY <1>1, ExecutorInvariant, PTL DEF Spec, ResultIsFinal

\* Every step of the executor is one that StepOrder allows or leaves its
\* state alone.
LEMMA StepAllowed == Inv /\ [Next]_vars => [Promised!Next]_<<deps, status>>
<1> SUFFICES ASSUME Inv, [Next]_vars PROVE [Promised!Next]_<<deps, status>>
  OBVIOUS
<1>t. TypeOK /\ PlanInv /\ GoesByPlan /\ PhaseAgrees /\ WithinLimit'
  BY ExecutorStep DEF Inv
<1>p. pc \notin {"plan", "refused"} => Promised!Plannable(deps)
  BY <1>t, PlanToGoBy
     DEF Plannable, WellNamed, Acyclic, Promised!Plannable, Promised!WellNamed, Promised!Acyclic
<1>1. ASSUME NEW no \in SUBSET Runnable, NEW batch \in SUBSET (Runnable \ no),
             Iterate(no, batch)
      PROVE  Promised!Next
  <2> DEFINE skip == Skipped \cup no
  <2>1. skip \in SUBSET Step /\ batch \in SUBSET Step
    BY DEF Skipped, Runnable, Ready, In
  <2>2. skip \subseteq Promised!In("pending") /\ batch \subseteq Promised!In("pending") \ skip
    BY <1>t, Selected DEF In, Promised!In, Skipped, Runnable
  <2>3. \A s \in skip : Promised!Settled(s)
    BY <1>t, Selected DEF Promised!Settled
  <2>4. \A s \in batch : Promised!Completed(s)
    BY <1>t, Selected DEF Promised!Completed
  <2>5. Promised!Cardinality(Promised!In("running") \cup batch) <= MaxParallel
    <3>1. In("running")' = Promised!In("running") \cup batch
      BY <1>t, <1>1, Selected DEF Iterate, TypeOK, In, Promised!In
    <3>2. Cardinality(In("running")') <= MaxParallel
      BY <1>t DEF WithinLimit
    <3>3. \A S : Cardinality(S) = Promised!Cardinality(S)
      BY DEF Cardinality, Promised!Cardinality
    <3> QED
      BY <3>1, <3>2, <3>3, Zenon
  <2>6. /\ status' = [s \in Step |-> IF s \in skip THEN "skipped"
                                     ELSE IF s \in batch THEN "running"
                                     ELSE status[s]]
        /\ UNCHANGED deps /\ pc = "loop"
    BY <1>1 DEF Iterate, planVars
  <2>7. Promised!Advance(skip, batch)
    <3> HIDE DEF skip
    <3> QED
      BY <2>2, <2>3, <2>4, <2>5, <2>6, Zenon DEF Promised!Advance
  <2> QED
    <3>1. Promised!Plannable(deps)
      BY <1>p, <2>6
    <3> QED
      BY <2>1, <2>7, <3>1, Zenon DEF Promised!Next
<1>2. CASE MakePlan \/ EndPlanning \/ Wake \/ LeaveLoop \/ Abort \/ UNCHANGED vars
  <2>1. MakePlan => UNCHANGED <<deps, status>>
    BY DEF MakePlan, execVars, Resolve, CheckNames, StartSearch, Follow, Descend, PassBy,
           FindCycle, Leave, StartLevels, TakeLevel, CountOff, FinishLevels
  <2>2. EndPlanning \/ UNCHANGED vars => UNCHANGED <<deps, status>>
    BY DEF EndPlanning, vars, planVars, execVars
  <2> QED
    BY <1>2, <2>1, <2>2 DEF Wake, LeaveLoop, Abort, planVars
<1>3. CASE Return
  <2>1. CASE aborted
    BY <1>p, <1>3, <2>1 DEF Return, Promised!Next, Promised!Cancel, planVars
  <2>2. CASE ~aborted
    BY <1>t, <1>3, <2>2 DEF Return, TypeOK, planVars
  <2> QED
    BY <2>1, <2>2
<1>4. ASSUME NEW s \in Step, RunStep(s)
      PROVE  [Promised!Next]_<<deps, status>>
  <2>1. UNCHANGED <<deps, status>> \/ \E outcome \in {"completed", "failed", "cancelled"} :
                                         Promised!Finish(s, outcome)
    BY <1>t, <1>4
       DEF RunStep, AttemptSucceeds, StepFails, AttemptFails, BackoffEnds, StepReturns,
           PhaseAgrees, Promised!Finish, planVars
  <2>2. phase[s] # "none"
    BY <1>4 DEF RunStep, AttemptSucceeds, StepFails, AttemptFails, BackoffEnds, StepReturns
  <2>3. Promised!Plannable(deps)
    BY <1>t, <1>p, <2>2 DEF GoesByPlan, PhaseAgrees, InFlight, Result
  <2> QED
    BY <2>1, <2>3 DEF Promised!Next
<1> QED
  BY <1>1, <1>2, <1>3, <1>4 DEF Next, Schedule

\* The executor keeps the promises of StepOrder.
THEOREM ExecutorKeepsStepOrder == Spec => KeepsStepOrder
<1>1. Init => Promised!Init
  BY Zenon DEF Init, ResolverInit, Promised!Init, StepGraphs, Promised!StepGraphs
<1> QED
  BY <1>1, StepAllowed, ExecutorInvariant, PTL DEF Spec, KeepsStepOrder, Promised!Spec

=============================================================================
