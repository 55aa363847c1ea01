-------------------------- MODULE StepDependencies --------------------------
(***************************************************************************)
(* The workflow that resolveExecutionPlan, executeWorkflow and buildGraph  *)
(* are called with: all of it that they look at is what its steps depend on*)
(***************************************************************************)
EXTENDS StepGraph

VARIABLE deps   \* dependencyGraph, WorkflowNode.dependencies

Dependents(d) == {s \in Step : d \in deps[s]}

=============================================================================
