----------------------------- MODULE StepGraph -----------------------------
(***************************************************************************)
(* The dependency graph of a workflow: D[s] are the steps that step s      *)
(* depends on (packages/engine/src/executor/dependency-resolver.ts), NoStep*)
(* among them when s names a dependency that is no step.                   *)
(***************************************************************************)
EXTENDS FiniteSets, Integers, Sequences

CONSTANTS
    Step,       \* the step ids of a workflow
    NoStep      \* an id that no step has

ASSUME StepAssumption == IsFiniteSet(Step) /\ NoStep \notin Step

StepGraphs == [Step -> SUBSET (Step \cup {NoStep})]

\* The members of S in any order.
Listings(S) ==
    {q \in [1 .. Cardinality(S) -> S] : \A s \in S : \E k \in DOMAIN q : q[k] = s}

\* Every dependency is a step.
WellNamed(D) == \A s \in Step : D[s] \subseteq Step

\* Every set of steps has one that depends on none of them.
Acyclic(D) ==
    \A S \in SUBSET Step : S # {} => \E s \in S : D[s] \cap S = {}

\* The graphs that can be executed.
Plannable(D) == WellNamed(D) /\ Acyclic(D)

\* A cycle closed by its first step: consecutive steps depend on each other
\* and no other step is named twice.
IsCycle(D, c) ==
    /\ Len(c) > 1 /\ c[Len(c)] = c[1]
    /\ \A k \in 1 .. Len(c) - 1 : c[k] \in Step /\ c[k + 1] \in D[c[k]]
    /\ \A j, k \in 1 .. Len(c) - 1 : c[j] = c[k] => j = k

\* Each step is in one level, the one behind the last of its dependencies.
Layered(D, L) ==
    \A s \in Step : \E k \in DOMAIN L :
        /\ \A j \in DOMAIN L : s \in L[j] <=> j = k
        /\ \A d \in D[s] : \E j \in 1 .. k - 1 : d \in L[j]
        /\ k > 1 => D[s] \cap L[k - 1] # {}

=============================================================================
