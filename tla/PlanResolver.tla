---------------------------- MODULE PlanResolver ----------------------------
(***************************************************************************)
(* resolveExecutionPlan: what makes a plan out of the steps of a workflow, *)
(* or refuses them (packages/engine/src/executor/dependency-resolver.ts).  *)
(*                                                                         *)
(* The search for cycles goes one dependency at a time and the levels one  *)
(* step at a time.  The code takes steps and dependencies in the order in  *)
(* which they are listed; here it is any order.  path is at once the array *)
(* of that name and the recursion: its last step is the one whose          *)
(* detectCycle is running.                                                 *)
(***************************************************************************)
EXTENDS StepDependencies

VARIABLES
    stage,      \* what is being done, or the outcome
    visited, recStack, path,
    followed,   \* followed[s]: dependencies that detectCycle(s) is done with
    cycle,      \* of the CyclicDependencyError
    inDegree, queue,
    level,      \* what is left of the current level to count off
    levels

planVars == <<deps, stage, visited, recStack, path, followed, cycle,
              inDegree, queue, level, levels>>

searchVars == <<visited, recStack, path, followed>>
levelVars == <<inDegree, queue, level, levels>>

Refusal == {"invalid dependency", "cycle", "incomplete"}

PlanTypeOK ==
    /\ deps \in StepGraphs
    /\ stage \in {"names", "search", "levels", "planned"} \cup Refusal
    /\ visited \subseteq Step /\ recStack \subseteq Step /\ path \in Seq(Step)
    /\ followed \in [Step -> SUBSET Step]
    /\ cycle \in Seq(Step)
    /\ inDegree \in [Step -> Nat]
    /\ queue \subseteq Step /\ level \subseteq Step
    /\ levels \in Seq(SUBSET Step)

ResolverInit ==
    /\ deps \in StepGraphs
    /\ stage = "names"
    /\ visited = {} /\ recStack = {} /\ path = <<>>
    /\ followed = [s \in Step |-> {}]
    /\ cycle = <<>>
    /\ inDegree = [s \in Step |-> 0]
    /\ queue = {} /\ level = {} /\ levels = <<>>

\* The reverse graph: a dependency that is no step is an error.
CheckNames ==
    /\ stage = "names"
    /\ stage' = IF WellNamed(deps) THEN "search" ELSE "invalid dependency"
    /\ UNCHANGED <<deps, searchVars, cycle, levelVars>>

----------------------------------------------------------------------------
(* detectCycle: a depth-first search along the dependencies *)

Current == path[Len(path)]

Enter(s) ==
    /\ visited' = visited \cup {s}
    /\ recStack' = recStack \cup {s}
    /\ path' = Append(path, s)

\* A step that no search has reached yet is where the next one starts.
StartSearch(s) ==
    /\ stage = "search" /\ path = <<>>
    /\ s \notin visited
    /\ Enter(s)
    /\ UNCHANGED <<deps, stage, followed, cycle, levelVars>>

\* The loop over the dependencies of the current step comes to d.
Follow(d) ==
    /\ stage = "search" /\ path # <<>>
    /\ d \in deps[Current] \ followed[Current]
    /\ followed' = [followed EXCEPT ![Current] = @ \cup {d}]
    /\ UNCHANGED <<deps, levelVars>>

Descend(d) ==
    /\ Follow(d)
    /\ d \notin visited
    /\ Enter(d)
    /\ UNCHANGED <<stage, cycle>>

PassBy(d) ==
    /\ Follow(d)
    /\ d \in visited \ recStack
    /\ UNCHANGED <<stage, visited, recStack, path, cycle>>

\* path.slice(path.indexOf(d)) starts at d, or is the last step without a d.
CycleStart(d) ==
    IF \E k \in DOMAIN path : path[k] = d THEN CHOOSE k \in DOMAIN path : path[k] = d
    ELSE Len(path)

FindCycle(d) ==
    /\ Follow(d)
    /\ d \in recStack
    /\ cycle' = Append(SubSeq(path, CycleStart(d), Len(path)), d)
    /\ stage' = "cycle"
    /\ UNCHANGED <<visited, recStack, path>>

\* Wrong: a step that was left stays on the stack.
LeaveOnStack ==
    /\ stage = "search" /\ path # <<>>
    /\ followed[Current] = deps[Current]
    /\ path' = SubSeq(path, 1, Len(path) - 1)
    /\ UNCHANGED <<deps, stage, visited, recStack, followed, cycle, levelVars>>

Leave ==
    /\ stage = "search" /\ path # <<>>
    /\ followed[Current] = deps[Current]
    /\ recStack' = recStack \ {Current}
    /\ path' = SubSeq(path, 1, Len(path) - 1)
    /\ UNCHANGED <<deps, stage, visited, followed, cycle, levelVars>>

----------------------------------------------------------------------------
(* The levels: Kahn's algorithm.  No step is queued twice: queue is a set. *)

\* No cycle was found: count dependencies and queue the steps without any.
StartLevels ==
    /\ stage = "search" /\ path = <<>> /\ visited = Step
    /\ stage' = "levels"
    /\ inDegree' = [s \in Step |-> Cardinality(deps[s])]
    /\ queue' = {s \in Step : Cardinality(deps[s]) = 0}
    /\ UNCHANGED <<deps, searchVars, cycle, level, levels>>

\* Wrong: a level of each queued step instead of one of them all.
TakeOne ==
    /\ stage = "levels" /\ level = {}
    /\ \E s \in queue :
        /\ levels' = Append(levels, {s})
        /\ level' = {s}
        /\ queue' = queue \ {s}
    /\ UNCHANGED <<deps, stage, searchVars, cycle, inDegree>>

TakeLevel ==
    /\ stage = "levels" /\ level = {} /\ queue # {}
    /\ levels' = Append(levels, queue)
    /\ level' = queue
    /\ queue' = {}
    /\ UNCHANGED <<deps, stage, searchVars, cycle, inDegree>>

\* s of the current level is counted off from the steps that depend on it.
CountOff(s) ==
    /\ stage = "levels" /\ s \in level
    /\ inDegree' = [t \in Step |-> IF t \in Dependents(s) THEN inDegree[t] - 1
                                   ELSE inDegree[t]]
    /\ queue' = queue \cup {t \in Dependents(s) : inDegree[t] = 1}
    /\ level' = level \ {s}
    /\ UNCHANGED <<deps, stage, searchVars, cycle, levels>>

\* levels.flat(): what is in the levels, as often as it is.
Flat == {e \in (DOMAIN levels) \X Step : e[2] \in levels[e[1]]}

FinishLevels ==
    /\ stage = "levels" /\ level = {} /\ queue = {}
    /\ stage' = IF Cardinality(Flat) = Cardinality(Step) THEN "planned" ELSE "incomplete"
    /\ UNCHANGED <<deps, searchVars, cycle, levelVars>>

----------------------------------------------------------------------------

Resolve ==
    \/ CheckNames \/ Leave \/ StartLevels \/ TakeLevel \/ FinishLevels
    \/ \E s \in Step : StartSearch(s) \/ Descend(s) \/ PassBy(s) \/ FindCycle(s)
    \/ \E s \in Step : CountOff(s)

ResolverSpec == ResolverInit /\ [][Resolve]_planVars

----------------------------------------------------------------------------
(* Properties *)

\* resolveExecutionPlan plans the acyclic graphs over known steps and no
\* other, in whatever order steps and dependencies are listed; its last
\* sanity check never fails; and the cycle it complains about is one.
ResolverDecides ==
    /\ stage = "planned" => Plannable(deps)
    /\ stage = "invalid dependency" => ~WellNamed(deps)
    /\ stage = "cycle" => WellNamed(deps) /\ ~Acyclic(deps) /\ IsCycle(deps, cycle)
    /\ stage # "incomplete"

\* The level of a step is one more than the highest level of the steps it
\* depends on: all of its dependencies are in earlier levels, no step is in
\* a later one than it has to be, and each is in exactly one; no level is
\* without steps.
LevelsAreDepths ==
    stage = "planned" =>
        Layered(deps, levels) /\ \A k \in DOMAIN levels : levels[k] # {}

=============================================================================
