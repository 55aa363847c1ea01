-------------------------- MODULE WorkflowSchedule --------------------------
(***************************************************************************)
(* createExecutionSchedule of packages/engine/src/workflow/graph.ts:       *)
(* buildGraph, which gives each step its depth, and findCriticalPath.      *)
(*                                                                         *)
(* It is meant for workflows that can be executed: on a cycle buildGraph   *)
(* would not end.  Steps and dependencies may be listed in any order, which*)
(* decides the order of the queue and which of several deepest is the first*)
(***************************************************************************)
EXTENDS StepDependencies

VARIABLES
    drawing,    \* what createExecutionSchedule is doing
    depth,      \* depth[s]: nodes.get(s).depth
    maxDepth,
    todo,       \* the queue of buildGraph
    trail       \* the path of findCriticalPath; current is its head

drawVars == <<drawing, depth, maxDepth, todo, trail>>

DrawTypeOK ==
    /\ drawing \in {"none", "relax", "trace", "drawn"}
    /\ depth \in [Step -> Nat] /\ maxDepth \in Nat
    /\ todo \in Seq(Step) /\ trail \in Seq(Step)

Undrawn ==
    /\ drawing = "none"
    /\ depth = [s \in Step |-> 0] /\ maxDepth = 0
    /\ todo = <<>> /\ trail = <<>>

Roots == {s \in Step : deps[s] = {}}
Leaves == {s \in Step : Dependents(s) = {}}

StartGraph ==
    /\ drawing = "none"
    /\ drawing' = "relax"
    /\ todo' \in Listings(Roots)
    /\ UNCHANGED <<deps, depth, maxDepth, trail>>

\* Wrong: a depth is set when a step is first met.
RaisedOnce(node) == {s \in Dependents(node) : depth[s] = 0}

Raised(node) == {s \in Dependents(node) : depth[node] + 1 > depth[s]}

\* One turn of the loop over the queue: the dependents of a step come to lie
\* deeper than it, and those that were moved are queued.
Relax ==
    /\ drawing = "relax" /\ todo # <<>>
    /\ LET node == Head(todo)
           next == depth[node] + 1
       IN  /\ depth' = [s \in Step |-> IF s \in Raised(node) THEN next ELSE depth[s]]
           /\ maxDepth' = IF Raised(node) # {} /\ next > maxDepth THEN next ELSE maxDepth
           /\ \E q \in Listings(Raised(node)) : todo' = Tail(todo) \o q
    /\ UNCHANGED <<deps, drawing, trail>>

\* Wrong: whichever comes first.
FirstOf(S) == S

Deepest(S) == {s \in S : \A t \in S : depth[t] <= depth[s]}

\* findCriticalPath starts at the deepest leaf; without steps there is none.
StartTrace ==
    /\ drawing = "relax" /\ todo = <<>>
    /\ drawing' = "trace"
    /\ IF Step = {} THEN trail' = <<>> ELSE \E s \in Deepest(Leaves) : trail' = <<s>>
    /\ UNCHANGED <<deps, depth, maxDepth, todo>>

TraceBack ==
    /\ drawing = "trace" /\ trail # <<>>
    /\ \E d \in Deepest(deps[Head(trail)]) : trail' = <<d>> \o trail
    /\ UNCHANGED <<deps, drawing, depth, maxDepth, todo>>

EndTrace ==
    /\ drawing = "trace"
    /\ trail # <<>> => deps[Head(trail)] = {}
    /\ drawing' = "drawn"
    /\ UNCHANGED <<deps, depth, maxDepth, todo, trail>>

Draw == StartGraph \/ Relax \/ StartTrace \/ TraceBack \/ EndTrace

ScheduleSpec ==
    /\ deps \in StepGraphs /\ Plannable(deps) /\ Undrawn
    /\ [][Draw]_<<deps, drawVars>>

\* The levels of createExecutionSchedule: level k - 1 is the k-th.
ExecutionSchedule == [k \in 1 .. maxDepth + 1 |-> {s \in Step : depth[s] = k - 1}]

----------------------------------------------------------------------------
(* Properties *)

\* The levels of the schedule are the depths of the steps: each step is in
\* one, behind all it depends on and no later than it has to be.
ScheduleIsLayered ==
    drawing \in {"trace", "drawn"} => Layered(deps, ExecutionSchedule)

\* The critical path leads from a step without dependencies along
\* dependencies to a step nothing depends on, through every level.
CriticalPathIsLongest ==
    drawing = "drawn" /\ Step # {} =>
        /\ Len(trail) = Len(ExecutionSchedule)
        /\ deps[trail[1]] = {} /\ Dependents(trail[Len(trail)]) = {}
        /\ \A k \in 1 .. Len(trail) - 1 : trail[k] \in deps[trail[k + 1]]

=============================================================================
