------------------------- MODULE WorkflowValidator -------------------------
(***************************************************************************)
(* validateWorkflow of packages/engine/src/workflow/validation.ts: its     *)
(* cycle detection, depth and topological sort.  They work on the lists of *)
(* dependencies as they are written, duplicates and unknown ids included.  *)
(* Handlers, entry points and duplicate step ids, which it also refuses,   *)
(* are left out.                                                           *)
(*                                                                         *)
(* The recursive dfs and getDepth go one dependency at a time: calls holds *)
(* the steps whose call is running, the one called last at its end.        *)
(***************************************************************************)
EXTENDS StepGraph

CONSTANTS
    Listed,         \* the steps in the order of the workflow
    Workflow        \* the workflows considered, as lists of dependencies

ASSUME WorkflowAssumption ==
    /\ Listed \in Listings(Step)
    /\ Workflow \subseteq [Step -> Seq(Step \cup {NoStep})]

VARIABLES
    lists,      \* adjacencyList
    judging,    \* what is being done
    turn,       \* where the loop over the steps is
    calls,
    looked,     \* looked[s]: how many dependencies the call of s has come to
    gray, black,
    reported,   \* cyclePath
    seen,       \* visited of getDepth
    measured,   \* the steps that have an entry in depths
    height,     \* that entry, or the greatest value that came back so far + 1
    deepest,    \* maxDepth
    degree,     \* inDegree
    due,        \* the queue of topologicalSort
    uncounted,  \* entries of reverseAdj that are still to be counted off
    order       \* its result

validVars == <<lists, judging, turn, calls, looked, gray, black, reported,
               seen, measured, height, deepest, degree, due, uncounted, order>>

colorVars == <<gray, black, reported>>
depthVars == <<seen, measured, height, deepest>>
sortVars == <<degree, due, uncounted, order>>

ValidTypeOK ==
    /\ lists \in [Step -> Seq(Step \cup {NoStep})]
    /\ judging \in {"cycles", "depth", "order", "done"}
    /\ turn \in 1 .. Len(Listed) + 1
    /\ calls \in Seq(Step)
    /\ looked \in [Step -> Nat]
    /\ \A s \in Step : looked[s] <= Len(lists[s])
    /\ gray \subseteq Step /\ black \subseteq Step
    /\ reported \in Seq(Step)
    /\ seen \subseteq Step /\ measured \subseteq Step
    /\ height \in [Step -> Nat] /\ deepest \in Nat
    /\ degree \in [Step -> Nat]
    /\ due \in Seq(Step) /\ order \in Seq(Step)
    /\ uncounted \in SUBSET (Step \X Nat)

Unjudged ==
    /\ lists \in Workflow
    /\ judging = "cycles"
    /\ turn = 1 /\ calls = <<>> /\ looked = [s \in Step |-> 0]
    /\ gray = {} /\ black = {} /\ reported = <<>>
    /\ seen = {} /\ measured = {}
    /\ height = [s \in Step |-> 0] /\ deepest = 0
    /\ degree = [s \in Step |-> 0]
    /\ due = <<>> /\ uncounted = {} /\ order = <<>>

ListedBy(s) == {lists[s][k] : k \in DOMAIN lists[s]}

Graph == [s \in Step |-> ListedBy(s)]

Valid == Step # {} /\ WellNamed(Graph) /\ reported = <<>>

Caller == calls[Len(calls)]

MoreToLook == looked[Caller] < Len(lists[Caller])

\* The loop over the dependencies of the running call comes to d.
LookAt(d) ==
    /\ calls # <<>> /\ MoreToLook
    /\ d = lists[Caller][looked[Caller] + 1]
    /\ looked' = [looked EXCEPT ![Caller] = @ + 1]

BackToCaller == calls' = SubSeq(calls, 1, Len(calls) - 1)

----------------------------------------------------------------------------
(* detectCycles *)

\* dfs is called for the steps that are still white.
DetectFrom(s) ==
    /\ judging = "cycles" /\ calls = <<>>
    /\ turn <= Len(Listed) /\ s = Listed[turn]
    /\ IF s \in gray \cup black
       THEN turn' = turn + 1 /\ UNCHANGED <<calls, gray>>
       ELSE calls' = <<s>> /\ gray' = gray \cup {s} /\ UNCHANGED turn
    /\ UNCHANGED <<lists, judging, looked, black, reported, depthVars, sortVars>>

SkipDependency(d) ==
    /\ judging = "cycles"
    /\ LookAt(d)
    /\ d \in {NoStep} \cup black
    /\ UNCHANGED <<lists, judging, turn, calls, colorVars, depthVars, sortVars>>

DfsInto(d) ==
    /\ judging = "cycles"
    /\ LookAt(d)
    /\ d \notin {NoStep} \cup gray \cup black
    /\ calls' = Append(calls, d)
    /\ gray' = gray \cup {d}
    /\ UNCHANGED <<lists, judging, turn, black, reported, depthVars, sortVars>>

\* path does not hold the running step: when that is d, all of path is reported.
CyclePath(d) ==
    LET path == SubSeq(calls, 1, Len(calls) - 1)
        start == IF \E k \in DOMAIN path : path[k] = d
                 THEN CHOOSE k \in DOMAIN path : path[k] = d ELSE 1
    IN  Append(SubSeq(calls, start, Len(calls)), d)

\* A gray step: every dfs returns, and the depths are next.
ReportCycle(d) ==
    /\ judging = "cycles"
    /\ calls # <<>> /\ MoreToLook
    /\ d = lists[Caller][looked[Caller] + 1] /\ d \in gray
    /\ reported' = CyclePath(d)
    /\ judging' = "depth"
    /\ turn' = 1 /\ calls' = <<>> /\ looked' = [s \in Step |-> 0]
    /\ UNCHANGED <<lists, gray, black, depthVars, sortVars>>

\* Wrong: a finished step is still found on the current path.
FinishGray ==
    /\ judging = "cycles" /\ calls # <<>> /\ ~MoreToLook
    /\ BackToCaller
    /\ UNCHANGED <<lists, judging, turn, looked, colorVars, depthVars, sortVars>>

Finish ==
    /\ judging = "cycles" /\ calls # <<>> /\ ~MoreToLook
    /\ gray' = gray \ {Caller} /\ black' = black \cup {Caller}
    /\ BackToCaller
    /\ UNCHANGED <<lists, judging, turn, looked, reported, depthVars, sortVars>>

NoCycle ==
    /\ judging = "cycles" /\ calls = <<>> /\ turn > Len(Listed)
    /\ judging' = "depth"
    /\ turn' = 1 /\ looked' = [s \in Step |-> 0]
    /\ UNCHANGED <<lists, calls, colorVars, depthVars, sortVars>>

----------------------------------------------------------------------------
(* calculateMaxDepth, which the warning DEEP_DEPENDENCY_CHAIN is about *)

Larger(m, n) == IF m < n THEN n ELSE m

\* Wrong: the set of visited steps is kept from one step to the next.
KeptVisited == seen

FreshVisited == {}

\* What getDepth answers at once: an id that no step has is without
\* dependencies, and a step visited before counts as 0 before its depth is
\* looked up.
Answered(d, visited) == d \in {NoStep} \cup visited \cup measured

Answer(d, visited) == IF d \in {NoStep} \cup visited THEN 0 ELSE height[d]

Raise(s, value) == height' = [height EXCEPT ![s] = Larger(@, value + 1)]

MeasureFrom(s) ==
    /\ judging = "depth" /\ calls = <<>>
    /\ turn <= Len(Listed) /\ s = Listed[turn]
    /\ IF Answered(s, FreshVisited)
       THEN /\ deepest' = Larger(deepest, Answer(s, FreshVisited))
            /\ turn' = turn + 1
            /\ seen' = FreshVisited /\ UNCHANGED calls
       ELSE /\ calls' = <<s>> /\ seen' = FreshVisited \cup {s}
            /\ UNCHANGED <<turn, deepest>>
    /\ UNCHANGED <<lists, judging, looked, colorVars, measured, height, sortVars>>

TakeAnswer(d) ==
    /\ judging = "depth"
    /\ LookAt(d)
    /\ Answered(d, seen)
    /\ Raise(Caller, Answer(d, seen))
    /\ UNCHANGED <<lists, judging, turn, calls, colorVars, seen, measured, deepest,
                   sortVars>>

MeasureInto(d) ==
    /\ judging = "depth"
    /\ LookAt(d)
    /\ ~Answered(d, seen)
    /\ calls' = Append(calls, d)
    /\ seen' = seen \cup {d}
    /\ UNCHANGED <<lists, judging, turn, colorVars, measured, height, deepest, sortVars>>

\* The depth of a step goes to the one that depends on it, or to the loop.
Measure ==
    /\ judging = "depth" /\ calls # <<>> /\ ~MoreToLook
    /\ measured' = measured \cup {Caller}
    /\ IF Len(calls) = 1
       THEN /\ deepest' = Larger(deepest, height[Caller])
            /\ turn' = turn + 1 /\ UNCHANGED height
       ELSE /\ Raise(calls[Len(calls) - 1], height[Caller])
            /\ UNCHANGED <<turn, deepest>>
    /\ BackToCaller
    /\ UNCHANGED <<lists, judging, looked, colorVars, seen, sortVars>>

----------------------------------------------------------------------------
(* topologicalSort, of valid workflows *)

Before(s, t) ==
    \E j, k \in DOMAIN Listed : j < k /\ Listed[j] = s /\ Listed[k] = t

AsListed(S) ==
    {q \in Listings(S) : \A j, k \in DOMAIN q : j < k => Before(q[j], q[k])}

StartSort ==
    /\ judging = "depth" /\ calls = <<>> /\ turn > Len(Listed)
    /\ IF Valid
       THEN /\ judging' = "order"
            /\ degree' = [s \in Step |-> Len(lists[s])]
            /\ due' \in AsListed({s \in Step : Len(lists[s]) = 0})
       ELSE judging' = "done" /\ UNCHANGED <<degree, due>>
    /\ UNCHANGED <<lists, turn, calls, looked, colorVars, depthVars, uncounted, order>>

TakeDue ==
    /\ judging = "order" /\ uncounted = {} /\ due # <<>>
    /\ order' = Append(order, Head(due))
    /\ due' = Tail(due)
    /\ uncounted' = UNION {{s} \X {k \in DOMAIN lists[s] : lists[s][k] = Head(due)} : s \in Step}
    /\ UNCHANGED <<lists, judging, turn, calls, looked, colorVars, depthVars, degree>>

\* s, which has the last taken step as its k-th dependency; steps come in the
\* order of the workflow.
CountEntry(s, k) ==
    /\ judging = "order" /\ <<s, k>> \in uncounted
    /\ \A e \in uncounted : ~Before(e[1], s)
    /\ LET newDegree == IF degree[s] = 0 THEN 0 ELSE degree[s] - 1
       IN  /\ degree' = [degree EXCEPT ![s] = newDegree]
           /\ due' = IF newDegree = 0 THEN Append(due, s) ELSE due
    /\ uncounted' = uncounted \ {<<s, k>>}
    /\ UNCHANGED <<lists, judging, turn, calls, looked, colorVars, depthVars, order>>

EndSort ==
    /\ judging = "order" /\ uncounted = {} /\ due = <<>>
    /\ judging' = "done"
    /\ UNCHANGED <<lists, turn, calls, looked, colorVars, depthVars, sortVars>>

----------------------------------------------------------------------------

Validate ==
    \/ \E s \in Step : DetectFrom(s) \/ MeasureFrom(s)
    \/ \E d \in Step \cup {NoStep} :
          \/ SkipDependency(d) \/ DfsInto(d) \/ ReportCycle(d)
          \/ TakeAnswer(d) \/ MeasureInto(d)
    \/ Finish \/ NoCycle \/ Measure \/ StartSort \/ TakeDue \/ EndSort
    \/ \E e \in uncounted : CountEntry(e[1], e[2])

ValidatorSpec == Unjudged /\ [][Validate]_validVars

----------------------------------------------------------------------------
(* Properties *)

\* Every step once, and after its dependencies.
OrderedRight ==
    /\ order \in Listings(Step)
    /\ \A k \in DOMAIN order : \A d \in Graph[order[k]] :
          \E j \in 1 .. k - 1 : order[j] = d

\* A cycle, or a path that ends in a step that depends on itself.
ReportedRight ==
    \/ IsCycle(Graph, reported)
    \/ /\ Len(reported) > 1 /\ reported[Len(reported)] \in Graph[reported[Len(reported)]]
       /\ reported[Len(reported) - 1] = reported[Len(reported)]

\* validateWorkflow accepts the workflows that can be executed and no other
\* but the empty one; their execution order has every step once and after its
\* dependencies; and the cycle that an error reports is one, but for the path
\* that led to it when a step depends on itself.
WorkflowsJudged ==
    /\ judging = "done" /\ Step # {} => (Valid <=> Plannable(Graph))
    /\ judging = "done" /\ Valid => OrderedRight
    /\ reported # <<>> => ReportedRight

=============================================================================
