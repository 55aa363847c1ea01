----------------------------- MODULE StepOrder -----------------------------
(***************************************************************************)
(* What an execution of a workflow promises, whatever executor runs it:    *)
(* nothing happens to the steps of a graph that cannot be executed; in one *)
(* that can, a step runs once, after the steps it depends on have          *)
(* completed and with no more than MaxParallel others; a step is passed    *)
(* over only when it could have been started or depends on one that failed *)
(* or was passed over; an outcome is final.                                *)
(***************************************************************************)
EXTENDS StepGraph

CONSTANT MaxParallel

VARIABLES deps, status

StepStatus ==
    {"pending", "running", "completed", "failed", "skipped", "cancelled"}

In(st) == {s \in Step : status[s] = st}

\* All dependencies have an outcome.
Settled(s) == \A d \in deps[s] : status[d] \in {"completed", "failed", "skipped"}

Completed(s) == \A d \in deps[s] : status[d] = "completed"

Init ==
    /\ deps \in StepGraphs
    /\ status = [s \in Step |-> "pending"]

Advance(skip, start) ==
    /\ skip \subseteq In("pending") /\ start \subseteq In("pending") \ skip
    /\ \A s \in skip : Settled(s)
    /\ \A s \in start : Completed(s)
    /\ start # {} => Cardinality(In("running") \cup start) <= MaxParallel
    /\ status' = [s \in Step |-> IF s \in skip THEN "skipped"
                                 ELSE IF s \in start THEN "running"
                                 ELSE status[s]]
    /\ UNCHANGED deps

Finish(s, outcome) ==
    /\ status[s] = "running"
    /\ status' = [status EXCEPT ![s] = outcome]
    /\ UNCHANGED deps

Cancel ==
    /\ status' = [s \in Step |-> IF status[s] \in {"pending", "running"}
                                 THEN "cancelled" ELSE status[s]]
    /\ UNCHANGED deps

Next ==
    /\ Plannable(deps)
    /\ \/ \E skip, start \in SUBSET Step : Advance(skip, start)
       \/ \E s \in Step, outcome \in {"completed", "failed", "cancelled"} :
            Finish(s, outcome)
       \/ Cancel

Spec == Init /\ [][Next]_<<deps, status>>

=============================================================================
