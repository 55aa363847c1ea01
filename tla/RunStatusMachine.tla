-------------------------- MODULE RunStatusMachine --------------------------
(***************************************************************************)
(* What the status of a run goes through, whoever writes it and however    *)
(* many processes write at once: a status is only ever followed by one     *)
(* RUN_STATUS_TRANSITIONS allows, or by one that some writer found allowed *)
(* when it looked, however long ago that was.                              *)
(***************************************************************************)
CONSTANT Id

VARIABLES
    status,     \* status[r]: "none" while there is no document r
    validated   \* pairs <<r, s>>: somebody found that r may become s

Statuses == {"pending", "running", "awaiting_approval", "waiting_external",
             "completed", "failed", "cancelled"}

Terminal == {"completed", "failed", "cancelled"}

Paused == {"awaiting_approval", "waiting_external"}

\* RUN_STATUS_TRANSITIONS, as the set of pairs it allows.
Transitions ==
    ({"pending"} \X {"running", "failed", "cancelled"})
    \cup ({"running"} \X (Terminal \cup Paused))
    \cup (Paused \X ({"running"} \cup Terminal))

Allowed(from, to) == <<from, to>> \in Transitions

Init ==
    /\ status = [r \in Id |-> "none"]
    /\ validated = {}

Create(r, s) == status[r] = "none" /\ s \in {"pending", "running"}

\* A status changes along the transitions or by an earlier validation.
Change ==
    \E r \in Id, s \in Statuses :
        /\ Create(r, s) \/ Allowed(status[r], s) \/ <<r, s>> \in validated
        /\ status' = [status EXCEPT ![r] = s]

\* New validations hold of the present; old ones may be used or given up.
Validations ==
    \A p \in validated' \ validated :
        p[1] \in Id /\ (p[2] = status[p[1]] \/ Allowed(status[p[1]], p[2]))

Next == (UNCHANGED status \/ Change) /\ Validations

Spec == Init /\ [][Next]_<<status, validated>>

=============================================================================
