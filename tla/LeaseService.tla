---------------------------- MODULE LeaseService ----------------------------
(***************************************************************************)
(* What the run lock promises its callers, without documents, transactions *)
(* or clock values read early: a lease is granted or renewed only while no *)
(* other caller holds a valid lease on the same run.  A lease stops being  *)
(* valid when its time is up, when its holder leaves, or when it is        *)
(* revoked, and a revoked lease is never renewed.                          *)
(***************************************************************************)
EXTENDS Naturals

CONSTANTS Holder, RunOf

VARIABLES
    clock,
    inside,     \* holders in the section the lock protects
    until,      \* until[h]: the end of the lease h was last granted
    revoked     \* holders whose lease was taken away while it was valid

svars == <<clock, inside, until, revoked>>

Valid(h) == h \in inside /\ until[h] > clock /\ h \notin revoked

Vacant(h) == \A g \in Holder \ {h} : RunOf[g] = RunOf[h] => ~Valid(g)

Init ==
    /\ clock = 0
    /\ inside = {}
    /\ until = [h \in Holder |-> 0]
    /\ revoked = {}

\* h gets some new end of its lease, nobody else's changes.
NewEnd(h) ==
    /\ until'[h] \in Nat
    /\ until' = [until EXCEPT ![h] = until'[h]]

Grant(h) ==
    /\ h \notin inside
    /\ Vacant(h)
    /\ inside' = inside \cup {h}
    /\ NewEnd(h)
    /\ UNCHANGED <<clock, revoked>>

Renew(h) ==
    /\ h \in inside \ revoked
    /\ Vacant(h)
    /\ NewEnd(h)
    /\ UNCHANGED <<clock, inside, revoked>>

Leave(h) ==
    /\ inside' = inside \ {h}
    /\ UNCHANGED <<clock, until, revoked>>

Revoke(h) ==
    /\ revoked' = revoked \cup {h}
    /\ UNCHANGED <<clock, inside, until>>

Advance ==
    /\ clock' = clock + 1
    /\ UNCHANGED <<inside, until, revoked>>

Next ==
    \/ Advance
    \/ \E h \in Holder : Grant(h) \/ Renew(h) \/ Leave(h) \/ Revoke(h)

Spec == Init /\ [][Next]_svars

\* Two valid leases on one run are the same lease.
Exclusion ==
    \A g, h \in Holder : RunOf[g] = RunOf[h] /\ Valid(g) /\ Valid(h) => g = h

=============================================================================
