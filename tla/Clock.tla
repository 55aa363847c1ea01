------------------------------- MODULE Clock -------------------------------
(***************************************************************************)
(* The wall clock that every process reads with Date.now() and that        *)
(* Firestore stamps with Timestamp.now().  One clock is shared by all      *)
(* processes: skew between hosts is not modelled.  Time is counted in      *)
(* units of the smallest interval a configuration tells apart.             *)
(***************************************************************************)
EXTENDS Naturals

CONSTANT MaxTime    \* bound of the model: the clock stops at this value

ASSUME MaxTimeAssumption == MaxTime \in Nat

VARIABLE clock

Tick ==
    /\ clock < MaxTime
    /\ clock' = clock + 1

=============================================================================
