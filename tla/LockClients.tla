---------------------------- MODULE LockClients ----------------------------
(***************************************************************************)
(* The lock manager of RunLock under concurrent callers.  A caller is      *)
(* named by the holder id its tryAcquire generates.  Each call is two      *)
(* steps, because the code reads Date.now() first and commits its          *)
(* transaction later.  getLock, cleanupExpired and forceRelease read the   *)
(* document and delete it afterwards, outside any transaction.             *)
(***************************************************************************)
EXTENDS RunLock

CONSTANTS
    RunOf,      \* RunOf[h]: the run that holder h asks for
    Ttl         \* the ttlMs values callers pass

ASSUME RunOfAssumption == RunOf \in [Holder -> Run]
ASSUME TtlAssumption == Ttl \subseteq Nat

VARIABLES
    pc,         \* pc[h]: where the caller is
    now,        \* now[h]: the clock value its current call has read
    until,      \* until[h]: the end of the lease the caller was granted
    doomed,     \* runs whose document a reader has decided to delete
    robbed,     \* observation only: holders that lost an unexpired lock
    fence       \* observation only: fence[h] is the fencing token h's grant
                \* wrote, 0 once the document that carried it is deleted

vars == <<clock, lock, pc, now, until, doomed, robbed, fence>>
maintenance == <<doomed, robbed>>

TypeOK ==
    /\ clock \in Nat
    /\ LockTypeOK
    /\ pc \in [Holder -> {"new", "acquiring", "holding", "extending", "done"}]
    /\ now \in [Holder -> Nat]
    /\ until \in [Holder -> Nat]
    /\ doomed \subseteq Run
    /\ robbed \subseteq Holder \cup {NoHolder}
    /\ fence \in [Holder -> Nat]

Init ==
    /\ clock = 0
    /\ LockInit
    /\ pc = [h \in Holder |-> "new"]
    /\ now = [h \in Holder |-> 0]
    /\ until = [h \in Holder |-> 0]
    /\ doomed = {}
    /\ robbed = {}
    /\ fence = [h \in Holder |-> 0]

\* The tokens written in a deleted document are gone with it.
Forget(r) == [h \in Holder |-> IF RunOf[h] = r THEN 0 ELSE fence[h]]

----------------------------------------------------------------------------
(* Callers *)

BeginAcquire(h) ==
    /\ pc[h] = "new"
    /\ pc' = [pc EXCEPT ![h] = "acquiring"]
    /\ now' = [now EXCEPT ![h] = clock]
    /\ UNCHANGED <<clock, lock, until, maintenance, fence>>

AcquireGranted(h) ==
    /\ pc[h] = "acquiring"
    /\ \E ttl \in Ttl :
        /\ Acquire(RunOf[h], h, now[h], ttl)
        /\ until' = [until EXCEPT ![h] = now[h] + ttl]
    /\ pc' = [pc EXCEPT ![h] = "holding"]
    /\ fence' = [fence EXCEPT ![h] = lock'[RunOf[h]].token]
    /\ UNCHANGED <<clock, now, maintenance>>

\* Held by somebody else, or the transaction failed under contention.
AcquireRefused(h) ==
    /\ pc[h] = "acquiring"
    /\ pc' = [pc EXCEPT ![h] = "done"]
    /\ UNCHANGED <<clock, lock, now, until, maintenance, fence>>

BeginExtend(h) ==
    /\ pc[h] = "holding"
    /\ pc' = [pc EXCEPT ![h] = "extending"]
    /\ now' = [now EXCEPT ![h] = clock]
    /\ UNCHANGED <<clock, lock, until, maintenance, fence>>

\* extend returns false when the document is missing or another holder's;
\* the caller then keeps the lease it had.
ExtendReturns(h) ==
    /\ pc[h] = "extending"
    /\ \E ttl \in Ttl :
        /\ Extend(RunOf[h], h, now[h], ttl)
        /\ until' = [until EXCEPT ![h] =
                        IF lock[RunOf[h]].holder = h THEN now[h] + ttl ELSE @]
    /\ pc' = [pc EXCEPT ![h] = "holding"]
    /\ UNCHANGED <<clock, now, maintenance, fence>>

ReleaseLock(h) ==
    /\ pc[h] = "holding"
    /\ Release(RunOf[h], h)
    /\ pc' = [pc EXCEPT ![h] = "done"]
    /\ fence' = IF lock[RunOf[h]].holder = h THEN Forget(RunOf[h]) ELSE fence
    /\ UNCHANGED <<clock, now, until, maintenance>>

\* The process dies, or release swallows an error and returns false: the
\* document stays until its expiry.
Abandon(h) ==
    /\ pc[h] \in {"holding", "extending"}
    /\ pc' = [pc EXCEPT ![h] = "done"]
    /\ UNCHANGED <<clock, lock, now, until, maintenance, fence>>

----------------------------------------------------------------------------
(* Readers that delete *)

Expired(r) == Exists(r) /\ lock[r].expiresAt <= clock

\* getLock on an expired document, which it is going to delete.
GetLockReads(r) ==
    /\ Expired(r)
    /\ doomed' = doomed \cup {r}
    /\ UNCHANGED <<clock, lock, pc, now, until, robbed, fence>>

\* cleanupExpired: the query (its limit of 100 is above every instance).
CleanupQuery ==
    /\ \E r \in Run : Expired(r)
    /\ doomed' = doomed \cup {r \in Run : Expired(r)}
    /\ UNCHANGED <<clock, lock, pc, now, until, robbed, fence>>

\* forceRelease on an existing document, which it is going to delete.
ForceReleaseReads(r) ==
    /\ Exists(r)
    /\ doomed' = doomed \cup {r}
    /\ UNCHANGED <<clock, lock, pc, now, until, robbed, fence>>

\* The delete that each of the three ends with, whatever the document holds by
\* then.
DeleteDoomed(r) ==
    /\ r \in doomed
    /\ DeleteDoc(r)
    /\ doomed' = doomed \ {r}
    /\ robbed' = IF lock[r].expiresAt > clock
                 THEN robbed \cup {lock[r].holder} ELSE robbed
    /\ fence' = Forget(r)
    /\ UNCHANGED <<clock, pc, now, until>>

Time == Tick /\ UNCHANGED <<lock, pc, now, until, maintenance, fence>>

Next ==
    \/ Time
    \/ CleanupQuery
    \/ \E h \in Holder :
        \/ BeginAcquire(h) \/ AcquireGranted(h) \/ AcquireRefused(h)
        \/ BeginExtend(h) \/ ExtendReturns(h)
        \/ ReleaseLock(h) \/ Abandon(h)
    \/ \E r \in Run :
        GetLockReads(r) \/ ForceReleaseReads(r) \/ DeleteDoomed(r)

Spec == Init /\ [][Next]_vars

----------------------------------------------------------------------------
(* Properties *)

\* The caller is inside the section the lock protects and its lease lasts.
Leased(h) == pc[h] \in {"holding", "extending"} /\ until[h] > clock

\* Two callers hold an unexpired lease on one run only if a non-transactional
\* delete (getLock, cleanupExpired, forceRelease) removed the document of one
\* of them.  tryAcquire, extend and release alone keep the lock exclusive,
\* whatever clock value they read before their transaction.
LeaseExclusion ==
    \A h1, h2 \in Holder :
        h1 # h2 /\ RunOf[h1] = RunOf[h2] /\ Leased(h1) /\ Leased(h2)
            => h1 \in robbed \/ h2 \in robbed

\* A lease that was not taken away is still written in its document, and no
\* call in progress has read a clock value from the future.
LeaseRecorded ==
    /\ \A h \in Holder : now[h] <= clock
    /\ \A h \in Holder : Leased(h) /\ h \notin robbed =>
        /\ lock[RunOf[h]].holder = h
        /\ lock[RunOf[h]].expiresAt = until[h]

\* Fencing tokens order the grants of one run for as long as its document
\* lives: the document's holder carries the document's token, every holder
\* before it a smaller one, no two the same.  A delete (release included)
\* forgets the count, and the next grant starts again at 1.
FencingOrder ==
    \A h \in Holder : fence[h] > 0 =>
        /\ fence[h] <= lock[RunOf[h]].token
        /\ (fence[h] = lock[RunOf[h]].token) <=> (lock[RunOf[h]].holder = h)
        /\ \A g \in Holder \ {h} : RunOf[g] = RunOf[h] => fence[g] # fence[h]

\* The lock manager implements the lease service: callers between a granted
\* acquire and their release hold leases, and the deletes outside a
\* transaction are the only revocations.
Service == INSTANCE LeaseService
           WITH inside  <- {h \in Holder : pc[h] \in {"holding", "extending"}},
                revoked <- robbed

ImplementsLeaseService == Service!Spec

=============================================================================
