------------------------- MODULE LockClientsProofs -------------------------
(***************************************************************************)
(* For every set of callers, every ttl and every clock bound: the run lock *)
(* is exclusive as long as nobody deletes a lock document outside a        *)
(* transaction.  The invariant that carries the proof is LeaseRecorded.    *)
(***************************************************************************)
EXTENDS LockClients, TLAPS

USE RunOfAssumption, TtlAssumption, NoHolderAssumption

\* The values of the variables of LockClients stay in their types: every
\* operation of the lock manager writes a well-formed document.
THEOREM LockTypeCorrect == Spec => []TypeOK
<1>1. Init => TypeOK
  BY DEF Init, TypeOK, LockTypeOK, LockInit, NoLock, LockDoc
<1>2. TypeOK /\ [Next]_vars => TypeOK'
  <2> SUFFICES ASSUME TypeOK, [Next]_vars PROVE TypeOK'
    OBVIOUS
  <2> USE DEF TypeOK, LockTypeOK, LockDoc, NoLock, maintenance
  <2>1. CASE Time
    BY <2>1, MaxTimeAssumption DEF Time, Tick
  <2>2. CASE CleanupQuery
    BY <2>2 DEF CleanupQuery
  <2>3. ASSUME NEW h \in Holder, BeginAcquire(h) PROVE TypeOK'
    BY <2>3 DEF BeginAcquire
  <2>4. ASSUME NEW h \in Holder, AcquireGranted(h) PROVE TypeOK'
    BY <2>4 DEF AcquireGranted, Acquire
  <2>5. ASSUME NEW h \in Holder, AcquireRefused(h) PROVE TypeOK'
    BY <2>5 DEF AcquireRefused
  <2>6. ASSUME NEW h \in Holder, BeginExtend(h) PROVE TypeOK'
    BY <2>6 DEF BeginExtend
  <2>7. ASSUME NEW h \in Holder, ExtendReturns(h) PROVE TypeOK'
    BY <2>7 DEF ExtendReturns, Extend
  <2>8. ASSUME NEW h \in Holder, ReleaseLock(h) PROVE TypeOK'
    BY <2>8 DEF ReleaseLock, Release, Forget
  <2>9. ASSUME NEW h \in Holder, Abandon(h) PROVE TypeOK'
    BY <2>9 DEF Abandon
  <2>10. ASSUME NEW r \in Run, GetLockReads(r) PROVE TypeOK'
    BY <2>10 DEF GetLockReads
  <2>11. ASSUME NEW r \in Run, ForceReleaseReads(r) PROVE TypeOK'
    BY <2>11 DEF ForceReleaseReads
  <2>12. ASSUME NEW r \in Run, DeleteDoomed(r) PROVE TypeOK'
    BY <2>12 DEF DeleteDoomed, DeleteDoc, Forget
  <2>13. CASE UNCHANGED vars
    BY <2>13 DEF vars
  <2>14. QED
    BY <2>1, <2>2, <2>3, <2>4, <2>5, <2>6, <2>7, <2>8, <2>9, <2>10, <2>11,
       <2>12, <2>13 DEF Next
<1>3. QED
  BY <1>1, <1>2, PTL DEF Spec

\* A lease nobody took away is the one written in the lock document: acquire
\* refuses a document that has not expired at the clock value it read, which
\* is never ahead of the clock; release and extend touch only their own.
THEOREM LeaseRecordedInvariant == Spec => []LeaseRecorded
<1>1. Init => LeaseRecorded
  BY DEF Init, LeaseRecorded, Leased
<1>2. TypeOK /\ LeaseRecorded /\ [Next]_vars => LeaseRecorded'
  <2> SUFFICES ASSUME TypeOK, LeaseRecorded, [Next]_vars PROVE LeaseRecorded'
    OBVIOUS
  <2> USE DEF TypeOK, LockTypeOK, LockDoc, NoLock, LeaseRecorded, Leased,
              maintenance
  <2>1. CASE Time
    BY <2>1 DEF Time, Tick
  <2>2. CASE CleanupQuery
    BY <2>2 DEF CleanupQuery
  <2>3. ASSUME NEW h \in Holder, BeginAcquire(h) PROVE LeaseRecorded'
    BY <2>3 DEF BeginAcquire
  <2>4. ASSUME NEW h \in Holder, AcquireGranted(h) PROVE LeaseRecorded'
    <3>1. PICK ttl \in Ttl :
            /\ Acquire(RunOf[h], h, now[h], ttl)
            /\ until' = [until EXCEPT ![h] = now[h] + ttl]
      BY <2>4 DEF AcquireGranted
    <3>2. \A g \in Holder : Leased(g) /\ g \notin robbed => RunOf[g] # RunOf[h]
      BY <3>1 DEF Acquire, Free, Exists
    <3>3. lock'[RunOf[h]].holder = h /\ lock'[RunOf[h]].expiresAt = until'[h]
      BY <3>1 DEF Acquire
    <3>4. ASSUME NEW g \in Holder, g # h, Leased(g)', g \notin robbed'
          PROVE  /\ lock'[RunOf[g]].holder = g
                 /\ lock'[RunOf[g]].expiresAt = until'[g]
      <4>1. Leased(g) /\ g \notin robbed /\ until'[g] = until[g]
        BY <3>1, <3>4, <2>4 DEF AcquireGranted
      <4>2. lock'[RunOf[g]] = lock[RunOf[g]]
        BY <4>1, <3>1, <3>2 DEF Acquire
      <4>3. QED
        BY <4>1, <4>2
    <3>5. QED
      BY <2>4, <3>3, <3>4 DEF AcquireGranted
  <2>5. ASSUME NEW h \in Holder, AcquireRefused(h) PROVE LeaseRecorded'
    BY <2>5 DEF AcquireRefused
  <2>6. ASSUME NEW h \in Holder, BeginExtend(h) PROVE LeaseRecorded'
    BY <2>6 DEF BeginExtend
  <2>7. ASSUME NEW h \in Holder, ExtendReturns(h) PROVE LeaseRecorded'
    <3>1. PICK ttl \in Ttl :
            /\ Extend(RunOf[h], h, now[h], ttl)
            /\ until' = [until EXCEPT ![h] =
                  IF lock[RunOf[h]].holder = h THEN now[h] + ttl ELSE @]
      BY <2>7 DEF ExtendReturns
    <3>2. CASE lock[RunOf[h]].holder = h
      BY <2>7, <3>1, <3>2 DEF ExtendReturns, Extend
    <3>3. CASE lock[RunOf[h]].holder # h
      <4>1. lock' = lock /\ until' = until
        BY <3>1, <3>3 DEF Extend
      <4>2. QED
        BY <2>7, <4>1 DEF ExtendReturns
    <3>4. QED
      BY <3>2, <3>3
  <2>8. ASSUME NEW h \in Holder, ReleaseLock(h) PROVE LeaseRecorded'
    BY <2>8 DEF ReleaseLock, Release
  <2>9. ASSUME NEW h \in Holder, Abandon(h) PROVE LeaseRecorded'
    BY <2>9 DEF Abandon
  <2>10. ASSUME NEW r \in Run, GetLockReads(r) PROVE LeaseRecorded'
    BY <2>10 DEF GetLockReads
  <2>11. ASSUME NEW r \in Run, ForceReleaseReads(r) PROVE LeaseRecorded'
    BY <2>11 DEF ForceReleaseReads
  <2>12. ASSUME NEW r \in Run, DeleteDoomed(r) PROVE LeaseRecorded'
    BY <2>12 DEF DeleteDoomed, DeleteDoc
  <2>13. CASE UNCHANGED vars
    BY <2>13 DEF vars
  <2>14. QED
    BY <2>1, <2>2, <2>3, <2>4, <2>5, <2>6, <2>7, <2>8, <2>9, <2>10, <2>11,
       <2>12, <2>13 DEF Next
<1>3. QED
  BY <1>1, <1>2, LockTypeCorrect, PTL DEF Spec

\* Mutual exclusion of the run lock: one document names one holder, so two
\* recorded leases on a run are the same lease.
THEOREM LockExclusive == Spec => []LeaseExclusion
<1>1. LeaseRecorded => LeaseExclusion
  BY DEF LeaseRecorded, LeaseExclusion
<1>2. QED
  BY <1>1, LeaseRecordedInvariant, PTL

----------------------------------------------------------------------------
(* Fencing tokens and the lease service *)

\* Strengthening for the two theorems below: a missing document is NoLock, a
\* document names a caller of its own run that has acquired, and a caller
\* that was robbed never gets the document back.
OwnDocuments ==
    /\ \A r \in Run : lock[r].holder = NoHolder => lock[r] = NoLock
    /\ \A r \in Run : \A h \in Holder : lock[r].holder = h =>
            RunOf[h] = r /\ pc[h] \notin {"new", "acquiring"}
    /\ \A h \in Holder : h \in robbed =>
            /\ pc[h] \notin {"new", "acquiring"}
            /\ lock[RunOf[h]].holder # h
    /\ NoHolder \notin robbed

LEMMA OwnDocumentsInvariant == Spec => []OwnDocuments
<1>1. Init => OwnDocuments
  BY DEF Init, OwnDocuments, LockInit, NoLock
<1>2. TypeOK /\ OwnDocuments /\ [Next]_vars => OwnDocuments'
  <2> SUFFICES ASSUME TypeOK, OwnDocuments, [Next]_vars PROVE OwnDocuments'
    OBVIOUS
  <2> USE DEF TypeOK, LockTypeOK, LockDoc, NoLock, OwnDocuments, maintenance
  <2>1. CASE Time
    BY <2>1 DEF Time, Tick
  <2>2. CASE CleanupQuery
    BY <2>2 DEF CleanupQuery
  <2>3. ASSUME NEW h \in Holder, BeginAcquire(h) PROVE OwnDocuments'
    BY <2>3 DEF BeginAcquire
  <2>4. ASSUME NEW h \in Holder, AcquireGranted(h) PROVE OwnDocuments'
    BY <2>4 DEF AcquireGranted, Acquire
  <2>5. ASSUME NEW h \in Holder, AcquireRefused(h) PROVE OwnDocuments'
    BY <2>5 DEF AcquireRefused
  <2>6. ASSUME NEW h \in Holder, BeginExtend(h) PROVE OwnDocuments'
    BY <2>6 DEF BeginExtend
  <2>7. ASSUME NEW h \in Holder, ExtendReturns(h) PROVE OwnDocuments'
    <3>1. PICK ttl \in Ttl : Extend(RunOf[h], h, now[h], ttl)
      BY <2>7 DEF ExtendReturns
    <3>2. CASE lock[RunOf[h]].holder = h
      BY <2>7, <3>1, <3>2 DEF ExtendReturns, Extend
    <3>3. CASE lock[RunOf[h]].holder # h
      <4>1. lock' = lock
        BY <3>1, <3>3 DEF Extend
      <4>2. QED
        BY <2>7, <4>1 DEF ExtendReturns
    <3>4. QED
      BY <3>2, <3>3
  <2>8. ASSUME NEW h \in Holder, ReleaseLock(h) PROVE OwnDocuments'
    BY <2>8 DEF ReleaseLock, Release
  <2>9. ASSUME NEW h \in Holder, Abandon(h) PROVE OwnDocuments'
    BY <2>9 DEF Abandon
  <2>10. ASSUME NEW r \in Run, GetLockReads(r) PROVE OwnDocuments'
    BY <2>10 DEF GetLockReads
  <2>11. ASSUME NEW r \in Run, ForceReleaseReads(r) PROVE OwnDocuments'
    BY <2>11 DEF ForceReleaseReads
  <2>12. ASSUME NEW r \in Run, DeleteDoomed(r) PROVE OwnDocuments'
    BY <2>12 DEF DeleteDoomed, DeleteDoc
  <2>13. CASE UNCHANGED vars
    BY <2>13 DEF vars
  <2>14. QED
    BY <2>1, <2>2, <2>3, <2>4, <2>5, <2>6, <2>7, <2>8, <2>9, <2>10, <2>11,
       <2>12, <2>13 DEF Next
<1>3. QED
  BY <1>1, <1>2, LockTypeCorrect, PTL DEF Spec

\* Among the grants a lock document has lived through, fencing tokens are
\* distinct and the current holder has the largest: tryAcquire counts up in
\* the transaction that replaces the document, and nothing else writes them.
THEOREM FencingOrderInvariant == Spec => []FencingOrder
<1>1. Init => FencingOrder
  BY DEF Init, FencingOrder
<1>2. TypeOK /\ OwnDocuments /\ FencingOrder /\ [Next]_vars => FencingOrder'
  <2> SUFFICES ASSUME TypeOK, OwnDocuments, FencingOrder, [Next]_vars
               PROVE  FencingOrder'
    OBVIOUS
  <2> USE DEF TypeOK, LockTypeOK, LockDoc, FencingOrder, maintenance
  <2>1. CASE Time
    BY <2>1 DEF Time
  <2>2. CASE CleanupQuery
    BY <2>2 DEF CleanupQuery
  <2>3. ASSUME NEW h \in Holder, BeginAcquire(h) PROVE FencingOrder'
    BY <2>3 DEF BeginAcquire
  <2>4. ASSUME NEW h \in Holder, AcquireGranted(h) PROVE FencingOrder'
    <3> DEFINE r == RunOf[h]
    <3>0. PICK ttl \in Ttl : Acquire(r, h, now[h], ttl)
      BY <2>4 DEF AcquireGranted
    <3>1. /\ lock'[r].token = lock[r].token + 1
          /\ lock'[r].holder = h
          /\ \A q \in Run \ {r} : lock'[q] = lock[q]
      BY <3>0 DEF Acquire
    <3>1a. fence' = [fence EXCEPT ![h] = lock[r].token + 1]
      BY <2>4, <3>1 DEF AcquireGranted
    <3>2. \A g \in Holder : RunOf[g] = r /\ fence[g] > 0 =>
              fence[g] < lock[r].token + 1
      OBVIOUS
    <3>3. QED
      BY <3>1, <3>1a, <3>2
  <2>5. ASSUME NEW h \in Holder, AcquireRefused(h) PROVE FencingOrder'
    BY <2>5 DEF AcquireRefused
  <2>6. ASSUME NEW h \in Holder, BeginExtend(h) PROVE FencingOrder'
    BY <2>6 DEF BeginExtend
  <2>7. ASSUME NEW h \in Holder, ExtendReturns(h) PROVE FencingOrder'
    <3>1. \A q \in Run : /\ lock'[q].token = lock[q].token
                         /\ lock'[q].holder = lock[q].holder
      BY <2>7 DEF ExtendReturns, Extend
    <3>2. fence' = fence
      BY <2>7 DEF ExtendReturns
    <3>3. QED
      BY <3>1, <3>2
  <2>8. ASSUME NEW h \in Holder, ReleaseLock(h) PROVE FencingOrder'
    BY <2>8 DEF ReleaseLock, Release, Forget
  <2>9. ASSUME NEW h \in Holder, Abandon(h) PROVE FencingOrder'
    BY <2>9 DEF Abandon
  <2>10. ASSUME NEW r \in Run, GetLockReads(r) PROVE FencingOrder'
    BY <2>10 DEF GetLockReads
  <2>11. ASSUME NEW r \in Run, ForceReleaseReads(r) PROVE FencingOrder'
    BY <2>11 DEF ForceReleaseReads
  <2>12. ASSUME NEW r \in Run, DeleteDoomed(r) PROVE FencingOrder'
    BY <2>12 DEF DeleteDoomed, DeleteDoc, Forget
  <2>13. CASE UNCHANGED vars
    BY <2>13 DEF vars
  <2>14. QED
    BY <2>1, <2>2, <2>3, <2>4, <2>5, <2>6, <2>7, <2>8, <2>9, <2>10, <2>11,
       <2>12, <2>13 DEF Next
<1>3. QED
  BY <1>1, <1>2, LockTypeCorrect, OwnDocumentsInvariant, PTL DEF Spec

\* The callers the mapping places in the section the lock protects.
Inside == {h \in Holder : pc[h] \in {"holding", "extending"}}

\* The lock manager implements the lease service for every set of callers: a
\* granted acquire is a Grant, an extend that finds its own document a Renew,
\* a delete outside a transaction a Revoke, and every other step stutters.
THEOREM LeaseServiceImplemented == Spec => ImplementsLeaseService
<1>1. Init => Service!Init
  BY DEF Init, Service!Init
<1>2. /\ TypeOK /\ OwnDocuments /\ LeaseRecorded
      /\ [Next]_vars
      => [Service!Next]_Service!svars
  <2> SUFFICES ASSUME TypeOK, OwnDocuments, LeaseRecorded, [Next]_vars
               PROVE  Service!Next \/ UNCHANGED <<clock, Inside, until, robbed>>
    BY DEF Service!svars, Inside
  <2> USE DEF TypeOK, LockTypeOK, LockDoc, maintenance, Inside
  <2>1. CASE Time
    BY <2>1 DEF Time, Tick, Service!Next, Service!Advance
  <2>2. CASE CleanupQuery
    BY <2>2 DEF CleanupQuery
  <2>3. ASSUME NEW h \in Holder, BeginAcquire(h)
        PROVE  UNCHANGED <<clock, Inside, until, robbed>>
    BY <2>3 DEF BeginAcquire
  <2>4. ASSUME NEW h \in Holder, AcquireGranted(h) PROVE Service!Next
    <3>1. PICK ttl \in Ttl :
            /\ Acquire(RunOf[h], h, now[h], ttl)
            /\ until' = [until EXCEPT ![h] = now[h] + ttl]
      BY <2>4 DEF AcquireGranted
    <3>2. \A g \in Holder : Leased(g) /\ g \notin robbed => RunOf[g] # RunOf[h]
      BY <3>1 DEF Acquire, Free, Exists, LeaseRecorded, Leased
    <3>3. Service!Vacant(h)
      BY <3>2 DEF Service!Vacant, Service!Valid, Leased
    <3>4. Service!NewEnd(h)
      BY <3>1 DEF Service!NewEnd
    <3>5. h \notin Inside /\ Inside' = Inside \cup {h}
      BY <2>4 DEF AcquireGranted
    <3>6. QED
      BY <2>4, <3>3, <3>4, <3>5 DEF AcquireGranted, Service!Next, Service!Grant
  <2>5. ASSUME NEW h \in Holder, AcquireRefused(h)
        PROVE  UNCHANGED <<clock, Inside, until, robbed>>
    BY <2>5 DEF AcquireRefused
  <2>6. ASSUME NEW h \in Holder, BeginExtend(h)
        PROVE  UNCHANGED <<clock, Inside, until, robbed>>
    BY <2>6 DEF BeginExtend
  <2>7. ASSUME NEW h \in Holder, ExtendReturns(h)
        PROVE  Service!Next \/ UNCHANGED <<clock, Inside, until, robbed>>
    <3>1. PICK ttl \in Ttl :
            /\ Extend(RunOf[h], h, now[h], ttl)
            /\ until' = [until EXCEPT ![h] =
                  IF lock[RunOf[h]].holder = h THEN now[h] + ttl ELSE @]
      BY <2>7 DEF ExtendReturns
    <3>2. Inside' = Inside /\ h \in Inside
      BY <2>7 DEF ExtendReturns
    <3>3. CASE lock[RunOf[h]].holder = h
      <4>1. Service!Vacant(h)
        BY <3>3 DEF Service!Vacant, Service!Valid, LeaseRecorded, Leased
      <4>2. Service!NewEnd(h)
        BY <3>1, <3>3 DEF Service!NewEnd
      <4>3. h \in Inside \ robbed
        BY <3>2, <3>3 DEF OwnDocuments
      <4>4. QED
        BY <2>7, <3>2, <4>1, <4>2, <4>3
           DEF ExtendReturns, Service!Next, Service!Renew
    <3>4. CASE lock[RunOf[h]].holder # h
      BY <2>7, <3>1, <3>2, <3>4 DEF ExtendReturns
    <3>5. QED
      BY <3>3, <3>4
  <2>8. ASSUME NEW h \in Holder, ReleaseLock(h) \/ Abandon(h)
        PROVE  Service!Next
    <3>1. Inside' = Inside \ {h}
      BY <2>8 DEF ReleaseLock, Abandon
    <3>2. QED
      BY <2>8, <3>1 DEF ReleaseLock, Abandon, Service!Next, Service!Leave
  <2>9. ASSUME NEW r \in Run, GetLockReads(r) \/ ForceReleaseReads(r)
        PROVE  UNCHANGED <<clock, Inside, until, robbed>>
    BY <2>9 DEF GetLockReads, ForceReleaseReads
  <2>10. ASSUME NEW r \in Run, DeleteDoomed(r)
         PROVE  Service!Next \/ UNCHANGED <<clock, Inside, until, robbed>>
    <3>1. UNCHANGED <<clock, Inside, until>>
      BY <2>10 DEF DeleteDoomed
    <3>2. CASE lock[r].expiresAt > clock
      <4>1. lock[r].holder \in Holder
        BY <3>2 DEF OwnDocuments, NoLock
      <4>2. QED
        BY <2>10, <3>1, <3>2, <4>1
           DEF DeleteDoomed, Service!Next, Service!Revoke
    <3>3. CASE ~(lock[r].expiresAt > clock)
      BY <2>10, <3>1, <3>3 DEF DeleteDoomed
    <3>4. QED
      BY <3>2, <3>3
  <2>11. CASE UNCHANGED vars
    BY <2>11 DEF vars
  <2>12. QED
    BY <2>1, <2>2, <2>3, <2>4, <2>5, <2>6, <2>7, <2>8, <2>9, <2>10, <2>11
       DEF Next
<1>3. QED
  BY <1>1, <1>2, LockTypeCorrect, OwnDocumentsInvariant,
     LeaseRecordedInvariant, PTL
     DEF Spec, ImplementsLeaseService, Service!Spec

=============================================================================
