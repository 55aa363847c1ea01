------------------------------ MODULE RunLock ------------------------------
(***************************************************************************)
(* FirestoreRunLockManager (packages/core/src/reliability/                 *)
(* firestore-locking.ts): one lock document per run, taken over when its   *)
(* expiry has passed.  Every operator below is the effect of one Firestore *)
(* transaction or of one unconditional delete on the collection; the       *)
(* argument now is the Date.now() the caller read BEFORE its transaction.  *)
(***************************************************************************)
EXTENDS Clock

CONSTANTS
    Run,        \* run ids
    Holder,     \* holder ids: generateHolderId() makes one per tryAcquire
    NoHolder    \* no holder: the document does not exist

ASSUME NoHolderAssumption == NoHolder \notin Holder

VARIABLE lock   \* lock[r] is the document gwi_run_locks/r

\* A missing document, with the token an absent lock counts as.
NoLock == [holder |-> NoHolder, expiresAt |-> 0, token |-> 0]

LockDoc == [holder: Holder \cup {NoHolder}, expiresAt: Nat, token: Nat]

LockTypeOK == lock \in [Run -> LockDoc]

LockInit == lock = [r \in Run |-> NoLock]

Exists(r) == lock[r].holder # NoHolder

\* Wrong variants of the operators below, one plausible slip each.  Nothing
\* uses them: they serve to show which property each slip would break.
FreeTooEarly(r, now) == ~Exists(r) \/ lock[r].expiresAt <= now + 1
AcquireSignError(r, h, now, ttl) ==
    /\ ~Exists(r) \/ lock[r].expiresAt <= now
    /\ lock' = [lock EXCEPT ![r] = [holder |-> h, expiresAt |-> now - ttl,
                                    token |-> lock[r].token + 1]]
AcquireTokenReset(r, h, now, ttl) ==
    /\ ~Exists(r) \/ lock[r].expiresAt <= now
    /\ lock' = [lock EXCEPT ![r] = [holder |-> h, expiresAt |-> now + ttl,
                                    token |-> 1]]
ReleaseAnyHolder(r, h) == lock' = [lock EXCEPT ![r] = NoLock]
ExtendAnyHolder(r, h, now, ttl) ==
    lock' = [lock EXCEPT ![r].expiresAt = IF Exists(r) THEN now + ttl ELSE @]

\* The test at the head of the transaction of tryAcquire.
Free(r, now) == ~Exists(r) \/ lock[r].expiresAt <= now

\* tryAcquire, the two branches that take the lock.
Acquire(r, h, now, ttl) ==
    /\ Free(r, now)
    /\ lock' = [lock EXCEPT ![r] = [holder    |-> h,
                                    expiresAt |-> now + ttl,
                                    token     |-> lock[r].token + 1]]

\* release: the document is deleted only when its holder is the caller.
Release(r, h) ==
    lock' = [lock EXCEPT ![r] = IF @.holder = h THEN NoLock ELSE @]

\* extend: the holder is compared, the expiry is not.
Extend(r, h, now, ttl) ==
    lock' = [lock EXCEPT ![r].expiresAt =
                IF lock[r].holder = h THEN now + ttl ELSE @]

\* docRef.delete() and batch.delete(): no precondition on what is deleted.
DeleteDoc(r) == lock' = [lock EXCEPT ![r] = NoLock]

=============================================================================
