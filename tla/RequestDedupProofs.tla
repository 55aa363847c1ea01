------------------------- MODULE RequestDedupProofs -------------------------
(***************************************************************************)
(* For every set of calls and every configuration whose lock timeout is no *)
(* longer than its record lifetimes: at most one call that is not overdue  *)
(* is at work on a key.  The invariant behind it, Covered, ties the lock a *)
(* call was given to the time the record is next up for grabs.             *)
(***************************************************************************)
EXTENDS RequestDedup, FiniteSetTheorems, TLAPS

USE DedupAssumption, TtlAssumption, MaxTimeAssumption

\* When checkAndSet will next answer 'new' on the record.
RecordEnd == IF record.status = "processing" THEN record.lockExpiresAt
             ELSE record.expiresAt

LocksAreShort == \A c \in Call : until[c] <= clock + LockTimeout

Covered ==
    \A c \in Call : AtWork(c) /\ ~Overdue(c) =>
        record.status # "none" /\ until[c] <= RecordEnd

OneAtWork ==
    \A c, d \in Call :
        AtWork(c) /\ ~Overdue(c) /\ AtWork(d) /\ ~Overdue(d) => c = d

CompletedByLast ==
    record.status = "completed" =>
        /\ record.response \in Call
        /\ Overdue(record.response) \/
           \A d \in Call : AtWork(d) /\ ~Overdue(d) => d = record.response

StartsCounted == Cardinality(started) <= record.attempts

\* The values of the variables of RequestDedup stay in their types; attempts
\* never exceeds maxAttempts, because only checkAndSet counts it up.
THEOREM DedupTypeCorrect == Spec => []TypeOK
<1>1. Init => TypeOK
  BY DEF Init, TypeOK, NoRecord, Record, Attempts
<1>2. TypeOK /\ [Next]_vars => TypeOK'
  <2> SUFFICES ASSUME TypeOK, [Next]_vars PROVE TypeOK'
    OBVIOUS
  <2> USE DEF TypeOK, Goto
  <2>1. CASE Time
    BY <2>1 DEF Time, Tick
  <2>2. CASE CleanupQuery
    BY <2>2 DEF CleanupQuery
  <2>3. CASE CleanupDelete
    BY <2>3 DEF CleanupDelete, NoRecord, Record, Attempts
  <2>4. ASSUME SetNew PROVE record' \in Record
    <3>1. FreshRecord \in Record
      BY DEF FreshRecord, Record, Attempts
    <3>2. ASSUME Retakable PROVE RetakenRecord \in Record
      <4>1. record.attempts + 1 \in Attempts
        BY <3>2 DEF Retakable, Record, Attempts
      <4>2. clock + LockTimeout \in Nat
        OBVIOUS
      <4>3. record \in Record
        OBVIOUS
      <4>. HIDE DEF TypeOK
      <4>4. QED
        BY <4>1, <4>2, <4>3 DEF RetakenRecord, Record
    <3>3. QED
      BY <2>4, <3>1, <3>2 DEF SetNew
  <2>5. ASSUME SetNothing PROVE record' \in Record
    BY <2>5 DEF SetNothing, Record
  <2>6. ASSUME NEW c \in Call, StartHandler(c) PROVE TypeOK'
    BY <2>4, <2>6 DEF StartHandler
  <2>7. ASSUME NEW c \in Call, IsDuplicate(c) PROVE TypeOK'
    BY <2>5, <2>7 DEF IsDuplicate
  <2>8. ASSUME NEW c \in Call,
               \/ StopWaiting(c) \/ CheckFails(c) \/ BypassEnds(c)
               \/ StoreFails(c) \/ Crash(c)
        PROVE  TypeOK'
    BY <2>8 DEF StopWaiting, CheckFails, BypassEnds, StoreFails, Crash
  <2>9. ASSUME NEW c \in Call, HandlerEnds(c) PROVE TypeOK'
    BY <2>9 DEF HandlerEnds
  <2>10. ASSUME NEW c \in Call, RecordResponse(c) PROVE TypeOK'
    BY <2>4, <2>5, <2>10 DEF RecordResponse
  <2>11. ASSUME NEW c \in Call, StoreResponse(c) PROVE TypeOK'
    <3>1. record' \in Record
      <4>1. clock + CompletedTtl \in Nat /\ record \in Record
        OBVIOUS
      <4>. HIDE DEF TypeOK
      <4>2. QED
        BY <2>11, <4>1 DEF StoreResponse, Complete, Record
    <3>2. QED
      BY <2>11, <3>1 DEF StoreResponse
  <2>12. ASSUME NEW c \in Call, StoreFailure(c) PROVE TypeOK'
    <3>1. record' \in Record
      <4>1. clock + FailedTtl \in Nat /\ record \in Record
        OBVIOUS
      <4>. HIDE DEF TypeOK
      <4>2. QED
        BY <2>12, <4>1 DEF StoreFailure, Fail, Record
    <3>2. QED
      BY <2>12, <3>1 DEF StoreFailure
  <2>13. CASE UNCHANGED vars
    BY <2>13 DEF vars
  <2>14. QED
    BY <2>1, <2>2, <2>3, <2>6, <2>7, <2>8, <2>9, <2>10, <2>11, <2>12, <2>13
       DEF Next
<1>3. QED
  BY <1>1, <1>2, PTL DEF Spec

Inv == LocksAreShort /\ Covered /\ OneAtWork /\ CompletedByLast

\* checkAndSet answers 'new' only when every call at work is overdue.
LEMMA NewMeansOverdue ==
  ASSUME TypeOK, Inv, GrantNew, NEW d \in Call, AtWork(d)
  PROVE  Overdue(d)
<1>1. SUFFICES ASSUME ~Overdue(d) PROVE FALSE
  OBVIOUS
<1>2. record.status # "none" /\ until[d] <= RecordEnd /\ until[d] >= clock
  BY <1>1 DEF Inv, Covered, Overdue, TypeOK, Record
<1>3. QED
  BY <1>2 DEF GrantNew, Forgotten, Closed, Retakable, LockExpired, RecordEnd,
              TypeOK, Record

\* The record a 'new' answer leaves is in progress for a full lock timeout.
LEMMA NewRecord ==
  ASSUME TypeOK, GrantNew, SetNew
  PROVE  /\ record'.status = "processing"
         /\ record'.lockExpiresAt = clock + LockTimeout
         /\ record'.response \in {record.response, NoCall}
BY DEF SetNew, RetakenRecord, FreshRecord, GrantNew, Retakable, LockExpired,
       TypeOK, Record

\* checkAndSet without a grant leaves no call better or worse off.
LEMMA NothingSet ==
  ASSUME TypeOK, Covered, SetNothing
  PROVE  /\ record'.response = record.response
         /\ record'.status = "completed" <=> record.status = "completed"
         /\ record'.status = "none" <=> record.status = "none"
         /\ record'.status # "failed" \/ record.status = "failed" =>
                record' = record
         /\ record'.status = "failed" /\ record.status # "failed" =>
                \A d \in Call : AtWork(d) => Overdue(d)
BY DEF SetNothing, Exhausted, LockExpired, TypeOK, Record, Covered, Overdue,
       RecordEnd

LEMMA InvInductive == TypeOK /\ Inv /\ [Next]_vars => Inv'
<1> SUFFICES ASSUME TypeOK, Inv, [Next]_vars PROVE Inv'
  OBVIOUS
<1> USE DEF TypeOK, Record, Inv, LocksAreShort, Covered, OneAtWork,
            CompletedByLast, AtWork, Overdue, Goto
<1>1. CASE Time
  BY <1>1 DEF Time, Tick, RecordEnd
<1>2. CASE CleanupQuery
  BY <1>2 DEF CleanupQuery, RecordEnd
<1>3. CASE CleanupDelete
  BY <1>3 DEF CleanupDelete, NoRecord
<1>4. ASSUME NEW c \in Call, StartHandler(c) PROVE Inv'
  <2>1. \A d \in Call : AtWork(d) => Overdue(d)
    BY <1>4, NewMeansOverdue DEF StartHandler
  <2>2. /\ record'.status = "processing"
        /\ record'.lockExpiresAt = clock + LockTimeout
        /\ record'.response \in {record.response, NoCall}
    BY <1>4, NewRecord DEF StartHandler
  <2>3. until' = [until EXCEPT ![c] = clock + LockTimeout]
    BY <1>4 DEF StartHandler
  <2>4. pc' = [pc EXCEPT ![c] = "handling"] /\ pc[c] = "idle"
    BY <1>4 DEF StartHandler
  <2>5. clock' = clock /\ evicted' = evicted
    BY <1>4 DEF StartHandler
  <2>6. \A d \in Call : AtWork(d)' /\ ~Overdue(d)' => d = c
    BY <2>1, <2>3, <2>4, <2>5
  <2>7. LocksAreShort'
    BY <2>3, <2>5
  <2>8. Covered' /\ OneAtWork' /\ CompletedByLast'
    BY <2>2, <2>3, <2>6 DEF RecordEnd
  <2>9. QED
    BY <2>7, <2>8
<1>5. ASSUME NEW c \in Call, IsDuplicate(c) PROVE Inv'
  <2>1. /\ UNCHANGED <<clock, until, evicted>>
        /\ pc' \in {[pc EXCEPT ![c] = "done"], [pc EXCEPT ![c] = "waiting"]}
    BY <1>5 DEF IsDuplicate
  <2>2. \A d \in Call : AtWork(d)' => AtWork(d)
    BY <2>1
  <2>3. SetNothing
    BY <1>5 DEF IsDuplicate
  <2>4. record'.response = record.response
        /\ (record'.status = "completed" <=> record.status = "completed")
    BY <2>3, NothingSet
  <2>5. Covered'
    <3>1. CASE record' = record
      BY <2>1, <2>2, <3>1 DEF RecordEnd
    <3>2. CASE \A d \in Call : AtWork(d) => Overdue(d)
      BY <2>1, <2>2, <3>2
    <3>3. QED
      BY <2>3, <3>1, <3>2, NothingSet
  <2>6. CompletedByLast'
    BY <2>1, <2>2, <2>4
  <2>7. LocksAreShort' /\ OneAtWork'
    BY <2>1, <2>2
  <2>8. QED
    BY <2>5, <2>6, <2>7
<1>6. ASSUME NEW c \in Call,
             \/ StopWaiting(c) \/ CheckFails(c) \/ BypassEnds(c) \/ Crash(c)
      PROVE  Inv'
  BY <1>6 DEF StopWaiting, CheckFails, BypassEnds, Crash, RecordEnd
<1>7. ASSUME NEW c \in Call, HandlerEnds(c) \/ StoreFails(c) PROVE Inv'
  BY <1>7 DEF HandlerEnds, StoreFails, RecordEnd
<1>8. ASSUME NEW c \in Call, RecordResponse(c) PROVE Inv'
  <2>1. UNCHANGED <<clock, until, evicted>> /\ pc[c] = "recording"
    BY <1>8 DEF RecordResponse
  <2>2. CASE GrantNew /\ SetNew /\ pc' = [pc EXCEPT ![c] = "storing"]
    <3>1. \A d \in Call : AtWork(d) => Overdue(d)
      BY <2>2, NewMeansOverdue
    <3>2. \A d \in Call : AtWork(d)' => AtWork(d)
      BY <2>1, <2>2
    <3>3. \A d \in Call : AtWork(d)' => Overdue(d)'
      BY <2>1, <3>1, <3>2
    <3>4. /\ record'.status = "processing"
          /\ record'.response \in {record.response, NoCall}
      BY <2>2, NewRecord
    <3>5. Covered' /\ OneAtWork' /\ CompletedByLast'
      BY <3>3, <3>4
    <3>6. LocksAreShort'
      BY <2>1
    <3>7. QED
      BY <3>5, <3>6
  <2>3. CASE SetNothing /\ pc' = [pc EXCEPT ![c] = "unrecorded"]
    <3>1. \A d \in Call : AtWork(d)' => AtWork(d)
      BY <2>1, <2>3
    <3>2. record'.response = record.response
          /\ (record'.status = "completed" <=> record.status = "completed")
      BY <2>3, NothingSet
    <3>3. Covered'
      <4>1. CASE record' = record
        BY <2>1, <3>1, <4>1 DEF RecordEnd
      <4>2. CASE \A d \in Call : AtWork(d) => Overdue(d)
        BY <2>1, <3>1, <4>2
      <4>3. QED
        BY <2>3, <4>1, <4>2, NothingSet
    <3>4. CompletedByLast'
      BY <2>1, <2>3, <3>1, <3>2
    <3>5. LocksAreShort' /\ OneAtWork'
      BY <2>1, <2>3, <3>1
    <3>6. QED
      BY <3>3, <3>4, <3>5
  <2>4. QED
    BY <1>8, <2>2, <2>3 DEF RecordResponse
<1>9. ASSUME NEW c \in Call, StoreResponse(c) PROVE Inv'
  <2>1. /\ UNCHANGED <<clock, until, evicted>> /\ pc[c] = "storing"
        /\ pc' \in {[pc EXCEPT ![c] = "done"], [pc EXCEPT ![c] = "failing"]}
    BY <1>9 DEF StoreResponse
  <2>2. /\ record'.status = "completed" /\ record'.response = c
        /\ record'.expiresAt = clock + CompletedTtl
    BY <1>9 DEF StoreResponse, Complete
  <2>3. \A d \in Call : AtWork(d)' => AtWork(d)
    BY <2>1
  <2>4. Covered'
    BY <2>1, <2>2, <2>3 DEF RecordEnd
  <2>5. LocksAreShort' /\ OneAtWork'
    BY <2>1, <2>2, <2>3
  <2>6. CompletedByLast'
    BY <2>1, <2>2, <2>3
  <2>7. QED
    BY <2>4, <2>5, <2>6
<1>10. ASSUME NEW c \in Call, StoreFailure(c) PROVE Inv'
  <2>1. /\ UNCHANGED <<clock, until, evicted>> /\ pc[c] = "failing"
        /\ pc' = [pc EXCEPT ![c] = "done"]
    BY <1>10 DEF StoreFailure
  <2>2. \/ record.status = "none" /\ record' = record
        \/ /\ record.status # "none" /\ record'.status = "failed"
           /\ record'.response = record.response
           /\ record'.expiresAt = clock + FailedTtl
    BY <1>10 DEF StoreFailure, Fail
  <2>3. \A d \in Call : AtWork(d)' => AtWork(d)
    BY <2>1
  <2>4. Covered'
    BY <2>1, <2>2, <2>3 DEF RecordEnd
  <2>5. LocksAreShort' /\ OneAtWork'
    BY <2>1, <2>2, <2>3
  <2>6. CompletedByLast'
    BY <2>1, <2>2, <2>3
  <2>7. QED
    BY <2>4, <2>5, <2>6
<1>11. CASE UNCHANGED vars
  BY <1>11 DEF vars, RecordEnd
<1>12. QED
  BY <1>1, <1>2, <1>3, <1>4, <1>5, <1>6, <1>7, <1>8, <1>9, <1>10, <1>11
     DEF Next

LEMMA InvInvariant == Spec => []Inv
<1>1. Init => Inv
  BY DEF Init, NoRecord, Inv, LocksAreShort, Covered, OneAtWork,
         CompletedByLast, AtWork
<1>2. QED
  BY <1>1, InvInductive, DedupTypeCorrect, PTL DEF Spec

\* Two handlers of one key under unexpired locks imply that the cleanup
\* deleted the record under one of them: the exclusion checkAndSet and its
\* lock timeout really give, for any timeouts, any number of calls.
THEOREM HandlersExcludeInvariant == Spec => []HandlersExclude
<1>1. TypeOK /\ Inv => HandlersExclude
  <2> SUFFICES ASSUME TypeOK, Inv, NEW c \in Call, NEW d \in Call,
                      Guarded(c), Guarded(d), c # d,
                      c \notin evicted, d \notin evicted
               PROVE  FALSE
    BY DEF HandlersExclude
  <2>1. AtWork(c) /\ AtWork(d)
    BY DEF Guarded, AtWork
  <2>2. ~Overdue(c) /\ ~Overdue(d)
    BY DEF Guarded, Overdue, TypeOK
  <2>3. QED
    BY <2>1, <2>2 DEF Inv, OneAtWork
<1>2. QED
  BY <1>1, InvInvariant, DedupTypeCorrect, PTL

\* A completed record turns failed only through a call whose acknowledgement
\* was lost or a pair of which one is overdue.
THEOREM CompletionOverwrittenOnly == Spec => CompletionOverwritten
<1>1. TypeOK /\ Inv /\ [Next]_vars =>
        [(record.status = "completed" /\ record'.status = "failed")
          => \E c \in Call :
              /\ pc[c] = "failing"
              /\ \/ record.response = c
                 \/ Overdue(c)
                 \/ record.response \in Call /\ Overdue(record.response)]_vars
  <2> SUFFICES ASSUME TypeOK, Inv, Next,
                      record.status = "completed", record'.status = "failed"
               PROVE  \E c \in Call :
                        /\ pc[c] = "failing"
                        /\ \/ record.response = c
                           \/ Overdue(c)
                           \/ record.response \in Call /\ Overdue(record.response)
    BY DEF vars
  <2>1. \E c \in Call : StoreFailure(c)
    <3>1. ~SetNothing
      BY DEF SetNothing, Exhausted, LockExpired
    <3>2. ~SetNew
      BY DEF SetNew, RetakenRecord, FreshRecord, Retakable, LockExpired
    <3>3. ~CleanupDelete
      BY DEF CleanupDelete, NoRecord
    <3>4. \A c \in Call : ~StoreResponse(c)
      BY DEF StoreResponse, Complete, TypeOK, Record
    <3>5. record' # record
      OBVIOUS
    <3>6. QED
      BY <3>1, <3>2, <3>3, <3>4, <3>5
         DEF Next, Time, CleanupQuery, StartHandler, IsDuplicate, StopWaiting,
             CheckFails, BypassEnds, HandlerEnds, RecordResponse, StoreFails, Crash
  <2>2. PICK c \in Call : StoreFailure(c)
    BY <2>1
  <2>3. pc[c] = "failing" /\ AtWork(c)
    BY <2>2 DEF StoreFailure, AtWork
  <2>4. QED
    BY <2>3 DEF Inv, CompletedByLast
<1>2. QED
  BY <1>1, InvInvariant, DedupTypeCorrect, PTL DEF Spec, CompletionOverwritten

\* attempts counts at least the handlers started under the record.
LEMMA StartsCountedInvariant == Spec => [](IsFiniteSet(started) /\ StartsCounted)
<1> DEFINE Counted == IsFiniteSet(started) /\ StartsCounted
<1>1. Init => Counted
  BY FS_EmptySet DEF Init, NoRecord, StartsCounted
<1>2. TypeOK /\ Counted /\ [Next]_vars => Counted'
  <2> SUFFICES ASSUME TypeOK, Counted, [Next]_vars PROVE Counted'
    OBVIOUS
  <2>0. /\ record.attempts \in Nat /\ Cardinality(started) \in Nat
        /\ Cardinality(started) <= record.attempts
    BY FS_CardinalityType DEF TypeOK, Record, Attempts, StartsCounted
  <2>1. ASSUME started' = {} /\ record'.attempts \in Nat PROVE Counted'
    <3>1. IsFiniteSet(started') /\ Cardinality(started') = 0
      BY <2>1, FS_EmptySet
    <3>2. QED
      BY <2>1, <3>1 DEF StartsCounted
  <2>2. ASSUME started' = started, record'.attempts >= record.attempts,
               record'.attempts \in Nat
        PROVE  Counted'
    BY <2>0, <2>2 DEF StartsCounted
  <2>3. ASSUME GrantNew, SetNew
        PROVE  /\ Retakable => record'.attempts = record.attempts + 1
               /\ ~Retakable => record'.attempts = 1
    BY <2>3 DEF SetNew, RetakenRecord, FreshRecord, TypeOK, Record
  <2>4. ASSUME NEW c \in Call, StartHandler(c) PROVE Counted'
    <3> DEFINE before == IF Retakable THEN started ELSE {}
    <3>1. started' = before \cup {c}
      BY <2>4 DEF StartHandler
    <3>2. /\ IsFiniteSet(before)
          /\ Cardinality(before) = IF Retakable THEN Cardinality(started) ELSE 0
      BY FS_EmptySet
    <3> HIDE DEF before
    <3>3. /\ IsFiniteSet(before \cup {c})
          /\ Cardinality(before \cup {c}) =
               IF c \in before THEN Cardinality(before) ELSE Cardinality(before) + 1
      BY <3>2, FS_AddElement
    <3>4. Cardinality(before \cup {c}) <= Cardinality(before) + 1
      BY <2>0, <3>2, <3>3
    <3>5. Cardinality(before) + 1 <= record'.attempts
      BY <2>0, <2>3, <2>4, <3>2 DEF StartHandler
    <3>6. record'.attempts \in Nat
      BY <2>0, <2>3, <2>4 DEF StartHandler
    <3>7. Cardinality(started') <= record'.attempts
      BY <2>0, <3>1, <3>2, <3>3, <3>4, <3>5, <3>6
    <3>8. QED
      BY <3>1, <3>3, <3>7 DEF StartsCounted
  <2>5. ASSUME NEW c \in Call, RecordResponse(c) PROVE Counted'
    <3>1. CASE GrantNew /\ SetNew /\ Retakable /\ started' = started
      BY <2>0, <2>2, <2>3, <3>1
    <3>2. CASE GrantNew /\ SetNew /\ started' = {} /\ ~Retakable
      BY <2>1, <2>3, <3>2
    <3>3. CASE SetNothing /\ started' = started
      <4>1. record'.attempts = record.attempts
        BY <3>3 DEF SetNothing, TypeOK, Record
      <4>2. QED
        BY <2>0, <2>2, <3>3, <4>1
    <3>4. QED
      BY <2>5, <3>1, <3>2, <3>3 DEF RecordResponse
  <2>6. CASE CleanupDelete
    BY <2>1, <2>6 DEF CleanupDelete, NoRecord
  <2>7. ASSUME NEW c \in Call,
               IsDuplicate(c) \/ StoreResponse(c) \/ StoreFailure(c)
        PROVE  Counted'
    <3>1. started' = started
      BY <2>7 DEF IsDuplicate, StoreResponse, StoreFailure
    <3>2. record'.attempts = record.attempts
      BY <2>7 DEF IsDuplicate, StoreResponse, StoreFailure, SetNothing,
                  Complete, Fail, TypeOK, Record
    <3>3. QED
      BY <2>0, <2>2, <3>1, <3>2
  <2>8. ASSUME record' = record, started' = started PROVE Counted'
    BY <2>8 DEF StartsCounted
  <2>9. QED
    BY <2>4, <2>5, <2>6, <2>7, <2>8
       DEF Next, Time, CleanupQuery, StopWaiting, CheckFails, BypassEnds,
           HandlerEnds, StoreFails, Crash, vars
<1>3. QED
  BY <1>1, <1>2, DedupTypeCorrect, PTL DEF Spec

\* No record starts more handlers than maxAttempts: a take-over counts before
\* it starts, and only checkAndSet starts anything.
THEOREM AttemptsBoundInvariant == Spec => []AttemptsBound
<1>1. TypeOK /\ IsFiniteSet(started) /\ StartsCounted => AttemptsBound
  <2> SUFFICES ASSUME TypeOK, IsFiniteSet(started), StartsCounted
               PROVE  AttemptsBound
    OBVIOUS
  <2>1. record.attempts \in Nat /\ record.attempts <= MaxAttempts
    BY DEF TypeOK, Record, Attempts
  <2>2. Cardinality(started) \in Nat
    BY FS_CardinalityType
  <2>3. QED
    BY <2>1, <2>2 DEF StartsCounted, AttemptsBound
<1>2. QED
  BY <1>1, StartsCountedInvariant, DedupTypeCorrect, PTL

=============================================================================
