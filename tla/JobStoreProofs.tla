--------------------------- MODULE JobStoreProofs ---------------------------
(***************************************************************************)
(* For every set of jobs and workers, every timeout and every bound: the   *)
(* job store accepts only the worker of the latest claim, never has two    *)
(* active executions of one record, and does not reopen a finished job.    *)
(***************************************************************************)
EXTENDS JobStore, TLAPS

USE NoWorkerAssumption, StoreAssumption

\* An execution belongs to a record that was created and has read no clock
\* value from the future; no two executions of a job share a worker id.
ExecsSane ==
    /\ \A e \in execs : e.create <= created[e.job] /\ e.beat <= clock
    /\ \A e1, e2 \in execs :
        e1.job = e2.job /\ e1.worker = e2.worker => e1 = e2

\* What the record says of an execution: its owner has been heard of no later
\* than the record's heartbeat, anybody else has fallen silent, and nobody
\* owns a completed job.
RecordFitsExecs ==
    \A e \in execs :
        /\ Owns(e) => job[e.job].status # "completed"
        /\ Owns(e) /\ job[e.job].status \in {"claimed", "running"}
               => e.beat <= job[e.job].lastHeartbeat
        /\ Current(e) => \/ Owns(e) \/ Silent(e)
                         \/ job[e.job].status = "absent"

IInv ==
    /\ TypeOK
    /\ ExecsSane
    /\ OnlyLatestClaimAccepted
    /\ RecordFitsExecs
    /\ NoTwoActiveExecutions

----------------------------------------------------------------------------
\* Every operation of the store and of its workers keeps the invariant.
LEMMA StoreStep == IInv /\ [Next]_vars => IInv'
<1> SUFFICES ASSUME IInv, [Next]_vars PROVE IInv'
  OBVIOUS
<1> USE DEF IInv, TypeOK, JobDoc, Status, Finished, Execution, NoJob
<1>1. CASE Time
  <2>1. TypeOK'
    BY <1>1 DEF Time, Tick
  <2>2. ExecsSane'
    BY <1>1 DEF Time, Tick, ExecsSane
  <2>3. OnlyLatestClaimAccepted'
    BY <1>1 DEF Time, Tick, OnlyLatestClaimAccepted, Owns, Current, ExecsSane
  <2>4. RecordFitsExecs'
    BY <1>1 DEF Time, Tick, RecordFitsExecs, ExecsSane,
       OnlyLatestClaimAccepted, Owns, Current, Silent
  <2>5. NoTwoActiveExecutions'
    BY <1>1 DEF Time, Tick, NoTwoActiveExecutions, RecordFitsExecs, ExecsSane,
       OnlyLatestClaimAccepted, Owns, Current, Silent
  <2>6. QED
    BY <2>1, <2>2, <2>3, <2>4, <2>5
<1>2. CASE CleanupQuery
  <2>1. TypeOK'
    BY <1>2 DEF CleanupQuery
  <2>2. ExecsSane'
    BY <1>2 DEF CleanupQuery, ExecsSane
  <2>3. OnlyLatestClaimAccepted'
    BY <1>2 DEF CleanupQuery, OnlyLatestClaimAccepted, Owns, Current, ExecsSane
  <2>4. RecordFitsExecs'
    BY <1>2 DEF CleanupQuery, RecordFitsExecs, ExecsSane,
       OnlyLatestClaimAccepted, Owns, Current, Silent
  <2>5. NoTwoActiveExecutions'
    BY <1>2 DEF CleanupQuery, NoTwoActiveExecutions, RecordFitsExecs,
       ExecsSane, OnlyLatestClaimAccepted, Owns, Current, Silent
  <2>6. QED
    BY <2>1, <2>2, <2>3, <2>4, <2>5
<1>3. CASE CleanupCommit
  <2>1. TypeOK'
    BY <1>3 DEF CleanupCommit
  <2>2. ExecsSane'
    BY <1>3 DEF CleanupCommit, ExecsSane
  <2>3. OnlyLatestClaimAccepted'
    BY <1>3 DEF CleanupCommit, OnlyLatestClaimAccepted, Owns, Current,
       ExecsSane
  <2>4. RecordFitsExecs'
    BY <1>3 DEF CleanupCommit, RecordFitsExecs, ExecsSane,
       OnlyLatestClaimAccepted, Owns, Current, Silent
  <2>5. NoTwoActiveExecutions'
    BY <1>3 DEF CleanupCommit, NoTwoActiveExecutions, RecordFitsExecs,
       ExecsSane, OnlyLatestClaimAccepted, Owns, Current, Silent
  <2>6. QED
    BY <2>1, <2>2, <2>3, <2>4, <2>5
<1>4. ASSUME NEW j \in Job, CreateJob(j) PROVE IInv'
  <2>1. TypeOK'
    BY <1>4 DEF CreateJob
  <2>2. ExecsSane'
    BY <1>4 DEF CreateJob, ExecsSane
  <2>3. OnlyLatestClaimAccepted'
    BY <1>4 DEF CreateJob, OnlyLatestClaimAccepted, Owns, Current, ExecsSane
  <2>. \A e \in execs : e.job = j => ~Current(e)' /\ ~Owns(e)'
    BY <1>4 DEF CreateJob, ExecsSane, Current, Owns
  <2>4. RecordFitsExecs'
    BY <1>4 DEF CreateJob, RecordFitsExecs, Owns, Current, Silent
  <2>5. NoTwoActiveExecutions'
    BY <1>4 DEF CreateJob, NoTwoActiveExecutions, Current, Silent
  <2>6. QED
    BY <2>1, <2>2, <2>3, <2>4, <2>5
<1>5. ASSUME NEW j \in Job, DeadLetterJob(j) PROVE IInv'
  <2>1. TypeOK'
    BY <1>5 DEF DeadLetterJob
  <2>2. ExecsSane'
    BY <1>5 DEF DeadLetterJob, ExecsSane
  <2>3. OnlyLatestClaimAccepted'
    BY <1>5 DEF DeadLetterJob, OnlyLatestClaimAccepted, Owns, Current,
       ExecsSane
  <2>4. RecordFitsExecs'
    BY <1>5 DEF DeadLetterJob, RecordFitsExecs, ExecsSane,
       OnlyLatestClaimAccepted, Owns, Current, Silent
  <2>5. NoTwoActiveExecutions'
    BY <1>5 DEF DeadLetterJob, NoTwoActiveExecutions, RecordFitsExecs,
       ExecsSane, OnlyLatestClaimAccepted, Owns, Current, Silent
  <2>6. QED
    BY <2>1, <2>2, <2>3, <2>4, <2>5
<1>6. ASSUME NEW j \in Job, NEW w \in Worker, ClaimJob(j, w) PROVE IInv'
  <2>1. TypeOK'
    BY <1>6 DEF ClaimJob, Claimable, Stale, Alive
  <2>2. ExecsSane'
    BY <1>6 DEF ClaimJob, Claimable, Stale, Alive, ExecsSane
  <2>3. OnlyLatestClaimAccepted'
    BY <1>6 DEF ClaimJob, Claimable, Stale, Alive, OnlyLatestClaimAccepted,
       Owns, Current, ExecsSane
  <2>4. RecordFitsExecs'
    BY <1>6 DEF ClaimJob, Claimable, Stale, Alive, RecordFitsExecs, ExecsSane,
       OnlyLatestClaimAccepted, Owns, Current, Silent
  <2>5. NoTwoActiveExecutions'
    BY <1>6 DEF ClaimJob, Claimable, Stale, Alive, NoTwoActiveExecutions,
       RecordFitsExecs, ExecsSane, OnlyLatestClaimAccepted, Owns, Current,
       Silent
  <2>6. QED
    BY <2>1, <2>2, <2>3, <2>4, <2>5
<1>7. ASSUME NEW e \in execs, StartJob(e) PROVE IInv'
  <2>1. TypeOK'
    BY <1>7 DEF StartJob
  <2>2. ExecsSane'
    BY <1>7 DEF StartJob, ExecsSane
  <2>3. OnlyLatestClaimAccepted'
    BY <1>7 DEF StartJob, OnlyLatestClaimAccepted, Owns, Current, ExecsSane
  <2>4. RecordFitsExecs'
    BY <1>7 DEF StartJob, RecordFitsExecs, ExecsSane, OnlyLatestClaimAccepted,
       Owns, Current, Silent
  <2>5. NoTwoActiveExecutions'
    BY <1>7 DEF StartJob, NoTwoActiveExecutions, RecordFitsExecs, ExecsSane,
       OnlyLatestClaimAccepted, Owns, Current, Silent
  <2>6. QED
    BY <2>1, <2>2, <2>3, <2>4, <2>5
<1>8. ASSUME NEW e \in execs, Heartbeat(e) PROVE IInv'
  <2>1. TypeOK'
    BY <1>8 DEF Heartbeat
  <2>2. ExecsSane'
    BY <1>8 DEF Heartbeat, ExecsSane
  <2>3. OnlyLatestClaimAccepted'
    BY <1>8 DEF Heartbeat, OnlyLatestClaimAccepted, Owns, Current, ExecsSane
  <2>4. RecordFitsExecs'
    BY <1>8 DEF Heartbeat, RecordFitsExecs, ExecsSane, OnlyLatestClaimAccepted,
       Owns, Current, Silent
  <2>5. NoTwoActiveExecutions'
    BY <1>8 DEF Heartbeat, NoTwoActiveExecutions, RecordFitsExecs, ExecsSane,
       OnlyLatestClaimAccepted, Owns, Current, Silent
  <2>6. QED
    BY <2>1, <2>2, <2>3, <2>4, <2>5
<1>9. ASSUME NEW e \in execs, CompleteJob(e) PROVE IInv'
  <2>1. TypeOK'
    BY <1>9 DEF CompleteJob
  <2>2. ExecsSane'
    BY <1>9 DEF CompleteJob, ExecsSane
  <2>3. OnlyLatestClaimAccepted'
    BY <1>9 DEF CompleteJob, OnlyLatestClaimAccepted, Owns, Current, ExecsSane
  <2>4. RecordFitsExecs'
    BY <1>9 DEF CompleteJob, RecordFitsExecs, ExecsSane,
       OnlyLatestClaimAccepted, Owns, Current, Silent
  <2>5. NoTwoActiveExecutions'
    BY <1>9 DEF CompleteJob, NoTwoActiveExecutions, RecordFitsExecs, ExecsSane,
       OnlyLatestClaimAccepted, Owns, Current, Silent
  <2>6. QED
    BY <2>1, <2>2, <2>3, <2>4, <2>5
<1>10. ASSUME NEW e \in execs, FailJob(e) PROVE IInv'
  <2>1. TypeOK'
    BY <1>10 DEF FailJob
  <2>2. ExecsSane'
    BY <1>10 DEF FailJob, ExecsSane
  <2>3. OnlyLatestClaimAccepted'
    BY <1>10 DEF FailJob, OnlyLatestClaimAccepted, Owns, Current, ExecsSane
  <2>4. RecordFitsExecs'
    BY <1>10 DEF FailJob, RecordFitsExecs, ExecsSane, OnlyLatestClaimAccepted,
       Owns, Current, Silent
  <2>5. NoTwoActiveExecutions'
    BY <1>10 DEF FailJob, NoTwoActiveExecutions, RecordFitsExecs, ExecsSane,
       OnlyLatestClaimAccepted, Owns, Current, Silent
  <2>6. QED
    BY <2>1, <2>2, <2>3, <2>4, <2>5
<1>11. ASSUME NEW e \in execs, ReportRefused(e) PROVE IInv'
  <2>1. TypeOK'
    BY <1>11 DEF ReportRefused
  <2>2. ExecsSane'
    BY <1>11 DEF ReportRefused, ExecsSane
  <2>3. OnlyLatestClaimAccepted'
    BY <1>11 DEF ReportRefused, OnlyLatestClaimAccepted, Owns, Current,
       ExecsSane
  <2>4. RecordFitsExecs'
    BY <1>11 DEF ReportRefused, RecordFitsExecs, ExecsSane,
       OnlyLatestClaimAccepted, Owns, Current, Silent
  <2>5. NoTwoActiveExecutions'
    BY <1>11 DEF ReportRefused, NoTwoActiveExecutions, RecordFitsExecs,
       ExecsSane, OnlyLatestClaimAccepted, Owns, Current, Silent
  <2>6. QED
    BY <2>1, <2>2, <2>3, <2>4, <2>5
<1>12. ASSUME NEW w \in Worker, Crash(w) PROVE IInv'
  <2>1. TypeOK'
    BY <1>12 DEF Crash
  <2>2. ExecsSane'
    BY <1>12 DEF Crash, ExecsSane
  <2>3. OnlyLatestClaimAccepted'
    BY <1>12 DEF Crash, OnlyLatestClaimAccepted, Owns, Current, ExecsSane
  <2>4. RecordFitsExecs'
    BY <1>12 DEF Crash, RecordFitsExecs, ExecsSane, OnlyLatestClaimAccepted,
       Owns, Current, Silent
  <2>5. NoTwoActiveExecutions'
    BY <1>12 DEF Crash, NoTwoActiveExecutions, RecordFitsExecs, ExecsSane,
       OnlyLatestClaimAccepted, Owns, Current, Silent
  <2>6. QED
    BY <2>1, <2>2, <2>3, <2>4, <2>5
<1>13. CASE UNCHANGED vars
  BY <1>13 DEF vars, ExecsSane, OnlyLatestClaimAccepted, RecordFitsExecs,
     NoTwoActiveExecutions, Owns, Current, Silent
<1>14. QED
  BY <1>1, <1>2, <1>3, <1>4, <1>5, <1>6, <1>7, <1>8, <1>9, <1>10, <1>11, <1>12, <1>13 DEF Next

----------------------------------------------------------------------------
\* The invariant holds in every reachable state of the store and its workers.
LEMMA StoreInvariant == Spec => []IInv
<1>1. Init => IInv
  BY DEF Init, IInv, TypeOK, JobDoc, Status, Finished, Execution, NoJob,
         ExecsSane, OnlyLatestClaimAccepted, RecordFitsExecs,
         NoTwoActiveExecutions
<1>2. QED
  BY <1>1, StoreStep, PTL DEF Spec

\* Every operation of FirestoreJobStore writes a well-formed record.
THEOREM StoreTypeCorrect == Spec => []TypeOK
<1>1. IInv => TypeOK
  BY DEF IInv
<1>2. QED
  BY <1>1, StoreInvariant, PTL

\* claimedBy fences zombies: only the worker of the latest claim of the record
\* as last created passes the owner test of startJob, heartbeat, completeJob
\* and failJob.
THEOREM StoreFencesZombies == Spec => []OnlyLatestClaimAccepted
<1>1. IInv => OnlyLatestClaimAccepted
  BY DEF IInv
<1>2. QED
  BY <1>1, StoreInvariant, PTL

\* A job is taken only from a worker that was silent for longer than the stale
\* timeout: of two live executions one has missed its heartbeats.
THEOREM StoreClaimsExclusive == Spec => []NoTwoActiveExecutions
<1>1. IInv => NoTwoActiveExecutions
  BY DEF IInv
<1>2. QED
  BY <1>1, StoreInvariant, PTL

\* completeJob and failJob test the owner and not the status, yet no finished
\* job is reopened, except a dead-lettered one by the execution that held it:
\* nobody owns a completed or a failed record any more.
THEOREM StoreFinishedIsFinal == Spec => FinishedStaysFinished
<1> DEFINE A == \A j \in Job :
                  job[j].status \in Finished =>
                      \/ job'[j].status \in Finished \cup {"absent"}
                      \/ created'[j] # created[j]
                      \/ /\ job[j].status = "dead_letter"
                         /\ \E e \in execs \ execs' : e.job = j /\ Owns(e)
<1>1. IInv /\ [Next]_vars => [A]_vars
  <2> SUFFICES ASSUME IInv, Next, NEW j \in Job, job[j].status \in Finished
               PROVE  \/ job'[j].status \in Finished \cup {"absent"}
                      \/ created'[j] # created[j]
                      \/ /\ job[j].status = "dead_letter"
                         /\ \E e \in execs \ execs' : e.job = j /\ Owns(e)
    OBVIOUS
  <2> USE DEF IInv, TypeOK, JobDoc, Status, Finished, Execution, NoJob
  <2>1. CASE Time \/ CleanupQuery
    BY <2>1 DEF Time, CleanupQuery
  <2>2. CASE CleanupCommit
    BY <2>2 DEF CleanupCommit
  <2>3. ASSUME NEW i \in Job, CreateJob(i) \/ DeadLetterJob(i)
        PROVE  job'[j].status \in Finished \/ created'[j] # created[j]
    BY <2>3 DEF CreateJob, DeadLetterJob
  <2>4. ASSUME NEW i \in Job, NEW w \in Worker, ClaimJob(i, w)
        PROVE  job'[j].status \in Finished
    BY <2>4 DEF ClaimJob, Claimable
  <2>5. ASSUME NEW e \in execs, StartJob(e) \/ Heartbeat(e) \/ CompleteJob(e)
        PROVE  job'[j].status \in Finished
    BY <2>5 DEF StartJob, Heartbeat, CompleteJob
  <2>6. ASSUME NEW e \in execs, FailJob(e)
        PROVE  \/ job'[j].status \in Finished
               \/ /\ job[j].status = "dead_letter"
                  /\ e \in execs \ execs' /\ e.job = j /\ Owns(e)
    <3>1. CASE e.job # j
      BY <2>6, <3>1 DEF FailJob
    <3>2. CASE e.job = j
      <4>1. job[j].status = "dead_letter"
        BY <2>6, <3>2 DEF FailJob, Owns, RecordFitsExecs,
                          OnlyLatestClaimAccepted
      <4>2. QED
        BY <2>6, <3>2, <4>1 DEF FailJob
    <3>3. QED
      BY <3>1, <3>2
  <2>7. ASSUME NEW e \in execs, ReportRefused(e)
        PROVE  job'[j].status \in Finished
    BY <2>7 DEF ReportRefused
  <2>8. ASSUME NEW w \in Worker, Crash(w)
        PROVE  job'[j].status \in Finished
    BY <2>8 DEF Crash
  <2>9. QED
    BY <2>1, <2>2, <2>3, <2>4, <2>5, <2>6, <2>7, <2>8 DEF Next
<1>2. QED
  BY <1>1, StoreInvariant, PTL DEF Spec, FinishedStaysFinished

=============================================================================
