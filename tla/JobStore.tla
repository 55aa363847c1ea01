------------------------------ MODULE JobStore ------------------------------
(***************************************************************************)
(* FirestoreJobStore (packages/core/src/queue/firestore-job-store.ts): the *)
(* durable record of a queue job and the workers that claim it, heartbeat, *)
(* report, stall or die.                                                   *)
(*                                                                         *)
(* An execution is what a worker runs between a successful claimJob and    *)
(* its report.  The store knows a worker only by the id it passes; the     *)
(* callers use the id of a lock holder, new for each delivery              *)
(* (apps/worker/src/handlers/autopilot.ts), so an id never has two live    *)
(* executions of one job.                                                  *)
(***************************************************************************)
EXTENDS Clock

CONSTANTS
    Job,            \* job ids
    Worker,         \* worker ids
    NoWorker,       \* claimedBy is not set
    MaxRetries,     \* maxRetries of a job: its metadata or the default 3
    StaleTimeout,   \* STALE_JOB_TIMEOUT
    Retention,      \* olderThanDays of cleanupOldJobs
    MaxAttempts,    \* bound of the model: claims of one record
    MaxCreates      \* bound of the model: createJob calls with one id

ASSUME NoWorkerAssumption == NoWorker \notin Worker
ASSUME StoreAssumption ==
    /\ MaxRetries \in Nat
    /\ StaleTimeout \in Nat
    /\ Retention \in Nat
    /\ MaxAttempts \in Nat
    /\ MaxCreates \in Nat

VARIABLES
    job,        \* job[j]: the document gwi_jobs/j
    created,    \* created[j]: how many times createJob wrote it
    execs,      \* the live executions
    listed      \* jobs a running cleanupOldJobs has read and will delete

vars == <<clock, job, created, execs, listed>>

Finished == {"completed", "failed", "dead_letter"}
Status == {"absent", "pending", "claimed", "running"} \cup Finished

JobDoc == [status: Status, claimedBy: Worker \cup {NoWorker}, attempts: Nat,
           lastHeartbeat: Nat, completedAt: Nat]

\* beat: the last clock value at which the store accepted a call of it.
Execution == [job: Job, worker: Worker, create: Nat, attempt: Nat, beat: Nat]

NoJob == [status |-> "absent", claimedBy |-> NoWorker, attempts |-> 0,
          lastHeartbeat |-> 0, completedAt |-> 0]

TypeOK ==
    /\ clock \in Nat
    /\ job \in [Job -> JobDoc]
    /\ created \in [Job -> Nat]
    /\ execs \subseteq Execution
    /\ listed \subseteq Job

Init ==
    /\ clock = 0
    /\ job = [j \in Job |-> NoJob]
    /\ created = [j \in Job |-> 0]
    /\ execs = {}
    /\ listed = {}

----------------------------------------------------------------------------
(* Operations of the store, each one transaction *)

\* docRef.set: a second createJob with the same id overwrites the record.
CreateJob(j) ==
    /\ created[j] < MaxCreates
    /\ job' = [job EXCEPT ![j] = [NoJob EXCEPT !.status = "pending"]]
    /\ created' = [created EXCEPT ![j] = @ + 1]
    /\ UNCHANGED <<clock, execs, listed>>

Stale(j) == clock - job[j].lastHeartbeat > StaleTimeout

Claimable(j) ==
    \/ job[j].status = "pending"
    \/ job[j].status \in {"claimed", "running"} /\ Stale(j)

Alive(j, w) == {e \in execs : e.job = j /\ e.worker = w}

ClaimJob(j, w) ==
    /\ Claimable(j)
    /\ job[j].attempts < MaxAttempts
    /\ Alive(j, w) = {}
    /\ job' = [job EXCEPT ![j].status = "claimed",
                          ![j].claimedBy = w,
                          ![j].lastHeartbeat = clock,
                          ![j].attempts = @ + 1]
    /\ execs' = execs \cup {[job |-> j, worker |-> w, create |-> created[j],
                             attempt |-> job[j].attempts + 1, beat |-> clock]}
    /\ UNCHANGED <<clock, created, listed>>

\* Wrong variants of the operators below: the owner is not compared, a
\* heartbeat is not written or is backdated, startJob ignores the status.
OwnsAnyClaim(e) == job[e.job].claimedBy # NoWorker
HeartbeatUnwritten(e) ==
    /\ job[e.job].claimedBy = e.worker
    /\ job[e.job].status \in {"claimed", "running"}
    /\ execs' = (execs \ {e}) \cup {[e EXCEPT !.beat = clock]}
    /\ UNCHANGED <<clock, job, created, listed>>
HeartbeatBackdated(e) ==
    /\ job[e.job].claimedBy = e.worker
    /\ job[e.job].status \in {"claimed", "running"}
    /\ job' = [job EXCEPT ![e.job].lastHeartbeat = clock - StaleTimeout]
    /\ UNCHANGED <<clock, created, execs, listed>>
StartJobAnyStatus(e) ==
    /\ job[e.job].claimedBy = e.worker
    /\ job' = [job EXCEPT ![e.job].status = "running",
                          ![e.job].lastHeartbeat = clock]
    /\ execs' = (execs \ {e}) \cup {[e EXCEPT !.beat = clock]}
    /\ UNCHANGED <<clock, created, listed>>

\* The test every later call of a worker passes.
Owns(e) == job[e.job].claimedBy = e.worker

StartJob(e) ==
    /\ Owns(e) /\ job[e.job].status = "claimed"
    /\ job' = [job EXCEPT ![e.job].status = "running",
                          ![e.job].lastHeartbeat = clock]
    /\ execs' = (execs \ {e}) \cup {[e EXCEPT !.beat = clock]}
    /\ UNCHANGED <<clock, created, listed>>

Heartbeat(e) ==
    /\ Owns(e) /\ job[e.job].status \in {"claimed", "running"}
    /\ job' = [job EXCEPT ![e.job].lastHeartbeat = clock]
    /\ execs' = (execs \ {e}) \cup {[e EXCEPT !.beat = clock]}
    /\ UNCHANGED <<clock, created, listed>>

\* completeJob tests the owner and not the status; claimedBy stays.
CompleteJob(e) ==
    /\ Owns(e)
    /\ job' = [job EXCEPT ![e.job].status = "completed",
                          ![e.job].completedAt = clock]
    /\ execs' = execs \ {e}
    /\ UNCHANGED <<clock, created, listed>>

\* failJob tests the owner and not the status; claimedBy is deleted.
FailJob(e) ==
    /\ Owns(e)
    /\ LET retry == job[e.job].attempts < MaxRetries
       IN  job' = [job EXCEPT
                     ![e.job].status = IF retry THEN "pending" ELSE "failed",
                     ![e.job].completedAt = IF retry THEN @ ELSE clock,
                     ![e.job].claimedBy = NoWorker,
                     ![e.job].lastHeartbeat = 0]
    /\ execs' = execs \ {e}
    /\ UNCHANGED <<clock, created, listed>>

\* docRef.update on any existing record; claimedBy stays.
DeadLetterJob(j) ==
    /\ job[j].status # "absent"
    /\ job' = [job EXCEPT ![j].status = "dead_letter", ![j].completedAt = clock]
    /\ UNCHANGED <<clock, created, execs, listed>>

----------------------------------------------------------------------------
(* cleanupOldJobs: a query, then a batch of deletes without precondition *)

CleanupQuery ==
    LET old == {j \in Job : /\ job[j].status \in Finished
                            /\ job[j].completedAt + Retention < clock}
    IN  /\ listed = {} /\ old # {}
        /\ listed' = old
        /\ UNCHANGED <<clock, job, created, execs>>

CleanupCommit ==
    /\ listed # {}
    /\ job' = [j \in Job |-> IF j \in listed THEN NoJob ELSE job[j]]
    /\ listed' = {}
    /\ UNCHANGED <<clock, created, execs>>

----------------------------------------------------------------------------
(* Workers *)

\* A report the store refuses ends the execution all the same.
ReportRefused(e) ==
    /\ ~Owns(e)
    /\ execs' = execs \ {e}
    /\ UNCHANGED <<clock, job, created, listed>>

Crash(w) ==
    /\ \E e \in execs : e.worker = w
    /\ execs' = {e \in execs : e.worker # w}
    /\ UNCHANGED <<clock, job, created, listed>>

Time == Tick /\ UNCHANGED <<job, created, execs, listed>>

Next ==
    \/ Time
    \/ CleanupQuery
    \/ CleanupCommit
    \/ \E j \in Job :
        CreateJob(j) \/ DeadLetterJob(j) \/ \E w \in Worker : ClaimJob(j, w)
    \/ \E e \in execs :
        \/ StartJob(e) \/ Heartbeat(e)
        \/ CompleteJob(e) \/ FailJob(e) \/ ReportRefused(e)
    \/ \E w \in Worker : Crash(w)

Spec == Init /\ [][Next]_vars

----------------------------------------------------------------------------
(* Properties *)

\* An execution of the record as last created.
Current(e) == e.create = created[e.job]

Silent(e) == clock - e.beat > StaleTimeout

\* The worker whose calls the store accepts is the one of the latest claim: a
\* superseded execution (a zombie that wakes up) can neither heartbeat nor
\* report.  A record that is pending or failed accepts nobody.
OnlyLatestClaimAccepted ==
    /\ \A e \in execs :
        Owns(e) => Current(e) /\ e.attempt = job[e.job].attempts
    /\ \A j \in Job :
        /\ job[j].status \in {"absent", "pending", "failed"}
               => job[j].claimedBy = NoWorker
        /\ job[j].status \in {"claimed", "running"}
               => job[j].claimedBy # NoWorker

\* Two live executions of one record mean that all but one of them have missed
\* their heartbeats for longer than STALE_JOB_TIMEOUT: a job is never taken
\* from a worker that is heard of.
NoTwoActiveExecutions ==
    \A e1, e2 \in execs :
        e1 # e2 /\ e1.job = e2.job /\ Current(e1) /\ Current(e2)
            => Silent(e1) \/ Silent(e2)

\* A finished job stays finished until it is created again or deleted, except
\* that the execution that held a dead-lettered job can still report.
FinishedStaysFinished ==
    [][\A j \in Job :
        job[j].status \in Finished =>
            \/ job'[j].status \in Finished \cup {"absent"}
            \/ created'[j] # created[j]
            \/ /\ job[j].status = "dead_letter"
               /\ \E e \in execs \ execs' : e.job = j /\ Owns(e)]_vars

=============================================================================
