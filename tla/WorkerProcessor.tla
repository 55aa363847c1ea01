-------------------------- MODULE WorkerProcessor --------------------------
(***************************************************************************)
(* WorkerProcessor.processJob (apps/worker/src/processor.ts) behind the    *)
(* push endpoint or the pull loop (apps/worker/src/index.ts, pubsub.ts),   *)
(* on the run lock and the idempotency records of Firestore.               *)
(*                                                                         *)
(* A delivery is one activation of processJob.  Each await of the code is  *)
(* a step of its own, so the deliveries of all worker processes interleave *)
(* there.  The holder id of a delivery's lock is the delivery itself; a    *)
(* slot is used again only when nothing of its last activation still runs. *)
(***************************************************************************)
EXTENDS RunLock, IdempotencyStore

CONSTANTS
    NoJob,      \* the slot processes nothing
    NoRun,      \* the job is not scoped to a run: no lock is taken
    RunOf,      \* runId of a job, or NoRun
    Handled,    \* jobs whose type has a registered handler
    Deadline,   \* metadata.deadline of a job
    PullMode,   \* WORKER_PULL_MODE; otherwise Pub/Sub pushes
    LockTtl,    \* WORKER_LOCK_TTL_MS
    ExtendTtl,  \* what a handler passes to context.extendLock
    JobTimeout, \* WORKER_JOB_TIMEOUT_MS
    MaxDeliveries, \* max_delivery_attempts of the subscription
    MaxFaults   \* bound of the model: crashes and failed Firestore calls

ASSUME ProcessorAssumption ==
    /\ NoJob \notin Job
    /\ NoRun \notin Run
    /\ RunOf \in [Job -> Run \cup {NoRun}]
    /\ Handled \subseteq Job
    /\ Deadline \in [Job -> Nat \ {0}]
    /\ PullMode \in BOOLEAN
    /\ LockTtl \in Nat /\ ExtendTtl \in Nat /\ JobTimeout \in Nat
    /\ MaxDeliveries \in Nat \ {0}
    /\ MaxFaults \in Nat

VARIABLES
    slot,       \* slot[d]: the local state of delivery d
    acked,      \* jobs whose message was acknowledged to Pub/Sub
    deliveries, \* deliveries[j]: how often the message was delivered
    dead,       \* jobs whose message went to the dead-letter topic
    faults,     \* crashes and failed calls so far
    ended,      \* observation only: how handler runs of a job have ended
    wiped       \* observation only: jobs whose live record was deleted

broker == <<acked, deliveries, dead>>
observed == <<ended, wiped>>
vars == <<clock, lock, record, slot, broker, faults, observed>>

Idle == [pc |-> "idle", job |-> NoJob, handler |-> "none",
         outcome |-> "none", started |-> 0, until |-> 0, cachedUntil |-> 0]

Slot == [pc: {"idle", "check", "deleteExpired", "acquire", "create",
              "running", "complete", "fail", "failBlank", "release",
              "answer"},    \* failBlank: to fail() with an empty message
         job: Job \cup {NoJob},
         handler: {"none", "running", "over"},
         outcome: {"none", "completed", "failed", "skipped", "error"},
         started: Nat,
         until: Nat,            \* end of the lease it was granted
         cachedUntil: Nat]      \* observation only: at delivery time, when
                                \* the resolved record would expire

TypeOK ==
    /\ clock \in Nat
    /\ LockTypeOK
    /\ RecordTypeOK
    /\ slot \in [Holder -> Slot]
    /\ acked \subseteq Job
    /\ deliveries \in [Job -> 0..MaxDeliveries]
    /\ dead \subseteq Job
    /\ faults \in Nat
    /\ ended \in [Job -> SUBSET {"completed", "failed", "thrown", "blank"}]
    /\ wiped \subseteq Job

Init ==
    /\ clock = 0
    /\ LockInit
    /\ RecordInit
    /\ slot = [d \in Holder |-> Idle]
    /\ acked = {}
    /\ deliveries = [j \in Job |-> 0]
    /\ dead = {}
    /\ faults = 0
    /\ ended = [j \in Job |-> {}]
    /\ wiped = {}

----------------------------------------------------------------------------

At(d, pc) == slot[d].pc = pc

JobAt(d) == slot[d].job

RunAt(d) == RunOf[JobAt(d)]

Goto(d, pc) == slot' = [slot EXCEPT ![d].pc = pc]

\* processJob returns (or throws, for "error") without going any further.
Return(d, outcome) ==
    slot' = [slot EXCEPT ![d].pc = "answer", ![d].outcome = outcome]

\* The handler's part of processJob is over: go and record the outcome.
Finish(d, pc, handler, outcome) ==
    slot' = [slot EXCEPT ![d] = [Idle EXCEPT !.pc = pc, !.job = JobAt(d),
                                             !.handler = handler,
                                             !.outcome = outcome]]

\* Faults are bounded, and stop early enough for every lease to run out
\* before the clock of the model stops.
Fault ==
    /\ faults < MaxFaults
    /\ clock + LockTtl <= MaxTime /\ clock + ExtendTtl <= MaxTime
    /\ faults' = faults + 1

Refused(j) == clock > Deadline[j] \/ j \notin Handled

\* Wrong variant: the limit counts the redeliveries only.
RedeliveriesLeft(j) == deliveries[j] <= MaxDeliveries

DeliveriesLeft(j) == deliveries[j] < MaxDeliveries

\* Pub/Sub delivers a message at least once: again while it is in process,
\* and possibly again after it was acknowledged, but no more often than the
\* subscription allows.
Deliver(d, j) ==
    /\ At(d, "idle") /\ slot[d].handler # "running"
    /\ DeliveriesLeft(j)
    /\ deliveries' = [deliveries EXCEPT ![j] = @ + 1]
    /\ slot' = [slot EXCEPT ![d] =
        [Idle EXCEPT
            !.pc = IF Refused(j) THEN "answer" ELSE "check",
            !.job = j,
            !.outcome = IF ~Refused(j) THEN "none"
                        ELSE IF clock > Deadline[j] THEN "skipped"
                        ELSE "failed",
            !.cachedUntil = IF Skips(j) THEN record[j].expiresAt ELSE 0]]
    /\ UNCHANGED <<clock, lock, record, acked, dead, faults, observed>>

\* The deliveries are used up and none was acknowledged, though the last may
\* still be in process: the message moves to the dead-letter topic, which no
\* worker reads.
DeadLetter(j) ==
    /\ ~DeliveriesLeft(j)
    /\ j \notin acked \cup dead
    /\ dead' = dead \cup {j}
    /\ UNCHANGED <<clock, lock, record, slot, acked, deliveries, faults, observed>>

\* checkIdempotency.  A job without a run goes on without a lock.
AfterCheck(d) == IF RunAt(d) = NoRun THEN "create" ELSE "acquire"

\* The status of a skipped delivery: "error ? 'failed' : 'completed'", where
\* checkIdempotency gives the error of a failed record only.
CachedStatus(j) ==
    IF record[j].status = "failed" /\ record[j].error THEN "failed"
    ELSE "completed"

Check(d) ==
    /\ At(d, "check")
    /\ IF Skips(JobAt(d)) THEN Return(d, CachedStatus(JobAt(d)))
       ELSE Goto(d, IF RecordExpired(JobAt(d)) THEN "deleteExpired"
                    ELSE AfterCheck(d))
    /\ UNCHANGED <<clock, lock, record, broker, faults, observed>>

DeleteExpired(d) ==
    /\ At(d, "deleteExpired")
    /\ DeleteRecord(JobAt(d))
    /\ Goto(d, AfterCheck(d))
    /\ wiped' = IF Present(JobAt(d)) /\ ~RecordExpired(JobAt(d))
                THEN wiped \cup {JobAt(d)} ELSE wiped
    /\ UNCHANGED <<clock, lock, broker, faults, ended>>

AcquireLock(d) ==
    /\ At(d, "acquire")
    /\ Acquire(RunAt(d), d, clock, LockTtl)
    /\ slot' = [slot EXCEPT ![d].pc = "create", ![d].until = clock + LockTtl]
    /\ UNCHANGED <<clock, record, broker, faults, observed>>

\* Held by another delivery, or the transaction of tryAcquire failed: "Return
\* failed but don't record idempotency (allow retry)".
LockConflict(d) ==
    /\ At(d, "acquire")
    /\ \/ ~Free(RunAt(d), clock) /\ UNCHANGED faults
       \/ Fault
    /\ Return(d, "failed")
    /\ UNCHANGED <<clock, lock, record, broker, observed>>

\* create, whose result is not looked at, then the handler is invoked.
CreateRecord(d) ==
    /\ At(d, "create")
    /\ Create(JobAt(d))
    /\ slot' = [slot EXCEPT ![d].pc = "running", ![d].handler = "running",
                            ![d].started = clock]
    /\ UNCHANGED <<clock, lock, broker, faults, observed>>

\* checkIdempotency or create throws.  Neither is inside the try block, so a
\* lock that was taken is not released.
StoreThrows(d) ==
    /\ At(d, "check") \/ At(d, "create")
    /\ Fault
    /\ Return(d, "error")
    /\ UNCHANGED <<clock, lock, record, broker, observed>>

----------------------------------------------------------------------------
(* The handler, and the race of executeWithTimeout *)

HandlerActive(d) == slot[d].handler = "running"

\* Whatever status the handler returns, processJob goes on to complete().
HandlerReturns(d, status) ==
    /\ At(d, "running") /\ HandlerActive(d)
    /\ Finish(d, "complete", "over", status)
    /\ ended' = [ended EXCEPT ![JobAt(d)] = @ \cup {status}]
    /\ UNCHANGED <<clock, lock, record, broker, faults, wiped>>

\* The handler throws an error with a message, or with an empty one.
HandlerThrows(d, message) ==
    /\ At(d, "running") /\ HandlerActive(d)
    /\ Finish(d, IF message THEN "fail" ELSE "failBlank", "over", "failed")
    /\ ended' = [ended EXCEPT ![JobAt(d)] =
                    @ \cup {IF message THEN "thrown" ELSE "blank"}]
    /\ UNCHANGED <<clock, lock, record, broker, faults, wiped>>

\* The timer wins the race: processJob goes on, and so does the handler.
Timeout(d) ==
    /\ At(d, "running")
    /\ clock >= slot[d].started + JobTimeout
    /\ Finish(d, "fail", "running", "failed")
    /\ ended' = [ended EXCEPT ![JobAt(d)] = @ \cup {"thrown"}]
    /\ UNCHANGED <<clock, lock, record, broker, faults, wiped>>

Zombie(d) == HandlerActive(d) /\ ~At(d, "running")

ZombieEnds(d) ==
    /\ Zombie(d)
    /\ slot' = [slot EXCEPT ![d] =
                    IF At(d, "idle") THEN Idle
                    ELSE [@ EXCEPT !.handler = "over", !.until = 0]]
    /\ UNCHANGED <<clock, lock, record, broker, faults, observed>>

\* context.extendLock, open to the handler as long as it runs.
ExtendLock(d) ==
    /\ HandlerActive(d) /\ RunAt(d) # NoRun
    /\ Extend(RunAt(d), d, clock, ExtendTtl)
    /\ slot' = [slot EXCEPT ![d].until =
                    IF lock[RunAt(d)].holder = d THEN clock + ExtendTtl ELSE @]
    /\ UNCHANGED <<clock, record, broker, faults, observed>>

----------------------------------------------------------------------------
(* The end of processJob *)

AfterRecord(d) == IF RunAt(d) = NoRun THEN "answer" ELSE "release"

RecordResult(d) ==
    /\ \/ At(d, "complete") /\ Complete(JobAt(d))
       \/ At(d, "fail") /\ Fail(JobAt(d), TRUE)
       \/ At(d, "failBlank") /\ Fail(JobAt(d), FALSE)
    /\ Goto(d, AfterRecord(d))
    /\ UNCHANGED <<clock, lock, broker, faults, observed>>

\* complete and fail swallow an error of Firestore and return false.
RecordLost(d) ==
    /\ At(d, "complete") \/ At(d, "fail") \/ At(d, "failBlank")
    /\ Fault
    /\ Goto(d, AfterRecord(d))
    /\ UNCHANGED <<clock, lock, record, broker, observed>>

ReleaseLock(d) ==
    /\ At(d, "release")
    /\ Release(RunAt(d), d)
    /\ Goto(d, "answer")
    /\ UNCHANGED <<clock, record, broker, faults, observed>>

\* release swallows an error of Firestore: the lock stays until it expires.
ReleaseLost(d) ==
    /\ At(d, "release")
    /\ Fault
    /\ Goto(d, "answer")
    /\ UNCHANGED <<clock, lock, record, broker, observed>>

\* Wrong variant: the pull loop acknowledges what did not throw.
AcksUnlessError(outcome) == outcome # "error"

\* Pull: ack when the status is completed, else nack.  Push: status 200 for
\* whatever processJob returned, 500 only when it threw.
Acks(outcome) ==
    IF PullMode THEN outcome = "completed" ELSE outcome # "error"

Answer(d) ==
    /\ At(d, "answer")
    /\ acked' = IF Acks(slot[d].outcome) THEN acked \cup {JobAt(d)} ELSE acked
    /\ slot' = [slot EXCEPT ![d] =
                  IF HandlerActive(d)
                  THEN [@ EXCEPT !.pc = "idle", !.outcome = "none"] ELSE Idle]
    /\ UNCHANGED <<clock, lock, record, deliveries, dead, faults, observed>>

\* The worker process dies, with everything the delivery was doing.
Crash(d) ==
    /\ slot[d] # Idle
    /\ Fault
    /\ slot' = [slot EXCEPT ![d] = Idle]
    /\ UNCHANGED <<clock, lock, record, broker, observed>>

Time == Tick /\ UNCHANGED <<lock, record, slot, broker, faults, observed>>

HandlerEnds(d) ==
    \/ \E status \in {"completed", "failed"} : HandlerReturns(d, status)
    \/ \E message \in BOOLEAN : HandlerThrows(d, message)

\* The steps processJob takes by itself once it has a message.
Proceed(d) ==
    \/ Check(d) \/ DeleteExpired(d)
    \/ AcquireLock(d) \/ LockConflict(d) \/ CreateRecord(d)
    \/ Timeout(d)
    \/ RecordResult(d) \/ ReleaseLock(d) \/ Answer(d)

Next ==
    \/ Time
    \/ \E j \in Job : DeadLetter(j)
    \/ \E d \in Holder :
        \/ \E j \in Job : Deliver(d, j)
        \/ Proceed(d)
        \/ HandlerEnds(d) \/ ZombieEnds(d) \/ ExtendLock(d)
        \/ StoreThrows(d) \/ RecordLost(d) \/ ReleaseLost(d) \/ Crash(d)

Spec == Init /\ [][Next]_vars

\* Time passes; the event loop runs what is ready; Pub/Sub keeps delivering a
\* message that is not acknowledged as long as it has deliveries left, and
\* then moves it to the dead-letter topic.  A handler may hang for ever: the
\* timer ends its delivery, except where the timer would fire after the clock
\* of the model has stopped; a hung zombie gives its slot back, because a
\* worker has more slots than the model.
Fairness ==
    /\ WF_vars(Time)
    /\ \A d \in Holder :
        /\ WF_vars(Proceed(d))
        /\ WF_vars(slot[d].started + JobTimeout > MaxTime /\ HandlerEnds(d))
        /\ WF_vars(ZombieEnds(d))
    /\ \A j \in Job :
        /\ SF_vars(j \notin acked /\ \E d \in Holder : Deliver(d, j))
        /\ WF_vars(DeadLetter(j))

FairSpec == Spec /\ Fairness

----------------------------------------------------------------------------
(* Properties *)

\* Two handlers run at the same time on one run only if one of them has
\* outlived its lease or was abandoned by its timed-out delivery.
OverlapExplained ==
    \A d1, d2 \in Holder :
        /\ d1 # d2 /\ HandlerActive(d1) /\ HandlerActive(d2)
        /\ RunAt(d1) = RunAt(d2) /\ RunAt(d1) # NoRun
        => \E d \in {d1, d2} : Zombie(d) \/ slot[d].until <= clock

\* A delivery that arrives after the outcome of its job was recorded does not
\* run the handler before the record has expired: no race of earlier
\* deliveries puts a resolved record back to pending, except that get may
\* find the record expired and then delete the one that has replaced it.
RedeliveryIsCached ==
    \A d \in Holder :
        At(d, "running") /\ JobAt(d) \notin wiped
            => slot[d].cachedUntil <= slot[d].started

\* A message pulled from Pub/Sub is acknowledged only when some handler run
\* of the job has returned to its delivery, or has thrown an error without a
\* message: such a failure is on record, but a redelivery takes the empty
\* message for none and answers completed.
AckedAfterHandlerRan ==
    \A j \in acked : ended[j] \cap {"completed", "failed", "blank"} # {}

\* Something stands between the job and its run's lock other than deliveries
\* of its own: a crash or failed call, or another job of the run.
Contended(j) ==
    \/ faults > 0
    \/ RunOf[j] # NoRun /\ \E k \in Job \ {j} : RunOf[k] = RunOf[j]

\* Every job that may run is eventually run to an end (the handler returns,
\* throws or times out), whatever crashes leave its lock behind and its record
\* pending, or its message ends in the dead-letter topic with every delivery
\* used up; and deliveries of the job alone, which refuse each other the
\* lock, never use them up before one of them has run it.
EveryJobEnds ==
    \A j \in Handled : Deadline[j] >= MaxTime =>
        <>(ended[j] # {} \/ (j \in dead /\ Contended(j)))

\* "Idempotency to prevent duplicate processing": no handler is started on a
\* job whose completion is on record.
NoDuplicateProcessing ==
    [][\A d \in Holder :
        At(d, "create") /\ slot'[d].pc = "running"
            => record[JobAt(d)].status # "completed"]_vars

\* "don't record idempotency (allow retry)": the message of a job that was
\* refused because of a lock conflict is not acknowledged before some
\* delivery has run the job to an end.
ConflictIsRetried ==
    \A j \in acked : Refused(j) \/ ended[j] # {}

\* "Record success": a message is acknowledged as completed only when some
\* handler run of the job reported that it completed.
AckedOnlyIfCompleted ==
    \A j \in acked : "completed" \in ended[j]

=============================================================================
