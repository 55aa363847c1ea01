---------------------------- MODULE RequestDedup ----------------------------
(***************************************************************************)
(* The engine's idempotency records (packages/engine/src/idempotency):     *)
(* the store's checkAndSet, markCompleted, markFailed and cleanupExpired,  *)
(* the service's process and the Express middleware around them, for the   *)
(* calls that carry one key.  Keys do not interact: each is a document of  *)
(* its own.  A call in Webhook runs inside service.process, every other    *)
(* call passes through idempotencyMiddleware.  What a request asks for and *)
(* what the handler answers are left out; an answer is named by the call   *)
(* whose handler produced it.                                              *)
(***************************************************************************)
EXTENDS Clock, FiniteSets

CONSTANTS
    Call,           \* the requests with this key: one client call each
    Webhook,        \* those that service.process runs
    NoCall,
    LockTimeout, MaxAttempts, CompletedTtl, FailedTtl   \* IdempotencyConfig

ASSUME DedupAssumption ==
    /\ IsFiniteSet(Call) /\ Webhook \subseteq Call /\ NoCall \notin Call
    /\ LockTimeout \in Nat \ {0} /\ MaxAttempts \in Nat \ {0}
    /\ CompletedTtl \in Nat /\ FailedTtl \in Nat

\* True of DEFAULT_IDEMPOTENCY_CONFIG: a lock is over before a record that
\* was closed under it is forgotten.
ASSUME TtlAssumption == LockTimeout <= CompletedTtl /\ LockTimeout <= FailedTtl

VARIABLES
    record,     \* the document gwi_idempotency/<key>
    pc,         \* pc[c]: where the call is
    until,      \* until[c]: the end of the lock its handler was started under
    sweep,      \* cleanupExpired is to query, or to delete what it found
    evicted,    \* observation only: calls at work when the record was deleted
    started     \* observation only: handlers started under this record

vars == <<clock, record, pc, until, sweep, evicted, started>>

NoRecord == [status |-> "none", lockExpiresAt |-> 0, expiresAt |-> 0,
             attempts |-> 0, response |-> NoCall]

Attempts == 0 .. MaxAttempts

Record == [status: {"none", "processing", "completed", "failed"},
           lockExpiresAt: Nat, expiresAt: Nat,
           attempts: Attempts, response: Call \cup {NoCall}]

TypeOK ==
    /\ clock \in Nat
    /\ record \in Record
    /\ pc \in [Call -> {"idle", "handling", "bypassing", "recording",
                        "storing", "failing", "waiting", "unrecorded", "done"}]
    /\ until \in [Call -> Nat]
    /\ sweep \in {"query", "delete"}
    /\ evicted \subseteq Call
    /\ started \subseteq Call

Init ==
    /\ clock = 0
    /\ record = NoRecord
    /\ pc = [c \in Call |-> "idle"]
    /\ until = [c \in Call |-> 0]
    /\ sweep = "query"
    /\ evicted = {}
    /\ started = {}

Goto(c, place) == pc' = [pc EXCEPT ![c] = place]

----------------------------------------------------------------------------
(* The store: one transaction of checkAndSet has one of four outcomes *)

LockExpired == record.status = "processing" /\ record.lockExpiresAt < clock
Closed == record.status \in {"completed", "failed"}
Forgotten == record.status = "none" \/ (Closed /\ record.expiresAt < clock)

\* Wrong variants, one plausible slip each, to show which property breaks.
RetakenFromOwner == record.status = "processing" /\ record.attempts < MaxAttempts
RetakenAtExpiry ==
    /\ record.status = "processing" /\ record.lockExpiresAt <= clock
    /\ record.attempts < MaxAttempts
RetakenForever == LockExpired
RetakenUncounted == [record EXCEPT !.lockExpiresAt = clock + LockTimeout]

\* 'processing': somebody holds the lock.
InProgress == record.status = "processing" /\ ~LockExpired
\* 'new', by taking over a lock that ran out.
Retakable == LockExpired /\ record.attempts < MaxAttempts
\* 'duplicate', after the record is marked failed.
Exhausted == LockExpired /\ record.attempts >= MaxAttempts

FreshRecord == [status        |-> "processing",
                lockExpiresAt |-> clock + LockTimeout,
                expiresAt     |-> clock + CompletedTtl,
                attempts      |-> 1,
                response      |-> NoCall]

RetakenRecord == [record EXCEPT !.lockExpiresAt = clock + LockTimeout,
                                !.attempts = @ + 1]

GrantNew == Forgotten \/ Retakable

SetNew == record' = IF Retakable THEN RetakenRecord ELSE FreshRecord

\* checkAndSet when it does not answer 'new'.
SetNothing ==
    /\ ~GrantNew
    /\ record' = IF Exhausted THEN [record EXCEPT !.status = "failed",
                                                  !.lockExpiresAt = 0]
                 ELSE record

\* update() in markCompleted and markFailed: it rejects when the document is
\* missing, and compares nothing when it is there.
Complete(c) ==
    /\ record.status # "none"
    /\ record' = [record EXCEPT !.status = "completed", !.response = c,
                                !.lockExpiresAt = 0,
                                !.expiresAt = clock + CompletedTtl]

Fail ==
    record' = IF record.status = "none" THEN record
              ELSE [record EXCEPT !.status = "failed", !.lockExpiresAt = 0,
                                  !.expiresAt = clock + FailedTtl]

----------------------------------------------------------------------------
(* Calls *)

\* The first check of a call: its handler starts.
StartHandler(c) ==
    /\ pc[c] = "idle"
    /\ GrantNew /\ SetNew
    /\ Goto(c, "handling")
    /\ until' = [until EXCEPT ![c] = clock + LockTimeout]
    /\ started' = (IF Retakable THEN started ELSE {}) \cup {c}
    /\ UNCHANGED <<clock, sweep, evicted>>

\* 'duplicate': a replayed or an empty answer.  'processing': the middleware
\* answers 409, process throws or, with waitForProcessing, polls.
IsDuplicate(c) ==
    /\ pc[c] = "idle"
    /\ SetNothing
    /\ \/ Goto(c, "done")
       \/ InProgress /\ c \in Webhook /\ Goto(c, "waiting")
    /\ UNCHANGED <<clock, until, sweep, evicted, started>>

\* waitForCompletion: it returns when the record is closed or gone, and at
\* its own timeout.
StopWaiting(c) ==
    /\ pc[c] = "waiting"
    /\ Goto(c, "done")
    /\ UNCHANGED <<clock, record, until, sweep, evicted, started>>

\* The check itself failed: the middleware lets the request through.
CheckFails(c) ==
    /\ pc[c] = "idle"
    /\ Goto(c, IF c \in Webhook THEN "done" ELSE "bypassing")
    /\ UNCHANGED <<clock, record, until, sweep, evicted, started>>

BypassEnds(c) ==
    /\ pc[c] = "bypassing"
    /\ Goto(c, "done")
    /\ UNCHANGED <<clock, record, until, sweep, evicted, started>>

\* process: the handler returns or throws.  Middleware: the response is on
\* its way to the client and process is called to record it.
HandlerEnds(c) ==
    /\ pc[c] = "handling"
    /\ \E place \in IF c \in Webhook THEN {"storing", "failing"}
                    ELSE {"recording"} : Goto(c, place)
    /\ UNCHANGED <<clock, record, until, sweep, evicted, started>>

\* The check inside that second process: 'new' only when the call's own
\* record is no longer in progress; every other answer, and the 'processing'
\* that the call's own lock gives, ends in the log and nothing is written.
RecordResponse(c) ==
    /\ pc[c] = "recording"
    /\ \/ GrantNew /\ SetNew /\ Goto(c, "storing")
          /\ started' = IF Retakable THEN started ELSE {}
       \/ SetNothing /\ Goto(c, "unrecorded") /\ UNCHANGED started
    /\ UNCHANGED <<clock, until, sweep, evicted>>

StoreResponse(c) ==
    /\ pc[c] = "storing"
    /\ Complete(c)
    \* the update may be applied and its acknowledgement lost
    /\ \E place \in {"done", "failing"} : Goto(c, place)
    /\ UNCHANGED <<clock, until, sweep, evicted, started>>

StoreFails(c) ==
    /\ pc[c] = "storing"
    /\ Goto(c, "failing")
    /\ UNCHANGED <<clock, record, until, sweep, evicted, started>>

StoreFailure(c) ==
    /\ pc[c] = "failing"
    /\ Fail
    /\ Goto(c, "done")
    /\ UNCHANGED <<clock, until, sweep, evicted, started>>

\* The process dies, or markFailed itself is rejected: nothing is written.
Crash(c) ==
    /\ pc[c] \notin {"idle", "unrecorded", "done"}
    /\ Goto(c, "done")
    /\ UNCHANGED <<clock, record, until, sweep, evicted, started>>

----------------------------------------------------------------------------
(* cleanupExpired: a query, then a batch of deletes without preconditions *)

AtWork(c) == pc[c] \in {"handling", "recording", "storing", "failing"}

CleanupQuery ==
    /\ record.status # "none" /\ record.expiresAt < clock
    /\ sweep' = "delete"
    /\ UNCHANGED <<clock, record, pc, until, evicted, started>>

CleanupDelete ==
    /\ sweep = "delete"
    /\ sweep' = "query"
    /\ record' = NoRecord
    /\ evicted' = evicted \cup {c \in Call : AtWork(c)}
    /\ started' = {}
    /\ UNCHANGED <<clock, pc, until>>

Time == Tick /\ UNCHANGED <<record, pc, until, sweep, evicted, started>>

Next ==
    \/ Time \/ CleanupQuery \/ CleanupDelete
    \/ \E c \in Call :
        \/ StartHandler(c) \/ IsDuplicate(c) \/ StopWaiting(c)
        \/ CheckFails(c) \/ BypassEnds(c) \/ HandlerEnds(c)
        \/ RecordResponse(c) \/ StoreResponse(c) \/ StoreFails(c)
        \/ StoreFailure(c) \/ Crash(c)

Spec == Init /\ [][Next]_vars

----------------------------------------------------------------------------
(* Properties *)

\* The handler of c runs and the lock it was started under has not run out.
Guarded(c) == pc[c] = "handling" /\ until[c] >= clock

\* The lock of c ran out, or its record was deleted while it worked.
Overdue(c) == until[c] < clock \/ c \in evicted

\* Two handlers of one key run under unexpired locks only if the cleanup
\* deleted the record while one of them was at work: expiresAt is not moved
\* when a lock is taken over, and the batch delete compares nothing.
HandlersExclude ==
    \A c, d \in Call : Guarded(c) /\ Guarded(d) /\ c # d
        => c \in evicted \/ d \in evicted

\* No record starts more handlers than MaxAttempts, whatever crashes, is
\* taken over or runs late.
AttemptsBound == Cardinality(started) <= MaxAttempts

\* A completed record turns failed only when one of the two calls involved is
\* overdue, or when a call fails to learn of its own completion.
CompletionOverwritten ==
    [][(record.status = "completed" /\ record'.status = "failed")
        => \E c \in Call :
            /\ pc[c] = "failing"
            /\ \/ record.response = c
               \/ Overdue(c)
               \/ record.response \in Call /\ Overdue(record.response)]_vars

\* "Handler code - will only run once per idempotency key": when the handler
\* of an API call has answered and the middleware is through with "Store
\* response in idempotency record", no handler starts under the key.
OncePerKey ==
    [][\A c, d \in Call :
        pc[d] = "unrecorded" => ~(pc[c] = "idle" /\ pc'[c] = "handling")]_vars

=============================================================================
