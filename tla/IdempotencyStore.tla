-------------------------- MODULE IdempotencyStore --------------------------
(***************************************************************************)
(* FirestoreIdempotencyStore (packages/core/src/reliability/               *)
(* firestore-idempotency.ts): one record per key.  The worker makes the    *)
(* key from the run (or tenant), id, type and payload of a job, so a key   *)
(* stands for a job and every delivery of the job has the same key.        *)
(***************************************************************************)
EXTENDS Clock

CONSTANTS
    Job,        \* jobs, which are also the idempotency keys
    RecordTtl   \* ttlMs of a record, 24 hours

ASSUME RecordTtlAssumption == RecordTtl \in Nat

VARIABLE record     \* record[k] is the document gwi_idempotency/k

NoRecord == [status |-> "absent", error |-> FALSE, expiresAt |-> 0]

\* error: whether the record has an error message that is not empty.
RecordDoc == [status: {"absent", "pending", "completed", "failed"},
              error: BOOLEAN,
              expiresAt: Nat]

RecordTypeOK == record \in [Job -> RecordDoc]

RecordInit == record = [k \in Job |-> NoRecord]

Present(k) == record[k].status # "absent"

RecordExpired(k) == Present(k) /\ record[k].expiresAt <= clock

\* Wrong variants of Skips and Create: a pending record is skipped as if
\* allowPending were set, and a live record is overwritten.
SkipsPending(k) == ~RecordExpired(k) /\ Present(k)
CreateOverwrites(k) ==
    record' = [record EXCEPT ![k] =
                  [status |-> "pending", error |-> FALSE,
                   expiresAt |-> clock + RecordTtl]]

\* What checkIdempotency makes the caller do: skip is true for a live record
\* that is completed or failed, and false for a pending one.
Skips(k) == ~RecordExpired(k) /\ record[k].status \in {"completed", "failed"}

\* The delete at the end of get on an expired record: unconditional.
DeleteRecord(k) == record' = [record EXCEPT ![k] = NoRecord]

\* create: writes a pending record when there is none or an expired one, and
\* otherwise leaves the record as it is and returns created = false.
Create(k) ==
    record' = [record EXCEPT ![k] =
        IF ~Present(k) \/ RecordExpired(k)
        THEN [status |-> "pending", error |-> FALSE,
              expiresAt |-> clock + RecordTtl]
        ELSE @]

\* complete and fail update any existing record, whatever its status and
\* writer; complete leaves an old error message where it is.
Resolve(k, status, error) ==
    record' = [record EXCEPT ![k] =
        IF Present(k)
        THEN [status |-> status, error |-> error, expiresAt |-> @.expiresAt]
        ELSE @]

Complete(k) == Resolve(k, "completed", record[k].error)

Fail(k, error) == Resolve(k, "failed", error)

=============================================================================
