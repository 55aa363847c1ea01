---------------------------- MODULE RunLifecycle ----------------------------
(***************************************************************************)
(* The documents of the gwi_runs collection and everything that writes     *)
(* them: the webhook's and the API's createRun, the run engine with its    *)
(* heartbeats and its background workflow, cancelRun, the recovery that    *)
(* every engine and worker instance runs when it starts, and the           *)
(* transactional operations of FirestoreRunStore.  One tenant; of a run,   *)
(* the status, the owner, the last heartbeat and the version.              *)
(***************************************************************************)
EXTENDS Clock

CONSTANTS
    Instance,       \* engine and worker processes
    StoreId,        \* ids that generateFirestoreId may give
    Request,        \* run requests; a request brings an id of its own
    NoInstance,
    Resuming,       \* instances given a checkpoint store that can resume runs
    Watched,        \* the run that a caller of the versioned store looks at
    Stale,          \* staleThresholdMs
    MaxVersion      \* bound of the model: a version does not grow beyond it

ASSUME RunAssumption ==
    /\ StoreId \cap Request = {}
    /\ NoInstance \notin Instance
    /\ Resuming \subseteq Instance
    /\ Watched \in StoreId
    /\ Stale \in Nat
    /\ MaxVersion \in Nat \ {0}

Id == StoreId \cup Request

VARIABLES
    run,        \* run[r]: the document gwi_runs/r
    mode,       \* mode[i]: whether instance i is down, in its recovery or up
    orphans,    \* orphans[i]: listed by the recovery of i, not yet processed
    errored,    \* errored[i]: runs that recovery reports an error for
    beating,    \* beating[i]: activeRuns of i's HeartbeatService
    request,    \* request[q]: whether the request's workflow is at work
    host,       \* host[q]: the instance it runs on
    writes,     \* calls of updateRun that have read and validated
    seen,       \* observation only: status and version of Watched as a caller
                \* last read them, and whether updateRun wrote to it since
    correlates  \* correlates[q]: runs whose a2aCorrelationId is the request's

vars == <<clock, run, mode, orphans, errored, beating, request, host, writes,
          seen, correlates>>

\* The status machine that both stores validate with.
Machine == INSTANCE RunStatusMachine WITH
    status <- [r \in Id |-> run[r].status],
    validated <- {<<w.id, w.status>> : w \in writes}

Never == 0      \* no lastHeartbeatAt

NoRun == [status |-> "none", owner |-> NoInstance, heartbeat |-> Never,
          version |-> 1]

Versions == 1 .. MaxVersion

Run == [status: Machine!Statuses \cup {"none"}, owner: Instance \cup {NoInstance},
        heartbeat: Nat, version: Versions]

Write == [by: Instance, for: {"resume", "fail", "cancel", "report"}, id: Id,
          status: Machine!Statuses, owner: Instance \cup {NoInstance},
          heartbeat: Nat]

Snapshot == [status: Machine!Statuses \cup {"none"}, version: Versions,
             touched: {"no", "yes"}]

TypeOK ==
    /\ clock \in Nat
    /\ run \in [Id -> Run]
    /\ \A r \in Id : run[r].status = "none" => run[r] = NoRun
    /\ mode \in [Instance -> {"down", "recovering", "up"}]
    /\ orphans \in [Instance -> SUBSET Id]
    /\ errored \in [Instance -> SUBSET Id]
    /\ beating \in [Instance -> SUBSET Id]
    /\ request \in [Request -> {"new", "working", "done"}]
    /\ host \in [Request -> Instance \cup {NoInstance}]
    /\ writes \subseteq Write
    /\ seen \in Snapshot
    /\ correlates \in [Request -> SUBSET StoreId]

Init ==
    /\ clock = 1
    /\ run = [r \in Id |-> NoRun]
    /\ mode = [i \in Instance |-> "down"]
    /\ orphans = [i \in Instance |-> {}]
    /\ errored = [i \in Instance |-> {}]
    /\ beating = [i \in Instance |-> {}]
    /\ request = [q \in Request |-> "new"]
    /\ host = [q \in Request |-> NoInstance]
    /\ writes = {}
    /\ seen = [status |-> "none", version |-> 1, touched |-> "no"]
    /\ correlates = [q \in Request |-> {}]

Exists(r) == run[r].status # "none"
InFlight(r) == Exists(r) /\ run[r].status \notin Machine!Terminal

----------------------------------------------------------------------------
(* FirestoreTenantStore *)

\* Wrong variants, one plausible slip each, to show which property breaks.
UpsertsHeartbeat(r) == TRUE
Unvalidated(r, s) == Exists(r)
VersionKept(r, s) == [run[r] EXCEPT !.status = s]
ResumedUnbeaten(w) == beating

Created(r, s, i, beat) ==
    /\ ~Exists(r)
    /\ run' = [run EXCEPT ![r] = [status |-> s, owner |-> i, heartbeat |-> beat,
                                  version |-> 1]]

\* createRun makes up an id and ignores the one of the request.
FreshIds(q) == StoreId

\* The first half of updateRun: getRun and validateRunStatusTransition.
\* Writing the status that is there already is not validated.
Updatable(r, s) ==
    Exists(r) /\ (s = run[r].status \/ Machine!Allowed(run[r].status, s))

\* The whole document as it will be written back: owner and heartbeat are
\* the ones that were read unless the update sets them.
UpdateOf(i, why, r, s) ==
    [by |-> i, for |-> why, id |-> r, status |-> s,
     owner |-> IF why = "resume" THEN i ELSE run[r].owner,
     heartbeat |-> IF why = "resume" THEN clock ELSE run[r].heartbeat]

\* The second half, set with merge: nothing is compared, a field that was read
\* as missing is left alone, and the version is not among the fields.
Applied(w) == [run EXCEPT ![w.id] =
    [status    |-> w.status,
     owner     |-> IF w.owner = NoInstance THEN run[w.id].owner ELSE w.owner,
     heartbeat |-> IF w.heartbeat = Never THEN run[w.id].heartbeat
                   ELSE w.heartbeat,
     version   |-> run[w.id].version]]

\* update() rejects a missing document.
Beatable(r) == Exists(r)

\* listOrphanedRuns
Orphans ==
    {r \in Id : /\ InFlight(r)
                /\ run[r].heartbeat # Never
                /\ run[r].heartbeat + Stale < clock}

----------------------------------------------------------------------------
(* Creation and the engine *)

\* The webhook, and POST /v1/instances/:id/run.
CreatePending(r) ==
    /\ r \in StoreId
    /\ Created(r, "pending", NoInstance, Never)
    /\ UNCHANGED <<clock, mode, orphans, errored, beating, request, host,
                   writes, seen, correlates>>

\* createRun as startRun calls it: the request's id is kept in the document.
Recorded(q, i) ==
    \E r \in FreshIds(q) :
        /\ Created(r, "running", i, clock)
        /\ correlates' = [correlates EXCEPT ![q] = @ \cup {r}]

\* startRun: the run is stored, its heartbeat starts, its workflow starts.
StartRun(q, i) ==
    /\ request[q] = "new" /\ mode[i] = "up"
    /\ Recorded(q, i)
    /\ beating' = [beating EXCEPT ![i] = @ \cup {q}]
    /\ request' = [request EXCEPT ![q] = "working"]
    /\ host' = [host EXCEPT ![q] = i]
    /\ UNCHANGED <<clock, mode, orphans, errored, writes, seen>>

\* createRun throws, before or after it wrote the document: no heartbeat
\* starts, the workflow does.
StartUnrecorded(q, i) ==
    /\ request[q] = "new" /\ mode[i] = "up"
    /\ Recorded(q, i) \/ UNCHANGED <<run, correlates>>
    /\ request' = [request EXCEPT ![q] = "working"]
    /\ host' = [host EXCEPT ![q] = i]
    /\ UNCHANGED <<clock, mode, orphans, errored, beating, writes, seen>>

\* The background workflow ends: the heartbeat stops and updateRun is called
\* with the request's id.  A workflow that neither completed nor failed
\* reports 'running'.
WorkflowEnds(q, s) ==
    /\ request[q] = "working"
    /\ s \in {"completed", "failed", "running"}
    /\ request' = [request EXCEPT ![q] = "done"]
    /\ beating' = [beating EXCEPT ![host[q]] = @ \ {q}]
    /\ writes' = IF Updatable(q, s)
                 THEN writes \cup {UpdateOf(host[q], "report", q, s)} ELSE writes
    /\ UNCHANGED <<clock, run, mode, orphans, errored, host, seen, correlates>>

\* updateRunHeartbeat, from the interval timer or at once.
Heartbeat(i, r) ==
    /\ r \in beating[i]
    /\ Beatable(r)
    /\ run' = [run EXCEPT ![r] = [@ EXCEPT !.heartbeat = clock, !.owner = i]]
    /\ UNCHANGED <<clock, mode, orphans, errored, beating, request, host,
                   writes, seen, correlates>>

\* cancelRun: it looks at the status, then updateRun looks again.
CancelRead(i, r) ==
    /\ mode[i] = "up"
    /\ \A w \in writes : w.for # "cancel"   \* bound of the model: one at a time
    /\ InFlight(r) /\ Updatable(r, "cancelled")
    /\ writes' = writes \cup {UpdateOf(i, "cancel", r, "cancelled")}
    /\ UNCHANGED <<clock, run, mode, orphans, errored, beating, request, host,
                   seen, correlates>>

----------------------------------------------------------------------------
(* Recovery at the start of an instance *)

Start(i) ==
    /\ mode[i] = "down"
    /\ mode' = [mode EXCEPT ![i] = "recovering"]
    \* the query may fail, which is taken for an empty list
    /\ \E found \in {Orphans, {}} : orphans' = [orphans EXCEPT ![i] = found]
    /\ UNCHANGED <<clock, run, errored, beating, request, host, writes, seen,
                   correlates>>

Recovering(i, r) == \E w \in writes : w.by = i /\ w.id = r /\ w.for \in {"resume", "fail"}
Busy(i) == \E r \in Id : Recovering(i, r)

\* canResume.  Both callers in the repository give the recovery an empty
\* in-memory store, which resumes nothing.
Decision(i) == IF i \in Resuming THEN "resume" ELSE "fail"
DecidedStatus(i) == IF i \in Resuming THEN "running" ELSE "failed"

\* processOrphanedRun up to the write, or an error of updateRun.
RecoverRead(i, r) ==
    /\ mode[i] = "recovering" /\ r \in orphans[i] /\ ~Busy(i)
    /\ IF Updatable(r, DecidedStatus(i))
       THEN /\ writes' = writes \cup {UpdateOf(i, Decision(i), r, DecidedStatus(i))}
            /\ UNCHANGED <<orphans, errored>>
       ELSE /\ orphans' = [orphans EXCEPT ![i] = @ \ {r}]
            /\ errored' = [errored EXCEPT ![i] = @ \cup {r}]
            /\ UNCHANGED writes
    /\ UNCHANGED <<clock, run, mode, beating, request, host, seen, correlates>>

\* startHeartbeat after the write that resumes a run.
BeatAfter(w) ==
    IF w.for = "resume" THEN [beating EXCEPT ![w.by] = @ \cup {w.id}] ELSE beating

Reported(w) == [errored EXCEPT ![w.by] = @ \cup {w.id}]
Processed(w) ==
    IF w.for \in {"resume", "fail"}
    THEN [orphans EXCEPT ![w.by] = @ \ {w.id}] ELSE orphans

\* The write of any pending updateRun.  The repository's counters are updated
\* after it and may fail, which the recovery reports as an error.
FinishUpdate(w) ==
    /\ w \in writes
    /\ writes' = writes \ {w}
    /\ run' = Applied(w)
    /\ beating' = BeatAfter(w)
    /\ orphans' = Processed(w)
    /\ errored' \in IF w.for = "fail" THEN {errored, Reported(w)} ELSE {errored}
    /\ seen' = IF w.id = Watched THEN [seen EXCEPT !.touched = "yes"] ELSE seen
    /\ UNCHANGED <<clock, mode, request, host, correlates>>

\* A pending updateRun is rejected.
UpdateFails(w) ==
    /\ w \in writes
    /\ writes' = writes \ {w}
    /\ orphans' = Processed(w)
    /\ errored' = IF w.for \in {"resume", "fail"} THEN Reported(w) ELSE errored
    /\ UNCHANGED <<clock, run, mode, beating, request, host, seen, correlates>>

RecoveryDone(i) ==
    /\ mode[i] = "recovering" /\ orphans[i] = {}
    /\ mode' = [mode EXCEPT ![i] = "up"]
    /\ UNCHANGED <<clock, run, orphans, errored, beating, request, host,
                   writes, seen, correlates>>

\* The process ends; what it had not written yet is never written.
Crash(i) ==
    /\ mode[i] # "down"
    /\ mode' = [mode EXCEPT ![i] = "down"]
    /\ orphans' = [orphans EXCEPT ![i] = {}]
    /\ errored' = [errored EXCEPT ![i] = {}]
    /\ beating' = [beating EXCEPT ![i] = {}]
    /\ writes' = {w \in writes : w.by # i}
    /\ request' = [q \in Request |-> IF host[q] = i THEN "done" ELSE request[q]]
    /\ UNCHANGED <<clock, run, host, seen, correlates>>

----------------------------------------------------------------------------
(* FirestoreRunStore: one transaction each *)

VersionedRun(r, s) == [run[r] EXCEPT !.status = s, !.version = @ + 1]

\* updateRunStatus, completeRun, failRun and cancelRun.
VersionedUpdate(r, s) ==
    /\ Exists(r) /\ Machine!Allowed(run[r].status, s)
    /\ run[r].version < MaxVersion
    /\ run' = [run EXCEPT ![r] = VersionedRun(r, s)]
    /\ UNCHANGED <<clock, mode, orphans, errored, beating, request, host,
                   writes, seen, correlates>>

\* A caller reads the run and its version, to pass as expectedVersion later.
ReadVersion ==
    /\ Exists(Watched)
    /\ seen' = [status |-> run[Watched].status, version |-> run[Watched].version,
                touched |-> "no"]
    /\ UNCHANGED <<clock, run, mode, orphans, errored, beating, request, host,
                   writes, correlates>>

Time ==
    /\ Tick
    /\ UNCHANGED <<run, mode, orphans, errored, beating, request, host, writes,
                   seen, correlates>>

----------------------------------------------------------------------------

Next ==
    \/ Time \/ ReadVersion
    \/ \E r \in Id :
        \/ CreatePending(r)
        \/ \E s \in Machine!Statuses : VersionedUpdate(r, s)
        \/ \E i \in Instance :
            Heartbeat(i, r) \/ CancelRead(i, r) \/ RecoverRead(i, r)
    \/ \E q \in Request :
        \/ \E i \in Instance : StartRun(q, i) \/ StartUnrecorded(q, i)
        \/ \E s \in Machine!Statuses : WorkflowEnds(q, s)
    \/ \E w \in writes : FinishUpdate(w) \/ UpdateFails(w)
    \/ \E i \in Instance : Start(i) \/ RecoveryDone(i) \/ Crash(i)

Spec == Init /\ [][Next]_vars

\* The recovery is one async function: it goes on as long as its process
\* lives.  Nothing else is assumed to happen.
RecoveryStep(i) ==
    \/ \E r \in Id : RecoverRead(i, r)
    \/ \E w \in writes : w.by = i /\ w.for \in {"resume", "fail"} /\ FinishUpdate(w)

FairSpec == Spec /\ \A i \in Instance : WF_vars(RecoveryStep(i))

----------------------------------------------------------------------------
(* Properties *)

\* However the writers interleave, a status is followed only by one that the
\* status machine allows, or that a pending updateRun found allowed when it
\* read: a terminal run is written again only by such a late write.
FollowsStatusMachine == Machine!Spec

\* updateRunStatus with the version its caller read acts on the status the
\* caller read, unless updateRun, which moves no version, wrote in between.
VersionTells ==
    /\ seen.status # "none"
    /\ run[Watched].version = seen.version
    /\ run[Watched].status # seen.status
    => seen.touched = "yes"

Settled(r) ==
    run[r].status \in Machine!Terminal \/ \E i \in Instance : r \in beating[i]

\* A listed orphan ends in a terminal status or under some instance's
\* heartbeat, unless the recovering instance dies or reports an error.
RecoverySettles ==
    \A i \in Instance, r \in StoreId :
        r \in orphans[i] ~>
            Settled(r) \/ mode[i] = "down" \/ r \in errored[i]

\* "Update run status based on workflow result": when the workflow of a
\* request completes or fails, and the run stored for the request may take that
\* status, an update of the run is under way.
WorkflowResultReported ==
    [][\A q \in Request, s \in Machine!Terminal : WorkflowEnds(q, s) =>
        \A r \in correlates[q] : Updatable(r, s) =>
            \E w \in writes' : w.for = "report" /\ w.id = r]_vars

=============================================================================
