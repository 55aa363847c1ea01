------------------------- MODULE RunLifecycleProofs -------------------------
(***************************************************************************)
(* For every number of instances, runs and requests: the types, what a     *)
(* version tells, and that the run documents follow the status machine     *)
(* however the writers interleave.                                         *)
(***************************************************************************)
EXTENDS RunLifecycle, TLAPS

USE RunAssumption, MaxTimeAssumption

\* A workflow at work has an instance.
HostKnown == \A q \in Request : request[q] = "working" => host[q] \in Instance

\* What updateRun reads is a document, and what it will write has its type.
LEMMA UpdateOfType ==
  ASSUME TypeOK, NEW i \in Instance, NEW why \in {"resume", "fail", "cancel", "report"},
         NEW r \in Id, NEW s \in Machine!Statuses
  PROVE  UpdateOf(i, why, r, s) \in Write
BY DEF TypeOK, UpdateOf, Write, Run

LEMMA AppliedType ==
  ASSUME TypeOK, NEW w \in Write
  PROVE  Applied(w) \in [Id -> Run]
<1>1. w.id \in Id /\ w.status \in Machine!Statuses /\ w.heartbeat \in Nat
      /\ w.owner \in Instance \cup {NoInstance}
  BY DEF Write
<1> DEFINE owner == IF w.owner = NoInstance THEN run[w.id].owner ELSE w.owner
           heartbeat == IF w.heartbeat = Never THEN run[w.id].heartbeat
                        ELSE w.heartbeat
<1>2. /\ run[w.id].version \in Versions
      /\ owner \in Instance \cup {NoInstance} /\ heartbeat \in Nat
  BY <1>1 DEF TypeOK, Run
<1>3. Applied(w) = [run EXCEPT ![w.id] =
                     [status |-> w.status, owner |-> owner,
                      heartbeat |-> heartbeat, version |-> run[w.id].version]]
  BY DEF Applied
<1> HIDE DEF owner, heartbeat
<1>4. [status |-> w.status, owner |-> owner, heartbeat |-> heartbeat,
       version |-> run[w.id].version] \in Run
  BY <1>1, <1>2 DEF Run
<1>5. QED
  BY <1>1, <1>3, <1>4 DEF TypeOK

LEMMA CreatedType ==
  ASSUME TypeOK, NEW r \in Id, NEW s \in {"pending", "running"},
         NEW i \in Instance \cup {NoInstance}, NEW beat \in Nat, Created(r, s, i, beat)
  PROVE  run' \in [Id -> Run]
<1>1. 1 \in Versions /\ s \in Machine!Statuses
  BY DEF Versions, Machine!Statuses
<1>2. [status |-> s, owner |-> i, heartbeat |-> beat, version |-> 1] \in Run
  BY <1>1 DEF Run
<1>3. QED
  BY <1>2 DEF Created, TypeOK

LEMMA SomeStatus == "none" \notin Machine!Statuses
                    /\ {"pending", "running", "completed", "failed", "cancelled"}
                         \subseteq Machine!Statuses
BY DEF Machine!Statuses

\* The values of the variables of RunLifecycle stay in their types, and a run
\* without a document has nothing else either.
LEMMA TypesInductive == TypeOK /\ HostKnown /\ [Next]_vars => TypeOK' /\ HostKnown'
<1> SUFFICES ASSUME TypeOK, HostKnown, [Next]_vars PROVE TypeOK' /\ HostKnown'
  OBVIOUS
<1>1. ASSUME NEW r \in Id, CreatePending(r) PROVE TypeOK' /\ HostKnown'
  <2>1. run' \in [Id -> Run]
    BY <1>1, CreatedType DEF CreatePending, Never
  <2>2. \A x \in Id : run'[x].status = "none" => run'[x] = NoRun
    BY <1>1 DEF CreatePending, Created, TypeOK
  <2>3. QED
    BY <1>1, <2>1, <2>2 DEF CreatePending, TypeOK, HostKnown
<1>2. ASSUME NEW q \in Request, NEW i \in Instance,
             StartRun(q, i) \/ StartUnrecorded(q, i)
      PROVE  TypeOK' /\ HostKnown'
  <2>1. /\ run' \in [Id -> Run]
        /\ \A x \in Id : run'[x].status = "none" => run'[x] = NoRun
    <3>1. CASE UNCHANGED <<run, correlates>>
      BY <3>1 DEF TypeOK
    <3>2. CASE Recorded(q, i)
      <4>1. PICK r \in Id : Created(r, "running", i, clock)
        BY <3>2 DEF Recorded, FreshIds, Id
      <4>2. clock \in Nat
        BY DEF TypeOK
      <4>3. run' \in [Id -> Run]
        BY <4>1, <4>2, CreatedType
      <4>4. QED
        BY <4>1, <4>3 DEF Created, TypeOK
    <3>3. QED
      BY <1>2, <3>1, <3>2 DEF StartRun, StartUnrecorded
  <2>2. q \in Id
    BY DEF Id
  <2>3. beating' \in [Instance -> SUBSET Id]
    BY <1>2, <2>2 DEF StartRun, StartUnrecorded, TypeOK
  <2>4. /\ request' = [request EXCEPT ![q] = "working"]
        /\ host' = [host EXCEPT ![q] = i]
        /\ UNCHANGED <<clock, mode, orphans, errored, writes, seen>>
    BY <1>2 DEF StartRun, StartUnrecorded
  <2>5. correlates' \in [Request -> SUBSET StoreId]
    BY <1>2 DEF StartRun, StartUnrecorded, Recorded, FreshIds, TypeOK
  <2>6. QED
    BY <2>1, <2>3, <2>4, <2>5 DEF TypeOK, HostKnown
<1>3. ASSUME NEW q \in Request, NEW s \in Machine!Statuses, WorkflowEnds(q, s)
      PROVE  TypeOK' /\ HostKnown'
  <2>1. host[q] \in Instance /\ q \in Id
    BY <1>3 DEF WorkflowEnds, HostKnown, Id
  <2>2. UpdateOf(host[q], "report", q, s) \in Write
    BY <2>1, UpdateOfType
  <2>3. writes' \subseteq Write
    BY <1>3, <2>2 DEF WorkflowEnds, TypeOK
  <2>4. beating' \in [Instance -> SUBSET Id]
    BY <1>3, <2>1 DEF WorkflowEnds, TypeOK
  <2>5. request' \in [Request -> {"new", "working", "done"}]
        /\ \A p \in Request : request'[p] = "working" => request[p] = "working"
    BY <1>3 DEF WorkflowEnds, TypeOK
  <2>6. QED
    BY <1>3, <2>3, <2>4, <2>5 DEF WorkflowEnds, TypeOK, HostKnown
<1>4. ASSUME NEW i \in Instance, NEW r \in Id, Heartbeat(i, r)
      PROVE  TypeOK' /\ HostKnown'
  <2>1. run[r] \in Run /\ clock \in Nat
    BY DEF TypeOK
  <2>2. [run[r] EXCEPT !.heartbeat = clock, !.owner = i] \in Run
    BY <2>1 DEF Run
  <2>3. run' = [run EXCEPT ![r] = [run[r] EXCEPT !.heartbeat = clock, !.owner = i]]
    BY <1>4 DEF Heartbeat
  <2>4. run' \in [Id -> Run]
    BY <2>2, <2>3 DEF TypeOK
  <2>5. \A x \in Id : run'[x].status = "none" => run'[x] = NoRun
    <3>1. run'[r].status # "none"
      BY <1>4, <2>1, <2>3 DEF Heartbeat, Beatable, Exists, Run, TypeOK
    <3>2. QED
      BY <2>3, <3>1 DEF TypeOK
  <2>6. QED
    BY <1>4, <2>4, <2>5 DEF Heartbeat, TypeOK, HostKnown
<1>5. ASSUME NEW i \in Instance, NEW r \in Id, CancelRead(i, r)
      PROVE  TypeOK' /\ HostKnown'
  <2>1. UpdateOf(i, "cancel", r, "cancelled") \in Write
    BY UpdateOfType, SomeStatus
  <2>2. QED
    BY <1>5, <2>1 DEF CancelRead, TypeOK, HostKnown
<1>6. ASSUME NEW i \in Instance, NEW r \in Id, RecoverRead(i, r)
      PROVE  TypeOK' /\ HostKnown'
  <2>1. UpdateOf(i, Decision(i), r, DecidedStatus(i)) \in Write
    BY UpdateOfType, SomeStatus DEF Decision, DecidedStatus
  <2>2. writes' \subseteq Write
    BY <1>6, <2>1 DEF RecoverRead, TypeOK
  <2>3. orphans' \in [Instance -> SUBSET Id] /\ errored' \in [Instance -> SUBSET Id]
    BY <1>6 DEF RecoverRead, TypeOK
  <2>4. QED
    BY <1>6, <2>2, <2>3 DEF RecoverRead, TypeOK, HostKnown
<1>7. ASSUME NEW w \in writes, FinishUpdate(w) \/ UpdateFails(w)
      PROVE  TypeOK' /\ HostKnown'
  <2>1. w \in Write /\ w.id \in Id /\ w.by \in Instance
        /\ w.status \in Machine!Statuses
    BY DEF TypeOK, Write
  <2>2. /\ run' \in [Id -> Run]
        /\ \A x \in Id : run'[x].status = "none" => run'[x] = NoRun
    <3>1. CASE run' = Applied(w)
      <4>1. run' \in [Id -> Run]
        BY <2>1, <3>1, AppliedType
      <4>2. run'[w.id].status # "none"
        BY <2>1, <3>1, SomeStatus DEF Applied, TypeOK
      <4>3. \A x \in Id : x # w.id => run'[x] = run[x]
        BY <3>1 DEF Applied, TypeOK
      <4>4. QED
        BY <4>1, <4>2, <4>3 DEF TypeOK
    <3>2. CASE UNCHANGED run
      BY <3>2 DEF TypeOK
    <3>3. QED
      BY <1>7, <3>1, <3>2 DEF FinishUpdate, UpdateFails
  <2>3. orphans' \in [Instance -> SUBSET Id]
    BY <1>7, <2>1 DEF FinishUpdate, UpdateFails, Processed, TypeOK
  <2>4. errored' \in [Instance -> SUBSET Id]
    BY <1>7, <2>1 DEF FinishUpdate, UpdateFails, Reported, TypeOK
  <2>5. beating' \in [Instance -> SUBSET Id]
    BY <1>7, <2>1 DEF FinishUpdate, UpdateFails, BeatAfter, TypeOK
  <2>6. seen' \in Snapshot
    BY <1>7 DEF FinishUpdate, UpdateFails, Snapshot, TypeOK
  <2>7. writes' \subseteq Write /\ UNCHANGED <<clock, mode, request, host, correlates>>
    BY <1>7 DEF FinishUpdate, UpdateFails, TypeOK
  <2>8. QED
    BY <2>2, <2>3, <2>4, <2>5, <2>6, <2>7 DEF TypeOK, HostKnown
<1>8. ASSUME NEW i \in Instance, Start(i) \/ RecoveryDone(i)
      PROVE  TypeOK' /\ HostKnown'
  <2>1. Orphans \subseteq Id
    BY DEF Orphans
  <2>2. orphans' \in [Instance -> SUBSET Id]
    BY <1>8, <2>1 DEF Start, RecoveryDone, TypeOK
  <2>3. mode' \in [Instance -> {"down", "recovering", "up"}]
    BY <1>8 DEF Start, RecoveryDone, TypeOK
  <2>4. UNCHANGED <<clock, run, errored, beating, request, host, writes, seen,
                    correlates>>
    BY <1>8 DEF Start, RecoveryDone
  <2>5. QED
    BY <2>2, <2>3, <2>4 DEF TypeOK, HostKnown
<1>9. ASSUME NEW i \in Instance, Crash(i) PROVE TypeOK' /\ HostKnown'
  <2>1. request' \in [Request -> {"new", "working", "done"}]
        /\ \A q \in Request : request'[q] = "working" => request[q] = "working"
    BY <1>9 DEF Crash, TypeOK
  <2>2. writes' \subseteq Write
    BY <1>9 DEF Crash, TypeOK
  <2>3. QED
    BY <1>9, <2>1, <2>2 DEF Crash, TypeOK, HostKnown
<1>10. ASSUME NEW r \in Id, NEW s \in Machine!Statuses, VersionedUpdate(r, s)
       PROVE  TypeOK' /\ HostKnown'
  <2>1. run[r] \in Run
    BY DEF TypeOK
  <2>2. run[r].version + 1 \in Versions
    BY <1>10, <2>1 DEF VersionedUpdate, Run, Versions
  <2>3. VersionedRun(r, s) \in Run /\ VersionedRun(r, s).status # "none"
    BY <2>1, <2>2, SomeStatus DEF VersionedRun, Run
  <2>4. run' = [run EXCEPT ![r] = VersionedRun(r, s)]
    BY <1>10 DEF VersionedUpdate
  <2>5. /\ run' \in [Id -> Run]
        /\ \A x \in Id : run'[x].status = "none" => run'[x] = NoRun
    BY <2>3, <2>4 DEF TypeOK
  <2>6. QED
    BY <1>10, <2>5 DEF VersionedUpdate, TypeOK, HostKnown
<1>11. CASE ReadVersion
  <2>1. run[Watched] \in Run
    BY DEF TypeOK, Id
  <2>2. seen' \in Snapshot
    BY <1>11, <2>1 DEF ReadVersion, Snapshot, Run
  <2>3. QED
    BY <1>11, <2>2 DEF ReadVersion, TypeOK, HostKnown
<1>12. CASE Time
  BY <1>12 DEF Time, Tick, TypeOK, HostKnown
<1>13. CASE UNCHANGED vars
  BY <1>13 DEF vars, TypeOK, HostKnown
<1>14. QED
  BY <1>1, <1>2, <1>3, <1>4, <1>5, <1>6, <1>7, <1>8, <1>9, <1>10, <1>11,
     <1>12, <1>13 DEF Next

LEMMA TypesInvariant == Spec => [](TypeOK /\ HostKnown)
<1>1. Init => TypeOK /\ HostKnown
  <2> SUFFICES ASSUME Init PROVE TypeOK /\ HostKnown
    OBVIOUS
  <2>1. 1 \in Versions
    BY DEF Versions
  <2>2. NoRun \in Run
    BY <2>1 DEF NoRun, Run, Never
  <2>3. seen \in Snapshot
    BY <2>1 DEF Init, Snapshot
  <2>4. QED
    BY <2>2, <2>3 DEF Init, TypeOK, HostKnown
<1>2. QED
  BY <1>1, TypesInductive, PTL DEF Spec

\* The types of RunLifecycle, for every number of instances, runs, requests.
THEOREM RunTypeCorrect == Spec => []TypeOK
BY TypesInvariant, PTL

\* The engine's own ids have no document: createRun made up another one.
OwnIdsUnknown == \A q \in Request : ~Exists(q)

\* A pending updateRun is about an existing run.
WritesKnown == \A w \in writes : Exists(w.id)

Inv == OwnIdsUnknown /\ WritesKnown

\* A document never disappears, and only a creation makes one.
LEMMA DocumentsStay ==
  ASSUME TypeOK, Inv, [Next]_vars, NEW r \in Id
  PROVE  /\ Exists(r) => Exists(r)'
         /\ r \in Request => ~Exists(r)'
<1>1. CASE UNCHANGED run
  BY <1>1 DEF Exists, Inv, OwnIdsUnknown
<1>2. ASSUME NEW x \in StoreId, NEW s \in {"pending", "running"}, NEW i, NEW beat,
             Created(x, s, i, beat)
      PROVE  /\ Exists(r) => Exists(r)'
             /\ r \in Request => ~Exists(r)'
  BY <1>2 DEF Created, Exists, Inv, OwnIdsUnknown, TypeOK, Id
<1>3. ASSUME NEW x \in Id, NEW d, Exists(x), d.status # "none",
             run' = [run EXCEPT ![x] = d]
      PROVE  /\ Exists(r) => Exists(r)'
             /\ r \in Request => ~Exists(r)'
  BY <1>3 DEF Exists, Inv, OwnIdsUnknown, TypeOK, Id
<1>4. ASSUME NEW x \in Id, CreatePending(x)
      PROVE  /\ Exists(r) => Exists(r)'
             /\ r \in Request => ~Exists(r)'
  BY <1>2, <1>4 DEF CreatePending
<1>5. ASSUME NEW q \in Request, NEW i \in Instance,
             StartRun(q, i) \/ StartUnrecorded(q, i)
      PROVE  /\ Exists(r) => Exists(r)'
             /\ r \in Request => ~Exists(r)'
  BY <1>1, <1>2, <1>5 DEF StartRun, StartUnrecorded, Recorded, FreshIds
<1>6. ASSUME NEW i \in Instance, NEW x \in Id, Heartbeat(i, x)
      PROVE  /\ Exists(r) => Exists(r)'
             /\ r \in Request => ~Exists(r)'
  <2>1. [run[x] EXCEPT !.heartbeat = clock, !.owner = i].status = run[x].status
    BY DEF TypeOK, Run
  <2>2. QED
    BY <1>3, <1>6, <2>1 DEF Heartbeat, Beatable, Exists
<1>7. ASSUME NEW w \in writes, FinishUpdate(w)
      PROVE  /\ Exists(r) => Exists(r)'
             /\ r \in Request => ~Exists(r)'
  <2>1. w.id \in Id /\ w.status # "none" /\ Exists(w.id)
    BY SomeStatus DEF TypeOK, Write, Inv, WritesKnown
  <2>2. QED
    BY <1>3, <1>7, <2>1 DEF FinishUpdate, Applied
<1>8. ASSUME NEW x \in Id, NEW s \in Machine!Statuses, VersionedUpdate(x, s)
      PROVE  /\ Exists(r) => Exists(r)'
             /\ r \in Request => ~Exists(r)'
  <2>1. VersionedRun(x, s).status # "none"
    BY SomeStatus DEF VersionedRun, TypeOK, Run
  <2>2. QED
    BY <1>3, <1>8, <2>1 DEF VersionedUpdate
<1>9. QED
  BY <1>1, <1>4, <1>5, <1>6, <1>7, <1>8
     DEF Next, WorkflowEnds, CancelRead, RecoverRead, UpdateFails, Start,
         RecoveryDone, Crash, ReadVersion, Time, vars

LEMMA InvInductive == TypeOK /\ HostKnown /\ Inv /\ [Next]_vars => Inv'
<1> SUFFICES ASSUME TypeOK, HostKnown, Inv, [Next]_vars PROVE Inv'
  OBVIOUS
<1>1. OwnIdsUnknown'
  BY DocumentsStay DEF OwnIdsUnknown, Id
<1>2. \A w \in writes : Exists(w.id)'
  BY DocumentsStay DEF Inv, WritesKnown, TypeOK, Write
<1>3. ASSUME writes' \subseteq writes PROVE WritesKnown'
  BY <1>2, <1>3 DEF WritesKnown
<1>4. ASSUME NEW i, NEW why, NEW r \in Id, NEW s, Exists(r),
             writes' = writes \cup {UpdateOf(i, why, r, s)}
      PROVE  WritesKnown'
  <2>1. Exists(r)' /\ UpdateOf(i, why, r, s).id = r
    BY <1>4, DocumentsStay DEF UpdateOf
  <2>2. QED
    BY <1>2, <1>4, <2>1 DEF WritesKnown
<1>5. ASSUME NEW q \in Request, NEW s \in Machine!Statuses, WorkflowEnds(q, s)
      PROVE  WritesKnown'
  <2>1. ~Updatable(q, s)
    BY DEF Updatable, Inv, OwnIdsUnknown
  <2>2. QED
    BY <1>3, <1>5, <2>1 DEF WorkflowEnds
<1>6. ASSUME NEW i \in Instance, NEW r \in Id, CancelRead(i, r)
      PROVE  WritesKnown'
  BY <1>4, <1>6 DEF CancelRead, InFlight
<1>7. ASSUME NEW i \in Instance, NEW r \in Id, RecoverRead(i, r)
      PROVE  WritesKnown'
  <2>1. CASE Updatable(r, DecidedStatus(i))
    BY <1>4, <1>7, <2>1 DEF RecoverRead, Updatable
  <2>2. CASE ~Updatable(r, DecidedStatus(i))
    BY <1>3, <1>7, <2>2 DEF RecoverRead
  <2>3. QED
    BY <2>1, <2>2
<1>8. ASSUME NEW w \in writes, FinishUpdate(w) \/ UpdateFails(w)
      PROVE  WritesKnown'
  BY <1>3, <1>8 DEF FinishUpdate, UpdateFails
<1>9. ASSUME NEW i \in Instance, Crash(i)
      PROVE  WritesKnown'
  BY <1>3, <1>9 DEF Crash
<1>10. ASSUME UNCHANGED writes
       PROVE  WritesKnown'
  BY <1>3, <1>10
<1>11. WritesKnown'
  BY <1>5, <1>6, <1>7, <1>8, <1>9, <1>10
     DEF Next, CreatePending, StartRun, StartUnrecorded, Heartbeat,
         VersionedUpdate, Start, RecoveryDone, ReadVersion, Time, vars
<1>12. QED
  BY <1>1, <1>11 DEF Inv

LEMMA InvInvariant == Spec => []Inv
<1>1. Init => Inv
  BY DEF Init, Inv, OwnIdsUnknown, WritesKnown, Exists, NoRun, Id
<1>2. QED
  BY <1>1, InvInductive, TypesInvariant, PTL DEF Spec

\* Every step either leaves a document alone or changes it in one of these
\* ways.
LEMMA DocumentChanges ==
  ASSUME TypeOK, Inv, [Next]_vars, NEW r \in Id, run'[r] # run[r]
  PROVE  \/ /\ ~Exists(r) /\ run'[r].version = 1
            /\ run'[r].status \in {"pending", "running"}
         \/ run'[r].status = run[r].status /\ run'[r].version = run[r].version
         \/ \E w \in writes : /\ FinishUpdate(w) /\ w.id = r
                              /\ run'[r].status = w.status
                              /\ run'[r].version = run[r].version
         \/ \E s \in Machine!Statuses :
               /\ VersionedUpdate(r, s)
               /\ run'[r].status = s /\ run'[r].version = run[r].version + 1
<1> DEFINE Goal ==
         \/ /\ ~Exists(r) /\ run'[r].version = 1
            /\ run'[r].status \in {"pending", "running"}
         \/ run'[r].status = run[r].status /\ run'[r].version = run[r].version
         \/ \E w \in writes : /\ FinishUpdate(w) /\ w.id = r
                              /\ run'[r].status = w.status
                              /\ run'[r].version = run[r].version
         \/ \E s \in Machine!Statuses :
               /\ VersionedUpdate(r, s)
               /\ run'[r].status = s /\ run'[r].version = run[r].version + 1
<1>1. ASSUME NEW x \in Id, NEW s \in {"pending", "running"}, NEW i, NEW beat,
             Created(x, s, i, beat)
      PROVE  Goal
  BY <1>1 DEF Created, TypeOK
<1>2. ASSUME NEW x \in Id, CreatePending(x) PROVE Goal
  BY <1>1, <1>2 DEF CreatePending
<1>3. ASSUME NEW q \in Request, NEW i \in Instance,
             StartRun(q, i) \/ StartUnrecorded(q, i)
      PROVE  Goal
  BY <1>1, <1>3 DEF StartRun, StartUnrecorded, Recorded, FreshIds, Id
<1>4. ASSUME NEW i \in Instance, NEW x \in Id, Heartbeat(i, x) PROVE Goal
  <2>1. run'[r] = [run[r] EXCEPT !.heartbeat = clock, !.owner = i]
    BY <1>4 DEF Heartbeat, TypeOK
  <2>2. run[r] \in Run
    BY DEF TypeOK
  <2>3. QED
    BY <2>1, <2>2 DEF Run
<1>5. ASSUME NEW w \in writes, FinishUpdate(w) PROVE Goal
  <2>1. w.id \in Id
    BY DEF TypeOK, Write
  <2>2. w.id = r
    BY <1>5, <2>1 DEF FinishUpdate, Applied, TypeOK
  <2>3. run'[r].status = w.status /\ run'[r].version = run[r].version
    BY <1>5, <2>1, <2>2 DEF FinishUpdate, Applied, TypeOK
  <2>4. QED
    BY <1>5, <2>2, <2>3
<1>6. ASSUME NEW x \in Id, NEW s \in Machine!Statuses, VersionedUpdate(x, s)
      PROVE  Goal
  <2>1. x = r /\ run'[r] = VersionedRun(r, s)
    BY <1>6 DEF VersionedUpdate, TypeOK
  <2>2. run[r] \in Run
    BY DEF TypeOK
  <2>3. run'[r].status = s /\ run'[r].version = run[r].version + 1
    BY <2>1, <2>2 DEF VersionedRun, Run
  <2>4. QED
    BY <1>6, <2>1, <2>3
<1>7. QED
  BY <1>2, <1>3, <1>4, <1>5, <1>6
     DEF Next, WorkflowEnds, CancelRead, RecoverRead, UpdateFails, Start,
         RecoveryDone, Crash, ReadVersion, Time, vars

\* The version a caller read is not ahead of the document's, and one that is
\* still current belongs to the status that was read or to a late updateRun.
SeenHolds ==
    seen.status # "none" =>
        /\ Exists(Watched)
        /\ seen.version <= run[Watched].version
        /\ \/ run[Watched].version # seen.version
           \/ run[Watched].status = seen.status
           \/ seen.touched = "yes"

\* A versioned update whose expected version is still current acts on the
\* status its caller read, unless an unversioned write came in between.
THEOREM VersionTellsInvariant == Spec => []VersionTells
<1>1. Init => SeenHolds
  BY DEF Init, SeenHolds
<1>2. TypeOK /\ Inv /\ SeenHolds /\ [Next]_vars => SeenHolds'
  <2> SUFFICES ASSUME TypeOK, Inv, SeenHolds, [Next]_vars PROVE SeenHolds'
    OBVIOUS
  <2>0. /\ Watched \in Id /\ run[Watched].version \in Nat /\ seen.version \in Nat
        /\ Exists(Watched) => Exists(Watched)'
    BY DocumentsStay DEF TypeOK, Run, Snapshot, Versions, Id
  <2>1. CASE ReadVersion
    BY <2>0, <2>1 DEF ReadVersion, SeenHolds, Exists
  <2>2. ASSUME NEW w \in writes, FinishUpdate(w) PROVE SeenHolds'
    <3>1. CASE w.id = Watched
      <4>1. seen' = [seen EXCEPT !.touched = "yes"] /\ seen \in Snapshot
        BY <2>2, <3>1 DEF FinishUpdate, TypeOK
      <4>2. /\ seen'.touched = "yes" /\ seen'.status = seen.status
            /\ seen'.version = seen.version
        BY <4>1 DEF Snapshot
      <4>3. run'[Watched].version = run[Watched].version
        BY <2>0, <2>2, <3>1 DEF FinishUpdate, Applied, TypeOK
      <4>4. QED
        BY <2>0, <4>2, <4>3 DEF SeenHolds
    <3>2. CASE w.id # Watched
      <4>1. seen' = seen /\ run'[Watched] = run[Watched]
        BY <2>0, <2>2, <3>2 DEF FinishUpdate, Applied, TypeOK
      <4>2. QED
        BY <2>0, <4>1 DEF SeenHolds
    <3>3. QED
      BY <3>1, <3>2
  <2>3. ASSUME UNCHANGED seen, \A w \in writes : ~FinishUpdate(w) PROVE SeenHolds'
    <3>1. CASE run'[Watched] = run[Watched]
      BY <2>0, <2>3, <3>1 DEF SeenHolds
    <3>2. CASE run'[Watched] # run[Watched]
      BY <2>0, <2>3, <3>2, DocumentChanges DEF SeenHolds
    <3>3. QED
      BY <3>1, <3>2
  <2>4. UNCHANGED seen \/ ReadVersion \/ \E w \in writes : FinishUpdate(w)
    BY DEF Next, CreatePending, StartRun, StartUnrecorded, WorkflowEnds, Heartbeat,
           CancelRead, RecoverRead, UpdateFails, VersionedUpdate, Start,
           RecoveryDone, Crash, Time, vars
  <2>5. QED
    BY <2>1, <2>2, <2>3, <2>4
<1>3. TypeOK /\ SeenHolds => VersionTells
  BY DEF SeenHolds, VersionTells
<1>4. QED
  BY <1>1, <1>2, <1>3, InvInvariant, TypesInvariant, PTL DEF Spec

\* A step writes one document at most.
LEMMA OneDocument ==
  ASSUME TypeOK, [Next]_vars
  PROVE  \E r \in Id : \A x \in Id \ {r} : run'[x] = run[x]
<1>1. ASSUME UNCHANGED run
      PROVE  \E r \in Id : \A x \in Id \ {r} : run'[x] = run[x]
  BY <1>1 DEF Id
<1>2. ASSUME NEW r \in Id, NEW d, run' = [run EXCEPT ![r] = d]
      PROVE  \E y \in Id : \A x \in Id \ {y} : run'[x] = run[x]
  BY <1>2 DEF TypeOK
<1>3. ASSUME NEW r \in Id, NEW s, NEW i, NEW beat, Created(r, s, i, beat)
      PROVE  \E y \in Id : \A x \in Id \ {y} : run'[x] = run[x]
  BY <1>2, <1>3 DEF Created
<1>4. ASSUME NEW w \in writes, FinishUpdate(w)
      PROVE  \E y \in Id : \A x \in Id \ {y} : run'[x] = run[x]
  <2>1. w.id \in Id
    BY DEF TypeOK, Write
  <2>2. QED
    BY <1>2, <1>4, <2>1 DEF FinishUpdate, Applied
<1>5. ASSUME NEW q \in Request, NEW i \in Instance,
             StartRun(q, i) \/ StartUnrecorded(q, i)
      PROVE  \E y \in Id : \A x \in Id \ {y} : run'[x] = run[x]
  BY <1>1, <1>3, <1>5 DEF StartRun, StartUnrecorded, Recorded, FreshIds, Id
<1>6. ASSUME NEW r \in Id, CreatePending(r)
      PROVE  \E y \in Id : \A x \in Id \ {y} : run'[x] = run[x]
  BY <1>3, <1>6 DEF CreatePending
<1>7. ASSUME NEW r \in Id, NEW i \in Instance, Heartbeat(i, r)
      PROVE  \E y \in Id : \A x \in Id \ {y} : run'[x] = run[x]
  BY <1>2, <1>7 DEF Heartbeat
<1>8. ASSUME NEW r \in Id, NEW s \in Machine!Statuses, VersionedUpdate(r, s)
      PROVE  \E y \in Id : \A x \in Id \ {y} : run'[x] = run[x]
  BY <1>2, <1>8 DEF VersionedUpdate
<1>9. QED
  BY <1>1, <1>4, <1>5, <1>6, <1>7, <1>8
     DEF Next, WorkflowEnds, CancelRead, RecoverRead, UpdateFails, Start,
         RecoveryDone, Crash, ReadVersion, Time, vars

\* The documents follow the status machine: every status that is written is
\* a legal successor of the one it replaces, or was one when its writer read.
THEOREM StatusMachineFollowed == Spec => FollowsStatusMachine
<1> DEFINE st == [r \in Id |-> run[r].status]
           validated == {<<w.id, w.status>> : w \in writes}
<1>1. Init => Machine!Init
  BY DEF Init, Machine!Init, NoRun
<1>2. TypeOK /\ Inv /\ [Next]_vars => [Machine!Next]_<<st, validated>>
  <2> SUFFICES ASSUME TypeOK, Inv, [Next]_vars
               PROVE  [Machine!Next]_<<st, validated>>
    OBVIOUS
  <2>1. Machine!Validations
    <3>1. ASSUME NEW i \in Instance, NEW why, NEW r \in Id, NEW s \in Machine!Statuses,
                 Updatable(r, s), writes' = writes \cup {UpdateOf(i, why, r, s)}
          PROVE  Machine!Validations
      <4>1. UpdateOf(i, why, r, s).id = r /\ UpdateOf(i, why, r, s).status = s
        BY DEF UpdateOf
      <4>2. st[r] = run[r].status
        OBVIOUS
      <4>3. s = st[r] \/ Machine!Allowed(st[r], s)
        BY <3>1, <4>2 DEF Updatable
      <4>4. validated' \subseteq validated \cup {<<r, s>>}
        BY <3>1, <4>1
      <4>5. QED
        BY <4>3, <4>4 DEF Machine!Validations
    <3>2. ASSUME writes' \subseteq writes PROVE Machine!Validations
      BY <3>2 DEF Machine!Validations
    <3>3. ASSUME NEW q \in Request, NEW s \in Machine!Statuses, WorkflowEnds(q, s)
          PROVE  Machine!Validations
      <4>1. ~Updatable(q, s)
        BY DEF Updatable, Inv, OwnIdsUnknown
      <4>2. QED
        BY <3>2, <3>3, <4>1 DEF WorkflowEnds
    <3>4. ASSUME NEW i \in Instance, NEW r \in Id, CancelRead(i, r)
          PROVE  Machine!Validations
      BY <3>1, <3>4, SomeStatus DEF CancelRead
    <3>5. ASSUME NEW i \in Instance, NEW r \in Id, RecoverRead(i, r)
          PROVE  Machine!Validations
      <4>1. DecidedStatus(i) \in Machine!Statuses
        BY SomeStatus DEF DecidedStatus
      <4>2. CASE Updatable(r, DecidedStatus(i))
        BY <3>1, <3>5, <4>1, <4>2 DEF RecoverRead
      <4>3. CASE ~Updatable(r, DecidedStatus(i))
        BY <3>2, <3>5, <4>3 DEF RecoverRead
      <4>4. QED
        BY <4>2, <4>3
    <3>6. CASE writes' \subseteq writes
      BY <3>2, <3>6
    <3>7. QED
      BY <3>3, <3>4, <3>5, <3>6
         DEF Next, CreatePending, StartRun, StartUnrecorded, Heartbeat, FinishUpdate,
             UpdateFails, VersionedUpdate, Start, RecoveryDone, Crash, ReadVersion,
             Time, vars
  <2>2. UNCHANGED st \/ Machine!Change
    <3>1. SUFFICES ASSUME ~UNCHANGED st PROVE Machine!Change
      OBVIOUS
    <3>2. PICK r \in Id : \A x \in Id \ {r} : run'[x] = run[x]
      BY OneDocument
    <3>3. run'[r].status # run[r].status
      BY <3>1, <3>2
    <3>4. /\ run'[r].status \in Machine!Statuses
          /\ \/ Machine!Create(r, run'[r].status)
             \/ Machine!Allowed(st[r], run'[r].status)
             \/ <<r, run'[r].status>> \in validated
      BY <3>3, DocumentChanges, SomeStatus
         DEF VersionedUpdate, Machine!Create, Exists, TypeOK, Write
    <3>5. st' = [st EXCEPT ![r] = run'[r].status]
      BY <3>2
    <3>6. QED
      BY <3>4, <3>5 DEF Machine!Change
  <2>3. QED
    BY <2>1, <2>2 DEF Machine!Next
<1>3. QED
  BY <1>1, <1>2, InvInvariant, TypesInvariant, PTL
     DEF Spec, FollowsStatusMachine, Machine!Spec

=============================================================================
