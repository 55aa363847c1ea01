----------------------- MODULE WorkerProcessorProofs -----------------------
(***************************************************************************)
(* Proofs about WorkerProcessor, for any number of deliveries, jobs and    *)
(* runs, every time to live and every bound on faults.                     *)
(***************************************************************************)
EXTENDS WorkerProcessor, TLAPS

\* Whatever is at work belongs to a job.
JobsKnown ==
    \A d \in Holder :
        slot[d].pc # "idle" \/ slot[d].handler = "running" => slot[d].job \in Job

Types == TypeOK /\ JobsKnown

USE DEF broker

PcValues == {"idle", "check", "deleteExpired", "acquire", "create",
             "running", "complete", "fail", "failBlank", "release", "answer"}
HandlerValues == {"none", "running", "over"}
OutcomeValues == {"none", "completed", "failed", "skipped", "error"}

----------------------------------------------------------------------------
(* Slots *)

LEMMA SlotMade ==
  ASSUME NEW p \in PcValues, NEW j \in Job \cup {NoJob}, NEW h \in HandlerValues,
         NEW o \in OutcomeValues, NEW s \in Nat, NEW u \in Nat, NEW c \in Nat
  PROVE  [pc |-> p, job |-> j, handler |-> h, outcome |-> o, started |-> s,
          until |-> u, cachedUntil |-> c] \in Slot
BY DEF Slot, PcValues, HandlerValues, OutcomeValues

LEMMA SlotRead ==
  ASSUME NEW s \in Slot
  PROVE  /\ s.pc \in PcValues /\ s.job \in Job \cup {NoJob}
         /\ s.handler \in HandlerValues /\ s.outcome \in OutcomeValues
         /\ s.started \in Nat /\ s.until \in Nat /\ s.cachedUntil \in Nat
         /\ s = [pc |-> s.pc, job |-> s.job, handler |-> s.handler,
                 outcome |-> s.outcome, started |-> s.started,
                 until |-> s.until, cachedUntil |-> s.cachedUntil]
BY DEF Slot, PcValues, HandlerValues, OutcomeValues

\* What a step may do to the slot of one delivery: the new values of its
\* fields, all other slots as they were.
Sets(d, p, j, h, o, s, u, c) ==
    slot' = [slot EXCEPT ![d] =
        [pc |-> p, job |-> j, handler |-> h, outcome |-> o, started |-> s,
         until |-> u, cachedUntil |-> c]]

LEMMA SlotSet ==
  ASSUME slot \in [Holder -> Slot], NEW d \in Holder,
         NEW p \in PcValues, NEW j \in Job \cup {NoJob}, NEW h \in HandlerValues,
         NEW o \in OutcomeValues, NEW s \in Nat, NEW u \in Nat, NEW c \in Nat,
         Sets(d, p, j, h, o, s, u, c)
  PROVE  /\ slot' \in [Holder -> Slot]
         /\ \A e \in Holder : e # d => slot'[e] = slot[e]
         /\ slot'[d].pc = p /\ slot'[d].job = j /\ slot'[d].handler = h
         /\ slot'[d].outcome = o /\ slot'[d].started = s
         /\ slot'[d].until = u /\ slot'[d].cachedUntil = c
<1>1. [pc |-> p, job |-> j, handler |-> h, outcome |-> o, started |-> s,
       until |-> u, cachedUntil |-> c] \in Slot
  BY SlotMade
<1> QED
  BY <1>1 DEF Sets

\* How the updates of processJob read in these terms.
LEMMA GotoSets ==
  ASSUME slot \in [Holder -> Slot], NEW d \in Holder, NEW p,
         Goto(d, p)
  PROVE  Sets(d, p, slot[d].job, slot[d].handler, slot[d].outcome,
              slot[d].started, slot[d].until, slot[d].cachedUntil)
<1>1. slot[d] =
        [pc |-> slot[d].pc, job |-> slot[d].job, handler |-> slot[d].handler,
         outcome |-> slot[d].outcome,
         started |-> slot[d].started, until |-> slot[d].until, cachedUntil |-> slot[d].cachedUntil]
  BY SlotRead
<1> DEFINE s1 == [slot[d] EXCEPT !.pc = p]
<1>2. s1 =
        [pc |-> p, job |-> slot[d].job, handler |-> slot[d].handler,
         outcome |-> slot[d].outcome,
         started |-> slot[d].started, until |-> slot[d].until, cachedUntil |-> slot[d].cachedUntil]
  BY <1>1
<1>3. slot' = [slot EXCEPT ![d] = s1]
  BY DEF Goto
<1> HIDE DEF s1
<1> QED
  BY <1>2, <1>3 DEF Sets

LEMMA ReturnSets ==
  ASSUME slot \in [Holder -> Slot], NEW d \in Holder, NEW o,
         Return(d, o)
  PROVE  Sets(d, "answer", slot[d].job, slot[d].handler, o,
              slot[d].started, slot[d].until, slot[d].cachedUntil)
<1>1. slot[d] =
        [pc |-> slot[d].pc, job |-> slot[d].job, handler |-> slot[d].handler,
         outcome |-> slot[d].outcome,
         started |-> slot[d].started, until |-> slot[d].until, cachedUntil |-> slot[d].cachedUntil]
  BY SlotRead
<1> DEFINE s1 == [slot[d] EXCEPT !.pc = "answer"]
<1>2. s1 =
        [pc |-> "answer", job |-> slot[d].job, handler |-> slot[d].handler,
         outcome |-> slot[d].outcome,
         started |-> slot[d].started, until |-> slot[d].until, cachedUntil |-> slot[d].cachedUntil]
  BY <1>1
<1> HIDE DEF s1
<1> DEFINE s2 == [s1 EXCEPT !.outcome = o]
<1>3. s2 =
        [pc |-> "answer", job |-> slot[d].job, handler |-> slot[d].handler,
         outcome |-> o,
         started |-> slot[d].started, until |-> slot[d].until, cachedUntil |-> slot[d].cachedUntil]
  BY <1>2
<1>4. slot' = [slot EXCEPT ![d] = s2]
  BY DEF Return, s1
<1> HIDE DEF s2
<1> QED
  BY <1>3, <1>4 DEF Sets

LEMMA AcquireSets ==
  ASSUME slot \in [Holder -> Slot], NEW d \in Holder, NEW u,
         slot' = [slot EXCEPT ![d].pc = "create", ![d].until = u]
  PROVE  Sets(d, "create", slot[d].job, slot[d].handler, slot[d].outcome,
              slot[d].started, u, slot[d].cachedUntil)
<1>1. slot[d] =
        [pc |-> slot[d].pc, job |-> slot[d].job, handler |-> slot[d].handler,
         outcome |-> slot[d].outcome,
         started |-> slot[d].started, until |-> slot[d].until, cachedUntil |-> slot[d].cachedUntil]
  BY SlotRead
<1> DEFINE s1 == [slot[d] EXCEPT !.pc = "create"]
<1>2. s1 =
        [pc |-> "create", job |-> slot[d].job, handler |-> slot[d].handler,
         outcome |-> slot[d].outcome,
         started |-> slot[d].started, until |-> slot[d].until, cachedUntil |-> slot[d].cachedUntil]
  BY <1>1
<1> HIDE DEF s1
<1> DEFINE s2 == [s1 EXCEPT !.until = u]
<1>3. s2 =
        [pc |-> "create", job |-> slot[d].job, handler |-> slot[d].handler,
         outcome |-> slot[d].outcome,
         started |-> slot[d].started, until |-> u, cachedUntil |-> slot[d].cachedUntil]
  BY <1>2
<1>4. slot' = [slot EXCEPT ![d] = s2]
  BY DEF s1
<1> HIDE DEF s2
<1> QED
  BY <1>3, <1>4 DEF Sets

LEMMA StartSets ==
  ASSUME slot \in [Holder -> Slot], NEW d \in Holder,
         slot' = [slot EXCEPT ![d].pc = "running", ![d].handler = "running",
                                 ![d].started = clock]
  PROVE  Sets(d, "running", slot[d].job, "running", slot[d].outcome,
              clock, slot[d].until, slot[d].cachedUntil)
<1>1. slot[d] =
        [pc |-> slot[d].pc, job |-> slot[d].job, handler |-> slot[d].handler,
         outcome |-> slot[d].outcome,
         started |-> slot[d].started, until |-> slot[d].until, cachedUntil |-> slot[d].cachedUntil]
  BY SlotRead
<1> DEFINE s1 == [slot[d] EXCEPT !.pc = "running"]
<1>2. s1 =
        [pc |-> "running", job |-> slot[d].job, handler |-> slot[d].handler,
         outcome |-> slot[d].outcome,
         started |-> slot[d].started, until |-> slot[d].until, cachedUntil |-> slot[d].cachedUntil]
  BY <1>1
<1> HIDE DEF s1
<1> DEFINE s2 == [s1 EXCEPT !.handler = "running"]
<1>3. s2 =
        [pc |-> "running", job |-> slot[d].job, handler |-> "running",
         outcome |-> slot[d].outcome,
         started |-> slot[d].started, until |-> slot[d].until, cachedUntil |-> slot[d].cachedUntil]
  BY <1>2
<1> HIDE DEF s2
<1> DEFINE s3 == [s2 EXCEPT !.started = clock]
<1>4. s3 =
        [pc |-> "running", job |-> slot[d].job, handler |-> "running",
         outcome |-> slot[d].outcome,
         started |-> clock, until |-> slot[d].until, cachedUntil |-> slot[d].cachedUntil]
  BY <1>3
<1>5. slot' = [slot EXCEPT ![d] = s3]
  BY DEF s1, s2
<1> HIDE DEF s3
<1> QED
  BY <1>4, <1>5 DEF Sets

LEMMA ExtendSets ==
  ASSUME slot \in [Holder -> Slot], NEW d \in Holder, NEW u,
         slot' = [slot EXCEPT ![d].until = u]
  PROVE  Sets(d, slot[d].pc, slot[d].job, slot[d].handler, slot[d].outcome,
              slot[d].started, u, slot[d].cachedUntil)
<1>1. slot[d] =
        [pc |-> slot[d].pc, job |-> slot[d].job, handler |-> slot[d].handler,
         outcome |-> slot[d].outcome,
         started |-> slot[d].started, until |-> slot[d].until, cachedUntil |-> slot[d].cachedUntil]
  BY SlotRead
<1> DEFINE s1 == [slot[d] EXCEPT !.until = u]
<1>2. s1 =
        [pc |-> slot[d].pc, job |-> slot[d].job, handler |-> slot[d].handler,
         outcome |-> slot[d].outcome,
         started |-> slot[d].started, until |-> u, cachedUntil |-> slot[d].cachedUntil]
  BY <1>1
<1>3. slot' = [slot EXCEPT ![d] = s1]
  OBVIOUS
<1> HIDE DEF s1
<1> QED
  BY <1>2, <1>3 DEF Sets

LEMMA ZombieSets ==
  ASSUME slot \in [Holder -> Slot], NEW d \in Holder,
         slot' = [slot EXCEPT ![d] = [slot[d] EXCEPT !.handler = "over", !.until = 0]]
  PROVE  Sets(d, slot[d].pc, slot[d].job, "over", slot[d].outcome,
              slot[d].started, 0, slot[d].cachedUntil)
<1>1. slot[d] =
        [pc |-> slot[d].pc, job |-> slot[d].job, handler |-> slot[d].handler,
         outcome |-> slot[d].outcome,
         started |-> slot[d].started, until |-> slot[d].until, cachedUntil |-> slot[d].cachedUntil]
  BY SlotRead
<1> DEFINE s1 == [slot[d] EXCEPT !.handler = "over"]
<1>2. s1 =
        [pc |-> slot[d].pc, job |-> slot[d].job, handler |-> "over",
         outcome |-> slot[d].outcome,
         started |-> slot[d].started, until |-> slot[d].until, cachedUntil |-> slot[d].cachedUntil]
  BY <1>1
<1> HIDE DEF s1
<1> DEFINE s2 == [s1 EXCEPT !.until = 0]
<1>3. s2 =
        [pc |-> slot[d].pc, job |-> slot[d].job, handler |-> "over",
         outcome |-> slot[d].outcome,
         started |-> slot[d].started, until |-> 0, cachedUntil |-> slot[d].cachedUntil]
  BY <1>2
<1>4. slot' = [slot EXCEPT ![d] = s2]
  BY DEF s1
<1> HIDE DEF s2
<1> QED
  BY <1>3, <1>4 DEF Sets

LEMMA AnswerSets ==
  ASSUME slot \in [Holder -> Slot], NEW d \in Holder,
         slot' = [slot EXCEPT ![d] = [slot[d] EXCEPT !.pc = "idle", !.outcome = "none"]]
  PROVE  Sets(d, "idle", slot[d].job, slot[d].handler, "none",
              slot[d].started, slot[d].until, slot[d].cachedUntil)
<1>1. slot[d] =
        [pc |-> slot[d].pc, job |-> slot[d].job, handler |-> slot[d].handler,
         outcome |-> slot[d].outcome,
         started |-> slot[d].started, until |-> slot[d].until, cachedUntil |-> slot[d].cachedUntil]
  BY SlotRead
<1> DEFINE s1 == [slot[d] EXCEPT !.pc = "idle"]
<1>2. s1 =
        [pc |-> "idle", job |-> slot[d].job, handler |-> slot[d].handler,
         outcome |-> slot[d].outcome,
         started |-> slot[d].started, until |-> slot[d].until, cachedUntil |-> slot[d].cachedUntil]
  BY <1>1
<1> HIDE DEF s1
<1> DEFINE s2 == [s1 EXCEPT !.outcome = "none"]
<1>3. s2 =
        [pc |-> "idle", job |-> slot[d].job, handler |-> slot[d].handler,
         outcome |-> "none",
         started |-> slot[d].started, until |-> slot[d].until, cachedUntil |-> slot[d].cachedUntil]
  BY <1>2
<1>4. slot' = [slot EXCEPT ![d] = s2]
  BY DEF s1
<1> HIDE DEF s2
<1> QED
  BY <1>3, <1>4 DEF Sets

LEMMA FinishSets ==
  ASSUME NEW d, NEW p, NEW h, NEW o, Finish(d, p, h, o)
  PROVE  Sets(d, p, slot[d].job, h, o, 0, 0, 0)
<1> DEFINE s1 == [Idle EXCEPT !.pc = p]
<1>1. s1 =
        [pc |-> p, job |-> NoJob, handler |-> "none",
         outcome |-> "none",
         started |-> 0, until |-> 0, cachedUntil |-> 0]
  BY DEF Idle
<1> HIDE DEF s1
<1> DEFINE s2 == [s1 EXCEPT !.job = slot[d].job]
<1>2. s2 =
        [pc |-> p, job |-> slot[d].job, handler |-> "none",
         outcome |-> "none",
         started |-> 0, until |-> 0, cachedUntil |-> 0]
  BY <1>1
<1> HIDE DEF s2
<1> DEFINE s3 == [s2 EXCEPT !.handler = h]
<1>3. s3 =
        [pc |-> p, job |-> slot[d].job, handler |-> h,
         outcome |-> "none",
         started |-> 0, until |-> 0, cachedUntil |-> 0]
  BY <1>2
<1> HIDE DEF s3
<1> DEFINE s4 == [s3 EXCEPT !.outcome = o]
<1>4. s4 =
        [pc |-> p, job |-> slot[d].job, handler |-> h,
         outcome |-> o,
         started |-> 0, until |-> 0, cachedUntil |-> 0]
  BY <1>3
<1>5. slot' = [slot EXCEPT ![d] = s4]
  BY DEF Finish, JobAt, s1, s2, s3
<1> HIDE DEF s4
<1> QED
  BY <1>4, <1>5 DEF Sets

LEMMA DeliverSets ==
  ASSUME NEW d, NEW p, NEW j, NEW o, NEW c,
         slot' = [slot EXCEPT ![d] = [Idle EXCEPT !.pc = p, !.job = j,
                                      !.outcome = o, !.cachedUntil = c]]
  PROVE  Sets(d, p, j, "none", o, 0, 0, c)
<1> DEFINE s1 == [Idle EXCEPT !.pc = p]
<1>1. s1 =
        [pc |-> p, job |-> NoJob, handler |-> "none",
         outcome |-> "none",
         started |-> 0, until |-> 0, cachedUntil |-> 0]
  BY DEF Idle
<1> HIDE DEF s1
<1> DEFINE s2 == [s1 EXCEPT !.job = j]
<1>2. s2 =
        [pc |-> p, job |-> j, handler |-> "none",
         outcome |-> "none",
         started |-> 0, until |-> 0, cachedUntil |-> 0]
  BY <1>1
<1> HIDE DEF s2
<1> DEFINE s3 == [s2 EXCEPT !.outcome = o]
<1>3. s3 =
        [pc |-> p, job |-> j, handler |-> "none",
         outcome |-> o,
         started |-> 0, until |-> 0, cachedUntil |-> 0]
  BY <1>2
<1> HIDE DEF s3
<1> DEFINE s4 == [s3 EXCEPT !.cachedUntil = c]
<1>4. s4 =
        [pc |-> p, job |-> j, handler |-> "none",
         outcome |-> o,
         started |-> 0, until |-> 0, cachedUntil |-> c]
  BY <1>3
<1>5. slot' = [slot EXCEPT ![d] = s4]
  BY DEF s1, s2, s3
<1> HIDE DEF s4
<1> QED
  BY <1>4, <1>5 DEF Sets

LEMMA IdleSets ==
  ASSUME NEW d, slot' = [slot EXCEPT ![d] = Idle]
  PROVE  Sets(d, "idle", NoJob, "none", "none", 0, 0, 0)
BY DEF Sets, Idle

----------------------------------------------------------------------------
(* What each step makes of the slot of its delivery *)

Becomes(d, p, j, h, o, s, u, c) ==
    /\ slot' \in [Holder -> Slot]
    /\ \A e \in Holder : e # d => slot'[e] = slot[e]
    /\ slot'[d].pc = p /\ slot'[d].job = j /\ slot'[d].handler = h
    /\ slot'[d].outcome = o /\ slot'[d].started = s
    /\ slot'[d].until = u /\ slot'[d].cachedUntil = c

LEMMA SetsBecomes ==
  ASSUME TypeOK, NEW d \in Holder,
         NEW p \in PcValues, NEW j \in Job \cup {NoJob}, NEW h \in HandlerValues,
         NEW o \in OutcomeValues, NEW s \in Nat, NEW u \in Nat, NEW c \in Nat,
         Sets(d, p, j, h, o, s, u, c)
  PROVE  Becomes(d, p, j, h, o, s, u, c)
BY SlotSet DEF Becomes, TypeOK

\* The step of d moves it to p and leaves the rest of its slot alone.
Moves(d, p) == Becomes(d, p, slot[d].job, slot[d].handler, slot[d].outcome,
                       slot[d].started, slot[d].until, slot[d].cachedUntil)

Returns(d, o) == Becomes(d, "answer", slot[d].job, slot[d].handler, o,
                         slot[d].started, slot[d].until, slot[d].cachedUntil)

Finishes(d, p, h, o) == Becomes(d, p, slot[d].job, h, o, 0, 0, 0)

Empties(d) == Becomes(d, "idle", NoJob, "none", "none", 0, 0, 0)

LEMMA GotoMoves ==
  ASSUME TypeOK, NEW d \in Holder, NEW p \in PcValues, Goto(d, p)
  PROVE  Moves(d, p)
<1>1. slot[d] \in Slot
  BY DEF TypeOK
<1>2. Sets(d, p, slot[d].job, slot[d].handler, slot[d].outcome,
           slot[d].started, slot[d].until, slot[d].cachedUntil)
  BY GotoSets DEF TypeOK
<1> QED
  BY <1>1, <1>2, SlotRead, SetsBecomes DEF Moves

LEMMA ReturnReturns ==
  ASSUME TypeOK, NEW d \in Holder, NEW o \in OutcomeValues, Return(d, o)
  PROVE  Returns(d, o)
<1>1. slot[d] \in Slot /\ "answer" \in PcValues
  BY DEF TypeOK, PcValues
<1>2. Sets(d, "answer", slot[d].job, slot[d].handler, o,
           slot[d].started, slot[d].until, slot[d].cachedUntil)
  BY ReturnSets DEF TypeOK
<1> QED
  BY <1>1, <1>2, SlotRead, SetsBecomes DEF Returns

LEMMA FinishFinishes ==
  ASSUME TypeOK, NEW d \in Holder, NEW p \in PcValues, NEW h \in HandlerValues,
         NEW o \in OutcomeValues, Finish(d, p, h, o)
  PROVE  Finishes(d, p, h, o)
<1>1. slot[d] \in Slot /\ 0 \in Nat
  BY DEF TypeOK
<1>2. Sets(d, p, slot[d].job, h, o, 0, 0, 0)
  BY FinishSets
<1> QED
  BY <1>1, <1>2, SlotRead, SetsBecomes DEF Finishes

LEMMA DeliverBecomes ==
  ASSUME TypeOK, NEW d \in Holder, NEW j \in Job, Deliver(d, j)
  PROVE  \E p \in {"answer", "check"}, o \in {"none", "skipped", "failed"}, c \in Nat :
            /\ Becomes(d, p, j, "none", o, 0, 0, c)
            /\ c = IF Skips(j) THEN record[j].expiresAt ELSE 0
<1> DEFINE p == IF Refused(j) THEN "answer" ELSE "check"
           o == IF ~Refused(j) THEN "none"
                ELSE IF clock > Deadline[j] THEN "skipped" ELSE "failed"
           c == IF Skips(j) THEN record[j].expiresAt ELSE 0
<1>1. p \in {"answer", "check"} /\ o \in {"none", "skipped", "failed"}
  OBVIOUS
<1>2. c \in Nat
  BY DEF TypeOK, RecordTypeOK, RecordDoc
<1>3. slot' = [slot EXCEPT ![d] = [Idle EXCEPT !.pc = p, !.job = j, !.outcome = o,
                                               !.cachedUntil = c]]
  BY DEF Deliver
<1>4. c = IF Skips(j) THEN record[j].expiresAt ELSE 0
  OBVIOUS
<1> HIDE DEF p, o, c
<1>5. Sets(d, p, j, "none", o, 0, 0, c)
  BY <1>3, DeliverSets
<1>6. p \in PcValues /\ o \in OutcomeValues /\ "none" \in HandlerValues
  BY <1>1 DEF PcValues, OutcomeValues, HandlerValues
<1>7. Becomes(d, p, j, "none", o, 0, 0, c)
  BY <1>2, <1>5, <1>6, SetsBecomes
<1> QED
  BY <1>1, <1>2, <1>4, <1>7

\* A live resolved record ends the delivery; otherwise it goes on.
LEMMA CheckBecomes ==
  ASSUME TypeOK, NEW d \in Holder, Check(d), slot[d].job \in Job
  PROVE  \/ /\ Skips(slot[d].job)
            /\ Returns(d, CachedStatus(slot[d].job))
         \/ /\ ~Skips(slot[d].job)
            /\ \E p \in {"deleteExpired", "acquire", "create"} :
                  Moves(d, p) /\ (p = "create" => RunAt(d) = NoRun)
<1>1. CASE Skips(JobAt(d))
  <2>1. CachedStatus(JobAt(d)) \in OutcomeValues
    BY DEF CachedStatus, OutcomeValues
  <2>2. Return(d, CachedStatus(JobAt(d)))
    BY <1>1 DEF Check
  <2>3. QED
    BY <1>1, <2>1, <2>2, ReturnReturns DEF JobAt
<1>2. CASE ~Skips(JobAt(d))
  <2>1. PICK p \in {"deleteExpired", "acquire", "create"} :
           Goto(d, p) /\ (p = "create" => RunAt(d) = NoRun)
    BY <1>2 DEF Check, AfterCheck
  <2>2. Moves(d, p)
    BY <2>1, GotoMoves DEF PcValues
  <2>3. QED
    BY <1>2, <2>1, <2>2 DEF JobAt
<1> QED
  BY <1>1, <1>2

LEMMA DeleteBecomes ==
  ASSUME TypeOK, NEW d \in Holder, DeleteExpired(d)
  PROVE  \E p \in {"acquire", "create"} :
            Moves(d, p) /\ (p = "create" => RunAt(d) = NoRun)
<1>1. PICK p \in {"acquire", "create"} :
         Goto(d, p) /\ (p = "create" => RunAt(d) = NoRun)
  BY DEF DeleteExpired, AfterCheck
<1> QED
  BY <1>1, GotoMoves DEF PcValues

LEMMA AcquireBecomes ==
  ASSUME TypeOK, NEW d \in Holder, AcquireLock(d)
  PROVE  Becomes(d, "create", slot[d].job, slot[d].handler, slot[d].outcome,
                 slot[d].started, clock + LockTtl, slot[d].cachedUntil)
<1>1. slot[d] \in Slot /\ clock + LockTtl \in Nat /\ "create" \in PcValues
  BY ProcessorAssumption DEF TypeOK, PcValues
<1> DEFINE u == clock + LockTtl
<1>2. slot' = [slot EXCEPT ![d].pc = "create", ![d].until = u]
  BY DEF AcquireLock
<1> HIDE DEF u
<1>3. Sets(d, "create", slot[d].job, slot[d].handler, slot[d].outcome,
           slot[d].started, u, slot[d].cachedUntil)
  BY <1>2, AcquireSets DEF TypeOK
<1>4. u \in Nat
  BY <1>1 DEF u
<1>5. Becomes(d, "create", slot[d].job, slot[d].handler, slot[d].outcome,
              slot[d].started, u, slot[d].cachedUntil)
  BY <1>1, <1>3, <1>4, SlotRead, SetsBecomes
<1> QED
  BY <1>5 DEF u

LEMMA CreateBecomes ==
  ASSUME TypeOK, NEW d \in Holder, CreateRecord(d)
  PROVE  Becomes(d, "running", slot[d].job, "running", slot[d].outcome,
                 clock, slot[d].until, slot[d].cachedUntil)
<1>1. slot[d] \in Slot /\ clock \in Nat /\ "running" \in PcValues
      /\ "running" \in HandlerValues
  BY DEF TypeOK, PcValues, HandlerValues
<1>2. Sets(d, "running", slot[d].job, "running", slot[d].outcome,
           clock, slot[d].until, slot[d].cachedUntil)
  BY StartSets DEF TypeOK, CreateRecord
<1> QED
  BY <1>1, <1>2, SlotRead, SetsBecomes

\* The handler returned, threw or was given up: the outcome is recorded next.
LEMMA HandlerBecomes ==
  ASSUME TypeOK, NEW d \in Holder, HandlerEnds(d) \/ Timeout(d)
  PROVE  \/ \E status \in {"completed", "failed"} :
              /\ HandlerReturns(d, status)
              /\ Finishes(d, "complete", "over", status)
         \/ /\ ended' = [ended EXCEPT ![slot[d].job] = @ \cup {"thrown"}]
            /\ \E h \in {"running", "over"} : Finishes(d, "fail", h, "failed")
         \/ /\ ended' = [ended EXCEPT ![slot[d].job] = @ \cup {"blank"}]
            /\ Finishes(d, "failBlank", "over", "failed")
<1>1. ASSUME NEW status \in {"completed", "failed"}, HandlerReturns(d, status)
      PROVE  Finishes(d, "complete", "over", status)
  BY <1>1, FinishFinishes DEF HandlerReturns, PcValues, HandlerValues, OutcomeValues
<1>2. ASSUME HandlerThrows(d, TRUE) PROVE Finishes(d, "fail", "over", "failed")
  BY <1>2, FinishFinishes DEF HandlerThrows, PcValues, HandlerValues, OutcomeValues
<1>3. ASSUME HandlerThrows(d, FALSE)
      PROVE  Finishes(d, "failBlank", "over", "failed")
  BY <1>3, FinishFinishes DEF HandlerThrows, PcValues, HandlerValues, OutcomeValues
<1>4. ASSUME Timeout(d) PROVE Finishes(d, "fail", "running", "failed")
  BY <1>4, FinishFinishes DEF Timeout, PcValues, HandlerValues, OutcomeValues
<1> QED
  BY <1>1, <1>2, <1>4, <1>3 DEF HandlerEnds, HandlerThrows, Timeout, JobAt

LEMMA ZombieBecomes ==
  ASSUME TypeOK, NEW d \in Holder, ZombieEnds(d)
  PROVE  \/ Empties(d)
         \/ Becomes(d, slot[d].pc, slot[d].job, "over", slot[d].outcome,
                    slot[d].started, 0, slot[d].cachedUntil)
<1>1. slot[d] \in Slot /\ "over" \in HandlerValues /\ 0 \in Nat
      /\ "idle" \in PcValues /\ "none" \in HandlerValues /\ "none" \in OutcomeValues
  BY DEF TypeOK, HandlerValues, PcValues, OutcomeValues
<1>2. CASE At(d, "idle")
  <2>1. slot' = [slot EXCEPT ![d] = Idle]
    BY <1>2 DEF ZombieEnds
  <2>2. Sets(d, "idle", NoJob, "none", "none", 0, 0, 0)
    BY <2>1, IdleSets
  <2>3. QED
    BY <1>1, <2>2, SetsBecomes DEF Empties
<1>3. CASE ~At(d, "idle")
  <2>1. slot' = [slot EXCEPT ![d] = [slot[d] EXCEPT !.handler = "over", !.until = 0]]
    BY <1>3 DEF ZombieEnds
  <2>2. Sets(d, slot[d].pc, slot[d].job, "over", slot[d].outcome,
             slot[d].started, 0, slot[d].cachedUntil)
    BY <2>1, ZombieSets DEF TypeOK
  <2>3. QED
    BY <1>1, <2>2, SlotRead, SetsBecomes
<1> QED
  BY <1>2, <1>3

LEMMA ExtendBecomes ==
  ASSUME TypeOK, NEW d \in Holder, ExtendLock(d)
  PROVE  \E u \in Nat :
            /\ Becomes(d, slot[d].pc, slot[d].job, slot[d].handler,
                       slot[d].outcome, slot[d].started, u, slot[d].cachedUntil)
            /\ u = IF lock[RunAt(d)].holder = d THEN clock + ExtendTtl
                   ELSE slot[d].until
<1> DEFINE u == IF lock[RunAt(d)].holder = d THEN clock + ExtendTtl
                ELSE slot[d].until
<1>1. slot[d] \in Slot /\ slot[d].until \in Nat
  BY SlotRead DEF TypeOK
<1>2. u \in Nat
  BY <1>1, ProcessorAssumption DEF TypeOK
<1>3. slot' = [slot EXCEPT ![d].until = u]
  BY DEF ExtendLock
<1>4. u = IF lock[RunAt(d)].holder = d THEN clock + ExtendTtl ELSE slot[d].until
  OBVIOUS
<1> HIDE DEF u
<1>5. Sets(d, slot[d].pc, slot[d].job, slot[d].handler, slot[d].outcome,
           slot[d].started, u, slot[d].cachedUntil)
  BY <1>3, ExtendSets DEF TypeOK
<1>6. Becomes(d, slot[d].pc, slot[d].job, slot[d].handler, slot[d].outcome,
              slot[d].started, u, slot[d].cachedUntil)
  BY <1>1, <1>2, <1>5, SlotRead, SetsBecomes
<1> QED
  BY <1>2, <1>4, <1>6

LEMMA RecordBecomes ==
  ASSUME TypeOK, NEW d \in Holder, RecordResult(d) \/ RecordLost(d)
  PROVE  \E p \in {"answer", "release"} : Moves(d, p)
<1>1. PICK p \in {"answer", "release"} : Goto(d, p)
  BY DEF RecordResult, RecordLost, AfterRecord
<1> QED
  BY <1>1, GotoMoves DEF PcValues

LEMMA ReleaseBecomes ==
  ASSUME TypeOK, NEW d \in Holder, ReleaseLock(d) \/ ReleaseLost(d)
  PROVE  Moves(d, "answer")
BY GotoMoves DEF ReleaseLock, ReleaseLost, PcValues

LEMMA AnswerBecomes ==
  ASSUME TypeOK, NEW d \in Holder, Answer(d)
  PROVE  \/ Empties(d)
         \/ /\ slot[d].handler = "running"
            /\ Becomes(d, "idle", slot[d].job, slot[d].handler, "none",
                       slot[d].started, slot[d].until, slot[d].cachedUntil)
<1>1. slot[d] \in Slot /\ 0 \in Nat /\ "none" \in OutcomeValues
      /\ "idle" \in PcValues /\ "none" \in HandlerValues
  BY DEF TypeOK, HandlerValues, PcValues, OutcomeValues
<1>2. CASE HandlerActive(d)
  <2>1. slot' = [slot EXCEPT ![d] = [slot[d] EXCEPT !.pc = "idle", !.outcome = "none"]]
    BY <1>2 DEF Answer
  <2>2. Sets(d, "idle", slot[d].job, slot[d].handler, "none",
             slot[d].started, slot[d].until, slot[d].cachedUntil)
    BY <2>1, AnswerSets DEF TypeOK
  <2>3. QED
    BY <1>1, <1>2, <2>2, SlotRead, SetsBecomes DEF HandlerActive
<1>3. CASE ~HandlerActive(d)
  <2>1. slot' = [slot EXCEPT ![d] = Idle]
    BY <1>3 DEF Answer
  <2>2. Sets(d, "idle", NoJob, "none", "none", 0, 0, 0)
    BY <2>1, IdleSets
  <2>3. QED
    BY <1>1, <2>2, SetsBecomes DEF Empties
<1> QED
  BY <1>2, <1>3

LEMMA CrashBecomes ==
  ASSUME TypeOK, NEW d \in Holder, Crash(d)
  PROVE  Empties(d)
<1>1. 0 \in Nat /\ "none" \in OutcomeValues /\ "idle" \in PcValues
      /\ "none" \in HandlerValues
  BY DEF HandlerValues, PcValues, OutcomeValues
<1>2. Sets(d, "idle", NoJob, "none", "none", 0, 0, 0)
  BY IdleSets DEF Crash
<1> QED
  BY <1>1, <1>2, SetsBecomes DEF Empties

----------------------------------------------------------------------------
(* Types *)

LEMMA LockTyped ==
  ASSUME TypeOK, NEW r, NEW d \in Holder, NEW ttl \in Nat,
         Acquire(r, d, clock, ttl) \/ Release(r, d) \/ Extend(r, d, clock, ttl)
  PROVE  LockTypeOK'
<1>1. CASE r \notin Run
  <2>1. lock' = lock
    BY <1>1 DEF Acquire, Release, Extend, TypeOK, LockTypeOK
  <2>2. QED
    BY <2>1 DEF TypeOK, LockTypeOK
<1>2. CASE r \in Run
  <2> USE <1>2 DEF TypeOK, LockTypeOK, LockDoc
  <2>1. CASE Acquire(r, d, clock, ttl)
    BY <2>1 DEF Acquire
  <2>2. CASE Release(r, d)
    BY <2>2, NoHolderAssumption DEF Release, NoLock
  <2>3. CASE Extend(r, d, clock, ttl)
    BY <2>3 DEF Extend
  <2>4. QED
    BY <2>1, <2>2, <2>3
<1> QED
  BY <1>1, <1>2

LEMMA RecordTyped ==
  ASSUME TypeOK, NEW k \in Job, NEW error \in BOOLEAN,
         Create(k) \/ DeleteRecord(k) \/ Complete(k) \/ Fail(k, error)
  PROVE  RecordTypeOK'
<1> USE DEF TypeOK, RecordTypeOK, RecordDoc
<1>1. CASE Create(k)
  <2>1. [status |-> "pending", error |-> FALSE,
         expiresAt |-> clock + RecordTtl] \in RecordDoc
    BY RecordTtlAssumption
  <2>2. QED
    BY <1>1, <2>1 DEF Create
<1>2. CASE DeleteRecord(k)
  BY <1>2 DEF DeleteRecord, NoRecord
<1>3. CASE Complete(k)
  <2>1. record[k].error \in BOOLEAN /\ record[k].expiresAt \in Nat
    OBVIOUS
  <2>2. [status |-> "completed", error |-> record[k].error,
         expiresAt |-> record[k].expiresAt] \in RecordDoc
    BY <2>1
  <2>3. QED
    BY <1>3, <2>2 DEF Complete, Resolve
<1>4. CASE Fail(k, error)
  <2>1. [status |-> "failed", error |-> error,
         expiresAt |-> record[k].expiresAt] \in RecordDoc
    OBVIOUS
  <2>2. QED
    BY <1>4, <2>1 DEF Fail, Resolve
<1> QED
  BY <1>1, <1>2, <1>3, <1>4

\* The kinds of step the lemmas below go through one by one.
LEMMA NextSteps ==
  ASSUME [Next]_vars
  PROVE  \/ Time \/ UNCHANGED vars
         \/ \E j \in Job : DeadLetter(j)
         \/ \E d \in Holder, j \in Job : Deliver(d, j)
         \/ \E d \in Holder : Check(d)
         \/ \E d \in Holder : DeleteExpired(d)
         \/ \E d \in Holder : AcquireLock(d)
         \/ \E d \in Holder : LockConflict(d) \/ StoreThrows(d)
         \/ \E d \in Holder : CreateRecord(d)
         \/ \E d \in Holder : HandlerEnds(d) \/ Timeout(d)
         \/ \E d \in Holder : ZombieEnds(d)
         \/ \E d \in Holder : ExtendLock(d)
         \/ \E d \in Holder : RecordResult(d) \/ RecordLost(d)
         \/ \E d \in Holder : ReleaseLock(d) \/ ReleaseLost(d)
         \/ \E d \in Holder : Answer(d)
         \/ \E d \in Holder : Crash(d)
BY DEF Next, Proceed

LEMMA ThrowReturns ==
  ASSUME TypeOK, NEW d \in Holder, LockConflict(d) \/ StoreThrows(d)
  PROVE  \E o \in {"failed", "error"} : Returns(d, o)
<1>1. PICK o \in {"failed", "error"} : Return(d, o)
  BY DEF LockConflict, StoreThrows
<1> QED
  BY <1>1, ReturnReturns DEF OutcomeValues

LEMMA TypesInitially == Init => Types
<1>1. Idle \in Slot
  BY DEF Idle, Slot
<1> QED
  BY <1>1, ProcessorAssumption
     DEF Init, Types, TypeOK, JobsKnown, LockInit, NoLock, LockTypeOK, LockDoc,
              RecordInit, NoRecord, RecordTypeOK, RecordDoc, Idle

LEMMA TypesInductive == Types /\ [Next]_vars => Types'
<1> SUFFICES ASSUME Types, [Next]_vars PROVE Types'
  OBVIOUS
<1> USE DEF Types
<1>1. ASSUME Time PROVE Types'
  BY <1>1, MaxTimeAssumption
     DEF Time, Tick, TypeOK, LockTypeOK, RecordTypeOK, JobsKnown, observed
<1> DEFINE Kept == /\ clock \in Nat /\ acked \subseteq Job /\ faults \in Nat
                   /\ deliveries \in [Job -> 0..MaxDeliveries] /\ dead \subseteq Job
                   /\ ended \in [Job -> SUBSET {"completed", "failed", "thrown", "blank"}]
                   /\ wiped \subseteq Job /\ LockTypeOK /\ RecordTypeOK
\* A step that keeps the other variables well formed and moves one slot to a
\* state in which it has a job or nothing to do.
<1>2. ASSUME NEW d \in Holder, NEW p, NEW j, NEW h, NEW o, NEW s, NEW u, NEW c,
             Becomes(d, p, j, h, o, s, u, c), Kept',
             p # "idle" \/ h = "running" => j \in Job
      PROVE  Types'
  BY <1>2 DEF Becomes, TypeOK, JobsKnown
<1>3. Kept
  BY DEF TypeOK
<1>4. ASSUME NEW d \in Holder, slot[d].pc # "idle" \/ slot[d].handler = "running"
      PROVE  slot[d].job \in Job
  BY <1>4 DEF JobsKnown
<1>5. ASSUME NEW d \in Holder, NEW j \in Job, Deliver(d, j) PROVE Types'
  <2>1. deliveries' \in [Job -> 0..MaxDeliveries]
    BY <1>3, <1>5, ProcessorAssumption DEF Deliver, DeliveriesLeft
  <2>2. Kept'
    BY <1>3, <1>5, <2>1 DEF Deliver, observed, LockTypeOK, RecordTypeOK
  <2>3. QED
    BY <1>2, <1>5, <2>2, DeliverBecomes
<1>6. ASSUME NEW d \in Holder, Check(d) PROVE Types'
  <2>1. Kept'
    BY <1>3, <1>6 DEF Check, observed, LockTypeOK, RecordTypeOK
  <2>2. slot[d].job \in Job
    BY <1>4, <1>6 DEF Check, At
  <2>3. QED
    BY <1>2, <1>6, <2>1, <2>2, CheckBecomes DEF Moves, Returns
<1>7. ASSUME NEW d \in Holder, DeleteExpired(d) PROVE Types'
  <2>1. slot[d].job \in Job
    BY <1>4, <1>7 DEF DeleteExpired, At
  <2>2. Kept'
    BY <1>3, <1>7, <2>1, RecordTyped DEF DeleteExpired, LockTypeOK, JobAt
  <2>3. QED
    BY <1>2, <1>7, <2>1, <2>2, DeleteBecomes DEF Moves
<1>8. ASSUME NEW d \in Holder, AcquireLock(d) PROVE Types'
  <2>1. slot[d].job \in Job
    BY <1>4, <1>8 DEF AcquireLock, At
  <2>2. Kept'
    BY <1>3, <1>8, LockTyped, ProcessorAssumption DEF AcquireLock, RecordTypeOK, observed
  <2>3. QED
    BY <1>2, <1>8, <2>1, <2>2, AcquireBecomes
<1>9. ASSUME NEW d \in Holder, LockConflict(d) \/ StoreThrows(d) PROVE Types'
  <2>1. slot[d].job \in Job
    BY <1>4, <1>9 DEF LockConflict, StoreThrows, At
  <2>2. Kept'
    BY <1>3, <1>9 DEF LockConflict, StoreThrows, Fault, LockTypeOK, RecordTypeOK, observed
  <2>3. QED
    BY <1>2, <1>9, <2>1, <2>2, ThrowReturns DEF Returns
<1>10. ASSUME NEW d \in Holder, CreateRecord(d) PROVE Types'
  <2>1. slot[d].job \in Job
    BY <1>4, <1>10 DEF CreateRecord, At
  <2>2. Kept'
    BY <1>3, <1>10, <2>1, RecordTyped DEF CreateRecord, JobAt, LockTypeOK, observed
  <2>3. QED
    BY <1>2, <1>10, <2>1, <2>2, CreateBecomes
<1>11. ASSUME NEW d \in Holder, HandlerEnds(d) \/ Timeout(d) PROVE Types'
  <2>1. slot[d].job \in Job
    BY <1>4, <1>11 DEF HandlerEnds, HandlerReturns, HandlerThrows, Timeout, At
  <2>2. Kept'
    BY <1>3, <1>11 DEF HandlerEnds, HandlerReturns, HandlerThrows, Timeout,
                       LockTypeOK, RecordTypeOK
  <2>3. QED
    BY <1>2, <1>11, <2>1, <2>2, HandlerBecomes DEF Finishes
<1>12. ASSUME NEW d \in Holder, ZombieEnds(d) PROVE Types'
  <2>1. slot[d].job \in Job
    BY <1>4, <1>12 DEF ZombieEnds, Zombie, HandlerActive
  <2>2. Kept'
    BY <1>3, <1>12 DEF ZombieEnds, LockTypeOK, RecordTypeOK, observed
  <2>3. QED
    BY <1>2, <1>12, <2>1, <2>2, ZombieBecomes DEF Empties
<1>13. ASSUME NEW d \in Holder, ExtendLock(d) PROVE Types'
  <2>1. slot[d].job \in Job
    BY <1>4, <1>13 DEF ExtendLock, HandlerActive
  <2>2. Kept'
    BY <1>3, <1>13, LockTyped, ProcessorAssumption DEF ExtendLock, RecordTypeOK, observed
  <2>3. QED
    BY <1>2, <1>13, <2>1, <2>2, ExtendBecomes
<1>14. ASSUME NEW d \in Holder, RecordResult(d) \/ RecordLost(d) PROVE Types'
  <2>1. slot[d].job \in Job
    BY <1>4, <1>14 DEF RecordResult, RecordLost, At
  <2>2. RecordTypeOK'
    <3>1. CASE RecordLost(d)
      BY <1>3, <3>1 DEF RecordLost, RecordTypeOK
    <3>2. CASE RecordResult(d)
      BY <2>1, <3>2, RecordTyped DEF RecordResult, JobAt
    <3>3. QED
      BY <1>14, <3>1, <3>2
  <2>3. /\ UNCHANGED <<clock, lock, broker, observed>>
        /\ faults' \in Nat
    <3>1. CASE RecordLost(d)
      BY <1>3, <3>1 DEF RecordLost, Fault, observed
    <3>2. CASE RecordResult(d)
      BY <1>3, <3>2 DEF RecordResult, observed
    <3>3. QED
      BY <1>14, <3>1, <3>2
  <2>4. Kept'
    BY <1>3, <2>2, <2>3 DEF LockTypeOK, observed
  <2>5. QED
    BY <1>2, <1>14, <2>1, <2>4, RecordBecomes DEF Moves
<1>15. ASSUME NEW d \in Holder, ReleaseLock(d) \/ ReleaseLost(d) PROVE Types'
  <2>1. slot[d].job \in Job
    BY <1>4, <1>15 DEF ReleaseLock, ReleaseLost, At
  <2>2. Kept'
    BY <1>3, <1>15, LockTyped DEF ReleaseLock, ReleaseLost, Fault, LockTypeOK,
                                  RecordTypeOK, observed
  <2>3. QED
    BY <1>2, <1>15, <2>1, <2>2, ReleaseBecomes DEF Moves
<1>16. ASSUME NEW d \in Holder, Answer(d) PROVE Types'
  <2>1. slot[d].job \in Job
    BY <1>4, <1>16 DEF Answer, At
  <2>2. Kept'
    BY <1>3, <1>16, <2>1 DEF Answer, JobAt, LockTypeOK, RecordTypeOK, observed
  <2>3. QED
    BY <1>2, <1>16, <2>1, <2>2, AnswerBecomes DEF Empties
<1>17. ASSUME NEW d \in Holder, Crash(d) PROVE Types'
  <2>1. Kept'
    BY <1>3, <1>17 DEF Crash, Fault, LockTypeOK, RecordTypeOK, observed
  <2>2. QED
    BY <1>2, <1>17, <2>1, CrashBecomes DEF Empties
<1>18. CASE UNCHANGED vars
  BY <1>18 DEF vars, observed, TypeOK, JobsKnown, LockTypeOK, RecordTypeOK
<1>19. ASSUME NEW j \in Job, DeadLetter(j) PROVE Types'
  BY <1>19 DEF DeadLetter, observed, TypeOK, JobsKnown, LockTypeOK, RecordTypeOK
<1> HIDE DEF Types
<1> QED
  BY <1>1, <1>5, <1>6, <1>7, <1>8, <1>9, <1>10, <1>11, <1>12, <1>13, <1>14,
     <1>15, <1>16, <1>17, <1>18, <1>19, NextSteps

\* Lock documents, records and the local state of every delivery stay well
\* formed, whatever fails and however the deliveries interleave.
THEOREM WorkerTypeCorrect == Spec => []TypeOK
<1>1. Spec => []Types
  BY TypesInitially, TypesInductive, PTL DEF Spec
<1> QED
  BY <1>1, PTL DEF Types

----------------------------------------------------------------------------
(* The run lock: OverlapExplained *)

\* A delivery that has taken its run's lock and not yet come to the end of
\* its handler's part is the holder in the lock document for as long as its
\* lease lasts.
LeaseHeld ==
    \A d \in Holder :
        /\ slot[d].pc \in {"create", "running"}
        /\ slot[d].until > clock
        /\ RunAt(d) # NoRun
        => /\ lock[RunAt(d)].holder = d
           /\ lock[RunAt(d)].expiresAt >= slot[d].until

LEMMA LeaseHeldInductive == Types /\ LeaseHeld /\ [Next]_vars => LeaseHeld'
<1> SUFFICES ASSUME Types, LeaseHeld, [Next]_vars,
                    NEW e \in Holder, slot'[e].pc \in {"create", "running"},
                    slot'[e].until > clock', RunAt(e)' # NoRun
             PROVE  /\ lock'[RunAt(e)'].holder = e
                    /\ lock'[RunAt(e)'].expiresAt >= slot'[e].until
  BY DEF LeaseHeld
<1> DEFINE Goal == /\ lock'[RunAt(e)'].holder = e
                   /\ lock'[RunAt(e)'].expiresAt >= slot'[e].until
           Same == /\ slot'[e].job = slot[e].job /\ slot'[e].until = slot[e].until
                   /\ slot[e].pc \in {"create", "running"} /\ clock' >= clock
<1>t. TypeOK
  BY DEF Types
<1>n. clock \in Nat /\ clock' \in Nat /\ \A d \in Holder : slot[d].until \in Nat
  BY <1>t, SlotRead, TypesInductive DEF TypeOK, Types
<1>m. \A r \in Run : lock[r].expiresAt \in Nat /\ (lock[r].holder \in Holder => Exists(r))
  BY <1>t, NoHolderAssumption DEF TypeOK, LockTypeOK, LockDoc, Exists
<1>r. ASSUME NEW d \in Holder, slot[d].pc # "idle", RunAt(d) # NoRun
      PROVE  RunAt(d) \in Run
  BY <1>r, ProcessorAssumption DEF Types, JobsKnown, RunAt, JobAt
<1>h. ASSUME Same
      PROVE  /\ RunAt(e)' = RunAt(e) /\ RunAt(e) \in Run
             /\ slot[e].until > clock
             /\ lock[RunAt(e)].holder = e
             /\ lock[RunAt(e)].expiresAt >= slot[e].until
  <2>1. RunAt(e)' = RunAt(e) /\ slot[e].pc # "idle"
    BY <1>h DEF RunAt, JobAt
  <2>2. slot[e].until > clock
    BY <1>h, <1>n
  <2>3. QED
    BY <1>h, <1>r, <2>1, <2>2 DEF LeaseHeld
<1>k. ASSUME Same, UNCHANGED lock PROVE Goal
  BY <1>h, <1>k
\* A step that leaves e where it was, or takes it out of its section.
<1>o. ASSUME NEW d \in Holder, NEW p, NEW j, NEW h, NEW o, NEW s, NEW u, NEW c,
             Becomes(d, p, j, h, o, s, u, c),
             p \notin {"create", "running"} \/
                (p = slot[d].pc /\ j = slot[d].job /\ u = slot[d].until),
             clock' = clock
      PROVE  Same
  BY <1>o, <1>n DEF Becomes
<1> HIDE DEF Goal, Same
<1>1. ASSUME Time PROVE Goal
  <2>1. Same
    BY <1>1, <1>n DEF Time, Tick, Same
  <2>2. QED
    BY <1>1, <1>k, <2>1 DEF Time
<1>2. ASSUME NEW d \in Holder, NEW j \in Job, Deliver(d, j) PROVE Goal
  <2>1. Same /\ UNCHANGED lock
    BY <1>2, <1>o, <1>t, DeliverBecomes DEF Deliver
  <2>2. QED
    BY <1>k, <2>1
\* A step after which e is not in its section, or needs no lock.
<1>3. ASSUME NEW d \in Holder, NEW p \in PcValues, Moves(d, p), clock' = clock,
             UNCHANGED lock,
             p \in {"create", "running"} => RunAt(d) = NoRun
      PROVE  Goal
  <2>1. CASE d = e
    <3>1. RunAt(e)' = RunAt(e) /\ slot'[e].pc = p
      BY <1>3, <2>1 DEF Moves, Becomes, RunAt, JobAt
    <3>2. QED
      BY <1>3, <2>1, <3>1
  <2>2. CASE d # e
    <3>1. Same
      BY <1>3, <1>n, <2>2 DEF Moves, Becomes, Same
    <3>2. QED
      BY <1>3, <1>k, <3>1
  <2>3. QED
    BY <2>1, <2>2
<1>4. ASSUME NEW d \in Holder, Check(d) PROVE Goal
  <2>1. UNCHANGED <<clock, lock>> /\ slot[d].job \in Job
    BY <1>4 DEF Check, At, Types, JobsKnown
  <2>2. CASE Returns(d, CachedStatus(slot[d].job))
    BY <1>k, <1>o, <2>1, <2>2 DEF Returns
  <2>3. CASE \E p \in {"deleteExpired", "acquire", "create"} :
                Moves(d, p) /\ (p = "create" => RunAt(d) = NoRun)
    BY <1>3, <2>1, <2>3 DEF PcValues
  <2>4. QED
    BY <1>4, <1>t, <2>1, <2>2, <2>3, CheckBecomes
<1>5. ASSUME NEW d \in Holder, DeleteExpired(d) PROVE Goal
  <2>1. UNCHANGED <<clock, lock>>
    BY <1>5 DEF DeleteExpired
  <2>2. QED
    BY <1>3, <1>5, <1>t, <2>1, DeleteBecomes DEF PcValues
<1>6. ASSUME NEW d \in Holder, AcquireLock(d) PROVE Goal
  <2>1. clock' = clock /\ RunAt(d) = RunOf[slot[d].job]
    BY <1>6 DEF AcquireLock, RunAt, JobAt
  <2>2. Becomes(d, "create", slot[d].job, slot[d].handler, slot[d].outcome,
                slot[d].started, clock + LockTtl, slot[d].cachedUntil)
    BY <1>6, <1>t, AcquireBecomes
  <2>3. CASE d = e
    <3>1. /\ RunAt(e)' = RunAt(e) /\ slot'[e].until = clock + LockTtl
          /\ slot[e].pc # "idle"
      BY <1>6, <2>2, <2>3 DEF Becomes, RunAt, JobAt, AcquireLock, At
    <3>2. RunAt(e) \in Run
      BY <1>r, <3>1
    <3>3. lock'[RunAt(e)] = [holder |-> e, expiresAt |-> clock + LockTtl,
                             token |-> lock[RunAt(e)].token + 1]
      BY <1>6, <1>t, <2>3, <3>2 DEF AcquireLock, Acquire, TypeOK, LockTypeOK
    <3>4. clock + LockTtl \in Nat
      BY <1>n, ProcessorAssumption
    <3>5. QED
      BY <3>1, <3>3, <3>4 DEF Goal
  <2>4. CASE d # e
    <3>1. Same
      BY <1>n, <2>1, <2>2, <2>4 DEF Becomes, Same
    <3>2. RunAt(d) # RunAt(e)
      BY <1>6, <1>h, <1>m, <1>n, <3>1 DEF AcquireLock, Acquire, Free
    <3>3. lock'[RunAt(e)] = lock[RunAt(e)]
      BY <1>6, <1>h, <1>t, <3>1, <3>2 DEF AcquireLock, Acquire, TypeOK, LockTypeOK
    <3>4. QED
      BY <1>h, <3>1, <3>3 DEF Goal, Same
  <2>5. QED
    BY <2>3, <2>4
<1>7. ASSUME NEW d \in Holder, LockConflict(d) \/ StoreThrows(d) PROVE Goal
  <2>1. UNCHANGED <<clock, lock>>
    BY <1>7 DEF LockConflict, StoreThrows
  <2>2. QED
    BY <1>7, <1>k, <1>o, <1>t, <2>1, ThrowReturns DEF Returns
<1>8. ASSUME NEW d \in Holder, CreateRecord(d) PROVE Goal
  <2>1. UNCHANGED <<clock, lock>> /\ slot[d].pc = "create"
    BY <1>8 DEF CreateRecord, At
  <2>2. Same
    BY <1>8, <1>n, <1>t, <2>1, CreateBecomes DEF Becomes, Same
  <2>3. QED
    BY <1>k, <2>1, <2>2
<1>9. ASSUME NEW d \in Holder, HandlerEnds(d) \/ Timeout(d) PROVE Goal
  <2>1. UNCHANGED <<clock, lock>>
    BY <1>9 DEF HandlerEnds, HandlerReturns, HandlerThrows, Timeout
  <2>2. Same
    BY <1>9, <1>o, <1>t, <2>1, HandlerBecomes DEF Finishes
  <2>3. QED
    BY <1>k, <2>1, <2>2
<1>10. ASSUME NEW d \in Holder, ZombieEnds(d) PROVE Goal
  <2>1. UNCHANGED <<clock, lock>>
    BY <1>10 DEF ZombieEnds
  <2>2. CASE Empties(d)
    BY <1>k, <1>o, <2>1, <2>2 DEF Empties
  <2>3. CASE Becomes(d, slot[d].pc, slot[d].job, "over", slot[d].outcome,
                     slot[d].started, 0, slot[d].cachedUntil)
    <3>1. e # d
      BY <1>n, <2>1, <2>3 DEF Becomes
    <3>2. Same
      BY <1>n, <2>1, <2>3, <3>1 DEF Becomes, Same
    <3>3. QED
      BY <1>k, <2>1, <3>2
  <2>4. QED
    BY <1>10, <1>t, <2>2, <2>3, ZombieBecomes
<1>11. ASSUME NEW d \in Holder, ExtendLock(d) PROVE Goal
  <2>1. /\ clock' = clock /\ RunAt(d) # NoRun
        /\ Extend(RunAt(d), d, clock, ExtendTtl)
    BY <1>11 DEF ExtendLock
  <2>2. PICK u \in Nat :
          /\ Becomes(d, slot[d].pc, slot[d].job, slot[d].handler,
                     slot[d].outcome, slot[d].started, u, slot[d].cachedUntil)
          /\ u = IF lock[RunAt(d)].holder = d THEN clock + ExtendTtl
                 ELSE slot[d].until
    BY <1>11, <1>t, ExtendBecomes
  <2>3. CASE d = e /\ lock[RunAt(d)].holder = d
    <3>1. /\ RunAt(e)' = RunAt(e) /\ slot'[e].until = clock + ExtendTtl
          /\ slot[e].pc # "idle"
      BY <2>2, <2>3 DEF Becomes, RunAt, JobAt
    <3>2. RunAt(e) \in Run
      BY <1>r, <3>1
    <3>3. lock'[RunAt(e)].holder = e /\ lock'[RunAt(e)].expiresAt = clock + ExtendTtl
      BY <2>1, <2>3, <3>2, <1>t DEF Extend, TypeOK, LockTypeOK, LockDoc
    <3>4. clock + ExtendTtl \in Nat
      BY <1>n, ProcessorAssumption
    <3>5. QED
      BY <3>1, <3>3, <3>4 DEF Goal
  <2>4. CASE d # e \/ lock[RunAt(d)].holder # d
    <3>1. Same
      BY <1>n, <2>1, <2>2, <2>4 DEF Becomes, Same
    <3>2. d # e
      BY <1>h, <2>4, <3>1
    <3>3. lock'[RunAt(e)] = lock[RunAt(e)]
      BY <1>h, <1>t, <2>1, <3>1, <3>2 DEF Extend, TypeOK, LockTypeOK, LockDoc
    <3>4. QED
      BY <1>h, <3>1, <3>3 DEF Goal, Same
  <2>5. QED
    BY <2>3, <2>4
<1>12. ASSUME NEW d \in Holder, RecordResult(d) \/ RecordLost(d) PROVE Goal
  <2>1. UNCHANGED <<clock, lock>>
    BY <1>12 DEF RecordResult, RecordLost
  <2>2. QED
    BY <1>3, <1>12, <1>t, <2>1, RecordBecomes DEF PcValues
<1>13. ASSUME NEW d \in Holder, ReleaseLock(d) \/ ReleaseLost(d) PROVE Goal
  <2>1. clock' = clock /\ (UNCHANGED lock \/ Release(RunAt(d), d))
    BY <1>13 DEF ReleaseLock, ReleaseLost
  <2>2. Moves(d, "answer")
    BY <1>13, <1>t, ReleaseBecomes
  <2>3. d # e
    BY <2>2 DEF Moves, Becomes
  <2>4. Same
    BY <1>n, <2>1, <2>2, <2>3 DEF Moves, Becomes, Same
  <2>5. lock'[RunAt(e)] = lock[RunAt(e)]
    BY <1>h, <1>t, <2>1, <2>3, <2>4 DEF Release, TypeOK, LockTypeOK
  <2>6. QED
    BY <1>h, <2>4, <2>5 DEF Goal, Same
<1>14. ASSUME NEW d \in Holder, Answer(d) PROVE Goal
  <2>1. UNCHANGED <<clock, lock>>
    BY <1>14 DEF Answer
  <2>2. QED
    BY <1>14, <1>k, <1>o, <1>t, <2>1, AnswerBecomes DEF Empties
<1>15. ASSUME NEW d \in Holder, Crash(d) PROVE Goal
  <2>1. UNCHANGED <<clock, lock>>
    BY <1>15 DEF Crash
  <2>2. QED
    BY <1>15, <1>k, <1>o, <1>t, <2>1, CrashBecomes DEF Empties
<1>16. ASSUME UNCHANGED vars PROVE Goal
  <2>1. Same
    BY <1>16, <1>n DEF vars, Same
  <2>2. QED
    BY <1>16, <1>k, <2>1 DEF vars, Goal
<1>17. ASSUME NEW j \in Job, DeadLetter(j) PROVE Goal
  <2>1. Same
    BY <1>17, <1>n DEF DeadLetter, Same
  <2>2. QED
    BY <1>17, <1>k, <2>1 DEF DeadLetter, Goal
<1>18. Goal
  BY <1>1, <1>2, <1>4, <1>5, <1>6, <1>7, <1>8, <1>9, <1>10, <1>11, <1>12,
     <1>13, <1>14, <1>15, <1>16, <1>17, NextSteps
<1> QED
  BY <1>18 DEF Goal

\* Two handlers of one run overlap only after a lease ran out or a delivery
\* timed out: of two deliveries that are both inside their section with a
\* lease that lasts, the lock document could name only one.
THEOREM WorkerOverlapExplained == Spec => []OverlapExplained
<1>1. Init => Types /\ LeaseHeld
  <2>1. Init => LeaseHeld
    BY DEF Init, LeaseHeld, Idle
  <2>2. QED
    BY <2>1, TypesInitially
<1>2. Types /\ LeaseHeld /\ [Next]_vars => (Types /\ LeaseHeld)'
  BY TypesInductive, LeaseHeldInductive
<1>3. Types /\ LeaseHeld => OverlapExplained
  <2> SUFFICES ASSUME Types, LeaseHeld, NEW d1 \in Holder, NEW d2 \in Holder,
                      d1 # d2, HandlerActive(d1), HandlerActive(d2),
                      RunAt(d1) = RunAt(d2), RunAt(d1) # NoRun,
                      ~Zombie(d1), ~Zombie(d2),
                      ~(slot[d1].until <= clock), ~(slot[d2].until <= clock)
               PROVE  FALSE
    BY DEF OverlapExplained
  <2>1. slot[d1].pc = "running" /\ slot[d2].pc = "running"
    BY DEF Zombie, At
  <2>2. slot[d1].until > clock /\ slot[d2].until > clock
    BY SlotRead DEF Types, TypeOK
  <2>3. QED
    BY <2>1, <2>2 DEF LeaseHeld
<1> QED
  BY <1>1, <1>2, <1>3, PTL DEF Spec

----------------------------------------------------------------------------
(* Acknowledgements: AckedAfterHandlerRan *)

\* The jobs of which, by the record e of how handler runs ended, one returned
\* or threw an error without a message.
Ran(e) == {j \in Job : e[j] \cap {"completed", "failed", "blank"} # {}}

\* What a redelivery is answered completed from.
AnswersCompleted(r) == r.status = "completed" \/ (r.status = "failed" /\ ~r.error)

\* Every trace of a completion goes back to a handler run that returned: the
\* outcome of a delivery, the record and the acknowledgement of a pulled
\* message.
CompletionBacked ==
    /\ \A d \in Holder :
        slot[d].outcome = "completed" \/ slot[d].pc \in {"complete", "failBlank"}
            => slot[d].job \in Ran(ended)
    /\ \A j \in Job : AnswersCompleted(record[j]) => j \in Ran(ended)
    /\ PullMode => \A j \in acked : j \in Ran(ended)

LEMMA RanStays ==
  ASSUME Types, [Next]_vars
  PROVE  Ran(ended) \subseteq Ran(ended')
<1>1. CASE UNCHANGED ended
  BY <1>1
<1>2. ASSUME NEW k, NEW x, ended' = [ended EXCEPT ![k] = @ \cup {x}]
      PROVE  Ran(ended) \subseteq Ran(ended')
  BY <1>2 DEF Ran, Types, TypeOK
<1> QED
  BY <1>1, <1>2
     DEF Next, Proceed, vars, observed, Time, DeadLetter, Deliver, Check, DeleteExpired,
         AcquireLock, LockConflict, StoreThrows, CreateRecord, HandlerEnds,
         HandlerReturns, HandlerThrows, Timeout, ZombieEnds, ExtendLock,
         RecordResult, RecordLost, ReleaseLock, ReleaseLost, Answer, Crash

LEMMA CompletionBackedInductive ==
  Types /\ CompletionBacked /\ [Next]_vars => CompletionBacked'
<1> SUFFICES ASSUME Types, CompletionBacked, [Next]_vars PROVE CompletionBacked'
  OBVIOUS
<1>t. TypeOK
  BY DEF Types
<1>r. Ran(ended) \subseteq Ran(ended')
  BY RanStays
<1>j. \A d \in Holder : slot[d].pc # "idle" => slot[d].job \in Job
  BY DEF Types, JobsKnown
\* The step of one delivery, given what it does to records and messages.
<1>s. ASSUME NEW d \in Holder, NEW p, NEW j, NEW h, NEW o, NEW s, NEW u, NEW c,
             Becomes(d, p, j, h, o, s, u, c),
             o = "completed" \/ p \in {"complete", "failBlank"} => j \in Ran(ended'),
             \A k \in Job : AnswersCompleted(record'[k]) => k \in Ran(ended'),
             PullMode => \A k \in acked' : k \in Ran(ended')
      PROVE  CompletionBacked'
  <2>1. ASSUME NEW e \in Holder,
               slot'[e].outcome = "completed" \/ slot'[e].pc \in {"complete", "failBlank"}
        PROVE  slot'[e].job \in Ran(ended')
    <3>1. CASE e = d
      BY <1>s, <2>1, <3>1 DEF Becomes
    <3>2. CASE e # d
      <4>1. slot'[e] = slot[e]
        BY <1>s, <3>2 DEF Becomes
      <4>2. slot[e].job \in Ran(ended)
        BY <2>1, <4>1 DEF CompletionBacked
      <4>3. QED
        BY <1>r, <4>1, <4>2
    <3>3. QED
      BY <3>1, <3>2
  <2>2. QED
    BY <1>s, <2>1 DEF CompletionBacked
<1>a. ASSUME UNCHANGED acked PROVE PullMode => \A k \in acked' : k \in Ran(ended')
  BY <1>a, <1>r, <1>t DEF CompletionBacked, TypeOK
<1>b. ASSUME UNCHANGED record
      PROVE  \A k \in Job : AnswersCompleted(record'[k]) => k \in Ran(ended')
  BY <1>b, <1>r DEF CompletionBacked
<1>o. ASSUME NEW d \in Holder, slot[d].outcome = "completed"
      PROVE  slot[d].job \in Ran(ended')
  BY <1>o, <1>r DEF CompletionBacked
<1>1. CASE Time \/ UNCHANGED vars
  BY <1>1 DEF Time, vars, observed, CompletionBacked
<1>2. ASSUME NEW d \in Holder, NEW j \in Job, Deliver(d, j) PROVE CompletionBacked'
  <2>1. UNCHANGED <<record, acked>>
    BY <1>2 DEF Deliver
  <2>2. QED
    BY <1>2, <1>a, <1>b, <1>s, <1>t, <2>1, DeliverBecomes
<1>3. ASSUME NEW d \in Holder, Check(d) PROVE CompletionBacked'
  <2>1. UNCHANGED <<record, acked>> /\ slot[d].job \in Job
    BY <1>3, <1>j DEF Check, At
  <2>2. CASE Skips(slot[d].job) /\ Returns(d, CachedStatus(slot[d].job))
    <3>1. CachedStatus(slot[d].job) = "completed"
            => AnswersCompleted(record[slot[d].job])
      BY <1>t, <2>1, <2>2
         DEF CachedStatus, AnswersCompleted, Skips, TypeOK, RecordTypeOK, RecordDoc
    <3>2. CachedStatus(slot[d].job) = "completed" => slot[d].job \in Ran(ended')
      BY <1>b, <2>1, <3>1
    <3>3. QED
      BY <1>a, <1>b, <1>s, <2>1, <2>2, <3>2 DEF Returns
  <2>3. CASE \E p \in {"deleteExpired", "acquire", "create"} : Moves(d, p)
    BY <1>a, <1>b, <1>o, <1>s, <2>1, <2>3 DEF Moves
  <2>4. QED
    BY <1>3, <1>t, <2>1, <2>2, <2>3, CheckBecomes
<1>4. ASSUME NEW d \in Holder, DeleteExpired(d) PROVE CompletionBacked'
  <2>1. UNCHANGED acked /\ DeleteRecord(slot[d].job)
    BY <1>4 DEF DeleteExpired, JobAt
  <2>2. \A k \in Job : AnswersCompleted(record'[k]) => k \in Ran(ended')
    BY <1>r, <1>t, <2>1
       DEF DeleteRecord, NoRecord, CompletionBacked, AnswersCompleted, TypeOK,
           RecordTypeOK
  <2>3. QED
    BY <1>4, <1>a, <1>o, <1>s, <1>t, <2>1, <2>2, DeleteBecomes DEF Moves
<1>5. ASSUME NEW d \in Holder, AcquireLock(d) PROVE CompletionBacked'
  <2>1. UNCHANGED <<record, acked>>
    BY <1>5 DEF AcquireLock
  <2>2. QED
    BY <1>5, <1>a, <1>b, <1>o, <1>s, <1>t, <2>1, AcquireBecomes
<1>6. ASSUME NEW d \in Holder, LockConflict(d) \/ StoreThrows(d) PROVE CompletionBacked'
  <2>1. UNCHANGED <<record, acked>>
    BY <1>6 DEF LockConflict, StoreThrows
  <2>2. QED
    BY <1>6, <1>a, <1>b, <1>s, <1>t, <2>1, ThrowReturns DEF Returns
<1>7. ASSUME NEW d \in Holder, CreateRecord(d) PROVE CompletionBacked'
  <2>1. UNCHANGED acked /\ Create(slot[d].job)
    BY <1>7 DEF CreateRecord, JobAt
  <2>2. \A k \in Job : AnswersCompleted(record'[k]) => k \in Ran(ended')
    BY <1>r, <1>t, <2>1
       DEF Create, CompletionBacked, AnswersCompleted, TypeOK, RecordTypeOK
  <2>3. QED
    BY <1>7, <1>a, <1>o, <1>s, <1>t, <2>1, <2>2, CreateBecomes
<1>8. ASSUME NEW d \in Holder, HandlerEnds(d) \/ Timeout(d) PROVE CompletionBacked'
  <2>1. UNCHANGED <<record, acked>> /\ slot[d].job \in Job
    BY <1>8, <1>j DEF HandlerEnds, HandlerReturns, HandlerThrows, Timeout, At
  <2>2. ASSUME NEW status \in {"completed", "failed", "blank"},
               ended' = [ended EXCEPT ![slot[d].job] = @ \cup {status}]
        PROVE  slot[d].job \in Ran(ended')
    BY <1>t, <2>1, <2>2 DEF Ran, TypeOK
  <2>3. CASE \E status \in {"completed", "failed"} :
                HandlerReturns(d, status) /\ Finishes(d, "complete", "over", status)
    <3>1. slot[d].job \in Ran(ended')
      BY <2>2, <2>3 DEF HandlerReturns, JobAt
    <3>2. QED
      BY <1>a, <1>b, <1>s, <2>1, <2>3, <3>1 DEF Finishes
  <2>4. CASE \E h \in {"running", "over"} : Finishes(d, "fail", h, "failed")
    BY <1>a, <1>b, <1>s, <2>1, <2>4 DEF Finishes
  <2>5. CASE /\ ended' = [ended EXCEPT ![slot[d].job] = @ \cup {"blank"}]
             /\ Finishes(d, "failBlank", "over", "failed")
    <3>1. slot[d].job \in Ran(ended')
      BY <2>2, <2>5
    <3>2. QED
      BY <1>a, <1>b, <1>s, <2>1, <2>5, <3>1 DEF Finishes
  <2>6. QED
    BY <1>8, <1>t, <2>3, <2>4, <2>5, HandlerBecomes
<1>9. ASSUME NEW d \in Holder, ZombieEnds(d) PROVE CompletionBacked'
  <2>1. UNCHANGED <<record, acked, ended>>
    BY <1>9 DEF ZombieEnds, observed
  <2>2. slot[d].pc \in {"complete", "failBlank"} => slot[d].job \in Ran(ended')
    BY <1>r DEF CompletionBacked
  <2>3. QED
    BY <1>9, <1>a, <1>b, <1>o, <1>s, <1>t, <2>1, <2>2, ZombieBecomes DEF Empties
<1>10. ASSUME NEW d \in Holder, ExtendLock(d) PROVE CompletionBacked'
  <2>1. UNCHANGED <<record, acked>>
    BY <1>10 DEF ExtendLock
  <2>2. slot[d].pc \in {"complete", "failBlank"} => slot[d].job \in Ran(ended')
    BY <1>r DEF CompletionBacked
  <2>3. QED
    BY <1>10, <1>a, <1>b, <1>o, <1>s, <1>t, <2>1, <2>2, ExtendBecomes
<1>11. ASSUME NEW d \in Holder, RecordResult(d) \/ RecordLost(d) PROVE CompletionBacked'
  <2>1. UNCHANGED acked
    BY <1>11 DEF RecordResult, RecordLost
  <2>2. CASE UNCHANGED record
    BY <1>11, <1>a, <1>b, <1>o, <1>s, <1>t, <2>1, <2>2, RecordBecomes DEF Moves
  <2>3. CASE \/ slot[d].pc = "complete" /\ Complete(slot[d].job)
             \/ slot[d].pc = "failBlank" /\ Fail(slot[d].job, FALSE)
    <3>1. slot[d].job \in Ran(ended')
      BY <1>r, <2>3 DEF CompletionBacked
    <3>2. \A k \in Job : k # slot[d].job => record'[k] = record[k]
      BY <1>t, <2>3 DEF Complete, Fail, Resolve, TypeOK, RecordTypeOK
    <3>3. \A k \in Job : AnswersCompleted(record'[k]) => k \in Ran(ended')
      BY <1>r, <3>1, <3>2 DEF CompletionBacked
    <3>4. QED
      BY <1>11, <1>a, <1>o, <1>s, <1>t, <2>1, <3>3, RecordBecomes DEF Moves
  <2>4. CASE Fail(slot[d].job, TRUE)
    <3>1. \A k \in Job : AnswersCompleted(record'[k]) => AnswersCompleted(record[k])
      BY <1>t, <2>4
         DEF Fail, Resolve, AnswersCompleted, TypeOK, RecordTypeOK, RecordDoc
    <3>2. \A k \in Job : AnswersCompleted(record'[k]) => k \in Ran(ended')
      BY <1>r, <3>1 DEF CompletionBacked
    <3>3. QED
      BY <1>11, <1>a, <1>o, <1>s, <1>t, <2>1, <3>2, RecordBecomes DEF Moves
  <2>5. QED
    BY <1>11, <2>2, <2>3, <2>4 DEF RecordResult, RecordLost, At, JobAt
<1>12. ASSUME NEW d \in Holder, ReleaseLock(d) \/ ReleaseLost(d) PROVE CompletionBacked'
  <2>1. UNCHANGED <<record, acked>>
    BY <1>12 DEF ReleaseLock, ReleaseLost
  <2>2. QED
    BY <1>12, <1>a, <1>b, <1>o, <1>s, <1>t, <2>1, ReleaseBecomes DEF Moves
<1>13. ASSUME NEW d \in Holder, Answer(d) PROVE CompletionBacked'
  <2>1. UNCHANGED record
    BY <1>13 DEF Answer
  <2>2. PullMode => \A k \in acked' : k \in Ran(ended')
    <3>1. SUFFICES ASSUME PullMode, NEW k \in acked' PROVE k \in Ran(ended')
      OBVIOUS
    <3>2. CASE k \in acked
      BY <1>r, <1>t, <3>1, <3>2 DEF CompletionBacked, TypeOK
    <3>3. CASE k \notin acked
      <4>1. k = slot[d].job /\ slot[d].outcome = "completed"
        BY <1>13, <3>1, <3>3 DEF Answer, Acks, JobAt
      <4>2. QED
        BY <1>o, <4>1
    <3>4. QED
      BY <3>2, <3>3
  <2>3. QED
    BY <1>13, <1>b, <1>s, <1>t, <2>1, <2>2, AnswerBecomes DEF Empties
<1>14. ASSUME NEW d \in Holder, Crash(d) PROVE CompletionBacked'
  <2>1. UNCHANGED <<record, acked>>
    BY <1>14 DEF Crash
  <2>2. QED
    BY <1>14, <1>a, <1>b, <1>s, <1>t, <2>1, CrashBecomes DEF Empties
<1>15. ASSUME NEW j \in Job, DeadLetter(j) PROVE CompletionBacked'
  BY <1>15 DEF DeadLetter, observed, CompletionBacked
<1> QED
  BY <1>1, <1>2, <1>3, <1>4, <1>5, <1>6, <1>7, <1>8, <1>9, <1>10, <1>11,
     <1>12, <1>13, <1>14, <1>15, NextSteps

\* In pull mode a message is acknowledged only when a handler run of its job
\* returned, or threw an error without a message: no lost write, crash,
\* time-out, lock conflict or error with a message can make a job look
\* completed.
THEOREM WorkerAcksWhatRan ==
  ASSUME PullMode = TRUE
  PROVE  Spec => []AckedAfterHandlerRan
<1>1. Init => Types /\ CompletionBacked
  <2>1. Init => CompletionBacked
    BY DEF Init, CompletionBacked, Idle, RecordInit, NoRecord, AnswersCompleted
  <2>2. QED
    BY <2>1, TypesInitially
<1>2. Types /\ CompletionBacked /\ [Next]_vars => (Types /\ CompletionBacked)'
  BY TypesInductive, CompletionBackedInductive
<1>3. CompletionBacked => AckedAfterHandlerRan
  BY DEF CompletionBacked, AckedAfterHandlerRan, Ran
<1> QED
  BY <1>1, <1>2, <1>3, PTL DEF Spec

----------------------------------------------------------------------------
(* Redelivery: RedeliveryIsCached *)

Resolved(r, c) == r.status \in {"completed", "failed"} /\ r.expiresAt = c

\* As long as the record a delivery found resolved has not run out, either
\* the delivery has not looked and the record is still there, or the delivery
\* is not on its way to the handler.
CacheHeld ==
    \A d \in Holder : slot[d].job \notin wiped =>
        /\ slot[d].pc = "check" /\ slot[d].cachedUntil > clock
            => Resolved(record[slot[d].job], slot[d].cachedUntil)
        /\ slot[d].pc \in {"deleteExpired", "acquire", "create"}
            => slot[d].cachedUntil <= clock
        /\ slot[d].pc = "running" => slot[d].cachedUntil <= slot[d].started

\* Nothing but the delete at the end of get takes a live outcome away.
LEMMA ResolvedStays ==
  ASSUME Types, [Next]_vars, NEW j \in Job, NEW c \in Nat, c > clock,
         Resolved(record[j], c), j \notin wiped'
  PROVE  Resolved(record'[j], c)
<1>1. /\ record[j].status \in {"completed", "failed"}
      /\ record[j].expiresAt = c /\ ~(c <= clock)
      /\ record \in [Job -> RecordDoc]
  BY DEF Resolved, Types, TypeOK, RecordTypeOK
<1>2. CASE UNCHANGED record
  BY <1>2 DEF Resolved
<1>3. ASSUME NEW d \in Holder, DeleteExpired(d) PROVE Resolved(record'[j], c)
  <2>1. slot[d].job # j
    BY <1>1, <1>3 DEF DeleteExpired, JobAt, Present, RecordExpired
  <2>2. record'[j] = record[j]
    BY <1>1, <1>3, <2>1 DEF DeleteExpired, DeleteRecord, JobAt
  <2>3. QED
    BY <2>2
<1>4. ASSUME NEW d \in Holder, CreateRecord(d) PROVE Resolved(record'[j], c)
  <2>1. record'[j] = record[j]
    BY <1>1, <1>4 DEF CreateRecord, Create, JobAt, Present, RecordExpired
  <2>2. QED
    BY <2>1
<1>5. ASSUME NEW d \in Holder, RecordResult(d) PROVE Resolved(record'[j], c)
  <2>1. PICK status \in {"completed", "failed"}, error \in BOOLEAN :
           Resolve(slot[d].job, status, error)
    <3>1. slot[d].job \in Job
      BY <1>5 DEF RecordResult, At, Types, JobsKnown
    <3>2. record[slot[d].job].error \in BOOLEAN
      BY <1>1, <3>1 DEF RecordDoc
    <3>3. QED
      BY <1>5, <3>2 DEF RecordResult, Complete, Fail, JobAt
  <2>2. record'[j].expiresAt = record[j].expiresAt
    BY <1>1, <2>1 DEF Resolve, RecordDoc
  <2>3. record'[j].status \in {"completed", "failed"}
    BY <1>1, <2>1 DEF Resolve, RecordDoc
  <2>4. QED
    BY <1>1, <2>2, <2>3 DEF Resolved
<1> QED
  BY <1>2, <1>3, <1>4, <1>5
     DEF Next, Proceed, vars, Time, DeadLetter, Deliver, Check, AcquireLock, LockConflict,
         StoreThrows, HandlerEnds, HandlerReturns, HandlerThrows, Timeout,
         ZombieEnds, ExtendLock, RecordLost, ReleaseLock, ReleaseLost, Answer,
         Crash

LEMMA CacheHeldInductive == Types /\ CacheHeld /\ [Next]_vars => CacheHeld'
<1> DEFINE Goal(e) ==
        /\ slot'[e].pc = "check" /\ slot'[e].cachedUntil > clock'
            => Resolved(record'[slot'[e].job], slot'[e].cachedUntil)
        /\ slot'[e].pc \in {"deleteExpired", "acquire", "create"}
            => slot'[e].cachedUntil <= clock'
        /\ slot'[e].pc = "running" => slot'[e].cachedUntil <= slot'[e].started
<1> SUFFICES ASSUME Types, CacheHeld, [Next]_vars,
                    NEW e \in Holder, slot'[e].job \notin wiped'
             PROVE  Goal(e)
  BY DEF CacheHeld
<1>t. TypeOK
  BY DEF Types
<1>n. /\ clock \in Nat /\ clock' \in Nat
      /\ \A d \in Holder : slot[d].cachedUntil \in Nat /\ slot[d].started \in Nat
  BY <1>t, SlotRead, TypesInductive DEF TypeOK, Types
<1>c. clock' = clock \/ clock' = clock + 1
  BY DEF Next, Proceed, vars, Time, Tick, DeadLetter, Deliver, Check, DeleteExpired,
         AcquireLock, LockConflict, CreateRecord, StoreThrows, HandlerEnds,
         HandlerReturns, HandlerThrows, Timeout, ZombieEnds, ExtendLock,
         RecordResult, RecordLost, ReleaseLock, ReleaseLost, Answer, Crash
<1>w. wiped \subseteq wiped'
  BY DEF Next, Proceed, vars, observed, Time, DeadLetter, Deliver, Check, DeleteExpired,
         AcquireLock, LockConflict, CreateRecord, StoreThrows, HandlerEnds,
         HandlerReturns, HandlerThrows, Timeout, ZombieEnds, ExtendLock,
         RecordResult, RecordLost, ReleaseLock, ReleaseLost, Answer, Crash
\* What the invariant says of e when its job is not touched.
<1>h. ASSUME slot'[e].job = slot[e].job
      PROVE  /\ slot[e].pc = "check" /\ slot[e].cachedUntil > clock
                => Resolved(record[slot[e].job], slot[e].cachedUntil)
             /\ slot[e].pc \in {"deleteExpired", "acquire", "create"}
                => slot[e].cachedUntil <= clock
             /\ slot[e].pc = "running" => slot[e].cachedUntil <= slot[e].started
  BY <1>h, <1>w DEF CacheHeld
<1>k. ASSUME slot'[e].pc = slot[e].pc, slot'[e].job = slot[e].job,
             slot'[e].started = slot[e].started,
             slot'[e].cachedUntil = slot[e].cachedUntil
      PROVE  Goal(e)
  <2>1. ASSUME slot[e].pc = "check", slot[e].cachedUntil > clock'
        PROVE  Resolved(record'[slot[e].job], slot[e].cachedUntil)
    <3>1. slot[e].cachedUntil > clock /\ slot[e].cachedUntil \in Nat
      BY <2>1, <1>c, <1>n
    <3>2. slot[e].job \in Job
      BY <2>1 DEF Types, JobsKnown
    <3>3. Resolved(record[slot[e].job], slot[e].cachedUntil)
      BY <1>h, <1>k, <2>1, <3>1
    <3>4. QED
      BY <1>k, <3>1, <3>2, <3>3, ResolvedStays
  <2>2. ASSUME slot[e].cachedUntil <= clock PROVE slot[e].cachedUntil <= clock'
    BY <2>2, <1>c, <1>n
  <2>3. QED
    BY <1>h, <1>k, <2>1, <2>2
\* A step of d that does not bring it nearer to its handler.
<1>o. ASSUME NEW d \in Holder, NEW p, NEW j, NEW h, NEW o, NEW s, NEW u, NEW c,
             Becomes(d, p, j, h, o, s, u, c),
             \/ e # d
             \/ p \notin {"check", "deleteExpired", "acquire", "create", "running"}
             \/ /\ p = slot[d].pc /\ j = slot[d].job
                /\ s = slot[d].started /\ c = slot[d].cachedUntil
      PROVE  Goal(e)
  <2>1. CASE e # d
    BY <1>k, <1>o, <2>1 DEF Becomes
  <2>2. CASE e = d /\ p \notin {"check", "deleteExpired", "acquire", "create", "running"}
    BY <1>o, <2>2 DEF Becomes
  <2>3. CASE e = d /\ p = slot[d].pc /\ j = slot[d].job
             /\ s = slot[d].started /\ c = slot[d].cachedUntil
    BY <1>k, <1>o, <2>3 DEF Becomes
  <2>4. QED
    BY <1>o, <2>1, <2>2, <2>3
<1> HIDE DEF Goal
<1>1. ASSUME Time \/ UNCHANGED vars PROVE Goal(e)
  BY <1>1, <1>k DEF Time, vars
<1>2. ASSUME NEW d \in Holder, NEW j \in Job, Deliver(d, j) PROVE Goal(e)
  <2>1. PICK p \in {"answer", "check"}, o \in {"none", "skipped", "failed"}, c \in Nat :
           /\ Becomes(d, p, j, "none", o, 0, 0, c)
           /\ c = IF Skips(j) THEN record[j].expiresAt ELSE 0
    BY <1>2, <1>t, DeliverBecomes
  <2>2. UNCHANGED <<clock, record>>
    BY <1>2 DEF Deliver
  <2>3. CASE e = d /\ p = "check"
    <3>1. ASSUME c > clock PROVE Resolved(record[j], c)
      BY <3>1, <1>n, <2>1 DEF Skips, Resolved
    <3>2. /\ slot'[e].pc = "check" /\ slot'[e].job = j
          /\ slot'[e].cachedUntil = c
      BY <2>1, <2>3 DEF Becomes
    <3>3. QED
      BY <2>2, <3>1, <3>2 DEF Goal
  <2>4. CASE e # d \/ p = "answer"
    BY <1>o, <2>1, <2>4
  <2>5. QED
    BY <2>1, <2>3, <2>4
<1>3. ASSUME NEW d \in Holder, Check(d) PROVE Goal(e)
  <2>1. UNCHANGED <<clock, record>> /\ slot[d].pc = "check" /\ slot[d].job \in Job
    BY <1>3 DEF Check, At, Types, JobsKnown
  <2>2. CASE Returns(d, CachedStatus(slot[d].job))
    BY <1>o, <2>2 DEF Returns
  <2>3. ASSUME ~Skips(slot[d].job),
               NEW p \in {"deleteExpired", "acquire", "create"}, Moves(d, p)
        PROVE  Goal(e)
    <3>1. CASE e = d
      <4>1. /\ slot'[e].job = slot[e].job /\ slot'[e].pc = p
            /\ slot'[e].cachedUntil = slot[e].cachedUntil
        BY <2>3, <3>1 DEF Moves, Becomes
      <4>2. slot[e].cachedUntil <= clock
        <5>1. SUFFICES ASSUME slot[e].cachedUntil > clock PROVE FALSE
          BY <1>n
        <5>2. Resolved(record[slot[e].job], slot[e].cachedUntil)
          BY <1>h, <2>1, <3>1, <4>1, <5>1
        <5>3. ~(record[slot[e].job].expiresAt <= clock)
          BY <1>n, <5>1, <5>2 DEF Resolved
        <5>4. QED
          BY <2>3, <3>1, <5>2, <5>3 DEF Skips, Resolved, RecordExpired
      <4>3. QED
        BY <2>1, <4>1, <4>2 DEF Goal
    <3>2. QED
      BY <1>o, <2>3, <3>1 DEF Moves
  <2>4. QED
    BY <1>3, <1>t, <2>1, <2>2, <2>3, CheckBecomes
\* On the way from the look to the handler.
<1>m. ASSUME NEW d \in Holder, NEW p \in {"acquire", "create"}, NEW u,
             slot[d].pc \in {"deleteExpired", "acquire", "create"},
             Becomes(d, p, slot[d].job, slot[d].handler, slot[d].outcome,
                     slot[d].started, u, slot[d].cachedUntil),
             clock' = clock
      PROVE  Goal(e)
  <2>1. CASE e = d
    <3>1. /\ slot'[e].job = slot[e].job /\ slot'[e].pc = p
          /\ slot'[e].cachedUntil = slot[e].cachedUntil
      BY <1>m, <2>1 DEF Becomes
    <3>2. slot[e].cachedUntil <= clock
      BY <1>h, <1>m, <2>1, <3>1
    <3>3. QED
      BY <1>m, <3>1, <3>2 DEF Goal
  <2>2. QED
    BY <1>m, <1>o, <2>1
<1>4. ASSUME NEW d \in Holder, DeleteExpired(d) PROVE Goal(e)
  <2>1. clock' = clock /\ slot[d].pc = "deleteExpired"
    BY <1>4 DEF DeleteExpired, At
  <2>2. QED
    BY <1>4, <1>m, <1>t, <2>1, DeleteBecomes DEF Moves
<1>5. ASSUME NEW d \in Holder, AcquireLock(d) PROVE Goal(e)
  <2>1. clock' = clock /\ slot[d].pc = "acquire"
    BY <1>5 DEF AcquireLock, At
  <2>2. QED
    BY <1>5, <1>m, <1>t, <2>1, AcquireBecomes
<1>6. ASSUME NEW d \in Holder, LockConflict(d) \/ StoreThrows(d) PROVE Goal(e)
  BY <1>6, <1>o, <1>t, ThrowReturns DEF Returns
<1>7. ASSUME NEW d \in Holder, CreateRecord(d) PROVE Goal(e)
  <2>1. clock' = clock /\ slot[d].pc = "create"
    BY <1>7 DEF CreateRecord, At
  <2>2. Becomes(d, "running", slot[d].job, "running", slot[d].outcome,
                clock, slot[d].until, slot[d].cachedUntil)
    BY <1>7, <1>t, CreateBecomes
  <2>3. CASE e = d
    <3>1. /\ slot'[e].job = slot[e].job /\ slot'[e].pc = "running"
          /\ slot'[e].cachedUntil = slot[e].cachedUntil /\ slot'[e].started = clock
      BY <2>2, <2>3 DEF Becomes
    <3>2. slot[e].cachedUntil <= clock
      BY <1>h, <2>1, <2>3, <3>1
    <3>3. QED
      BY <3>1, <3>2 DEF Goal
  <2>4. QED
    BY <1>o, <2>2, <2>3
<1>8. ASSUME NEW d \in Holder, HandlerEnds(d) \/ Timeout(d) PROVE Goal(e)
  BY <1>8, <1>o, <1>t, HandlerBecomes DEF Finishes
<1>9. ASSUME NEW d \in Holder, ZombieEnds(d) PROVE Goal(e)
  BY <1>9, <1>o, <1>t, ZombieBecomes DEF Empties
<1>10. ASSUME NEW d \in Holder, ExtendLock(d) PROVE Goal(e)
  BY <1>10, <1>o, <1>t, ExtendBecomes
<1>11. ASSUME NEW d \in Holder, RecordResult(d) \/ RecordLost(d) PROVE Goal(e)
  BY <1>11, <1>o, <1>t, RecordBecomes DEF Moves
<1>12. ASSUME NEW d \in Holder, ReleaseLock(d) \/ ReleaseLost(d) PROVE Goal(e)
  BY <1>12, <1>o, <1>t, ReleaseBecomes DEF Moves
<1>13. ASSUME NEW d \in Holder, Answer(d) PROVE Goal(e)
  BY <1>13, <1>o, <1>t, AnswerBecomes DEF Empties
<1>14. ASSUME NEW d \in Holder, Crash(d) PROVE Goal(e)
  BY <1>14, <1>o, <1>t, CrashBecomes DEF Empties
<1>15. ASSUME NEW j \in Job, DeadLetter(j) PROVE Goal(e)
  BY <1>15, <1>k DEF DeadLetter
<1> QED
  BY <1>1, <1>2, <1>3, <1>4, <1>5, <1>6, <1>7, <1>8, <1>9, <1>10, <1>11,
     <1>12, <1>13, <1>14, <1>15, NextSteps

\* A redelivery after the outcome was recorded is answered from the record:
\* however the earlier deliveries of the job race, a resolved record stays
\* resolved, with its time of expiry, until it runs out or get deletes it.
THEOREM WorkerAnswersFromRecord == Spec => []RedeliveryIsCached
<1>1. Init => Types /\ CacheHeld
  <2>1. Init => CacheHeld
    BY DEF Init, CacheHeld, Idle
  <2>2. QED
    BY <2>1, TypesInitially
<1>2. Types /\ CacheHeld /\ [Next]_vars => (Types /\ CacheHeld)'
  BY TypesInductive, CacheHeldInductive
<1>3. CacheHeld => RedeliveryIsCached
  BY DEF CacheHeld, RedeliveryIsCached, At, JobAt
<1> QED
  BY <1>1, <1>2, <1>3, PTL DEF Spec

=============================================================================
