---------------------- MODULE WorkflowExecutionProofs ----------------------
(***************************************************************************)
(* Theorems about WorkflowSchedule and WorkflowValidator, and about        *)
(* WorkflowExecution, which puts both beside the executor, for every finite*)
(* set of steps and all lists of dependencies, in whatever order the steps *)
(* are listed.  The inductive invariants are DrawInv of the schedule,      *)
(* ValidInv of the validator, and BothInv, which joins them to Inv of the  *)
(* executor.                                                               *)
(***************************************************************************)
EXTENDS WorkflowExecution, StepExecutorProofs

Elements(q) == {q[k] : k \in DOMAIN q}

Queued == Elements(todo)

\* Steps that the queue has not come to yet.
Unreached == {s \in Step : deps[s] # {} /\ depth[s] = 0}

\* No step lies deeper than one below some step that it depends on; and it
\* does lie below each one whose dependents have been looked at.
DepthsRise ==
    /\ \A s \in Step : depth[s] = 0 \/ \E d \in deps[s] : depth[s] <= depth[d] + 1
    /\ \A d \in Step \ (Queued \cup Unreached) :
          \A s \in Dependents(d) : depth[d] < depth[s]

\* maxDepth is the greatest depth.
MaxIsReached ==
    /\ \A s \in Step : depth[s] <= maxDepth
    /\ maxDepth = 0 \/ \E s \in Step : depth[s] = maxDepth

\* With the queue empty each step lies one below the deepest of its
\* dependencies.
DepthsExact ==
    \A s \in Step : /\ \A d \in deps[s] : depth[d] < depth[s]
                    /\ depth[s] > 0 => \E d \in deps[s] : depth[d] + 1 = depth[s]

\* The path made so far is the end of one through every level.
TrailRises ==
    Step # {} =>
        /\ trail # <<>>
        /\ \A k \in DOMAIN trail : depth[trail[k]] + Len(trail) = maxDepth + k
        /\ \A k \in 1 .. Len(trail) - 1 : trail[k] \in deps[trail[k + 1]]
        /\ Dependents(trail[Len(trail)]) = {}

DrawInv ==
    /\ DrawTypeOK
    /\ drawing = "none" => Undrawn
    /\ drawing # "none" => Plannable(deps) /\ DepthsRise /\ MaxIsReached
    /\ drawing = "relax" => trail = <<>>
    /\ drawing \in {"trace", "drawn"} => DepthsExact /\ TrailRises
    /\ drawing = "drawn" /\ trail # <<>> => deps[trail[1]] = {}

----------------------------------------------------------------------------
(* Levels *)

\* The one level of a step, what is above it and what is right above it.
LEMMA LevelOf ==
    ASSUME NEW D, NEW L \in Seq(SUBSET Step), Layered(D, L), NEW s \in Step
    PROVE  \E k \in DOMAIN L :
              /\ \A j \in DOMAIN L : s \in L[j] <=> j = k
              /\ \A d \in D[s] : \E j \in 1 .. k - 1 : d \in L[j]
              /\ k > 1 => D[s] \cap L[k - 1] # {}
BY Zenon DEF Layered

LEMMA OneLevel ==
    ASSUME NEW D, NEW L \in Seq(SUBSET Step), Layered(D, L), NEW s \in Step,
           NEW j \in DOMAIN L, NEW k \in DOMAIN L, s \in L[j], s \in L[k]
    PROVE  j = k
<1>1. PICK i \in DOMAIN L : \A x \in DOMAIN L : s \in L[x] <=> x = i
  BY Zenon DEF Layered
<1> QED
  BY <1>1

\* If two layerings agree on what a step depends on, the second has it no
\* deeper than the first.
LEMMA NoDeeper ==
    ASSUME NEW D, NEW L \in Seq(SUBSET Step), NEW M \in Seq(SUBSET Step),
           Layered(D, L), Layered(D, M),
           NEW s \in Step, NEW i \in DOMAIN L, NEW k \in DOMAIN M, s \in L[i], s \in M[k],
           \A d \in D[s] : \E j \in (DOMAIN L) \cap (DOMAIN M) : d \in L[j] /\ d \in M[j]
    PROVE  k <= i
<1> SUFFICES ASSUME i < k PROVE FALSE
  OBVIOUS
<1>1. DOMAIN L = 1 .. Len(L) /\ Len(L) \in Nat /\ DOMAIN M = 1 .. Len(M) /\ Len(M) \in Nat
  OBVIOUS
<1>2. PICK d \in D[s] : d \in M[k - 1]
  <2>1. k > 1 => D[s] \cap M[k - 1] # {}
    BY LevelOf
  <2> QED
    BY <1>1, <2>1
<1>3. PICK e \in 1 .. i - 1 : d \in L[e]
  <2>1. \A c \in D[s] : \E j \in 1 .. i - 1 : c \in L[j]
    BY LevelOf
  <2> QED
    BY <2>1
<1>4. PICK j \in (DOMAIN L) \cap (DOMAIN M) : d \in L[j] /\ d \in M[j]
  OBVIOUS
<1>5. d \in Step /\ e \in DOMAIN L /\ k - 1 \in DOMAIN M
  BY <1>1, <1>3
<1>6. j = e /\ j = k - 1
  <2>1. e = j
    BY <1>3, <1>4, <1>5, OneLevel
  <2>2. j = k - 1
    BY <1>2, <1>4, <1>5, OneLevel
  <2> QED
    BY <2>1, <2>2
<1> QED
  BY <1>1, <1>3, <1>6

\* An acyclic graph has one layering, up to empty levels.
LEMMA OneLayering ==
    ASSUME NEW D, Acyclic(D), NEW L \in Seq(SUBSET Step), NEW M \in Seq(SUBSET Step),
           Layered(D, L), Layered(D, M)
    PROVE  \A s \in Step : \E k \in (DOMAIN L) \cap (DOMAIN M) : s \in L[k] /\ s \in M[k]
<1> DEFINE Same(s) == \E k \in (DOMAIN L) \cap (DOMAIN M) : s \in L[k] /\ s \in M[k]
           Differ == {s \in Step : ~Same(s)}
<1> SUFFICES ASSUME Differ # {} PROVE FALSE
  OBVIOUS
<1>1. PICK s \in Differ : D[s] \cap Differ = {}
  <2>1. Differ \in SUBSET Step
    OBVIOUS
  <2> QED
    BY <2>1 DEF Acyclic
<1>2. PICK i \in DOMAIN L : /\ s \in L[i]
                            /\ \A d \in D[s] : \E j \in 1 .. i - 1 : d \in L[j]
  BY LevelOf
<1>3. PICK k \in DOMAIN M : s \in M[k]
  BY LevelOf
<1>4. \A d \in D[s] : Same(d)
  <2> TAKE d \in D[s]
  <2>1. PICK j \in 1 .. i - 1 : d \in L[j]
    BY <1>2
  <2>2. d \in Step
    BY <2>1
  <2> QED
    BY <1>1, <2>2
<1>5. k <= i /\ i <= k
  BY <1>2, <1>3, <1>4, NoDeeper
<1>6. i = k
  BY <1>5
<1> QED
  BY <1>1, <1>2, <1>3, <1>6

\* Depths that are exact make a layering.
LEMMA DepthsLayer ==
    ASSUME DrawTypeOK, WellNamed(deps), DepthsExact, MaxIsReached
    PROVE  Layered(deps, ExecutionSchedule)
<1> SUFFICES ASSUME NEW s \in Step
             PROVE  LET k == depth[s] + 1
                        L == ExecutionSchedule
                    IN  /\ k \in DOMAIN L
                        /\ \A j \in DOMAIN L : s \in L[j] <=> j = k
                        /\ \A d \in deps[s] : \E j \in 1 .. k - 1 : d \in L[j]
                        /\ k > 1 => deps[s] \cap L[k - 1] # {}
  BY DEF Layered
<1> DEFINE L == ExecutionSchedule
<1>1. /\ DOMAIN L = 1 .. maxDepth + 1 /\ maxDepth \in Nat
      /\ \A t \in Step : depth[t] \in Nat /\ depth[t] <= maxDepth
      /\ deps[s] \subseteq Step
  BY DEF ExecutionSchedule, DrawTypeOK, MaxIsReached, WellNamed
<1>2. \A j \in 1 .. maxDepth + 1 : \A t \in Step : t \in L[j] <=> depth[t] = j - 1
  BY DEF ExecutionSchedule
<1> HIDE DEF L
<1>3. depth[s] + 1 \in DOMAIN L /\ \A j \in DOMAIN L : s \in L[j] <=> j = depth[s] + 1
  BY <1>1, <1>2
<1>4. ASSUME NEW d \in deps[s] PROVE \E j \in 1 .. depth[s] : d \in L[j]
  <2>1. depth[d] + 1 \in 1 .. depth[s] /\ depth[d] + 1 \in 1 .. maxDepth + 1
    BY <1>1 DEF DepthsExact
  <2> QED
    BY <1>1, <1>2, <2>1
<1>5. ASSUME depth[s] > 0 PROVE deps[s] \cap L[depth[s]] # {}
  <2>1. PICK d \in deps[s] : depth[d] + 1 = depth[s]
    BY <1>5 DEF DepthsExact
  <2>2. depth[s] \in 1 .. maxDepth + 1 /\ d \in L[depth[s]]
    BY <1>1, <1>2, <1>5, <2>1
  <2> QED
    BY <2>2
<1> QED
  BY <1>1, <1>3, <1>4, <1>5 DEF L

----------------------------------------------------------------------------
(* buildGraph *)

\* A listing of a set is a sequence of its members.
LEMMA ListingOf ==
    ASSUME NEW S \in SUBSET Step, NEW q \in Listings(S)
    PROVE  q \in Seq(Step) /\ Elements(q) = S
<1>1. Cardinality(S) \in Nat
  BY StepSets
<1>2. q \in [1 .. Cardinality(S) -> S] /\ \A s \in S : \E k \in DOMAIN q : q[k] = s
  BY Zenon DEF Listings
<1>3. q \in Seq(Step)
  BY <1>1, <1>2
<1> QED
  BY <1>2, <1>3 DEF Elements

\* What is in a queue whose head was taken and that was added to.
LEMMA QueueAfter ==
    ASSUME NEW t \in Seq(Step), t # <<>>, NEW q \in Seq(Step)
    PROVE  /\ Tail(t) \o q \in Seq(Step)
           /\ Elements(Tail(t) \o q) \cup {Head(t)} = Elements(t) \cup Elements(q)
           /\ Elements(q) \subseteq Elements(Tail(t) \o q)
<1> DEFINE u == Tail(t) \o q
           n == Len(t)
           m == Len(q)
<1>1. /\ n \in Nat \ {0} /\ m \in Nat /\ DOMAIN t = 1 .. n /\ DOMAIN q = 1 .. m
      /\ Tail(t) \in Seq(Step) /\ Len(Tail(t)) = n - 1
      /\ \A k \in 1 .. n - 1 : Tail(t)[k] = t[k + 1]
      /\ Head(t) = t[1]
  OBVIOUS
<1> HIDE DEF n, m
<1>2. /\ u \in Seq(Step) /\ Len(u) = n - 1 + m /\ DOMAIN u = 1 .. n - 1 + m
      /\ \A k \in 1 .. n - 1 : u[k] = t[k + 1]
      /\ \A k \in 1 .. m : u[n - 1 + k] = q[k]
  BY <1>1 DEF m
<1> HIDE DEF u
<1>3. \A k \in DOMAIN u : u[k] \in Elements(t) \cup Elements(q)
  <2> USE DEF Elements
  <2> TAKE k \in DOMAIN u
  <2>1. CASE k \in 1 .. n - 1
    <3>1. k + 1 \in DOMAIN t /\ u[k] = t[k + 1]
      BY <1>1, <1>2, <2>1
    <3> QED
      BY <3>1
  <2>2. CASE k \notin 1 .. n - 1
    <3>1. k - (n - 1) \in 1 .. m /\ u[n - 1 + (k - (n - 1))] = q[k - (n - 1)]
      BY <1>1, <1>2, <2>2
    <3> QED
      BY <1>1, <1>2, <3>1
  <2> QED
    BY <2>1, <2>2
<1>4. \A j \in DOMAIN q : q[j] \in Elements(u)
  <2> USE DEF Elements
  <2> TAKE j \in DOMAIN q
  <2>1. n - 1 + j \in DOMAIN u /\ u[n - 1 + j] = q[j]
    BY <1>1, <1>2
  <2> QED
    BY <2>1
<1>5. \A j \in DOMAIN t : t[j] \in Elements(u) \cup {Head(t)}
  <2> USE DEF Elements
  <2> TAKE j \in DOMAIN t
  <2>1. CASE j = 1
    BY <1>1, <2>1
  <2>2. CASE j # 1
    <3>1. j - 1 \in 1 .. n - 1 /\ j - 1 \in DOMAIN u /\ u[j - 1] = t[j]
      BY <1>1, <1>2, <2>2
    <3> QED
      BY <3>1
  <2> QED
    BY <2>1, <2>2
<1>6. Head(t) \in Elements(t)
  BY <1>1 DEF Elements
<1>7. /\ \A e \in Elements(u) : e \in Elements(t) \cup Elements(q)
      /\ \A e \in Elements(q) : e \in Elements(u)
      /\ \A e \in Elements(t) : e \in Elements(u) \cup {Head(t)}
  BY <1>3, <1>4, <1>5 DEF Elements
<1>8. u \in Seq(Step)
  BY <1>2
<1> QED
  BY <1>6, <1>7, <1>8 DEF u

LEMMA GraphStarts ==
    ASSUME Undrawn, Plannable(deps), StartGraph
    PROVE  DrawInv'
<1>1. /\ drawing' = "relax" /\ todo' \in Listings(Roots) /\ UNCHANGED deps
      /\ depth' = [s \in Step |-> 0] /\ maxDepth' = 0 /\ trail' = <<>>
  BY DEF StartGraph, Undrawn
<1>2. todo' \in Seq(Step) /\ Queued' = Roots
  <2>1. Roots \in SUBSET Step
    BY DEF Roots
  <2> QED
    BY <1>1, <2>1, ListingOf DEF Queued
<1>3. DrawTypeOK'
  BY <1>1, <1>2 DEF DrawTypeOK
<1>4. Plannable(deps)'
  BY <1>1 DEF Plannable, WellNamed, Acyclic
<1>5. DepthsRise' /\ MaxIsReached'
  <2>1. Step \ (Queued' \cup Unreached') = {}
    BY <1>1, <1>2 DEF Roots, Unreached
  <2> QED
    BY <1>1, <2>1 DEF DepthsRise, MaxIsReached
<1> QED
  BY <1>1, <1>3, <1>4, <1>5 DEF DrawInv

\* No step of a graph that can be executed depends on itself.
LEMMA NoSelfLoop ==
    ASSUME Plannable(deps), NEW s \in Step
    PROVE  s \notin deps[s]
<1>1. {s} \in SUBSET Step /\ {s} # {}
  OBVIOUS
<1> QED
  BY <1>1, Zenon DEF Plannable, Acyclic

LEMMA RelaxKeeps ==
    ASSUME DrawTypeOK, Plannable(deps), DepthsRise, MaxIsReached, Relax
    PROVE  DrawTypeOK' /\ DepthsRise' /\ MaxIsReached'
<1> DEFINE node == Head(todo)
           next == depth[node] + 1
<1>1. /\ todo \in Seq(Step) /\ todo # <<>> /\ node \in Step
      /\ depth \in [Step -> Nat] /\ maxDepth \in Nat /\ trail \in Seq(Step)
  BY DEF Relax, DrawTypeOK
<1>2. /\ depth' = [s \in Step |-> IF s \in Raised(node) THEN next ELSE depth[s]]
      /\ maxDepth' = IF Raised(node) # {} /\ next > maxDepth THEN next ELSE maxDepth
      /\ UNCHANGED <<deps, drawing, trail>>
  BY DEF Relax
<1>3. PICK q \in Listings(Raised(node)) : todo' = Tail(todo) \o q
  BY DEF Relax
<1>4. /\ Raised(node) \in SUBSET Step
      /\ \A s \in Step : s \in Raised(node) <=> node \in deps[s] /\ next > depth[s]
  BY DEF Raised, Dependents
<1>5. /\ q \in Seq(Step) /\ todo' \in Seq(Step)
      /\ Queued' \cup {node} = Queued \cup Raised(node)
      /\ Raised(node) \subseteq Queued'
  <2>1. q \in Seq(Step) /\ Elements(q) = Raised(node)
    BY <1>4, ListingOf
  <2>2. /\ Tail(todo) \o q \in Seq(Step)
        /\ Elements(Tail(todo) \o q) \cup {node} = Elements(todo) \cup Elements(q)
        /\ Elements(q) \subseteq Elements(Tail(todo) \o q)
    BY <1>1, <2>1, QueueAfter
  <2>3. Queued' = Elements(Tail(todo) \o q)
    BY <1>3 DEF Queued
  <2> QED
    BY <1>3, <2>1, <2>2, <2>3 DEF Queued
<1> HIDE DEF node
<1>6. node \notin Raised(node)
  BY <1>1, <1>4, NoSelfLoop
<1>7. /\ next \in Nat /\ depth'[node] = depth[node]
      /\ \A s \in Step : depth'[s] \in Nat /\ depth[s] <= depth'[s]
      /\ \A s \in Step : s \notin Raised(node) => depth'[s] = depth[s]
  BY <1>1, <1>2, <1>4, <1>6
<1>8. DrawTypeOK'
  BY <1>1, <1>2, <1>5, <1>7 DEF DrawTypeOK
<1>9. \A s \in Step : depth'[s] = 0 \/ \E d \in deps[s] : depth'[s] <= depth'[d] + 1
  <2> TAKE s \in Step
  <2>1. CASE s \in Raised(node)
    BY <1>2, <1>4, <1>7, <2>1
  <2>2. CASE s \notin Raised(node) /\ depth[s] # 0
    <3>1. PICK d \in deps[s] : depth[s] <= depth[d] + 1
      BY <2>2 DEF DepthsRise
    <3>2. d \in Step
      BY DEF Plannable, WellNamed
    <3> QED
      BY <1>1, <1>7, <2>2, <3>1, <3>2
  <2>3. CASE s \notin Raised(node) /\ depth[s] = 0
    BY <1>7, <2>3
  <2> QED
    BY <2>1, <2>2, <2>3
<1>10. ASSUME NEW d \in Step \ (Queued' \cup Unreached'), NEW s \in Step, d \in deps[s]
       PROVE  depth'[d] < depth'[s]
  <2>1. d \notin Raised(node) /\ depth'[d] = depth[d]
    BY <1>5, <1>7
  <2>2. CASE d = node
    <3>1. CASE s \in Raised(node)
      BY <1>1, <1>2, <2>1, <2>2, <3>1
    <3>2. CASE s \notin Raised(node)
      BY <1>1, <1>4, <1>7, <1>10, <2>1, <2>2, <3>2
    <3> QED
      BY <3>1, <3>2
  <2>3. CASE d # node
    <3>1. d \notin Queued
      BY <1>5, <2>3
    <3>2. d \notin Unreached
      BY <1>2, <2>1 DEF Unreached
    <3>3. depth[d] < depth[s]
      BY <1>10, <3>1, <3>2 DEF DepthsRise, Dependents
    <3> QED
      BY <1>1, <1>7, <2>1, <3>3
  <2> QED
    BY <2>2, <2>3
<1>11. DepthsRise'
  BY <1>2, <1>9, <1>10 DEF DepthsRise, Dependents
<1>12. MaxIsReached'
  <2>1. CASE Raised(node) # {} /\ next > maxDepth
    BY <1>1, <1>2, <1>4, <1>7, <2>1 DEF MaxIsReached
  <2>2. CASE ~(Raised(node) # {} /\ next > maxDepth)
    <3>1. maxDepth' = maxDepth /\ \A s \in Step : depth'[s] <= maxDepth
      BY <1>1, <1>2, <1>7, <2>2 DEF MaxIsReached
    <3>2. ASSUME maxDepth # 0 PROVE \E s \in Step : depth'[s] = maxDepth
      <4>1. PICK s \in Step : depth[s] = maxDepth
        BY <3>2 DEF MaxIsReached
      <4>2. depth'[s] = maxDepth
        BY <1>1, <1>7, <3>1, <4>1
      <4> QED
        BY <4>2
    <3> QED
      BY <3>1, <3>2 DEF MaxIsReached
  <2> QED
    BY <2>1, <2>2
<1> QED
  BY <1>8, <1>11, <1>12

\* With nothing queued every step has been reached, and the depths are exact.
LEMMA DepthsDone ==
    ASSUME DrawTypeOK, Plannable(deps), DepthsRise, todo = <<>>
    PROVE  DepthsExact
<1>1. Queued = {} /\ Unreached \in SUBSET Step /\ depth \in [Step -> Nat]
  BY DEF Queued, Elements, Unreached, DrawTypeOK
<1>2. \A s \in Step : deps[s] \subseteq Step
  BY DEF Plannable, WellNamed
<1>3. Unreached = {}
  <2> SUFFICES ASSUME Unreached # {} PROVE FALSE
    OBVIOUS
  <2>1. PICK s \in Unreached : deps[s] \cap Unreached = {}
    BY <1>1 DEF Plannable, Acyclic
  <2>2. PICK d \in deps[s] : TRUE
    BY <2>1 DEF Unreached
  <2>3. depth[d] < depth[s]
    BY <1>1, <1>2, <2>1, <2>2 DEF DepthsRise, Dependents, Unreached
  <2> QED
    BY <1>1, <1>2, <2>1, <2>2, <2>3 DEF Unreached
<1>4. \A s \in Step : \A d \in deps[s] : depth[d] < depth[s]
  BY <1>1, <1>2, <1>3 DEF DepthsRise, Dependents
<1>5. ASSUME NEW s \in Step, depth[s] > 0 PROVE \E d \in deps[s] : depth[d] + 1 = depth[s]
  <2>1. PICK d \in deps[s] : depth[s] <= depth[d] + 1
    BY <1>1, <1>5 DEF DepthsRise
  <2> QED
    BY <1>1, <1>2, <1>4, <2>1
<1> QED
  BY <1>4, <1>5 DEF DepthsExact

----------------------------------------------------------------------------
(* findCriticalPath *)

\* The deepest of the leaves is as deep as any step.
LEMMA TraceStarts ==
    ASSUME DrawTypeOK, Plannable(deps), DepthsExact, MaxIsReached, StartTrace
    PROVE  trail' \in Seq(Step) /\ TrailRises'
<1>1. /\ depth \in [Step -> Nat] /\ maxDepth \in Nat
      /\ UNCHANGED <<deps, depth, maxDepth>>
  BY DEF DrawTypeOK, StartTrace
<1>2. CASE Step = {}
  BY <1>2 DEF StartTrace, TrailRises
<1>3. CASE Step # {}
  <2>1. PICK s \in Deepest(Leaves) : trail' = <<s>>
    BY <1>3 DEF StartTrace
  <2>2. s \in Step /\ Dependents(s) = {} /\ \A t \in Leaves : depth[t] <= depth[s]
    BY <2>1 DEF Deepest, Leaves
  <2>3. PICK t \in Step : depth[t] = maxDepth
    BY <1>1, <1>3 DEF MaxIsReached
  <2>4. t \in Leaves
    BY <1>1, <2>3 DEF Leaves, Dependents, DepthsExact, MaxIsReached
  <2>5. depth[s] = maxDepth
    BY <1>1, <2>2, <2>3, <2>4 DEF MaxIsReached
  <2>6. /\ trail' \in Seq(Step) /\ trail' # <<>> /\ Len(trail') = 1
        /\ DOMAIN trail' = {1} /\ trail'[1] = s
    BY <2>1, <2>2
  <2>7. Dependents(s)' = {}
    BY <1>1, <2>2 DEF Dependents
  <2>8. /\ \A k \in DOMAIN trail' : depth'[trail'[k]] + Len(trail') = maxDepth' + k
        /\ \A k \in 1 .. Len(trail') - 1 : trail'[k] \in deps'[trail'[k + 1]]
        /\ Dependents(trail[Len(trail)])' = {}
    BY <1>1, <2>5, <2>6, <2>7 DEF Dependents
  <2> QED
    BY <2>6, <2>8 DEF TrailRises
<1> QED
  BY <1>2, <1>3

\* The deepest dependency of a step lies right above it.
LEMMA TraceGoesUp ==
    ASSUME DrawTypeOK, Plannable(deps), DepthsExact, TrailRises, TraceBack
    PROVE  trail' \in Seq(Step) /\ TrailRises'
<1> DEFINE s == Head(trail)
           n == Len(trail)
<1>1. PICK d \in Deepest(deps[s]) : trail' = <<d>> \o trail
  BY DEF TraceBack
<1>2. /\ trail \in Seq(Step) /\ trail # <<>> /\ s = trail[1] /\ s \in Step
      /\ n \in Nat \ {0} /\ DOMAIN trail = 1 .. n
      /\ depth \in [Step -> Nat] /\ maxDepth \in Nat
      /\ UNCHANGED <<deps, depth, maxDepth>>
  BY DEF DrawTypeOK, TraceBack
<1>3. /\ d \in deps[s] /\ d \in Step
      /\ \A e \in deps[s] : e \in Step /\ depth[e] <= depth[d]
  BY <1>1, <1>2 DEF Deepest, Plannable, WellNamed
<1>4. depth[d] + 1 = depth[s]
  <2>1. depth[d] < depth[s]
    BY <1>2, <1>3 DEF DepthsExact
  <2>2. PICK e \in deps[s] : depth[e] + 1 = depth[s]
    BY <1>2, <1>3, <2>1 DEF DepthsExact
  <2> QED
    BY <1>2, <1>3, <2>1, <2>2
<1> HIDE DEF s, n
<1>5. /\ trail' \in Seq(Step) /\ trail' # <<>> /\ Len(trail') = n + 1
      /\ DOMAIN trail' = 1 .. n + 1 /\ trail'[1] = d
      /\ \A k \in 2 .. n + 1 : trail'[k] = trail[k - 1]
  BY <1>1, <1>2, <1>3 DEF n
<1>6. /\ \A k \in 1 .. n : depth[trail[k]] + n = maxDepth + k
      /\ \A k \in 1 .. n - 1 : trail[k] \in deps[trail[k + 1]]
      /\ Dependents(trail[n]) = {}
  BY <1>2 DEF TrailRises, n
<1>7. ASSUME NEW k \in 1 .. n + 1
      PROVE  depth[trail'[k]] + (n + 1) = maxDepth + k
  <2>1. CASE k = 1
    <3>1. depth[s] + n = maxDepth + 1
      BY <1>2, <1>6
    <3> QED
      BY <1>2, <1>3, <1>4, <1>5, <2>1, <3>1
  <2>2. CASE k # 1
    <3>1. k - 1 \in 1 .. n /\ trail'[k] = trail[k - 1] /\ depth[trail[k - 1]] \in Nat
      BY <1>2, <1>5, <2>2
    <3>2. depth[trail[k - 1]] + n = maxDepth + (k - 1)
      BY <1>6, <3>1
    <3> QED
      BY <1>2, <3>1, <3>2
  <2> QED
    BY <2>1, <2>2
<1>8. ASSUME NEW k \in 1 .. n
      PROVE  trail'[k] \in deps[trail'[k + 1]]
  <2>1. k + 1 \in 2 .. n + 1 /\ trail'[k + 1] = trail[k]
    BY <1>2, <1>5
  <2>2. CASE k = 1
    BY <1>2, <1>3, <1>5, <2>1, <2>2
  <2>3. CASE k # 1
    <3>1. k - 1 \in 1 .. n - 1 /\ trail'[k] = trail[k - 1]
      BY <1>2, <1>5, <2>3
    <3>2. trail[k - 1] \in deps[trail[(k - 1) + 1]]
      BY <1>6, <3>1
    <3> QED
      BY <1>2, <2>1, <3>1, <3>2
  <2> QED
    BY <2>2, <2>3
<1>9. Dependents(trail[Len(trail)])' = {}
  <2>1. trail'[Len(trail')] = trail[n]
    BY <1>2, <1>5
  <2> QED
    BY <1>2, <1>6, <2>1 DEF Dependents
<1>10. /\ \A k \in DOMAIN trail' : depth'[trail'[k]] + Len(trail') = maxDepth' + k
       /\ \A k \in 1 .. Len(trail') - 1 : trail'[k] \in deps'[trail'[k + 1]]
  BY <1>2, <1>5, <1>7, <1>8
<1> QED
  BY <1>5, <1>9, <1>10 DEF TrailRises

----------------------------------------------------------------------------
(* The schedule *)

\* A graph is drawn only if it can be executed.
LEMMA DrawStep ==
    ASSUME DrawInv, drawing = "none" => Plannable(deps), [Draw]_<<deps, drawVars>>
    PROVE  DrawInv'
<1>1. CASE StartGraph
  <2>1. Undrawn /\ Plannable(deps)
    BY <1>1 DEF DrawInv, StartGraph
  <2> QED
    BY <1>1, <2>1, GraphStarts
<1>2. CASE Relax
  <2>1. DrawTypeOK /\ Plannable(deps) /\ DepthsRise /\ MaxIsReached /\ trail = <<>>
    BY <1>2 DEF DrawInv, Relax
  <2>2. DrawTypeOK' /\ DepthsRise' /\ MaxIsReached'
    BY <1>2, <2>1, RelaxKeeps
  <2>3. drawing' = "relax" /\ UNCHANGED <<deps, trail>>
    BY <1>2 DEF Relax
  <2> QED
    BY <2>1, <2>2, <2>3 DEF DrawInv, Plannable, WellNamed, Acyclic
<1>3. CASE StartTrace
  <2>1. /\ DrawTypeOK /\ Plannable(deps) /\ DepthsRise /\ MaxIsReached /\ todo = <<>>
        /\ drawing' = "trace" /\ UNCHANGED <<deps, depth, maxDepth, todo>>
    BY <1>3 DEF DrawInv, StartTrace
  <2>2. DepthsExact
    BY <2>1, DepthsDone
  <2>3. trail' \in Seq(Step) /\ TrailRises'
    BY <1>3, <2>1, <2>2, TraceStarts
  <2>4. DrawTypeOK' /\ DepthsExact' /\ DepthsRise' /\ MaxIsReached' /\ Plannable(deps)'
    BY <2>1, <2>2, <2>3 DEF DrawTypeOK, DepthsExact, DepthsRise, Queued, Elements,
       Unreached, Dependents, MaxIsReached, Plannable, WellNamed, Acyclic
  <2> QED
    BY <2>1, <2>3, <2>4 DEF DrawInv
<1>4. CASE TraceBack
  <2>1. /\ DrawTypeOK /\ Plannable(deps) /\ DepthsRise /\ MaxIsReached
        /\ DepthsExact /\ TrailRises /\ drawing = "trace"
        /\ UNCHANGED <<deps, drawing, depth, maxDepth, todo>>
    BY <1>4 DEF DrawInv, TraceBack
  <2>2. trail' \in Seq(Step) /\ TrailRises'
    BY <1>4, <2>1, TraceGoesUp
  <2>3. DrawTypeOK' /\ DepthsExact' /\ DepthsRise' /\ MaxIsReached' /\ Plannable(deps)'
    BY <2>1, <2>2 DEF DrawTypeOK, DepthsExact, DepthsRise, Queued, Elements,
       Unreached, Dependents, MaxIsReached, Plannable, WellNamed, Acyclic
  <2> QED
    BY <2>1, <2>2, <2>3 DEF DrawInv
<1>5. CASE EndTrace
  <2>1. /\ DrawTypeOK /\ Plannable(deps) /\ DepthsRise /\ MaxIsReached
        /\ DepthsExact /\ TrailRises
        /\ trail # <<>> => deps[Head(trail)] = {}
        /\ drawing' = "drawn" /\ UNCHANGED <<deps, depth, maxDepth, todo, trail>>
    BY <1>5 DEF DrawInv, EndTrace
  <2>2. trail # <<>> => Head(trail) = trail[1]
    BY <2>1 DEF DrawTypeOK
  <2>3. /\ DrawTypeOK' /\ DepthsExact' /\ TrailRises' /\ DepthsRise' /\ MaxIsReached'
        /\ Plannable(deps)'
    BY <2>1 DEF DrawTypeOK, DepthsExact, DepthsRise, Queued, Elements, TrailRises,
       Unreached, Dependents, MaxIsReached, Plannable, WellNamed, Acyclic
  <2> QED
    BY <2>1, <2>2, <2>3 DEF DrawInv
<1>6. CASE UNCHANGED <<deps, drawVars>>
  <2>1. UNCHANGED <<deps, drawing, depth, maxDepth, todo, trail>>
    BY <1>6 DEF drawVars
  <2>2. DrawTypeOK => DrawTypeOK'
    BY <2>1 DEF DrawTypeOK
  <2>3. Undrawn => Undrawn'
    BY <2>1 DEF Undrawn
  <2>4. Plannable(deps) => Plannable(deps)'
    BY <2>1 DEF Plannable, WellNamed, Acyclic
  <2>5. DepthsRise /\ MaxIsReached => DepthsRise' /\ MaxIsReached'
    BY <2>1 DEF DepthsRise, Queued, Elements, Unreached, Dependents, MaxIsReached
  <2>6. DepthsExact /\ TrailRises => DepthsExact' /\ TrailRises'
    BY <2>1 DEF DepthsExact, TrailRises, Dependents
  <2> QED
    BY <2>1, <2>2, <2>3, <2>4, <2>5, <2>6 DEF DrawInv
<1> QED
  BY <1>1, <1>2, <1>3, <1>4, <1>5, <1>6 DEF Draw

\* What the invariant says of a schedule that is done.
LEMMA DrawnIsRight ==
    ASSUME DrawInv
    PROVE  ScheduleIsLayered /\ CriticalPathIsLongest
<1>1. ScheduleIsLayered
  BY DepthsLayer DEF ScheduleIsLayered, DrawInv, Plannable
<1>2. ASSUME drawing = "drawn", Step # {}
      PROVE  /\ Len(trail) = Len(ExecutionSchedule)
             /\ deps[trail[1]] = {} /\ Dependents(trail[Len(trail)]) = {}
             /\ \A k \in 1 .. Len(trail) - 1 : trail[k] \in deps[trail[k + 1]]
  <2>1. DrawTypeOK /\ DepthsExact /\ TrailRises
    BY <1>2 DEF DrawInv
  <2>2. /\ trail \in Seq(Step) /\ trail # <<>> /\ 1 \in DOMAIN trail
        /\ Len(trail) \in Nat /\ maxDepth \in Nat
        /\ trail[1] \in Step /\ depth[trail[1]] \in Nat
    BY <1>2, <2>1 DEF DrawTypeOK, TrailRises
  <2>3. deps[trail[1]] = {}
    BY <1>2, <2>2 DEF DrawInv
  <2>4. depth[trail[1]] = 0
    BY <2>1, <2>2, <2>3 DEF DepthsExact
  <2>5. depth[trail[1]] + Len(trail) = maxDepth + 1
    BY <1>2, <2>1, <2>2 DEF TrailRises
  <2>6. Len(ExecutionSchedule) = maxDepth + 1
    BY <2>2 DEF ExecutionSchedule
  <2>7. Len(trail) = Len(ExecutionSchedule)
    BY <2>2, <2>4, <2>5, <2>6
  <2> QED
    BY <1>2, <2>1, <2>3, <2>7 DEF TrailRises
<1> QED
  BY <1>1, <1>2 DEF CriticalPathIsLongest

\* createExecutionSchedule by itself, called with a workflow that can be
\* executed: its depths and its path are right when it is done.
THEOREM ScheduleIsRight == ScheduleSpec => []ScheduleIsLayered /\ []CriticalPathIsLongest
<1> DEFINE Given == Plannable(deps) /\ DrawInv
<1>1. deps \in StepGraphs /\ Plannable(deps) /\ Undrawn => Given
  BY DEF Undrawn, DrawInv, DrawTypeOK
<1>2. Given /\ [Draw]_<<deps, drawVars>> => Given'
  <2> SUFFICES ASSUME Given, [Draw]_<<deps, drawVars>> PROVE Given'
    OBVIOUS
  <2>1. DrawInv'
    BY DrawStep
  <2>2. UNCHANGED deps
    BY DEF Draw, StartGraph, Relax, StartTrace, TraceBack, EndTrace
  <2> QED
    BY <2>1, <2>2 DEF Plannable, WellNamed, Acyclic
<1>3. Given => ScheduleIsLayered /\ CriticalPathIsLongest
  BY DrawnIsRight
<1> QED
  BY <1>1, <1>2, <1>3, PTL DEF ScheduleSpec

----------------------------------------------------------------------------
(* The validator *)

\* Each running call is of a dependency of the one before it.
CallsLead == \A k \in 1 .. Len(calls) - 1 : calls[k + 1] \in ListedBy(calls[k])

\* Gray steps are those whose dfs is running, and what a step was followed to
\* is black, no step, or the next of them; no cycle leads through black steps.
ColorsRight ==
    /\ gray = Elements(calls) /\ gray \cap black = {}
    /\ \A j, k \in DOMAIN calls : calls[j] = calls[k] => j = k
    /\ \A s \in Step \ (gray \cup black) : looked[s] = 0
    /\ \A s \in black : ListedBy(s) \subseteq {NoStep} \cup black
    /\ \A k \in DOMAIN calls : \A i \in 1 .. looked[calls[k]] :
          \/ lists[calls[k]][i] \in {NoStep} \cup black
          \/ k < Len(calls) /\ lists[calls[k]][i] = calls[k + 1]
    /\ \A S \in SUBSET black : S # {} => \E s \in S : ListedBy(s) \cap S = {}
    /\ \A j \in 1 .. turn - 1 : Listed[j] \in black
    /\ reported = <<>>

CyclesRight ==
    /\ reported = <<>> => Acyclic(Graph)
    /\ reported # <<>> => ReportedRight /\ ~Acyclic(Graph)

\* No depth is more than one above that of some dependency, and the greatest
\* is that of some step.
HeightsRise ==
    /\ \A s \in Step : \/ height[s] = 0
                       \/ NoStep \in ListedBy(s)
                       \/ \E d \in ListedBy(s) : height[s] <= height[d] + 1
    /\ deepest = 0 \/ \E s \in Step : deepest <= height[s]

\* If steps are listed in order getDepth never calls itself: all dependencies
\* have been measured.
MeasuredInOrder ==
    /\ calls # <<>> => /\ turn <= Len(Listed) /\ calls = <<Listed[turn]>>
                       /\ seen = {Listed[turn]} /\ Listed[turn] \notin measured
    /\ \A j \in 1 .. turn - 1 : Listed[j] \in measured /\ height[Listed[j]] <= deepest
    /\ \A s \in measured : looked[s] = Len(lists[s])
    /\ \A s \in Step : \A i \in 1 .. looked[s] :
          lists[s][i] \in measured /\ height[lists[s][i]] < height[s]

\* The dependencies of s, by their places in its list, that are not counted off.
Entries(s) == {k \in DOMAIN lists[s] :
                 lists[s][k] \notin Elements(order) \/ <<s, k>> \in uncounted}

\* Degrees count these, and a step is queued or ordered when there are none.
SortRight ==
    /\ \A s \in Step : degree[s] = Cardinality(Entries(s))
    /\ \A s \in Step : s \in Elements(order) \cup Elements(due) <=> Entries(s) = {}
    /\ \A e \in uncounted : /\ e[2] \in DOMAIN lists[e[1]]
                            /\ lists[e[1]][e[2]] \in Elements(order)
    /\ \A j, k \in DOMAIN order : order[j] = order[k] => j = k
    /\ \A j, k \in DOMAIN due : due[j] = due[k] => j = k
    /\ Elements(order) \cap Elements(due) = {}
    /\ \A k \in DOMAIN order : \A d \in ListedBy(order[k]) :
          \E j \in 1 .. k - 1 : order[j] = d

ValidInv ==
    /\ ValidTypeOK
    /\ CallsLead
    /\ calls # <<>> => turn <= Len(Listed)
    /\ judging = "cycles" => ColorsRight
    /\ judging \in {"cycles", "depth"} => order = <<>> /\ due = <<>> /\ uncounted = {}
    /\ judging \in {"order", "done"} => calls = <<>> /\ turn = Len(Listed) + 1
    /\ judging = "cycles" =>
          measured = {} /\ height = [s \in Step |-> 0] /\ deepest = 0
    /\ judging # "cycles" => CyclesRight /\ HeightsRise
    /\ judging # "cycles" /\ ListedInOrder => MeasuredInOrder
    /\ judging = "order" => Valid /\ SortRight
    /\ judging = "done" /\ Valid => OrderedRight

\* A listing names each member once, and what names each step once lists them.
LEMMA ListingOnce ==
    ASSUME NEW S \in SUBSET Step, NEW q \in Listings(S)
    PROVE  \A j, k \in DOMAIN q : q[j] = q[k] => j = k
<1> DEFINE n == Cardinality(S)
<1>1. n \in Nat /\ IsFiniteSet(1 .. n) /\ Cardinality(1 .. n) = n
  BY StepSets, FS_Interval
<1> HIDE DEF n
<1>2. q \in [1 .. n -> S] /\ \A s \in S : \E k \in 1 .. n : q[k] = s
  BY DEF Listings, n
<1>3. q \in Surjection(1 .. n, S)
  BY <1>2, Fun_IsSurj
<1>4. q \in Injection(1 .. n, S)
  BY <1>1, <1>3, FS_SurjSameCardinalityImpliesInj DEF n
<1> QED
  BY <1>2, <1>4 DEF Injection, IsInjective

LEMMA OnceIsListing ==
    ASSUME NEW q \in Seq(Step), \A j, k \in DOMAIN q : q[j] = q[k] => j = k,
           Step \subseteq Elements(q)
    PROVE  q \in Listings(Step)
<1> DEFINE n == Len(q)
<1>1. n \in Nat /\ DOMAIN q = 1 .. n /\ q \in [1 .. n -> Step]
  OBVIOUS
<1> HIDE DEF n
<1>2. \A s \in Step : \E k \in 1 .. n : q[k] = s
  BY <1>1 DEF Elements
<1>3. q \in Bijection(1 .. n, Step)
  BY <1>1, <1>2, Fun_IsBij
<1>4. IsFiniteSet(1 .. n) /\ Cardinality(1 .. n) = n
  BY <1>1, FS_Interval
<1>5. Cardinality(Step) = n
  BY <1>3, <1>4, FS_Bijection DEF ExistsBijection
<1> QED
  BY <1>1, <1>2, <1>5 DEF Listings

LEMMA ListedOnce ==
    /\ Listed \in Seq(Step) /\ Len(Listed) \in Nat /\ DOMAIN Listed = 1 .. Len(Listed)
    /\ \A j, k \in DOMAIN Listed : Listed[j] = Listed[k] => j = k
    /\ \A s \in Step : \E k \in DOMAIN Listed : Listed[k] = s
<1>1. Listed \in Listings(Step)
  BY WorkflowAssumption
<1>2. Listed \in Seq(Step) /\ \A s \in Step : \E k \in DOMAIN Listed : Listed[k] = s
  BY <1>1, ListingOf DEF Listings
<1> QED
  BY <1>1, <1>2, ListingOnce

\* The running call and what it looks at.
LEMMA Calling ==
    ASSUME ValidTypeOK, calls # <<>>
    PROVE  /\ calls \in Seq(Step) /\ Len(calls) \in Nat \ {0}
           /\ DOMAIN calls = 1 .. Len(calls)
           /\ Caller \in Step /\ Caller = calls[Len(calls)]
           /\ looked[Caller] \in Nat /\ looked[Caller] <= Len(lists[Caller])
           /\ lists[Caller] \in Seq(Step \cup {NoStep})
BY DEF ValidTypeOK, Caller

LEMMA LooksAt ==
    ASSUME ValidTypeOK, calls # <<>>, MoreToLook, NEW d,
           d = lists[Caller][looked[Caller] + 1]
    PROVE  d \in ListedBy(Caller) /\ d \in Step \cup {NoStep}
<1>1. looked[Caller] + 1 \in DOMAIN lists[Caller]
  BY Calling DEF MoreToLook
<1> QED
  BY <1>1, Calling DEF ListedBy

LEMMA LookedOn ==
    ASSUME ValidTypeOK, NEW d, LookAt(d)
    PROVE  /\ looked' \in [Step -> Nat]
           /\ \A s \in Step : looked'[s] <= Len(lists[s])
           /\ looked'[Caller] = looked[Caller] + 1
           /\ \A s \in Step : s # Caller => looked'[s] = looked[s]
<1>1. looked' = [looked EXCEPT ![Caller] = @ + 1] /\ looked[Caller] < Len(lists[Caller])
  BY DEF LookAt, MoreToLook
<1>2. Caller \in Step /\ looked \in [Step -> Nat]
  BY Calling DEF LookAt, ValidTypeOK
<1>3. Len(lists[Caller]) \in Nat
  BY Calling DEF LookAt
<1> QED
  BY <1>1, <1>2, <1>3 DEF ValidTypeOK

\* A step is called, and the call at the end returns.
LEMMA Called ==
    ASSUME ValidTypeOK, CallsLead, UNCHANGED lists, NEW d \in Step,
           calls' = Append(calls, d), calls # <<>> => d \in ListedBy(Caller)
    PROVE  /\ calls' \in Seq(Step) /\ calls' # <<>> /\ CallsLead'
           /\ Len(calls') = Len(calls) + 1 /\ DOMAIN calls' = 1 .. Len(calls) + 1
           /\ calls'[Len(calls) + 1] = d
           /\ \A k \in 1 .. Len(calls) : calls'[k] = calls[k]
           /\ Elements(calls') = Elements(calls) \cup {d}
<1>1. calls \in Seq(Step) /\ Len(calls) \in Nat /\ DOMAIN calls = 1 .. Len(calls)
  BY DEF ValidTypeOK
<1>2. /\ calls' \in Seq(Step) /\ calls' # <<>>
      /\ Len(calls') = Len(calls) + 1 /\ DOMAIN calls' = 1 .. Len(calls) + 1
      /\ calls'[Len(calls) + 1] = d
      /\ \A k \in 1 .. Len(calls) : calls'[k] = calls[k]
  BY <1>1
<1>3. CallsLead'
  BY <1>1, <1>2 DEF CallsLead, ListedBy, Caller
<1>4. Elements(calls') = Elements(calls) \cup {d}
  BY <1>1, <1>2 DEF Elements
<1> QED
  BY <1>2, <1>3, <1>4

LEMMA WithoutLast ==
    ASSUME NEW q \in Seq(Step), NEW n \in Nat \ {0}, n = Len(q)
    PROVE  LET r == SubSeq(q, 1, n - 1)
           IN  /\ r \in Seq(Step) /\ Len(r) = n - 1 /\ DOMAIN r = 1 .. n - 1
               /\ \A k \in 1 .. n - 1 : r[k] = q[k]
<1> DEFINE r == SubSeq(q, 1, n - 1)
<1>1. 1 \in 1 .. n + 1 /\ n - 1 \in 0 .. n
  OBVIOUS
<1>2. /\ r \in Seq(Step) /\ Len(r) = n - 1
      /\ \A k \in 1 .. n - 1 : r[k] = q[k]
  <2>1. /\ r \in Seq(Step)
        /\ Len(r) = IF 1 <= n - 1 THEN n - 1 - 1 + 1 ELSE 0
        /\ \A k \in 1 .. n - 1 - 1 + 1 : r[k] = q[1 + k - 1]
    BY <1>1, SubSeqProperties
  <2> HIDE DEF r
  <2> QED
    BY <2>1
<1> HIDE DEF r
<1>3. DOMAIN r = 1 .. n - 1
  BY <1>2
<1> QED
  BY <1>2, <1>3 DEF r

LEMMA Returned ==
    ASSUME ValidTypeOK, CallsLead, UNCHANGED lists, calls # <<>>, BackToCaller
    PROVE  /\ calls' \in Seq(Step) /\ CallsLead'
           /\ Len(calls') = Len(calls) - 1 /\ DOMAIN calls' = 1 .. Len(calls) - 1
           /\ \A k \in 1 .. Len(calls) - 1 : calls'[k] = calls[k]
<1> DEFINE n == Len(calls)
<1>1. calls \in Seq(Step) /\ n \in Nat \ {0}
  BY Calling
<1>2. /\ calls' \in Seq(Step) /\ Len(calls') = n - 1 /\ DOMAIN calls' = 1 .. n - 1
      /\ \A k \in 1 .. n - 1 : calls'[k] = calls[k]
  <2>1. calls' = SubSeq(calls, 1, n - 1)
    BY DEF BackToCaller
  <2> QED
    BY <1>1, <2>1, WithoutLast
<1>3. CallsLead'
  <2>1. \A k \in 1 .. n - 1 : calls[k + 1] \in ListedBy(calls[k])
    BY DEF CallsLead
  <2> HIDE DEF n
  <2>2. ASSUME NEW k \in 1 .. n - 2 PROVE calls'[k + 1] \in ListedBy(calls'[k])
    <3>1. k \in 1 .. n - 1 /\ k + 1 \in 1 .. n - 1
      BY <1>1
    <3>2. calls'[k + 1] = calls[k + 1] /\ calls'[k] = calls[k]
      BY <1>2, <3>1
    <3> QED
      BY <2>1, <3>1, <3>2
  <2>3. \A k \in 1 .. Len(calls') - 1 : calls'[k + 1] \in ListedBy(calls'[k])
    BY <1>1, <1>2, <2>2
  <2> QED
    BY <2>3 DEF CallsLead, ListedBy
<1> QED
  BY <1>2, <1>3

----------------------------------------------------------------------------
(* detectCycles *)

\* A white step is called.
LEMMA ColorsDeeper ==
    ASSUME ValidTypeOK, CallsLead, ColorsRight,
           NEW d \in Step \ (gray \cup black),
           calls' = Append(calls, d), gray' = gray \cup {d},
           UNCHANGED <<lists, turn, black, reported>>,
           (calls = <<>> /\ looked' = looked) \/ LookAt(d)
    PROVE  ColorsRight'
<1> DEFINE n == Len(calls)
<1>1. n \in Nat /\ DOMAIN calls = 1 .. n /\ \A k \in 1 .. n : calls[k] \in gray
  <2>1. calls \in Seq(Step) /\ gray = Elements(calls)
    BY DEF ValidTypeOK, ColorsRight
  <2>2. n \in Nat /\ DOMAIN calls = 1 .. n
    BY <2>1
  <2> QED
    BY <2>1, <2>2 DEF Elements
<1>2. calls # <<>> => d \in ListedBy(Caller)
  BY LooksAt DEF LookAt
<1>3. /\ Len(calls') = n + 1 /\ DOMAIN calls' = 1 .. n + 1 /\ calls'[n + 1] = d
      /\ \A k \in 1 .. n : calls'[k] = calls[k]
      /\ Elements(calls') = Elements(calls) \cup {d}
  BY <1>2, Called
<1>4. calls # <<>> =>
         /\ Caller = calls[n] /\ n > 0 /\ d = lists[Caller][looked[Caller] + 1]
         /\ looked'[Caller] = looked[Caller] + 1
         /\ looked[Caller] \in Nat
  BY Calling, LookedOn DEF LookAt
<1>5. \A s \in Step : (s = Caller /\ calls # <<>>) \/ looked'[s] = looked[s]
  <2>1. CASE calls = <<>> /\ looked' = looked
    BY <2>1
  <2>2. CASE LookAt(d)
    BY <2>2, LookedOn DEF LookAt
  <2> QED
    BY <2>1, <2>2
<1> HIDE DEF n
<1>6. gray' = Elements(calls') /\ gray' \cap black' = {}
  BY <1>3 DEF ColorsRight
<1>7. \A j, k \in DOMAIN calls' : calls'[j] = calls'[k] => j = k
  BY <1>1, <1>3 DEF ColorsRight
<1>8. \A s \in Step \ (gray' \cup black') : looked'[s] = 0
  <2>1. calls # <<>> => Caller \in gray
    BY <1>1, <1>4
  <2> QED
    BY <1>5, <2>1 DEF ColorsRight
<1>9. ASSUME NEW k \in DOMAIN calls', NEW i \in 1 .. looked'[calls'[k]]
      PROVE  \/ lists[calls'[k]][i] \in {NoStep} \cup black
             \/ k < Len(calls') /\ lists[calls'[k]][i] = calls'[k + 1]
  <2>1. CASE k = n + 1
    <3>1. d \in Step /\ ~(d = Caller /\ calls # <<>>)
      BY <1>1, <1>4
    <3>2. looked'[d] = 0
      BY <1>5, <3>1 DEF ColorsRight
    <3> QED
      BY <1>3, <1>9, <2>1, <3>2
  <2>2. CASE k # n + 1
    <3>1. k \in 1 .. n /\ calls'[k] = calls[k] /\ calls[k] \in Step /\ calls # <<>>
      BY <1>1, <1>3, <2>2 DEF ValidTypeOK
    <3>2. CASE i \in 1 .. looked[calls[k]]
      <4>1. \/ lists[calls[k]][i] \in {NoStep} \cup black
            \/ k < n /\ lists[calls[k]][i] = calls[k + 1]
        BY <1>1, <3>1, <3>2 DEF ColorsRight, n
      <4>2. k < n => calls'[k + 1] = calls[k + 1]
        BY <1>1, <1>3, <3>1
      <4> QED
        BY <1>1, <1>3, <3>1, <4>1, <4>2
    <3>3. CASE i \notin 1 .. looked[calls[k]]
      <4>1. calls[k] = Caller /\ i = looked[Caller] + 1
        BY <1>4, <1>5, <1>9, <3>1, <3>3
      <4>2. k = n
        BY <1>1, <1>4, <3>1, <4>1 DEF ColorsRight
      <4> QED
        BY <1>1, <1>3, <1>4, <3>1, <4>1, <4>2
    <3> QED
      BY <3>2, <3>3
  <2> QED
    BY <2>1, <2>2
<1>10. /\ \A s \in black' : ListedBy(s)' \subseteq {NoStep} \cup black'
       /\ \A S \in SUBSET black' : S # {} => \E s \in S : ListedBy(s)' \cap S = {}
       /\ \A j \in 1 .. turn' - 1 : Listed[j] \in black'
       /\ reported' = <<>>
  <2>1. \A s \in Step : ListedBy(s)' = ListedBy(s)
    BY DEF ListedBy
  <2>2. black \subseteq Step
    BY DEF ValidTypeOK
  <2>3. \A s \in black' : ListedBy(s)' \subseteq {NoStep} \cup black'
    BY <2>1, <2>2 DEF ColorsRight
  <2>4. \A S \in SUBSET black' : S # {} => \E s \in S : ListedBy(s)' \cap S = {}
    <3> SUFFICES ASSUME NEW S \in SUBSET black, S # {}
                 PROVE  \E s \in S : ListedBy(s)' \cap S = {}
      OBVIOUS
    <3>1. PICK s \in S : ListedBy(s) \cap S = {}
      BY DEF ColorsRight
    <3> QED
      BY <2>1, <2>2, <3>1
  <2>5. reported' = <<>> /\ \A j \in 1 .. turn' - 1 : Listed[j] \in black'
    BY DEF ColorsRight
  <2> QED
    BY <2>3, <2>4, <2>5
<1> QED
  BY <1>6, <1>7, <1>8, <1>9, <1>10 DEF ColorsRight

\* A dependency that is black or no step is skipped.
LEMMA ColorsSkip ==
    ASSUME ValidTypeOK, CallsLead, ColorsRight, NEW d, SkipDependency(d)
    PROVE  ColorsRight'
<1>1. /\ LookAt(d) /\ d \in {NoStep} \cup black /\ calls # <<>>
      /\ UNCHANGED <<lists, turn, calls, gray, black, reported>>
      /\ d = lists[Caller][looked[Caller] + 1]
  BY DEF SkipDependency, LookAt, colorVars
<1>2. Caller \in Step /\ Caller \in gray /\ looked[Caller] \in Nat
  BY <1>1, Calling DEF ColorsRight, Elements
<1>3. /\ looked'[Caller] = looked[Caller] + 1
      /\ \A s \in Step : s # Caller => looked'[s] = looked[s]
  BY <1>1, LookedOn
<1>4. \A s \in Step \ (gray' \cup black') : looked'[s] = 0
  BY <1>1, <1>2, <1>3 DEF ColorsRight
<1>5. ASSUME NEW k \in DOMAIN calls', NEW i \in 1 .. looked'[calls'[k]]
      PROVE  \/ lists[calls[k]][i] \in {NoStep} \cup black
             \/ k < Len(calls) /\ lists[calls[k]][i] = calls[k + 1]
  <2>1. calls[k] \in Step /\ k \in DOMAIN calls
    BY <1>1 DEF ValidTypeOK
  <2>2. CASE i \in 1 .. looked[calls[k]]
    BY <2>1, <2>2 DEF ColorsRight
  <2>3. CASE i \notin 1 .. looked[calls[k]]
    <3>1. calls[k] = Caller /\ i = looked[Caller] + 1
      BY <1>1, <1>2, <1>3, <1>5, <2>1, <2>3
    <3> QED
      BY <1>1, <3>1
  <2> QED
    BY <2>2, <2>3
<1>6. \A s \in Step : ListedBy(s)' = ListedBy(s)
  BY <1>1 DEF ListedBy
<1>7. \A s \in black' : ListedBy(s)' \subseteq {NoStep} \cup black'
  BY <1>1, <1>6 DEF ColorsRight, ValidTypeOK
<1>8. \A S \in SUBSET black' : S # {} => \E s \in S : ListedBy(s)' \cap S = {}
  <2> SUFFICES ASSUME NEW S \in SUBSET black, S # {}
               PROVE  \E s \in S : ListedBy(s)' \cap S = {}
    BY <1>1
  <2>1. PICK s \in S : ListedBy(s) \cap S = {}
    BY DEF ColorsRight
  <2> QED
    BY <1>6, <2>1 DEF ValidTypeOK
<1>9. \A k \in DOMAIN calls' : \A i \in 1 .. looked'[calls'[k]] :
          \/ lists'[calls'[k]][i] \in {NoStep} \cup black'
          \/ k < Len(calls') /\ lists'[calls'[k]][i] = calls'[k + 1]
  BY <1>1, <1>5
<1>10. /\ gray' = Elements(calls') /\ gray' \cap black' = {} /\ reported' = <<>>
       /\ \A j, k \in DOMAIN calls' : calls'[j] = calls'[k] => j = k
       /\ \A j \in 1 .. turn' - 1 : Listed[j] \in black'
  BY <1>1 DEF ColorsRight
<1> QED
  BY <1>4, <1>7, <1>8, <1>9, <1>10 DEF ColorsRight

\* A step whose dependencies have all been looked at turns black.
LEMMA ColorsFinish ==
    ASSUME ValidTypeOK, CallsLead, ColorsRight, Finish
    PROVE  ColorsRight'
<1> DEFINE n == Len(calls)
           c == Caller
<1>1. /\ calls \in Seq(Step) /\ n \in Nat \ {0} /\ DOMAIN calls = 1 .. n
      /\ c \in Step /\ c = calls[n] /\ lists[c] \in Seq(Step \cup {NoStep})
      /\ looked[c] = Len(lists[c])
  BY Calling DEF Finish, MoreToLook
<1>2. /\ gray' = gray \ {c} /\ black' = black \cup {c}
      /\ UNCHANGED <<lists, turn, looked, reported>>
  BY DEF Finish
<1>3. /\ Len(calls') = n - 1 /\ DOMAIN calls' = 1 .. n - 1
      /\ \A k \in 1 .. n - 1 : calls'[k] = calls[k]
  BY Returned DEF Finish
<1>4. c \in gray /\ c \notin black
  BY <1>1 DEF ColorsRight, Elements
<1>5. ListedBy(c) \subseteq {NoStep} \cup black
  <2> SUFFICES ASSUME NEW i \in 1 .. Len(lists[c]) PROVE lists[c][i] \in {NoStep} \cup black
    BY <1>1 DEF ListedBy
  <2>1. \A i2 \in 1 .. looked[calls[n]] :
           \/ lists[calls[n]][i2] \in {NoStep} \cup black
           \/ n < n /\ lists[calls[n]][i2] = calls[n + 1]
    BY <1>1 DEF ColorsRight
  <2> QED
    BY <1>1, <2>1
<1> HIDE DEF n, c
<1>6. gray' = Elements(calls')
  <2>1. \A k \in 1 .. n : calls[k] = c <=> k = n
    BY <1>1 DEF ColorsRight
  <2>2. \A k \in 1 .. n : k # n <=> k \in 1 .. n - 1
    BY <1>1
  <2>3. \A s : s \in gray' <=> \E k \in 1 .. n - 1 : calls[k] = s
    BY <1>1, <1>2, <2>1, <2>2 DEF ColorsRight, Elements
  <2>4. \A s : s \in Elements(calls') <=> \E k \in 1 .. n - 1 : calls[k] = s
    BY <1>3 DEF Elements
  <2> QED
    BY <2>3, <2>4
<1>7. gray' \cap black' = {}
  BY <1>2, <1>4 DEF ColorsRight
<1>8. \A j, k \in DOMAIN calls' : calls'[j] = calls'[k] => j = k
  BY <1>1, <1>3 DEF ColorsRight
<1>9. \A s \in Step \ (gray' \cup black') : looked'[s] = 0
  BY <1>2 DEF ColorsRight
<1>10. \A s \in black' : ListedBy(s)' \subseteq {NoStep} \cup black'
  BY <1>2, <1>5 DEF ColorsRight, ListedBy
<1>11. ASSUME NEW k \in DOMAIN calls', NEW i \in 1 .. looked'[calls'[k]]
       PROVE  \/ lists[calls'[k]][i] \in {NoStep} \cup black'
              \/ k < Len(calls') /\ lists[calls'[k]][i] = calls'[k + 1]
  <2>1. k \in 1 .. n - 1 /\ calls'[k] = calls[k] /\ k \in DOMAIN calls
    BY <1>1, <1>3
  <2>2. \/ lists[calls[k]][i] \in {NoStep} \cup black
        \/ lists[calls[k]][i] = calls[k + 1]
    BY <1>2, <1>11, <2>1 DEF ColorsRight
  <2>3. CASE k = n - 1
    BY <1>1, <1>2, <2>1, <2>2, <2>3
  <2>4. CASE k # n - 1
    BY <1>1, <1>2, <1>3, <2>1, <2>2, <2>4
  <2> QED
    BY <2>3, <2>4
<1>12. \A S \in SUBSET black' : S # {} => \E s \in S : ListedBy(s)' \cap S = {}
  <2> SUFFICES ASSUME NEW S \in SUBSET (black \cup {c}), S # {}
               PROVE  \E s \in S : ListedBy(s) \cap S = {}
    BY <1>2 DEF ListedBy
  <2>1. CASE S \subseteq {c}
    BY <1>1, <1>4, <1>5, <2>1, StepAssumption
  <2>2. CASE ~(S \subseteq {c})
    <3>1. PICK s \in S \ {c} : ListedBy(s) \cap (S \ {c}) = {}
      BY <2>2 DEF ColorsRight
    <3>2. c \notin ListedBy(s)
      BY <1>1, <1>4, <3>1, StepAssumption DEF ColorsRight
    <3> QED
      BY <3>1, <3>2
  <2> QED
    BY <2>1, <2>2
<1>13. reported' = <<>> /\ \A j \in 1 .. turn' - 1 : Listed[j] \in black'
  BY <1>2 DEF ColorsRight
<1>14. \A k \in DOMAIN calls' : \A i \in 1 .. looked'[calls'[k]] :
          \/ lists'[calls'[k]][i] \in {NoStep} \cup black'
          \/ k < Len(calls') /\ lists'[calls'[k]][i] = calls'[k + 1]
  BY <1>2, <1>11
<1> QED
  BY <1>6, <1>7, <1>8, <1>9, <1>10, <1>12, <1>13, <1>14 DEF ColorsRight

\* What is reported is what ReportedRight says, and there is a cycle.
LEMMA CycleReported ==
    ASSUME ValidTypeOK, CallsLead, ColorsRight, NEW d, ReportCycle(d)
    PROVE  reported' \in Seq(Step) /\ reported' # <<>> /\ CyclesRight'
<1> DEFINE n == Len(calls)
           above == SubSeq(calls, 1, n - 1)
<1>1. /\ calls # <<>> /\ d \in ListedBy(Caller) /\ d \in gray
      /\ reported' = CyclePath(d) /\ UNCHANGED lists
  BY LooksAt DEF ReportCycle
<1>2. /\ calls \in Seq(Step) /\ n \in Nat \ {0} /\ DOMAIN calls = 1 .. n
      /\ Caller \in Step /\ Caller = calls[n]
  BY <1>1, Calling
<1>3. /\ DOMAIN above = 1 .. n - 1
      /\ \A k \in 1 .. n - 1 : above[k] = calls[k]
  BY <1>2, WithoutLast
<1>4. /\ \A i, j \in DOMAIN calls : calls[i] = calls[j] => i = j
      /\ \A i \in 1 .. Len(calls) - 1 : calls[i + 1] \in Graph[calls[i]]
  BY <1>2 DEF ColorsRight, CallsLead, Graph
<1>5. d \in Graph[calls[n]] /\ d \in Step
  BY <1>1, <1>2 DEF Graph, ValidTypeOK
<1>6. PICK j \in 1 .. n : calls[j] = d
  BY <1>1, <1>2 DEF ColorsRight, Elements
<1>7. Graph' = Graph
  BY <1>1 DEF Graph, ListedBy
<1>8. CASE \E k \in DOMAIN above : above[k] = d
  <2> DEFINE start == CHOOSE k \in DOMAIN above : above[k] = d
             c == Append(SubSeq(calls, start, n), d)
  <2>1. start \in DOMAIN above /\ above[start] = d
    BY <1>8
  <2>2. reported' = c
    BY <1>1, <1>8 DEF CyclePath
  <2> HIDE DEF start
  <2>3. start \in DOMAIN calls /\ calls[start] = d
    BY <1>2, <1>3, <2>1
  <2>4. c \in Seq(Step) /\ IsCycle(Graph, c)
    BY <1>2, <1>4, <1>5, <2>3, PathCloses
  <2>5. ~Acyclic(Graph)
    BY <2>4, CycleRefutes
  <2>6. c # <<>>
    BY <2>4 DEF IsCycle
  <2> HIDE DEF c
  <2>7. ReportedRight'
    BY <1>7, <2>2, <2>4 DEF ReportedRight
  <2> QED
    BY <1>7, <2>2, <2>4, <2>5, <2>6, <2>7 DEF CyclesRight
<1>9. CASE ~ \E k \in DOMAIN above : above[k] = d
  <2> DEFINE c == Append(SubSeq(calls, 1, n), d)
  <2>1. j = n
    <3>1. j \in 1 .. n - 1 => j \in DOMAIN above /\ above[j] = d
      BY <1>3, <1>6
    <3>2. j \notin 1 .. n - 1
      BY <1>9, <3>1
    <3>3. n \in Nat
      BY <1>2
    <3> HIDE DEF n
    <3> QED
      BY <1>6, <3>2, <3>3
  <2>2. reported' = c
    BY <1>1, <1>9 DEF CyclePath
  <2>3. SubSeq(calls, 1, n) = calls
    BY <1>2
  <2>4. /\ c \in Seq(Step) /\ c # <<>> /\ Len(c) = n + 1 /\ Len(c) > 1
        /\ c[Len(c)] = d /\ c[Len(c) - 1] = d
    BY <1>2, <1>5, <1>6, <2>1, <2>3
  <2> HIDE DEF c
  <2>5. d \in Graph[d]
    BY <1>5, <1>6, <2>1
  <2>6. ~Acyclic(Graph)
    <3>1. {d} \in SUBSET Step /\ {d} # {}
      BY <1>5
    <3> QED
      BY <2>5, <3>1, Zenon DEF Acyclic
  <2>7. ReportedRight'
    BY <1>7, <2>2, <2>4, <2>5 DEF ReportedRight
  <2> QED
    BY <1>7, <2>2, <2>4, <2>6, <2>7 DEF CyclesRight
<1> QED
  BY <1>8, <1>9


\* A step of detectCycles that does not end it.
LEMMA StillDetecting ==
    ASSUME ValidInv, judging = "cycles", judging' = "cycles",
           ValidTypeOK', CallsLead', ColorsRight',
           calls' # <<>> => turn' <= Len(Listed),
           UNCHANGED <<depthVars, sortVars>>
    PROVE  ValidInv'
BY DEF ValidInv, depthVars, sortVars

LEMMA DetectingStep ==
    ASSUME ValidInv, NEW s \in Step, DetectFrom(s)
    PROVE  ValidInv'
<1>1. /\ ValidTypeOK /\ CallsLead /\ ColorsRight /\ judging = "cycles" /\ judging' = "cycles"
      /\ calls = <<>> /\ turn <= Len(Listed) /\ s = Listed[turn]
      /\ UNCHANGED <<lists, looked, black, reported>> /\ UNCHANGED <<depthVars, sortVars>>
  BY DEF DetectFrom, ValidInv
<1>2. turn \in 1 .. Len(Listed) + 1 /\ Len(Listed) \in Nat
  BY <1>1, ListedOnce DEF ValidTypeOK
<1>3. CASE s \in gray \cup black
  <2>1. turn' = turn + 1 /\ UNCHANGED <<calls, gray>>
    BY <1>3 DEF DetectFrom
  <2>2. ValidTypeOK'
    <3>1. turn' \in 1 .. Len(Listed) + 1
      BY <1>1, <1>2, <2>1
    <3>2. UNCHANGED <<seen, measured, height, deepest, degree, due, uncounted, order>>
      BY <1>1 DEF depthVars, sortVars
    <3> QED
      BY <1>1, <2>1, <3>1, <3>2 DEF ValidTypeOK
  <2>3. CallsLead'
    BY <1>1, <2>1 DEF CallsLead, ListedBy
  <2>4. s \in black
    BY <1>1, <1>3 DEF ColorsRight, Elements
  <2>5. \A j \in 1 .. turn' - 1 : Listed[j] \in black'
    BY <1>1, <1>2, <2>1, <2>4 DEF ColorsRight
  <2>6. \A t \in black : ListedBy(t)' = ListedBy(t)
    BY <1>1 DEF ListedBy
  <2>7. /\ \A t \in black' : ListedBy(t)' \subseteq {NoStep} \cup black'
        /\ \A S \in SUBSET black' : S # {} => \E t \in S : ListedBy(t)' \cap S = {}
    <3>1. \A t \in black' : ListedBy(t)' \subseteq {NoStep} \cup black'
      BY <1>1, <2>6 DEF ColorsRight
    <3>2. ASSUME NEW S \in SUBSET black, S # {} PROVE \E t \in S : ListedBy(t)' \cap S = {}
      <4>1. PICK t \in S : ListedBy(t) \cap S = {}
        BY <1>1, <3>2 DEF ColorsRight
      <4> QED
        BY <2>6, <4>1
    <3> QED
      BY <1>1, <3>1, <3>2
  <2>8. ColorsRight'
    BY <1>1, <2>1, <2>5, <2>7 DEF ColorsRight, Elements
  <2> QED
    BY <1>1, <2>1, <2>2, <2>3, <2>8, StillDetecting
<1>4. CASE s \notin gray \cup black
  <2>1. calls' = <<s>> /\ gray' = gray \cup {s} /\ UNCHANGED turn
    BY <1>4 DEF DetectFrom
  <2>2. calls' = Append(calls, s)
    BY <1>1, <2>1
  <2>3. calls' \in Seq(Step) /\ CallsLead'
    BY <1>1, <2>2, Called
  <2>4. ValidTypeOK'
    BY <1>1, <2>1, <2>3 DEF ValidTypeOK, depthVars, sortVars
  <2>5. ColorsRight'
    BY <1>1, <1>4, <2>1, <2>2, ColorsDeeper
  <2> QED
    BY <1>1, <2>1, <2>3, <2>4, <2>5, StillDetecting
<1> QED
  BY <1>3, <1>4

LEMMA SkippingStep ==
    ASSUME ValidInv, NEW d \in Step \cup {NoStep}, SkipDependency(d)
    PROVE  ValidInv'
<1>1. /\ ValidTypeOK /\ CallsLead /\ ColorsRight /\ judging = "cycles" /\ judging' = "cycles"
      /\ LookAt(d) /\ UNCHANGED <<lists, turn, calls, gray, black, reported>>
      /\ UNCHANGED <<depthVars, sortVars>>
  BY DEF SkipDependency, ValidInv, colorVars
<1>2. ValidTypeOK'
  BY <1>1, LookedOn DEF ValidTypeOK, depthVars, sortVars
<1>3. CallsLead'
  BY <1>1 DEF CallsLead, ListedBy
<1>4. ColorsRight'
  BY <1>1, ColorsSkip
<1>5. calls' # <<>> => turn' <= Len(Listed)
  BY <1>1 DEF ValidInv
<1> QED
  BY <1>1, <1>2, <1>3, <1>4, <1>5, StillDetecting

LEMMA DfsStep ==
    ASSUME ValidInv, NEW d \in Step \cup {NoStep}, DfsInto(d)
    PROVE  ValidInv'
<1>1. /\ ValidTypeOK /\ CallsLead /\ ColorsRight /\ judging = "cycles" /\ judging' = "cycles"
      /\ LookAt(d) /\ d \in Step \ (gray \cup black)
      /\ calls' = Append(calls, d) /\ gray' = gray \cup {d}
      /\ UNCHANGED <<lists, turn, black, reported>> /\ UNCHANGED <<depthVars, sortVars>>
  BY DEF DfsInto, ValidInv
<1>2. calls # <<>> /\ d \in ListedBy(Caller)
  BY <1>1, LooksAt DEF LookAt
<1>3. calls' \in Seq(Step) /\ CallsLead'
  BY <1>1, <1>2, Called
<1>4. ValidTypeOK'
  BY <1>1, <1>3, LookedOn DEF ValidTypeOK, depthVars, sortVars
<1>5. ColorsRight'
  BY <1>1, ColorsDeeper
<1>6. turn' <= Len(Listed)
  BY <1>1, <1>2 DEF ValidInv
<1> QED
  BY <1>1, <1>3, <1>4, <1>5, <1>6, StillDetecting

LEMMA FinishStep ==
    ASSUME ValidInv, Finish
    PROVE  ValidInv'
<1>1. /\ ValidTypeOK /\ CallsLead /\ ColorsRight /\ judging = "cycles" /\ judging' = "cycles"
      /\ calls # <<>> /\ BackToCaller /\ turn <= Len(Listed)
      /\ gray' = gray \ {Caller} /\ black' = black \cup {Caller}
      /\ UNCHANGED <<lists, turn, looked, reported>> /\ UNCHANGED <<depthVars, sortVars>>
  BY DEF Finish, ValidInv
<1>2. calls' \in Seq(Step) /\ CallsLead'
  BY <1>1, Returned
<1>3. ValidTypeOK'
  BY <1>1, <1>2, Calling DEF ValidTypeOK, depthVars, sortVars
<1>4. ColorsRight'
  BY <1>1, ColorsFinish
<1> QED
  BY <1>1, <1>2, <1>3, <1>4, StillDetecting

\* Before the first depth is measured.
LEMMA StartMeasuring ==
    ASSUME ValidInv, judging = "cycles", judging' = "depth",
           calls' = <<>>, turn' = 1, looked' = [s \in Step |-> 0],
           reported' \in Seq(Step), CyclesRight',
           UNCHANGED <<lists, gray, black>>, UNCHANGED <<depthVars, sortVars>>
    PROVE  ValidInv'
<1>1. /\ ValidTypeOK /\ measured = {} /\ height = [s \in Step |-> 0] /\ deepest = 0
      /\ order = <<>> /\ due = <<>> /\ uncounted = {}
      /\ UNCHANGED <<seen, measured, height, deepest, degree, due, uncounted, order>>
  BY DEF ValidInv, depthVars, sortVars
<1>2. Len(Listed) \in Nat
  BY ListedOnce
<1>3. lists \in [Step -> Seq(Step \cup {NoStep})] /\ \A s \in Step : 0 <= Len(lists[s])
  BY <1>1 DEF ValidTypeOK
<1>4. ValidTypeOK'
  BY <1>1, <1>2, <1>3 DEF ValidTypeOK
<1>5. CallsLead'
  BY DEF CallsLead
<1>6. HeightsRise'
  BY <1>1 DEF HeightsRise
<1>7. MeasuredInOrder'
  BY <1>1 DEF MeasuredInOrder
<1> QED
  BY <1>1, <1>4, <1>5, <1>6, <1>7 DEF ValidInv

LEMMA ReportingStep ==
    ASSUME ValidInv, NEW d \in Step \cup {NoStep}, ReportCycle(d)
    PROVE  ValidInv'
<1>1. ValidTypeOK /\ CallsLead /\ ColorsRight /\ judging = "cycles"
  BY DEF ReportCycle, ValidInv
<1>2. reported' \in Seq(Step) /\ CyclesRight'
  BY <1>1, CycleReported
<1> QED
  BY <1>1, <1>2, StartMeasuring DEF ReportCycle

\* All steps are black, so no set of them is closed.
LEMMA NoCycleStep ==
    ASSUME ValidInv, NoCycle
    PROVE  ValidInv'
<1>1. /\ ValidTypeOK /\ ColorsRight /\ judging = "cycles" /\ calls = <<>>
      /\ turn > Len(Listed) /\ UNCHANGED <<lists, calls, gray, black, reported>>
  BY DEF NoCycle, ValidInv, colorVars
<1>2. Step \subseteq black
  <2> SUFFICES ASSUME NEW s \in Step PROVE s \in black
    OBVIOUS
  <2>1. PICK k \in 1 .. Len(Listed) : Listed[k] = s
    BY ListedOnce
  <2>2. k \in 1 .. turn - 1
    BY <1>1, ListedOnce DEF ValidTypeOK
  <2> QED
    BY <1>1, <2>1, <2>2 DEF ColorsRight
<1>3. Acyclic(Graph)
  <2> SUFFICES ASSUME NEW S \in SUBSET Step, S # {}
               PROVE  \E s \in S : Graph[s] \cap S = {}
    BY DEF Acyclic
  <2>1. PICK s \in S : ListedBy(s) \cap S = {}
    BY <1>1, <1>2 DEF ColorsRight
  <2> QED
    BY <2>1 DEF Graph
<1>4. Graph' = Graph
  BY <1>1 DEF Graph, ListedBy
<1>5. reported' = <<>> /\ CyclesRight'
  BY <1>1, <1>3, <1>4 DEF ColorsRight, CyclesRight
<1> QED
  BY <1>1, <1>5, StartMeasuring DEF NoCycle

----------------------------------------------------------------------------
(* calculateMaxDepth *)

LEMMA LargerOf ==
    ASSUME NEW m \in Nat, NEW n \in Nat
    PROVE  Larger(m, n) \in Nat /\ m <= Larger(m, n) /\ n <= Larger(m, n)
           /\ Larger(m, n) \in {m, n}
BY DEF Larger

LEMMA RaisedBy ==
    ASSUME NEW s \in Step, NEW n \in Nat, height \in [Step -> Nat], Raise(s, n)
    PROVE  /\ height' \in [Step -> Nat]
           /\ \A t \in Step : t # s => height'[t] = height[t]
           /\ height[s] <= height'[s] /\ n + 1 <= height'[s]
           /\ height'[s] = height[s] \/ height'[s] = n + 1
<1>1. /\ Larger(height[s], n + 1) \in Nat /\ height[s] <= Larger(height[s], n + 1)
      /\ n + 1 <= Larger(height[s], n + 1)
      /\ Larger(height[s], n + 1) = height[s] \/ Larger(height[s], n + 1) = n + 1
  <2>1. height[s] \in Nat /\ n + 1 \in Nat
    OBVIOUS
  <2> QED
    BY <2>1, LargerOf
<1>2. height' = [height EXCEPT ![s] = Larger(height[s], n + 1)]
  BY DEF Raise
<1> QED
  BY <1>1, <1>2

\* A depth is raised above that of a dependency.
LEMMA RaisedRises ==
    ASSUME ValidTypeOK, HeightsRise, UNCHANGED lists, NEW s \in Step, NEW n \in Nat,
           Raise(s, n),
           \/ NoStep \in ListedBy(s)
           \/ \E d \in ListedBy(s) \cap Step : n <= height[d],
           deepest' = deepest
    PROVE  HeightsRise'
<1>1. /\ height \in [Step -> Nat] /\ height' \in [Step -> Nat] /\ deepest \in Nat
      /\ \A t \in Step : height[t] <= height'[t] /\ (t # s => height'[t] = height[t])
      /\ height'[s] = height[s] \/ height'[s] = n + 1
  <2>1. height \in [Step -> Nat] /\ deepest \in Nat
    BY DEF ValidTypeOK
  <2>2. /\ height' \in [Step -> Nat] /\ height[s] <= height'[s]
        /\ \A t \in Step : t # s => height'[t] = height[t]
        /\ height'[s] = height[s] \/ height'[s] = n + 1
    BY <2>1, RaisedBy
  <2>3. ASSUME NEW t \in Step PROVE height[t] <= height'[t]
    <3>1. height[t] \in Nat
      BY <2>1
    <3> QED
      BY <2>2, <3>1
  <2> QED
    BY <2>1, <2>2, <2>3
<1>2. \A t \in Step : ListedBy(t)' = ListedBy(t) /\ ListedBy(t) \subseteq Step \cup {NoStep}
  BY DEF ListedBy, ValidTypeOK
<1>3. ASSUME NEW t \in Step, NoStep \notin ListedBy(t), height'[t] # 0
      PROVE  \E d \in ListedBy(t) : height'[t] <= height'[d] + 1
  <2>1. CASE height'[t] = height[t]
    <3>1. PICK d \in ListedBy(t) : height[t] <= height[d] + 1
      BY <1>3, <2>1 DEF HeightsRise
    <3>2. d \in Step
      BY <1>2, <1>3, <3>1
    <3> QED
      BY <1>1, <2>1, <3>1, <3>2
  <2>2. CASE height'[t] # height[t]
    <3>1. t = s /\ height'[t] = n + 1
      BY <1>1, <2>2
    <3>2. PICK d \in ListedBy(s) \cap Step : n <= height[d]
      BY <1>3, <3>1
    <3> QED
      BY <1>1, <3>1, <3>2
  <2> QED
    BY <2>1, <2>2
<1>4. deepest' = 0 \/ \E t \in Step : deepest' <= height'[t]
  <2>1. deepest = 0 \/ \E t \in Step : deepest <= height[t]
    BY DEF HeightsRise
  <2> QED
    BY <1>1, <2>1
<1>5. \A t \in Step : \/ height'[t] = 0
                      \/ NoStep \in ListedBy(t)'
                      \/ \E d \in ListedBy(t)' : height'[t] <= height'[d] + 1
  BY <1>2, <1>3
<1> QED
  BY <1>4, <1>5 DEF HeightsRise

\* A step of calculateMaxDepth.
LEMMA StillMeasuring ==
    ASSUME ValidInv, judging = "depth", judging' = "depth",
           ValidTypeOK', CallsLead', HeightsRise', ListedInOrder => MeasuredInOrder',
           calls' # <<>> => turn' <= Len(Listed),
           UNCHANGED <<lists, colorVars, sortVars>>
    PROVE  ValidInv'
<1>1. Graph' = Graph /\ UNCHANGED <<reported, due, uncounted, order>>
  BY DEF Graph, ListedBy, colorVars, sortVars
<1>2. ListedInOrder' <=> ListedInOrder
  BY <1>1 DEF ListedInOrder, Before
<1>3. CyclesRight'
  BY <1>1 DEF ValidInv, CyclesRight, ReportedRight
<1> QED
  BY <1>1, <1>2, <1>3 DEF ValidInv

\* What stays when a depth is measured.
LEMMA MeasuringTypes ==
    ASSUME ValidInv, judging = "depth"
    PROVE  /\ ValidTypeOK /\ CallsLead /\ HeightsRise /\ CyclesRight
           /\ ListedInOrder => MeasuredInOrder
           /\ calls # <<>> => turn <= Len(Listed)
           /\ height \in [Step -> Nat] /\ deepest \in Nat
           /\ turn \in 1 .. Len(Listed) + 1 /\ Len(Listed) \in Nat
BY ListedOnce DEF ValidInv, ValidTypeOK

LEMMA MeasureFromStep ==
    ASSUME ValidInv, NEW s \in Step, MeasureFrom(s)
    PROVE  ValidInv'
<1>1. /\ judging = "depth" /\ judging' = "depth" /\ calls = <<>>
      /\ turn <= Len(Listed) /\ s = Listed[turn]
      /\ UNCHANGED <<lists, colorVars, sortVars>>
      /\ UNCHANGED <<looked, measured, height>>
      /\ UNCHANGED <<gray, black, reported, degree, due, uncounted, order>>
  BY DEF MeasureFrom, colorVars, sortVars
<1>2. /\ ValidTypeOK /\ CallsLead /\ HeightsRise
      /\ ListedInOrder => MeasuredInOrder
      /\ height \in [Step -> Nat] /\ deepest \in Nat
      /\ turn \in 1 .. Len(Listed) + 1 /\ Len(Listed) \in Nat
  BY <1>1, MeasuringTypes
<1>3. CASE Answered(s, FreshVisited)
  <2>1. /\ s \in measured
        /\ deepest' = Larger(deepest, height[s])
        /\ turn' = turn + 1 /\ seen' = {} /\ calls' = <<>>
    BY <1>1, <1>3, StepAssumption DEF MeasureFrom, Answered, Answer, FreshVisited
  <2>2. /\ deepest' \in Nat /\ deepest <= deepest' /\ height[s] <= deepest'
        /\ deepest' = deepest \/ deepest' = height[s]
    BY <1>2, <2>1, LargerOf
  <2>3. ValidTypeOK'
    <3>1. turn' \in 1 .. Len(Listed) + 1
      BY <1>1, <1>2, <2>1
    <3>2. calls' \in Seq(Step)
      BY <2>1
    <3>3. seen' \subseteq Step
      BY <2>1
    <3> QED
      BY <1>1, <1>2, <2>2, <3>1, <3>2, <3>3 DEF ValidTypeOK
  <2>4. CallsLead'
    BY <2>1 DEF CallsLead
  <2>5. \A t \in Step : ListedBy(t)' = ListedBy(t)
    BY <1>1 DEF ListedBy
  <2>6. HeightsRise'
    <3>1. \A t \in Step : \/ height'[t] = 0
                          \/ NoStep \in ListedBy(t)'
                          \/ \E d \in ListedBy(t)' : height'[t] <= height'[d] + 1
      BY <1>1, <1>2, <2>5 DEF HeightsRise
    <3>2. deepest' = 0 \/ \E t \in Step : deepest' <= height'[t]
      BY <1>1, <1>2, <2>2 DEF HeightsRise
    <3> QED
      BY <3>1, <3>2 DEF HeightsRise
  <2>7. ASSUME ListedInOrder PROVE MeasuredInOrder'
    <3>1. ASSUME NEW j \in 1 .. turn' - 1
          PROVE  Listed[j] \in measured' /\ height'[Listed[j]] <= deepest'
      <4>1. j \in 1 .. turn - 1 \/ Listed[j] = s
        BY <1>1, <1>2, <2>1, <3>1
      <4>2. j \in 1 .. turn - 1 => Listed[j] \in measured /\ height[Listed[j]] <= deepest
        BY <1>2, <2>7 DEF MeasuredInOrder
      <4>3. Listed[j] \in measured
        BY <2>1, <4>1, <4>2
      <4>4. height[Listed[j]] \in Nat
        BY <1>2, <4>3 DEF ValidTypeOK
      <4> QED
        BY <1>1, <1>2, <2>1, <2>2, <4>1, <4>2, <4>3, <4>4
    <3> QED
      BY <1>1, <1>2, <2>1, <2>7, <3>1 DEF MeasuredInOrder
  <2> QED
    BY <1>1, <2>1, <2>3, <2>4, <2>6, <2>7, StillMeasuring
<1>4. CASE ~Answered(s, FreshVisited)
  <2>1. /\ s \notin measured /\ calls' = <<s>> /\ seen' = {s} /\ UNCHANGED <<turn, deepest>>
    BY <1>4 DEF MeasureFrom, Answered, FreshVisited
  <2>2. calls' = Append(calls, s)
    BY <1>1, <2>1
  <2>3. calls' \in Seq(Step) /\ CallsLead'
    BY <1>1, <1>2, <2>2, Called
  <2>4. ValidTypeOK'
    BY <1>1, <1>2, <2>1, <2>3 DEF ValidTypeOK
  <2>5. HeightsRise'
    BY <1>1, <1>2, <2>1 DEF HeightsRise, ListedBy
  <2>6. ListedInOrder => MeasuredInOrder'
    BY <1>1, <1>2, <2>1 DEF MeasuredInOrder
  <2> QED
    BY <1>1, <2>1, <2>3, <2>4, <2>5, <2>6, StillMeasuring
<1> QED
  BY <1>3, <1>4

\* With the steps in order, the running call looks at one that was measured.
LEMMA LooksBack ==
    ASSUME ValidTypeOK, MeasuredInOrder, ListedInOrder, NEW d, LookAt(d)
    PROVE  /\ d \in measured /\ d \in Step /\ d \notin seen
           /\ calls = <<Caller>> /\ Caller = Listed[turn] /\ Caller \notin measured
<1>1. calls # <<>> /\ d \in ListedBy(Caller) /\ Caller \in Step
  BY LooksAt, Calling DEF LookAt
<1>2. /\ calls = <<Listed[turn]>> /\ seen = {Listed[turn]} /\ Listed[turn] \notin measured
      /\ turn <= Len(Listed) /\ turn \in 1 .. Len(Listed) + 1 /\ Len(Listed) \in Nat
  BY <1>1, ListedOnce DEF MeasuredInOrder, ValidTypeOK
<1>3. Caller = Listed[turn] /\ turn \in DOMAIN Listed
  BY <1>2, ListedOnce DEF Caller
<1>4. Before(d, Caller)
  BY <1>1 DEF ListedInOrder, Graph
<1>5. PICK j, k \in DOMAIN Listed : j < k /\ Listed[j] = d /\ Listed[k] = Caller
  BY <1>4 DEF Before
<1>6. k = turn
  BY <1>3, <1>5, ListedOnce
<1>7. j \in 1 .. turn - 1
  BY <1>2, <1>5, <1>6, ListedOnce
<1>8. d \in measured
  BY <1>5, <1>7 DEF MeasuredInOrder
<1> QED
  BY <1>2, <1>3, <1>8 DEF ValidTypeOK

LEMMA TakeAnswerStep ==
    ASSUME ValidInv, NEW d \in Step \cup {NoStep}, TakeAnswer(d)
    PROVE  ValidInv'
<1> DEFINE c == Caller
           a == Answer(d, seen)
<1>1. /\ judging = "depth" /\ judging' = "depth" /\ LookAt(d) /\ calls # <<>>
      /\ Raise(c, a) /\ Answered(d, seen)
      /\ UNCHANGED <<lists, colorVars, sortVars>>
      /\ UNCHANGED <<turn, calls, seen, measured, deepest>>
      /\ UNCHANGED <<gray, black, reported, degree, due, uncounted, order>>
  BY DEF TakeAnswer, colorVars, sortVars, LookAt
<1>2. /\ ValidTypeOK /\ CallsLead /\ HeightsRise
      /\ ListedInOrder => MeasuredInOrder
      /\ height \in [Step -> Nat] /\ deepest \in Nat
      /\ calls # <<>> => turn <= Len(Listed)
  BY <1>1, MeasuringTypes
<1>3. c \in Step /\ d \in ListedBy(c) /\ looked[c] \in Nat /\ d = lists[c][looked[c] + 1]
  BY <1>1, <1>2, Calling, LooksAt DEF LookAt
<1>4. a \in Nat /\ (d \in Step => a <= height[d])
  BY <1>2 DEF Answer
<1>5. /\ looked' \in [Step -> Nat] /\ \A s \in Step : looked'[s] <= Len(lists[s])
      /\ looked'[c] = looked[c] + 1
      /\ \A s \in Step : s # c => looked'[s] = looked[s]
  BY <1>1, <1>2, LookedOn
<1> HIDE DEF a, c
<1>6. /\ height' \in [Step -> Nat]
      /\ \A t \in Step : t # c => height'[t] = height[t]
      /\ height[c] <= height'[c] /\ a + 1 <= height'[c]
  BY <1>1, <1>2, <1>3, <1>4, RaisedBy
<1>7. ValidTypeOK'
  BY <1>1, <1>2, <1>5, <1>6 DEF ValidTypeOK
<1>8. CallsLead'
  BY <1>1, <1>2 DEF CallsLead, ListedBy
<1>9. HeightsRise'
  BY <1>1, <1>2, <1>3, <1>4, RaisedRises
<1>10. ASSUME ListedInOrder PROVE MeasuredInOrder'
  <2>1. /\ d \in measured /\ d \in Step /\ d \notin seen /\ MeasuredInOrder
        /\ c = Listed[turn] /\ c \notin measured /\ measured \subseteq Step
    BY <1>1, <1>2, <1>10, LooksBack DEF c, ValidTypeOK
  <2>2. a = height[d]
    BY <2>1, StepAssumption DEF a, Answer
  <2>3. ASSUME NEW s \in Step, NEW i \in 1 .. looked'[s]
        PROVE  lists[s][i] \in measured /\ height'[lists[s][i]] < height'[s]
    <3>1. CASE i \in 1 .. looked[s]
      <4>1. lists[s][i] \in measured /\ height[lists[s][i]] < height[s]
        BY <2>1, <3>1 DEF MeasuredInOrder
      <4>2. lists[s][i] \in Step /\ lists[s][i] # c
        BY <2>1, <4>1
      <4>3. height[s] <= height'[s]
        BY <1>2, <1>6
      <4> QED
        BY <1>2, <1>6, <4>1, <4>2, <4>3
    <3>2. CASE i \notin 1 .. looked[s]
      <4>1. s = c /\ i = looked[c] + 1
        BY <1>3, <1>5, <2>3, <3>2
      <4>2. lists[s][i] = d /\ d # c
        BY <1>3, <2>1, <4>1
      <4> QED
        BY <1>2, <1>6, <2>1, <2>2, <4>1, <4>2
    <3> QED
      BY <3>1, <3>2
  <2>4. \A j \in 1 .. turn - 1 : Listed[j] \in measured /\ height'[Listed[j]] <= deepest
    BY <1>6, <2>1 DEF MeasuredInOrder
  <2>5. \A s \in measured : looked'[s] = Len(lists[s])
    BY <1>5, <2>1 DEF MeasuredInOrder
  <2> QED
    BY <1>1, <2>1, <2>3, <2>4, <2>5 DEF MeasuredInOrder
<1> QED
  BY <1>1, <1>2, <1>7, <1>8, <1>9, <1>10, StillMeasuring

LEMMA MeasureIntoStep ==
    ASSUME ValidInv, NEW d \in Step \cup {NoStep}, MeasureInto(d)
    PROVE  ValidInv'
<1>1. /\ judging = "depth" /\ judging' = "depth" /\ LookAt(d) /\ calls # <<>>
      /\ d \in Step /\ d \notin measured
      /\ calls' = Append(calls, d) /\ seen' = seen \cup {d}
      /\ UNCHANGED <<lists, colorVars, sortVars>>
      /\ UNCHANGED <<turn, measured, height, deepest>>
      /\ UNCHANGED <<gray, black, reported, degree, due, uncounted, order>>
  BY DEF MeasureInto, Answered, colorVars, sortVars, LookAt
<1>2. /\ ValidTypeOK /\ CallsLead /\ HeightsRise
      /\ ListedInOrder => MeasuredInOrder
      /\ calls # <<>> => turn <= Len(Listed)
  BY <1>1, MeasuringTypes
<1>3. calls' \in Seq(Step) /\ CallsLead'
  BY <1>1, <1>2, LooksAt, Called DEF LookAt
<1>4. ValidTypeOK'
  BY <1>1, <1>2, <1>3, LookedOn DEF ValidTypeOK
<1>5. HeightsRise'
  BY <1>1, <1>2 DEF HeightsRise, ListedBy
<1>6. ~ListedInOrder
  BY <1>1, <1>2, LooksBack
<1> QED
  BY <1>1, <1>2, <1>3, <1>4, <1>5, <1>6, StillMeasuring

LEMMA MeasureStep ==
    ASSUME ValidInv, Measure
    PROVE  ValidInv'
<1> DEFINE c == Caller
           n == Len(calls)
<1>1. /\ judging = "depth" /\ judging' = "depth" /\ calls # <<>> /\ ~MoreToLook
      /\ BackToCaller /\ measured' = measured \cup {c}
      /\ UNCHANGED <<lists, colorVars, sortVars>>
      /\ UNCHANGED <<looked, seen>>
      /\ UNCHANGED <<gray, black, reported, degree, due, uncounted, order>>
  BY DEF Measure, colorVars, sortVars
<1>2. /\ ValidTypeOK /\ CallsLead /\ HeightsRise
      /\ ListedInOrder => MeasuredInOrder
      /\ height \in [Step -> Nat] /\ deepest \in Nat
      /\ turn <= Len(Listed) /\ turn \in 1 .. Len(Listed) + 1 /\ Len(Listed) \in Nat
  BY <1>1, MeasuringTypes
<1>3. /\ calls \in Seq(Step) /\ n \in Nat \ {0} /\ DOMAIN calls = 1 .. n
      /\ c \in Step /\ c = calls[n] /\ looked[c] = Len(lists[c])
  BY <1>1, <1>2, Calling DEF MoreToLook
<1>4. calls' \in Seq(Step) /\ CallsLead' /\ Len(calls') = n - 1
  BY <1>1, <1>2, Returned
<1>5. measured' \subseteq Step
  BY <1>1, <1>2, <1>3 DEF ValidTypeOK
<1> HIDE DEF c
<1>6. CASE n = 1
  <2>1. deepest' = Larger(deepest, height[c]) /\ turn' = turn + 1 /\ UNCHANGED height
    BY <1>6 DEF Measure, c
  <2>2. /\ deepest' \in Nat /\ deepest <= deepest' /\ height[c] <= deepest'
        /\ deepest' = deepest \/ deepest' = height[c]
    BY <1>2, <1>3, <2>1, LargerOf
  <2>3. ValidTypeOK'
    <3>1. turn' \in 1 .. Len(Listed) + 1
      BY <1>2, <2>1
    <3> QED
      BY <1>1, <1>2, <1>4, <1>5, <2>1, <2>2, <3>1 DEF ValidTypeOK
  <2>4. calls' = <<>>
    BY <1>4, <1>6
  <2>5. \A t \in Step : ListedBy(t)' = ListedBy(t)
    BY <1>1 DEF ListedBy
  <2>6. HeightsRise'
    <3>1. \A t \in Step : \/ height'[t] = 0
                          \/ NoStep \in ListedBy(t)'
                          \/ \E d \in ListedBy(t)' : height'[t] <= height'[d] + 1
      BY <1>2, <2>1, <2>5 DEF HeightsRise
    <3>2. deepest' = 0 \/ \E t \in Step : deepest' <= height'[t]
      BY <1>2, <1>3, <2>1, <2>2 DEF HeightsRise
    <3> QED
      BY <3>1, <3>2 DEF HeightsRise
  <2>7. ASSUME ListedInOrder PROVE MeasuredInOrder'
    <3>1. MeasuredInOrder /\ c = Listed[turn]
      BY <1>1, <1>2, <1>3, <1>6, <2>7 DEF MeasuredInOrder
    <3>2. ASSUME NEW j \in 1 .. turn' - 1
          PROVE  Listed[j] \in measured' /\ height'[Listed[j]] <= deepest'
      <4>1. j \in 1 .. turn - 1 \/ Listed[j] = c
        BY <1>2, <2>1, <3>1, <3>2
      <4>2. j \in 1 .. turn - 1 => Listed[j] \in measured /\ height[Listed[j]] <= deepest
        BY <3>1 DEF MeasuredInOrder
      <4>3. Listed[j] \in measured'
        BY <1>1, <4>1, <4>2
      <4>4. height[Listed[j]] \in Nat
        BY <1>2, <1>5, <4>3
      <4> QED
        BY <1>2, <2>1, <2>2, <4>1, <4>2, <4>3, <4>4
    <3>3. \A s \in measured' : looked'[s] = Len(lists'[s])
      BY <1>1, <1>3, <3>1 DEF MeasuredInOrder
    <3>4. \A s \in Step : \A i \in 1 .. looked'[s] :
             lists'[s][i] \in measured' /\ height'[lists'[s][i]] < height'[s]
      BY <1>1, <2>1, <3>1 DEF MeasuredInOrder
    <3> QED
      BY <2>4, <3>2, <3>3, <3>4 DEF MeasuredInOrder
  <2> QED
    BY <1>1, <1>4, <2>3, <2>4, <2>6, <2>7, StillMeasuring
<1>7. CASE n # 1
  <2>1. Raise(calls[n - 1], height[c]) /\ UNCHANGED <<turn, deepest>>
    BY <1>7 DEF Measure, c
  <2>2. calls[n - 1] \in Step /\ c \in ListedBy(calls[n - 1]) /\ height[c] \in Nat
    <3>1. n - 1 \in 1 .. n - 1 /\ n - 1 \in 1 .. n /\ n - 1 + 1 = n
      BY <1>3, <1>7
    <3>2. calls[n - 1 + 1] \in ListedBy(calls[n - 1])
      BY <1>2, <3>1 DEF CallsLead
    <3> QED
      BY <1>2, <1>3, <3>1, <3>2
  <2>3. height' \in [Step -> Nat]
    BY <1>2, <2>1, <2>2, RaisedBy
  <2>4. ValidTypeOK'
    BY <1>1, <1>2, <1>4, <1>5, <2>1, <2>3 DEF ValidTypeOK
  <2>5. HeightsRise'
    <3>1. \E d \in ListedBy(calls[n - 1]) \cap Step : height[c] <= height[d]
      BY <1>3, <2>2
    <3> QED
      BY <1>1, <1>2, <2>1, <2>2, <3>1, RaisedRises
  <2>6. ~ListedInOrder
    BY <1>1, <1>2, <1>7 DEF MeasuredInOrder
  <2> QED
    BY <1>1, <1>2, <1>4, <2>1, <2>4, <2>5, <2>6, StillMeasuring
<1> QED
  BY <1>6, <1>7

----------------------------------------------------------------------------
(* topologicalSort *)

\* A step of topologicalSort, or what leads to it.
LEMMA StillSorting ==
    ASSUME ValidInv, judging' \in {"order", "done"}, ValidTypeOK',
           calls = <<>>, turn = Len(Listed) + 1,
           CyclesRight, HeightsRise, ListedInOrder => MeasuredInOrder,
           judging' = "order" => Valid /\ SortRight',
           judging' = "done" /\ Valid => OrderedRight',
           UNCHANGED <<lists, turn, calls, looked, colorVars, depthVars>>
    PROVE  ValidInv'
<1>1. UNCHANGED <<lists, turn, calls, looked, reported, seen, measured, height, deepest>>
  BY DEF colorVars, depthVars
<1>2. Graph' = Graph
  BY <1>1 DEF Graph, ListedBy
<1>3. (ListedInOrder' => ListedInOrder) /\ (Valid' <=> Valid)
  BY <1>1, <1>2 DEF ListedInOrder, Before, Valid
<1>4. CyclesRight'
  BY <1>1, <1>2 DEF CyclesRight, ReportedRight
<1>5. HeightsRise'
  BY <1>1 DEF HeightsRise, ListedBy
<1>6. MeasuredInOrder => MeasuredInOrder'
  BY <1>1 DEF MeasuredInOrder
<1>7. CallsLead'
  BY <1>1 DEF CallsLead
<1>8. calls' = <<>> /\ turn' = Len(Listed) + 1
  BY <1>1
<1> QED
  BY <1>3, <1>4, <1>5, <1>6, <1>7, <1>8 DEF ValidInv

LEMMA StartSortStep ==
    ASSUME ValidInv, StartSort
    PROVE  ValidInv'
<1>1. /\ judging = "depth" /\ calls = <<>> /\ turn > Len(Listed)
      /\ UNCHANGED <<lists, turn, calls, looked, colorVars, depthVars, uncounted, order>>
      /\ UNCHANGED <<gray, black, reported, seen, measured, height, deepest>>
  BY DEF StartSort, colorVars, depthVars
<1>2. /\ ValidTypeOK /\ CallsLead /\ HeightsRise /\ CyclesRight
      /\ (ListedInOrder => MeasuredInOrder)
      /\ turn \in 1 .. Len(Listed) + 1 /\ Len(Listed) \in Nat
  BY <1>1, MeasuringTypes
<1>3. turn = Len(Listed) + 1
  BY <1>1, <1>2
<1>4. order = <<>> /\ uncounted = {}
  BY <1>1 DEF ValidInv
<1>5. CASE Valid
  <2> DEFINE Free == {s \in Step : Len(lists[s]) = 0}
  <2>1. /\ judging' = "order" /\ degree' = [s \in Step |-> Len(lists[s])]
        /\ due' \in Listings(Free)
    BY <1>5 DEF StartSort, AsListed
  <2>2. Free \in SUBSET Step
    OBVIOUS
  <2>3. \A s \in Step : Len(lists[s]) \in Nat /\ DOMAIN lists[s] = 1 .. Len(lists[s])
    BY <1>2 DEF ValidTypeOK
  <2> HIDE DEF Free
  <2>4. /\ due' \in Seq(Step) /\ Elements(due') = Free
        /\ \A j, k \in DOMAIN due' : due'[j] = due'[k] => j = k
    BY <2>1, <2>2, ListingOf, ListingOnce
  <2>5. degree' \in [Step -> Nat]
    BY <2>1, <2>3
  <2>6. ValidTypeOK'
    BY <1>1, <1>2, <2>1, <2>4, <2>5 DEF ValidTypeOK
  <2>7. Elements(order') = {} /\ uncounted' = {} /\ order' = <<>>
    BY <1>1, <1>4 DEF Elements
  <2>8. \A s \in Step : Entries(s)' = 1 .. Len(lists[s])
    BY <1>1, <2>3, <2>7 DEF Entries
  <2>9. ASSUME NEW s \in Step PROVE degree'[s] = Cardinality(Entries(s)')
    <3>1. Cardinality(1 .. Len(lists[s])) = Len(lists[s])
      BY <2>3, FS_Interval
    <3> QED
      BY <2>1, <2>8, <3>1
  <2>10. ASSUME NEW s \in Step
         PROVE  s \in Elements(order') \cup Elements(due') <=> Entries(s)' = {}
    <3>1. \A n \in Nat : 1 .. n = {} <=> n = 0
      <4>1. \A n \in Nat : n # 0 => 1 \in 1 .. n
        OBVIOUS
      <4>2. 1 .. 0 = {}
        OBVIOUS
      <4> QED
        BY <4>1, <4>2
    <3> QED
      BY <2>3, <2>4, <2>7, <2>8, <3>1 DEF Free
  <2>11. /\ \A j, k \in DOMAIN order' : order'[j] = order'[k] => j = k
         /\ Elements(order') \cap Elements(due') = {}
         /\ \A k \in DOMAIN order' : \A d \in ListedBy(order[k])' :
               \E j \in 1 .. k - 1 : order'[j] = d
    BY <2>7
  <2>12. SortRight'
    BY <2>4, <2>7, <2>9, <2>10, <2>11 DEF SortRight
  <2> QED
    BY <1>1, <1>2, <1>3, <1>5, <2>1, <2>6, <2>12, StillSorting
<1>6. CASE ~Valid
  <2>1. judging' = "done" /\ UNCHANGED <<degree, due>>
    BY <1>6 DEF StartSort
  <2>2. ValidTypeOK'
    BY <1>1, <1>2, <2>1 DEF ValidTypeOK
  <2> QED
    BY <1>1, <1>2, <1>3, <1>6, <2>1, <2>2, StillSorting
<1> QED
  BY <1>5, <1>6

\* While the sort runs.
LEMMA SortingTypes ==
    ASSUME ValidInv, judging = "order"
    PROVE  /\ ValidTypeOK /\ SortRight /\ Valid /\ calls = <<>> /\ turn = Len(Listed) + 1
           /\ CyclesRight /\ HeightsRise /\ (ListedInOrder => MeasuredInOrder)
           /\ order \in Seq(Step) /\ Len(order) \in Nat /\ DOMAIN order = 1 .. Len(order)
           /\ due \in Seq(Step) /\ Len(due) \in Nat /\ DOMAIN due = 1 .. Len(due)
           /\ lists \in [Step -> Seq(Step \cup {NoStep})]
           /\ \A s \in Step : Entries(s) \subseteq DOMAIN lists[s]
<1>1. /\ ValidTypeOK /\ SortRight /\ Valid /\ calls = <<>> /\ turn = Len(Listed) + 1
      /\ CyclesRight /\ HeightsRise /\ (ListedInOrder => MeasuredInOrder)
  BY DEF ValidInv
<1>2. /\ order \in Seq(Step) /\ due \in Seq(Step)
      /\ lists \in [Step -> Seq(Step \cup {NoStep})]
  BY <1>1 DEF ValidTypeOK
<1>3. \A s \in Step : Entries(s) \subseteq DOMAIN lists[s]
  BY DEF Entries
<1>4. /\ Len(order) \in Nat /\ DOMAIN order = 1 .. Len(order)
      /\ Len(due) \in Nat /\ DOMAIN due = 1 .. Len(due)
  BY <1>2
<1> QED
  BY <1>1, <1>2, <1>3, <1>4

LEMMA Appended ==
    ASSUME NEW q \in Seq(Step), NEW n \in Nat, n = Len(q), NEW e \in Step, NEW r,
           r = Append(q, e)
    PROVE  /\ r \in Seq(Step) /\ DOMAIN r = 1 .. n + 1 /\ r[n + 1] = e
           /\ \A k \in 1 .. n : r[k] = q[k]
           /\ Elements(r) = Elements(q) \cup {e}
<1>1. /\ r \in Seq(Step) /\ DOMAIN r = 1 .. n + 1 /\ r[n + 1] = e
      /\ \A k \in 1 .. n : r[k] = q[k]
  OBVIOUS
<1>2. DOMAIN q = 1 .. n
  OBVIOUS
<1>3. \A i \in 1 .. n + 1 : i \in 1 .. n \/ i = n + 1
  OBVIOUS
<1>4. \A i \in 1 .. n : i \in 1 .. n + 1
  OBVIOUS
<1>5. n + 1 \in 1 .. n + 1
  OBVIOUS
<1>6. Elements(r) = Elements(q) \cup {e}
  BY <1>1, <1>2, <1>3, <1>4, <1>5 DEF Elements
<1> QED
  BY <1>1, <1>6

LEMMA AppendedOnce ==
    ASSUME NEW q \in Seq(Step), NEW n \in Nat, n = Len(q), NEW e \in Step, NEW r,
           r = Append(q, e),
           \A j, k \in DOMAIN q : q[j] = q[k] => j = k, e \notin Elements(q)
    PROVE  \A j, k \in DOMAIN r : r[j] = r[k] => j = k
<1>1. /\ DOMAIN r = 1 .. n + 1 /\ r[n + 1] = e
      /\ \A k \in 1 .. n : r[k] = q[k]
  BY Appended
<1>2. DOMAIN q = 1 .. n
  OBVIOUS
<1>3. \A i \in 1 .. n + 1 : i \in 1 .. n \/ i = n + 1
  OBVIOUS
<1>4. \A j \in 1 .. n : r[j] # e
  BY <1>1, <1>2 DEF Elements
<1> QED
  BY <1>1, <1>2, <1>3, <1>4

LEMMA TakeDueStep ==
    ASSUME ValidInv, TakeDue
    PROVE  ValidInv'
<1> DEFINE h == Head(due)
           n == Len(order)
           m == Len(due)
<1>1. /\ judging = "order" /\ judging' = "order" /\ uncounted = {} /\ due # <<>>
      /\ order' = Append(order, h) /\ due' = Tail(due)
      /\ uncounted' = UNION {{s} \X {k \in DOMAIN lists[s] : lists[s][k] = h} : s \in Step}
      /\ UNCHANGED <<lists, turn, calls, looked, colorVars, depthVars, degree>>
      /\ UNCHANGED <<gray, black, reported, seen, measured, height, deepest>>
  BY DEF TakeDue, colorVars, depthVars
<1>2. /\ ValidTypeOK /\ SortRight /\ Valid /\ calls = <<>> /\ turn = Len(Listed) + 1
      /\ CyclesRight /\ HeightsRise /\ (ListedInOrder => MeasuredInOrder)
      /\ order \in Seq(Step) /\ n \in Nat /\ DOMAIN order = 1 .. n
      /\ due \in Seq(Step) /\ m \in Nat /\ DOMAIN due = 1 .. m
      /\ lists \in [Step -> Seq(Step \cup {NoStep})]
  BY <1>1, SortingTypes
<1>3. /\ h \in Step /\ h = due[1] /\ m # 0 /\ due' \in Seq(Step) /\ Len(due') = m - 1
      /\ DOMAIN due' = 1 .. m - 1 /\ \A k \in 1 .. m - 1 : due'[k] = due[k + 1]
  <2>1. h \in Step /\ h = due[1] /\ m # 0
    BY <1>1, <1>2
  <2>2. /\ due' \in Seq(Step) /\ Len(due') = m - 1
        /\ \A k \in 1 .. Len(due') : due'[k] = due[k + 1]
    BY <1>1, <1>2, HeadTailProperties
  <2> HIDE DEF h, m
  <2>3. DOMAIN due' = 1 .. m - 1
    BY <2>2
  <2> QED
    BY <2>1, <2>2, <2>3
<1>4. /\ order' \in Seq(Step) /\ DOMAIN order' = 1 .. n + 1 /\ order'[n + 1] = h
      /\ \A k \in 1 .. n : order'[k] = order[k]
      /\ Elements(order') = Elements(order) \cup {h}
  <2>1. /\ order \in Seq(Step) /\ n \in Nat /\ n = Len(order) /\ h \in Step
        /\ order' = Append(order, h)
    BY <1>1, <1>2, <1>3 DEF n
  <2> HIDE DEF h, n, m
  <2>2. /\ order' \in Seq(Step) /\ DOMAIN order' = 1 .. n + 1 /\ order'[n + 1] = h
        /\ \A k \in 1 .. n : order'[k] = order[k]
    BY <2>1
  <2>3. Elements(order') = Elements(order) \cup {h}
    BY <2>1, Appended
  <2> QED
    BY <2>2, <2>3
<1> HIDE DEF h, n, m
<1>5. Elements(order') = Elements(order) \cup {h}
  BY <1>4
<1>6. Elements(due') = Elements(due) \ {h} /\ h \in Elements(due)
  <2>1. \A k \in 1 .. m : due[k] = h <=> k = 1
    <3>1. \A j, k \in 1 .. m : due[j] = due[k] => j = k
      BY <1>2 DEF SortRight
    <3>2. 1 \in 1 .. m /\ due[1] = h
      BY <1>2, <1>3
    <3> QED
      BY <3>1, <3>2
  <2>2. \A s : s \in Elements(due') <=> \E k \in 1 .. m - 1 : due[k + 1] = s
    BY <1>3 DEF Elements
  <2>3. \A s : s \in Elements(due) <=> \E k \in 1 .. m : due[k] = s
    BY <1>2 DEF Elements
  <2>4. ASSUME NEW s, \E k \in 1 .. m - 1 : due[k + 1] = s
        PROVE  s # h /\ \E k \in 1 .. m : due[k] = s
    <3>1. PICK k \in 1 .. m - 1 : due[k + 1] = s
      BY <2>4
    <3>2. k + 1 \in 1 .. m /\ k + 1 # 1
      BY <1>2
    <3> QED
      BY <2>1, <3>1, <3>2
  <2>5. ASSUME NEW s, s # h, \E k \in 1 .. m : due[k] = s
        PROVE  \E k \in 1 .. m - 1 : due[k + 1] = s
    <3>1. PICK k \in 1 .. m : due[k] = s
      BY <2>5
    <3>2. k # 1
      BY <1>3, <2>5, <3>1
    <3>3. k - 1 \in 1 .. m - 1 /\ k - 1 + 1 = k
      BY <1>2, <3>2
    <3> QED
      BY <3>1, <3>3
  <2>6. h \in Elements(due)
    BY <1>2, <1>3, <2>3
  <2> QED
    BY <2>2, <2>3, <2>4, <2>5, <2>6
<1>7. h \notin Elements(order)
  BY <1>2, <1>6 DEF SortRight
<1>8. \A s \in Step : \A k \in DOMAIN lists[s] : <<s, k>> \in uncounted' <=> lists[s][k] = h
  BY <1>1
<1>9. \A e \in uncounted' : e[1] \in Step /\ e[2] \in DOMAIN lists[e[1]] /\ lists[e[1]][e[2]] = h
  BY <1>1
<1>10. ASSUME NEW s \in Step PROVE Entries(s)' = Entries(s)
  <2>1. Entries(s) = {k \in DOMAIN lists[s] : lists[s][k] \notin Elements(order)}
    BY <1>1 DEF Entries
  <2>2. Entries(s)' = {k \in DOMAIN lists[s] :
                          lists[s][k] \notin Elements(order') \/ <<s, k>> \in uncounted'}
    BY <1>1 DEF Entries
  <2>3. \A k \in DOMAIN lists[s] : lists[s][k] \notin Elements(order)
           <=> lists[s][k] \notin Elements(order') \/ <<s, k>> \in uncounted'
    BY <1>5, <1>7, <1>8
  <2> QED
    BY <2>1, <2>2, <2>3
<1>11. ValidTypeOK'
  <2>1. uncounted' \in SUBSET (Step \X Nat)
    <3>1. \A s \in Step : DOMAIN lists[s] \subseteq Nat
      BY <1>2
    <3> QED
      BY <1>1, <3>1
  <2> QED
    BY <1>1, <1>2, <1>3, <1>4, <2>1 DEF ValidTypeOK
<1>12. ListedBy(h) \subseteq Elements(order)
  <2>1. Entries(h) = {}
    BY <1>2, <1>3, <1>6 DEF SortRight
  <2> QED
    BY <2>1 DEF Entries, ListedBy
<1>13. ASSUME NEW k \in 1 .. n + 1, NEW d \in ListedBy(order'[k])
       PROVE  \E j \in 1 .. k - 1 : order'[j] = d
  <2>1. CASE k = n + 1
    <3>1. PICK j \in 1 .. n : order[j] = d
      BY <1>2, <1>4, <1>12, <1>13, <2>1 DEF Elements
    <3> QED
      BY <1>2, <1>4, <2>1, <3>1
  <2>2. CASE k # n + 1
    <3>1. k \in 1 .. n /\ order'[k] = order[k]
      BY <1>2, <1>4, <2>2
    <3>2. PICK j \in 1 .. k - 1 : order[j] = d
      BY <1>2, <1>13, <3>1 DEF SortRight
    <3>3. j \in 1 .. n
      BY <1>2, <3>1
    <3> QED
      BY <1>4, <3>2, <3>3
  <2> QED
    BY <2>1, <2>2
<1>14. \A j, k \in DOMAIN order' : order'[j] = order'[k] => j = k
  <2>1. /\ order \in Seq(Step) /\ n \in Nat /\ n = Len(order) /\ h \in Step
        /\ order' = Append(order, h)
    BY <1>1, <1>2, <1>3 DEF n
  <2>2. \A j, k \in DOMAIN order : order[j] = order[k] => j = k
    BY <1>2 DEF SortRight
  <2> QED
    BY <1>7, <2>1, <2>2, AppendedOnce
<1>15. \A j, k \in DOMAIN due' : due'[j] = due'[k] => j = k
  <2> SUFFICES ASSUME NEW j \in 1 .. m - 1, NEW k \in 1 .. m - 1, due'[j] = due'[k]
               PROVE  j = k
    BY <1>3
  <2>1. j + 1 \in 1 .. m /\ k + 1 \in 1 .. m
    <3>1. m \in Nat
      BY <1>2
    <3> QED
      BY <3>1
  <2>2. due[j + 1] = due[k + 1]
    BY <1>3
  <2>3. j + 1 = k + 1
    BY <1>2, <2>1, <2>2 DEF SortRight
  <2> QED
    BY <2>3
<1>16. SortRight'
  <2>1. \A s \in Step : degree'[s] = Cardinality(Entries(s)')
    BY <1>1, <1>2, <1>10 DEF SortRight
  <2>2. \A s \in Step : s \in Elements(order') \cup Elements(due') <=> Entries(s)' = {}
    BY <1>2, <1>5, <1>6, <1>10 DEF SortRight
  <2>3. \A e \in uncounted' : /\ e[2] \in DOMAIN lists'[e[1]]
                              /\ lists'[e[1]][e[2]] \in Elements(order')
    BY <1>1, <1>5, <1>9
  <2>4. Elements(order') \cap Elements(due') = {}
    BY <1>2, <1>5, <1>6 DEF SortRight
  <2>5. \A k \in DOMAIN order' : \A d \in ListedBy(order[k])' :
           \E j \in 1 .. k - 1 : order'[j] = d
    <3>1. \A k \in DOMAIN order' : ListedBy(order[k])' = ListedBy(order'[k])
      BY <1>1 DEF ListedBy
    <3> QED
      BY <1>4, <1>13, <3>1
  <2> QED
    BY <1>14, <1>15, <2>1, <2>2, <2>3, <2>4, <2>5 DEF SortRight
<1> QED
  BY <1>1, <1>2, <1>11, <1>16, StillSorting

LEMMA CountEntryStep ==
    ASSUME ValidInv, NEW s, NEW k, CountEntry(s, k)
    PROVE  ValidInv'
<1> DEFINE new == IF degree[s] = 0 THEN 0 ELSE degree[s] - 1
           m == Len(due)
<1>1. /\ judging = "order" /\ judging' = "order" /\ <<s, k>> \in uncounted
      /\ degree' = [degree EXCEPT ![s] = new]
      /\ due' = IF new = 0 THEN Append(due, s) ELSE due
      /\ uncounted' = uncounted \ {<<s, k>>}
      /\ UNCHANGED <<lists, turn, calls, looked, colorVars, depthVars, order>>
      /\ UNCHANGED <<gray, black, reported, seen, measured, height, deepest>>
  BY DEF CountEntry, colorVars, depthVars
<1>2. /\ ValidTypeOK /\ SortRight /\ Valid /\ calls = <<>> /\ turn = Len(Listed) + 1
      /\ CyclesRight /\ HeightsRise /\ (ListedInOrder => MeasuredInOrder)
      /\ due \in Seq(Step) /\ m \in Nat /\ DOMAIN due = 1 .. m
      /\ lists \in [Step -> Seq(Step \cup {NoStep})]
  BY <1>1, SortingTypes
<1>3. /\ s \in Step /\ degree \in [Step -> Nat]
      /\ k \in DOMAIN lists[s] /\ lists[s][k] \in Elements(order)
  <2>1. s \in Step
    BY <1>1, <1>2 DEF ValidTypeOK
  <2>2. <<s, k>>[2] \in DOMAIN lists[<<s, k>>[1]]
        /\ lists[<<s, k>>[1]][<<s, k>>[2]] \in Elements(order)
    BY <1>1, <1>2 DEF SortRight
  <2> QED
    BY <1>2, <2>1, <2>2 DEF ValidTypeOK
<1>4. Entries(s)' = Entries(s) \ {k} /\ k \in Entries(s)
  BY <1>1, <1>3 DEF Entries
<1>5. \A t \in Step : t # s => Entries(t)' = Entries(t)
  BY <1>1 DEF Entries
<1>6. IsFiniteSet(Entries(s))
  <2> DEFINE l == Len(lists[s])
  <2>1. l \in Nat /\ DOMAIN lists[s] = 1 .. l
    BY <1>2, <1>3
  <2> HIDE DEF l
  <2>2. IsFiniteSet(1 .. l)
    BY <2>1, FS_Interval
  <2> QED
    BY <2>1, <2>2, FS_Subset DEF Entries
<1>7. /\ degree[s] = Cardinality(Entries(s)) /\ degree[s] \in Nat \ {0}
      /\ Cardinality(Entries(s)') = degree[s] - 1 /\ IsFiniteSet(Entries(s)')
  <2>1. degree[s] = Cardinality(Entries(s)) /\ degree[s] \in Nat
    BY <1>2, <1>3 DEF SortRight
  <2>2. degree[s] # 0
    BY <1>4, <1>6, <2>1, FS_EmptySet
  <2>3. Cardinality(Entries(s) \ {k}) = degree[s] - 1 /\ IsFiniteSet(Entries(s) \ {k})
    BY <1>4, <1>6, <2>1, FS_RemoveElement
  <2> QED
    BY <1>4, <2>1, <2>2, <2>3
<1>8. new = degree[s] - 1 /\ new \in Nat /\ new = Cardinality(Entries(s)')
  BY <1>7
<1>9. new = 0 <=> Entries(s)' = {}
  BY <1>7, <1>8, FS_EmptySet
<1> HIDE DEF new, m
<1>10. s \notin Elements(order) \cup Elements(due)
  BY <1>2, <1>3, <1>4 DEF SortRight
<1>11. /\ due' \in Seq(Step)
       /\ Elements(due') = Elements(due) \cup (IF new = 0 THEN {s} ELSE {})
       /\ \A i, j \in DOMAIN due' : due'[i] = due'[j] => i = j
  <2>1. CASE new = 0
    <3>1. \A i, j \in DOMAIN due : due[i] = due[j] => i = j
      BY <1>2 DEF SortRight
    <3>2. due' = Append(due, s) /\ m = Len(due)
      BY <1>1, <2>1 DEF m
    <3>3. due \in Seq(Step) /\ m \in Nat /\ s \in Step /\ s \notin Elements(due)
      BY <1>2, <1>3, <1>10
    <3>4. /\ due' \in Seq(Step) /\ Elements(due') = Elements(due) \cup {s}
          /\ \A i, j \in DOMAIN due' : due'[i] = due'[j] => i = j
      BY <3>1, <3>2, <3>3, Appended, AppendedOnce
    <3> QED
      BY <2>1, <3>4
  <2>2. CASE new # 0
    BY <1>1, <1>2, <2>2 DEF SortRight, Elements
  <2> QED
    BY <2>1, <2>2
<1>12. degree' \in [Step -> Nat] /\ degree'[s] = new
       /\ \A t \in Step : t # s => degree'[t] = degree[t]
  BY <1>1, <1>3, <1>8
<1>13. ValidTypeOK'
  BY <1>1, <1>2, <1>11, <1>12 DEF ValidTypeOK
<1>14. SortRight'
  <2>1. \A t \in Step : degree'[t] = Cardinality(Entries(t)')
    BY <1>2, <1>5, <1>8, <1>12 DEF SortRight
  <2>2. Elements(order') = Elements(order)
    BY <1>1 DEF Elements
  <2>3. ASSUME NEW t \in Step
        PROVE  t \in Elements(order') \cup Elements(due') <=> Entries(t)' = {}
    <3>1. CASE t = s
      BY <1>9, <1>10, <1>11, <2>2, <3>1
    <3>2. CASE t # s
      BY <1>2, <1>5, <1>11, <2>2, <3>2 DEF SortRight
    <3> QED
      BY <3>1, <3>2
  <2>4. \A e \in uncounted' : /\ e[2] \in DOMAIN lists'[e[1]]
                              /\ lists'[e[1]][e[2]] \in Elements(order')
    BY <1>1, <1>2, <2>2 DEF SortRight
  <2>5. Elements(order') \cap Elements(due') = {}
    BY <1>2, <1>10, <1>11, <2>2 DEF SortRight
  <2>6. /\ \A i, j \in DOMAIN order' : order'[i] = order'[j] => i = j
        /\ \A j \in DOMAIN order' : \A d \in ListedBy(order[j])' :
              \E i \in 1 .. j - 1 : order'[i] = d
    <3>1. order' = order /\ lists' = lists
      BY <1>1
    <3>2. \A j : ListedBy(order[j])' = ListedBy(order[j])
      BY <3>1 DEF ListedBy
    <3> QED
      BY <1>2, <3>1, <3>2 DEF SortRight
  <2> QED
    BY <1>11, <2>1, <2>3, <2>4, <2>5, <2>6 DEF SortRight
<1> QED
  BY <1>1, <1>2, <1>13, <1>14, StillSorting

\* In an acyclic graph every step has come into the order.
LEMMA EndSortStep ==
    ASSUME ValidInv, EndSort
    PROVE  ValidInv'
<1>1. /\ judging = "order" /\ judging' = "done" /\ uncounted = {} /\ due = <<>>
      /\ UNCHANGED <<lists, turn, calls, looked, colorVars, depthVars, sortVars>>
      /\ UNCHANGED <<gray, black, reported, seen, measured, height, deepest>>
      /\ UNCHANGED <<degree, due, uncounted, order>>
  BY DEF EndSort, colorVars, depthVars, sortVars
<1>2. /\ ValidTypeOK /\ SortRight /\ Valid /\ calls = <<>> /\ turn = Len(Listed) + 1
      /\ CyclesRight /\ HeightsRise /\ (ListedInOrder => MeasuredInOrder)
      /\ order \in Seq(Step)
  BY <1>1, SortingTypes
<1>3. Acyclic(Graph) /\ WellNamed(Graph)
  BY <1>2 DEF Valid, CyclesRight
<1>4. Step \subseteq Elements(order)
  <2> DEFINE Unsorted == Step \ Elements(order)
  <2> SUFFICES ASSUME Unsorted # {} PROVE FALSE
    OBVIOUS
  <2>1. PICK s \in Unsorted : Graph[s] \cap Unsorted = {}
    <3>1. Unsorted \in SUBSET Step
      OBVIOUS
    <3> HIDE DEF Unsorted
    <3> QED
      BY <1>3, <3>1 DEF Acyclic
  <2>2. ListedBy(s) \subseteq Elements(order)
    BY <1>3, <2>1 DEF WellNamed, Graph
  <2>3. Entries(s) = {}
    BY <1>1, <2>2 DEF Entries, ListedBy
  <2>4. Elements(due) = {}
    BY <1>1 DEF Elements
  <2> QED
    BY <1>2, <2>1, <2>3, <2>4 DEF SortRight
<1>5. order \in Listings(Step)
  BY <1>2, <1>4, OnceIsListing DEF SortRight
<1>6. OrderedRight'
  <2>1. Graph' = Graph
    BY <1>1 DEF Graph, ListedBy
  <2>2. \A k \in DOMAIN order : order[k] \in Step
    BY <1>2
  <2>3. \A k \in DOMAIN order : \A d \in Graph[order[k]] : \E j \in 1 .. k - 1 : order[j] = d
    BY <1>2, <2>2 DEF SortRight, Graph
  <2> QED
    BY <1>1, <1>5, <2>1, <2>3 DEF OrderedRight
<1>7. ValidTypeOK'
  BY <1>1, <1>2 DEF ValidTypeOK
<1> QED
  BY <1>1, <1>2, <1>6, <1>7, StillSorting

LEMMA UnjudgedValid == Unjudged => ValidInv
<1> SUFFICES ASSUME Unjudged PROVE ValidInv
  OBVIOUS
<1>1. Len(Listed) \in Nat
  BY ListedOnce
<1>2. lists \in [Step -> Seq(Step \cup {NoStep})]
  BY WorkflowAssumption DEF Unjudged
<1>3. \A s \in Step : 0 <= Len(lists[s])
  BY <1>2
<1>4. ValidTypeOK
  BY <1>1, <1>2, <1>3 DEF Unjudged, ValidTypeOK
<1>5. ColorsRight
  BY DEF Unjudged, ColorsRight, Elements
<1>6. CallsLead
  BY DEF Unjudged, CallsLead
<1> QED
  BY <1>4, <1>5, <1>6 DEF Unjudged, ValidInv

LEMMA ValidUnchanged == ValidInv /\ UNCHANGED validVars => ValidInv'
<1> SUFFICES ASSUME ValidInv, UNCHANGED validVars PROVE ValidInv'
  OBVIOUS
<1>1. UNCHANGED <<lists, judging, turn, calls, looked, gray, black, reported,
                  seen, measured, height, deepest, degree, due, uncounted, order>>
  BY DEF validVars
<1>2. /\ UNCHANGED <<lists, turn, calls, looked, colorVars, depthVars>> /\ UNCHANGED sortVars
      /\ UNCHANGED depthVars /\ UNCHANGED colorVars
  BY <1>1 DEF colorVars, depthVars, sortVars
<1>3. ValidTypeOK' /\ CallsLead' /\ (calls' # <<>> => turn' <= Len(Listed))
  <2>1. ValidTypeOK'
    BY <1>1 DEF ValidInv, ValidTypeOK
  <2>2. CallsLead /\ lists' = lists /\ calls' = calls
    BY <1>1 DEF ValidInv
  <2>3. CallsLead'
    BY <2>2 DEF CallsLead, ListedBy
  <2>4. calls' # <<>> => turn' <= Len(Listed)
    BY <1>1 DEF ValidInv
  <2> QED
    BY <2>1, <2>3, <2>4
<1>4. CASE judging = "cycles"
  <2>1. ColorsRight
    BY <1>4 DEF ValidInv
  <2>2. \A s : ListedBy(s)' = ListedBy(s)
    BY <1>1 DEF ListedBy
  <2>3. ColorsRight'
    <3>1. /\ \A s \in black' : ListedBy(s)' \subseteq {NoStep} \cup black'
          /\ \A S \in SUBSET black' : S # {} => \E s \in S : ListedBy(s)' \cap S = {}
      BY <1>1, <2>1, <2>2 DEF ColorsRight
    <3> QED
      BY <1>1, <2>1, <3>1 DEF ColorsRight, Elements
  <2> QED
    BY <1>1, <1>2, <1>3, <1>4, <2>3, StillDetecting
<1>5. CASE judging = "depth"
  <2>1. HeightsRise'
    BY <1>1, <1>5 DEF ValidInv, HeightsRise, ListedBy
  <2>2. ListedInOrder => MeasuredInOrder'
    BY <1>1, <1>5 DEF ValidInv, MeasuredInOrder
  <2> QED
    BY <1>1, <1>2, <1>3, <1>5, <2>1, <2>2, StillMeasuring
<1>6. CASE judging \in {"order", "done"}
  <2>1. judging' = "order" => Valid /\ SortRight'
    BY <1>1 DEF ValidInv, SortRight, Entries, Elements, ListedBy
  <2>2. judging' = "done" /\ Valid => OrderedRight'
    <3>1. Graph' = Graph
      BY <1>1 DEF Graph, ListedBy
    <3>2. OrderedRight => OrderedRight'
      BY <1>1, <3>1 DEF OrderedRight
    <3> QED
      BY <1>1, <3>2 DEF ValidInv
  <2>3. /\ calls = <<>> /\ turn = Len(Listed) + 1
        /\ CyclesRight /\ HeightsRise /\ (ListedInOrder => MeasuredInOrder)
    BY <1>6 DEF ValidInv
  <2> QED
    BY <1>1, <1>2, <1>3, <1>6, <2>1, <2>2, <2>3, StillSorting
<1> QED
  BY <1>4, <1>5, <1>6 DEF ValidInv, ValidTypeOK

LEMMA ValidStep == ValidInv /\ [Validate]_validVars => ValidInv'
<1> SUFFICES ASSUME ValidInv, Validate PROVE ValidInv'
  BY ValidUnchanged
<1>1. CASE \E s \in Step : DetectFrom(s) \/ MeasureFrom(s)
  BY <1>1, DetectingStep, MeasureFromStep
<1>2. CASE \E d \in Step \cup {NoStep} :
              \/ SkipDependency(d) \/ DfsInto(d) \/ ReportCycle(d)
              \/ TakeAnswer(d) \/ MeasureInto(d)
  BY <1>2, SkippingStep, DfsStep, ReportingStep, TakeAnswerStep, MeasureIntoStep
<1>3. CASE Finish \/ NoCycle \/ Measure
  BY <1>3, FinishStep, NoCycleStep, MeasureStep
<1>4. CASE StartSort \/ TakeDue \/ EndSort
  BY <1>4, StartSortStep, TakeDueStep, EndSortStep
<1>5. CASE \E e \in uncounted : CountEntry(e[1], e[2])
  BY <1>5, CountEntryStep
<1> QED
  BY <1>1, <1>2, <1>3, <1>4, <1>5 DEF Validate

LEMMA ValidJudged == ValidInv => WorkflowsJudged
BY DEF ValidInv, WorkflowsJudged, ColorsRight, CyclesRight, Valid, Plannable

THEOREM ValidInvariant == ValidatorSpec => []ValidInv
BY UnjudgedValid, ValidStep, PTL DEF ValidatorSpec

\* The depth-first search finds the workflows that cannot be executed, and
\* Kahn's queue orders the others: a black step leads to no cycle, and when the
\* queue is empty a set of uncounted steps would be closed under dependencies.
THEOREM ValidatorIsRight == ValidatorSpec => []WorkflowsJudged
BY ValidInvariant, ValidJudged, PTL
----------------------------------------------------------------------------
(* Depths and levels *)

\* Heights that are at most one above that of some dependency stay below the
\* levels.
LEMMA HeightsBelow ==
    ASSUME NEW D, Plannable(D), NEW L \in Seq(SUBSET Step), Layered(D, L),
           NEW h \in [Step -> Nat],
           \A s \in Step : h[s] = 0 \/ NoStep \in D[s] \/ \E d \in D[s] : h[s] <= h[d] + 1,
           NEW t \in Step, NEW m \in DOMAIN L, t \in L[m]
    PROVE  h[t] < m
<1> DEFINE High == {s \in Step : \E k \in DOMAIN L : s \in L[k] /\ k <= h[s]}
<1> SUFFICES ASSUME High # {} PROVE FALSE
  <2>1. m \in Nat /\ h[t] \in Nat
    OBVIOUS
  <2> QED
    BY <2>1
<1>1. PICK s \in High : D[s] \cap High = {}
  <2>1. High \in SUBSET Step
    OBVIOUS
  <2> HIDE DEF High
  <2> QED
    BY <2>1 DEF Plannable, Acyclic
<1>2. PICK k \in DOMAIN L : s \in L[k] /\ k <= h[s]
  BY <1>1
<1>3. k \in Nat /\ k >= 1 /\ h[s] \in Nat /\ s \in Step /\ DOMAIN L = 1 .. Len(L) /\ Len(L) \in Nat
  BY <1>1
<1>4. D[s] \subseteq Step
  BY <1>3 DEF Plannable, WellNamed
<1>5. PICK d \in D[s] : h[s] <= h[d] + 1
  BY <1>2, <1>3, <1>4, StepAssumption
<1>6. PICK i \in DOMAIN L : /\ \A j \in DOMAIN L : s \in L[j] <=> j = i
                            /\ \A e \in D[s] : \E j \in 1 .. i - 1 : e \in L[j]
  <2> HIDE DEF High
  <2>1. s \in Step
    BY <1>3
  <2> QED
    BY <2>1, Zenon DEF Layered
<1>7. i = k
  BY <1>2, <1>6
<1>8. PICK j \in 1 .. k - 1 : d \in L[j]
  BY <1>6, <1>7
<1>9. d \in Step /\ d \notin High /\ j \in DOMAIN L /\ j \in Nat /\ j < k /\ h[d] \in Nat
  BY <1>1, <1>3, <1>4, <1>8
<1>10. h[d] < j
  BY <1>8, <1>9
<1> HIDE DEF High
<1> QED
  BY <1>2, <1>3, <1>5, <1>9, <1>10

\* Heights above those of all dependencies reach them.
LEMMA HeightsReach ==
    ASSUME NEW D, Plannable(D), NEW L \in Seq(SUBSET Step), Layered(D, L),
           NEW h \in [Step -> Nat], \A s \in Step : \A d \in D[s] : h[d] < h[s],
           NEW t \in Step, NEW m \in DOMAIN L, t \in L[m]
    PROVE  m <= h[t] + 1
<1> DEFINE Low == {s \in Step : \E k \in DOMAIN L : s \in L[k] /\ h[s] + 1 < k}
<1> SUFFICES ASSUME Low # {} PROVE FALSE
  <2>1. m \in Nat /\ h[t] \in Nat
    OBVIOUS
  <2> QED
    BY <2>1
<1>1. PICK s \in Low : D[s] \cap Low = {}
  <2>1. Low \in SUBSET Step
    OBVIOUS
  <2> HIDE DEF Low
  <2> QED
    BY <2>1 DEF Plannable, Acyclic
<1>2. PICK k \in DOMAIN L : s \in L[k] /\ h[s] + 1 < k
  BY <1>1
<1>3. /\ k \in Nat /\ h[s] \in Nat /\ k > 1 /\ s \in Step
      /\ DOMAIN L = 1 .. Len(L) /\ Len(L) \in Nat /\ k - 1 \in DOMAIN L /\ k - 1 \in Nat
  BY <1>1, <1>2
<1>4. PICK i \in DOMAIN L : /\ \A j \in DOMAIN L : s \in L[j] <=> j = i
                            /\ i > 1 => D[s] \cap L[i - 1] # {}
  BY <1>3, LevelOf
<1>5. i = k
  BY <1>2, <1>4
<1>6. PICK d \in D[s] : d \in L[k - 1]
  BY <1>3, <1>4, <1>5
<1>7. d \in Step /\ d \notin Low /\ h[d] \in Nat
  BY <1>1, <1>3, <1>6
<1>8. k - 1 <= h[d] + 1 /\ h[d] < h[s]
  BY <1>3, <1>6, <1>7
<1> HIDE DEF Low
<1> QED
  BY <1>2, <1>3, <1>7, <1>8

----------------------------------------------------------------------------
(* The validator, the executor and the schedule beside each other *)

\* What is drawn has been planned, and what is planned has been judged.
InTurn ==
    /\ drawing # "none" => stage = "planned"
    /\ stage = "planned" => judging = "done"

BothInv == Inv /\ DrawInv /\ ValidInv /\ InTurn /\ deps = Graph

\* Neither the validator nor the schedule is anything to the executor.
LEMMA ExecutorUnchanged == [ExecutionNext]_allVars => [Next]_vars
BY DEF ExecutionNext, ValidateFirst, DrawPlanned, Beside, allVars

LEMMA ValidatorUnchanged == [ExecutionNext]_allVars => [Validate]_validVars
BY DEF ExecutionNext, ValidateFirst, DrawPlanned, Beside, allVars

\* The workflow is given, and once it has been planned it stays so.
LEMMA PlannedStays ==
    ASSUME [Next]_vars
    PROVE  UNCHANGED deps /\ (stage = "planned" => stage' = "planned")
<1> USE DEF planVars, searchVars, levelVars
<1>1. CASE Schedule
  <2>1. CASE MakePlan
    BY <2>1 DEF MakePlan, Resolve, CheckNames, Leave, StartLevels, TakeLevel,
       FinishLevels, StartSearch, Descend, PassBy, FindCycle, Follow, CountOff
  <2> QED
    BY <1>1, <2>1 DEF Schedule, EndPlanning, Iterate, Wake, LeaveLoop, Return
<1>2. CASE Abort
  BY <1>2 DEF Abort
<1>3. CASE \E s \in Step : RunStep(s)
  BY <1>3 DEF RunStep, AttemptSucceeds, StepFails, AttemptFails, BackoffEnds, StepReturns
<1>4. CASE UNCHANGED vars
  BY <1>4 DEF vars
<1> QED
  BY <1>1, <1>2, <1>3, <1>4 DEF Next

\* No workflow changes, and none is judged again.
LEMMA JudgedStays ==
    ASSUME [Validate]_validVars
    PROVE  UNCHANGED lists /\ (judging = "done" => UNCHANGED validVars)
<1>1. CASE \E s \in Step : DetectFrom(s) \/ MeasureFrom(s)
  BY <1>1 DEF DetectFrom, MeasureFrom
<1>2. CASE \E d \in Step \cup {NoStep} :
              \/ SkipDependency(d) \/ DfsInto(d) \/ ReportCycle(d)
              \/ TakeAnswer(d) \/ MeasureInto(d)
  BY <1>2 DEF SkipDependency, DfsInto, ReportCycle, TakeAnswer, MeasureInto
<1>3. CASE Finish \/ NoCycle \/ Measure \/ StartSort \/ TakeDue \/ EndSort
  BY <1>3 DEF Finish, NoCycle, Measure, StartSort, TakeDue, EndSort
<1>4. CASE \E e \in uncounted : CountEntry(e[1], e[2])
  BY <1>4 DEF CountEntry
<1>5. CASE UNCHANGED validVars
  BY <1>5 DEF validVars
<1> QED
  BY <1>1, <1>2, <1>3, <1>4, <1>5 DEF Validate

LEMMA BothStep == BothInv /\ [ExecutionNext]_allVars => BothInv'
<1> SUFFICES ASSUME BothInv, [ExecutionNext]_allVars PROVE BothInv'
  OBVIOUS
<1>1. Inv' /\ UNCHANGED deps /\ (stage = "planned" => stage' = "planned")
  BY ExecutorUnchanged, ExecutorStep, PlannedStays DEF BothInv
<1>2. /\ ValidInv' /\ UNCHANGED lists
      /\ judging = "done" => judging' = "done"
  BY ValidatorUnchanged, ValidStep, JudgedStays DEF BothInv, validVars
<1>3. deps' = Graph'
  BY <1>1, <1>2 DEF BothInv, Graph, ListedBy
<1>4. stage' = "planned" => judging' = "done"
  <2>1. CASE UNCHANGED vars
    <3>1. stage' = stage
      BY <2>1 DEF vars, planVars
    <3> QED
      BY <1>2, <3>1 DEF BothInv, InTurn
  <2>2. CASE Beside(Next)
    BY <1>2, <2>2 DEF Beside
  <2> QED
    BY <2>1, <2>2 DEF ExecutionNext, ValidateFirst, DrawPlanned, allVars
<1>5. CASE DrawPlanned
  <2>1. stage = "planned" /\ Plannable(deps)
    BY <1>5 DEF DrawPlanned, BothInv, Inv, PlanInv, ResolverDecides
  <2>2. DrawInv'
    BY <1>5, <2>1, DrawStep DEF BothInv, DrawPlanned
  <2> QED
    BY <1>1, <1>2, <1>3, <1>4, <2>1, <2>2 DEF BothInv, InTurn
<1>6. CASE UNCHANGED drawVars
  <2>1. drawing = "none" => DrawInv'
    BY <1>6 DEF BothInv, DrawInv, Undrawn, DrawTypeOK, drawVars
  <2>2. drawing # "none" => DrawInv'
    BY <1>1, <1>6, DrawStep DEF BothInv
  <2>3. drawing' # "none" => stage' = "planned"
    BY <1>1, <1>6 DEF BothInv, InTurn, drawVars
  <2> QED
    BY <1>1, <1>2, <1>3, <1>4, <2>1, <2>2, <2>3 DEF BothInv, InTurn
<1> QED
  BY <1>5, <1>6 DEF ExecutionNext, ValidateFirst, Beside, allVars

THEOREM BothInvariant == ExecutionSpec => []BothInv
<1>1. ExecutionInit => BothInv
  <2> SUFFICES ASSUME ExecutionInit PROVE BothInv
    OBVIOUS
  <2>1. Inv
    BY ExecutorInit DEF ExecutionInit
  <2>2. DrawInv
    BY DEF ExecutionInit, DrawInv, Undrawn, DrawTypeOK
  <2>3. ValidInv
    BY UnjudgedValid DEF ExecutionInit
  <2>4. InTurn
    BY DEF ExecutionInit, InTurn, Undrawn, Init, ResolverInit
  <2> QED
    BY <2>1, <2>2, <2>3, <2>4 DEF ExecutionInit, BothInv
<1> QED
  BY <1>1, BothStep, PTL DEF ExecutionSpec

\* Whatever is proved of the executor or of the validator holds of it beside
\* the others.
THEOREM ExecutorBeside == ExecutionSpec => Spec /\ ValidatorSpec
<1>1. ExecutionInit => Init /\ Unjudged
  BY DEF ExecutionInit
<1> QED
  BY <1>1, ExecutorUnchanged, ValidatorUnchanged, PTL DEF ExecutionSpec, Spec, ValidatorSpec

\* The validator's search stops at the first gray step, the resolver's at the
\* first on its stack: both find what no set of steps can be left of.
THEOREM ValidatorAgrees == ExecutionSpec => []ValidatorDecides
<1>1. BothInv => ValidatorDecides
  <2> SUFFICES ASSUME BothInv PROVE ValidatorDecides
    OBVIOUS
  <2>1. WorkflowsJudged
    BY ValidJudged DEF BothInv
  <2>2. judging = "done" /\ Step # {} => (Valid <=> Plannable(deps))
    BY <2>1 DEF WorkflowsJudged, BothInv
  <2>3. Decided => (Plannable(deps) <=> stage = "planned")
    BY DEF BothInv, Inv, PlanInv, ResolverDecides, Decided, Refusal, Plannable
  <2> QED
    BY <2>1, <2>2, <2>3 DEF ValidatorDecides
<1> QED
  BY <1>1, BothInvariant, PTL

\* What getDepth finds lies below the levels, whatever visited made it leave
\* out; and it leaves nothing out if the steps are listed in order.
THEOREM DepthWarningDue == ExecutionSpec => []DepthWarningIsDue
<1>1. BothInv => DepthWarningIsDue
  <2> SUFFICES ASSUME BothInv, stage = "planned", Step # {}
               PROVE  /\ deepest < Len(levels)
                      /\ ListedInOrder => deepest + 1 = Len(levels)
    BY DEF DepthWarningIsDue
  <2> DEFINE n == Len(levels)
  <2>1. /\ judging = "done" /\ deps = Graph /\ ValidInv /\ Inv
    BY DEF BothInv, InTurn
  <2>2. /\ Plannable(deps) /\ levels \in Seq(SUBSET Step) /\ Layered(deps, levels)
        /\ \A k \in DOMAIN levels : levels[k] # {}
    BY <2>1 DEF Inv, PlanInv, PlanTypeOK, LevelsAreDepths, ResolverDecides
  <2>3. /\ HeightsRise /\ (ListedInOrder => MeasuredInOrder)
        /\ turn = Len(Listed) + 1 /\ calls = <<>> /\ ValidTypeOK
    BY <2>1 DEF ValidInv
  <2>4. height \in [Step -> Nat] /\ deepest \in Nat
    BY <2>3 DEF ValidTypeOK
  <2>5. n \in Nat /\ DOMAIN levels = 1 .. n
    BY <2>2
  <2> HIDE DEF n
  <2>6. \A s \in Step : \/ height[s] = 0 \/ NoStep \in deps[s]
                        \/ \E d \in deps[s] : height[s] <= height[d] + 1
    BY <2>1, <2>3 DEF HeightsRise, Graph
  <2>7. ASSUME NEW s \in Step PROVE height[s] < n /\ n > 0
    <3>1. PICK k \in DOMAIN levels : s \in levels[k]
      BY <2>2, LevelOf
    <3>2. height[s] < k
      BY <2>2, <2>4, <2>6, <3>1, HeightsBelow
    <3> QED
      BY <2>4, <2>5, <3>1, <3>2
  <2>8. deepest < n
    <3>1. CASE deepest = 0
      BY <2>5, <2>7, <3>1
    <3>2. CASE \E s \in Step : deepest <= height[s]
      BY <2>4, <2>5, <2>7, <3>2
    <3> QED
      BY <2>3, <3>1, <3>2 DEF HeightsRise
  <2>9. ASSUME ListedInOrder PROVE n <= deepest + 1
    <3>1. MeasuredInOrder
      BY <2>3, <2>9
    <3>2. ASSUME NEW s \in Step PROVE s \in measured /\ height[s] <= deepest
      <4>1. PICK j \in 1 .. Len(Listed) : Listed[j] = s
        BY ListedOnce
      <4>2. j \in 1 .. turn - 1
        BY <2>3, <4>1, ListedOnce
      <4> QED
        BY <3>1, <4>1, <4>2 DEF MeasuredInOrder
    <3>3. ASSUME NEW s \in Step, NEW d \in deps[s] PROVE height[d] < height[s]
      <4>1. PICK i \in DOMAIN lists[s] : lists[s][i] = d
        BY <2>1, <3>3 DEF Graph, ListedBy
      <4>2. looked[s] = Len(lists[s]) /\ DOMAIN lists[s] = 1 .. Len(lists[s])
        BY <2>3, <3>1, <3>2 DEF MeasuredInOrder, ValidTypeOK
      <4> QED
        BY <3>1, <4>1, <4>2 DEF MeasuredInOrder
    <3>4. n \in DOMAIN levels /\ levels[n] # {}
      <4>1. n > 0
        BY <2>7
      <4> QED
        BY <2>2, <2>5, <4>1
    <3>5. PICK s \in levels[n] : TRUE
      BY <3>4
    <3>6. s \in Step
      BY <2>2, <3>4, <3>5
    <3>7. n <= height[s] + 1
      BY <2>2, <2>4, <3>3, <3>4, <3>5, <3>6, HeightsReach
    <3> QED
      BY <2>4, <2>5, <3>2, <3>6, <3>7
  <2>10. ListedInOrder => deepest + 1 = n
    BY <2>4, <2>5, <2>8, <2>9
  <2> QED
    BY <2>8, <2>10 DEF n
<1> QED
  BY <1>1, BothInvariant, PTL

\* The levels relaxed along a queue are the depths of the steps.
THEOREM ScheduleLayered == ExecutionSpec => []ScheduleIsLayered
<1>1. BothInv => ScheduleIsLayered
  BY DrawnIsRight DEF BothInv
<1> QED
  BY <1>1, BothInvariant, PTL

\* Going from the deepest leaf to the deepest dependency each time leads
\* through every level to a step without dependencies.
THEOREM CriticalPathLongest == ExecutionSpec => []CriticalPathIsLongest
<1>1. BothInv => CriticalPathIsLongest
  BY DrawnIsRight DEF BothInv
<1> QED
  BY <1>1, BothInvariant, PTL

\* The plan and the schedule are two computations of one thing: an acyclic
\* graph has one layering without empty levels.
THEOREM SchedulesSame == ExecutionSpec => []SchedulesAgree
<1>1. BothInv => SchedulesAgree
  <2> SUFFICES ASSUME BothInv, drawing = "drawn", Step # {}
               PROVE  levels = ExecutionSchedule
    BY DEF SchedulesAgree
  <2> DEFINE E == ExecutionSchedule
  <2>1. /\ DrawTypeOK /\ DepthsExact /\ MaxIsReached /\ Plannable(deps)
        /\ Layered(deps, E) /\ stage = "planned"
    BY DepthsLayer DEF BothInv, DrawInv, InTurn, Plannable
  <2>2. /\ levels \in Seq(SUBSET Step) /\ Layered(deps, levels)
        /\ \A k \in DOMAIN levels : levels[k] # {}
    BY <2>1 DEF BothInv, Inv, PlanInv, PlanTypeOK, LevelsAreDepths
  <2>3. /\ E \in Seq(SUBSET Step) /\ Len(E) = maxDepth + 1 /\ maxDepth \in Nat
        /\ DOMAIN E = 1 .. maxDepth + 1
    BY <2>1 DEF ExecutionSchedule, DrawTypeOK
  <2>4. DOMAIN levels = 1 .. Len(levels) /\ Len(levels) \in Nat
    BY <2>2
  <2>5. \A s \in Step : \E k \in (DOMAIN levels) \cap (DOMAIN E) : s \in levels[k] /\ s \in E[k]
    BY <2>1, <2>2, <2>3, OneLayering DEF Plannable
  <2>6. PICK s \in Step : depth[s] = maxDepth
    BY <2>1, <2>3 DEF MaxIsReached, DrawTypeOK
  <2>7. s \in E[maxDepth + 1]
    BY <2>3, <2>6 DEF ExecutionSchedule
  <2> HIDE DEF E
  <2>8. maxDepth + 1 \in DOMAIN levels
    <3>1. PICK k \in (DOMAIN levels) \cap (DOMAIN E) : s \in levels[k] /\ s \in E[k]
      BY <2>5
    <3>2. k = maxDepth + 1
      BY <2>1, <2>3, <2>7, <3>1, OneLevel
    <3> QED
      BY <3>1, <3>2
  <2>9. Len(levels) = maxDepth + 1
    <3> DEFINE n == Len(levels)
    <3>1. n \in Nat /\ maxDepth \in Nat /\ maxDepth + 1 <= n
      BY <2>3, <2>4, <2>8
    <3> HIDE DEF n
    <3> SUFFICES ASSUME n > maxDepth + 1 PROVE FALSE
      BY <3>1 DEF n
    <3> USE DEF n
    <3>2. PICK t \in levels[Len(levels)] : TRUE
      <4>1. Len(levels) \in DOMAIN levels
        BY <2>3, <2>4
      <4>2. levels[Len(levels)] # {}
        BY <2>2, <4>1
      <4> QED
        BY <4>2
    <3>3. t \in Step /\ Len(levels) \in DOMAIN levels
      BY <2>2, <2>3, <2>4, <3>2
    <3>4. PICK k \in (DOMAIN levels) \cap (DOMAIN E) : t \in levels[k]
      BY <2>5, <3>3
    <3>5. k = Len(levels)
      BY <2>2, <3>3, <3>4, OneLevel
    <3> QED
      BY <2>3, <2>4, <3>4, <3>5
  <2>10. ASSUME NEW k \in 1 .. maxDepth + 1 PROVE levels[k] = E[k]
    <3>1. k \in DOMAIN levels /\ k \in DOMAIN E /\ levels[k] \subseteq Step /\ E[k] \subseteq Step
      BY <2>2, <2>3, <2>4, <2>9
    <3>2. ASSUME NEW t \in Step PROVE t \in levels[k] <=> t \in E[k]
      <4>1. PICK j \in (DOMAIN levels) \cap (DOMAIN E) : t \in levels[j] /\ t \in E[j]
        BY <2>5
      <4>2. t \in levels[k] => k = j
        BY <2>2, <3>1, <4>1, OneLevel
      <4>3. t \in E[k] => k = j
        BY <2>1, <2>3, <3>1, <4>1, OneLevel
      <4> QED
        BY <4>1, <4>2, <4>3
    <3> QED
      BY <3>1, <3>2
  <2> QED
    BY <2>2, <2>3, <2>4, <2>9, <2>10 DEF E
<1> QED
  BY <1>1, BothInvariant, PTL

=============================================================================
