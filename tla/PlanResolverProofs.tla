------------------------- MODULE PlanResolverProofs -------------------------
(***************************************************************************)
(* Theorems about PlanResolver, for every finite set of steps and every    *)
(* graph over them, in whatever order steps and dependencies are listed.   *)
(* The inductive invariant is PlanInv.                                     *)
(***************************************************************************)
EXTENDS PlanResolver, FiniteSetTheorems, FunctionTheorems, SequenceTheorems, TLAPS

\* Steps that detectCycle has returned from.
Left == visited \ recStack

\* recStack holds the steps of path, and path leads along dependencies.
PathIsStack ==
    /\ recStack = {path[k] : k \in DOMAIN path} /\ recStack \subseteq visited
    /\ \A j, k \in DOMAIN path : path[j] = path[k] => j = k
    /\ \A k \in 1 .. Len(path) - 1 : path[k + 1] \in deps[path[k]]

\* What a step was followed to has been left, or is next on the path.
FollowedLeft ==
    /\ \A s \in Step \ visited : followed[s] = {}
    /\ \A s \in Left : deps[s] \subseteq Left
    /\ \A k \in DOMAIN path : \A d \in followed[path[k]] :
          d \in Left \/ (k < Len(path) /\ d = path[k + 1])

\* No cycle leads through steps that have been left.
LeftAcyclic ==
    \A S \in SUBSET Left : S # {} => \E s \in S : deps[s] \cap S = {}

SearchInv == PathIsStack /\ FollowedLeft /\ LeftAcyclic

Placed == UNION {levels[k] : k \in DOMAIN levels}
Counted == Placed \ level

\* inDegree counts the dependencies that are not counted off, and those with
\* none left are queued until they are placed.
DegreesRight ==
    /\ level # {} => Len(levels) > 0 /\ level \subseteq levels[Len(levels)]
    /\ \A s \in Step : inDegree[s] = Cardinality(deps[s] \ Counted)
    /\ queue = {s \in Step \ Placed : deps[s] \subseteq Counted}

\* The levels made so far are as they should be, and a queued step depends
\* on one of the last level.
LevelsRight ==
    /\ \A k \in DOMAIN levels : \A s \in levels[k] :
          /\ \A j \in DOMAIN levels : s \in levels[j] => j = k
          /\ \A d \in deps[s] : \E j \in 1 .. k - 1 : d \in levels[j]
          /\ k > 1 => deps[s] \cap levels[k - 1] # {}
    /\ \A k \in DOMAIN levels : levels[k] # {}
    /\ Len(levels) > 0 => \A s \in queue : deps[s] \cap levels[Len(levels)] # {}

PlanInv ==
    /\ PlanTypeOK
    /\ stage \notin {"names", "invalid dependency"} => WellNamed(deps)
    /\ stage \in {"names", "search"} =>
          SearchInv /\ level = {} /\ levels = <<>>
    /\ stage = "levels" => Acyclic(deps) /\ DegreesRight /\ LevelsRight
    /\ ResolverDecides
    /\ LevelsAreDepths

----------------------------------------------------------------------------
(* Facts about graphs and cardinalities *)

\* The empty sets are those with cardinality zero, and taking an element out
\* of a set makes its cardinality one less.
LEMMA StepSets ==
    ASSUME NEW S \in SUBSET Step
    PROVE  /\ IsFiniteSet(S) /\ Cardinality(S) \in Nat
           /\ Cardinality(S) = 0 <=> S = {}
           /\ \A s \in S : Cardinality(S \ {s}) = Cardinality(S) - 1
<1>1. IsFiniteSet(S)
  BY StepAssumption, FS_Subset
<1> QED
  BY <1>1, FS_CardinalityType, FS_EmptySet, FS_RemoveElement

\* A graph with a cycle is not acyclic: each step of the cycle depends on one.
LEMMA CycleRefutes ==
    ASSUME NEW D, NEW c \in Seq(Step), IsCycle(D, c)
    PROVE  ~Acyclic(D)
<1> DEFINE S == {c[k] : k \in 1 .. Len(c) - 1}
<1>1. Len(c) \in Nat /\ Len(c) > 1 /\ c[Len(c)] = c[1]
  BY DEF IsCycle
<1>2. S # {} /\ S \in SUBSET Step
  BY <1>1 DEF IsCycle
<1>3. \A s \in S : D[s] \cap S # {}
  <2> SUFFICES ASSUME NEW k \in 1 .. Len(c) - 1
               PROVE  D[c[k]] \cap S # {}
    OBVIOUS
  <2>1. c[k + 1] \in D[c[k]]
    BY DEF IsCycle
  <2>2. c[k + 1] \in S
    <3>1. CASE k + 1 = Len(c)
      BY <1>1, <3>1
    <3>2. CASE k + 1 # Len(c)
      BY <1>1, <3>2
    <3> QED
      BY <3>1, <3>2
  <2> QED
    BY <2>1, <2>2
<1> QED
  BY <1>2, <1>3 DEF Acyclic

----------------------------------------------------------------------------
(* The search *)

LEMMA PlanInit == ResolverInit => PlanInv
<1> SUFFICES ASSUME ResolverInit PROVE PlanInv
  OBVIOUS
<1>1. PlanTypeOK
  BY DEF ResolverInit, PlanTypeOK
<1>2. PathIsStack /\ FollowedLeft /\ LeftAcyclic
  BY DEF ResolverInit, PathIsStack, FollowedLeft, LeftAcyclic, Left
<1> QED
  BY <1>1, <1>2 DEF ResolverInit, PlanInv, SearchInv, ResolverDecides, LevelsAreDepths

\* While path is not empty, its last step is the current one.
LEMMA PathEnd ==
    ASSUME PlanTypeOK, PathIsStack, path # <<>>
    PROVE  /\ Len(path) \in Nat \ {0} /\ DOMAIN path = 1 .. Len(path)
           /\ Current \in Step /\ Current \in recStack
           /\ path \in [1 .. Len(path) -> Step]
<1>1. path \in Seq(Step) /\ Len(path) \in Nat \ {0} /\ DOMAIN path = 1 .. Len(path)
  BY DEF PlanTypeOK
<1> QED
  BY <1>1 DEF Current, PathIsStack

\* A step that is entered is new to the search: the path grows by it, and what
\* has been left stays as it is.
LEMMA EnterKeepsSearch ==
    ASSUME PlanTypeOK, SearchInv, deps' = deps,
           NEW s \in Step \ visited, Enter(s),
           \/ path = <<>> /\ followed' = followed
           \/ /\ path # <<>> /\ s \in deps[Current]
              /\ followed' = [followed EXCEPT ![Current] = @ \cup {s}]
    PROVE  SearchInv'
<1>1. path \in Seq(Step) /\ Len(path) \in Nat /\ DOMAIN path = 1 .. Len(path)
  BY DEF PlanTypeOK
<1>2. /\ path' \in Seq(Step) /\ Len(path') = Len(path) + 1
      /\ DOMAIN path' = 1 .. Len(path) + 1
      /\ path'[Len(path) + 1] = s
      /\ \A k \in 1 .. Len(path) : path'[k] = path[k]
  BY <1>1 DEF Enter
<1>3. Left' = Left
  BY DEF Left, Enter, SearchInv, PathIsStack
<1>4. s \notin recStack /\ \A k \in DOMAIN path : path[k] # s
  BY DEF SearchInv, PathIsStack
<1>5. PathIsStack'
  <2>1. recStack' = {path'[k] : k \in DOMAIN path'} /\ recStack' \subseteq visited'
    BY <1>1, <1>2 DEF Enter, SearchInv, PathIsStack
  <2>2. \A j, k \in DOMAIN path' : path'[j] = path'[k] => j = k
    BY <1>1, <1>2, <1>4 DEF SearchInv, PathIsStack
  <2>3. \A k \in 1 .. Len(path') - 1 : path'[k + 1] \in deps'[path'[k]]
    BY <1>1, <1>2 DEF SearchInv, PathIsStack, Current
  <2> QED
    BY <2>1, <2>2, <2>3 DEF PathIsStack
<1>6. FollowedLeft'
  <2>1. \A r \in Step : followed'[r] = IF path # <<>> /\ r = Current
                                        THEN followed[r] \cup {s} ELSE followed[r]
    BY DEF PlanTypeOK
  <2>2. \A r \in Step \ visited' : followed'[r] = {}
    BY <2>1, PathEnd DEF SearchInv, PathIsStack, FollowedLeft, Enter
  <2>3. \A r \in Left' : deps'[r] \subseteq Left'
    BY <1>3 DEF SearchInv, FollowedLeft
  <2>4. ASSUME NEW k \in DOMAIN path', NEW d \in followed'[path'[k]]
        PROVE  d \in Left' \/ (k < Len(path') /\ d = path'[k + 1])
    <3>1. CASE k = Len(path) + 1
      BY <1>2, <2>1, <3>1, <1>4, PathEnd DEF SearchInv, FollowedLeft
    <3>2. CASE k # Len(path) + 1
      <4>1. k \in 1 .. Len(path) /\ path # <<>> /\ path'[k] = path[k] /\ path[k] \in Step
        BY <1>1, <1>2, <3>2
      <4>2. CASE d \in followed[path[k]]
        BY <1>1, <1>2, <1>3, <4>1, <4>2 DEF SearchInv, FollowedLeft
      <4>3. CASE d \notin followed[path[k]]
        <5>1. path[k] = Current /\ d = s
          <6>1. d \in followed'[path[k]]
            BY <2>4, <4>1
          <6>2. path[k] = Current
            BY <2>1, <4>1, <4>3, <6>1
          <6> QED
            BY <2>1, <4>1, <4>3, <6>1, <6>2
        <5>2. k = Len(path)
          BY <1>1, <4>1, <5>1 DEF SearchInv, PathIsStack, Current
        <5> QED
          BY <1>1, <1>2, <5>1, <5>2
      <4> QED
        BY <4>2, <4>3
    <3> QED
      BY <3>1, <3>2
  <2> QED
    BY <2>2, <2>3, <2>4 DEF FollowedLeft
<1>7. LeftAcyclic'
  BY <1>3 DEF SearchInv, LeftAcyclic
<1> QED
  BY <1>5, <1>6, <1>7 DEF SearchInv

\* A dependency that is passed by has been left before.
LEMMA PassByKeepsSearch ==
    ASSUME PlanTypeOK, SearchInv, NEW d \in Step, PassBy(d)
    PROVE  SearchInv'
<1>1. /\ UNCHANGED <<deps, visited, recStack, path>> /\ d \in Left /\ Current \in Step
      /\ Current \in visited
      /\ followed' = [followed EXCEPT ![Current] = @ \cup {d}]
  BY PathEnd DEF PassBy, Follow, Left, SearchInv, PathIsStack
<1>2. \A r \in Step : followed'[r] \subseteq followed[r] \cup {d}
  BY <1>1 DEF PlanTypeOK
<1>3. PathIsStack' /\ LeftAcyclic'
  BY <1>1 DEF SearchInv, PathIsStack, LeftAcyclic, Left
<1>4. FollowedLeft'
  <2>1. \A r \in Step \ visited' : followed'[r] = {}
    BY <1>1 DEF PlanTypeOK, SearchInv, FollowedLeft
  <2>2. \A r \in Left' : deps'[r] \subseteq Left'
    BY <1>1 DEF SearchInv, FollowedLeft, Left
  <2>3. \A k \in DOMAIN path' : \A e \in followed'[path'[k]] :
           e \in Left' \/ (k < Len(path') /\ e = path'[k + 1])
    <3>1. \A k \in DOMAIN path : path[k] \in Step
      BY DEF PlanTypeOK
    <3> QED
      BY <1>1, <1>2, <3>1 DEF SearchInv, FollowedLeft, Left
  <2> QED
    BY <2>1, <2>2, <2>3 DEF FollowedLeft
<1> QED
  BY <1>3, <1>4 DEF SearchInv

\* A step is left when all steps it depends on have been left.
LEMMA LeaveKeepsSearch ==
    ASSUME PlanTypeOK, SearchInv, Leave
    PROVE  SearchInv'
<1> DEFINE n == Len(path)
<1>1. /\ n \in Nat \ {0} /\ DOMAIN path = 1 .. n /\ path \in Seq(Step)
      /\ Current \in Step /\ Current \in recStack /\ Current = path[n]
  BY PathEnd DEF Leave, SearchInv, PlanTypeOK, Current
<1>2. /\ path' = SubSeq(path, 1, n - 1) /\ recStack' = recStack \ {Current}
      /\ UNCHANGED <<deps, visited, followed>> /\ followed[Current] = deps[Current]
  BY DEF Leave
<1>3. /\ Len(path') = n - 1 /\ DOMAIN path' = 1 .. n - 1
      /\ \A k \in 1 .. n - 1 : path'[k] = path[k]
  <2> HIDE DEF n
  <2>1. 1 \in 1 .. n + 1 /\ n - 1 \in 0 .. n
    BY <1>1
  <2> QED
    BY <1>1, <1>2, <2>1, SubSeqProperties DEF n
<1>4. \A j \in 1 .. n - 1 : path[j] # Current
  BY <1>1 DEF SearchInv, PathIsStack
<1>5. Left' = Left \cup {Current} /\ Current \notin Left
  BY <1>1, <1>2 DEF Left, SearchInv, PathIsStack
<1>6. deps[Current] \subseteq Left
  BY <1>1, <1>2 DEF SearchInv, FollowedLeft
<1>7. PathIsStack'
  <2>1. recStack' = {path'[k] : k \in DOMAIN path'}
    <3>1. recStack = {path[k] : k \in 1 .. n}
      BY <1>1 DEF SearchInv, PathIsStack
    <3>2. {path'[k] : k \in DOMAIN path'} = {path[k] : k \in 1 .. n - 1}
      BY <1>3
    <3>3. \A k \in 1 .. n : path[k] # Current => k \in 1 .. n - 1
      BY <1>1
    <3>4. {path[k] : k \in 1 .. n - 1} = {path[k] : k \in 1 .. n} \ {Current}
      <4> HIDE DEF n
      <4> QED
        BY <1>1, <1>4, <3>3
    <3> QED
      BY <1>2, <3>1, <3>2, <3>4, Zenon
  <2>2. recStack' \subseteq visited'
    BY <1>2 DEF SearchInv, PathIsStack
  <2>3. \A j, k \in DOMAIN path' : path'[j] = path'[k] => j = k
    BY <1>1, <1>3 DEF SearchInv, PathIsStack
  <2>4. \A k \in 1 .. Len(path') - 1 : path'[k + 1] \in deps'[path'[k]]
    BY <1>1, <1>2, <1>3 DEF SearchInv, PathIsStack
  <2> QED
    BY <2>1, <2>2, <2>3, <2>4 DEF PathIsStack
<1>8. FollowedLeft'
  <2>1. \A s \in Step \ visited' : followed'[s] = {}
    BY <1>2 DEF SearchInv, FollowedLeft
  <2>2. \A s \in Left' : deps'[s] \subseteq Left'
    BY <1>2, <1>5, <1>6 DEF SearchInv, FollowedLeft
  <2>3. ASSUME NEW k \in DOMAIN path', NEW d \in followed'[path'[k]]
        PROVE  d \in Left' \/ (k < Len(path') /\ d = path'[k + 1])
    <3>1. k \in 1 .. n - 1 /\ d \in followed[path[k]]
      BY <1>2, <1>3, <2>3
    <3>2. d \in Left \/ d = path[k + 1]
      BY <1>1, <3>1 DEF SearchInv, FollowedLeft
    <3>3. CASE k = n - 1
      BY <1>1, <1>5, <3>2, <3>3
    <3>4. CASE k # n - 1
      BY <1>1, <1>3, <1>5, <3>1, <3>2, <3>4
    <3> QED
      BY <3>3, <3>4
  <2> QED
    BY <2>1, <2>2, <2>3 DEF FollowedLeft
<1>9. LeftAcyclic'
  <2> SUFFICES ASSUME NEW S \in SUBSET (Left \cup {Current}), S # {}
               PROVE  \E s \in S : deps[s] \cap S = {}
    BY <1>2, <1>5 DEF LeftAcyclic
  <2>1. CASE S \subseteq {Current}
    BY <1>5, <1>6, <2>1
  <2>2. CASE ~(S \subseteq {Current})
    <3>1. PICK s \in S \ {Current} : deps[s] \cap (S \ {Current}) = {}
      BY <2>2 DEF SearchInv, LeftAcyclic
    <3>2. Current \notin deps[s]
      BY <1>5, <3>1 DEF SearchInv, FollowedLeft
    <3> QED
      BY <3>1, <3>2
  <2> QED
    BY <2>1, <2>2
<1> QED
  BY <1>7, <1>8, <1>9 DEF SearchInv

\* A path along dependencies whose last step depends on an earlier one.
LEMMA PathCloses ==
    ASSUME NEW D, NEW p \in Seq(Step), NEW k \in DOMAIN p,
           \A i, j \in DOMAIN p : p[i] = p[j] => i = j,
           \A i \in 1 .. Len(p) - 1 : p[i + 1] \in D[p[i]],
           p[k] \in D[p[Len(p)]]
    PROVE  LET c == Append(SubSeq(p, k, Len(p)), p[k])
           IN  c \in Seq(Step) /\ IsCycle(D, c)
<1> DEFINE n == Len(p)
           part == SubSeq(p, k, n)
           c == Append(part, p[k])
<1>1. /\ n \in Nat \ {0} /\ DOMAIN p = 1 .. n /\ k \in 1 .. n
      /\ \A i \in 1 .. n : p[i] \in Step
  OBVIOUS
<1> HIDE DEF n
<1>2. /\ part \in Seq(Step) /\ Len(part) = n - k + 1 /\ Len(part) \in Nat \ {0}
      /\ \A i \in 1 .. n - k + 1 : part[i] = p[k + i - 1]
  <2>1. k \in 1 .. n + 1 /\ n \in k - 1 .. n
    BY <1>1
  <2>2. /\ SubSeq(p, k, n) \in Seq(Step)
        /\ Len(SubSeq(p, k, n)) = IF k <= n THEN n - k + 1 ELSE 0
        /\ \A i \in 1 .. n - k + 1 : SubSeq(p, k, n)[i] = p[k + i - 1]
    BY <1>1, <2>1, SubSeqProperties DEF n
  <2> QED
    BY <1>1, <2>2
<1> HIDE DEF part
<1>3. /\ c \in Seq(Step) /\ Len(c) = n - k + 2 /\ c[n - k + 2] = p[k]
      /\ \A i \in 1 .. n - k + 1 : c[i] = p[k + i - 1]
  BY <1>1, <1>2, AppendProperties
<1> HIDE DEF c
<1>4. Len(c) > 1 /\ c[Len(c)] = c[1]
  BY <1>1, <1>3
<1>5. \A i \in 1 .. Len(c) - 1 : c[i] \in Step /\ c[i + 1] \in D[c[i]]
  <2> SUFFICES ASSUME NEW i \in 1 .. n - k + 1
               PROVE  c[i] \in Step /\ c[i + 1] \in D[c[i]]
    BY <1>1, <1>3
  <2>1. k + i - 1 \in 1 .. n /\ c[i] = p[k + i - 1]
    BY <1>1, <1>3
  <2>2. CASE i = n - k + 1
    BY <1>1, <1>3, <2>1, <2>2 DEF n
  <2>3. CASE i # n - k + 1
    <3>1. k + i - 1 \in 1 .. n - 1 /\ c[i + 1] = p[k + i]
      <4>1. i + 1 \in 1 .. n - k + 1 /\ k + (i + 1) - 1 = k + i
        BY <1>1, <2>3
      <4>2. c[i + 1] = p[k + (i + 1) - 1]
        BY <1>3, <4>1
      <4> QED
        BY <1>1, <2>3, <4>1, <4>2
    <3>2. p[k + i] \in D[p[k + i - 1]]
      BY <1>1, <3>1 DEF n
    <3> QED
      BY <1>1, <2>1, <3>1, <3>2
  <2> QED
    BY <2>2, <2>3
<1>6. \A i, j \in 1 .. Len(c) - 1 : c[i] = c[j] => i = j
  <2> SUFFICES ASSUME NEW i \in 1 .. Len(c) - 1, NEW j \in 1 .. Len(c) - 1, c[i] = c[j]
               PROVE  i = j
    OBVIOUS
  <2>1. /\ i \in 1 .. n - k + 1 /\ j \in 1 .. n - k + 1
        /\ k + i - 1 \in DOMAIN p /\ k + j - 1 \in DOMAIN p
        /\ p[k + i - 1] = p[k + j - 1]
    BY <1>1, <1>3
  <2> QED
    BY <1>1, <2>1
<1> QED
  BY <1>3, <1>4, <1>5, <1>6 DEF IsCycle, c, part, n

\* The cycle in the error is one of the graph.
LEMMA FoundCycle ==
    ASSUME PlanTypeOK, SearchInv, NEW d \in Step, FindCycle(d)
    PROVE  cycle' \in Seq(Step) /\ IsCycle(deps, cycle')
<1>1. /\ path \in Seq(Step) /\ d \in deps[path[Len(path)]]
      /\ \A i, j \in DOMAIN path : path[i] = path[j] => i = j
      /\ \A i \in 1 .. Len(path) - 1 : path[i + 1] \in deps[path[i]]
  BY DEF FindCycle, Follow, Current, SearchInv, PathIsStack, PlanTypeOK
<1>2. PICK k \in DOMAIN path : /\ path[k] = d
                               /\ cycle' = Append(SubSeq(path, k, Len(path)), d)
  <2>1. \E k \in DOMAIN path : path[k] = d
    BY DEF FindCycle, SearchInv, PathIsStack
  <2>2. CycleStart(d) \in DOMAIN path /\ path[CycleStart(d)] = d
    BY <2>1, Zenon DEF CycleStart
  <2> QED
    BY <2>2 DEF FindCycle
<1> QED
  BY <1>1, <1>2, PathCloses

----------------------------------------------------------------------------
(* The levels *)

\* The search found no cycle: the graph has none, and the queue is what comes
\* first.
LEMMA LevelsStart ==
    ASSUME PlanTypeOK, WellNamed(deps), SearchInv, level = {}, levels = <<>>, StartLevels
    PROVE  (Acyclic(deps) /\ DegreesRight /\ LevelsRight)'
<1>1. /\ UNCHANGED <<deps, level, levels>>
      /\ inDegree' = [s \in Step |-> Cardinality(deps[s])]
      /\ queue' = {s \in Step : Cardinality(deps[s]) = 0}
  BY DEF StartLevels
<1>2. Left = Step
  BY DEF Left, StartLevels, SearchInv, PathIsStack
<1>3. Acyclic(deps)'
  BY <1>1, <1>2 DEF SearchInv, LeftAcyclic, Acyclic
<1>4. Placed' = {} /\ Counted' = {}
  BY <1>1 DEF Placed, Counted
<1>5. \A s \in Step : deps[s] \in SUBSET Step
  BY DEF WellNamed
<1>6. DegreesRight'
  BY <1>1, <1>4, <1>5, StepSets DEF DegreesRight
<1>7. LevelsRight'
  BY <1>1 DEF LevelsRight
<1> QED
  BY <1>3, <1>6, <1>7

\* All that is queued becomes a level.
LEMMA LevelTaken ==
    ASSUME PlanTypeOK, WellNamed(deps), DegreesRight, LevelsRight, TakeLevel
    PROVE  (DegreesRight /\ LevelsRight)'
<1> DEFINE n == Len(levels)
<1>1. /\ UNCHANGED <<deps, inDegree>> /\ level = {} /\ queue # {}
      /\ level' = queue /\ queue' = {} /\ levels' = Append(levels, queue)
  BY DEF TakeLevel
<1>2. /\ n \in Nat /\ DOMAIN levels = 1 .. n /\ queue \in SUBSET Step
      /\ Len(levels') = n + 1 /\ DOMAIN levels' = 1 .. n + 1
      /\ levels'[n + 1] = queue /\ \A k \in 1 .. n : levels'[k] = levels[k]
  BY <1>1 DEF PlanTypeOK
<1> HIDE DEF n
<1>3. Placed' = Placed \cup queue /\ Placed \cap queue = {}
  BY <1>2 DEF Placed, DegreesRight
<1>4. Counted' = Counted /\ Counted = Placed
  BY <1>1, <1>3 DEF Counted
<1>5. DegreesRight'
  <2>1. Len(levels') > 0 /\ level' \subseteq levels'[Len(levels')]
    BY <1>1, <1>2
  <2>2. \A s \in Step : inDegree'[s] = Cardinality(deps'[s] \ Counted')
    BY <1>1, <1>4 DEF DegreesRight
  <2>3. queue' = {s \in Step \ Placed' : deps'[s] \subseteq Counted'}
    BY <1>1, <1>3, <1>4 DEF DegreesRight
  <2> QED
    BY <2>1, <2>2, <2>3 DEF DegreesRight
<1>6. \A s \in queue : deps[s] \subseteq Placed /\ s \notin Placed
  BY <1>4 DEF DegreesRight
<1>7. ASSUME NEW k \in DOMAIN levels', NEW s \in levels'[k]
      PROVE  /\ \A j \in DOMAIN levels' : s \in levels'[j] => j = k
             /\ \A d \in deps'[s] : \E j \in 1 .. k - 1 : d \in levels'[j]
             /\ k > 1 => deps'[s] \cap levels'[k - 1] # {}
  <2>1. CASE k = n + 1
    <3>1. s \in queue
      BY <1>2, <2>1, <1>7
    <3>2. \A j \in 1 .. n : s \notin levels[j]
      BY <1>2, <1>6, <3>1 DEF Placed
    <3>3. \A d \in deps[s] : \E j \in 1 .. n : d \in levels[j]
      BY <1>2, <1>6, <3>1 DEF Placed
    <3>4. n > 0 => deps[s] \cap levels[n] # {}
      BY <3>1 DEF LevelsRight, n
    <3> QED
      BY <1>1, <1>2, <2>1, <3>2, <3>3, <3>4
  <2>2. CASE k # n + 1
    <3>1. k \in 1 .. n /\ s \in levels[k] /\ s \in Placed
      BY <1>2, <1>7, <2>2 DEF Placed
    <3>2. s \notin queue
      BY <1>6, <3>1
    <3>3. \A j \in 1 .. n : s \in levels[j] => j = k
      BY <1>2, <3>1 DEF LevelsRight
    <3>4. \A d \in deps[s] : \E j \in 1 .. k - 1 : d \in levels[j]
      BY <1>2, <3>1 DEF LevelsRight
    <3>5. k > 1 => deps[s] \cap levels[k - 1] # {}
      BY <1>2, <3>1 DEF LevelsRight
    <3> QED
      BY <1>1, <1>2, <3>1, <3>2, <3>3, <3>4, <3>5
  <2> QED
    BY <2>1, <2>2
<1>8. LevelsRight'
  <2>1. \A k \in DOMAIN levels' : levels'[k] # {}
    BY <1>1, <1>2 DEF LevelsRight
  <2> QED
    BY <1>1, <1>7, <2>1 DEF LevelsRight
<1> QED
  BY <1>5, <1>8

\* A step counted off takes one from the in-degree of each step that depends
\* on it; where nothing is left, that step is due in the next level.
LEMMA StepCountedOff ==
    ASSUME PlanTypeOK, WellNamed(deps), DegreesRight, LevelsRight,
           NEW s \in Step, CountOff(s)
    PROVE  inDegree' \in [Step -> Nat] /\ (DegreesRight /\ LevelsRight)'
<1> DEFINE n == Len(levels)
           left(t) == deps[t] \ Counted
<1>1. /\ UNCHANGED <<deps, levels>> /\ s \in level /\ level' = level \ {s}
      /\ inDegree' = [t \in Step |-> IF s \in deps[t] THEN inDegree[t] - 1 ELSE inDegree[t]]
      /\ queue' = queue \cup {t \in Step : s \in deps[t] /\ inDegree[t] = 1}
  BY DEF CountOff, Dependents
<1>2. /\ n \in Nat /\ DOMAIN levels = 1 .. n /\ n > 0 /\ level \subseteq levels[n]
      /\ s \in levels[n] /\ s \in Placed /\ s \notin Counted
  BY <1>1 DEF PlanTypeOK, DegreesRight, Placed, Counted
<1>3. Placed' = Placed /\ Counted' = Counted \cup {s} /\ Counted \subseteq Placed
  BY <1>1, <1>2 DEF Placed, Counted
<1>4. \A t \in Step : left(t) \in SUBSET Step /\ inDegree[t] = Cardinality(left(t))
  BY DEF WellNamed, DegreesRight
<1>5. \A t \in Step : (deps[t] \ Counted') = left(t) \ {s}
  BY <1>3
<1>6. \A t \in Step : s \in deps[t] <=> s \in left(t)
  BY <1>2
<1> HIDE DEF left
<1>7. \A t \in Step : inDegree'[t] = Cardinality(left(t) \ {s}) /\ inDegree'[t] \in Nat
  <2> TAKE t \in Step
  <2>1. CASE s \in left(t)
    BY <1>1, <1>4, <1>6, <2>1, StepSets
  <2>2. CASE s \notin left(t)
    <3>1. left(t) \ {s} = left(t)
      BY <2>2
    <3> QED
      BY <1>1, <1>4, <1>6, <2>2, <3>1, StepSets
  <2> QED
    BY <2>1, <2>2
<1>8. inDegree' \in [Step -> Nat]
  BY <1>1, <1>7
\* A step that depends on s comes after the level of s.
<1>9. \A t \in Step : s \in deps[t] => t \notin Placed
  <2> SUFFICES ASSUME NEW k \in DOMAIN levels, NEW t \in levels[k], s \in deps[t] PROVE FALSE
    BY DEF Placed
  <2>1. \E j \in 1 .. k - 1 : s \in levels[j]
    BY DEF LevelsRight
  <2>2. PICK j \in 1 .. k - 1 : s \in levels[j]
    BY <2>1
  <2> HIDE DEF n
  <2>3. k \in 1 .. n /\ j \in DOMAIN levels /\ n \in DOMAIN levels
    BY <1>2
  <2>4. j = n
    BY <1>2, <2>2, <2>3 DEF LevelsRight
  <2> QED
    BY <1>2, <2>3, <2>4
<1>10. \A t \in Step : s \in deps[t] /\ inDegree[t] = 1 => left(t) = {s}
  <2> SUFFICES ASSUME NEW t \in Step, s \in left(t), Cardinality(left(t)) = 1
               PROVE  left(t) = {s}
    BY <1>4, <1>6
  <2>1. Cardinality(left(t) \ {s}) = 0 /\ left(t) \ {s} \in SUBSET Step
    BY <1>4, StepSets
  <2> QED
    BY <2>1, StepSets
<1>11. \A t \in Step : left(t) = {s} => s \in deps[t] /\ inDegree[t] = 1
  <2> SUFFICES ASSUME NEW t \in Step, left(t) = {s} PROVE Cardinality(left(t)) = 1
    BY <1>4, <1>6
  <2> QED
    BY <1>2, FS_Singleton
<1>12. \A t \in Step : left(t) \subseteq {s} <=> deps[t] \subseteq Counted'
  BY <1>3 DEF left
<1>13. queue' = {t \in Step \ Placed' : deps'[t] \subseteq Counted'}
  <2>1. queue = {t \in Step \ Placed : left(t) = {}}
    BY DEF DegreesRight, left
  <2>2. queue' = queue \cup {t \in Step \ Placed : left(t) = {s}}
    BY <1>1, <1>9, <1>10, <1>11
  <2> QED
    BY <1>1, <1>3, <1>12, <2>1, <2>2
<1>14. DegreesRight'
  <2>1. level' # {} => Len(levels') > 0 /\ level' \subseteq levels'[Len(levels')]
    BY <1>1, <1>2
  <2>2. \A t \in Step : inDegree'[t] = Cardinality(deps'[t] \ Counted')
    BY <1>1, <1>5, <1>7
  <2> QED
    BY <1>13, <2>1, <2>2 DEF DegreesRight
<1>15. LevelsRight'
  <2>1. \A t \in queue' : deps[t] \cap levels[n] # {}
    BY <1>1, <1>2 DEF LevelsRight
  <2> QED
    BY <1>1, <2>1 DEF LevelsRight
<1> QED
  BY <1>8, <1>14, <1>15

\* With nothing queued and nothing to count off every step of an acyclic graph
\* is in a level, and in one only: the sanity check passes.
LEMMA LevelsComplete ==
    ASSUME PlanTypeOK, Plannable(deps), DegreesRight, LevelsRight, level = {}, queue = {}
    PROVE  Layered(deps, levels) /\ Cardinality(Flat) = Cardinality(Step)
<1>1. Counted = Placed
  BY DEF Counted
<1>2. Step \subseteq Placed
  <2> DEFINE S == Step \ Placed
  <2> SUFFICES ASSUME S # {} PROVE FALSE
    OBVIOUS
  <2>1. PICK s \in S : deps[s] \cap S = {}
    <3>1. S \in SUBSET Step
      OBVIOUS
    <3> QED
      BY <3>1 DEF Plannable, Acyclic
  <2>2. deps[s] \subseteq Placed
    BY <2>1 DEF Plannable, WellNamed
  <2> QED
    BY <1>1, <2>1, <2>2 DEF DegreesRight
<1>3. /\ \A s \in Step : \E k \in DOMAIN levels : s \in levels[k]
      /\ \A k \in DOMAIN levels : levels[k] \subseteq Step
  BY <1>2 DEF Placed, PlanTypeOK
<1>4. Layered(deps, levels)
  BY <1>3 DEF LevelsRight, Layered
<1>5. Cardinality(Flat) = Cardinality(Step)
  <2> DEFINE at(s) == CHOOSE k \in DOMAIN levels : s \in levels[k]
             f == [s \in Step |-> <<at(s), s>>]
  <2>1. \A s \in Step : at(s) \in DOMAIN levels /\ s \in levels[at(s)]
    BY <1>3
  <2>2. \A k \in DOMAIN levels : \A s \in levels[k] : at(s) = k
    BY <1>3, <2>1 DEF LevelsRight
  <2> HIDE DEF at
  <2>3. f \in Bijection(Step, Flat)
    <3>1. f \in [Step -> Flat]
      BY <2>1 DEF Flat
    <3>2. \A s, t \in Step : f[s] = f[t] => s = t
      OBVIOUS
    <3>3. \A e \in Flat : \E s \in Step : f[s] = e
      <4> TAKE e \in Flat
      <4>1. e \in (DOMAIN levels) \X Step /\ e[2] \in levels[e[1]]
        BY DEF Flat
      <4>2. f[e[2]] = e
        BY <2>2, <4>1
      <4> QED
        BY <4>1, <4>2
    <3> QED
      BY <3>1, <3>2, <3>3, Fun_IsBij
  <2> QED
    BY <2>3, StepAssumption, FS_Bijection DEF ExistsBijection
<1> QED
  BY <1>4, <1>5

----------------------------------------------------------------------------
(* The invariant *)

\* What a stage of the search needs to keep PlanInv.
LEMMA SearchGoesOn ==
    ASSUME PlanTypeOK', WellNamed(deps), SearchInv', deps' = deps,
           stage' = "search", level' = {}, levels' = <<>>
    PROVE  PlanInv'
BY DEF PlanInv, ResolverDecides, LevelsAreDepths, WellNamed

LEMMA LevelsGoOn ==
    ASSUME PlanTypeOK', Plannable(deps), deps' = deps, stage' = "levels",
           (DegreesRight /\ LevelsRight)'
    PROVE  PlanInv'
BY DEF PlanInv, ResolverDecides, LevelsAreDepths, Plannable, WellNamed, Acyclic

LEMMA PlanStep == PlanInv /\ [Resolve]_planVars => PlanInv'
<1> SUFFICES ASSUME PlanInv, [Resolve]_planVars PROVE PlanInv'
  OBVIOUS
<1>1. PlanTypeOK
  BY DEF PlanInv
<1>2. CASE CheckNames
  <2>1. PlanTypeOK'
    BY <1>1, <1>2 DEF CheckNames, PlanTypeOK, Refusal, searchVars, levelVars
  <2>2. SearchInv /\ UNCHANGED <<deps, visited, recStack, path, followed>>
    BY <1>2 DEF CheckNames, PlanInv, searchVars
  <2>3. SearchInv'
    BY <2>2 DEF SearchInv, PathIsStack, FollowedLeft, LeftAcyclic, Left
  <2> QED
    BY <1>2, <2>1, <2>3 DEF CheckNames, PlanInv, ResolverDecides, LevelsAreDepths,
                      searchVars, levelVars, WellNamed
<1>3. ASSUME stage = "search"
      PROVE  SearchInv /\ WellNamed(deps) /\ level = {} /\ levels = <<>>
  BY <1>3 DEF PlanInv
<1>4. ASSUME NEW s \in Step, StartSearch(s) PROVE PlanInv'
  <2>1. Enter(s) /\ s \in Step \ visited /\ followed' = followed /\ deps' = deps
    BY <1>4 DEF StartSearch
  <2>2. SearchInv'
    BY <1>1, <1>3, <1>4, <2>1, EnterKeepsSearch DEF StartSearch
  <2>3. PlanTypeOK'
    BY <1>1, <1>4 DEF StartSearch, Enter, PlanTypeOK, levelVars
  <2> QED
    BY <1>3, <1>4, <2>2, <2>3, SearchGoesOn DEF StartSearch, levelVars
<1>5. ASSUME NEW d \in Step, Follow(d) PROVE followed' \in [Step -> SUBSET Step]
  BY <1>1, <1>3, <1>5, PathEnd DEF Follow, PlanTypeOK, SearchInv
<1>6. ASSUME NEW d \in Step, Descend(d) PROVE PlanInv'
  <2>1. /\ Enter(d) /\ d \in Step \ visited /\ deps' = deps /\ stage = "search"
        /\ path # <<>> /\ d \in deps[Current]
        /\ followed' = [followed EXCEPT ![Current] = @ \cup {d}]
    BY <1>6 DEF Descend, Follow
  <2>2. SearchInv'
    BY <1>1, <1>3, <2>1, EnterKeepsSearch
  <2>3. PlanTypeOK'
    <3>1. path' \in Seq(Step) /\ visited' \subseteq Step /\ recStack' \subseteq Step
      BY <1>1, <2>1 DEF Enter, PlanTypeOK
    <3> QED
      BY <1>1, <1>5, <1>6, <3>1 DEF Descend, Follow, PlanTypeOK, levelVars
  <2> QED
    BY <1>3, <1>6, <2>1, <2>2, <2>3, SearchGoesOn DEF Descend, Follow, levelVars
<1>7. ASSUME NEW d \in Step, PassBy(d) PROVE PlanInv'
  <2>1. stage = "search"
    BY <1>7 DEF PassBy, Follow
  <2>2. SearchInv'
    BY <1>1, <1>3, <1>7, <2>1, PassByKeepsSearch
  <2>3. PlanTypeOK'
    BY <1>1, <1>5, <1>7 DEF PassBy, Follow, PlanTypeOK, levelVars
  <2> QED
    BY <1>3, <1>7, <2>1, <2>2, <2>3, SearchGoesOn DEF PassBy, Follow, levelVars
<1>8. ASSUME NEW d \in Step, FindCycle(d) PROVE PlanInv'
  <2>1. stage = "search" /\ stage' = "cycle" /\ deps' = deps
    BY <1>8 DEF FindCycle, Follow
  <2>2. cycle' \in Seq(Step) /\ IsCycle(deps, cycle')
    BY <1>1, <1>3, <1>8, <2>1, FoundCycle
  <2>3. ~Acyclic(deps)
    BY <2>2, CycleRefutes
  <2>4. PlanTypeOK'
    BY <1>1, <1>5, <1>8, <2>2 DEF FindCycle, Follow, PlanTypeOK, levelVars, Refusal
  <2> QED
    BY <1>3, <2>1, <2>2, <2>3, <2>4 DEF PlanInv, ResolverDecides, LevelsAreDepths,
       WellNamed, Acyclic, IsCycle
<1>9. CASE Leave
  <2>1. stage = "search" /\ stage' = stage /\ UNCHANGED <<deps, levelVars>>
    BY <1>9 DEF Leave
  <2>2. SearchInv'
    BY <1>1, <1>3, <1>9, <2>1, LeaveKeepsSearch
  <2>3. path' \in Seq(Step)
    <3>1. /\ Len(path) \in Nat \ {0} /\ path \in Seq(Step)
          /\ path' = SubSeq(path, 1, Len(path) - 1)
      BY <1>1, <1>3, <1>9, <2>1, PathEnd DEF Leave, SearchInv, PlanTypeOK
    <3>2. 1 \in 1 .. Len(path) + 1 /\ Len(path) - 1 \in 0 .. Len(path)
      BY <3>1
    <3> QED
      BY <3>1, <3>2, SubSeqProperties
  <2>4. PlanTypeOK'
    BY <1>1, <1>9, <2>3 DEF Leave, PlanTypeOK, levelVars
  <2> QED
    BY <1>3, <2>1, <2>2, <2>4, SearchGoesOn DEF levelVars
<1>10. CASE StartLevels
  <2>1. stage = "search" /\ stage' = "levels" /\ deps' = deps
    BY <1>10 DEF StartLevels
  <2>2. (Acyclic(deps) /\ DegreesRight /\ LevelsRight)'
    BY <1>1, <1>3, <1>10, <2>1, LevelsStart
  <2>3. inDegree' \in [Step -> Nat]
    <3>1. \A s \in Step : deps[s] \in SUBSET Step
      BY <1>3, <2>1 DEF WellNamed
    <3> QED
      BY <1>10, <3>1, StepSets DEF StartLevels
  <2>4. PlanTypeOK'
    BY <1>1, <1>10, <2>3 DEF StartLevels, PlanTypeOK, searchVars
  <2> QED
    BY <1>3, <2>1, <2>2, <2>4, LevelsGoOn DEF Plannable, WellNamed, Acyclic
<1>11. ASSUME stage = "levels" PROVE Plannable(deps) /\ DegreesRight /\ LevelsRight
  BY <1>11 DEF PlanInv, Plannable
<1>12. CASE TakeLevel
  <2>1. (DegreesRight /\ LevelsRight)'
    BY <1>1, <1>11, <1>12, LevelTaken DEF TakeLevel, Plannable
  <2>2. PlanTypeOK'
    BY <1>1, <1>12 DEF TakeLevel, PlanTypeOK, searchVars
  <2> QED
    BY <1>11, <1>12, <2>1, <2>2, LevelsGoOn DEF TakeLevel
<1>13. ASSUME NEW s \in Step, CountOff(s) PROVE PlanInv'
  <2>1. inDegree' \in [Step -> Nat] /\ (DegreesRight /\ LevelsRight)'
    BY <1>1, <1>11, <1>13, StepCountedOff DEF CountOff, Plannable
  <2>2. PlanTypeOK'
    BY <1>1, <1>13, <2>1 DEF CountOff, Dependents, PlanTypeOK, searchVars
  <2> QED
    BY <1>11, <1>13, <2>1, <2>2, LevelsGoOn DEF CountOff
<1>14. CASE FinishLevels
  <2>1. Layered(deps, levels) /\ Cardinality(Flat) = Cardinality(Step)
    BY <1>1, <1>11, <1>14, LevelsComplete DEF FinishLevels
  <2>2. stage' = "planned" /\ UNCHANGED <<deps, levels>> /\ Plannable(deps) /\ LevelsRight
    BY <1>11, <1>14, <2>1 DEF FinishLevels, levelVars
  <2>3. PlanTypeOK'
    BY <1>1, <1>14, <2>2 DEF FinishLevels, PlanTypeOK, searchVars, levelVars
  <2> QED
    <3>1. \A k \in DOMAIN levels : levels[k] # {}
      BY <2>2 DEF LevelsRight
    <3>2. Layered(deps, levels)' /\ Plannable(deps)' /\ WellNamed(deps)'
      BY <2>1, <2>2 DEF Plannable, WellNamed, Acyclic, Layered
    <3> QED
      BY <2>2, <2>3, <3>1, <3>2 DEF PlanInv, ResolverDecides, LevelsAreDepths
<1>15. CASE UNCHANGED planVars
  <2>1. UNCHANGED <<deps, stage, visited, recStack, path, followed, cycle,
                    inDegree, queue, level, levels>>
    BY <1>15 DEF planVars
  <2>2. PlanTypeOK' /\ (ResolverDecides /\ LevelsAreDepths)'
    BY <1>1, <2>1 DEF PlanInv, PlanTypeOK, ResolverDecides, LevelsAreDepths,
       WellNamed, Acyclic, Plannable, IsCycle, Layered
  <2>3. SearchInv => SearchInv'
    BY <2>1 DEF SearchInv, PathIsStack, FollowedLeft, LeftAcyclic, Left
  <2>4. DegreesRight /\ LevelsRight => (DegreesRight /\ LevelsRight)'
    BY <2>1 DEF DegreesRight, LevelsRight, Placed, Counted
  <2> QED
    BY <2>1, <2>2, <2>3, <2>4 DEF PlanInv, WellNamed, Acyclic
<1> QED
  BY <1>2, <1>4, <1>6, <1>7, <1>8, <1>9, <1>10, <1>12, <1>13, <1>14, <1>15 DEF Resolve

\* resolveExecutionPlan keeps the invariant.
THEOREM ResolverInvariant == ResolverSpec => []PlanInv
BY PlanInit, PlanStep, PTL DEF ResolverSpec

\* resolveExecutionPlan, run to its end on any workflow, plans it exactly when
\* it can be executed, and a plan has each step in the level it belongs in.
THEOREM PlanIsRight == ResolverSpec => []ResolverDecides /\ []LevelsAreDepths
<1>1. PlanInv => ResolverDecides /\ LevelsAreDepths
  BY DEF PlanInv
<1> QED
  BY <1>1, ResolverInvariant, PTL

=============================================================================
