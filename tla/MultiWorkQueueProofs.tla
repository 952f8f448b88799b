------------------------ MODULE MultiWorkQueueProofs ------------------------
(***************************************************************************)
(* Proofs about MultiWorkQueue, for any numbers of workers, users and works: *)
(* no signal is lost, numPendingWorks counts the works, and the iterator of  *)
(* UserWorkContainer never leads to a list that was erased (NoLostWakeup).   *)
(*                                                                         *)
(* The invariant is inductive as it stands but for one fact about the bound: *)
(* no personal queue is longer than the number of personal works added.     *)
(***************************************************************************)
EXTENDS MultiWorkQueue, FiniteSetTheorems, TLAPS

PersonalIsBounded == \A w \in Workers : personal[w] <= numPersonal

\* The inductive invariant.
IInv == NoLostWakeup /\ PersonalIsBounded

-----------------------------------------------------------------------------
\* A set of natural numbers that is not empty has a least element, so that Min is
\* what its name says.
LEMMA MinIsLeast ==
    ASSUME NEW S \in SUBSET Nat, S # {}
    PROVE  Min(S) \in S /\ \A y \in S : Min(S) <= y
<1> DEFINE R == OpToRel(<, Nat)
<1>1. IsWellFoundedOn(R, Nat)
  BY NatLessThanWellFounded
<1>2. \A x, y \in Nat : x < y => <<x, y>> \in R
  BY DEF OpToRel
<1> HIDE DEF R
<1>3. PICK x \in S : \A y \in S : ~(<<y, x>> \in R)
  BY <1>1, WFMin, Zenon
<1>4. \A y \in S : x <= y
  <2> SUFFICES ASSUME NEW y \in S PROVE x <= y
    OBVIOUS
  <2>1. x \in Nat /\ y \in Nat
    OBVIOUS
  <2>2. ~(y < x)
    BY <1>2, <1>3, <2>1, Zenon
  <2> QED BY <2>1, <2>2
<1> QED BY <1>4, Zenon DEF Min

\* The sets that are counted are finite.
LEMMA CountedAreFinite ==
    /\ IsFiniteSet(UserWorks) /\ Cardinality(UserWorks) \in Nat
    /\ \A pool \in {DirectWorkers, IndirectWorkers} :
          IsFiniteSet(Ready(pool)) /\ Cardinality(Ready(pool)) \in Nat
<1>1. IsFiniteSet(1 .. MaxQueued)
  BY BoundsAssumption, FS_Interval
<1>2. IsFiniteSet(Users \X (1 .. MaxQueued))
  BY <1>1, UsersAssumption, FS_Product, Zenon
<1>3. UserWorks \subseteq Users \X (1 .. MaxQueued)
  BY DEF UserWorks
<1>4. IsFiniteSet(UserWorks) /\ Cardinality(UserWorks) \in Nat
  BY <1>2, <1>3, FS_Subset, FS_CardinalityType
<1>5. \A pool : Ready(pool) \subseteq pool
  BY DEF Ready
<1>6. \A pool \in {DirectWorkers, IndirectWorkers} :
          IsFiniteSet(Ready(pool)) /\ Cardinality(Ready(pool)) \in Nat
  BY <1>5, WorkersAssumption, FS_Subset, FS_CardinalityType
<1> QED BY <1>4, <1>6

\* A work joins or leaves the list of a user.
LEMMA UserWorkAdded ==
    ASSUME workMap \in [Users -> 0 .. MaxQueued], NEW u \in Users, workMap[u] < MaxQueued,
           workMap' = [workMap EXCEPT ![u] = @ + 1]
    PROVE  Cardinality(UserWorks') = Cardinality(UserWorks) + 1
<1> USE BoundsAssumption
<1> DEFINE e == <<u, workMap[u] + 1>>
<1>1. e \notin UserWorks
  BY DEF UserWorks
<1>2. UserWorks' = UserWorks \cup {e}
  <2>1. e \in Users \X (1 .. MaxQueued) /\ e[1] = u /\ e[2] = workMap[u] + 1
    OBVIOUS
  <2>2. \A d \in Users \X (1 .. MaxQueued) : d[1] \in Users /\ d[2] \in 1 .. MaxQueued /\ d = <<d[1], d[2]>>
    OBVIOUS
  <2>3. \A d \in Users \X (1 .. MaxQueued) :
            d[2] <= workMap'[d[1]] <=> d[2] <= workMap[d[1]] \/ d = e
    BY <2>2
  <2> QED BY <2>1, <2>3 DEF UserWorks
<1> QED BY <1>1, <1>2, CountedAreFinite, FS_AddElement, Zenon

\* A work that is taken from the list of a user is one work less.
LEMMA UserWorkTaken ==
    ASSUME workMap \in [Users -> 0 .. MaxQueued], NEW u \in Users, workMap[u] > 0,
           workMap' = [workMap EXCEPT ![u] = @ - 1]
    PROVE  Cardinality(UserWorks') = Cardinality(UserWorks) - 1
<1> USE BoundsAssumption
<1> DEFINE e == <<u, workMap[u]>>
<1>1. e \in UserWorks
  BY DEF UserWorks
<1>2. UserWorks' = UserWorks \ {e}
  <2>2. \A d \in Users \X (1 .. MaxQueued) : d[1] \in Users /\ d[2] \in 1 .. MaxQueued /\ d = <<d[1], d[2]>>
    OBVIOUS
  <2>3. \A d \in Users \X (1 .. MaxQueued) :
            d[2] <= workMap'[d[1]] <=> d[2] <= workMap[d[1]] /\ d # e
    BY <2>2
  <2> QED BY <2>3 DEF UserWorks
<1> QED BY <1>1, <1>2, CountedAreFinite, FS_RemoveElement, Zenon

-----------------------------------------------------------------------------
Pools == {DirectWorkers, IndirectWorkers}
States == {"ready", "waiting", "busy"}

\* The sleepers of a pool are covered if n works are pending for it.
Covered(pool, n) == Waiting(pool) # {} => Cardinality(Ready(pool)) >= n

\* A worker with a personal work is awake.
AwakeForPersonal == \A w \in Workers : worker[w] = "waiting" => personal[w] = 0

\* NoLostWakeup in the words of the lemmas below.
LEMMA NoLostWakeupIs ==
    NoLostWakeup <=> /\ TypeOK
                     /\ Covered(IndirectWorkers, numPendingWorks)
                     /\ Covered(DirectWorkers, direct)
                     /\ AwakeForPersonal
BY DEF NoLostWakeup, Covered, AwakeForPersonal

\* The two pools are finite sets of workers.
LEMMA PoolsAre == \A pool \in Pools : pool \subseteq Workers /\ IsFiniteSet(pool)
BY WorkersAssumption DEF Pools, Workers

\* A signal to a pool leaves nobody of it asleep, or makes one more ready.
LEMMA SignalWakes ==
    ASSUME worker \in [Workers -> States], AwakeForPersonal, personal' = personal,
           NEW pool \in Pools, NEW a \in SUBSET pool, Signalled(pool, a),
           NEW b \in SUBSET (Workers \ pool), Wake(a \cup b)
    PROVE  \/ Waiting(pool)' = {}
           \/ Waiting(pool) # {} /\ Cardinality(Ready(pool)') = Cardinality(Ready(pool)) + 1
<1>1. CASE Waiting(pool) = {}
  <2>1. a = {}
    BY <1>1 DEF Signalled
  <2>2. \A w \in pool : worker'[w] = worker[w]
    BY <2>1, PoolsAre DEF Wake
  <2> QED BY <1>1, <2>2 DEF Waiting
<1>2. CASE Waiting(pool) # {}
  <2>1. PICK x \in Waiting(pool) : a = {x}
    BY <1>2 DEF Signalled
  <2>2. x \in pool /\ x \in Workers /\ worker[x] = "waiting" /\ personal[x] = 0
    BY PoolsAre DEF Waiting, AwakeForPersonal
  <2>3. \A w \in pool : worker'[w] = IF w = x THEN "ready" ELSE worker[w]
    BY <2>1, PoolsAre DEF Wake
  <2>4. Ready(pool)' = Ready(pool) \cup {x} /\ x \notin Ready(pool)
    BY <2>2, <2>3 DEF Ready
  <2>5. IsFiniteSet(Ready(pool))
    BY CountedAreFinite DEF Pools
  <2> QED BY <1>2, <2>4, <2>5, FS_AddElement, Zenon
<1> QED BY <1>1, <1>2

\* A signal that a pool is not meant for changes nothing in it.
LEMMA SignalSpares ==
    ASSUME worker \in [Workers -> States], NEW pool \in Pools, NEW b \in SUBSET (Workers \ pool),
           Wake(b), personal' = personal
    PROVE  Waiting(pool)' = Waiting(pool) /\ Ready(pool)' = Ready(pool)
<1>1. \A w \in pool : worker'[w] = worker[w]
  BY PoolsAre DEF Wake
<1> QED BY <1>1 DEF Waiting, Ready

\* Whom a signal wakes: types and personal works stay as they are.
LEMMA WakeKeeps ==
    ASSUME worker \in [Workers -> States], AwakeForPersonal, personal' = personal,
           NEW a, Wake(a)
    PROVE  worker' \in [Workers -> States] /\ AwakeForPersonal'
BY DEF Wake, AwakeForPersonal, States

\* A ready worker without personal work goes to work or to sleep.
LEMMA ReadyLeaves ==
    ASSUME worker \in [Workers -> States], personal' = personal,
           NEW w \in Workers, worker[w] = "ready", personal[w] = 0,
           NEW x \in {"busy", "waiting"}, worker' = [worker EXCEPT ![w] = x], NEW pool \in Pools
    PROVE  /\ w \in pool => Cardinality(Ready(pool)') = Cardinality(Ready(pool)) - 1
           /\ w \notin pool => Ready(pool)' = Ready(pool) /\ Waiting(pool)' = Waiting(pool)
           /\ x = "busy" => Waiting(pool)' = Waiting(pool)
<1>1. pool \subseteq Workers /\ IsFiniteSet(Ready(pool))
  BY PoolsAre, CountedAreFinite DEF Pools
<1>2. CASE w \in pool
  <2>1. Ready(pool)' = Ready(pool) \ {w} /\ w \in Ready(pool)
    BY <1>1, <1>2 DEF Ready
  <2>2. Cardinality(Ready(pool)') = Cardinality(Ready(pool)) - 1
    BY <1>1, <2>1, FS_RemoveElement, Zenon
  <2>3. x = "busy" => Waiting(pool)' = Waiting(pool)
    BY <1>1 DEF Waiting
  <2> QED BY <1>2, <2>2, <2>3
<1>3. CASE w \notin pool
  <2>1. \A v \in pool : worker'[v] = worker[v]
    BY <1>1, <1>3
  <2> QED BY <1>3, <2>1 DEF Ready, Waiting
<1> QED BY <1>2, <1>3

\* More ready workers cover as many works.
LEMMA MoreReady ==
    ASSUME NEW pool \in Pools, NEW n \in Nat, Covered(pool, n),
           Ready(pool) \subseteq Ready(pool)', Waiting(pool)' \subseteq Waiting(pool)
    PROVE  Covered(pool, n)'
<1>1. IsFiniteSet(Ready(pool)')
  <2>1. Ready(pool)' \subseteq pool
    BY DEF Ready
  <2> QED BY <2>1, PoolsAre, FS_Subset
<1>2. /\ Cardinality(Ready(pool)) <= Cardinality(Ready(pool)')
      /\ Cardinality(Ready(pool)) \in Nat /\ Cardinality(Ready(pool)') \in Nat
  BY <1>1, FS_Subset, FS_CardinalityType
<1> QED BY <1>2 DEF Covered

-----------------------------------------------------------------------------
\* The types without the counter.
Shape ==
    /\ direct \in 0 .. MaxQueued
    /\ workMap \in [Users -> 0 .. MaxQueued]
    /\ nextWorkIter \in {0} \cup Queued
    /\ lastWorkListVecIdx \in 0 .. 1
    /\ personal \in [Workers -> 0 .. MaxPersonal]
    /\ worker \in [Workers -> States]
    /\ job \in [Workers -> {0} \cup Users]
    /\ numPersonal \in 0 .. MaxPersonal

\* numPendingWorks is the number of works in both lists.
Counted == numPendingWorks = direct + Cardinality(UserWorks)

\* The invariant in the words of the lemmas below.
LEMMA IInvIs ==
    IInv <=> /\ Shape /\ Counted /\ AwakeForPersonal /\ PersonalIsBounded
             /\ Covered(IndirectWorkers, numPendingWorks)
             /\ Covered(DirectWorkers, direct)
BY NoLostWakeupIs DEF IInv, TypeOK, Shape, Counted, States

\* The counter is a number.
LEMMA Numbers ==
    ASSUME Shape, Counted
    PROVE  numPendingWorks \in Nat /\ direct \in Nat
BY CountedAreFinite, BoundsAssumption DEF Shape, Counted

\* An empty queue: all workers are awake.
THEOREM InitInv == Init => IInv
<1> SUFFICES ASSUME Init PROVE IInv
  OBVIOUS
<1> USE BoundsAssumption
<1>1. Shape
  BY DEF Init, Shape, States
<1>2. UserWorks = {}
  <2>1. \A e \in Users \X (1 .. MaxQueued) : e[1] \in Users /\ e[2] \in 1 .. MaxQueued
    OBVIOUS
  <2>2. \A e \in Users \X (1 .. MaxQueued) : ~(e[2] <= workMap[e[1]])
    BY <2>1 DEF Init
  <2> QED BY <2>2 DEF UserWorks
<1>3. Counted
  BY <1>2, FS_EmptySet DEF Init, Counted
<1>4. AwakeForPersonal /\ PersonalIsBounded
  BY DEF Init, AwakeForPersonal, PersonalIsBounded
<1>5. \A pool \in Pools : Waiting(pool) = {}
  BY PoolsAre DEF Init, Waiting
<1> QED BY <1>1, <1>3, <1>4, <1>5, IInvIs DEF Covered, Pools

\* addDirectWork signals both pools, so that each has one more ready worker, or
\* nobody asleep.
LEMMA AddDirectInv == IInv /\ addDirectWork => IInv'
<1> SUFFICES ASSUME IInv, addDirectWork PROVE IInv'
  OBVIOUS
<1> USE BoundsAssumption
<1>0. /\ Shape /\ Counted /\ AwakeForPersonal /\ PersonalIsBounded
      /\ Covered(IndirectWorkers, numPendingWorks) /\ Covered(DirectWorkers, direct)
  BY IInvIs
<1>1. PICK a \in SUBSET IndirectWorkers, b \in SUBSET DirectWorkers :
         Signalled(IndirectWorkers, a) /\ Signalled(DirectWorkers, b) /\ Wake(a \cup b)
  BY Zenon DEF addDirectWork
<1>2. /\ direct < MaxQueued /\ direct' = direct + 1 /\ numPendingWorks' = numPendingWorks + 1
      /\ UNCHANGED <<workMap, nextWorkIter, lastWorkListVecIdx, personal, job, numPersonal>>
  BY DEF addDirectWork
<1>3. worker \in [Workers -> States]
  BY <1>0 DEF Shape
<1>4. worker' \in [Workers -> States] /\ AwakeForPersonal'
  BY <1>0, <1>1, <1>2, <1>3, WakeKeeps
<1>5. a \in SUBSET (Workers \ DirectWorkers) /\ b \in SUBSET (Workers \ IndirectWorkers)
  BY WorkersAssumption DEF Workers
<1>6. /\ numPendingWorks \in Nat /\ direct \in Nat
      /\ Cardinality(Ready(DirectWorkers)) \in Nat /\ Cardinality(Ready(IndirectWorkers)) \in Nat
  BY <1>0, Numbers, CountedAreFinite
<1>7. Covered(IndirectWorkers, numPendingWorks)'
  <2>1. \/ Waiting(IndirectWorkers)' = {}
        \/ /\ Waiting(IndirectWorkers) # {}
           /\ Cardinality(Ready(IndirectWorkers)') = Cardinality(Ready(IndirectWorkers)) + 1
    BY <1>0, <1>1, <1>2, <1>3, <1>5, SignalWakes, Zenon DEF Pools
  <2> QED BY <1>0, <1>2, <1>6, <2>1 DEF Covered
<1>8. Covered(DirectWorkers, direct)'
  <2>0. Wake(b \cup a)
    BY <1>1 DEF Wake
  <2>1. \/ Waiting(DirectWorkers)' = {}
        \/ /\ Waiting(DirectWorkers) # {}
           /\ Cardinality(Ready(DirectWorkers)') = Cardinality(Ready(DirectWorkers)) + 1
    BY <1>0, <1>1, <1>2, <1>3, <1>5, <2>0, SignalWakes, Zenon DEF Pools
  <2> QED BY <1>0, <1>2, <1>6, <2>1 DEF Covered
<1>9. Shape'
  BY <1>0, <1>2, <1>4 DEF Shape, Queued
<1>10. Counted'
  BY <1>0, <1>2, <1>6, CountedAreFinite DEF Counted, UserWorks
<1>11. PersonalIsBounded'
  BY <1>0, <1>2 DEF PersonalIsBounded
<1> QED BY <1>4, <1>7, <1>8, <1>9, <1>10, <1>11, IInvIs, PTL

\* addIndirectWork signals an indirect worker; the direct ones have nothing to do
\* with it.
LEMMA AddIndirectInv == IInv /\ (\E u \in Users : addIndirectWork(u)) => IInv'
<1> SUFFICES ASSUME IInv, NEW u \in Users, addIndirectWork(u) PROVE IInv'
  OBVIOUS
<1> USE BoundsAssumption
<1>0. /\ Shape /\ Counted /\ AwakeForPersonal /\ PersonalIsBounded
      /\ Covered(IndirectWorkers, numPendingWorks) /\ Covered(DirectWorkers, direct)
  BY IInvIs
<1>1. PICK a \in SUBSET IndirectWorkers : Signalled(IndirectWorkers, a) /\ Wake(a)
  BY DEF addIndirectWork
<1>2. /\ workMap[u] < MaxQueued /\ workMap' = [workMap EXCEPT ![u] = @ + 1]
      /\ numPendingWorks' = numPendingWorks + 1
      /\ UNCHANGED <<direct, nextWorkIter, lastWorkListVecIdx, personal, job, numPersonal>>
  BY DEF addIndirectWork
<1>3. worker \in [Workers -> States] /\ workMap \in [Users -> 0 .. MaxQueued]
  BY <1>0 DEF Shape
<1>4. worker' \in [Workers -> States] /\ AwakeForPersonal'
  BY <1>0, <1>1, <1>2, <1>3, WakeKeeps
<1>5. a \in SUBSET (Workers \ DirectWorkers)
  BY WorkersAssumption DEF Workers
<1>6. /\ numPendingWorks \in Nat /\ direct \in Nat
      /\ Cardinality(Ready(DirectWorkers)) \in Nat /\ Cardinality(Ready(IndirectWorkers)) \in Nat
  BY <1>0, Numbers, CountedAreFinite
<1>7. Covered(IndirectWorkers, numPendingWorks)'
  <2>0. Wake(a \cup {})
    BY <1>1 DEF Wake
  <2>1. \/ Waiting(IndirectWorkers)' = {}
        \/ /\ Waiting(IndirectWorkers) # {}
           /\ Cardinality(Ready(IndirectWorkers)') = Cardinality(Ready(IndirectWorkers)) + 1
    BY <1>0, <1>1, <1>2, <1>3, <2>0, SignalWakes, Zenon DEF Pools
  <2> QED BY <1>0, <1>2, <1>6, <2>1 DEF Covered
<1>8. Covered(DirectWorkers, direct)'
  <2>1. Waiting(DirectWorkers)' = Waiting(DirectWorkers) /\ Ready(DirectWorkers)' = Ready(DirectWorkers)
    BY <1>1, <1>2, <1>3, <1>5, SignalSpares DEF Pools
  <2> QED BY <1>0, <1>2, <2>1 DEF Covered
<1>9. Shape'
  BY <1>0, <1>2, <1>4 DEF Shape, Queued
<1>10. Counted'
  <2>1. Cardinality(UserWorks') = Cardinality(UserWorks) + 1
    BY <1>2, <1>3, UserWorkAdded, Zenon
  <2> QED BY <1>0, <1>2, <1>6, <2>1, CountedAreFinite DEF Counted
<1>11. PersonalIsBounded'
  BY <1>0, <1>2 DEF PersonalIsBounded
<1> QED BY <1>4, <1>7, <1>8, <1>9, <1>10, <1>11, IInvIs, PTL

\* addPersonalWork broadcasts: nobody is asleep after it.
LEMMA AddPersonalInv == IInv /\ (\E w \in Workers : addPersonalWork(w)) => IInv'
<1> SUFFICES ASSUME IInv, NEW w \in Workers, addPersonalWork(w) PROVE IInv'
  OBVIOUS
<1> USE BoundsAssumption
<1>0. Shape /\ Counted /\ PersonalIsBounded
  BY IInvIs
<1>1. /\ numPersonal < MaxPersonal /\ personal' = [personal EXCEPT ![w] = @ + 1]
      /\ numPersonal' = numPersonal + 1 /\ UNCHANGED <<lists, job>>
      /\ worker' = [v \in Workers |-> IF v \in Waiting(Workers) THEN "ready" ELSE worker[v]]
  BY DEF addPersonalWork, Wake
<1>2. \A v \in Workers : worker'[v] # "waiting"
  BY <1>1 DEF Waiting
<1>3. AwakeForPersonal'
  BY <1>2 DEF AwakeForPersonal
<1>4. \A pool \in Pools : Waiting(pool)' = {}
  BY <1>2, PoolsAre DEF Waiting
<1>5. personal[w] <= numPersonal /\ numPersonal \in 0 .. MaxPersonal
      /\ personal \in [Workers -> 0 .. MaxPersonal] /\ worker \in [Workers -> States]
  BY <1>0 DEF PersonalIsBounded, Shape
<1>6. personal' \in [Workers -> 0 .. MaxPersonal] /\ worker' \in [Workers -> States]
  BY <1>1, <1>5 DEF States
<1>7. PersonalIsBounded'
  BY <1>0, <1>1, <1>5 DEF PersonalIsBounded
<1>8. Shape'
  BY <1>0, <1>1, <1>5, <1>6 DEF Shape, lists, Queued
<1>9. Counted'
  BY <1>0, <1>1 DEF Counted, lists, UserWorks
<1>10. Covered(IndirectWorkers, numPendingWorks)' /\ Covered(DirectWorkers, direct)'
  BY <1>4 DEF Covered, Pools
<1> QED BY <1>3, <1>7, <1>8, <1>9, <1>10, IInvIs, PTL

\* A worker that takes a personal work was not among those the shared works
\* count on.
LEMMA PopPersonalInv == IInv /\ (\E w \in Workers : popPersonal(w)) => IInv'
<1> SUFFICES ASSUME IInv, NEW w \in Workers, popPersonal(w) PROVE IInv'
  OBVIOUS
<1> USE BoundsAssumption
<1>0. /\ Shape /\ Counted /\ AwakeForPersonal /\ PersonalIsBounded
      /\ Covered(IndirectWorkers, numPendingWorks) /\ Covered(DirectWorkers, direct)
  BY IInvIs
<1>1. /\ worker[w] = "ready" /\ personal[w] > 0
      /\ personal' = [personal EXCEPT ![w] = @ - 1]
      /\ worker' = [worker EXCEPT ![w] = "busy"] /\ job' = [job EXCEPT ![w] = 0]
      /\ UNCHANGED <<lists, numPersonal>>
  BY DEF popPersonal, Works
<1>2. /\ personal \in [Workers -> 0 .. MaxPersonal] /\ worker \in [Workers -> States]
      /\ job \in [Workers -> {0} \cup Users] /\ numPersonal \in 0 .. MaxPersonal
  BY <1>0 DEF Shape
<1>3. /\ personal' \in [Workers -> 0 .. MaxPersonal] /\ worker' \in [Workers -> States]
      /\ job' \in [Workers -> {0} \cup Users]
  BY <1>1, <1>2 DEF States
<1>4. Shape'
  BY <1>0, <1>1, <1>3 DEF Shape, lists, Queued
<1>5. AwakeForPersonal'
  BY <1>0, <1>1, <1>2 DEF AwakeForPersonal
<1>6. PersonalIsBounded'
  BY <1>0, <1>1, <1>2 DEF PersonalIsBounded
<1>7. Counted'
  BY <1>0, <1>1 DEF Counted, lists, UserWorks
<1>8. \A pool \in Pools : Waiting(pool)' = Waiting(pool) /\ Ready(pool)' = Ready(pool)
  BY <1>1, <1>2, PoolsAre DEF Waiting, Ready
<1>9. Covered(IndirectWorkers, numPendingWorks)' /\ Covered(DirectWorkers, direct)'
  BY <1>0, <1>1, <1>8 DEF Covered, Pools, lists
<1> QED BY <1>4, <1>5, <1>6, <1>7, <1>9, IInvIs, PTL

\* A worker comes back from its work, or from a wait that nobody ended.
LEMMA ReturnInv == IInv /\ (\E w \in Workers : Done(w) \/ Spurious(w)) => IInv'
<1> SUFFICES ASSUME IInv, NEW w \in Workers, Done(w) \/ Spurious(w) PROVE IInv'
  OBVIOUS
<1>0. /\ Shape /\ Counted /\ AwakeForPersonal /\ PersonalIsBounded
      /\ Covered(IndirectWorkers, numPendingWorks) /\ Covered(DirectWorkers, direct)
  BY IInvIs
<1>1. /\ worker[w] # "ready" /\ worker' = [worker EXCEPT ![w] = "ready"]
      /\ UNCHANGED <<lists, personal, numPersonal>>
  BY DEF Done, Spurious
<1>2. job' = [job EXCEPT ![w] = 0] \/ job' = job
  BY DEF Done, Spurious
<1>3. /\ worker \in [Workers -> States] /\ job \in [Workers -> {0} \cup Users]
      /\ numPendingWorks \in Nat /\ direct \in Nat
  BY <1>0, Numbers DEF Shape
<1>4. worker' \in [Workers -> States] /\ job' \in [Workers -> {0} \cup Users]
  BY <1>1, <1>2, <1>3 DEF States
<1>5. Shape'
  BY <1>0, <1>1, <1>4 DEF Shape, lists, Queued
<1>6. AwakeForPersonal' /\ PersonalIsBounded'
  BY <1>0, <1>1, <1>3 DEF AwakeForPersonal, PersonalIsBounded
<1>7. Counted'
  BY <1>0, <1>1 DEF Counted, lists, UserWorks
<1>8. \A pool \in Pools : Waiting(pool)' \subseteq Waiting(pool) /\ Ready(pool) \subseteq Ready(pool)'
  BY <1>1, <1>3, PoolsAre DEF Waiting, Ready
<1>9. Covered(IndirectWorkers, numPendingWorks)' /\ Covered(DirectWorkers, direct)'
  <2>1. numPendingWorks' = numPendingWorks /\ direct' = direct
    BY <1>1 DEF lists
  <2>2. /\ Waiting(IndirectWorkers)' # {} => Cardinality(Ready(IndirectWorkers)') >= numPendingWorks
        /\ Waiting(DirectWorkers)' # {} => Cardinality(Ready(DirectWorkers)') >= direct
    BY <1>0, <1>3, <1>8, MoreReady DEF Pools, Covered
  <2> QED BY <2>1, <2>2 DEF Covered
<1> QED BY <1>5, <1>6, <1>7, <1>9, IInvIs, PTL

-----------------------------------------------------------------------------
\* A worker goes to sleep only when nothing is pending for its pool.
LEMMA SleepInv ==
    ASSUME IInv, NEW w \in Workers, worker[w] = "ready", personal[w] = 0,
           worker' = [worker EXCEPT ![w] = "waiting"],
           UNCHANGED <<lists, job, personal, numPersonal>>,
           w \in DirectWorkers => direct = 0,
           w \in IndirectWorkers => numPendingWorks = 0
    PROVE  IInv'
<1>0. /\ Shape /\ Counted /\ AwakeForPersonal /\ PersonalIsBounded
      /\ Covered(IndirectWorkers, numPendingWorks) /\ Covered(DirectWorkers, direct)
  BY IInvIs
<1>1. worker \in [Workers -> States]
  BY <1>0 DEF Shape
<1>2. worker' \in [Workers -> States] /\ AwakeForPersonal'
  BY <1>0, <1>1 DEF States, AwakeForPersonal
<1>3. Shape' /\ PersonalIsBounded' /\ Counted'
  BY <1>0, <1>2 DEF Shape, lists, Queued, PersonalIsBounded, Counted, UserWorks
<1>4. \A pool \in Pools : Cardinality(Ready(pool)') >= 0
  <2>1. \A pool \in Pools : Ready(pool)' \subseteq pool
    BY DEF Ready
  <2> QED BY <2>1, PoolsAre, FS_Subset, FS_CardinalityType
<1>5. \A pool \in Pools : w \notin pool => Ready(pool)' = Ready(pool) /\ Waiting(pool)' = Waiting(pool)
  BY <1>1, ReadyLeaves, Zenon
<1>6. numPendingWorks' = numPendingWorks /\ direct' = direct
  BY DEF lists
<1>7. Covered(IndirectWorkers, numPendingWorks)'
  BY <1>0, <1>4, <1>5, <1>6 DEF Covered, Pools
<1>8. Covered(DirectWorkers, direct)'
  BY <1>0, <1>4, <1>5, <1>6 DEF Covered, Pools
<1> QED BY <1>2, <1>3, <1>7, <1>8, IInvIs, PTL

\* A worker that takes a work of its pool leaves one ready worker less and one
\* pending work less.
LEMMA TakeInv ==
    ASSUME IInv, NEW w \in Workers, worker[w] = "ready", personal[w] = 0,
           worker' = [worker EXCEPT ![w] = "busy"],
           NEW u \in {0} \cup Users, job' = [job EXCEPT ![w] = u],
           UNCHANGED <<personal, numPersonal>>,
           numPendingWorks' = numPendingWorks - 1,
           direct' \in 0 .. MaxQueued, direct' <= direct,
           w \in DirectWorkers => direct' = direct - 1,
           workMap' \in [Users -> 0 .. MaxQueued], nextWorkIter' \in {0} \cup Queued',
           lastWorkListVecIdx' \in 0 .. 1, Counted'
    PROVE  IInv'
<1> USE BoundsAssumption
<1>0. /\ Shape /\ Counted /\ AwakeForPersonal /\ PersonalIsBounded
      /\ Covered(IndirectWorkers, numPendingWorks) /\ Covered(DirectWorkers, direct)
  BY IInvIs
<1>1. worker \in [Workers -> States] /\ job \in [Workers -> {0} \cup Users]
  BY <1>0 DEF Shape
<1>2. worker' \in [Workers -> States] /\ job' \in [Workers -> {0} \cup Users] /\ AwakeForPersonal'
  BY <1>0, <1>1 DEF States, AwakeForPersonal
<1>3. Shape' /\ PersonalIsBounded'
  BY <1>0, <1>2 DEF Shape, PersonalIsBounded
<1>4. /\ numPendingWorks \in Nat /\ direct \in Nat /\ direct' \in Nat
      /\ \A pool \in Pools : Cardinality(Ready(pool)) \in Nat
  BY <1>0, Numbers, CountedAreFinite DEF Pools
<1>5. \A pool \in Pools :
         /\ w \in pool => Cardinality(Ready(pool)') = Cardinality(Ready(pool)) - 1
         /\ w \notin pool => Ready(pool)' = Ready(pool)
         /\ Waiting(pool)' = Waiting(pool)
  BY <1>1, ReadyLeaves, Zenon
<1>6. Covered(IndirectWorkers, numPendingWorks)'
  <2>1. CASE w \in IndirectWorkers
    BY <1>0, <1>4, <1>5, <2>1 DEF Covered, Pools
  <2>2. CASE w \notin IndirectWorkers
    BY <1>0, <1>4, <1>5, <2>2 DEF Covered, Pools
  <2> QED BY <2>1, <2>2
<1>7. Covered(DirectWorkers, direct)'
  <2>1. CASE w \in DirectWorkers
    BY <1>0, <1>4, <1>5, <2>1 DEF Covered, Pools
  <2>2. CASE w \notin DirectWorkers
    BY <1>0, <1>4, <1>5, <2>2 DEF Covered, Pools
  <2> QED BY <2>1, <2>2
<1> QED BY <1>2, <1>3, <1>6, <1>7, IInvIs, PTL

\* A direct work is taken off its list.
LEMMA PopDirectCounts ==
    ASSUME Shape, Counted, popDirect, direct > 0
    PROVE  /\ direct' \in 0 .. MaxQueued /\ direct' = direct - 1 /\ direct' <= direct
           /\ numPendingWorks' = numPendingWorks - 1
           /\ workMap' \in [Users -> 0 .. MaxQueued] /\ nextWorkIter' \in {0} \cup Queued'
           /\ Counted'
<1> USE BoundsAssumption
<1>1. /\ direct' = direct - 1 /\ numPendingWorks' = numPendingWorks - 1
      /\ UNCHANGED <<workMap, nextWorkIter>>
  BY DEF popDirect
<1>2. UserWorks' = UserWorks
  BY <1>1 DEF UserWorks
<1>3. Counted'
  BY <1>1, <1>2, CountedAreFinite DEF Shape, Counted
<1> QED BY <1>1, <1>3 DEF Shape, Queued

\* waitForDirectWork: a direct worker sleeps, or takes a direct work.
LEMMA WaitForDirectInv == IInv /\ (\E w \in DirectWorkers : waitForDirectWork(w)) => IInv'
<1> SUFFICES ASSUME IInv, NEW w \in DirectWorkers, waitForDirectWork(w) PROVE IInv'
  OBVIOUS
<1>0. Shape /\ Counted
  BY IInvIs
<1>1. /\ w \in Workers /\ w \notin IndirectWorkers /\ worker[w] = "ready" /\ personal[w] = 0
      /\ UNCHANGED <<personal, numPersonal>>
  BY WorkersAssumption DEF waitForDirectWork, Workers
<1>2. CASE direct = 0
  <2>1. worker' = [worker EXCEPT ![w] = "waiting"] /\ UNCHANGED <<lists, job>>
    BY <1>2 DEF waitForDirectWork
  <2>2. UNCHANGED <<lists, job, personal, numPersonal>>
    BY <1>1, <2>1
  <2> QED BY <1>1, <1>2, <2>1, <2>2, SleepInv, Zenon
<1>3. CASE direct # 0
  <2>1. /\ popDirect /\ worker' = [worker EXCEPT ![w] = "busy"] /\ job' = [job EXCEPT ![w] = 0]
        /\ UNCHANGED lastWorkListVecIdx
    BY <1>3 DEF waitForDirectWork, Works
  <2>2. direct > 0 /\ lastWorkListVecIdx' \in 0 .. 1
    BY <1>0, <1>3, <2>1, BoundsAssumption DEF Shape
  <2>3. /\ direct' \in 0 .. MaxQueued /\ direct' = direct - 1 /\ direct' <= direct
        /\ numPendingWorks' = numPendingWorks - 1
        /\ workMap' \in [Users -> 0 .. MaxQueued] /\ nextWorkIter' \in {0} \cup Queued'
        /\ Counted'
    BY <1>0, <2>1, <2>2, PopDirectCounts
  <2>4. 0 \in {0} \cup Users
    OBVIOUS
  <2> QED BY <1>1, <2>1, <2>2, <2>3, <2>4, TakeInv, Zenon
<1> QED BY <1>2, <1>3

\* getAndPopNextWork: the list that the iterator leads to is not empty, and so is
\* the one it is moved on to.
LEMMA PopIndirectCounts ==
    ASSUME Shape, Counted, popIndirect, Queued # {}
    PROVE  /\ Current \in Users
           /\ direct' \in 0 .. MaxQueued /\ direct' = direct
           /\ numPendingWorks' = numPendingWorks - 1
           /\ workMap' \in [Users -> 0 .. MaxQueued] /\ nextWorkIter' \in {0} \cup Queued'
           /\ Counted'
<1> USE BoundsAssumption
<1>1. /\ workMap' = [workMap EXCEPT ![Current] = @ - 1]
      /\ nextWorkIter' = IF After(Current) = {} THEN 0 ELSE Min(After(Current))
      /\ numPendingWorks' = numPendingWorks - 1 /\ direct' = direct
  BY DEF popIndirect
<1>2. Queued \in SUBSET Nat /\ Queued \subseteq Users
  BY UsersAssumption, Zenon DEF Queued
<1>3. PICK c : c = Current
  OBVIOUS
<1>4. c \in Queued /\ c \in Users /\ c \in Nat
  <2>1. CASE nextWorkIter = 0
    BY <1>2, <1>3, <2>1, MinIsLeast, Zenon DEF Current
  <2>2. CASE nextWorkIter # 0
    BY <1>2, <1>3, <2>2 DEF Current, Shape
  <2> QED BY <2>1, <2>2
<1>5. workMap \in [Users -> 0 .. MaxQueued] /\ workMap[c] > 0 /\ direct \in 0 .. MaxQueued
  BY <1>4 DEF Queued, Shape
<1>6. workMap' = [workMap EXCEPT ![c] = @ - 1]
  BY <1>1, <1>3
<1>7. workMap' \in [Users -> 0 .. MaxQueued]
  BY <1>4, <1>5, <1>6
<1>8. nextWorkIter' \in {0} \cup Queued'
  <2>1. nextWorkIter' = IF After(c) = {} THEN 0 ELSE Min(After(c))
    BY <1>1, <1>3
  <2>2. CASE After(c) = {}
    BY <2>1, <2>2
  <2>3. CASE After(c) # {}
    <3>1. After(c) \in SUBSET Nat
      BY <1>2, Zenon DEF After
    <3>2. PICK m \in After(c) : m = nextWorkIter'
      BY <2>1, <2>3, <3>1, MinIsLeast
    <3>3. m \in Users /\ workMap[m] > 0 /\ m # c
      BY <1>2, <1>4 DEF After, Queued
    <3>4. m \in Queued'
      BY <1>4, <1>5, <1>6, <3>3 DEF Queued
    <3> QED BY <3>2, <3>4
  <2> QED BY <2>2, <2>3
<1>9. Cardinality(UserWorks') = Cardinality(UserWorks) - 1
  BY <1>4, <1>5, <1>6, UserWorkTaken, Zenon
<1>10. Counted'
  BY <1>1, <1>5, <1>9, CountedAreFinite DEF Counted
<1> QED BY <1>1, <1>3, <1>4, <1>5, <1>7, <1>8, <1>10

\* waitForAnyWork finds a work in the list it looks into, whenever works are
\* pending: the exception at its end is never thrown.
LEMMA NextListHasWork ==
    ASSUME Shape, Counted, numPendingWorks # 0
    PROVE  \/ NextList = 0 /\ direct > 0
           \/ NextList = 1 /\ Queued # {}
<1> USE BoundsAssumption
<1>1. Queued = {} => UserWorks = {}
  <2> SUFFICES ASSUME Queued = {}, NEW e \in UserWorks PROVE FALSE
    OBVIOUS
  <2>1. e[1] \in Users /\ e[2] \in 1 .. MaxQueued /\ e[2] <= workMap[e[1]]
    BY DEF UserWorks
  <2>2. workMap[e[1]] > 0
    BY <2>1 DEF Shape
  <2> QED BY <2>1, <2>2 DEF Queued
<1>2. Queued = {} => direct > 0
  BY <1>1, FS_EmptySet DEF Shape, Counted
<1>3. direct \in Nat /\ lastWorkListVecIdx \in {0, 1}
  BY DEF Shape
<1>4. CASE lastWorkListVecIdx = 0
  <2>1. (lastWorkListVecIdx + 1) % 2 = 1
    BY <1>4
  <2> QED BY <1>2, <1>4, <2>1 DEF NextList
<1>5. CASE lastWorkListVecIdx = 1
  <2>1. (lastWorkListVecIdx + 1) % 2 = 0
    BY <1>5
  <2> QED BY <1>2, <1>3, <1>5, <2>1 DEF NextList
<1> QED BY <1>3, <1>4, <1>5

\* waitForAnyWork: an indirect worker sleeps, or takes a work of either list.
LEMMA WaitForAnyInv == IInv /\ (\E w \in IndirectWorkers : waitForAnyWork(w)) => IInv'
<1> SUFFICES ASSUME IInv, NEW w \in IndirectWorkers, waitForAnyWork(w) PROVE IInv'
  OBVIOUS
<1>0. Shape /\ Counted
  BY IInvIs
<1>1. /\ w \in Workers /\ w \notin DirectWorkers /\ worker[w] = "ready" /\ personal[w] = 0
      /\ UNCHANGED <<personal, numPersonal>>
  BY WorkersAssumption DEF waitForAnyWork, Workers
<1>2. CASE numPendingWorks = 0
  <2>1. worker' = [worker EXCEPT ![w] = "waiting"] /\ UNCHANGED <<lists, job>>
    BY <1>2 DEF waitForAnyWork
  <2>2. UNCHANGED <<lists, job, personal, numPersonal>>
    BY <1>1, <2>1
  <2> QED BY <1>1, <1>2, <2>1, <2>2, SleepInv, Zenon
<1>3. CASE numPendingWorks # 0
  <2>1. /\ lastWorkListVecIdx' = NextList
        /\ IF NextList = 0 THEN popDirect /\ Works(w, 0) ELSE popIndirect /\ Works(w, Current)
    BY <1>3 DEF waitForAnyWork
  <2>2. CASE NextList = 0 /\ direct > 0
    <3>1. /\ popDirect /\ worker' = [worker EXCEPT ![w] = "busy"] /\ job' = [job EXCEPT ![w] = 0]
          /\ lastWorkListVecIdx' \in 0 .. 1
      BY <2>1, <2>2 DEF Works
    <3>2. /\ direct' \in 0 .. MaxQueued /\ direct' = direct - 1 /\ direct' <= direct
          /\ numPendingWorks' = numPendingWorks - 1
          /\ workMap' \in [Users -> 0 .. MaxQueued] /\ nextWorkIter' \in {0} \cup Queued'
          /\ Counted'
      BY <1>0, <2>2, <3>1, PopDirectCounts
    <3>3. 0 \in {0} \cup Users
      OBVIOUS
    <3> QED BY <1>1, <3>1, <3>2, <3>3, TakeInv, Zenon
  <2>3. CASE NextList = 1 /\ Queued # {}
    <3>1. /\ popIndirect /\ lastWorkListVecIdx' \in 0 .. 1
          /\ worker' = [worker EXCEPT ![w] = "busy"] /\ job' = [job EXCEPT ![w] = Current]
      BY <2>1, <2>3 DEF Works
    <3>2. /\ Current \in {0} \cup Users
          /\ direct' \in 0 .. MaxQueued /\ direct' = direct
          /\ numPendingWorks' = numPendingWorks - 1
          /\ workMap' \in [Users -> 0 .. MaxQueued] /\ nextWorkIter' \in {0} \cup Queued'
          /\ Counted'
      BY <1>0, <2>3, <3>1, PopIndirectCounts
    <3>3. direct' <= direct
      BY <3>2, BoundsAssumption
    <3> QED BY <1>1, <3>1, <3>2, <3>3, TakeInv, Zenon
  <2> QED BY <1>0, <1>3, <2>2, <2>3, NextListHasWork
<1> QED BY <1>2, <1>3

-----------------------------------------------------------------------------
\* Every step of producers and workers keeps the invariant.
THEOREM NextInv == IInv /\ [Next]_vars => IInv'
<1> SUFFICES ASSUME IInv, [Next]_vars PROVE IInv'
  OBVIOUS
<1>1. CASE addDirectWork
  BY <1>1, AddDirectInv
<1>2. CASE \E u \in Users : addIndirectWork(u)
  BY <1>2, AddIndirectInv
<1>3. CASE \E w \in Workers : addPersonalWork(w)
  BY <1>3, AddPersonalInv
<1>4. CASE \E w \in Workers : popPersonal(w)
  BY <1>4, PopPersonalInv
<1>5. CASE \E w \in DirectWorkers : waitForDirectWork(w)
  BY <1>5, WaitForDirectInv
<1>6. CASE \E w \in IndirectWorkers : waitForAnyWork(w)
  BY <1>6, WaitForAnyInv
<1>7. CASE \E w \in Workers : Done(w) \/ Spurious(w)
  BY <1>7, ReturnInv
<1>8. CASE UNCHANGED vars
  <2>1. UNCHANGED <<direct, workMap, nextWorkIter, numPendingWorks, lastWorkListVecIdx,
                    personal, worker, job, numPersonal>>
    BY <1>8 DEF vars
  <2> QED BY <2>1 DEF IInv, NoLostWakeup, TypeOK, PersonalIsBounded, UserWorks, Queued, Waiting, Ready
<1> QED BY <1>1, <1>2, <1>3, <1>4, <1>5, <1>6, <1>7, <1>8 DEF Next, Fetch

\* The invariant holds throughout.
THEOREM Invariance == Spec => []IInv
BY InitInv, NextInv, PTL DEF Spec

\* No wake-up is lost, numPendingWorks counts the works, and the iterator never
\* leads to an erased list, for any numbers of workers, users and works.
THEOREM NoLostWakeupHolds == Spec => []NoLostWakeup
<1>1. IInv => NoLostWakeup
  BY DEF IInv
<1> QED BY <1>1, Invariance, PTL
=============================================================================
