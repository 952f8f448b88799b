--------------------------- MODULE MultiWorkQueue ---------------------------
(***************************************************************************)
(* The queue through which the stream listeners and other components hand   *)
(* work to the direct and indirect workers of a server                      *)
(* (common/source/common/components/worker/queue/MultiWorkQueue, with        *)
(* UserWorkContainer and PersonalWorkQueue, and the loop of Worker).         *)
(*                                                                         *)
(* Direct workers take direct works only, so that requests between servers  *)
(* are answered while all others are busy; indirect workers take any.  Both *)
(* take the works of their personal queue first.  One mutex protects it     *)
(* all, so every action is one critical section.  A work is represented by  *)
(* the list it is in.                                                       *)
(***************************************************************************)
EXTENDS Naturals, FiniteSets, FiniteSetsExt

CONSTANTS
    DirectWorkers, IndirectWorkers,
    Users,          \* user ids, natural numbers above 0: the keys of UserWorkContainer
    MaxQueued,      \* bound on the length of each list
    MaxPersonal     \* bound on the number of personal works ever added

ASSUME WorkersAssumption ==
    IsFiniteSet(DirectWorkers) /\ IsFiniteSet(IndirectWorkers)
        /\ DirectWorkers \cap IndirectWorkers = {}
ASSUME UsersAssumption == IsFiniteSet(Users) /\ Users \subseteq Nat \ {0}
ASSUME BoundsAssumption == MaxQueued \in Nat /\ MaxPersonal \in Nat

Workers == DirectWorkers \cup IndirectWorkers

VARIABLES
    direct,             \* length of directWorkList
    workMap,            \* [Users -> length of the user's list in indirectWorkList]
    nextWorkIter,       \* the user whose work is next, 0: end()
    numPendingWorks,
    lastWorkListVecIdx, \* 0: direct, 1: indirect
    personal,           \* [Workers -> length of the personal queue]
    worker,             \* [Workers -> "ready" | "waiting" | "busy"]
    job,                \* [Workers -> the user whose work a worker is busy with, or 0]
    numPersonal         \* personal works added so far

vars == <<direct, workMap, nextWorkIter, numPendingWorks, lastWorkListVecIdx,
          personal, worker, job, numPersonal>>

lists == <<direct, workMap, nextWorkIter, numPendingWorks, lastWorkListVecIdx>>

Init ==
    /\ direct = 0
    /\ workMap = [u \in Users |-> 0]
    /\ nextWorkIter = 0
    /\ numPendingWorks = 0
    /\ lastWorkListVecIdx = 0
    /\ personal = [w \in Workers |-> 0]
    /\ worker = [w \in Workers |-> "ready"]
    /\ job = [w \in Workers |-> 0]
    /\ numPersonal = 0

Waiting(pool) == {w \in pool : worker[w] = "waiting"}

\* Condition::signal wakes one of the threads that wait, if there is any;
\* Condition::broadcast wakes all.
Signalled(pool, awake) ==
    IF Waiting(pool) = {} THEN awake = {} ELSE \E w \in Waiting(pool) : awake = {w}

Wake(awake) == worker' = [w \in Workers |-> IF w \in awake THEN "ready" ELSE worker[w]]

-----------------------------------------------------------------------------
(* Producers                                                                 *)

\* Mutant: only a direct worker is told of direct work.
addDirectWorkMutant ==
    /\ direct < MaxQueued
    /\ direct' = direct + 1
    /\ numPendingWorks' = numPendingWorks + 1
    /\ \E b \in SUBSET DirectWorkers : Signalled(DirectWorkers, b) /\ Wake(b)
    /\ UNCHANGED <<workMap, nextWorkIter, lastWorkListVecIdx, personal, job, numPersonal>>

addDirectWork ==
    /\ direct < MaxQueued
    /\ direct' = direct + 1
    /\ numPendingWorks' = numPendingWorks + 1
    /\ \E a \in SUBSET IndirectWorkers, b \in SUBSET DirectWorkers :
        /\ Signalled(IndirectWorkers, a)
        /\ Signalled(DirectWorkers, b)
        /\ Wake(a \cup b)
    /\ UNCHANGED <<workMap, nextWorkIter, lastWorkListVecIdx, personal, job, numPersonal>>

addIndirectWork(u) ==
    /\ workMap[u] < MaxQueued
    /\ workMap' = [workMap EXCEPT ![u] = @ + 1]
    /\ numPendingWorks' = numPendingWorks + 1
    /\ \E a \in SUBSET IndirectWorkers : Signalled(IndirectWorkers, a) /\ Wake(a)
    /\ UNCHANGED <<direct, nextWorkIter, lastWorkListVecIdx, personal, job, numPersonal>>

addPersonalWork(w) ==
    /\ numPersonal < MaxPersonal
    /\ personal' = [personal EXCEPT ![w] = @ + 1]
    /\ numPersonal' = numPersonal + 1
    /\ Wake(Waiting(Workers))
    /\ UNCHANGED <<lists, job>>

-----------------------------------------------------------------------------
(* Workers                                                                   *)

Works(w, u) ==
    /\ worker' = [worker EXCEPT ![w] = "busy"]
    /\ job' = [job EXCEPT ![w] = u]

popPersonal(w) ==
    /\ worker[w] = "ready" /\ personal[w] > 0
    /\ personal' = [personal EXCEPT ![w] = @ - 1]
    /\ Works(w, 0)
    /\ UNCHANGED <<lists, numPersonal>>

popDirect ==
    /\ direct' = direct - 1
    /\ numPendingWorks' = numPendingWorks - 1
    /\ UNCHANGED <<workMap, nextWorkIter>>

\* UserWorkContainer::getAndPopNextWork: the users with works take turns.  The
\* iterator is moved on before the user's list, if it is empty now, is erased.
Queued == {u \in Users : workMap[u] > 0}
After(u) == {v \in Queued : v > u}
Current == IF nextWorkIter = 0 THEN Min(Queued) ELSE nextWorkIter

popIndirect ==
    /\ workMap' = [workMap EXCEPT ![Current] = @ - 1]
    /\ nextWorkIter' = IF After(Current) = {} THEN 0 ELSE Min(After(Current))
    /\ numPendingWorks' = numPendingWorks - 1
    /\ UNCHANGED direct

\* waitForDirectWork after the personal queue was found empty.
waitForDirectWork(w) ==
    /\ worker[w] = "ready" /\ personal[w] = 0
    /\ IF direct = 0
       THEN worker' = [worker EXCEPT ![w] = "waiting"] /\ UNCHANGED <<lists, job>>
       ELSE popDirect /\ Works(w, 0) /\ UNCHANGED lastWorkListVecIdx
    /\ UNCHANGED <<personal, numPersonal>>

\* The list waitForAnyWork takes the work from: the other than the last time, or
\* the same again if that one is empty.
\* Mutant: the direct works always come first.
NextListMutant == IF direct > 0 THEN 0 ELSE 1

NextList ==
    LET other == (lastWorkListVecIdx + 1) % 2 IN
    IF (other = 0 /\ direct > 0) \/ (other = 1 /\ Queued # {}) THEN other
    ELSE lastWorkListVecIdx

waitForAnyWork(w) ==
    /\ worker[w] = "ready" /\ personal[w] = 0
    /\ IF numPendingWorks = 0
       THEN worker' = [worker EXCEPT ![w] = "waiting"] /\ UNCHANGED <<lists, job>>
       ELSE /\ lastWorkListVecIdx' = NextList
            /\ IF NextList = 0 THEN popDirect /\ Works(w, 0)
                               ELSE popIndirect /\ Works(w, Current)
    /\ UNCHANGED <<personal, numPersonal>>

\* The work is processed; the worker comes back for the next.
Done(w) ==
    /\ worker[w] = "busy"
    /\ worker' = [worker EXCEPT ![w] = "ready"]
    /\ job' = [job EXCEPT ![w] = 0]
    /\ UNCHANGED <<lists, personal, numPersonal>>

\* pthread_cond_wait may return although nobody has signalled.
Spurious(w) ==
    /\ worker[w] = "waiting"
    /\ worker' = [worker EXCEPT ![w] = "ready"]
    /\ UNCHANGED <<lists, personal, job, numPersonal>>

Fetch(w) ==
    \/ popPersonal(w)
    \/ w \in DirectWorkers /\ waitForDirectWork(w)
    \/ w \in IndirectWorkers /\ waitForAnyWork(w)

Next ==
    \/ addDirectWork
    \/ \E u \in Users : addIndirectWork(u)
    \/ \E w \in Workers : addPersonalWork(w) \/ Fetch(w) \/ Done(w) \/ Spurious(w)

Spec == Init /\ [][Next]_vars
\* A worker that is not waiting gets the mutex, and every work is processed in
\* finite time.
FairSpec == Spec /\ \A w \in Workers : WF_vars(Fetch(w)) /\ WF_vars(Done(w))

-----------------------------------------------------------------------------
(* Properties                                                                *)

\* The works in indirectWorkList: the places of the users' lists.
UserWorks == {e \in Users \X (1 .. MaxQueued) : e[2] <= workMap[e[1]]}

\* Every variable is of its type.  The iterator of UserWorkContainer never leads
\* to a list that was erased, and waitForAnyWork never finds all lists empty with
\* works pending (the exception at its end): numPendingWorks counts the works.
TypeOK ==
    /\ direct \in 0 .. MaxQueued
    /\ workMap \in [Users -> 0 .. MaxQueued]
    /\ nextWorkIter \in {0} \cup Queued
    /\ numPendingWorks = direct + Cardinality(UserWorks)
    /\ lastWorkListVecIdx \in 0 .. 1
    /\ personal \in [Workers -> 0 .. MaxPersonal]
    /\ worker \in [Workers -> {"ready", "waiting", "busy"}]
    /\ job \in [Workers -> {0} \cup Users]
    /\ numPersonal \in 0 .. MaxPersonal

\* The threads of a pool that will look at the shared lists next.
Ready(pool) == {w \in pool : worker[w] = "ready" /\ personal[w] = 0}

\* No wake-up is lost: while an indirect worker sleeps, there are as many awake
\* ones without personal work as works are pending, and the same holds of direct
\* workers and direct works.  A thread that is signalled for a work but finds a
\* personal one first does no harm, since personal works wake everyone: no worker
\* sleeps on a personal work, so that the barriers with which a resync stops all
\* workers reach every one of them.  The counter and the iterator are right throughout.
NoLostWakeup ==
    /\ TypeOK
    /\ Waiting(IndirectWorkers) # {} =>
        Cardinality(Ready(IndirectWorkers)) >= numPendingWorks
    /\ Waiting(DirectWorkers) # {} => Cardinality(Ready(DirectWorkers)) >= direct
    /\ \A w \in Workers : worker[w] = "waiting" => personal[w] = 0

\* Nobody starves: a user with a work in the queue gets a worker, however many
\* works the other users and other servers send meanwhile, and so does a personal
\* work.
EveryUserIsServed ==
    /\ \A u \in Users : workMap[u] > 0 ~> \E w \in Workers : job[w] = u
    /\ \A w \in Workers : personal[w] > 0 ~> personal[w] = 0
=============================================================================
