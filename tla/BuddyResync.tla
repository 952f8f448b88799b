---------------------------- MODULE BuddyResync ----------------------------
(***************************************************************************)
(* The resync job of a primary (meta components/buddyresyncer): its main   *)
(* thread, the gatherer that crawls the hash directories, the bulk syncers *)
(* that stream whole directories, and the mod syncer that streams what the *)
(* workers change meanwhile.  A worker that changes something while a job  *)
(* runs collects a change set, queues it and waits for the mod syncer;     *)
(* the job stops all workers with barriers at its start and at its end.    *)
(*                                                                         *)
(* Directory d has an entry that is there from the start and one that an   *)
(* operation may create.  What the secondary lacks is the set `stale`: all *)
(* entries and the sessions at first, then whatever operations change and  *)
(* neither the resync nor a forwarded message has brought over.            *)
(***************************************************************************)
EXTENDS Naturals, Sequences, FiniteSets

CONSTANTS
    Workers,
    BulkSlaves,
    NumDirs,        \* hash directories, crawled in the order 1..NumDirs
    Touched,        \* directories whose entries the operations change
    QueueLimit,     \* maxQueueSize: a queue that is longer blocks whoever adds to it
    AbortRetries,   \* turns of the loop in abort(); 600 in the code
    MaxOps,         \* bound: operations of the workers
    MaxJobs,        \* bound: resync jobs
    Races           \* what the code does not guard against

ASSUME BoundsAssumption ==
    /\ NumDirs \in Nat /\ QueueLimit \in Nat /\ AbortRetries \in Nat
    /\ MaxOps \in Nat /\ MaxJobs \in Nat
    /\ Touched \subseteq 1..NumDirs
\* There is at least one bulk syncer, whatever the configuration says.
ASSUME ThreadsAssumption == IsFiniteSet(Workers) /\ BulkSlaves # {} /\ "none" \notin BulkSlaves
ASSUME RacesAssumption == Races \subseteq
    {"broken stream",   \* the mod syncer loses its connection while it streams a change
     "late flag",       \* the gatherer ends before its starter notes that it runs
     "deinline"}        \* an inode enters a hash directory without the lock of the directory

VARIABLES
    main,            \* the step that the job's thread is at
    state,           \* BuddyResyncJobState; "NONE" before the first job
    inProgress,      \* InternodeSyncer::resyncInProgress
    stopped,         \* workersStopped
    threadCount,     \* operations that have registered with the job
    errors,          \* some thread has counted an error
    gather, bulk, mod,
    dirs, files,     \* SyncCandidateStore: directories, and workers whose change sets wait
    w, personal,     \* the workers and their personal queues
    counted,         \* workers that have seen the end of the job
    stale, created,  \* what the secondary lacks; directories whose second entry exists
    told,            \* what the last job has said of the secondary
    ops, jobs, shut

job == <<main, state, inProgress, stopped, threadCount, errors, counted, told, jobs>>
slaves == <<gather, bulk, mod>>
queues == <<dirs, files>>
data == <<stale, created>>
vars == <<job, slaves, queues, w, personal, data, ops, shut>>

Old(d) == <<d, "old">>
New(d) == <<d, "new">>
Sessions == <<0, "sessions">>
Everything == {Old(d) : d \in 1..NumDirs} \cup {Sessions}
Listing(d) == {Old(d)} \cup (IF d \in created THEN {New(d)} ELSE {})

NoOp == [pc |-> "idle", entry |-> Sessions, job |-> FALSE, dirLock |-> FALSE, changeSet |-> FALSE]
NoBulk == [pc |-> "off", dir |-> 0, listed |-> {}, term |-> FALSE, idleOnly |-> FALSE]
NoGather == [pc |-> "off", next |-> 1, term |-> FALSE, running |-> FALSE]
NoMod == [pc |-> "off", cur |-> "none", retry |-> 0, term |-> FALSE, idleOnly |-> FALSE]

Init ==
    /\ main = "ended" /\ state = "NONE" /\ inProgress = FALSE /\ stopped = FALSE
    /\ threadCount = 0 /\ errors = FALSE /\ counted = {} /\ told = "none"
    /\ gather = NoGather /\ bulk = [b \in BulkSlaves |-> NoBulk] /\ mod = NoMod
    /\ dirs = <<>> /\ files = <<>>
    /\ w = [x \in Workers |-> NoOp]
    /\ personal = [x \in Workers |-> <<>>]
    /\ stale = Everything /\ created = {}
    /\ ops = 0 /\ jobs = 0 /\ shut = FALSE

-----------------------------------------------------------------------------
(* Entry locks.  A bulk syncer holds the lock of the hash directory that   *)
(* it streams; an operation holds the lock of its inode, and of the hash   *)
(* directory when it adds or removes an inode while a resync runs.         *)

Holding == {"execute", "enqueue", "queued", "finish"}

\* Mutant: the lock of a bulk syncer keeps nobody out.
DirIsLockedMutant(d) ==
    \E x \in Workers : w[x].pc \in Holding /\ w[x].dirLock /\ w[x].entry[1] = d

DirIsLocked(d) ==
    \/ \E b \in BulkSlaves : bulk[b].pc \in {"stream", "remove"} /\ bulk[b].dir = d
    \/ \E x \in Workers : w[x].pc \in Holding /\ w[x].dirLock /\ w[x].entry[1] = d

FileIsLocked(e) == \E x \in Workers : w[x].pc \in Holding /\ w[x].entry = e

\* SyncCandidateStore::add waits while its queue is longer than the limit.
HasRoom(queue) == Len(queue) <= QueueLimit

-----------------------------------------------------------------------------
(* The workers. *)

Goto(x, pc) == w' = [w EXCEPT ![x].pc = pc]

\* MirroredMessage::processIncoming and the lock() of the handler, up to the wait for the
\* locks.  A handler that adds an inode wants the lock of the hash directory if it sees
\* a running job.  Operations that begin after BuddyResyncer::shutdown find no job, and are
\* left out.
Begin(x) ==
    LET op == [NoOp EXCEPT !.pc = "lock", !.job = inProgress] IN
    /\ w[x].pc = "idle" /\ personal[x] = <<>>
    /\ ops < MaxOps /\ ~shut
    /\ ops' = ops + 1
    /\ \E d \in Touched :
          \/ w' = [w EXCEPT ![x] = [op EXCEPT !.entry = Old(d)]]
          \/ /\ d \notin created
             /\ \A y \in Workers : w[y].entry # New(d)
             /\ \E lock \in IF "deinline" \in Races THEN BOOLEAN ELSE {TRUE} :
                   w' = [w EXCEPT ![x] =
                           [op EXCEPT !.entry = New(d),
                                      !.dirLock = lock /\ inProgress /\ state = "RUNNING"]]
    /\ UNCHANGED <<job, slaves, queues, personal, data, shut>>

\* The locks are granted, and the operation registers with the job that it has seen if the
\* job still runs.
Register(x) ==
    LET register == w[x].job /\ state = "RUNNING" IN
    /\ w[x].pc = "lock"
    /\ w[x].dirLock => ~DirIsLocked(w[x].entry[1])
    /\ ~FileIsLocked(w[x].entry)
    /\ w' = [w EXCEPT ![x].pc = "execute", ![x].changeSet = register]
    /\ threadCount' = IF register THEN threadCount + 1 ELSE threadCount
    /\ UNCHANGED <<main, state, inProgress, stopped, errors, counted, told, jobs>>
    /\ UNCHANGED <<slaves, queues, personal, data, ops, shut>>

\* executeLocally, then sendToSecondary: nothing is sent while a resync is in progress, or
\* when the last job has not succeeded.  An operation that changes nothing drops its
\* change set.
Execute(x) ==
    LET e == w[x].entry
        forwarded == ~inProgress /\ state \in {"RUNNING", "SUCCESS"}
    IN
    /\ w[x].pc = "execute"
    /\ \/ /\ created' = IF e[2] = "new" THEN created \cup {e[1]} ELSE created
          /\ stale' = IF forwarded THEN stale ELSE stale \cup {e, Sessions}
          /\ Goto(x, IF w[x].changeSet THEN "enqueue" ELSE "finish")
       \/ UNCHANGED data /\ Goto(x, "finish")
    /\ UNCHANGED <<job, slaves, queues, personal, ops, shut>>

\* commitThreadChangeSet: SyncCandidateStore::add
Enqueue(x) ==
    /\ w[x].pc = "enqueue"
    /\ HasRoom(files)
    /\ files' = Append(files, x)
    /\ Goto(x, "queued")
    /\ UNCHANGED <<job, slaves, dirs, personal, data, ops, shut>>

\* The end of finishOperation: unregisterOps, the response, and the locks.
Finish(x) ==
    /\ w[x].pc = "finish"
    /\ threadCount' = IF w[x].changeSet THEN threadCount - 1 ELSE threadCount
    /\ w' = [w EXCEPT ![x] = NoOp]
    /\ UNCHANGED <<main, state, inProgress, stopped, errors, counted, told, jobs>>
    /\ UNCHANGED <<slaves, queues, personal, data, ops, shut>>

\* The work of a personal queue goes first: a barrier, or the counter of the job's end.
TakePersonal(x) ==
    /\ w[x].pc = "idle" /\ personal[x] # <<>>
    /\ personal' = [personal EXCEPT ![x] = Tail(@)]
    /\ \/ Head(personal[x]) = "barrier" /\ Goto(x, "barrier") /\ UNCHANGED counted
       \/ Head(personal[x]) = "count" /\ counted' = counted \cup {x} /\ UNCHANGED w
    /\ UNCHANGED <<main, state, inProgress, stopped, threadCount, errors, told, jobs>>
    /\ UNCHANGED <<slaves, queues, data, ops, shut>>

WorkerStep(x) == Register(x) \/ Execute(x) \/ Enqueue(x) \/ Finish(x) \/ TakePersonal(x)

\* MetaSyncCandidateFile::signal for the change set of x
Signalled(x) == [w EXCEPT ![x].pc = "finish"]

-----------------------------------------------------------------------------
(* The gatherer. *)

\* crawlDir finds the next directory, or counts an error and goes on.  A gatherer that is
\* told to end while it waits for room adds its directory all the same.
Crawl ==
    /\ gather.pc = "crawl" /\ gather.next <= NumDirs
    /\ gather' = [gather EXCEPT !.next = IF gather.term THEN NumDirs + 1 ELSE @ + 1]
    /\ \/ /\ HasRoom(dirs) \/ gather.term
          /\ dirs' = Append(dirs, gather.next) /\ UNCHANGED errors
       \/ errors' = TRUE /\ UNCHANGED dirs
    /\ UNCHANGED <<main, state, inProgress, stopped, threadCount, counted, told, jobs>>
    /\ UNCHANGED <<bulk, mod, files, w, personal, data, ops, shut>>

GatherEnds ==
    /\ gather.pc = "crawl" /\ (gather.term \/ gather.next > NumDirs)
    /\ main # "flag" \/ "late flag" \in Races
    /\ gather' = [gather EXCEPT !.pc = "done", !.running = FALSE]
    /\ UNCHANGED <<job, bulk, mod, queues, w, personal, data, ops, shut>>

GatherStep == Crawl \/ GatherEnds

-----------------------------------------------------------------------------
(* The bulk syncers. *)

\* What abort() tells the slaves, with bulk syncer b, if any, at its end.
AbortedBulk(b) ==
    [c \in BulkSlaves |-> [bulk[c] EXCEPT !.idleOnly = FALSE, !.pc = IF c = b THEN "done" ELSE @]]
Abort(b) ==
    /\ state' = "INTERRUPTED"
    /\ gather' = [gather EXCEPT !.term = TRUE]
    /\ bulk' = AbortedBulk(b)

\* syncLoop: the next directory; and its lock.
BulkFetch(b) ==
    /\ bulk[b].pc = "loop" /\ ~(bulk[b].term /\ ~bulk[b].idleOnly)
    /\ dirs # <<>>
    /\ bulk' = [bulk EXCEPT ![b].pc = "lock", ![b].dir = Head(dirs)]
    /\ dirs' = Tail(dirs)
    /\ UNCHANGED <<job, gather, mod, files, w, personal, data, ops, shut>>

BulkLock(b) ==
    /\ bulk[b].pc = "lock"
    /\ ~DirIsLocked(bulk[b].dir)
    /\ bulk' = [bulk EXCEPT ![b].pc = "stream"]
    /\ UNCHANGED <<job, gather, mod, queues, w, personal, data, ops, shut>>

\* streamCandidateDir: each inode is streamed under its own lock.  An entry that cannot be
\* read is counted and left out; when the stream fails, the job is aborted.
BulkStream(b) ==
    LET d == bulk[b].dir IN
    /\ bulk[b].pc = "stream"
    /\ \A e \in Listing(d) : ~FileIsLocked(e)
    /\ \/ /\ bulk' = [bulk EXCEPT ![b].pc = "remove", ![b].listed = Listing(d)]
          /\ stale' = stale \ Listing(d)
          /\ UNCHANGED <<state, errors, gather, mod>>
       \/ /\ bulk' = [bulk EXCEPT ![b].pc = "remove", ![b].listed = {New(d)} \cap Listing(d)]
          /\ stale' = stale \ {New(d)}
          /\ errors' = TRUE
          /\ UNCHANGED <<state, gather, mod>>
       \/ /\ Abort(b)
          /\ mod' = [mod EXCEPT !.term = TRUE]
          /\ errors' = TRUE
          /\ UNCHANGED stale
    /\ UNCHANGED <<main, inProgress, stopped, threadCount, counted, told, jobs>>
    /\ UNCHANGED <<queues, w, personal, created, ops, shut>>

\* The secondary ends the stream with removeUntouchedInodes: what the stream did not
\* write goes away.
BulkRemove(b) ==
    /\ bulk[b].pc = "remove"
    /\ stale' = stale \cup (Listing(bulk[b].dir) \ bulk[b].listed)
    /\ bulk' = [bulk EXCEPT ![b].pc = "loop", ![b].dir = 0, ![b].listed = {}]
    /\ UNCHANGED <<job, gather, mod, queues, w, personal, created, ops, shut>>

BulkEnds(b) ==
    /\ bulk[b].pc = "loop" /\ bulk[b].term
    /\ ~bulk[b].idleOnly \/ dirs = <<>>
    /\ bulk' = [bulk EXCEPT ![b].pc = "done"]
    /\ UNCHANGED <<job, gather, mod, queues, w, personal, data, ops, shut>>

BulkStep(b) == BulkFetch(b) \/ BulkLock(b) \/ BulkStream(b) \/ BulkRemove(b) \/ BulkEnds(b)

-----------------------------------------------------------------------------
(* The mod syncer. *)

\* syncLoop and streamCandidates: the next change set.
\* Mutant: the worker is signalled as soon as its change set is taken.
ModFetchMutant ==
    /\ mod.pc = "loop" /\ ~(mod.term /\ ~mod.idleOnly)
    /\ files # <<>>
    /\ w' = Signalled(Head(files))
    /\ files' = Tail(files)
    /\ UNCHANGED <<job, slaves, dirs, personal, data, ops, shut>>

ModFetch ==
    /\ mod.pc = "loop" /\ ~(mod.term /\ ~mod.idleOnly)
    /\ files # <<>>
    /\ mod' = [mod EXCEPT !.pc = "stream", !.cur = Head(files)]
    /\ files' = Tail(files)
    /\ UNCHANGED <<job, gather, bulk, dirs, w, personal, data, ops, shut>>

\* The change set is streamed and its worker signalled.  When the stream fails, the job is
\* aborted and the worker waits for the end of abort().  When the connection breaks, the
\* worker is signalled and nobody learns of it.
ModStream ==
    /\ mod.pc = "stream"
    /\ \E synced \in IF "broken stream" \in Races THEN BOOLEAN ELSE {TRUE} :
          stale' = IF synced THEN stale \ {w[mod.cur].entry} ELSE stale
    /\ w' = Signalled(mod.cur)
    /\ mod' = [mod EXCEPT !.pc = "loop", !.cur = "none"]
    /\ UNCHANGED <<job, gather, bulk, queues, personal, created, ops, shut>>

ModFails ==
    /\ mod.pc = "stream"
    /\ errors' = TRUE
    /\ Abort("none")
    /\ mod' = [mod EXCEPT !.pc = "spin", !.retry = AbortRetries, !.term = TRUE]
    /\ UNCHANGED <<main, inProgress, stopped, threadCount, counted, told, jobs>>
    /\ UNCHANGED <<queues, w, personal, data, ops, shut>>

\* The loop of abort(true): it signals the change sets that are queued, a bounded number
\* of times.
ModSpin ==
    /\ mod.pc = "spin" /\ threadCount > 0 /\ mod.retry > 0
    /\ mod' = [mod EXCEPT !.retry = @ - 1]
    /\ IF files = <<>> THEN UNCHANGED <<files, w>>
       ELSE files' = Tail(files) /\ w' = Signalled(Head(files))
    /\ UNCHANGED <<job, gather, bulk, dirs, personal, data, ops, shut>>

ModSpinEnds ==
    /\ mod.pc = "spin" /\ (threadCount = 0 \/ mod.retry = 0)
    /\ w' = Signalled(mod.cur)
    /\ mod' = [mod EXCEPT !.pc = "loop", !.cur = "none"]
    /\ UNCHANGED <<job, gather, bulk, queues, personal, data, ops, shut>>

ModEnds ==
    /\ mod.pc = "loop" /\ mod.term
    /\ ~mod.idleOnly \/ files = <<>>
    /\ mod' = [mod EXCEPT !.pc = "done"]
    /\ UNCHANGED <<job, gather, bulk, queues, w, personal, data, ops, shut>>

ModStep == ModFetch \/ ModStream \/ ModFails \/ ModSpin \/ ModSpinEnds \/ ModEnds

-----------------------------------------------------------------------------
(* The thread of the job. *)

AllStopped == \A x \in Workers : w[x].pc = "barrier"
PushAll(item) == personal' = [x \in Workers |-> Append(personal[x], item)]

\* BarrierWork: the second wait lets the workers go.
\* Mutant: nobody waits at the barrier a second time.
RestartWorkersMutant == UNCHANGED w

RestartWorkers == w' = [x \in Workers |-> IF w[x].pc = "barrier" THEN NoOp ELSE w[x]]

\* BuddyResyncer::startResync: a new job, when the thread of the last one has ended.
StartResync ==
    /\ main = "ended" /\ told # "GOOD" /\ ~shut
    /\ jobs < MaxJobs
    /\ jobs' = jobs + 1
    /\ main' = "begin" /\ state' = "NOTSTARTED" /\ stopped' = FALSE
    /\ threadCount' = 0 /\ errors' = FALSE /\ counted' = {}
    /\ gather' = NoGather /\ bulk' = [b \in BulkSlaves |-> NoBulk] /\ mod' = NoMod
    /\ dirs' = <<>> /\ files' = <<>>
    /\ UNCHANGED <<inProgress, told, w, personal, data, ops, shut>>

\* run(): the buddy's node is known and the workers are asked to stop, or the job fails.
MainBegin ==
    /\ main = "begin"
    /\ \/ main' = "notify" /\ PushAll("barrier") /\ UNCHANGED state
       \/ main' = "cleanup" /\ state' = "FAILURE" /\ UNCHANGED personal
    /\ UNCHANGED <<inProgress, stopped, threadCount, errors, counted, told, jobs>>
    /\ UNCHANGED <<slaves, queues, w, data, ops, shut>>

\* The workers have stopped and the buddy is told of the resync; it does not answer, or
\* the job has been aborted, or it runs.
MainNotify ==
    /\ main = "notify" /\ AllStopped
    /\ \/ /\ main' = "cleanup" /\ state' = "FAILURE"
          /\ RestartWorkers
          /\ UNCHANGED inProgress
       \/ /\ state = "INTERRUPTED"
          /\ main' = "cleanup"
          /\ RestartWorkers
          /\ UNCHANGED <<state, inProgress>>
       \/ /\ state # "INTERRUPTED"
          /\ main' = "start" /\ state' = "RUNNING" /\ inProgress' = TRUE
          /\ UNCHANGED w
    /\ UNCHANGED <<stopped, threadCount, errors, counted, told, jobs>>
    /\ UNCHANGED <<slaves, queues, personal, data, ops, shut>>

\* startGatherSlaves: the thread is started, and then its flag is set.
StartGather ==
    /\ main = "start"
    /\ \/ /\ main' = "flag"
          /\ gather' = [gather EXCEPT !.pc = "crawl", !.term = FALSE, !.running = TRUE]
          /\ UNCHANGED <<state, w>>
       \/ /\ main' = "cleanup" /\ state' = "FAILURE"
          /\ RestartWorkers
          /\ UNCHANGED gather
    /\ UNCHANGED <<inProgress, stopped, threadCount, errors, counted, told, jobs>>
    /\ UNCHANGED <<bulk, mod, queues, personal, data, ops, shut>>

FlagGather ==
    /\ main = "flag"
    /\ main' = "sync"
    /\ gather' = [gather EXCEPT !.running = TRUE]
    /\ UNCHANGED <<state, inProgress, stopped, threadCount, errors, counted, told, jobs>>
    /\ UNCHANGED <<bulk, mod, queues, w, personal, data, ops, shut>>

\* startSyncSlaves, and the workers go on.  When a thread cannot be started, those that
\* have been started are told to end, but not the gatherer.
StartSync ==
    /\ main = "sync"
    /\ \/ /\ main' = "joinGather"
          /\ bulk' = [b \in BulkSlaves |-> [bulk[b] EXCEPT !.pc = "loop", !.term = FALSE]]
          /\ mod' = [mod EXCEPT !.pc = "loop", !.term = FALSE]
          /\ UNCHANGED state
       \/ /\ main' = "cleanup" /\ state' = "FAILURE"
          /\ \E started \in SUBSET BulkSlaves :
                bulk' = [b \in BulkSlaves |-> IF b \in started
                            THEN [bulk[b] EXCEPT !.pc = "loop", !.term = TRUE] ELSE bulk[b]]
          /\ UNCHANGED mod
    /\ RestartWorkers
    /\ UNCHANGED <<inProgress, stopped, threadCount, errors, counted, told, jobs>>
    /\ UNCHANGED <<gather, queues, personal, data, ops, shut>>

\* The gatherer has ended: the bulk syncers are to end when no directory is left.
JoinGather ==
    /\ main = "joinGather" /\ gather.pc = "done"
    /\ main' = "joinBulk"
    /\ bulk' = [b \in BulkSlaves |-> [bulk[b] EXCEPT !.idleOnly = TRUE, !.term = TRUE]]
    /\ UNCHANGED <<state, inProgress, stopped, threadCount, errors, counted, told, jobs>>
    /\ UNCHANGED <<gather, mod, queues, w, personal, data, ops, shut>>

\* The bulk syncers have ended: the workers are asked to stop, unless the job has failed.
JoinBulk ==
    /\ main = "joinBulk"
    /\ \A b \in BulkSlaves : bulk[b].pc = "done"
    /\ IF state = "RUNNING"
       THEN main' = "stop2" /\ PushAll("barrier") /\ stopped' = TRUE
       ELSE main' = "endMod" /\ UNCHANGED <<personal, stopped>>
    /\ UNCHANGED <<state, inProgress, threadCount, errors, counted, told, jobs>>
    /\ UNCHANGED <<slaves, queues, w, data, ops, shut>>

\* The workers have stopped, or are not to stop: the mod syncer is to end.
EndMod ==
    /\ main = "endMod" \/ (main = "stop2" /\ AllStopped)
    /\ main' = "joinMod"
    /\ mod' = [mod EXCEPT !.idleOnly = TRUE, !.term = TRUE]
    /\ UNCHANGED <<state, inProgress, stopped, threadCount, errors, counted, told, jobs>>
    /\ UNCHANGED <<gather, bulk, queues, w, personal, data, ops, shut>>

\* The mod syncer has ended: SessionStoreResyncer::doSync, which counts its errors.
JoinMod ==
    /\ main = "joinMod" /\ mod.pc = "done"
    /\ main' = "cleanup"
    /\ \/ state = "RUNNING" /\ stale' = stale \ {Sessions} /\ UNCHANGED errors
       \/ state = "RUNNING" /\ errors' = TRUE /\ UNCHANGED stale
       \/ state # "RUNNING" /\ UNCHANGED <<errors, stale>>
    /\ UNCHANGED <<state, inProgress, stopped, threadCount, counted, told, jobs>>
    /\ UNCHANGED <<slaves, queues, w, personal, created, ops, shut>>

SlavesEnded ==
    /\ ~gather.running
    /\ \A b \in BulkSlaves : bulk[b].pc \in {"off", "done"}
    /\ mod.pc \in {"off", "done"}

\* cleanup: the result of a job that has run, and what its buddy and the management
\* daemon are told.
Cleanup ==
    LET result == IF errors THEN "ERRORS" ELSE IF state = "RUNNING" THEN "SUCCESS" ELSE state IN
    /\ main = "cleanup" /\ SlavesEnded
    /\ main' = "release"
    /\ IF state \in {"RUNNING", "INTERRUPTED"}
       THEN state' = result /\ told' = IF result = "SUCCESS" THEN "GOOD" ELSE "BAD"
       ELSE UNCHANGED <<state, told>>
    /\ UNCHANGED <<inProgress, stopped, threadCount, errors, counted, jobs>>
    /\ UNCHANGED <<slaves, queues, w, personal, data, ops, shut>>

\* Mutant: the thread ends at once.
MustDrainMutant == FALSE

MustDrain == errors

\* The resync is over and the workers go on.  After errors, every worker has to see that
\* the job is over before the thread ends.
Release ==
    /\ main = "release"
    /\ inProgress' = FALSE
    /\ IF stopped THEN RestartWorkers ELSE UNCHANGED w
    /\ IF MustDrain THEN main' = "drain" /\ PushAll("count") ELSE main' = "ended" /\ UNCHANGED personal
    /\ UNCHANGED <<state, stopped, threadCount, errors, counted, told, jobs>>
    /\ UNCHANGED <<slaves, queues, data, ops, shut>>

\* Change sets that are still queued are signalled without being streamed.
Drain ==
    /\ main = "drain" /\ counted # Workers
    /\ files # <<>>
    /\ files' = Tail(files)
    /\ w' = Signalled(Head(files))
    /\ UNCHANGED <<job, slaves, dirs, personal, data, ops, shut>>

Drained ==
    /\ main = "drain" /\ counted = Workers
    /\ main' = "ended"
    /\ UNCHANGED <<state, inProgress, stopped, threadCount, errors, counted, told, jobs>>
    /\ UNCHANGED <<slaves, queues, w, personal, data, ops, shut>>

MainStep ==
    \/ MainBegin \/ MainNotify \/ StartGather \/ FlagGather \/ StartSync
    \/ JoinGather \/ JoinBulk \/ EndMod \/ JoinMod
    \/ Cleanup \/ Release \/ Drain \/ Drained

\* BuddyResyncer::shutdown: abort(false), from the thread that ends the server.  The
\* pointer to the job is cleared first, so this is the end of the server for an operation
\* that is still registered.
Shutdown ==
    /\ ~shut /\ main \notin {"ended", "release", "drain"}
    /\ threadCount = 0
    /\ shut' = TRUE
    /\ Abort("none")
    /\ mod' = [mod EXCEPT !.term = TRUE]
    /\ UNCHANGED <<main, inProgress, stopped, threadCount, errors, counted, told, jobs>>
    /\ UNCHANGED <<queues, w, personal, data, ops>>

-----------------------------------------------------------------------------
Next ==
    \/ StartResync \/ MainStep \/ GatherStep \/ ModStep \/ Shutdown
    \/ \E b \in BulkSlaves : BulkStep(b)
    \/ \E x \in Workers : Begin(x) \/ WorkerStep(x)

Spec == Init /\ [][Next]_vars

\* Every thread makes progress when it can: the secondary answers or its connection
\* breaks, and locks and conditions are granted.  New operations and jobs need not come.
FairSpec ==
    /\ Spec
    /\ WF_vars(MainStep) /\ WF_vars(GatherStep) /\ WF_vars(ModStep)
    /\ \A b \in BulkSlaves : WF_vars(BulkStep(b))
    /\ \A x \in Workers : WF_vars(WorkerStep(x))

-----------------------------------------------------------------------------
(* Properties. *)

Slot == [pc : {"idle", "lock", "barrier"} \cup Holding,
         entry : Everything \cup {New(d) : d \in 1..NumDirs},
         job : BOOLEAN, dirLock : BOOLEAN, changeSet : BOOLEAN]

\* Every variable is of its type; the queues of SyncCandidateStore exceed their limit by no
\* more than the adds that passed its check, or that ended the gatherer's wait.
TypeOK ==
    /\ state \in {"NONE", "NOTSTARTED", "RUNNING", "SUCCESS", "INTERRUPTED", "FAILURE", "ERRORS"}
    /\ told \in {"none", "GOOD", "BAD"}
    /\ w \in [Workers -> Slot]
    /\ files \in Seq(Workers) /\ Len(files) <= QueueLimit + 1
    /\ dirs \in Seq(1..NumDirs) /\ Len(dirs) <= QueueLimit + 2
    /\ \A x \in Workers : personal[x] \in Seq({"barrier", "count"})
    /\ stale \subseteq Everything \cup {New(d) : d \in created}
    /\ counted \subseteq Workers /\ threadCount \in Nat

\* When the buddy and the management daemon have been told that the secondary is good, it
\* has every entry and the sessions: nothing that was changed while the directories were
\* crawled, streamed and cleaned has escaped the resync (newBuddyState, and the comment
\* "future actions can be forwarded safely" in run()).
GoodIsComplete == told = "GOOD" => stale = {}

\* The change sets that workers hold are those that the job counts, and their job's thread
\* has not ended: a job is never deleted under an operation that will use it.
\* All variables are of their types throughout.
OpsBelongToJob ==
    LET registered == {x \in Workers : w[x].changeSet} IN
    /\ TypeOK
    /\ threadCount = Cardinality(registered)
    /\ registered # {} => main # "ended"

\* While the job goes well, an operation is answered only after the secondary has its
\* change.
AnsweredIsSynced ==
    [][\A x \in Workers :
          w[x].pc = "queued" /\ w'[x].pc = "finish" /\ state' = "RUNNING"
             => w[x].entry \notin stale']_vars

\* The three ways in which a job can wait for ever: it was aborted while operations were
\* registered, which then wait for a mod syncer that has ended, with the locks that a bulk
\* syncer wants or in front of a barrier; no syncer could be started, and the gatherer
\* waits for room in the queue; or the gatherer ended before it was noted to run.
Abandoned ==
    \/ state = "INTERRUPTED" /\ \E x \in Workers : w[x].changeSet
    \/ state = "FAILURE" /\ gather.pc = "crawl"
    \/ gather.pc = "done" /\ gather.running

\* Every job comes to an end unless it is abandoned in one of the three ways: the barriers,
\* the queues, the locks and the joins of run() never wait for each other otherwise.  And
\* every operation is answered: it is not left in the queue of change sets, at a lock or at
\* a barrier.
JobAndOperationsEnd ==
    /\ []<>(main = "ended" \/ Abandoned)
    /\ \A x \in Workers : []<>(w[x].pc = "idle" \/ Abandoned)
=============================================================================
