----------------------- MODULE BuddyResyncStepProofs -----------------------
(***************************************************************************)
(* The inductive invariant of BuddyResync, and the proofs that the steps   *)
(* of the gatherer, of the syncers and of the workers preserve it.  The    *)
(* steps of the job's thread and the theorems are in BuddyResyncProofs.    *)
(*                                                                         *)
(* The heart of the invariant is Covered: whatever the secondary lacks is  *)
(* in a directory that is still to be streamed, or in the change set of an *)
(* operation that waits for the mod syncer.                                *)
(***************************************************************************)
EXTENDS BuddyResync, TLAPS

\* The races that do no harm to the three properties.
NoHarmfulRace == Races \subseteq {"late flag"}

Mains == {"ended", "begin", "notify", "start", "flag", "sync", "joinGather", "joinBulk", "stop2",
          "endMod", "joinMod", "cleanup", "release", "drain"}
News == {New(d) : d \in 1..NumDirs}
Gathers == [pc : {"off", "crawl", "done"}, next : 1..NumDirs+1, term : BOOLEAN, running : BOOLEAN]
Bulks == [pc : {"off", "loop", "lock", "stream", "remove", "done"}, dir : 0..NumDirs,
          listed : SUBSET (Everything \cup News), term : BOOLEAN, idleOnly : BOOLEAN]
Mods == [pc : {"off", "loop", "stream", "spin", "done"}, cur : Workers \cup {"none"}, retry : Nat,
         term : BOOLEAN, idleOnly : BOOLEAN]

\* The types of the variables that TypeOK leaves out, and the room in the queue of directories.
Shape ==
    /\ TypeOK
    /\ main \in Mains
    /\ inProgress \in BOOLEAN /\ stopped \in BOOLEAN /\ errors \in BOOLEAN
    /\ gather \in Gathers
    /\ bulk \in [BulkSlaves -> Bulks]
    /\ mod \in Mods
    /\ personal \in [Workers -> Seq({"barrier", "count"})]
    /\ created \subseteq 1..NumDirs
    /\ gather.next <= NumDirs => Len(dirs) <= QueueLimit + 1

\* The steps of run(): when the job runs, when it is in progress, which threads exist.
Steps ==
    /\ main \in {"ended", "begin", "notify", "release", "drain", "endMod"} => state # "RUNNING"
    /\ main \in {"ended", "begin", "notify", "drain"} => ~inProgress
    /\ state = "RUNNING" => inProgress
    /\ main \in {"begin", "notify", "start"} => gather.pc = "off" /\ gather.next = 1 /\ dirs = <<>>
    /\ main \in {"begin", "notify"} => state = "INTERRUPTED" \/ ~gather.term
    /\ main \in {"begin", "notify", "start", "flag", "sync"} =>
          mod.pc = "off" /\ \A b \in BulkSlaves : bulk[b].pc = "off" /\ ~bulk[b].term
    /\ main \in {"begin", "notify", "start", "flag", "sync", "joinGather", "joinBulk", "endMod"} => ~stopped
    /\ main = "stop2" \/ (state = "RUNNING" /\ main \in {"joinMod", "cleanup"}) => stopped

\* When the workers are at the barrier.
Stops ==
    /\ main \in {"start", "flag", "sync"} => AllStopped
    /\ stopped /\ main \in {"joinMod", "cleanup", "release"} => AllStopped

\* The gatherer of a job that runs ends when it has seen every directory.
Gathering ==
    state = "RUNNING" =>
        /\ ~gather.term
        /\ gather.pc = "done" => gather.next > NumDirs
        /\ main \in {"joinBulk", "stop2", "joinMod", "cleanup"} => gather.pc = "done"

\* The bulk syncers of a job that runs end when the gatherer has and no directory is left.
Bulking ==
    /\ \A b \in BulkSlaves : bulk[b].pc \in {"lock", "stream", "remove"} => bulk[b].dir # 0
    /\ state = "RUNNING" =>
        /\ \A b \in BulkSlaves :
              /\ bulk[b].term => bulk[b].idleOnly /\ main \in {"joinBulk", "stop2", "joinMod", "cleanup"}
              /\ bulk[b].pc = "done" =>
                    dirs = <<>> /\ main \in {"joinBulk", "stop2", "joinMod", "cleanup"}
              /\ main \in {"stop2", "joinMod", "cleanup"} => bulk[b].pc = "done"
        /\ mod.pc # "spin"

\* A bulk syncer and an operation never hold the lock of a hash directory together.
DirLocks ==
    \A b \in BulkSlaves, x \in Workers :
        bulk[b].pc \in {"stream", "remove"} /\ w[x].pc \in Holding /\ w[x].dirLock
            => w[x].entry[1] # bulk[b].dir

\* The secondary removes nothing that the primary has.
Listed ==
    state = "RUNNING" /\ ~errors =>
        \A b \in BulkSlaves : bulk[b].pc = "remove" => Listing(bulk[b].dir) \subseteq bulk[b].listed

\* What the operations know of the job.
Ops ==
    \A x \in Workers :
        /\ w[x].pc \in {"idle", "lock", "barrier"} => ~w[x].changeSet
        /\ w[x].pc \in {"enqueue", "queued"} => w[x].changeSet
        /\ state = "RUNNING" =>
            /\ w[x].pc = "lock" => w[x].job
            /\ w[x].pc = "execute" => w[x].changeSet
            /\ w[x].pc \in Holding \cup {"lock"} /\ w[x].entry[2] = "new" => w[x].dirLock

\* Directory d is still to be streamed.
Pending(d) ==
    \/ gather.pc \in {"off", "crawl"} /\ gather.next <= d
    \/ \E i \in DOMAIN dirs : dirs[i] = d
    \/ \E b \in BulkSlaves : bulk[b].pc \in {"lock", "stream"} /\ bulk[b].dir = d

\* The change of e is with an operation that waits for the mod syncer.
Carried(e) == \E x \in Workers : w[x].pc \in {"enqueue", "queued"} /\ w[x].entry = e

\* Nothing escapes a resync that goes well.
Covered ==
    state = "RUNNING" /\ ~errors =>
        \A e \in stale : IF e = Sessions THEN main # "cleanup" ELSE Pending(e[1]) \/ Carried(e)

\* The queue of change sets: its workers wait, each for itself.
Queue ==
    /\ \A i \in DOMAIN files : w[files[i]].pc = "queued"
    /\ \A i, j \in DOMAIN files : files[i] = files[j] => i = j
    /\ mod.pc \in {"stream", "spin"} =>
          /\ mod.cur \in Workers /\ w[mod.cur].pc = "queued"
          /\ \A i \in DOMAIN files : files[i] # mod.cur

\* The operations that have registered with the job.
Registered == {x \in Workers : w[x].changeSet}

\* The job counts them, and it does not end without them: it is running and not yet at its
\* end, or it has met errors and waits for every worker.
Registration ==
    /\ threadCount = Cardinality(Registered)
    /\ Registered # {} =>
        \/ state = "RUNNING" /\ main \in {"joinGather", "joinBulk", "stop2"}
        \/ /\ errors
           /\ main \in {"joinGather", "joinBulk", "stop2", "endMod", "joinMod", "cleanup", "release", "drain"}

\* The counter at the end of a job: every worker is counted once, after its operation.
Counting ==
    /\ main \notin {"drain", "ended"} => counted = {}
    /\ \A x \in Workers :
        /\ \A i, j \in DOMAIN personal[x] : personal[x][i] = "count" /\ personal[x][j] = "count" => i = j
        /\ \A i \in DOMAIN personal[x] : personal[x][i] = "count" => main = "drain" /\ x \notin counted
        /\ main = "drain" /\ x \in counted => ~w[x].changeSet

\* The secondary was reported good: it has everything, and the threads of the job are gone.
Good ==
    told = "GOOD" =>
        /\ stale = {}
        /\ state = "SUCCESS" /\ ~errors
        /\ main = "ended" \/ (main = "release" /\ stopped)
        /\ gather.pc # "crawl" /\ mod.pc \in {"off", "done"}
        /\ \A b \in BulkSlaves : bulk[b].pc \in {"off", "done"}

\* The inductive invariant.
IInv ==
    /\ Shape /\ Steps /\ Stops /\ Gathering /\ Bulking /\ DirLocks /\ Listed
    /\ Ops /\ Covered /\ Queue /\ Registration /\ Counting /\ Good

-----------------------------------------------------------------------------
(* Queues and entries. *)

\* The first element of a queue, and what is left without it.
LEMMA HeadAndTail ==
    ASSUME NEW S, NEW q \in Seq(S), q # <<>>
    PROVE  /\ Head(q) \in S /\ Head(q) = q[1] /\ 1 \in DOMAIN q
           /\ Tail(q) \in Seq(S) /\ Len(Tail(q)) = Len(q) - 1 /\ Len(q) \in Nat
           /\ \A i \in DOMAIN Tail(q) : i + 1 \in DOMAIN q /\ Tail(q)[i] = q[i + 1] /\ i + 1 # 1
           /\ \A i \in DOMAIN Tail(q) : i \in Nat
           /\ \A i \in DOMAIN q : i = 1 \/ (i - 1 \in DOMAIN Tail(q) /\ Tail(q)[i - 1] = q[i])
OBVIOUS

\* A queue with a new last element.
LEMMA Appended ==
    ASSUME NEW S, NEW q \in Seq(S), NEW v \in S
    PROVE  /\ Append(q, v) \in Seq(S) /\ Len(Append(q, v)) = Len(q) + 1 /\ Len(q) \in Nat
           /\ Len(q) + 1 \in DOMAIN Append(q, v) /\ Append(q, v)[Len(q) + 1] = v
           /\ \A i \in DOMAIN q : i \in DOMAIN Append(q, v) /\ Append(q, v)[i] = q[i]
           /\ \A i \in DOMAIN Append(q, v) : i = Len(q) + 1 \/ (i \in DOMAIN q /\ Append(q, v)[i] = q[i])
OBVIOUS

\* The entries of a queue are of its kind.
LEMMA EntriesOf ==
    \A S : \A q \in Seq(S) : \A i \in DOMAIN q : q[i] \in S
OBVIOUS

\* A queue is as long as it is.
LEMMA SameLength ==
    ASSUME NEW S, NEW q \in Seq(S)
    PROVE  Len(q) \in Nat /\ Len(q) <= Len(q)
OBVIOUS

\* An operation that holds its locks and keeps them takes none away from a bulk syncer.
LEMMA DirLocksKept ==
    ASSUME DirLocks, bulk' = bulk, NEW x \in Workers, w[x].pc \in Holding,
           w'[x].entry = w[x].entry, w'[x].dirLock = w[x].dirLock,
           \A y \in Workers : y # x => w'[y] = w[y]
    PROVE  DirLocks'
BY DEF DirLocks

\* A bulk syncer goes on with another directory, or with none.
LEMMA BulkGoesOn ==
    ASSUME NEW f \in [BulkSlaves -> Bulks], NEW b \in BulkSlaves, NEW d \in 0..NumDirs,
           NEW pc \in {"loop", "lock"}
    PROVE  [f EXCEPT ![b].pc = pc, ![b].dir = d] \in [BulkSlaves -> Bulks]
<1>1. PICK g : g = [f EXCEPT ![b].pc = pc]
  BY Zenon
<1>2. g \in [BulkSlaves -> Bulks]
  BY <1>1 DEF Bulks
<1>3. [g EXCEPT ![b].dir = d] \in [BulkSlaves -> Bulks]
  BY <1>2 DEF Bulks
<1> QED BY <1>1, <1>3, Zenon

\* What an entry can be.
LEMMA EntryIs ==
    /\ \A d : /\ Old(d)[1] = d /\ Old(d)[2] = "old"
              /\ New(d)[1] = d /\ New(d)[2] = "new"
    /\ Sessions[1] = 0 /\ Sessions[2] = "sessions"
    /\ \A e \in Everything \cup News :
          e = Sessions \/ \E d \in 1..NumDirs : e = Old(d) \/ e = New(d)
BY DEF Old, New, Sessions, Everything, News

\* What the secondary lacks of a directory is in the directory.
LEMMA StaleIsListed ==
    ASSUME Shape, NEW e \in stale, e # Sessions
    PROVE  /\ e[1] \in 1..NumDirs
           /\ e \in Listing(e[1])
<1>1. e \in {Old(d) : d \in 1..NumDirs} \/ e \in {New(d) : d \in created}
  BY DEF Shape, TypeOK, Everything
<1>2. CASE e \in {Old(d) : d \in 1..NumDirs}
  BY <1>2, EntryIs DEF Listing
<1>3. CASE e \in {New(d) : d \in created}
  <2>1. PICK d \in created : e = New(d)
    BY <1>3
  <2>2. d \in 1..NumDirs /\ e[1] = d
    BY <2>1, EntryIs DEF Shape
  <2> QED BY <2>1, <2>2 DEF Listing
<1> QED BY <1>1, <1>2, <1>3

\* A listing holds entries of the type.
LEMMA ListingIs ==
    ASSUME Shape, NEW d \in 1..NumDirs
    PROVE  /\ Listing(d) \subseteq Everything \cup {New(c) : c \in created}
           /\ Listing(d) \subseteq Everything \cup News
           /\ \A e \in Listing(d) : e[1] = d /\ e # Sessions
BY EntryIs DEF Listing, Everything, News, Shape

\* The threads of a new job, and a worker without an operation, are of their types.
LEMMA NothingIs ==
    NoOp \in Slot /\ NoGather \in Gathers /\ NoBulk \in Bulks /\ NoMod \in Mods
<1>1. NoOp \in Slot
  BY DEF NoOp, Slot, Everything
<1>2. NoGather \in Gathers
  BY BoundsAssumption DEF NoGather, Gathers
<1>3. NoBulk \in Bulks
  BY BoundsAssumption DEF NoBulk, Bulks
<1>4. NoMod \in Mods
  BY DEF NoMod, Mods
<1> QED BY <1>1, <1>2, <1>3, <1>4

(* The gatherer. *)

\* What a step of the gatherer leaves alone.
LEMMA GatherFrame ==
    ASSUME IInv, gather' \in Gathers, gather'.pc \in {"crawl", "done"}, gather.pc = "crawl",
           UNCHANGED <<main, state, inProgress, stopped, threadCount, counted, told, jobs>>,
           UNCHANGED <<bulk, mod, files, w, personal, data, ops, shut>>,
           errors => errors'
    PROVE  /\ Stops' /\ DirLocks' /\ Listed' /\ Ops' /\ Queue' /\ Registration' /\ Counting' /\ Good'
           /\ dirs' \in Seq(1..NumDirs) /\ Len(dirs') <= QueueLimit + 2 /\ errors' \in BOOLEAN
              /\ (gather'.next <= NumDirs => Len(dirs') <= QueueLimit + 1) => Shape'
<1>0. UNCHANGED <<stale, created>>
  BY DEF data
<1>1. Stops' /\ DirLocks' /\ Listed' /\ Ops'
  BY <1>0 DEF IInv, Stops, AllStopped, DirLocks, Listed, Listing, Ops
<1>2. Queue' /\ Counting' /\ Good'
  BY <1>0 DEF IInv, Queue, Counting, Good
<1>3. Registration'
  BY DEF IInv, Registration, Registered
<1>4. dirs' \in Seq(1..NumDirs) /\ Len(dirs') <= QueueLimit + 2 /\ errors' \in BOOLEAN
      /\ (gather'.next <= NumDirs => Len(dirs') <= QueueLimit + 1) => Shape'
  BY <1>0 DEF IInv, Shape, TypeOK
<1> QED BY <1>1, <1>2, <1>3, <1>4

\* crawlDir preserves the invariant: the directory it passes is queued, or an error counted.
LEMMA CrawlInv ==
    ASSUME IInv, Crawl
    PROVE  IInv'
<1>1. /\ gather.pc = "crawl" /\ gather.next \in 1..NumDirs
      /\ gather \in Gathers
      /\ UNCHANGED <<main, state, inProgress, stopped, threadCount, counted, told, jobs>>
      /\ UNCHANGED <<bulk, mod, files, w, personal, data, ops, shut>>
      /\ UNCHANGED <<stale, created>>
  BY DEF Crawl, IInv, Shape, Gathers, data
<1>2. PICK n \in {gather.next + 1, NumDirs + 1} :
        /\ gather' = [gather EXCEPT !.next = n]
        /\ gather.term => n = NumDirs + 1
        /\ ~gather.term => n = gather.next + 1
  BY DEF Crawl
<1>3. n \in 1..NumDirs+1
  BY <1>1, BoundsAssumption
<1>4. /\ gather' \in Gathers
      /\ gather'.next = n /\ gather'.pc = "crawl" /\ gather'.term = gather.term
  BY <1>1, <1>2, <1>3 DEF Gathers
<1>5. \/ /\ HasRoom(dirs) \/ gather.term
         /\ dirs' = Append(dirs, gather.next) /\ errors' = errors
      \/ errors' = TRUE /\ dirs' = dirs
  BY DEF Crawl
<1>6. dirs \in Seq(1..NumDirs) /\ errors \in BOOLEAN /\ Len(dirs) <= QueueLimit + 1
  BY <1>1 DEF IInv, Shape, TypeOK
<1>7. /\ dirs' \in Seq(1..NumDirs) /\ Len(dirs') <= QueueLimit + 2 /\ errors' \in BOOLEAN
      /\ gather'.next <= NumDirs => Len(dirs') <= QueueLimit + 1
  <2>0. gather.term => n = NumDirs + 1
    BY <1>2, Zenon
  <2>1. gather.term => n > NumDirs
    BY <2>0, BoundsAssumption
  <2>2. CASE dirs' = dirs
    <3>1. errors' \in BOOLEAN
      BY <1>5, <1>6, Zenon
    <3>2. Len(dirs) \in Nat
      BY <1>6
    <3> QED BY <2>2, <3>1, <3>2, <1>6, BoundsAssumption
  <2>3. CASE dirs' = Append(dirs, gather.next) /\ errors' = errors
    <3>1. dirs' \in Seq(1..NumDirs) /\ Len(dirs') = Len(dirs) + 1 /\ Len(dirs) \in Nat
      BY <2>3, <1>6, <1>1
    <3>2. HasRoom(dirs) \/ gather.term
      BY <1>5, <3>1, <1>6
    <3> QED BY <3>1, <3>2, <2>1, <2>3, <1>4, <1>6, <1>3, BoundsAssumption DEF HasRoom
  <2> QED BY <2>2, <2>3, <1>5
<1>8. errors => errors'
  BY <1>5, Zenon
<1>9. Shape' /\ Stops' /\ DirLocks' /\ Listed' /\ Ops' /\ Queue' /\ Registration' /\ Counting' /\ Good'
  BY <1>1, <1>4, <1>7, <1>8, GatherFrame
<1>10. Steps'
  BY <1>1, <1>4 DEF IInv, Steps
<1>11. Gathering'
  BY <1>1, <1>4 DEF IInv, Gathering
<1>12. Bulking'
  BY <1>1 DEF IInv, Bulking, Gathering
<1>13. Covered'
  <2> SUFFICES ASSUME state = "RUNNING", ~errors', NEW e \in stale
               PROVE  IF e = Sessions THEN main # "cleanup" ELSE Pending(e[1])' \/ Carried(e)'
    BY <1>1 DEF Covered
  <2>1. ~errors /\ dirs' = Append(dirs, gather.next) /\ n = gather.next + 1
    BY <1>1, <1>2, <1>5 DEF IInv, Gathering
  <2>2. IF e = Sessions THEN main # "cleanup" ELSE Pending(e[1]) \/ Carried(e)
    BY <2>1 DEF IInv, Covered
  <2>3. Carried(e) => Carried(e)'
    BY <1>1 DEF Carried
  <2>4. ASSUME e # Sessions, Pending(e[1]) PROVE Pending(e[1])'
    <3>1. e[1] \in 1..NumDirs
      BY <2>4, StaleIsListed DEF IInv
    <3>2. /\ \A i \in DOMAIN dirs : i \in DOMAIN dirs' /\ dirs'[i] = dirs[i]
          /\ Len(dirs') \in DOMAIN dirs' /\ dirs'[Len(dirs')] = gather.next
      BY <2>1, <1>6, <1>1
    <3>3. CASE gather.next <= e[1]
      <4>1. n <= e[1] \/ e[1] = gather.next
        BY <3>1, <3>3, <2>1, <1>1
      <4> QED BY <4>1, <3>2, <1>4 DEF Pending
    <3> QED BY <3>2, <3>3, <2>4, <1>1 DEF Pending
  <2> QED BY <2>2, <2>3, <2>4
<1> QED BY <1>9, <1>10, <1>11, <1>12, <1>13 DEF IInv

\* The end of the gatherer preserves the invariant: in a job that runs it has seen every directory.
LEMMA GatherEndsInv ==
    ASSUME IInv, GatherEnds
    PROVE  IInv'
<1>1. /\ gather.pc = "crawl" /\ (gather.term \/ gather.next > NumDirs)
      /\ gather \in Gathers
      /\ gather' = [gather EXCEPT !.pc = "done", !.running = FALSE]
      /\ UNCHANGED <<main, state, inProgress, stopped, threadCount, counted, told, jobs, errors>>
      /\ UNCHANGED <<bulk, mod, files, w, personal, data, ops, shut>>
      /\ UNCHANGED <<stale, created, dirs>>
  BY DEF GatherEnds, IInv, Shape, data, job, queues
<1>2. gather' \in Gathers /\ gather'.pc = "done" /\ gather'.next = gather.next /\ gather'.term = gather.term
  BY <1>1, Zenon DEF Gathers
<1>3. Shape' /\ Stops' /\ DirLocks' /\ Listed' /\ Ops' /\ Queue' /\ Registration' /\ Counting' /\ Good'
  <2>1. /\ dirs' \in Seq(1..NumDirs) /\ Len(dirs') <= QueueLimit + 2 /\ errors' \in BOOLEAN
        /\ gather'.next <= NumDirs => Len(dirs') <= QueueLimit + 1
    BY <1>1, <1>2 DEF IInv, Shape, TypeOK
  <2> QED BY <1>1, <1>2, <2>1, GatherFrame
<1>4. Steps' /\ Gathering' /\ Bulking'
  BY <1>1, <1>2 DEF IInv, Steps, Gathering, Bulking
<1>5. Covered'
  <2> SUFFICES ASSUME state = "RUNNING", ~errors, NEW e \in stale
               PROVE  IF e = Sessions THEN main # "cleanup" ELSE Pending(e[1])' \/ Carried(e)'
    BY <1>1 DEF Covered
  <2>1. IF e = Sessions THEN main # "cleanup" ELSE Pending(e[1]) \/ Carried(e)
    BY DEF IInv, Covered
  <2>2. Carried(e) => Carried(e)'
    BY <1>1 DEF Carried
  <2>3. ASSUME e # Sessions, Pending(e[1]) PROVE Pending(e[1])'
    <3>1. e[1] \in 1..NumDirs
      BY <2>3, StaleIsListed DEF IInv
    <3>2. gather.next > NumDirs /\ gather.next \in Nat
      BY <1>1 DEF IInv, Gathering, Gathers
    <3>3. ~(gather.next <= e[1])
      BY <3>1, <3>2, BoundsAssumption
    <3> QED BY <3>3, <2>3, <1>1 DEF Pending
  <2> QED BY <2>1, <2>2, <2>3
<1> QED BY <1>3, <1>4, <1>5 DEF IInv

-----------------------------------------------------------------------------
(* The bulk syncers. *)

\* What a step of a bulk syncer leaves alone.
LEMMA BulkFrame ==
    ASSUME IInv, bulk' \in [BulkSlaves -> Bulks],
           UNCHANGED <<main, state, inProgress, stopped, threadCount, counted, told, jobs>>,
           UNCHANGED <<gather, mod, files, w, personal, created, ops, shut>>,
           errors => errors'
    PROVE  /\ Stops' /\ Gathering' /\ Ops' /\ Queue' /\ Registration' /\ Counting'
           /\ dirs' \in Seq(1..NumDirs) /\ Len(dirs') <= Len(dirs) /\ errors' \in BOOLEAN
              /\ stale' \subseteq Everything \cup {New(d) : d \in created} => Shape'
<1>1. Stops' /\ Gathering' /\ Ops'
  BY DEF IInv, Stops, AllStopped, Gathering, Ops
<1>2. Queue' /\ Counting'
  BY DEF IInv, Queue, Counting
<1>3. Registration'
  BY DEF IInv, Registration, Registered
<1>4. ASSUME dirs' \in Seq(1..NumDirs), Len(dirs') <= Len(dirs), errors' \in BOOLEAN,
             stale' \subseteq Everything \cup {New(d) : d \in created}
      PROVE  Shape'
  <2>1. Len(dirs) \in Nat /\ Len(dirs') \in Nat
    BY <1>4 DEF IInv, Shape, TypeOK
  <2>2. /\ Len(dirs') <= QueueLimit + 2
        /\ gather.next <= NumDirs => Len(dirs') <= QueueLimit + 1
    BY <1>4, <2>1, BoundsAssumption DEF IInv, Shape, TypeOK
  <2> QED BY <1>4, <2>2 DEF IInv, Shape, TypeOK
<1> QED BY <1>1, <1>2, <1>3, <1>4

\* Taking a directory from the queue preserves the invariant: it is still to be streamed.
LEMMA BulkFetchInv ==
    ASSUME IInv, NEW b \in BulkSlaves, BulkFetch(b)
    PROVE  IInv'
<1>1. /\ bulk[b].pc = "loop"
      /\ dirs # <<>> /\ dirs' = Tail(dirs)
      /\ UNCHANGED <<main, state, inProgress, stopped, threadCount, counted, told, jobs, errors>>
      /\ UNCHANGED <<gather, mod, files, w, personal, created, stale, ops, shut>>
  BY DEF BulkFetch, job, data
<1>2. dirs \in Seq(1..NumDirs)
  BY DEF IInv, Shape, TypeOK
<1>3. bulk \in [BulkSlaves -> Bulks]
  BY DEF IInv, Shape
<1>4. PICK d \in 1..NumDirs : d = Head(dirs)
  <2>1. dirs # <<>>
    BY <1>1, Zenon
  <2> QED BY <2>1, <1>2, HeadAndTail, Zenon
<1>5. bulk' = [bulk EXCEPT ![b].pc = "lock", ![b].dir = d]
  BY <1>4 DEF BulkFetch
<1>6. bulk' \in [BulkSlaves -> Bulks]
  <2>1. d \in 0..NumDirs
    BY BoundsAssumption
  <2> QED BY <1>3, <1>5, <2>1, BulkGoesOn, Zenon
<1>7. /\ \A c \in BulkSlaves : c # b => bulk'[c] = bulk[c]
      /\ bulk'[b].pc = "lock" /\ bulk'[b].dir = d /\ bulk'[b].term = bulk[b].term
      /\ bulk'[b].idleOnly = bulk[b].idleOnly
  BY <1>3, <1>5 DEF Bulks
<1>8. /\ dirs' \in Seq(1..NumDirs) /\ Len(dirs') <= Len(dirs)
      /\ d = dirs[1]
      /\ \A i \in DOMAIN dirs : i = 1 \/ (i - 1 \in DOMAIN dirs' /\ dirs'[i - 1] = dirs[i])
  <2>1. dirs # <<>> /\ dirs' = Tail(dirs)
    BY <1>1, Zenon
  <2> QED BY <2>1, <1>2, <1>4, HeadAndTail
<1>9. errors \in BOOLEAN /\ stale \subseteq Everything \cup {New(c) : c \in created}
  BY DEF IInv, Shape, TypeOK
<1>10. Shape' /\ Stops' /\ Gathering' /\ Ops' /\ Queue' /\ Registration' /\ Counting'
  BY <1>1, <1>6, <1>8, <1>9, BulkFrame
<1>11. main \notin {"begin", "notify", "start", "flag", "sync"}
  BY <1>1 DEF IInv, Steps
<1>12. Steps'
  BY <1>1, <1>11 DEF IInv, Steps
<1>13. Bulking'
  BY <1>1, <1>7 DEF IInv, Bulking
<1>14. DirLocks' /\ Listed'
  BY <1>1, <1>7 DEF IInv, DirLocks, Listed, Listing
<1>15. Covered'
  <2> SUFFICES ASSUME state = "RUNNING", ~errors, NEW e \in stale
               PROVE  IF e = Sessions THEN main # "cleanup" ELSE Pending(e[1])' \/ Carried(e)'
    BY <1>1 DEF Covered
  <2>1. IF e = Sessions THEN main # "cleanup" ELSE Pending(e[1]) \/ Carried(e)
    BY DEF IInv, Covered
  <2>2. Carried(e) => Carried(e)'
    BY <1>1 DEF Carried
  <2>3. Pending(e[1]) => Pending(e[1])'
    <3>1. ASSUME NEW i \in DOMAIN dirs, dirs[i] = e[1] PROVE Pending(e[1])'
      BY <3>1, <1>7, <1>8 DEF Pending
    <3>2. ASSUME NEW c \in BulkSlaves, bulk[c].pc \in {"lock", "stream"}, bulk[c].dir = e[1]
          PROVE  Pending(e[1])'
      BY <3>2, <1>1, <1>7 DEF Pending
    <3> QED BY <3>1, <3>2, <1>1 DEF Pending
  <2> QED BY <2>1, <2>2, <2>3
<1>16. Good'
  BY <1>1 DEF IInv, Good
<1> QED BY <1>10, <1>12, <1>13, <1>14, <1>15, <1>16 DEF IInv

\* Whatever was to be streamed still is, when bulk syncer b keeps its directory or has streamed it.
LEMMA PendingStays ==
    ASSUME NEW b \in BulkSlaves, NEW d, Pending(d), UNCHANGED <<gather, dirs>>,
           \A c \in BulkSlaves : c # b => bulk'[c] = bulk[c],
           \/ bulk[b].pc \in {"lock", "stream"} /\ bulk[b].dir = d
                 => bulk'[b].pc \in {"lock", "stream"} /\ bulk'[b].dir = d
    PROVE  Pending(d)'
<1>1. ASSUME NEW c \in BulkSlaves, bulk[c].pc \in {"lock", "stream"}, bulk[c].dir = d
      PROVE  Pending(d)'
  BY <1>1 DEF Pending
<1> QED BY <1>1 DEF Pending

\* Taking the lock of a directory preserves the invariant: no operation holds it.
LEMMA BulkLockInv ==
    ASSUME IInv, NEW b \in BulkSlaves, BulkLock(b)
    PROVE  IInv'
<1>1. /\ bulk[b].pc = "lock" /\ ~DirIsLocked(bulk[b].dir)
      /\ UNCHANGED <<main, state, inProgress, stopped, threadCount, counted, told, jobs, errors>>
      /\ UNCHANGED <<gather, mod, files, w, personal, created, stale, ops, shut, dirs>>
  BY DEF BulkLock, job, data, queues
<1>2. dirs \in Seq(1..NumDirs) /\ bulk \in [BulkSlaves -> Bulks]
  BY DEF IInv, Shape, TypeOK
<1>3. bulk' = [bulk EXCEPT ![b].pc = "stream"]
  BY DEF BulkLock
<1>4. bulk' \in [BulkSlaves -> Bulks]
  BY <1>2, <1>3, Zenon DEF Bulks
<1>5. /\ \A c \in BulkSlaves : c # b => bulk'[c] = bulk[c]
      /\ bulk'[b].pc = "stream" /\ bulk'[b].dir = bulk[b].dir /\ bulk'[b].term = bulk[b].term
      /\ bulk'[b].idleOnly = bulk[b].idleOnly
  BY <1>2, <1>3 DEF Bulks
<1>6. errors \in BOOLEAN /\ stale \subseteq Everything \cup {New(c) : c \in created}
  BY DEF IInv, Shape, TypeOK
<1>7. Len(dirs') <= Len(dirs)
  BY <1>1, <1>2
<1>8. Shape' /\ Stops' /\ Gathering' /\ Ops' /\ Queue' /\ Registration' /\ Counting'
  BY <1>1, <1>2, <1>4, <1>6, <1>7, BulkFrame
<1>9. main \notin {"begin", "notify", "start", "flag", "sync"}
  BY <1>1, Zenon DEF IInv, Steps
<1>10. Steps' /\ Bulking'
  BY <1>1, <1>5, <1>9 DEF IInv, Steps, Bulking
<1>11. DirLocks'
  BY <1>1, <1>5 DEF IInv, DirLocks, DirIsLocked
<1>12. Listed'
  BY <1>1, <1>5, Zenon DEF IInv, Listed, Listing
<1>13. Covered'
  <2>1. ASSUME NEW e \in stale, Carried(e) PROVE Carried(e)'
    BY <2>1, <1>1, Zenon DEF Carried
  <2>2. ASSUME NEW e \in stale, Pending(e[1]) PROVE Pending(e[1])'
    BY <2>2, <1>1, <1>5, PendingStays, Zenon
  <2> QED BY <2>1, <2>2, <1>1, Zenon DEF IInv, Covered
<1>14. Good'
  BY <1>1, Zenon DEF IInv, Good
<1> QED BY <1>8, <1>10, <1>11, <1>12, <1>13, <1>14 DEF IInv

\* abort() preserves the invariant, whoever calls it: the job no longer runs.  With operations
\* registered, it has counted an error.
LEMMA AbortInv ==
    ASSUME IInv, NEW b, Abort(b), told # "GOOD", errors' \in BOOLEAN,
           b \in BulkSlaves => main \notin {"begin", "notify", "start", "flag", "sync"},
           mod' \in Mods, mod'.cur = mod.cur,
           mod'.pc = mod.pc \/ (mod.pc = "stream" /\ mod'.pc = "spin"),
           errors' \/ Registered = {},
           UNCHANGED <<main, inProgress, stopped, threadCount, counted, told, jobs>>,
           UNCHANGED <<queues, w, personal, data, ops>>
    PROVE  IInv'
<1>1. UNCHANGED <<dirs, files, stale, created>>
  BY DEF queues, data
<1>2. state' = "INTERRUPTED" /\ gather' = [gather EXCEPT !.term = TRUE] /\ bulk' = AbortedBulk(b)
  BY DEF Abort
<1>3. gather \in Gathers /\ bulk \in [BulkSlaves -> Bulks]
  BY DEF IInv, Shape
<1>4. gather' \in Gathers /\ gather'.pc = gather.pc /\ gather'.next = gather.next
  <2>1. gather' = [gather EXCEPT !.term = TRUE]
    BY <1>2, Zenon
  <2> QED BY <1>3, <2>1, Zenon DEF Gathers
<1>5. \A c \in BulkSlaves :
        /\ bulk'[c] \in Bulks /\ bulk'[c].dir = bulk[c].dir /\ bulk'[c].term = bulk[c].term
        /\ bulk'[c].pc = IF c = b THEN "done" ELSE bulk[c].pc
  <2>1. bulk' = AbortedBulk(b)
    BY <1>2, Zenon
  <2> QED BY <1>3, <2>1, Zenon DEF AbortedBulk, Bulks
<1>6. bulk' \in [BulkSlaves -> Bulks]
  <2>1. bulk' = [c \in BulkSlaves |-> bulk'[c]]
    BY <1>2, Zenon DEF AbortedBulk
  <2> QED BY <1>5, <2>1
<1>7. state' = "INTERRUPTED"
  BY <1>2, Zenon
<1>8. Shape'
  BY <1>1, <1>4, <1>6, <1>7 DEF IInv, Shape, TypeOK
<1>9. Steps'
  BY <1>1, <1>4, <1>5, <1>7 DEF IInv, Steps
<1>10. Stops' /\ Gathering' /\ Listed' /\ Covered'
  BY <1>1, <1>7 DEF IInv, Stops, AllStopped, Gathering, Listed, Covered
<1>11. Bulking' /\ DirLocks'
  <2>1. Bulking'
    BY <1>5, <1>7, ZenonT(30) DEF IInv, Bulking
  <2>2. DirLocks'
    BY <1>5, <1>7, ZenonT(30) DEF IInv, DirLocks
  <2> QED BY <2>1, <2>2
<1>12. Ops'
  BY <1>7 DEF IInv, Ops
<1>13. Queue'
  BY <1>1 DEF IInv, Queue
<1>14. Registration'
  <2>1. Registered' = Registered
    BY DEF Registered
  <2> QED BY <2>1, <1>7 DEF IInv, Registration
<1>15. Counting' /\ Good'
  BY DEF IInv, Counting, Good
<1> QED BY <1>8, <1>9, <1>10, <1>11, <1>12, <1>13, <1>14, <1>15, Zenon DEF IInv

\* How a stream changes its syncer.
LEMMA StreamedIs ==
    ASSUME IInv, NEW b \in BulkSlaves, bulk[b].pc = "stream", NEW listed \in SUBSET Listing(bulk[b].dir),
           bulk' = [bulk EXCEPT ![b].pc = "remove", ![b].listed = listed]
    PROVE  /\ bulk' \in [BulkSlaves -> Bulks]
           /\ \A c \in BulkSlaves : c # b => bulk'[c] = bulk[c]
           /\ bulk'[b].pc = "remove" /\ bulk'[b].dir = bulk[b].dir /\ bulk'[b].term = bulk[b].term
           /\ bulk'[b].idleOnly = bulk[b].idleOnly /\ bulk'[b].listed = listed
<1>1. bulk \in [BulkSlaves -> Bulks] /\ bulk[b].dir \in 1..NumDirs /\ Shape
  <2>1. bulk \in [BulkSlaves -> Bulks] /\ bulk[b].dir # 0 /\ Shape
    BY ZenonT(30) DEF IInv, Shape, Bulking
  <2>2. bulk[b].dir \in 0..NumDirs
    BY <2>1, Zenon DEF Bulks
  <2> QED BY <2>1, <2>2, BoundsAssumption
<1>2. listed \in SUBSET (Everything \cup News)
  BY <1>1, ListingIs
<1> QED BY <1>1, <1>2, Zenon DEF Bulks

\* A stream that ends well, or misses an entry, preserves the invariant.
LEMMA BulkStreamedInv ==
    ASSUME IInv, NEW b \in BulkSlaves, bulk[b].pc = "stream",
           NEW listed \in SUBSET Listing(bulk[b].dir),
           bulk' \in [BulkSlaves -> Bulks],
           \A c \in BulkSlaves : c # b => bulk'[c] = bulk[c],
           bulk'[b].pc = "remove", bulk'[b].dir = bulk[b].dir, bulk'[b].term = bulk[b].term,
           bulk'[b].idleOnly = bulk[b].idleOnly, bulk'[b].listed = listed,
           stale' \subseteq stale, errors' \in BOOLEAN, errors => errors',
           ~errors' => listed = Listing(bulk[b].dir) /\ stale' = stale \ Listing(bulk[b].dir),
           UNCHANGED <<main, state, inProgress, stopped, threadCount, counted, told, jobs>>,
           UNCHANGED <<gather, mod, files, w, personal, created, dirs, ops, shut>>
    PROVE  IInv'
<1>1. bulk \in [BulkSlaves -> Bulks] /\ bulk[b].dir \in 1..NumDirs /\ Shape
  <2>1. bulk \in [BulkSlaves -> Bulks] /\ bulk[b].dir # 0 /\ Shape
    BY ZenonT(30) DEF IInv, Shape, Bulking
  <2>2. bulk[b].dir \in 0..NumDirs
    BY <2>1, Zenon DEF Bulks
  <2> QED BY <2>1, <2>2, BoundsAssumption
<1>2. /\ dirs' \in Seq(1..NumDirs) /\ Len(dirs') <= Len(dirs)
      /\ stale' \subseteq Everything \cup {New(d) : d \in created}
  <2>1. dirs \in Seq(1..NumDirs) /\ dirs' = dirs /\ stale \subseteq Everything \cup {New(d) : d \in created}
    BY ZenonT(30) DEF IInv, Shape, TypeOK
  <2> QED BY <2>1, SameLength, Zenon
<1>3. Shape' /\ Stops' /\ Gathering' /\ Ops' /\ Queue' /\ Registration' /\ Counting'
  BY <1>2, BulkFrame
<1>4. main \notin {"begin", "notify", "start", "flag", "sync"}
  BY Zenon DEF IInv, Steps
<1>5. Steps' /\ Bulking'
  BY <1>4 DEF IInv, Steps, Bulking
<1>6. DirLocks'
  BY DEF IInv, DirLocks
<1>7. Listed'
  <2>1. \A d : Listing(d)' = Listing(d)
    BY Zenon DEF Listing
  <2> QED BY <2>1 DEF IInv, Listed
<1>8. Covered'
  <2> SUFFICES ASSUME state = "RUNNING", ~errors', NEW e \in stale'
               PROVE  IF e = Sessions THEN main # "cleanup" ELSE Pending(e[1])' \/ Carried(e)'
    BY DEF Covered
  <2>1. e \in stale /\ e \notin Listing(bulk[b].dir)
    OBVIOUS
  <2>2. IF e = Sessions THEN main # "cleanup" ELSE Pending(e[1]) \/ Carried(e)
    BY <2>1 DEF IInv, Covered
  <2>3. Carried(e) => Carried(e)'
    BY ZenonT(30) DEF Carried
  <2>4. ASSUME e # Sessions, Pending(e[1]) PROVE Pending(e[1])'
    <3>1. e[1] # bulk[b].dir
      BY <2>1, <2>4, <1>1, StaleIsListed
    <3> QED BY <3>1, <2>4, PendingStays, ZenonT(30)
  <2> QED BY <2>2, <2>3, <2>4
<1>9. Good'
  BY DEF IInv, Good
<1> QED BY <1>3, <1>5, <1>6, <1>7, <1>8, <1>9 DEF IInv

\* streamCandidateDir preserves the invariant.
LEMMA BulkStreamInv ==
    ASSUME IInv, NEW b \in BulkSlaves, BulkStream(b)
    PROVE  IInv'
<1> DEFINE d == bulk[b].dir
<1>1. /\ bulk[b].pc = "stream"
      /\ UNCHANGED <<main, inProgress, stopped, threadCount, counted, told, jobs>>
      /\ UNCHANGED <<queues, w, personal, created, ops, shut>>
      /\ UNCHANGED <<dirs, files>>
  BY DEF BulkStream, queues
<1>2. CASE /\ bulk' = [bulk EXCEPT ![b].pc = "remove", ![b].listed = Listing(d)]
           /\ stale' = stale \ Listing(d)
           /\ UNCHANGED <<state, errors, gather, mod>>
  <2>1. errors \in BOOLEAN
    BY DEF IInv, Shape
  <2>2. Listing(d) \in SUBSET Listing(d) /\ bulk' = [bulk EXCEPT ![b].pc = "remove", ![b].listed = Listing(d)]
    BY <1>2
  <2>3. /\ bulk' \in [BulkSlaves -> Bulks]
        /\ \A c \in BulkSlaves : c # b => bulk'[c] = bulk[c]
        /\ bulk'[b].pc = "remove" /\ bulk'[b].dir = d /\ bulk'[b].term = bulk[b].term
        /\ bulk'[b].idleOnly = bulk[b].idleOnly /\ bulk'[b].listed = Listing(d)
    BY <1>1, <2>2, StreamedIs, Zenon
  <2>4. /\ stale' = stale \ Listing(d)
        /\ UNCHANGED <<state, errors, gather, mod>>
    BY <1>2, Zenon
  <2> QED BY <1>1, <2>1, <2>2, <2>3, <2>4, BulkStreamedInv
<1>3. CASE /\ bulk' = [bulk EXCEPT ![b].pc = "remove", ![b].listed = {New(d)} \cap Listing(d)]
           /\ stale' = stale \ {New(d)}
           /\ errors' = TRUE
           /\ UNCHANGED <<state, gather, mod>>
  <2>1. {New(d)} \cap Listing(d) \in SUBSET Listing(d)
    OBVIOUS
  <2>2. bulk' = [bulk EXCEPT ![b].pc = "remove", ![b].listed = {New(d)} \cap Listing(d)]
    BY <1>3
  <2>3. /\ bulk' \in [BulkSlaves -> Bulks]
        /\ \A c \in BulkSlaves : c # b => bulk'[c] = bulk[c]
        /\ bulk'[b].pc = "remove" /\ bulk'[b].dir = d /\ bulk'[b].term = bulk[b].term
        /\ bulk'[b].idleOnly = bulk[b].idleOnly /\ bulk'[b].listed = {New(d)} \cap Listing(d)
    BY <1>1, <2>1, <2>2, StreamedIs, Zenon
  <2>4. /\ stale' = stale \ {New(d)}
        /\ errors' = TRUE
        /\ UNCHANGED <<state, gather, mod>>
    BY <1>3
  <2> QED BY <1>1, <2>1, <2>3, <2>4, BulkStreamedInv
<1>4. CASE /\ Abort(b)
           /\ mod' = [mod EXCEPT !.term = TRUE]
           /\ errors' = TRUE
           /\ UNCHANGED stale
  <2>1. mod \in Mods
    BY DEF IInv, Shape
  <2>2. mod' \in Mods /\ mod'.cur = mod.cur /\ mod'.pc = mod.pc
    <3>1. mod' = [mod EXCEPT !.term = TRUE]
      BY <1>4
    <3> QED BY <2>1, <3>1, Zenon DEF Mods
  <2>3. told # "GOOD" /\ main \notin {"begin", "notify", "start", "flag", "sync"}
    BY <1>1 DEF IInv, Good, Steps
  <2> QED BY <1>1, <1>4, <2>2, <2>3, AbortInv, Zenon DEF data
<1> QED BY <1>2, <1>3, <1>4, Zenon DEF BulkStream

\* The end of a stream preserves the invariant: in a job without errors nothing goes away.
LEMMA BulkRemoveInv ==
    ASSUME IInv, NEW b \in BulkSlaves, BulkRemove(b)
    PROVE  IInv'
<1>1. /\ bulk[b].pc = "remove"
      /\ stale' = stale \cup (Listing(bulk[b].dir) \ bulk[b].listed)
      /\ UNCHANGED <<main, state, inProgress, stopped, threadCount, counted, told, jobs, errors>>
      /\ UNCHANGED <<gather, mod, files, w, personal, created, ops, shut, dirs>>
  BY DEF BulkRemove, job, queues
<1>2. bulk \in [BulkSlaves -> Bulks] /\ bulk[b].dir \in 1..NumDirs /\ Shape /\ dirs \in Seq(1..NumDirs)
  BY <1>1, BoundsAssumption DEF IInv, Shape, TypeOK, Bulking, Bulks
<1>3. bulk' = [bulk EXCEPT ![b].pc = "loop", ![b].dir = 0, ![b].listed = {}]
  BY DEF BulkRemove
<1>4. bulk \in [BulkSlaves -> Bulks]
  BY <1>2
<1>5. 0 \in 0..NumDirs
  BY BoundsAssumption
<1>6. bulk' \in [BulkSlaves -> Bulks]
  <2>1. PICK f : f = [bulk EXCEPT ![b].pc = "loop", ![b].dir = 0]
    BY Zenon
  <2>2. f \in [BulkSlaves -> Bulks]
    BY <1>4, <1>5, <2>1, BulkGoesOn, Zenon
  <2>3. bulk' = [f EXCEPT ![b].listed = {}]
    BY <1>3, <2>1
  <2> QED BY <2>2, <2>3 DEF Bulks
<1>7. /\ \A c \in BulkSlaves : c # b => bulk'[c] = bulk[c]
      /\ bulk'[b].pc = "loop" /\ bulk'[b].term = bulk[b].term /\ bulk'[b].idleOnly = bulk[b].idleOnly
  BY <1>3, <1>4 DEF Bulks
<1>8. errors \in BOOLEAN /\ stale' \subseteq Everything \cup {New(c) : c \in created}
  BY <1>1, <1>2, ListingIs, Zenon DEF Shape, TypeOK
<1>9. Len(dirs') <= Len(dirs)
  BY <1>1, <1>2, SameLength, Zenon
<1>10. Shape' /\ Stops' /\ Gathering' /\ Ops' /\ Queue' /\ Registration' /\ Counting'
  BY <1>1, <1>2, <1>6, <1>8, <1>9, BulkFrame, Zenon
<1>11. main \notin {"begin", "notify", "start", "flag", "sync"}
  BY <1>1, Zenon DEF IInv, Steps
<1>12. Steps' /\ Bulking'
  BY <1>1, <1>7, <1>11, Zenon DEF IInv, Steps, Bulking
<1>13. DirLocks'
  BY <1>1, <1>7, ZenonT(30) DEF IInv, DirLocks
<1>14. Listed'
  BY <1>1, <1>7, Zenon DEF IInv, Listed, Listing
<1>15. Covered'
  <2> SUFFICES ASSUME state = "RUNNING", ~errors, NEW e \in stale'
               PROVE  IF e = Sessions THEN main # "cleanup" ELSE Pending(e[1])' \/ Carried(e)'
    BY <1>1 DEF Covered
  <2>1. e \in stale
    BY <1>1 DEF IInv, Listed
  <2>2. IF e = Sessions THEN main # "cleanup" ELSE Pending(e[1]) \/ Carried(e)
    BY <2>1 DEF IInv, Covered
  <2>3. Carried(e) => Carried(e)'
    BY <1>1, Zenon DEF Carried
  <2>4. Pending(e[1]) => Pending(e[1])'
    BY <1>1, <1>7, PendingStays, Zenon
  <2> QED BY <2>2, <2>3, <2>4
<1>16. Good'
  BY <1>1 DEF IInv, Good
<1> QED BY <1>10, <1>12, <1>13, <1>14, <1>15, <1>16 DEF IInv

\* The end of a bulk syncer preserves the invariant: in a job that runs no directory is left.
LEMMA BulkEndsInv ==
    ASSUME IInv, NEW b \in BulkSlaves, BulkEnds(b)
    PROVE  IInv'
<1>1. /\ bulk[b].pc = "loop" /\ bulk[b].term
      /\ ~bulk[b].idleOnly \/ dirs = <<>>
      /\ UNCHANGED <<main, state, inProgress, stopped, threadCount, counted, told, jobs, errors>>
      /\ UNCHANGED <<gather, mod, files, w, personal, created, stale, ops, shut, dirs>>
  BY DEF BulkEnds, job, queues, data
<1>2. bulk \in [BulkSlaves -> Bulks] /\ dirs \in Seq(1..NumDirs)
  BY DEF IInv, Shape, TypeOK
<1>3. bulk' = [bulk EXCEPT ![b].pc = "done"]
  BY DEF BulkEnds
<1>4. bulk' \in [BulkSlaves -> Bulks]
  BY <1>2, <1>3, Zenon DEF Bulks
<1>5. /\ \A c \in BulkSlaves : c # b => bulk'[c] = bulk[c]
      /\ bulk'[b].pc = "done" /\ bulk'[b].term = bulk[b].term /\ bulk'[b].idleOnly = bulk[b].idleOnly
  BY <1>2, <1>3 DEF Bulks
<1>6. errors \in BOOLEAN /\ stale \subseteq Everything \cup {New(c) : c \in created}
  BY DEF IInv, Shape, TypeOK
<1>7. Len(dirs') <= Len(dirs)
  BY <1>1, <1>2
<1>8. Shape' /\ Stops' /\ Gathering' /\ Ops' /\ Queue' /\ Registration' /\ Counting'
  BY <1>1, <1>2, <1>4, <1>6, <1>7, BulkFrame
<1>9. main \notin {"begin", "notify", "start", "flag", "sync"}
  BY <1>1, Zenon DEF IInv, Steps
<1>10. Steps'
  BY <1>1, <1>5, <1>9, Zenon DEF IInv, Steps
<1>11. Bulking'
  BY <1>1, <1>5, Zenon DEF IInv, Bulking
<1>12. DirLocks'
  BY <1>1, <1>5, Zenon DEF IInv, DirLocks
<1>13. Listed'
  BY <1>1, <1>5, Zenon DEF IInv, Listed, Listing
<1>14. Covered'
  <2>1. ASSUME NEW e \in stale, Carried(e) PROVE Carried(e)'
    BY <2>1, <1>1, Zenon DEF Carried
  <2>2. ASSUME NEW e \in stale, Pending(e[1]) PROVE Pending(e[1])'
    BY <2>2, <1>1, <1>5, PendingStays, ZenonT(30)
  <2> QED BY <2>1, <2>2, <1>1, Zenon DEF IInv, Covered
<1>15. Good'
  BY <1>1 DEF IInv, Good
<1> QED BY <1>8, <1>10, <1>11, <1>12, <1>13, <1>14, <1>15 DEF IInv

-----------------------------------------------------------------------------
(* The mod syncer. *)

\* A signal ends the wait of its worker and changes nothing else of it.
LEMMA SignalledIs ==
    ASSUME IInv, NEW y \in Workers, w' = Signalled(y)
    PROVE  /\ w' \in [Workers -> Slot]
           /\ \A x \in Workers : x # y => w'[x] = w[x]
           /\ w'[y].pc = "finish"
           /\ \A x \in Workers :
                 /\ w'[x].entry = w[x].entry /\ w'[x].job = w[x].job
                 /\ w'[x].dirLock = w[x].dirLock /\ w'[x].changeSet = w[x].changeSet
<1>1. w \in [Workers -> Slot]
  BY DEF IInv, Shape, TypeOK
<1>2. w' = [w EXCEPT ![y].pc = "finish"]
  BY DEF Signalled
<1>3. w' \in [Workers -> Slot]
  BY <1>1, <1>2 DEF Slot, Holding
<1>4. /\ \A x \in Workers : x # y => w'[x] = w[x]
      /\ w'[y].pc = "finish"
      /\ w'[y].entry = w[y].entry /\ w'[y].job = w[y].job
      /\ w'[y].dirLock = w[y].dirLock /\ w'[y].changeSet = w[y].changeSet
  BY <1>1, <1>2, Zenon DEF Slot
<1> QED BY <1>3, <1>4

\* What the signal for a worker that waits leaves alone.
LEMMA SignalFrame ==
    ASSUME IInv, NEW y \in Workers, w[y].pc = "queued", w' = Signalled(y),
           UNCHANGED <<main, state, stopped, threadCount, errors, counted, bulk, personal>>
    PROVE  Stops' /\ DirLocks' /\ Ops' /\ Registration' /\ Counting'
<1>1. /\ \A x \in Workers : x # y => w'[x] = w[x]
      /\ w'[y].pc = "finish"
      /\ \A x \in Workers :
            /\ w'[x].entry = w[x].entry /\ w'[x].job = w[x].job
            /\ w'[x].dirLock = w[x].dirLock /\ w'[x].changeSet = w[x].changeSet
  BY SignalledIs, Zenon
<1>2. Stops'
  BY DEF IInv, Stops, AllStopped
<1>3. DirLocks'
  BY <1>1 DEF IInv, DirLocks, Holding
<1>4. Ops'
  BY <1>1 DEF IInv, Ops, Holding
<1>5. Registration'
  <2>1. Registered' = Registered
    BY <1>1, Zenon DEF Registered
  <2> QED BY <2>1, Zenon DEF IInv, Registration
<1>6. Counting'
  BY <1>1, Zenon DEF IInv, Counting
<1> QED BY <1>2, <1>3, <1>4, <1>5, <1>6

\* What a step of the mod syncer leaves alone.
LEMMA ModFrame ==
    ASSUME IInv, mod.pc \notin {"off", "done"}, mod' \in Mods, state = "RUNNING" => mod'.pc # "spin",
           files' \in Seq(Workers), Len(files') <= Len(files),
           w' \in [Workers -> Slot], stale' \subseteq stale,
           UNCHANGED <<main, state, inProgress, stopped, threadCount, counted, told, jobs, errors>>,
           UNCHANGED <<gather, bulk, dirs, personal, created, ops, shut>>
    PROVE  Shape' /\ Steps' /\ Gathering' /\ Bulking' /\ Listed' /\ Good'
<1>1. Len(files') <= QueueLimit + 1
  <2>1. Len(files) \in Nat /\ Len(files') \in Nat /\ Len(files) <= QueueLimit + 1
    BY DEF IInv, Shape, TypeOK
  <2> QED BY <2>1, BoundsAssumption
<1>2. Shape'
  BY <1>1 DEF IInv, Shape, TypeOK
<1>3. main \notin {"begin", "notify", "start", "flag", "sync"}
  BY Zenon DEF IInv, Steps
<1>4. Steps' /\ Gathering'
  BY <1>3, Zenon DEF IInv, Steps, Gathering
<1>5. Bulking' /\ Good'
  BY ZenonT(30) DEF IInv, Bulking, Good
<1>6. Listed'
  BY DEF IInv, Listed, Listing
<1> QED BY <1>2, <1>4, <1>5, <1>6

\* The queue without its first worker: the others still wait, and none of them is the first.
LEMMA QueueTail ==
    ASSUME IInv, files # <<>>
    PROVE  /\ Head(files) \in Workers /\ w[Head(files)].pc = "queued"
           /\ mod.pc \in {"stream", "spin"} => mod.cur # Head(files)
           /\ Tail(files) \in Seq(Workers) /\ Len(Tail(files)) <= Len(files)
           /\ \A i \in DOMAIN Tail(files) : w[Tail(files)[i]].pc = "queued" /\ Tail(files)[i] # Head(files)
           /\ \A i, j \in DOMAIN Tail(files) : Tail(files)[i] = Tail(files)[j] => i = j
           /\ mod.pc \in {"stream", "spin"} => \A i \in DOMAIN Tail(files) : Tail(files)[i] # mod.cur
<1>1. files \in Seq(Workers) /\ Queue
  BY DEF IInv, Shape, TypeOK
<1>2. /\ Head(files) \in Workers /\ Head(files) = files[1] /\ 1 \in DOMAIN files
      /\ Tail(files) \in Seq(Workers) /\ Len(Tail(files)) = Len(files) - 1 /\ Len(files) \in Nat
      /\ \A i \in DOMAIN Tail(files) : i + 1 \in DOMAIN files /\ Tail(files)[i] = files[i + 1] /\ i + 1 # 1
  BY <1>1, HeadAndTail
<1>3. \A i \in DOMAIN Tail(files) : i \in Nat
  BY <1>2
<1>4. PICK t, h : t = Tail(files) /\ h = Head(files)
  BY Zenon
<1>5. Len(t) <= Len(files)
  BY <1>2, <1>4
<1>6. \A i, j \in DOMAIN t : t[i] = t[j] => i = j
  <2> SUFFICES ASSUME NEW i \in DOMAIN t, NEW j \in DOMAIN t, t[i] = t[j] PROVE i = j
    OBVIOUS
  <2>1. i + 1 = j + 1
    BY <1>1, <1>2, <1>4 DEF Queue
  <2> QED BY <2>1, <1>3, <1>4
<1> QED BY <1>1, <1>2, <1>4, <1>5, <1>6 DEF Queue

\* Taking a change set from the queue preserves the invariant.
LEMMA ModFetchInv ==
    ASSUME IInv, ModFetch
    PROVE  IInv'
<1>1. /\ mod.pc = "loop" /\ files # <<>> /\ files' = Tail(files)
      /\ UNCHANGED <<main, state, inProgress, stopped, threadCount, counted, told, jobs, errors>>
      /\ UNCHANGED <<gather, bulk, dirs, w, personal, stale, created, ops, shut>>
  BY DEF ModFetch, job, data
<1>2. /\ Head(files) \in Workers /\ w[Head(files)].pc = "queued"
      /\ Tail(files) \in Seq(Workers) /\ Len(Tail(files)) <= Len(files)
      /\ \A i \in DOMAIN Tail(files) : w[Tail(files)[i]].pc = "queued" /\ Tail(files)[i] # Head(files)
      /\ \A i, j \in DOMAIN Tail(files) : Tail(files)[i] = Tail(files)[j] => i = j
  BY <1>1, QueueTail
<1>3. mod' \in Mods /\ mod'.pc = "stream" /\ mod'.cur = Head(files)
  <2>1. mod \in Mods /\ mod' = [mod EXCEPT !.pc = "stream", !.cur = Head(files)]
    BY DEF IInv, Shape, ModFetch
  <2>2. PICK h \in Workers : h = Head(files) /\ mod' = [mod EXCEPT !.pc = "stream", !.cur = h]
    BY <1>2, <2>1, Zenon
  <2>3. mod' = [mod EXCEPT !.pc = "stream", !.cur = h] /\ mod \in Mods
    BY <2>1, <2>2, Zenon
  <2>4. mod' \in Mods /\ mod'.pc = "stream" /\ mod'.cur = h
    BY <2>3, Zenon DEF Mods
  <2> QED BY <2>2, <2>4, Zenon
<1>4. w \in [Workers -> Slot]
  BY Zenon DEF IInv, Shape, TypeOK
<1>5. Shape' /\ Steps' /\ Gathering' /\ Bulking' /\ Listed' /\ Good'
  BY <1>1, <1>2, <1>3, <1>4, ModFrame, Zenon
<1>6. Queue'
  BY <1>1, <1>2, <1>3, Zenon DEF Queue
<1>7. Stops' /\ DirLocks' /\ Ops'
  BY <1>1, Zenon DEF IInv, Stops, AllStopped, DirLocks, Ops
<1>8. Covered'
  BY <1>1, Zenon DEF IInv, Covered, Pending, Carried
<1>9. Registration' /\ Counting'
  BY <1>1 DEF IInv, Registration, Registered, Counting
<1> QED BY <1>5, <1>6, <1>7, <1>8, <1>9 DEF IInv

\* The mod syncer goes on with the next change set.
LEMMA ModGoesOn ==
    ASSUME mod \in Mods, mod' = [mod EXCEPT !.pc = "loop", !.cur = "none"]
    PROVE  mod' \in Mods /\ mod'.pc = "loop"
BY Zenon DEF Mods

\* Streaming a change set preserves the invariant: the secondary has the change when its
\* worker goes on.
LEMMA ModStreamInv ==
    ASSUME NoHarmfulRace, IInv, ModStream
    PROVE  IInv'
<1>1. /\ mod.pc = "stream" /\ w' = Signalled(mod.cur)
      /\ UNCHANGED <<main, state, inProgress, stopped, threadCount, counted, told, jobs, errors>>
      /\ UNCHANGED <<gather, bulk, dirs, files, personal, created, ops, shut>>
  BY DEF ModStream, job, queues
<1>2. stale' = stale \ {w[mod.cur].entry}
  BY DEF ModStream, NoHarmfulRace
<1>3. /\ mod.cur \in Workers /\ w[mod.cur].pc = "queued"
      /\ \A i \in DOMAIN files : files[i] # mod.cur
  BY <1>1 DEF IInv, Queue
<1>4. mod' \in Mods /\ mod'.pc = "loop"
  <2>1. mod \in Mods /\ mod' = [mod EXCEPT !.pc = "loop", !.cur = "none"]
    BY Zenon DEF IInv, Shape, ModStream
  <2> QED BY <2>1, ModGoesOn
<1>5. /\ w' \in [Workers -> Slot]
      /\ \A x \in Workers : x # mod.cur => w'[x] = w[x]
      /\ \A x \in Workers : w'[x].entry = w[x].entry
  BY <1>1, <1>3, SignalledIs
<1>6. files \in Seq(Workers) /\ Len(files') <= Len(files)
  BY <1>1 DEF IInv, Shape, TypeOK
<1>7. Shape' /\ Steps' /\ Gathering' /\ Bulking' /\ Listed' /\ Good'
  BY <1>1, <1>2, <1>4, <1>5, <1>6, ModFrame, Zenon
<1>8. Stops' /\ DirLocks' /\ Ops' /\ Registration' /\ Counting'
  BY <1>1, <1>3, SignalFrame, ZenonT(30)
<1>9. Queue'
  <2>1. Queue /\ files' = files /\ mod'.pc \notin {"stream", "spin"}
    BY <1>1, <1>4, Zenon DEF IInv
  <2>2. \A i \in DOMAIN files : files[i] \in Workers
    BY <1>6
  <2> QED BY <1>3, <1>5, <2>1, <2>2, Zenon DEF Queue
<1>10. Covered'
  <2>1. ASSUME NEW e \in stale', Carried(e) PROVE Carried(e)'
    BY <2>1, <1>2, <1>3, <1>5, Zenon DEF Carried
  <2>2. ASSUME NEW e \in stale', Pending(e[1]) PROVE Pending(e[1])'
    BY <2>2, <1>1, Zenon DEF Pending
  <2> QED BY <1>1, <1>2, <2>1, <2>2, Zenon DEF IInv, Covered
<1> QED BY <1>7, <1>8, <1>9, <1>10 DEF IInv

\* A stream that fails preserves the invariant: the job is aborted.
LEMMA ModFailsInv ==
    ASSUME IInv, ModFails
    PROVE  IInv'
<1>1. /\ mod.pc = "stream" /\ errors' = TRUE /\ Abort("none")
      /\ UNCHANGED <<main, inProgress, stopped, threadCount, counted, told, jobs>>
      /\ UNCHANGED <<queues, w, personal, data, ops>>
  BY DEF ModFails
<1>2. mod' \in Mods /\ mod'.pc = "spin" /\ mod'.cur = mod.cur
  <2>1. mod \in Mods /\ mod' = [mod EXCEPT !.pc = "spin", !.retry = AbortRetries, !.term = TRUE]
    BY DEF IInv, Shape, ModFails
  <2>2. AbortRetries \in Nat
    BY BoundsAssumption
  <2> QED BY <2>1, <2>2, Zenon DEF Mods
<1>3. told # "GOOD"
  BY <1>1, Zenon DEF IInv, Good
<1> QED BY <1>1, <1>2, <1>3, ThreadsAssumption, AbortInv, Zenon

\* A signal without a stream preserves the invariant in a job that does not run.
LEMMA SignalInv ==
    ASSUME IInv, state # "RUNNING", NEW y \in Workers, w[y].pc = "queued", w' = Signalled(y),
           mod' \in Mods, mod.pc \notin {"off", "done"} \/ mod' = mod,
           files' \in Seq(Workers), Len(files') <= Len(files),
           \A i \in DOMAIN files' : w[files'[i]].pc = "queued" /\ files'[i] # y,
           \A i, j \in DOMAIN files' : files'[i] = files'[j] => i = j,
           mod'.pc \in {"stream", "spin"} =>
              mod.pc = mod'.pc /\ mod'.cur = mod.cur /\ mod.cur # y /\ \A i \in DOMAIN files' : files'[i] # mod.cur,
           UNCHANGED <<main, state, inProgress, stopped, threadCount, counted, told, jobs, errors>>,
           UNCHANGED <<gather, bulk, dirs, personal, stale, created, ops, shut>>
    PROVE  IInv'
<1>1. /\ w' \in [Workers -> Slot]
      /\ \A x \in Workers : x # y => w'[x] = w[x]
  BY SignalledIs, Zenon
<1>2. Stops' /\ DirLocks' /\ Ops' /\ Registration' /\ Counting'
  BY SignalFrame
<1>3. Shape' /\ Steps' /\ Gathering' /\ Bulking' /\ Listed' /\ Good'
  <2>1. CASE mod.pc \notin {"off", "done"}
    BY <2>1, <1>1, ModFrame, Zenon
  <2>2. CASE mod' = mod
    <3>1. Len(files') <= QueueLimit + 1
      <4>1. TypeOK
        BY Zenon DEF IInv, Shape
      <4>2. files \in Seq(Workers) /\ Len(files) <= QueueLimit + 1
        BY <4>1, Zenon DEF TypeOK
      <4>3. Len(files) \in Nat /\ Len(files') \in Nat
        BY <4>2
      <4> QED BY <4>2, <4>3, BoundsAssumption
    <3>2. Shape'
      BY <3>1, <1>1, <2>2, Zenon DEF IInv, Shape, TypeOK
    <3>3. Steps' /\ Gathering' /\ Bulking' /\ Good'
      BY <2>2, Zenon DEF IInv, Steps, Gathering, Bulking, Good
    <3> QED BY <3>2, <3>3, Zenon DEF Listed
  <2> QED BY <2>1, <2>2, Zenon
<1>4. Queue'
  <2>1. \A i \in DOMAIN files' : files'[i] \in Workers
    OBVIOUS
  <2> QED BY <1>1, <2>1 DEF IInv, Queue
<1>5. Covered'
  BY DEF Covered
<1> QED BY <1>2, <1>3, <1>4, <1>5, Zenon DEF IInv

\* The turns of the loop in abort(true) preserve the invariant.
LEMMA ModSpinInv ==
    ASSUME IInv, ModSpin
    PROVE  IInv'
<1>1. /\ mod.pc = "spin"
      /\ UNCHANGED <<main, state, inProgress, stopped, threadCount, counted, told, jobs, errors>>
      /\ UNCHANGED <<gather, bulk, dirs, personal, stale, created, ops, shut>>
  BY DEF ModSpin, job, data
<1>2. mod' \in Mods /\ mod'.pc = "spin" /\ mod'.cur = mod.cur
  <2>1. mod \in Mods /\ mod.retry > 0
    BY DEF IInv, Shape, ModSpin
  <2>2. mod.retry \in Nat
    BY <2>1 DEF Mods
  <2>3. PICK r \in Nat : r = mod.retry - 1
    BY <2>1, <2>2
  <2>4. mod' = [mod EXCEPT !.retry = r]
    BY <2>3 DEF ModSpin
  <2>5. mod \in Mods
    BY <2>1
  <2>6. mod.pc = "spin"
    BY <1>1
  <2> QED BY <2>4, <2>5, <2>6 DEF Mods
<1>3. state # "RUNNING"
  BY <1>1 DEF IInv, Bulking
<1>4. CASE files = <<>>
  <2>1. files' = files /\ w' = w
    BY <1>4 DEF ModSpin
  <2>2. files' \in Seq(Workers) /\ Len(files') <= Len(files) /\ w' \in [Workers -> Slot]
    BY <2>1 DEF IInv, Shape, TypeOK
  <2>3. Shape' /\ Steps' /\ Gathering' /\ Bulking' /\ Listed' /\ Good'
    BY <1>1, <1>2, <1>3, <2>2, ModFrame, Zenon
  <2>4. Stops' /\ DirLocks' /\ Ops' /\ Covered'
    BY <1>1, <1>3, <2>1, Zenon DEF IInv, Stops, AllStopped, DirLocks, Ops, Covered
  <2>5. Registration' /\ Counting'
    BY <1>1, <2>1, Zenon DEF IInv, Registration, Registered, Counting
  <2>6. Queue'
    BY <1>1, <1>2, <2>1, ZenonT(30) DEF IInv, Queue
  <2> QED BY <2>3, <2>4, <2>5, <2>6 DEF IInv
<1>5. CASE files # <<>>
  <2>1. files' = Tail(files) /\ w' = Signalled(Head(files))
    BY <1>5 DEF ModSpin
  <2>2. /\ Head(files) \in Workers /\ w[Head(files)].pc = "queued"
        /\ mod.cur # Head(files)
        /\ files' \in Seq(Workers) /\ Len(files') <= Len(files)
        /\ \A i \in DOMAIN files' : w[files'[i]].pc = "queued" /\ files'[i] # Head(files)
        /\ \A i, j \in DOMAIN files' : files'[i] = files'[j] => i = j
        /\ \A i \in DOMAIN files' : files'[i] # mod.cur
    BY <1>1, <1>5, <2>1, QueueTail, Zenon
  <2> QED BY <1>1, <1>2, <1>3, <2>1, <2>2, SignalInv
<1> QED BY <1>4, <1>5

\* The end of abort(true) preserves the invariant.
LEMMA ModSpinEndsInv ==
    ASSUME IInv, ModSpinEnds
    PROVE  IInv'
<1>1. /\ mod.pc = "spin" /\ w' = Signalled(mod.cur) /\ files' = files
      /\ UNCHANGED <<main, state, inProgress, stopped, threadCount, counted, told, jobs, errors>>
      /\ UNCHANGED <<gather, bulk, dirs, personal, stale, created, ops, shut>>
  BY DEF ModSpinEnds, job, data, queues
<1>2. mod' \in Mods /\ mod'.pc = "loop"
  <2>1. mod \in Mods /\ mod' = [mod EXCEPT !.pc = "loop", !.cur = "none"]
    BY Zenon DEF IInv, Shape, ModSpinEnds
  <2> QED BY <2>1, ModGoesOn
<1>3. state # "RUNNING"
  BY <1>1, Zenon DEF IInv, Bulking
<1>4. /\ mod.cur \in Workers /\ w[mod.cur].pc = "queued"
      /\ \A i \in DOMAIN files' : w[files'[i]].pc = "queued" /\ files'[i] # mod.cur
      /\ \A i, j \in DOMAIN files' : files'[i] = files'[j] => i = j
      /\ files' \in Seq(Workers) /\ Len(files') <= Len(files)
  BY <1>1 DEF IInv, Queue, Shape, TypeOK
<1> QED BY <1>1, <1>2, <1>3, <1>4, SignalInv

\* The end of the mod syncer preserves the invariant.
LEMMA ModEndsInv ==
    ASSUME IInv, ModEnds
    PROVE  IInv'
<1>1. /\ mod.pc = "loop" /\ UNCHANGED <<files, w>>
      /\ UNCHANGED <<main, state, inProgress, stopped, threadCount, counted, told, jobs, errors>>
      /\ UNCHANGED <<gather, bulk, dirs, personal, stale, created, ops, shut>>
  BY DEF ModEnds, job, data, queues
<1>2. mod' \in Mods /\ mod'.pc = "done"
  <2>1. mod \in Mods /\ mod' = [mod EXCEPT !.pc = "done"]
    BY DEF IInv, Shape, ModEnds
  <2> QED BY <2>1 DEF Mods
<1>3. files' \in Seq(Workers) /\ Len(files') <= Len(files) /\ w' \in [Workers -> Slot]
  BY <1>1 DEF IInv, Shape, TypeOK
<1>4. Shape' /\ Steps' /\ Gathering' /\ Bulking' /\ Listed' /\ Good'
  BY <1>1, <1>2, <1>3, ModFrame, Zenon
<1>5. Stops' /\ DirLocks' /\ Ops'
  BY <1>1, Zenon DEF IInv, Stops, AllStopped, DirLocks, Ops
<1>6. Covered'
  BY <1>1, Zenon DEF IInv, Covered, Pending, Carried
<1>7. Registration' /\ Counting'
  BY <1>1, Zenon DEF IInv, Registration, Registered, Counting
<1>8. Queue'
  BY <1>1, <1>2, Zenon DEF IInv, Queue
<1> QED BY <1>4, <1>5, <1>6, <1>7, <1>8 DEF IInv

-----------------------------------------------------------------------------
(* The workers. *)

\* What a step of a worker leaves alone that is not at a barrier and not in the queue.
LEMMA WorkerFrame ==
    ASSUME IInv, NEW x \in Workers, w[x].pc \notin {"barrier", "queued"},
           \A y \in Workers : y # x => w'[y] = w[y],
           UNCHANGED <<main, state, inProgress, stopped, errors, told, jobs, gather, bulk, mod, dirs>>
    PROVE  /\ Steps' /\ Stops' /\ Gathering' /\ Bulking'
           /\ UNCHANGED files => Queue'
           /\ \A e : w[x].pc # "enqueue" /\ Carried(e) => Carried(e)'
           /\ \A d : Pending(d) => Pending(d)'
<1>1. Steps' /\ Gathering' /\ Bulking'
  BY Zenon DEF IInv, Steps, Gathering, Bulking
<1>2. Stops'
  BY Zenon DEF IInv, Stops, AllStopped
<1>3. UNCHANGED files => Queue'
  <2>1. \A i \in DOMAIN files : files[i] \in Workers
    BY DEF IInv, Shape, TypeOK
  <2> QED BY <2>1, Zenon DEF IInv, Queue
<1>4. \A e : w[x].pc # "enqueue" /\ Carried(e) => Carried(e)'
  BY Zenon DEF Carried
<1>5. \A d : Pending(d) => Pending(d)'
  BY Zenon DEF Pending
<1> QED BY <1>1, <1>2, <1>3, <1>4, <1>5, Zenon

\* What a worker does without an effect on the job, the threads or the data preserves the
\* invariant when its own state is in order.
LEMMA WorkerInv ==
    ASSUME IInv, NEW x \in Workers, w[x].pc \notin {"barrier", "queued", "enqueue"},
           w' \in [Workers -> Slot], \A y \in Workers : y # x => w'[y] = w[y],
           w'[x].pc \notin {"enqueue", "queued"},
           w'[x].pc \in {"idle", "lock", "barrier"} => ~w'[x].changeSet,
           state = "RUNNING" =>
              /\ w'[x].pc = "lock" => w'[x].job
              /\ w'[x].pc = "execute" => w'[x].changeSet
              /\ w'[x].pc \in Holding \cup {"lock"} /\ w'[x].entry[2] = "new" => w'[x].dirLock,
           DirLocks', Registration', Counting',
           personal' \in [Workers -> Seq({"barrier", "count"})],
           counted' \subseteq Workers, threadCount' \in Nat,
           UNCHANGED <<main, state, inProgress, stopped, errors, told, jobs, gather, bulk, mod>>,
           UNCHANGED <<dirs, files, stale, created>>
    PROVE  IInv'
<1>1. /\ Steps' /\ Stops' /\ Gathering' /\ Bulking' /\ Queue'
      /\ \A e : Carried(e) => Carried(e)'
      /\ \A d : Pending(d) => Pending(d)'
  BY WorkerFrame, Zenon
<1>2. Shape'
  BY Zenon DEF IInv, Shape, TypeOK
<1>3. Ops'
  BY Zenon DEF IInv, Ops
<1>4. Listed'
  BY Zenon DEF IInv, Listed, Listing
<1>5. Covered'
  BY <1>1, Zenon DEF IInv, Covered
<1>6. Good'
  BY Zenon DEF IInv, Good
<1> QED BY <1>1, <1>2, <1>3, <1>4, <1>5, <1>6, Zenon DEF IInv

\* A new operation preserves the invariant: it has seen the job that runs, and wants the lock
\* of the directory to which it adds.
LEMMA BeginInv ==
    ASSUME NoHarmfulRace, IInv, NEW x \in Workers, Begin(x)
    PROVE  IInv'
<1>1. /\ w[x].pc = "idle"
      /\ UNCHANGED <<main, state, inProgress, stopped, threadCount, errors, counted, told, jobs>>
      /\ UNCHANGED <<gather, bulk, mod, dirs, files, personal, stale, created, shut>>
  BY Zenon DEF Begin, job, slaves, queues, data
<1>2. inProgress \in BOOLEAN /\ w \in [Workers -> Slot] /\ (state = "RUNNING" => inProgress)
  BY DEF IInv, Shape, TypeOK, Steps
<1>3. PICK d \in Touched :
        \/ w' = [w EXCEPT ![x] = [NoOp EXCEPT !.pc = "lock", !.job = inProgress, !.entry = Old(d)]]
        \/ w' = [w EXCEPT ![x] =
                   [NoOp EXCEPT !.pc = "lock", !.job = inProgress, !.entry = New(d),
                                !.dirLock = TRUE /\ inProgress /\ state = "RUNNING"]]
  BY Zenon DEF Begin, NoHarmfulRace
<1>4. PICK e \in {Old(d), New(d)}, lock \in BOOLEAN :
        /\ w' = [w EXCEPT ![x] = [pc |-> "lock", entry |-> e, job |-> inProgress,
                                  dirLock |-> lock, changeSet |-> FALSE]]
        /\ e = Old(d) \/ (state = "RUNNING" => lock)
  BY <1>2, <1>3, Zenon DEF NoOp
<1>5. e \in Everything \cup {New(c) : c \in 1..NumDirs}
  BY BoundsAssumption DEF Everything
<1>6. PICK r : r = [pc |-> "lock", entry |-> e, job |-> inProgress, dirLock |-> lock, changeSet |-> FALSE]
  BY Zenon
<1>7. /\ r \in Slot /\ r.pc = "lock" /\ r.entry = e /\ r.job = inProgress /\ r.dirLock = lock
      /\ r.changeSet = FALSE
  BY <1>2, <1>5, <1>6, Zenon DEF Slot
<1>8. w' = [w EXCEPT ![x] = r] /\ (e = Old(d) \/ (state = "RUNNING" => lock))
  BY <1>4, <1>6
<1>9. w' \in [Workers -> Slot] /\ w'[x] = r /\ \A y \in Workers : y # x => w'[y] = w[y]
  BY <1>2, <1>7, <1>8, Zenon
<1>10. state = "RUNNING" => r.job /\ (r.entry[2] = "new" => r.dirLock)
  BY <1>2, <1>7, <1>8, EntryIs, Zenon
<1>11. DirLocks'
  BY <1>1, <1>7, <1>9, Zenon DEF IInv, DirLocks, Holding
<1>12. Registration'
  <2>1. Registered' = Registered
    BY <1>1, <1>7, <1>9, Zenon DEF IInv, Ops, Registered
  <2> QED BY <1>1, <2>1, Zenon DEF IInv, Registration
<1>13. Counting'
  BY <1>1, <1>7, <1>9, Zenon DEF IInv, Counting
<1>14. /\ personal' \in [Workers -> Seq({"barrier", "count"})]
       /\ counted' \subseteq Workers /\ threadCount' \in Nat
  BY <1>1, Zenon DEF IInv, Shape, TypeOK
<1> QED BY <1>1, <1>7, <1>9, <1>10, <1>11, <1>12, <1>13, <1>14, WorkerInv, Zenon DEF Holding

\* A step of worker x to another place of its operation, which it keeps.
LEMMA GotoIs ==
    ASSUME IInv, NEW x \in Workers, NEW pc \in {"barrier"} \cup Holding, Goto(x, pc)
    PROVE  /\ w' \in [Workers -> Slot]
           /\ \A y \in Workers : y # x => w'[y] = w[y]
           /\ w'[x].pc = pc /\ w'[x].entry = w[x].entry /\ w'[x].job = w[x].job
           /\ w'[x].dirLock = w[x].dirLock /\ w'[x].changeSet = w[x].changeSet
           /\ Registered' = Registered
<1>1. w \in [Workers -> Slot]
  BY DEF IInv, Shape, TypeOK
<1>2. w' = [w EXCEPT ![x].pc = pc]
  BY DEF Goto
<1>3. w' \in [Workers -> Slot]
  BY <1>1, <1>2 DEF Slot
<1>4. /\ \A y \in Workers : y # x => w'[y] = w[y]
      /\ w'[x].pc = pc /\ w'[x].entry = w[x].entry /\ w'[x].job = w[x].job
      /\ w'[x].dirLock = w[x].dirLock /\ w'[x].changeSet = w[x].changeSet
  BY <1>1, <1>2, Zenon DEF Slot
<1>5. Registered' = Registered
  BY <1>4, Zenon DEF Registered
<1> QED BY <1>3, <1>4, <1>5, Zenon

\* An operation that has changed nothing preserves the invariant.
LEMMA ExecuteNothingInv ==
    ASSUME IInv, NEW x \in Workers, w[x].pc = "execute", Goto(x, "finish"), UNCHANGED data,
           UNCHANGED <<job, slaves, queues, personal, ops, shut>>
    PROVE  IInv'
<1>1. /\ UNCHANGED <<main, state, inProgress, stopped, threadCount, errors, counted, told, jobs>>
      /\ UNCHANGED <<gather, bulk, mod, dirs, files, personal, stale, created>>
  BY Zenon DEF job, slaves, queues, data
<1>2. /\ w' \in [Workers -> Slot]
      /\ \A y \in Workers : y # x => w'[y] = w[y]
      /\ w'[x].pc = "finish" /\ w'[x].entry = w[x].entry
      /\ w'[x].dirLock = w[x].dirLock /\ w'[x].changeSet = w[x].changeSet
      /\ Registered' = Registered
  BY GotoIs, ZenonT(30) DEF Holding
<1>3. DirLocks'
  <2>1. DirLocks /\ bulk' = bulk /\ w[x].pc \in Holding
    BY <1>1, ZenonT(30) DEF IInv, Holding
  <2> QED BY <1>2, <2>1, DirLocksKept, Zenon
<1>4. Registration'
  BY <1>1, <1>2, Zenon DEF IInv, Registration
<1>5. Counting'
  BY <1>1, <1>2, Zenon DEF IInv, Counting
<1>6. /\ personal' \in [Workers -> Seq({"barrier", "count"})]
      /\ counted' \subseteq Workers /\ threadCount' \in Nat
  BY <1>1, Zenon DEF IInv, Shape, TypeOK
<1>7. state = "RUNNING" /\ w'[x].entry[2] = "new" => w'[x].dirLock
  BY <1>2, Zenon DEF IInv, Ops, Holding
<1> QED BY <1>1, <1>2, <1>3, <1>4, <1>5, <1>6, <1>7, WorkerInv, Zenon

\* executeLocally preserves the invariant: the change is forwarded, or it is in a change set,
\* and an inode enters no directory that a syncer has listed and not yet cleaned.
LEMMA ExecuteInv ==
    ASSUME IInv, NEW x \in Workers, Execute(x)
    PROVE  IInv'
<1> DEFINE e == w[x].entry
           forwarded == ~inProgress /\ state \in {"RUNNING", "SUCCESS"}
           pc == IF w[x].changeSet THEN "enqueue" ELSE "finish"
<1>1. /\ w[x].pc = "execute"
      /\ UNCHANGED <<job, slaves, queues, personal, ops, shut>>
      /\ UNCHANGED <<main, state, inProgress, stopped, threadCount, errors, counted, told, jobs>>
      /\ UNCHANGED <<gather, bulk, mod, dirs, files, personal>>
  BY Zenon DEF Execute, job, slaves, queues
<1>2. CASE UNCHANGED data /\ Goto(x, "finish")
  BY <1>1, <1>2, ExecuteNothingInv, ZenonT(30)
<1>3. CASE /\ created' = IF e[2] = "new" THEN created \cup {e[1]} ELSE created
           /\ stale' = IF forwarded THEN stale ELSE stale \cup {e, Sessions}
           /\ Goto(x, pc)
  <2>1. /\ w' \in [Workers -> Slot]
        /\ \A y \in Workers : y # x => w'[y] = w[y]
        /\ w'[x].pc = pc /\ w'[x].entry = e
        /\ w'[x].dirLock = w[x].dirLock /\ w'[x].changeSet = w[x].changeSet
        /\ Registered' = Registered
    <3>1. pc \in {"barrier"} \cup Holding /\ Goto(x, pc)
      BY <1>3, Zenon DEF Holding
    <3> QED BY <3>1, GotoIs, Zenon
  <2>2. e \in Everything \cup News /\ created \subseteq 1..NumDirs
    BY Zenon DEF IInv, Shape, TypeOK, Slot, News
  <2>3. e \in Everything \cup {New(d) : d \in created'} /\ created \subseteq created'
    <3>1. CASE e \in Everything
      BY <3>1, <1>3, Zenon
    <3>2. CASE e \in News
      <4>1. PICK d \in 1..NumDirs : e = New(d)
        BY <3>2, Zenon DEF News
      <4>2. e[2] = "new" /\ e[1] = d
        BY <4>1, EntryIs, Zenon
      <4>3. d \in created' /\ created \subseteq created'
        BY <1>3, <4>2
      <4> QED BY <4>1, <4>3, Zenon
    <3> QED BY <2>2, <3>1, <3>2, Zenon
  <2>4. created' \subseteq 1..NumDirs
    <3>1. CASE e[2] = "new"
      <4>1. e[1] \in 1..NumDirs
        BY <2>2, <3>1, EntryIs
      <4> QED BY <1>3, <2>2, <3>1, <4>1, Zenon
    <3> QED BY <1>3, <2>2, <3>1, Zenon
  <2>5. stale' \subseteq Everything \cup {New(d) : d \in created'}
    <3>1. stale \subseteq Everything \cup {New(d) : d \in created}
      BY Zenon DEF IInv, Shape, TypeOK
    <3>2. stale' \subseteq stale \cup {e, Sessions}
      BY <1>3, Zenon
    <3> QED BY <2>3, <3>1, <3>2, Zenon DEF Everything
  <2>6. Shape'
    BY <1>1, <2>1, <2>4, <2>5, Zenon DEF IInv, Shape, TypeOK
  <2>7. /\ Steps' /\ Stops' /\ Gathering' /\ Bulking' /\ Queue'
        /\ \A f : Carried(f) => Carried(f)'
        /\ \A d : Pending(d) => Pending(d)'
    BY <1>1, <2>1, WorkerFrame, Zenon
  <2>8. DirLocks'
    <3>1. DirLocks /\ bulk' = bulk /\ w[x].pc \in Holding /\ w'[x].entry = w[x].entry
      BY <1>1, <2>1, ZenonT(30) DEF IInv, Holding
    <3> QED BY <2>1, <3>1, DirLocksKept, Zenon
  <2>9. Ops'
    BY <1>1, <2>1 DEF IInv, Ops, Holding
  <2>10. Listed'
    <3> SUFFICES ASSUME state = "RUNNING", ~errors, NEW b \in BulkSlaves, bulk[b].pc = "remove"
                 PROVE  Listing(bulk[b].dir)' \subseteq bulk[b].listed
      BY <1>1, Zenon DEF Listed
    <3>1. Listing(bulk[b].dir) \subseteq bulk[b].listed
      BY Zenon DEF IInv, Listed
    <3>2. e[2] = "new" => e[1] # bulk[b].dir
      BY <1>1, Zenon DEF IInv, Ops, DirLocks, Holding
    <3>3. bulk[b].dir \in created' => bulk[b].dir \in created
      BY <1>3, <3>2, Zenon
    <3>4. bulk' = bulk
      BY <1>1, Zenon
    <3> QED BY <3>1, <3>3, <3>4, ZenonT(30) DEF Listing
  <2>11. Covered'
    <3> SUFFICES ASSUME state = "RUNNING", ~errors, NEW f \in stale'
                 PROVE  IF f = Sessions THEN main # "cleanup" ELSE Pending(f[1])' \/ Carried(f)'
      BY <1>1, Zenon DEF Covered
    <3>1. w[x].changeSet
      BY <1>1 DEF IInv, Ops
    <3>2. main # "cleanup"
      BY <3>1, Zenon DEF IInv, Registration, Registered
    <3>3. f = e => Carried(f)'
      BY <2>1, <3>1 DEF Carried
    <3>4. CASE f \in stale
      BY <2>7, <3>2, <3>4, Zenon DEF IInv, Covered
    <3>5. CASE f \in {e, Sessions}
      BY <3>2, <3>3, <3>5, Zenon
    <3> QED BY <1>3, <3>4, <3>5, Zenon
  <2>12. Registration'
    BY <1>1, <2>1, Zenon DEF IInv, Registration
  <2>13. Counting'
    BY <1>1, <2>1, Zenon DEF IInv, Counting
  <2>14. Good'
    <3> SUFFICES ASSUME told = "GOOD" PROVE Good'
      BY <1>1, Zenon DEF Good
    <3>1. main = "ended"
      BY <1>1 DEF IInv, Good, Stops, AllStopped
    <3>2. forwarded
      BY <3>1 DEF IInv, Steps, Good
    <3>3. stale' = stale
      BY <1>3, <3>2
    <3> QED BY <1>1, <3>3, Zenon DEF IInv, Good
  <2> QED BY <2>6, <2>7, <2>8, <2>9, <2>10, <2>11, <2>12, <2>13, <2>14, Zenon DEF IInv
<1> QED BY <1>2, <1>3, Zenon DEF Execute

\* Queueing a change set preserves the invariant: the worker waits, for itself.
LEMMA EnqueueInv ==
    ASSUME IInv, NEW x \in Workers, Enqueue(x)
    PROVE  IInv'
<1>1. /\ w[x].pc = "enqueue" /\ HasRoom(files) /\ files' = Append(files, x) /\ Goto(x, "queued")
      /\ UNCHANGED <<main, state, inProgress, stopped, threadCount, errors, counted, told, jobs>>
      /\ UNCHANGED <<gather, bulk, mod, dirs, personal, stale, created>>
  BY ZenonT(30) DEF Enqueue, job, slaves, data
<1>2. /\ w' \in [Workers -> Slot]
      /\ \A y \in Workers : y # x => w'[y] = w[y]
      /\ w'[x].pc = "queued" /\ w'[x].entry = w[x].entry
      /\ w'[x].dirLock = w[x].dirLock /\ w'[x].changeSet = w[x].changeSet
      /\ Registered' = Registered
  BY <1>1, GotoIs DEF Holding
<1>3. files \in Seq(Workers)
  BY Zenon DEF IInv, Shape, TypeOK
<1>4. /\ files' \in Seq(Workers) /\ Len(files') = Len(files) + 1 /\ Len(files) \in Nat
      /\ files'[Len(files) + 1] = x
      /\ \A i \in DOMAIN files' : i = Len(files) + 1 \/ (i \in DOMAIN files /\ files'[i] = files[i])
  <2>1. files' = Append(files, x)
    BY <1>1, Zenon
  <2> QED BY <1>3, <2>1, Appended
<1>5. Len(files') <= QueueLimit + 1
  <2>1. HasRoom(files) BY <1>1, Zenon
  <2>2. Len(files') = Len(files) + 1 /\ Len(files) \in Nat BY <1>4, Zenon
  <2> QED BY <2>1, <2>2, BoundsAssumption DEF HasRoom
<1>6. Shape'
  BY <1>1, <1>2, <1>4, <1>5, Zenon DEF IInv, Shape, TypeOK
<1>7. /\ Steps' /\ Stops' /\ Gathering' /\ Bulking'
      /\ \A d : Pending(d) => Pending(d)'
  BY <1>1, <1>2, WorkerFrame, Zenon
<1>8. DirLocks'
  <2>1. DirLocks /\ bulk' = bulk /\ w[x].pc \in Holding
    BY <1>1, ZenonT(30) DEF IInv, Holding
  <2> QED BY <1>2, <2>1, DirLocksKept, Zenon
<1>9. Listed'
  BY <1>1, ZenonT(30) DEF IInv, Listed, Listing
<1>10. Ops'
  BY <1>1, <1>2, ZenonT(30) DEF IInv, Ops, Holding
<1>11. Covered'
  <2>1. \A e : Carried(e) => Carried(e)'
    BY <1>2, Zenon DEF Carried
  <2> QED BY <1>1, <1>7, <2>1, Zenon DEF IInv, Covered
<1>12. Queue'
  <2>1. \A i \in DOMAIN files : files[i] \in Workers /\ files[i] # x /\ w[files[i]].pc = "queued"
    <3>1. Queue /\ w[x].pc = "enqueue"
      BY <1>1, ZenonT(30) DEF IInv
    <3>2. \A i \in DOMAIN files : files[i] \in Workers
      BY <1>3, EntriesOf, Zenon
    <3> QED BY <3>1, <3>2, Zenon DEF Queue
  <2>2. \A i \in DOMAIN files' : w'[files'[i]].pc = "queued"
    BY <1>2, <1>4, <2>1
  <2>3. \A i, j \in DOMAIN files' : files'[i] = files'[j] => i = j
    BY <1>4, <2>1, Zenon DEF IInv, Queue
  <2>4. mod.pc \in {"stream", "spin"} =>
          /\ mod.cur \in Workers /\ w[mod.cur].pc = "queued"
          /\ \A i \in DOMAIN files : files[i] # mod.cur
    BY Zenon DEF IInv, Queue
  <2>5. mod.pc \in {"stream", "spin"} =>
          /\ mod.cur \in Workers /\ w'[mod.cur].pc = "queued"
          /\ \A i \in DOMAIN files' : files'[i] # mod.cur
    BY <1>1, <1>2, <1>4, <2>4, Zenon
  <2> QED BY <1>1, <2>2, <2>3, <2>5, Zenon DEF Queue
<1>13. Registration'
  BY <1>1, <1>2, Zenon DEF IInv, Registration
<1>14. Counting'
  BY <1>1, <1>2, Zenon DEF IInv, Counting
<1>15. Good'
  BY <1>1, Zenon DEF IInv, Good
<1> QED BY <1>6, <1>7, <1>8, <1>9, <1>10, <1>11, <1>12, <1>13, <1>14, <1>15, Zenon DEF IInv

\* The work of a personal queue preserves the invariant: a worker is counted once, and after
\* its operation.
LEMMA TakePersonalInv ==
    ASSUME IInv, NEW x \in Workers, TakePersonal(x)
    PROVE  IInv'
<1>1. /\ w[x].pc = "idle" /\ personal[x] # <<>>
      /\ UNCHANGED <<main, state, inProgress, stopped, threadCount, errors, told, jobs>>
      /\ UNCHANGED <<gather, bulk, mod, dirs, files, stale, created, ops, shut>>
  BY Zenon DEF TakePersonal, slaves, queues, data
<1>2. /\ personal \in [Workers -> Seq({"barrier", "count"})]
      /\ personal' = [personal EXCEPT ![x] = Tail(personal[x])]
  BY ZenonT(30) DEF TakePersonal, IInv, Shape
<1>3. /\ Head(personal[x]) = personal[x][1] /\ 1 \in DOMAIN personal[x]
      /\ Tail(personal[x]) \in Seq({"barrier", "count"})
      /\ \A i \in DOMAIN Tail(personal[x]) :
            i + 1 \in DOMAIN personal[x] /\ Tail(personal[x])[i] = personal[x][i + 1] /\ i + 1 # 1
      /\ \A i \in DOMAIN Tail(personal[x]) : i \in Nat
  <2>1. personal[x] \in Seq({"barrier", "count"})
    BY <1>2, Zenon
  <2> QED BY <1>1, <2>1, HeadAndTail, Zenon
<1>4. /\ personal' \in [Workers -> Seq({"barrier", "count"})]
      /\ \A y \in Workers : y # x => personal'[y] = personal[y]
      /\ personal'[x] = Tail(personal[x])
  BY <1>2, <1>3, Zenon
<1>5. /\ \A i \in DOMAIN personal'[x] :
            i + 1 \in DOMAIN personal[x] /\ personal'[x][i] = personal[x][i + 1] /\ i + 1 # 1
      /\ \A i \in DOMAIN personal'[x] : i \in Nat
  BY <1>3, <1>4, Zenon
<1>6. ~w[x].changeSet
  BY <1>1, ZenonT(30) DEF IInv, Ops
<1>7. \A y \in Workers : \A i, j \in DOMAIN personal'[y] :
         personal'[y][i] = "count" /\ personal'[y][j] = "count" => i = j
  <2> SUFFICES ASSUME NEW y \in Workers, NEW i \in DOMAIN personal'[y], NEW j \in DOMAIN personal'[y],
                      personal'[y][i] = "count", personal'[y][j] = "count"
               PROVE  i = j
    BY Zenon
  <2>1. CASE y = x
    <3>1. i + 1 = j + 1
      BY <1>5, <2>1, Zenon DEF IInv, Counting
    <3> QED BY <1>5, <2>1, <3>1
  <2>2. CASE y # x
    BY <1>4, <2>2, Zenon DEF IInv, Counting
  <2> QED BY <2>1, <2>2
<1>8. CASE Head(personal[x]) = "barrier" /\ Goto(x, "barrier") /\ UNCHANGED counted
  <2>1. /\ w' \in [Workers -> Slot]
        /\ \A y \in Workers : y # x => w'[y] = w[y]
        /\ w'[x].pc = "barrier" /\ w'[x].changeSet = w[x].changeSet
        /\ Registered' = Registered
    BY <1>8, GotoIs, Zenon
  <2>2. DirLocks'
    BY <1>1, <2>1, Zenon DEF IInv, DirLocks, Holding
  <2>3. Registration'
    BY <1>1, <2>1, Zenon DEF IInv, Registration
  <2>4. Counting'
    <3>1. \A y \in Workers : \A i \in DOMAIN personal'[y] :
            personal'[y][i] = "count" => main = "drain" /\ y \notin counted
      BY <1>4, <1>5, ZenonT(30) DEF IInv, Counting
    <3> QED BY <1>1, <1>7, <1>8, <2>1, <3>1, Zenon DEF IInv, Counting
  <2>5. counted' \subseteq Workers /\ threadCount' \in Nat
    BY <1>1, <1>8 DEF IInv, Shape, TypeOK
  <2> QED BY <1>1, <1>4, <1>6, <2>1, <2>2, <2>3, <2>4, <2>5, WorkerInv, Zenon DEF Holding
<1>9. CASE Head(personal[x]) = "count" /\ counted' = counted \cup {x} /\ UNCHANGED w
  <2>1. w' \in [Workers -> Slot] /\ \A y \in Workers : y # x => w'[y] = w[y]
    BY <1>9, Zenon DEF IInv, Shape, TypeOK
  <2>2. DirLocks'
    BY <1>1, <1>9, Zenon DEF IInv, DirLocks
  <2>3. Registration'
    BY <1>1, <1>9, Zenon DEF IInv, Registration, Registered
  <2>4. Counting'
    <3>1. main = "drain" /\ personal[x][1] = "count" /\ 1 \in DOMAIN personal[x]
      BY <1>3, <1>9, Zenon DEF IInv, Counting
    <3>2. \A i \in DOMAIN personal'[x] : personal'[x][i] # "count"
      BY <1>5, <3>1 DEF IInv, Counting
    <3>3. \A y \in Workers : \A i \in DOMAIN personal'[y] :
            personal'[y][i] = "count" => main = "drain" /\ y \notin counted'
      BY <1>4, <1>9, <3>2, Zenon DEF IInv, Counting
    <3>4. \A y \in Workers : y \in counted' => ~w'[y].changeSet
      BY <1>6, <1>9, <3>1, Zenon DEF IInv, Counting
    <3> QED BY <1>1, <1>7, <3>1, <3>3, <3>4, Zenon DEF Counting
  <2>5. counted' \subseteq Workers /\ threadCount' \in Nat
    BY <1>1, <1>9, Zenon DEF IInv, Shape, TypeOK
  <2>6. w'[x].pc = "idle" /\ ~w'[x].changeSet
    BY <1>1, <1>6, <1>9, Zenon
  <2> QED BY <1>1, <1>4, <2>1, <2>2, <2>3, <2>4, <2>5, <2>6, WorkerInv, Zenon DEF Holding
<1> QED BY <1>8, <1>9, Zenon DEF TakePersonal

=============================================================================
