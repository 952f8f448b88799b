------------------------- MODULE BuddyResyncProofs -------------------------
(***************************************************************************)
(* Proofs about BuddyResync, for any numbers of workers, bulk syncers,     *)
(* directories, operations and jobs, and any limit of the queues: when the *)
(* secondary is reported good it has everything (GoodIsComplete), no job   *)
(* ends under an operation that will use it (OpsBelongToJob), and while a  *)
(* job goes well an operation is answered only after the secondary has its *)
(* change (AnsweredIsSynced).                                              *)
(*                                                                         *)
(* The invariant, and that the other threads preserve it, is in            *)
(* BuddyResyncStepProofs.  Here are the steps of the job's thread and the  *)
(* steps that count operations, for which the facts about finite sets are  *)
(* needed.                                                                 *)
(***************************************************************************)
EXTENDS BuddyResyncStepProofs

-----------------------------------------------------------------------------
(* The thread of the job. *)

\* The workers that wait at the barrier go on, and hold no change set.
LEMMA RestartIs ==
    ASSUME IInv, RestartWorkers
    PROVE  /\ w' \in [Workers -> Slot]
           /\ \A x \in Workers : w'[x] = w[x] \/ (w[x].pc = "barrier" /\ w'[x] = NoOp)
           /\ \A x \in Workers : w'[x] = w[x] \/ w'[x].pc = "idle"
           /\ Registered' = Registered
           /\ \A e : Carried(e)' <=> Carried(e)
<1>1. w \in [Workers -> Slot] /\ w' = [x \in Workers |-> IF w[x].pc = "barrier" THEN NoOp ELSE w[x]]
  BY DEF IInv, Shape, TypeOK, RestartWorkers
<1>2. w' \in [Workers -> Slot]
  BY <1>1, NothingIs
<1>3. \A x \in Workers : w'[x] = w[x] \/ (w[x].pc = "barrier" /\ w'[x] = NoOp)
  BY <1>1
<1>4. NoOp.pc = "idle" /\ ~NoOp.changeSet
  BY DEF NoOp
<1>5. Registered' = Registered
  BY <1>3, <1>4 DEF IInv, Ops, Registered
<1>6. \A e : Carried(e)' <=> Carried(e)
  BY <1>3, <1>4 DEF Carried
<1> QED BY <1>2, <1>3, <1>4, <1>5, <1>6

\* What the start of the workers leaves alone.
LEMMA RestartFrame ==
    ASSUME IInv, RestartWorkers \/ UNCHANGED w, state' = "RUNNING" => state = "RUNNING"
    PROVE  /\ Ops' /\ Registered' = Registered
           /\ UNCHANGED bulk => DirLocks'
           /\ UNCHANGED <<files, mod>> => Queue'
           /\ w' \in [Workers -> Slot]
<1>1. \A x \in Workers : w'[x] = w[x] \/ (w[x].pc = "barrier" /\ w'[x] = NoOp)
  BY RestartIs
<1>2. NoOp.pc = "idle" /\ ~NoOp.changeSet
  BY DEF NoOp
<1>3. Ops'
  BY <1>1, <1>2 DEF IInv, Ops, Holding
<1>4. Registered' = Registered
  BY RestartIs DEF Registered
<1>5. UNCHANGED bulk => DirLocks'
  BY <1>1, <1>2 DEF IInv, DirLocks, Holding
<1>6. UNCHANGED <<files, mod>> => Queue'
  <2>1. \A i \in DOMAIN files : files[i] \in Workers
    BY DEF IInv, Shape, TypeOK
  <2> QED BY <1>1, <1>2, <2>1 DEF IInv, Queue
<1>7. w' \in [Workers -> Slot]
  BY RestartIs DEF IInv, Shape, TypeOK
<1> QED BY <1>3, <1>4, <1>5, <1>6, <1>7

\* No worker has a counter in its queue unless the job drains.
LEMMA NoCounters ==
    ASSUME IInv, main # "drain"
    PROVE  \A x \in Workers : \A i \in DOMAIN personal[x] : personal[x][i] # "count"
BY DEF IInv, Counting

\* A job that cannot go on before its syncers run preserves the invariant.
LEMMA JobFailsInv ==
    ASSUME IInv, main \in {"begin", "notify", "start", "sync"}, main' = "cleanup",
           state' \in {"FAILURE", "INTERRUPTED"}, RestartWorkers \/ UNCHANGED w,
           bulk' \in [BulkSlaves -> Bulks], \A b \in BulkSlaves : bulk'[b].pc \in {"off", "loop"},
           UNCHANGED <<inProgress, stopped, threadCount, errors, counted, told, jobs>>,
           UNCHANGED <<gather, mod, dirs, files, personal, stale, created, ops, shut>>
    PROVE  IInv'
<1>1. /\ Ops' /\ Registered' = Registered
      /\ Queue' /\ w' \in [Workers -> Slot]
  BY RestartFrame
<1>2. Shape'
  BY <1>1 DEF IInv, Shape, TypeOK, Mains
<1>3. Steps' /\ Gathering' /\ Listed' /\ Covered'
  BY DEF IInv, Steps, Gathering, Listed, Covered
<1>4. Stops'
  BY DEF IInv, Steps, Stops
<1>5. Bulking' /\ DirLocks'
  BY DEF Bulking, DirLocks
<1>6. Registration'
  BY <1>1 DEF IInv, Registration
<1>7. Counting'
  BY NoCounters DEF IInv, Counting
<1>8. Good'
  BY DEF IInv, Good
<1> QED BY <1>1, <1>2, <1>3, <1>4, <1>5, <1>6, <1>7, <1>8 DEF IInv

\* Every worker finds the item at the end of its personal queue.
LEMMA PushedIs ==
    ASSUME IInv, NEW item \in {"barrier", "count"}, PushAll(item)
    PROVE  /\ personal' \in [Workers -> Seq({"barrier", "count"})]
           /\ \A x \in Workers : \A i \in DOMAIN personal'[x] :
                 \/ i = Len(personal[x]) + 1 /\ personal'[x][i] = item
                 \/ i \in DOMAIN personal[x] /\ personal'[x][i] = personal[x][i]
<1>1. personal \in [Workers -> Seq({"barrier", "count"})]
  BY DEF IInv, Shape
<1>2. personal' = [x \in Workers |-> Append(personal[x], item)]
  BY DEF PushAll
<1>3. ASSUME NEW x \in Workers
      PROVE  /\ personal'[x] \in Seq({"barrier", "count"})
             /\ \A i \in DOMAIN personal'[x] :
                 \/ i = Len(personal[x]) + 1 /\ personal'[x][i] = item
                 \/ i \in DOMAIN personal[x] /\ personal'[x][i] = personal[x][i]
  <2>1. personal[x] \in Seq({"barrier", "count"}) /\ personal'[x] = Append(personal[x], item)
    BY <1>1, <1>2
  <2> QED BY <2>1, Appended
<1>4. personal' = [x \in Workers |-> personal'[x]]
  BY <1>2
<1> QED BY <1>3, <1>4

\* Asking the workers to stop puts no counter into a queue.
LEMMA StopCounting ==
    ASSUME IInv, PushAll("barrier"), main \notin {"drain", "ended"}, main' # "drain", counted' = counted
    PROVE  Counting'
<1>1. \A x \in Workers : \A i \in DOMAIN personal'[x] :
         \/ personal'[x][i] = "barrier"
         \/ i \in DOMAIN personal[x] /\ personal'[x][i] = personal[x][i]
  BY PushedIs
<1>2. \A x \in Workers : \A i \in DOMAIN personal'[x] : personal'[x][i] # "count"
  BY <1>1, NoCounters
<1> QED BY <1>2 DEF IInv, Counting

\* The first steps of run() preserve the invariant.
LEMMA MainBeginInv ==
    ASSUME IInv, MainBegin
    PROVE  IInv'
<1>1. /\ main = "begin"
      /\ UNCHANGED <<inProgress, stopped, threadCount, errors, counted, told, jobs>>
      /\ UNCHANGED <<gather, bulk, mod, dirs, files, w, stale, created, ops, shut>>
  BY DEF MainBegin, slaves, queues, data
<1>2. CASE main' = "notify" /\ PushAll("barrier") /\ UNCHANGED state
  <2>1. personal' \in [Workers -> Seq({"barrier", "count"})] /\ Counting'
    BY <1>1, <1>2, PushedIs, StopCounting
  <2>2. Shape'
    BY <1>1, <1>2, <2>1 DEF IInv, Shape, TypeOK, Mains
  <2>3. Steps' /\ Stops' /\ Gathering' /\ Bulking' /\ DirLocks'
    BY <1>1, <1>2, Zenon DEF IInv, Steps, Stops, Gathering, Bulking, DirLocks
  <2>4. Listed' /\ Ops' /\ Covered' /\ Queue'
    BY <1>1, <1>2 DEF IInv, Steps, Listed, Ops, Covered, Queue
  <2>5. Registration' /\ Good'
    BY <1>1, <1>2 DEF IInv, Registration, Registered, Good
  <2> QED BY <2>1, <2>2, <2>3, <2>4, <2>5 DEF IInv
<1>3. CASE main' = "cleanup" /\ state' = "FAILURE" /\ UNCHANGED personal
  <2>1. bulk' \in [BulkSlaves -> Bulks] /\ \A b \in BulkSlaves : bulk'[b].pc = "off"
    BY <1>1 DEF IInv, Shape, Steps
  <2> QED BY <1>1, <1>3, <2>1, JobFailsInv
<1> QED BY <1>2, <1>3 DEF MainBegin

\* The start of the resync preserves the invariant: every worker is at the barrier, and every
\* directory is still to be gathered.
LEMMA MainNotifyInv ==
    ASSUME IInv, MainNotify
    PROVE  IInv'
<1>1. /\ main = "notify" /\ AllStopped
      /\ UNCHANGED <<stopped, threadCount, errors, counted, told, jobs>>
      /\ UNCHANGED <<gather, bulk, mod, dirs, files, personal, stale, created, ops, shut>>
  BY DEF MainNotify, slaves, queues, data
<1>2. bulk' \in [BulkSlaves -> Bulks] /\ \A b \in BulkSlaves : bulk'[b].pc = "off"
  BY <1>1 DEF IInv, Shape, Steps
<1>3. CASE /\ main' = "cleanup" /\ state' = "FAILURE"
           /\ RestartWorkers
           /\ UNCHANGED inProgress
  BY <1>1, <1>2, <1>3, JobFailsInv
<1>4. CASE /\ state = "INTERRUPTED"
           /\ main' = "cleanup"
           /\ RestartWorkers
           /\ UNCHANGED <<state, inProgress>>
  BY <1>1, <1>2, <1>4, JobFailsInv
<1>5. CASE /\ state # "INTERRUPTED"
           /\ main' = "start" /\ state' = "RUNNING" /\ inProgress' = TRUE
           /\ UNCHANGED w
  <2>1. Shape'
    BY <1>1, <1>5 DEF IInv, Shape, TypeOK, Mains
  <2>2. Steps' /\ Stops' /\ Gathering' /\ Bulking' /\ DirLocks'
    BY <1>1, <1>5 DEF IInv, Steps, Stops, AllStopped, Gathering, Bulking, DirLocks
  <2>3. Listed' /\ Queue'
    BY <1>1, <1>2, <1>5 DEF IInv, Listed, Queue
  <2>4. Ops'
    BY <1>1, <1>5 DEF IInv, Ops, AllStopped, Holding
  <2>5. Covered'
    <3>1. ASSUME NEW e \in stale, e # Sessions PROVE Pending(e[1])'
      <4>1. e[1] \in 1..NumDirs
        BY <3>1, StaleIsListed DEF IInv
      <4>2. gather'.pc = "off" /\ gather'.next = 1
        BY <1>1 DEF IInv, Steps
      <4> QED BY <4>1, <4>2, BoundsAssumption DEF Pending
    <3> QED BY <1>1, <1>5, <3>1 DEF Covered
  <2>6. Registration' /\ Good'
    BY <1>1, <1>5 DEF IInv, Registration, Registered, Good
  <2>7. Counting'
    BY <1>1, <1>5, NoCounters DEF IInv, Counting
  <2> QED BY <2>1, <2>2, <2>3, <2>4, <2>5, <2>6, <2>7 DEF IInv
<1> QED BY <1>3, <1>4, <1>5, Zenon DEF MainNotify

\* The start of the gatherer preserves the invariant.
LEMMA StartGatherInv ==
    ASSUME IInv, StartGather
    PROVE  IInv'
<1>1. /\ main = "start"
      /\ UNCHANGED <<inProgress, stopped, threadCount, errors, counted, told, jobs>>
      /\ UNCHANGED <<bulk, mod, dirs, files, personal, stale, created, ops, shut>>
  BY DEF StartGather, queues, data
<1>2. /\ bulk' \in [BulkSlaves -> Bulks] /\ \A b \in BulkSlaves : bulk'[b].pc = "off"
      /\ gather \in Gathers /\ gather.pc = "off" /\ gather.next = 1
  BY <1>1 DEF IInv, Shape, Steps
<1>3. CASE /\ main' = "flag"
           /\ gather' = [gather EXCEPT !.pc = "crawl", !.term = FALSE, !.running = TRUE]
           /\ UNCHANGED <<state, w>>
  <2>1. gather' = [gather EXCEPT !.pc = "crawl", !.term = FALSE, !.running = TRUE] /\ gather \in Gathers
    BY <1>2, <1>3
  <2>2. gather' \in Gathers /\ gather'.pc = "crawl" /\ gather'.next = gather.next /\ ~gather'.term
    BY <2>1, Zenon DEF Gathers
  <2>3. main' = "flag" /\ UNCHANGED <<state, w>>
    BY <1>3
  <2>4. Shape'
    BY <1>1, <2>2, <2>3, Zenon DEF IInv, Shape, TypeOK, Mains
  <2>5. Steps' /\ Stops' /\ Gathering' /\ Bulking' /\ DirLocks'
    BY <1>1, <2>2, <2>3, ZenonT(30) DEF IInv, Steps, Stops, AllStopped, Gathering, Bulking, DirLocks
  <2>6. Listed' /\ Ops' /\ Queue'
    BY <1>1, <1>2, <2>3 DEF IInv, Listed, Ops, Queue
  <2>7. Covered'
    <3>1. ASSUME NEW e \in stale, Carried(e) PROVE Carried(e)'
      BY <3>1, <2>3 DEF Carried
    <3>2. ASSUME NEW e \in stale, Pending(e[1]) PROVE Pending(e[1])'
      BY <3>2, <1>1, <1>2, <2>2 DEF Pending
    <3> QED BY <3>1, <3>2, <1>1, <2>3 DEF IInv, Covered
  <2>8. Registration' /\ Good'
    BY <1>1, <2>3 DEF IInv, Registration, Registered, Good
  <2>9. Counting'
    BY <1>1, <2>3, NoCounters DEF IInv, Counting
  <2> QED BY <2>4, <2>5, <2>6, <2>7, <2>8, <2>9 DEF IInv
<1>4. CASE /\ main' = "cleanup" /\ state' = "FAILURE"
           /\ RestartWorkers
           /\ UNCHANGED gather
  BY <1>1, <1>2, <1>4, JobFailsInv
<1> QED BY <1>3, <1>4 DEF StartGather

\* The flag of the gatherer preserves the invariant, whether or not it still runs.
LEMMA FlagGatherInv ==
    ASSUME IInv, FlagGather
    PROVE  IInv'
<1>1. /\ main = "flag" /\ main' = "sync"
      /\ UNCHANGED <<state, inProgress, stopped, threadCount, errors, counted, told, jobs>>
      /\ UNCHANGED <<bulk, mod, dirs, files, w, personal, stale, created, ops, shut>>
  BY DEF FlagGather, queues, data
<1>2. /\ gather' \in Gathers
      /\ gather'.pc = gather.pc /\ gather'.next = gather.next /\ gather'.term = gather.term
  <2>1. gather \in Gathers /\ gather' = [gather EXCEPT !.running = TRUE]
    BY DEF IInv, Shape, FlagGather
  <2> QED BY <2>1, Zenon DEF Gathers
<1>3. Shape'
  BY <1>1, <1>2, Zenon DEF IInv, Shape, TypeOK, Mains
<1>4. Steps' /\ Stops' /\ Gathering' /\ Bulking' /\ DirLocks'
  BY <1>1, <1>2, Zenon DEF IInv, Steps, Stops, AllStopped, Gathering, Bulking, DirLocks
<1>5. Ops' /\ Queue'
  BY <1>1 DEF IInv, Ops, Queue
<1>6. Listed'
  BY <1>1 DEF IInv, Listed, Listing
<1>7. Covered'
  BY <1>1, <1>2 DEF IInv, Covered, Pending, Carried
<1>8. Registration' /\ Good'
  BY <1>1 DEF IInv, Registration, Registered, Good
<1>9. Counting'
  BY <1>1, NoCounters DEF IInv, Counting
<1> QED BY <1>3, <1>4, <1>5, <1>6, <1>7, <1>8, <1>9 DEF IInv

\* The start of the syncers preserves the invariant.
LEMMA StartSyncInv ==
    ASSUME IInv, StartSync
    PROVE  IInv'
<1>1. /\ main = "sync" /\ RestartWorkers
      /\ UNCHANGED <<inProgress, stopped, threadCount, errors, counted, told, jobs>>
      /\ UNCHANGED <<gather, dirs, files, personal, stale, created, ops, shut>>
  BY Zenon DEF StartSync, queues, data
<1>2. /\ bulk \in [BulkSlaves -> Bulks] /\ mod \in Mods
      /\ \A b \in BulkSlaves : bulk[b].pc = "off"
  BY <1>1 DEF IInv, Shape, Steps
<1>3. CASE /\ main' = "joinGather"
           /\ bulk' = [b \in BulkSlaves |-> [bulk[b] EXCEPT !.pc = "loop", !.term = FALSE]]
           /\ mod' = [mod EXCEPT !.pc = "loop", !.term = FALSE]
           /\ UNCHANGED state
  <2>1. main' = "joinGather" /\ UNCHANGED state
    BY <1>3, Zenon
  <2>2. bulk' = [b \in BulkSlaves |-> [bulk[b] EXCEPT !.pc = "loop", !.term = FALSE]]
    BY <1>3, Zenon
  <2>3. mod' = [mod EXCEPT !.pc = "loop", !.term = FALSE]
    BY <1>3, Zenon
  <2>4. mod' \in Mods /\ mod'.pc = "loop"
    BY <1>2, <2>3, Zenon DEF Mods
  <2>5. \A b \in BulkSlaves : bulk'[b] \in Bulks /\ bulk'[b].pc = "loop" /\ ~bulk'[b].term
    BY <1>2, <2>2, Zenon DEF Bulks
  <2>6. bulk' \in [BulkSlaves -> Bulks]
    <3>1. bulk' = [b \in BulkSlaves |-> bulk'[b]]
      BY <2>2, Zenon
    <3> QED BY <2>5, <3>1
  <2>7. /\ Ops' /\ Registered' = Registered /\ w' \in [Workers -> Slot]
    BY <1>1, <2>1, RestartFrame
  <2>8. Shape'
    BY <1>1, <2>1, <2>4, <2>6, <2>7, Zenon DEF IInv, Shape, TypeOK, Mains
  <2>9. Steps' /\ Stops' /\ Gathering' /\ Bulking' /\ DirLocks' /\ Listed'
    BY <1>1, <2>1, <2>4, <2>5, Zenon DEF IInv, Steps, Stops, Gathering, Bulking, DirLocks, Listed
  <2>10. Queue'
    <3>1. UNCHANGED <<files, mod>> => Queue'
      BY <1>1, <2>1, RestartFrame
    <3>2. \A i \in DOMAIN files : files[i] \in Workers
      BY DEF IInv, Shape, TypeOK
    <3>3. \A x \in Workers : w'[x] = w[x] \/ (w[x].pc = "barrier" /\ w'[x] = NoOp)
      BY <1>1, RestartIs
    <3> QED BY <1>1, <2>4, <3>2, <3>3 DEF IInv, Queue
  <2>11. Covered'
    <3>1. ASSUME NEW e \in stale, Carried(e) PROVE Carried(e)'
      BY <3>1, <1>1, RestartIs
    <3>2. ASSUME NEW e \in stale, Pending(e[1]) PROVE Pending(e[1])'
      BY <3>2, <1>1, <1>2, Zenon DEF Pending
    <3> QED BY <3>1, <3>2, <1>1, <2>1 DEF IInv, Covered
  <2>12. Registration' /\ Good'
    BY <1>1, <2>1, <2>7, Zenon DEF IInv, Registration, Good
  <2>13. Counting'
    BY <1>1, <2>1, NoCounters DEF IInv, Counting
  <2> QED BY <2>7, <2>8, <2>9, <2>10, <2>11, <2>12, <2>13 DEF IInv
<1>4. CASE /\ main' = "cleanup" /\ state' = "FAILURE"
           /\ \E started \in SUBSET BulkSlaves :
                bulk' = [b \in BulkSlaves |-> IF b \in started
                            THEN [bulk[b] EXCEPT !.pc = "loop", !.term = TRUE] ELSE bulk[b]]
           /\ UNCHANGED mod
  <2>1. PICK started \in SUBSET BulkSlaves :
          bulk' = [b \in BulkSlaves |-> IF b \in started
                            THEN [bulk[b] EXCEPT !.pc = "loop", !.term = TRUE] ELSE bulk[b]]
    BY <1>4, Zenon
  <2>2. \A b \in BulkSlaves : bulk'[b] \in Bulks /\ bulk'[b].pc \in {"off", "loop"}
    BY <1>2, <2>1, ZenonT(30) DEF Bulks
  <2>3. bulk' \in [BulkSlaves -> Bulks]
    <3>1. bulk' = [b \in BulkSlaves |-> bulk'[b]]
      BY <2>1, Zenon
    <3> QED BY <2>2, <3>1
  <2>4. main' = "cleanup" /\ state' = "FAILURE" /\ mod' = mod
    BY <1>4, Zenon
  <2> QED BY <1>1, <2>2, <2>3, <2>4, JobFailsInv
<1> QED BY <1>3, <1>4, Zenon DEF StartSync

\* When the gatherer has ended, the bulk syncers are told to end: the invariant holds.
LEMMA JoinGatherInv ==
    ASSUME IInv, JoinGather
    PROVE  IInv'
<1>1. /\ main = "joinGather" /\ gather.pc = "done" /\ main' = "joinBulk"
      /\ UNCHANGED <<state, inProgress, stopped, threadCount, errors, counted, told, jobs>>
      /\ UNCHANGED <<gather, mod, dirs, files, w, personal, stale, created, ops, shut>>
  BY Zenon DEF JoinGather, queues, data
<1>2. /\ bulk \in [BulkSlaves -> Bulks]
      /\ bulk' = [b \in BulkSlaves |-> [bulk[b] EXCEPT !.idleOnly = TRUE, !.term = TRUE]]
  BY Zenon DEF IInv, Shape, JoinGather
<1>3. \A b \in BulkSlaves :
        /\ bulk'[b] \in Bulks /\ bulk'[b].pc = bulk[b].pc /\ bulk'[b].dir = bulk[b].dir
        /\ bulk'[b].listed = bulk[b].listed /\ bulk'[b].idleOnly
  BY <1>2, Zenon DEF Bulks
<1>4. bulk' \in [BulkSlaves -> Bulks]
  <2>1. bulk' = [b \in BulkSlaves |-> bulk'[b]]
    BY <1>2, Zenon
  <2> QED BY <1>3, <2>1
<1>5. Shape'
  BY <1>1, <1>4, Zenon DEF IInv, Shape, TypeOK, Mains
<1>6. Steps' /\ Stops' /\ Gathering' /\ Bulking' /\ DirLocks'
  BY <1>1, <1>3, Zenon DEF IInv, Steps, Stops, Gathering, Bulking, DirLocks
<1>7. Listed'
  BY <1>1, <1>3, ZenonT(30) DEF IInv, Listed, Listing
<1>8. Ops' /\ Queue'
  BY <1>1 DEF IInv, Ops, Queue
<1>9. Covered'
  <2>1. ASSUME NEW e \in stale, Carried(e) PROVE Carried(e)'
    BY <2>1, <1>1 DEF Carried
  <2>2. ASSUME NEW e \in stale, Pending(e[1]) PROVE Pending(e[1])'
    BY <2>2, <1>1, <1>3, Zenon DEF Pending
  <2> QED BY <2>1, <2>2, <1>1 DEF IInv, Covered
<1>10. Registration' /\ Good'
  BY <1>1 DEF IInv, Registration, Registered, Good
<1>11. Counting'
  BY <1>1, NoCounters DEF IInv, Counting
<1> QED BY <1>5, <1>6, <1>7, <1>8, <1>9, <1>10, <1>11 DEF IInv

\* When the bulk syncers have ended, the workers are asked to stop: the invariant holds.
LEMMA JoinBulkInv ==
    ASSUME IInv, JoinBulk
    PROVE  IInv'
<1>1. /\ main = "joinBulk" /\ \A b \in BulkSlaves : bulk[b].pc = "done"
      /\ UNCHANGED <<state, inProgress, threadCount, errors, counted, told, jobs>>
      /\ UNCHANGED <<gather, bulk, mod, dirs, files, w, stale, created, ops, shut>>
  BY DEF JoinBulk, slaves, queues, data
<1>2. \/ state = "RUNNING" /\ main' = "stop2" /\ PushAll("barrier") /\ stopped' = TRUE
      \/ state # "RUNNING" /\ main' = "endMod" /\ UNCHANGED <<personal, stopped>>
  BY DEF JoinBulk
<1>3. personal' \in [Workers -> Seq({"barrier", "count"})] /\ Counting'
  <2>1. CASE main' = "stop2" /\ PushAll("barrier")
    BY <1>1, <2>1, PushedIs, StopCounting
  <2>2. CASE main' = "endMod" /\ UNCHANGED <<personal, stopped>>
    BY <1>1, <2>2, NoCounters DEF IInv, Shape, Counting
  <2> QED BY <1>2, <2>1, <2>2
<1>4. /\ \/ state = "RUNNING" /\ main' = "stop2" /\ stopped' = TRUE
         \/ state # "RUNNING" /\ main' = "endMod" /\ stopped' = stopped
  BY <1>2
<1>5. Shape'
  BY <1>1, <1>3, <1>4, Zenon DEF IInv, Shape, TypeOK, Mains
<1>6. Steps' /\ Stops' /\ Gathering' /\ Bulking' /\ DirLocks'
  <2>1. Steps' /\ Stops'
    BY <1>1, <1>4 DEF IInv, Steps, Stops
  <2>2. Gathering' /\ Bulking' /\ DirLocks'
    BY <1>1, <1>4, ZenonT(30) DEF IInv, Gathering, Bulking, DirLocks
  <2> QED BY <2>1, <2>2, Zenon
<1>7. Listed' /\ Ops' /\ Queue'
  BY <1>1, <1>4, ZenonT(30) DEF IInv, Listed, Ops, Queue
<1>8. Covered'
  BY <1>1, <1>4 DEF IInv, Covered, Pending, Carried
<1>9. Registration' /\ Good'
  BY <1>1, <1>4 DEF IInv, Registration, Registered, Good
<1> QED BY <1>3, <1>5, <1>6, <1>7, <1>8, <1>9 DEF IInv

\* When the workers have stopped no operation is registered, and the mod syncer is told to
\* end: the invariant holds.
LEMMA EndModInv ==
    ASSUME IInv, EndMod
    PROVE  IInv'
<1>1. /\ main = "endMod" \/ (main = "stop2" /\ AllStopped)
      /\ main' = "joinMod"
      /\ UNCHANGED <<state, inProgress, stopped, threadCount, errors, counted, told, jobs>>
      /\ UNCHANGED <<gather, bulk, dirs, files, w, personal, stale, created, ops, shut>>
  BY DEF EndMod, queues, data
<1>2. mod' \in Mods /\ mod'.pc = mod.pc /\ mod'.cur = mod.cur
  <2>1. mod \in Mods /\ mod' = [mod EXCEPT !.idleOnly = TRUE, !.term = TRUE]
    BY DEF IInv, Shape, EndMod
  <2> QED BY <2>1, Zenon DEF Mods
<1>3. Shape'
  BY <1>1, <1>2, Zenon DEF IInv, Shape, TypeOK, Mains
<1>4. Steps' /\ Stops' /\ Gathering' /\ Bulking' /\ DirLocks'
  BY <1>1, <1>2, Zenon DEF IInv, Steps, Stops, AllStopped, Gathering, Bulking, DirLocks
<1>5. Listed'
  BY <1>1, Zenon DEF IInv, Listed, Listing
<1>6. Ops' /\ Queue'
  BY <1>1, <1>2, Zenon DEF IInv, Ops, Queue
<1>7. Covered'
  BY <1>1 DEF IInv, Covered, Pending, Carried
<1>8. Registration'
  <2>1. Registered' = Registered
    BY <1>1 DEF Registered
  <2>2. ASSUME AllStopped PROVE Registered = {}
    BY <2>2 DEF IInv, Ops, AllStopped, Registered
  <2> QED BY <1>1, <2>1, <2>2 DEF IInv, Registration, Steps
<1>9. Good'
  BY <1>1 DEF IInv, Good
<1>10. Counting'
  BY <1>1, NoCounters DEF IInv, Counting
<1> QED BY <1>3, <1>4, <1>5, <1>6, <1>7, <1>8, <1>9, <1>10 DEF IInv

\* The resync of the sessions preserves the invariant.
LEMMA JoinModInv ==
    ASSUME IInv, JoinMod
    PROVE  IInv'
<1>1. /\ main = "joinMod" /\ mod.pc = "done" /\ main' = "cleanup"
      /\ UNCHANGED <<state, inProgress, stopped, threadCount, counted, told, jobs>>
      /\ UNCHANGED <<gather, bulk, mod, dirs, files, w, personal, created, ops, shut>>
  BY DEF JoinMod, slaves, queues
<1>2. /\ stale' \subseteq stale /\ errors' \in BOOLEAN
      /\ errors => errors'
      /\ state = "RUNNING" /\ ~errors' => Sessions \notin stale'
  BY Zenon DEF JoinMod, IInv, Shape
<1>3. Shape'
  BY <1>1, <1>2, Zenon DEF IInv, Shape, TypeOK, Mains
<1>4. Steps' /\ Stops' /\ Gathering' /\ Bulking' /\ DirLocks'
  BY <1>1, <1>2, Zenon DEF IInv, Steps, Stops, AllStopped, Gathering, Bulking, DirLocks
<1>5. Listed'
  BY <1>1, <1>2, Zenon DEF IInv, Listed, Listing
<1>6. Ops' /\ Queue'
  BY <1>1, Zenon DEF IInv, Ops, Queue
<1>7. Covered'
  BY <1>1, <1>2 DEF IInv, Covered, Pending, Carried
<1>8. Registration' /\ Good'
  BY <1>1, <1>2, ZenonT(30) DEF IInv, Registration, Registered, Good
<1>9. Counting'
  BY <1>1, NoCounters DEF IInv, Counting
<1> QED BY <1>3, <1>4, <1>5, <1>6, <1>7, <1>8, <1>9 DEF IInv

\* A job that still runs at its cleanup, without errors, has brought everything over.
LEMMA SuccessIsComplete ==
    ASSUME IInv, main = "cleanup", state = "RUNNING", ~errors
    PROVE  stale = {} /\ stopped /\ gather.pc = "done"
<1>1. stopped /\ gather.pc = "done"
  BY DEF IInv, Steps, Gathering
<1>2. dirs = <<>> /\ \A b \in BulkSlaves : bulk[b].pc = "done"
  BY ThreadsAssumption DEF IInv, Bulking
<1>3. \A d : ~Pending(d)
  BY <1>1, <1>2 DEF Pending
<1>4. \A e : ~Carried(e)
  <2>1. Registered = {}
    BY DEF IInv, Registration
  <2> QED BY <2>1 DEF IInv, Ops, Registered, Carried
<1>5. stale = {}
  BY <1>3, <1>4 DEF IInv, Covered
<1> QED BY <1>1, <1>5

\* The result of a job preserves the invariant: the secondary is called good when the job
\* has brought everything over.
LEMMA CleanupInv ==
    ASSUME IInv, Cleanup
    PROVE  IInv'
<1>1. /\ main = "cleanup" /\ SlavesEnded /\ main' = "release"
      /\ UNCHANGED <<inProgress, stopped, threadCount, errors, counted, jobs>>
      /\ UNCHANGED <<gather, bulk, mod, dirs, files, w, personal, stale, created, ops, shut>>
  BY DEF Cleanup, slaves, queues, data
<1>2. /\ state' \in {"NONE", "NOTSTARTED", "SUCCESS", "INTERRUPTED", "FAILURE", "ERRORS"}
      /\ told' \in {"none", "GOOD", "BAD"}
      /\ told' = "GOOD" => state = "RUNNING" /\ ~errors /\ state' = "SUCCESS"
  <2>1. told # "GOOD"
    BY <1>1 DEF IInv, Good
  <2>2. /\ told \in {"none", "GOOD", "BAD"} /\ errors \in BOOLEAN
        /\ state \in {"NONE", "NOTSTARTED", "RUNNING", "SUCCESS", "INTERRUPTED", "FAILURE", "ERRORS"}
    BY DEF IInv, Shape, TypeOK
  <2> QED BY <2>1, <2>2 DEF Cleanup
<1>3. Shape'
  BY <1>1, <1>2, Zenon DEF IInv, Shape, TypeOK, Mains
<1>4. Steps'
  BY <1>1, <1>2, Zenon DEF IInv, Steps
<1>5. Stops' /\ Gathering' /\ Bulking' /\ DirLocks' /\ Listed' /\ Covered'
  BY <1>1, <1>2, Zenon DEF IInv, Stops, AllStopped, Gathering, Bulking, DirLocks, Listed, Covered
<1>6. Ops' /\ Queue'
  BY <1>1, <1>2 DEF IInv, Ops, Queue
<1>7. Registration'
  BY <1>1, <1>2, ZenonT(30) DEF IInv, Registration, Registered
<1>8. Counting'
  BY <1>1, NoCounters, ZenonT(30) DEF IInv, Counting
<1>9. Good'
  BY <1>1, <1>2, SuccessIsComplete DEF Good, SlavesEnded
<1> QED BY <1>3, <1>4, <1>5, <1>6, <1>7, <1>8, <1>9 DEF IInv

\* The end of the resync preserves the invariant: without errors no operation is registered,
\* and otherwise every worker will be counted.
LEMMA ReleaseInv ==
    ASSUME IInv, Release
    PROVE  IInv'
<1>1. /\ main = "release" /\ inProgress' = FALSE
      /\ UNCHANGED <<state, stopped, threadCount, errors, counted, told, jobs>>
      /\ UNCHANGED <<gather, bulk, mod, dirs, files, stale, created, ops, shut>>
  BY DEF Release, slaves, queues, data
<1>2. RestartWorkers \/ UNCHANGED w
  BY DEF Release
<1>3. \/ errors /\ main' = "drain" /\ PushAll("count")
      \/ ~errors /\ main' = "ended" /\ UNCHANGED personal
  BY Zenon DEF Release, MustDrain
<1>4. state # "RUNNING"
  BY <1>1 DEF IInv, Steps
<1>5. /\ Ops' /\ Registered' = Registered /\ DirLocks' /\ Queue' /\ w' \in [Workers -> Slot]
  BY <1>1, <1>2, <1>4, RestartFrame
<1>6. personal' \in [Workers -> Seq({"barrier", "count"})]
  <2>1. CASE PushAll("count")
    BY <2>1, PushedIs
  <2>2. CASE UNCHANGED personal
    BY <2>2 DEF IInv, Shape
  <2> QED BY <1>3, <2>1, <2>2
<1>7. (errors /\ main' = "drain") \/ (~errors /\ main' = "ended")
  BY <1>3
<1>8. Shape'
  BY <1>1, <1>5, <1>6, <1>7, Zenon DEF IInv, Shape, TypeOK, Mains
<1>9. Steps' /\ Stops' /\ Gathering' /\ Bulking' /\ Listed' /\ Covered'
  BY <1>1, <1>4, <1>7, Zenon DEF IInv, Steps, Stops, Gathering, Bulking, Listed, Covered
<1>10. Registration'
  BY <1>1, <1>4, <1>5, <1>7 DEF IInv, Registration
<1>11. Counting'
  <2>1. counted' = {}
    BY <1>1, Zenon DEF IInv, Counting
  <2>2. CASE main' = "drain" /\ PushAll("count")
    <3>1. \A x \in Workers : \A i \in DOMAIN personal'[x] :
            \/ i = Len(personal[x]) + 1
            \/ i \in DOMAIN personal[x] /\ personal'[x][i] = personal[x][i]
      BY <2>2, PushedIs
    <3>2. \A x \in Workers : \A i \in DOMAIN personal'[x] :
            personal'[x][i] = "count" => i = Len(personal[x]) + 1
      BY <1>1, <3>1, NoCounters, Zenon
    <3> QED BY <2>1, <2>2, <3>2, Zenon DEF Counting
  <2>3. CASE main' = "ended" /\ UNCHANGED personal
    BY <1>1, <2>3, NoCounters DEF Counting
  <2> QED BY <1>3, <2>2, <2>3, Zenon
<1>12. Good'
  BY <1>1, <1>7, Zenon DEF IInv, Good
<1> QED BY <1>5, <1>8, <1>9, <1>10, <1>11, <1>12 DEF IInv

\* Signalling the change sets that are left preserves the invariant.
LEMMA DrainInv ==
    ASSUME IInv, Drain
    PROVE  IInv'
<1>1. /\ main = "drain" /\ files # <<>> /\ files' = Tail(files) /\ w' = Signalled(Head(files))
      /\ UNCHANGED <<main, state, inProgress, stopped, threadCount, counted, told, jobs, errors>>
      /\ UNCHANGED <<gather, bulk, mod, dirs, personal, stale, created, ops, shut>>
  BY DEF Drain, job, slaves, data
<1>2. state # "RUNNING" /\ mod' \in Mods
  BY <1>1, Zenon DEF IInv, Steps, Shape
<1>3. /\ Head(files) \in Workers /\ w[Head(files)].pc = "queued"
      /\ files' \in Seq(Workers) /\ Len(files') <= Len(files)
      /\ \A i \in DOMAIN files' : w[files'[i]].pc = "queued" /\ files'[i] # Head(files)
      /\ \A i, j \in DOMAIN files' : files'[i] = files'[j] => i = j
      /\ mod.pc \in {"stream", "spin"} =>
            mod.cur # Head(files) /\ \A i \in DOMAIN files' : files'[i] # mod.cur
  BY <1>1, QueueTail
<1> QED BY <1>1, <1>2, <1>3, SignalInv

\* The end of the thread preserves the invariant: every worker has been counted.
LEMMA DrainedInv ==
    ASSUME IInv, Drained
    PROVE  IInv'
<1>1. /\ main = "drain" /\ counted = Workers /\ main' = "ended"
      /\ UNCHANGED <<state, inProgress, stopped, threadCount, errors, counted, told, jobs>>
      /\ UNCHANGED <<gather, bulk, mod, dirs, files, w, personal, stale, created, ops, shut>>
  BY Zenon DEF Drained, slaves, queues, data
<1>2. state # "RUNNING"
  BY <1>1, Zenon DEF IInv, Steps
<1>3. Shape'
  BY <1>1, Zenon DEF IInv, Shape, TypeOK, Mains
<1>4. Steps' /\ Stops' /\ Gathering' /\ Bulking' /\ DirLocks' /\ Listed' /\ Covered'
  BY <1>1, <1>2, ZenonT(30) DEF IInv, Steps, Stops, Gathering, Bulking, DirLocks, Listed, Covered
<1>5. Ops' /\ Queue'
  BY <1>1 DEF IInv, Ops, Queue
<1>6. Registration'
  <2>1. Registered = {} /\ Registered' = Registered
    BY <1>1, ZenonT(30) DEF IInv, Counting, Registered
  <2> QED BY <1>1, <2>1, Zenon DEF IInv, Registration
<1>7. Counting' /\ Good'
  BY <1>1 DEF IInv, Counting, Good
<1> QED BY <1>3, <1>4, <1>5, <1>6, <1>7 DEF IInv

-----------------------------------------------------------------------------
(* What the invariant and a step say. *)

\* What the invariant says of the properties.
LEMMA IInvImplies == IInv => GoodIsComplete /\ OpsBelongToJob
<1> SUFFICES ASSUME IInv PROVE GoodIsComplete /\ OpsBelongToJob
  OBVIOUS
<1>1. GoodIsComplete
  BY DEF IInv, Good, GoodIsComplete
<1>2. Registered # {} => main # "ended"
  BY DEF IInv, Registration
<1>3. TypeOK /\ threadCount = Cardinality(Registered)
  BY DEF IInv, Shape, Registration
<1> QED BY <1>1, <1>2, <1>3 DEF OpsBelongToJob, Registered

\* Only the mod syncer and the end of the job end the wait of a worker in the queue.
LEMMA QueuedStays ==
    ASSUME IInv, Next, ~ModStream, ~ModSpin, ~ModSpinEnds, ~Drain, NEW x \in Workers, w[x].pc = "queued"
    PROVE  w'[x].pc = "queued"
<1>1. w \in [Workers -> Slot]
  BY DEF IInv, Shape, TypeOK
<1>2. CASE MainStep
  <2>1. UNCHANGED w \/ RestartWorkers
    BY <1>2, Zenon DEF MainStep, MainBegin, MainNotify, StartGather, FlagGather, StartSync, JoinGather, JoinBulk,
                EndMod, JoinMod, Cleanup, Release, Drained
  <2> QED BY <1>1, <2>1 DEF RestartWorkers
<1>3. CASE GatherStep \/ ModStep \/ Shutdown \/ StartResync
  BY <1>3 DEF GatherStep, Crawl, GatherEnds, ModStep, ModFetch, ModFails, ModEnds, Shutdown, StartResync
<1>4. ASSUME NEW b \in BulkSlaves, BulkStep(b) PROVE w'[x].pc = "queued"
  BY <1>4, Zenon DEF BulkStep, BulkFetch, BulkLock, BulkStream, BulkRemove, BulkEnds
<1>5. ASSUME NEW y \in Workers, Begin(y) \/ WorkerStep(y) PROVE w'[x].pc = "queued"
  <2>1. w[y].pc # "queued"
    BY <1>5, Zenon DEF WorkerStep, Begin, Register, Execute, Enqueue, Finish, TakePersonal
  <2>2. x # y
    BY <2>1
  <2>3. CASE Begin(y)
    BY <1>1, <2>2, <2>3, Zenon DEF Begin
  <2>4. CASE Register(y)
    BY <1>1, <2>2, <2>4 DEF Register
  <2>5. CASE Execute(y) \/ Enqueue(y)
    BY <1>1, <2>2, <2>5 DEF Execute, Enqueue, Goto
  <2>6. CASE Finish(y) \/ TakePersonal(y)
    BY <1>1, <2>2, <2>6 DEF Finish, TakePersonal, Goto
  <2> QED BY <1>5, <2>3, <2>4, <2>5, <2>6 DEF WorkerStep
<1> QED BY <1>2, <1>3, <1>4, <1>5 DEF Next

(* Counting the operations that are registered. *)

\* The facts about finite sets.
FST == INSTANCE FiniteSetTheorems

\* Their finite sets and cardinalities are those of the specification.
LEMMA SameFinite ==
    ASSUME NEW S
    PROVE  (FST!IsFiniteSet(S) <=> IsFiniteSet(S)) /\ FST!Cardinality(S) = Cardinality(S)
<1>1. FST!IsFiniteSet(S) <=> IsFiniteSet(S)
  BY Zenon DEF FST!IsFiniteSet, IsFiniteSet
<1>2. FST!Cardinality(S) = Cardinality(S)
  BY Zenon DEF FST!Cardinality, Cardinality
<1> QED BY <1>1, <1>2

\* No operation counts zero.
LEMMA CountNone ==
    Cardinality({}) = 0
<1>1. FST!Cardinality({}) = 0
  BY FST!FS_EmptySet
<1> QED BY <1>1, SameFinite

\* The operations that are registered are finitely many.
LEMMA RegisteredIsFinite ==
    IsFiniteSet(Registered) /\ (Cardinality(Registered) = 0 => Registered = {})
<1>1. FST!IsFiniteSet(Workers)
  BY ThreadsAssumption, SameFinite
<1>2. FST!IsFiniteSet(Registered)
  BY <1>1, FST!FS_Subset DEF Registered
<1>3. FST!Cardinality(Registered) = 0 => Registered = {}
  BY <1>2, FST!FS_EmptySet
<1> QED BY <1>2, <1>3, SameFinite

\* One more operation counts one more.
LEMMA CountAdded ==
    ASSUME NEW S, IsFiniteSet(S), NEW x, x \notin S
    PROVE  Cardinality(S \cup {x}) = Cardinality(S) + 1
<1>1. FST!IsFiniteSet(S)
  BY SameFinite
<1>2. FST!Cardinality(S \cup {x}) = FST!Cardinality(S) + 1
  BY <1>1, FST!FS_AddElement
<1> QED BY <1>2, SameFinite

\* One operation less counts one less.
LEMMA CountRemoved ==
    ASSUME NEW S, IsFiniteSet(S), NEW x \in S
    PROVE  Cardinality(S \ {x}) = Cardinality(S) - 1 /\ Cardinality(S \ {x}) \in Nat
<1>1. FST!IsFiniteSet(S)
  BY SameFinite
<1>2. FST!IsFiniteSet(S \ {x}) /\ FST!Cardinality(S \ {x}) = FST!Cardinality(S) - 1
  BY <1>1, FST!FS_RemoveElement
<1>3. FST!Cardinality(S \ {x}) \in Nat
  BY <1>2, FST!FS_CardinalityType
<1> QED BY <1>2, <1>3, SameFinite

\* The initial state satisfies the invariant.
THEOREM InitInv == Init => IInv
<1> SUFFICES ASSUME Init PROVE IInv
  OBVIOUS
<1>1. Shape
  <2>1. TypeOK
    BY NothingIs, BoundsAssumption DEF Init, TypeOK
  <2>2. /\ gather \in Gathers /\ bulk \in [BulkSlaves -> Bulks] /\ mod \in Mods
        /\ personal \in [Workers -> Seq({"barrier", "count"})]
    BY NothingIs DEF Init
  <2>3. Len(dirs) <= QueueLimit + 1
    BY BoundsAssumption DEF Init
  <2>4. /\ main \in Mains /\ created \subseteq 1..NumDirs
        /\ inProgress \in BOOLEAN /\ stopped \in BOOLEAN /\ errors \in BOOLEAN
    BY Zenon DEF Init, Mains
  <2> QED BY <2>1, <2>2, <2>3, <2>4, Zenon DEF Shape
<1>2. Steps /\ Stops /\ Gathering
  BY Zenon DEF Init, Steps, Stops, Gathering, NoGather, NoMod, NoBulk
<1>3. Bulking /\ DirLocks /\ Listed
  BY Zenon DEF Init, Bulking, DirLocks, Listed, NoBulk, NoMod
<1>4. Ops /\ Covered /\ Queue
  BY DEF Init, Ops, Covered, Queue, NoOp, NoMod, Holding
<1>5. Registration
  <2>1. Registered = {}
    BY DEF Init, Registered, NoOp
  <2> QED BY <2>1, CountNone DEF Init, Registration
<1>6. Counting /\ Good
  BY DEF Init, Counting, Good
<1> QED BY <1>1, <1>2, <1>3, <1>4, <1>5, <1>6, Zenon DEF IInv

-----------------------------------------------------------------------------
\* The new job of startResync satisfies the invariant: the last one left nothing behind.
LEMMA StartResyncInv ==
    ASSUME IInv, StartResync
    PROVE  IInv'
<1>1. /\ main = "ended" /\ told # "GOOD"
      /\ main' = "begin" /\ state' = "NOTSTARTED" /\ stopped' = FALSE
      /\ threadCount' = 0 /\ errors' = FALSE /\ counted' = {}
      /\ dirs' = <<>> /\ files' = <<>>
      /\ UNCHANGED <<inProgress, told, w, personal, stale, created, ops, shut>>
  BY DEF StartResync, data
<1>2. gather' = NoGather /\ mod' = NoMod /\ bulk' = [b \in BulkSlaves |-> NoBulk]
  BY ZenonT(30) DEF StartResync
<1>3. /\ gather' \in Gathers /\ mod' \in Mods /\ bulk' \in [BulkSlaves -> Bulks]
      /\ gather'.pc = "off" /\ gather'.next = 1 /\ ~gather'.term /\ mod'.pc = "off"
      /\ \A b \in BulkSlaves : bulk'[b].pc = "off" /\ ~bulk'[b].term
  BY <1>2, NothingIs DEF NoGather, NoMod, NoBulk
<1>4. Shape'
  <2>1. Len(dirs') = 0 /\ Len(files') = 0 /\ dirs' \in Seq(1..NumDirs) /\ files' \in Seq(Workers)
    BY <1>1
  <2>2. Len(files') <= QueueLimit + 1 /\ Len(dirs') <= QueueLimit + 1 /\ Len(dirs') <= QueueLimit + 2
    BY <2>1, BoundsAssumption
  <2>3. TypeOK'
    BY <1>1, <2>1, <2>2, ZenonT(30) DEF IInv, Shape, TypeOK
  <2> QED BY <1>1, <1>3, <2>2, <2>3, Zenon DEF IInv, Shape, Mains
<1>5. Steps'
  BY <1>1, <1>3 DEF IInv, Steps
<1>6. Stops' /\ Gathering' /\ Bulking' /\ DirLocks' /\ Listed' /\ Covered' /\ Queue'
  <2>1. main' = "begin" /\ state' = "NOTSTARTED" /\ ~stopped' /\ DOMAIN files' = {}
    BY <1>1
  <2>2. Stops' /\ Gathering' /\ Listed' /\ Covered'
    BY <2>1, Zenon DEF Stops, Gathering, Listed, Covered
  <2>3. Bulking' /\ DirLocks'
    BY <2>1, <1>3, Zenon DEF Bulking, DirLocks
  <2>4. Queue'
    BY <2>1, <1>3, Zenon DEF Queue
  <2> QED BY <2>2, <2>3, <2>4
<1>7. Ops'
  BY <1>1 DEF IInv, Ops
<1>8. Registration'
  <2>1. Registered = {} /\ Registered' = Registered
    BY <1>1, Zenon DEF IInv, Registration, Registered, Steps
  <2> QED BY <1>1, <2>1, CountNone, Zenon DEF Registration
<1>9. Counting'
  BY <1>1, NoCounters, Zenon DEF IInv, Counting
<1>10. Good'
  BY <1>1, Zenon DEF Good
<1> QED BY <1>4, <1>5, <1>6, <1>7, <1>8, <1>9, <1>10, Zenon DEF IInv

\* The end of the server preserves the invariant: the job is aborted without operations.
LEMMA ShutdownInv ==
    ASSUME IInv, Shutdown
    PROVE  IInv'
<1>1. /\ main \notin {"ended", "release", "drain"} /\ threadCount = 0 /\ Abort("none")
      /\ UNCHANGED <<main, inProgress, stopped, threadCount, errors, counted, told, jobs>>
      /\ UNCHANGED <<queues, w, personal, data, ops>>
  BY DEF Shutdown
<1>2. mod' \in Mods /\ mod'.pc = mod.pc /\ mod'.cur = mod.cur
  <2>1. mod \in Mods /\ mod' = [mod EXCEPT !.term = TRUE]
    BY DEF IInv, Shape, Shutdown
  <2> QED BY <2>1, Zenon DEF Mods
<1>3. Registered = {}
  <2>1. Cardinality(Registered) = 0
    BY <1>1, Zenon DEF IInv, Registration
  <2> QED BY <2>1, RegisteredIsFinite, Zenon
<1>4. told # "GOOD" /\ errors' \in BOOLEAN
  BY <1>1 DEF IInv, Good, Shape
<1> QED BY <1>1, <1>2, <1>3, <1>4, ThreadsAssumption, AbortInv, Zenon

-----------------------------------------------------------------------------
\* Registration preserves the invariant: an operation finds the job running only between its
\* two barriers.
LEMMA RegisterInv ==
    ASSUME IInv, NEW x \in Workers, Register(x)
    PROVE  IInv'
<1>1. /\ w[x].pc = "lock"
      /\ w[x].dirLock => ~DirIsLocked(w[x].entry[1])
      /\ UNCHANGED <<main, state, inProgress, stopped, errors, counted, told, jobs>>
      /\ UNCHANGED <<gather, bulk, mod, dirs, files, personal, stale, created, ops, shut>>
  BY Zenon DEF Register, slaves, queues, data
<1>2. w \in [Workers -> Slot] /\ threadCount \in Nat
  BY DEF IInv, Shape, TypeOK
<1>3. PICK r \in BOOLEAN : r = (w[x].job /\ state = "RUNNING")
  BY <1>2, Zenon DEF Slot
<1>4. w' = [w EXCEPT ![x].pc = "execute", ![x].changeSet = r]
  BY <1>3 DEF Register
<1>5. threadCount' = IF r THEN threadCount + 1 ELSE threadCount
  BY <1>3, Zenon DEF Register
<1>6. w' \in [Workers -> Slot]
  BY <1>2, <1>4, ZenonT(30) DEF Slot, Holding
<1>7. /\ \A y \in Workers : y # x => w'[y] = w[y]
      /\ w'[x].pc = "execute" /\ w'[x].changeSet = r /\ w'[x].entry = w[x].entry
      /\ w'[x].dirLock = w[x].dirLock
  BY <1>2, <1>4 DEF Slot
<1>8. state = "RUNNING" => w'[x].changeSet /\ (w'[x].entry[2] = "new" => w'[x].dirLock)
  BY <1>1, <1>3, <1>7, Zenon DEF IInv, Ops
<1>9. DirLocks'
  BY <1>1, <1>7, ZenonT(30) DEF IInv, DirLocks, DirIsLocked, Holding
<1>10. ~w[x].changeSet
  BY <1>1, Zenon DEF IInv, Ops
<1>11. CASE r
  <2>1. state = "RUNNING" /\ main \in {"joinGather", "joinBulk", "stop2"}
    <3>1. state = "RUNNING" /\ ~AllStopped
      BY <1>1, <1>3, <1>11, Zenon DEF AllStopped
    <3>2. main \in Mains
      BY DEF IInv, Shape
    <3> QED BY <3>1, <3>2 DEF IInv, Steps, Stops, Mains
  <2>2. Registered' = Registered \cup {x} /\ x \notin Registered
    BY <1>7, <1>10, <1>11, Zenon DEF Registered
  <2>3. IsFiniteSet(Registered)
    BY RegisteredIsFinite
  <2>4. Cardinality(Registered') = Cardinality(Registered) + 1
    BY <2>2, <2>3, CountAdded, Zenon
  <2>5. threadCount' = threadCount + 1
    BY <1>5, <1>11, Zenon
  <2>6. Registration'
    BY <1>1, <2>1, <2>4, <2>5, Zenon DEF IInv, Registration
  <2>7. Counting'
    BY <1>1, <1>7, <2>1, ZenonT(30) DEF IInv, Counting
  <2>8. /\ personal' \in [Workers -> Seq({"barrier", "count"})]
        /\ counted' \subseteq Workers /\ threadCount' \in Nat
    <3>1. /\ personal' \in [Workers -> Seq({"barrier", "count"})]
          /\ counted' \subseteq Workers
      BY <1>1, ZenonT(30) DEF IInv, Shape, TypeOK
    <3>2. threadCount' \in Nat
      BY <1>2, <2>5
    <3> QED BY <3>1, <3>2, Zenon
  <2> QED BY <1>1, <1>6, <1>7, <1>8, <1>9, <2>6, <2>7, <2>8, WorkerInv, Zenon
<1>12. CASE ~r
  <2>1. Registered' = Registered
    BY <1>7, <1>10, <1>12, Zenon DEF Registered
  <2>2. threadCount' = threadCount
    BY <1>5, <1>12, Zenon
  <2>3. Registration'
    BY <1>1, <2>1, <2>2, Zenon DEF IInv, Registration
  <2>4. Counting'
    BY <1>1, <1>7, <1>12, Zenon DEF IInv, Counting
  <2>5. /\ personal' \in [Workers -> Seq({"barrier", "count"})]
        /\ counted' \subseteq Workers /\ threadCount' \in Nat
    BY <1>1, <1>2, <2>2, Zenon DEF IInv, Shape, TypeOK
  <2> QED BY <1>1, <1>6, <1>7, <1>8, <1>9, <2>3, <2>4, <2>5, WorkerInv, Zenon
<1> QED BY <1>11, <1>12

\* The end of an operation preserves the invariant.
LEMMA FinishInv ==
    ASSUME IInv, NEW x \in Workers, Finish(x)
    PROVE  IInv'
<1>1. /\ w[x].pc = "finish"
      /\ UNCHANGED <<main, state, inProgress, stopped, errors, counted, told, jobs>>
      /\ UNCHANGED <<gather, bulk, mod, dirs, files, personal, stale, created, ops, shut>>
  BY Zenon DEF Finish, slaves, queues, data
<1>2. w \in [Workers -> Slot] /\ threadCount \in Nat
  BY DEF IInv, Shape, TypeOK
<1>3. w' = [w EXCEPT ![x] = NoOp]
  BY DEF Finish
<1>4. /\ w' \in [Workers -> Slot] /\ w'[x] = NoOp
      /\ \A y \in Workers : y # x => w'[y] = w[y]
  BY <1>2, <1>3, NothingIs, Zenon
<1>5. NoOp.pc = "idle" /\ ~NoOp.changeSet
  BY Zenon DEF NoOp
<1>6. DirLocks'
  BY <1>1, <1>4, <1>5, Zenon DEF IInv, DirLocks, Holding
<1>7. Registered' = Registered \ {x}
  BY <1>4, <1>5 DEF Registered
<1>8. IsFiniteSet(Registered)
  BY RegisteredIsFinite
<1>9. Cardinality(Registered') = threadCount' /\ threadCount' \in Nat
  <2>1. Cardinality(Registered) = threadCount
    BY DEF IInv, Registration
  <2>2. CASE w[x].changeSet
    <3>1. x \in Registered /\ threadCount' = threadCount - 1
      BY <2>2 DEF Registered, Finish
    <3>2. Cardinality(Registered') = Cardinality(Registered) - 1 /\ Cardinality(Registered') \in Nat
      BY <1>7, <1>8, <3>1, CountRemoved, Zenon
    <3> QED BY <2>1, <3>1, <3>2, Zenon
  <2>3. CASE ~w[x].changeSet
    <3>1. Registered' = Registered /\ threadCount' = threadCount
      BY <2>3, <1>7, Zenon DEF Registered, Finish
    <3> QED BY <1>2, <2>1, <3>1, Zenon
  <2> QED BY <2>2, <2>3
<1>10. Registration'
  BY <1>1, <1>7, <1>9, Zenon DEF IInv, Registration
<1>11. Counting'
  BY <1>1, <1>4, <1>5, Zenon DEF IInv, Counting
<1>12. personal' \in [Workers -> Seq({"barrier", "count"})] /\ counted' \subseteq Workers
  BY <1>1, Zenon DEF IInv, Shape, TypeOK
<1> QED BY <1>1, <1>4, <1>5, <1>6, <1>9, <1>10, <1>11, <1>12, WorkerInv, Zenon DEF Holding

(* The theorems. *)

\* Every step preserves the invariant.
THEOREM NextInv == ASSUME NoHarmfulRace PROVE IInv /\ [Next]_vars => IInv'
<1> SUFFICES ASSUME IInv, [Next]_vars PROVE IInv'
  OBVIOUS
<1>1. CASE MainStep
  BY <1>1, MainBeginInv, MainNotifyInv, StartGatherInv, FlagGatherInv, StartSyncInv, JoinGatherInv,
     JoinBulkInv, EndModInv, JoinModInv, CleanupInv, ReleaseInv, DrainInv, DrainedInv, Zenon DEF MainStep
<1>2. CASE GatherStep
  BY <1>2, CrawlInv, GatherEndsInv, Zenon DEF GatherStep
<1>3. CASE ModStep
  BY <1>3, ModFetchInv, ModStreamInv, ModFailsInv, ModSpinInv, ModSpinEndsInv, ModEndsInv, Zenon DEF ModStep
<1>4. ASSUME NEW b \in BulkSlaves, BulkStep(b) PROVE IInv'
  BY <1>4, BulkFetchInv, BulkLockInv, BulkStreamInv, BulkRemoveInv, BulkEndsInv, Zenon DEF BulkStep
<1>5. ASSUME NEW x \in Workers, Begin(x) \/ WorkerStep(x) PROVE IInv'
  BY <1>5, BeginInv, RegisterInv, ExecuteInv, EnqueueInv, FinishInv, TakePersonalInv, Zenon DEF WorkerStep
<1>6. CASE UNCHANGED vars
  <2>1. /\ UNCHANGED <<main, state, inProgress, stopped, threadCount, errors, counted, told, jobs>>
        /\ UNCHANGED <<gather, bulk, mod, dirs, files, w, personal, stale, created, ops, shut>>
    BY <1>6, Zenon DEF vars, job, slaves, queues, data
  <2>2. Shape'
    BY <2>1, Zenon DEF IInv, Shape, TypeOK
  <2>3. Steps' /\ Stops' /\ Gathering'
    BY <2>1, Zenon DEF IInv, Steps, Stops, AllStopped, Gathering
  <2>4. Bulking' /\ DirLocks'
    BY <2>1, Zenon DEF IInv, Bulking, DirLocks
  <2>5. Ops' /\ Queue'
    BY <2>1, Zenon DEF IInv, Ops, Queue
  <2>6. Listed'
    BY <2>1, Zenon DEF IInv, Listed, Listing
  <2>7. Covered'
    BY <2>1, Zenon DEF IInv, Covered, Pending, Carried
  <2>8. Registration' /\ Counting' /\ Good'
    BY <2>1, Zenon DEF IInv, Registration, Registered, Counting, Good
  <2> QED BY <2>2, <2>3, <2>4, <2>5, <2>6, <2>7, <2>8, Zenon DEF IInv
<1> QED BY <1>1, <1>2, <1>3, <1>4, <1>5, <1>6, StartResyncInv, ShutdownInv, Zenon DEF Next

\* The invariant holds of every behaviour of the specification without harmful races.
THEOREM Invariance == ASSUME NoHarmfulRace PROVE Spec => []IInv
<1>1. IInv /\ [Next]_vars => IInv'
  BY NextInv
<1> QED BY <1>1, InitInv, PTL DEF Spec

\* Whenever the buddy and the management daemon have been told that the secondary is good,
\* it has every entry and the sessions (cleanup and newBuddyState).
THEOREM GoodIsCompleteHolds == ASSUME NoHarmfulRace PROVE Spec => []GoodIsComplete
<1>1. Spec => []IInv
  BY Invariance
<1> QED BY <1>1, IInvImplies, PTL

\* The operations that hold a change set are those that the job counts, and the job's thread
\* has not ended: no job is deleted under an operation (registerOps, unregisterOps, run).
THEOREM OpsBelongToJobHolds == ASSUME NoHarmfulRace PROVE Spec => []OpsBelongToJob
<1>1. Spec => []IInv
  BY Invariance
<1> QED BY <1>1, IInvImplies, PTL

\* While the job goes well, an operation is answered only after the secondary has its change:
\* the mod syncer signals a worker when it has streamed the change set, and nobody else does
\* while the job runs (streamCandidates, abort, run).
THEOREM AnsweredIsSyncedHolds == ASSUME NoHarmfulRace PROVE Spec => AnsweredIsSynced
<1> DEFINE Answered == \A x \in Workers :
                          w[x].pc = "queued" /\ w'[x].pc = "finish" /\ state' = "RUNNING"
                             => w[x].entry \notin stale'
<1>1. ASSUME IInv, Next PROVE Answered
  <2> SUFFICES ASSUME NEW x \in Workers, w[x].pc = "queued", w'[x].pc = "finish", state' = "RUNNING"
               PROVE  w[x].entry \notin stale'
    OBVIOUS
  <2>1. CASE ModStream
    <3>1. mod.cur \in Workers /\ w' = Signalled(mod.cur) /\ stale' = stale \ {w[mod.cur].entry}
      BY <1>1, <2>1, Zenon DEF ModStream, NoHarmfulRace, IInv, Queue
    <3>2. x = mod.cur
      BY <1>1, <3>1, SignalledIs, Zenon
    <3> QED BY <3>1, <3>2
  <2>2. CASE ModSpin \/ ModSpinEnds \/ Drain
    BY <1>1, <2>2, Zenon DEF ModSpin, ModSpinEnds, Drain, job, IInv, Bulking, Steps
  <2> QED BY <1>1, <2>1, <2>2, QueuedStays, Zenon
<1>2. IInv /\ [Next]_vars => [Answered]_vars
  BY <1>1
<1>3. Spec => []IInv
  BY Invariance
<1> QED BY <1>2, <1>3, PTL DEF Spec, AnsweredIsSynced

=============================================================================
