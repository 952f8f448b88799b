-------------------------- MODULE BuddyGroupState --------------------------
(***************************************************************************)
(* How the two servers of a metadata buddy group and the management daemon *)
(* keep track of which server has all metadata: the needs-resync file of   *)
(* the primary and its messages (meta BuddyCommTk.cpp), the periodic state *)
(* update of every server (meta InternodeSyncer.cpp), the reports at the   *)
(* end of a resync (meta BuddyResyncJob.cpp), and restarts (meta App.cpp). *)
(*                                                                         *)
(* The management daemon is external.  It stores the states that it is     *)
(* sent, compares before it swaps when asked to, refuses states from a     *)
(* server that is not the primary, and replaces a primary that it cannot   *)
(* reach by a reachable good buddy.                                        *)
(***************************************************************************)
EXTENDS Naturals, FiniteSets

CONSTANTS
    Servers,
    FirstPrimary,
    MaxCrashes,     \* bound: crashes of servers
    MaxCuts,        \* bound: connections and messages that are lost
    MaxMisses,      \* bound: operations that the secondary misses
    Races           \* the failures and races beyond those that the code is prepared for

ASSUME ServersAssumption ==
    IsFiniteSet(Servers) /\ Cardinality(Servers) = 2 /\ FirstPrimary \in Servers
ASSUME BoundsAssumption == MaxCrashes \in Nat /\ MaxCuts \in Nat /\ MaxMisses \in Nat
ASSUME RacesAssumption == Races \subseteq
    {"failed job",    \* a resync ends with errors
     "stale check",   \* a resync ends between the download of states and the check of the buddy
     "late note",     \* a resync starts while a message of the needs-resync file is undelivered
     "half report"}   \* the primary crashes when only the management daemon knows of a resync

VARIABLES
    primary, cons,   \* the management daemon: primary and consistency states
    up, link,        \* servers that run; servers that reach the management daemon
    file, timer,     \* the needs-resync file; its message is to be sent again
    map, view,       \* a server's idea of the primary and of its buddy's state
    local, syncer,   \* its own consistency state; the state update under way
    job, result,     \* its resync job: the step it is at; its result
    stale,           \* the server misses operations that the primary has
    crashes, cuts, misses

mgmtd == <<primary, cons>>
network == <<up, link>>
counters == <<crashes, cuts, misses>>
note == <<file, timer>>
own == <<map, view, local, syncer>>
resync == <<job, result>>
vars == <<mgmtd, network, note, own, resync, stale, counters>>

Buddy(s) == CHOOSE b \in Servers : b # s

Consistency == {"GOOD", "NEEDS_RESYNC", "BAD"}
Note(required, unacked) == [required |-> required, unacked |-> unacked]
Idle == [pc |-> "idle", old |-> "GOOD", new |-> "GOOD"]

Init ==
    /\ primary = FirstPrimary
    /\ cons = [s \in Servers |-> "GOOD"]
    /\ up = [s \in Servers |-> TRUE]
    /\ link = [s \in Servers |-> TRUE]
    /\ file = [s \in Servers |-> Note(FALSE, FALSE)]
    /\ timer = [s \in Servers |-> FALSE]
    /\ map = [s \in Servers |-> FirstPrimary]
    /\ view = [s \in Servers |-> "GOOD"]
    /\ local = [s \in Servers |-> "GOOD"]
    /\ syncer = [s \in Servers |-> Idle]
    /\ job = [s \in Servers |-> "none"]
    /\ result = [s \in Servers |-> "none"]
    /\ stale = [s \in Servers |-> FALSE]
    /\ crashes = 0 /\ cuts = 0 /\ misses = 0

-----------------------------------------------------------------------------
(* The needs-resync file of a primary. *)

\* setBuddyNeedsResyncComm with the file's contents n, which are not acknowledged: the
\* message arrives and is answered, arrives without its answer coming back, or is lost.
SendNote(s, n) ==
    IF map[s] # s
    THEN /\ file' = [file EXCEPT ![s] = Note(FALSE, FALSE)]
         /\ timer' = [timer EXCEPT ![s] = FALSE]
         /\ UNCHANGED <<cons, cuts>>
    ELSE \/ /\ link[s] /\ primary = s
            /\ cons' = [cons EXCEPT ![Buddy(s)] = IF n.required THEN "NEEDS_RESYNC" ELSE "GOOD"]
            /\ \/ /\ file' = [file EXCEPT ![s] = Note(n.required, FALSE)]
                  /\ timer' = [timer EXCEPT ![s] = FALSE]
                  /\ UNCHANGED cuts
               \/ /\ cuts < MaxCuts
                  /\ cuts' = cuts + 1
                  /\ file' = [file EXCEPT ![s] = n]
                  /\ timer' = [timer EXCEPT ![s] = TRUE]
         \/ /\ link[s] /\ primary # s
            /\ file' = [file EXCEPT ![s] = Note(FALSE, FALSE)]
            /\ timer' = [timer EXCEPT ![s] = FALSE]
            /\ UNCHANGED <<cons, cuts>>
         \/ /\ ~link[s]
            /\ file' = [file EXCEPT ![s] = n]
            /\ timer' = [timer EXCEPT ![s] = TRUE]
            /\ UNCHANGED <<cons, cuts>>

\* Mutant: nothing replaces a message that has yet to be delivered.
SetBuddyNeedsResyncMutant(s, needed) ==
    IF file[s].unacked
    THEN UNCHANGED <<note, cons, cuts>>
    ELSE SendNote(s, Note(needed, TRUE))

\* setBuddyNeedsResync: a needs-resync that is in the file already is not repeated.
SetBuddyNeedsResync(s, needed) ==
    IF needed /\ file[s].required
    THEN UNCHANGED <<note, cons, cuts>>
    ELSE SendNote(s, Note(needed, TRUE))

\* retrySetBuddyNeedsResyncComm
RetryNote(s) ==
    /\ up[s]
    /\ timer[s]
    /\ link[s] \/ map[s] # s
    /\ IF file[s].unacked THEN SendNote(s, file[s])
       ELSE timer' = [timer EXCEPT ![s] = FALSE] /\ UNCHANGED <<file, cons, cuts>>
    /\ UNCHANGED <<primary, network, own, resync, stale, crashes, misses>>

\* The primary executes an operation that does not reach its buddy, and marks the buddy.
\* While a resync is in progress it leaves that to the resync; no operation is executed
\* while a successful resync makes its reports, because the workers are stopped.
MissOperation(s) ==
    /\ up[s] /\ primary = s /\ map[s] = s
    /\ misses < MaxMisses
    /\ misses' = misses + 1
    /\ stale' = [stale EXCEPT ![Buddy(s)] = TRUE]
    /\ \/ job[s] # "none" /\ result[s] # "success" /\ UNCHANGED <<note, cons, cuts>>
       \/ job[s] = "none" /\ SetBuddyNeedsResync(s, TRUE)
    /\ UNCHANGED <<primary, network, own, resync, crashes>>

-----------------------------------------------------------------------------
(* The periodic state update. *)

\* Mutant: the server knows better than the management daemon.
DecideResyncMutant(s) == local[s]

\* decideResync: bad stays bad, and only the buddy can end a needs-resync.
DecideResync(s) ==
    IF local[s] = "BAD" THEN "BAD"
    ELSE IF local[s] = "NEEDS_RESYNC" \/ cons[s] # "GOOD" THEN "NEEDS_RESYNC"
    ELSE "GOOD"

\* States and groups are downloaded.  The daemon may not have noticed yet that the buddy
\* cannot be reached.
DownloadStates(s) ==
    /\ up[s] /\ link[s]
    /\ syncer[s].pc = "idle"
    /\ \E v \in {cons[Buddy(s)]} \cup
             IF up[Buddy(s)] /\ link[Buddy(s)] THEN {} ELSE {"POFFLINE"} :
          view' = [view EXCEPT ![s] = v]
    /\ map' = [map EXCEPT ![s] = primary]
    /\ syncer' = [syncer EXCEPT ![s] = [pc |-> "publish", old |-> cons[s], new |-> DecideResync(s)]]
    /\ UNCHANGED <<mgmtd, network, note, local, resync, stale, counters>>

\* The download fails: all states become "probably offline".
DownloadFails(s) ==
    /\ up[s] /\ ~link[s]
    /\ syncer[s].pc \in {"idle", "publish"}
    /\ view' = [view EXCEPT ![s] = "POFFLINE"]
    /\ syncer' = [syncer EXCEPT ![s].pc = IF @ = "idle" THEN "idle" ELSE "set"]
    /\ UNCHANGED <<mgmtd, network, note, map, local, resync, stale, counters>>

\* Mutant: the primary resyncs its buddy only if it has marked it itself.
ResyncStartsMutant(s) ==
    /\ map[s] = s
    /\ local[s] = "GOOD"
    /\ view[s] = "NEEDS_RESYNC"
    /\ file[s] = Note(TRUE, FALSE)
    /\ job[s] = "none"
    /\ up[Buddy(s)]

\* checkBuddyNeedsResync: the primary starts a resync of a buddy that it sees online and
\* in need of one.  A job whose buddy is down ends before it has changed anything.
ResyncStarts(s) ==
    /\ map[s] = s
    /\ local[s] = "GOOD"
    /\ view[s] = "NEEDS_RESYNC"
    /\ cons[Buddy(s)] = "NEEDS_RESYNC" \/ "stale check" \in Races
    /\ ~file[s].unacked \/ "late note" \in Races
    /\ job[s] = "none"
    /\ up[Buddy(s)]

\* publishNodeStateChange succeeds if the daemon still has the old state ...
PublishState(s) ==
    /\ up[s] /\ link[s]
    /\ syncer[s].pc = "publish"
    /\ cons[s] = syncer[s].old
    /\ cons' = [cons EXCEPT ![s] = syncer[s].new]
    /\ syncer' = [syncer EXCEPT ![s].pc = "set"]
    /\ IF ResyncStarts(s)
       THEN /\ job' = [job EXCEPT ![s] = "running"]
            /\ result' = [result EXCEPT ![s] = "none"]
       ELSE UNCHANGED resync
    /\ UNCHANGED <<primary, network, note, map, view, local, stale, counters>>

\* ... and otherwise starts over, at most ten times.
PublishFails(s) ==
    /\ up[s] /\ link[s]
    /\ syncer[s].pc = "publish"
    /\ cons[s] # syncer[s].old
    /\ \E pc \in {"idle", "set"} : syncer' = [syncer EXCEPT ![s].pc = pc]
    /\ UNCHANGED <<mgmtd, network, note, map, view, local, resync, stale, counters>>

\* setNodeConsistencyState at the end of the update.
SetState(s) ==
    /\ up[s]
    /\ syncer[s].pc = "set"
    /\ local' = [local EXCEPT ![s] = syncer[s].new]
    /\ syncer' = [syncer EXCEPT ![s] = Idle]
    /\ UNCHANGED <<mgmtd, network, note, map, view, resync, stale, counters>>

-----------------------------------------------------------------------------
(* The end of a resync job. *)

\* The buddy has everything, or the job has met errors, as it does if the buddy crashes.
JobEnds(s, r) ==
    /\ job[s] = "running"
    /\ r = "success" => up[Buddy(s)]
    /\ r = "errors" => "failed job" \in Races
    /\ stale' = IF r = "success" THEN [stale EXCEPT ![Buddy(s)] = FALSE] ELSE stale
    /\ result' = [result EXCEPT ![s] = r]
    /\ job' = [job EXCEPT ![s] = "clear"]
    /\ UNCHANGED <<mgmtd, network, note, own, counters>>

\* The job cannot notify its buddy or start its threads; it ends without a report.
JobFails(s) ==
    /\ job[s] = "running"
    /\ cuts < MaxCuts
    /\ cuts' = cuts + 1
    /\ result' = [result EXCEPT ![s] = "failure"]
    /\ job' = [job EXCEPT ![s] = "none"]
    /\ UNCHANGED <<mgmtd, network, note, own, stale, crashes, misses>>

\* The needs-resync file is reset, whatever the result.
JobClearsNote(s) ==
    /\ job[s] = "clear"
    /\ SetBuddyNeedsResync(s, FALSE)
    /\ job' = [job EXCEPT ![s] = "buddy"]
    /\ UNCHANGED <<primary, network, own, result, stale, crashes, misses>>

NewBuddyState(s) == IF result[s] = "success" THEN "GOOD" ELSE "BAD"

\* informBuddy
JobInformsBuddy(s) ==
    /\ job[s] = "buddy"
    /\ local' = IF up[Buddy(s)] THEN [local EXCEPT ![Buddy(s)] = NewBuddyState(s)] ELSE local
    /\ job' = [job EXCEPT ![s] = "mgmtd"]
    /\ UNCHANGED <<mgmtd, network, note, map, view, syncer, result, stale, counters>>

\* informMgmtd; a message that does not arrive is not repeated.
JobInformsMgmtd(s) ==
    /\ job[s] = "mgmtd"
    /\ cons' = IF link[s] /\ primary = s THEN [cons EXCEPT ![Buddy(s)] = NewBuddyState(s)] ELSE cons
    /\ job' = [job EXCEPT ![s] = "none"]
    /\ UNCHANGED <<primary, network, note, own, result, stale, counters>>

-----------------------------------------------------------------------------
(* Faults and the management daemon. *)

\* The server's own state is good and no state update is about to overwrite it.
KnowsItIsGood(s) == local[s] = "GOOD" /\ syncer[s].new = "GOOD"

\* A crash.  The primary crashes only while its buddy can take over.
Crash(s) ==
    /\ up[s]
    /\ crashes < MaxCrashes
    /\ s = primary => up[Buddy(s)] /\ cons[Buddy(s)] = "GOOD"
    /\ s = primary => KnowsItIsGood(Buddy(s)) \/ "half report" \in Races
    /\ job[Buddy(s)] # "none" => "failed job" \in Races
    /\ up' = [up EXCEPT ![s] = FALSE]
    /\ timer' = [timer EXCEPT ![s] = FALSE]
    /\ syncer' = [syncer EXCEPT ![s] = Idle]
    /\ job' = [job EXCEPT ![s] = "none"]
    /\ result' = [result EXCEPT ![s] = "none"]
    /\ crashes' = crashes + 1
    /\ UNCHANGED <<mgmtd, link, file, map, view, local, stale, cuts, misses>>

\* The server starts without a session file, so it needs a resync; a crashed primary does
\* not report until it has been replaced (offlineWait).  An undelivered message of the
\* needs-resync file is sent again.
Restart(s) ==
    /\ ~up[s] /\ link[s]
    /\ s # primary
    /\ up' = [up EXCEPT ![s] = TRUE]
    /\ local' = [local EXCEPT ![s] = "NEEDS_RESYNC"]
    /\ map' = [map EXCEPT ![s] = primary]
    /\ view' = [view EXCEPT ![s] = cons[Buddy(s)]]
    /\ timer' = [timer EXCEPT ![s] = file[s].unacked]
    /\ UNCHANGED <<mgmtd, link, file, syncer, resync, stale, counters>>

Cut(s) ==
    /\ link[s]
    /\ cuts < MaxCuts
    /\ link' = [link EXCEPT ![s] = FALSE]
    /\ cuts' = cuts + 1
    /\ UNCHANGED <<mgmtd, up, note, own, resync, stale, crashes, misses>>

Mend(s) ==
    /\ ~link[s]
    /\ link' = [link EXCEPT ![s] = TRUE]
    /\ UNCHANGED <<mgmtd, up, note, own, resync, stale, counters>>

\* The management daemon replaces the primary, and the old one has to be resynced.  That
\* takes minutes; the timer of a secondary has dropped its message by then.
Failover ==
    /\ ~timer[Buddy(primary)]
    /\ ~up[primary]
    /\ up[Buddy(primary)] /\ link[Buddy(primary)]
    /\ cons[Buddy(primary)] = "GOOD"
    /\ primary' = Buddy(primary)
    /\ cons' = [cons EXCEPT ![primary] = "NEEDS_RESYNC"]
    /\ stale' = [stale EXCEPT ![primary] = TRUE]
    /\ UNCHANGED <<network, note, own, resync, counters>>

-----------------------------------------------------------------------------
SyncerStep(s) ==
    \/ DownloadStates(s)
    \/ DownloadFails(s)
    \/ PublishState(s)
    \/ PublishFails(s)
    \/ SetState(s)

JobStep(s) ==
    \/ \E r \in {"success", "errors"} : JobEnds(s, r)
    \/ JobFails(s)
    \/ JobClearsNote(s)
    \/ JobInformsBuddy(s)
    \/ JobInformsMgmtd(s)

Next ==
    \/ \E s \in Servers : RetryNote(s) \/ SyncerStep(s) \/ JobStep(s)
    \/ \E s \in Servers : MissOperation(s)
    \/ \E s \in Servers : Crash(s) \/ Restart(s) \/ Cut(s) \/ Mend(s)
    \/ Failover

Spec == Init /\ [][Next]_vars

\* The timers, syncers and jobs of running servers make progress, crashed servers are
\* started again, connections come back, and the management daemon does its work.
FairSpec ==
    /\ Spec
    /\ \A s \in Servers :
          /\ WF_vars(RetryNote(s)) /\ WF_vars(SyncerStep(s)) /\ WF_vars(JobStep(s))
          /\ WF_vars(Restart(s)) /\ WF_vars(Mend(s))
    /\ WF_vars(Failover)

-----------------------------------------------------------------------------
(* Properties. *)

\* Every variable is of its type.
TypeOK ==
    /\ primary \in Servers
    /\ cons \in [Servers -> Consistency]
    /\ up \in [Servers -> BOOLEAN] /\ link \in [Servers -> BOOLEAN]
    /\ file \in [Servers -> [required : BOOLEAN, unacked : BOOLEAN]]
    /\ timer \in [Servers -> BOOLEAN]
    /\ map \in [Servers -> Servers]
    /\ view \in [Servers -> Consistency \cup {"POFFLINE"}]
    /\ local \in [Servers -> Consistency]
    /\ syncer \in [Servers -> [pc : {"idle", "publish", "set"}, old : Consistency, new : Consistency]]
    /\ job \in [Servers -> {"none", "running", "clear", "buddy", "mgmtd"}]
    /\ result \in [Servers -> {"none", "success", "errors", "failure"}]
    /\ stale \in [Servers -> BOOLEAN]
    /\ crashes \in 0..MaxCrashes /\ cuts \in 0..MaxCuts /\ misses \in 0..MaxMisses

\* A secondary that misses operations is not good for the management daemon, or the
\* primary's needs-resync file holds a mark that has yet to be delivered.
\* All variables are of their types throughout.
StaleIsKnown ==
    /\ TypeOK
    /\ stale[Buddy(primary)] =>
          cons[Buddy(primary)] # "GOOD" \/ file[primary] = Note(TRUE, TRUE)

\* While a resync runs, its target is not good for the management daemon.
ResyncTargetIsBad ==
    \A s \in Servers : job[s] = "running" /\ primary = s => cons[Buddy(s)] # "GOOD"

\* A secondary that misses operations is brought up to date, through lost messages,
\* a crash and a change of the primary.
StaleIsResynced == [](crashes <= 1) => []<>~stale[Buddy(primary)]
=============================================================================
