-------------------------- MODULE MirroredMessage --------------------------
(***************************************************************************)
(* Requests of one client to a metadata buddy group: the client's retry    *)
(* loop (client_module MessagingTk.c), the processing of a mirrored        *)
(* message on the primary and on the secondary (meta MirroredMessage.h),   *)
(* the cached responses of the client's session (meta Session.h), and what *)
(* crashes, restarts and failovers do to them.                             *)
(*                                                                         *)
(* An operation appends its name to the log of its key, which stands for   *)
(* the metadata of one directory entry and for the entry locks that guard  *)
(* it.  A connection carries one request at a time.  When it breaks, the   *)
(* request may live on in the server: nobody listens to its response.      *)
(***************************************************************************)
EXTENDS Naturals, Sequences, FiniteSetsExt

CONSTANTS
    Servers,        \* the two members of the group
    FirstPrimary,
    Threads,        \* threads of the client
    Keys,
    NumConns,       \* bound: requests in the servers at one time
    OpsPerThread,   \* bound: operations that a thread begins
    MaxCrashes,     \* bound: crashes of servers
    MaxBreaks,      \* bound: broken connections
    MaxShutdowns,   \* bound: clean shutdowns
    MaxAborts,      \* bound: operations that the client gives up, or that fail for another
                    \* server's communication error
    LateStart       \* a server may get to a request after its number was released

ASSUME ServersAssumption == Cardinality(Servers) = 2 /\ FirstPrimary \in Servers

VARIABLES
    next, open, done, ack,   \* the client's numbers (AckLedger)
    thread,                  \* the client's threads in the retry loop
    known,                   \* the server that the client takes for the primary
    told,                    \* results that operations returned to their callers
    work,                    \* requests in the servers, by connection
    slots,                   \* mirrorProcessState: cached responses by number
    log,                     \* metadata on disk
    sessionFile,             \* cached responses saved by a clean shutdown
    up,
    primary, good,           \* the management daemon's view
    buddyGood,               \* a server's view of its buddy: online and good
    job,                     \* a server's resync job: none yet, or the last one succeeded
    faults                   \* faults so far, by kind

ledger == <<next, open, done, ack>>
client == <<thread, known, told>>
servers == <<slots, log, sessionFile, up>>
group == <<primary, good, buddyGood, job>>
vars == <<ledger, client, work, servers, group, faults>>

Numbers == INSTANCE AckLedger

Conns == 1..NumConns
Buddy(s) == CHOOSE b \in Servers : b # s

\* A function without the keys of a set.
Without(f, S) == [x \in DOMAIN f \ S |-> f[x]]
\* A function with one key set.
With(f, x, v) == [y \in DOMAIN f \cup {x} |-> IF y = x THEN v ELSE f[y]]

NoSlots == [n \in {} |-> "empty"]
FreeConn == [st |-> "free"]
Busy(c) == work[c].st # "free"
FreeConns == {c \in Conns : ~Busy(c)}

\* The request on a connection has been started and is not finished.
Started(c) == Busy(c) /\ work[c].st # "queued"

\* lock(): a request on the primary holds the locks of its key until it is answered.
Locked(s, k) ==
    \E c \in Conns : Started(c) /\ ~work[c].second /\ work[c].srv = s /\ work[c].key = k

-----------------------------------------------------------------------------
Init ==
    /\ Numbers!Init
    /\ thread = [t \in Threads |-> [st |-> "idle", n |-> 0]]
    /\ known = FirstPrimary
    /\ told = {}
    /\ work = [c \in Conns |-> FreeConn]
    /\ slots = [s \in Servers |-> NoSlots]
    /\ log = [s \in Servers |-> [k \in Keys |-> <<>>]]
    /\ sessionFile = [s \in Servers |-> FALSE]
    /\ up = [s \in Servers |-> TRUE]
    /\ primary = FirstPrimary
    /\ good = [s \in Servers |-> TRUE]
    /\ buddyGood = [s \in Servers |-> TRUE]
    /\ job = [s \in Servers |-> "none"]
    /\ faults = [crash |-> 0, break |-> 0, shutdown |-> 0, abort |-> 0]

-----------------------------------------------------------------------------
(* The client. *)

\* A thread begins an operation on a key.
BeginOp(t, k) ==
    /\ thread[t].st = "idle"
    /\ thread[t].n < OpsPerThread
    /\ thread' = [thread EXCEPT ![t] =
                    [st |-> "ready", n |-> @.n + 1, key |-> k, seq |-> 0, sel |-> FALSE, upTo |-> 0]]
    /\ UNCHANGED <<ledger, known, told, work, servers, group, faults>>

\* The thread needs a number and the group has a base.  The flag of a selective
\* acknowledgement stays set when the same request gets a second number.
AcquireNumber(t) ==
    /\ thread[t].st = "ready"
    /\ thread[t].seq = 0
    /\ \/ \E d \in done : Numbers!BeginSelective(d)
       \/ Numbers!BeginCumulative(Min(open \cup {next + 1}) - 1)
    /\ thread' = [thread EXCEPT ![t].seq = next', ![t].upTo = ack'.upTo,
                                ![t].sel = @ \/ ack'.selective]
    /\ UNCHANGED <<known, told, work, servers, group, faults>>

\* The request goes to the server that the client takes for the primary, with
\* number 0 when no base is known.  A server that is down cannot be connected
\* to: the thread stays in the loop.
Send(t) ==
    /\ thread[t].st = "ready"
    /\ thread[t].seq # 0 \/ next = 0
    /\ up[known]
    /\ FreeConns # {}
    /\ LET c == Min(FreeConns)
       IN  /\ work' = [work EXCEPT ![c] =
                         [st |-> "queued", srv |-> known, second |-> FALSE, listener |-> t,
                          op |-> <<t, thread[t].n>>, key |-> thread[t].key, seq |-> thread[t].seq,
                          sel |-> thread[t].sel, upTo |-> thread[t].upTo,
                          res |-> "none", retried |-> FALSE]]
           /\ thread' = [thread EXCEPT ![t].st = "wait"]
    /\ UNCHANGED <<ledger, known, told, servers, group, faults>>

\* Mutant: a retry after an indirect communication error keeps its number.
ReceiveResponseMutant(t, resp) ==
    IF resp \in {"ok", "err"}
    THEN /\ told' = told \cup {[op |-> <<t, thread[t].n>>, key |-> thread[t].key, res |-> resp]}
         /\ Numbers!Finish(thread[t].seq)
         /\ thread' = [thread EXCEPT ![t] = [st |-> "idle", n |-> @.n]]
    ELSE /\ thread' = [thread EXCEPT ![t].st = "ready"]
         /\ UNCHANGED <<ledger, told>>

\* What the retry loop does with a response to thread t.
ReceiveResponse(t, resp) ==
    LET again == [thread EXCEPT ![t].st = "ready"]
    IN  CASE resp \in {"ok", "err"} ->
               /\ told' = told \cup {[op |-> <<t, thread[t].n>>, key |-> thread[t].key, res |-> resp]}
               /\ Numbers!Finish(thread[t].seq)
               /\ thread' = [thread EXCEPT ![t] = [st |-> "idle", n |-> @.n]]
          [] resp = "tryagain" ->
               /\ thread' = again
               /\ UNCHANGED <<ledger, told>>
          [] resp \in {"comm", "acknotify"} ->
               /\ Numbers!Finish(thread[t].seq)
               /\ thread' = [again EXCEPT ![t].seq = 0]
               /\ UNCHANGED told

NoClientChange == UNCHANGED <<ledger, thread, told>>

\* No retry is left, or a signal ended the wait: the number is released although
\* the request may still be in a server.
GiveUp(t) ==
    /\ thread[t].st \in {"ready", "wait"}
    /\ faults.abort < MaxAborts
    /\ faults' = [faults EXCEPT !.abort = @ + 1]
    /\ IF thread[t].seq = 0 THEN UNCHANGED ledger ELSE Numbers!Finish(thread[t].seq)
    /\ thread' = [thread EXCEPT ![t] = [st |-> "idle", n |-> @.n]]
    /\ work' = [c \in Conns |->
                  IF Busy(c) /\ work[c].listener = t THEN [work[c] EXCEPT !.listener = "nobody"]
                  ELSE work[c]]
    /\ UNCHANGED <<known, told, servers, group>>

\* The client downloads the buddy groups.
ClientSync ==
    /\ known # primary
    /\ known' = primary
    /\ UNCHANGED <<ledger, thread, told, work, servers, group, faults>>

-----------------------------------------------------------------------------
(* The needs-resync mark and the reply to the listener of a request. *)

\* Mutant: the mark does not reach the management daemon.
MarkBuddyMutant(s) == UNCHANGED good

\* BuddyCommTk::setBuddyNeedsResync, with a reachable management daemon: only the
\* primary may mark its buddy.
MarkBuddy(s) ==
    good' = IF primary = s THEN [good EXCEPT ![Buddy(s)] = FALSE] ELSE good

\* The request on connection c is over; its client, if still there, gets resp.
AnswerClient(c, resp) ==
    /\ work' = [work EXCEPT ![c] = FreeConn]
    /\ IF work[c].listener = "nobody" THEN NoClientChange
       ELSE ReceiveResponse(work[c].listener, resp)

\* Mutant: the result of the secondary is ignored.
AnswerPrimaryMutant(d, resp) ==
    /\ work' = IF work[d].parent = 0 THEN [work EXCEPT ![d] = FreeConn]
               ELSE [work EXCEPT ![d] = FreeConn, ![work[d].parent].st = "settled"]
    /\ UNCHANGED good

\* The forwarded request on connection d is over; the primary's request that
\* waits for it, if any, goes on.  Anything but the expected result marks the
\* secondary.
AnswerPrimary(d, resp) ==
    LET p == work[d].parent
    IN  IF p = 0
        THEN /\ work' = [work EXCEPT ![d] = FreeConn]
             /\ UNCHANGED good
        ELSE /\ work' = [work EXCEPT ![d] = FreeConn, ![p].st = "settled"]
             /\ IF resp = work[d].expect THEN UNCHANGED good ELSE MarkBuddy(work[p].srv)

-----------------------------------------------------------------------------
(* A request in a server. *)

\* Mutant: an acknowledgement also drops the slot that follows.
UnacknowledgedMutant(c) ==
    LET f == slots[work[c].srv]
    IN  Without(f, {n \in DOMAIN f : IF work[c].sel THEN n = work[c].upTo ELSE n <= work[c].upTo + 1})

\* acquireMirrorStateSlot and acquireMirrorStateSlotSelective: the cached
\* responses that the request acknowledges are dropped.
Unacknowledged(c) ==
    LET f == slots[work[c].srv]
    IN  Without(f, {n \in DOMAIN f : IF work[c].sel THEN n = work[c].upTo ELSE n <= work[c].upTo})

\* Nobody waits for the request and its number is free again.
Late(c) ==
    /\ work[c].seq # 0 /\ work[c].seq \notin open
    /\ IF work[c].second THEN work[c].parent = 0 ELSE work[c].listener = "nobody"

\* A worker takes the request: on the primary it waits for the locks of the key.
CanStart(c) ==
    /\ work[c].st = "queued"
    /\ up[work[c].srv]
    /\ work[c].second \/ ~Locked(work[c].srv, work[c].key)
    /\ LateStart \/ ~Late(c)

\* A request with number 0 is answered with the number to start from.
TellSeqNoBase(c) ==
    /\ CanStart(c)
    /\ work[c].seq = 0
    /\ LET f == slots[work[c].srv]
           base == IF DOMAIN f = {} THEN 1 ELSE Max(DOMAIN f) + 1
           t == work[c].listener
       IN  IF t = "nobody" THEN NoClientChange
           ELSE /\ IF next < base THEN Numbers!Rebase(base) ELSE UNCHANGED ledger
                /\ thread' = [thread EXCEPT ![t].st = "ready"]
                /\ UNCHANGED told
    /\ work' = [work EXCEPT ![c] = FreeConn]
    /\ UNCHANGED <<known, servers, group, faults>>

\* The number is new to this server: the request gets an empty slot.
StartNew(c) ==
    /\ CanStart(c)
    /\ work[c].seq # 0
    /\ work[c].seq \notin DOMAIN Unacknowledged(c)
    /\ slots' = [slots EXCEPT ![work[c].srv] = With(Unacknowledged(c), work[c].seq, "empty")]
    /\ work' = [work EXCEPT ![c].st = "slot"]
    /\ UNCHANGED <<ledger, client, log, sessionFile, up, group, faults>>

\* The number is known: the cached response is sent again, or the sender is told
\* to try again while the first request is being processed.
StartKnown(c) ==
    /\ CanStart(c)
    /\ work[c].seq \in DOMAIN Unacknowledged(c)
    /\ slots' = [slots EXCEPT ![work[c].srv] = Unacknowledged(c)]
    /\ LET cached == Unacknowledged(c)[work[c].seq]
           resp == IF cached = "empty" THEN "tryagain" ELSE cached
       IN  IF work[c].second
           THEN AnswerPrimary(c, resp) /\ NoClientChange
           ELSE AnswerClient(c, resp) /\ UNCHANGED good
    /\ UNCHANGED <<known, log, sessionFile, up, primary, buddyGood, job, faults>>

\* executeLocally: only an operation that succeeds changes metadata.
ExecuteLocally(c, r) ==
    log' = IF r = "ok" THEN [log EXCEPT ![work[c].srv][work[c].key] = Append(@, work[c].op)] ELSE log

\* The primary executes the operation; "comm" is INDIRECTCOMMERR.
Execute(c, r) ==
    /\ work[c].st = "slot"
    /\ ~work[c].second
    /\ r = "comm" => faults.abort < MaxAborts
    /\ ExecuteLocally(c, r)
    /\ work' = [work EXCEPT ![c].st = "executed", ![c].res = r]
    /\ faults' = IF r = "comm" THEN [faults EXCEPT !.abort = @ + 1] ELSE faults
    /\ UNCHANGED <<ledger, client, slots, sessionFile, up, group>>

\* sendToSecondary: nothing is sent while a resync runs ...
SkipDuringResync(c) ==
    /\ work[c].st = "executed"
    /\ job[work[c].srv] = "running"
    /\ work' = [work EXCEPT ![c].st = "settled"]
    /\ UNCHANGED <<ledger, client, servers, group, faults>>

\* ... and nothing to a buddy that is not online and good, unless the last resync
\* succeeded.
SecondaryViable(s) == buddyGood[s] \/ job[s] = "success"

\* The request has come to the point where it is sent to the secondary, or sent
\* once more because the connection broke.
MustSend(c) ==
    \/ work[c].st = "executed" /\ job[work[c].srv] # "running" /\ SecondaryViable(work[c].srv)
    \/ work[c].st = "resend"

\* A buddy that is not viable or cannot be reached is marked.
SkipSecondary(c) ==
    /\ \/ work[c].st = "executed" /\ job[work[c].srv] # "running" /\ ~SecondaryViable(work[c].srv)
       \/ MustSend(c) /\ ~up[Buddy(work[c].srv)]
    /\ work' = [work EXCEPT ![c].st = "settled"]
    /\ MarkBuddy(work[c].srv)
    /\ UNCHANGED <<ledger, client, servers, primary, buddyGood, job, faults>>

\* forwardToSecondary after a success, notifySecondaryOfACK after an error: the
\* number and the acknowledgement of the request go along.
SendToSecondary(c) ==
    /\ MustSend(c)
    /\ up[Buddy(work[c].srv)]
    /\ FreeConns # {}
    /\ LET d == Min(FreeConns)
           m == work[c]
       IN  work' = [work EXCEPT
                      ![d] = [st |-> "queued", srv |-> Buddy(m.srv), second |-> TRUE, parent |-> c,
                              listener |-> "nobody", op |-> m.op, key |-> m.key, seq |-> m.seq,
                              sel |-> m.sel, upTo |-> m.upTo,
                              expect |-> IF m.res = "ok" THEN "ok" ELSE "acknotify"],
                      ![c].st = "sent"]
    /\ UNCHANGED <<ledger, client, servers, group, faults>>

\* The secondary executes a forwarded operation, without locks and with a result of
\* its own, or takes note of an acknowledgement.  It caches its response.
ExecuteSecond(d, r) ==
    /\ work[d].st = "slot"
    /\ work[d].second
    /\ r \in IF work[d].expect = "ok" THEN {"ok", "err"} ELSE {"acknotify"}
    /\ ExecuteLocally(d, r)
    /\ slots' = IF work[d].seq \in DOMAIN slots[work[d].srv]
                THEN [slots EXCEPT ![work[d].srv][work[d].seq] = r] ELSE slots
    /\ AnswerPrimary(d, r)
    /\ UNCHANGED <<ledger, client, sessionFile, up, primary, buddyGood, job, faults>>

\* finishOperation on the primary: the response is cached if the slot still exists,
\* the client is answered and the locks are released.
FinishOperation(c) ==
    /\ work[c].st = "settled"
    /\ slots' = IF work[c].seq \in DOMAIN slots[work[c].srv]
                THEN [slots EXCEPT ![work[c].srv][work[c].seq] = work[c].res] ELSE slots
    /\ AnswerClient(c, work[c].res)
    /\ UNCHANGED <<known, log, sessionFile, up, group, faults>>

-----------------------------------------------------------------------------
(* Faults of the network and of the servers. *)

\* The sender of the request on connection c loses it.  A client's thread and, once,
\* a primary send the request again.
LoseSender(c) ==
    IF work[c].second
    THEN LET p == work[c].parent
         IN  /\ work[c].parent # 0
             /\ IF work[p].retried THEN MarkBuddy(work[p].srv) ELSE UNCHANGED good
             /\ UNCHANGED thread
    ELSE /\ work[c].listener # "nobody"
         /\ thread' = [thread EXCEPT ![work[c].listener].st = "ready"]
         /\ UNCHANGED good

\* The connection of a request breaks.  The request goes on in the server, or is lost
\* if it was not read from the connection yet.
Break(c, lost) ==
    /\ Busy(c)
    /\ faults.break < MaxBreaks
    /\ lost => work[c].st = "queued"
    /\ LoseSender(c)
    /\ work' = [d \in Conns |->
                  IF d = c
                  THEN IF lost THEN FreeConn
                       ELSE IF work[c].second THEN [work[c] EXCEPT !.parent = 0]
                       ELSE [work[c] EXCEPT !.listener = "nobody"]
                  ELSE IF work[c].second /\ d = work[c].parent
                  THEN IF work[d].retried THEN [work[d] EXCEPT !.st = "settled"]
                       ELSE [work[d] EXCEPT !.st = "resend", !.retried = TRUE]
                  ELSE work[d]]
    /\ faults' = [faults EXCEPT !.break = @ + 1]
    /\ UNCHANGED <<ledger, known, told, servers, primary, buddyGood, job>>

\* A request that nobody waits for and whose number is free is never started.
DropLate(c) ==
    /\ work[c].st = "queued"
    /\ ~LateStart
    /\ Late(c)
    /\ work' = [work EXCEPT ![c] = FreeConn]
    /\ UNCHANGED <<ledger, client, servers, group, faults>>

\* All requests in server s vanish: clients retry, the primary finds its buddy
\* unreachable, and nobody waits for the requests it had sent to the buddy.
LeaveNetwork(s) ==
    LET gone == {c \in Conns : Busy(c) /\ work[c].srv = s}
    IN  /\ up' = [up EXCEPT ![s] = FALSE]
        /\ work' = [c \in Conns |->
                      IF c \in gone THEN FreeConn
                      ELSE IF ~Busy(c) THEN work[c]
                      ELSE IF work[c].second /\ work[c].parent \in gone
                      THEN [work[c] EXCEPT !.parent = 0]
                      ELSE IF work[c].st = "sent" /\ \E d \in gone : work[d].second /\ work[d].parent = c
                      THEN [work[c] EXCEPT !.st = "resend", !.retried = TRUE]
                      ELSE work[c]]
        /\ thread' = [t \in Threads |->
                        IF \E c \in gone : work[c].listener = t
                        THEN [thread[t] EXCEPT !.st = "ready"] ELSE thread[t]]

\* A server crashes and loses its sessions.  A resync of its data, or one that it
\* runs, ends.  The primary crashes only while its buddy can take over.
Crash(s) ==
    /\ up[s]
    /\ faults.crash < MaxCrashes
    /\ s = primary => up[Buddy(s)] /\ good[Buddy(s)]
    /\ LeaveNetwork(s)
    /\ slots' = [slots EXCEPT ![s] = NoSlots]
    /\ job' = [job EXCEPT ![s] = "none", ![Buddy(s)] = IF @ = "running" THEN "failed" ELSE @]
    /\ faults' = [faults EXCEPT !.crash = @ + 1]
    /\ UNCHANGED <<ledger, known, told, log, sessionFile, primary, good, buddyGood>>

\* A clean shutdown ends when the workers are idle, and saves the sessions.
Shutdown(s) ==
    /\ up[s]
    /\ faults.shutdown < MaxShutdowns
    /\ \A c \in Conns : Started(c) => work[c].srv # s
    /\ \A b \in Servers : job[b] # "running"
    /\ LeaveNetwork(s)
    /\ sessionFile' = [sessionFile EXCEPT ![s] = TRUE]
    /\ job' = [job EXCEPT ![s] = "none"]
    /\ faults' = [faults EXCEPT !.shutdown = @ + 1]
    /\ UNCHANGED <<ledger, known, told, slots, log, primary, good, buddyGood>>

\* A server starts.  Without a session file it needs a resync, so a crashed primary
\* waits until it has been replaced and the client knows.
Restart(s) ==
    /\ ~up[s]
    /\ s = primary => sessionFile[s]
    /\ s # primary => known # s
    /\ up' = [up EXCEPT ![s] = TRUE]
    /\ good' = IF sessionFile[s] THEN good ELSE [good EXCEPT ![s] = FALSE]
    /\ sessionFile' = [sessionFile EXCEPT ![s] = FALSE]
    /\ buddyGood' = [buddyGood EXCEPT ![s] = up[Buddy(s)] /\ good[Buddy(s)]]
    /\ UNCHANGED <<ledger, client, work, slots, log, primary, job, faults>>

-----------------------------------------------------------------------------
(* The management daemon, the state updates of the servers and resyncs. *)

\* No forwarded request is left in a server.
NoForwarded == \A c \in Conns : Busy(c) => ~work[c].second

\* The management daemon replaces a primary that is down by its good buddy; the
\* buddy learns of it with the next state update.  Within the offline timeout the
\* buddy has worked off what the primary had sent it.
Failover ==
    /\ ~up[primary]
    /\ up[Buddy(primary)]
    /\ good[Buddy(primary)]
    /\ NoForwarded
    /\ primary' = Buddy(primary)
    /\ good' = [good EXCEPT ![primary] = FALSE]
    /\ buddyGood' = [buddyGood EXCEPT ![Buddy(primary)] = FALSE]
    /\ UNCHANGED <<ledger, client, work, servers, job, faults>>

\* updateMetaStatesAndBuddyGroups: a server downloads its buddy's state.
DownloadStates(s) ==
    /\ up[s]
    /\ buddyGood[s] # (up[Buddy(s)] /\ good[Buddy(s)])
    /\ buddyGood' = [buddyGood EXCEPT ![s] = ~@]
    /\ UNCHANGED <<ledger, client, work, servers, primary, good, job, faults>>

\* Neither buddy has a request under way: the workers stand at the barrier.
WorkersStopped == \A c \in Conns : ~Started(c)

\* checkBuddyNeedsResync starts a resync; the buddy works off the messages that it
\* had received and forgets its sessions.  The state that is checked is taken to be
\* current; BuddyGroupState has the race that makes it stale.
StartResync(s) ==
    /\ up[s] /\ primary = s
    /\ ~buddyGood[s]
    /\ up[Buddy(s)]
    /\ ~good[Buddy(s)]
    /\ job[s] # "running"
    /\ WorkersStopped
    /\ NoForwarded
    /\ slots' = [slots EXCEPT ![Buddy(s)] = NoSlots]
    /\ job' = [job EXCEPT ![s] = "running"]
    /\ UNCHANGED <<ledger, client, work, log, sessionFile, up, primary, good, buddyGood, faults>>

\* Mutant: the resync ends without the sessions.
FinishResyncMutant(s) ==
    /\ job[s] = "running"
    /\ WorkersStopped
    /\ log' = [log EXCEPT ![Buddy(s)] = log[s]]
    /\ good' = [good EXCEPT ![Buddy(s)] = TRUE]
    /\ job' = [job EXCEPT ![s] = "success"]
    /\ UNCHANGED <<ledger, client, work, slots, sessionFile, up, primary, buddyGood, faults>>

\* The resync has copied all metadata and, with the workers stopped, the sessions.
FinishResync(s) ==
    /\ job[s] = "running"
    /\ WorkersStopped
    /\ log' = [log EXCEPT ![Buddy(s)] = log[s]]
    /\ slots' = [slots EXCEPT ![Buddy(s)] = slots[s]]
    /\ good' = [good EXCEPT ![Buddy(s)] = TRUE]
    /\ job' = [job EXCEPT ![s] = "success"]
    /\ UNCHANGED <<ledger, client, work, sessionFile, up, primary, buddyGood, faults>>

-----------------------------------------------------------------------------
ClientStep(t) ==
    \/ \E k \in Keys : BeginOp(t, k)
    \/ AcquireNumber(t)
    \/ Send(t)
    \/ GiveUp(t)

ServerStep(c) ==
    \/ TellSeqNoBase(c)
    \/ StartNew(c)
    \/ StartKnown(c)
    \/ \E r \in {"ok", "err", "comm"} : Execute(c, r)
    \/ SkipDuringResync(c)
    \/ SkipSecondary(c)
    \/ SendToSecondary(c)
    \/ \E r \in {"ok", "err", "acknotify"} : ExecuteSecond(c, r)
    \/ FinishOperation(c)
    \/ DropLate(c)

GroupStep(s) ==
    \/ Restart(s)
    \/ DownloadStates(s)
    \/ StartResync(s)
    \/ FinishResync(s)

Fault ==
    \/ \E c \in Conns, lost \in BOOLEAN : Break(c, lost)
    \/ \E s \in Servers : Crash(s) \/ Shutdown(s)

Next ==
    \/ \E t \in Threads : ClientStep(t)
    \/ ClientSync
    \/ \E c \in Conns : ServerStep(c)
    \/ \E s \in Servers : GroupStep(s)
    \/ Failover
    \/ Fault

Spec == Init /\ [][Next]_vars

\* Threads, workers, timers and the management daemon go on; faults, and giving up, need
\* not happen.
Fairness ==
    /\ \A t \in Threads : WF_vars(AcquireNumber(t)) /\ WF_vars(Send(t))
    /\ WF_vars(ClientSync)
    /\ \A c \in Conns : WF_vars(ServerStep(c))
    /\ \A s \in Servers : WF_vars(GroupStep(s))
    /\ WF_vars(Failover)

FairSpec == Spec /\ Fairness

-----------------------------------------------------------------------------
(* Properties. *)

\* Type invariant.  A thread waits exactly while one request has it as listener, and
\* a request on the primary waits for the secondary exactly while one forwarded
\* request has it as parent.
TypeOK ==
    /\ next \in Nat /\ open \subseteq 1..next /\ done \subseteq 1..next
    /\ \A t \in Threads :
          /\ thread[t].st \in {"idle", "ready", "wait"}
          /\ thread[t].n \in 0..OpsPerThread
          /\ thread[t].st = "wait" <=> \E c \in Conns : Busy(c) /\ work[c].listener = t
    /\ \A c \in Conns : Busy(c) =>
          /\ work[c].st \in {"queued", "slot", "executed", "sent", "resend", "settled"}
          /\ work[c].st = "sent" <=>
                \E d \in Conns : Busy(d) /\ work[d].second /\ work[d].parent = c
    /\ known \in Servers /\ primary \in Servers
    /\ \A s \in Servers :
          /\ DOMAIN slots[s] \subseteq 1..next
          /\ \A n \in DOMAIN slots[s] : slots[s][n] \in {"empty", "ok", "err", "comm", "acknotify"}
          /\ job[s] \in {"none", "running", "success", "failed"}
    /\ good \in [Servers -> BOOLEAN] /\ buddyGood \in [Servers -> BOOLEAN]
    /\ up \in [Servers -> BOOLEAN] /\ sessionFile \in [Servers -> BOOLEAN]

\* How often an operation is in the metadata of its key on server s.
Times(s, k, op) == Cardinality({i \in DOMAIN log[s][k] : log[s][k][i] = op})

\* No operation is applied twice, however often its request is retried, on whichever
\* buddy: the cached responses of processIncoming make retries harmless.  Requests,
\* slots and threads are what TypeOK says of them throughout.
AppliedOnce ==
    /\ TypeOK
    /\ \A s \in Servers : (s = primary \/ good[s]) =>
          \A k \in Keys, t \in Threads, n \in 1..OpsPerThread : Times(s, k, <<t, n>>) <= 1

\* What the client was told of an operation is true of the metadata of the primary, also
\* after the secondary took over: one that succeeded is there, one that failed is not.
OutcomeIsTrue ==
    \A r \in told : /\ r.res = "ok" => Times(primary, r.key, r.op) > 0
                    /\ r.res = "err" => Times(primary, r.key, r.op) = 0

\* While no request holds the locks of a key, a good secondary has the primary's
\* metadata for it: finishOperation unlocks only after sendToSecondary.
ReplicasAgree ==
    \A s \in Servers : primary # s /\ good[s] /\ up[primary] =>
        \A k \in Keys : Locked(primary, k) \/ log[s][k] = log[primary][k]

\* A good secondary can answer every open request that the primary has answered: when
\* it takes over, a retry of a successful operation finds a response.
RetriesSurviveFailover ==
    \A s \in Servers : primary # s /\ good[s] /\ up[s] /\ up[primary] =>
        \A n \in DOMAIN slots[primary] \cap open :
            slots[primary][n] = "ok" => n \in DOMAIN slots[s] /\ slots[s][n] \in {"ok", "empty"}

\* Every operation returns to its caller: no retry is answered "try again" or with an
\* indirect communication error for ever, and no request waits for ever for a lock or
\* for the secondary.
OperationsEnd ==
    \A t \in Threads : thread[t].st # "idle" ~> thread[t].st = "idle"
=============================================================================
