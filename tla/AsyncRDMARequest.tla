-------------------------- MODULE AsyncRDMARequest --------------------------
(***************************************************************************)
(* The asynchronous reads and writes of one storage I/O worker              *)
(* (AsyncRDMARequest, IOWorkerAsyncContext, the SEND_CQ events of Worker and *)
(* the send completion queue of IBVSocket).                                 *)
(*                                                                         *)
(* A read alternates between disk I/O and an RDMA write to the client's      *)
(* memory, a write between an RDMA read and disk I/O, one chunk at a time.   *)
(* The worker is one thread; the disk and the network adapter complete what  *)
(* was submitted whenever they like, also between two calls of the thread to *)
(* the verbs library.  A request object lives in a slot of a fixed pool and  *)
(* is reused.  The completion queue belongs to the socket and outlives the   *)
(* request; it holds completions of the responses' sends as well, and the    *)
(* adapter completes work requests in the order they were posted.            *)
(***************************************************************************)
EXTENDS Naturals, FiniteSets

CONSTANTS
    Slots,          \* DEFAULT_ASYNC_REQUEST_SLOTS request objects
    Socks,
    MaxRequests,    \* bound on the requests started
    MaxChunks,      \* bound on the chunks of a request
    MaxShorts,      \* bound on the short writes
    Faults          \* what may fail, of "setup", "disk", "rdma", "send"

ASSUME BoundsAssumption == MaxRequests \in Nat /\ MaxChunks \in Nat /\ MaxShorts \in Nat

VARIABLES
    slot,       \* [Slots -> [phase, op, left (chunks), sock, id]]
    aio,        \* disk I/O in flight, a set of [slot, id]
    aioDone,    \* disk I/O completed, a set of [slot, id, res]
    cq,         \* [Socks -> [armed, event (in the channel), send, rdma, broken]]
    pc,         \* what the thread is doing: [at, slot, found]
    used,       \* ids given to requests so far
    answered,   \* [1 .. MaxRequests -> IOWorkerResponses of the request]
    shorts,
    raced,      \* ids of requests whose completion event was thrown away (history)
    torn        \* ids of requests that ended with disk I/O in flight (history)

vars == <<slot, aio, aioDone, cq, pc, used, answered, shorts, raced, torn>>

Free == [phase |-> "FREE", op |-> "read", left |-> 0, sock |-> 0, id |-> 0]
NewCQ == [armed |-> FALSE, event |-> FALSE, send |-> "none", rdma |-> "none", broken |-> FALSE]
Idle == [at |-> "idle", slot |-> 0, found |-> FALSE]

Init ==
    /\ slot = [r \in Slots |-> Free]
    /\ aio = {} /\ aioDone = {}
    /\ cq = [s \in Socks |-> NewCQ]
    /\ pc = Idle
    /\ used = 0
    /\ answered = [i \in 1 .. MaxRequests |-> 0]
    /\ shorts = 0
    /\ raced = {} /\ torn = {}

Active == {r \in Slots : slot[r].phase # "FREE"}
InUse == {slot[r].sock : r \in Active}
Key(r) == [slot |-> r, id |-> slot[r].id]

-----------------------------------------------------------------------------
(* The end of a request                                                      *)

\* Mutant: a response that cannot be sent still gives the socket back, after
\* invalidating it.
FinishTwiceMutant(r) ==
    LET s == slot[r].sock IN
    /\ slot' = [slot EXCEPT ![r] = Free]
    /\ answered' = [answered EXCEPT ![slot[r].id] = @ + IF cq[s].broken THEN 2 ELSE 1]
    /\ cq' = [cq EXCEPT ![s] = IF @.broken THEN NewCQ ELSE [@ EXCEPT !.send = "posted"]]
    /\ pc' = Idle
    /\ torn' = IF slot[r].phase = "AIO_PENDING" /\ pc # Idle THEN torn \cup {slot[r].id} ELSE torn
    /\ UNCHANGED <<used, shorts, raced>>

\* finish*: the response is sent and the socket goes back to the listener, or the
\* send fails and the socket is closed; either way the worker's response ring gets
\* one entry.  completeRequest then takes the request from the list of active ones
\* and releases the object and its buffer.
Finish(r) ==
    LET s == slot[r].sock IN
    /\ slot' = [slot EXCEPT ![r] = Free]
    /\ answered' = [answered EXCEPT ![slot[r].id] = @ + 1]
    /\ cq' = [cq EXCEPT ![s] = IF @.broken THEN NewCQ ELSE [@ EXCEPT !.send = "posted"]]
    /\ pc' = Idle
    /\ torn' = IF slot[r].phase = "AIO_PENDING" /\ pc # Idle THEN torn \cup {slot[r].id} ELSE torn
    /\ UNCHANGED <<used, shorts, raced>>

\* AsyncIOBackend::submitRead and submitWrite; an error ends the request.
SubmitAIO(r, left) ==
    \/ /\ aio' = aio \cup {Key(r)}
       /\ slot' = [slot EXCEPT ![r].phase = "AIO_PENDING", ![r].left = left]
       /\ pc' = Idle
       /\ UNCHANGED <<cq, used, answered, shorts, raced, torn>>
    \/ "disk" \in Faults /\ Finish(r) /\ UNCHANGED aio

-----------------------------------------------------------------------------
(* The start: IncomingPreprocessedMsgWork::startAsyncIO, addRequest, start    *)

\* A request that cannot be set up or has no bytes is answered at once.
StartDone(s) ==
    /\ pc = Idle /\ used < MaxRequests /\ s \notin InUse
    /\ Active # Slots /\ "setup" \in Faults
    /\ used' = used + 1
    /\ answered' = [answered EXCEPT ![used + 1] = @ + 1]
    /\ cq' = [cq EXCEPT ![s] = IF @.broken THEN NewCQ ELSE [@ EXCEPT !.send = "posted"]]
    /\ UNCHANGED <<slot, aio, aioDone, pc, shorts, raced, torn>>

Start(s, r, op, n) ==
    /\ pc = Idle /\ used < MaxRequests /\ s \notin InUse
    /\ slot[r].phase = "FREE"
    /\ used' = used + 1
    /\ LET new == [phase |-> "INIT", op |-> op, left |-> n, sock |-> s, id |-> used + 1] IN
       IF op = "read"
       THEN /\ slot' = [slot EXCEPT ![r] = [new EXCEPT !.phase = "AIO_PENDING"]]
            /\ aio' = aio \cup {[slot |-> r, id |-> used + 1]}
            /\ UNCHANGED pc
       ELSE /\ slot' = [slot EXCEPT ![r] = new]
            /\ pc' = [at |-> "post", slot |-> r, found |-> FALSE]
            /\ UNCHANGED aio
    /\ UNCHANGED <<aioDone, cq, answered, shorts, raced, torn>>

-----------------------------------------------------------------------------
(* Disk completions: reapCompletions and onLocalIOComplete                   *)

\* The kernel.  "short" is a read that meets the end of the file, a write that wrote
\* less.
DiskCompletes(k) ==
    /\ k \in aio
    /\ aio' = aio \ {k}
    /\ \E res \in {"ok"} \cup (IF "disk" \in Faults THEN {"error"} ELSE {})
               \cup (IF shorts < MaxShorts THEN {"short"} ELSE {}) :
        /\ aioDone' = aioDone \cup {[slot |-> k.slot, id |-> k.id, res |-> res]}
        /\ shorts' = IF res = "short" THEN shorts + 1 ELSE shorts
    /\ UNCHANGED <<slot, cq, pc, used, answered, raced, torn>>

ToPost(r, left) ==
    /\ slot' = [slot EXCEPT ![r].phase = "INIT", ![r].left = left]
    /\ pc' = [at |-> "post", slot |-> r, found |-> FALSE]
    /\ UNCHANGED <<aio, cq, used, answered, shorts, raced, torn>>

\* The completion of a request that is gone finds a destroyed object, or another
\* request in its place; what follows is not modelled (see InFlightIsOwned).
Reap(e) ==
    LET r == e.slot  read == slot[r].op = "read"  n == slot[r].left IN
    /\ pc = Idle /\ e \in aioDone
    /\ slot[r].phase = "AIO_PENDING" /\ slot[r].id = e.id
    /\ aioDone' = aioDone \ {e}
    /\ \/ e.res # "ok" /\ Finish(r) /\ UNCHANGED aio     \* an error, or no bytes
       \/ e.res # "error" /\ read /\ ToPost(r, IF e.res = "short" THEN 1 ELSE n)
       \/ e.res = "short" /\ ~read /\ SubmitAIO(r, n)
       \/ e.res = "ok" /\ ~read /\ n = 1 /\ Finish(r) /\ UNCHANGED aio
       \/ e.res = "ok" /\ ~read /\ n > 1 /\ ToPost(r, n - 1)

-----------------------------------------------------------------------------
(* RDMA: __IBVSocket_postRDMAAsync and IBVSocket_consumeSendCompletion,       *)
(* one step for each call to the verbs library                               *)

\* ibv_req_notify_cq and ibv_post_send; on failure finishCommunicationError.
Post ==
    LET r == pc.slot  s == slot[r].sock IN
    /\ pc.at = "post"
    /\ \/ /\ cq' = [cq EXCEPT ![s].armed = TRUE, ![s].rdma = "posted"]
          /\ pc' = [pc EXCEPT !.at = "poll"]
          /\ UNCHANGED <<slot, used, answered, shorts, raced, torn>>
       \/ cq[s].broken /\ Finish(r)
    /\ UNCHANGED <<aio, aioDone>>

\* The adapter completes the work request that was posted first.  A completion on an
\* armed queue puts one event into the channel.
Completes(s, send, rdma, bad) ==
    /\ cq' = [cq EXCEPT ![s] = [armed |-> FALSE, event |-> @.event \/ @.armed,
                                send |-> send, rdma |-> rdma, broken |-> bad]]
    /\ UNCHANGED <<slot, aio, aioDone, pc, used, answered, shorts, raced, torn>>

SendCompletes(s) ==
    /\ cq[s].send = "posted"
    /\ \/ ~cq[s].broken /\ Completes(s, "ok", cq[s].rdma, FALSE)
       \/ (cq[s].broken \/ "send" \in Faults) /\ Completes(s, "error", cq[s].rdma, TRUE)

RDMACompletes(s) ==
    /\ cq[s].rdma = "posted" /\ cq[s].send # "posted"
    /\ \/ ~cq[s].broken /\ Completes(s, cq[s].send, "ok", FALSE)
       \/ (cq[s].broken \/ "rdma" \in Faults) /\ Completes(s, cq[s].send, "error", TRUE)

\* onSendCQComplete: the events are drained; in an RDMA phase the queue is armed again
\* before it is polled.
\* Mutant: the queue is not armed again.
SendCQEventMutant(r) ==
    LET s == slot[r].sock IN
    /\ pc = Idle /\ r \in Active /\ cq[s].event
    /\ cq' = [cq EXCEPT ![s].event = FALSE]
    /\ pc' = [at |-> "poll", slot |-> r, found |-> FALSE]
    /\ UNCHANGED <<slot, aio, aioDone, used, answered, shorts, raced, torn>>

SendCQEvent(r) ==
    LET s == slot[r].sock IN
    /\ pc = Idle /\ r \in Active /\ cq[s].event
    /\ cq' = [cq EXCEPT ![s].event = FALSE, ![s].armed = @ \/ slot[r].phase = "RDMA_PENDING"]
    /\ pc' = [at |-> "poll", slot |-> r, found |-> FALSE]
    /\ UNCHANGED <<slot, aio, aioDone, used, answered, shorts, raced, torn>>

\* __IBVSocket_pollSendCompletion empties the queue; an error in it is a communication
\* error, which ends the request in whatever phase it is.
Poll ==
    LET r == pc.slot  s == slot[r].sock  q == cq[s] IN
    /\ pc.at = "poll"
    /\ IF "error" \in {q.send, q.rdma}
       THEN Finish(r)
       ELSE /\ cq' = [cq EXCEPT ![s].send = IF @ = "ok" THEN "none" ELSE @,
                                ![s].rdma = IF @ = "ok" THEN "none" ELSE @]
            /\ pc' = IF slot[r].phase = "AIO_PENDING" THEN Idle
                     ELSE [pc EXCEPT !.at = "drain", !.found = q.rdma = "ok"]
            /\ UNCHANGED <<slot, used, answered, shorts, raced, torn>>
    /\ UNCHANGED <<aio, aioDone>>

\* __IBVSocket_drainSendCompletionEvents after the poll: whatever events came are
\* acknowledged.  Then completePendingRDMA, if the completion was found.
DrainEvents ==
    LET r == pc.slot  s == slot[r].sock IN
    /\ pc.at = "drain" /\ cq[s].event
    /\ cq' = [cq EXCEPT ![s].event = FALSE]
    /\ raced' = IF pc.found THEN raced ELSE raced \cup {slot[r].id}
    /\ UNCHANGED <<slot, aio, aioDone, pc, used, answered, shorts, torn>>

\* Mutant: the next chunk of a write is fetched before this one is on disk.
RDMADoneMutant ==
    LET r == pc.slot  n == slot[r].left IN
    /\ pc.at = "drain" /\ ~cq[slot[r].sock].event
    /\ IF ~pc.found
       THEN /\ slot' = [slot EXCEPT ![r].phase = "RDMA_PENDING"]
            /\ pc' = Idle
            /\ UNCHANGED <<aio, cq, used, answered, shorts, raced, torn>>
       ELSE IF slot[r].op = "write"
            THEN /\ aio' = aio \cup {Key(r)}
                 /\ slot' = [slot EXCEPT ![r].phase = "INIT"]
                 /\ pc' = [at |-> "post", slot |-> r, found |-> FALSE]
                 /\ UNCHANGED <<cq, used, answered, shorts, raced, torn>>
            ELSE IF n = 1 THEN Finish(r) /\ UNCHANGED aio ELSE SubmitAIO(r, n - 1)
    /\ UNCHANGED aioDone

RDMADone ==
    LET r == pc.slot  n == slot[r].left IN
    /\ pc.at = "drain" /\ ~cq[slot[r].sock].event
    /\ IF ~pc.found
       THEN /\ slot' = [slot EXCEPT ![r].phase = "RDMA_PENDING"]
            /\ pc' = Idle
            /\ UNCHANGED <<aio, cq, used, answered, shorts, raced, torn>>
       ELSE IF slot[r].op = "write" THEN SubmitAIO(r, n)
            ELSE IF n = 1 THEN Finish(r) /\ UNCHANGED aio ELSE SubmitAIO(r, n - 1)
    /\ UNCHANGED aioDone

-----------------------------------------------------------------------------

Thread ==
    \/ Post \/ Poll \/ DrainEvents \/ RDMADone
    \/ \E e \in aioDone : Reap(e)
    \/ \E r \in Slots : SendCQEvent(r)

Adapter(s) == SendCompletes(s) \/ RDMACompletes(s)

Next ==
    \/ \E s \in Socks : \/ StartDone(s) \/ Adapter(s)
                        \/ \E r \in Slots, op \in {"read", "write"}, n \in 1 .. MaxChunks :
                            Start(s, r, op, n)
    \/ \E k \in aio : DiskCompletes(k)
    \/ Thread

Spec == Init /\ [][Next]_vars

\* The thread runs; the disk and the adapters complete what was submitted.
FairSpec ==
    /\ Spec
    /\ WF_vars(Thread)
    /\ WF_vars(\E k \in aio : DiskCompletes(k))
    /\ \A s \in Socks : WF_vars(Adapter(s))

-----------------------------------------------------------------------------
(* Properties                                                                *)

\* Every variable is of its type; a socket has one request at a time.
TypeOK ==
    /\ \A r \in Slots : /\ slot[r].phase \in {"FREE", "INIT", "AIO_PENDING", "RDMA_PENDING"}
                        /\ slot[r].op \in {"read", "write"}
                        /\ slot[r].left \in 0 .. MaxChunks
                        /\ slot[r].phase = "INIT" => pc.slot = r
    /\ \A q, r \in Active : slot[q].sock = slot[r].sock => q = r
    /\ \A s \in Socks : /\ cq[s].send \in {"none", "posted", "ok", "error"}
                        /\ cq[s].rdma \in {"none", "posted", "ok", "error"}
    /\ pc.at \in {"idle", "post", "poll", "drain"}
    /\ used \in 0 .. MaxRequests

\* The worker creates exactly one IOWorkerResponse for every request, when it ends:
\* the listener's load does not drift and the socket is not given back twice.
AnsweredOnce ==
    \A i \in 1 .. MaxRequests :
        answered[i] = IF i <= used /\ ~\E r \in Active : slot[r].id = i THEN 1 ELSE 0

\* The disk completes into a request that still waits for it: neither the request
\* object nor its buffer is released, or reused, while I/O is in flight.  The one
\* exception in the code is a communication error met while the disk is busy.  Slots and
\* queues are what TypeOK says of them throughout.
InFlightIsOwned ==
    /\ TypeOK
    /\ \A k \in aio \cup {[slot |-> e.slot, id |-> e.id] : e \in aioDone} :
        \/ slot[k.slot].phase = "AIO_PENDING" /\ slot[k.slot].id = k.id
        \/ k.id \in torn

\* Every request ends, except one whose call threw away the event that the armed queue
\* had given, although its poll had not seen the completion.
EveryRequestEnds ==
    \A r \in Slots : r \in Active ~> (r \notin Active \/ slot[r].id \in raced)
=============================================================================
