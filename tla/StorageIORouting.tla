-------------------------- MODULE StorageIORouting --------------------------
(***************************************************************************)
(* How a storage server's stream listener hands requests to its I/O workers *)
(* and gets the sockets back (StorageIOWorkerRouter, StreamListenerV2 with   *)
(* StorageStreamListenerV2, RteRingQueue, the I/O part of Worker).           *)
(*                                                                         *)
(* Every worker has a request ring and a response ring, each with one       *)
(* producer, one consumer and an eventfd; no lock is shared.  The workers of *)
(* a target are split among the listeners, so the model has one listener,    *)
(* any of them, and its group of workers.  A request is represented by the socket it came in  *)
(* on: the listener does not look at a socket again before the worker gave   *)
(* it back.                                                                 *)
(***************************************************************************)
EXTENDS Naturals, Sequences, FiniteSets

CONSTANTS
    Socks,          \* the listener's connections
    NumListeners, NumWorkers,   \* of a target
    RingSize,       \* DEFAULT_RING_CAPACITY
    Slots,          \* DEFAULT_ASYNC_REQUEST_SLOTS
    MaxRequests     \* bound on the requests the clients send

\* The constructor of StorageIOWorkerRouter throws otherwise.
ASSUME CountsAssumption ==
    NumListeners \in Nat \ {0} /\ NumWorkers \in Nat /\ NumListeners <= NumWorkers
ASSUME BoundsAssumption ==
    RingSize \in Nat /\ Slots \in Nat /\ MaxRequests \in Nat /\ IsFiniteSet(Socks)

Listeners == 0 .. NumListeners - 1
Workers == 0 .. NumWorkers - 1
NoWorker == NumWorkers

VARIABLES
    pos,        \* [Socks -> "idle" (armed, nothing to read) | "data" (armed, readable)
                \*           | "event" (in the batch) | "taken" | "gone"]
    listener,   \* [index, pc, batch (events to handle), cur (responses dequeued),
                \*  from (their worker)]
    notifyContexts,
    load,       \* [Workers -> the listener's count of the worker's requests]
    req, reqFD,   \* request rings and whether their eventfd is readable
    resp, respFD, \* response rings (of [sock, how]) and eventfds
    pc,         \* [Workers -> "epoll" | "work" | "reap"]
    notify,     \* [Workers -> a response is enqueued, its eventfd not written yet]
    works,      \* [Workers -> the works dequeued, outWorks]
    active,     \* [Workers -> asynchronous requests under way]
    aioDone,    \* [Workers -> those whose I/O is complete but not reaped]
    sent        \* requests sent so far

vars == <<pos, listener, notifyContexts, load, req, reqFD, resp, respFD, pc, notify,
          works, active, aioDone, sent>>
listenerVars == <<pos, listener, notifyContexts, load, sent>>
workerVars == <<pc, notify, works, active, aioDone>>

-----------------------------------------------------------------------------
(* The group of a listener: the workers begin .. end - 1.                    *)

Base == NumWorkers \div NumListeners
Rem == NumWorkers % NumListeners

Begin(l) == l * Base + (IF l < Rem THEN l ELSE Rem)
Size(l) == Base + (IF l < Rem THEN 1 ELSE 0)

getGroupRange(l) == Begin(l) .. Begin(l) + Size(l) - 1

\* The listener that registers a worker's response ring.
getListenerIndexForWorker(w) ==
    CHOOSE l \in Listeners : w \in getGroupRange(l) /\ \A k \in 0 .. l - 1 : w \notin getGroupRange(k)

Group == getGroupRange(listener.index)

-----------------------------------------------------------------------------
Init ==
    /\ pos = [s \in Socks |-> "idle"]
    /\ \E l \in Listeners :
        listener = [index |-> l, pc |-> "wait", batch |-> {}, cur |-> <<>>, from |-> NoWorker]
    /\ notifyContexts = {}
    /\ load = [w \in Workers |-> 0]
    /\ req = [w \in Workers |-> <<>>] /\ reqFD = [w \in Workers |-> FALSE]
    /\ resp = [w \in Workers |-> <<>>] /\ respFD = [w \in Workers |-> FALSE]
    /\ pc = [w \in Workers |-> "work"]
    /\ notify = [w \in Workers |-> FALSE]
    /\ works = [w \in Workers |-> <<>>]
    /\ active = [w \in Workers |-> {}]
    /\ aioDone = [w \in Workers |-> {}]
    /\ sent = 0

-----------------------------------------------------------------------------
(* The client                                                                *)

Arrive(s) ==
    /\ pos[s] = "idle" /\ sent < MaxRequests
    /\ pos' = [pos EXCEPT ![s] = "data"]
    /\ sent' = sent + 1
    /\ UNCHANGED <<listener, notifyContexts, load, req, reqFD, resp, respFD, workerVars>>

-----------------------------------------------------------------------------
(* The listener                                                              *)

\* StorageIOWorkerRouter::submit: the first of the least loaded workers.
\* Mutant: the loads are not compared.
BestMutant(l) == CHOOSE w \in Group : \A v \in Group : w <= v
Best(l) == CHOOSE w \in Group : \A v \in Group : l[w] < l[v] \/ (l[w] = l[v] /\ w <= v)

\* onIncomingData with the loads l: the header is received and the work enqueued.
\* enqueueWait spins while the ring is full: the step is not taken before there is
\* room.
Incoming(s, l) ==
    /\ Len(req[Best(l)]) < RingSize
    /\ req' = [req EXCEPT ![Best(l)] = Append(@, s)]
    /\ load' = [l EXCEPT ![Best(l)] = @ + 1]
    /\ notifyContexts' = notifyContexts \cup {Best(l)}
    /\ pos' = [pos EXCEPT ![s] = "taken"]

\* epoll_wait.  Sockets are armed for one event, eventfds stay in the set.
ReadySocks == {s \in Socks : pos[s] = "data"}
ReadyFDs == {w \in Group : respFD[w]}

EpollWait ==
    /\ listener.pc = "wait" /\ ReadySocks \cup ReadyFDs # {}
    /\ listener' = [listener EXCEPT !.pc = "handle", !.batch = ReadyFDs]
    /\ pos' = [s \in Socks |-> IF s \in ReadySocks THEN "event" ELSE pos[s]]
    /\ UNCHANGED <<notifyContexts, load, req, reqFD, resp, respFD, sent, workerVars>>

HandleSock(s) ==
    /\ listener.pc = "handle" /\ pos[s] = "event"
    /\ Incoming(s, load)
    /\ UNCHANGED <<listener, reqFD, resp, respFD, sent, workerVars>>

\* onIOWorkerResponse: the eventfd is read before the ring.
HandleFD(w) ==
    /\ listener.pc = "handle" /\ w \in listener.batch
    /\ respFD' = [respFD EXCEPT ![w] = FALSE]
    /\ listener' = [listener EXCEPT !.pc = "burst", !.batch = @ \ {w}, !.from = w]
    /\ UNCHANGED <<pos, notifyContexts, load, req, reqFD, resp, sent, workerVars>>

\* Mutant: one response for each time the eventfd is readable.
DequeueBurstMutant ==
    /\ listener.pc = "burst" /\ listener.cur = <<>>
    /\ listener' = [listener EXCEPT !.pc = "handle", !.cur = SubSeq(resp[listener.from], 1, 1)]
    /\ resp' = [resp EXCEPT ![listener.from] = SubSeq(@, 2, Len(@))]
    /\ UNCHANGED <<pos, notifyContexts, load, req, reqFD, respFD, sent, workerVars>>

DequeueBurst ==
    /\ listener.pc = "burst" /\ listener.cur = <<>>
    /\ IF resp[listener.from] = <<>>
       THEN /\ listener' = [listener EXCEPT !.pc = "handle", !.from = NoWorker]
            /\ UNCHANGED resp
       ELSE /\ listener' = [listener EXCEPT !.cur = resp[listener.from]]
            /\ resp' = [resp EXCEPT ![listener.from] = <<>>]
    /\ UNCHANGED <<pos, notifyContexts, load, req, reqFD, respFD, sent, workerVars>>

\* handleIOWorkerResponse: the load is counted down first; then the socket is
\* armed again, or its next request is read at once.
Completed(w) == [load EXCEPT ![w] = IF @ > 0 THEN @ - 1 ELSE @]

\* Mutant: a response without a socket does not count.
HandleResponseMutant ==
    LET r == Head(listener.cur)  w == listener.from IN
    /\ listener.cur # <<>>
    /\ listener' = [listener EXCEPT !.cur = Tail(@)]
    /\ CASE r.how = "none" -> UNCHANGED <<pos, load, req, notifyContexts>>
         [] r.how = "data" -> Incoming(r.sock, Completed(w))
         [] r.how = "rearm" -> /\ load' = Completed(w)
                               /\ pos' = [pos EXCEPT ![r.sock] = "idle"]
                               /\ UNCHANGED <<req, notifyContexts>>
    /\ UNCHANGED <<reqFD, resp, respFD, sent, workerVars>>

HandleResponse ==
    LET r == Head(listener.cur)  w == listener.from IN
    /\ listener.cur # <<>>
    /\ listener' = [listener EXCEPT !.cur = Tail(@)]
    /\ \/ /\ r.how = "none"
          /\ load' = Completed(w)
          /\ UNCHANGED <<pos, req, notifyContexts>>
       \/ /\ r.how = "data"
          /\ Incoming(r.sock, Completed(w))
       \/ /\ r.how = "rearm"
          /\ load' = Completed(w)
          /\ pos' = [pos EXCEPT ![r.sock] = "idle"]
          /\ UNCHANGED <<req, notifyContexts>>
    /\ UNCHANGED <<reqFD, resp, respFD, sent, workerVars>>

\* onIncomingData when the header cannot be received: the connection is closed.
ConnFails(s) ==
    /\ pos' = [pos EXCEPT ![s] = "gone"]
    /\ \/ /\ listener.pc = "handle" /\ pos[s] = "event"
          /\ UNCHANGED <<listener, load>>
       \/ /\ listener.cur # <<>> /\ Head(listener.cur) = [sock |-> s, how |-> "data"]
          /\ listener' = [listener EXCEPT !.cur = Tail(@)]
          /\ load' = Completed(listener.from)
    /\ UNCHANGED <<notifyContexts, req, reqFD, resp, respFD, sent, workerVars>>

\* flushIncomingWorkNotifications, after the last event of the batch.
Flush ==
    /\ listener.pc = "handle" /\ listener.batch = {} /\ \A s \in Socks : pos[s] # "event"
    /\ reqFD' = [w \in Workers |-> reqFD[w] \/ w \in notifyContexts]
    /\ notifyContexts' = {}
    /\ listener' = [listener EXCEPT !.pc = "wait"]
    /\ UNCHANGED <<pos, load, req, resp, respFD, sent, workerVars>>

Listener ==
    \/ EpollWait \/ DequeueBurst \/ HandleResponse \/ Flush
    \/ \E s \in Socks : HandleSock(s)
    \/ \E w \in Group : HandleFD(w)

-----------------------------------------------------------------------------
(* The workers                                                               *)

Available(w) == Slots - Cardinality(active[w] \cup aioDone[w])

\* All works are started, or all completions reaped.
Through(w) ==
    /\ ~notify[w]
    /\ (pc[w] = "work" /\ works[w] = <<>>) \/ (pc[w] = "reap" /\ aioDone[w] = {})

\* waitForIOWorks up to its epoll_wait: as many works as there are slots are
\* dequeued.  (What follows the epoll_wait does the same and is then repeated at
\* the top of the loop, so the model has it once.)
Drain(w) ==
    LET n == IF Available(w) < Len(req[w]) THEN Available(w) ELSE Len(req[w]) IN
    /\ Through(w)
    /\ works' = [works EXCEPT ![w] = SubSeq(req[w], 1, n)]
    /\ req' = [req EXCEPT ![w] = SubSeq(@, n + 1, Len(@))]
    /\ pc' = [pc EXCEPT ![w] = IF n = 0 THEN "epoll" ELSE "work"]
    /\ UNCHANGED <<listenerVars, reqFD, resp, respFD, notify, active, aioDone>>

\* epoll_wait returns; completions are reaped if there are any.
Wake(w) ==
    /\ pc[w] = "epoll" /\ (reqFD[w] \/ aioDone[w] # {})
    /\ reqFD' = [reqFD EXCEPT ![w] = FALSE]
    /\ pc' = [pc EXCEPT ![w] = IF aioDone[w] # {} THEN "reap" ELSE "work"]
    /\ UNCHANGED <<listenerVars, req, resp, respFD, notify, works, active, aioDone>>

\* The response: the socket goes back, with or without its next request to read,
\* or it was closed.  The ring first, then the eventfd.
Respond(w, s) ==
    /\ Len(resp[w]) < RingSize
    /\ \E how \in {"rearm", "data", "none"} :
        /\ resp' = [resp EXCEPT ![w] = Append(@, [sock |-> s, how |-> how])]
        /\ how = "data" => sent < MaxRequests
        /\ sent' = IF how = "data" THEN sent + 1 ELSE sent
        /\ pos' = IF how = "none" THEN [pos EXCEPT ![s] = "gone"] ELSE pos
    /\ notify' = [notify EXCEPT ![w] = TRUE]

\* workLoop: a work is processed to its end or becomes an asynchronous request.
Process(w) ==
    /\ pc[w] = "work" /\ ~notify[w] /\ works[w] # <<>>
    /\ works' = [works EXCEPT ![w] = Tail(@)]
    /\ \/ Respond(w, Head(works[w])) /\ UNCHANGED active
       \/ /\ active' = [active EXCEPT ![w] = @ \cup {Head(works[w])}]
          /\ UNCHANGED <<pos, resp, notify, sent>>
    /\ UNCHANGED <<listener, notifyContexts, load, req, reqFD, respFD, pc, aioDone>>

\* The kernel completes the I/O of a request.
CompleteIO(w, s) ==
    /\ s \in active[w]
    /\ active' = [active EXCEPT ![w] = @ \ {s}]
    /\ aioDone' = [aioDone EXCEPT ![w] = @ \cup {s}]
    /\ UNCHANGED <<listenerVars, req, reqFD, resp, respFD, pc, notify, works>>

\* reapCompletions.
Reap(w, s) ==
    /\ pc[w] = "reap" /\ ~notify[w] /\ s \in aioDone[w]
    /\ aioDone' = [aioDone EXCEPT ![w] = @ \ {s}]
    /\ Respond(w, s)
    /\ UNCHANGED <<listener, notifyContexts, load, req, reqFD, respFD, pc, works, active>>

Notify(w) ==
    /\ notify[w]
    /\ notify' = [notify EXCEPT ![w] = FALSE]
    /\ respFD' = [respFD EXCEPT ![w] = TRUE]
    /\ UNCHANGED <<listenerVars, req, reqFD, resp, pc, works, active, aioDone>>

Worker(w) ==
    /\ w \in Group
    /\ \/ Drain(w) \/ Wake(w) \/ Process(w) \/ Notify(w)
       \/ \E s \in Socks : Reap(w, s)

Next ==
    \/ \E s \in Socks : Arrive(s) \/ ConnFails(s)
    \/ Listener
    \/ \E w \in Workers : Worker(w) \/ \E s \in Socks : CompleteIO(w, s)

Spec == Init /\ [][Next]_vars

\* The threads run and disk I/O completes.
FairSpec ==
    /\ Spec
    /\ WF_vars(Listener)
    /\ \A w \in Workers : /\ WF_vars(Worker(w))
                          /\ \A s \in Socks : WF_vars(CompleteIO(w, s))

-----------------------------------------------------------------------------
(* Properties                                                                *)

\* Every variable is of its type.
TypeOK ==
    /\ pos \in [Socks -> {"idle", "data", "event", "taken", "gone"}]
    /\ listener.index \in Listeners
    /\ listener.pc \in {"wait", "handle", "burst"}
    /\ listener.batch \subseteq Group
    /\ listener.from \in Group \cup {NoWorker}
    /\ notifyContexts \subseteq Group
    /\ load \in [Workers -> 0 .. Cardinality(Socks)]
    /\ \A w \in Workers :
        /\ Len(req[w]) <= RingSize /\ Len(resp[w]) <= RingSize
        /\ active[w] \cup aioDone[w] \subseteq Socks
        /\ Cardinality(active[w] \cup aioDone[w]) + Len(works[w]) <= Slots
        /\ pc[w] \in {"epoll", "work", "reap"}

\* getGroupRange splits the workers of a target among the listeners: a worker is in
\* the group of the listener it answers to and in no other, so that each ring has
\* one producer and one consumer, and no listener is left without a worker.
GroupsPartition ==
    /\ Group # {} /\ Group \subseteq Workers
    /\ \A w \in Group : getListenerIndexForWorker(w) = listener.index
    /\ \A l \in Listeners \ {listener.index} : getGroupRange(l) \cap Group = {}
    /\ UNION {getGroupRange(l) : l \in Listeners} = Workers

\* The load of a worker is the number of requests it was given and whose response
\* the listener has not handled yet, wherever they are: it does not drift, and the
\* guard against a negative load in complete never matters.  All variables are of their
\* types throughout.
LoadIsCounted ==
    /\ TypeOK
    /\ \A w \in Workers :
          load[w] = Len(req[w]) + Len(works[w]) + Cardinality(active[w] \cup aioDone[w])
                    + Len(resp[w]) + (IF listener.from = w THEN Len(listener.cur) ELSE 0)

\* There are no more sockets than the request rings of the group have entries.
Fits == listener.index \in {l \in Listeners : Cardinality(Socks) <= Size(l) * RingSize}

\* No producer ever meets a full ring (the assertion in enqueueWait) if the sockets
\* fit: the least loaded worker has room.  And it is the only one of its ring.
RingsHaveRoom ==
    /\ GroupsPartition
    /\ Fits =>
        /\ listener.pc = "handle" /\ (\E s \in Socks : pos[s] = "event")
            => Len(req[Best(load)]) < RingSize
        /\ listener.cur # <<>> /\ Head(listener.cur).how = "data"
            => Len(req[Best(Completed(listener.from))]) < RingSize
        /\ \A w \in Workers :
            (pc[w] = "work" /\ works[w] # <<>>) \/ (pc[w] = "reap" /\ aioDone[w] # {})
                => Len(resp[w]) < RingSize \/ notify[w]

Quiet == \A s \in Socks : pos[s] \in {"idle", "gone"}

\* Every request is answered if the sockets fit: when the clients send no more, every
\* socket comes back to the listener and is armed, or is closed.  No notification
\* is lost between the rings and their eventfds.
EveryRequestIsAnswered == []<>(Fits => Quiet)
=============================================================================
