----------------------- MODULE AsyncRDMARequestProofs -----------------------
(***************************************************************************)
(* Proofs about AsyncRDMARequest, for any number of request objects,        *)
(* sockets, requests and chunks: every request has exactly one response     *)
(* (AnsweredOnce), and the disk never completes into a request object that   *)
(* was released or reused, except after the communication error that the    *)
(* history variable torn records (InFlightIsOwned).                         *)
(*                                                                         *)
(* What makes them inductive: the ids and sockets of active requests are     *)
(* distinct, the thread works on an active request whose phase fits the      *)
(* call it is in, and a request has at most one disk I/O in flight.          *)
(***************************************************************************)
EXTENDS AsyncRDMARequest, TLAPS

Phases == {"FREE", "INIT", "AIO_PENDING", "RDMA_PENDING"}
Results == {"ok", "error", "short"}
Status == {"none", "posted", "ok", "error"}

SlotType == [phase : Phases, op : {"read", "write"}, left : 0 .. MaxChunks,
             sock : Socks \cup {0}, id : 0 .. MaxRequests]
CQType == [armed : BOOLEAN, event : BOOLEAN, send : Status, rdma : Status, broken : BOOLEAN]
PCType == [at : {"idle", "post", "poll", "drain"}, slot : Slots \cup {0}, found : BOOLEAN]

\* Every variable is of its type, as functions and records.
Shape ==
    /\ slot \in [Slots -> SlotType]
    /\ aio \in SUBSET [slot : Slots, id : 1 .. MaxRequests]
    /\ aioDone \in SUBSET [slot : Slots, id : 1 .. MaxRequests, res : Results]
    /\ cq \in [Socks -> CQType]
    /\ pc \in PCType
    /\ used \in 0 .. MaxRequests
    /\ answered \in [1 .. MaxRequests -> Nat]
    /\ torn \in SUBSET (1 .. used)

\* An active request has a socket, a number, a chunk left, and has not ended.
Requests ==
    /\ \A r \in Active : /\ slot[r].sock \in Socks /\ slot[r].id \in 1 .. used
                         /\ slot[r].left \in 1 .. MaxChunks
                         /\ slot[r].id \notin torn
                         /\ slot[r].phase = "INIT" => pc.at # "idle" /\ pc.slot = r
    /\ \A q, r \in Active : slot[q].sock = slot[r].sock \/ slot[q].id = slot[r].id => q = r

\* The request that the thread works on, and its phase.
ThreadAt ==
    /\ pc.at = "idle" => pc = Idle
    /\ pc.at # "idle" => pc.slot \in Active
    /\ pc.at = "post" => slot[pc.slot].phase = "INIT"
    /\ pc.at = "drain" => slot[pc.slot].phase \in {"INIT", "RDMA_PENDING"}

\* The request waits for the disk, or the one exception was met.
Waits(r, i) == (slot[r].phase = "AIO_PENDING" /\ slot[r].id = i) \/ i \in torn

\* Disk I/O belongs to a request that waits for it, and a request has one at a time.
InFlight ==
    /\ \A k \in aio : Waits(k.slot, k.id)
    /\ \A e \in aioDone : Waits(e.slot, e.id) /\ [slot |-> e.slot, id |-> e.id] \notin aio
    /\ \A d, e \in aioDone : d.slot = e.slot /\ d.id = e.id => d = e

\* The inductive invariant.
IInv == Shape /\ Requests /\ ThreadAt /\ InFlight /\ AnsweredOnce

-----------------------------------------------------------------------------
\* The worker starts without requests.
THEOREM InitInv == Init => IInv
<1> SUFFICES ASSUME Init PROVE IInv
  OBVIOUS
<1> USE BoundsAssumption DEF Init
<1>1. Active = {}
  BY DEF Active, Free
<1>2. Shape
  BY DEF Shape, SlotType, CQType, PCType, Phases, Status, Free, NewCQ, Idle
<1>3. Requests /\ ThreadAt /\ InFlight
  BY <1>1 DEF Requests, ThreadAt, InFlight, Idle
<1>4. AnsweredOnce
  BY DEF AnsweredOnce
<1> QED BY <1>2, <1>3, <1>4 DEF IInv

\* What is left of the disk I/O after a step that takes some of it away.
LessInFlight == aio' \subseteq aio /\ aioDone' \subseteq aioDone

\* No disk I/O of the request in slot r remains.
NoneOf(r) ==
    /\ Key(r) \notin aio'
    /\ \A e \in aioDone' : ~(e.slot = r /\ e.id = slot[r].id)

\* A request that is not waiting for the disk has no I/O in flight.
LEMMA NotWaiting ==
    ASSUME IInv, NEW r \in Active, slot[r].phase # "AIO_PENDING", LessInFlight
    PROVE  NoneOf(r)
<1> USE DEF IInv
<1>1. ~Waits(r, slot[r].id)
  BY DEF Waits, Requests
<1>2. Key(r).slot = r /\ Key(r).id = slot[r].id
  BY DEF Key
<1>3. Key(r) \notin aio
  BY <1>1, <1>2 DEF InFlight
<1> QED BY <1>1, <1>3, Zenon DEF NoneOf, LessInFlight, InFlight

\* The completion that is reaped was the only I/O of its request.
LEMMA ReapedWasLast ==
    ASSUME IInv, NEW e \in aioDone, slot[e.slot].id = e.id,
           aio' = aio, aioDone' = aioDone \ {e}
    PROVE  NoneOf(e.slot) /\ LessInFlight
BY DEF IInv, InFlight, NoneOf, LessInFlight, Key

\* The end of a request: one response, and the object may be reused.
LEMMA FinishInv ==
    ASSUME IInv, NEW r \in Active, Finish(r), LessInFlight,
           \/ pc = Idle /\ NoneOf(r)
           \/ pc # Idle /\ pc.slot = r
    PROVE  IInv'
<1> USE DEF IInv
<1> DEFINE s == slot[r].sock
           i == slot[r].id
<1>1. /\ r \in Slots /\ s \in Socks /\ i \in 1 .. used /\ i \in 1 .. MaxRequests /\ i \notin torn
  BY BoundsAssumption DEF Requests, Active, Shape
<1>2. /\ slot' = [slot EXCEPT ![r] = Free]
      /\ answered' = [answered EXCEPT ![i] = @ + 1]
      /\ cq' = [cq EXCEPT ![s] = IF @.broken THEN NewCQ ELSE [@ EXCEPT !.send = "posted"]]
      /\ pc' = Idle
      /\ torn' = IF slot[r].phase = "AIO_PENDING" /\ pc # Idle THEN torn \cup {i} ELSE torn
      /\ used' = used
  BY DEF Finish
<1> HIDE DEF s, i
<1>3. /\ slot' \in [Slots -> SlotType]
      /\ slot'[r].phase = "FREE" /\ \A q \in Slots : q # r => slot'[q] = slot[q]
  BY <1>1, <1>2, BoundsAssumption DEF Shape, SlotType, Phases, Free
<1>4. Active' = Active \ {r}
  BY <1>3 DEF Active
<1>5. cq' \in [Socks -> CQType]
  BY <1>1, <1>2, Zenon DEF Shape, CQType, Status, NewCQ
<1>6. torn' \in SUBSET (1 .. used') /\ torn \subseteq torn' /\ torn' \subseteq torn \cup {i}
  BY <1>1, <1>2 DEF Shape
<1>7. Shape'
  <2>1. answered' \in [1 .. MaxRequests -> Nat]
    BY <1>1, <1>2 DEF Shape
  <2>2. pc' \in PCType
    BY <1>2 DEF PCType, Idle
  <2>3. aio' \subseteq aio /\ aioDone' \subseteq aioDone
    BY DEF LessInFlight
  <2> QED BY <1>2, <1>3, <1>5, <1>6, <2>1, <2>2, <2>3 DEF Shape
<1>8. Requests'
  <2>1. \A q \in Active' : q \in Active /\ q # r /\ slot'[q] = slot[q] /\ slot[q].id # i
    BY <1>3, <1>4 DEF Active, Requests, i
  <2>2. \A q \in Active : slot[q].phase = "INIT" => pc.slot = q /\ pc # Idle
    BY DEF Requests, Idle
  <2>3. \A q \in Active' : slot[q].phase # "INIT"
    BY <2>1, <2>2
  <2> QED BY <1>2, <1>6, <2>1, <2>3 DEF Requests
<1>9. ThreadAt'
  BY <1>2 DEF ThreadAt, Idle
<1>10. \A q \in Slots, j \in 1 .. MaxRequests : Waits(q, j) =>
          (Waits(q, j))' \/ (q = r /\ j = i /\ pc = Idle)
  BY <1>2, <1>3, <1>6 DEF Waits, i
<1>11. InFlight'
  <2>1. \A k \in aio' : k \in aio /\ k.slot \in Slots /\ k.id \in 1 .. MaxRequests
    BY DEF LessInFlight, Shape
  <2>2. \A e \in aioDone' : e \in aioDone /\ e.slot \in Slots /\ e.id \in 1 .. MaxRequests
    BY DEF LessInFlight, Shape
  <2>3. \A k \in aio' : (Waits(k.slot, k.id))'
    <3> SUFFICES ASSUME NEW k \in aio' PROVE (Waits(k.slot, k.id))'
      OBVIOUS
    <3>1. Waits(k.slot, k.id)
      BY <2>1 DEF InFlight
    <3>2. pc = Idle => ~(k.slot = r /\ k.id = i)
      BY <2>1 DEF NoneOf, Key, Shape, i
    <3> QED BY <1>10, <2>1, <3>1, <3>2
  <2>4. \A e \in aioDone' : (Waits(e.slot, e.id))'
    <3> SUFFICES ASSUME NEW e \in aioDone' PROVE (Waits(e.slot, e.id))'
      OBVIOUS
    <3>1. Waits(e.slot, e.id)
      BY <2>2, Zenon DEF InFlight
    <3>2. pc = Idle => ~(e.slot = r /\ e.id = i)
      BY DEF NoneOf, i
    <3> QED BY <1>10, <2>2, <3>1, <3>2
  <2> QED BY <2>2, <2>3, <2>4 DEF InFlight, LessInFlight
<1>12. AnsweredOnce'
  <2>1. ~\E q \in Active' : slot'[q].id = i
    BY <1>3, <1>4 DEF Requests, Active, i
  <2>2. \A j \in 1 .. MaxRequests : j # i =>
          ((\E q \in Active' : slot'[q].id = j) <=> \E q \in Active : slot[q].id = j)
    BY <1>3, <1>4 DEF Active, i
  <2>3. answered[i] = 0
    BY <1>1 DEF AnsweredOnce, i
  <2>4. \A j \in 1 .. MaxRequests : answered'[j] = IF j = i THEN 1 ELSE answered[j]
    BY <1>1, <1>2, <2>3 DEF Shape
  <2> QED BY <1>1, <1>2, <2>1, <2>2, <2>4 DEF AnsweredOnce
<1> QED BY <1>7, <1>8, <1>9, <1>11, <1>12

\* Only the phase and the number of chunks of the request in slot r change.
Rephased(r, phase, left) ==
    /\ slot' \in [Slots -> SlotType]
    /\ \A q \in Slots : q # r => slot'[q] = slot[q]
    /\ slot'[r].phase = phase /\ slot'[r].left = left
    /\ slot'[r].id = slot[r].id /\ slot'[r].sock = slot[r].sock

\* The assignment of a phase and of a number of chunks, field by field.
LEMMA Rephase ==
    ASSUME Shape, NEW r \in Slots, NEW phase \in Phases, NEW left \in 0 .. MaxChunks,
           slot' = [slot EXCEPT ![r].phase = phase, ![r].left = left]
    PROVE  Rephased(r, phase, left)
BY Zenon DEF Rephased, Shape, SlotType

\* The phase and the number of chunks of an active request change, nothing of the disk
\* I/O of others does.
LEMMA PhaseInv ==
    ASSUME IInv, NEW r \in Active, NEW phase \in Phases \ {"FREE"}, NEW left \in 1 .. MaxChunks,
           Rephased(r, phase, left),
           pc = Idle \/ pc.slot = r,
           pc' \in PCType,
           \/ pc' = Idle /\ phase # "INIT"
           \/ pc'.at = "post" /\ pc'.slot = r /\ phase = "INIT",
           \/ LessInFlight /\ NoneOf(r)
           \/ /\ aio' = aio \cup {Key(r)} /\ aioDone' \subseteq aioDone /\ Key(r) \notin aio
              /\ phase = "AIO_PENDING"
              /\ \A e \in aioDone' : ~(e.slot = r /\ e.id = slot[r].id),
           UNCHANGED <<cq, used, answered, torn>>
    PROVE  IInv'
<1> USE DEF IInv
<1>1. /\ r \in Slots /\ slot[r].sock \in Socks /\ slot[r].id \in 1 .. used
      /\ slot[r].id \in 1 .. MaxRequests /\ slot[r].id \notin torn
  BY BoundsAssumption DEF Requests, Active, Shape
<1>2. /\ slot' \in [Slots -> SlotType]
      /\ \A q \in Slots : q # r => slot'[q] = slot[q]
      /\ slot'[r].phase = phase /\ slot'[r].left = left
      /\ slot'[r].id = slot[r].id /\ slot'[r].sock = slot[r].sock
  BY DEF Rephased
<1>3. Active' = Active
  BY <1>2 DEF Active
<1>4. \A q \in Slots : slot'[q].id = slot[q].id /\ slot'[q].sock = slot[q].sock
  BY <1>2
<1>5. /\ aio' \in SUBSET [slot : Slots, id : 1 .. MaxRequests]
      /\ aioDone' \subseteq aioDone
  BY <1>1 DEF Shape, LessInFlight, Key
<1>6. Shape'
  BY <1>2, <1>5 DEF Shape
<1>7. Requests'
  <2>1. \A q \in Active : q # r => slot[q].phase # "INIT"
    BY DEF Requests, Idle
  <2>2. slot'[r].phase = "INIT" => pc'.at # "idle" /\ pc'.slot = r
    BY <1>2
  <2>3. \A q \in Active : q # r => slot'[q] = slot[q] /\ slot'[q].left \in 1 .. MaxChunks
    BY <1>2 DEF Requests, Active
  <2>4. \A q \in Active' : /\ slot'[q].sock \in Socks /\ slot'[q].id \in 1 .. used'
                           /\ slot'[q].id \notin torn'
    BY <1>3, <1>4 DEF Requests, Active
  <2>5. \A p, q \in Active' :
            slot'[p].sock = slot'[q].sock \/ slot'[p].id = slot'[q].id => p = q
    BY <1>3, <1>4 DEF Requests, Active
  <2> QED BY <1>2, <1>3, <2>1, <2>2, <2>3, <2>4, <2>5 DEF Requests
<1>8. ThreadAt'
  BY <1>2, <1>3 DEF ThreadAt, Idle
<1>9. \A q \in Slots, j \in 1 .. MaxRequests : Waits(q, j) =>
          (Waits(q, j))' \/ (q = r /\ j = slot[r].id)
  BY <1>2 DEF Waits
<1>10. InFlight'
  <2>1. \A k \in aio : k.slot \in Slots /\ k.id \in 1 .. MaxRequests
    BY DEF Shape
  <2>2. \A e \in aioDone' : e \in aioDone /\ e.slot \in Slots /\ e.id \in 1 .. MaxRequests
    BY <1>5 DEF Shape
  <2>3. \A e \in aioDone' : ~(e.slot = r /\ e.id = slot[r].id)
    BY DEF NoneOf
  <2>4. \A k \in aio : k = Key(r) <=> k.slot = r /\ k.id = slot[r].id
    BY DEF Key, Shape
  <2>5. \A k \in aio' : (Waits(k.slot, k.id))'
    <3> SUFFICES ASSUME NEW k \in aio' PROVE (Waits(k.slot, k.id))'
      OBVIOUS
    <3>1. CASE k = Key(r)
      <4>1. phase = "AIO_PENDING" /\ k.slot = r /\ k.id = slot[r].id
        BY <3>1 DEF NoneOf, Key
      <4> QED BY <1>2, <4>1 DEF Waits
    <3>2. CASE k # Key(r)
      <4>1. k \in aio /\ Waits(k.slot, k.id)
        BY <3>2 DEF LessInFlight, InFlight
      <4> QED BY <1>9, <2>1, <2>4, <3>2, <4>1
    <3> QED BY <3>1, <3>2
  <2>6. \A e \in aioDone' : (Waits(e.slot, e.id))'
    <3> SUFFICES ASSUME NEW e \in aioDone' PROVE (Waits(e.slot, e.id))'
      OBVIOUS
    <3>1. Waits(e.slot, e.id)
      BY <2>2, Zenon DEF InFlight
    <3> QED BY <1>9, <2>2, <2>3, <3>1
  <2>7. \A e \in aioDone' : [slot |-> e.slot, id |-> e.id] \notin aio'
    <3> SUFFICES ASSUME NEW e \in aioDone' PROVE [slot |-> e.slot, id |-> e.id] \notin aio'
      OBVIOUS
    <3>1. [slot |-> e.slot, id |-> e.id] \notin aio
      BY <2>2 DEF InFlight
    <3>2. [slot |-> e.slot, id |-> e.id] # Key(r)
      BY <2>3 DEF Key
    <3> QED BY <3>1, <3>2 DEF LessInFlight
  <2>8. \A d, e \in aioDone' : d.slot = e.slot /\ d.id = e.id => d = e
    BY <2>2 DEF InFlight
  <2> QED BY <2>5, <2>6, <2>7, <2>8 DEF InFlight
<1>11. AnsweredOnce'
  <2>1. \A j \in 1 .. MaxRequests :
          (\E q \in Active' : slot'[q].id = j) <=> \E q \in Active : slot[q].id = j
    BY <1>3, <1>4 DEF Active
  <2> QED BY <2>1 DEF AnsweredOnce
<1> QED BY <1>6, <1>7, <1>8, <1>10, <1>11

\* Submitting disk I/O.
LEMMA SubmitAIOInv ==
    ASSUME IInv, NEW r \in Active, NEW left \in 1 .. MaxChunks, SubmitAIO(r, left),
           pc = Idle \/ (pc # Idle /\ pc.slot = r),
           Key(r) \notin aio, aioDone' \subseteq aioDone,
           \A e \in aioDone' : ~(e.slot = r /\ e.id = slot[r].id)
    PROVE  IInv'
<1>1. CASE /\ aio' = aio \cup {Key(r)}
           /\ slot' = [slot EXCEPT ![r].phase = "AIO_PENDING", ![r].left = left]
           /\ pc' = Idle
           /\ UNCHANGED <<cq, used, answered, shorts, raced, torn>>
  <2>1. "AIO_PENDING" \in Phases \ {"FREE"} /\ Idle \in PCType
    BY DEF Phases, PCType, Idle
  <2>2. Rephased(r, "AIO_PENDING", left)
    <3>1. slot' = [slot EXCEPT ![r].phase = "AIO_PENDING", ![r].left = left]
      BY <1>1
    <3>2. left \in 0 .. MaxChunks /\ r \in Slots /\ Shape /\ "AIO_PENDING" \in Phases
      BY <2>1, BoundsAssumption DEF IInv, Active
    <3> QED BY <3>1, <3>2, Rephase, Zenon
  <2>3. aio' = aio \cup {Key(r)} /\ pc' = Idle /\ UNCHANGED <<cq, used, answered, torn>>
    BY <1>1
  <2> QED BY <2>1, <2>2, <2>3, PhaseInv
<1>2. CASE Finish(r) /\ UNCHANGED aio
  <2>1. LessInFlight /\ NoneOf(r)
    BY <1>2 DEF LessInFlight, NoneOf
  <2> QED BY <1>2, <2>1, FinishInv
<1> QED BY <1>1, <1>2 DEF SubmitAIO

\* The next chunk goes to the network.
LEMMA ToPostInv ==
    ASSUME IInv, NEW r \in Active, NEW left \in 1 .. MaxChunks, ToPost(r, left), pc = Idle,
           LessInFlight, NoneOf(r)
    PROVE  IInv'
<1>1. r \in Slots
  BY DEF Active
<1>2. /\ pc' \in PCType /\ pc'.at = "post" /\ pc'.slot = r
      /\ UNCHANGED <<cq, used, answered, torn>>
  BY <1>1 DEF ToPost, PCType
<1>3. "INIT" \in Phases \ {"FREE"}
  BY DEF Phases
<1>4. Rephased(r, "INIT", left)
  <2>1. slot' = [slot EXCEPT ![r].phase = "INIT", ![r].left = left]
    BY DEF ToPost
  <2>2. left \in 0 .. MaxChunks /\ Shape /\ "INIT" \in Phases
    BY <1>3, BoundsAssumption DEF IInv
  <2> QED BY <1>1, <2>1, <2>2, Rephase, Zenon
<1> QED BY <1>2, <1>3, <1>4, PhaseInv

-----------------------------------------------------------------------------
\* The requests and the disk stand still: the queues change, or the call goes on.
LEMMA CallInv ==
    ASSUME IInv, UNCHANGED <<slot, aio, aioDone, used, answered, torn>>,
           cq' \in [Socks -> CQType], pc' \in PCType, ThreadAt',
           \/ pc.at = "idle"
           \/ pc'.at # "idle" /\ pc'.slot = pc.slot
           \/ slot[pc.slot].phase # "INIT"
    PROVE  IInv'
<1> USE DEF IInv
<1>1. Active' = Active
  BY DEF Active
<1>2. Shape'
  BY DEF Shape
<1>3. Requests'
  BY <1>1 DEF Requests
<1>4. InFlight'
  BY DEF InFlight, Waits
<1>5. AnsweredOnce'
  BY <1>1 DEF AnsweredOnce
<1> QED BY <1>2, <1>3, <1>4, <1>5

\* A request that cannot be set up is answered at once.
LEMMA StartDoneInv ==
    ASSUME IInv, NEW s \in Socks, StartDone(s) PROVE IInv'
<1> USE DEF IInv
<1>1. /\ used \in 0 .. MaxRequests - 1 /\ used' = used + 1
      /\ answered' = [answered EXCEPT ![used + 1] = @ + 1]
      /\ UNCHANGED <<slot, aio, aioDone, pc, torn>>
  BY BoundsAssumption DEF StartDone, Shape
<1>2. cq' \in [Socks -> CQType]
  BY DEF StartDone, Shape, CQType, Status, NewCQ
<1>3. Active' = Active
  BY <1>1 DEF Active
<1>4. \A j \in 1 .. MaxRequests :
          answered'[j] = IF j = used + 1 THEN answered[used + 1] + 1 ELSE answered[j]
  BY <1>1 DEF Shape
<1>5. Shape'
  <2>1. answered' \in [1 .. MaxRequests -> Nat]
    BY <1>1, BoundsAssumption DEF Shape
  <2>2. used' \in 0 .. MaxRequests /\ torn' \in SUBSET (1 .. used')
    BY <1>1, BoundsAssumption DEF Shape
  <2> QED BY <1>1, <1>2, <2>1, <2>2 DEF Shape
<1>6. Requests' /\ ThreadAt' /\ InFlight'
  <2>1. \A i \in 1 .. used : i \in 1 .. used'
    BY <1>1
  <2> QED BY <1>1, <1>3, <2>1 DEF Requests, ThreadAt, InFlight, Waits
<1>7. AnsweredOnce'
  <2>1. \A r \in Active : slot[r].id # used + 1
    BY <1>1 DEF Requests
  <2>2. answered[used + 1] = 0
    BY <1>1, BoundsAssumption DEF AnsweredOnce
  <2> QED BY <1>1, <1>3, <1>4, <2>1, <2>2, BoundsAssumption DEF AnsweredOnce
<1> QED BY <1>5, <1>6, <1>7

\* A request gets an object: the socket has no other request, the number is new.
LEMMA StartInv ==
    ASSUME IInv, NEW s \in Socks, NEW r \in Slots, NEW op \in {"read", "write"},
           NEW n \in 1 .. MaxChunks, Start(s, r, op, n)
    PROVE  IInv'
<1> USE DEF IInv
<1>0. PICK i \in 1 .. MaxRequests : i = used + 1
  BY BoundsAssumption DEF Start, Shape
<1>1. /\ pc = Idle /\ s \notin InUse /\ slot[r].phase = "FREE"
      /\ used \in 0 .. MaxRequests - 1 /\ used' = i
      /\ i \in 1 .. MaxRequests /\ i \in Nat /\ i \notin 1 .. used
      /\ UNCHANGED <<aioDone, cq, answered, torn>>
  BY <1>0, BoundsAssumption DEF Start, Shape
<1>2. PICK phase \in {"INIT", "AIO_PENDING"} :
        /\ slot' = [slot EXCEPT ![r] = [phase |-> phase, op |-> op, left |-> n, sock |-> s, id |-> i]]
        /\ phase = "AIO_PENDING" => aio' = aio \cup {[slot |-> r, id |-> i]} /\ pc' = Idle
        /\ phase = "INIT" => aio' = aio /\ pc' = [at |-> "post", slot |-> r, found |-> FALSE]
  <2>1. CASE op = "read"
    BY <1>0, <1>1, <2>1 DEF Start
  <2>2. CASE op # "read"
    BY <1>0, <1>1, <2>2 DEF Start
  <2> QED BY <2>1, <2>2
<1>a. /\ phase = "AIO_PENDING" => aio' = aio \cup {[slot |-> r, id |-> i]} /\ pc' = Idle
      /\ phase = "INIT" => aio' = aio /\ pc' = [at |-> "post", slot |-> r, found |-> FALSE]
  BY <1>2
<1>3. /\ slot' \in [Slots -> SlotType]
      /\ \A q \in Slots : q # r => slot'[q] = slot[q]
      /\ slot'[r].phase = phase /\ slot'[r].left = n /\ slot'[r].sock = s /\ slot'[r].id = i
  BY <1>1, <1>2, BoundsAssumption DEF Shape, SlotType, Phases
<1>4. Active' = Active \cup {r} /\ r \notin Active
  BY <1>1, <1>3 DEF Active
<1>5. Shape'
  <2>1. aio' \in SUBSET [slot : Slots, id : 1 .. MaxRequests]
    BY <1>1, <1>a DEF Shape
  <2>2. pc' \in PCType
    <3>1. CASE phase = "AIO_PENDING"
      BY <1>1, <1>a, <3>1 DEF Shape
    <3>2. CASE phase = "INIT"
      <4>1. pc' = [at |-> "post", slot |-> r, found |-> FALSE]
        BY <1>a, <3>2
      <4> QED BY <4>1 DEF PCType
    <3> QED BY <3>1, <3>2
  <2>3. used' \in 0 .. MaxRequests /\ torn' \in SUBSET (1 .. used')
    BY <1>0, <1>1, BoundsAssumption DEF Shape
  <2> QED BY <1>1, <1>3, <2>1, <2>2, <2>3 DEF Shape
<1>6. \A q \in Active : /\ q # r /\ slot'[q] = slot[q] /\ slot[q].phase # "INIT"
                        /\ slot[q].sock # s /\ slot[q].id \in 1 .. used /\ slot[q].id # i
  BY <1>1, <1>3, <1>4, Zenon DEF Active, Requests, Idle, InUse
<1>7. Requests'
  <2>1. \A j \in 1 .. used : j \in 1 .. used'
    BY <1>0, <1>1
  <2>2. i \notin torn
    BY <1>1 DEF Shape
  <2>3. slot'[r].phase = "INIT" => pc'.at # "idle" /\ pc'.slot = r
    BY <1>a, <1>3
  <2>4. i \in 1 .. used'
    BY <1>1
  <2> QED BY <1>1, <1>3, <1>4, <1>6, <2>1, <2>2, <2>3, <2>4 DEF Requests
<1>8. ThreadAt'
  BY <1>a, <1>3, <1>4 DEF ThreadAt, Idle
<1>9. \A q \in Slots : \A j : Waits(q, j) => (Waits(q, j))'
  BY <1>1, <1>3 DEF Waits
<1>10. \A q \in Slots : ~Waits(q, i)
  BY <1>1, <1>6, Zenon DEF Waits, Shape, Active
<1>11. InFlight'
  <2>1. \A k \in aio : k.slot \in Slots /\ k.id # i
    BY <1>10 DEF Shape, InFlight
  <2>2. \A e \in aioDone : e.slot \in Slots /\ e.id # i
    <3>1. \A e \in aioDone : e.slot \in Slots
      BY DEF Shape
    <3> QED BY <1>10, <3>1, Zenon DEF InFlight
  <2>3. \A e \in aioDone' : (Waits(e.slot, e.id))'
    BY <1>1, <1>9, <2>2, Zenon DEF InFlight
  <2>4. \A k \in aio' : (Waits(k.slot, k.id))'
    <3>1. CASE phase = "AIO_PENDING"
      <4>1. (Waits(r, i))'
        BY <1>3, <3>1 DEF Waits
      <4>2. aio' = aio \cup {[slot |-> r, id |-> i]}
        BY <1>a, <3>1
      <4> QED BY <1>9, <2>1, <4>1, <4>2 DEF InFlight
    <3>2. CASE phase = "INIT"
      BY <1>a, <1>9, <2>1, <3>2 DEF InFlight
    <3> QED BY <3>1, <3>2
  <2>5. \A e \in aioDone' : [slot |-> e.slot, id |-> e.id] \notin aio'
    <3>1. aio' \subseteq aio \cup {[slot |-> r, id |-> i]}
      BY <1>a
    <3> QED BY <1>1, <2>2, <3>1 DEF InFlight
  <2> QED BY <1>1, <2>3, <2>4, <2>5 DEF InFlight
<1>12. AnsweredOnce'
  <2>1. \A j \in 1 .. MaxRequests : j # i =>
          ((\E q \in Active' : slot'[q].id = j) <=> \E q \in Active : slot[q].id = j)
    BY <1>3, <1>4, <1>6
  <2>2. \E q \in Active' : slot'[q].id = i
    BY <1>3, <1>4
  <2>3. answered[i] = 0
    BY <1>1 DEF AnsweredOnce
  <2>4. \A j \in 1 .. MaxRequests : j # i => (j <= used' <=> j <= used)
    BY <1>0, <1>1
  <2> QED BY <1>1, <2>1, <2>2, <2>3, <2>4 DEF AnsweredOnce
<1> QED BY <1>5, <1>7, <1>8, <1>11, <1>12

\* The kernel completes disk I/O.
LEMMA DiskCompletesInv ==
    ASSUME IInv, NEW k \in aio, DiskCompletes(k) PROVE IInv'
<1> USE DEF IInv
<1>1. PICK res \in Results : aioDone' = aioDone \cup {[slot |-> k.slot, id |-> k.id, res |-> res]}
  BY DEF DiskCompletes, Results
<1>2. aio' = aio \ {k} /\ UNCHANGED <<slot, cq, pc, used, answered, torn>>
  BY DEF DiskCompletes
<1>3. k.slot \in Slots /\ k.id \in 1 .. MaxRequests /\ k = [slot |-> k.slot, id |-> k.id]
  BY DEF Shape
<1> DEFINE new == [slot |-> k.slot, id |-> k.id, res |-> res]
<1>4. new \in [slot : Slots, id : 1 .. MaxRequests, res : Results]
  BY <1>3
<1>5. Shape'
  BY <1>1, <1>2, <1>4 DEF Shape
<1>6. Active' = Active
  BY <1>2 DEF Active
<1>7. Requests' /\ ThreadAt' /\ AnsweredOnce'
  BY <1>2, <1>6 DEF Requests, ThreadAt, AnsweredOnce
<1>8. \A q, j : (Waits(q, j))' <=> Waits(q, j)
  BY <1>2 DEF Waits
<1>9. new.slot = k.slot /\ new.id = k.id /\ aioDone' = aioDone \cup {new}
  BY <1>1
<1> HIDE DEF new
<1>10. \A e \in aioDone : ~(e.slot = k.slot /\ e.id = k.id)
  BY <1>3 DEF InFlight
<1>11. InFlight'
  <2>1. \A m \in aio' : (Waits(m.slot, m.id))'
    BY <1>2, <1>8 DEF InFlight
  <2>2. \A e \in aioDone' : (Waits(e.slot, e.id))'
    BY <1>8, <1>9, Zenon DEF InFlight
  <2>3. \A e \in aioDone' : [slot |-> e.slot, id |-> e.id] \notin aio'
    BY <1>2, <1>3, <1>9 DEF InFlight
  <2>4. \A d, e \in aioDone' : d.slot = e.slot /\ d.id = e.id => d = e
    BY <1>9, <1>10 DEF InFlight
  <2> QED BY <2>1, <2>2, <2>3, <2>4 DEF InFlight
<1> QED BY <1>5, <1>7, <1>11

\* A disk completion is reaped.
LEMMA ReapInv ==
    ASSUME IInv, NEW e \in aioDone, Reap(e) PROVE IInv'
<1> USE DEF IInv
<1> DEFINE r == e.slot
           n == slot[e.slot].left
<1>1. /\ pc = Idle /\ slot[r].phase = "AIO_PENDING" /\ slot[r].id = e.id
      /\ aioDone' = aioDone \ {e}
  BY DEF Reap
<1>2. r \in Active /\ n \in 1 .. MaxChunks
  BY <1>1 DEF Active, Shape, Requests
<1>3. Key(r) \notin aio /\ \A d \in aioDone' : ~(d.slot = r /\ d.id = slot[r].id)
  BY <1>1 DEF InFlight, Key
<1>4. ASSUME aio' = aio PROVE NoneOf(r) /\ LessInFlight
  BY <1>1, <1>4, ReapedWasLast
<1>5. CASE Finish(r) /\ UNCHANGED aio
  BY <1>1, <1>2, <1>4, <1>5, FinishInv
<1>6. ASSUME NEW m \in 1 .. MaxChunks, ToPost(r, m) PROVE IInv'
  <2>1. aio' = aio
    BY <1>6 DEF ToPost
  <2> QED BY <1>1, <1>2, <1>4, <1>6, <2>1, ToPostInv
<1>7. CASE SubmitAIO(r, n)
  BY <1>1, <1>2, <1>3, <1>7, SubmitAIOInv
<1>8. (IF e.res = "short" THEN 1 ELSE n) \in 1 .. MaxChunks
  BY <1>2, BoundsAssumption
<1>9. n > 1 => n - 1 \in 1 .. MaxChunks
  BY <1>2, BoundsAssumption
<1> QED BY <1>5, <1>6, <1>7, <1>8, <1>9 DEF Reap

\* The work request is posted, or the broken connection ends the request.
LEMMA PostInv == ASSUME IInv, Post PROVE IInv'
<1> USE DEF IInv
<1> DEFINE r == pc.slot
           s == slot[pc.slot].sock
<1>1. pc.at = "post" /\ aio' = aio /\ aioDone' = aioDone
  BY DEF Post
<1>2. r \in Active /\ s \in Socks /\ pc # Idle /\ slot[r].phase = "INIT"
  BY <1>1 DEF ThreadAt, Requests, Idle
<1>3. CASE /\ cq' = [cq EXCEPT ![s].armed = TRUE, ![s].rdma = "posted"]
           /\ pc' = [pc EXCEPT !.at = "poll"]
           /\ UNCHANGED <<slot, used, answered, shorts, raced, torn>>
  <2>1. cq' \in [Socks -> CQType]
    <3>1. cq \in [Socks -> CQType]
      BY DEF Shape
    <3> QED BY <1>2, <1>3, <3>1, Zenon DEF CQType, Status
  <2>2. pc' \in PCType /\ pc'.at = "poll" /\ pc'.slot = r
    BY <1>3 DEF Shape, PCType
  <2>3. UNCHANGED <<slot, aio, aioDone, used, answered, torn>>
    BY <1>1, <1>3
  <2>4. ThreadAt'
    BY <1>2, <2>2, <2>3 DEF ThreadAt, Active
  <2> QED BY <2>1, <2>2, <2>3, <2>4, CallInv, Zenon
<1>4. CASE Finish(r)
  <2>1. LessInFlight
    BY <1>1 DEF LessInFlight
  <2> QED BY <1>2, <1>4, <2>1, FinishInv
<1> QED BY <1>3, <1>4 DEF Post

\* The adapter completes a work request.
LEMMA CompletesInv ==
    ASSUME IInv, NEW s \in Socks, NEW send \in Status, NEW rdma \in Status, NEW bad \in BOOLEAN,
           Completes(s, send, rdma, bad)
    PROVE  IInv'
<1> USE DEF IInv
<1>1. cq' \in [Socks -> CQType]
  BY DEF Completes, Shape, CQType
<1>2. UNCHANGED <<slot, aio, aioDone, pc, used, answered, torn>>
  BY DEF Completes
<1>3. pc' \in PCType /\ ThreadAt'
  BY <1>2 DEF Shape, ThreadAt, Active
<1> QED BY <1>1, <1>2, <1>3, CallInv

\* A completion of the adapter keeps the invariant.
LEMMA AdapterInv ==
    ASSUME IInv, NEW s \in Socks, Adapter(s) PROVE IInv'
<1>1. cq[s].send \in Status /\ cq[s].rdma \in Status /\ "ok" \in Status /\ "error" \in Status
  BY DEF IInv, Shape, CQType, Status
<1> QED BY <1>1, CompletesInv, Zenon DEF Adapter, SendCompletes, RDMACompletes

\* The thread reads an event of the channel.
LEMMA SendCQEventInv ==
    ASSUME IInv, NEW r \in Slots, SendCQEvent(r) PROVE IInv'
<1> USE DEF IInv
<1>1. /\ pc = Idle /\ r \in Active
      /\ pc' = [at |-> "poll", slot |-> r, found |-> FALSE]
      /\ UNCHANGED <<slot, aio, aioDone, used, answered, torn>>
  BY DEF SendCQEvent
<1>2. slot[r].sock \in Socks
  BY <1>1 DEF Requests
<1>3. cq' \in [Socks -> CQType]
  <2>1. PICK rearm \in BOOLEAN : rearm <=> slot[r].phase = "RDMA_PENDING"
    BY Zenon
  <2>2. PICK s \in Socks : cq' = [cq EXCEPT ![s].event = FALSE, ![s].armed = @ \/ rearm]
    BY <1>2, <2>1, Zenon DEF SendCQEvent
  <2> QED BY <2>2, Zenon DEF Shape, CQType
<1>4. pc' \in PCType /\ pc'.at = "poll" /\ pc'.slot = r
  BY <1>1 DEF PCType
<1>5. ThreadAt'
  BY <1>1, <1>4 DEF ThreadAt, Active
<1>6. pc.at = "idle"
  BY <1>1, Zenon DEF Idle
<1> QED BY <1>1, <1>3, <1>4, <1>5, <1>6, CallInv

\* The queue is polled: an error in it ends the request in whatever phase it is.
LEMMA PollInv == ASSUME IInv, Poll PROVE IInv'
<1> USE DEF IInv
<1> DEFINE r == pc.slot
           s == slot[pc.slot].sock
<1>1. pc.at = "poll" /\ aio' = aio /\ aioDone' = aioDone
  BY DEF Poll
<1>2. r \in Active /\ s \in Socks /\ pc # Idle
  BY <1>1 DEF ThreadAt, Requests, Idle
<1>3. CASE Finish(r)
  <2>1. LessInFlight
    BY <1>1 DEF LessInFlight
  <2> QED BY <1>2, <1>3, <2>1, FinishInv
<1>4. CASE /\ cq' = [cq EXCEPT ![s].send = IF @ = "ok" THEN "none" ELSE @,
                               ![s].rdma = IF @ = "ok" THEN "none" ELSE @]
           /\ pc' = IF slot[r].phase = "AIO_PENDING" THEN Idle
                    ELSE [pc EXCEPT !.at = "drain", !.found = cq[s].rdma = "ok"]
           /\ UNCHANGED <<slot, used, answered, shorts, raced, torn>>
  <2>1. cq' \in [Socks -> CQType]
    <3>1. /\ (IF cq[s].send = "ok" THEN "none" ELSE cq[s].send) \in Status
          /\ (IF cq[s].rdma = "ok" THEN "none" ELSE cq[s].rdma) \in Status
      BY <1>2 DEF Shape, CQType, Status
    <3>2. PICK x \in Status, y \in Status : cq' = [cq EXCEPT ![s].send = x, ![s].rdma = y]
      BY <1>2, <1>4, <3>1, Zenon DEF Shape, CQType
    <3> HIDE DEF s
    <3> QED BY <1>2, <3>2, Zenon DEF Shape, CQType
  <2>2. UNCHANGED <<slot, aio, aioDone, used, answered, torn>>
    BY <1>1, <1>4
  <2>3. CASE slot[r].phase = "AIO_PENDING"
    <3>1. pc' = Idle /\ Idle \in PCType
      BY <1>4, <2>3 DEF PCType, Idle
    <3>2. ThreadAt'
      BY <3>1 DEF ThreadAt, Idle
    <3> QED BY <2>1, <2>2, <2>3, <3>1, <3>2, CallInv, Zenon
  <2>4. CASE slot[r].phase # "AIO_PENDING"
    <3>1. pc' \in PCType /\ pc'.at = "drain" /\ pc'.slot = r
      BY <1>4, <2>4, Zenon DEF Shape, PCType
    <3>2. slot[r].phase \in {"INIT", "RDMA_PENDING"}
      BY <1>2, <2>4 DEF Active, Shape, SlotType, Phases
    <3>3. ThreadAt'
      BY <1>2, <2>2, <3>1, <3>2 DEF ThreadAt, Active
    <3> QED BY <2>1, <2>2, <3>1, <3>3, CallInv, Zenon
  <2> QED BY <2>3, <2>4
<1> QED BY <1>3, <1>4 DEF Poll

\* Events that came meanwhile are acknowledged.
LEMMA DrainEventsInv == ASSUME IInv, DrainEvents PROVE IInv'
<1> USE DEF IInv
<1>1. pc.at = "drain" /\ UNCHANGED <<slot, aio, aioDone, pc, used, answered, torn>>
  BY DEF DrainEvents
<1>2. slot[pc.slot].sock \in Socks
  BY <1>1 DEF ThreadAt, Requests
<1>3. cq' \in [Socks -> CQType]
  BY <1>2, Zenon DEF DrainEvents, Shape, CQType
<1>4. pc' \in PCType /\ ThreadAt' /\ pc'.at # "idle" /\ pc'.slot = pc.slot
  BY <1>1 DEF Shape, ThreadAt, Active
<1> QED BY <1>1, <1>3, <1>4, CallInv

\* The call ends: the request waits for the network, goes on to the disk, or ends.
LEMMA RDMADoneInv == ASSUME IInv, RDMADone PROVE IInv'
<1> USE DEF IInv
<1> DEFINE r == pc.slot
           n == slot[pc.slot].left
<1>1. pc.at = "drain" /\ aioDone' = aioDone
  BY DEF RDMADone
<1>2. /\ r \in Active /\ r \in Slots /\ n \in 1 .. MaxChunks /\ pc # Idle
      /\ slot[r].phase # "AIO_PENDING"
  BY <1>1 DEF ThreadAt, Requests, Idle, Active
<1>3. ASSUME aio' = aio PROVE LessInFlight /\ NoneOf(r)
  <2>1. LessInFlight
    BY <1>1, <1>3 DEF LessInFlight
  <2> QED BY <1>2, <2>1, NotWaiting
<1>4. Key(r) \notin aio /\ \A e \in aioDone : ~(e.slot = r /\ e.id = slot[r].id)
  <2>1. ~Waits(r, slot[r].id)
    BY <1>2 DEF Waits, Requests
  <2>2. Key(r).slot = r /\ Key(r).id = slot[r].id
    BY DEF Key
  <2> QED BY <2>1, <2>2, Zenon DEF InFlight
<1>5. CASE Finish(r) /\ UNCHANGED aio
  BY <1>2, <1>3, <1>5, FinishInv
<1>6. ASSUME NEW m \in 1 .. MaxChunks, SubmitAIO(r, m) PROVE IInv'
  <2>1. aioDone' \subseteq aioDone /\ \A e \in aioDone' : ~(e.slot = r /\ e.id = slot[r].id)
    BY <1>1, <1>4, Zenon
  <2> QED BY <1>2, <1>4, <1>6, <2>1, SubmitAIOInv
<1>7. CASE /\ slot' = [slot EXCEPT ![r].phase = "RDMA_PENDING"]
           /\ pc' = Idle
           /\ UNCHANGED <<aio, cq, used, answered, shorts, raced, torn>>
  <2>1. Rephased(r, "RDMA_PENDING", n)
    <3>1. slot \in [Slots -> SlotType]
      BY DEF Shape
    <3> QED BY <1>2, <1>7, <3>1 DEF Rephased, SlotType, Phases
  <2>2. "RDMA_PENDING" \in Phases \ {"FREE"} /\ Idle \in PCType
    BY DEF Phases, PCType, Idle
  <2>3. pc' = Idle /\ UNCHANGED <<aio, cq, used, answered, torn>>
    BY <1>7
  <2> QED BY <1>2, <1>3, <2>1, <2>2, <2>3, PhaseInv
<1>8. n = 1 \/ n - 1 \in 1 .. MaxChunks
  BY <1>2, BoundsAssumption
<1> QED BY <1>2, <1>5, <1>6, <1>7, <1>8 DEF RDMADone

-----------------------------------------------------------------------------
\* Every step of the thread, the disk and the adapters keeps the invariant.
THEOREM NextInv == IInv /\ [Next]_vars => IInv'
<1> SUFFICES ASSUME IInv, [Next]_vars PROVE IInv'
  OBVIOUS
<1>1. CASE UNCHANGED vars
  <2>1. UNCHANGED <<slot, aio, aioDone, used, answered, torn>> /\ cq' = cq /\ pc' = pc
    BY <1>1 DEF vars
  <2>2. cq' \in [Socks -> CQType] /\ pc' \in PCType /\ ThreadAt'
    BY <2>1 DEF IInv, Shape, ThreadAt, Active
  <2> QED BY <2>1, <2>2, CallInv
<1>2. CASE \E s \in Socks : StartDone(s) BY <1>2, StartDoneInv
<1>3. CASE \E s \in Socks : Adapter(s) BY <1>3, AdapterInv
<1>4. CASE \E s \in Socks, r \in Slots, op \in {"read", "write"}, n \in 1 .. MaxChunks :
              Start(s, r, op, n)
  BY <1>4, StartInv
<1>5. CASE \E k \in aio : DiskCompletes(k) BY <1>5, DiskCompletesInv
<1>6. CASE Thread
  BY <1>6, PostInv, PollInv, DrainEventsInv, RDMADoneInv, ReapInv, SendCQEventInv DEF Thread
<1> QED BY <1>1, <1>2, <1>3, <1>4, <1>5, <1>6 DEF Next

\* The invariant holds throughout.
THEOREM Invariance == Spec => []IInv
BY InitInv, NextInv, PTL DEF Spec

\* completeRequest puts exactly one IOWorkerResponse into the ring for each request.
THEOREM AnsweredOnceHolds == Spec => []AnsweredOnce
<1>1. IInv => AnsweredOnce
  BY DEF IInv
<1> QED BY <1>1, Invariance, PTL

\* A request object is not released or reused while the disk works for it, unless a
\* communication error ended it in the disk phase.
THEOREM InFlightIsOwnedHolds == Spec => []InFlightIsOwned
<1>1. IInv => InFlightIsOwned
  <2> SUFFICES ASSUME IInv PROVE InFlightIsOwned
    OBVIOUS
  <2> USE DEF IInv
  <2>1. TypeOK
    <3>1. \A r \in Slots : slot[r].phase = "INIT" => pc.slot = r
      BY DEF Requests, Active
    <3>2. \A q, r \in Active : slot[q].sock = slot[r].sock => q = r
      BY DEF Requests
    <3> QED BY <3>1, <3>2 DEF TypeOK, Shape, SlotType, Phases, CQType, Status, PCType
  <2>2. \A k \in aio \cup {[slot |-> e.slot, id |-> e.id] : e \in aioDone} : Waits(k.slot, k.id)
    BY DEF InFlight
  <2> QED BY <2>1, <2>2 DEF InFlightIsOwned, Waits
<1> QED BY <1>1, Invariance, PTL

=============================================================================
