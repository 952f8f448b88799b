-------------------------- MODULE MirrorBuddyGroup --------------------------
(***************************************************************************)
(* The client's store of sequence numbers for one metadata buddy group     *)
(* (client_module/source/common/nodes/MirrorBuddyGroup.c).                 *)
(*                                                                         *)
(* A thread takes a slot of the semaphore slotsAvail, then, under mtx, a   *)
(* fresh number, which it appends to the binary heap seqNoInFlight.  With  *)
(* the number it gets an acknowledgement of finished numbers: the oldest   *)
(* one of the ring finishedSeqNums, or, when the ring is empty, everything *)
(* below the root of the heap.  Releasing a number moves it to the ring,   *)
(* to the root of the heap and out of it.                                  *)
(*                                                                         *)
(* The threads are anonymous.  A thread that has a number is that number   *)
(* (the keys of handle), one that waits for mtx with a slot in its hand is *)
(* counted in arrived, one that has released its number and not yet its    *)
(* slot is counted in leaving.  The arrays are indexed from 0 as in C; the *)
(* entries of seqNoInFlight from inFlightSize on are never read and are    *)
(* left out.                                                               *)
(***************************************************************************)
EXTENDS Naturals

CONSTANTS
    DoneBufferSize,   \* doneBufferSize: capacity of the heap and of the ring
    Bases,            \* bases the servers may set
    MaxSequence       \* bound: the last number that is handed out

ASSUME CapacityAssumption == DoneBufferSize \in Nat \ {0}
ASSUME BasesAssumption == Bases \subseteq Nat
ASSUME BoundAssumption == MaxSequence \in Nat

VARIABLES
    sequence,
    slotsAvail,
    seqNoInFlight,       \* the heap's values
    inFlightSize,
    handle,              \* for a number in flight, the index its back link names
    finishedSeqNums,     \* the ring
    firstFinishedIndex,
    finishedCount,
    acknowledged,        \* what the last acquired number acknowledged
    mtx,                 \* who is inside: nobody, or a release at some step
    arrived,
    leaving

heapVars == <<seqNoInFlight, inFlightSize, handle>>
ringVars == <<finishedSeqNums, firstFinishedIndex, finishedCount>>
semVars  == <<slotsAvail, arrived, leaving>>
vars == <<sequence, heapVars, ringVars, semVars, acknowledged, mtx>>

\* Index arithmetic of the ring.
Wrap(i) == i % DoneBufferSize

\* mtx is free.
Free == [step |-> "free", at |-> 0]

-----------------------------------------------------------------------------
\* MirrorBuddyGroup_constructFromTargetIDs
Init ==
    /\ sequence = 0
    /\ slotsAvail = DoneBufferSize
    /\ seqNoInFlight = [i \in {} |-> 0]
    /\ inFlightSize = 0
    /\ handle = [v \in {} |-> 0]
    /\ finishedSeqNums = [i \in 0..DoneBufferSize-1 |-> 0]
    /\ firstFinishedIndex = 0
    /\ finishedCount = 0
    /\ acknowledged = [selective |-> FALSE, upTo |-> 0]
    /\ mtx = Free
    /\ arrived = 0
    /\ leaving = 0

\* Mutant of TakeSlot: a thread goes on without having got a slot.
TakeSlotMutant ==
    /\ slotsAvail' = slotsAvail - 1
    /\ arrived' = arrived + 1
    /\ UNCHANGED <<sequence, heapVars, ringVars, leaving, acknowledged, mtx>>

\* down_killable or down_trylock.  A thread that finds no slot stays outside.
TakeSlot ==
    /\ slotsAvail > 0
    /\ slotsAvail' = slotsAvail - 1
    /\ arrived' = arrived + 1
    /\ UNCHANGED <<sequence, heapVars, ringVars, leaving, acknowledged, mtx>>

\* No server has set a base yet: ENOENT, the slot is given back under mtx.
AcquireWithoutBase ==
    /\ mtx = Free
    /\ arrived > 0
    /\ sequence = 0
    /\ arrived' = arrived - 1
    /\ slotsAvail' = slotsAvail + 1
    /\ UNCHANGED <<sequence, heapVars, ringVars, leaving, acknowledged, mtx>>

\* The new number, appended to the heap.
AppendInFlight(seqNo) ==
    /\ seqNoInFlight' = [i \in 0..inFlightSize |->
                            IF i = inFlightSize THEN seqNo ELSE seqNoInFlight[i]]
    /\ handle' = [v \in DOMAIN handle \cup {seqNo} |->
                     IF v = seqNo THEN inFlightSize ELSE handle[v]]
    /\ inFlightSize' = inFlightSize + 1

\* Mutant of Acknowledge: the acknowledged number stays counted in the ring.
AcknowledgeMutant ==
    IF finishedCount > 0
    THEN /\ acknowledged' = [selective |-> TRUE,
                             upTo |-> finishedSeqNums[firstFinishedIndex]]
         /\ firstFinishedIndex' = Wrap(firstFinishedIndex + 1)
         /\ UNCHANGED <<finishedSeqNums, finishedCount>>
    ELSE /\ acknowledged' = [selective |-> FALSE, upTo |-> seqNoInFlight'[0] - 1]
         /\ UNCHANGED ringVars

\* Mutant of Acknowledge: the root itself is acknowledged.
AcknowledgeRootMutant ==
    IF finishedCount > 0
    THEN /\ acknowledged' = [selective |-> TRUE,
                             upTo |-> finishedSeqNums[firstFinishedIndex]]
         /\ firstFinishedIndex' = Wrap(firstFinishedIndex + 1)
         /\ finishedCount' = finishedCount - 1
         /\ UNCHANGED finishedSeqNums
    ELSE /\ acknowledged' = [selective |-> FALSE, upTo |-> seqNoInFlight'[0]]
         /\ UNCHANGED ringVars

\* The acknowledgement that goes out with a new number.
Acknowledge ==
    IF finishedCount > 0
    THEN /\ acknowledged' = [selective |-> TRUE,
                             upTo |-> finishedSeqNums[firstFinishedIndex]]
         /\ firstFinishedIndex' = Wrap(firstFinishedIndex + 1)
         /\ finishedCount' = finishedCount - 1
         /\ UNCHANGED finishedSeqNums
    ELSE /\ acknowledged' = [selective |-> FALSE, upTo |-> seqNoInFlight'[0] - 1]
         /\ UNCHANGED ringVars

\* MirrorBuddyGroup_acquireSequenceNumber, the part under mtx.
AcquireSequenceNumber ==
    /\ mtx = Free
    /\ arrived > 0
    /\ sequence > 0
    /\ sequence < MaxSequence
    /\ sequence' = sequence + 1
    /\ AppendInFlight(sequence')
    /\ Acknowledge
    /\ arrived' = arrived - 1
    /\ UNCHANGED <<slotsAvail, leaving, mtx>>

-----------------------------------------------------------------------------
\* Mutant of PushFinished: off by one, the newest number is overwritten.
PushFinishedMutant(seqNo) ==
    /\ finishedCount' = finishedCount + 1
    /\ finishedSeqNums' =
          [finishedSeqNums EXCEPT
             ![Wrap(firstFinishedIndex + (IF finishedCount = 0 THEN 0 ELSE finishedCount - 1))]
                = seqNo]
    /\ UNCHANGED firstFinishedIndex

\* The finished number goes to the end of the ring, over the oldest one when
\* the ring is full.
PushFinished(seqNo) ==
    IF finishedCount < DoneBufferSize
    THEN /\ finishedCount' = finishedCount + 1
         /\ finishedSeqNums' =
               [finishedSeqNums EXCEPT
                  ![Wrap(firstFinishedIndex + finishedCount)] = seqNo]
         /\ UNCHANGED firstFinishedIndex
    ELSE /\ firstFinishedIndex' = Wrap(firstFinishedIndex + 1)
         /\ finishedSeqNums' = [finishedSeqNums EXCEPT ![firstFinishedIndex'] = seqNo]
         /\ UNCHANGED finishedCount

\* MirrorBuddyGroup_releaseSequenceNumber enters mtx for a number in flight.
ReleaseSequenceNumber(seqNo) ==
    /\ mtx = Free
    /\ PushFinished(seqNoInFlight[handle[seqNo]])
    /\ mtx' = [step |-> "up", at |-> handle[seqNo]]
    /\ UNCHANGED <<sequence, heapVars, semVars, acknowledged>>

\* Mutant of SwapEntries: only one of the two back links follows.
SwapEntriesMutant(i, j) ==
    /\ seqNoInFlight' = [seqNoInFlight EXCEPT ![i] = seqNoInFlight[j],
                                              ![j] = seqNoInFlight[i]]
    /\ handle' = [handle EXCEPT ![seqNoInFlight[j]] = i]

\* Exchange two entries of the heap, and let their back links follow them.
SwapEntries(i, j) ==
    /\ seqNoInFlight' = [seqNoInFlight EXCEPT ![i] = seqNoInFlight[j],
                                              ![j] = seqNoInFlight[i]]
    /\ handle' = [handle EXCEPT ![seqNoInFlight[j]] = i, ![seqNoInFlight[i]] = j]

\* The index that the way to the root goes to next.
ParentIndex(index) == index \div 2

\* One turn of the loop that moves the released entry to the root.
MoveUp ==
    /\ mtx.step = "up"
    /\ mtx.at # 0
    /\ SwapEntries(mtx.at, ParentIndex(mtx.at))
    /\ mtx' = [mtx EXCEPT !.at = ParentIndex(mtx.at)]
    /\ UNCHANGED <<sequence, inFlightSize, ringVars, semVars, acknowledged>>

\* The root, which is the released entry, trades places with the last entry
\* and leaves the heap.
RemoveRoot ==
    LET last == inFlightSize - 1
    IN  /\ mtx.step = "up"
        /\ mtx.at = 0
        /\ inFlightSize' = last
        /\ seqNoInFlight' = [i \in 0..last-1 |->
                                IF i = 0 THEN seqNoInFlight[last] ELSE seqNoInFlight[i]]
        /\ handle' = [v \in DOMAIN handle \ {seqNoInFlight[0]} |->
                         IF v = seqNoInFlight[last] THEN 0 ELSE handle[v]]
        /\ mtx' = [step |-> "down", at |-> 0]
        /\ UNCHANGED <<sequence, ringVars, semVars, acknowledged>>

LeftChild(i)  == 2 * i + 1
RightChild(i) == 2 * i + 2

\* The candidate c if it is in the heap and smaller than the best node so far.
Smaller(c, best) ==
    IF c < inFlightSize /\ seqNoInFlight[c] < seqNoInFlight[best] THEN c ELSE best

\* Of a node and its children, the one with the smallest number.
MinNode(i) ==
    IF inFlightSize = 0 THEN i
    ELSE Smaller(RightChild(i), Smaller(LeftChild(i), i))

\* One turn of the loop that moves the new root down.
MoveDown ==
    /\ mtx.step = "down"
    /\ MinNode(mtx.at) # mtx.at
    /\ SwapEntries(mtx.at, MinNode(mtx.at))
    /\ mtx' = [mtx EXCEPT !.at = MinNode(mtx.at)]
    /\ UNCHANGED <<sequence, inFlightSize, ringVars, semVars, acknowledged>>

\* The loop ends and mtx is unlocked ...
LeaveMtx ==
    /\ mtx.step = "down"
    /\ MinNode(mtx.at) = mtx.at
    /\ mtx' = Free
    /\ leaving' = leaving + 1
    /\ UNCHANGED <<sequence, heapVars, ringVars, slotsAvail, arrived, acknowledged>>

\* ... and only then the slot is given back.
ReturnSlot ==
    /\ leaving > 0
    /\ leaving' = leaving - 1
    /\ slotsAvail' = slotsAvail + 1
    /\ UNCHANGED <<sequence, heapVars, ringVars, arrived, acknowledged, mtx>>

\* Mutant of SetSeqNoBase: a base below the current number is taken too.
SetSeqNoBaseMutant(seqNoBase) ==
    /\ mtx = Free
    /\ sequence' = seqNoBase
    /\ UNCHANGED <<heapVars, ringVars, semVars, acknowledged, mtx>>

\* MirrorBuddyGroup_setSeqNoBase
SetSeqNoBase(seqNoBase) ==
    /\ mtx = Free
    /\ sequence < seqNoBase
    /\ sequence' = seqNoBase
    /\ UNCHANGED <<heapVars, ringVars, semVars, acknowledged, mtx>>

Next ==
    \/ TakeSlot
    \/ AcquireWithoutBase
    \/ AcquireSequenceNumber
    \/ \E seqNo \in DOMAIN handle : ReleaseSequenceNumber(seqNo)
    \/ MoveUp
    \/ RemoveRoot
    \/ MoveDown
    \/ LeaveMtx
    \/ ReturnSlot
    \/ \E seqNoBase \in Bases : SetSeqNoBase(seqNoBase)

Spec == Init /\ [][Next]_vars

-----------------------------------------------------------------------------
\* The numbers that are in flight: all of the heap but the entry that a release
\* has already put into the ring.
InFlight ==
    {seqNoInFlight[i] : i \in {k \in 0..inFlightSize-1 : mtx.step = "up" => k # mtx.at}}

\* The index of the k-th oldest number of the ring, from 0.
RingIndex(k) == Wrap(firstFinishedIndex + k)

\* The numbers in the ring.
Finished == {finishedSeqNums[RingIndex(k)] : k \in 0..finishedCount-1}

\* Every variable is of its type: no index leaves its array, and the semaphore its capacity.
TypeOK ==
    /\ sequence \in Nat
    /\ slotsAvail \in 0..DoneBufferSize
    /\ inFlightSize \in 0..DoneBufferSize
    /\ seqNoInFlight \in [0..inFlightSize-1 -> Nat]
    /\ DOMAIN handle \subseteq Nat
    /\ handle \in [DOMAIN handle -> 0..DoneBufferSize-1]
    /\ finishedSeqNums \in [0..DoneBufferSize-1 -> Nat]
    /\ firstFinishedIndex \in 0..DoneBufferSize-1
    /\ finishedCount \in 0..DoneBufferSize
    /\ acknowledged \in [selective : BOOLEAN, upTo : Nat]
    /\ mtx \in [step : {"free", "up", "down"}, at : 0..DoneBufferSize-1]
    /\ arrived \in 0..DoneBufferSize
    /\ leaving \in 0..DoneBufferSize

\* The back links that the swaps maintain name the entry of their number, at
\* every step of a release: a caller that releases through its handle removes
\* its own number and never that of another request.
BackLinks ==
    \A i \in 0..inFlightSize-1 :
        seqNoInFlight[i] \in DOMAIN handle /\ handle[seqNoInFlight[i]] = i

\* The semaphore alone keeps the ring from overflowing: numbers in flight and
\* finished numbers together never exceed the capacity, so a release never
\* overwrites a finished number that was not acknowledged.
RingHasRoom ==
    (IF mtx.step = "up" THEN inFlightSize - 1 ELSE inFlightSize) + finishedCount
        <= DoneBufferSize

\* A number is in flight or finished, never both, and it is in the ring once.
FinishedOnce ==
    /\ InFlight \cap Finished = {}
    /\ \A j, k \in 0..finishedCount-1 :
          j # k => finishedSeqNums[RingIndex(j)] # finishedSeqNums[RingIndex(k)]

\* The servers drop the cached response of an acknowledged number, so no
\* acknowledgement covers a number whose request is still being processed.
AckSparesInFlight ==
    \A v \in InFlight :
        IF acknowledged.selective THEN v # acknowledged.upTo ELSE v > acknowledged.upTo

\* A finished number leaves the ring only with the request that acknowledges it.
RingKeepsUntilAcked ==
    [][Finished \ Finished' \subseteq {acknowledged'.upTo}]_vars

\* This store keeps the promise of AckLedger.
Ledger ==
    INSTANCE AckLedger WITH
        next <- sequence, open <- InFlight, done <- Finished, ack <- acknowledged

ImplementsLedger == Ledger!Spec
=============================================================================
