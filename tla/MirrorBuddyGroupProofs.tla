----------------------- MODULE MirrorBuddyGroupProofs -----------------------
(***************************************************************************)
(* Proofs about MirrorBuddyGroup for every capacity, every set of bases    *)
(* and every bound on the numbers.                                         *)
(*                                                                         *)
(* The properties need four facts that they do not state themselves: the   *)
(* slots of the semaphore are all accounted for (SlotAccounting), the      *)
(* thread inside mtx works on an entry of the heap (MtxPosition), every    *)
(* handle names its own entry (HandlesInHeap), and every number known to   *)
(* the store was handed out (NumbersIssued), so that a new one is fresh.   *)
(*                                                                         *)
(* The promise of AckLedger needs the order of the heap in addition, which *)
(* is not kept at every capacity.  It is the one hypothesis (RootIsLeast)  *)
(* of the last two theorems.                                               *)
(***************************************************************************)
EXTENDS MirrorBuddyGroup, TLAPS

\* The slots of the numbers in flight and of the release that is about to leave mtx.
HeldSlots == IF mtx.step = "down" THEN inFlightSize + 1 ELSE inFlightSize

\* Every slot is free, or held by a thread that arrives, holds a number,
\* is inside mtx after its number left the heap, or is about to return it.
SlotAccounting == slotsAvail + arrived + leaving + HeldSlots = DoneBufferSize

\* The release inside mtx works on an entry of the heap.
MtxPosition ==
    /\ mtx.step = "free" => mtx = Free
    /\ mtx.step = "up" => mtx.at < inFlightSize
    /\ mtx.step = "down" => mtx.at = 0 \/ mtx.at < inFlightSize

\* Every handle names an entry of the heap, and the entry is its number's.
HandlesInHeap ==
    \A v \in DOMAIN handle : handle[v] \in 0..inFlightSize-1 /\ seqNoInFlight[handle[v]] = v

\* Every number in the heap and in the ring was handed out before.
NumbersIssued ==
    /\ \A i \in 0..inFlightSize-1 : seqNoInFlight[i] \in 1..sequence
    /\ \A k \in 0..finishedCount-1 : finishedSeqNums[RingIndex(k)] \in 1..sequence

\* FinishedOnce, entry by entry.
HeapAndRingApart ==
    \A i \in 0..inFlightSize-1, k \in 0..finishedCount-1 :
        (mtx.step = "up" => i # mtx.at) => seqNoInFlight[i] # finishedSeqNums[RingIndex(k)]

RingDistinct ==
    \A j, k \in 0..finishedCount-1 :
        j # k => finishedSeqNums[RingIndex(j)] # finishedSeqNums[RingIndex(k)]

\* The inductive invariant.
IInv ==
    /\ TypeOK
    /\ SlotAccounting
    /\ MtxPosition
    /\ BackLinks
    /\ HandlesInHeap
    /\ NumbersIssued
    /\ RingHasRoom
    /\ HeapAndRingApart
    /\ RingDistinct

-----------------------------------------------------------------------------
\* The index arithmetic of the ring without the remainder.
LEMMA WrapValue ==
    \A i \in 0..2*DoneBufferSize-1 :
        Wrap(i) = IF i < DoneBufferSize THEN i ELSE i - DoneBufferSize
<1> SUFFICES ASSUME NEW i \in 0..2*DoneBufferSize-1
             PROVE  i % DoneBufferSize = IF i < DoneBufferSize THEN i ELSE i - DoneBufferSize
  BY DEF Wrap
<1> USE CapacityAssumption
<1>1. CASE i < DoneBufferSize
  BY <1>1
<1>2. CASE i >= DoneBufferSize
  <2>1. (i - DoneBufferSize) \in 0..DoneBufferSize-1
    BY <1>2
  <2>2. i = 1 * DoneBufferSize + (i - DoneBufferSize)
    OBVIOUS
  <2> QED BY <1>2, <2>1, <2>2
<1> QED BY <1>1, <1>2

\* Every place of the ring is an entry of the array.
LEMMA WrapType ==
    \A i \in 0..2*DoneBufferSize-1 : Wrap(i) \in 0..DoneBufferSize-1
BY WrapValue, CapacityAssumption

\* Different places of the ring are different entries of the array.
LEMMA WrapInjective ==
    ASSUME NEW a \in 0..DoneBufferSize-1,
           NEW j \in 0..DoneBufferSize-1, NEW k \in 0..DoneBufferSize-1, j # k
    PROVE  Wrap(a + j) # Wrap(a + k)
BY WrapValue, CapacityAssumption

\* The ring shifted by one place: its k-th entry was the (k+1)-st.
LEMMA WrapShift ==
    ASSUME NEW a \in 0..DoneBufferSize-1, NEW k \in 0..DoneBufferSize-1
    PROVE  Wrap(Wrap(a + 1) + k) = Wrap(a + (k + 1))
BY WrapValue, CapacityAssumption

-----------------------------------------------------------------------------
\* The store as the constructor leaves it satisfies the invariant.
THEOREM InitInv == Init => IInv
BY CapacityAssumption DEF Init, IInv, TypeOK, SlotAccounting, MtxPosition, BackLinks,
   HandlesInHeap, NumbersIssued, RingHasRoom, HeapAndRingApart, RingDistinct, Free, HeldSlots

\* The counts of slots are natural numbers.
LEMMA HeldSlotsType ==
    ASSUME TypeOK
    PROVE  slotsAvail \in Nat /\ arrived \in Nat /\ leaving \in Nat /\ HeldSlots \in Nat
<1>1. /\ slotsAvail \in 0..DoneBufferSize /\ inFlightSize \in 0..DoneBufferSize
      /\ arrived \in 0..DoneBufferSize /\ leaving \in 0..DoneBufferSize
  BY Zenon DEF TypeOK
<1> QED BY <1>1, CapacityAssumption DEF HeldSlots

\* down(&slotsAvail) keeps the invariant.
LEMMA TakeSlotInv == IInv /\ TakeSlot => IInv'
<1> SUFFICES ASSUME IInv, TakeSlot PROVE IInv'
  OBVIOUS
<1> USE CapacityAssumption DEF TakeSlot, heapVars, ringVars, IInv
<1>1. slotsAvail \in Nat /\ arrived \in Nat /\ leaving \in Nat /\ HeldSlots \in Nat
  BY HeldSlotsType, Zenon
<1>2. HeldSlots' = HeldSlots BY DEF HeldSlots
<1>3. SlotAccounting' BY <1>1, <1>2 DEF SlotAccounting
<1>4. slotsAvail' \in 0..DoneBufferSize /\ arrived' \in 0..DoneBufferSize
  BY <1>1, <1>2 DEF SlotAccounting
<1>5. TypeOK' BY <1>4, Zenon DEF TypeOK
<1>6. (MtxPosition /\ BackLinks /\ HandlesInHeap)'
  BY DEF MtxPosition, BackLinks, HandlesInHeap
<1>7. (NumbersIssued /\ RingHasRoom /\ HeapAndRingApart /\ RingDistinct)'
  BY DEF NumbersIssued, RingHasRoom, HeapAndRingApart, RingDistinct, RingIndex
<1> QED BY <1>3, <1>5, <1>6, <1>7

\* An acquire before a server has set the base gives its slot back later.
LEMMA AcquireWithoutBaseInv == IInv /\ AcquireWithoutBase => IInv'
<1> SUFFICES ASSUME IInv, AcquireWithoutBase PROVE IInv'
  OBVIOUS
<1> USE CapacityAssumption DEF AcquireWithoutBase, heapVars, ringVars, IInv
<1>1. slotsAvail \in Nat /\ arrived \in Nat /\ leaving \in Nat /\ HeldSlots \in Nat
  BY HeldSlotsType, Zenon
<1>2. HeldSlots' = HeldSlots BY DEF HeldSlots
<1>3. SlotAccounting' BY <1>1, <1>2 DEF SlotAccounting
<1>4. slotsAvail' \in 0..DoneBufferSize /\ arrived' \in 0..DoneBufferSize
  BY <1>1, <1>2 DEF SlotAccounting
<1>5. TypeOK' BY <1>4, Zenon DEF TypeOK
<1>6. (MtxPosition /\ BackLinks /\ HandlesInHeap)'
  BY DEF MtxPosition, BackLinks, HandlesInHeap
<1>7. (NumbersIssued /\ RingHasRoom /\ HeapAndRingApart /\ RingDistinct)'
  BY DEF NumbersIssued, RingHasRoom, HeapAndRingApart, RingDistinct, RingIndex
<1> QED BY <1>3, <1>5, <1>6, <1>7

\* up(&slotsAvail) keeps the invariant.
LEMMA ReturnSlotInv == IInv /\ ReturnSlot => IInv'
<1> SUFFICES ASSUME IInv, ReturnSlot PROVE IInv'
  OBVIOUS
<1> USE CapacityAssumption DEF ReturnSlot, heapVars, ringVars, IInv
<1>1. slotsAvail \in Nat /\ arrived \in Nat /\ leaving \in Nat /\ HeldSlots \in Nat
  BY HeldSlotsType, Zenon
<1>2. HeldSlots' = HeldSlots BY DEF HeldSlots
<1>3. SlotAccounting' BY <1>1, <1>2 DEF SlotAccounting
<1>4. slotsAvail' \in 0..DoneBufferSize /\ leaving' \in 0..DoneBufferSize
  BY <1>1, <1>2 DEF SlotAccounting
<1>5. TypeOK' BY <1>4, Zenon DEF TypeOK
<1>6. (MtxPosition /\ BackLinks /\ HandlesInHeap)'
  BY DEF MtxPosition, BackLinks, HandlesInHeap
<1>7. (NumbersIssued /\ RingHasRoom /\ HeapAndRingApart /\ RingDistinct)'
  BY DEF NumbersIssued, RingHasRoom, HeapAndRingApart, RingDistinct, RingIndex
<1> QED BY <1>3, <1>5, <1>6, <1>7

\* The end of the sift-down keeps the invariant.
LEMMA LeaveMtxInv == IInv /\ LeaveMtx => IInv'
<1> SUFFICES ASSUME IInv, LeaveMtx PROVE IInv'
  OBVIOUS
<1> USE CapacityAssumption DEF LeaveMtx, heapVars, ringVars, IInv
<1>1. /\ slotsAvail \in Nat /\ arrived \in Nat /\ leaving \in Nat /\ inFlightSize \in Nat
      /\ mtx'.step = "free"
  BY DEF TypeOK, Free
<1>2. HeldSlots = inFlightSize + 1 /\ HeldSlots' = inFlightSize
  BY <1>1 DEF HeldSlots
<1>3. SlotAccounting' BY <1>1, <1>2 DEF SlotAccounting
<1>4. leaving' \in 0..DoneBufferSize
  BY <1>1, <1>2 DEF SlotAccounting
<1>5. TypeOK'
  <2>1. mtx' \in [step : {"free", "up", "down"}, at : 0..DoneBufferSize-1]
    BY DEF Free
  <2> QED BY <1>4, <2>1, Zenon DEF TypeOK
<1>6. (MtxPosition /\ BackLinks /\ HandlesInHeap)'
  BY <1>1 DEF MtxPosition, BackLinks, HandlesInHeap
<1>7. (NumbersIssued /\ RingHasRoom /\ HeapAndRingApart /\ RingDistinct)'
  BY <1>1 DEF NumbersIssued, RingHasRoom, HeapAndRingApart, RingDistinct, RingIndex
<1> QED BY <1>3, <1>5, <1>6, <1>7

\* A new base raises the next number only.
LEMMA SetSeqNoBaseInv ==
    ASSUME IInv, NEW base \in Bases, SetSeqNoBase(base) PROVE IInv'
<1> USE CapacityAssumption, BasesAssumption
    DEF SetSeqNoBase, heapVars, ringVars, semVars, IInv
<1>1. sequence \in Nat /\ sequence' \in Nat /\ sequence < sequence'
  BY DEF TypeOK
<1>2. (SlotAccounting /\ MtxPosition /\ BackLinks /\ HandlesInHeap)'
  BY DEF SlotAccounting, HeldSlots, MtxPosition, BackLinks, HandlesInHeap
<1>3. TypeOK' BY <1>1, Zenon DEF TypeOK
<1>4. NumbersIssued'
  BY <1>1 DEF NumbersIssued, RingIndex
<1>5. (RingHasRoom /\ HeapAndRingApart /\ RingDistinct)'
  BY DEF RingHasRoom, HeapAndRingApart, RingDistinct, RingIndex
<1> QED BY <1>2, <1>3, <1>4, <1>5

-----------------------------------------------------------------------------
\* No two entries of the heap hold the same number.
LEMMA HeapInjective ==
    ASSUME BackLinks PROVE
    \A i, j \in 0..inFlightSize-1 : i # j => seqNoInFlight[i] # seqNoInFlight[j]
BY DEF BackLinks

\* A swap permutes the heap and keeps numbers and handles in step.
LEMMA SwapEntriesKeepsLinks ==
    ASSUME TypeOK, BackLinks, HandlesInHeap,
           NEW i \in 0..inFlightSize-1, NEW j \in 0..inFlightSize-1, i # j,
           SwapEntries(i, j), inFlightSize' = inFlightSize
    PROVE  /\ seqNoInFlight' \in [0..inFlightSize-1 -> Nat]
           /\ DOMAIN handle' = DOMAIN handle
           /\ handle' \in [DOMAIN handle -> 0..DoneBufferSize-1]
           /\ \A k \in 0..inFlightSize-1 :
                 seqNoInFlight'[k] = IF k = i THEN seqNoInFlight[j]
                                     ELSE IF k = j THEN seqNoInFlight[i]
                                     ELSE seqNoInFlight[k]
           /\ BackLinks' /\ HandlesInHeap'
<1>1. /\ seqNoInFlight \in [0..inFlightSize-1 -> Nat]
      /\ handle \in [DOMAIN handle -> 0..DoneBufferSize-1]
      /\ 0..inFlightSize-1 \subseteq 0..DoneBufferSize-1
  <2>1. inFlightSize \in 0..DoneBufferSize BY DEF TypeOK
  <2>2. 0..inFlightSize-1 \subseteq 0..DoneBufferSize-1 BY <2>1, CapacityAssumption
  <2>3. seqNoInFlight \in [0..inFlightSize-1 -> Nat] BY Zenon DEF TypeOK
  <2>4. handle \in [DOMAIN handle -> 0..DoneBufferSize-1] BY Zenon DEF TypeOK
  <2> QED BY <2>2, <2>3, <2>4, Zenon
<1>2. \A k \in 0..inFlightSize-1 :
         seqNoInFlight'[k] = IF k = i THEN seqNoInFlight[j]
                             ELSE IF k = j THEN seqNoInFlight[i]
                             ELSE seqNoInFlight[k]
  BY <1>1 DEF SwapEntries
<1>3. seqNoInFlight' \in [0..inFlightSize-1 -> Nat]
  BY <1>1 DEF SwapEntries
<1>4. seqNoInFlight[i] \in DOMAIN handle /\ seqNoInFlight[j] \in DOMAIN handle
  BY DEF BackLinks
<1>5. /\ DOMAIN handle' = DOMAIN handle
      /\ handle' \in [DOMAIN handle -> 0..DoneBufferSize-1]
  BY <1>1, <1>4 DEF SwapEntries
<1>6. \A v \in DOMAIN handle :
         handle'[v] = IF v = seqNoInFlight[i] THEN j
                      ELSE IF v = seqNoInFlight[j] THEN i ELSE handle[v]
  BY <1>1, <1>4, HeapInjective DEF SwapEntries
<1>7. BackLinks'
  BY <1>2, <1>5, <1>6, HeapInjective DEF BackLinks
<1>8. HandlesInHeap'
  BY <1>2, <1>5, <1>6, HeapInjective DEF BackLinks, HandlesInHeap
<1> QED BY <1>2, <1>3, <1>5, <1>7, <1>8

\* The index that a sift-up step moves to is below the one it leaves.
LEMMA ParentBelow == \A n \in Nat \ {0} : ParentIndex(n) \in 0..n-1
BY DEF ParentIndex

\* One step of the sift-up keeps the invariant.
LEMMA MoveUpInv == IInv /\ MoveUp => IInv'
<1> SUFFICES ASSUME IInv, MoveUp PROVE IInv'
  OBVIOUS
<1> USE DEF MoveUp, ringVars, semVars, IInv
<1> DEFINE p == ParentIndex(mtx.at)
<1>1. mtx.at \in 0..inFlightSize-1 /\ mtx.at # 0 /\ inFlightSize \in 0..DoneBufferSize
  BY DEF MtxPosition, TypeOK
<1>2. p \in 0..mtx.at-1
  BY <1>1, ParentBelow
<1>3. p \in 0..inFlightSize-1 /\ p # mtx.at /\ p \in 0..DoneBufferSize-1
  BY <1>1, <1>2, CapacityAssumption
<1>4. mtx'.step = "up" /\ mtx'.at = p
  BY DEF TypeOK
<1> HIDE DEF p
<1>5. /\ seqNoInFlight' \in [0..inFlightSize-1 -> Nat]
      /\ DOMAIN handle' = DOMAIN handle
      /\ handle' \in [DOMAIN handle -> 0..DoneBufferSize-1]
      /\ \A k \in 0..inFlightSize-1 :
            seqNoInFlight'[k] = IF k = mtx.at THEN seqNoInFlight[p]
                                ELSE IF k = p THEN seqNoInFlight[mtx.at]
                                ELSE seqNoInFlight[k]
      /\ BackLinks' /\ HandlesInHeap'
  BY <1>1, <1>3, SwapEntriesKeepsLinks DEF p
<1>6. TypeOK'
  BY <1>1, <1>3, <1>5, Zenon DEF TypeOK, p
<1>7. (SlotAccounting /\ MtxPosition /\ RingHasRoom)'
  BY <1>3, <1>4, <1>1 DEF SlotAccounting, HeldSlots, MtxPosition, RingHasRoom
<1>8. NumbersIssued'
  BY <1>1, <1>3, <1>5 DEF NumbersIssued, RingIndex
<1>9. (HeapAndRingApart /\ RingDistinct)'
  BY <1>1, <1>3, <1>4, <1>5 DEF HeapAndRingApart, RingDistinct, RingIndex
<1> QED BY <1>5, <1>6, <1>7, <1>8, <1>9

\* A node that MinNode prefers is another entry of the heap.
LEMMA MinNodeInHeap ==
    ASSUME NEW i \in Nat, inFlightSize \in Nat, MinNode(i) # i
    PROVE  MinNode(i) \in 0..inFlightSize-1 /\ inFlightSize # 0
BY DEF MinNode, Smaller, LeftChild, RightChild

\* One step of the sift-down keeps the invariant.
LEMMA MoveDownInv == IInv /\ MoveDown => IInv'
<1> SUFFICES ASSUME IInv, MoveDown PROVE IInv'
  OBVIOUS
<1> USE DEF MoveDown, ringVars, semVars, IInv
<1> DEFINE m == MinNode(mtx.at)
<1>1. mtx.at \in Nat /\ inFlightSize \in 0..DoneBufferSize
  BY DEF TypeOK
<1>2. m \in 0..inFlightSize-1 /\ m # mtx.at /\ m \in 0..DoneBufferSize-1 /\ inFlightSize # 0
  BY <1>1, MinNodeInHeap, CapacityAssumption
<1>3. mtx.at \in 0..inFlightSize-1
  BY <1>1, <1>2 DEF MtxPosition
<1>4. mtx'.step = "down" /\ mtx'.at = m
  BY DEF TypeOK
<1> HIDE DEF m
<1>5. /\ seqNoInFlight' \in [0..inFlightSize-1 -> Nat]
      /\ DOMAIN handle' = DOMAIN handle
      /\ handle' \in [DOMAIN handle -> 0..DoneBufferSize-1]
      /\ \A k \in 0..inFlightSize-1 :
            seqNoInFlight'[k] = IF k = mtx.at THEN seqNoInFlight[m]
                                ELSE IF k = m THEN seqNoInFlight[mtx.at]
                                ELSE seqNoInFlight[k]
      /\ BackLinks' /\ HandlesInHeap'
  BY <1>2, <1>3, SwapEntriesKeepsLinks DEF m
<1>6. TypeOK'
  BY <1>2, <1>5, Zenon DEF TypeOK, m
<1>7. (SlotAccounting /\ MtxPosition /\ RingHasRoom)'
  BY <1>1, <1>2, <1>4 DEF SlotAccounting, HeldSlots, MtxPosition, RingHasRoom
<1>8. NumbersIssued'
  BY <1>2, <1>3, <1>5 DEF NumbersIssued, RingIndex
<1>9. (HeapAndRingApart /\ RingDistinct)'
  BY <1>2, <1>3, <1>4, <1>5 DEF HeapAndRingApart, RingDistinct, RingIndex
<1> QED BY <1>5, <1>6, <1>7, <1>8, <1>9

\* Removing the root keeps the invariant.
LEMMA RemoveRootInv == IInv /\ RemoveRoot => IInv'
<1> SUFFICES ASSUME IInv, RemoveRoot PROVE IInv'
  OBVIOUS
<1> USE DEF IInv
<1> DEFINE last == inFlightSize - 1
<1>1. last \in 0..DoneBufferSize-1 /\ inFlightSize \in Nat
  BY CapacityAssumption DEF TypeOK, MtxPosition, RemoveRoot
<1>2. inFlightSize' = last /\ mtx' = [step |-> "down", at |-> 0]
  BY DEF RemoveRoot
<1>3. UNCHANGED <<sequence, finishedSeqNums, firstFinishedIndex, finishedCount,
                  slotsAvail, arrived, leaving, acknowledged>>
  BY DEF RemoveRoot, ringVars, semVars
<1>4. \A i \in 0..last-1 :
         seqNoInFlight'[i] = IF i = 0 THEN seqNoInFlight[last] ELSE seqNoInFlight[i]
  BY DEF RemoveRoot
<1>5. seqNoInFlight' \in [0..last-1 -> Nat]
  <2>1. seqNoInFlight \in [0..inFlightSize-1 -> Nat]
    BY DEF TypeOK
  <2> QED BY <1>1, <2>1 DEF RemoveRoot
<1>6. /\ DOMAIN handle' = DOMAIN handle \ {seqNoInFlight[0]}
      /\ \A v \in DOMAIN handle' :
            handle'[v] = IF v = seqNoInFlight[last] THEN 0 ELSE handle[v]
  BY DEF RemoveRoot
<1>7. handle' \in [DOMAIN handle' -> 0..DoneBufferSize-1]
  BY <1>1, CapacityAssumption, Zenon DEF RemoveRoot, TypeOK
<1>8. TypeOK'
  <2>1. inFlightSize' \in 0..DoneBufferSize
    BY <1>1, <1>2, CapacityAssumption
  <2>2. seqNoInFlight' \in [0..inFlightSize'-1 -> Nat]
    BY <1>2, <1>5
  <2>3. DOMAIN handle' \subseteq Nat
    BY <1>6 DEF TypeOK
  <2>4. mtx' \in [step : {"free", "up", "down"}, at : 0..DoneBufferSize-1]
    BY <1>2, CapacityAssumption
  <2> QED BY <1>3, <1>7, <2>1, <2>2, <2>3, <2>4, Zenon DEF TypeOK
<1>9. BackLinks'
  BY <1>1, <1>2, <1>4, <1>6, HeapInjective DEF BackLinks
<1>10. HandlesInHeap'
  BY <1>1, <1>2, <1>4, <1>6, HeapInjective DEF BackLinks, HandlesInHeap
<1>11. SlotAccounting'
  <2>1. mtx.step = "up" BY DEF RemoveRoot
  <2>2. HeldSlots' = HeldSlots BY <1>1, <1>2, <2>1 DEF HeldSlots
  <2> QED BY <1>3, <2>2 DEF SlotAccounting
<1>12. (MtxPosition /\ RingHasRoom)'
  BY <1>1, <1>2, <1>3 DEF MtxPosition, RingHasRoom, RemoveRoot
<1>13. NumbersIssued'
  BY <1>1, <1>2, <1>3, <1>4 DEF NumbersIssued, RingIndex
<1>14. (HeapAndRingApart /\ RingDistinct)'
  BY <1>1, <1>2, <1>3, <1>4 DEF HeapAndRingApart, RingDistinct, RingIndex, RemoveRoot
<1> QED BY <1>8, <1>9, <1>10, <1>11, <1>12, <1>13, <1>14

\* The first part of a release, which puts the number into the ring, keeps the invariant.
LEMMA ReleaseSequenceNumberInv ==
    ASSUME IInv, NEW seqNo \in DOMAIN handle, ReleaseSequenceNumber(seqNo) PROVE IInv'
<1> USE DEF IInv
<1> DEFINE at == handle[seqNo]
           end == RingIndex(finishedCount)
<1>1. /\ inFlightSize \in 0..DoneBufferSize /\ finishedCount \in 0..DoneBufferSize
      /\ firstFinishedIndex \in 0..DoneBufferSize-1
      /\ finishedSeqNums \in [0..DoneBufferSize-1 -> Nat]
  BY DEF TypeOK
<1>2. at \in 0..inFlightSize-1 /\ at \in 0..DoneBufferSize-1 /\ seqNoInFlight[at] \in Nat
  BY CapacityAssumption DEF TypeOK, HandlesInHeap
<1>3. mtx.step = "free" /\ mtx' = [step |-> "up", at |-> at]
  BY DEF ReleaseSequenceNumber, Free
<1>4. finishedCount < DoneBufferSize
  BY <1>1, <1>2, <1>3, CapacityAssumption DEF RingHasRoom
<1>5. /\ finishedCount' = finishedCount + 1 /\ firstFinishedIndex' = firstFinishedIndex
      /\ finishedSeqNums' = [finishedSeqNums EXCEPT ![end] = seqNoInFlight[at]]
  BY <1>4 DEF ReleaseSequenceNumber, PushFinished, RingIndex
<1>6. UNCHANGED <<sequence, seqNoInFlight, inFlightSize, handle, slotsAvail, arrived,
                  leaving, acknowledged>>
  BY DEF ReleaseSequenceNumber, heapVars, semVars
<1>7. \A k \in 0..finishedCount : RingIndex(k) \in 0..DoneBufferSize-1 /\ RingIndex(k)' = RingIndex(k)
  BY <1>1, <1>4, <1>5, WrapType, CapacityAssumption DEF RingIndex
<1>8. ASSUME NEW k \in 0..finishedCount-1 PROVE RingIndex(k) # end
  <2>1. k \in 0..DoneBufferSize-1 /\ finishedCount \in 0..DoneBufferSize-1 /\ k # finishedCount
    BY <1>1, <1>4, CapacityAssumption
  <2> QED BY <1>1, <2>1, WrapInjective DEF RingIndex
<1>9. end \in 0..DoneBufferSize-1
  BY <1>1, <1>7
<1> HIDE DEF at, end
<1>10. finishedSeqNums'[end] = seqNoInFlight[at]
  BY <1>1, <1>5, <1>9
<1>11. \A k \in 0..finishedCount-1 :
          finishedSeqNums'[RingIndex(k)] = finishedSeqNums[RingIndex(k)]
  BY <1>1, <1>5, <1>7, <1>8, <1>9
<1>12. TypeOK'
  <2>1. finishedSeqNums' \in [0..DoneBufferSize-1 -> Nat]
    BY <1>1, <1>2, <1>5, <1>9
  <2>2. finishedCount' \in 0..DoneBufferSize
    BY <1>1, <1>4, <1>5, CapacityAssumption
  <2> QED BY <1>2, <1>3, <1>5, <1>6, <2>1, <2>2, Zenon DEF TypeOK
<1>13. (SlotAccounting /\ MtxPosition)'
  <2>1. mtx'.step = "up" /\ mtx'.at = at BY <1>3
  <2>2. HeldSlots' = HeldSlots BY <1>3, <1>6, <2>1 DEF HeldSlots
  <2>3. MtxPosition' BY <1>1, <1>2, <1>6, <2>1 DEF MtxPosition
  <2> QED BY <1>6, <2>2, <2>3 DEF SlotAccounting
<1>14. (BackLinks /\ HandlesInHeap)'
  BY <1>6 DEF BackLinks, HandlesInHeap
<1>15. RingHasRoom'
  BY <1>1, <1>3, <1>5, <1>6, CapacityAssumption DEF RingHasRoom
<1>16. \A k \in 0..finishedCount'-1 :
          finishedSeqNums'[RingIndex(k)'] = IF k = finishedCount THEN seqNoInFlight[at]
                                            ELSE finishedSeqNums[RingIndex(k)]
  BY <1>1, <1>5, <1>7, <1>10, <1>11 DEF end
<1>17. NumbersIssued'
  BY <1>1, <1>2, <1>5, <1>6, <1>16 DEF NumbersIssued
<1>18. HeapAndRingApart'
  BY <1>1, <1>2, <1>3, <1>5, <1>6, <1>16, HeapInjective DEF HeapAndRingApart
<1>19. RingDistinct'
  BY <1>1, <1>2, <1>3, <1>5, <1>16 DEF RingDistinct, HeapAndRingApart
<1> QED BY <1>12, <1>13, <1>14, <1>15, <1>17, <1>18, <1>19

\* An acquire keeps the invariant.
LEMMA AcquireSequenceNumberInv == IInv /\ AcquireSequenceNumber => IInv'
<1> SUFFICES ASSUME IInv, AcquireSequenceNumber PROVE IInv'
  OBVIOUS
<1> USE DEF IInv
<1> DEFINE n == inFlightSize
           seqNo == sequence + 1
<1>1. /\ sequence \in Nat /\ seqNo \in Nat /\ n \in Nat
      /\ finishedCount \in Nat /\ finishedCount <= DoneBufferSize /\ DoneBufferSize \in Nat
      /\ firstFinishedIndex \in 0..DoneBufferSize-1
      /\ finishedSeqNums \in [0..DoneBufferSize-1 -> Nat]
      /\ seqNoInFlight \in [0..n-1 -> Nat]
  BY CapacityAssumption DEF TypeOK
<1>2. mtx.step = "free" /\ UNCHANGED <<slotsAvail, leaving, mtx>>
  BY DEF AcquireSequenceNumber, Free
<1>3. sequence' = seqNo /\ arrived > 0 /\ arrived' = arrived - 1 /\ inFlightSize' = n + 1
  BY DEF AcquireSequenceNumber, AppendInFlight
<1>4. n < DoneBufferSize
  <2>1. HeldSlots = n BY <1>2 DEF HeldSlots
  <2>2. slotsAvail \in Nat /\ arrived \in Nat /\ leaving \in Nat BY DEF TypeOK
  <2> QED BY <1>1, <1>3, <2>1, <2>2, CapacityAssumption DEF SlotAccounting
<1>5. SlotAccounting'
  <2>1. HeldSlots = n /\ HeldSlots' = n + 1 BY <1>2, <1>3 DEF HeldSlots
  <2>2. slotsAvail \in Nat /\ arrived \in Nat /\ leaving \in Nat BY DEF TypeOK
  <2> QED BY <1>1, <1>2, <1>3, <2>1, <2>2, CapacityAssumption DEF SlotAccounting
<1>6. /\ seqNoInFlight' = [i \in 0..n |-> IF i = n THEN seqNo ELSE seqNoInFlight[i]]
      /\ handle' = [v \in DOMAIN handle \cup {seqNo} |-> IF v = seqNo THEN n ELSE handle[v]]
  BY <1>3 DEF AcquireSequenceNumber, AppendInFlight
<1>7. Acknowledge
  BY DEF AcquireSequenceNumber
<1> HIDE DEF n, seqNo
<1>8. \A i \in 0..n-1 : seqNoInFlight[i] # seqNo /\ seqNoInFlight[i] \in Nat
  BY <1>1 DEF NumbersIssued, n, seqNo
<1>9. seqNo \notin DOMAIN handle
  BY <1>1, <1>8 DEF HandlesInHeap, n
<1>10. BackLinks'
  BY <1>1, <1>3, <1>6, <1>8 DEF BackLinks, n
<1>11. HandlesInHeap'
  BY <1>1, <1>3, <1>6, <1>9 DEF HandlesInHeap, n
<1>12. \A i \in 0..n : seqNoInFlight'[i] \in 1..seqNo
  BY <1>1, <1>6 DEF NumbersIssued, n, seqNo
<1>13. /\ finishedSeqNums' = finishedSeqNums
       /\ finishedCount' \in Nat
       /\ firstFinishedIndex' \in 0..DoneBufferSize-1
       /\ finishedCount > 0 => finishedCount' = finishedCount - 1
       /\ finishedCount = 0 => finishedCount' = 0
  <2>1. CASE finishedCount > 0
    <3>1. firstFinishedIndex' \in 0..DoneBufferSize-1
      <4>1. firstFinishedIndex + 1 \in 0..2*DoneBufferSize-1
        BY <1>1, CapacityAssumption
      <4> QED BY <1>7, <2>1, <4>1, WrapType DEF Acknowledge
    <3> QED BY <1>1, <1>7, <2>1, <3>1 DEF Acknowledge
  <2>2. CASE ~(finishedCount > 0)
    BY <1>1, <1>7, <2>2 DEF Acknowledge, ringVars
  <2> QED BY <2>1, <2>2
<1>14. ASSUME NEW k \in 0..finishedCount'-1
       PROVE  /\ k + 1 \in 0..finishedCount-1
              /\ RingIndex(k)' = RingIndex(k + 1)
  <2>1. finishedCount \in Nat /\ finishedCount <= DoneBufferSize /\ DoneBufferSize \in Nat
    BY <1>1
  <2>2. finishedCount > 0
    <3>1. ASSUME finishedCount = 0 PROVE FALSE
      <4>1. finishedCount' = 0 BY <1>13, <3>1
      <4> QED BY <4>1
    <3> QED BY <2>1, <3>1
  <2>3. finishedCount' = finishedCount - 1
    BY <1>13, <2>2
  <2>4. finishedCount > 0 /\ k \in 0..DoneBufferSize-1 /\ k + 1 \in 0..finishedCount-1
    BY <2>1, <2>2, <2>3
  <2>5. firstFinishedIndex' = Wrap(firstFinishedIndex + 1)
    BY <1>7, <2>4 DEF Acknowledge
  <2> QED BY <1>1, <2>4, <2>5, WrapShift DEF RingIndex
<1>15. acknowledged' \in [selective : BOOLEAN, upTo : Nat]
  <2>1. CASE finishedCount > 0
    <3>1. finishedSeqNums[firstFinishedIndex] \in Nat BY <1>1
    <3>2. acknowledged' = [selective |-> TRUE, upTo |-> finishedSeqNums[firstFinishedIndex]]
      BY <1>7, <2>1 DEF Acknowledge
    <3> QED BY <3>1, <3>2, Zenon
  <2>2. CASE ~(finishedCount > 0)
    <3>1. seqNoInFlight'[0] - 1 \in Nat BY <1>1, <1>12
    <3>2. acknowledged' = [selective |-> FALSE, upTo |-> seqNoInFlight'[0] - 1]
      BY <1>7, <2>2 DEF Acknowledge
    <3> QED BY <3>1, <3>2, Zenon
  <2> QED BY <2>1, <2>2
<1>16. TypeOK'
  <2>1. inFlightSize' \in 0..DoneBufferSize
    BY <1>1, <1>3, <1>4, CapacityAssumption DEF n
  <2>2. seqNoInFlight' \in [0..inFlightSize'-1 -> Nat]
    <3>1. 0..inFlightSize'-1 = 0..n BY <1>1, <1>3 DEF n
    <3>2. \A i \in 0..n : seqNoInFlight'[i] \in Nat BY <1>1, <1>12
    <3> QED BY <1>6, <3>1, <3>2, Zenon
  <2>3. DOMAIN handle' \subseteq Nat /\ DOMAIN handle' = DOMAIN handle \cup {seqNo}
    BY <1>1, <1>6, Zenon DEF TypeOK
  <2>4. handle' \in [DOMAIN handle' -> 0..DoneBufferSize-1]
    <3>1. n \in 0..DoneBufferSize-1 BY <1>1, <1>4, CapacityAssumption
    <3> QED BY <1>6, <3>1 DEF TypeOK
  <2>5. finishedCount' \in 0..DoneBufferSize /\ arrived' \in 0..DoneBufferSize
    <3>1. arrived \in 0..DoneBufferSize BY DEF TypeOK
    <3> QED BY <1>1, <1>3, <1>13, <3>1
  <2>6. sequence' \in Nat /\ UNCHANGED <<slotsAvail, leaving, mtx>>
    BY <1>1, <1>2, <1>3
  <2> QED BY <1>13, <1>15, <2>1, <2>2, <2>3, <2>4, <2>5, <2>6, Zenon DEF TypeOK
<1>17. MtxPosition'
  BY <1>2 DEF MtxPosition
<1>18. RingHasRoom'
  <2>1. n + finishedCount <= DoneBufferSize BY <1>2 DEF RingHasRoom, n
  <2>2. n \in Nat /\ finishedCount \in Nat /\ DoneBufferSize \in Nat BY <1>1
  <2>3. CASE finishedCount > 0
    <3>1. finishedCount' = finishedCount - 1 BY <1>13, <2>3
    <3>2. n + 1 + finishedCount' <= DoneBufferSize BY <2>1, <2>2, <3>1
    <3> QED BY <1>2, <1>3, <3>2 DEF RingHasRoom
  <2>4. CASE finishedCount = 0
    <3>1. finishedCount' = 0 BY <1>13, <2>4
    <3>2. n + 1 + finishedCount' <= DoneBufferSize BY <1>4, <2>2, <3>1
    <3> QED BY <1>2, <1>3, <3>2 DEF RingHasRoom
  <2> QED BY <2>2, <2>3, <2>4
<1>19. NumbersIssued'
  <2>1. \A i \in 0..inFlightSize'-1 : seqNoInFlight'[i] \in 1..sequence'
    BY <1>1, <1>3, <1>12 DEF n
  <2>2. ASSUME NEW k \in 0..finishedCount'-1
        PROVE  finishedSeqNums'[RingIndex(k)'] \in 1..sequence'
    <3>1. finishedSeqNums[RingIndex(k + 1)] \in 1..sequence
      BY <1>14 DEF NumbersIssued
    <3>2. finishedSeqNums'[RingIndex(k)'] = finishedSeqNums[RingIndex(k + 1)]
      BY <1>13, <1>14, Zenon
    <3>3. 1..sequence \subseteq 1..sequence' BY <1>1, <1>3 DEF seqNo
    <3> QED BY <3>1, <3>2, <3>3
  <2> QED BY <2>1, <2>2 DEF NumbersIssued
<1>20. RingDistinct'
  <2> SUFFICES ASSUME NEW j \in 0..finishedCount'-1, NEW k \in 0..finishedCount'-1, j # k
               PROVE  finishedSeqNums'[RingIndex(j)'] # finishedSeqNums'[RingIndex(k)']
    BY DEF RingDistinct
  <2>1. j + 1 # k + 1 BY <1>13
  <2> QED BY <1>13, <1>14, <2>1, Zenon DEF RingDistinct
<1>21. HeapAndRingApart'
  <2> SUFFICES ASSUME NEW i \in 0..n, NEW k \in 0..finishedCount'-1
               PROVE  seqNoInFlight'[i] # finishedSeqNums'[RingIndex(k)']
    BY <1>1, <1>2, <1>3 DEF HeapAndRingApart, n
  <2>1. finishedSeqNums'[RingIndex(k)'] = finishedSeqNums[RingIndex(k + 1)]
        /\ k + 1 \in 0..finishedCount-1
    BY <1>13, <1>14, Zenon
  <2>2. CASE i = n
    BY <1>1, <1>6, <2>1, <2>2 DEF NumbersIssued, seqNo
  <2>3. CASE i # n
    BY <1>1, <1>2, <1>6, <2>1, <2>3 DEF HeapAndRingApart, n
  <2> QED BY <2>2, <2>3
<1> QED BY <1>5, <1>10, <1>11, <1>16, <1>17, <1>18, <1>19, <1>20, <1>21

-----------------------------------------------------------------------------
\* IInv is inductive: every operation of the store keeps it.
THEOREM NextInv == IInv /\ [Next]_vars => IInv'
<1> SUFFICES ASSUME IInv, [Next]_vars PROVE IInv'
  OBVIOUS
<1>1. CASE UNCHANGED vars
  <2> USE <1>1 DEF vars, heapVars, ringVars, semVars, IInv
  <2>1. TypeOK' BY DEF TypeOK
  <2>2. (SlotAccounting /\ MtxPosition /\ BackLinks /\ HandlesInHeap)'
    BY DEF SlotAccounting, HeldSlots, MtxPosition, BackLinks, HandlesInHeap
  <2>3. (NumbersIssued /\ RingHasRoom /\ HeapAndRingApart /\ RingDistinct)'
    BY DEF NumbersIssued, RingHasRoom, HeapAndRingApart, RingDistinct, RingIndex
  <2> QED BY <2>1, <2>2, <2>3
<1>2. CASE TakeSlot BY <1>2, TakeSlotInv
<1>3. CASE AcquireWithoutBase BY <1>3, AcquireWithoutBaseInv
<1>4. CASE AcquireSequenceNumber BY <1>4, AcquireSequenceNumberInv
<1>5. CASE \E seqNo \in DOMAIN handle : ReleaseSequenceNumber(seqNo)
  BY <1>5, ReleaseSequenceNumberInv
<1>6. CASE MoveUp BY <1>6, MoveUpInv
<1>7. CASE RemoveRoot BY <1>7, RemoveRootInv
<1>8. CASE MoveDown BY <1>8, MoveDownInv
<1>9. CASE LeaveMtx BY <1>9, LeaveMtxInv
<1>10. CASE ReturnSlot BY <1>10, ReturnSlotInv
<1>11. CASE \E base \in Bases : SetSeqNoBase(base)
  BY <1>11, SetSeqNoBaseInv
<1> QED
  BY <1>1, <1>2, <1>3, <1>4, <1>5, <1>6, <1>7, <1>8, <1>9, <1>10, <1>11 DEF Next

\* IInv holds in every reachable state of the store.
THEOREM InvAlways == Spec => []IInv
BY InitInv, NextInv, PTL DEF Spec

\* The values of the store keep their types: no index leaves its array, and no
\* counter of the semaphore goes below zero or above the capacity.
THEOREM TypeCorrect == Spec => []TypeOK
<1>1. IInv => TypeOK BY DEF IInv
<1> QED BY <1>1, InvAlways, PTL

\* A release through a handle removes the caller's own number, at every
\* capacity, although the heap order itself is not kept at every capacity.
THEOREM LinksKept == Spec => []BackLinks
<1>1. IInv => BackLinks BY DEF IInv
<1> QED BY <1>1, InvAlways, PTL

\* The ring never overflows: the branch of the release that overwrites the
\* oldest finished number is dead code at every capacity.
THEOREM RingNeverOverflows == Spec => []RingHasRoom
<1>1. IInv => RingHasRoom BY DEF IInv
<1> QED BY <1>1, InvAlways, PTL

\* A number is in flight or finished, never both, and finished once.
THEOREM NumbersFinishOnce == Spec => []FinishedOnce
<1>1. IInv => FinishedOnce
  <2> SUFFICES ASSUME HeapAndRingApart, RingDistinct PROVE FinishedOnce
    BY DEF IInv
  <2>1. InFlight \cap Finished = {}
    BY DEF HeapAndRingApart, InFlight, Finished
  <2> QED BY <2>1 DEF FinishedOnce, RingDistinct
<1> QED BY <1>1, InvAlways, PTL

-----------------------------------------------------------------------------
\* The numbers with a handle, but for the one whose release is on its way to
\* the root of the heap.
Holders == DOMAIN handle \ (IF mtx.step = "up" THEN {seqNoInFlight[mtx.at]} ELSE {})

\* The numbers in flight, read off the heap, are those of the callers that hold
\* a handle.
HeldInFlight == InFlight = Holders

\* The invariant implies it: a handle and its entry name each other.
LEMMA InFlightIsHolders ==
    ASSUME IInv PROVE HeldInFlight
<1>1. BackLinks /\ HandlesInHeap BY Zenon DEF IInv
<1>2. mtx.step = "up" => mtx.at \in 0..inFlightSize-1
  <2>1. mtx.step = "up" => mtx.at < inFlightSize BY Zenon DEF IInv, MtxPosition
  <2>2. mtx.at \in 0..DoneBufferSize-1 /\ inFlightSize \in 0..DoneBufferSize
    BY DEF IInv, TypeOK
  <2> QED BY <2>1, <2>2, CapacityAssumption
<1>3. ASSUME NEW v \in InFlight
      PROVE  v \in DOMAIN handle /\ (mtx.step = "up" => v # seqNoInFlight[mtx.at])
  <2>1. PICK i \in 0..inFlightSize-1 : v = seqNoInFlight[i] /\ (mtx.step = "up" => i # mtx.at)
    BY <1>3, Zenon DEF InFlight
  <2>2. v \in DOMAIN handle BY <1>1, <2>1, Zenon DEF BackLinks
  <2>3. mtx.step = "up" => v # seqNoInFlight[mtx.at]
    BY <1>1, <1>2, <2>1, HeapInjective, Zenon
  <2> QED BY <2>2, <2>3
<1>4. ASSUME NEW v \in DOMAIN handle, mtx.step = "up" => v # seqNoInFlight[mtx.at]
      PROVE  v \in InFlight
  <2>1. handle[v] \in 0..inFlightSize-1 /\ seqNoInFlight[handle[v]] = v
    BY <1>1, Zenon DEF HandlesInHeap
  <2>2. mtx.step = "up" => handle[v] # mtx.at BY <1>4, <2>1, Zenon
  <2> QED BY <2>1, <2>2, Zenon DEF InFlight
<1> QED BY <1>3, <1>4, Zenon DEF HeldInFlight, Holders

\* The same after a step that keeps the invariant.
LEMMA InFlightIsHoldersNext == IInv' => HeldInFlight'
<1>1. IInv => HeldInFlight BY InFlightIsHolders
<1> QED BY <1>1, PTL

\* What a release that enters mtx does to the ring: the caller's number is
\* appended, and nothing is overwritten.
LEMMA ReleaseAppends ==
    ASSUME IInv, NEW seqNo \in DOMAIN handle, ReleaseSequenceNumber(seqNo)
    PROVE  Finished' = Finished \cup {seqNo}
<1>1. /\ inFlightSize \in Nat /\ finishedCount \in Nat /\ finishedCount <= DoneBufferSize
      /\ firstFinishedIndex \in 0..DoneBufferSize-1 /\ DoneBufferSize \in Nat
      /\ finishedSeqNums \in [0..DoneBufferSize-1 -> Nat]
  BY CapacityAssumption DEF IInv, TypeOK
<1>2. seqNoInFlight[handle[seqNo]] = seqNo /\ handle[seqNo] \in 0..inFlightSize-1
  BY Zenon DEF IInv, HandlesInHeap
<1>3. finishedCount < DoneBufferSize
  <2>1. inFlightSize + finishedCount <= DoneBufferSize
    BY DEF IInv, RingHasRoom, ReleaseSequenceNumber, Free
  <2> QED BY <1>1, <1>2, <2>1
<1>4. /\ finishedCount' = finishedCount + 1 /\ firstFinishedIndex' = firstFinishedIndex
      /\ finishedSeqNums' = [finishedSeqNums EXCEPT
            ![Wrap(firstFinishedIndex + finishedCount)] = seqNo]
  BY <1>2, <1>3 DEF ReleaseSequenceNumber, PushFinished
<1>5. \A k : RingIndex(k)' = RingIndex(k) BY <1>4 DEF RingIndex
<1>6. ASSUME NEW k \in 0..finishedCount
      PROVE  finishedSeqNums'[RingIndex(k)] =
                IF k = finishedCount THEN seqNo ELSE finishedSeqNums[RingIndex(k)]
  <2>1. /\ k \in 0..DoneBufferSize-1 /\ finishedCount \in 0..DoneBufferSize-1
        /\ firstFinishedIndex + k \in 0..2*DoneBufferSize-1
    BY <1>1, <1>3
  <2>2. RingIndex(k) \in 0..DoneBufferSize-1
    BY <2>1, WrapType DEF RingIndex
  <2>3. k # finishedCount => RingIndex(k) # Wrap(firstFinishedIndex + finishedCount)
    BY <1>1, <2>1, WrapInjective, Zenon DEF RingIndex
  <2>4. k = finishedCount => RingIndex(k) = Wrap(firstFinishedIndex + finishedCount)
    BY DEF RingIndex
  <2> QED BY <1>1, <1>4, <2>2, <2>3, <2>4
<1>7. Finished' = {finishedSeqNums'[RingIndex(k)] : k \in 0..finishedCount}
  <2>1. 0..finishedCount'-1 = 0..finishedCount BY <1>1, <1>4
  <2> QED BY <1>5, <2>1, Zenon DEF Finished
<1>8. 0..finishedCount = (0..finishedCount-1) \cup {finishedCount} /\ finishedCount \notin 0..finishedCount-1
  BY <1>1
<1> QED BY <1>6, <1>7, <1>8, Zenon DEF Finished

\* What a new number does to the ring: the oldest finished number, which it
\* acknowledges, leaves it; an empty ring stays empty.
LEMMA AcquireTakesOldest ==
    ASSUME IInv, AcquireSequenceNumber
    PROVE  IF finishedCount > 0
           THEN /\ finishedSeqNums[firstFinishedIndex] \in Finished
                /\ Finished' = Finished \ {finishedSeqNums[firstFinishedIndex]}
           ELSE Finished = {} /\ Finished' = {}
<1>1. /\ finishedCount \in Nat /\ finishedCount <= DoneBufferSize
      /\ firstFinishedIndex \in 0..DoneBufferSize-1 /\ DoneBufferSize \in Nat
  BY CapacityAssumption DEF IInv, TypeOK
<1>2. CASE finishedCount > 0
  <2>1. /\ firstFinishedIndex' = Wrap(firstFinishedIndex + 1)
        /\ finishedCount' = finishedCount - 1
        /\ finishedSeqNums' = finishedSeqNums
    BY <1>2 DEF AcquireSequenceNumber, Acknowledge
  <2>2. 0 \in 0..finishedCount-1 /\ RingIndex(0) = firstFinishedIndex
    BY <1>1, <1>2, WrapValue DEF RingIndex
  <2>3. ASSUME NEW k \in 0..finishedCount'-1
        PROVE  /\ k + 1 \in 0..finishedCount-1 /\ k + 1 # 0
               /\ RingIndex(k)' = RingIndex(k + 1)
    <3>1. k \in 0..DoneBufferSize-1 /\ k + 1 \in 0..finishedCount-1 /\ k + 1 # 0
      BY <1>1, <2>1
    <3>2. RingIndex(k)' = RingIndex(k + 1)
      BY <1>1, <2>1, <3>1, WrapShift DEF RingIndex
    <3> QED BY <3>1, <3>2
  <2>4. ASSUME NEW k \in 0..finishedCount-1, k # 0
        PROVE  finishedSeqNums[RingIndex(k)] \in Finished'
    <3>1. k - 1 \in 0..finishedCount'-1 /\ (k - 1) + 1 = k
      BY <1>1, <2>1, <2>4
    <3>2. RingIndex(k - 1)' = RingIndex(k) BY <2>3, <3>1
    <3> QED BY <2>1, <3>1, <3>2 DEF Finished
  <2>5. RingDistinct BY Zenon DEF IInv
  <2>6. finishedSeqNums[firstFinishedIndex] \in Finished BY <2>2, Zenon DEF Finished
  <2>7. ASSUME NEW v \in Finished' PROVE v \in Finished /\ v # finishedSeqNums[firstFinishedIndex]
    <3>1. PICK k \in 0..finishedCount'-1 : v = finishedSeqNums'[RingIndex(k)']
      BY <2>7, Zenon DEF Finished
    <3>2. v = finishedSeqNums[RingIndex(k + 1)] /\ k + 1 \in 0..finishedCount-1 /\ k + 1 # 0
      BY <2>1, <2>3, <3>1, Zenon
    <3> QED BY <2>2, <2>5, <3>2, Zenon DEF Finished, RingDistinct
  <2>8. ASSUME NEW v \in Finished, v # finishedSeqNums[firstFinishedIndex] PROVE v \in Finished'
    <3>1. PICK k \in 0..finishedCount-1 : v = finishedSeqNums[RingIndex(k)]
      BY <2>8, Zenon DEF Finished
    <3> QED BY <2>2, <2>4, <2>8, <3>1, Zenon
  <2> QED BY <1>2, <2>6, <2>7, <2>8, Zenon
<1>3. CASE ~(finishedCount > 0)
  <2>1. finishedCount = 0 /\ finishedCount' = 0
    BY <1>1, <1>3 DEF AcquireSequenceNumber, Acknowledge, ringVars
  <2>2. 0..finishedCount-1 = {} /\ 0..finishedCount'-1 = {} BY <2>1
  <2> QED BY <1>3, <2>2, Zenon DEF Finished
<1> QED BY <1>2, <1>3, Zenon

-----------------------------------------------------------------------------
\* A finished number leaves the ring only with the request that acknowledges it.
THEOREM FinishedUntilAcked == Spec => RingKeepsUntilAcked
<1> DEFINE Kept == Finished \ Finished' \subseteq {acknowledged'.upTo}
<1>1. ASSUME IInv, Next PROVE Kept
  <2>1. CASE UNCHANGED ringVars
    <3>1. Finished' = Finished BY <2>1 DEF ringVars, Finished, RingIndex
    <3> QED BY <3>1
  <2>2. CASE AcquireSequenceNumber
    <3>1. CASE finishedCount > 0
      <4>1. acknowledged'.upTo = finishedSeqNums[firstFinishedIndex]
        BY <2>2, <3>1 DEF AcquireSequenceNumber, Acknowledge
      <4> QED BY <1>1, <2>2, <3>1, <4>1, AcquireTakesOldest, Zenon
    <3>2. CASE ~(finishedCount > 0)
      BY <1>1, <2>2, <3>2, AcquireTakesOldest, Zenon
    <3> QED BY <3>1, <3>2
  <2>3. ASSUME NEW seqNo \in DOMAIN handle, ReleaseSequenceNumber(seqNo) PROVE Kept
    BY <1>1, <2>3, ReleaseAppends, Zenon
  <2>4. CASE TakeSlot \/ AcquireWithoutBase \/ ReturnSlot \/ LeaveMtx
    BY <2>1, <2>4 DEF TakeSlot, AcquireWithoutBase, ReturnSlot, LeaveMtx
  <2>5. CASE MoveUp \/ MoveDown \/ RemoveRoot \/ (\E base \in Bases : SetSeqNoBase(base))
    BY <2>1, <2>5 DEF MoveUp, MoveDown, RemoveRoot, SetSeqNoBase
  <2> QED BY <1>1, <2>2, <2>3, <2>4, <2>5 DEF Next
<1>2. IInv /\ [Next]_vars => [Kept]_vars BY <1>1
<1> QED BY <1>2, InvAlways, PTL DEF Spec, RingKeepsUntilAcked

-----------------------------------------------------------------------------
\* What acquireSequenceNumber takes for granted about the heap: outside mtx the
\* root holds the least number.
RootIsLeast ==
    mtx = Free => \A i \in 0..inFlightSize-1 : seqNoInFlight[0] <= seqNoInFlight[i]

\* The ledger does not see a step that leaves the numbers, the ring and the
\* acknowledgement alone and neither adds nor removes a number in flight.
LEMMA LedgerStutters ==
    ASSUME sequence' = sequence, UNCHANGED ringVars, acknowledged' = acknowledged,
           InFlight' = InFlight
    PROVE  UNCHANGED Ledger!ledger
<1>1. Finished' = Finished BY DEF ringVars, Finished, RingIndex
<1> QED BY <1>1 DEF Ledger!ledger

\* The turns of the two loops of a release and the removal of the root only
\* rearrange the heap: the set of numbers in flight stays as it is.
LEMMA HeapWorkKeepsInFlight ==
    ASSUME IInv, IInv', MoveUp \/ RemoveRoot \/ MoveDown \/ LeaveMtx
    PROVE  InFlight' = InFlight
<1>1. InFlight = DOMAIN handle \ (IF mtx.step = "up" THEN {seqNoInFlight[mtx.at]} ELSE {})
  BY InFlightIsHolders DEF HeldInFlight, Holders
<1>2. InFlight' = DOMAIN handle' \ (IF mtx'.step = "up" THEN {seqNoInFlight'[mtx'.at]} ELSE {})
  BY InFlightIsHoldersNext DEF HeldInFlight, Holders
<1>3. /\ mtx \in [step : {"free", "up", "down"}, at : 0..DoneBufferSize-1]
      /\ inFlightSize \in 0..DoneBufferSize
      /\ TypeOK /\ BackLinks /\ HandlesInHeap
  BY Zenon DEF IInv, TypeOK
<1>4. /\ mtx.step = "up" => mtx.at \in 0..inFlightSize-1
      /\ mtx.step = "down" /\ mtx.at # 0 => mtx.at \in 0..inFlightSize-1
  <2>1. /\ mtx.step = "up" => mtx.at < inFlightSize
        /\ mtx.step = "down" => mtx.at = 0 \/ mtx.at < inFlightSize
    BY Zenon DEF IInv, MtxPosition
  <2> QED BY <1>3, <2>1, CapacityAssumption
<1>5. CASE MoveUp
  <2>1. /\ mtx.step = "up" /\ mtx.at # 0 /\ mtx' = [mtx EXCEPT !.at = ParentIndex(mtx.at)]
        /\ SwapEntries(mtx.at, ParentIndex(mtx.at)) /\ inFlightSize' = inFlightSize
    BY <1>5 DEF MoveUp
  <2>2. ParentIndex(mtx.at) \in 0..inFlightSize-1 /\ ParentIndex(mtx.at) # mtx.at
    BY <1>3, <1>4, <2>1, ParentBelow
  <2>3. /\ DOMAIN handle' = DOMAIN handle
        /\ seqNoInFlight'[ParentIndex(mtx.at)] = seqNoInFlight[mtx.at]
    BY <1>3, <1>4, <2>1, <2>2, SwapEntriesKeepsLinks
  <2>4. mtx'.step = "up" /\ mtx'.at = ParentIndex(mtx.at) BY <1>3, <2>1
  <2> QED BY <1>1, <1>2, <2>1, <2>3, <2>4
<1>6. CASE RemoveRoot
  <2>1. /\ mtx.step = "up" /\ mtx.at = 0 /\ mtx'.step = "down"
        /\ DOMAIN handle' = DOMAIN handle \ {seqNoInFlight[0]}
    BY <1>6 DEF RemoveRoot
  <2> QED BY <1>1, <1>2, <2>1
<1>7. CASE MoveDown
  <2>1. /\ mtx.step = "down" /\ MinNode(mtx.at) # mtx.at
        /\ mtx' = [mtx EXCEPT !.at = MinNode(mtx.at)]
        /\ SwapEntries(mtx.at, MinNode(mtx.at)) /\ inFlightSize' = inFlightSize
    BY <1>7 DEF MoveDown
  <2>2. DOMAIN handle' = DOMAIN handle
    BY <2>1 DEF SwapEntries
  <2>3. mtx'.step = "down" BY <1>3, <2>1
  <2> QED BY <1>1, <1>2, <2>1, <2>2, <2>3
<1>8. CASE LeaveMtx
  BY <1>1, <1>2, <1>8 DEF LeaveMtx, Free, heapVars
<1> QED BY <1>5, <1>6, <1>7, <1>8

\* A release is the ledger's Finish, at the step in which it enters mtx.
LEMMA ReleaseFinishes ==
    ASSUME IInv, IInv', NEW seqNo \in DOMAIN handle, ReleaseSequenceNumber(seqNo)
    PROVE  Ledger!Next
<1>1. /\ mtx.step = "free" /\ mtx'.step = "up" /\ mtx'.at = handle[seqNo]
      /\ handle' = handle /\ seqNoInFlight' = seqNoInFlight
      /\ sequence' = sequence /\ acknowledged' = acknowledged
  BY DEF ReleaseSequenceNumber, Free, heapVars
<1>2. seqNoInFlight[handle[seqNo]] = seqNo BY Zenon DEF IInv, HandlesInHeap
<1>3. InFlight = DOMAIN handle BY <1>1, InFlightIsHolders DEF HeldInFlight, Holders
<1>4. InFlight' = DOMAIN handle \ {seqNo}
  <2>1. InFlight' = DOMAIN handle' \ (IF mtx'.step = "up" THEN {seqNoInFlight'[mtx'.at]} ELSE {})
    BY InFlightIsHoldersNext DEF HeldInFlight, Holders
  <2> QED BY <1>1, <1>2, <2>1
<1>5. Finished' = Finished \cup {seqNo} BY ReleaseAppends
<1>6. Ledger!Finish(seqNo) BY <1>1, <1>3, <1>4, <1>5, Zenon DEF Ledger!Finish
<1> QED BY <1>3, <1>6, Zenon DEF Ledger!Next

\* A new number is the ledger's BeginSelective of the oldest finished number,
\* or, with an empty ring, its BeginCumulative of everything below the root,
\* provided that the root is the least number.
LEMMA AcquireBegins ==
    ASSUME IInv, IInv', RootIsLeast', AcquireSequenceNumber
    PROVE  Ledger!Next
<1>1. /\ mtx = Free /\ mtx' = mtx /\ sequence > 0 /\ sequence' = sequence + 1
      /\ DOMAIN handle' = DOMAIN handle \cup {sequence'}
  BY DEF AcquireSequenceNumber, AppendInFlight
<1>2. InFlight = DOMAIN handle BY <1>1, InFlightIsHolders DEF HeldInFlight, Holders, Free
<1>3. InFlight' = DOMAIN handle'
  <2>1. InFlight' = DOMAIN handle' \ (IF mtx'.step = "up" THEN {seqNoInFlight'[mtx'.at]} ELSE {})
    BY InFlightIsHoldersNext DEF HeldInFlight, Holders
  <2> QED BY <1>1, <2>1 DEF Free
<1>4. InFlight' = InFlight \cup {sequence'} BY <1>1, <1>2, <1>3
<1>5. CASE finishedCount > 0
  <2> DEFINE oldest == finishedSeqNums[firstFinishedIndex]
  <2>1. acknowledged' = [selective |-> TRUE, upTo |-> oldest]
    BY <1>5 DEF AcquireSequenceNumber, Acknowledge
  <2>2. oldest \in Finished /\ Finished' = Finished \ {oldest}
    BY <1>5, AcquireTakesOldest
  <2>3. Ledger!BeginSelective(oldest)
    BY <1>1, <1>4, <2>1, <2>2, Zenon DEF Ledger!BeginSelective
  <2> QED BY <2>2, <2>3, Zenon DEF Ledger!Next
<1>6. CASE ~(finishedCount > 0)
  <2> DEFINE below == seqNoInFlight'[0] - 1
  <2>1. acknowledged' = [selective |-> FALSE, upTo |-> below]
    BY <1>6 DEF AcquireSequenceNumber, Acknowledge
  <2>2. Finished = {} /\ Finished' = Finished
    BY <1>6, AcquireTakesOldest
  <2>3. \A v \in InFlight' : below < v
    <3>1. \A i \in 0..inFlightSize'-1 : seqNoInFlight'[0] <= seqNoInFlight'[i]
      BY <1>1, Zenon DEF RootIsLeast
    <3>2. TypeOK' BY Zenon DEF IInv
    <3>3. inFlightSize' \in 0..DoneBufferSize /\ seqNoInFlight' \in [0..inFlightSize'-1 -> Nat]
      BY <3>2, Zenon DEF TypeOK
    <3>4. 0 \in 0..inFlightSize'-1
      BY <3>3 DEF IInv, TypeOK, AcquireSequenceNumber, AppendInFlight
    <3>5. ASSUME NEW i \in 0..inFlightSize'-1 PROVE below < seqNoInFlight'[i]
      <4>1. /\ seqNoInFlight'[0] \in Nat /\ seqNoInFlight'[i] \in Nat
            /\ seqNoInFlight'[0] <= seqNoInFlight'[i]
        BY <3>1, <3>3, <3>4, Zenon
      <4> QED BY <4>1
    <3> QED BY <3>5, Zenon DEF InFlight
  <2>4. below \in 0..sequence
    <3>1. inFlightSize \in Nat /\ inFlightSize' = inFlightSize + 1 /\ sequence \in Nat
      BY DEF IInv, TypeOK, AcquireSequenceNumber, AppendInFlight
    <3>2. 0 \in 0..inFlightSize'-1 BY <3>1
    <3>3. seqNoInFlight'[0] \in 1..sequence' BY <3>2, Zenon DEF IInv, NumbersIssued
    <3> QED BY <1>1, <3>1, <3>3
  <2>5. Ledger!BeginCumulative(below)
    BY <1>1, <1>4, <2>1, <2>2, <2>3, Zenon DEF Ledger!BeginCumulative
  <2> QED BY <2>4, <2>5, Zenon DEF Ledger!Next
<1> QED BY <1>5, <1>6

\* A base set by a server is the ledger's Rebase.
LEMMA SetSeqNoBaseRebases ==
    ASSUME IInv, NEW base \in Bases, SetSeqNoBase(base)
    PROVE  Ledger!Next
<1>1. /\ sequence < base /\ sequence' = base /\ base \in Nat
      /\ InFlight' = InFlight /\ Finished' = Finished /\ acknowledged' = acknowledged
  BY BasesAssumption DEF SetSeqNoBase, heapVars, ringVars, InFlight, Finished, RingIndex
<1>2. sequence' \in Nat /\ Ledger!Rebase(sequence')
  BY <1>1, Zenon DEF Ledger!Rebase
<1> QED BY <1>2, Zenon DEF Ledger!Next

\* The empty store is the empty ledger.
LEMMA InitIsLedgerInit == Init => Ledger!Init
<1> SUFFICES ASSUME Init PROVE Ledger!Init
  OBVIOUS
<1>1. InFlight = {} BY DEF Init, InFlight
<1>2. Finished = {} BY DEF Init, Finished
<1> QED BY <1>1, <1>2 DEF Init, Ledger!Init, Ledger!NoAck

\* Every step of the store that leaves the least number at the root is a step
\* of the ledger or leaves the ledger as it is.
LEMMA NextIsLedgerNext ==
    IInv /\ IInv' /\ RootIsLeast' /\ [Next]_vars => [Ledger!Next]_(Ledger!ledger)
<1> SUFFICES ASSUME IInv, IInv', RootIsLeast', [Next]_vars
             PROVE  [Ledger!Next]_(Ledger!ledger)
  OBVIOUS
<1>1. CASE TakeSlot \/ AcquireWithoutBase \/ ReturnSlot \/ UNCHANGED vars
  <2>1. UNCHANGED <<sequence, heapVars, ringVars, acknowledged, mtx>>
    BY <1>1 DEF TakeSlot, AcquireWithoutBase, ReturnSlot, vars
  <2>2. InFlight' = InFlight BY <2>1 DEF heapVars, InFlight
  <2> QED BY <2>1, <2>2, LedgerStutters
<1>2. CASE MoveUp \/ RemoveRoot \/ MoveDown \/ LeaveMtx
  <2>1. UNCHANGED <<sequence, ringVars, acknowledged>>
    BY <1>2 DEF MoveUp, RemoveRoot, MoveDown, LeaveMtx
  <2>2. InFlight' = InFlight BY <1>2, HeapWorkKeepsInFlight
  <2> QED BY <2>1, <2>2, LedgerStutters
<1>3. CASE AcquireSequenceNumber
  BY <1>3, AcquireBegins
<1>4. ASSUME NEW seqNo \in DOMAIN handle, ReleaseSequenceNumber(seqNo) PROVE Ledger!Next
  BY <1>4, ReleaseFinishes
<1>5. ASSUME NEW base \in Bases, SetSeqNoBase(base) PROVE Ledger!Next
  BY <1>5, SetSeqNoBaseRebases
<1> QED BY <1>1, <1>2, <1>3, <1>4, <1>5, Zenon DEF Next

\* A store whose heap keeps the least number at the root is an AckLedger, at
\* every capacity: nothing but the order of the heap can make it break the
\* promise the servers rely on.
THEOREM LedgerUpToHeapOrder == Spec /\ []RootIsLeast => ImplementsLedger
BY InitIsLedgerInit, NextIsLedgerNext, InvAlways, PTL DEF Spec, ImplementsLedger, Ledger!Spec

-----------------------------------------------------------------------------
\* An acknowledgement speaks of numbers that were handed out, and spares the
\* open ones.  The first half keeps later numbers out of its reach.
AckIsSafe ==
    /\ acknowledged.upTo <= sequence
    /\ AckSparesInFlight

\* The ledger begins with an acknowledgement that covers nothing.
LEMMA InitAckIsSafe == Init => AckIsSafe
<1> SUFFICES ASSUME Init PROVE AckIsSafe
  OBVIOUS
<1>1. InFlight = {} BY DEF Init, InFlight
<1> QED BY <1>1 DEF Init, AckIsSafe, AckSparesInFlight

\* A number that a request gets is above every acknowledgement so far, and the
\* acknowledgement that goes out with it covers no open number.
LEMMA AckStaysSafe ==
    IInv /\ IInv' /\ AckIsSafe /\ [Ledger!Next]_(Ledger!ledger) => AckIsSafe'
<1> SUFFICES ASSUME IInv, IInv', AckIsSafe, [Ledger!Next]_(Ledger!ledger) PROVE AckIsSafe'
  OBVIOUS
<1>1. /\ sequence \in Nat /\ acknowledged.upTo \in Nat
      /\ \A v \in Finished : v \in 1..sequence
      /\ InFlight \cap Finished = {}
  <2>1. sequence \in Nat /\ acknowledged \in [selective : BOOLEAN, upTo : Nat]
    BY Zenon DEF IInv, TypeOK
  <2>2. \A v \in Finished : v \in 1..sequence BY Zenon DEF IInv, NumbersIssued, Finished
  <2>3. InFlight \cap Finished = {}
    BY Zenon DEF IInv, HeapAndRingApart, InFlight, Finished
  <2> QED BY <2>1, <2>2, <2>3
<1>2. ASSUME sequence <= sequence', sequence' \in Nat, InFlight' \subseteq InFlight,
             acknowledged' = acknowledged
      PROVE  AckIsSafe'
  BY <1>1, <1>2 DEF AckIsSafe, AckSparesInFlight
<1>3. ASSUME NEW d \in Finished, Ledger!BeginSelective(d) PROVE AckIsSafe'
  <2>1. /\ sequence' = sequence + 1 /\ InFlight' = InFlight \cup {sequence'}
        /\ acknowledged' = [selective |-> TRUE, upTo |-> d]
    BY <1>3, Zenon DEF Ledger!BeginSelective
  <2>2. d \in 1..sequence /\ d \notin InFlight BY <1>1
  <2>3. d # sequence' /\ d <= sequence' BY <1>1, <2>1, <2>2
  <2> QED BY <2>1, <2>2, <2>3 DEF AckIsSafe, AckSparesInFlight
<1>4. ASSUME NEW a \in 0..sequence, Ledger!BeginCumulative(a) PROVE AckIsSafe'
  <2>1. /\ sequence' = sequence + 1 /\ \A v \in InFlight' : a < v
        /\ acknowledged' = [selective |-> FALSE, upTo |-> a]
    BY <1>4, Zenon DEF Ledger!BeginCumulative
  <2>2. \A v \in InFlight' : v > a BY <2>1
  <2> QED BY <1>1, <2>1, <2>2 DEF AckIsSafe, AckSparesInFlight
<1>5. ASSUME NEW v \in InFlight, Ledger!Finish(v) PROVE AckIsSafe'
  <2>1. sequence' = sequence /\ InFlight' \subseteq InFlight /\ acknowledged' = acknowledged
    BY <1>5, Zenon DEF Ledger!Finish
  <2> QED BY <1>1, <1>2, <2>1
<1>6. CASE sequence' \in Nat /\ Ledger!Rebase(sequence')
  <2>1. sequence < sequence' /\ InFlight' = InFlight /\ acknowledged' = acknowledged
    BY <1>6, Zenon DEF Ledger!Rebase
  <2> QED BY <1>1, <1>2, <1>6, <2>1
<1>7. CASE UNCHANGED Ledger!ledger
  <2>1. sequence' = sequence /\ InFlight' = InFlight /\ acknowledged' = acknowledged
    BY <1>7 DEF Ledger!ledger
  <2> QED BY <1>1, <1>2, <2>1
<1> QED BY <1>3, <1>4, <1>5, <1>6, <1>7, Zenon DEF Ledger!Next

\* With the least number at the root, no acknowledgement ever covers a number
\* in flight: neither when it is sent nor after more numbers were handed out.
THEOREM AckSparesUpToHeapOrder == Spec /\ []RootIsLeast => []AckSparesInFlight
<1>1. AckIsSafe => AckSparesInFlight BY DEF AckIsSafe
<1>2. Spec /\ []RootIsLeast => []AckIsSafe
  BY InitAckIsSafe, AckStaysSafe, NextIsLedgerNext, InvAlways, PTL DEF Spec
<1> QED BY <1>1, <1>2, PTL
=============================================================================
