----------------------- MODULE StorageIORoutingProofs -----------------------
(***************************************************************************)
(* Proofs about StorageIORouting, for any numbers of listeners, workers,   *)
(* sockets, slots and ring entries: the groups of the listeners partition  *)
(* the workers, the load of a worker counts the requests that it has, and  *)
(* no ring overflows as long as the sockets fit into the rings.            *)
(*                                                                         *)
(* The heart of the invariant is Once: a socket is in one place only, with *)
(* the listener or in one of the queues of one worker.  So the load of a   *)
(* worker is the number of sockets that it holds, and the least loaded     *)
(* worker of a group has room.                                             *)
(***************************************************************************)
EXTENDS StorageIORouting, FiniteSetTheorems, TLAPS

Responses == [sock : Socks, how : {"rearm", "data", "none"}]

\* The types, where TypeOK leaves them open, and the listener's place in its loop: it has a
\* worker's responses in hand only while it takes them from the ring.
ListenerTypes ==
    /\ listener \in [index : Listeners, pc : {"wait", "handle", "burst"}, batch : SUBSET Workers,
                     cur : Seq(Responses), from : Workers \cup {NoWorker}]
    /\ listener.batch \subseteq Group
    /\ listener.from \in Group \cup {NoWorker}
    /\ listener.from = NoWorker => listener.cur = <<>>
    /\ listener.from # NoWorker <=> listener.pc = "burst"

WorkerTypes ==
    /\ load \in [Workers -> Nat]
    /\ req \in [Workers -> Seq(Socks)] /\ works \in [Workers -> Seq(Socks)]
    /\ resp \in [Workers -> Seq(Responses)]
    /\ active \in [Workers -> SUBSET Socks] /\ aioDone \in [Workers -> SUBSET Socks]
    /\ pc \in [Workers -> {"epoll", "work", "reap"}]
    /\ notify \in [Workers -> BOOLEAN]

Types ==
    /\ ListenerTypes /\ WorkerTypes
    /\ pos \in [Socks -> {"idle", "data", "event", "taken", "gone"}]
    /\ notifyContexts \subseteq Group

\* The limits of the rings and of the slots; only a worker at work has works.
LimitsAt(w) ==
    /\ Len(req[w]) <= RingSize /\ Len(resp[w]) <= RingSize
    /\ Cardinality(active[w] \cup aioDone[w]) + Len(works[w]) <= Slots
    /\ works[w] # <<>> => pc[w] = "work"
    /\ active[w] \cap aioDone[w] = {}
Limits == \A w \in Workers : LimitsAt(w)

\* The sockets in a queue, and those of the responses in a queue.
Elements(q) == {q[i] : i \in DOMAIN q}
SocksOf(q) == {q[i].sock : i \in DOMAIN q}
Distinct(q) == \A i, j \in DOMAIN q : q[i] = q[j] => i = j
DistinctSocks(q) == \A i, j \in DOMAIN q : q[i].sock = q[j].sock => i = j

\* The responses that the listener has taken from worker w.
Cur(w) == IF listener.from = w THEN listener.cur ELSE <<>>
IOs(w) == active[w] \cup aioDone[w]

\* The sockets that worker w holds: of requests, works, I/O and responses.
Held(w) == Elements(req[w]) \cup Elements(works[w]) \cup IOs(w) \cup SocksOf(resp[w]) \cup SocksOf(Cur(w))

\* A socket is in one place of a worker.
InOrder(w) ==
    /\ Distinct(req[w]) /\ Distinct(works[w]) /\ DistinctSocks(resp[w]) /\ DistinctSocks(Cur(w))
    /\ Elements(req[w]) \cap Elements(works[w]) = {}
    /\ Elements(req[w]) \cap IOs(w) = {} /\ Elements(works[w]) \cap IOs(w) = {}
    /\ (Elements(req[w]) \cup Elements(works[w]) \cup IOs(w)) \cap (SocksOf(resp[w]) \cup SocksOf(Cur(w))) = {}
    /\ SocksOf(resp[w]) \cap SocksOf(Cur(w)) = {}

\* A socket is in one place, with the listener or with one worker.
Once ==
    /\ \A w \in Workers : InOrder(w)
    /\ \A w \in Workers : \A s \in Held(w) : pos[s] \in {"taken", "gone"}
    /\ \A v, w \in Workers : v # w => Held(v) \cap Held(w) = {}

\* The load of a worker.
CountedAt(w) ==
    load[w] = Len(req[w]) + Len(works[w]) + Cardinality(IOs(w)) + Len(resp[w]) + Len(Cur(w))
Counted == \A w \in Workers : CountedAt(w)

\* No worker is given more than its rings hold.
Even == Fits => \A w \in Workers : load[w] <= RingSize

IInv == Types /\ Limits /\ Once /\ Counted /\ Even

-----------------------------------------------------------------------------
\* A request that goes from the list of works to the I/Os counts as before.
LEMMA OneMoves ==
    \A r, b, c, d, e \in Nat : r + b + c + d + e = r + (b - 1) + (c + 1) + d + e
OBVIOUS

-----------------------------------------------------------------------------
(* The groups. *)

\* The base size and the remainder of the split.
LEMMA Split ==
    /\ Base \in Nat \ {0} /\ Rem \in Nat /\ Rem < NumListeners
    /\ NumWorkers = NumListeners * Base + Rem
<1>1. /\ NumWorkers \div NumListeners \in Int /\ NumWorkers % NumListeners \in 0 .. NumListeners - 1
      /\ NumWorkers = NumListeners * (NumWorkers \div NumListeners) + (NumWorkers % NumListeners)
  BY CountsAssumption
<1>2. NumWorkers \div NumListeners > 0
  BY <1>1, CountsAssumption
<1> QED BY <1>1, <1>2, CountsAssumption DEF Base, Rem

\* A group ends where the next one begins, the first begins with the first worker, and the
\* last ends with the last.
LEMMA Begins ==
    /\ Begin(0) = 0 /\ Begin(NumListeners) = NumWorkers
    /\ \A l \in Nat : Begin(l) \in Nat /\ Size(l) \in Nat \ {0} /\ Begin(l + 1) = Begin(l) + Size(l)
    /\ \A k, l \in Nat : k <= l => Begin(k) <= Begin(l)
<1>1. \A n \in Nat : n * Base \in Nat
  BY Split
<1>2. ASSUME NEW l \in Nat
      PROVE  Begin(l) \in Nat /\ Size(l) \in Nat \ {0} /\ Begin(l + 1) = Begin(l) + Size(l)
  <2>1. (l + 1) * Base = l * Base + Base
    BY Split
  <2>2. l * Base \in Nat
    BY <1>1
  <2> QED BY <2>1, <2>2, Split DEF Begin, Size
<1>3. ASSUME NEW k \in Nat, NEW l \in Nat, k <= l PROVE Begin(k) <= Begin(l)
  <2>1. PICK n \in Nat : l = k + n
    BY <1>3
  <2>2. l * Base = k * Base + n * Base /\ k * Base \in Nat /\ n * Base \in Nat
    BY <1>1, <2>1, Split
  <2> QED BY <1>3, <2>2, Split DEF Begin
<1>4. Begin(0) = 0
  BY Split DEF Begin
<1>5. Begin(NumListeners) = NumWorkers
  BY Split, CountsAssumption DEF Begin
<1> QED BY <1>2, <1>3, <1>4, <1>5

\* Every worker is in a group.
LEMMA EveryWorkerHasAGroup ==
    ASSUME NEW w \in Workers
    PROVE  \E l \in Listeners : w \in getGroupRange(l)
<1> DEFINE S == {n \in Nat : w < Begin(n + 1)}
<1>1. NumListeners - 1 \in S
  BY Begins, CountsAssumption DEF Workers
<1>2. PICK n \in S : \A m \in S : <<m, n>> \notin OpToRel(<, Nat)
  <2>1. S \in SUBSET Nat /\ S # {}
    BY <1>1
  <2> QED BY <2>1, NatLessThanWellFounded, WFMin
<1>3. \A m \in Nat : m < n => m \notin S
  BY <1>2, Zenon DEF OpToRel
<1>4. n <= NumListeners - 1 /\ n \in Nat
  BY <1>1, <1>3, CountsAssumption
<1>5. Begin(n) <= w
  <2>1. CASE n = 0
    BY <2>1, Begins, CountsAssumption DEF Workers
  <2>2. CASE n # 0
    <3>1. n - 1 \in Nat /\ n - 1 < n /\ (n - 1) + 1 = n
      BY <1>4, <2>2
    <3>2. ~(w < Begin(n))
      BY <1>3, <3>1
    <3> QED BY <1>4, <3>2, Begins, CountsAssumption DEF Workers
  <2> QED BY <2>1, <2>2
<1>6. w < Begin(n) + Size(n)
  BY <1>2, <1>4, Begins
<1>7. w \in getGroupRange(n)
  BY <1>4, <1>5, <1>6, Begins, CountsAssumption DEF getGroupRange, Workers
<1> QED BY <1>4, <1>7, CountsAssumption DEF Listeners

\* A group is a part of the workers and is not empty, and two groups have no worker in common.
LEMMA Groups ==
    /\ \A l \in Listeners : getGroupRange(l) \subseteq Workers /\ Begin(l) \in getGroupRange(l)
    /\ \A k, l \in Listeners : k # l => getGroupRange(k) \cap getGroupRange(l) = {}
<1>1. ASSUME NEW l \in Listeners
      PROVE  getGroupRange(l) \subseteq Workers /\ Begin(l) \in getGroupRange(l)
  <2>1. l \in Nat /\ l + 1 \in Nat /\ l + 1 <= NumListeners
    BY CountsAssumption DEF Listeners
  <2>2. Begin(l + 1) <= NumWorkers
    BY <2>1, Begins, CountsAssumption
  <2>3. Begin(l) \in Nat /\ Size(l) \in Nat \ {0} /\ Begin(l + 1) = Begin(l) + Size(l)
    BY <2>1, Begins
  <2> QED BY <2>2, <2>3, CountsAssumption DEF getGroupRange, Workers
<1>2. ASSUME NEW k \in Listeners, NEW l \in Listeners, k < l
      PROVE  getGroupRange(k) \cap getGroupRange(l) = {}
  <2>1. k \in Nat /\ l \in Nat /\ k + 1 <= l /\ k + 1 \in Nat
    BY <1>2, CountsAssumption DEF Listeners
  <2>2. Begin(k + 1) <= Begin(l)
    BY <2>1, Begins
  <2>3. /\ Begin(k) \in Nat /\ Size(k) \in Nat /\ Begin(k + 1) = Begin(k) + Size(k)
        /\ Begin(l) \in Nat /\ Size(l) \in Nat
    BY <2>1, Begins
  <2> QED BY <2>2, <2>3 DEF getGroupRange
<1>3. \A k, l \in Listeners : k # l => k < l \/ l < k
  BY CountsAssumption DEF Listeners
<1> QED BY <1>1, <1>2, <1>3

\* Each listener's group has a worker, answers to this listener and to no other, and the
\* groups are all the workers, for any number of listeners and workers that the constructor
\* accepts (getGroupRange, getListenerIndexForWorker).
THEOREM GroupsPartitionAll ==
    ASSUME listener.index \in Listeners
    PROVE  GroupsPartition
<1>1. Group # {} /\ Group \subseteq Workers
  BY Groups DEF Group
<1>2. \A l \in Listeners \ {listener.index} : getGroupRange(l) \cap Group = {}
  BY Groups DEF Group
<1>3. ASSUME NEW w \in Group PROVE getListenerIndexForWorker(w) = listener.index
  <2>1. \A l \in Listeners : w \in getGroupRange(l) => l = listener.index
    BY <1>2
  <2>2. w \in getGroupRange(listener.index)
    BY DEF Group
  <2>3. \A k \in 0 .. listener.index - 1 : k \in Listeners /\ k # listener.index
    BY CountsAssumption DEF Listeners
  <2>4. \A k \in 0 .. listener.index - 1 : w \notin getGroupRange(k)
    BY <2>1, <2>3
  <2> QED BY <2>1, <2>2, <2>4 DEF getListenerIndexForWorker
<1>4. UNION {getGroupRange(l) : l \in Listeners} = Workers
  BY Groups, EveryWorkerHasAGroup
<1> QED BY <1>1, <1>2, <1>3, <1>4 DEF GroupsPartition

-----------------------------------------------------------------------------
(* Queues whose elements are distinct. *)

\* The numbers from 1 to n are n numbers.
LEMMA Initial ==
    ASSUME NEW n \in Nat
    PROVE  IsFiniteSet(1 .. n) /\ Cardinality(1 .. n) = n
<1>1. 1 \in Int /\ n \in Int
  OBVIOUS
<1>2. /\ IsFiniteSet(1 .. n)
      /\ Cardinality(1 .. n) = IF 1 > n THEN 0 ELSE n - 1 + 1
  BY <1>1, FS_Interval, Zenon
<1> QED BY <1>2

\* A queue of distinct elements is as long as it has elements.
LEMMA ElementsCount ==
    ASSUME NEW S, NEW q \in Seq(S), Distinct(q)
    PROVE  /\ IsFiniteSet(Elements(q)) /\ Elements(q) \subseteq S
           /\ Cardinality(Elements(q)) = Len(q)
<1>1. DOMAIN q = 1 .. Len(q) /\ Len(q) \in Nat /\ q = [i \in 1 .. Len(q) |-> q[i]]
  OBVIOUS
<1>2. q \in [1 .. Len(q) -> Elements(q)] /\ Elements(q) \subseteq S
  BY <1>1 DEF Elements
<1>3. q \in Surjection(1 .. Len(q), Elements(q)) /\ q \in Injection(1 .. Len(q), Elements(q))
  <2>1. \A t \in Elements(q) : \E i \in 1 .. Len(q) : q[i] = t
    BY <1>1 DEF Elements
  <2>2. IsInjective(q)
    BY DEF IsInjective, Distinct
  <2> QED BY <1>2, <2>1, <2>2, Zenon DEF Surjection, Injection
<1>4. IsFiniteSet(1 .. Len(q)) /\ Cardinality(1 .. Len(q)) = Len(q)
  BY <1>1, Initial
<1> QED BY <1>2, <1>3, <1>4, FS_Surjection, Zenon

\* The same for the sockets of responses.
LEMMA SocksCount ==
    ASSUME NEW q \in Seq(Responses), DistinctSocks(q)
    PROVE  /\ IsFiniteSet(SocksOf(q)) /\ SocksOf(q) \subseteq Socks
           /\ Cardinality(SocksOf(q)) = Len(q)
<1> DEFINE f == [i \in 1 .. Len(q) |-> q[i].sock]
<1>1. DOMAIN q = 1 .. Len(q) /\ Len(q) \in Nat /\ \A i \in DOMAIN q : q[i].sock \in Socks
  <2>1. DOMAIN q = 1 .. Len(q) /\ Len(q) \in Nat /\ \A i \in DOMAIN q : q[i] \in Responses
    OBVIOUS
  <2> QED BY <2>1 DEF Responses
<1>2. f \in [1 .. Len(q) -> SocksOf(q)] /\ SocksOf(q) \subseteq Socks
  BY <1>1 DEF SocksOf
<1>3. f \in Surjection(1 .. Len(q), SocksOf(q)) /\ f \in Injection(1 .. Len(q), SocksOf(q))
  <2>1. \A t \in SocksOf(q) : \E i \in 1 .. Len(q) : f[i] = t
    BY <1>1 DEF SocksOf
  <2>2. IsInjective(f)
    BY <1>1 DEF IsInjective, DistinctSocks
  <2> HIDE DEF f
  <2> QED BY <1>2, <2>1, <2>2, Zenon DEF Surjection, Injection
<1>4. IsFiniteSet(1 .. Len(q)) /\ Cardinality(1 .. Len(q)) = Len(q)
  BY <1>1, Initial
<1> HIDE DEF f
<1> QED BY <1>2, <1>3, <1>4, FS_Surjection, Zenon

\* A queue with a new last element.
LEMMA ElementsAppend ==
    ASSUME NEW S, NEW q \in Seq(S), NEW s \in S
    PROVE  /\ Append(q, s) \in Seq(S) /\ Len(Append(q, s)) = Len(q) + 1 /\ Len(q) \in Nat
           /\ Elements(Append(q, s)) = Elements(q) \cup {s}
           /\ Distinct(q) /\ s \notin Elements(q) => Distinct(Append(q, s))
<1>1. /\ Append(q, s) \in Seq(S) /\ Len(Append(q, s)) = Len(q) + 1 /\ Len(q) \in Nat
      /\ Append(q, s)[Len(q) + 1] = s /\ Len(q) + 1 \in DOMAIN Append(q, s)
      /\ \A i \in DOMAIN q : i \in DOMAIN Append(q, s) /\ Append(q, s)[i] = q[i]
      /\ \A i \in DOMAIN Append(q, s) : i = Len(q) + 1 \/ i \in DOMAIN q
  OBVIOUS
<1>2. PICK r : r = Append(q, s)
  BY Zenon
<1> QED BY <1>1, <1>2 DEF Elements, Distinct

\* A queue without its first element.
LEMMA ElementsTail ==
    ASSUME NEW S, NEW q \in Seq(S), q # <<>>
    PROVE  /\ Tail(q) \in Seq(S) /\ Len(Tail(q)) = Len(q) - 1 /\ Len(q) \in Nat /\ Len(Tail(q)) \in Nat
           /\ Head(q) \in S /\ Head(q) \in Elements(q)
           /\ Distinct(q) => Distinct(Tail(q)) /\ Elements(Tail(q)) = Elements(q) \ {Head(q)}
<1>1. /\ Tail(q) \in Seq(S) /\ Len(Tail(q)) = Len(q) - 1 /\ Len(q) \in Nat /\ Len(Tail(q)) \in Nat
      /\ Head(q) = q[1] /\ 1 \in DOMAIN q /\ q[1] \in S
      /\ \A i \in DOMAIN Tail(q) : i \in Nat /\ i + 1 \in DOMAIN q /\ Tail(q)[i] = q[i + 1] /\ i + 1 # 1
      /\ \A i \in DOMAIN q : i = 1 \/ (i - 1 \in DOMAIN Tail(q) /\ Tail(q)[i - 1] = q[i])
  OBVIOUS
<1>2. PICK r : r = Tail(q)
  BY Zenon
<1>3. Head(q) \in Elements(q)
  BY <1>1 DEF Elements
<1>4. ASSUME Distinct(q) PROVE Distinct(r) /\ Elements(r) = Elements(q) \ {Head(q)}
  <2>1. Distinct(r)
    <3> SUFFICES ASSUME NEW i \in DOMAIN r, NEW j \in DOMAIN r, r[i] = r[j] PROVE i = j
      BY DEF Distinct
    <3>1. i + 1 = j + 1
      BY <1>1, <1>2, <1>4 DEF Distinct
    <3> QED BY <1>1, <1>2, <3>1
  <2>2. Elements(r) \subseteq Elements(q) \ {Head(q)}
    BY <1>1, <1>2, <1>4 DEF Elements, Distinct
  <2>3. Elements(q) \ {Head(q)} \subseteq Elements(r)
    BY <1>1, <1>2 DEF Elements
  <2> QED BY <2>1, <2>2, <2>3
<1> QED BY <1>1, <1>2, <1>3, <1>4

\* A queue in two parts.
LEMMA ElementsSplit ==
    ASSUME NEW S, NEW q \in Seq(S), NEW n \in 0 .. Len(q), NEW a \in Seq(S), NEW b \in Seq(S),
           Len(a) = n, Len(b) = Len(q) - n,
           \A i \in 1 .. n : a[i] = q[i],
           \A i \in 1 .. Len(q) - n : b[i] = q[i + n]
    PROVE  /\ Elements(a) \cup Elements(b) = Elements(q)
           /\ Distinct(q) => Distinct(a) /\ Distinct(b) /\ Elements(a) \cap Elements(b) = {}
<1>1. Len(q) \in Nat
  OBVIOUS
<1>2. /\ \A i \in DOMAIN a : i \in DOMAIN q /\ a[i] = q[i] /\ i <= n /\ i \in Nat
      /\ \A i \in DOMAIN b : i + n \in DOMAIN q /\ b[i] = q[i + n] /\ i + n > n /\ i \in Nat
  BY <1>1
<1>3. \A i \in DOMAIN q : i \in DOMAIN a \/ (i - n \in DOMAIN b /\ b[i - n] = q[i])
  BY <1>1
<1>4. Elements(a) \cup Elements(b) = Elements(q)
  <2>1. Elements(a) \subseteq Elements(q) /\ Elements(b) \subseteq Elements(q)
    BY <1>2 DEF Elements
  <2>2. \A i \in DOMAIN q : q[i] \in Elements(a) \cup Elements(b)
    BY <1>2, <1>3 DEF Elements
  <2> QED BY <2>1, <2>2, Zenon DEF Elements
<1>5. ASSUME Distinct(q) PROVE Distinct(a) /\ Distinct(b) /\ Elements(a) \cap Elements(b) = {}
  <2>1. Distinct(a)
    BY <1>2, <1>5 DEF Distinct
  <2>2. Distinct(b)
    <3> SUFFICES ASSUME NEW i \in DOMAIN b, NEW j \in DOMAIN b, b[i] = b[j] PROVE i = j
      BY DEF Distinct
    <3>1. i + n = j + n
      BY <1>2, <1>5 DEF Distinct
    <3> QED BY <1>2, <3>1
  <2>3. ASSUME NEW i \in DOMAIN a, NEW j \in DOMAIN b, a[i] = b[j] PROVE FALSE
    <3>1. i = j + n
      BY <1>2, <1>5, <2>3 DEF Distinct
    <3> QED BY <1>2, <3>1
  <2> QED BY <2>1, <2>2, <2>3 DEF Elements
<1> QED BY <1>4, <1>5

\* The same for the responses: one more, and one less.
LEMMA SocksAppend ==
    ASSUME NEW q \in Seq(Responses), NEW r \in Responses
    PROVE  /\ Append(q, r) \in Seq(Responses) /\ Len(Append(q, r)) = Len(q) + 1 /\ Len(q) \in Nat
           /\ SocksOf(Append(q, r)) = SocksOf(q) \cup {r.sock}
           /\ DistinctSocks(q) /\ r.sock \notin SocksOf(q) => DistinctSocks(Append(q, r))
<1>1. /\ Append(q, r) \in Seq(Responses) /\ Len(Append(q, r)) = Len(q) + 1 /\ Len(q) \in Nat
      /\ Append(q, r)[Len(q) + 1] = r /\ Len(q) + 1 \in DOMAIN Append(q, r)
      /\ \A i \in DOMAIN q : i \in DOMAIN Append(q, r) /\ Append(q, r)[i] = q[i]
      /\ \A i \in DOMAIN Append(q, r) : i = Len(q) + 1 \/ i \in DOMAIN q
  OBVIOUS
<1>2. PICK p : p = Append(q, r)
  BY Zenon
<1> QED BY <1>1, <1>2 DEF SocksOf, DistinctSocks

\* A queue of responses without its first one.
LEMMA SocksTail ==
    ASSUME NEW q \in Seq(Responses), q # <<>>
    PROVE  /\ Tail(q) \in Seq(Responses) /\ Len(Tail(q)) = Len(q) - 1 /\ Len(q) \in Nat /\ Len(Tail(q)) \in Nat
           /\ Head(q) \in Responses /\ Head(q).sock \in SocksOf(q) /\ Head(q).sock \in Socks
           /\ DistinctSocks(q) => DistinctSocks(Tail(q)) /\ SocksOf(Tail(q)) = SocksOf(q) \ {Head(q).sock}
<1>1. /\ Tail(q) \in Seq(Responses) /\ Len(Tail(q)) = Len(q) - 1 /\ Len(q) \in Nat /\ Len(Tail(q)) \in Nat
      /\ Head(q) = q[1] /\ 1 \in DOMAIN q /\ q[1] \in Responses
      /\ \A i \in DOMAIN Tail(q) : i \in Nat /\ i + 1 \in DOMAIN q /\ Tail(q)[i] = q[i + 1] /\ i + 1 # 1
      /\ \A i \in DOMAIN q : i = 1 \/ (i - 1 \in DOMAIN Tail(q) /\ Tail(q)[i - 1] = q[i])
  OBVIOUS
<1>2. PICK r : r = Tail(q)
  BY Zenon
<1>3. Head(q).sock \in SocksOf(q) /\ Head(q).sock \in Socks
  BY <1>1 DEF SocksOf, Responses
<1>4. ASSUME DistinctSocks(q) PROVE DistinctSocks(r) /\ SocksOf(r) = SocksOf(q) \ {Head(q).sock}
  <2>1. DistinctSocks(r)
    <3> SUFFICES ASSUME NEW i \in DOMAIN r, NEW j \in DOMAIN r, r[i].sock = r[j].sock PROVE i = j
      BY DEF DistinctSocks
    <3>1. i + 1 = j + 1
      BY <1>1, <1>2, <1>4 DEF DistinctSocks
    <3> QED BY <1>1, <1>2, <3>1
  <2>2. SocksOf(r) \subseteq SocksOf(q) \ {Head(q).sock}
    BY <1>1, <1>2, <1>4 DEF SocksOf, DistinctSocks
  <2>3. SocksOf(q) \ {Head(q).sock} \subseteq SocksOf(r)
    BY <1>1, <1>2 DEF SocksOf
  <2> QED BY <2>1, <2>2, <2>3
<1> QED BY <1>1, <1>2, <1>3, <1>4

\* Empty queues.
LEMMA NoElements ==
    Elements(<<>>) = {} /\ SocksOf(<<>>) = {} /\ Distinct(<<>>) /\ DistinctSocks(<<>>) /\ Len(<<>>) = 0
BY DEF Elements, SocksOf, Distinct, DistinctSocks

-----------------------------------------------------------------------------
(* What a worker holds, and the least loaded worker. *)

\* The size of a union of disjoint sets.
LEMMA DisjointUnion ==
    ASSUME NEW S, NEW T, IsFiniteSet(S), IsFiniteSet(T), S \cap T = {}
    PROVE  IsFiniteSet(S \cup T) /\ Cardinality(S \cup T) = Cardinality(S) + Cardinality(T)
<1>1. /\ IsFiniteSet(S \cup T)
      /\ Cardinality(S \cup T) = Cardinality(S) + Cardinality(T) - Cardinality(S \cap T)
  BY FS_Union
<1>2. Cardinality(S \cap T) = 0 /\ Cardinality(S) \in Nat /\ Cardinality(T) \in Nat
  BY FS_EmptySet, FS_CardinalityType
<1> QED BY <1>1, <1>2

\* The types of the queues.
LEMMA QueueTypes ==
    ASSUME Types, NEW w \in Workers
    PROVE  /\ req[w] \in Seq(Socks) /\ works[w] \in Seq(Socks) /\ resp[w] \in Seq(Responses)
           /\ Cur(w) \in Seq(Responses) /\ IOs(w) \subseteq Socks /\ IsFiniteSet(IOs(w))
           /\ Len(req[w]) \in Nat /\ Len(works[w]) \in Nat /\ Len(resp[w]) \in Nat /\ Len(Cur(w)) \in Nat
           /\ Cardinality(IOs(w)) \in Nat /\ load[w] \in Nat
<1>1. /\ req[w] \in Seq(Socks) /\ works[w] \in Seq(Socks) /\ resp[w] \in Seq(Responses)
      /\ IOs(w) \subseteq Socks /\ load[w] \in Nat /\ listener.cur \in Seq(Responses)
  <2>1. IOs(w) \subseteq Socks
    <3>1. active[w] \subseteq Socks /\ aioDone[w] \subseteq Socks
      BY DEF Types, ListenerTypes, WorkerTypes
    <3> QED BY <3>1 DEF IOs
  <2>2. listener.cur \in Seq(Responses)
    BY DEF Types, ListenerTypes, WorkerTypes
  <2> QED BY <2>1, <2>2 DEF Types, WorkerTypes
<1>2. Cur(w) \in Seq(Responses)
  BY <1>1 DEF Cur
<1>3. IsFiniteSet(IOs(w)) /\ Cardinality(IOs(w)) \in Nat
  BY <1>1, BoundsAssumption, FS_Subset, FS_CardinalityType
<1>4. Len(req[w]) \in Nat /\ Len(works[w]) \in Nat /\ Len(resp[w]) \in Nat /\ Len(Cur(w)) \in Nat
  BY <1>1, <1>2
<1> QED BY <1>1, <1>2, <1>3, <1>4

\* The load of a worker is the number of sockets that it holds.
LEMMA HeldCount ==
    ASSUME Types, NEW w \in Workers, InOrder(w), CountedAt(w)
    PROVE  /\ IsFiniteSet(Held(w)) /\ Held(w) \subseteq Socks
           /\ Cardinality(Held(w)) = load[w]
<1>1. /\ req[w] \in Seq(Socks) /\ works[w] \in Seq(Socks) /\ resp[w] \in Seq(Responses)
      /\ Cur(w) \in Seq(Responses) /\ IOs(w) \subseteq Socks /\ IsFiniteSet(IOs(w))
  BY QueueTypes
<1>2. Distinct(req[w]) /\ Distinct(works[w]) /\ DistinctSocks(resp[w]) /\ DistinctSocks(Cur(w))
  BY DEF InOrder
<1>3. PICK A : A = Elements(req[w])
  OBVIOUS
<1>4. PICK B : B = Elements(works[w])
  OBVIOUS
<1>5. PICK C : C = IOs(w)
  OBVIOUS
<1>6. PICK D : D = SocksOf(resp[w])
  OBVIOUS
<1>7. PICK E : E = SocksOf(Cur(w))
  OBVIOUS
<1>8. /\ IsFiniteSet(A) /\ A \subseteq Socks /\ Cardinality(A) = Len(req[w])
      /\ IsFiniteSet(B) /\ B \subseteq Socks /\ Cardinality(B) = Len(works[w])
  BY <1>1, <1>2, <1>3, <1>4, ElementsCount
<1>9. /\ IsFiniteSet(D) /\ D \subseteq Socks /\ Cardinality(D) = Len(resp[w])
      /\ IsFiniteSet(E) /\ E \subseteq Socks /\ Cardinality(E) = Len(Cur(w))
  BY <1>1, <1>2, <1>6, <1>7, SocksCount
<1>10. A \cap B = {} /\ A \cap C = {} /\ B \cap C = {} /\ (A \cup B \cup C) \cap (D \cup E) = {} /\ D \cap E = {}
  BY <1>3, <1>4, <1>5, <1>6, <1>7 DEF InOrder
<1>11. IsFiniteSet(A \cup B) /\ Cardinality(A \cup B) = Cardinality(A) + Cardinality(B)
  BY <1>8, <1>10, DisjointUnion, Zenon
<1>12. IsFiniteSet((A \cup B) \cup C) /\ Cardinality((A \cup B) \cup C) = Cardinality(A \cup B) + Cardinality(C)
  <2>1. (A \cup B) \cap C = {}
    BY <1>10
  <2> QED BY <1>1, <1>5, <1>11, <2>1, DisjointUnion, Zenon
<1>13. /\ IsFiniteSet(((A \cup B) \cup C) \cup D)
       /\ Cardinality(((A \cup B) \cup C) \cup D) = Cardinality((A \cup B) \cup C) + Cardinality(D)
  <2>1. ((A \cup B) \cup C) \cap D = {}
    BY <1>10
  <2> QED BY <1>9, <1>12, <2>1, DisjointUnion, Zenon
<1>14. /\ IsFiniteSet((((A \cup B) \cup C) \cup D) \cup E)
       /\ Cardinality((((A \cup B) \cup C) \cup D) \cup E) = Cardinality(((A \cup B) \cup C) \cup D) + Cardinality(E)
  <2>1. (((A \cup B) \cup C) \cup D) \cap E = {}
    BY <1>10
  <2> QED BY <1>9, <1>13, <2>1, DisjointUnion, Zenon
<1>15. Held(w) = (((A \cup B) \cup C) \cup D) \cup E
  BY <1>3, <1>4, <1>5, <1>6, <1>7 DEF Held
<1>16. Held(w) \subseteq Socks
  BY <1>1, <1>5, <1>8, <1>9, <1>15
<1>17. Cardinality(Held(w)) = Len(req[w]) + Len(works[w]) + Cardinality(IOs(w)) + Len(resp[w]) + Len(Cur(w))
  <2>1. /\ Cardinality(A) \in Nat /\ Cardinality(B) \in Nat /\ Cardinality(C) \in Nat
        /\ Cardinality(D) \in Nat /\ Cardinality(E) \in Nat
    BY <1>1, <1>5, <1>8, <1>9, FS_CardinalityType
  <2> QED BY <2>1, <1>5, <1>8, <1>9, <1>11, <1>12, <1>13, <1>14, <1>15, Zenon
<1> QED BY <1>14, <1>15, <1>16, <1>17, Zenon DEF CountedAt

\* A group is an interval of workers, and is not empty.
LEMMA GroupIs ==
    ASSUME listener.index \in Listeners
    PROVE  /\ Group # {} /\ Group \subseteq Workers /\ Workers \subseteq Nat /\ NoWorker \notin Workers
           /\ IsFiniteSet(Group) /\ Cardinality(Group) = Size(listener.index) /\ Size(listener.index) \in Nat
<1>1. Group # {} /\ Group \subseteq Workers
  BY GroupsPartitionAll DEF GroupsPartition
<1>2. Workers \subseteq Nat /\ NoWorker \notin Workers
  BY CountsAssumption DEF Workers, NoWorker
<1>3. PICK b \in Nat, n \in Nat : b = Begin(listener.index) /\ n = Size(listener.index)
  <2>1. listener.index \in Nat
    BY CountsAssumption DEF Listeners
  <2> QED BY <2>1, Begins, Zenon
<1>4. PICK c \in Int : c = b + n - 1
  BY <1>3
<1>5. Group = b .. c
  BY <1>3, <1>4 DEF Group, getGroupRange
<1>6. /\ IsFiniteSet(b .. c)
      /\ Cardinality(b .. c) = IF b > c THEN 0 ELSE c - b + 1
  BY FS_Interval
<1>7. Cardinality(b .. c) = n
  BY <1>4, <1>6
<1> QED BY <1>1, <1>2, <1>3, <1>5, <1>6, <1>7

\* submit gives a request to a worker of the group that no other is loaded less than.
LEMMA BestIs ==
    ASSUME listener.index \in Listeners, NEW l \in [Workers -> Nat]
    PROVE  Best(l) \in Group /\ \A v \in Group : l[Best(l)] <= l[v]
<1>1. Group # {} /\ Group \subseteq Workers /\ Workers \subseteq Nat
  BY GroupIs
<1> DEFINE L == {l[v] : v \in Group}
<1>2. L # {} /\ L \subseteq Nat
  BY <1>1
<1>3. PICK m \in L : \A k \in L : ~(k < m)
  <2>1. PICK m \in L : \A k \in L : ~(<<k, m>> \in OpToRel(<, Nat))
    BY <1>2, WFMin, NatLessThanWellFounded
  <2> QED BY <1>2, <2>1, Zenon DEF OpToRel
<1> DEFINE M == {v \in Group : l[v] = m}
<1>4. M # {} /\ M \subseteq Nat
  BY <1>1, <1>3, Zenon
<1>5. PICK w \in M : \A k \in M : ~(k < w)
  <2>1. PICK w \in M : \A k \in M : ~(<<k, w>> \in OpToRel(<, Nat))
    BY <1>4, WFMin, NatLessThanWellFounded
  <2> QED BY <1>4, <2>1, Zenon DEF OpToRel
<1>6. w \in Group /\ \A v \in Group : l[w] < l[v] \/ (l[w] = l[v] /\ w <= v)
  <2> SUFFICES ASSUME NEW v \in Group PROVE l[w] < l[v] \/ (l[w] = l[v] /\ w <= v)
    BY <1>5
  <2>1. l[v] \in Nat /\ m \in Nat /\ l[w] = m /\ ~(l[v] < m) /\ v \in Nat /\ w \in Nat
    BY <1>1, <1>2, <1>3, <1>5
  <2>2. l[v] = m => ~(v < w)
    BY <1>5
  <2> QED BY <2>1, <2>2
<1>7. /\ Best(l) \in Group
      /\ \A v \in Group : l[Best(l)] < l[v] \/ (l[Best(l)] = l[v] /\ Best(l) <= v)
  BY <1>6 DEF Best
<1>8. \A v \in Group : l[v] \in Nat
  BY <1>1
<1> QED BY <1>7, <1>8

\* The numbers up to n can be put one to one into a set of n or more elements.
LEMMA Numbering ==
    ASSUME NEW S, IsFiniteSet(S), NEW n \in Nat, n <= Cardinality(S)
    PROVE  \E g : g \in Injection(1 .. n, S)
<1>1. PICK c \in Nat : c = Cardinality(S)
  BY FS_CardinalityType
<1>2. IsFiniteSet(1 .. c) /\ Cardinality(1 .. c) = c
  BY Initial
<1>3. ExistsBijection(1 .. c, S)
  BY <1>1, <1>2, FS_SameCardinalityBij
<1>4. PICK f : f \in Injection(1 .. c, S)
  BY <1>3, Zenon DEF ExistsBijection, Bijection
<1>5. f \in [1 .. c -> S] /\ \A i, j \in 1 .. c : f[i] = f[j] => i = j
  BY <1>4 DEF Injection, IsInjective
<1> DEFINE g == [i \in 1 .. n |-> f[i]]
<1>6. 1 .. n \subseteq 1 .. c
  BY <1>1
<1>7. g \in [1 .. n -> S]
  BY <1>5, <1>6
<1>8. IsInjective(g)
  BY <1>5, <1>6 DEF IsInjective
<1> HIDE DEF g
<1>9. g \in Injection(1 .. n, S)
  BY <1>7, <1>8, Zenon DEF Injection
<1> QED BY <1>9

\* When the sockets fit and one of them is with the listener, some worker of the group holds
\* less than its ring has entries.
LEMMA RoomForOneMore ==
    ASSUME Types, Once, Counted, Fits, NEW s \in Socks, \A w \in Workers : s \notin Held(w)
    PROVE  \E w \in Group : load[w] < RingSize
<1> SUFFICES ASSUME \A w \in Group : ~(load[w] < RingSize) PROVE FALSE
  OBVIOUS
<1>1. listener.index \in Listeners
  BY DEF Types, ListenerTypes, WorkerTypes
<1>2. /\ Group \subseteq Workers /\ IsFiniteSet(Group)
      /\ Cardinality(Group) = Size(listener.index) /\ Size(listener.index) \in Nat
  BY <1>1, GroupIs
<1> DEFINE R == 1 .. RingSize
           G == [w \in Group |-> CHOOSE g : g \in Injection(R, Held(w))]
           h == [p \in Group \X R |-> G[p[1]][p[2]]]
<1>3. ASSUME NEW w \in Group PROVE G[w] \in [R -> Held(w)] /\ IsInjective(G[w])
  <2>1. InOrder(w) /\ CountedAt(w) /\ w \in Workers
    BY <1>2 DEF Once, Counted
  <2>2. IsFiniteSet(Held(w)) /\ Cardinality(Held(w)) = load[w] /\ load[w] \in Nat
    BY <2>1, HeldCount, QueueTypes
  <2>3. RingSize \in Nat /\ RingSize <= Cardinality(Held(w))
    BY <2>2, BoundsAssumption
  <2>4. \E g : g \in Injection(R, Held(w))
    BY <2>2, <2>3, Numbering
  <2>5. G[w] \in Injection(R, Held(w))
    BY <2>4, Zenon
  <2> QED BY <2>5, Zenon DEF Injection
<1>4. \A w \in Group : Held(w) \subseteq Socks \ {s}
  BY <1>2, HeldCount DEF Once, Counted
<1>5. \A v, w \in Group : v # w => Held(v) \cap Held(w) = {}
  BY <1>2 DEF Once
<1> HIDE DEF R, G
<1>6. h \in [Group \X R -> Socks \ {s}]
  BY <1>3, <1>4
<1>7. IsInjective(h)
  <2> SUFFICES ASSUME NEW p \in Group \X R, NEW q \in Group \X R, h[p] = h[q] PROVE p = q
    BY DEF IsInjective
  <2>1. p[1] \in Group /\ p[2] \in R /\ q[1] \in Group /\ q[2] \in R
    OBVIOUS
  <2>2. h[p] = G[p[1]][p[2]] /\ h[q] = G[q[1]][q[2]]
    OBVIOUS
  <2> HIDE DEF h
  <2>3. h[p] \in Held(p[1]) /\ h[q] \in Held(q[1])
    BY <1>3, <2>1, <2>2, Zenon
  <2>4. p[1] = q[1]
    BY <1>5, <2>1, <2>3
  <2>5. p[2] = q[2]
    <3>1. PICK f : f = G[p[1]]
      OBVIOUS
    <3>2. DOMAIN f = R /\ \A i, j \in DOMAIN f : f[i] = f[j] => i = j
      BY <1>3, <2>1, <3>1 DEF IsInjective
    <3>3. f[p[2]] = f[q[2]]
      BY <2>2, <2>4, <3>1, Zenon
    <3> QED BY <2>1, <3>2, <3>3
  <2> QED BY <2>4, <2>5
<1> HIDE DEF h
<1>8. h \in Injection(Group \X R, Socks \ {s})
  BY <1>6, <1>7, Zenon DEF Injection
<1>9. IsFiniteSet(Socks \ {s}) /\ Cardinality(Socks \ {s}) = Cardinality(Socks) - 1 /\ Cardinality(Socks) \in Nat
  BY BoundsAssumption, FS_RemoveElement, FS_CardinalityType
<1>10. Cardinality(Group \X R) <= Cardinality(Socks \ {s})
  BY <1>8, <1>9, FS_Injection
<1>11. IsFiniteSet(R) /\ Cardinality(R) = RingSize
  BY Initial, BoundsAssumption DEF R
<1>12. Cardinality(Group \X R) = Size(listener.index) * RingSize
  BY <1>2, <1>11, FS_Product
<1>13. Cardinality(Socks) <= Size(listener.index) * RingSize
  BY DEF Fits
<1>14. Size(listener.index) * RingSize \in Nat
  BY <1>2, BoundsAssumption
<1> QED BY <1>9, <1>10, <1>12, <1>13, <1>14

-----------------------------------------------------------------------------
(* What a step has to show: most steps touch the queues of one worker, or of two. *)

\* The step leaves the queues of worker w alone.
Same(w) ==
    /\ req'[w] = req[w] /\ works'[w] = works[w] /\ resp'[w] = resp[w]
    /\ active'[w] = active[w] /\ aioDone'[w] = aioDone[w] /\ Cur(w)' = Cur(w)

\* What such a step leaves alone of the worker.
LEMMA SameWorker ==
    ASSUME NEW w \in Workers, Same(w)
    PROVE  /\ Held(w)' = Held(w) /\ IOs(w)' = IOs(w)
           /\ InOrder(w) => InOrder(w)'
           /\ load'[w] = load[w] /\ CountedAt(w) => CountedAt(w)'
<1>1. IOs(w)' = IOs(w)
  BY DEF Same, IOs
<1>2. Held(w)' = Held(w)
  BY <1>1 DEF Same, Held
<1>3. InOrder(w) => InOrder(w)'
  BY <1>1, Zenon DEF Same, InOrder
<1> QED BY <1>1, <1>2, <1>3, Zenon DEF CountedAt, Same

\* A step that moves sockets within a worker, or lets it give them up.
LEMMA Moved ==
    ASSUME IInv, NEW w \in Workers, \A v \in Workers \ {w} : Same(v) /\ load'[v] = load[v],
           listener'.index = listener.index,
           InOrder(w)', CountedAt(w)', Held(w)' \subseteq Held(w),
           load[w] \in Nat, load'[w] \in Nat, load'[w] <= load[w],
           \A s \in Held(w)' : pos'[s] \in {"taken", "gone"},
           \A s \in Socks : pos[s] \in {"taken", "gone"} /\ s \notin Held(w) => pos'[s] \in {"taken", "gone"}
    PROVE  Once' /\ Counted' /\ Even'
<1>1. /\ \A v \in Workers : InOrder(v) /\ CountedAt(v)
      /\ \A v \in Workers : \A s \in Held(v) : pos[s] \in {"taken", "gone"}
      /\ \A u, v \in Workers : u # v => Held(u) \cap Held(v) = {}
  BY DEF IInv, Once, Counted
<1>2. \A v \in Workers \ {w} : Held(v)' = Held(v) /\ InOrder(v)' /\ CountedAt(v)'
  BY <1>1, SameWorker, Zenon
<1>3. \A v \in Workers : Held(v)' \subseteq Held(v) /\ Held(v) \subseteq Socks
  BY <1>1, <1>2, HeldCount, Zenon DEF IInv
<1>4. \A v \in Workers : \A s \in Held(v)' : pos'[s] \in {"taken", "gone"}
  BY <1>1, <1>2, <1>3, Zenon
<1>5. \A u, v \in Workers : u # v => Held(u)' \cap Held(v)' = {}
  BY <1>1, <1>3, Zenon
<1>6. Once'
  BY <1>2, <1>4, <1>5 DEF Once
<1>7. Counted'
  BY <1>2 DEF Counted
<1>8. Even'
  <2>1. Fits' = Fits
    BY DEF Fits
  <2>2. \A v \in Workers : load[v] <= RingSize => load'[v] <= RingSize
    BY BoundsAssumption
  <2> QED BY <2>1, <2>2, Zenon DEF Even, IInv
<1> QED BY <1>6, <1>7, <1>8, Zenon

\* A step that moves sockets within a worker and leaves the load alone.
LEMMA MovedWithin ==
    ASSUME IInv, NEW w \in Workers, \A v \in Workers \ {w} : Same(v), load' = load,
           listener'.index = listener.index, load[w] \in Nat,
           InOrder(w)', CountedAt(w)', Held(w)' = Held(w),
           \A s \in Held(w)' : pos'[s] \in {"taken", "gone"},
           \A s \in Socks : pos[s] \in {"taken", "gone"} => pos'[s] \in {"taken", "gone"}
    PROVE  Once' /\ Counted' /\ Even'
BY Moved

\* A step that leaves all workers alone.
LEMMA Quieted ==
    ASSUME IInv, \A v \in Workers : Same(v), UNCHANGED load, listener'.index = listener.index,
           \A s \in Socks : pos[s] \in {"taken", "gone"} => pos'[s] \in {"taken", "gone"}
    PROVE  Once' /\ Counted' /\ Even'
<1>1. PICK w \in Workers : TRUE
  BY CountsAssumption DEF Workers
<1>2. InOrder(w) /\ CountedAt(w) /\ \A s \in Held(w) : pos[s] \in {"taken", "gone"}
  BY DEF IInv, Once, Counted
<1>3. Held(w)' = Held(w) /\ InOrder(w)' /\ CountedAt(w)'
  BY <1>2, SameWorker
<1>4. Held(w) \subseteq Socks /\ load[w] \in Nat
  BY <1>2, HeldCount, QueueTypes DEF IInv
<1> QED BY <1>2, <1>3, <1>4, Moved

\* A step that gives a socket to worker b, which may take it from another worker.
LEMMA Given ==
    ASSUME IInv, NEW s \in Socks, NEW b \in Workers, listener'.index = listener.index,
           \A v \in Workers : InOrder(v)' /\ CountedAt(v)' /\ Held(v)' \subseteq Held(v) \cup {s},
           \A v \in Workers : s \in Held(v)' => v = b,
           Fits => \A v \in Workers : load'[v] <= RingSize,
           pos'[s] = "taken", \A r \in Socks \ {s} : pos'[r] = pos[r]
    PROVE  Once' /\ Counted' /\ Even'
<1>1. /\ \A v \in Workers : InOrder(v) /\ CountedAt(v)
      /\ \A v \in Workers : \A r \in Held(v) : pos[r] \in {"taken", "gone"}
      /\ \A u, v \in Workers : u # v => Held(u) \cap Held(v) = {}
  BY DEF IInv, Once, Counted
<1>2. \A v \in Workers : Held(v) \subseteq Socks
  BY <1>1, HeldCount DEF IInv
<1>3. \A v \in Workers : \A r \in Held(v)' : pos'[r] \in {"taken", "gone"}
  BY <1>1, <1>2
<1>4. \A u, v \in Workers : u # v => Held(u)' \cap Held(v)' = {}
  BY <1>1
<1>5. Once'
  BY <1>3, <1>4 DEF Once
<1>6. Fits' = Fits
  BY DEF Fits
<1> QED BY <1>5, <1>6 DEF Counted, Even

\* The group of the listener stays what it is.
LEMMA GroupSame ==
    ASSUME listener'.index = listener.index
    PROVE  Group' = Group
BY DEF Group, getGroupRange, Begin, Size

-----------------------------------------------------------------------------
(* The invariant holds initially. *)

\* The constructor leaves empty rings, and every socket with the listener.
THEOREM InitInv == Init => IInv
<1> SUFFICES ASSUME Init PROVE IInv
  OBVIOUS
<1>1. PICK l \in Listeners :
        listener = [index |-> l, pc |-> "wait", batch |-> {}, cur |-> <<>>, from |-> NoWorker]
  BY Zenon DEF Init
<1>2. /\ listener.index = l /\ listener.pc = "wait" /\ listener.batch = {}
      /\ listener.cur = <<>> /\ listener.from = NoWorker
  BY <1>1
<1>3. ListenerTypes
  <2>1. listener \in [index : Listeners, pc : {"wait", "handle", "burst"}, batch : SUBSET Workers,
                      cur : Seq(Responses), from : Workers \cup {NoWorker}]
    BY <1>1
  <2> QED BY <1>2, <2>1 DEF ListenerTypes
<1>4. /\ \A w \in Workers : req[w] = <<>> /\ works[w] = <<>> /\ resp[w] = <<>> /\ load[w] = 0
      /\ \A w \in Workers : active[w] = {} /\ aioDone[w] = {}
  BY DEF Init
<1>5. WorkerTypes
  BY DEF Init, WorkerTypes
<1>6. pos \in [Socks -> {"idle", "data", "event", "taken", "gone"}] /\ notifyContexts = {}
  BY DEF Init
<1>7. \A w \in Workers : Cur(w) = <<>> /\ IOs(w) = {}
  BY <1>2, <1>4 DEF Cur, IOs
<1>8. \A w \in Workers : Held(w) = {}
  BY <1>4, <1>7, NoElements, Zenon DEF Held
<1>9. \A w \in Workers : InOrder(w)
  BY <1>4, <1>7, NoElements DEF InOrder
<1>10. Cardinality({}) = 0 /\ Len(<<>>) = 0
  BY FS_EmptySet, NoElements
<1>11. ASSUME NEW w \in Workers PROVE CountedAt(w)
  <2>1. /\ Len(req[w]) = 0 /\ Len(works[w]) = 0 /\ Cardinality(IOs(w)) = 0 /\ Len(resp[w]) = 0
        /\ Len(Cur(w)) = 0 /\ load[w] = 0
    BY <1>4, <1>7, <1>10, Zenon
  <2> QED BY <2>1 DEF CountedAt
<1>12. Limits
  <2> SUFFICES ASSUME NEW w \in Workers PROVE LimitsAt(w)
    BY DEF Limits
  <2>1. Cardinality(active[w] \cup aioDone[w]) = 0
    BY <1>7, <1>10, Zenon DEF IOs
  <2>2. Len(req[w]) = 0 /\ Len(resp[w]) = 0 /\ Len(works[w]) = 0
    BY <1>4, <1>10
  <2> QED BY <1>4, <2>1, <2>2, BoundsAssumption DEF LimitsAt
<1>13. Even
  BY <1>4, BoundsAssumption DEF Even
<1> QED BY <1>3, <1>5, <1>6, <1>8, <1>9, <1>11, <1>12, <1>13 DEF IInv, Types, Once, Counted

-----------------------------------------------------------------------------
(* The steps that leave the queues alone. *)

\* A request arrives at an idle socket.
LEMMA ArriveInv ==
    ASSUME IInv, NEW s \in Socks, Arrive(s)
    PROVE  IInv'
<1>1. /\ UNCHANGED <<listener, notifyContexts, load, req, resp, pc, notify, works, active, aioDone>>
      /\ pos[s] = "idle" /\ pos' = [pos EXCEPT ![s] = "data"]
  BY DEF Arrive, workerVars
<1>2. Group' = Group
  BY <1>1, GroupSame, Zenon
<1>3. Types'
  BY <1>1, <1>2 DEF IInv, Types, ListenerTypes, WorkerTypes
<1>4. Limits'
  BY <1>1, Zenon DEF IInv, Limits, LimitsAt
<1>5. \A v \in Workers : Same(v)
  BY <1>1 DEF Same, Cur
<1>6. \A r \in Socks : pos[r] \in {"taken", "gone"} => pos'[r] \in {"taken", "gone"}
  BY <1>1 DEF IInv, Types
<1>7. Once' /\ Counted' /\ Even'
  BY <1>1, <1>5, <1>6, Quieted
<1> QED BY <1>3, <1>4, <1>7 DEF IInv

\* The return of epoll_wait keeps the invariant: it only marks what is ready.
LEMMA EpollWaitInv ==
    ASSUME IInv, EpollWait
    PROVE  IInv'
<1>1. /\ UNCHANGED <<notifyContexts, load, req, resp, pc, notify, works, active, aioDone>>
      /\ pos' = [s \in Socks |-> IF s \in ReadySocks THEN "event" ELSE pos[s]]
      /\ listener.pc = "wait"
  BY DEF EpollWait, workerVars
<1>2. listener' = [listener EXCEPT !.pc = "handle", !.batch = ReadyFDs]
  BY DEF EpollWait
<1>3. ListenerTypes
  BY DEF IInv, Types
<1>4. PICK B : B = ReadyFDs
  OBVIOUS
<1>5. B \subseteq Group /\ Group \subseteq Workers
  BY <1>3, <1>4, GroupIs DEF ReadyFDs, ListenerTypes
<1>6. /\ listener' \in [index : Listeners, pc : {"wait", "handle", "burst"}, batch : SUBSET Workers,
                        cur : Seq(Responses), from : Workers \cup {NoWorker}]
      /\ listener'.index = listener.index /\ listener'.pc = "handle" /\ listener'.batch = B
      /\ listener'.cur = listener.cur /\ listener'.from = listener.from
  <2>1. listener' = [listener EXCEPT !.pc = "handle", !.batch = B]
    BY <1>2, <1>4, Zenon
  <2>2. B \subseteq Workers
    BY <1>5
  <2> QED BY <1>3, <2>1, <2>2, Zenon DEF ListenerTypes
<1>7. Group' = Group
  BY <1>6, GroupSame, Zenon
<1>8. ListenerTypes'
  BY <1>1, <1>3, <1>5, <1>6, <1>7 DEF ListenerTypes
<1>9. pos' \in [Socks -> {"idle", "data", "event", "taken", "gone"}]
  BY <1>1 DEF IInv, Types
<1>10. Types'
  BY <1>1, <1>7, <1>8, <1>9, Zenon DEF IInv, Types, WorkerTypes
<1>11. Limits'
  BY <1>1 DEF IInv, Limits, LimitsAt
<1>12. \A v \in Workers : Same(v)
  BY <1>1, <1>6 DEF Same, Cur
<1>13. \A r \in Socks : pos[r] \in {"taken", "gone"} => pos'[r] \in {"taken", "gone"}
  BY <1>1 DEF ReadySocks
<1>14. Once' /\ Counted' /\ Even'
  BY <1>1, <1>6, <1>12, <1>13, Quieted
<1> QED BY <1>10, <1>11, <1>14 DEF IInv

\* The event of a response ring keeps the invariant: the listener begins its burst.
LEMMA HandleFDInv ==
    ASSUME IInv, NEW w \in Group, HandleFD(w)
    PROVE  IInv'
<1>1. /\ UNCHANGED <<pos, notifyContexts, load, req, resp, pc, notify, works, active, aioDone>>
      /\ listener.pc = "handle" /\ w \in listener.batch
  BY DEF HandleFD, workerVars
<1>2. listener' = [listener EXCEPT !.pc = "burst", !.batch = @ \ {w}, !.from = w]
  BY DEF HandleFD
<1>3. ListenerTypes
  BY DEF IInv, Types
<1>4. PICK B : B = listener.batch \ {w}
  BY Zenon
<1>5. B \subseteq Group /\ Group \subseteq Workers /\ w \in Workers /\ NoWorker \notin Workers
  BY <1>3, <1>4, GroupIs DEF ListenerTypes
<1>6. /\ listener' \in [index : Listeners, pc : {"wait", "handle", "burst"}, batch : SUBSET Workers,
                        cur : Seq(Responses), from : Workers \cup {NoWorker}]
      /\ listener'.index = listener.index /\ listener'.pc = "burst" /\ listener'.batch = B
      /\ listener'.cur = listener.cur /\ listener'.from = w
  <2>1. PICK f : f = [listener EXCEPT !.pc = "burst", !.batch = B]
    OBVIOUS
  <2>2. /\ f \in [index : Listeners, pc : {"wait", "handle", "burst"}, batch : SUBSET Workers,
                  cur : Seq(Responses), from : Workers \cup {NoWorker}]
        /\ f.index = listener.index /\ f.pc = "burst" /\ f.batch = B /\ f.cur = listener.cur
    <3>1. B \subseteq Workers
      BY <1>5
    <3> QED BY <1>3, <2>1, <3>1, Zenon DEF ListenerTypes
  <2>3. listener' = [f EXCEPT !.from = w]
    BY <1>2, <1>4, <2>1
  <2> QED BY <1>5, <2>2, <2>3
<1>7. Group' = Group
  BY <1>6, GroupSame
<1>8. listener.from = NoWorker /\ listener.cur = <<>>
  BY <1>1, <1>3 DEF ListenerTypes
<1>9. ListenerTypes'
  BY <1>5, <1>6, <1>7 DEF ListenerTypes
<1>10. Types'
  BY <1>1, <1>7, <1>9 DEF IInv, Types, WorkerTypes
<1>11. Limits'
  BY <1>1, Zenon DEF IInv, Limits, LimitsAt
<1>12. \A v \in Workers : Same(v)
  BY <1>1, <1>6, <1>8 DEF Same, Cur
<1>13. Once' /\ Counted' /\ Even'
  BY <1>1, <1>6, <1>12, Quieted
<1> QED BY <1>10, <1>11, <1>13 DEF IInv

\* flushIncomingWorkNotifications keeps the invariant: it only writes event descriptors.
LEMMA FlushInv ==
    ASSUME IInv, Flush
    PROVE  IInv'
<1>1. /\ UNCHANGED <<pos, load, req, resp, pc, notify, works, active, aioDone>>
      /\ listener.pc = "handle" /\ notifyContexts' = {}
  BY DEF Flush, workerVars
<1>2. listener' = [listener EXCEPT !.pc = "wait"]
  BY DEF Flush
<1>3. ListenerTypes
  BY DEF IInv, Types
<1>4. /\ listener' \in [index : Listeners, pc : {"wait", "handle", "burst"}, batch : SUBSET Workers,
                        cur : Seq(Responses), from : Workers \cup {NoWorker}]
      /\ listener'.index = listener.index /\ listener'.pc = "wait" /\ listener'.batch = listener.batch
      /\ listener'.cur = listener.cur /\ listener'.from = listener.from
  BY <1>2, <1>3 DEF ListenerTypes
<1>5. Group' = Group
  BY <1>4, GroupSame, Zenon
<1>6. ListenerTypes'
  BY <1>1, <1>3, <1>4, <1>5 DEF ListenerTypes
<1>7. Types'
  BY <1>1, <1>5, <1>6 DEF IInv, Types, WorkerTypes
<1>8. Limits'
  BY <1>1, Zenon DEF IInv, Limits, LimitsAt
<1>9. \A v \in Workers : Same(v)
  BY <1>1, <1>4 DEF Same, Cur
<1>10. Once' /\ Counted' /\ Even'
  BY <1>1, <1>4, <1>9, Quieted
<1> QED BY <1>7, <1>8, <1>10 DEF IInv

-----------------------------------------------------------------------------
(* The steps of the workers. *)

\* The limits of the workers that a step leaves alone.
LEMMA LimitsMoved ==
    ASSUME Limits, NEW w \in Workers, LimitsAt(w)',
           \A v \in Workers \ {w} : Same(v) /\ pc'[v] = pc[v]
    PROVE  Limits'
<1>1. \A v \in Workers \ {w} : LimitsAt(v)'
  BY Zenon DEF Limits, LimitsAt, Same
<1> QED BY <1>1 DEF Limits

\* The wake-up of a worker keeps the invariant.
LEMMA WakeInv ==
    ASSUME IInv, NEW w \in Workers, Wake(w)
    PROVE  IInv'
<1>1. /\ UNCHANGED <<pos, listener, notifyContexts, load, req, resp, notify, works, active, aioDone>>
      /\ pc[w] = "epoll"
  BY DEF Wake, listenerVars
<1>2. PICK p \in {"reap", "work"} : pc' = [pc EXCEPT ![w] = p]
  BY Zenon DEF Wake
<1>3. pc' \in [Workers -> {"epoll", "work", "reap"}] /\ \A v \in Workers \ {w} : pc'[v] = pc[v]
  BY <1>2 DEF IInv, Types, WorkerTypes
<1>4. Group' = Group
  BY <1>1, GroupSame, Zenon
<1>5. Types'
  BY <1>1, <1>3, <1>4 DEF IInv, Types, ListenerTypes, WorkerTypes
<1>6. \A v \in Workers : Same(v)
  BY <1>1 DEF Same, Cur
<1>7. LimitsAt(w)'
  BY <1>1, Zenon DEF IInv, Limits, LimitsAt
<1>8. Limits'
  BY <1>3, <1>6, <1>7, LimitsMoved DEF IInv
<1>9. Once' /\ Counted' /\ Even'
  BY <1>1, <1>6, Quieted
<1> QED BY <1>5, <1>8, <1>9 DEF IInv

\* The event of a worker's responses keeps the invariant: it only writes a descriptor.
LEMMA NotifyInv ==
    ASSUME IInv, NEW w \in Workers, Notify(w)
    PROVE  IInv'
<1>1. /\ UNCHANGED <<pos, listener, notifyContexts, load, req, resp, pc, works, active, aioDone>>
      /\ notify' = [notify EXCEPT ![w] = FALSE]
  BY DEF Notify, listenerVars
<1>2. notify' \in [Workers -> BOOLEAN]
  BY <1>1 DEF IInv, Types, WorkerTypes
<1>3. Group' = Group
  BY <1>1, GroupSame, Zenon
<1>4. Types'
  BY <1>1, <1>2, <1>3, Zenon DEF IInv, Types, ListenerTypes, WorkerTypes
<1>5. \A v \in Workers : Same(v)
  BY <1>1 DEF Same, Cur
<1>6. Limits'
  BY <1>1, Zenon DEF IInv, Limits, LimitsAt
<1>7. Once' /\ Counted' /\ Even'
  BY <1>1, <1>5, Quieted
<1> QED BY <1>4, <1>6, <1>7 DEF IInv

\* The parts of the invariant that the steps of worker w use.
LEMMA WorkerFacts ==
    ASSUME IInv, NEW w \in Workers
    PROVE  /\ Types /\ Limits /\ LimitsAt(w) /\ InOrder(w) /\ CountedAt(w)
           /\ \A s \in Held(w) : pos[s] \in {"taken", "gone"}
           /\ Held(w) \subseteq Socks /\ WorkerTypes /\ ListenerTypes
           /\ pos \in [Socks -> {"idle", "data", "event", "taken", "gone"}]
<1>1. Types /\ Limits /\ LimitsAt(w) /\ InOrder(w) /\ CountedAt(w)
  BY DEF IInv, Limits, Once, Counted
<1>2. Held(w) \subseteq Socks
  BY <1>1, HeldCount
<1> QED BY <1>1, <1>2 DEF IInv, Once, Types

\* The kernel's completion of an asynchronous I/O keeps the invariant: the socket stays
\* with its worker.
LEMMA CompleteIOInv ==
    ASSUME IInv, NEW w \in Workers, NEW s \in Socks, CompleteIO(w, s)
    PROVE  IInv'
<1>1. /\ UNCHANGED <<pos, listener, notifyContexts, load, req, resp, pc, notify, works>>
      /\ s \in active[w]
      /\ active' = [active EXCEPT ![w] = @ \ {s}]
      /\ aioDone' = [aioDone EXCEPT ![w] = @ \cup {s}]
  BY DEF CompleteIO, listenerVars
<1>2. /\ active' \in [Workers -> SUBSET Socks] /\ active'[w] = active[w] \ {s}
      /\ \A v \in Workers \ {w} : active'[v] = active[v]
  BY <1>1 DEF IInv, Types, WorkerTypes
<1>3. /\ aioDone' \in [Workers -> SUBSET Socks] /\ aioDone'[w] = aioDone[w] \cup {s}
      /\ \A v \in Workers \ {w} : aioDone'[v] = aioDone[v]
  BY <1>1 DEF IInv, Types, WorkerTypes
<1>4. /\ UNCHANGED <<pos, listener, notifyContexts, load, req, resp, pc, notify, works>>
      /\ s \in active[w]
  BY <1>1
<1>5. Group' = Group
  BY <1>4, GroupSame, Zenon
<1>6. Types'
  BY <1>2, <1>3, <1>4, <1>5, Zenon DEF IInv, Types, ListenerTypes, WorkerTypes
<1>7. \A v \in Workers \ {w} : Same(v)
  BY <1>2, <1>3, <1>4 DEF Same, Cur
<1>8. IOs(w)' = IOs(w) /\ active'[w] \cup aioDone'[w] = active[w] \cup aioDone[w]
  BY <1>2, <1>3, <1>4 DEF IOs
<1>9. LimitsAt(w)'
  BY <1>2, <1>3, <1>4, <1>8, Zenon DEF IInv, Limits, LimitsAt
<1>10. Limits'
  BY <1>4, <1>7, <1>9, LimitsMoved, Zenon DEF IInv
<1>11. Cur(w)' = Cur(w)
  BY <1>4, Zenon DEF Cur
<1>12. Held(w)' = Held(w)
  BY <1>4, <1>8, <1>11 DEF Held
<1>13. InOrder(w)' /\ CountedAt(w)'
  BY <1>4, <1>8, <1>11, WorkerFacts, Zenon DEF InOrder, CountedAt
<1>14. load[w] \in Nat
  BY WorkerFacts, QueueTypes, ZenonT(30)
<1>15. Once' /\ Counted' /\ Even'
  BY <1>4, <1>7, <1>12, <1>13, <1>14, WorkerFacts, Moved
<1> QED BY <1>6, <1>10, <1>15 DEF IInv

\* waitForIOWorks: works move from the ring to the worker.
LEMMA DrainInv ==
    ASSUME IInv, NEW w \in Workers, Drain(w)
    PROVE  IInv'
<1>1. PICK n : n = IF Available(w) < Len(req[w]) THEN Available(w) ELSE Len(req[w])
  BY Zenon
<1>2. PICK a : a = SubSeq(req[w], 1, n)
  BY Zenon
<1>3. PICK b : b = SubSeq(req[w], n + 1, Len(req[w]))
  BY Zenon
<1>4. PICK p : p = IF n = 0 THEN "epoll" ELSE "work"
  OBVIOUS
<1>5. /\ UNCHANGED <<pos, listener, notifyContexts, load, resp, notify, active, aioDone>>
      /\ Through(w)
  BY DEF Drain, listenerVars
<1>6. works' = [works EXCEPT ![w] = a] /\ req' = [req EXCEPT ![w] = b] /\ pc' = [pc EXCEPT ![w] = p]
  BY <1>1, <1>2, <1>3, <1>4 DEF Drain
<1>7. WorkerTypes /\ Types /\ LimitsAt(w) /\ InOrder(w) /\ CountedAt(w) /\ Limits
  BY WorkerFacts, Zenon
<1>8. /\ req[w] \in Seq(Socks) /\ Len(req[w]) \in Nat /\ Cardinality(IOs(w)) \in Nat /\ load[w] \in Nat
      /\ Len(resp[w]) \in Nat /\ Len(Cur(w)) \in Nat
  BY <1>7, QueueTypes, Zenon
<1>9. works[w] = <<>>
  BY <1>5, <1>7, Zenon DEF Through, LimitsAt
<1>10. Cardinality(IOs(w)) <= Slots
  <2>1. Len(works[w]) = 0
    BY <1>9, NoElements, Zenon
  <2> QED BY <1>7, <1>8, <2>1, BoundsAssumption DEF LimitsAt, IOs
<1>11. n \in 0 .. Len(req[w]) /\ Cardinality(IOs(w)) + n <= Slots
  <2>1. Available(w) = Slots - Cardinality(IOs(w))
    BY Zenon DEF Available, IOs
  <2> QED BY <1>1, <1>8, <1>10, <2>1, BoundsAssumption
<1>12. /\ a \in Seq(Socks) /\ b \in Seq(Socks) /\ Len(a) = n /\ Len(b) = Len(req[w]) - n
       /\ Elements(a) \cup Elements(b) = Elements(req[w])
       /\ Distinct(req[w]) => Distinct(a) /\ Distinct(b) /\ Elements(a) \cap Elements(b) = {}
  <2>1. PICK q \in Seq(Socks) : q = req[w]
    BY <1>8
  <2>2. n \in 0 .. Len(q)
    BY <1>11, <2>1
  <2>3. a = SubSeq(q, 1, n) /\ b = SubSeq(q, n + 1, Len(q))
    BY <1>2, <1>3, <2>1
  <2>4. a \in Seq(Socks) /\ Len(a) = n /\ \A i \in 1 .. n : a[i] = q[i]
    BY <2>2, <2>3
  <2>5. b \in Seq(Socks) /\ Len(b) = Len(q) - n /\ \A i \in 1 .. Len(q) - n : b[i] = q[i + n]
    BY <2>2, <2>3
  <2>6. /\ Elements(a) \cup Elements(b) = Elements(q)
        /\ Distinct(q) => Distinct(a) /\ Distinct(b) /\ Elements(a) \cap Elements(b) = {}
    BY <2>2, <2>4, <2>5, ElementsSplit
  <2> QED BY <2>1, <2>4, <2>5, <2>6
<1>13. /\ works' \in [Workers -> Seq(Socks)] /\ works'[w] = a
       /\ \A v \in Workers \ {w} : works'[v] = works[v]
  BY <1>6, <1>7, <1>12, Zenon DEF WorkerTypes
<1>14. /\ req' \in [Workers -> Seq(Socks)] /\ req'[w] = b
       /\ \A v \in Workers \ {w} : req'[v] = req[v]
  BY <1>6, <1>7, <1>12, Zenon DEF WorkerTypes
<1>15. /\ pc' \in [Workers -> {"epoll", "work", "reap"}] /\ pc'[w] = p
       /\ \A v \in Workers \ {w} : pc'[v] = pc[v]
  BY <1>4, <1>6, <1>7 DEF WorkerTypes
<1>16. Group' = Group
  BY <1>5, GroupSame, Zenon
<1>17. Types'
  BY <1>5, <1>13, <1>14, <1>15, <1>16, Zenon DEF IInv, Types, ListenerTypes, WorkerTypes
<1>18. \A v \in Workers \ {w} : Same(v)
  BY <1>5, <1>13, <1>14 DEF Same, Cur
<1>19. IOs(w)' = IOs(w) /\ Cur(w)' = Cur(w)
  BY <1>5, Zenon DEF IOs, Cur
<1>20. LimitsAt(w)'
  <2>1. Len(b) <= RingSize
    BY <1>7, <1>8, <1>11, <1>12, BoundsAssumption DEF LimitsAt
  <2>2. a # <<>> => p = "work"
    BY <1>4, <1>12
  <2>3. Cardinality(active[w] \cup aioDone[w]) + Len(a) <= Slots
    BY <1>11, <1>12 DEF IOs
  <2> QED BY <1>5, <1>7, <1>13, <1>14, <1>15, <2>1, <2>2, <2>3, Zenon DEF LimitsAt
<1>21. Limits'
  BY <1>7, <1>15, <1>18, <1>20, LimitsMoved, Zenon
<1>22. Elements(works[w]) = {}
  BY <1>9, NoElements, Zenon
<1>23. Held(w)' = Held(w)
  <2>1. Elements(req[w])' \cup Elements(works[w])' = Elements(req[w]) \cup Elements(works[w])
    BY <1>12, <1>13, <1>14, <1>22, Zenon
  <2> QED BY <1>5, <1>19, <2>1, Zenon DEF Held
<1>24. InOrder(w)'
  <2>1. Elements(a) \subseteq Elements(req[w]) /\ Elements(b) \subseteq Elements(req[w])
    BY <1>12, Zenon
  <2>2. Distinct(a) /\ Distinct(b) /\ Elements(b) \cap Elements(a) = {}
    BY <1>7, <1>12, Zenon DEF InOrder
  <2>3. Elements(b) \cap IOs(w) = {} /\ Elements(a) \cap IOs(w) = {}
    BY <1>7, <2>1, Zenon DEF InOrder
  <2>4. (Elements(b) \cup Elements(a) \cup IOs(w)) \cap (SocksOf(resp[w]) \cup SocksOf(Cur(w))) = {}
    BY <1>7, <2>1 DEF InOrder
  <2> QED BY <1>5, <1>7, <1>13, <1>14, <1>19, <2>2, <2>3, <2>4, Zenon DEF InOrder
<1>25. CountedAt(w)'
  <2>1. Len(works[w]) = 0
    BY <1>9, NoElements, Zenon
  <2>2. Len(req'[w]) = Len(req[w]) - n /\ Len(works'[w]) = n /\ n \in Nat
    <3>1. n \in Nat
      BY <1>8, <1>11
    <3> QED BY <1>12, <1>13, <1>14, <3>1, Zenon
  <2> QED BY <1>5, <1>7, <1>8, <1>19, <2>1, <2>2 DEF CountedAt
<1>26. Once' /\ Counted' /\ Even'
  BY <1>5, <1>8, <1>18, <1>23, <1>24, <1>25, WorkerFacts, Moved
<1> QED BY <1>17, <1>21, <1>26 DEF IInv

\* What Respond does: the response is the last of the ring.
LEMMA RespondIs ==
    ASSUME Types, NEW w \in Workers, NEW s \in Socks, Respond(w, s)
    PROVE  /\ resp' \in [Workers -> Seq(Responses)] /\ \A v \in Workers \ {w} : resp'[v] = resp[v]
           /\ Len(resp[w]) \in Nat /\ Len(resp'[w]) = Len(resp[w]) + 1 /\ Len(resp[w]) < RingSize
           /\ SocksOf(resp'[w]) = SocksOf(resp[w]) \cup {s}
           /\ DistinctSocks(resp[w]) /\ s \notin SocksOf(resp[w]) => DistinctSocks(resp'[w])
           /\ pos' \in [Socks -> {"idle", "data", "event", "taken", "gone"}]
           /\ \A r \in Socks : pos'[r] \in {pos[r], "gone"}
           /\ notify' \in [Workers -> BOOLEAN]
<1>1. PICK how \in {"rearm", "data", "none"} :
        /\ resp' = [resp EXCEPT ![w] = Append(@, [sock |-> s, how |-> how])]
        /\ pos' = IF how = "none" THEN [pos EXCEPT ![s] = "gone"] ELSE pos
  BY Zenon DEF Respond
<1>2. PICK r : r = [sock |-> s, how |-> how]
  BY Zenon
<1>3. r \in Responses /\ r.sock = s
  BY <1>2 DEF Responses
<1>4. PICK q : q = Append(resp[w], r)
  BY Zenon
<1>5. resp \in [Workers -> Seq(Responses)] /\ resp[w] \in Seq(Responses)
  BY DEF Types, WorkerTypes
<1>6. /\ q \in Seq(Responses) /\ Len(q) = Len(resp[w]) + 1 /\ Len(resp[w]) \in Nat
      /\ SocksOf(q) = SocksOf(resp[w]) \cup {s}
      /\ DistinctSocks(resp[w]) /\ s \notin SocksOf(resp[w]) => DistinctSocks(q)
  BY <1>3, <1>4, <1>5, SocksAppend, Zenon
<1>7. resp' = [resp EXCEPT ![w] = q]
  BY <1>1, <1>2, <1>4
<1>8. /\ resp' \in [Workers -> Seq(Responses)] /\ \A v \in Workers \ {w} : resp'[v] = resp[v]
      /\ resp'[w] = q
  BY <1>5, <1>6, <1>7
<1>9. /\ pos' \in [Socks -> {"idle", "data", "event", "taken", "gone"}]
      /\ \A x \in Socks : pos'[x] \in {pos[x], "gone"}
  <2>1. pos' = IF how = "none" THEN [pos EXCEPT ![s] = "gone"] ELSE pos
    BY <1>1
  <2> QED BY <2>1 DEF Types
<1>10. notify' \in [Workers -> BOOLEAN]
  BY DEF Respond, Types, WorkerTypes
<1>11. Len(resp[w]) < RingSize
  BY DEF Respond
<1> QED BY <1>6, <1>8, <1>9, <1>10, <1>11

\* The step takes socket s from where worker w has it: from the works, or from the requests
\* with I/O done.
TakesFrom(w, s) ==
    /\ UNCHANGED <<listener, notifyContexts, load, req, pc, active>>
    /\ works' \in [Workers -> Seq(Socks)] /\ aioDone' \in [Workers -> SUBSET Socks]
    /\ \A v \in Workers \ {w} : works'[v] = works[v] /\ aioDone'[v] = aioDone[v]
    /\ Distinct(works'[w]) /\ s \notin Elements(works'[w]) /\ s \notin IOs(w)'
    /\ s \in Elements(works[w]) \cup IOs(w)
    /\ Elements(works[w]) \cup IOs(w) = Elements(works'[w]) \cup IOs(w)' \cup {s}
    /\ Elements(works'[w]) \subseteq Elements(works[w]) /\ IOs(w)' \subseteq IOs(w)
    /\ Len(works'[w]) + Cardinality(IOs(w)') + 1 = Len(works[w]) + Cardinality(IOs(w))
    /\ works'[w] # <<>> => works[w] # <<>>
    /\ aioDone'[w] \subseteq aioDone[w]

\* The socket goes back with a response.
LEMMA RespondInv ==
    ASSUME IInv, NEW w \in Workers, NEW s \in Held(w), Respond(w, s), TakesFrom(w, s)
    PROVE  IInv'
<1>0. UNCHANGED <<listener, notifyContexts, load, req, pc, active>>
  BY DEF TakesFrom
<1>1. /\ WorkerTypes /\ Types /\ LimitsAt(w) /\ InOrder(w) /\ CountedAt(w) /\ Limits /\ Held(w) \subseteq Socks
      /\ \A r \in Held(w) : pos[r] \in {"taken", "gone"}
  BY WorkerFacts
<1>2. /\ Len(req[w]) \in Nat /\ Cardinality(IOs(w)) \in Nat /\ load[w] \in Nat /\ Len(works[w]) \in Nat
      /\ Len(resp[w]) \in Nat /\ Len(Cur(w)) \in Nat
  BY <1>1, QueueTypes
<1>3. /\ resp' \in [Workers -> Seq(Responses)] /\ \A v \in Workers \ {w} : resp'[v] = resp[v]
      /\ Len(resp'[w]) = Len(resp[w]) + 1 /\ Len(resp[w]) < RingSize
      /\ SocksOf(resp'[w]) = SocksOf(resp[w]) \cup {s}
      /\ DistinctSocks(resp[w]) /\ s \notin SocksOf(resp[w]) => DistinctSocks(resp'[w])
      /\ pos' \in [Socks -> {"idle", "data", "event", "taken", "gone"}]
      /\ \A r \in Socks : pos'[r] \in {pos[r], "gone"}
      /\ notify' \in [Workers -> BOOLEAN]
  BY <1>1, RespondIs, Zenon
<1>4. Group' = Group
  BY <1>0, GroupSame, Zenon
<1>5. Types'
  <2>1. works' \in [Workers -> Seq(Socks)] /\ aioDone' \in [Workers -> SUBSET Socks]
    BY Zenon DEF TakesFrom
  <2> QED BY <1>0, <1>3, <1>4, <2>1, Zenon DEF IInv, Types, ListenerTypes, WorkerTypes
<1>6. \A v \in Workers \ {w} : Same(v) /\ pc'[v] = pc[v] /\ load'[v] = load[v]
  BY <1>0, <1>3, Zenon DEF Same, Cur, TakesFrom
<1>7. Cur(w)' = Cur(w)
  BY <1>0, Zenon DEF Cur
<1>8. IsFiniteSet(IOs(w)') /\ Cardinality(IOs(w)') \in Nat /\ Len(works'[w]) \in Nat
  <2>1. IsFiniteSet(IOs(w))
    BY <1>1, QueueTypes, Zenon
  <2>2. IsFiniteSet(IOs(w)') /\ works'[w] \in Seq(Socks)
    BY <2>1, FS_Subset, Zenon DEF TakesFrom
  <2> QED BY <2>2, FS_CardinalityType
<1>9. LimitsAt(w)'
  <2>1. Cardinality(IOs(w)') + Len(works'[w]) <= Slots
    <3>1. Len(works'[w]) + Cardinality(IOs(w)') + 1 = Len(works[w]) + Cardinality(IOs(w))
      BY Zenon DEF TakesFrom
    <3>2. Cardinality(IOs(w)) + Len(works[w]) <= Slots
      BY <1>1, Zenon DEF LimitsAt, IOs
    <3> QED BY <1>2, <1>8, <3>1, <3>2, BoundsAssumption
  <2>2. Len(resp'[w]) <= RingSize
    BY <1>2, <1>3, BoundsAssumption
  <2>3. Len(req'[w]) <= RingSize /\ (works'[w] # <<>> => pc'[w] = "work") /\ active'[w] \cap aioDone'[w] = {}
    BY <1>0, <1>1, Zenon DEF LimitsAt, TakesFrom
  <2> QED BY <2>1, <2>2, <2>3, Zenon DEF LimitsAt, IOs
<1>10. Limits'
  BY <1>1, <1>6, <1>9, LimitsMoved, Zenon
<1>11. s \notin Elements(req[w]) /\ s \notin SocksOf(resp[w]) /\ s \notin SocksOf(Cur(w))
  BY <1>1, Zenon DEF InOrder, TakesFrom
<1>12. Held(w)' = Held(w)
  BY <1>0, <1>3, <1>7, Zenon DEF Held, TakesFrom
<1>13. InOrder(w)'
  <2>1. DistinctSocks(resp'[w]) /\ DistinctSocks(Cur(w)') /\ Distinct(req'[w])
    BY <1>0, <1>1, <1>3, <1>7, <1>11, Zenon DEF InOrder
  <2>2. /\ Elements(req'[w]) \cap Elements(works'[w]) = {}
        /\ Elements(req'[w]) \cap IOs(w)' = {} /\ Elements(works'[w]) \cap IOs(w)' = {}
    BY <1>0, <1>1, ZenonT(30) DEF InOrder, TakesFrom
  <2>3. (Elements(req'[w]) \cup Elements(works'[w]) \cup IOs(w)') \cap (SocksOf(resp'[w]) \cup SocksOf(Cur(w)')) = {}
    BY <1>0, <1>1, <1>3, <1>7, <1>11, ZenonT(30) DEF InOrder, TakesFrom
  <2>4. SocksOf(resp'[w]) \cap SocksOf(Cur(w)') = {}
    BY <1>1, <1>3, <1>7, <1>11, Zenon DEF InOrder
  <2>5. Distinct(works'[w])
    BY Zenon DEF TakesFrom
  <2> QED BY <2>1, <2>2, <2>3, <2>4, <2>5, Zenon DEF InOrder
<1>14. CountedAt(w)'
  <2>1. PICK bb \in Nat, cc \in Nat, dd \in Nat :
          bb = Len(works'[w]) /\ cc = Cardinality(IOs(w)') /\ dd = Len(resp'[w])
    <3>1. PICK d \in Nat : d = Len(resp[w]) /\ Len(resp'[w]) = d + 1
      BY <1>2, <1>3, Zenon
    <3>2. d + 1 \in Nat
      OBVIOUS
    <3> QED BY <1>8, <3>1, <3>2, Zenon
  <2>2. bb + cc + 1 = Len(works[w]) + Cardinality(IOs(w)) /\ dd = Len(resp[w]) + 1
    BY <1>3, <2>1, Zenon DEF TakesFrom
  <2>3. load[w] = Len(req[w]) + Len(works[w]) + Cardinality(IOs(w)) + Len(resp[w]) + Len(Cur(w))
    BY <1>1, Zenon DEF CountedAt
  <2>4. load[w] = Len(req[w]) + bb + cc + dd + Len(Cur(w))
    <3>1. PICK r \in Nat, b \in Nat, c \in Nat, d \in Nat, e \in Nat :
            /\ r = Len(req[w]) /\ b = Len(works[w]) /\ c = Cardinality(IOs(w))
            /\ d = Len(resp[w]) /\ e = Len(Cur(w))
      BY <1>2, Zenon
    <3>2. load[w] = r + b + c + d + e
      BY <2>3, <3>1, Zenon
    <3>3. bb + cc + 1 = b + c /\ dd = d + 1
      BY <2>2, <3>1, Zenon
    <3>4. load[w] = r + bb + cc + dd + e
      BY <3>2, <3>3
    <3> QED BY <3>1, <3>4, Zenon
  <2> QED BY <1>0, <1>7, <2>1, <2>4, ZenonT(30) DEF CountedAt
<1>15. \A r \in Held(w)' : pos'[r] \in {"taken", "gone"}
  BY <1>1, <1>3, <1>12
<1>16. \A r \in Socks : pos[r] \in {"taken", "gone"} => pos'[r] \in {"taken", "gone"}
  BY <1>3, Zenon
<1>17. Once' /\ Counted' /\ Even'
  BY <1>0, <1>2, <1>6, <1>12, <1>13, <1>14, <1>15, <1>16, MovedWithin, ZenonT(30)
<1> QED BY <1>5, <1>10, <1>17, Zenon DEF IInv

\* workLoop: the first work is answered, or becomes an asynchronous request.
LEMMA ProcessInv ==
    ASSUME IInv, NEW w \in Workers, Process(w)
    PROVE  IInv'
<1>1. /\ WorkerTypes /\ Types /\ LimitsAt(w) /\ InOrder(w) /\ CountedAt(w) /\ Limits /\ Held(w) \subseteq Socks
      /\ \A r \in Held(w) : pos[r] \in {"taken", "gone"}
  BY WorkerFacts
<1>2. /\ works[w] \in Seq(Socks) /\ Len(req[w]) \in Nat /\ Cardinality(IOs(w)) \in Nat /\ load[w] \in Nat
      /\ Len(works[w]) \in Nat /\ Len(resp[w]) \in Nat /\ Len(Cur(w)) \in Nat /\ IsFiniteSet(IOs(w))
      /\ IOs(w) \subseteq Socks
  BY <1>1, QueueTypes, Zenon
<1>3. /\ UNCHANGED <<listener, notifyContexts, load, req, pc, aioDone>>
      /\ pc[w] = "work" /\ works[w] # <<>>
  BY DEF Process
<1>4. PICK s : s = Head(works[w])
  OBVIOUS
<1>5. PICK q : q = Tail(works[w])
  BY Zenon
<1>6. works' = [works EXCEPT ![w] = q]
  BY <1>5, Zenon DEF Process
<1>7. /\ q \in Seq(Socks) /\ Len(q) = Len(works[w]) - 1 /\ Len(q) \in Nat
      /\ s \in Socks /\ s \in Elements(works[w])
      /\ Distinct(q) /\ Elements(q) = Elements(works[w]) \ {s}
  BY <1>1, <1>2, <1>3, <1>4, <1>5, ElementsTail, Zenon DEF InOrder
<1>8. /\ works' \in [Workers -> Seq(Socks)] /\ works'[w] = q
      /\ \A v \in Workers \ {w} : works'[v] = works[v]
  BY <1>1, <1>6, <1>7, Zenon DEF WorkerTypes
<1>9. s \notin IOs(w) /\ s \in Held(w)
  BY <1>1, <1>7, Zenon DEF InOrder, Held
<1>10. CASE Respond(w, s) /\ UNCHANGED active
  <2>1. IOs(w)' = IOs(w)
    BY <1>3, <1>10, Zenon DEF IOs
  <2>2. Len(works'[w]) + Cardinality(IOs(w)') + 1 = Len(works[w]) + Cardinality(IOs(w))
    BY <1>2, <1>7, <1>8, <2>1
  <2>3. aioDone' \in [Workers -> SUBSET Socks]
    BY <1>1, <1>3 DEF WorkerTypes
  <2>4. Elements(works[w]) \cup IOs(w) = Elements(works'[w]) \cup IOs(w)' \cup {s}
    BY <1>7, <1>8, <2>1, Zenon
  <2>5. TakesFrom(w, s)
    BY <1>3, <1>7, <1>8, <1>9, <1>10, <2>1, <2>2, <2>3, <2>4, Zenon DEF TakesFrom
  <2> QED BY <1>9, <1>10, <2>5, RespondInv, Zenon
<1>11. CASE active' = [active EXCEPT ![w] = @ \cup {s}] /\ UNCHANGED <<pos, resp, notify>>
  <2>1. /\ active' \in [Workers -> SUBSET Socks] /\ active'[w] = active[w] \cup {s}
        /\ \A v \in Workers \ {w} : active'[v] = active[v]
    BY <1>1, <1>7, <1>11 DEF WorkerTypes
  <2>2. UNCHANGED <<pos, resp, notify>>
    BY <1>11
  <2>3. Group' = Group
    BY <1>3, GroupSame, Zenon
  <2>4. Types'
    BY <1>3, <1>8, <2>1, <2>2, <2>3, Zenon DEF IInv, Types, ListenerTypes, WorkerTypes
  <2>5. \A v \in Workers \ {w} : Same(v) /\ pc'[v] = pc[v] /\ load'[v] = load[v]
    BY <1>3, <1>8, <2>1, <2>2, Zenon DEF Same, Cur
  <2>6. IOs(w)' = IOs(w) \cup {s} /\ Cur(w)' = Cur(w)
    BY <1>3, <2>1 DEF IOs, Cur
  <2>7. Cardinality(IOs(w)') = Cardinality(IOs(w)) + 1
    BY <1>2, <1>9, <2>6, FS_AddElement, Zenon
  <2>8. LimitsAt(w)'
    <3>1. Cardinality(IOs(w)') + Len(works'[w]) <= Slots
      <4>1. Cardinality(IOs(w)) + Len(works[w]) <= Slots
        BY <1>1, Zenon DEF LimitsAt, IOs
      <4> QED BY <1>2, <1>7, <1>8, <2>7, <4>1, BoundsAssumption
    <3>2. active'[w] \cap aioDone'[w] = {}
      BY <1>1, <1>3, <1>9, <2>1, Zenon DEF LimitsAt, IOs
    <3> QED BY <1>1, <1>3, <2>2, <3>1, <3>2, ZenonT(30) DEF LimitsAt, IOs
  <2>9. Limits'
    BY <1>1, <2>5, <2>8, LimitsMoved, Zenon
  <2>10. Held(w)' = Held(w)
    BY <1>3, <1>7, <1>8, <2>2, <2>6, Zenon DEF Held
  <2>11. InOrder(w)'
    BY <1>1, <1>3, <1>7, <1>8, <2>2, <2>6, Zenon DEF InOrder
  <2>12. CountedAt(w)'
    <3>1. PICK r \in Nat, b \in Nat, c \in Nat, d \in Nat, e \in Nat :
            /\ r = Len(req[w]) /\ b = Len(works[w]) /\ c = Cardinality(IOs(w))
            /\ d = Len(resp[w]) /\ e = Len(Cur(w))
      BY <1>2, Zenon
    <3>2. load[w] = r + b + c + d + e
      BY <1>1, <3>1, Zenon DEF CountedAt
    <3>3. Len(works'[w]) = b - 1 /\ Cardinality(IOs(w)') = c + 1
      BY <1>7, <1>8, <2>7, <3>1
    <3>4. load[w] = r + (b - 1) + (c + 1) + d + e
      BY <3>2, OneMoves
    <3> QED BY <1>3, <2>2, <2>6, <3>1, <3>3, <3>4, Zenon DEF CountedAt
  <2>13. Once' /\ Counted' /\ Even'
    BY <1>1, <1>2, <1>3, <2>2, <2>5, <2>10, <2>11, <2>12, MovedWithin, ZenonT(30)
  <2> QED BY <2>4, <2>9, <2>13, Zenon DEF IInv
<1> QED BY <1>4, <1>10, <1>11, Zenon DEF Process

\* reapCompletions: a request whose I/O is done is answered.
LEMMA ReapInv ==
    ASSUME IInv, NEW w \in Workers, NEW s \in Socks, Reap(w, s)
    PROVE  IInv'
<1>1. /\ WorkerTypes /\ Types /\ LimitsAt(w) /\ InOrder(w)
  BY WorkerFacts, ZenonT(30)
<1>2. /\ works[w] \in Seq(Socks) /\ Len(works[w]) \in Nat /\ Cardinality(IOs(w)) \in Nat /\ IsFiniteSet(IOs(w))
  BY <1>1, QueueTypes
<1>3. /\ UNCHANGED <<listener, notifyContexts, load, req, pc, works, active>>
      /\ s \in aioDone[w] /\ Respond(w, s)
  BY DEF Reap
<1>4. aioDone' = [aioDone EXCEPT ![w] = @ \ {s}]
  BY DEF Reap
<1>5. /\ aioDone' \in [Workers -> SUBSET Socks] /\ aioDone'[w] = aioDone[w] \ {s}
      /\ \A v \in Workers \ {w} : aioDone'[v] = aioDone[v]
  BY <1>1, <1>4, Zenon DEF WorkerTypes
<1>6. s \in IOs(w) /\ IOs(w)' = IOs(w) \ {s}
  BY <1>1, <1>3, <1>5 DEF IOs, LimitsAt
<1>7. Cardinality(IOs(w)') = Cardinality(IOs(w)) - 1
  BY <1>2, <1>6, FS_RemoveElement, ZenonT(30)
<1>8. s \in Held(w) /\ s \notin Elements(works[w]) /\ Distinct(works[w])
  BY <1>1, <1>6 DEF InOrder, Held
<1>9. works' \in [Workers -> Seq(Socks)]
  BY <1>1, <1>3 DEF WorkerTypes
<1>10. Len(works'[w]) + Cardinality(IOs(w)') + 1 = Len(works[w]) + Cardinality(IOs(w))
  BY <1>2, <1>3, <1>7
<1>11. Elements(works[w]) \cup IOs(w) = Elements(works'[w]) \cup IOs(w)' \cup {s}
  BY <1>3, <1>6, Zenon
<1>12. TakesFrom(w, s)
  BY <1>3, <1>5, <1>6, <1>8, <1>9, <1>10, <1>11, Zenon DEF TakesFrom
<1> QED BY <1>3, <1>8, <1>12, RespondInv, Zenon

-----------------------------------------------------------------------------
(* The steps of the listener that move sockets. *)

\* What Incoming does with the loads l: request s is the last in the ring of worker b.
Gives(s, b, l) ==
    /\ Len(req[b]) < RingSize /\ Len(req'[b]) = Len(req[b]) + 1
    /\ Elements(req'[b]) = Elements(req[b]) \cup {s}
    /\ Distinct(req[b]) /\ s \notin Elements(req[b]) => Distinct(req'[b])
    /\ \A v \in Workers \ {b} : req'[v] = req[v] /\ load'[v] = l[v]
    /\ load'[b] = l[b] + 1
    /\ pos'[s] = "taken" /\ \A r \in Socks \ {s} : pos'[r] = pos[r]

\* What the router's choice is: the least loaded worker of the group, which gets the socket.
LEMMA IncomingIs ==
    ASSUME Types, NEW s \in Socks, NEW l \in [Workers -> Nat], Incoming(s, l)
    PROVE  /\ Best(l) \in Group /\ \A v \in Group : l[Best(l)] <= l[v]
           /\ Gives(s, Best(l), l)
           /\ req' \in [Workers -> Seq(Socks)] /\ load' \in [Workers -> Nat]
           /\ pos' \in [Socks -> {"idle", "data", "event", "taken", "gone"}]
           /\ notifyContexts' \subseteq Group
<1>1. /\ listener.index \in Listeners /\ req \in [Workers -> Seq(Socks)] /\ notifyContexts \subseteq Group
      /\ pos \in [Socks -> {"idle", "data", "event", "taken", "gone"}]
  BY DEF Types, ListenerTypes, WorkerTypes
<1>2. PICK b : b = Best(l)
  OBVIOUS
<1>3. b \in Group /\ b \in Workers /\ \A v \in Group : l[b] <= l[v]
  BY <1>1, <1>2, BestIs, GroupIs
<1>4. PICK q : q = Append(req[b], s)
  BY Zenon
<1>5. PICK n : n = l[b] + 1
  OBVIOUS
<1>6. /\ q \in Seq(Socks) /\ Len(q) = Len(req[b]) + 1
      /\ Elements(q) = Elements(req[b]) \cup {s}
      /\ Distinct(req[b]) /\ s \notin Elements(req[b]) => Distinct(q)
  BY <1>1, <1>3, <1>4, ElementsAppend
<1>7. /\ Len(req[b]) < RingSize
      /\ req' = [req EXCEPT ![b] = q] /\ load' = [l EXCEPT ![b] = n]
      /\ notifyContexts' = notifyContexts \cup {b}
      /\ pos' = [pos EXCEPT ![s] = "taken"]
  BY <1>2, <1>4, <1>5, Zenon DEF Incoming
<1>8. /\ req' \in [Workers -> Seq(Socks)] /\ req'[b] = q
      /\ \A v \in Workers \ {b} : req'[v] = req[v]
  BY <1>1, <1>3, <1>6, <1>7, Zenon
<1>9. /\ load' \in [Workers -> Nat] /\ load'[b] = n
      /\ \A v \in Workers \ {b} : load'[v] = l[v]
  <2>1. n \in Nat
    BY <1>3, <1>5
  <2> QED BY <1>3, <1>7, <2>1
<1>10. /\ pos' \in [Socks -> {"idle", "data", "event", "taken", "gone"}]
       /\ pos'[s] = "taken" /\ \A r \in Socks \ {s} : pos'[r] = pos[r]
  BY <1>1, <1>7
<1>11. Len(req[b]) < RingSize
  BY <1>7, Zenon
<1>12. Gives(s, b, l)
  BY <1>5, <1>6, <1>8, <1>9, <1>10, <1>11, Zenon DEF Gives
<1>13. notifyContexts' \subseteq Group
  BY <1>1, <1>3, <1>7
<1> QED BY <1>2, <1>3, <1>8, <1>9, <1>10, <1>12, <1>13, ZenonT(30)

\* The socket that the listener gives away is nowhere else than, at most, in its hand; then
\* it is the response that the listener handles.
Hands(s, l) ==
    /\ UNCHANGED <<works, active, aioDone, resp, pc>>
    /\ listener'.index = listener.index
    /\ \A v \in Workers :
        /\ s \notin Elements(req[v]) /\ s \notin Elements(works[v]) /\ s \notin IOs(v) /\ s \notin SocksOf(resp[v])
        /\ SocksOf(Cur(v)') = SocksOf(Cur(v)) \ {s} /\ DistinctSocks(Cur(v)')
        /\ Len(Cur(v)') \in Nat /\ load[v] + Len(Cur(v)') = l[v] + Len(Cur(v))

\* Giving a socket to a worker keeps the invariant: it was in no queue, and the least loaded
\* worker has room when the sockets fit.
LEMMA GivesInv ==
    ASSUME IInv, Types', NEW s \in Socks, NEW b \in Workers, NEW l \in [Workers -> Nat],
           Gives(s, b, l), Hands(s, l), Fits => l[b] < RingSize, Fits => \A v \in Workers : l[v] <= RingSize
    PROVE  IInv'
<1>1. UNCHANGED <<works, active, aioDone, resp, pc>> /\ listener'.index = listener.index
  BY Zenon DEF Hands
<1>2. \A v \in Workers : IOs(v)' = IOs(v)
  BY <1>1 DEF IOs
<1>3. ASSUME NEW v \in Workers
      PROVE  InOrder(v)' /\ Held(v)' \subseteq Held(v) \cup {s} /\ (s \in Held(v)' => v = b)
  <2>1. InOrder(v)
    BY WorkerFacts, Zenon
  <2>2. /\ s \notin Elements(req[v]) /\ s \notin Elements(works[v]) /\ s \notin IOs(v) /\ s \notin SocksOf(resp[v])
        /\ SocksOf(Cur(v)') = SocksOf(Cur(v)) \ {s} /\ DistinctSocks(Cur(v)')
    BY Zenon DEF Hands
  <2>3. /\ Distinct(req'[v])
        /\ Elements(req'[v]) \subseteq Elements(req[v]) \cup {s}
        /\ v # b => Elements(req'[v]) = Elements(req[v])
    BY <2>1, <2>2, Zenon DEF Gives, InOrder
  <2>4. works'[v] = works[v] /\ resp'[v] = resp[v] /\ IOs(v)' = IOs(v)
    BY <1>1, <1>2, Zenon
  <2>5. /\ Elements(req'[v]) \cap Elements(works[v]) = {} /\ Elements(req'[v]) \cap IOs(v) = {}
        /\ Elements(req'[v]) \cap SocksOf(resp[v]) = {} /\ Elements(req'[v]) \cap SocksOf(Cur(v)') = {}
    BY <2>1, <2>2, <2>3, Zenon DEF InOrder
  <2>6. InOrder(v)'
    BY <2>1, <2>2, <2>3, <2>4, <2>5, Zenon DEF InOrder
  <2>7. Held(v)' \subseteq Held(v) \cup {s} /\ (s \in Held(v)' => v = b)
    BY <2>2, <2>3, <2>4, Zenon DEF Held
  <2> QED BY <2>6, <2>7
<1>4. ASSUME NEW v \in Workers PROVE CountedAt(v)' /\ (Fits => load'[v] <= RingSize) /\ LimitsAt(v)'
  <2>1. Types /\ CountedAt(v) /\ LimitsAt(v)
    BY WorkerFacts
  <2>2. PICK r \in Nat, k \in Nat, c \in Nat, d \in Nat, e \in Nat :
          /\ r = Len(req[v]) /\ k = Len(works[v]) /\ c = Cardinality(IOs(v))
          /\ d = Len(resp[v]) /\ e = Len(Cur(v))
    BY <2>1, QueueTypes, Zenon
  <2>3. load[v] = r + k + c + d + e /\ load[v] \in Nat
    <3>1. load[v] \in Nat
      BY <2>1, QueueTypes, Zenon
    <3> QED BY <2>1, <2>2, <3>1, Zenon DEF CountedAt
  <2>4. PICK f \in Nat : f = Len(Cur(v)') /\ load[v] + f = l[v] + e
    BY <2>2, Zenon DEF Hands
  <2>5. PICK i \in {0, 1} : load'[v] = l[v] + i /\ Len(req'[v]) = r + i /\ (i = 1 => v = b /\ r < RingSize)
    <3>1. CASE v = b
      <4>1. load'[v] = l[v] + 1 /\ Len(req'[v]) = r + 1 /\ r < RingSize
        BY <2>2, <3>1, Zenon DEF Gives
      <4> QED BY <3>1, <4>1, Zenon
    <3>2. CASE v # b
      <4>1. load'[v] = l[v] /\ Len(req'[v]) = r
        BY <2>2, <3>2, Zenon DEF Gives
      <4>2. load'[v] = l[v] + 0 /\ Len(req'[v]) = r + 0
        BY <2>2, <4>1
      <4> QED BY <4>2
    <3> QED BY <3>1, <3>2
  <2>6. l[v] \in Nat
    OBVIOUS
  <2>7. load'[v] = (r + i) + k + c + d + f
    <3>1. PICK m \in Nat, n \in Nat : m = load[v] /\ n = l[v]
      BY <2>3, <2>6
    <3>2. m = r + k + c + d + e
      BY <2>3, <3>1, Zenon
    <3>3. m + f = n + e
      BY <2>4, <3>1, Zenon
    <3>4. n = r + k + c + d + f
      BY <3>2, <3>3
    <3>5. load'[v] = n + i /\ i \in Nat
      BY <2>5, <3>1
    <3>6. n + i = (r + i) + k + c + d + f
      BY <3>4, <3>5
    <3> QED BY <3>5, <3>6
  <2>8. CountedAt(v)'
    <3>1. Len(works'[v]) = k /\ Cardinality(IOs(v)') = c /\ Len(resp'[v]) = d
      BY <1>1, <1>2, <2>2, Zenon
    <3>2. Len(req'[v]) = r + i /\ Len(Cur(v)') = f
      BY <2>4, <2>5, Zenon
    <3> QED BY <2>7, <3>1, <3>2, Zenon DEF CountedAt
  <2>9. Fits => load'[v] <= RingSize
    BY <2>5, <2>6, BoundsAssumption
  <2>10. Len(req'[v]) <= RingSize
    <3>1. r <= RingSize
      BY <2>1, <2>2, Zenon DEF LimitsAt
    <3> QED BY <2>5, <3>1, BoundsAssumption
  <2>11. LimitsAt(v)'
    BY <1>1, <2>1, <2>10, Zenon DEF LimitsAt
  <2> QED BY <2>8, <2>9, <2>11
<1>5. pos'[s] = "taken" /\ \A r \in Socks \ {s} : pos'[r] = pos[r]
  BY Zenon DEF Gives
<1>6. Once' /\ Counted' /\ Even'
  BY <1>1, <1>3, <1>4, <1>5, Given, Zenon
<1>7. Limits'
  BY <1>4, Zenon DEF Limits
<1> QED BY <1>6, <1>7, Zenon DEF IInv

\* A request of a socket that became readable.
LEMMA HandleSockInv ==
    ASSUME IInv, NEW s \in Socks, HandleSock(s)
    PROVE  IInv'
<1>1. /\ UNCHANGED <<listener, resp, pc, notify, works, active, aioDone>>
      /\ pos[s] = "event" /\ Incoming(s, load)
  BY Zenon DEF HandleSock, workerVars
<1>2. Types /\ load \in [Workers -> Nat] /\ Once /\ Counted /\ Even /\ listener.index \in Listeners
  BY DEF IInv, Types, WorkerTypes, ListenerTypes
<1>3. PICK b : b = Best(load)
  OBVIOUS
<1>4. /\ b \in Group /\ \A v \in Group : load[b] <= load[v]
      /\ Gives(s, b, load)
      /\ req' \in [Workers -> Seq(Socks)] /\ load' \in [Workers -> Nat]
      /\ pos' \in [Socks -> {"idle", "data", "event", "taken", "gone"}]
      /\ notifyContexts' \subseteq Group
  BY <1>1, <1>2, <1>3, IncomingIs, Zenon
<1>5. Group' = Group /\ b \in Workers /\ Group \subseteq Workers
  BY <1>1, <1>2, <1>4, GroupSame, GroupIs, Zenon
<1>6. Types'
  BY <1>1, <1>2, <1>4, <1>5, Zenon DEF Types, ListenerTypes, WorkerTypes
<1>7. \A v \in Workers : s \notin Held(v)
  BY <1>1, <1>2, Zenon DEF Once
<1>8. Hands(s, load)
  <2>1. ASSUME NEW v \in Workers
        PROVE  /\ s \notin Elements(req[v]) /\ s \notin Elements(works[v]) /\ s \notin IOs(v)
               /\ s \notin SocksOf(resp[v]) /\ s \notin SocksOf(Cur(v)) /\ Cur(v)' = Cur(v)
               /\ DistinctSocks(Cur(v)) /\ Len(Cur(v)) \in Nat
    <3>1. Cur(v)' = Cur(v)
      BY <1>1, Zenon DEF Cur
    <3>2. DistinctSocks(Cur(v)) /\ Len(Cur(v)) \in Nat
      BY <1>2, QueueTypes, Zenon DEF Once, InOrder
    <3> QED BY <1>7, <3>1, <3>2, Zenon DEF Held
  <2> QED BY <1>1, <2>1, Zenon DEF Hands
<1>9. ASSUME Fits PROVE load[b] < RingSize
  <2>1. PICK v \in Group : load[v] < RingSize
    BY <1>2, <1>7, <1>9, RoomForOneMore
  <2>2. load[v] \in Nat /\ load[b] \in Nat /\ load[b] <= load[v]
    BY <1>2, <1>4, <1>5
  <2> QED BY <2>1, <2>2, BoundsAssumption
<1>10. Fits => \A v \in Workers : load[v] <= RingSize
  BY <1>2 DEF Even
<1> QED BY <1>2, <1>4, <1>5, <1>6, <1>8, <1>9, <1>10, GivesInv, Zenon

\* onIOWorkerResponse takes all responses of the ring, or is done with it.
LEMMA DequeueBurstInv ==
    ASSUME IInv, DequeueBurst
    PROVE  IInv'
<1>1. /\ UNCHANGED <<pos, notifyContexts, load, req, pc, notify, works, active, aioDone>>
      /\ listener.pc = "burst" /\ listener.cur = <<>>
  BY DEF DequeueBurst, workerVars
<1>2. PICK w : w = listener.from
  OBVIOUS
<1>3. ListenerTypes /\ WorkerTypes /\ Types /\ Limits
  BY DEF IInv, Types
<1>4. w \in Group /\ Group \subseteq Workers /\ w \in Workers /\ NoWorker \notin Workers /\ w # NoWorker
  BY <1>1, <1>2, <1>3, GroupIs DEF ListenerTypes
<1>5. CASE listener' = [listener EXCEPT !.pc = "handle", !.from = NoWorker] /\ UNCHANGED resp
  <2>1. /\ listener' \in [index : Listeners, pc : {"wait", "handle", "burst"}, batch : SUBSET Workers,
                          cur : Seq(Responses), from : Workers \cup {NoWorker}]
        /\ listener'.index = listener.index /\ listener'.pc = "handle" /\ listener'.batch = listener.batch
        /\ listener'.cur = listener.cur /\ listener'.from = NoWorker
    BY <1>3, <1>5, Zenon DEF ListenerTypes
  <2>2. UNCHANGED resp
    BY <1>5
  <2>3. Group' = Group
    BY <2>1, GroupSame, Zenon
  <2>4. ListenerTypes'
    BY <1>1, <1>3, <2>1, <2>3, ZenonT(30) DEF ListenerTypes
  <2>5. Types'
    BY <1>1, <1>3, <2>2, <2>3, <2>4 DEF Types, WorkerTypes
  <2>6. Limits'
    BY <1>1, <1>3, <2>2, Zenon DEF Limits, LimitsAt
  <2>7. \A v \in Workers : Same(v)
    BY <1>1, <2>1, <2>2, Zenon DEF Same, Cur
  <2>8. Once' /\ Counted' /\ Even'
    BY <1>1, <2>1, <2>7, Quieted, Zenon
  <2> QED BY <2>5, <2>6, <2>8 DEF IInv
<1>6. CASE listener' = [listener EXCEPT !.cur = resp[w]] /\ resp' = [resp EXCEPT ![w] = <<>>]
  <2>1. PICK q \in Seq(Responses) : q = resp[w]
    BY <1>3, <1>4 DEF WorkerTypes
  <2>2. listener' = [listener EXCEPT !.cur = q]
    BY <1>6, <2>1, Zenon
  <2>3. /\ listener' \in [index : Listeners, pc : {"wait", "handle", "burst"}, batch : SUBSET Workers,
                          cur : Seq(Responses), from : Workers \cup {NoWorker}]
        /\ listener'.index = listener.index /\ listener'.pc = listener.pc /\ listener'.batch = listener.batch
        /\ listener'.cur = q /\ listener'.from = listener.from
    BY <1>3, <2>2 DEF ListenerTypes
  <2>4. /\ resp' \in [Workers -> Seq(Responses)] /\ resp'[w] = <<>>
        /\ \A v \in Workers \ {w} : resp'[v] = resp[v]
    BY <1>3, <1>4, <1>6 DEF WorkerTypes
  <2>5. Group' = Group
    BY <2>3, GroupSame, Zenon
  <2>6. ListenerTypes'
    BY <1>1, <1>3, <2>3, <2>5, Zenon DEF ListenerTypes
  <2>7. Types'
    BY <1>1, <1>3, <2>4, <2>5, <2>6, Zenon DEF Types, WorkerTypes
  <2>8. \A v \in Workers \ {w} : Same(v)
    BY <1>1, <1>2, <2>3, <2>4, ZenonT(30) DEF Same, Cur
  <2>9. Cur(w) = <<>> /\ Cur(w)' = q /\ IOs(w)' = IOs(w)
    BY <1>1, <1>2, <2>3 DEF Cur, IOs
  <2>10. LimitsAt(w)'
    <3>1. Len(resp'[w]) <= RingSize
      BY <2>4, NoElements, BoundsAssumption
    <3> QED BY <1>1, <1>3, <1>4, <3>1, Zenon DEF Limits, LimitsAt
  <2>11. Limits'
    BY <1>1, <1>3, <1>4, <2>8, <2>10, LimitsMoved, ZenonT(30)
  <2>12. SocksOf(resp'[w]) = {} /\ SocksOf(Cur(w)) = {} /\ DistinctSocks(resp'[w])
    BY <2>4, <2>9, NoElements
  <2>13. InOrder(w) /\ CountedAt(w) /\ \A r \in Held(w) : pos[r] \in {"taken", "gone"}
    BY <1>4, WorkerFacts, Zenon
  <2>14. Held(w)' = Held(w)
    BY <1>1, <2>1, <2>9, <2>12, Zenon DEF Held
  <2>15. InOrder(w)'
    BY <1>1, <2>1, <2>9, <2>12, <2>13, Zenon DEF InOrder
  <2>16. CountedAt(w)'
    <3>1. PICK r \in Nat, k \in Nat, c \in Nat, d \in Nat :
            r = Len(req[w]) /\ k = Len(works[w]) /\ c = Cardinality(IOs(w)) /\ d = Len(resp[w])
      BY <1>3, <1>4, QueueTypes, Zenon
    <3>2. Len(Cur(w)) = 0 /\ Len(resp'[w]) = 0 /\ Len(Cur(w)') = d
      BY <2>1, <2>4, <2>9, <3>1, NoElements
    <3>3. load[w] = r + k + c + d + 0
      BY <2>13, <3>1, <3>2, Zenon DEF CountedAt
    <3>4. load[w] = r + k + c + 0 + d
      BY <3>3
    <3> QED BY <1>1, <2>9, <3>1, <3>2, <3>4 DEF CountedAt
  <2>17. load[w] \in Nat
    BY <1>3, <1>4, QueueTypes, ZenonT(30)
  <2>18. Once' /\ Counted' /\ Even'
    BY <1>1, <1>4, <2>3, <2>8, <2>13, <2>14, <2>15, <2>16, <2>17, MovedWithin, ZenonT(30)
  <2> QED BY <2>7, <2>11, <2>18 DEF IInv
<1> QED BY <1>2, <1>5, <1>6 DEF DequeueBurst

\* What handling the first response in hand means: it is one of worker listener.from, whose
\* load is counted down.
LEMMA ResponseIs ==
    ASSUME IInv, NEW w, w = listener.from, NEW s, s = Head(listener.cur).sock,
           listener.cur # <<>>, listener' = [listener EXCEPT !.cur = Tail(@)]
    PROVE  /\ w \in Group /\ w \in Workers /\ s \in Socks /\ s \in SocksOf(Cur(w)) /\ s \in Held(w)
           /\ ListenerTypes' /\ listener'.index = listener.index
           /\ \A v \in Workers \ {w} : Cur(v)' = Cur(v) /\ Cur(v) = <<>>
           /\ SocksOf(Cur(w)') = SocksOf(Cur(w)) \ {s} /\ DistinctSocks(Cur(w)')
           /\ Len(Cur(w)) \in Nat /\ Len(Cur(w)') = Len(Cur(w)) - 1 /\ Len(Cur(w)') \in Nat
           /\ Completed(w) \in [Workers -> Nat] /\ Completed(w)[w] = load[w] - 1 /\ load[w] \in Nat
           /\ load[w] > 0
           /\ \A v \in Workers \ {w} : Completed(w)[v] = load[v]
<1>1. ListenerTypes /\ WorkerTypes /\ Types
  BY DEF IInv, Types
<1>2. /\ listener.cur \in Seq(Responses) /\ listener.index \in Listeners
      /\ w \in Group \cup {NoWorker} /\ w # NoWorker
  BY <1>1 DEF ListenerTypes
<1>3. w \in Group /\ w \in Workers
  BY <1>2, GroupIs
<1>4. PICK q : q = Tail(listener.cur)
  BY Zenon
<1>5. listener' = [listener EXCEPT !.cur = q]
  BY <1>4
<1>6. Cur(w) = listener.cur
  BY DEF Cur
<1>7. InOrder(w) /\ CountedAt(w)
  BY <1>3, WorkerFacts
<1>8. /\ q \in Seq(Responses) /\ Len(q) = Len(Cur(w)) - 1 /\ Len(q) \in Nat /\ Len(Cur(w)) \in Nat
      /\ s \in SocksOf(Cur(w)) /\ s \in Socks
      /\ DistinctSocks(q) /\ SocksOf(q) = SocksOf(Cur(w)) \ {s}
  <2>1. DistinctSocks(listener.cur)
    BY <1>6, <1>7 DEF InOrder
  <2>2. /\ q \in Seq(Responses) /\ Len(q) = Len(listener.cur) - 1 /\ Len(q) \in Nat /\ Len(listener.cur) \in Nat
        /\ s \in SocksOf(listener.cur) /\ s \in Socks
        /\ DistinctSocks(q) /\ SocksOf(q) = SocksOf(listener.cur) \ {s}
    BY <1>2, <1>4, <2>1, SocksTail
  <2> QED BY <1>6, <2>2
<1>9. /\ listener' \in [index : Listeners, pc : {"wait", "handle", "burst"}, batch : SUBSET Workers,
                        cur : Seq(Responses), from : Workers \cup {NoWorker}]
      /\ listener'.index = listener.index /\ listener'.pc = listener.pc /\ listener'.batch = listener.batch
      /\ listener'.cur = q /\ listener'.from = listener.from
  BY <1>1, <1>5, <1>8, Zenon DEF ListenerTypes
<1>10. Group' = Group
  BY <1>9, GroupSame
<1>11. ListenerTypes'
  BY <1>1, <1>2, <1>9, <1>10, Zenon DEF ListenerTypes
<1>12. Cur(w)' = q /\ \A v \in Workers \ {w} : Cur(v)' = Cur(v) /\ Cur(v) = <<>>
  BY <1>9 DEF Cur
<1>13. load[w] \in Nat /\ load[w] > 0
  <2>1. PICK r \in Nat, k \in Nat, c \in Nat, d \in Nat, e \in Nat :
          /\ r = Len(req[w]) /\ k = Len(works[w]) /\ c = Cardinality(IOs(w))
          /\ d = Len(resp[w]) /\ e = Len(Cur(w))
    BY <1>1, <1>3, QueueTypes, Zenon
  <2>2. load[w] = r + k + c + d + e
    BY <1>7, <2>1, Zenon DEF CountedAt
  <2>3. e > 0
    BY <1>8, <2>1
  <2> QED BY <2>2, <2>3
<1>14. PICK n : n = load[w] - 1
  OBVIOUS
<1>15. Completed(w) = [load EXCEPT ![w] = n]
  BY <1>13, <1>14, Zenon DEF Completed
<1>16. /\ Completed(w) \in [Workers -> Nat] /\ Completed(w)[w] = n
       /\ \A v \in Workers \ {w} : Completed(w)[v] = load[v]
  <2>1. n \in Nat
    BY <1>13, <1>14
  <2> QED BY <1>1, <1>3, <1>15, <2>1 DEF WorkerTypes
<1>17. s \in Held(w)
  BY <1>8 DEF Held
<1> QED BY <1>3, <1>8, <1>9, <1>11, <1>12, <1>13, <1>14, <1>16, <1>17, Zenon

\* The socket of the response is armed again or was closed.
LEMMA DropsInv ==
    ASSUME IInv, NEW w, w = listener.from, NEW s, s = Head(listener.cur).sock,
           listener.cur # <<>>, listener' = [listener EXCEPT !.cur = Tail(@)], load' = Completed(w),
           UNCHANGED <<notifyContexts, req, resp, pc, notify, works, active, aioDone>>,
           pos' \in [Socks -> {"idle", "data", "event", "taken", "gone"}],
           \A r \in Socks \ {s} : pos'[r] = pos[r]
    PROVE  IInv'
<1>1. /\ w \in Group /\ w \in Workers /\ s \in Socks /\ s \in SocksOf(Cur(w)) /\ s \in Held(w)
      /\ ListenerTypes' /\ listener'.index = listener.index
      /\ \A v \in Workers \ {w} : Cur(v)' = Cur(v)
      /\ SocksOf(Cur(w)') = SocksOf(Cur(w)) \ {s} /\ DistinctSocks(Cur(w)')
      /\ Len(Cur(w)) \in Nat /\ Len(Cur(w)') = Len(Cur(w)) - 1 /\ Len(Cur(w)') \in Nat
      /\ load' \in [Workers -> Nat] /\ load'[w] = load[w] - 1 /\ load[w] \in Nat /\ load[w] > 0
      /\ \A v \in Workers \ {w} : load'[v] = load[v]
  BY ResponseIs
<1>2. UNCHANGED <<notifyContexts, req, resp, pc, notify, works, active, aioDone>>
  OBVIOUS
<1>3. Group' = Group
  BY <1>1, GroupSame
<1>4. Types'
  BY <1>1, <1>2, <1>3 DEF IInv, Types, WorkerTypes
<1>5. Limits'
  BY <1>2, Zenon DEF IInv, Limits, LimitsAt
<1>6. \A v \in Workers \ {w} : Same(v)
  BY <1>1, <1>2 DEF Same
<1>7. /\ InOrder(w) /\ CountedAt(w) /\ Types /\ Held(w) \subseteq Socks
      /\ \A r \in Held(w) : pos[r] \in {"taken", "gone"}
  BY <1>1, WorkerFacts
<1>8. IOs(w)' = IOs(w)
  BY <1>2 DEF IOs
<1>9. InOrder(w)'
  BY <1>1, <1>2, <1>7, <1>8, Zenon DEF InOrder
<1>10. Held(w)' \subseteq Held(w) \ {s}
  BY <1>1, <1>2, <1>7, <1>8 DEF Held, InOrder
<1>11. CountedAt(w)'
  <2>1. PICK r \in Nat, k \in Nat, c \in Nat, d \in Nat, e \in Nat :
          /\ r = Len(req[w]) /\ k = Len(works[w]) /\ c = Cardinality(IOs(w))
          /\ d = Len(resp[w]) /\ e = Len(Cur(w))
    BY <1>1, <1>7, QueueTypes, Zenon
  <2>2. load[w] = r + k + c + d + e
    BY <1>7, <2>1, Zenon DEF CountedAt
  <2>3. load'[w] = r + k + c + d + (e - 1)
    BY <1>1, <2>2
  <2>4. Len(Cur(w)') = e - 1
    BY <1>1, <2>1
  <2> QED BY <1>2, <1>8, <2>1, <2>3, <2>4 DEF CountedAt
<1>12. \A r \in Held(w)' : pos'[r] \in {"taken", "gone"}
  BY <1>7, <1>10
<1>13. \A r \in Socks : pos[r] \in {"taken", "gone"} /\ r \notin Held(w) => pos'[r] \in {"taken", "gone"}
  BY <1>1
<1>14. load'[w] \in Nat /\ load'[w] <= load[w]
  BY <1>1
<1>15. Held(w)' \subseteq Held(w)
  BY <1>10
<1>16. Once' /\ Counted' /\ Even'
  BY <1>1, <1>6, <1>9, <1>11, <1>12, <1>13, <1>14, <1>15, Moved, ZenonT(30)
<1> QED BY <1>4, <1>5, <1>16 DEF IInv

\* handleIOWorkerResponse.
LEMMA HandleResponseInv ==
    ASSUME IInv, HandleResponse
    PROVE  IInv'
<1>1. PICK w : w = listener.from
  OBVIOUS
<1>2. PICK s : s = Head(listener.cur).sock
  OBVIOUS
<1>3. /\ listener.cur # <<>>
      /\ UNCHANGED <<resp, pc, notify, works, active, aioDone>>
  BY DEF HandleResponse, workerVars
<1>4. listener' = [listener EXCEPT !.cur = Tail(@)]
  BY DEF HandleResponse
<1>5. /\ w \in Group /\ w \in Workers /\ s \in Socks /\ s \in SocksOf(Cur(w)) /\ s \in Held(w)
      /\ ListenerTypes' /\ listener'.index = listener.index
      /\ \A v \in Workers \ {w} : Cur(v)' = Cur(v) /\ Cur(v) = <<>>
      /\ SocksOf(Cur(w)') = SocksOf(Cur(w)) \ {s} /\ DistinctSocks(Cur(w)')
      /\ Len(Cur(w)) \in Nat /\ Len(Cur(w)') = Len(Cur(w)) - 1 /\ Len(Cur(w)') \in Nat
      /\ Completed(w) \in [Workers -> Nat] /\ Completed(w)[w] = load[w] - 1 /\ load[w] \in Nat
      /\ load[w] > 0
      /\ \A v \in Workers \ {w} : Completed(w)[v] = load[v]
  BY <1>1, <1>2, <1>3, <1>4, ResponseIs
<1>6. Types /\ Once /\ Even /\ pos \in [Socks -> {"idle", "data", "event", "taken", "gone"}]
  BY DEF IInv, Types
<1>7. CASE load' = Completed(w) /\ UNCHANGED <<pos, req, notifyContexts>>
  BY <1>1, <1>2, <1>3, <1>4, <1>6, <1>7, DropsInv
<1>8. CASE load' = Completed(w) /\ pos' = [pos EXCEPT ![s] = "idle"] /\ UNCHANGED <<req, notifyContexts>>
  <2>1. /\ pos' \in [Socks -> {"idle", "data", "event", "taken", "gone"}]
        /\ \A r \in Socks \ {s} : pos'[r] = pos[r]
    BY <1>5, <1>6, <1>8
  <2>2. load' = Completed(w) /\ UNCHANGED <<req, notifyContexts>>
    BY <1>8, Zenon
  <2> QED BY <1>1, <1>2, <1>3, <1>4, <2>1, <2>2, DropsInv, ZenonT(30)
<1>9. CASE Incoming(s, Completed(w))
  <2>1. PICK l : l = Completed(w)
    BY Zenon
  <2>2. /\ l \in [Workers -> Nat] /\ l[w] = load[w] - 1
        /\ \A v \in Workers \ {w} : l[v] = load[v]
    BY <1>5, <2>1
  <2>3. PICK b : b = Best(l)
    BY Zenon
  <2>4. /\ b \in Group /\ \A v \in Group : l[b] <= l[v]
        /\ Gives(s, b, l)
        /\ req' \in [Workers -> Seq(Socks)] /\ load' \in [Workers -> Nat]
        /\ pos' \in [Socks -> {"idle", "data", "event", "taken", "gone"}]
        /\ notifyContexts' \subseteq Group
    BY <1>5, <1>6, <1>9, <2>1, <2>2, <2>3, IncomingIs, Zenon
  <2>5. Group' = Group /\ b \in Workers
    BY <1>5, <1>6, <2>4, GroupSame, GroupIs DEF Types, ListenerTypes
  <2>6. Types'
    BY <1>3, <1>5, <1>6, <2>4, <2>5, Zenon DEF Types, WorkerTypes
  <2>7. Hands(s, l)
    <3>1. ASSUME NEW v \in Workers
          PROVE  /\ s \notin Elements(req[v]) /\ s \notin Elements(works[v]) /\ s \notin IOs(v)
                 /\ s \notin SocksOf(resp[v])
      <4>1. CASE v = w
        BY <1>5, <1>6, <4>1, Zenon DEF Once, InOrder
      <4>2. CASE v # w
        <5>1. s \notin Held(v)
          BY <1>5, <1>6, <4>2, Zenon DEF Once
        <5> QED BY <5>1, Zenon DEF Held
      <4> QED BY <4>1, <4>2, Zenon
    <3>2. ASSUME NEW v \in Workers
          PROVE  /\ SocksOf(Cur(v)') = SocksOf(Cur(v)) \ {s} /\ DistinctSocks(Cur(v)')
                 /\ Len(Cur(v)') \in Nat /\ load[v] + Len(Cur(v)') = l[v] + Len(Cur(v))
      <4>1. CASE v = w
        <5>1. PICK a \in Nat, c \in Nat : a = load[w] /\ c = Len(Cur(w))
          BY <1>5, Zenon
        <5>2. Len(Cur(w)') = c - 1 /\ l[w] = a - 1 /\ Len(Cur(w)') \in Nat
          BY <1>5, <2>2, <5>1, Zenon
        <5>3. a + (c - 1) = (a - 1) + c
          OBVIOUS
        <5> QED BY <1>5, <4>1, <5>1, <5>2, <5>3, Zenon
      <4>2. CASE v # w
        <5>1. Cur(v)' = <<>> /\ Cur(v) = <<>> /\ l[v] = load[v]
          BY <1>5, <2>2, <4>2
        <5>2. SocksOf(Cur(v)') = {} /\ SocksOf(Cur(v)) = {} /\ DistinctSocks(Cur(v)') /\ Len(Cur(v)') = 0
          BY <5>1, NoElements
        <5> QED BY <5>1, <5>2
      <4> QED BY <4>1, <4>2, ZenonT(30)
    <3> QED BY <1>3, <1>5, <3>1, <3>2, Zenon DEF Hands
  <2>8. ASSUME Fits PROVE l[b] < RingSize /\ \A v \in Workers : l[v] <= RingSize
    <3>1. \A v \in Workers : load[v] <= RingSize /\ load[v] \in Nat
      BY <1>6, <2>8, ZenonT(30) DEF Even, Types, WorkerTypes
    <3>2. l[w] < RingSize
      <4>1. PICK a \in Nat : a = load[w] /\ l[w] = a - 1 /\ a <= RingSize
        BY <1>5, <2>2, <3>1, Zenon
      <4> QED BY <4>1, BoundsAssumption
    <3>3. l[b] <= l[w] /\ l[b] \in Nat /\ l[w] \in Nat
      BY <1>5, <2>2, <2>4, <2>5
    <3>4. l[b] < RingSize
      BY <3>2, <3>3, BoundsAssumption
    <3>5. ASSUME NEW v \in Workers PROVE l[v] <= RingSize
      BY <2>2, <3>1, <3>2, <3>3, BoundsAssumption
    <3> QED BY <3>4, <3>5
  <2> QED BY <1>5, <2>2, <2>4, <2>5, <2>6, <2>7, <2>8, GivesInv, Zenon
<1> QED BY <1>1, <1>2, <1>7, <1>8, <1>9 DEF HandleResponse

\* onIncomingData fails, for a socket of the batch or for that of a response.
LEMMA ConnFailsInv ==
    ASSUME IInv, NEW s \in Socks, ConnFails(s)
    PROVE  IInv'
<1>1. UNCHANGED <<notifyContexts, req, resp, pc, notify, works, active, aioDone>>
  BY DEF ConnFails, workerVars
<1>2. /\ pos' \in [Socks -> {"idle", "data", "event", "taken", "gone"}]
      /\ pos'[s] = "gone" /\ \A r \in Socks \ {s} : pos'[r] = pos[r]
  BY DEF ConnFails, IInv, Types
<1>3. CASE UNCHANGED <<listener, load>>
  <2>1. Group' = Group
    BY <1>3, GroupSame, Zenon
  <2>2. Types'
    BY <1>1, <1>2, <1>3, <2>1, Zenon DEF IInv, Types, ListenerTypes, WorkerTypes
  <2>3. Limits'
    BY <1>1, Zenon DEF IInv, Limits, LimitsAt
  <2>4. \A v \in Workers : Same(v)
    BY <1>1, <1>3 DEF Same, Cur
  <2>5. \A r \in Socks : pos[r] \in {"taken", "gone"} => pos'[r] \in {"taken", "gone"}
    BY <1>2, Zenon
  <2>6. Once' /\ Counted' /\ Even'
    BY <1>3, <2>4, <2>5, Quieted, Zenon
  <2> QED BY <2>2, <2>3, <2>6 DEF IInv
<1>4. CASE /\ listener.cur # <<>> /\ Head(listener.cur) = [sock |-> s, how |-> "data"]
           /\ listener' = [listener EXCEPT !.cur = Tail(@)]
           /\ load' = Completed(listener.from)
  <2>1. s = Head(listener.cur).sock
    BY <1>4
  <2> QED BY <1>1, <1>2, <1>4, <2>1, DropsInv
<1> QED BY <1>3, <1>4 DEF ConnFails

-----------------------------------------------------------------------------
(* The theorems. *)

\* Every step of a client, of the listener, of a worker and of the kernel keeps the invariant.
THEOREM NextInv == IInv /\ [Next]_vars => IInv'
<1> SUFFICES ASSUME IInv, [Next]_vars PROVE IInv'
  OBVIOUS
<1>1. CASE \E s \in Socks : Arrive(s) \/ ConnFails(s)
  BY <1>1, ArriveInv, ConnFailsInv
<1>2. CASE Listener
  BY <1>2, EpollWaitInv, DequeueBurstInv, HandleResponseInv, FlushInv, HandleSockInv, HandleFDInv, Zenon DEF Listener
<1>3. ASSUME NEW w \in Workers, Worker(w) PROVE IInv'
  BY <1>3, DrainInv, WakeInv, ProcessInv, NotifyInv, ReapInv, Zenon DEF Worker
<1>4. ASSUME NEW w \in Workers, NEW s \in Socks, CompleteIO(w, s) PROVE IInv'
  BY <1>4, CompleteIOInv
<1>5. CASE UNCHANGED vars
  <2>1. UNCHANGED <<pos, listener, notifyContexts, load, req, resp, pc, notify, works, active, aioDone>>
    BY <1>5 DEF vars
  <2>2. Group' = Group
    BY <2>1, GroupSame, Zenon
  <2>3. Types'
    BY <2>1, <2>2, Zenon DEF IInv, Types, ListenerTypes, WorkerTypes
  <2>4. Limits'
    BY <2>1, Zenon DEF IInv, Limits, LimitsAt
  <2>5. \A v \in Workers : Same(v)
    BY <2>1 DEF Same, Cur
  <2>6. Once' /\ Counted' /\ Even'
    BY <2>1, <2>5, Quieted
  <2> QED BY <2>3, <2>4, <2>6 DEF IInv
<1> QED BY <1>1, <1>2, <1>3, <1>4, <1>5 DEF Next

\* The invariant holds throughout.
THEOREM Invariance == Spec => []IInv
<1> QED BY InitInv, NextInv, PTL DEF Spec

\* The invariant gives LoadIsCounted: no worker holds more sockets than there are.
LEMMA CountedIs == IInv => LoadIsCounted
<1> SUFFICES ASSUME IInv PROVE LoadIsCounted
  OBVIOUS
<1>1. Types /\ ListenerTypes /\ WorkerTypes /\ Limits /\ Counted
  BY DEF IInv, Types
<1>2. ASSUME NEW w \in Workers
      PROVE  /\ load[w] \in 0 .. Cardinality(Socks) /\ active[w] \cup aioDone[w] \subseteq Socks
             /\ Len(req[w]) <= RingSize /\ Len(resp[w]) <= RingSize
             /\ Cardinality(active[w] \cup aioDone[w]) + Len(works[w]) <= Slots
             /\ load[w] = Len(req[w]) + Len(works[w]) + Cardinality(active[w] \cup aioDone[w])
                          + Len(resp[w]) + (IF listener.from = w THEN Len(listener.cur) ELSE 0)
  <2>1. InOrder(w) /\ CountedAt(w) /\ LimitsAt(w)
    BY WorkerFacts, Zenon
  <2>2. Held(w) \subseteq Socks /\ Cardinality(Held(w)) = load[w] /\ load[w] \in Nat
    BY <1>1, <2>1, HeldCount, QueueTypes, Zenon
  <2>3. Cardinality(Held(w)) <= Cardinality(Socks) /\ Cardinality(Socks) \in Nat
    BY <2>2, BoundsAssumption, FS_Subset, FS_CardinalityType
  <2>4. active[w] \cup aioDone[w] \subseteq Socks
    BY <1>1, QueueTypes, Zenon DEF IOs
  <2>5. Len(Cur(w)) = IF listener.from = w THEN Len(listener.cur) ELSE 0
    BY NoElements DEF Cur
  <2>6. load[w] = Len(req[w]) + Len(works[w]) + Cardinality(active[w] \cup aioDone[w])
                  + Len(resp[w]) + (IF listener.from = w THEN Len(listener.cur) ELSE 0)
    BY <2>1, <2>5, Zenon DEF CountedAt, IOs
  <2>7. load[w] \in 0 .. Cardinality(Socks)
    BY <2>2, <2>3
  <2>8. /\ Len(req[w]) <= RingSize /\ Len(resp[w]) <= RingSize
        /\ Cardinality(active[w] \cup aioDone[w]) + Len(works[w]) <= Slots
    BY <2>1 DEF LimitsAt
  <2> QED BY <2>4, <2>6, <2>7, <2>8, Zenon
<1>3. load \in [Workers -> 0 .. Cardinality(Socks)]
  <2>1. load = [w \in Workers |-> load[w]]
    BY <1>1 DEF WorkerTypes
  <2>2. \A w \in Workers : load[w] \in 0 .. Cardinality(Socks)
    BY <1>2, Zenon
  <2> QED BY <2>1, <2>2
<1>4. \A w \in Workers : pc[w] \in {"epoll", "work", "reap"}
  BY <1>1 DEF WorkerTypes
<1>5. TypeOK
  <2>1. /\ pos \in [Socks -> {"idle", "data", "event", "taken", "gone"}]
        /\ notifyContexts \subseteq Group
    BY <1>1 DEF Types
  <2>2. /\ listener.index \in Listeners /\ listener.pc \in {"wait", "handle", "burst"}
        /\ listener.batch \subseteq Group /\ listener.from \in Group \cup {NoWorker}
    BY <1>1 DEF ListenerTypes
  <2> QED BY <1>2, <1>3, <1>4, <2>1, <2>2, Zenon DEF TypeOK
<1> QED BY <1>2, <1>5, Zenon DEF LoadIsCounted

\* The invariant gives RingsHaveRoom.
LEMMA RoomIs == IInv => RingsHaveRoom
<1> SUFFICES ASSUME IInv PROVE RingsHaveRoom
  OBVIOUS
<1>1. Types /\ ListenerTypes /\ WorkerTypes /\ Limits /\ Counted /\ Once /\ Even
  BY DEF IInv, Types
<1>2. listener.index \in Listeners /\ load \in [Workers -> Nat]
  BY <1>1 DEF ListenerTypes, WorkerTypes
<1>3. GroupsPartition /\ Group \subseteq Workers
  BY <1>2, GroupsPartitionAll, GroupIs
<1>4. ASSUME NEW w \in Workers
      PROVE  /\ load[w] \in Nat /\ Len(req[w]) \in Nat /\ Len(works[w]) \in Nat /\ Cardinality(IOs(w)) \in Nat
             /\ Len(resp[w]) \in Nat /\ Len(Cur(w)) \in Nat
             /\ Len(req[w]) + Len(Cur(w)) <= load[w] /\ Len(req[w]) <= load[w]
             /\ Len(resp[w]) + Len(works[w]) <= load[w] /\ Len(resp[w]) + Cardinality(IOs(w)) <= load[w]
  <2>1. PICK r \in Nat, k \in Nat, c \in Nat, d \in Nat, e \in Nat :
          /\ r = Len(req[w]) /\ k = Len(works[w]) /\ c = Cardinality(IOs(w))
          /\ d = Len(resp[w]) /\ e = Len(Cur(w))
    BY <1>1, QueueTypes, Zenon
  <2>2. load[w] = r + k + c + d + e
    BY <1>1, <2>1, Zenon DEF Counted, CountedAt
  <2>3. load[w] \in Nat /\ r + e <= load[w] /\ r <= load[w] /\ d + k <= load[w] /\ d + c <= load[w]
    BY <2>2
  <2> QED BY <2>1, <2>3, Zenon
<1>5. ASSUME NEW w \in Workers PROVE Len(req[w]) \in Nat /\ Len(req[w]) <= load[w] /\ load[w] \in Nat
  BY <1>4, Zenon
<1>6. ASSUME Fits, NEW s \in Socks, pos[s] = "event" PROVE Len(req[Best(load)]) < RingSize
  <2>1. \A v \in Workers : s \notin Held(v)
    BY <1>1, <1>6 DEF Once
  <2>2. PICK v \in Group : load[v] < RingSize
    BY <1>1, <1>6, <2>1, RoomForOneMore, Zenon
  <2>3. PICK b \in Group : b = Best(load) /\ load[b] <= load[v]
    BY <1>2, BestIs
  <2>4. Len(req[b]) \in Nat /\ Len(req[b]) <= load[b] /\ load[b] \in Nat /\ load[v] \in Nat
    BY <1>3, <1>5
  <2> QED BY <2>2, <2>3, <2>4, BoundsAssumption
<1>7. ASSUME Fits, listener.cur # <<>> PROVE Len(req[Best(Completed(listener.from))]) < RingSize
  <2>1. PICK w : w = listener.from
    OBVIOUS
  <2>2. w \in Group /\ w \in Workers
    BY <1>1, <1>3, <1>7, <2>1 DEF ListenerTypes
  <2>3. Len(req[w]) + Len(Cur(w)) <= load[w] /\ load[w] \in Nat /\ Len(req[w]) \in Nat
    BY <1>4, <2>2, Zenon
  <2>4. Len(Cur(w)) \in Nat /\ Len(Cur(w)) > 0
    BY <1>1, <1>7, <2>1 DEF Cur, ListenerTypes
  <2>5. load[w] \in Nat /\ load[w] > 0 /\ Len(req[w]) <= load[w] - 1
    BY <2>3, <2>4
  <2>6. PICK n \in Nat : n = load[w] - 1
    BY <2>5
  <2>7. PICK l : l = [load EXCEPT ![w] = n]
    BY Zenon
  <2>8. Completed(w) = l
    BY <2>5, <2>6, <2>7, Zenon DEF Completed
  <2>9. l \in [Workers -> Nat] /\ l[w] = n /\ \A v \in Workers \ {w} : l[v] = load[v]
    BY <1>2, <2>2, <2>6, <2>7
  <2>10. PICK b \in Group : b = Best(l) /\ l[b] <= l[w]
    BY <1>2, <2>2, <2>9, BestIs
  <2>11. Len(req[b]) \in Nat /\ Len(req[b]) <= l[b] /\ l[b] \in Nat
    <3>1. CASE b = w
      BY <1>5, <2>2, <2>5, <2>6, <2>9, <3>1, Zenon
    <3>2. CASE b # w
      BY <1>3, <1>5, <2>9, <3>2
    <3> QED BY <3>1, <3>2
  <2>12. n < RingSize
    <3>1. load[w] <= RingSize
      BY <1>1, <1>7, <2>2, Zenon DEF Even
    <3> QED BY <2>5, <2>6, <3>1, BoundsAssumption
  <2>13. Len(req[b]) < RingSize
    BY <2>9, <2>10, <2>11, <2>12, BoundsAssumption
  <2> QED BY <2>1, <2>8, <2>10, <2>13
<1>8. ASSUME Fits, NEW w \in Workers, works[w] # <<>> \/ aioDone[w] # {} PROVE Len(resp[w]) < RingSize
  <2>1. /\ load[w] \in Nat /\ Len(works[w]) \in Nat /\ Cardinality(IOs(w)) \in Nat /\ Len(resp[w]) \in Nat
        /\ Len(resp[w]) + Len(works[w]) <= load[w] /\ Len(resp[w]) + Cardinality(IOs(w)) <= load[w]
    BY <1>4, Zenon
  <2>2. Len(works[w]) > 0 \/ Cardinality(IOs(w)) > 0
    <3>1. works[w] \in Seq(Socks) /\ IsFiniteSet(IOs(w))
      BY <1>1, QueueTypes, Zenon
    <3>2. CASE works[w] # <<>>
      BY <3>1, <3>2
    <3>3. CASE aioDone[w] # {}
      <4>1. IOs(w) # {}
        BY <3>3 DEF IOs
      <4>2. Cardinality(IOs(w)) # 0
        BY <3>1, <4>1, FS_EmptySet
      <4> QED BY <2>1, <4>2
    <3> QED BY <1>8, <3>2, <3>3, Zenon
  <2>3. load[w] <= RingSize
    BY <1>1, <1>8 DEF Even
  <2>4. PICK k \in Nat, c \in Nat, d \in Nat, m \in Nat :
          k = Len(works[w]) /\ c = Cardinality(IOs(w)) /\ d = Len(resp[w]) /\ m = load[w]
    BY <2>1
  <2>5. d + k <= m /\ d + c <= m /\ (k > 0 \/ c > 0) /\ m <= RingSize
    BY <2>1, <2>2, <2>3, <2>4, Zenon
  <2>6. d < RingSize
    BY <2>5, BoundsAssumption
  <2> QED BY <2>4, <2>6
<1> QED BY <1>3, <1>6, <1>7, <1>8 DEF RingsHaveRoom

\* The load that the router keeps of a worker is the number of requests that the worker has,
\* at every moment and whatever fails.
THEOREM LoadIsCountedHolds == Spec => []LoadIsCounted
<1> QED BY Invariance, CountedIs, PTL

\* If the sockets fit into the request rings of the listener's group, enqueueWait never finds
\* a ring full, neither the listener's nor a worker's; each ring has one producer and one
\* consumer.
THEOREM RingsHaveRoomHolds == Spec => []RingsHaveRoom
<1> QED BY Invariance, RoomIs, PTL

=============================================================================
