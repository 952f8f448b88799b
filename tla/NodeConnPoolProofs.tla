------------------------- MODULE NodeConnPoolProofs -------------------------
(***************************************************************************)
(* Proofs about NodeConnPool, for any number of threads and connections:    *)
(* the two counters agree with the list and no connection has two owners    *)
(* (PoolIsConsistent), no signal of changeCond is lost (NoLostWakeup), and   *)
(* no connection to an old interface escapes its flag (OldIsFlagged).        *)
(*                                                                         *)
(* The three are not inductive alone.  That a counter may be decremented     *)
(* needs to know what a thread owns at each point of the code (Positions),   *)
(* and a signal wakes somebody for the place that it announces only because  *)
(* the counters are right.                                                  *)
(***************************************************************************)
EXTENDS NodeConnPool, FiniteSetTheorems, TLAPS

SockType == [available : BOOLEAN, closeOnRelease : BOOLEAN, activity : BOOLEAN,
             fallback : BOOLEAN, iface : 0 .. MaxChanges, late : BOOLEAN]

Ats == {"idle", "asleep", "woken", "connect", "have", "release",
        "invalidate", "idleonly", "all"}

ThreadType == [at : Ats, sock : Ids \cup {None}, todo : SUBSET Ids,
               iface : 0 .. MaxChanges, reset : BOOLEAN]

\* Every variable is of its type, as functions and records.
Shape ==
    /\ connList \in SUBSET Ids
    /\ sock \in [Ids -> SockType]
    /\ th \in [Threads -> ThreadType]
    /\ availableConns \in Nat
    /\ establishedConns \in 0 .. MaxConns
    /\ changes \in 0 .. MaxChanges
    /\ iface \in 0 .. changes

\* What a thread has at each point of the code.
Positions ==
    /\ \A u \in Users : th[u].at \notin {"idleonly", "all"}
    /\ th[syncer].at \in {"idle", "idleonly", "all", "invalidate"}
    /\ \A t \in Threads :
        /\ th[t].at \in {"idle", "asleep", "woken", "connect", "idleonly", "all"}
                => th[t].sock = None /\ th[t].todo = {}
        /\ th[t].at \in {"have", "release"} => th[t].sock # None /\ th[t].todo = {}

\* The thread uses the connection or has grabbed it to close it.
Owns(t, s) == s = th[t].sock \/ s \in th[t].todo

\* A connection that is owned is in the list, not available, and owned once.
Owned ==
    /\ \A t \in Threads, s \in Ids : Owns(t, s) => s \in connList /\ ~sock[s].available
    /\ \A t, u \in Threads, s \in Ids : Owns(t, s) /\ Owns(u, s) => t = u

Connecting == {u \in Users : th[u].at = "connect"}

\* The counters are right.
Counted ==
    /\ availableConns = Cardinality(Available)
    /\ establishedConns = Cardinality(connList) + Cardinality(Connecting)

\* The inductive invariant.
IInv == Shape /\ Positions /\ Owned /\ Counted /\ NoLostWakeup /\ OldIsFlagged

-----------------------------------------------------------------------------
\* The sets that th, a thread's connection and a thread's list are in, by name.
ThreadMaps == [Threads -> ThreadType]
IdOrNone == Ids \cup {None}
IdSets == SUBSET Ids

\* The assignments to two fields of th[t] that the actions make.
AtSock(f, t, a, s) == [f EXCEPT ![t].at = a, ![t].sock = s]
AtTodo(f, t, a, d) == [f EXCEPT ![t].at = a, ![t].todo = d]
AtIface(f, t, a, i) == [f EXCEPT ![t].at = a, ![t].iface = i]
AtReset(f, t, a) == [f EXCEPT ![t].at = a, ![t].reset = TRUE]
TodoSock(f, t, d, s) == [f EXCEPT ![t].todo = d, ![t].sock = s]

\* A thread that gets a connection.
LEMMA AtSockIsSet ==
    ASSUME NEW f \in ThreadMaps, NEW t \in Threads, NEW a \in Ats, NEW s \in IdOrNone
    PROVE  /\ AtSock(f, t, a, s) \in [Threads -> ThreadType]
           /\ \A r \in Threads : r # t => AtSock(f, t, a, s)[r] = f[r]
           /\ AtSock(f, t, a, s)[t].at = a
           /\ AtSock(f, t, a, s)[t].sock = s
           /\ AtSock(f, t, a, s)[t].todo = f[t].todo
BY Zenon DEF ThreadMaps, IdOrNone, IdSets, ThreadType, AtSock

\* A thread that grabs connections to invalidate them keeps its own.
LEMMA AtTodoIsSet ==
    ASSUME NEW f \in ThreadMaps, NEW t \in Threads, NEW a \in Ats, NEW d \in IdSets
    PROVE  /\ AtTodo(f, t, a, d) \in [Threads -> ThreadType]
           /\ \A r \in Threads : r # t => AtTodo(f, t, a, d)[r] = f[r]
           /\ AtTodo(f, t, a, d)[t].at = a
           /\ AtTodo(f, t, a, d)[t].sock = f[t].sock
           /\ AtTodo(f, t, a, d)[t].todo = d
BY Zenon DEF ThreadMaps, IdOrNone, IdSets, ThreadType, AtTodo

\* A thread that copies the interface list before it connects.
LEMMA AtIfaceIsSet ==
    ASSUME NEW f \in ThreadMaps, NEW t \in Threads, NEW a \in Ats, NEW i \in 0 .. MaxChanges
    PROVE  /\ AtIface(f, t, a, i) \in [Threads -> ThreadType]
           /\ \A r \in Threads : r # t => AtIface(f, t, a, i)[r] = f[r]
           /\ AtIface(f, t, a, i)[t].at = a
           /\ AtIface(f, t, a, i)[t].sock = f[t].sock
           /\ AtIface(f, t, a, i)[t].todo = f[t].todo
BY Zenon DEF ThreadMaps, IdOrNone, IdSets, ThreadType, AtIface

\* A thread that will reset the activity flags.
LEMMA AtResetIsSet ==
    ASSUME NEW f \in ThreadMaps, NEW t \in Threads, NEW a \in Ats
    PROVE  /\ AtReset(f, t, a) \in [Threads -> ThreadType]
           /\ \A r \in Threads : r # t => AtReset(f, t, a)[r] = f[r]
           /\ AtReset(f, t, a)[t].at = a
           /\ AtReset(f, t, a)[t].sock = f[t].sock
           /\ AtReset(f, t, a)[t].todo = f[t].todo
BY Zenon DEF ThreadMaps, IdOrNone, IdSets, ThreadType, AtReset

\* A thread that has invalidated a connection stays where it is.
LEMMA TodoSockIsSet ==
    ASSUME NEW f \in ThreadMaps, NEW t \in Threads,
           NEW d \in IdSets, NEW s \in IdOrNone
    PROVE  /\ TodoSock(f, t, d, s) \in [Threads -> ThreadType]
           /\ \A r \in Threads : r # t => TodoSock(f, t, d, s)[r] = f[r]
           /\ TodoSock(f, t, d, s)[t].at = f[t].at
           /\ TodoSock(f, t, d, s)[t].sock = s
           /\ TodoSock(f, t, d, s)[t].todo = d
BY Zenon DEF ThreadMaps, IdOrNone, IdSets, ThreadType, TodoSock

\* The connections in g are grabbed, and those in c flagged if close is set.
Grabbed(q, close, c, g) ==
    [s \in Ids |-> [q[s] EXCEPT !.closeOnRelease = @ \/ (close /\ s \in c),
                                !.available = @ /\ s \notin g]]

\* What a thread that grabs connections does to each of them.
LEMMA SocksAreGrabbed ==
    ASSUME NEW q \in [Ids -> SockType], NEW close \in BOOLEAN, NEW c, NEW g
    PROVE  /\ Grabbed(q, close, c, g) \in [Ids -> SockType]
           /\ \A i \in Ids :
                /\ Grabbed(q, close, c, g)[i].available <=> q[i].available /\ i \notin g
                /\ Grabbed(q, close, c, g)[i].closeOnRelease
                        <=> q[i].closeOnRelease \/ (close /\ i \in c)
                /\ Grabbed(q, close, c, g)[i].iface = q[i].iface
                /\ Grabbed(q, close, c, g)[i].late = q[i].late
BY Zenon DEF SockType, Grabbed

\* The sets that are counted are finite, and the pool has MaxConns places.
LEMMA CountedAreFinite ==
    ASSUME Shape
    PROVE  /\ IsFiniteSet(Ids) /\ Cardinality(Ids) = MaxConns
           /\ IsFiniteSet(connList) /\ Cardinality(connList) \in Nat
           /\ IsFiniteSet(Available) /\ Cardinality(Available) \in 0 .. MaxConns
           /\ IsFiniteSet(Woken) /\ Cardinality(Woken) \in Nat
           /\ IsFiniteSet(Connecting) /\ Cardinality(Connecting) \in Nat
<1>1. IsFiniteSet(Ids) /\ Cardinality(Ids) = MaxConns
  <2>1. 1 \in Int /\ MaxConns \in Int /\ (1 > MaxConns <=> MaxConns = 0)
    BY BoundsAssumption
  <2>2. /\ IsFiniteSet(1 .. MaxConns)
        /\ Cardinality(1 .. MaxConns) = IF 1 > MaxConns THEN 0 ELSE MaxConns - 1 + 1
    BY <2>1, FS_Interval
  <2> QED BY <2>1, <2>2 DEF Ids
<1>2. connList \subseteq Ids /\ Available \subseteq Ids
  BY DEF Shape, Available
<1>3. IsFiniteSet(connList) /\ Cardinality(connList) \in Nat
  BY <1>1, <1>2, FS_Subset, FS_CardinalityType
<1>4. IsFiniteSet(Available) /\ Cardinality(Available) \in Nat /\ Cardinality(Available) <= MaxConns
  BY <1>1, <1>2, FS_Subset, FS_CardinalityType
<1>5. Woken \subseteq Users /\ Connecting \subseteq Users
  BY DEF Woken, Connecting
<1>6. /\ IsFiniteSet(Woken) /\ Cardinality(Woken) \in Nat
      /\ IsFiniteSet(Connecting) /\ Cardinality(Connecting) \in Nat
  BY <1>5, UsersAssumption, FS_Subset, FS_CardinalityType
<1> QED BY <1>1, <1>3, <1>4, <1>6, BoundsAssumption

\* Counting a set that one element joins.
LEMMA CountAdd ==
    ASSUME NEW S, IsFiniteSet(S), NEW x, x \notin S
    PROVE  Cardinality(S \cup {x}) = Cardinality(S) + 1
BY FS_AddElement

\* Counting a set that one element leaves.
LEMMA CountRemove ==
    ASSUME NEW S, IsFiniteSet(S), NEW x \in S
    PROVE  Cardinality(S \ {x}) = Cardinality(S) - 1
BY FS_RemoveElement

\* The constructor leaves an empty pool.
THEOREM InitInv == Init => IInv
<1> SUFFICES ASSUME Init PROVE IInv
  OBVIOUS
<1> USE BoundsAssumption, UsersAssumption DEF Init
<1>1. Shape
  BY DEF Shape, SockType, ThreadType, Ats, Unused, Idle, None, Ids
<1>2. Positions /\ Owned
  BY DEF Positions, Owned, Owns, Idle, Threads, None, Ids
<1>3. Available = {} /\ Connecting = {} /\ Asleep = {}
  BY DEF Available, Connecting, Asleep, Idle, Threads
<1>4. Counted
  BY <1>3, FS_EmptySet DEF Counted
<1>5. NoLostWakeup /\ OldIsFlagged
  BY <1>3 DEF NoLostWakeup, OldIsFlagged
<1> QED BY <1>1, <1>2, <1>4, <1>5 DEF IInv

-----------------------------------------------------------------------------
\* A signal changes no more than one thread, from asleep to woken.
LEMMA SignalEffect ==
    ASSUME NEW f \in [Threads -> ThreadType],
           \A u \in Asleep : f[u] = th[u],
           th' \in Signalled(f)
    PROVE  /\ th' \in [Threads -> ThreadType]
           /\ \A t \in Threads :
                 /\ th'[t].sock = f[t].sock /\ th'[t].todo = f[t].todo
                 /\ \/ th'[t] = f[t]
                    \/ t \in Asleep /\ f[t].at = "asleep" /\ th'[t].at = "woken"
<1>1. CASE Asleep = {}
  BY <1>1 DEF Signalled
<1>2. CASE Asleep # {}
  <2>1. PICK w \in Asleep : th' = [f EXCEPT ![w].at = "woken"]
    BY <1>2 DEF Signalled
  <2>2. w \in Threads /\ f[w].at = "asleep"
    BY DEF Asleep, Threads
  <2>3. th' \in [Threads -> ThreadType]
    BY <2>1, <2>2 DEF ThreadType, Ats
  <2> QED BY <2>1, <2>2, <2>3 DEF ThreadType
<1> QED BY <1>1, <1>2

\* A signal leaves nobody asleep, or wakes one more.
LEMMA SignalWakes ==
    ASSUME Shape, NEW f \in [Threads -> ThreadType],
           \A u \in Asleep : f[u] = th[u],
           \A u \in Users : /\ f[u].at = "asleep" <=> th[u].at = "asleep"
                            /\ f[u].at = "woken" <=> th[u].at = "woken",
           th' \in Signalled(f)
    PROVE  Asleep' = {} \/ (Asleep # {} /\ Cardinality(Woken') = Cardinality(Woken) + 1)
<1>1. CASE Asleep = {}
  BY <1>1 DEF Signalled, Asleep
<1>2. CASE Asleep # {}
  <2>1. PICK w \in Asleep : th' = [f EXCEPT ![w].at = "woken"]
    BY <1>2 DEF Signalled
  <2>2. w \in Users /\ w \in Threads /\ w \notin Woken
    BY DEF Asleep, Threads, Woken
  <2>3. Woken' = Woken \cup {w}
    BY <2>1, <2>2 DEF Woken, ThreadType, Threads
  <2> QED BY <1>2, <2>2, <2>3, CountedAreFinite, CountAdd
<1> QED BY <1>1, <1>2

-----------------------------------------------------------------------------
\* A thread that finds nothing to be had sleeps: there is nothing to be woken for.
LEMMA WaitForConnInv ==
    ASSUME IInv, NEW u \in Users, th[u].at \in {"idle", "woken"}, WaitForConn(u)
    PROVE  IInv'
<1> USE DEF IInv, WaitForConn
<1>1. u \in Threads /\ u # syncer
  BY UsersAssumption DEF Threads
<1>2. Shape'
  BY <1>1 DEF Shape, ThreadType, Ats
<1>3. \A t \in Threads : /\ th'[t].sock = th[t].sock /\ th'[t].todo = th[t].todo
                         /\ th'[t].at = IF t = u THEN "asleep" ELSE th[t].at
  BY <1>1 DEF Shape, ThreadType
<1>4. Positions' /\ Owned'
  BY <1>1, <1>3 DEF Positions, Owned, Owns, Threads
<1>5. Connecting' = Connecting /\ Available' = Available
  BY <1>3 DEF Connecting, Available, Threads
<1>6. Counted'
  BY <1>5 DEF Counted
<1>7. NoLostWakeup'
  <2>1. Cardinality(Woken') \in Nat
    BY <1>2, UsersAssumption, FS_Subset, FS_CardinalityType DEF Woken
  <2> QED BY <2>1, BoundsAssumption DEF NoLostWakeup, MustWait
<1>8. OldIsFlagged'
  BY <1>1, <1>3 DEF OldIsFlagged, Threads
<1> QED BY <1>2, <1>4, <1>6, <1>7, <1>8

\* The thread takes an available connection.
LEMMA GrabInv ==
    ASSUME IInv, NEW u \in Users, th[u].at \in {"idle", "woken"}, Grab(u)
    PROVE  IInv'
<1> USE DEF IInv
<1>1. u \in Threads /\ u # syncer
  BY UsersAssumption DEF Threads
<1>2. PICK s \in Available :
        /\ sock' = [sock EXCEPT ![s].available = FALSE, ![s].activity = TRUE]
        /\ availableConns' = availableConns - 1
        /\ th' = [th EXCEPT ![u].at = "have", ![u].sock = s]
        /\ UNCHANGED <<connList, establishedConns, iface, changes>>
  BY Zenon DEF Grab
<1>0. /\ availableConns' = availableConns - 1
      /\ UNCHANGED <<connList, establishedConns, iface, changes>>
  BY <1>2
<1>3. s \in connList /\ s \in Ids /\ sock[s].available /\ s # None
  BY DEF Available, Shape, Ids, None
<1>4. /\ th' \in [Threads -> ThreadType]
      /\ \A t \in Threads : /\ th'[t].sock = (IF t = u THEN s ELSE th[t].sock)
                            /\ th'[t].todo = th[t].todo
                            /\ th'[t].at = (IF t = u THEN "have" ELSE th[t].at)
  <2>1. th \in ThreadMaps /\ "have" \in Ats /\ s \in IdOrNone
    BY <1>3 DEF Shape, Ats, ThreadMaps, IdOrNone
  <2>2. th' = AtSock(th, u, "have", s)
    BY <1>2, Zenon DEF AtSock
  <2> QED BY <1>1, <2>1, <2>2, AtSockIsSet
<1>5. /\ sock' \in [Ids -> SockType]
      /\ \A i \in Ids : /\ sock'[i].available <=> sock[i].available /\ i # s
                        /\ sock'[i].closeOnRelease = sock[i].closeOnRelease
                        /\ sock'[i].iface = sock[i].iface /\ sock'[i].late = sock[i].late
  BY <1>2, <1>3, Zenon DEF Shape, SockType
<1>6. Available' = Available \ {s} /\ Connecting' = Connecting
  BY <1>1, <1>0, <1>3, <1>4, <1>5 DEF Available, Connecting, Shape, Threads
<1>7. availableConns \in Nat \ {0} /\ Counted'
  <2>1. Cardinality(Available \ {s}) = Cardinality(Available) - 1
    BY CountRemove, CountedAreFinite
  <2>2. Cardinality(Available') \in Nat
    BY <1>6, CountedAreFinite, FS_RemoveElement, FS_CardinalityType
  <2> QED BY <1>0, <1>6, <2>1, <2>2, CountedAreFinite DEF Counted
<1>8. Shape'
  BY <1>0, <1>4, <1>5, <1>7 DEF Shape
<1>9. Positions'
  BY <1>1, <1>3, <1>4 DEF Positions, Threads
<1>10. \A t \in Threads, i \in Ids :
          (Owns(t, i))' <=> Owns(t, i) \/ (t = u /\ i = s)
  BY <1>1, <1>4 DEF Owns, Positions, None, Ids
<1>11. Owned'
  BY <1>0, <1>3, <1>5, <1>10 DEF Owned
<1>12. NoLostWakeup'
  <2>1. Asleep' = Asleep
    BY <1>1, <1>4 DEF Asleep, Threads
  <2>2. Woken' = Woken \ {u}
    BY <1>1, <1>4 DEF Woken, Threads
  <2>3. Cardinality(Woken') = IF u \in Woken THEN Cardinality(Woken) - 1 ELSE Cardinality(Woken)
    <3>1. CASE u \in Woken
      BY <2>2, <3>1, CountRemove, CountedAreFinite
    <3>2. CASE u \notin Woken
      BY <2>2, <3>2, Zenon DEF Woken
    <3> QED BY <3>1, <3>2
  <2> QED BY <1>0, <1>7, <2>1, <2>3, CountedAreFinite, BoundsAssumption DEF NoLostWakeup, Shape
<1>13. OldIsFlagged'
  BY <1>1, <1>0, <1>4, <1>5 DEF OldIsFlagged, Threads, Shape
<1> QED BY <1>7, <1>8, <1>9, <1>11, <1>12, <1>13

\* The thread takes a place for a new connection.
LEMMA BeginConnectInv ==
    ASSUME IInv, NEW u \in Users, th[u].at \in {"idle", "woken"},
           ~MustWait, availableConns = 0, BeginConnect(u)
    PROVE  IInv'
<1> USE DEF IInv
<1>1. u \in Threads /\ u # syncer /\ u \notin Connecting
  BY UsersAssumption DEF Threads, Connecting
<1>2. /\ establishedConns \in 0 .. MaxConns - 1 /\ establishedConns' = establishedConns + 1
      /\ UNCHANGED <<connList, sock, availableConns, iface, changes>>
  BY BoundsAssumption DEF MustWait, Shape, BeginConnect
<1>3. iface \in 0 .. MaxChanges
  BY BoundsAssumption DEF Shape
<1>4. /\ th' \in [Threads -> ThreadType]
      /\ \A t \in Threads : /\ th'[t].sock = th[t].sock /\ th'[t].todo = th[t].todo
                            /\ th'[t].at = (IF t = u THEN "connect" ELSE th[t].at)
  <2>1. th \in ThreadMaps /\ "connect" \in Ats
    BY DEF Shape, Ats, ThreadMaps
  <2>2. th' = AtIface(th, u, "connect", iface)
    BY Zenon DEF BeginConnect, AtIface
  <2> QED BY <1>1, <1>3, <2>1, <2>2, AtIfaceIsSet
<1>5. Shape' /\ Positions' /\ Owned'
  BY <1>1, <1>2, <1>4, BoundsAssumption DEF Shape, Positions, Owned, Owns, Threads
<1>6. Connecting' = Connecting \cup {u} /\ Available' = Available
  BY <1>1, <1>2, <1>4 DEF Connecting, Available, Threads
<1>7. Counted'
  <2>1. Cardinality(Connecting \cup {u}) = Cardinality(Connecting) + 1
    BY <1>1, CountAdd, CountedAreFinite
  <2>2. Cardinality(Connecting') = Cardinality(Connecting) + 1
    BY <1>6, <2>1
  <2>3. /\ Cardinality(connList) \in Nat /\ Cardinality(Connecting) \in Nat
        /\ establishedConns = Cardinality(connList) + Cardinality(Connecting)
    BY CountedAreFinite DEF Counted
  <2>4. establishedConns' = Cardinality(connList') + Cardinality(Connecting')
    BY <1>2, <2>2, <2>3
  <2> QED BY <1>2, <1>6, <2>4, Zenon DEF Counted
<1>8. NoLostWakeup'
  <2>1. Asleep' = Asleep
    BY <1>1, <1>4 DEF Asleep, Threads
  <2>2. Woken' = Woken \ {u}
    BY <1>1, <1>4 DEF Woken, Threads
  <2>3. Cardinality(Woken') = IF u \in Woken THEN Cardinality(Woken) - 1 ELSE Cardinality(Woken)
    <3>1. CASE u \in Woken
      BY <2>2, <3>1, CountRemove, CountedAreFinite
    <3>2. CASE u \notin Woken
      BY <2>2, <3>2, Zenon DEF Woken
    <3> QED BY <3>1, <3>2
  <2> QED BY <1>2, <2>1, <2>3, CountedAreFinite, BoundsAssumption DEF NoLostWakeup, Shape
<1>9. OldIsFlagged'
  BY <1>1, <1>2, <1>4 DEF OldIsFlagged, Threads
<1> QED BY <1>5, <1>7, <1>8, <1>9

\* While a thread is connecting, the list has a free place for its connection.
LEMMA PlaceIsFree ==
    ASSUME IInv, NEW u \in Users, th[u].at = "connect"
    PROVE  (CHOOSE i \in Ids : i \notin connList) \in Ids \ connList
<1> USE DEF IInv
<1>1. Cardinality(Connecting) # 0
  <2>1. u \in Connecting
    BY DEF Connecting
  <2> QED BY <2>1, FS_EmptySet, CountedAreFinite
<1>2. Cardinality(connList) < Cardinality(Ids)
  BY <1>1, CountedAreFinite, BoundsAssumption DEF Counted, Shape
<1>3. connList # Ids
  BY <1>2, CountedAreFinite
<1>4. \E i \in Ids : i \notin connList
  BY <1>3 DEF Shape
<1> QED BY <1>4

\* A connection that was established joins the list and belongs to its thread.
LEMMA ConnectedInv ==
    ASSUME IInv, NEW u \in Users, Connected(u) PROVE IInv'
<1> USE DEF IInv
<1>1. u \in Threads /\ u # syncer /\ u \in Connecting /\ th[u].at = "connect"
  BY UsersAssumption DEF Threads, Connecting, Connected
<1> DEFINE s == CHOOSE i \in Ids : i \notin connList
<1>2. s \in Ids /\ s \notin connList /\ s # None
  BY <1>1, PlaceIsFree DEF Ids, None
<1>3. PICK fallback \in BOOLEAN :
        sock' = [sock EXCEPT ![s] = [Unused EXCEPT !.fallback = fallback, !.iface = th[u].iface,
                                                   !.activity = TRUE,
                                                   !.late = th[u].iface # iface]]
  BY Zenon DEF Connected
<1>4. /\ connList' = connList \cup {s}
      /\ th' = [th EXCEPT ![u].at = "have", ![u].sock = s]
      /\ UNCHANGED <<availableConns, establishedConns, iface, changes>>
  BY DEF Connected
<1> HIDE DEF s
<1>5. /\ th' \in [Threads -> ThreadType]
      /\ \A t \in Threads : /\ th'[t].sock = (IF t = u THEN s ELSE th[t].sock)
                            /\ th'[t].todo = th[t].todo
                            /\ th'[t].at = (IF t = u THEN "have" ELSE th[t].at)
  <2>1. th \in ThreadMaps /\ "have" \in Ats /\ s \in IdOrNone
    BY <1>2 DEF Shape, Ats, ThreadMaps, IdOrNone
  <2>2. th' = AtSock(th, u, "have", s)
    BY <1>4, Zenon DEF AtSock
  <2> QED BY <1>1, <2>1, <2>2, AtSockIsSet
<1>6. /\ sock' \in [Ids -> SockType]
      /\ \A i \in Ids : i # s => sock'[i] = sock[i]
      /\ sock'[s].available = FALSE /\ (sock'[s].iface # iface => sock'[s].late)
  <2>1. th[u].iface \in 0 .. MaxChanges
    BY <1>1 DEF Shape, ThreadType
  <2> QED BY <1>2, <1>3, <2>1, BoundsAssumption, Zenon DEF Shape, SockType, Unused
<1>7. /\ connList' = connList \cup {s}
      /\ UNCHANGED <<availableConns, establishedConns, iface, changes>>
  BY <1>4
<1>8. Available' = Available
  BY <1>2, <1>6, <1>7 DEF Available, Shape
<1>9. Connecting' = Connecting \ {u}
  BY <1>1, <1>5 DEF Connecting, Threads
<1>10. Shape'
  BY <1>2, <1>5, <1>6, <1>7 DEF Shape
<1>11. Positions'
  BY <1>1, <1>2, <1>5 DEF Positions, Threads
<1>12. \A t \in Threads, i \in Ids :
          (Owns(t, i))' <=> Owns(t, i) \/ (t = u /\ i = s)
  BY <1>1, <1>5 DEF Owns, Positions, None, Ids
<1>13. Owned'
  BY <1>2, <1>6, <1>7, <1>12 DEF Owned
<1>14. Counted'
  <2>1. Cardinality(connList \cup {s}) = Cardinality(connList) + 1
    BY <1>2, CountAdd, CountedAreFinite
  <2>2. Cardinality(Connecting \ {u}) = Cardinality(Connecting) - 1
    BY <1>1, CountRemove, CountedAreFinite
  <2>3. /\ Cardinality(connList') = Cardinality(connList) + 1
        /\ Cardinality(Connecting') = Cardinality(Connecting) - 1
    BY <1>7, <1>9, <2>1, <2>2
  <2>4. establishedConns' = Cardinality(connList') + Cardinality(Connecting')
    BY <1>7, <2>3, CountedAreFinite DEF Counted
  <2> QED BY <1>7, <1>8, <2>4 DEF Counted
<1>15. NoLostWakeup'
  <2>1. Asleep' = Asleep /\ Woken' = Woken
    BY <1>1, <1>5 DEF Asleep, Woken, Threads
  <2> QED BY <1>7, <2>1 DEF NoLostWakeup
<1>16. OldIsFlagged'
  BY <1>1, <1>5, <1>6, <1>7 DEF OldIsFlagged, Threads, Shape
<1> QED BY <1>10, <1>11, <1>13, <1>14, <1>15, <1>16

\* A connection that cannot be established gives its place back, to a sleeper first.
LEMMA ConnectFailsInv ==
    ASSUME IInv, NEW u \in Users, ConnectFails(u) PROVE IInv'
<1> USE DEF IInv
<1>1. u \in Threads /\ u # syncer /\ u \in Connecting /\ th[u].at = "connect"
  BY UsersAssumption DEF Threads, Connecting, ConnectFails
<1>2. /\ establishedConns' = establishedConns - 1
      /\ UNCHANGED <<connList, sock, availableConns, iface, changes>>
      /\ th' \in Signalled([th EXCEPT ![u] = Idle])
  BY DEF ConnectFails
<1> DEFINE f == [th EXCEPT ![u] = Idle]
<1>3. /\ f \in [Threads -> ThreadType]
      /\ \A t \in Threads : f[t] = IF t = u THEN Idle ELSE th[t]
  BY <1>1, BoundsAssumption DEF Shape, ThreadType, Ats, Idle
<1>4. th' \in Signalled(f)
  BY <1>2
<1> HIDE DEF f
<1>5. /\ \A w \in Asleep : f[w] = th[w]
      /\ \A w \in Users : /\ f[w].at = "asleep" <=> th[w].at = "asleep"
                          /\ f[w].at = "woken" <=> th[w].at = "woken"
  BY <1>1, <1>3 DEF Asleep, Threads, Idle
<1>6. /\ th' \in [Threads -> ThreadType]
      /\ \A t \in Threads :
            /\ th'[t].sock = f[t].sock /\ th'[t].todo = f[t].todo
            /\ \/ th'[t] = f[t]
               \/ t \in Asleep /\ f[t].at = "asleep" /\ th'[t].at = "woken"
  BY <1>3, <1>4, <1>5, SignalEffect
<1>7. \A t \in Threads : /\ th'[t].sock = th[t].sock /\ th'[t].todo = th[t].todo
                         /\ \/ th'[t].at = (IF t = u THEN "idle" ELSE th[t].at)
                            \/ t \in Users /\ th[t].at = "asleep" /\ th'[t].at = "woken"
  <2>1. /\ f[u].at = "idle" /\ f[u].sock = th[u].sock /\ f[u].todo = th[u].todo
    <3>1. f[u] = Idle
      BY <1>1, <1>3
    <3>2. th[u].sock = None /\ th[u].todo = {}
      BY <1>1 DEF Positions
    <3> QED BY <3>1, <3>2 DEF Idle
  <2>2. \A t \in Threads : t # u => f[t] = th[t]
    BY <1>3
  <2> QED BY <1>1, <1>6, <2>1, <2>2 DEF Asleep
<1>8. Connecting' = Connecting \ {u} /\ Available' = Available
  BY <1>1, <1>2, <1>7 DEF Connecting, Available, Threads
<1>9. Counted' /\ establishedConns' \in Nat
  <2>1. Cardinality(Connecting \ {u}) = Cardinality(Connecting) - 1
    BY <1>1, CountRemove, CountedAreFinite
  <2>2. Cardinality(Connecting') \in Nat
    BY <1>8, CountedAreFinite, FS_RemoveElement, FS_CardinalityType, Zenon
  <2>3. establishedConns' = Cardinality(connList') + Cardinality(Connecting')
    BY <1>2, <1>8, <2>1, CountedAreFinite DEF Counted
  <2> QED BY <1>2, <1>8, <2>2, <2>3, CountedAreFinite DEF Counted
<1>10. Shape'
  BY <1>2, <1>6, <1>9, BoundsAssumption DEF Shape
<1>11. Positions' /\ Owned'
  <2>1. Positions'
    BY <1>1, <1>7, UsersAssumption DEF Positions, Threads
  <2>2. Owned'
    BY <1>2, <1>7 DEF Owned, Owns
  <2> QED BY <2>1, <2>2
<1>12. NoLostWakeup'
  <2>1. Asleep' = {} \/ (Asleep # {} /\ Cardinality(Woken') = Cardinality(Woken) + 1)
    BY <1>3, <1>4, <1>5, SignalWakes
  <2> QED BY <1>2, <2>1, CountedAreFinite, BoundsAssumption DEF NoLostWakeup, Shape
<1>13. OldIsFlagged'
  BY <1>1, <1>2, <1>7 DEF OldIsFlagged, Threads
<1> QED BY <1>9, <1>10, <1>11, <1>12, <1>13

\* A thread looks at the flags of its connection without the mutex.
LEMMA ReleaseCheckInv ==
    ASSUME IInv, NEW u \in Users, ReleaseCheck(u) PROVE IInv'
<1> USE DEF IInv
<1>1. u \in Threads /\ u # syncer /\ th[u].at = "have"
  BY UsersAssumption DEF Threads, ReleaseCheck
<1>2. PICK a \in {"invalidate", "release"} : th' = [th EXCEPT ![u].at = a]
  BY DEF ReleaseCheck
<1>3. UNCHANGED <<connList, sock, availableConns, establishedConns, iface, changes>>
  BY DEF ReleaseCheck
<1>4. /\ th' \in [Threads -> ThreadType]
      /\ \A t \in Threads : /\ th'[t].sock = th[t].sock /\ th'[t].todo = th[t].todo
                            /\ th'[t].at = (IF t = u THEN a ELSE th[t].at)
  BY <1>1, <1>2 DEF Shape, ThreadType, Ats
<1>5. Shape' /\ Owned'
  BY <1>3, <1>4 DEF Shape, Owned, Owns
<1>6. Positions'
  BY <1>1, <1>4 DEF Positions, Threads
<1>7. Connecting' = Connecting /\ Available' = Available /\ Asleep' = Asleep /\ Woken' = Woken
  BY <1>1, <1>3, <1>4 DEF Connecting, Available, Asleep, Woken, Threads
<1>8. Counted' /\ NoLostWakeup'
  BY <1>3, <1>7 DEF Counted, NoLostWakeup
<1>9. OldIsFlagged'
  BY <1>1, <1>3, <1>4 DEF OldIsFlagged, Threads
<1> QED BY <1>5, <1>6, <1>8, <1>9

\* A released connection is offered again, to a sleeper first.
LEMMA ReleaseInv ==
    ASSUME IInv, NEW u \in Users, Release(u) PROVE IInv'
<1> USE DEF IInv
<1>1. u \in Threads /\ u # syncer /\ th[u].at = "release"
  BY UsersAssumption DEF Threads, Release
<1> DEFINE s == th[u].sock
<1>2. s \in Ids /\ s # None /\ th[u].todo = {} /\ Owns(u, s)
  BY <1>1 DEF Positions, Shape, ThreadType, Owns
<1>3. s \in connList /\ ~sock[s].available
  BY <1>1, <1>2 DEF Owned
<1>4. /\ availableConns' = availableConns + 1
      /\ UNCHANGED <<connList, establishedConns, iface, changes>>
  BY DEF Release
<1> DEFINE f == [th EXCEPT ![u] = Idle]
<1>5. th' \in Signalled(f) /\ sock' = [sock EXCEPT ![s].available = TRUE]
  BY DEF Release
<1>6. /\ f \in [Threads -> ThreadType]
      /\ \A t \in Threads : f[t] = IF t = u THEN Idle ELSE th[t]
  BY <1>1, BoundsAssumption DEF Shape, ThreadType, Ats, Idle
<1> HIDE DEF f, s
<1>7. /\ \A w \in Asleep : f[w] = th[w]
      /\ \A w \in Users : /\ f[w].at = "asleep" <=> th[w].at = "asleep"
                          /\ f[w].at = "woken" <=> th[w].at = "woken"
  BY <1>1, <1>6 DEF Asleep, Threads, Idle
<1>8. /\ th' \in [Threads -> ThreadType]
      /\ \A t \in Threads :
            /\ th'[t].sock = f[t].sock /\ th'[t].todo = f[t].todo
            /\ \/ th'[t] = f[t]
               \/ t \in Asleep /\ f[t].at = "asleep" /\ th'[t].at = "woken"
  BY <1>5, <1>6, <1>7, SignalEffect
<1>9. \A t \in Threads :
        /\ th'[t].sock = (IF t = u THEN None ELSE th[t].sock) /\ th'[t].todo = th[t].todo
        /\ \/ th'[t].at = (IF t = u THEN "idle" ELSE th[t].at)
           \/ t \in Users /\ th[t].at = "asleep" /\ th'[t].at = "woken"
  <2>1. /\ f[u].at = "idle" /\ f[u].sock = None /\ f[u].todo = th[u].todo
    <3>1. f[u] = Idle
      BY <1>1, <1>6
    <3> QED BY <1>2, <3>1 DEF Idle
  <2>2. \A t \in Threads : t # u => f[t] = th[t]
    BY <1>6
  <2> QED BY <1>1, <1>8, <2>1, <2>2 DEF Asleep
<1>10. /\ sock' \in [Ids -> SockType]
       /\ \A i \in Ids : /\ sock'[i].available <=> sock[i].available \/ i = s
                         /\ sock'[i].closeOnRelease = sock[i].closeOnRelease
                         /\ sock'[i].iface = sock[i].iface /\ sock'[i].late = sock[i].late
  BY <1>2, <1>5, Zenon DEF Shape, SockType
<1>11. Available' = Available \cup {s} /\ Connecting' = Connecting
  BY <1>1, <1>2, <1>3, <1>4, <1>9, <1>10 DEF Available, Connecting, Shape, Threads
<1>12. Counted'
  <2>1. Cardinality(Available \cup {s}) = Cardinality(Available) + 1
    BY <1>3, CountAdd, CountedAreFinite DEF Available
  <2> QED BY <1>4, <1>11, <2>1 DEF Counted
<1>13. Shape'
  BY <1>4, <1>8, <1>10 DEF Shape
<1>14. Positions'
  BY <1>1, <1>2, <1>9, UsersAssumption DEF Positions, Threads
<1>15. \A t \in Threads, i \in Ids : (Owns(t, i))' => Owns(t, i) /\ i # s
  <2>1. \A i \in Ids : ~(Owns(u, i))'
    BY <1>1, <1>2, <1>9 DEF Owns, Ids, None
  <2>2. \A t \in Threads, i \in Ids : t # u /\ (Owns(t, i))' => Owns(t, i)
    BY <1>9 DEF Owns
  <2>3. \A t \in Threads : t # u => ~Owns(t, s)
    BY <1>1, <1>2 DEF Owned
  <2> QED BY <2>1, <2>2, <2>3
<1>16. Owned'
  BY <1>4, <1>10, <1>15 DEF Owned
<1>17. NoLostWakeup'
  <2>1. Asleep' = {} \/ (Asleep # {} /\ Cardinality(Woken') = Cardinality(Woken) + 1)
    BY <1>5, <1>6, <1>7, SignalWakes
  <2> QED BY <1>4, <2>1, CountedAreFinite, BoundsAssumption DEF NoLostWakeup, Shape
<1>18. OldIsFlagged'
  BY <1>1, <1>4, <1>9, <1>10 DEF OldIsFlagged, Threads, Shape
<1> QED BY <1>12, <1>13, <1>14, <1>16, <1>17, <1>18

\* Stage 1 of invalidating the available connections.
LEMMA GrabAllInv ==
    ASSUME IInv, NEW t \in Threads, NEW idleOnly \in BOOLEAN, NEW close \in BOOLEAN,
           \/ t \in Users /\ th[t].at = "have"
           \/ t = syncer /\ th[t].at \in {"idleonly", "all"},
           th[t].at = "all" => close,
           GrabAll(t, idleOnly, close), UNCHANGED <<iface, changes>>
    PROVE  IInv'
<1> USE DEF IInv
<1> DEFINE grabbed == {s \in Available : ~(idleOnly /\ sock[s].activity)}
<1>1. grabbed \subseteq Available /\ grabbed \subseteq Ids /\ grabbed \subseteq connList
  BY Zenon DEF Available, Shape
<1>2. /\ availableConns' = availableConns - Cardinality(grabbed)
      /\ UNCHANGED <<connList, establishedConns, iface, changes>>
      /\ th' = [th EXCEPT ![t].at = "invalidate", ![t].todo = grabbed]
      /\ sock' = [s \in Ids |->
                    [sock[s] EXCEPT !.closeOnRelease = @ \/ (close /\ s \in connList),
                                    !.available = @ /\ s \notin grabbed]]
  BY Zenon DEF GrabAll
<1>0. grabbed = {s \in connList : sock[s].available /\ ~(idleOnly /\ sock[s].activity)}
  BY Zenon DEF Available
<1> HIDE DEF grabbed
<1>3. /\ th' \in [Threads -> ThreadType]
      /\ \A r \in Threads : /\ th'[r].sock = th[r].sock
                            /\ th'[r].todo = (IF r = t THEN grabbed ELSE th[r].todo)
                            /\ th'[r].at = (IF r = t THEN "invalidate" ELSE th[r].at)
  <2>1. th \in ThreadMaps /\ "invalidate" \in Ats /\ grabbed \in IdSets
    BY <1>1 DEF Shape, Ats, ThreadMaps, IdSets
  <2>2. th' = AtTodo(th, t, "invalidate", grabbed)
    BY <1>2, Zenon DEF AtTodo
  <2> QED BY <2>1, <2>2, AtTodoIsSet
<1>4. /\ sock' \in [Ids -> SockType]
      /\ \A i \in Ids :
            /\ sock'[i].available <=> sock[i].available /\ i \notin grabbed
            /\ sock'[i].closeOnRelease <=> sock[i].closeOnRelease \/ (close /\ i \in connList)
            /\ sock'[i].iface = sock[i].iface /\ sock'[i].late = sock[i].late
  <2>1. sock \in [Ids -> SockType]
    BY DEF Shape
  <2>2. sock' = Grabbed(sock, close, connList, grabbed)
    BY <1>2, Zenon DEF Grabbed
  <2> QED BY <2>1, <2>2, SocksAreGrabbed
<1>5. /\ availableConns' = availableConns - Cardinality(grabbed)
      /\ UNCHANGED <<connList, establishedConns, iface, changes>>
  BY <1>2, Zenon
<1>6. Available' = Available \ grabbed
  BY <1>4, <1>5 DEF Available, Shape
<1>7. Connecting' = Connecting /\ Asleep' = Asleep /\ Woken' = Woken
  BY <1>3, UsersAssumption DEF Connecting, Asleep, Woken, Threads
<1>8. Counted' /\ availableConns' \in Nat /\ availableConns' <= availableConns
  <2>1. /\ IsFiniteSet(Available \ grabbed)
        /\ Cardinality(Available \ grabbed)
                = Cardinality(Available) - Cardinality(Available \cap grabbed)
    BY CountedAreFinite, FS_Difference, Zenon
  <2>2. Available \cap grabbed = grabbed
    BY <1>1
  <2>3. Cardinality(grabbed) \in Nat
    BY <1>1, CountedAreFinite, FS_Subset, FS_CardinalityType
  <2>4. availableConns' = Cardinality(Available')
    BY <1>5, <1>6, <2>1, <2>2, Zenon DEF Counted
  <2>5. Cardinality(Available') \in Nat
    BY <1>6, <2>1, FS_CardinalityType
  <2>6. Counted'
    BY <1>5, <1>7, <2>4 DEF Counted
  <2> QED BY <1>5, <2>3, <2>4, <2>5, <2>6 DEF Shape
<1>9. Shape'
  BY <1>3, <1>4, <1>5, <1>8 DEF Shape
<1>10. Positions'
  BY <1>3, UsersAssumption DEF Positions, Threads
<1>11. \A r \in Threads, i \in Ids :
          (Owns(r, i))' <=> Owns(r, i) \/ (r = t /\ i \in grabbed)
  <2>1. th[t].todo = {}
    BY DEF Positions
  <2> QED BY <1>3, <2>1 DEF Owns
<1>12. Owned'
  <2>1. \A i \in grabbed : i \in connList /\ sock[i].available
    BY <1>0
  <2>2. \A r \in Threads, i \in Ids : Owns(r, i) => i \notin grabbed
    BY <2>1 DEF Owned
  <2> QED BY <1>1, <1>4, <1>5, <1>11, <2>2 DEF Owned
<1>13. NoLostWakeup'
  BY <1>5, <1>7, <1>8, CountedAreFinite, BoundsAssumption DEF NoLostWakeup, Shape
<1>14. OldIsFlagged'
  <2>1. \A i \in connList' : i \in connList /\ i \in Ids
    BY <1>5 DEF Shape
  <2>2. CASE close
    BY <1>4, <2>1, <2>2 DEF OldIsFlagged
  <2>3. CASE ~close
    <3>1. th'[syncer].at # "all" => th[syncer].at # "all"
      BY <1>3, <2>3 DEF Threads
    <3> QED BY <1>4, <1>5, <2>1, <3>1 DEF OldIsFlagged
  <2> QED BY <2>2, <2>3
<1> QED BY <1>8, <1>9, <1>10, <1>12, <1>13, <1>14

\* A connection that is invalidated leaves the list; its place is for a sleeper first.
LEMMA InvalidateSpecificInv ==
    ASSUME IInv, NEW t \in Threads, NEW s \in Ids, InvalidateSpecific(t, s)
    PROVE  IInv'
<1> USE DEF IInv
<1>1. th[t].at = "invalidate" /\ s \in connList /\ Owns(t, s)
  BY DEF InvalidateSpecific, Owns
<1>2. /\ connList' = connList \ {s}
      /\ sock' = [sock EXCEPT ![s] = Unused]
      /\ establishedConns' = establishedConns - 1
      /\ UNCHANGED <<availableConns, iface, changes>>
  BY DEF InvalidateSpecific
<1> DEFINE f == [th EXCEPT ![t].todo = @ \ {s}, ![t].sock = IF @ = s THEN None ELSE @]
<1>3. th' \in Signalled(f)
  BY DEF InvalidateSpecific
<1>4. /\ f \in [Threads -> ThreadType]
      /\ \A r \in Threads : r # t => f[r] = th[r]
      /\ f[t].at = "invalidate" /\ f[t].todo = th[t].todo \ {s}
      /\ f[t].sock = IF th[t].sock = s THEN None ELSE th[t].sock
  <2>1. th \in [Threads -> ThreadType]
    BY DEF Shape
  <2>2. PICK n, d : n = (IF th[t].sock = s THEN None ELSE th[t].sock) /\ d = th[t].todo \ {s}
    BY Zenon
  <2>3. th \in ThreadMaps /\ n \in IdOrNone /\ d \in IdSets
    BY <2>1, <2>2 DEF ThreadType, ThreadMaps, IdOrNone, IdSets
  <2>4. f = TodoSock(th, t, d, n)
    BY <2>1, <2>2, Zenon DEF TodoSock, ThreadType
  <2> HIDE DEF f
  <2>5. /\ f \in [Threads -> ThreadType]
        /\ \A r \in Threads : r # t => f[r] = th[r]
        /\ f[t].at = th[t].at /\ f[t].sock = n /\ f[t].todo = d
    BY <2>3, <2>4, TodoSockIsSet
  <2> QED BY <1>1, <2>2, <2>5, Zenon
<1> HIDE DEF f
<1>5. /\ \A w \in Asleep : f[w] = th[w]
      /\ \A w \in Users : /\ f[w].at = "asleep" <=> th[w].at = "asleep"
                          /\ f[w].at = "woken" <=> th[w].at = "woken"
  BY <1>1, <1>4 DEF Asleep, Threads
<1>6. /\ th' \in [Threads -> ThreadType]
      /\ \A r \in Threads :
            /\ th'[r].sock = f[r].sock /\ th'[r].todo = f[r].todo
            /\ \/ th'[r] = f[r]
               \/ r \in Asleep /\ f[r].at = "asleep" /\ th'[r].at = "woken"
  BY <1>3, <1>4, <1>5, SignalEffect
<1>7. \A r \in Threads :
        /\ th'[r].sock = (IF r = t /\ th[t].sock = s THEN None ELSE th[r].sock)
        /\ th'[r].todo = (IF r = t THEN th[t].todo \ {s} ELSE th[r].todo)
        /\ \/ th'[r].at = th[r].at
           \/ r \in Users /\ th[r].at = "asleep" /\ th'[r].at = "woken"
  BY <1>1, <1>4, <1>6, Zenon DEF Asleep
<1>8. /\ sock' \in [Ids -> SockType]
      /\ \A i \in Ids : i # s => sock'[i] = sock[i]
  BY <1>2, BoundsAssumption DEF Shape, SockType, Unused
<1>9. ~sock[s].available
  BY <1>1 DEF Owned
<1>10. Available' = Available /\ Connecting' = Connecting
  BY <1>2, <1>7, <1>8, <1>9 DEF Available, Connecting, Shape, Threads
<1>11. Counted' /\ establishedConns' \in Nat
  <2>1. Cardinality(connList \ {s}) = Cardinality(connList) - 1
    BY <1>1, CountRemove, CountedAreFinite
  <2>2. Cardinality(connList') \in Nat
    BY <1>2, CountedAreFinite, FS_RemoveElement, FS_CardinalityType
  <2>3. establishedConns' = Cardinality(connList') + Cardinality(Connecting')
    BY <1>2, <1>10, <2>1, CountedAreFinite DEF Counted
  <2> QED BY <1>2, <1>10, <2>2, <2>3, CountedAreFinite DEF Counted
<1>12. Shape'
  <2>1. connList' \in SUBSET Ids
    BY <1>2 DEF Shape
  <2> QED BY <1>2, <1>6, <1>8, <1>11, <2>1, BoundsAssumption DEF Shape
<1>13. Positions'
  BY <1>1, <1>7, UsersAssumption DEF Positions, Threads
<1>14. \A r \in Threads, i \in Ids : (Owns(r, i))' => Owns(r, i) /\ i # s
  <2>1. \A i \in Ids : (Owns(t, i))' => Owns(t, i) /\ i # s
    BY <1>7 DEF Owns, Ids, None
  <2>2. \A r \in Threads, i \in Ids : r # t /\ (Owns(r, i))' => Owns(r, i)
    BY <1>7 DEF Owns
  <2>3. \A r \in Threads : r # t => ~Owns(r, s)
    BY <1>1 DEF Owned
  <2> QED BY <2>1, <2>2, <2>3
<1>15. Owned'
  BY <1>2, <1>8, <1>14 DEF Owned
<1>16. NoLostWakeup'
  <2>1. Asleep' = {} \/ (Asleep # {} /\ Cardinality(Woken') = Cardinality(Woken) + 1)
    BY <1>3, <1>4, <1>5, SignalWakes
  <2> QED BY <1>2, <2>1, CountedAreFinite, BoundsAssumption DEF NoLostWakeup, Shape
<1>17. OldIsFlagged'
  <2>1. th'[syncer].at = th[syncer].at
    BY <1>7, UsersAssumption DEF Threads
  <2> QED BY <1>2, <1>8, <2>1 DEF OldIsFlagged, Shape
<1> QED BY <1>11, <1>12, <1>13, <1>15, <1>16, <1>17

\* A thread that has closed what it had is done.
LEMMA InvalidatedInv ==
    ASSUME IInv, NEW t \in Threads, Invalidated(t) PROVE IInv'
<1> USE DEF IInv
<1>1. th[t].at = "invalidate" /\ th[t].todo = {} /\ th[t].sock = None
  BY DEF Invalidated
<1>2. UNCHANGED <<connList, availableConns, establishedConns, iface, changes>>
  BY DEF Invalidated
<1>3. /\ sock' \in [Ids -> SockType]
      /\ \A i \in Ids : /\ sock'[i].available = sock[i].available
                        /\ sock'[i].closeOnRelease = sock[i].closeOnRelease
                        /\ sock'[i].iface = sock[i].iface /\ sock'[i].late = sock[i].late
  <2>1. CASE th[t].reset
    <3>1. sock' = [s \in Ids |-> [sock[s] EXCEPT !.activity = @ /\ s \notin Available]]
      BY <2>1 DEF Invalidated
    <3> QED BY <3>1, Zenon DEF Shape, SockType
  <2>2. CASE ~th[t].reset
    BY <2>2 DEF Invalidated, Shape
  <2> QED BY <2>1, <2>2
<1>4. /\ th' \in [Threads -> ThreadType]
      /\ th'[t] = Idle /\ \A r \in Threads : r # t => th'[r] = th[r]
  BY BoundsAssumption DEF Invalidated, Shape, ThreadType, Ats, Idle
<1>5. th'[t].at = "idle" /\ th'[t].sock = None /\ th'[t].todo = {}
  BY <1>4 DEF Idle
<1>6. \A r \in Threads : /\ th'[r].sock = th[r].sock /\ th'[r].todo = th[r].todo
                         /\ th'[r].at = (IF r = t THEN "idle" ELSE th[r].at)
  BY <1>1, <1>4, <1>5
<1>7. Shape'
  BY <1>2, <1>3, <1>4 DEF Shape
<1>8. Positions'
  BY <1>1, <1>6, Zenon DEF Positions, Threads
<1>9. Owned'
  BY <1>2, <1>3, <1>6 DEF Owned, Owns
<1>10. Connecting' = Connecting /\ Asleep' = Asleep /\ Woken' = Woken
  BY <1>1, <1>6 DEF Connecting, Asleep, Woken, Threads
<1>11. Available' = Available
  BY <1>2, <1>3 DEF Available, Shape
<1>12. Counted' /\ NoLostWakeup'
  BY <1>2, <1>10, <1>11 DEF Counted, NoLostWakeup
<1>13. OldIsFlagged'
  <2>1. th'[syncer].at # "all" => th[syncer].at # "all"
    BY <1>1, <1>6 DEF Threads
  <2> QED BY <1>2, <1>3, <2>1 DEF OldIsFlagged, Shape
<1> QED BY <1>7, <1>8, <1>9, <1>12, <1>13

\* The syncer begins a round: it takes note of idle connections or of new interfaces.
LEMMA SyncerBeginsInv ==
    ASSUME IInv, DisconnectIdle \/ UpdateInterfaces PROVE IInv'
<1> USE DEF IInv
<1>1. syncer \in Threads /\ th[syncer].at = "idle"
  BY DEF Threads, DisconnectIdle, UpdateInterfaces
<1>2. /\ changes \in 0 .. MaxChanges - 1 /\ changes' = changes + 1
      /\ UNCHANGED <<connList, sock, availableConns, establishedConns>>
  BY BoundsAssumption DEF DisconnectIdle, UpdateInterfaces, Shape
<1>3. \/ /\ iface' = iface
         /\ th' = [th EXCEPT ![syncer].at = "idleonly", ![syncer].reset = TRUE]
      \/ iface' = iface + 1 /\ th' = [th EXCEPT ![syncer].at = "all"]
  BY DEF DisconnectIdle, UpdateInterfaces
<1>4. /\ th' \in [Threads -> ThreadType]
      /\ \A t \in Threads : /\ th'[t].sock = th[t].sock /\ th'[t].todo = th[t].todo
                            /\ t # syncer => th'[t].at = th[t].at
      /\ \/ iface' = iface /\ th'[syncer].at = "idleonly"
         \/ iface' = iface + 1 /\ th'[syncer].at = "all"
  <2>1. CASE /\ iface' = iface
             /\ th' = [th EXCEPT ![syncer].at = "idleonly", ![syncer].reset = TRUE]
    <3>1. th \in ThreadMaps /\ "idleonly" \in Ats /\ iface' = iface
      BY <2>1 DEF Shape, Ats, ThreadMaps
    <3>2. th' = AtReset(th, syncer, "idleonly")
      BY <2>1, Zenon DEF AtReset
    <3> QED BY <1>1, <3>1, <3>2, AtResetIsSet
  <2>2. CASE iface' = iface + 1 /\ th' = [th EXCEPT ![syncer].at = "all"]
    BY <1>1, <2>2 DEF Shape, ThreadType, Ats
  <2> QED BY <1>3, <2>1, <2>2
<1>5. Shape'
  BY <1>2, <1>4, BoundsAssumption DEF Shape
<1>6. Positions' /\ Owned'
  BY <1>1, <1>2, <1>4, UsersAssumption DEF Positions, Owned, Owns, Threads
<1>7. Connecting' = Connecting /\ Available' = Available /\ Asleep' = Asleep /\ Woken' = Woken
  BY <1>2, <1>4, UsersAssumption DEF Connecting, Available, Asleep, Woken, Threads
<1>8. Counted' /\ NoLostWakeup'
  BY <1>2, <1>7 DEF Counted, NoLostWakeup
<1>9. OldIsFlagged'
  BY <1>1, <1>2, <1>4 DEF OldIsFlagged
<1> QED BY <1>5, <1>6, <1>8, <1>9

-----------------------------------------------------------------------------
\* Every step of every thread keeps the invariant.
THEOREM NextInv == IInv /\ [Next]_vars => IInv'
<1> SUFFICES ASSUME IInv, [Next]_vars PROVE IInv'
  BY Zenon
<1>1. CASE UNCHANGED vars
  BY <1>1 DEF vars, IInv, Shape, Positions, Owned, Owns, Counted, NoLostWakeup, OldIsFlagged,
     Available, Connecting, Asleep, Woken
<1>2. ASSUME NEW u \in Users, th[u].at \in {"idle", "woken"}, Acquire(u) PROVE IInv'
  <2>1. CASE WaitForConn(u) BY <1>2, <2>1, WaitForConnInv
  <2>2. CASE Grab(u) BY <1>2, <2>2, GrabInv
  <2>3. CASE ~MustWait /\ availableConns = 0 /\ BeginConnect(u) BY <1>2, <2>3, BeginConnectInv
  <2> QED BY <1>2, <2>1, <2>2, <2>3 DEF Acquire
<1>3. ASSUME NEW t \in Threads, Step(t) PROVE IInv'
  <2>1. CASE \E s \in Ids : InvalidateSpecific(t, s) BY <2>1, InvalidateSpecificInv
  <2>2. CASE Invalidated(t) BY <2>2, InvalidatedInv
  <2>3. CASE t \in Users /\ th[t].at = "woken" /\ Acquire(t) BY <1>2, <2>3
  <2>4. CASE t \in Users /\ Connected(t) BY <2>4, ConnectedInv
  <2>5. CASE t \in Users /\ ConnectFails(t) BY <2>5, ConnectFailsInv
  <2>6. CASE t \in Users /\ ReleaseCheck(t) BY <2>6, ReleaseCheckInv
  <2>7. CASE t \in Users /\ Release(t) BY <2>7, ReleaseInv
  <2>8. CASE t \in Users /\ InvalidateStreamSocket(t)
    <3>1. th[t].at = "have" /\ GrabAll(t, FALSE, FALSE) /\ UNCHANGED <<iface, changes>>
      BY <2>8, Zenon DEF InvalidateStreamSocket
    <3>2. th[t].at # "all"
      BY <3>1
    <3> QED BY <2>8, <3>1, <3>2, GrabAllInv, Zenon
  <2>9. CASE t = syncer /\ SyncerInvalidates
    <3>1. CASE th[syncer].at = "idleonly" /\ GrabAll(syncer, TRUE, FALSE)
      <4>1. th[syncer].at # "all" /\ UNCHANGED <<iface, changes>>
        BY <2>9, <3>1 DEF SyncerInvalidates
      <4> QED BY <2>9, <3>1, <4>1, GrabAllInv, Zenon
    <3>2. CASE th[syncer].at = "all" /\ GrabAll(syncer, FALSE, TRUE)
      <4>1. UNCHANGED <<iface, changes>>
        BY <2>9 DEF SyncerInvalidates
      <4> QED BY <2>9, <3>2, <4>1, GrabAllInv, Zenon
    <3> QED BY <2>9, <3>1, <3>2, Zenon DEF SyncerInvalidates
  <2> QED BY <1>3, <2>1, <2>2, <2>3, <2>4, <2>5, <2>6, <2>7, <2>8, <2>9 DEF Step
<1>4. CASE DisconnectIdle \/ UpdateInterfaces BY <1>4, SyncerBeginsInv
<1> QED BY <1>1, <1>2, <1>3, <1>4 DEF Next

\* The invariant holds throughout.
THEOREM Invariance == Spec => []IInv
BY InitInv, NextInv, PTL DEF Spec

\* The counters availableConns and establishedConns are right, and no connection is
\* deleted, closed or handed out while another thread has it.
THEOREM PoolIsConsistentHolds == Spec => []PoolIsConsistent
<1>1. IInv => PoolIsConsistent
  <2> SUFFICES ASSUME IInv PROVE PoolIsConsistent
    OBVIOUS
  <2> USE DEF IInv
  <2>1. TypeOK
    <3>1. availableConns \in 0 .. MaxConns
      BY CountedAreFinite DEF Counted
    <3> QED BY <3>1 DEF TypeOK, Shape, SockType, ThreadType, Ats
  <2>2. \A t \in Threads : th[t].sock \in Ids \cup {None} /\ th[t].todo \subseteq Ids
    BY DEF Shape, ThreadType
  <2>3. \A t \in Threads :
            th[t].todo \cup ({th[t].sock} \ {None}) \subseteq connList \ Available
    BY <2>2 DEF Owned, Owns, Available
  <2>4. \A t, u \in Threads : t # u =>
            (th[t].todo \cup {th[t].sock}) \cap (th[u].todo \cup {th[u].sock}) \subseteq {None}
    BY <2>2 DEF Owned, Owns
  <2> QED BY <2>1, <2>3, <2>4 DEF PoolIsConsistent, Counted, Connecting
<1> QED BY <1>1, Invariance, PTL

\* A sleeper in acquireStreamSocketEx never sleeps on a connection, or on a place for one,
\* that nobody has been woken for.
THEOREM NoLostWakeupHolds == Spec => []NoLostWakeup
<1>1. IInv => NoLostWakeup
  BY DEF IInv
<1> QED BY <1>1, Invariance, PTL

\* updateInterfaces leaves no connection to the old interfaces without its flag.
THEOREM OldIsFlaggedHolds == Spec => []OldIsFlagged
<1>1. IInv => OldIsFlagged
  BY DEF IInv
<1> QED BY <1>1, Invariance, PTL

=============================================================================
