---------------------------- MODULE NodeConnPool ----------------------------
(***************************************************************************)
(* The pool of stream connections to one node (NodeConnPool, PooledSocket).  *)
(*                                                                         *)
(* The threads that send requests acquire a connection, use it and release   *)
(* or invalidate it; the internode syncer drops idle connections and, when   *)
(* the interfaces of the node change, the ones made to the old interfaces.   *)
(* An action is one section under the pool's mutex, or one that is outside of *)
(* it on purpose: connecting, and reading the flags of a connection that is   *)
(* about to be released.  A connection is removed from the list one at a      *)
(* time, the mutex being free while the peer is waited for.                  *)
(*                                                                         *)
(* The order of the list is left out (any available connection is taken), so *)
(* are the statistics, the log state and connections outside of the pool.    *)
(***************************************************************************)
EXTENDS Naturals, FiniteSets

CONSTANTS
    Users,          \* threads that send requests
    syncer,         \* the thread of InternodeSyncer
    MaxConns,       \* maxConns
    MaxUses,        \* bound on the connections asked for
    MaxChanges      \* bound on the rounds of the syncer

ASSUME UsersAssumption == IsFiniteSet(Users) /\ syncer \notin Users
ASSUME BoundsAssumption == MaxConns \in Nat /\ MaxUses \in Nat /\ MaxChanges \in Nat

VARIABLES
    connList,           \* the connections in the pool, a set of Ids
    sock,               \* [Ids -> [available, closeOnRelease, activity, fallback, iface, late]]
    availableConns,
    establishedConns,   \* with the ones that are being established
    iface,              \* version of nicList and streamPort
    th,                 \* [Threads -> [at, sock, todo, iface, reset]]
    uses,               \* connections asked for
    changes

vars == <<connList, sock, availableConns, establishedConns, iface, th, uses, changes>>

Threads == Users \cup {syncer}
Ids == 1 .. MaxConns
None == 0

Unused == [available |-> FALSE, closeOnRelease |-> FALSE, activity |-> FALSE,
           fallback |-> FALSE, iface |-> 0, late |-> FALSE]
Idle == [at |-> "idle", sock |-> None, todo |-> {}, iface |-> 0, reset |-> FALSE]

Init ==
    /\ connList = {} /\ sock = [s \in Ids |-> Unused]
    /\ availableConns = 0 /\ establishedConns = 0
    /\ iface = 0
    /\ th = [t \in Threads |-> Idle]
    /\ uses = 0 /\ changes = 0

Asleep == {u \in Users : th[u].at = "asleep"}
Woken == {u \in Users : th[u].at = "woken"}
Available == {s \in connList : sock[s].available}

\* The threads after changeCond.signal, f being what the caller made of them.
Signalled(f) ==
    IF Asleep = {} THEN {f} ELSE {[f EXCEPT ![u].at = "woken"] : u \in Asleep}

-----------------------------------------------------------------------------
(* acquireStreamSocketEx                                                     *)

MustWait == availableConns = 0 /\ establishedConns = MaxConns

\* A caller that may not wait gets NULL, which changes nothing; the others wait, and
\* look again when they are woken.
WaitForConn(u) ==
    /\ MustWait
    /\ th' = [th EXCEPT ![u].at = "asleep"]
    /\ UNCHANGED <<connList, sock, availableConns, establishedConns, iface, changes>>

Grab(u) ==
    \E s \in Available :
        /\ sock' = [sock EXCEPT ![s].available = FALSE, ![s].activity = TRUE]
        /\ availableConns' = availableConns - 1
        /\ th' = [th EXCEPT ![u].at = "have", ![u].sock = s]
        /\ UNCHANGED <<connList, establishedConns, iface, changes>>

\* The place in the pool is taken before the mutex is released, and the interfaces are
\* the ones of this moment.
BeginConnect(u) ==
    /\ establishedConns' = establishedConns + 1
    /\ th' = [th EXCEPT ![u].at = "connect", ![u].iface = iface]
    /\ UNCHANGED <<connList, sock, availableConns, iface, changes>>

Acquire(u) ==
    /\ \/ th[u].at = "idle" /\ uses < MaxUses /\ uses' = uses + 1
       \/ th[u].at = "woken" /\ UNCHANGED uses
    /\ \/ WaitForConn(u)
       \/ ~MustWait /\ availableConns > 0 /\ Grab(u)
       \/ ~MustWait /\ availableConns = 0 /\ BeginConnect(u)

\* The first interface may fail and a later one succeed: then the connection expires.
Connected(u) ==
    LET s == CHOOSE i \in Ids : i \notin connList IN
    /\ th[u].at = "connect"
    /\ connList' = connList \cup {s}
    /\ \E fallback \in BOOLEAN :
        sock' = [sock EXCEPT ![s] = [Unused EXCEPT !.fallback = fallback, !.iface = th[u].iface,
                                                   !.activity = TRUE,
                                                   !.late = th[u].iface # iface]]
    /\ th' = [th EXCEPT ![u].at = "have", ![u].sock = s]
    /\ UNCHANGED <<availableConns, establishedConns, iface, uses, changes>>

\* Mutant: the place in the pool is not given back.
ConnectFailsMutant(u) ==
    /\ th[u].at = "connect"
    /\ th' \in Signalled([th EXCEPT ![u] = Idle])
    /\ UNCHANGED <<connList, sock, availableConns, establishedConns, iface, uses, changes>>

ConnectFails(u) ==
    /\ th[u].at = "connect"
    /\ establishedConns' = establishedConns - 1
    /\ th' \in Signalled([th EXCEPT ![u] = Idle])
    /\ UNCHANGED <<connList, sock, availableConns, iface, uses, changes>>

-----------------------------------------------------------------------------
(* releaseStreamSocket                                                       *)

\* Without the mutex: a connection that is to be closed, or one to a fallback
\* interface whose time is over, is invalidated instead.
ReleaseCheck(u) ==
    LET s == th[u].sock IN
    /\ th[u].at = "have"
    /\ \/ /\ sock[s].closeOnRelease \/ sock[s].fallback
          /\ th' = [th EXCEPT ![u].at = "invalidate"]
       \/ /\ ~sock[s].closeOnRelease
          /\ th' = [th EXCEPT ![u].at = "release"]
    /\ UNCHANGED <<connList, sock, availableConns, establishedConns, iface, uses, changes>>

Release(u) ==
    /\ th[u].at = "release"
    /\ availableConns' = availableConns + 1
    /\ sock' = [sock EXCEPT ![th[u].sock].available = TRUE]
    /\ th' \in Signalled([th EXCEPT ![u] = Idle])
    /\ UNCHANGED <<connList, establishedConns, iface, uses, changes>>

-----------------------------------------------------------------------------
(* Invalidating                                                              *)

\* invalidateAllAvailableStreams, stage 1.
\* Mutant: a connection that is in use is passed over before its flag is set.
GrabAllMutant(t, idleStreamsOnly, closeOnRelease) ==
    LET grabbed == {s \in Available : ~(idleStreamsOnly /\ sock[s].activity)} IN
    /\ sock' = [s \in Ids |->
                    [sock[s] EXCEPT !.closeOnRelease = @ \/ (closeOnRelease /\ s \in Available),
                                    !.available = @ /\ s \notin grabbed]]
    /\ availableConns' = availableConns - Cardinality(grabbed)
    /\ th' = [th EXCEPT ![t].at = "invalidate", ![t].todo = grabbed]
    /\ UNCHANGED <<connList, establishedConns, uses>>

\* Mutant: the grabbed connections stay available.
GrabAllSharesMutant(t, idleStreamsOnly, closeOnRelease) ==
    LET grabbed == {s \in Available : ~(idleStreamsOnly /\ sock[s].activity)} IN
    /\ sock' = [s \in Ids |-> [sock[s] EXCEPT !.closeOnRelease =
                                                @ \/ (closeOnRelease /\ s \in connList)]]
    /\ th' = [th EXCEPT ![t].at = "invalidate", ![t].todo = grabbed]
    /\ UNCHANGED <<connList, availableConns, establishedConns, uses>>

GrabAll(t, idleStreamsOnly, closeOnRelease) ==
    LET grabbed == {s \in Available : ~(idleStreamsOnly /\ sock[s].activity)} IN
    /\ sock' = [s \in Ids |->
                    [sock[s] EXCEPT !.closeOnRelease = @ \/ (closeOnRelease /\ s \in connList),
                                    !.available = @ /\ s \notin grabbed]]
    /\ availableConns' = availableConns - Cardinality(grabbed)
    /\ th' = [th EXCEPT ![t].at = "invalidate", ![t].todo = grabbed]
    /\ UNCHANGED <<connList, establishedConns, uses>>

\* invalidateSpecificStreamSocket: stage 2 for each grabbed connection, and after them
\* the thread's own.
\* Mutant: the waiters are not told.
InvalidateSpecificMutant(t, s) ==
    /\ th[t].at = "invalidate"
    /\ s \in IF th[t].todo = {} THEN {th[t].sock} ELSE th[t].todo
    /\ s \in connList
    /\ connList' = connList \ {s}
    /\ sock' = [sock EXCEPT ![s] = Unused]
    /\ establishedConns' = establishedConns - 1
    /\ th' = [th EXCEPT ![t].todo = @ \ {s}, ![t].sock = IF @ = s THEN None ELSE @]
    /\ UNCHANGED <<availableConns, iface, uses, changes>>

InvalidateSpecific(t, s) ==
    /\ th[t].at = "invalidate"
    /\ s \in IF th[t].todo = {} THEN {th[t].sock} ELSE th[t].todo
    /\ s \in connList
    /\ connList' = connList \ {s}
    /\ sock' = [sock EXCEPT ![s] = Unused]
    /\ establishedConns' = establishedConns - 1
    /\ th' \in Signalled([th EXCEPT ![t].todo = @ \ {s}, ![t].sock = IF @ = s THEN None ELSE @])
    /\ UNCHANGED <<availableConns, iface, uses, changes>>

\* disconnectAndResetIdleStreams clears the activity flags when all are gone.
Invalidated(t) ==
    /\ th[t].at = "invalidate" /\ th[t].todo = {} /\ th[t].sock = None
    /\ sock' = IF th[t].reset
               THEN [s \in Ids |-> [sock[s] EXCEPT !.activity = @ /\ s \notin Available]]
               ELSE sock
    /\ th' = [th EXCEPT ![t] = Idle]
    /\ UNCHANGED <<connList, availableConns, establishedConns, iface, uses, changes>>

\* The connection broke (invalidateStreamSocket): the available ones are suspect too.
InvalidateStreamSocket(u) ==
    /\ th[u].at = "have"
    /\ GrabAll(u, FALSE, FALSE)
    /\ UNCHANGED <<iface, changes>>

DisconnectIdle ==
    /\ th[syncer].at = "idle" /\ changes < MaxChanges
    /\ changes' = changes + 1
    /\ th' = [th EXCEPT ![syncer].at = "idleonly", ![syncer].reset = TRUE]
    /\ UNCHANGED <<connList, sock, availableConns, establishedConns, iface, uses>>

\* updateInterfaces and setLocalNicList: the mutex is released before the connections
\* are invalidated.
UpdateInterfaces ==
    /\ th[syncer].at = "idle" /\ changes < MaxChanges
    /\ changes' = changes + 1
    /\ iface' = iface + 1
    /\ th' = [th EXCEPT ![syncer].at = "all"]
    /\ UNCHANGED <<connList, sock, availableConns, establishedConns, uses>>

SyncerInvalidates ==
    /\ \/ th[syncer].at = "idleonly" /\ GrabAll(syncer, TRUE, FALSE)
       \/ th[syncer].at = "all" /\ GrabAll(syncer, FALSE, TRUE)
    /\ UNCHANGED <<iface, changes>>

-----------------------------------------------------------------------------

\* What a thread does once it has begun.
Step(t) ==
    \/ \E s \in Ids : InvalidateSpecific(t, s)
    \/ Invalidated(t)
    \/ /\ t \in Users
       /\ \/ th[t].at = "woken" /\ Acquire(t)
          \/ Connected(t) \/ ConnectFails(t)
          \/ ReleaseCheck(t) \/ Release(t) \/ InvalidateStreamSocket(t)
    \/ t = syncer /\ SyncerInvalidates

Next ==
    \/ \E t \in Threads : Step(t)
    \/ \E u \in Users : th[u].at = "idle" /\ Acquire(u)
    \/ DisconnectIdle \/ UpdateInterfaces

Spec == Init /\ [][Next]_vars

\* A thread that is not asleep runs; connecting ends in success or in failure, and who
\* has a connection releases or invalidates it.
FairSpec == Spec /\ \A t \in Threads : WF_vars(Step(t))

-----------------------------------------------------------------------------
(* Properties                                                                *)

\* Every variable is of its type; the pool never has more than maxConns connections.
TypeOK ==
    /\ connList \subseteq Ids
    /\ \A s \in Ids : sock[s] \in [available : BOOLEAN, closeOnRelease : BOOLEAN,
            activity : BOOLEAN, fallback : BOOLEAN, iface : 0 .. MaxChanges, late : BOOLEAN]
    /\ availableConns \in 0 .. MaxConns
    /\ establishedConns \in 0 .. MaxConns
    /\ \A t \in Threads :
        /\ th[t].at \in {"idle", "asleep", "woken", "connect", "have", "release",
                         "invalidate", "idleonly", "all"}
        /\ th[t].sock \in Ids \cup {None}
        /\ th[t].todo \subseteq Ids

\* The two counters, which are changed in six places and never recomputed, agree with
\* the list and with the threads that are connecting.  A connection that a thread uses or
\* is about to close is in the pool, is not offered to others, and is no other thread's:
\* no connection is deleted under its user, and none is looked for in the list in vain.
PoolIsConsistent ==
    /\ TypeOK
    /\ availableConns = Cardinality(Available)
    /\ establishedConns = Cardinality(connList)
                            + Cardinality({u \in Users : th[u].at = "connect"})
    /\ \A t \in Threads : LET mine == th[t].todo \cup ({th[t].sock} \ {None}) IN
        mine \subseteq connList \ Available
    /\ \A t, u \in Threads : t # u =>
        (th[t].todo \cup {th[t].sock}) \cap (th[u].todo \cup {th[u].sock}) \subseteq {None}

\* While somebody sleeps in acquireStreamSocketEx, there is a woken thread for every
\* connection that could be had: a signal is never lost, whoever gets the mutex first.
NoLostWakeup ==
    Asleep # {} => Cardinality(Woken) >= availableConns + (MaxConns - establishedConns)

\* When the interfaces have changed, every connection to the old ones is closed at its
\* next release, except one that was just being established.
OldIsFlagged ==
    th[syncer].at # "all" =>
        \A s \in connList : sock[s].iface # iface => sock[s].closeOnRelease \/ sock[s].late

\* Whoever asks for a connection gets one or an error.
EveryAcquireEnds ==
    \A u \in Users : th[u].at \in {"asleep", "woken", "connect"} ~> th[u].at \in {"have", "idle"}
=============================================================================
