------------------------------ MODULE FileLocks ------------------------------
(***************************************************************************)
(* The advisory locks of one file (FileInode::flock*, Locking.h), the        *)
(* handlers FLockEntry, FLockRange and FLockAppend, the notification of      *)
(* waiters (LockingNotifier, Lock*NotificationWork) and the client that       *)
(* waits for a lock (flockGenericEx, LockGrantedMsgEx).                      *)
(*                                                                         *)
(* Append, flock and range locks have queues of their own and never look at  *)
(* each other's: a behaviour is about one kind.  Append and flock locks cover *)
(* position 0, the whole file.  A handle is what equalsHandle compares, a     *)
(* client with a file descriptor or with a process; it sends one request at   *)
(* a time and resends it, under its lockAckID, until it is told the outcome   *)
(* or a signal interrupts it.  A section under the inode's lock is one step.  *)
(* Offsets stay below the largest number of their type: the end of a lock     *)
(* "to the end of the file" is the largest signed one.                       *)
(***************************************************************************)
EXTENDS Naturals, Sequences, FiniteSets, SequencesExt

CONSTANTS
    Handles,        \* a set of numbers
    ClientOf,       \* [Handles -> the client of the handle]
    Kinds,          \* of "append", "flock", "range"
    MaxPos,         \* largest offset of a range lock
    Ranges,         \* the ranges that are locked and unlocked, [s, e]
    MaxReq          \* bound on the lock requests (the lockAckIDs)

VARIABLES
    kind,
    q,          \* the inode's queues: [excl, shared : granted; wx, ws : waiting]
    cl,         \* [Handles -> the lock the client is waiting for, or Idle]
    told,       \* [Handles -> [offset -> "n", "S" or "X"]], what the client thinks it has
    works,      \* notification works: [todo : locks not acknowledged, missing]
    reqs,
    gaveUp,     \* handles that were interrupted while waiting (history)
    lost,       \* handles that were told of a lock which was then revoked (history)
    mixed       \* a waiting writer was granted a flock over readers (history)

vars == <<kind, q, cl, told, works, reqs, gaveUp, lost, mixed>>

Pos == 0 .. MaxPos
RangesOf(k) == IF k = "range" THEN Ranges ELSE {[s |-> 0, e |-> 0]}
Idle == [h |-> 0, id |-> 0, type |-> "n", s |-> 0, e |-> 0]
Nothing == [p \in Pos |-> "n"]

Init ==
    /\ kind \in Kinds
    /\ q = [excl |-> {}, shared |-> {}, wx |-> <<>>, ws |-> <<>>]
    /\ cl = [h \in Handles |-> Idle]
    /\ told = [h \in Handles |-> Nothing]
    /\ works = {}
    /\ reqs = 0
    /\ gaveUp = {} /\ lost = {} /\ mixed = FALSE

-----------------------------------------------------------------------------
(* The queues.  d is a request, a lock or a waiter                           *)

Overlaps(a, b) == a.s <= b.e /\ b.s <= a.e
Mergeable(a, b) == a.s <= b.e + 1 /\ b.s <= a.e + 1
Others(L, d) == {g \in L : g.h # d.h /\ Overlaps(g, d)}
Own(L, d) == {g \in L : g.h = d.h}
Covers(g, d) == g.s <= d.s /\ d.e <= g.e

Lock(d, s, e) == [h |-> d.h, s |-> s, e |-> e]

\* flockEntryCheckConflicts and flockRangeCheckConflictsEx: granted locks of others,
\* and the writers that wait (wx, for a waiter the ones before it).
\* Mutant: writers do not look at the readers.
CheckConflictsMutant(p, d, wx) ==
    \/ Others(p.excl, d) # {}
    \/ kind = "range" /\ Others(Range(wx), d) # {}
    \/ kind # "range" /\ d.type = "S" /\ wx # <<>>

CheckConflicts(p, d, wx) ==
    \/ Others(p.excl, d) # {}
    \/ d.type = "X" /\ Others(p.shared, d) # {}
    \/ kind = "range" /\ Others(Range(wx), d) # {}
    \/ kind # "range" /\ d.type = "S" /\ wx # <<>>

\* trim and split: what is left of the handle's locks.
\* Mutant: a lock is not split, only its part before the range is left.
CutMutant(L, d) ==
    LET hit == {g \in Own(L, d) : Overlaps(g, d)} IN
    (L \ hit) \cup {Lock(d, g.s, d.s - 1) : g \in {x \in hit : x.s < d.s}}

Cut(L, d) ==
    LET hit == {g \in Own(L, d) : Overlaps(g, d)} IN
    (L \ hit) \cup {Lock(d, g.s, d.s - 1) : g \in {x \in hit : x.s < d.s}}
              \cup {Lock(d, d.e + 1, g.e) : g \in {x \in hit : d.e < x.e}}

\* flockEntryUnlock and flockRangeUnlock: an exclusive lock that covers the range ends
\* the search.
Unlock(p, d) ==
    IF \E g \in Own(p.excl, d) : Covers(g, d)
    THEN [p EXCEPT !.excl = Cut(@, d)]
    ELSE [p EXCEPT !.excl = Cut(@, d), !.shared = Cut(@, d)]

\* flockEntryIsGranted and flockRangeIsGranted.
IsGranted(p, d) ==
    \E g \in Own(IF d.type = "X" THEN p.excl ELSE p.shared, d) : Covers(g, d)

\* The handle's locks that overlap or touch the new one become one with it.
Merged(L, d) ==
    LET m == {g \in Own(L, d) : Mergeable(g, d)}
        all == m \cup {Lock(d, d.s, d.e)}
    IN  (L \ m) \cup {Lock(d, (CHOOSE g \in all : \A x \in all : g.s <= x.s).s,
                              (CHOOSE g \in all : \A x \in all : g.e >= x.e).e)}

\* flock*Shared and flock*Exclusive.
Grant(p, d) ==
    CASE d.type = "S" -> [p EXCEPT !.shared = Merged(@, d)]
      [] d.type = "X" /\ kind = "range" -> [p EXCEPT !.excl = Merged(@, d)]
      [] OTHER -> [p EXCEPT !.excl = {Lock(d, d.s, d.e)}]

\* flockRangeTryNextWaiters: each waiter against the granted locks and the writers
\* that still wait before it, then the readers.
TryNextRange(p) ==
    LET Writer(a, w) == IF CheckConflicts(a.p, w, a.p.wx)
                        THEN [a EXCEPT !.p.wx = Append(@, w)]
                        ELSE [p |-> Grant(a.p, w), got |-> a.got \cup {w}]
        Reader(a, w) == IF CheckConflicts(a.p, w, a.p.wx)
                        THEN [a EXCEPT !.p.ws = Append(@, w)]
                        ELSE [p |-> Grant(a.p, w), got |-> a.got \cup {w}]
        writers == FoldLeft(Writer, [p |-> [p EXCEPT !.wx = <<>>], got |-> {}], p.wx)
    IN  FoldLeft(Reader, [writers EXCEPT !.p.ws = <<>>], p.ws)

\* flockEntryTryNextWaiters: with no exclusive lock set, all the readers if no writer
\* waits, or else the first writer (whoever holds a shared lock).
TryNextEntry(p) ==
    CASE p.excl # {} \/ p.wx \o p.ws = <<>> -> [p |-> p, got |-> {}]
      [] p.excl = {} /\ p.wx = <<>> /\ p.ws # <<>> ->
            [p |-> FoldLeft(Grant, [p EXCEPT !.ws = <<>>], p.ws), got |-> Range(p.ws)]
      [] OTHER -> [p |-> Grant([p EXCEPT !.wx = Tail(@)], Head(p.wx)), got |-> {Head(p.wx)}]

TryNext(p) == IF kind = "range" THEN TryNextRange(p) ELSE TryNextEntry(p)

\* A writer among those that were granted has readers beside it.
OverReaders(r) == kind = "flock" /\ \E w \in r.got : w.type = "X" /\ Others(r.p.shared, w) # {}

\* The waiters are tried if a lock or a waiter was removed.
After(p) == IF p = q THEN [p |-> p, got |-> {}] ELSE TryNext(p)

\* flock*CancelByHandle and flock*CancelByClientID.
\* Mutant: a waiter that is removed does not count.
CancelMutant(H) ==
    LET p == [excl |-> {g \in q.excl : g.h \notin H}, shared |-> {g \in q.shared : g.h \notin H},
              wx |-> SelectSeq(q.wx, LAMBDA w : w.h \notin H),
              ws |-> SelectSeq(q.ws, LAMBDA w : w.h \notin H)]
    IN  IF p.excl = q.excl /\ p.shared = q.shared THEN [p |-> p, got |-> {}] ELSE TryNext(p)

Cancel(H) ==
    After([excl |-> {g \in q.excl : g.h \notin H}, shared |-> {g \in q.shared : g.h \notin H},
           wx |-> SelectSeq(q.wx, LAMBDA w : w.h \notin H),
           ws |-> SelectSeq(q.ws, LAMBDA w : w.h \notin H)])

WaitersLockIDs == {w.id : w \in Range(q.wx) \cup Range(q.ws)}

\* The lock request of flock*Unlocked: what becomes of the queues, whether it is
\* granted, and the waiters that were granted.
Request(d, wait) ==
    LET busy == CheckConflicts(q, d, q.wx)
        p == IF ~busy \/ wait THEN Unlock(q, d) ELSE q
        p2 == CASE ~busy -> Grant(p, d)
                [] busy /\ wait /\ d.type = "S" -> [p EXCEPT !.ws = Append(@, d)]
                [] busy /\ wait /\ d.type = "X" -> [p EXCEPT !.wx = Append(@, d)]
                [] OTHER -> p
        next == IF p = q THEN [p |-> p2, got |-> {}] ELSE TryNext(p2)
    IN  CASE d.id \in WaitersLockIDs -> [ok |-> FALSE, p |-> q, got |-> {}]
          [] d.id \notin WaitersLockIDs /\ IsGranted(q, d) -> [ok |-> TRUE, p |-> q, got |-> {}]
          [] OTHER -> [ok |-> ~busy, p |-> next.p, got |-> next.got]

-----------------------------------------------------------------------------
(* Handlers.  The waiters that were granted get a work of their own          *)

Notified(got) == works \cup {[todo |-> got, missing |-> 0] : x \in {got} \ {{}}}

Tell(h, d, type) == [told EXCEPT ![h] = [p \in Pos |-> IF d.s <= p /\ p <= d.e THEN type ELSE @[p]]]

\* FLock*MsgEx with a lock request, and what the client makes of the answer.
DoRequest(d, wait) ==
    LET r == Request(d, wait) IN
    /\ q' = r.p
    /\ works' = Notified(r.got)
    /\ cl' = [cl EXCEPT ![d.h] = IF r.ok \/ ~wait THEN Idle ELSE d]
    /\ told' = IF r.ok THEN Tell(d.h, d, d.type)
               ELSE IF wait /\ r.p # q THEN Tell(d.h, d, "n") ELSE told
    /\ mixed' = (mixed \/ OverReaders(r))
    /\ UNCHANGED <<kind, gaveUp, lost>>

LockRequest(h, type, wait, r) ==
    /\ cl[h] = Idle /\ reqs < MaxReq
    /\ kind = "append" => type = "X" /\ wait
    /\ reqs' = reqs + 1
    /\ DoRequest([h |-> h, id |-> reqs + 1, type |-> type, s |-> r.s, e |-> r.e], wait)

\* No grant arrived in time.
\* Mutant: the client goes on waiting, without asking again.
ResendMutant(h) == cl[h] # Idle /\ UNCHANGED vars

Resend(h) == cl[h] # Idle /\ DoRequest(cl[h], TRUE) /\ UNCHANGED reqs

\* A signal: the client no longer waits, and does not tell the server.
Interrupt(h) ==
    /\ cl[h] # Idle
    /\ cl' = [cl EXCEPT ![h] = Idle]
    /\ gaveUp' = gaveUp \cup {h}
    /\ UNCHANGED <<kind, q, told, works, reqs, lost, mixed>>

UnlockRequest(h, r) ==
    LET d == [h |-> h, s |-> r.s, e |-> r.e]
        next == After(Unlock(q, d))
    IN
    /\ cl[h] = Idle
    /\ \E p \in d.s .. d.e : told[h][p] # "n"
    /\ q' = next.p /\ works' = Notified(next.got)
    /\ told' = Tell(h, d, "n")
    /\ mixed' = (mixed \/ OverReaders(next))
    /\ UNCHANGED <<kind, cl, reqs, gaveUp, lost>>

\* The file is closed.  If the session is gone, the waiters that are granted are not
\* notified.
CancelRequest(h) ==
    LET r == Cancel({h}) IN
    /\ cl[h] = Idle
    /\ \E p \in Pos : told[h][p] # "n"
    /\ q' = r.p
    /\ works' \in {Notified(r.got), works}
    /\ told' = [told EXCEPT ![h] = Nothing]
    /\ mixed' = (mixed \/ OverReaders(r))
    /\ UNCHANGED <<kind, cl, reqs, gaveUp, lost>>

\* InternodeSyncer removes the sessions of a client that is gone.
ClientGone(c) ==
    LET H == {h \in Handles : ClientOf[h] = c}  r == Cancel(H) IN
    /\ \E h \in H : told[h] # Nothing \/ cl[h] # Idle
    /\ q' = r.p /\ works' = Notified(r.got)
    /\ told' = [h \in Handles |-> IF h \in H THEN Nothing ELSE told[h]]
    /\ cl' = [h \in Handles |-> IF h \in H THEN Idle ELSE cl[h]]
    /\ mixed' = (mixed \/ OverReaders(r))
    /\ UNCHANGED <<kind, reqs, gaveUp, lost>>

-----------------------------------------------------------------------------
(* Lock*NotificationWork::process                                            *)

\* A grant arrives while its lock is waited for, and is acknowledged; the acknowledgment
\* may be lost or late.  A grant that nobody waits for is not acknowledged.
GrantArrives(w, d) ==
    /\ w \in works /\ w.missing = 0 /\ d \in w.todo
    /\ cl[d.h].id = d.id
    /\ \/ works' = (works \ {w}) \cup {[w EXCEPT !.todo = @ \ {d}] : x \in {w.todo} \ {{d}}}
       \/ UNCHANGED works
    /\ cl' = [cl EXCEPT ![d.h] = Idle]
    /\ told' = Tell(d.h, d, d.type)
    /\ UNCHANGED <<kind, q, reqs, gaveUp, lost, mixed>>

\* The retries are used up.
AcksMissing(w) ==
    /\ w \in works /\ w.missing = 0
    /\ works' = (works \ {w}) \cup {[w EXCEPT !.missing = Cardinality(w.todo)]}
    /\ UNCHANGED <<kind, q, cl, told, reqs, gaveUp, lost, mixed>>

\* The client was told of the lock, or a later grant of it is on its way.
Claimed(w, d) ==
    \/ \E p \in d.s .. d.e : told[d.h][p] # "n"
    \/ \E v \in works \ {w} : \E x \in v.todo : x.h = d.h /\ Overlaps(x, d)

\* unlockWaiter: the waiters that are granted by it are not notified.
UnlockWaiter(w, d) ==
    LET r == After(Unlock(q, d)) IN
    /\ w \in works /\ w.missing > 0 /\ d \in w.todo
    /\ q' = r.p
    /\ works' = (works \ {w}) \cup (IF w.todo = {d} /\ w.missing = 1 THEN {}
                                    ELSE {[w EXCEPT !.todo = @ \ {d}]})
    /\ lost' = IF Claimed(w, d) THEN lost \cup {d.h} ELSE lost
    /\ mixed' = (mixed \/ OverReaders(r))
    /\ UNCHANGED <<kind, cl, told, reqs, gaveUp>>

\* More than one acknowledgment was missing.
CancelAllWaiters(w) ==
    /\ w \in works /\ w.missing > 1 /\ w.todo = {}
    /\ q' = [q EXCEPT !.wx = <<>>, !.ws = <<>>]
    /\ works' = works \ {w}
    /\ UNCHANGED <<kind, cl, told, reqs, gaveUp, lost, mixed>>

-----------------------------------------------------------------------------

Server ==
    \E w \in works : \/ AcksMissing(w) \/ CancelAllWaiters(w)
                     \/ \E d \in w.todo : GrantArrives(w, d) \/ UnlockWaiter(w, d)

Next ==
    \/ Server
    \/ \E h \in Handles :
        \/ \E r \in RangesOf(kind) : UnlockRequest(h, r)
        \/ \E type \in {"S", "X"}, wait \in BOOLEAN, r \in RangesOf(kind) :
            LockRequest(h, type, wait, r)
        \/ Resend(h) \/ Interrupt(h) \/ CancelRequest(h)
    \/ \E c \in {ClientOf[h] : h \in Handles} : ClientGone(c)

Spec == Init /\ [][Next]_vars

\* The system does not stop while a work can run, a client can resend what it waits
\* for, or one that has a lock can unlock it.
FairSpec ==
    /\ Spec
    /\ WF_vars(Server \/ \E h \in Handles : \/ Resend(h)
                                         \/ \E r \in RangesOf(kind) : UnlockRequest(h, r))

-----------------------------------------------------------------------------
(* Properties                                                                *)

HeldAt(h, p) == {g \in q.excl \cup q.shared : g.h = h /\ g.s <= p /\ p <= g.e}

Excludes == \A g \in q.excl : \A o \in q.excl \cup q.shared : o.h # g.h => ~Overlaps(o, g)

\* Every variable is of its type; no waiter is queued twice.
TypeOK ==
    /\ \A g \in q.excl \cup q.shared : g.h \in Handles /\ g.s \in Pos /\ g.e \in Pos /\ g.s <= g.e
    /\ Cardinality(WaitersLockIDs) = Len(q.wx) + Len(q.ws)
    /\ \A w \in works : w.missing = 0 => w.todo # {}
    /\ reqs \in 0 .. MaxReq

\* An exclusive lock excludes the locks of others on its range, however it was granted:
\* on request, as the next waiter, over a lock that was merged, split or downgraded.  The
\* exception in the code is a writer that waits for a flock: it is granted when any of
\* the readers has gone.  The locks of one handle are disjoint and merged, which the
\* searches that stop at the first hit rely on; unless it was interrupted and asked again.
LocksAreDisjoint ==
    /\ TypeOK
    /\ Excludes \/ mixed
    /\ \A g, o \in q.excl \cup q.shared : g.h = o.h /\ g.h \notin gaveUp /\ g # o =>
        /\ ~Overlaps(g, o)
        /\ {g, o} \subseteq q.excl \/ {g, o} \subseteq q.shared => ~Mergeable(g, o)

\* Nobody waits who could have the lock: a waiter is kept by a granted lock, or by a
\* writer that was there before it (a reader of a flock by any writer).  Every path that
\* removes a lock or a waiter tries the next ones.
NoForgottenWaiter ==
    IF kind = "range"
    THEN /\ \A i \in DOMAIN q.wx : \/ Others(q.excl \cup q.shared, q.wx[i]) # {}
                                   \/ Others({q.wx[j] : j \in 1 .. i - 1}, q.wx[i]) # {}
         /\ \A i \in DOMAIN q.ws : Others(q.excl \cup Range(q.wx), q.ws[i]) # {}
    ELSE /\ q.wx # <<>> => q.excl \cup q.shared # {}
         /\ q.ws # <<>> => q.excl # {} \/ q.wx # <<>>

\* What a client was told it has is held for it on the server, as long as the server did
\* not revoke it: that can happen to a client that learned of the grant by resending, or
\* whose acknowledgment was lost.
ToldIsHeld ==
    \A h \in Handles \ lost : \A p \in Pos : told[h][p] # "n" =>
        \E g \in IF told[h][p] = "X" THEN q.excl ELSE q.excl \cup q.shared : g \in HeldAt(h, p)

\* No lock is held for somebody who will not hear of it: the client knows, waits and will
\* resend, or a work is still notifying it; unless it was interrupted.
HeldIsKnown ==
    \A h \in Handles \ gaveUp : \A p \in Pos : HeldAt(h, p) # {} =>
        told[h][p] # "n" \/ cl[h] # Idle \/ \E w \in works : \E d \in w.todo : d.h = h

\* Client and server agree on who holds what, through lost grants, lost acknowledgments
\* and repeated requests, as far as ToldIsHeld and HeldIsKnown say.
ClientsAndServerAgree == ToldIsHeld /\ HeldIsKnown

\* Clients that wait get their locks or are interrupted, if nobody was interrupted
\* before and the holders unlock; unless one of them waits itself.
WaitsEnd ==
    []<>(\/ \A h \in Handles : cl[h] = Idle
         \/ gaveUp # {}
         \/ \E h \in Handles : cl[h] # Idle /\ told[h] # Nothing)
=============================================================================
