----------------------------- MODULE EntryLocks -----------------------------
(***************************************************************************)
(* The entry locks of a mirrored metadata group and the operations on       *)
(* directories that hold them (meta/source/session/EntryLockStore, the      *)
(* lock() and executeLocally() of the handlers under                        *)
(* meta/source/net/message/storage).                                        *)
(*                                                                         *)
(* Only the primary locks: MirroredMessage::processIncoming calls lock()    *)
(* unless the message comes from the buddy.  It keeps the locks while it    *)
(* executes the operation, forwards it to the secondary and waits for the   *)
(* answer, so the order in which the secondary executes two operations is   *)
(* the primary's order only where their locks conflict.                     *)
(*                                                                         *)
(* An id is a natural number, so that ids are ordered as the strings of the *)
(* code are; the ids of directories are the set Dirs.  A name in a          *)
(* directory is a pair <<directory, name>>.                                 *)
(***************************************************************************)
EXTENDS Naturals, FiniteSets, SequencesExt

CONSTANTS
    Threads,    \* worker threads of the primary
    Dirs,       \* ids of the directories of this group
    Names,      \* entry names, ordered as natural numbers
    Tree0,      \* the entries at the start: <<directory, name>> -> id, 0: none
    Requests,   \* the requests clients and other groups may send
    MaxID,      \* bound on the ids that are created
    MaxOps      \* bound on the number of requests

Replicas == {"primary", "secondary"}
Places == Dirs \X Names
Ids == 1 .. MaxID

VARIABLES
    store,      \* [Replicas -> [tree, live, attr]]: entries, existing directories, attributes
    th,         \* [Threads -> what the worker does, with the locks it holds and waits for]
    nextID,     \* the next id generateFileID returns
    ops,        \* number of requests received so far
    marked,     \* the secondary was set to needs-resync
    kept,       \* history: the ids some name of this group must lead to
    loose       \* history: a rename or rmdir changed an entry it did not have locked

vars == <<store, th, nextID, ops, marked, kept, loose>>

IsFile(id) == id \in Ids \ Dirs
NoRequest == [op |-> "None", at |-> <<0, 0>>, to |-> <<0, 0>>, id |-> 0, isDir |-> FALSE]
Idle == [pc |-> "idle", q |-> NoRequest, pre |-> 0, id |-> 0, val |-> 0,
         todo |-> <<>>, held |-> {}, waits |-> FALSE]

\* The entry a replica finds under a name (DirInode::getDentry, getEntryInfo).
At(s, p) == IF p[1] \in s.live THEN s.tree[p] ELSE 0
Primary == store["primary"]

Init ==
    /\ store = [r \in Replicas |->
                  [tree |-> Tree0, live |-> Dirs, attr |-> [i \in Ids |-> 0]]]
    /\ th = [t \in Threads |-> Idle]
    /\ nextID = 1 + Max(Range(Tree0) \cup Dirs)
    /\ ops = 0
    /\ marked = FALSE
    /\ kept = Range(Tree0) \ {0}
    /\ loose = FALSE

-----------------------------------------------------------------------------
(* The lock store: FileIDLock is a reader-writer lock that prefers writers,  *)
(* ParentNameLock a mutex.                                                   *)

W(id) == [key |-> <<id>>, write |-> TRUE]
R(id) == [key |-> <<id>>, write |-> FALSE]
N(p) == [key |-> p, write |-> TRUE]

WriteAll(ids) == LET s == SetToSortSeq(ids, <) IN [i \in 1 .. Len(s) |-> W(s[i])]

HoldsLock(u, l) == \E h \in th[u].held : h.key = l.key /\ (h.write \/ l.write)
WaitsToWrite(u, key) == th[u].waits /\ Head(th[u].todo).key = key

\* EntryLockStore::lock: the lock can be had now.  A reader also queues behind a
\* writer that waits (PTHREAD_RWLOCK_PREFER_WRITER_NONRECURSIVE_NP).
Free(t, l) ==
    \A u \in Threads \ {t} : /\ ~HoldsLock(u, l)
                             /\ l.write \/ ~WaitsToWrite(u, l.key)

Acquire(t) ==
    /\ th[t].todo # <<>>
    /\ Free(t, Head(th[t].todo))
    /\ th' = [th EXCEPT ![t].held = @ \cup {Head(th[t].todo)},
                        ![t].todo = Tail(@),
                        ![t].waits = FALSE]
    /\ UNCHANGED <<store, nextID, ops, marked, kept, loose>>

\* A writer that cannot have its lock blocks and from then on keeps readers out.
Block(t) ==
    /\ th[t].todo # <<>> /\ ~th[t].waits
    /\ Head(th[t].todo).write
    /\ ~Free(t, Head(th[t].todo))
    /\ th' = [th EXCEPT ![t].waits = TRUE]
    /\ UNCHANGED <<store, nextID, ops, marked, kept, loose>>

-----------------------------------------------------------------------------
(* lock() of each handler: what it reads before it has any lock, and the     *)
(* locks it takes.                                                           *)

\* RmDirMsgEx::lock: the entry's id is read without a lock and is locked in the
\* order of ids with the parent's, whatever the entry is (getDirEntryInfo fills
\* in the info of a file too, and its result is ignored).
RmDirLocks(q, pre) ==
    IF q.at[1] \notin Primary.live THEN <<>>
    ELSE Append(WriteAll({q.at[1], pre} \ {0}), N(q.at))

\* RenameV2MsgEx::lock, the directories: both parents and a directory that is
\* moved, in the order of their ids.  No lock at all if one of the parents is not
\* a directory of this group.
\* Mutant: the directories are locked in the order source, target.
RenameDirLocksMutant(q, pre) ==
    IF {q.at[1], q.to[1]} \subseteq Primary.live
    THEN <<W(q.at[1])>> \o (IF q.to[1] # q.at[1] THEN <<W(q.to[1])>> ELSE <<>>)
                        \o WriteAll(({pre} \cap Dirs) \ {q.at[1], q.to[1]})
    ELSE <<>>

RenameDirLocks(q, pre) ==
    IF {q.at[1], q.to[1]} \subseteq Primary.live
    THEN WriteAll({q.at[1], q.to[1]} \cup ({pre} \cap Dirs))
    ELSE <<>>

\* MkFileMsgEx::lock and UnlinkFileMsgEx::lock: the parent, the name, and the file
\* (the new one; the one whose id was read without a lock).
MkFileLocks(q) == <<W(q.at[1]), N(q.at), W(nextID)>>
UnlinkLocks(q, pre) == <<W(q.at[1]), N(q.at)>> \o WriteAll({pre} \ (Dirs \cup {0}))

FirstLocks(q, pre) ==
    CASE q.op = "MkFile"  -> MkFileLocks(q)
      [] q.op = "Unlink"  -> UnlinkLocks(q, pre)
      [] q.op = "SetAttr" -> <<W(q.id)>>
      [] q.op = "RmDir"   -> RmDirLocks(q, pre)
      [] q.op = "Rename"  -> RenameDirLocks(q, pre)
      [] q.op = "Insert"  -> <<W(q.to[1]), N(q.to)>>
      [] q.op \in {"Lookup", "Open"} -> <<R(q.at[1])>>

\* The handlers that read an entry under the first locks to know the others; a
\* rename that took no lock does not.
TwoStages(u) == u.q.op \in {"Rename", "Insert", "Lookup", "Open"} /\ u.held # {}

\* MirroredMessage::processIncoming of a request from a client or another group.
\* MkFile and Insert bring an id that is new here; a rename reads its target.
Begin(t) ==
    /\ th[t].pc = "idle" /\ ops < MaxOps
    /\ \E q \in Requests :
        LET pre == At(Primary, q.at)
            new == q.op \in {"MkFile", "Insert"} IN
        /\ new => nextID <= MaxID
        /\ th' = [th EXCEPT ![t] = [Idle EXCEPT
                    !.pc = "first", !.q = q, !.pre = pre, !.id = IF new THEN nextID ELSE At(Primary, q.to),
                    !.val = ops + 1, !.todo = FirstLocks(q, pre)]]
        /\ nextID' = IF new THEN nextID + 1 ELSE nextID
    /\ ops' = ops + 1
    /\ UNCHANGED <<store, marked, kept, loose>>

HasFirst(t) == th[t].pc = "first" /\ th[t].todo = <<>>
Second(t, locks) ==
    th' = [th EXCEPT ![t].pc = "second", ![t].todo = locks]

\* The two names of a rename, in the order of (directory, name).
NameLocks(p, q) ==
    CASE p = q -> <<N(p)>>
      [] p[1] < q[1] \/ (p[1] = q[1] /\ p[2] < q[2]) -> <<N(p), N(q)>>
      [] OTHER -> <<N(q), N(p)>>

\* RenameV2MsgEx::lock once the directories are locked: if the source is no
\* longer what was read without the locks, drop them and start again; else lock
\* the names and, if the source is a file, the two files in the order of ids.
\* The target's id is the one that was read first: it is not read again.
RenameRecheck(t) ==
    LET u == th[t]
        again == At(Primary, u.q.at) IN
    /\ HasFirst(t) /\ u.q.op = "Rename" /\ u.held # {}
    /\ IF again # u.pre
       THEN th' = [th EXCEPT ![t].pre = again, ![t].id = At(Primary, u.q.to), ![t].held = {},
                             ![t].todo = RenameDirLocks(u.q, again)]
       ELSE Second(t, NameLocks(u.q.at, u.q.to)
                      \o (IF IsFile(u.pre) THEN WriteAll({u.pre} \cup ({u.id} \ (Dirs \cup {0})))
                                           ELSE <<>>))
    /\ UNCHANGED <<store, nextID, ops, marked, kept, loose>>

\* LookupIntentMsgEx::lock once the parent is locked for reading: look the name
\* up and lock the entry (0 stands for the empty id of a name that is not there).
\* A directory whose id is smaller than the parent's goes before the parent,
\* which is released and locked again; an open skips that.
LookupChild(t) ==
    LET u == th[t]
        dir == u.q.at[1]
        child == At(Primary, u.q.at) IN
    /\ HasFirst(t) /\ u.q.op \in {"Lookup", "Open"}
    /\ IF u.q.op = "Lookup" /\ child \in Dirs /\ child < dir
       THEN th' = [th EXCEPT ![t].pc = "second", ![t].held = {},
                             ![t].todo = <<R(child), R(dir)>>]
       ELSE Second(t, IF u.q.op = "Open" THEN <<W(child)>> ELSE <<R(child)>>)
    /\ UNCHANGED <<store, nextID, ops, marked, kept, loose>>

\* MovingFileInsertMsgEx::lock once the directory and the name are locked: the
\* file that comes and the file it replaces, in the order of ids.
InsertFiles(t) ==
    LET u == th[t] IN
    /\ HasFirst(t) /\ u.q.op = "Insert"
    /\ Second(t, IF u.q.to[1] \in Primary.live
                 THEN WriteAll({u.id} \cup ({At(Primary, u.q.to)} \ (Dirs \cup {0})))
                 ELSE <<>>)
    /\ UNCHANGED <<store, nextID, ops, marked, kept, loose>>

HasLocks(t) ==
    /\ th[t].todo = <<>>
    /\ th[t].pc = "second" \/ (th[t].pc = "first" /\ ~TwoStages(th[t]))

-----------------------------------------------------------------------------
(* What an operation makes of a replica's store s: the set of its results,   *)
(* empty if the operation fails and changes nothing.                         *)

If(c, s) == {x \in {s} : c}
Put(s, p, id) == [s EXCEPT !.tree[p] = id]

MkFile(s, u) == If(u.q.at[1] \in s.live /\ At(s, u.q.at) = 0,
                   [Put(s, u.q.at, u.id) EXCEPT !.attr[u.id] = u.val])

\* UnlinkFileMsgEx::executeLocally: only the file that lock() has seen is removed.
Unlink(s, u) == If(IsFile(At(s, u.q.at)) /\ At(s, u.q.at) = u.pre, Put(s, u.q.at, 0))

SetAttr(s, u) == If(\E n \in Names : At(s, <<u.q.at[1], n>>) = u.q.id,
                    [s EXCEPT !.attr[u.q.id] = u.val])

RmDir(s, u) ==
    LET dir == At(s, u.q.at) IN
    If(/\ dir \in Dirs \cap s.live
       /\ \A n \in Names : s.tree[<<dir, n>>] = 0,
       [Put(s, u.q.at, 0) EXCEPT !.live = @ \ {dir}])

\* MetaStore::performRenameEntryInSameDir with checkRenameOverwrite: a rename to
\* the same inode does nothing, only a file may replace an entry, and only a file.
RenameInSameDir(s, u) ==
    LET from == At(s, u.q.at)
        over == At(s, u.q.to) IN
    IF from # 0 /\ from = over THEN {s}
    ELSE If(from # 0 /\ (over = 0 \/ (IsFile(over) /\ IsFile(from))),
            Put(Put(s, u.q.at, 0), u.q.to, from))

\* MovingFileInsertMsgEx and MovingDirInsertMsgEx::executeLocally for the entry
\* u.id, with the attributes that were serialised when the move began.
MoveInsert(s, u) ==
    LET over == At(s, u.q.to) IN
    IF IsFile(u.id) /\ over = u.id THEN {s}
    ELSE If(/\ u.q.to[1] \in s.live
            /\ over = 0 \/ (IsFile(over) /\ IsFile(u.id))
            /\ u.q.to[1] # u.id,
            [Put(s, u.q.to, u.id) EXCEPT !.attr[u.id] = u.val])

\* The last part of renameFile and renameDir: remove what the old name leads to
\* now (MetaStore::unlinkFile, DirInode::removeDir).
MoveRemove(s, u) ==
    LET from == At(s, u.q.at) IN
    If(IF u.q.isDir THEN from \in Dirs ELSE IsFile(from), Put(s, u.q.at, 0))

Moves(u) == u.q.op = "Rename" /\ u.q.at[1] # u.q.to[1]

Result(s, u) ==
    CASE u.q.op = "MkFile"  -> MkFile(s, u)
      [] u.q.op = "Unlink"  -> Unlink(s, u)
      [] u.q.op = "SetAttr" -> SetAttr(s, u)
      [] u.q.op = "RmDir"   -> RmDir(s, u)
      [] u.q.op = "Insert"  -> MoveInsert(s, u)
      [] u.q.op = "Rename"  -> IF Moves(u) THEN MoveRemove(s, u) ELSE RenameInSameDir(s, u)
      [] OTHER              -> {}

-----------------------------------------------------------------------------
(* The ids a move has made unreferencable on the primary (moveRemoteFileBegin), *)
(* and the directories that a rename's lock() keeps referenced.               *)

Moving == {th[t].id : t \in {u \in Threads : th[u].pc \in {"insert", "insertForward", "remove"}}}

Referenced ==
    UNION {{th[t].q.at[1], th[t].q.to[1]} :
           t \in {u \in Threads : /\ th[u].q.op = "Rename"
                                  /\ \/ th[u].pc = "first" /\ (th[u].held # {} \/ th[u].todo # <<>>)
                                     \/ th[u].pc = "second" /\ th[u].todo # <<>>}}

\* The operation fails on the primary because of what other threads do there.
Busy(u) ==
    \/ u.q.op = "SetAttr" /\ u.q.id \in Moving
    \/ u.q.op = "Rename" /\ IsFile(At(Primary, u.q.at)) /\ At(Primary, u.q.at) \in Moving
    \/ u.q.op = "RmDir" /\ At(Primary, u.q.at) \in Referenced

\* A rename without locks, and the two entries that are locked by an id read
\* before the directory was locked and not looked at again: the target of a rename
\* and the directory RmDir removes.
Unchecked(u) ==
    LET ids == CASE u.q.op = "RmDir"  -> {At(Primary, u.q.at)}
                 [] u.q.op = "Rename" -> {u.q.at[1], u.q.to[1]} \cup ({At(Primary, u.q.to)} \ Dirs)
                 [] OTHER -> {} IN
    \E id \in ids \ {0} : W(id) \notin u.held

\* The ids the operation is meant to remove.
Removes(u) ==
    LET from == At(Primary, u.q.at)
        over == At(Primary, u.q.to) IN
    CASE u.q.op \in {"Unlink", "RmDir"} -> {from}
      [] u.q.op = "Rename" -> {over} \ {from}
      [] OTHER -> {over}

Done(t) == th' = [th EXCEPT ![t] = Idle]

\* Mutant: the locks are released before the operation is forwarded.
ExecuteMutant(t) ==
    LET u == th[t]
        results == IF Busy(u) THEN {} ELSE Result(Primary, u) IN
    /\ HasLocks(t) /\ ~Moves(u)
    /\ IF results = {}
       THEN Done(t) /\ UNCHANGED <<store, kept, loose>>
       ELSE /\ \E s \in results : store' = [store EXCEPT !["primary"] = s]
            /\ th' = [th EXCEPT ![t].pc = "forward", ![t].held = {}]
            /\ kept' = (kept \ Removes(u))
                          \cup (IF u.q.op \in {"MkFile", "Insert"} THEN {u.id} ELSE {})
            /\ loose' = (loose \/ Unchecked(u))
    /\ UNCHANGED <<nextID, ops, marked>>

\* executeLocally on the primary: an operation that fails is answered at once and
\* releases its locks, one that succeeds is forwarded first (finishOperation).
Execute(t) ==
    LET u == th[t]
        results == IF Busy(u) THEN {} ELSE Result(Primary, u) IN
    /\ HasLocks(t) /\ ~Moves(u)
    /\ IF results = {}
       THEN Done(t) /\ UNCHANGED <<store, kept, loose>>
       ELSE /\ \E s \in results : store' = [store EXCEPT !["primary"] = s]
            /\ th' = [th EXCEPT ![t].pc = "forward"]
            /\ kept' = (kept \ Removes(u))
                          \cup (IF u.q.op \in {"MkFile", "Insert"} THEN {u.id} ELSE {})
            /\ loose' = (loose \/ Unchecked(u))
    /\ UNCHANGED <<nextID, ops, marked>>

\* renameFile and renameDir: the source must be what the client took it for; it is
\* serialised and, if it is a file, can no longer be referenced.
MoveBegin(t) ==
    LET u == th[t]
        from == At(Primary, u.q.at) IN
    /\ HasLocks(t) /\ Moves(u)
    /\ IF Busy(u) \/ ~(IF u.q.isDir THEN from \in Dirs ELSE IsFile(from))
       THEN Done(t) /\ UNCHANGED loose
       ELSE /\ th' = [th EXCEPT ![t].pc = "insert", ![t].id = from,
                                ![t].val = Primary.attr[from]]
            /\ loose' = (loose \/ Unchecked(u))
    /\ UNCHANGED <<store, nextID, ops, marked, kept>>

\* remoteFileInsertAndUnlink, remoteDirInsert: this group executes the insert
\* itself, without locks (isLocallyGenerated), and forwards it.
\* Mutant: the source is removed even if it could not be inserted.
MoveHereMutant(t) ==
    LET u == th[t]
        results == MoveInsert(Primary, u) IN
    /\ u.pc = "insert" /\ u.q.to[1] \in Dirs
    /\ IF results = {}
       THEN th' = [th EXCEPT ![t].pc = "remove"] /\ UNCHANGED <<store, kept>>
       ELSE /\ \E s \in results : store' = [store EXCEPT !["primary"] = s]
            /\ th' = [th EXCEPT ![t].pc = "insertForward"]
            /\ kept' = kept \ Removes(u)
    /\ UNCHANGED <<nextID, ops, marked, loose>>

MoveHere(t) ==
    LET u == th[t]
        results == MoveInsert(Primary, u) IN
    /\ u.pc = "insert" /\ u.q.to[1] \in Dirs
    /\ IF results = {}
       THEN Done(t) /\ UNCHANGED <<store, kept>>
       ELSE /\ \E s \in results : store' = [store EXCEPT !["primary"] = s]
            /\ th' = [th EXCEPT ![t].pc = "insertForward"]
            /\ kept' = kept \ Removes(u)
    /\ UNCHANGED <<nextID, ops, marked, loose>>

\* The target directory belongs to another group, which accepts the entry or not.
MoveAway(t) ==
    LET u == th[t] IN
    /\ u.pc = "insert" /\ u.q.to[1] \notin Dirs
    /\ \/ /\ th' = [th EXCEPT ![t].pc = "remove"]
          /\ kept' = kept \ {u.id}
       \/ Done(t) /\ UNCHANGED kept
    /\ UNCHANGED <<store, nextID, ops, marked, loose>>

\* sendToSecondary: a secondary that is not good is left out, one whose result is
\* not success is set to needs-resync.
ToSecondary(results) ==
    IF marked \/ results = {}
    THEN marked' = TRUE /\ UNCHANGED store
    ELSE /\ \E s \in results : store' = [store EXCEPT !["secondary"] = s]
         /\ UNCHANGED marked

MoveForward(t) ==
    /\ th[t].pc = "insertForward"
    /\ ToSecondary(MoveInsert(store["secondary"], th[t]))
    /\ th' = [th EXCEPT ![t].pc = "remove"]
    /\ UNCHANGED <<nextID, ops, kept, loose>>

\* The entry has been inserted: remove the source.  An error here fails the rename
\* of a directory; for a file it is only logged.
MoveFinish(t) ==
    LET u == th[t]
        results == MoveRemove(Primary, u) IN
    /\ u.pc = "remove"
    /\ IF results = {} /\ u.q.isDir THEN Done(t) ELSE th' = [th EXCEPT ![t].pc = "forward"]
    /\ IF results = {} THEN UNCHANGED store
       ELSE \E s \in results : store' = [store EXCEPT !["primary"] = s]
    /\ UNCHANGED <<nextID, ops, marked, kept, loose>>

Forward(t) ==
    /\ th[t].pc = "forward"
    /\ ToSecondary(Result(store["secondary"], th[t]))
    /\ Done(t)
    /\ UNCHANGED <<nextID, ops, kept, loose>>

Step(t) ==
    \/ Acquire(t) \/ Block(t)
    \/ RenameRecheck(t) \/ LookupChild(t) \/ InsertFiles(t)
    \/ Execute(t)
    \/ MoveBegin(t) \/ MoveHere(t) \/ MoveAway(t) \/ MoveForward(t) \/ MoveFinish(t)
    \/ Forward(t)

Next == \E t \in Threads : Begin(t) \/ Step(t)

Spec == Init /\ [][Next]_vars
\* A worker that is not blocked goes on, and a lock that stays free is granted.
FairSpec == Spec /\ \A t \in Threads : WF_vars(Step(t))

-----------------------------------------------------------------------------
(* Properties                                                                *)

\* Every value is of its type, and no thread waits for a lock it holds already
\* (the locks are not recursive).
TypeOK ==
    /\ \A r \in Replicas : /\ store[r].tree \in [Places -> 0 .. MaxID]
                           /\ store[r].live \subseteq Dirs
                           /\ store[r].attr \in [Ids -> 0 .. MaxOps]
    /\ \A t \in Threads :
        /\ th[t].pc \in {"idle", "first", "second", "insert", "insertForward", "remove", "forward"}
        /\ th[t].todo # <<>> => \A h \in th[t].held : h.key # Head(th[t].todo).key
    /\ nextID \in 1 .. MaxID + 1 /\ ops \in 0 .. MaxOps
    /\ marked \in BOOLEAN /\ loose \in BOOLEAN
    /\ kept \subseteq Ids

Settled == \A t \in Threads : th[t].pc \in {"idle", "first", "second"}

\* The two replicas are equal whenever no operation is between its execution and
\* its forwarding, although the secondary takes no lock: two operations whose
\* order matters hold conflicting locks until the secondary has answered.  Nor is
\* the secondary ever set to needs-resync because it failed in what the primary
\* succeeded in.  An operation that did not have its entries locked ends both.
ReplicasAgree ==
    \/ loose
    \/ ~marked /\ (Settled => store["primary"] = store["secondary"])

Copies(id) == Cardinality({p \in Places : p[1] \in Primary.live /\ Primary.tree[p] = id})

\* No file or directory is lost, duplicated or left behind by renames, unlinks and
\* creations that run at the same time on the same names, as long as renames and
\* rmdirs have locked the entries they find: outside a move exactly one name leads to
\* every entry that was not meant to be removed.  All variables are of their types, and
\* no thread waits for a lock of its own.
EntriesAreKept ==
    /\ TypeOK
    /\ ~loose => \A id \in Ids \ Moving : Copies(id) = IF id \in kept THEN 1 ELSE 0

\* Every request ends: threads that wait for each other's locks do not exist.
OperationsEnd == \A t \in Threads : th[t].pc # "idle" ~> th[t].pc = "idle"
=============================================================================
