----------------------- MODULE BuddyGroupStateProofs -----------------------
(***************************************************************************)
(* Proofs about BuddyGroupState, for any numbers of crashes, lost messages *)
(* and missed operations: a secondary that misses operations is known to   *)
(* the management daemon or noted in the needs-resync file of the primary  *)
(* (StaleIsKnown), and the target of a resync is not good for the daemon   *)
(* while the resync runs (ResyncTargetIsBad).                              *)
(*                                                                         *)
(* The theorems leave out three races for which they are false: a resync   *)
(* that ends with errors but clears the file, one that is started from     *)
(* states that have become old, and one that is started before the         *)
(* message of the file was delivered.                                      *)
(***************************************************************************)
EXTENDS BuddyGroupState, FiniteSetTheorems, TLAPS

\* The races that do no harm to the two invariants.
NoHarmfulRace == Races \subseteq {"half report"}

\* Only the server that the management daemon calls the primary acts as one, and a resync
\* is its work: a primary that was replaced learns of it before it does anything.
OnePrimary ==
    \A s \in Servers :
        /\ up[s] /\ map[s] = s => primary = s
        /\ job[s] # "none" => up[s] /\ map[s] = s

\* A message of the needs-resync file that was not acknowledged will be sent again, and
\* only by a server that knows it is the primary.
NotesAreSent ==
    /\ \A s \in Servers : up[s] /\ file[s].unacked => timer[s]
    /\ file[primary].unacked => map[primary] = primary \/ ~up[primary]

\* What the file of the primary says of its buddy.
FileIsTrue ==
    /\ file[primary].unacked /\ ~file[primary].required => ~stale[Buddy(primary)]
    /\ file[primary].required /\ ~file[primary].unacked => cons[Buddy(primary)] # "GOOD"

\* A resync runs with its message delivered; once it makes its reports the buddy has
\* everything, and no mark that is older than the resync remains in the file.
JobIsTrue ==
    \A s \in Servers :
        /\ job[s] \in {"running", "clear"} => ~file[s].unacked
        /\ job[s] = "running" => cons[Buddy(s)] # "GOOD"
        /\ job[s] \in {"clear", "buddy", "mgmtd"} => result[s] = "success" /\ ~stale[Buddy(s)]
        /\ job[s] \in {"buddy", "mgmtd"} => ~file[s].required

\* A state update never makes a server good for the management daemon.
OnlyBuddyHeals == \A s \in Servers : syncer[s].new = "GOOD" => syncer[s].old = "GOOD"

\* The inductive invariant.
IInv ==
    /\ StaleIsKnown
    /\ OnePrimary
    /\ NotesAreSent
    /\ FileIsTrue
    /\ JobIsTrue
    /\ OnlyBuddyHeals

-----------------------------------------------------------------------------
\* The two servers are each other's buddy.
LEMMA BuddyIs ==
    ASSUME NEW s \in Servers
    PROVE  /\ Buddy(s) \in Servers /\ Buddy(s) # s /\ Buddy(Buddy(s)) = s
           /\ \A t \in Servers : t = s \/ t = Buddy(s)
<1>1. IsFiniteSet(Servers \ {s}) /\ Cardinality(Servers \ {s}) = 1
  BY ServersAssumption, FS_RemoveElement
<1>2. PICK b : b \in Servers \ {s}
  BY <1>1, FS_EmptySet
<1>3. IsFiniteSet((Servers \ {s}) \ {b}) /\ Cardinality((Servers \ {s}) \ {b}) = 0
  BY <1>1, <1>2, FS_RemoveElement
<1>4. (Servers \ {s}) \ {b} = {}
  BY <1>3, FS_EmptySet
<1>5. \A t \in Servers : t = s \/ t = b
  BY <1>4
<1>6. Buddy(s) = b
  BY <1>2, <1>5 DEF Buddy
<1>7. Buddy(b) = s
  BY <1>2, <1>5 DEF Buddy
<1> QED BY <1>2, <1>5, <1>6, <1>7

\* A file and a message of it.
Notes == [required : BOOLEAN, unacked : BOOLEAN]

\* What setBuddyNeedsResyncComm does with the file and at the management daemon: the
\* message is dropped by a server that is not the primary, is stored by the management
\* daemon, or stays in the file to be sent again.
NoteSent(s, n) ==
    /\ \A t \in Servers : t # s => file'[t] = file[t] /\ timer'[t] = timer[t]
    /\ cons'[s] = cons[s]
    /\ \/ /\ map[s] # s \/ primary # s
          /\ file'[s].required = FALSE /\ file'[s].unacked = FALSE
          /\ cons' = cons
       \/ /\ map[s] = s /\ primary = s
          /\ file'[s].required = n.required
          /\ n.required => cons'[Buddy(s)] = "NEEDS_RESYNC"
          /\ file'[s].unacked = FALSE \/ (file'[s].unacked = n.unacked /\ timer'[s] = TRUE)
       \/ /\ map[s] = s
          /\ file'[s] = n /\ timer'[s] = TRUE
          /\ cons' = cons

\* SendNote has this effect.
LEMMA SendNoteEffect ==
    ASSUME TypeOK, NEW s \in Servers, NEW n \in Notes, SendNote(s, n)
    PROVE  /\ file' \in [Servers -> Notes] /\ timer' \in [Servers -> BOOLEAN]
           /\ cons' \in [Servers -> Consistency] /\ cuts' \in 0 .. MaxCuts
           /\ NoteSent(s, n)
<1> USE BoundsAssumption
<1>0. /\ Buddy(s) \in Servers /\ Buddy(s) # s
      /\ file \in [Servers -> Notes] /\ timer \in [Servers -> BOOLEAN]
      /\ cons \in [Servers -> Consistency] /\ cuts \in 0 .. MaxCuts
  BY BuddyIs DEF TypeOK, Notes
<1>1. \A r, u \in BOOLEAN : Note(r, u) \in Notes /\ Note(r, u).required = r /\ Note(r, u).unacked = u
  BY DEF Note, Notes
<1>2. n.required \in BOOLEAN /\ n.unacked \in BOOLEAN
  BY DEF Notes
<1>3. PICK d \in Consistency : d = IF n.required THEN "NEEDS_RESYNC" ELSE "GOOD"
  BY DEF Consistency
<1>4. CASE map[s] # s
  BY <1>0, <1>1, <1>4, Zenon DEF SendNote, NoteSent
<1>5. CASE map[s] = s /\ link[s] /\ primary = s
  <2>1. cons' = [cons EXCEPT ![Buddy(s)] = d]
    <3>1. cons' = [cons EXCEPT ![Buddy(s)] = IF n.required THEN "NEEDS_RESYNC" ELSE "GOOD"]
      BY <1>5, Zenon DEF SendNote
    <3> QED BY <1>3, <3>1
  <2>2. CASE file' = [file EXCEPT ![s] = Note(n.required, FALSE)] /\ timer' = [timer EXCEPT ![s] = FALSE] /\ cuts' = cuts
    BY <1>0, <1>1, <1>2, <1>3, <1>5, <2>1, <2>2, Zenon DEF NoteSent
  <2>3. CASE file' = [file EXCEPT ![s] = n] /\ timer' = [timer EXCEPT ![s] = TRUE] /\ cuts < MaxCuts /\ cuts' = cuts + 1
    BY <1>0, <1>1, <1>2, <1>3, <1>5, <2>1, <2>3 DEF NoteSent
  <2> QED BY <1>5, <2>2, <2>3, Zenon DEF SendNote
<1>6. CASE map[s] = s /\ link[s] /\ primary # s
  BY <1>0, <1>1, <1>6, Zenon DEF SendNote, NoteSent
<1>7. CASE map[s] = s /\ ~link[s]
  BY <1>0, <1>1, <1>7, Zenon DEF SendNote, NoteSent
<1> QED BY <1>4, <1>5, <1>6, <1>7

-----------------------------------------------------------------------------
\* The group starts with two good servers.
THEOREM InitInv == Init => IInv
<1> SUFFICES ASSUME Init PROVE IInv
  OBVIOUS
<1> USE ServersAssumption, BoundsAssumption
<1>1. Buddy(FirstPrimary) \in Servers
  BY BuddyIs
<1>2. TypeOK
  BY DEF Init, TypeOK, Consistency, Note, Idle
<1>3. StaleIsKnown
  BY <1>1, <1>2 DEF Init, StaleIsKnown
<1>4. OnePrimary /\ NotesAreSent /\ FileIsTrue /\ JobIsTrue /\ OnlyBuddyHeals
  BY <1>1, BuddyIs DEF Init, OnePrimary, NotesAreSent, FileIsTrue, JobIsTrue, OnlyBuddyHeals, Note, Idle
<1> QED BY <1>3, <1>4 DEF IInv

\* The two servers, the primary first, and what is known of the one that acts.
TwoServers ==
    /\ TypeOK /\ primary \in Servers /\ Buddy(primary) \in Servers
    /\ Buddy(primary) # primary /\ Buddy(Buddy(primary)) = primary
    /\ \A t \in Servers : t = primary \/ t = Buddy(primary)
    /\ \A t \in Servers : job[t] # "none" => t = primary
    /\ \A t \in Servers : map[t] = t /\ up[t] => t = primary

\* The facts that the proofs below start from.
LEMMA Facts ==
    ASSUME IInv
    PROVE  /\ TwoServers
           /\ StaleIsKnown /\ OnePrimary /\ NotesAreSent /\ FileIsTrue /\ JobIsTrue /\ OnlyBuddyHeals
BY BuddyIs, Zenon DEF IInv, StaleIsKnown, TypeOK, OnePrimary, TwoServers

\* The timer sends the message of the file again; what the file says is true.
LEMMA RetryNoteInv == IInv /\ (\E s \in Servers : RetryNote(s)) => IInv'
<1> SUFFICES ASSUME IInv, NEW s \in Servers, RetryNote(s) PROVE IInv'
  OBVIOUS
<1>0. TwoServers
  BY Facts
<1>1. StaleIsKnown /\ OnePrimary /\ NotesAreSent /\ FileIsTrue /\ JobIsTrue /\ OnlyBuddyHeals
  BY Facts
<1>2. up[s] /\ timer[s] /\ UNCHANGED <<primary, network, own, resync, stale, crashes, misses>>
  BY DEF RetryNote
<1>3. CASE ~file[s].unacked
  <2>1. timer' = [timer EXCEPT ![s] = FALSE] /\ UNCHANGED <<file, cons, cuts>>
    BY <1>3 DEF RetryNote
  <2>2. TypeOK'
    BY <1>0, <1>2, <2>1 DEF TwoServers, TypeOK, network, own, resync
  <2>3. NotesAreSent'
    BY <1>0, <1>1, <1>2, <1>3, <2>1 DEF TwoServers, NotesAreSent, TypeOK, network, own
  <2> QED BY <1>1, <1>2, <2>1, <2>2, <2>3, Zenon
          DEF IInv, StaleIsKnown, OnePrimary, FileIsTrue, JobIsTrue, OnlyBuddyHeals, network, own, resync
<1>4. CASE file[s].unacked
  <2>1. SendNote(s, file[s]) /\ file[s] \in Notes
    BY <1>0, <1>4 DEF TwoServers, RetryNote, TypeOK, Notes
  <2>2. /\ file' \in [Servers -> Notes] /\ timer' \in [Servers -> BOOLEAN]
        /\ cons' \in [Servers -> Consistency] /\ cuts' \in 0 .. MaxCuts
        /\ NoteSent(s, file[s])
    BY <1>0, <2>1, SendNoteEffect DEF TwoServers
  <2>3. TypeOK'
    BY <1>0, <1>2, <2>2 DEF TwoServers, TypeOK, network, own, resync, Notes
  <2>4. OnePrimary' /\ OnlyBuddyHeals'
    BY <1>1, <1>2 DEF OnePrimary, OnlyBuddyHeals, network, own, resync
  <2>5. NotesAreSent'
    BY <1>0, <1>1, <1>2, <1>4, <2>2, Zenon DEF TwoServers, NoteSent, NotesAreSent, network, own
  <2>6. FileIsTrue'
    BY <1>0, <1>1, <1>2, <1>4, <2>2, Zenon
       DEF TwoServers, NoteSent, FileIsTrue, NotesAreSent, network, own
  <2>7. JobIsTrue'
    <3>1. job' = job /\ result' = result /\ stale' = stale
      BY <1>2, Zenon DEF resync
    <3>2. job[s] # "running" /\ job[s] # "clear"
      BY <1>1, <1>4, Zenon DEF JobIsTrue
    <3>3. \A t \in Servers : t # s => Buddy(t) = s
      BY BuddyIs, Zenon
    <3>4. /\ \A t \in Servers : t # s => file'[t] = file[t]
          /\ cons'[s] = cons[s]
          /\ file'[s].required => file[s].required
      BY <2>2, Zenon DEF NoteSent
    <3> QED BY <1>1, <3>1, <3>2, <3>3, <3>4, Zenon DEF JobIsTrue
  <2>8. StaleIsKnown'
    BY <1>0, <1>1, <1>2, <1>4, <2>2, <2>3, Zenon
       DEF TwoServers, NoteSent, StaleIsKnown, NotesAreSent, FileIsTrue, Note, network, own
  <2> QED BY <2>4, <2>5, <2>6, <2>7, <2>8 DEF IInv
<1> QED BY <1>3, <1>4

\* The secondary misses an operation: the primary marks it, has marked it before, or is
\* resyncing it, and then the management daemon knows.
LEMMA MissOperationInv == IInv /\ (\E s \in Servers : MissOperation(s)) => IInv'
<1> SUFFICES ASSUME IInv, NEW s \in Servers, MissOperation(s) PROVE IInv'
  OBVIOUS
<1>0. TwoServers
  BY Facts
<1>1. StaleIsKnown /\ OnePrimary /\ NotesAreSent /\ FileIsTrue /\ JobIsTrue /\ OnlyBuddyHeals
  BY Facts
<1>2. /\ up[s] /\ primary = s /\ map[s] = s /\ misses < MaxMisses /\ misses' = misses + 1
      /\ stale' = [stale EXCEPT ![Buddy(s)] = TRUE]
      /\ UNCHANGED <<primary, network, own, resync, crashes>>
  BY DEF MissOperation
<1>3. /\ stale' \in [Servers -> BOOLEAN] /\ misses' \in 0 .. MaxMisses
      /\ OnePrimary' /\ OnlyBuddyHeals'
  BY <1>0, <1>1, <1>2, BoundsAssumption
     DEF TwoServers, TypeOK, OnePrimary, OnlyBuddyHeals, network, own, resync
<1>4. ASSUME UNCHANGED <<note, cons, cuts>>,
             file[s].required \/ job[s] = "running",
             job[s] \in {"none", "running"}
      PROVE  IInv'
  <2>1. TypeOK'
    BY <1>0, <1>2, <1>3, <1>4 DEF TwoServers, TypeOK, note, network, own, resync
  <2>2. NotesAreSent' /\ JobIsTrue' /\ FileIsTrue'
    BY <1>0, <1>1, <1>2, <1>4 DEF TwoServers, NotesAreSent, JobIsTrue, FileIsTrue, note, network, own, resync
  <2>3. cons[Buddy(s)] # "GOOD" \/ file[s] = Note(TRUE, TRUE)
    BY <1>0, <1>1, <1>2, <1>4 DEF TwoServers, TypeOK, JobIsTrue, FileIsTrue, Note
  <2>4. StaleIsKnown'
    BY <1>2, <1>4, <2>1, <2>3, Zenon DEF StaleIsKnown, note
  <2> QED BY <1>3, <2>2, <2>4 DEF IInv
<1>5. CASE job[s] # "none" /\ result[s] # "success" /\ UNCHANGED <<note, cons, cuts>>
  <2>1. job[s] = "running"
    BY <1>0, <1>1, <1>5 DEF TwoServers, TypeOK, JobIsTrue
  <2> QED BY <1>4, <1>5, <2>1
<1>6. CASE job[s] = "none" /\ SetBuddyNeedsResync(s, TRUE)
  <2>1. CASE file[s].required
    BY <1>4, <1>6, <2>1 DEF SetBuddyNeedsResync
  <2>2. CASE ~file[s].required
    <3>1. PICK n \in Notes : n = Note(TRUE, TRUE)
      BY Zenon DEF Notes, Note
    <3>2. n.required = TRUE /\ n.unacked = TRUE /\ SendNote(s, n)
      BY <1>6, <2>2, <3>1 DEF SetBuddyNeedsResync, Note
    <3>3. /\ file' \in [Servers -> Notes] /\ timer' \in [Servers -> BOOLEAN]
          /\ cons' \in [Servers -> Consistency] /\ cuts' \in 0 .. MaxCuts
          /\ NoteSent(s, n)
      BY <1>0, <3>2, SendNoteEffect DEF TwoServers
    <3>4. TypeOK'
      BY <1>0, <1>2, <1>3, <3>3 DEF TwoServers, TypeOK, network, own, resync, Notes
    <3>5. NotesAreSent'
      BY <1>0, <1>1, <1>2, <3>2, <3>3 DEF TwoServers, NoteSent, NotesAreSent, network, own
    <3>6. FileIsTrue'
      BY <1>0, <1>1, <1>2, <3>2, <3>3 DEF TwoServers, NoteSent, FileIsTrue
    <3>7. JobIsTrue'
      BY <1>0, <1>1, <1>2, <1>6, <3>3 DEF TwoServers, JobIsTrue, resync
    <3>8. StaleIsKnown'
      BY <1>0, <1>2, <3>1, <3>2, <3>3, <3>4, Zenon DEF TwoServers, NoteSent, StaleIsKnown
    <3> QED BY <1>3, <3>5, <3>6, <3>7, <3>8 DEF IInv
  <2> QED BY <2>1, <2>2
<1> QED BY <1>5, <1>6, Zenon DEF MissOperation

-----------------------------------------------------------------------------
\* Steps of a state update that change neither the management daemon nor a resync.
LEMMA SyncerQuietInv ==
    ASSUME IInv, NEW s \in Servers,
           DownloadStates(s) \/ DownloadFails(s) \/ PublishFails(s) \/ SetState(s)
    PROVE  IInv'
<1>0. TwoServers
  BY Facts
<1>1. StaleIsKnown /\ OnePrimary /\ NotesAreSent /\ FileIsTrue /\ JobIsTrue /\ OnlyBuddyHeals
  BY Facts
<1>2. UNCHANGED <<mgmtd, network, note, resync, stale, counters>>
  BY DEF DownloadStates, DownloadFails, PublishFails, SetState
<1>3. map' = map \/ (map' = [map EXCEPT ![s] = primary] /\ up[s])
  BY DEF DownloadStates, DownloadFails, PublishFails, SetState
<1>4. /\ syncer' \in [Servers -> [pc : {"idle", "publish", "set"}, old : Consistency, new : Consistency]]
      /\ OnlyBuddyHeals'
  <2>1. CASE DownloadStates(s)
    <3>1. PICK d \in Consistency : d = DecideResync(s)
      BY DEF DecideResync, Consistency
    <3>2. d = "GOOD" => cons[s] = "GOOD"
      BY <3>1 DEF DecideResync
    <3>3. syncer' = [syncer EXCEPT ![s] = [pc |-> "publish", old |-> cons[s], new |-> d]]
      BY <2>1, <3>1, Zenon DEF DownloadStates
    <3> QED BY <1>0, <1>1, <3>2, <3>3 DEF TwoServers, TypeOK, OnlyBuddyHeals
  <2>2. CASE DownloadFails(s) \/ PublishFails(s)
    <3>1. PICK pc \in {"idle", "publish", "set"} : syncer' = [syncer EXCEPT ![s].pc = pc]
      BY <2>2 DEF DownloadFails, PublishFails
    <3>2. syncer \in [Servers -> [pc : {"idle", "publish", "set"}, old : Consistency, new : Consistency]]
      BY <1>0 DEF TwoServers, TypeOK
    <3>3. syncer' \in [Servers -> [pc : {"idle", "publish", "set"}, old : Consistency, new : Consistency]]
      BY <3>1, <3>2
    <3>4. \A t \in Servers : syncer'[t].old = syncer[t].old /\ syncer'[t].new = syncer[t].new
      BY <3>1, <3>2
    <3> QED BY <1>1, <3>3, <3>4 DEF OnlyBuddyHeals
  <2>3. CASE SetState(s)
    BY <1>0, <1>1, <2>3 DEF TwoServers, TypeOK, OnlyBuddyHeals, SetState, Idle, Consistency
  <2> QED BY <2>1, <2>2, <2>3
<1>5. view' \in [Servers -> Consistency \cup {"POFFLINE"}] /\ local' \in [Servers -> Consistency]
  <2>0. /\ view \in [Servers -> Consistency \cup {"POFFLINE"}] /\ local \in [Servers -> Consistency]
        /\ cons \in [Servers -> Consistency] /\ Buddy(s) \in Servers /\ syncer[s].new \in Consistency
    BY <1>0, BuddyIs DEF TwoServers, TypeOK
  <2>1. CASE DownloadStates(s)
    <3>1. PICK v \in Consistency \cup {"POFFLINE"} : view' = [view EXCEPT ![s] = v]
      BY <2>0, <2>1, Zenon DEF DownloadStates
    <3> QED BY <2>0, <2>1, <3>1 DEF DownloadStates
  <2>2. CASE DownloadFails(s)
    BY <2>0, <2>2 DEF DownloadFails
  <2>3. CASE PublishFails(s)
    BY <2>0, <2>3 DEF PublishFails
  <2>4. CASE SetState(s)
    BY <2>0, <2>4 DEF SetState
  <2> QED BY <2>1, <2>2, <2>3, <2>4
<1>6. TypeOK'
  <2>1. map' \in [Servers -> Servers]
    BY <1>0, <1>3, Zenon DEF TwoServers, TypeOK
  <2> QED BY <1>0, <1>2, <1>4, <1>5, <2>1 DEF TwoServers, TypeOK, mgmtd, network, note, resync, counters
<1>7. OnePrimary' /\ NotesAreSent'
  BY <1>0, <1>1, <1>2, <1>3 DEF TwoServers, TypeOK, OnePrimary, NotesAreSent, mgmtd, network, note, resync
<1>8. FileIsTrue' /\ JobIsTrue'
  BY <1>1, <1>2 DEF FileIsTrue, JobIsTrue, mgmtd, note, resync
<1>9. StaleIsKnown'
  BY <1>1, <1>2, <1>6, Zenon DEF StaleIsKnown, mgmtd, note
<1> QED BY <1>4, <1>7, <1>8, <1>9 DEF IInv

\* A state update is stored by the management daemon, and the primary starts a resync.
LEMMA PublishStateInv == NoHarmfulRace /\ IInv /\ (\E s \in Servers : PublishState(s)) => IInv'
<1> SUFFICES ASSUME NoHarmfulRace, IInv, NEW s \in Servers, PublishState(s) PROVE IInv'
  OBVIOUS
<1>0. TwoServers
  BY Facts
<1>1. StaleIsKnown /\ OnePrimary /\ NotesAreSent /\ FileIsTrue /\ JobIsTrue /\ OnlyBuddyHeals
  BY Facts
<1>2. /\ up[s] /\ cons[s] = syncer[s].old
      /\ cons' = [cons EXCEPT ![s] = syncer[s].new]
      /\ syncer' = [syncer EXCEPT ![s].pc = "set"]
      /\ UNCHANGED <<primary, network, note, map, view, local, stale, counters>>
  BY DEF PublishState
<1>3. /\ cons' \in [Servers -> Consistency]
      /\ \A t \in Servers : cons'[t] # "GOOD" \/ cons'[t] = cons[t] \/ t # Buddy(primary)
      /\ \A t \in Servers : cons[t] # "GOOD" /\ t = Buddy(primary) => cons'[t] # "GOOD"
  BY <1>0, <1>1, <1>2 DEF TwoServers, TypeOK, OnlyBuddyHeals
<1>4. /\ syncer' \in [Servers -> [pc : {"idle", "publish", "set"}, old : Consistency, new : Consistency]]
      /\ OnlyBuddyHeals'
  <2>1. syncer \in [Servers -> [pc : {"idle", "publish", "set"}, old : Consistency, new : Consistency]]
    BY <1>0, Zenon DEF TwoServers, TypeOK
  <2>2. syncer' \in [Servers -> [pc : {"idle", "publish", "set"}, old : Consistency, new : Consistency]]
    BY <1>2, <2>1
  <2>3. \A t \in Servers : syncer'[t].old = syncer[t].old /\ syncer'[t].new = syncer[t].new
    BY <1>2, <2>1
  <2> QED BY <1>1, <2>2, <2>3, Zenon DEF OnlyBuddyHeals
<1>5. /\ job' \in [Servers -> {"none", "running", "clear", "buddy", "mgmtd"}]
      /\ result' \in [Servers -> {"none", "success", "errors", "failure"}]
      /\ \/ UNCHANGED resync
         \/ /\ \A t \in Servers : t # s => job'[t] = job[t] /\ result'[t] = result[t]
            /\ job'[s] = "running"
            /\ ~file[s].unacked /\ cons[Buddy(s)] = "NEEDS_RESYNC" /\ map[s] = s
  <2>1. CASE ResyncStarts(s)
    <3>1. job' = [job EXCEPT ![s] = "running"] /\ result' = [result EXCEPT ![s] = "none"]
      BY <2>1 DEF PublishState
    <3>2. ~file[s].unacked /\ cons[Buddy(s)] = "NEEDS_RESYNC" /\ map[s] = s
      BY <2>1 DEF ResyncStarts, NoHarmfulRace
    <3> QED BY <1>0, <3>1, <3>2 DEF TwoServers, TypeOK
  <2>2. CASE ~ResyncStarts(s)
    BY <1>0, <2>2 DEF TwoServers, TypeOK, PublishState, resync
  <2> QED BY <2>1, <2>2
<1>6. TypeOK'
  BY <1>0, <1>2, <1>3, <1>4, <1>5 DEF TwoServers, TypeOK, network, note, counters
<1>7. OnePrimary'
  BY <1>0, <1>1, <1>2, <1>5 DEF TwoServers, OnePrimary, network, resync
<1>8. NotesAreSent' /\ FileIsTrue'
  BY <1>0, <1>1, <1>2, <1>3 DEF TwoServers, NotesAreSent, FileIsTrue, network, note
<1>9. JobIsTrue'
  BY <1>0, <1>1, <1>2, <1>3, <1>5 DEF TwoServers, JobIsTrue, resync, note
<1>10. StaleIsKnown'
  BY <1>0, <1>1, <1>2, <1>3, <1>6, Zenon DEF TwoServers, StaleIsKnown, note
<1> QED BY <1>4, <1>7, <1>8, <1>9, <1>10 DEF IInv

-----------------------------------------------------------------------------
\* The resync ends: without errors, the buddy has everything.
LEMMA JobEndsInv ==
    ASSUME NoHarmfulRace, IInv, NEW s \in Servers, NEW r \in {"success", "errors"}, JobEnds(s, r)
    PROVE  IInv'
<1>0. TwoServers
  BY Facts
<1>1. StaleIsKnown /\ OnePrimary /\ NotesAreSent /\ FileIsTrue /\ JobIsTrue /\ OnlyBuddyHeals
  BY Facts
<1>2. r = "success"
  BY DEF JobEnds, NoHarmfulRace
<1>3. /\ job[s] = "running" /\ stale' = [stale EXCEPT ![Buddy(s)] = FALSE]
      /\ result' = [result EXCEPT ![s] = "success"] /\ job' = [job EXCEPT ![s] = "clear"]
      /\ UNCHANGED <<mgmtd, network, note, own, counters>>
  BY <1>2 DEF JobEnds
<1>4. s = primary
  BY <1>0, <1>3 DEF TwoServers
<1>5. TypeOK'
  BY <1>0, <1>3, Zenon DEF TwoServers, TypeOK, mgmtd, network, note, own, counters
<1>6. OnePrimary' /\ NotesAreSent' /\ OnlyBuddyHeals'
  BY <1>0, <1>1, <1>3 DEF TwoServers, TypeOK, OnePrimary, NotesAreSent, OnlyBuddyHeals, mgmtd, network, note, own
<1>7. FileIsTrue'
  BY <1>0, <1>1, <1>3 DEF TwoServers, TypeOK, FileIsTrue, mgmtd, note
<1>8. JobIsTrue'
  BY <1>0, <1>1, <1>3, <1>4 DEF TwoServers, TypeOK, JobIsTrue, mgmtd, note
<1>9. StaleIsKnown'
  <2>1. ~stale'[Buddy(primary)] /\ primary' = primary
    BY <1>0, <1>3, <1>4 DEF TwoServers, TypeOK, mgmtd
  <2> QED BY <1>5, <2>1, Zenon DEF StaleIsKnown
<1> QED BY <1>6, <1>7, <1>8, <1>9 DEF IInv

\* The resync cannot start; the mark stays.
LEMMA JobFailsInv ==
    ASSUME IInv, NEW s \in Servers, JobFails(s)
    PROVE  IInv'
<1>0. TwoServers
  BY Facts
<1>1. StaleIsKnown /\ OnePrimary /\ NotesAreSent /\ FileIsTrue /\ JobIsTrue /\ OnlyBuddyHeals
  BY Facts
<1>2. /\ cuts < MaxCuts /\ cuts' = cuts + 1
      /\ result' = [result EXCEPT ![s] = "failure"] /\ job' = [job EXCEPT ![s] = "none"]
      /\ UNCHANGED <<mgmtd, network, note, own, stale, crashes, misses>>
  BY DEF JobFails
<1>3. TypeOK'
  <2>1. /\ job \in [Servers -> {"none", "running", "clear", "buddy", "mgmtd"}]
        /\ result \in [Servers -> {"none", "success", "errors", "failure"}]
        /\ cuts \in 0..MaxCuts
    BY <1>0, Zenon DEF TwoServers, TypeOK
  <2>2. /\ job' \in [Servers -> {"none", "running", "clear", "buddy", "mgmtd"}]
        /\ result' \in [Servers -> {"none", "success", "errors", "failure"}]
        /\ cuts' \in 0..MaxCuts
    BY <1>2, <2>1, BoundsAssumption
  <2> QED BY <1>0, <1>2, <2>2, Zenon DEF TwoServers, TypeOK, mgmtd, network, note, own
<1>4. OnePrimary' /\ NotesAreSent' /\ OnlyBuddyHeals' /\ FileIsTrue'
  BY <1>0, <1>1, <1>2
     DEF TwoServers, TypeOK, OnePrimary, NotesAreSent, OnlyBuddyHeals, FileIsTrue, mgmtd, network, note, own
<1>5. JobIsTrue'
  <2>1. /\ job'[s] = "none"
        /\ \A t \in Servers : t # s => job'[t] = job[t] /\ result'[t] = result[t]
    BY <1>0, <1>2 DEF TwoServers, TypeOK
  <2> QED BY <1>1, <1>2, <2>1, Zenon DEF JobIsTrue, mgmtd, note
<1>6. StaleIsKnown'
  BY <1>1, <1>2, <1>3, Zenon DEF StaleIsKnown, mgmtd, note
<1> QED BY <1>4, <1>5, <1>6 DEF IInv

\* The file is reset; a message that is lost says what is true, that the buddy is good.
LEMMA JobClearsNoteInv ==
    ASSUME IInv, NEW s \in Servers, JobClearsNote(s)
    PROVE  IInv'
<1>0. TwoServers
  BY Facts
<1>1. StaleIsKnown /\ OnePrimary /\ NotesAreSent /\ FileIsTrue /\ JobIsTrue /\ OnlyBuddyHeals
  BY Facts
<1>2. /\ job[s] = "clear" /\ job' = [job EXCEPT ![s] = "buddy"]
      /\ UNCHANGED <<primary, network, own, result, stale, crashes, misses>>
  BY DEF JobClearsNote
<1>3. s = primary /\ map[s] = s /\ ~stale[Buddy(s)] /\ result[s] = "success"
  <2>1. job[s] # "none"
    BY <1>2
  <2>2. s = primary
    BY <1>0, <2>1, Zenon DEF TwoServers
  <2> QED BY <1>1, <1>2, <2>1, <2>2, Zenon DEF OnePrimary, JobIsTrue
<1>4. PICK n \in Notes : n = Note(FALSE, TRUE)
  BY Zenon DEF Notes, Note
<1>5. n.required = FALSE /\ n.unacked = TRUE /\ SendNote(s, n)
  BY <1>4 DEF JobClearsNote, SetBuddyNeedsResync, Note
<1>6. /\ file' \in [Servers -> Notes] /\ timer' \in [Servers -> BOOLEAN]
      /\ cons' \in [Servers -> Consistency] /\ cuts' \in 0 .. MaxCuts
      /\ NoteSent(s, n)
  BY <1>0, <1>5, SendNoteEffect DEF TwoServers
<1>7. TypeOK'
  BY <1>0, <1>2, <1>6, Zenon DEF TwoServers, TypeOK, network, own, Notes
<1>8. OnePrimary' /\ OnlyBuddyHeals'
  BY <1>0, <1>1, <1>2 DEF TwoServers, TypeOK, OnePrimary, OnlyBuddyHeals, network, own
<1>9. NotesAreSent'
  BY <1>0, <1>1, <1>2, <1>3, <1>5, <1>6, Zenon DEF TwoServers, NoteSent, NotesAreSent, network, own
<1>10. FileIsTrue'
  BY <1>0, <1>2, <1>3, <1>5, <1>6, Zenon DEF TwoServers, NoteSent, FileIsTrue
<1>11. JobIsTrue'
  BY <1>0, <1>1, <1>2, <1>3, <1>5, <1>6 DEF TwoServers, TypeOK, NoteSent, JobIsTrue
<1>12. StaleIsKnown'
  BY <1>2, <1>3, <1>7, Zenon DEF StaleIsKnown
<1> QED BY <1>8, <1>9, <1>10, <1>11, <1>12 DEF IInv

\* The reports to the buddy and to the management daemon: the buddy is good.
LEMMA JobReportsInv ==
    ASSUME IInv, NEW s \in Servers, JobInformsBuddy(s) \/ JobInformsMgmtd(s)
    PROVE  IInv'
<1>0. TwoServers
  BY Facts
<1>1. StaleIsKnown /\ OnePrimary /\ NotesAreSent /\ FileIsTrue /\ JobIsTrue /\ OnlyBuddyHeals
  BY Facts
<1>2. /\ job[s] \in {"buddy", "mgmtd"} /\ job' = [job EXCEPT ![s] = IF @ = "buddy" THEN "mgmtd" ELSE "none"]
      /\ UNCHANGED <<primary, network, note, map, view, syncer, result, stale, counters>>
  BY DEF JobInformsBuddy, JobInformsMgmtd, own, mgmtd
<1>3. s = primary /\ ~stale[Buddy(s)] /\ result[s] = "success" /\ ~file[s].required /\ Buddy(s) \in Servers
  BY <1>0, <1>1, <1>2 DEF TwoServers, JobIsTrue
<1>4. local' = local \/ local' = [local EXCEPT ![Buddy(s)] = "GOOD"]
  BY <1>3 DEF JobInformsBuddy, JobInformsMgmtd, NewBuddyState, own
<1>5. cons' = cons \/ cons' = [cons EXCEPT ![Buddy(s)] = "GOOD"]
  BY <1>3 DEF JobInformsBuddy, JobInformsMgmtd, NewBuddyState, mgmtd
<1>6. /\ local' \in [Servers -> Consistency] /\ cons' \in [Servers -> Consistency]
      /\ job' \in [Servers -> {"none", "running", "clear", "buddy", "mgmtd"}]
      /\ \A t \in Servers : t # s => job'[t] = job[t]
      /\ job'[s] \in {"mgmtd", "none"}
  <2>1. PICK j \in {"mgmtd", "none"} : job' = [job EXCEPT ![s] = j]
    BY <1>2, Zenon
  <2>2. /\ job' \in [Servers -> {"none", "running", "clear", "buddy", "mgmtd"}]
        /\ \A t \in Servers : t # s => job'[t] = job[t]
        /\ job'[s] \in {"mgmtd", "none"}
    BY <1>0, <2>1 DEF TwoServers, TypeOK
  <2>3. local \in [Servers -> Consistency] /\ cons \in [Servers -> Consistency]
    BY <1>0, Zenon DEF TwoServers, TypeOK
  <2>4. local' \in [Servers -> Consistency] /\ cons' \in [Servers -> Consistency]
    BY <1>4, <1>5, <2>3 DEF Consistency
  <2> QED BY <2>2, <2>4
<1>7. TypeOK'
  BY <1>0, <1>2, <1>6, Zenon DEF TwoServers, TypeOK, network, note, counters
<1>8. OnePrimary' /\ OnlyBuddyHeals' /\ NotesAreSent'
  BY <1>0, <1>1, <1>2, <1>6 DEF TwoServers, OnePrimary, OnlyBuddyHeals, NotesAreSent, network, note
<1>9. FileIsTrue'
  BY <1>1, <1>2, <1>3 DEF FileIsTrue, note
<1>10. JobIsTrue'
  BY <1>0, <1>1, <1>2, <1>3, <1>6, Zenon DEF TwoServers, JobIsTrue, note
<1>11. StaleIsKnown'
  BY <1>2, <1>3, <1>7, Zenon DEF StaleIsKnown
<1> QED BY <1>8, <1>9, <1>10, <1>11 DEF IInv

-----------------------------------------------------------------------------
\* A server crashes, with its timer, state update and resync.
LEMMA CrashInv ==
    ASSUME IInv, NEW s \in Servers, Crash(s)
    PROVE  IInv'
<1>0. TwoServers
  BY Facts
<1>1. StaleIsKnown /\ OnePrimary /\ NotesAreSent /\ FileIsTrue /\ JobIsTrue /\ OnlyBuddyHeals
  BY Facts
<1>2. /\ up' = [up EXCEPT ![s] = FALSE] /\ timer' = [timer EXCEPT ![s] = FALSE]
      /\ syncer' = [syncer EXCEPT ![s] = Idle]
      /\ job' = [job EXCEPT ![s] = "none"] /\ result' = [result EXCEPT ![s] = "none"]
      /\ crashes < MaxCrashes /\ crashes' = crashes + 1
      /\ UNCHANGED <<mgmtd, link, file, map, view, local, stale, cuts, misses>>
  BY DEF Crash
<1>3. TypeOK'
  BY <1>0, <1>2, BoundsAssumption DEF TwoServers, TypeOK, mgmtd, Idle, Consistency
<1>4. OnePrimary' /\ NotesAreSent'
  BY <1>0, <1>1, <1>2 DEF TwoServers, TypeOK, OnePrimary, NotesAreSent, mgmtd
<1>5. FileIsTrue' /\ OnlyBuddyHeals'
  BY <1>0, <1>1, <1>2 DEF TwoServers, TypeOK, FileIsTrue, OnlyBuddyHeals, mgmtd, Idle
<1>6. JobIsTrue'
  BY <1>0, <1>1, <1>2 DEF TwoServers, TypeOK, JobIsTrue, mgmtd
<1>7. StaleIsKnown'
  BY <1>1, <1>2, <1>3, Zenon DEF StaleIsKnown, mgmtd
<1> QED BY <1>4, <1>5, <1>6, <1>7 DEF IInv

\* A server starts as a secondary that needs a resync, and sends the message of its file.
LEMMA RestartInv ==
    ASSUME IInv, NEW s \in Servers, Restart(s)
    PROVE  IInv'
<1>0. TwoServers
  BY Facts
<1>1. StaleIsKnown /\ OnePrimary /\ NotesAreSent /\ FileIsTrue /\ JobIsTrue /\ OnlyBuddyHeals
  BY Facts
<1>2. /\ ~up[s] /\ s # primary
      /\ up' = [up EXCEPT ![s] = TRUE] /\ local' = [local EXCEPT ![s] = "NEEDS_RESYNC"]
      /\ map' = [map EXCEPT ![s] = primary] /\ view' = [view EXCEPT ![s] = cons[Buddy(s)]]
      /\ timer' = [timer EXCEPT ![s] = file[s].unacked]
      /\ UNCHANGED <<mgmtd, link, file, syncer, resync, stale, counters>>
  BY DEF Restart
<1>3. PICK u \in BOOLEAN : u = file[s].unacked
  BY <1>0 DEF TwoServers, TypeOK
<1>4. timer' = [timer EXCEPT ![s] = u]
  BY <1>2, <1>3
<1>5. TypeOK'
  BY <1>0, <1>2, <1>4, BuddyIs DEF TwoServers, TypeOK, mgmtd, resync, counters, Consistency
<1>6. OnePrimary'
  BY <1>0, <1>1, <1>2 DEF TwoServers, TypeOK, OnePrimary, mgmtd, resync
<1>7. NotesAreSent'
  <2>1. primary \in Servers /\ up \in [Servers -> BOOLEAN] /\ timer \in [Servers -> BOOLEAN]
        /\ map \in [Servers -> Servers]
    BY <1>0, Zenon DEF TwoServers, TypeOK
  <2>2. /\ primary' = primary /\ file' = file /\ timer'[s] = file[s].unacked
        /\ up'[primary] = up[primary] /\ map'[primary] = map[primary]
        /\ \A t \in Servers : t # s => up'[t] = up[t] /\ timer'[t] = timer[t]
    BY <1>2, <2>1, Zenon DEF mgmtd
  <2> QED BY <1>1, <2>1, <2>2, Zenon DEF NotesAreSent
<1>8. FileIsTrue' /\ OnlyBuddyHeals' /\ JobIsTrue'
  BY <1>1, <1>2, Zenon DEF FileIsTrue, OnlyBuddyHeals, JobIsTrue, mgmtd, resync
<1>9. StaleIsKnown'
  BY <1>1, <1>2, <1>5, Zenon DEF StaleIsKnown, mgmtd
<1> QED BY <1>6, <1>7, <1>8, <1>9 DEF IInv

\* A connection is lost or comes back.
LEMMA LinkInv ==
    ASSUME IInv, NEW s \in Servers, Cut(s) \/ Mend(s)
    PROVE  IInv'
<1>0. TypeOK /\ StaleIsKnown /\ OnePrimary /\ NotesAreSent /\ FileIsTrue /\ JobIsTrue /\ OnlyBuddyHeals
  BY Facts DEF TwoServers
<1>1. UNCHANGED <<mgmtd, up, note, own, resync, stale, crashes, misses>>
  BY DEF Cut, Mend, counters
<1>2. TypeOK'
  <2>1. link' \in [Servers -> BOOLEAN] /\ cuts' \in 0 .. MaxCuts
    <3>1. CASE Cut(s)
      BY <1>0, <3>1, BoundsAssumption DEF TypeOK, Cut
    <3>2. CASE Mend(s)
      BY <1>0, <3>2 DEF TypeOK, Mend, counters
    <3> QED BY <3>1, <3>2
  <2> QED BY <1>0, <1>1, <2>1 DEF TypeOK, mgmtd, note, own, resync
<1> QED BY <1>0, <1>1, <1>2, Zenon
    DEF IInv, StaleIsKnown, OnePrimary, NotesAreSent, FileIsTrue, JobIsTrue, OnlyBuddyHeals,
        mgmtd, note, own, resync

\* The management daemon replaces the primary and marks the old one.
LEMMA FailoverInv ==
    ASSUME IInv, Failover
    PROVE  IInv'
<1>0. TwoServers
  BY Facts
<1>1. StaleIsKnown /\ OnePrimary /\ NotesAreSent /\ FileIsTrue /\ JobIsTrue /\ OnlyBuddyHeals
  BY Facts
<1>2. /\ ~timer[Buddy(primary)] /\ ~up[primary] /\ up[Buddy(primary)]
      /\ primary' = Buddy(primary) /\ cons' = [cons EXCEPT ![primary] = "NEEDS_RESYNC"]
      /\ stale' = [stale EXCEPT ![primary] = TRUE]
      /\ UNCHANGED <<network, note, own, resync, counters>>
  BY DEF Failover
<1>3. \A s \in Servers : job[s] = "none"
  BY <1>0, <1>1, <1>2 DEF TwoServers, OnePrimary
<1>4. ~file[Buddy(primary)].unacked
  BY <1>0, <1>1, <1>2 DEF TwoServers, NotesAreSent
<1>5. PICK p, b \in Servers : p = primary /\ b = Buddy(primary)
  BY <1>0 DEF TwoServers
<1>6. Buddy(b) = p /\ primary' = b /\ cons'[p] = "NEEDS_RESYNC" /\ p # b
  BY <1>0, <1>2, <1>5, Zenon DEF TwoServers, TypeOK
<1>7. TypeOK'
  BY <1>0, <1>2, Zenon DEF TwoServers, TypeOK, network, note, own, resync, counters, Consistency
<1>8. OnePrimary' /\ NotesAreSent' /\ OnlyBuddyHeals'
  BY <1>0, <1>1, <1>2, <1>3, <1>4, Zenon
     DEF TwoServers, OnePrimary, NotesAreSent, OnlyBuddyHeals, network, note, own, resync
<1>9. FileIsTrue'
  BY <1>2, <1>4, <1>5, <1>6 DEF FileIsTrue, note
<1>10. JobIsTrue'
  BY <1>2, <1>3 DEF JobIsTrue, resync
<1>11. StaleIsKnown'
  BY <1>2, <1>5, <1>6, <1>7, Zenon DEF StaleIsKnown
<1> QED BY <1>8, <1>9, <1>10, <1>11 DEF IInv

-----------------------------------------------------------------------------
\* Every step of the servers and of the management daemon keeps the invariant.
THEOREM NextInv == NoHarmfulRace /\ IInv /\ [Next]_vars => IInv'
<1> SUFFICES ASSUME NoHarmfulRace, IInv, [Next]_vars PROVE IInv'
  OBVIOUS
<1>1. CASE \E s \in Servers : RetryNote(s)
  BY <1>1, RetryNoteInv
<1>2. CASE \E s \in Servers : SyncerStep(s)
  BY <1>2, SyncerQuietInv, PublishStateInv DEF SyncerStep
<1>3. CASE \E s \in Servers : JobStep(s)
  BY <1>3, JobEndsInv, JobFailsInv, JobClearsNoteInv, JobReportsInv DEF JobStep
<1>4. CASE \E s \in Servers : MissOperation(s)
  BY <1>4, MissOperationInv
<1>5. CASE \E s \in Servers : Crash(s) \/ Restart(s) \/ Cut(s) \/ Mend(s)
  BY <1>5, CrashInv, RestartInv, LinkInv
<1>6. CASE Failover
  BY <1>6, FailoverInv, Zenon
<1>7. CASE UNCHANGED vars
  <2>1. UNCHANGED <<mgmtd, network, note, own, resync, stale, counters>>
    BY <1>7 DEF vars
  <2> QED BY <2>1, Zenon
      DEF IInv, StaleIsKnown, TypeOK, OnePrimary, NotesAreSent, FileIsTrue, JobIsTrue, OnlyBuddyHeals,
          mgmtd, network, note, own, resync, counters
<1> QED BY <1>1, <1>2, <1>3, <1>4, <1>5, <1>6, <1>7 DEF Next

\* The invariant holds throughout, if no harmful race happens.
THEOREM Invariance == ASSUME NoHarmfulRace PROVE Spec => []IInv
<1>1. IInv /\ [Next]_vars => IInv'
  BY NextInv
<1> QED BY <1>1, InitInv, PTL DEF Spec

\* A secondary that misses operations is not good for the management daemon or is about to
\* be reported, whatever crashes, messages are lost and operations are missed.
THEOREM StaleIsKnownHolds == ASSUME NoHarmfulRace PROVE Spec => []StaleIsKnown
<1>1. IInv => StaleIsKnown
  BY DEF IInv
<1> QED BY <1>1, Invariance, PTL

\* While a resync runs, its target is not good for the management daemon.
THEOREM ResyncTargetIsBadHolds == ASSUME NoHarmfulRace PROVE Spec => []ResyncTargetIsBad
<1>1. IInv => ResyncTargetIsBad
  BY DEF IInv, JobIsTrue, ResyncTargetIsBad
<1> QED BY <1>1, Invariance, PTL
=============================================================================
