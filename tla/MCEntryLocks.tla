---------------------------- MODULE MCEntryLocks ----------------------------
(* Small instances of EntryLocks. *)
EXTENDS EntryLocks

CONSTANTS worker1, worker2

MCThreads == {worker1, worker2}
MCNames == {1, 2}

Req(op, at, to, id, isDir) == [op |-> op, at |-> at, to |-> to, id |-> id, isDir |-> isDir]
None == <<0, 0>>

(* Directory 1 is a subdirectory, under name 1, of directory 2; directory 3 is *)
(* another one; file 4 is in directory 2 under name 2.  Directory 9 belongs to *)
(* another group.                                                              *)
MCDirs == {1, 2, 3}
MCTree0 == [p \in MCDirs \X MCNames |->
              CASE p = <<2, 1>> -> 1
                [] p = <<2, 2>> -> 4
                [] OTHER -> 0]

MCRequests == {
    Req("MkFile", <<1, 1>>, None, 0, FALSE),
    Req("MkFile", <<2, 2>>, None, 0, FALSE),
    Req("Unlink", <<2, 2>>, None, 0, FALSE),
    Req("Unlink", <<1, 1>>, None, 0, FALSE),
    Req("SetAttr", <<2, 2>>, None, 4, FALSE),
    Req("SetAttr", <<2, 2>>, None, 5, FALSE),
    Req("RmDir", <<2, 1>>, None, 0, TRUE),
    Req("Lookup", <<2, 1>>, None, 0, FALSE),
    Req("Open", <<3, 2>>, None, 0, FALSE),
    Req("Rename", <<2, 2>>, <<2, 1>>, 0, FALSE),
    Req("Rename", <<2, 2>>, <<2, 2>>, 0, FALSE),
    Req("Rename", <<2, 2>>, <<3, 2>>, 0, FALSE),
    Req("Rename", <<3, 2>>, <<2, 2>>, 0, FALSE),
    Req("Rename", <<2, 2>>, <<3, 1>>, 0, FALSE),
    Req("Rename", <<2, 1>>, <<3, 1>>, 0, TRUE),
    Req("Rename", <<2, 2>>, <<9, 1>>, 0, FALSE),
    Req("Insert", None, <<2, 2>>, 0, FALSE)}

(* The requests of a client that opens a name of which it does not know that it *)
(* is a directory, while others move or look up that directory.                 *)
MCOpenRequests == {
    Req("Open", <<2, 1>>, None, 0, FALSE),
    Req("Lookup", <<2, 1>>, None, 0, FALSE),
    Req("MkFile", <<1, 1>>, None, 0, FALSE),
    Req("RmDir", <<2, 1>>, None, 0, TRUE),
    Req("Rename", <<2, 1>>, <<3, 1>>, 0, TRUE)}
=============================================================================
