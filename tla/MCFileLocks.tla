---------------------------- MODULE MCFileLocks ----------------------------
(* Three handles, two of them of one client.                                *)
EXTENDS FileLocks

MCHandles == 1 .. 3
MCClientOf == [h \in MCHandles |-> IF h = 3 THEN 2 ELSE 1]
MCKinds == {"append", "flock", "range"}
MCRanges == {[s |-> 0, e |-> 2], [s |-> 1, e |-> 1], [s |-> 1, e |-> 2]}
=============================================================================
