------------------------- MODULE MCStorageIORouting -------------------------
(* A small instance of StorageIORouting. *)
EXTENDS StorageIORouting

CONSTANTS sock1, sock2, sock3

MCSocks == {sock1, sock2, sock3}
=============================================================================
