--------------------------- MODULE MCBuddyResync ---------------------------
(* Model values for TLC. *)
EXTENDS BuddyResync

CONSTANTS worker1, worker2, bulk1

MCWorkers == {worker1, worker2}
MCBulkSlaves == {bulk1}
=============================================================================
