------------------------- MODULE MCBuddyGroupState -------------------------
(* Model values for TLC. *)
EXTENDS BuddyGroupState

CONSTANTS mds1, mds2

MCServers == {mds1, mds2}
=============================================================================
