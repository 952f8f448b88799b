------------------------- MODULE MCMirrorBuddyGroup -------------------------
(* MirrorBuddyGroup for TLC. *)
EXTENDS MirrorBuddyGroup
=============================================================================
