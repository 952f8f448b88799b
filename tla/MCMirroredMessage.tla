------------------------- MODULE MCMirroredMessage -------------------------
(* Model values and symmetry for TLC. *)
EXTENDS MirroredMessage, TLC

CONSTANTS t1, t2, mds1, mds2, k1, k2

MCThreads == {t1, t2}
MCOne == {t1}
MCServers == {mds1, mds2}
MCKeys == {k1}
MCTwoKeys == {k1, k2}

Symmetry == Permutations(MCThreads) \cup Permutations(MCTwoKeys)
=============================================================================
