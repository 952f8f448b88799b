-------------------------- MODULE MCNodeConnPool --------------------------
(* Three users share two connections.                                       *)
EXTENDS NodeConnPool, TLC

CONSTANTS u1, u2, u3

MCUsers == {u1, u2, u3}
=============================================================================
