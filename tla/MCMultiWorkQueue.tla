-------------------------- MODULE MCMultiWorkQueue --------------------------
(* A small instance of MultiWorkQueue. *)
EXTENDS MultiWorkQueue

CONSTANTS direct1, indirect1, indirect2

MCDirectWorkers == {direct1}
MCIndirectWorkers == {indirect1, indirect2}
MCUsers == 1 .. 3
=============================================================================
