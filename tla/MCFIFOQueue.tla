---------------------------- MODULE MCFIFOQueue ----------------------------
(* FIFOQueue with two consumers, for TLC. *)
EXTENDS FIFOQueue, TLC

CONSTANTS c1, c2

MCConsumers == {c1, c2}
=============================================================================
