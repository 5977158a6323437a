--------------------------- MODULE MCFIFOQueueNL ---------------------------
(* FIFOQueueNL with few slots and messages, for TLC. *)
EXTENDS FIFOQueueNL, TLC

CONSTANTS m1, m2, none

MCItems == {m1, m2}
=============================================================================
