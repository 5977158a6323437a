--------------------------- MODULE MCMessagePath ---------------------------
(* MessagePath with a message for each way through it, for TLC: a body that *)
(* is rejected, ids that the dictionary has and one that it lacks (a        *)
(* repeated id changes nothing), a heartbeat, a type without a handler.     *)
EXTENDS MessagePath

Msg(t, w, i) == [type |-> t, well |-> w, id |-> i]
MCMessages ==
  {Msg("quote", FALSE, -1), Msg("hkStatus", TRUE, 3), Msg("hkStatus", TRUE, 7),
   Msg("hkStatus", TRUE, 6), Msg("heartbeat", TRUE, -1), Msg("other", TRUE, -1)}
MCKnownIds == {-1, 3, 7}
=============================================================================
