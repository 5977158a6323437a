---------------------------- MODULE MCShmStorage ----------------------------
(* ShmStorage with a table of three slots, for TLC. *)
EXTENDS ShmStorage, TLC

CONSTANTS t1, t2, none, md, zero

MCThreads == {t1, t2}
MCAllKeys == {0, 1, 2}
MCItems == {md}
MCSymmetry == Permutations(MCThreads)
=============================================================================
