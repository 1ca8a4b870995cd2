--------------------------- MODULE MCTieredBridge ---------------------------
(* TieredBridge for TLC: the names of slots and threads, and their         *)
(* symmetry (no definition orders them).                                   *)
EXTENDS TieredBridge, TLC

SlotSymmetry == Permutations(HotSlots) \cup Permutations(ColdSlots) \cup Permutations(Threads)
=============================================================================
