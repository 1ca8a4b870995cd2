----------------------------- MODULE MCGgmlBridge -----------------------------
(* GgmlBridge for TLC: addresses, contexts and threads are interchangeable. *)
EXTENDS GgmlBridge, TLC

NameSymmetry == Permutations(Addrs) \cup Permutations(Contexts) \cup Permutations(Threads)
=============================================================================
