--------------------------- MODULE MCAxiomSelector ---------------------------
(* AxiomSelector for TLC: the threads' names, and the word each thread's   *)
(* hash starts it at.                                                      *)
EXTENDS AxiomSelector, TLC

CONSTANTS t1, t2

TwoThreads == {t1, t2}

SameStart == t1 :> 0 @@ t2 :> 0
=============================================================================
