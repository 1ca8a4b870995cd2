------------------------------ MODULE SlotArena ------------------------------
(***************************************************************************)
(* What FractalArena promises: slots that are handed out one at a time,    *)
(* zeroed, written only on behalf of the allocation that holds them, and   *)
(* wiped when given back.  allocate() and release() look atomic.           *)
(***************************************************************************)
EXTENDS Naturals

CONSTANTS Slots, Cells, MaxBirths

VARIABLES
  births,  \* how often each slot has been allocated
  used,    \* the slots that are allocated
  bytes    \* the allocation each cell was written for, 0 for zeroed bytes

vars == <<births, used, bytes>>

Zeroes == [c \in Cells |-> 0]

Init ==
  /\ births = [s \in Slots |-> 0]
  /\ used = {}
  /\ bytes = [s \in Slots |-> Zeroes]

Allocate(s) ==
  /\ s \notin used
  /\ births[s] < MaxBirths
  /\ births' = [births EXCEPT ![s] = @ + 1]
  /\ used' = used \cup {s}
  /\ UNCHANGED bytes

Write(s, c) ==
  /\ s \in used
  /\ \E v \in {0, births[s]} : bytes' = [bytes EXCEPT ![s][c] = v]
  /\ UNCHANGED <<births, used>>

Release(s) ==
  /\ s \in used
  /\ used' = used \ {s}
  /\ bytes' = [bytes EXCEPT ![s] = Zeroes]
  /\ UNCHANGED births

Next == \E s \in Slots : Allocate(s) \/ Release(s) \/ \E c \in Cells : Write(s, c)

Spec == Init /\ [][Next]_vars
=============================================================================
