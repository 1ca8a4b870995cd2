----------------------------- MODULE BoundedFifo -----------------------------
(***************************************************************************)
(* What SPSCRingBuffer promises: a first-in first-out queue of at most     *)
(* Capacity values.  A push is refused only when the queue is full and a   *)
(* pop only when it is empty; with LateNews a refusal may also come from   *)
(* not having seen the other side's last calls yet.                        *)
(***************************************************************************)
EXTENDS Naturals, Sequences

CONSTANTS Values, Capacity, LateNews

VARIABLES
  queue,     \* the values pushed and not yet popped
  pushed,    \* how the producer's last push ended: "none", "ok", "full"
  popped     \* what the consumer's last pop returned: <<>> or <<value>>

vars == <<queue, pushed, popped>>

Init == queue = <<>> /\ pushed = "none" /\ popped = <<>>

Push(v) ==
  /\ Len(queue) < Capacity
  /\ queue' = Append(queue, v)
  /\ pushed' = "ok"
  /\ UNCHANGED popped

RefusePush ==
  /\ Len(queue) = Capacity \/ LateNews
  /\ pushed' = "full"
  /\ UNCHANGED <<queue, popped>>

Pop ==
  /\ queue # <<>>
  /\ popped' = <<Head(queue)>>
  /\ queue' = Tail(queue)
  /\ UNCHANGED pushed

RefusePop ==
  /\ queue = <<>> \/ LateNews
  /\ popped' = <<>>
  /\ UNCHANGED <<queue, pushed>>

Next == RefusePush \/ Pop \/ RefusePop \/ \E v \in Values : Push(v)

Spec == Init /\ [][Next]_vars
=============================================================================
