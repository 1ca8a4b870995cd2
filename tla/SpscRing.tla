------------------------------- MODULE SpscRing -------------------------------
(***************************************************************************)
(* SPSCRingBuffer: one producer thread and one consumer thread, no lock.   *)
(* Each side owns one counter (tail_, head_) and keeps a cached copy of    *)
(* the other side's, refreshed only when the cached copy says the queue is *)
(* full (empty).  The value is copied in several machine steps before the  *)
(* counter is published.                                                   *)
(*                                                                         *)
(* The counters are u64 and wrap: Wrap stands for 2^64.  With StaleLoads   *)
(* an acquire load of the other side's counter may return any value it had *)
(* since this thread last read it, which is what the C++ memory model      *)
(* allows.                                                                 *)
(***************************************************************************)
EXTENDS Integers, Sequences

CONSTANTS
  Values,      \* what is sent
  Zero,        \* a value-initialised T
  Capacity,
  Wrap,        \* 2^64: the counters count modulo Wrap
  StaleLoads

(* Capacity is a power of two, so it divides 2^64 and is smaller. *)
ASSUME CapacityAssumption ==
  /\ Capacity \in Nat \ {0} /\ Wrap \in Nat
  /\ \E k \in 2 .. Wrap : Wrap = k * Capacity
ASSUME StaleAssumption == StaleLoads \in BOOLEAN

Counters == 0 .. Wrap - 1
Slots    == 0 .. Capacity - 1
Words    == {1, 2}     \* a T is copied in more than one machine step

(* u64 arithmetic, and counter & kMask *)
Diff(a, b) == IF a >= b THEN a - b ELSE a - b + Wrap
Inc(a)     == IF a + 1 = Wrap THEN 0 ELSE a + 1
Slot(a)    == a % Capacity

VARIABLES
  head,         \* head_: values popped so far
  tail,         \* tail_: values pushed so far
  cachedHead,   \* cached_head_, the producer's
  cachedTail,   \* cached_tail_, the consumer's
  buffer,       \* buffer_, word by word
  push,         \* where the producer is: step, the value, wait_push or try_push
  pop,          \* where the consumer is: step, the words copied so far
  pushed,       \* result of the last push that returned
  popped        \* result of the last pop that returned

producerVars == <<tail, cachedHead, buffer, push, pushed>>
consumerVars == <<head, cachedTail, pop, popped>>
vars == <<producerVars, consumerVars>>

Whole(v) == [w \in Words |-> v]

NoPush == [at |-> "idle", value |-> Zero, waits |-> FALSE]
NoPop  == [at |-> "idle", words |-> Whole(Zero), waits |-> FALSE]

Init ==
  /\ head = 0 /\ tail = 0 /\ cachedHead = 0 /\ cachedTail = 0
  /\ buffer = [s \in Slots |-> Whole(Zero)]
  /\ push = NoPush /\ pop = NoPop
  /\ pushed = "none" /\ popped = <<>>

(* A bug: the cached copy is never refreshed. *)
NeverRefreshed(counter, seen) == {seen}

(* The values a load of counter may return to a thread that last read seen *)
Visible(counter, seen) ==
  IF StaleLoads THEN {c \in Counters : Diff(c, seen) <= Diff(counter, seen)}
                ELSE {counter}

-----------------------------------------------------------------------------
(* Producer *)

(* A bug: off by one. *)
LooksOverfull(h) == Diff(tail, h) > Capacity

LooksFull(h) == Diff(tail, h) >= Capacity

(* The entry of try_push, and of every turn of wait_push's loop: the       *)
(* cached head decides whether head_ has to be read.                       *)
PushCall(v, waits) ==
  /\ push.at = "idle"
  /\ push' = [at |-> IF LooksFull(cachedHead) THEN "load" ELSE "copy1",
              value |-> v, waits |-> waits]
  /\ UNCHANGED <<tail, cachedHead, buffer, pushed, consumerVars>>

PushLoadHead ==
  /\ push.at = "load"
  /\ \E h \in Visible(head, cachedHead) :
       /\ cachedHead' = h
       /\ \/ ~LooksFull(h) /\ push' = [push EXCEPT !.at = "copy1"] /\ UNCHANGED pushed
          \/ LooksFull(h) /\ push.waits /\ UNCHANGED <<push, pushed>>
          \/ LooksFull(h) /\ ~push.waits /\ push' = NoPush /\ pushed' = "full"
  /\ UNCHANGED <<tail, buffer, consumerVars>>

(* A bug: tail_ is published before the whole value is copied. *)
PushCopyHalf(w, here, next) ==
  /\ push.at = here
  /\ buffer' = [buffer EXCEPT ![Slot(tail)][w] = push.value]
  /\ push' = [push EXCEPT !.at = "publish"]
  /\ UNCHANGED <<tail, cachedHead, pushed, consumerVars>>

PushCopy(w, here, next) ==
  /\ push.at = here
  /\ buffer' = [buffer EXCEPT ![Slot(tail)][w] = push.value]
  /\ push' = [push EXCEPT !.at = next]
  /\ UNCHANGED <<tail, cachedHead, pushed, consumerVars>>

PushPublish ==
  /\ push.at = "publish"
  /\ tail' = Inc(tail)
  /\ push' = NoPush
  /\ pushed' = "ok"
  /\ UNCHANGED <<cachedHead, buffer, consumerVars>>

Producer ==
  \/ \E v \in Values, waits \in BOOLEAN : PushCall(v, waits)
  \/ PushLoadHead
  \/ PushCopy(1, "copy1", "copy2")
  \/ PushCopy(2, "copy2", "publish")
  \/ PushPublish

-----------------------------------------------------------------------------
(* Consumer *)

(* A bug: try_pop does not ask whether the ring is empty. *)
PopUnasked(waits) ==
  /\ pop.at = "idle"
  /\ pop' = [NoPop EXCEPT !.at = "copy1", !.waits = waits]
  /\ UNCHANGED <<head, cachedTail, popped, producerVars>>

PopCall(waits) ==
  /\ pop.at = "idle"
  /\ pop' = [NoPop EXCEPT !.at = IF head = cachedTail THEN "load" ELSE "copy1",
                          !.waits = waits]
  /\ UNCHANGED <<head, cachedTail, popped, producerVars>>

PopLoadTail ==
  /\ pop.at = "load"
  /\ \E t \in Visible(tail, cachedTail) :
       /\ cachedTail' = t
       /\ \/ head # t /\ pop' = [pop EXCEPT !.at = "copy1"] /\ UNCHANGED popped
          \/ head = t /\ pop.waits /\ UNCHANGED <<pop, popped>>
          \/ head = t /\ ~pop.waits /\ pop' = NoPop /\ popped' = <<>>
  /\ UNCHANGED <<head, producerVars>>

PopCopy(w, here, next) ==
  /\ pop.at = here
  /\ pop' = [pop EXCEPT !.words[w] = buffer[Slot(head)][w], !.at = next]
  /\ UNCHANGED <<head, cachedTail, popped, producerVars>>

PopAdvance ==
  /\ pop.at = "publish"
  /\ head' = Inc(head)
  /\ popped' = <<pop.words>>
  /\ pop' = NoPop
  /\ UNCHANGED <<cachedTail, producerVars>>

Consumer ==
  \/ \E waits \in BOOLEAN : PopCall(waits)
  \/ PopLoadTail
  \/ PopCopy(1, "copy1", "copy2")
  \/ PopCopy(2, "copy2", "publish")
  \/ PopAdvance

Next == Producer \/ Consumer

Spec == Init /\ [][Next]_vars

(* A thread inside a call keeps running, and a store becomes visible to    *)
(* the other thread in finite time: a load retried for ever does not       *)
(* return a stale value for ever.                                          *)
PushProceeds == PushCopy(1, "copy1", "copy2") \/ PushCopy(2, "copy2", "publish") \/ PushPublish
PopProceeds  == PopCopy(1, "copy1", "copy2") \/ PopCopy(2, "copy2", "publish") \/ PopAdvance

RunsOn ==
  /\ WF_vars(PushProceeds) /\ WF_vars(PopProceeds)
  /\ SF_vars(PushLoadHead /\ cachedHead' = head)
  /\ SF_vars(PopLoadTail /\ cachedTail' = tail)

(* Both threads keep calling, in any mix of try_ and wait_. *)
KeepsCalling ==
  /\ WF_vars(\E v \in Values, waits \in BOOLEAN : PushCall(v, waits))
  /\ WF_vars(\E waits \in BOOLEAN : PopCall(waits))

FairSpec == Spec /\ RunsOn /\ KeepsCalling

-----------------------------------------------------------------------------
Steps == {"idle", "load", "copy1", "copy2", "publish"}
Data  == Values \cup {Zero}

(* Type invariant: the four counters stay u64, the buffer holds words of   *)
(* values.                                                                 *)
TypeOK ==
  /\ head \in Counters /\ tail \in Counters
  /\ cachedHead \in Counters /\ cachedTail \in Counters
  /\ buffer \in [Slots -> [Words -> Data]]
  /\ push \in [at : Steps, value : Data, waits : BOOLEAN]
  /\ pop \in [at : Steps, words : [Words -> Data], waits : BOOLEAN]

Copying(at) == at \in {"copy1", "copy2", "publish"}

(* Counted from cached_head_, the four counters are always in the order    *)
(* cached_head_ <= head_ <= cached_tail_ <= tail_ <= cached_head_ +        *)
(* Capacity, across the wrap: a stale cached copy only ever errs on the    *)
(* safe side.                                                              *)
CountersOrdered ==
  /\ Diff(head, cachedHead) <= Diff(cachedTail, cachedHead)
  /\ Diff(cachedTail, cachedHead) <= Diff(tail, cachedHead)
  /\ Diff(tail, cachedHead) <= Capacity

(* A side that copies has room (has something) to copy. *)
CopyingIsJustified ==
  /\ Copying(push.at) => Diff(tail, cachedHead) < Capacity
  /\ Copying(pop.at) => head # cachedTail

(* The inductive invariant. *)
RingInv == TypeOK /\ CountersOrdered /\ CopyingIsJustified

(* The producer never writes the slot the consumer is reading: memcpy      *)
(* into buffer_ never races memcpy out of it.                              *)
NoDataRace == Copying(push.at) /\ Copying(pop.at) => Slot(tail) # Slot(head)

(* size(), called by either side on its own ring, is never more than the   *)
(* capacity and never wraps below zero, however stale the other counter.   *)
SizeInRange ==
  /\ \A h \in Visible(head, cachedHead) : Diff(tail, h) \in 0 .. Capacity
  /\ \A t \in Visible(tail, cachedTail) : Diff(t, head) \in 0 .. Capacity

(* Every value pushed before the last publish and not yet popped is whole  *)
(* in its slot: the release store of tail_ publishes no half-copied value. *)
PublishedIsWhole ==
  \A c \in Counters : Diff(c, head) < Diff(tail, head) =>
    \E v \in Values : buffer[Slot(c)] = Whole(v)

(* A wait_push returns as long as the consumer keeps popping, and a        *)
(* wait_pop as long as the producer keeps pushing: the two never wait for  *)
(* each other.                                                             *)
WaitPushReturns == push.at # "idle" ~> push.at = "idle"
WaitPopReturns  == pop.at # "idle" ~> pop.at = "idle"

(* The ring is a bounded FIFO queue: nothing is lost, repeated, reordered  *)
(* or torn, and a refusal means full or empty, or that the load which      *)
(* refused was stale.                                                      *)
Queue == [k \in 1 .. Diff(tail, head) |-> buffer[Slot(head + k - 1)]]

Fifo == INSTANCE BoundedFifo WITH
          Values <- {Whole(v) : v \in Values}, LateNews <- StaleLoads, queue <- Queue

ImplementsFifo == Fifo!Spec
=============================================================================
