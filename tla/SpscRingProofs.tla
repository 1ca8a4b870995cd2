---------------------------- MODULE SpscRingProofs ----------------------------
(***************************************************************************)
(* SPSCRingBuffer for every capacity, every counter width that the         *)
(* capacity divides, every set of values and either kind of load: the four *)
(* counters stay ordered across the wrap, the two copies never touch the   *)
(* same slot, and size() stays in range.                                   *)
(***************************************************************************)
EXTENDS SpscRing, SequenceTheorems, TLAPS

(* The counters have room for two laps of the buffer. *)
LEMMA WrapFacts == Capacity \in Nat \ {0} /\ Wrap \in Nat /\ Wrap >= 2 * Capacity
<1>1. PICK k \in 2 .. Wrap : Wrap = k * Capacity
  BY CapacityAssumption
<1>2. (k - 2) * Capacity >= 0 /\ k * Capacity = (k - 2) * Capacity + 2 * Capacity
  BY <1>1, CapacityAssumption, Z3
<1> QED
  BY <1>1, <1>2, CapacityAssumption

(* Multiples of Capacity that differ are at least Capacity apart. *)
LEMMA NoSmallMultiple ==
  ASSUME NEW n \in Int, 0 < n * Capacity, n * Capacity < Capacity
  PROVE  FALSE
<1>1. CASE n <= 0
  <2>1. n * Capacity <= 0
    BY <1>1, CapacityAssumption, Z3
  <2> QED
    BY <2>1, CapacityAssumption, Z3
<1>2. CASE n >= 1
  <2>1. (n - 1) * Capacity >= 0 /\ n * Capacity = (n - 1) * Capacity + Capacity
    BY <1>2, CapacityAssumption, Z3
  <2> QED
    BY <2>1, CapacityAssumption, Z3
<1> QED
  BY <1>1, <1>2

(* Two counters less than a lap apart, and not equal, index different      *)
(* slots, also when one of them has wrapped.                               *)
LEMMA SlotsApart ==
  ASSUME NEW a \in Counters, NEW b \in Counters,
         a # b, Diff(a, b) < Capacity
  PROVE  Slot(a) # Slot(b)
<1> SUFFICES ASSUME Slot(a) = Slot(b) PROVE FALSE
  OBVIOUS
<1> DEFINE qa == a \div Capacity
           qb == b \div Capacity
<1>1. PICK k \in 2 .. Wrap : Wrap = k * Capacity
  BY CapacityAssumption
<1>2. /\ a = Capacity * qa + Slot(a) /\ qa \in Int
      /\ b = Capacity * qb + Slot(b) /\ qb \in Int
      /\ Slot(a) \in Int
  BY WrapFacts, Z3 DEF Counters, Slot
<1>3. a \in Int /\ b \in Int /\ k \in Int /\ Capacity \in Int /\ Wrap \in Int /\ a < Wrap /\ b < Wrap /\ a >= 0 /\ b >= 0
  BY WrapFacts, <1>1 DEF Counters
<1> HIDE DEF qa, qb
<1>4. CASE a >= b
  <2>1. a - b = (qa - qb) * Capacity
    BY <1>2, <1>3, Z3
  <2>2. 0 < a - b /\ a - b < Capacity
    BY <1>3, <1>4 DEF Diff
  <2> QED
    BY <2>1, <2>2, <1>2, NoSmallMultiple
<1>5. CASE a < b
  <2>1. a - b + Wrap = (qa - qb + k) * Capacity
    BY <1>1, <1>2, <1>3, Z3
  <2>2. 0 < a - b + Wrap /\ a - b + Wrap < Capacity
    BY <1>3, <1>5 DEF Diff
  <2> QED
    BY <2>1, <2>2, <1>2, <1>3, NoSmallMultiple
<1> QED
  BY <1>3, <1>4, <1>5

-----------------------------------------------------------------------------
(* The empty ring satisfies the invariant. *)
LEMMA InitRing == Init => RingInv
<1> SUFFICES ASSUME Init PROVE RingInv
  OBVIOUS
<1> USE DEF Init, Counters, Slots, Words, Whole, NoPush, NoPop, Data, Steps
<1>1. TypeOK
  BY WrapFacts DEF TypeOK
<1>2. CountersOrdered /\ CopyingIsJustified
  BY WrapFacts DEF CountersOrdered, CopyingIsJustified, Diff, Copying
<1> QED
  BY <1>1, <1>2 DEF RingInv

(* What a load of the other counter returns lies between the value last    *)
(* read and the current one.                                               *)
LEMMA VisibleFacts ==
  ASSUME NEW counter \in Counters, NEW seen \in Counters, NEW c \in Visible(counter, seen)
  PROVE  c \in Counters /\ Diff(c, seen) <= Diff(counter, seen)
<1>1. CASE StaleLoads
  BY <1>1 DEF Visible
<1>2. CASE ~StaleLoads
  <2>1. Diff(c, seen) \in Int
    BY <1>2, WrapFacts DEF Visible, Diff, Counters
  <2> QED
    BY <1>2, <2>1 DEF Visible
<1> QED
  BY <1>1, <1>2

(* Every step of the producer keeps the invariant. *)
LEMMA ProducerStep ==
  ASSUME RingInv, Producer
  PROVE  RingInv'
<1> USE WrapFacts DEF RingInv, consumerVars
<1>1. ASSUME NEW v \in Values, NEW waits \in BOOLEAN, PushCall(v, waits)
      PROVE  RingInv'
  <2>1. TypeOK'
    BY <1>1 DEF PushCall, TypeOK, Data, Steps
  <2>2. CountersOrdered'
    BY <1>1 DEF PushCall, CountersOrdered
  <2>3. CopyingIsJustified'
    BY <1>1 DEF PushCall, CopyingIsJustified, Copying, LooksFull, Diff, TypeOK, Counters
  <2> QED
    BY <2>1, <2>2, <2>3
<1>2. ASSUME PushLoadHead
      PROVE  RingInv'
  <2>1. PICK h \in Visible(head, cachedHead) :
          /\ cachedHead' = h
          /\ \/ ~LooksFull(h) /\ push' = [push EXCEPT !.at = "copy1"] /\ UNCHANGED pushed
             \/ LooksFull(h) /\ push.waits /\ UNCHANGED <<push, pushed>>
             \/ LooksFull(h) /\ ~push.waits /\ push' = NoPush /\ pushed' = "full"
    BY <1>2 DEF PushLoadHead
  <2>2. h \in Counters /\ Diff(h, cachedHead) <= Diff(head, cachedHead)
    BY <2>1, VisibleFacts DEF TypeOK
  <2>3. UNCHANGED <<tail, buffer, head, cachedTail, pop, popped>>
    BY <1>2 DEF PushLoadHead
  <2>4. TypeOK'
    <3>1. NoPush \in [at : Steps, value : Data, waits : BOOLEAN]
      BY DEF NoPush, Data, Steps
    <3>2. [push EXCEPT !.at = "copy1"] \in [at : Steps, value : Data, waits : BOOLEAN]
      BY DEF TypeOK, Steps
    <3>3. push' \in [at : Steps, value : Data, waits : BOOLEAN]
      BY <2>1, <3>1, <3>2 DEF TypeOK
    <3> QED
      BY <2>1, <2>2, <2>3, <3>3 DEF TypeOK
  <2>5. CountersOrdered'
    BY <2>1, <2>2, <2>3 DEF CountersOrdered, Diff, TypeOK, Counters
  <2>6. CopyingIsJustified'
    BY <1>2, <2>1, <2>2, <2>3
       DEF PushLoadHead, CopyingIsJustified, Copying, LooksFull, NoPush, Diff, TypeOK, Counters
  <2> QED
    BY <2>4, <2>5, <2>6
<1>3. ASSUME NEW w \in Words, NEW here \in {"copy1", "copy2"},
             NEW next \in {"copy2", "publish"}, PushCopy(w, here, next)
      PROVE  RingInv'
  <2>1. TypeOK'
    <3>1. Slot(tail) \in Slots
      BY DEF Slot, Slots, TypeOK, Counters
    <3>2. buffer' \in [Slots -> [Words -> Data]]
      BY <1>3, <3>1 DEF PushCopy, TypeOK
    <3>3. push' \in [at : Steps, value : Data, waits : BOOLEAN]
      BY <1>3 DEF PushCopy, TypeOK, Steps
    <3> QED
      BY <1>3, <3>2, <3>3 DEF PushCopy, TypeOK
  <2>2. CountersOrdered'
    BY <1>3 DEF PushCopy, CountersOrdered
  <2>3. CopyingIsJustified'
    BY <1>3 DEF PushCopy, CopyingIsJustified, Copying, TypeOK
  <2> QED
    BY <2>1, <2>2, <2>3
<1>4. ASSUME PushPublish
      PROVE  RingInv'
  <2>1. TypeOK'
    BY <1>4 DEF PushPublish, TypeOK, NoPush, Inc, Counters, Data, Steps
  <2>2. Diff(tail, cachedHead) < Capacity
    BY <1>4 DEF PushPublish, CopyingIsJustified, Copying
  <2>3. CountersOrdered'
    BY <1>4, <2>2 DEF PushPublish, CountersOrdered, Diff, Inc, TypeOK, Counters
  <2>4. CopyingIsJustified'
    BY <1>4 DEF PushPublish, CopyingIsJustified, Copying, NoPush
  <2> QED
    BY <2>1, <2>3, <2>4
<1> QED
  BY <1>1, <1>2, <1>3, <1>4 DEF Producer, Words

(* Every step of the consumer keeps the invariant. *)
LEMMA ConsumerStep ==
  ASSUME RingInv, Consumer
  PROVE  RingInv'
<1> USE WrapFacts DEF RingInv, producerVars
<1>1. ASSUME NEW waits \in BOOLEAN, PopCall(waits)
      PROVE  RingInv'
  <2>1. TypeOK'
    BY <1>1 DEF PopCall, TypeOK, NoPop, Whole, Data, Steps
  <2>2. CountersOrdered'
    BY <1>1 DEF PopCall, CountersOrdered
  <2>3. CopyingIsJustified'
    BY <1>1 DEF PopCall, CopyingIsJustified, Copying, NoPop
  <2> QED
    BY <2>1, <2>2, <2>3
<1>2. ASSUME PopLoadTail
      PROVE  RingInv'
  <2>1. PICK t \in Visible(tail, cachedTail) :
          /\ cachedTail' = t
          /\ \/ head # t /\ pop' = [pop EXCEPT !.at = "copy1"] /\ UNCHANGED popped
             \/ head = t /\ pop.waits /\ UNCHANGED <<pop, popped>>
             \/ head = t /\ ~pop.waits /\ pop' = NoPop /\ popped' = <<>>
    BY <1>2 DEF PopLoadTail
  <2>2. t \in Counters /\ Diff(t, cachedTail) <= Diff(tail, cachedTail)
    BY <2>1, VisibleFacts DEF TypeOK
  <2>3. UNCHANGED <<head, tail, cachedHead, buffer, push, pushed>>
    BY <1>2 DEF PopLoadTail
  <2>4. TypeOK'
    <3>1. NoPop \in [at : Steps, words : [Words -> Data], waits : BOOLEAN]
      BY DEF NoPop, Whole, Data, Steps
    <3>2. [pop EXCEPT !.at = "copy1"] \in [at : Steps, words : [Words -> Data], waits : BOOLEAN]
      BY DEF TypeOK, Steps
    <3>3. pop' \in [at : Steps, words : [Words -> Data], waits : BOOLEAN]
      BY <2>1, <3>1, <3>2 DEF TypeOK
    <3> QED
      BY <2>1, <2>2, <2>3, <3>3 DEF TypeOK
  <2>5. CountersOrdered'
    <3>1. /\ Diff(head, cachedHead) <= Diff(t, cachedHead)
          /\ Diff(t, cachedHead) <= Diff(tail, cachedHead)
          /\ Diff(tail, cachedHead) <= Capacity
      BY <2>2 DEF CountersOrdered, Diff, TypeOK, Counters
    <3> QED
      BY <2>1, <2>3, <3>1 DEF CountersOrdered, Diff
  <2>6. CopyingIsJustified'
    BY <1>2, <2>1, <2>2, <2>3 DEF PopLoadTail, CopyingIsJustified, Copying, NoPop, TypeOK
  <2> QED
    BY <2>4, <2>5, <2>6
<1>3. ASSUME NEW w \in Words, NEW here \in {"copy1", "copy2"},
             NEW next \in {"copy2", "publish"}, PopCopy(w, here, next)
      PROVE  RingInv'
  <2>1. TypeOK'
    <3>1. Slot(head) \in Slots
      BY DEF Slot, Slots, TypeOK, Counters
    <3>2. buffer[Slot(head)][w] \in Data
      BY <3>1 DEF TypeOK
    <3>3. pop' \in [at : Steps, words : [Words -> Data], waits : BOOLEAN]
      BY <1>3, <3>2 DEF PopCopy, TypeOK, Steps
    <3> QED
      BY <1>3, <3>3 DEF PopCopy, TypeOK
  <2>2. CountersOrdered'
    BY <1>3 DEF PopCopy, CountersOrdered
  <2>3. CopyingIsJustified'
    BY <1>3 DEF PopCopy, CopyingIsJustified, Copying, TypeOK
  <2> QED
    BY <2>1, <2>2, <2>3
<1>4. ASSUME PopAdvance
      PROVE  RingInv'
  <2>1. TypeOK'
    BY <1>4 DEF PopAdvance, TypeOK, NoPop, Whole, Inc, Counters, Data, Steps
  <2>2. head # cachedTail
    BY <1>4 DEF PopAdvance, CopyingIsJustified, Copying
  <2>3. CountersOrdered'
    BY <1>4, <2>2 DEF PopAdvance, CountersOrdered, Diff, Inc, TypeOK, Counters
  <2>4. CopyingIsJustified'
    BY <1>4 DEF PopAdvance, CopyingIsJustified, Copying, NoPop
  <2> QED
    BY <2>1, <2>3, <2>4
<1> QED
  BY <1>1, <1>2, <1>3, <1>4 DEF Consumer, Words

(* The counters keep their order, and a side copies only with room or a    *)
(* value to copy, for every capacity and every counter width.              *)
THEOREM RingInvariant == Spec => []RingInv
<1>1. Init => RingInv
  BY InitRing
<1>2. RingInv /\ [Next]_vars => RingInv'
  <2> SUFFICES ASSUME RingInv, [Next]_vars PROVE RingInv'
    OBVIOUS
  <2>1. CASE Next
    BY <2>1, ProducerStep, ConsumerStep DEF Next
  <2>2. CASE UNCHANGED vars
    BY <2>2 DEF vars, producerVars, consumerVars, RingInv, TypeOK, CountersOrdered,
                CopyingIsJustified
  <2> QED
    BY <2>1, <2>2
<1> QED
  BY <1>1, <1>2, PTL DEF Spec

(* The two memcpy's of try_push and try_pop never touch the same slot.     *)
THEOREM RingNoDataRace == Spec => []NoDataRace
<1>1. RingInv => NoDataRace
  <2> SUFFICES ASSUME RingInv, Copying(push.at), Copying(pop.at) PROVE Slot(tail) # Slot(head)
    BY DEF NoDataRace
  <2>1. tail # head /\ Diff(tail, head) < Capacity
    BY WrapFacts DEF RingInv, TypeOK, CountersOrdered, CopyingIsJustified, Diff, Counters
  <2> QED
    BY <2>1, SlotsApart DEF RingInv, TypeOK
<1> QED
  BY <1>1, RingInvariant, PTL

(* size() called by the producer or by the consumer is a queue length. *)
THEOREM RingSizeInRange == Spec => []SizeInRange
<1>1. RingInv => SizeInRange
  <2> SUFFICES ASSUME RingInv PROVE SizeInRange
    OBVIOUS
  <2>1. ASSUME NEW h \in Visible(head, cachedHead)
        PROVE  Diff(tail, h) \in 0 .. Capacity
    <3>1. h \in Counters /\ Diff(h, cachedHead) <= Diff(head, cachedHead)
      BY VisibleFacts DEF RingInv, TypeOK
    <3> QED
      BY <3>1, WrapFacts DEF RingInv, TypeOK, CountersOrdered, Diff, Counters
  <2>2. ASSUME NEW t \in Visible(tail, cachedTail)
        PROVE  Diff(t, head) \in 0 .. Capacity
    <3>1. t \in Counters /\ Diff(t, cachedTail) <= Diff(tail, cachedTail)
      BY VisibleFacts DEF RingInv, TypeOK
    <3> QED
      BY <3>1, WrapFacts DEF RingInv, TypeOK, CountersOrdered, Diff, Counters
  <2> QED
    BY <2>1, <2>2 DEF SizeInRange
<1> QED
  BY <1>1, RingInvariant, PTL

-----------------------------------------------------------------------------
(***************************************************************************)
(* What the slots hold.  Between head_ and tail_ every slot has a whole    *)
(* value; the producer's half-copied one is at tail_, beyond them, and     *)
(* what the consumer has copied so far still stands at head_.              *)
(***************************************************************************)
CopiesAgree ==
  /\ push.at # "idle" => push.value \in Values
  /\ push.at \in {"copy2", "publish"} => buffer[Slot(tail)][1] = push.value
  /\ push.at = "publish" => buffer[Slot(tail)][2] = push.value
  /\ pop.at \in {"copy2", "publish"} => pop.words[1] = buffer[Slot(head)][1]
  /\ pop.at = "publish" => pop.words[2] = buffer[Slot(head)][2]

QueueInv == RingInv /\ CopiesAgree /\ PublishedIsWhole

(* A counter between head_ and tail_ does not index the slot at tail_ that *)
(* the producer is filling; and a consumer that copies has one such.       *)
LEMMA FilledSlots ==
  ASSUME RingInv
  PROVE  /\ Diff(tail, head) \in 0 .. Capacity
         /\ Copying(push.at) => Diff(tail, head) < Capacity
         /\ Copying(push.at) => \A c \in Counters : Diff(c, head) < Diff(tail, head) => Slot(c) # Slot(tail)
         /\ Copying(pop.at) => 0 < Diff(tail, head) /\ Diff(head, head) = 0
<1> USE WrapFacts DEF RingInv
<1>1. Diff(tail, head) \in 0 .. Capacity /\ (Copying(push.at) => Diff(tail, head) < Capacity)
  BY DEF CountersOrdered, CopyingIsJustified, Diff, TypeOK, Counters
<1>2. ASSUME Copying(push.at), NEW c \in Counters, Diff(c, head) < Diff(tail, head)
      PROVE  Slot(c) # Slot(tail)
  <2>1. tail # c /\ Diff(tail, c) < Capacity
    BY <1>1, <1>2 DEF Diff, TypeOK, Counters
  <2> QED
    BY <2>1, SlotsApart DEF TypeOK
<1>3. Copying(pop.at) => 0 < Diff(tail, head) /\ Diff(head, head) = 0
  BY DEF CountersOrdered, CopyingIsJustified, Diff, TypeOK, Counters
<1> QED
  BY <1>1, <1>2, <1>3

(* The empty ring satisfies the queue's invariant. *)
LEMMA InitQueue == Init => QueueInv
<1> SUFFICES ASSUME Init PROVE QueueInv
  OBVIOUS
<1>1. CopiesAgree
  BY DEF Init, CopiesAgree, NoPush, NoPop
<1>2. PublishedIsWhole
  BY WrapFacts DEF Init, PublishedIsWhole, Diff, Counters
<1> QED
  BY <1>1, <1>2, InitRing DEF QueueInv

(* A copy of the producer fills the slot at tail_ and leaves the others.   *)
LEMMA PushCopyStep ==
  ASSUME QueueInv, NEW w \in Words, NEW here, NEW next, PushCopy(w, here, next),
         here \in {"copy1", "copy2"}, next \in {"copy2", "publish"}
  PROVE  /\ Copying(push.at) /\ push'.at = next /\ push'.value = push.value /\ Slot(tail) \in Slots
         /\ buffer' \in [Slots -> [Words -> Data]]
         /\ \A s \in Slots \ {Slot(tail)} : buffer'[s] = buffer[s]
         /\ buffer'[Slot(tail)][w] = push.value
         /\ \A x \in Words \ {w} : buffer'[Slot(tail)][x] = buffer[Slot(tail)][x]
<1> USE DEF QueueInv, RingInv
<1>1. push.at = here /\ push' = [push EXCEPT !.at = next] /\ buffer' = [buffer EXCEPT ![Slot(tail)][w] = push.value]
  BY DEF PushCopy
<1>2. Slot(tail) \in Slots
  BY WrapFacts DEF Slot, Slots, TypeOK, Counters
<1>3. push.value \in Data /\ buffer[Slot(tail)] \in [Words -> Data]
  BY <1>2 DEF TypeOK
<1> QED
  BY <1>1, <1>2, <1>3 DEF TypeOK, Copying

(* The producer fills a slot outside the queue, and publishes it whole. *)
LEMMA ProducerFills ==
  ASSUME QueueInv, Producer
  PROVE  QueueInv'
<1> USE WrapFacts DEF QueueInv, consumerVars
<1>1. RingInv'
  BY ProducerStep
<1>2. ASSUME NEW v \in Values, NEW waits \in BOOLEAN, PushCall(v, waits)
      PROVE  CopiesAgree' /\ PublishedIsWhole'
  BY <1>2 DEF PushCall, CopiesAgree, PublishedIsWhole
<1>3. ASSUME PushLoadHead
      PROVE  CopiesAgree' /\ PublishedIsWhole'
  <2>1. /\ push.at = "load" /\ UNCHANGED <<tail, buffer, head, pop>>
        /\ push' = [push EXCEPT !.at = "copy1"] \/ push' = push \/ push' = NoPush
    BY <1>3 DEF PushLoadHead
  <2>2. push'.at \in {"idle", "load", "copy1"} /\ (push'.at # "idle" => push'.value = push.value)
    BY <2>1 DEF RingInv, TypeOK, NoPush
  <2> QED
    BY <2>1, <2>2 DEF CopiesAgree, PublishedIsWhole
<1>4. ASSUME NEW w \in Words, NEW here \in {"copy1", "copy2"}, NEW next \in {"copy2", "publish"},
             PushCopy(w, here, next), (w = 1 /\ next = "copy2") \/ (w = 2 /\ here = "copy2" /\ next = "publish")
      PROVE  CopiesAgree' /\ PublishedIsWhole'
  <2>1. /\ Copying(push.at) /\ push.at = here /\ push'.at = next /\ push'.value = push.value
        /\ \A s \in Slots \ {Slot(tail)} : buffer'[s] = buffer[s]
        /\ buffer'[Slot(tail)][w] = push.value
        /\ \A x \in Words \ {w} : buffer'[Slot(tail)][x] = buffer[Slot(tail)][x]
        /\ UNCHANGED <<tail, head, pop>>
    <3>1. PushCopy(w, here, next)
      BY <1>4
    <3>2. push.at = here /\ UNCHANGED <<tail, head, pop>>
      BY <3>1 DEF PushCopy
    <3> QED
      BY <3>1, <3>2, PushCopyStep
  <2>2. \A c \in Counters : Diff(c, head) < Diff(tail, head) => buffer'[Slot(c)] = buffer[Slot(c)]
    <3>1. \A c \in Counters : Slot(c) \in Slots
      BY DEF Slot, Slots, Counters
    <3> QED
      BY <2>1, <3>1, FilledSlots
  <2>3. Copying(pop.at) => buffer'[Slot(head)] = buffer[Slot(head)]
    BY <2>2, FilledSlots DEF RingInv, TypeOK
  <2>4. CopiesAgree'
    BY <1>4, <2>1, <2>3 DEF CopiesAgree, Copying, Words
  <2>5. PublishedIsWhole'
    BY <2>1, <2>2 DEF PublishedIsWhole
  <2> QED
    BY <2>4, <2>5
<1>5. ASSUME PushPublish
      PROVE  CopiesAgree' /\ PublishedIsWhole'
  <2>1. push.at = "publish" /\ tail' = Inc(tail) /\ push' = NoPush /\ UNCHANGED <<buffer, head, pop>>
    BY <1>5 DEF PushPublish
  <2>2. buffer[Slot(tail)] = Whole(push.value) /\ push.value \in Values
    <3>1. buffer[Slot(tail)] \in [Words -> Data]
      BY DEF Slot, Slots, RingInv, TypeOK, Counters
    <3>2. \A w \in Words : buffer[Slot(tail)][w] = push.value
      BY <2>1 DEF CopiesAgree, Words
    <3> QED
      BY <2>1, <3>1, <3>2 DEF CopiesAgree, Whole
  <2>3. \A c \in Counters : Diff(c, head) < Diff(tail', head) => Diff(c, head) < Diff(tail, head) \/ c = tail
    <3>1. Diff(tail, head) < Capacity
      BY <2>1, FilledSlots DEF Copying
    <3> QED
      BY <2>1, <3>1 DEF Diff, Inc, RingInv, TypeOK, Counters
  <2>4. CopiesAgree'
    BY <2>1 DEF CopiesAgree, NoPush
  <2>5. PublishedIsWhole'
    BY <2>1, <2>2, <2>3 DEF PublishedIsWhole
  <2> QED
    BY <2>4, <2>5
<1> QED
  BY <1>1, <1>2, <1>3, <1>4, <1>5 DEF Producer, Words

(* The consumer copies words of the oldest element, and lets it go after the last. *)
LEMMA ConsumerCopies ==
  ASSUME QueueInv, Consumer
  PROVE  QueueInv'
<1> USE WrapFacts DEF QueueInv, producerVars
<1>1. RingInv'
  BY ConsumerStep
<1>2. ASSUME NEW waits \in BOOLEAN, PopCall(waits)
      PROVE  CopiesAgree' /\ PublishedIsWhole'
  BY <1>2 DEF PopCall, NoPop, CopiesAgree, PublishedIsWhole
<1>3. ASSUME PopLoadTail
      PROVE  CopiesAgree' /\ PublishedIsWhole'
  <2>1. /\ pop.at = "load" /\ UNCHANGED <<tail, buffer, head, push>>
        /\ pop' = [pop EXCEPT !.at = "copy1"] \/ pop' = pop \/ pop' = NoPop
    BY <1>3 DEF PopLoadTail
  <2>2. pop'.at \in {"idle", "load", "copy1"}
    BY <2>1 DEF RingInv, TypeOK, NoPop
  <2> QED
    BY <2>1, <2>2 DEF CopiesAgree, PublishedIsWhole
<1>4. ASSUME NEW w \in Words, NEW here, NEW next, PopCopy(w, here, next),
             (w = 1 /\ next = "copy2") \/ (w = 2 /\ here = "copy2" /\ next = "publish")
      PROVE  CopiesAgree' /\ PublishedIsWhole'
  <2>1. /\ pop.at = here /\ UNCHANGED <<tail, buffer, head, push>>
        /\ pop' = [pop EXCEPT !.words[w] = buffer[Slot(head)][w], !.at = next]
    BY <1>4 DEF PopCopy
  <2>2. /\ pop'.at = next /\ pop'.words[w] = buffer[Slot(head)][w]
        /\ \A x \in Words \ {w} : pop'.words[x] = pop.words[x]
    BY <2>1 DEF RingInv, TypeOK
  <2> QED
    BY <1>4, <2>1, <2>2 DEF CopiesAgree, PublishedIsWhole, Words
<1>5. ASSUME PopAdvance
      PROVE  CopiesAgree' /\ PublishedIsWhole'
  <2>1. pop.at = "publish" /\ head' = Inc(head) /\ pop' = NoPop /\ UNCHANGED <<buffer, tail, push>>
    BY <1>5 DEF PopAdvance
  <2>2. 0 < Diff(tail, head)
    BY <2>1, FilledSlots DEF Copying
  <2>3. \A c \in Counters : Diff(c, head') < Diff(tail, head') => Diff(c, head) < Diff(tail, head)
    BY <2>1, <2>2 DEF Diff, Inc, RingInv, TypeOK, Counters
  <2>4. CopiesAgree'
    BY <2>1 DEF CopiesAgree, NoPop
  <2>5. PublishedIsWhole'
    BY <2>1, <2>3 DEF PublishedIsWhole
  <2> QED
    BY <2>4, <2>5
<1> QED
  BY <1>1, <1>2, <1>3, <1>4, <1>5 DEF Consumer, Words

(* The two sides keep what they copied, and publish whole values only.     *)
THEOREM QueueInvariant == Spec => []QueueInv
<1>1. Init => QueueInv
  BY InitQueue
<1>2. QueueInv /\ [Next]_vars => QueueInv'
  <2> SUFFICES ASSUME QueueInv, [Next]_vars PROVE QueueInv'
    OBVIOUS
  <2>1. CASE Next
    BY <2>1, ProducerFills, ConsumerCopies DEF Next
  <2>2. CASE UNCHANGED vars
    BY <2>2 DEF vars, producerVars, consumerVars, QueueInv, RingInv, TypeOK, CountersOrdered,
                CopyingIsJustified, CopiesAgree, PublishedIsWhole
  <2> QED
    BY <2>1, <2>2
<1> QED
  BY <1>1, <1>2, PTL DEF Spec

(* The release store of tail_ publishes no half-copied value, and no later *)
(* copy of the producer spoils one that is not popped yet.                 *)
THEOREM RingPublishesWhole == Spec => []PublishedIsWhole
<1>1. QueueInv => PublishedIsWhole
  BY DEF QueueInv
<1> QED
  BY <1>1, QueueInvariant, PTL

-----------------------------------------------------------------------------
(* The ring implements a bounded FIFO queue. *)

(* An index does not change when its counter wraps: Capacity divides Wrap. *)
LEMMA SlotWraps ==
  ASSUME NEW x \in Nat
  PROVE  Slot(x + Wrap) = Slot(x)
<1> DEFINE y  == x + Wrap
           qx == x \div Capacity
           qy == y \div Capacity
<1>1. PICK k \in 2 .. Wrap : Wrap = k * Capacity
  BY CapacityAssumption
<1>2. y \in Nat /\ k \in Int /\ Capacity \in Int /\ Capacity > 0
  BY <1>1, WrapFacts
<1>3. /\ x = Capacity * qx + Slot(x) /\ qx \in Int /\ Slot(x) \in 0 .. Capacity - 1
      /\ y = Capacity * qy + Slot(y) /\ qy \in Int /\ Slot(y) \in 0 .. Capacity - 1
  <2> HIDE DEF y
  <2> QED
    BY <1>2, WrapFacts, Z3 DEF Slot
<1>4. y = x + k * Capacity
  BY <1>1
<1> HIDE DEF y, qx, qy
<1>5. /\ Slot(y) - Slot(x) = (qx + k - qy) * Capacity
      /\ Slot(x) - Slot(y) = (qy - k - qx) * Capacity
  <2>1. (qx + k - qy) * Capacity = Capacity * qx + k * Capacity - Capacity * qy
    BY <1>2, <1>3, Z3
  <2>2. (qy - k - qx) * Capacity = Capacity * qy - k * Capacity - Capacity * qx
    BY <1>2, <1>3, Z3
  <2> PICK cx \in Int : cx = Capacity * qx
    BY <1>2, <1>3
  <2> PICK cy \in Int : cy = Capacity * qy
    BY <1>2, <1>3
  <2> PICK ck \in Int : ck = k * Capacity
    BY <1>2
  <2>3. x = cx + Slot(x) /\ y = cy + Slot(y) /\ y = x + ck /\ Slot(x) \in Int /\ Slot(y) \in Int
    BY <1>3, <1>4
  <2>4. Slot(y) - Slot(x) = cx + ck - cy /\ Slot(x) - Slot(y) = cy - ck - cx
    BY <2>3
  <2> QED
    BY <2>1, <2>2, <2>4
<1>6. ~(0 < Slot(y) - Slot(x)) /\ ~(0 < Slot(x) - Slot(y))
  <2>1. qx + k - qy \in Int /\ qy - k - qx \in Int
    BY <1>2, <1>3
  <2>2. Slot(y) - Slot(x) < Capacity /\ Slot(x) - Slot(y) < Capacity
    BY <1>2, <1>3
  <2> QED
    BY <1>5, <2>1, <2>2, NoSmallMultiple
<1>7. Slot(y) = Slot(x)
  BY <1>3, <1>6
<1> QED
  BY <1>7 DEF y

(* The k-th counter from h, across the wrap. *)
LEMMA CounterAhead ==
  ASSUME NEW h \in Counters, NEW k \in Nat, k < Wrap
  PROVE  \E c \in Counters : Diff(c, h) = k /\ Slot(c) = Slot(h + k)
<1> USE WrapFacts
<1>1. CASE h + k < Wrap
  <2>1. h + k \in Counters /\ Diff(h + k, h) = k
    BY <1>1 DEF Counters, Diff
  <2> QED
    BY <2>1
<1>2. CASE h + k >= Wrap
  <2> DEFINE c == h + k - Wrap
  <2>1. c \in Counters /\ Diff(c, h) = k /\ c \in Nat /\ c + Wrap = h + k
    BY <1>2 DEF Counters, Diff
  <2>2. Slot(c) = Slot(h + k)
    BY <2>1, SlotWraps
  <2> QED
    BY <2>1, <2>2
<1> QED
  BY <1>1, <1>2 DEF Counters

(* The n slots from counter h on, as a sequence. *)
From(b, h, n) == [k \in 1 .. n |-> b[Slot(h + k - 1)]]

(* A run of slots, read as a sequence. *)
LEMMA SlotsInOrder ==
  ASSUME NEW b \in [Slots -> [Words -> Data]], NEW h \in Nat, NEW n \in Nat
  PROVE  /\ From(b, h, n) \in Seq([Words -> Data]) /\ Len(From(b, h, n)) = n
         /\ \A k \in 1 .. n : From(b, h, n)[k] = b[Slot(h + k - 1)]
<1> DEFINE q == From(b, h, n)
           S == [Words -> Data]
<1>1. \A k \in 1 .. n : Slot(h + k - 1) \in Slots
  BY WrapFacts DEF Slot, Slots
<1>2. q \in [1 .. n -> S] /\ q = [k \in 1 .. n |-> b[Slot(h + k - 1)]]
  BY <1>1 DEF From
<1> HIDE DEF q, S
<1>3. q \in Seq(S)
  BY <1>2, SeqDef, ZenonT(60)
<1>4. Len(q) = n
  <2>1. Len(q) \in Nat /\ DOMAIN q = 1 .. Len(q)
    BY <1>3, LenProperties, SMTT(60)
  <2> PICK l \in Nat : l = Len(q)
    BY <2>1
  <2>2. 1 .. l = 1 .. n
    BY <1>2, <2>1
  <2>3. l = n
    BY <2>2
  <2> QED
    BY <2>3
<1>5. \A k \in 1 .. n : q[k] = b[Slot(h + k - 1)]
  BY <1>2
<1> QED
  BY <1>3, <1>4, <1>5 DEF q, S

(* The ring's contents, read as a sequence. *)
LEMMA QueueFacts ==
  ASSUME TypeOK, Diff(tail, head) \in Nat
  PROVE  /\ Queue \in Seq([Words -> Data]) /\ Len(Queue) = Diff(tail, head)
         /\ \A k \in 1 .. Diff(tail, head) : Queue[k] = buffer[Slot(head + k - 1)]
<1> PICK n \in Nat : n = Diff(tail, head)
  OBVIOUS
<1>1. buffer \in [Slots -> [Words -> Data]] /\ head \in Nat
  BY WrapFacts DEF TypeOK, Counters
<1>2. Queue = From(buffer, head, n)
  BY DEF Queue, From
<1> QED
  BY <1>1, <1>2, SlotsInOrder

(* Publishing tail_ appends the value, whole. *)
LEMMA PublishMaps ==
  ASSUME QueueInv, QueueInv', PushPublish
  PROVE  \E v \in {Whole(x) : x \in Values} : Fifo!Push(v)
<1> USE DEF QueueInv, RingInv
<1> DEFINE n == Diff(tail, head)
           v == Whole(push.value)
<1>1. push.at = "publish" /\ tail' = Inc(tail) /\ pushed' = "ok" /\ UNCHANGED <<head, buffer, popped>>
  BY DEF PushPublish, consumerVars
<1>2. n \in Nat /\ n < Capacity /\ Diff(tail', head') = n + 1
  <2>1. n \in 0 .. Capacity /\ n < Capacity
    BY <1>1, FilledSlots DEF Copying
  <2>2. Diff(tail', head') = n + 1
    BY <1>1, <2>1, WrapFacts DEF Diff, Inc, TypeOK, Counters
  <2> QED
    BY <2>1, <2>2, WrapFacts
<1>3. push.value \in Values /\ v \in [Words -> Data]
  BY <1>1 DEF CopiesAgree, Whole, Data
<1>4. buffer[Slot(tail)] = v
  <2>1. buffer[Slot(tail)] \in [Words -> Data]
    BY WrapFacts DEF Slot, Slots, TypeOK, Counters
  <2>2. \A w \in Words : buffer[Slot(tail)][w] = push.value
    BY <1>1 DEF CopiesAgree, Words
  <2> QED
    BY <2>1, <2>2 DEF Whole
<1>5. Slot(head + n) = Slot(tail)
  <2>1. PICK c \in Counters : Diff(c, head) = n /\ Slot(c) = Slot(head + n)
    BY <1>2, WrapFacts, CounterAhead DEF TypeOK
  <2>2. c = tail
    BY <2>1, WrapFacts DEF Diff, TypeOK, Counters
  <2> QED
    BY <2>1, <2>2
<1>6. /\ Queue \in Seq([Words -> Data]) /\ Len(Queue) = n
      /\ \A k \in 1 .. n : Queue[k] = buffer[Slot(head + k - 1)]
  BY <1>2, QueueFacts
<1> PICK later : later = Queue'
  OBVIOUS
<1>7. /\ later \in Seq([Words -> Data]) /\ Len(later) = n + 1
      /\ \A k \in 1 .. n + 1 : later[k] = buffer[Slot(head + k - 1)]
  <2>1. later = From(buffer, head, n + 1)
    BY <1>1, <1>2 DEF Queue, From
  <2>2. buffer \in [Slots -> [Words -> Data]] /\ head \in Nat /\ n + 1 \in Nat
    BY <1>2, WrapFacts DEF TypeOK, Counters
  <2> PICK m \in Nat : m = n + 1
    BY <1>2
  <2>3. /\ From(buffer, head, m) \in Seq([Words -> Data]) /\ Len(From(buffer, head, m)) = m
        /\ \A k \in 1 .. m : From(buffer, head, m)[k] = buffer[Slot(head + k - 1)]
    BY <2>2, SlotsInOrder
  <2> QED
    BY <2>1, <2>3
<1> PICK longer : longer = Append(Queue, v)
  OBVIOUS
<1> HIDE DEF v
<1>8. /\ longer \in Seq([Words -> Data]) /\ Len(longer) = n + 1
      /\ \A k \in 1 .. n : longer[k] = Queue[k]
      /\ longer[n + 1] = v
  BY <1>3, <1>6, AppendProperties
<1>9. later = longer
  <2>1. \A k \in 1 .. n + 1 : later[k] = longer[k]
    <3> SUFFICES ASSUME NEW k \in 1 .. n + 1 PROVE later[k] = longer[k]
      OBVIOUS
    <3>1. CASE k = n + 1
      <4>1. head + k - 1 = head + n
        BY <1>2, <3>1, WrapFacts, SMTT(60) DEF TypeOK, Counters
      <4> QED
        BY <1>4, <1>5, <1>7, <1>8, <3>1, <4>1
    <3>2. CASE k # n + 1
      <4>1. k \in 1 .. n
        BY <1>2, <3>2
      <4> QED
        BY <1>6, <1>7, <1>8, <4>1
    <3> QED
      BY <3>1, <3>2
  <2> HIDE DEF n
  <2> QED
    BY <1>7, <1>8, <2>1, SeqEqual
<1>10. Fifo!Push(v)
  BY <1>1, <1>2, <1>6, <1>9 DEF Fifo!Push
<1> QED
  BY <1>3, <1>10 DEF v

(* Publishing head_ takes the oldest value. *)
LEMMA AdvanceMaps ==
  ASSUME QueueInv, QueueInv', PopAdvance
  PROVE  Fifo!Pop
<1> USE DEF QueueInv, RingInv
<1> DEFINE n == Diff(tail, head)
<1>1. /\ pop.at = "publish" /\ head' = Inc(head) /\ popped' = <<pop.words>>
      /\ UNCHANGED <<tail, buffer, pushed>>
  BY DEF PopAdvance, producerVars
<1>2. n \in Nat /\ n > 0 /\ n - 1 \in Nat /\ n <= Capacity /\ Diff(tail', head') = n - 1
  <2>1. n \in 0 .. Capacity /\ 0 < n
    BY <1>1, FilledSlots DEF Copying
  <2>2. Diff(tail', head') = n - 1
    BY <1>1, <2>1, WrapFacts DEF Diff, Inc, TypeOK, Counters
  <2> QED
    BY <2>1, <2>2, WrapFacts
<1>3. /\ Queue \in Seq([Words -> Data]) /\ Len(Queue) = n
      /\ \A k \in 1 .. n : Queue[k] = buffer[Slot(head + k - 1)]
  BY <1>2, QueueFacts
<1>4. Queue # <<>>
  BY <1>2, <1>3, EmptySeq
<1>5. pop.words = Head(Queue)
  <2>1. Head(Queue) = Queue[1]
    BY <1>3, <1>4
  <2>2. Queue[1] = buffer[Slot(head)]
    <3>1. 1 \in 1 .. n /\ head + 1 - 1 = head
      BY <1>2, WrapFacts DEF TypeOK, Counters
    <3> QED
      BY <1>3, <3>1
  <2>3. pop.words \in [Words -> Data] /\ buffer[Slot(head)] \in [Words -> Data]
    BY WrapFacts DEF Slot, Slots, TypeOK, Counters
  <2>4. \A w \in Words : pop.words[w] = buffer[Slot(head)][w]
    BY <1>1 DEF CopiesAgree, Words
  <2> QED
    BY <2>1, <2>2, <2>3, <2>4
<1> PICK h \in Counters : h = Inc(head)
  BY WrapFacts DEF Inc, TypeOK, Counters
<1>6. \A k \in 1 .. n - 1 : Slot(h + k - 1) = Slot(head + (k + 1) - 1)
  <2> SUFFICES ASSUME NEW k \in 1 .. n - 1 PROVE Slot(h + k - 1) = Slot(head + (k + 1) - 1)
    OBVIOUS
  <2>1. CASE head + 1 # Wrap
    <3>1. h + k - 1 = head + (k + 1) - 1
      BY <1>2, <2>1, WrapFacts DEF Inc, TypeOK, Counters
    <3> QED
      BY <3>1
  <2>2. CASE head + 1 = Wrap
    <3>1. h + k - 1 \in Nat /\ head + (k + 1) - 1 = (h + k - 1) + Wrap
      BY <1>2, <2>2, WrapFacts DEF Inc, TypeOK, Counters
    <3> QED
      BY <3>1, SlotWraps
  <2> QED
    BY <2>1, <2>2
<1> PICK m \in Nat : m = n - 1
  BY <1>2
<1> PICK later : later = Queue'
  OBVIOUS
<1>7. /\ later \in Seq([Words -> Data]) /\ Len(later) = m
      /\ \A k \in 1 .. m : later[k] = buffer[Slot(h + k - 1)]
  <2>1. later = From(buffer, h, m)
    BY <1>1, <1>2 DEF Queue, From
  <2>2. buffer \in [Slots -> [Words -> Data]] /\ h \in Nat
    BY WrapFacts DEF TypeOK, Counters
  <2>3. /\ From(buffer, h, m) \in Seq([Words -> Data]) /\ Len(From(buffer, h, m)) = m
        /\ \A k \in 1 .. m : From(buffer, h, m)[k] = buffer[Slot(h + k - 1)]
    BY <2>2, SlotsInOrder
  <2> QED
    BY <2>1, <2>3
<1> PICK rest : rest = Tail(Queue)
  OBVIOUS
<1>8. /\ rest \in Seq([Words -> Data]) /\ Len(rest) = m
      /\ \A k \in 1 .. m : rest[k] = Queue[k + 1]
  BY <1>3, <1>4, HeadTailProperties
<1>9. later = rest
  <2>1. \A k \in 1 .. m : later[k] = rest[k]
    <3> SUFFICES ASSUME NEW k \in 1 .. m PROVE later[k] = rest[k]
      OBVIOUS
    <3>1. k + 1 \in 1 .. n
      BY <1>2
    <3> QED
      BY <1>3, <1>6, <1>7, <1>8, <3>1, ZenonT(60)
  <2> HIDE DEF n
  <2> QED
    BY <1>7, <1>8, <2>1, SeqEqual
<1> QED
  BY <1>1, <1>4, <1>5, <1>9 DEF Fifo!Pop

(* A value half copied is not in the queue yet. *)
LEMMA CopyMaps ==
  ASSUME QueueInv, NEW w \in Words, NEW here \in {"copy1", "copy2"}, NEW next \in {"copy2", "publish"},
         PushCopy(w, here, next)
  PROVE  UNCHANGED Fifo!vars
<1> USE DEF QueueInv, RingInv
<1>1. /\ UNCHANGED <<tail, pushed, head, popped>>
      /\ Copying(push.at) /\ \A s \in Slots \ {Slot(tail)} : buffer'[s] = buffer[s]
  BY PushCopyStep DEF PushCopy, consumerVars
<1> PICK n \in 0 .. Capacity : n = Diff(tail, head)
  BY FilledSlots
<1>2. ASSUME NEW k \in 1 .. n
      PROVE  buffer'[Slot(head + k - 1)] = buffer[Slot(head + k - 1)]
  <2>1. k - 1 \in Nat /\ k - 1 < Wrap /\ k - 1 < n /\ head + (k - 1) = head + k - 1
    BY WrapFacts DEF TypeOK, Counters
  <2>2. PICK c \in Counters : Diff(c, head) = k - 1 /\ Slot(c) = Slot(head + k - 1)
    BY <2>1, CounterAhead DEF TypeOK
  <2>3. Slot(c) # Slot(tail) /\ Slot(c) \in Slots
    BY <1>1, <2>1, <2>2, FilledSlots, WrapFacts DEF Slot, Slots, Counters
  <2> QED
    BY <1>1, <2>2, <2>3
<1>3. Queue' = Queue
  <2>1. Queue' = [k \in 1 .. n |-> buffer'[Slot(head + k - 1)]]
    BY <1>1 DEF Queue, Diff
  <2>2. Queue = [k \in 1 .. n |-> buffer[Slot(head + k - 1)]]
    BY DEF Queue
  <2> QED
    BY <1>2, <2>1, <2>2
<1> QED
  BY <1>1, <1>3 DEF Fifo!vars

(* A refusal means full, or empty, unless the load was stale. *)
LEMMA LoadHeadMaps ==
  ASSUME QueueInv, PushLoadHead
  PROVE  Fifo!RefusePush \/ UNCHANGED Fifo!vars
<1> USE DEF QueueInv, RingInv
<1>1. PICK h \in Visible(head, cachedHead) :
        \/ UNCHANGED pushed
        \/ LooksFull(h) /\ pushed' = "full"
  BY DEF PushLoadHead
<1>2. UNCHANGED <<tail, buffer, head, popped>>
  BY DEF PushLoadHead, consumerVars
<1>3. Queue' = Queue
  BY <1>2 DEF Queue, Diff
<1>4. CASE UNCHANGED pushed
  BY <1>2, <1>3, <1>4 DEF Fifo!vars
<1>5. CASE LooksFull(h) /\ pushed' = "full"
  <2>1. Diff(tail, head) \in 0 .. Capacity /\ Diff(tail, head) \in Nat
    BY FilledSlots, WrapFacts
  <2>2. Len(Queue) = Diff(tail, head)
    BY <2>1, QueueFacts
  <2>3. ~StaleLoads => h = head
    BY <1>1 DEF Visible
  <2>4. ~StaleLoads => Diff(tail, head) = Capacity
    BY <1>5, <2>1, <2>3, WrapFacts DEF LooksFull
  <2>5. ~StaleLoads => Len(Queue) = Capacity
    BY <2>2, <2>4
  <2> QED
    BY <1>2, <1>3, <1>5, <2>5 DEF Fifo!RefusePush
<1> QED
  BY <1>1, <1>4, <1>5

(* An acquire load of tail either finds the ring empty, or is invisible. *)
LEMMA LoadTailMaps ==
  ASSUME QueueInv, PopLoadTail
  PROVE  Fifo!RefusePop \/ UNCHANGED Fifo!vars
<1> USE DEF QueueInv, RingInv
<1>1. PICK t \in Visible(tail, cachedTail) :
        \/ UNCHANGED popped
        \/ head = t /\ popped' = <<>>
  BY DEF PopLoadTail
<1>2. UNCHANGED <<tail, buffer, head, pushed>>
  BY DEF PopLoadTail, producerVars
<1>3. Queue' = Queue
  BY <1>2 DEF Queue, Diff
<1>4. CASE UNCHANGED popped
  BY <1>2, <1>3, <1>4 DEF Fifo!vars
<1>5. CASE head = t /\ popped' = <<>>
  <2>1. Diff(tail, head) \in Nat
    BY FilledSlots, WrapFacts
  <2>2. Queue \in Seq([Words -> Data]) /\ Len(Queue) = Diff(tail, head)
    BY <2>1, QueueFacts
  <2>3. ~StaleLoads => head = tail
    BY <1>1, <1>5 DEF Visible
  <2>4. ~StaleLoads => Diff(tail, head) = 0
    BY <2>3, WrapFacts DEF Diff, TypeOK, Counters
  <2>5. ~StaleLoads => Queue = <<>>
    BY <2>2, <2>4, EmptySeq
  <2> QED
    BY <1>2, <1>3, <1>5, <2>5 DEF Fifo!RefusePop
<1> QED
  BY <1>1, <1>4, <1>5

(* The empty ring is the empty queue. *)
LEMMA InitMaps == Init => Fifo!Init
<1> SUFFICES ASSUME Init PROVE Fifo!Init
  OBVIOUS
<1>1. QueueInv /\ tail = 0 /\ head = 0 /\ pushed = "none" /\ popped = <<>>
  BY InitQueue DEF Init
<1>2. Diff(tail, head) = 0
  BY <1>1 DEF Diff
<1>3. Queue \in Seq([Words -> Data]) /\ Len(Queue) = 0
  BY <1>1, <1>2, QueueFacts DEF QueueInv, RingInv
<1> QED
  BY <1>1, <1>3, EmptySeq DEF Fifo!Init

(* Every step is a push, a pop, a refusal, or invisible. *)
LEMMA StepMaps ==
  ASSUME QueueInv, QueueInv', [Next]_vars
  PROVE  [Fifo!Next]_(Fifo!vars)
<1>1. ASSUME UNCHANGED <<head, tail, buffer, pushed, popped>>
      PROVE  UNCHANGED Fifo!vars
  BY <1>1 DEF Fifo!vars, Queue, Diff
<1>2. CASE \E v \in Values, waits \in BOOLEAN : PushCall(v, waits)
  BY <1>1, <1>2 DEF PushCall, consumerVars
<1>3. CASE PushLoadHead
  BY <1>3, LoadHeadMaps DEF Fifo!Next
<1>4. CASE PushCopy(1, "copy1", "copy2") \/ PushCopy(2, "copy2", "publish")
  BY <1>4, CopyMaps DEF Words
<1>5. CASE PushPublish
  BY <1>5, PublishMaps DEF Fifo!Next
<1>6. CASE \E waits \in BOOLEAN : PopCall(waits)
  BY <1>1, <1>6 DEF PopCall, producerVars
<1>7. CASE PopLoadTail
  BY <1>7, LoadTailMaps DEF Fifo!Next
<1>8. CASE PopCopy(1, "copy1", "copy2") \/ PopCopy(2, "copy2", "publish")
  BY <1>1, <1>8 DEF PopCopy, producerVars
<1>9. CASE PopAdvance
  BY <1>9, AdvanceMaps DEF Fifo!Next
<1>10. CASE UNCHANGED vars
  BY <1>1, <1>10 DEF vars, producerVars, consumerVars
<1> QED
  BY <1>2, <1>3, <1>4, <1>5, <1>6, <1>7, <1>8, <1>9, <1>10 DEF Next, Producer, Consumer

(* The ring is a bounded FIFO queue for every capacity: no value is lost,  *)
(* repeated, reordered or torn, and only a full (empty) ring, or a stale   *)
(* load, refuses a push (pop).                                             *)
THEOREM RingImplementsFifo == Spec => ImplementsFifo
<1>1. Init => Fifo!Init
  BY InitMaps
<1>2. QueueInv /\ QueueInv' /\ [Next]_vars => [Fifo!Next]_(Fifo!vars)
  BY StepMaps
<1> QED
  BY <1>1, <1>2, QueueInvariant, PTL DEF Spec, ImplementsFifo, Fifo!Spec
=============================================================================
