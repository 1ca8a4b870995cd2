--------------------------- MODULE GgmlBridgeProofs ---------------------------
(***************************************************************************)
(* What ArenaBridge promises callers that free each buffer once, whatever  *)
(* handle they write through and whichever bridge they destroy first: for  *)
(* every number of threads, bridges, buffers, contexts and slots.          *)
(***************************************************************************)
EXTENDS GgmlBridge, FiniteSetTheorems, TLAPS

-----------------------------------------------------------------------------
(* What the checked arithmetic of Contracts promises, for every width of   *)
(* usize.                                                                  *)

(* A sum of two words wraps once at most. *)
LEMMA WrapOnce ==
  ASSUME NEW x \in Nat, x < 2 * UsizeMod
  PROVE  x % UsizeMod = IF x < UsizeMod THEN x ELSE x - UsizeMod
  BY UsizeAssumption

(* addOverflow's sum is the exact one unless it reports an overflow. *)
LEMMA SumExact ==
  ASSUME NEW a \in Usize, NEW b \in Usize, ~AddOverflow(a, b)
  PROVE  Sum(a, b) = a + b
  BY UsizeAssumption, WrapOnce DEF AddOverflow, Sum, Usize

(* contracts.hpp:59 "wrap-around detection for unsigned": the portable     *)
(* test of addOverflow agrees with the compiler's builtin.                 *)
THEOREM PortableAddAgrees ==
  ASSUME NEW a \in Usize, NEW b \in Usize
  PROVE  AddOverflowPortable(a, b) <=> AddOverflow(a, b)
  BY UsizeAssumption, WrapOnce DEF AddOverflow, AddOverflowPortable, Sum, Usize

(* contracts.hpp:85-86: rangeWithin() holds exactly if the bytes offset    *)
(* up to offset + length lie inside the buffer, where the sum is the one   *)
(* of the integers and does not wrap.                                      *)
THEOREM RangeWithinExact ==
  ASSUME NEW size \in Usize, NEW offset \in Usize, NEW length \in Usize
  PROVE  RangeWithin(size, offset, length) <=> offset + length <= size
  BY UsizeAssumption, SumExact DEF RangeWithin, AddOverflow, Usize

(* addBounded() holds exactly if the sum of the integers is in bounds. *)
THEOREM AddBoundedExact ==
  ASSUME NEW a \in Usize, NEW b \in Usize, NEW limit \in Usize
  PROVE  AddBounded(a, b, limit) <=> a + b <= limit
  BY UsizeAssumption, SumExact DEF AddBounded, AddOverflow, Usize

(* A quotient is the largest factor that fits. *)
LEMMA QuotientFits ==
  ASSUME NEW p \in Nat, NEW a \in Nat \ {0}
  PROVE  p \div a \in Int /\ a * (p \div a) <= p /\ p < a * (p \div a) + a
BY Z3

(* Factors of one product that both fit differ by less than one. *)
LEMMA SameFactor ==
  ASSUME NEW a \in Nat \ {0}, NEW q \in Int, NEW b \in Int, a * q <= a * b, a * b < a * q + a
  PROVE  q = b
<1> DEFINE d == b - q
<1>1. a * b = a * q + a * d /\ d \in Int
  BY Z3
<1>2. a * d \in Int /\ a * q \in Int /\ a * b \in Int
  BY <1>1
<1>3. 0 <= a * d /\ a * d < a
  BY <1>1, <1>2
<1> HIDE DEF d
<1>4. d < 1
  <2>1. d >= 1 => a * d >= a
    BY <1>1, Z3
  <2> QED
    BY <1>1, <1>2, <1>3, <2>1
<1>5. d > -1
  <2>1. d <= -1 => a * d <= -a
    BY <1>1, Z3
  <2> QED
    BY <1>1, <1>2, <1>3, <2>1
<1>6. d = 0
  BY <1>1, <1>4, <1>5
<1> QED
  BY <1>6 DEF d

(* contracts.hpp:67-69: dividing the wrapped product back finds every      *)
(* overflow of a product and reports no other, like the builtin.           *)
THEOREM PortableMulAgrees ==
  ASSUME NEW a \in Usize, NEW b \in Usize
  PROVE  MulOverflowPortable(a, b) <=> MulOverflow(a, b)
<1> USE UsizeAssumption
<1>1. a \in Nat /\ b \in Nat /\ a * b \in Nat /\ UsizeMod \in Nat \ {0}
  BY DEF Usize
<1>2. CASE a = 0 \/ b = 0
  <2>1. a * b = 0
    BY <1>1, <1>2
  <2> QED
    BY <1>1, <1>2, <2>1 DEF MulOverflowPortable, MulOverflow
<1>3. CASE a # 0 /\ b # 0
  <2> PICK m \in Nat : m = a * b
    BY <1>1
  <2> PICK p : p = Product(a, b)
    OBVIOUS
  <2>1. p = m % UsizeMod
    BY DEF Product
  <2>2. p \in Nat /\ p < UsizeMod /\ (m < UsizeMod => p = m)
    BY <1>1, <2>1
  <2>3. MulOverflowPortable(a, b) <=> p \div a # b
    BY <1>3 DEF MulOverflowPortable
  <2>4. p \div a \in Int /\ a * (p \div a) <= p /\ p < a * (p \div a) + a
    BY <1>1, <1>3, <2>2, QuotientFits
  <2>5. ASSUME m < UsizeMod PROVE p \div a = b
    BY <1>1, <1>3, <2>2, <2>4, <2>5, SameFactor
  <2>6. ASSUME m >= UsizeMod PROVE p \div a # b
    BY <1>1, <2>2, <2>4, <2>6
  <2> QED
    BY <1>1, <2>3, <2>5, <2>6 DEF MulOverflow
<1> QED
  BY <1>2, <1>3

-----------------------------------------------------------------------------
(* The bridge. *)

FreesOnce == "double_free" \notin Misuse

(* The roles a thread plays, and what buffers and threads own. *)
IsLive(b)     == buffers[b].state = "live"
Making(t)     == call[t].buf = 0 /\ call[t].at # "idle"
Frees(t)      == call[t].buf # 0 /\ call[t].at \in {"freeSlot", "markFreed", "return"}
Writes(t)     == call[t].at \in {"askSeal", "store"}
Has(b, c)     == IsLive(b) /\ buffers[b].ctx = c
Takes(t, c)   == Making(t) /\ call[t].ctx = c
Holds(b, s)   == IsLive(b) /\ buffers[b].slot = s /\ ~SlotReleased(b)
Carries(t, s) == Making(t) /\ call[t].slot = s

(* What a step of a call can rely on. *)
StepHolds(t) ==
  /\ call[t].at = "idle" => call[t].buf = 0 /\ call[t].ctx = NoContext /\ call[t].access = NoAddr
  /\ call[t].at \in {"slot", "context", "reset", "fill", "init"} => call[t].buf = 0 /\ Live(call[t].access)
  /\ call[t].at \in {"slot", "context", "dropSlot"} => call[t].buf = 0 /\ call[t].ctx = NoContext
  /\ call[t].at = "slot" => call[t].slot = NoSlot
  /\ call[t].at = "dropSlot" => call[t].slot \in Slots
  /\ call[t].at \in {"reset", "fill", "init", "markFreed", "return"} => call[t].ctx \in Contexts
  /\ call[t].at = "freeSlot" => call[t].buf # 0 /\ call[t].slot \in Slots
  /\ call[t].at \in {"askSeal", "store"} => call[t].buf # 0 /\ call[t].slot \in Slots
  /\ call[t].buf # 0 => buffers[call[t].buf].state # "none"

StepsHold == \A t \in Threads : StepHolds(t)

(* Install tokens are handed out once, and a live one is at the address    *)
(* its bridge's buffers name.                                              *)
TokensUnique ==
  /\ \A a \in Addrs : Live(a) => storage[a].token \in 1 .. tokens
  /\ \A a, e \in Addrs : Live(a) /\ Live(e) /\ storage[a].token = storage[e].token => a = e
  /\ \A b \in Buffers : buffers[b].state # "none" =>
       /\ buffers[b].token \in 1 .. tokens /\ buffers[b].buft \in Addrs
       /\ \A a \in Addrs : Live(a) /\ storage[a].token = buffers[b].token => a = buffers[b].buft

(* A context in use is a live buffer's or a making call's, of one of them. *)
ContextsOwned ==
  /\ \A b \in Buffers : buffers[b].state # "none" => buffers[b].ctx \in Contexts
  /\ \A c \in Contexts :
       /\ c \in inUse <=> (\E b \in Buffers : Has(b, c)) \/ (\E t \in Threads : Takes(t, c))
       /\ \A b, e \in Buffers : Has(b, c) /\ Has(e, c) => b = e
       /\ \A t, u \in Threads : Takes(t, c) /\ Takes(u, c) => t = u
       /\ \A b \in Buffers, t \in Threads : ~(Has(b, c) /\ Takes(t, c))

(* A free_buffer is alone on its context. *)
FreerAlone(t) ==
  /\ IsLive(call[t].buf)
  /\ call[t].ctx = buffers[call[t].buf].ctx /\ call[t].slot = buffers[call[t].buf].slot
  /\ \A u \in Threads \ {t} : call[u].ctx # call[t].ctx

FreersAlone == \A t \in Threads : Frees(t) => FreerAlone(t)

(* The context of a buffer describes it, and one at rest says so. *)
Mirrors(b) ==
  LET ctx == pool[buffers[b].ctx]
  IN  /\ ctx.access = buffers[b].buft /\ ctx.slot = buffers[b].slot
      /\ ctx.size = buffers[b].size /\ ctx.token = buffers[b].token
      /\ ctx.protected <=> b \in sealed
      /\ ctx.magic = "buffer" \/ \E t \in Threads : call[t].buf = b /\ call[t].at = "return"

Prepared(t) ==
  LET ctx == pool[call[t].ctx]
  IN  /\ call[t].at = "return" => ctx.magic = "freed"
      /\ call[t].at \in {"fill", "init"} => ctx.magic = "buffer" /\ ~ctx.protected
      /\ call[t].at = "init" =>
           /\ ctx.access = call[t].access /\ ctx.slot = call[t].slot /\ ctx.size = call[t].size
           /\ ctx.token = storage[call[t].access].token

ContextsMirror ==
  /\ \A b \in Buffers : IsLive(b) => Mirrors(b)
  /\ \A t \in Threads : Prepared(t)
  /\ \A b \in sealed : IsLive(b)
  /\ \A c \in Contexts \ inUse : pool[c].magic = "freed" \/ pool[c].access = NoAddr

(* A write that passed its checks has a live buffer to write to. *)
Target(t) ==
  /\ \E b \in Buffers :
       /\ IsLive(b) /\ buffers[b].ctx = call[t].ctx /\ buffers[b].slot = call[t].slot
       /\ \A i \in call[t].bytes : i < buffers[b].size
       /\ call[t].buf = b \/ Strays(call[t].buf, b)
  /\ call[t].late => pool[call[t].ctx].protected
  /\ call[t].at = "store" => ~call[t].late

WritersTarget == \A t \in Threads : Writes(t) => Target(t)

(* A slot in use is a live buffer's or a making call's, of one of them, or *)
(* its buffer outlived its bridge.                                         *)
SlotsOwned ==
  \A s \in Slots :
    /\ s \in used => \/ \E b \in Buffers : Holds(b, s)
                     \/ \E t \in Threads : Carries(t, s)
                     \/ Orphan(s)
    /\ \A b \in Buffers : Holds(b, s) => s \in used
    /\ \A t \in Threads : Carries(t, s) => s \in used
    /\ \A b, e \in Buffers : Holds(b, s) /\ Holds(e, s) => b = e
    /\ \A t, u \in Threads : Carries(t, s) /\ Carries(u, s) => t = u
    /\ \A b \in Buffers, t \in Threads : ~(Holds(b, s) /\ Carries(t, s))

(* Whose bytes a slot holds: none while it is free or carried by a call    *)
(* that makes a buffer.                                                    *)
BytesOwned ==
  \A s \in Slots, i \in Bytes : mem[s][i] # 0 =>
    /\ s \in used /\ \A t \in Threads : ~Carries(t, s)
    /\ buffers[mem[s][i]].state # "none"
    /\ \A b \in Buffers : Holds(b, s) =>
         /\ i < buffers[b].size
         /\ mem[s][i] = b \/ Strays(mem[s][i], b)

(***************************************************************************)
(* The inductive invariant.  That writes and seals stay with their buffer  *)
(* needs the contexts owned, and that they are owned needs to know what    *)
(* every call in flight holds.                                             *)
(***************************************************************************)
GgmlInv ==
  /\ TypeOK /\ FreesOnce
  /\ StepsHold /\ TokensUnique
  /\ ContextsOwned /\ FreersAlone /\ ContextsMirror
  /\ WritersTarget
  /\ SlotsOwned /\ BytesOwned

-----------------------------------------------------------------------------
(* Types, field by field. *)

(* The ranges of the constants. *)
LEMMA SlotFacts ==
  /\ SlotCount \in Nat /\ NoSlot \notin Slots /\ \A s \in 0 .. NoSlot : s # NoSlot => s \in Slots
  /\ kSlotSize \in Nat \ {0} /\ MaxBufferSize \in Nat /\ MaxBufferSize <= kSlotSize
  /\ MaxBuffers \in Nat /\ 0 \notin Buffers /\ \A b \in 0 .. MaxBuffers : b # 0 => b \in Buffers
  /\ MaxBridges \in Nat /\ NoAddr \notin Addrs /\ NoContext \notin Contexts
BY GgmlAssumption DEF Slots, NoSlot, Buffers

(* The record of a call. *)
LEMMA CallFacts ==
  ASSUME TypeOK, NEW t \in Threads
  PROVE  /\ call[t] \in Call /\ call[t].at \in Steps
         /\ call[t].buf \in 0 .. MaxBuffers /\ (call[t].buf # 0 => call[t].buf \in Buffers)
         /\ call[t].access \in Addrs \cup {NoAddr} /\ call[t].ctx \in Contexts \cup {NoContext}
         /\ call[t].slot \in 0 .. NoSlot /\ (call[t].slot # NoSlot => call[t].slot \in Slots)
         /\ call[t].size \in 0 .. kSlotSize /\ call[t].bytes \in SUBSET Bytes
         /\ call[t].late \in BOOLEAN
<1>1. call[t] \in Call
  BY DEF TypeOK
<1> QED
  BY <1>1, SlotFacts DEF Call

(* The struct ggml_backend_buffer. *)
LEMMA BufferFacts ==
  ASSUME TypeOK, NEW b \in Buffers
  PROVE  /\ buffers[b] \in Struct /\ buffers[b].state \in {"none", "live", "freed"}
         /\ buffers[b].buft \in Addrs \cup {NoAddr} /\ buffers[b].ctx \in Contexts \cup {NoContext}
         /\ buffers[b].slot \in 0 .. NoSlot /\ (buffers[b].slot # NoSlot => buffers[b].slot \in Slots)
         /\ buffers[b].size \in 0 .. kSlotSize /\ buffers[b].token \in 0 .. MaxBridges
<1>1. buffers[b] \in Struct
  BY DEF TypeOK
<1> QED
  BY <1>1, SlotFacts DEF Struct

(* The BufferContext. *)
LEMMA ContextFacts ==
  ASSUME TypeOK, NEW c \in Contexts
  PROVE  /\ pool[c] \in Context /\ pool[c].magic \in {"buffer", "freed"}
         /\ pool[c].access \in Addrs \cup {NoAddr}
         /\ pool[c].slot \in 0 .. NoSlot /\ (pool[c].slot # NoSlot => pool[c].slot \in Slots)
         /\ pool[c].size \in 0 .. kSlotSize /\ pool[c].token \in 0 .. MaxBridges
         /\ pool[c].protected \in BOOLEAN
<1>1. pool[c] \in Context
  BY DEF TypeOK
<1> QED
  BY <1>1, SlotFacts DEF Context

Others(t) == \A u \in Threads \ {t} : call'[u] = call[u]

(* A thread that changes its own record only. *)
LEMMA OneCall ==
  ASSUME TypeOK, NEW t \in Threads, NEW new \in Call, call' = [call EXCEPT ![t] = new]
  PROVE  call' \in [Threads -> Call] /\ call'[t] = new /\ Others(t)
BY DEF TypeOK, Others

(* A thread outside every callback. *)
LEMMA IdleFacts ==
  /\ Idle \in Call /\ Idle.at = "idle" /\ Idle.buf = 0 /\ Idle.access = NoAddr /\ Idle.ctx = NoContext
  /\ Idle.slot = NoSlot /\ Idle.size = 0 /\ Idle.bytes = {} /\ Idle.late = FALSE
BY SlotFacts DEF Idle, Call, Steps, NoSlot

(* GoOn and RollBack, field by field. *)
LEMMA GoOnFacts ==
  ASSUME TypeOK, NEW t \in Threads, NEW step \in Steps, GoOn(t, step)
  PROVE  /\ call' \in [Threads -> Call] /\ Others(t)
         /\ call'[t].at = step /\ call'[t].buf = call[t].buf /\ call'[t].access = call[t].access
         /\ call'[t].ctx = call[t].ctx /\ call'[t].slot = call[t].slot /\ call'[t].size = call[t].size
         /\ call'[t].bytes = call[t].bytes /\ call'[t].late = call[t].late
<1>1. call' = [call EXCEPT ![t].at = step] /\ call[t] \in Call
  BY CallFacts DEF GoOn
<1> QED
  BY <1>1 DEF TypeOK, Call, Others

(* A return leaves the thread outside. *)
LEMMA ReturnFacts ==
  ASSUME TypeOK, NEW t \in Threads, Return(t)
  PROVE  call' \in [Threads -> Call] /\ Others(t) /\ call'[t] = Idle
BY OneCall, IdleFacts DEF Return

(* An allocation that fails keeps its slot until it drops it. *)
LEMMA RollBackFacts ==
  ASSUME TypeOK, NEW t \in Threads, RollBack(t), call[t].buf = 0
  PROVE  /\ call' \in [Threads -> Call] /\ Others(t)
         /\ call'[t].buf = 0 /\ call'[t].ctx = NoContext
         /\ \/ call[t].slot = NoSlot /\ call'[t] = Idle
            \/ /\ call[t].slot \in Slots /\ call'[t].at = "dropSlot" /\ call'[t].slot = call[t].slot
               /\ call'[t].access = call[t].access
<1>1. CASE call[t].slot = NoSlot
  BY <1>1, ReturnFacts, IdleFacts DEF RollBack
<1>2. CASE call[t].slot # NoSlot
  <2>1. call' = [call EXCEPT ![t] = [@ EXCEPT !.at = "dropSlot", !.ctx = NoContext]]
    BY <1>2 DEF RollBack
  <2>2. call[t] \in Call /\ call[t].slot \in Slots
    BY <1>2, CallFacts
  <2> QED
    BY <2>1, <2>2 DEF TypeOK, Call, Steps, Others
<1> QED
  BY <1>1, <1>2

-----------------------------------------------------------------------------
(* What a part of the invariant depends on. *)

(* A step that changes no context's owner keeps ContextsOwned. *)
LEMMA ContextsKept ==
  ASSUME ContextsOwned, inUse' = inUse,
         \A b \in Buffers : buffers'[b].state # "none" =>
           buffers[b].state # "none" /\ buffers'[b].ctx = buffers[b].ctx,
         \A c \in Contexts, b \in Buffers : Has(b, c)' <=> Has(b, c),
         \A c \in Contexts, t \in Threads : Takes(t, c)' <=> Takes(t, c)
  PROVE  ContextsOwned'
BY DEF ContextsOwned

(* A step that changes no slot's owner keeps SlotsOwned. *)
LEMMA SlotsKept ==
  ASSUME SlotsOwned, used' = used,
         \A s \in Slots, b \in Buffers : Holds(b, s)' <=> Holds(b, s),
         \A s \in Slots, t \in Threads : Carries(t, s)' <=> Carries(t, s),
         \A s \in Slots : Orphan(s) => Orphan(s)'
  PROVE  SlotsOwned'
BY DEF SlotsOwned

(* A step that writes no byte and moves no slot keeps BytesOwned. *)
LEMMA BytesKept ==
  ASSUME BytesOwned, used' = used, mem' = mem,
         \A b \in Buffers : buffers[b].state # "none" =>
           /\ buffers'[b].state # "none" /\ buffers'[b].size = buffers[b].size
           /\ buffers'[b].buft = buffers[b].buft
           /\ buffers[b].state = "freed" => buffers'[b].state = "freed",
         \A s \in Slots, i \in Bytes : mem[s][i] \in 0 .. MaxBuffers,
         \A s \in Slots, b \in Buffers : Holds(b, s)' => Holds(b, s),
         \A s \in Slots, t \in Threads : Carries(t, s)' => Carries(t, s)
  PROVE  BytesOwned'
<1> SUFFICES ASSUME NEW s \in Slots, NEW i \in Bytes, mem[s][i] # 0
             PROVE  /\ s \in used /\ \A t \in Threads : ~Carries(t, s)'
                    /\ buffers'[mem[s][i]].state # "none"
                    /\ \A b \in Buffers : Holds(b, s)' =>
                         /\ i < buffers'[b].size
                         /\ \/ mem[s][i] = b
                            \/ /\ "stale_write" \in Misuse /\ buffers'[mem[s][i]].state = "freed"
                               /\ buffers'[mem[s][i]].buft = buffers'[b].buft
  BY DEF BytesOwned, Strays
<1>1. mem[s][i] \in Buffers
  BY SlotFacts
<1>2. \A b \in Buffers : Holds(b, s) => buffers[b].state # "none"
  BY DEF Holds, IsLive
<1> QED
  BY <1>1, <1>2 DEF BytesOwned, Strays

(* Slots without an owner stay without one. *)
LEMMA OrphansKept ==
  ASSUME NEW s \in Slots, Orphan(s),
         \A b \in Buffers : buffers[b].state = "freed" \/ SlotReleased(b) =>
           /\ buffers'[b].slot = buffers[b].slot /\ buffers'[b].token = buffers[b].token
           /\ buffers'[b].state = "freed" \/ SlotReleased(b)'
           /\ Gone(buffers[b].token) => Gone(buffers[b].token)'
  PROVE  Orphan(s)'
<1>1. PICK b \in Buffers : /\ buffers[b].slot = s /\ Gone(buffers[b].token)
                           /\ buffers[b].state = "freed" \/ SlotReleased(b)
  BY DEF Orphan
<1>2. PICK k : k = buffers[b].token
  OBVIOUS
<1>3. buffers'[b].token = k /\ Gone(k)'
  BY <1>1, <1>2
<1>4. Gone(buffers[b].token)'
  BY <1>3 DEF Gone
<1> QED
  BY <1>1, <1>4 DEF Orphan

-----------------------------------------------------------------------------
(* Who frees buffer b has its context to itself. *)
LEMMA FreerFacts ==
  ASSUME GgmlInv, NEW t \in Threads, Frees(t)
  PROVE  /\ call[t].buf \in Buffers /\ IsLive(call[t].buf)
         /\ call[t].ctx \in Contexts /\ call[t].ctx # NoContext /\ Has(call[t].buf, call[t].ctx)
         /\ call[t].slot = buffers[call[t].buf].slot
         /\ \A u \in Threads \ {t} : call[u].ctx # call[t].ctx
<1>1. call[t].buf \in Buffers
  BY CallFacts DEF GgmlInv, Frees
<1>2. FreerAlone(t)
  BY DEF GgmlInv, FreersAlone
<1> QED
  BY <1>1, <1>2, SlotFacts DEF FreerAlone, Has, IsLive, GgmlInv, ContextsOwned

(* What a step inside a call of t owes the other calls. *)
LEMMA CallCommon ==
  ASSUME GgmlInv, NEW t \in Threads, Others(t), UNCHANGED <<storage, tokens, buffers>>,
         StepHolds(t)',
         Frees(t)' => FreerAlone(t)',
         Writes(t)' => Target(t)',
         \A u \in Threads \ {t} : Frees(u) => call'[t].ctx # call[u].ctx,
         \A u \in Threads \ {t} : Writes(u) => pool'[call[u].ctx].protected = pool[call[u].ctx].protected
  PROVE  StepsHold' /\ TokensUnique' /\ FreersAlone' /\ WritersTarget'
<1> USE DEF GgmlInv
<1>1. StepsHold'
  BY DEF StepsHold, StepHolds, Others, Live
<1>2. TokensUnique'
  BY DEF TokensUnique, Live
<1>3. FreersAlone'
  <2> SUFFICES ASSUME NEW u \in Threads, Frees(u)', u # t PROVE FreerAlone(u)'
    BY DEF FreersAlone
  <2>1. Frees(u) /\ call'[u] = call[u]
    BY DEF Others, Frees
  <2>2. FreerAlone(u)
    BY <2>1 DEF FreersAlone
  <2> QED
    BY <2>1, <2>2 DEF FreerAlone, IsLive, Others
<1>4. WritersTarget'
  <2> SUFFICES ASSUME NEW u \in Threads, Writes(u)', u # t PROVE Target(u)'
    BY DEF WritersTarget
  <2>1. call'[u] = call[u] /\ Writes(u) /\ Target(u)
    BY DEF Others, Writes, WritersTarget
  <2> QED
    BY <2>1 DEF Target, Strays, IsLive
<1> QED
  BY <1>1, <1>2, <1>3, <1>4

(* Only a free_buffer releases the slot of a buffer. *)
LEMMA NoFreerReleases ==
  ASSUME NEW t \in Threads, Others(t), ~Frees(t), ~Frees(t)', NEW b \in Buffers
  PROVE  SlotReleased(b)' <=> SlotReleased(b)
<1>1. b # 0
  BY SlotFacts
<1> QED
  BY <1>1 DEF SlotReleased, Frees, Others

(* Steps of an allocation that touch no context keep ContextsMirror. *)
LEMMA MirrorsKept ==
  ASSUME GgmlInv, NEW t \in Threads, Others(t), UNCHANGED <<storage, pool, buffers, sealed>>,
         inUse \subseteq inUse', ~Frees(t), call'[t].at \notin {"fill", "init", "return"}
  PROVE  ContextsMirror'
<1> USE DEF GgmlInv
<1>1. ASSUME NEW b \in Buffers, IsLive(b) PROVE Mirrors(b)'
  <2>1. Mirrors(b)
    BY <1>1 DEF ContextsMirror
  <2>2. ASSUME NEW u \in Threads, call[u].buf = b, call[u].at = "return"
        PROVE  call'[u].buf = b /\ call'[u].at = "return"
    BY <2>2, SlotFacts DEF Others, Frees
  <2> QED
    BY <2>1, <2>2 DEF Mirrors
<1>2. \A u \in Threads : Prepared(u)'
  BY DEF ContextsMirror, Prepared, Others
<1>3. \A b \in sealed : IsLive(b) /\ b \in Buffers
  BY DEF ContextsMirror, TypeOK
<1> QED
  BY <1>1, <1>2, <1>3 DEF ContextsMirror, IsLive

(* Steps inside a call that touch nothing but the call. *)
LEMMA CallOnly ==
  ASSUME GgmlInv, NEW t \in Threads, Others(t), call' \in [Threads -> Call],
         UNCHANGED <<storage, tokens, pool, inUse, used, mem, buffers, sealed>>,
         ~Frees(t), ~Frees(t)', call'[t].at \notin {"fill", "init", "return"},
         StepHolds(t)',
         \A c \in Contexts : Takes(t, c)' <=> Takes(t, c),
         \A s \in Slots : Carries(t, s)' <=> Carries(t, s),
         \A u \in Threads \ {t} : Frees(u) => call'[t].ctx # call[u].ctx,
         Writes(t)' => Target(t)'
  PROVE  GgmlInv'
<1> USE DEF GgmlInv
<1>1. TypeOK' /\ FreesOnce'
  BY DEF TypeOK, FreesOnce
<1>2. StepsHold' /\ TokensUnique' /\ FreersAlone' /\ WritersTarget'
  BY CallCommon
<1>3. \A b \in Buffers : SlotReleased(b)' <=> SlotReleased(b)
  BY NoFreerReleases
<1>4. ContextsOwned'
  <2>1. \A c \in Contexts, u \in Threads : Takes(u, c)' <=> Takes(u, c)
    BY DEF Takes, Making, Others
  <2> QED
    BY <2>1, ContextsKept DEF Has, IsLive
<1>5. ContextsMirror'
  BY MirrorsKept
<1>6. \A s \in Slots, u \in Threads : Carries(u, s)' <=> Carries(u, s)
  BY DEF Carries, Making, Others
<1>7. \A s \in Slots, b \in Buffers : Holds(b, s)' <=> Holds(b, s)
  BY <1>3 DEF Holds, IsLive
<1>8. SlotsOwned'
  <2>1. \A s \in Slots : Orphan(s) => Orphan(s)'
    BY <1>3, OrphansKept DEF Gone, Live
  <2> QED
    BY <1>6, <1>7, <2>1, SlotsKept
<1>9. BytesOwned'
  BY <1>6, <1>7, BytesKept DEF TypeOK
<1> QED
  BY <1>1, <1>2, <1>4, <1>5, <1>8, <1>9

(* alloc_buffer: size and bridge are checked. *)
LEMMA AllocCallKeeps ==
  ASSUME GgmlInv, NEW t \in Threads, NEW a \in Addrs, NEW n \in 0 .. MaxBufferSize, AllocCall(t, a, n)
  PROVE  GgmlInv'
<1> USE DEF GgmlInv
<1> DEFINE step == IF n = 0 THEN "context" ELSE "slot"
           new == [Idle EXCEPT !.at = step, !.access = a, !.size = n]
<1>1. call[t].at = "idle" /\ call[t].buf = 0 /\ call[t].ctx = NoContext /\ Live(a)
  BY DEF AllocCall, At, StepsHold, StepHolds
<1>2. /\ new \in Call /\ new.at = step /\ new.buf = 0 /\ new.access = a /\ new.ctx = NoContext
      /\ new.slot = NoSlot
  <2>1. n \in 0 .. kSlotSize /\ step \in Steps
    BY SlotFacts DEF Steps
  <2> QED
    BY <2>1, IdleFacts DEF Call
<1>3. /\ call' = [call EXCEPT ![t] = new]
      /\ UNCHANGED <<storage, tokens, pool, inUse, used, mem, buffers, sealed>>
  BY DEF AllocCall
<1> HIDE DEF new
<1>4. call' \in [Threads -> Call] /\ call'[t] = new /\ Others(t)
  BY <1>2, <1>3, OneCall
<1>5. ~Frees(t) /\ ~Frees(t)' /\ ~Writes(t)' /\ call'[t].at \notin {"fill", "init", "return"}
  BY <1>1, <1>2, <1>4 DEF Frees, Writes
<1>6. StepHolds(t)'
  BY <1>1, <1>2, <1>3, <1>4 DEF StepHolds, Live
<1>7. /\ \A c \in Contexts : ~Takes(t, c)' /\ ~Takes(t, c)
      /\ \A s \in Slots : ~Carries(t, s)' /\ ~Carries(t, s)
  BY <1>1, <1>2, <1>4, SlotFacts DEF Takes, Carries, Making
<1> QED
  BY <1>2, <1>3, <1>4, <1>5, <1>6, <1>7, FreerFacts, CallOnly

(* alloc_buffer: the arena is full. *)
LEMMA AllocateFailsKeeps ==
  ASSUME GgmlInv, NEW t \in Threads, AllocateFails(t)
  PROVE  GgmlInv'
<1> USE DEF GgmlInv
<1>1. call[t].at = "slot" /\ call[t].buf = 0 /\ call[t].ctx = NoContext /\ call[t].slot = NoSlot
  BY DEF AllocateFails, At, StepsHold, StepHolds
<1>2. UNCHANGED <<storage, tokens, pool, inUse, used, mem, buffers, sealed>>
  BY DEF AllocateFails
<1>3. call' \in [Threads -> Call] /\ Others(t) /\ call'[t] = Idle
  BY ReturnFacts DEF AllocateFails
<1>4. ~Frees(t) /\ ~Frees(t)' /\ ~Writes(t)' /\ StepHolds(t)' /\ call'[t].at \notin {"fill", "init", "return"}
  BY <1>1, <1>3, IdleFacts DEF Frees, Writes, StepHolds
<1>5. /\ \A c \in Contexts : ~Takes(t, c)' /\ ~Takes(t, c)
      /\ \A s \in Slots : ~Carries(t, s)' /\ ~Carries(t, s)
  BY <1>1, <1>3, IdleFacts, SlotFacts DEF Takes, Carries, Making
<1> QED
  BY <1>2, <1>3, <1>4, <1>5, FreerFacts, IdleFacts, CallOnly

(* alloc_buffer: the pool is empty, and the slot is rolled back. *)
LEMMA PoolExhaustedKeeps ==
  ASSUME GgmlInv, NEW t \in Threads, PoolExhausted(t)
  PROVE  GgmlInv'
<1> USE DEF GgmlInv
<1>1. call[t].at = "context" /\ call[t].buf = 0 /\ call[t].ctx = NoContext
  BY DEF PoolExhausted, At, StepsHold, StepHolds
<1>2. UNCHANGED <<storage, tokens, pool, inUse, used, mem, buffers, sealed>>
  BY DEF PoolExhausted
<1>3. /\ call' \in [Threads -> Call] /\ Others(t)
      /\ call'[t].buf = 0 /\ call'[t].ctx = NoContext
      /\ \/ call[t].slot = NoSlot /\ call'[t] = Idle
         \/ call[t].slot \in Slots /\ call'[t].at = "dropSlot" /\ call'[t].slot = call[t].slot
  BY <1>1, RollBackFacts DEF PoolExhausted
<1>4. ~Frees(t) /\ ~Frees(t)' /\ ~Writes(t)' /\ StepHolds(t)' /\ call'[t].at \notin {"fill", "init", "return"}
  BY <1>1, <1>3, IdleFacts DEF Frees, Writes, StepHolds
<1>5. /\ \A c \in Contexts : ~Takes(t, c)' /\ ~Takes(t, c)
      /\ \A s \in Slots : Carries(t, s)' <=> Carries(t, s)
  BY <1>1, <1>3, IdleFacts, SlotFacts DEF Takes, Carries, Making
<1> QED
  BY <1>2, <1>3, <1>4, <1>5, FreerFacts, CallOnly

(* alloc_buffer: ggml_backend_buffer_init fails, and both are rolled back. *)
LEMMA InitFailsKeeps ==
  ASSUME GgmlInv, NEW t \in Threads, InitFails(t)
  PROVE  GgmlInv'
<1> USE DEF GgmlInv
<1>1. call[t].at = "init" /\ call[t].buf = 0 /\ call[t].ctx \in Contexts
  BY DEF InitFails, At, StepsHold, StepHolds
<1>2. UNCHANGED <<storage, tokens, pool, inUse, used, mem, buffers, sealed>>
  BY DEF InitFails
<1>3. /\ call' \in [Threads -> Call] /\ Others(t)
      /\ call'[t].at = "markFreed" /\ call'[t].buf = call[t].buf
      /\ call'[t].ctx = call[t].ctx /\ call'[t].slot = call[t].slot
  BY GoOnFacts DEF InitFails, Steps
<1>4. ~Frees(t) /\ ~Frees(t)' /\ ~Writes(t)' /\ StepHolds(t)' /\ call'[t].at \notin {"fill", "init", "return"}
  BY <1>1, <1>3 DEF Frees, Writes, StepHolds
<1>5. /\ \A c \in Contexts : Takes(t, c)' <=> Takes(t, c)
      /\ \A s \in Slots : Carries(t, s)' <=> Carries(t, s)
  BY <1>1, <1>3 DEF Takes, Carries, Making
<1> QED
  BY <1>2, <1>3, <1>4, <1>5, FreerFacts, CallOnly

(* The seal is asked for once, between the checks and the store. *)
LEMMA AskSealKeeps ==
  ASSUME GgmlInv, NEW t \in Threads, AskSeal(t)
  PROVE  GgmlInv'
<1> USE DEF GgmlInv
<1>1. call[t].at = "askSeal" /\ call[t].buf # 0 /\ call[t].slot \in Slots /\ Target(t)
      /\ buffers[call[t].buf].state # "none"
  BY DEF AskSeal, At, StepsHold, StepHolds, WritersTarget, Writes
<1>2. UNCHANGED <<storage, tokens, pool, inUse, used, mem, buffers, sealed>>
  BY DEF AskSeal
<1>3. CASE pool[call[t].ctx].protected
  <2>1. call' \in [Threads -> Call] /\ Others(t) /\ call'[t] = Idle
    BY <1>3, ReturnFacts DEF AskSeal
  <2>2. ~Frees(t) /\ ~Frees(t)' /\ ~Writes(t)' /\ StepHolds(t)' /\ call'[t].at \notin {"fill", "init", "return"}
    BY <1>1, <2>1, IdleFacts DEF Frees, Writes, StepHolds
  <2>3. /\ \A c \in Contexts : ~Takes(t, c)' /\ ~Takes(t, c)
        /\ \A s \in Slots : ~Carries(t, s)' /\ ~Carries(t, s)
    BY <1>1, <2>1, IdleFacts DEF Takes, Carries, Making
  <2> QED
    BY <1>2, <2>1, <2>2, <2>3, FreerFacts, IdleFacts, CallOnly
<1>4. CASE ~pool[call[t].ctx].protected
  <2>1. /\ call' \in [Threads -> Call] /\ Others(t)
        /\ call'[t].at = "store" /\ call'[t].buf = call[t].buf /\ call'[t].bytes = call[t].bytes
        /\ call'[t].ctx = call[t].ctx /\ call'[t].slot = call[t].slot /\ call'[t].late = call[t].late
    BY <1>4, GoOnFacts DEF AskSeal, Steps
  <2>2. ~Frees(t) /\ ~Frees(t)' /\ StepHolds(t)' /\ call'[t].at \notin {"fill", "init", "return"}
    BY <1>1, <1>2, <2>1 DEF Frees, StepHolds
  <2>3. /\ \A c \in Contexts : Takes(t, c)' <=> Takes(t, c)
        /\ \A s \in Slots : Carries(t, s)' <=> Carries(t, s)
    BY <1>1, <2>1 DEF Takes, Carries, Making
  <2>4. Target(t)'
    BY <1>1, <1>2, <1>4, <2>1 DEF Target, Strays, IsLive
  <2> QED
    BY <1>2, <2>1, <2>2, <2>3, <2>4, FreerFacts, CallOnly
<1> QED
  BY <1>3, <1>4

(* The checked arithmetic keeps a write inside the requested size. *)
LEMMA TargetBytes ==
  ASSUME NEW ctx, ctx.slot \in Slots, ctx.size \in 0 .. kSlotSize, NEW bytes \in Targets(ctx)
  PROVE  \A i \in bytes : i \in Nat /\ i < ctx.size
<1>1. CASE bytes = 0 .. ctx.size - 1
  BY <1>1
<1>2. ASSUME NEW data \in Usize, NEW offset \in {0, 1, UsizeMod - 1},
             NEW size \in {1, kSlotSize, UsizeMod - 1}, bytes = BytesWithin(ctx, data, offset, size)
      PROVE  \A i \in bytes : i \in Nat /\ i < ctx.size
  <2> DEFINE base == ctx.slot * kSlotSize
             total == Sum(data - base, offset)
  <2> SUFFICES ASSUME ~(data < base), ~AddOverflow(data - base, offset),
                      RangeWithin(ctx.size, total, size), NEW i \in total .. total + size - 1
               PROVE  i \in Nat /\ i < ctx.size
    BY <1>2 DEF BytesWithin
  <2>1. base \in Nat /\ UsizeMod \in Nat \ {0}
    BY SlotFacts, UsizeAssumption DEF Slots
  <2>2. SlotCount >= 1 /\ kSlotSize < UsizeMod
    <3>1. SlotCount \in Nat /\ SlotCount >= 1 /\ kSlotSize \in Nat
      BY SlotFacts DEF Slots
    <3>2. SlotCount * kSlotSize >= kSlotSize
      BY <3>1
    <3>3. SlotCount * kSlotSize < UsizeMod
      BY GgmlAssumption
    <3> QED
      BY <2>1, <3>1, <3>2, <3>3
  <2> HIDE DEF base
  <2>3. data - base \in Usize
    BY <2>1, ~(data < base) DEF Usize
  <2>4. offset \in Nat /\ size \in Nat
    BY <2>1, SlotFacts
  <2>5. total \in Nat
    BY <2>1, <2>3, <2>4 DEF Sum, Usize
  <2>6. ctx.size \in Usize /\ total \in Usize /\ size \in Usize
    BY <2>1, <2>2, <2>3, <2>4, SlotFacts DEF Usize, Sum
  <2> HIDE DEF total
  <2>7. total + size <= ctx.size
    BY <2>6, RangeWithinExact
  <2> QED
    BY <2>4, <2>5, <2>7
<1> QED
  BY <1>1, <1>2 DEF Targets

(* A context whose casts succeed, and that nobody is at work on, is a live *)
(* buffer's.                                                               *)
LEMMA RestingContext ==
  ASSUME GgmlInv, NEW c \in Contexts, ~OnContext(c), pool[c].magic = "buffer", pool[c].access # NoAddr
  PROVE  \E b \in Buffers : Has(b, c)
<1> USE DEF GgmlInv
<1>1. c \in inUse
  BY DEF ContextsMirror
<1> QED
  BY <1>1 DEF ContextsOwned, OnContext, Takes

(* What the checks of a writing call establish. *)
LEMMA WriteChecks ==
  ASSUME GgmlInv, NEW b \in Buffers, MayWrite(b), ContextCasts(b), AccessCasts(b), Live(buffers[b].buft),
         pool[buffers[b].ctx].access # NoAddr, TokensAgree(buffers[b].buft, pool[buffers[b].ctx])
  PROVE  /\ buffers[b].state # "none" /\ buffers[b].ctx \in Contexts
         /\ \E e \in Buffers :
              /\ Has(e, buffers[b].ctx)
              /\ b = e \/ Strays(b, e)
         /\ \A u \in Threads : Frees(u) => call[u].ctx # buffers[b].ctx
<1> USE DEF GgmlInv
<1>1. buffers[b].state # "none"
  BY DEF MayWrite, InUse
<1>2. buffers[b].ctx \in Contexts
  BY <1>1 DEF ContextsOwned
<1>3. CASE InUse(b)
  <2>1. IsLive(b) /\ Has(b, buffers[b].ctx)
    BY <1>3 DEF InUse, IsLive, Has
  <2>2. ASSUME NEW u \in Threads, Frees(u), call[u].ctx = buffers[b].ctx PROVE FALSE
    <3>1. call[u].buf = b
      BY <1>2, <2>1, <2>2, FreerFacts DEF ContextsOwned
    <3> QED
      BY <1>3, <2>2, <3>1 DEF InUse, Freeing, Frees
  <2> QED
    BY <1>1, <1>2, <2>1, <2>2
<1>4. CASE "stale_write" \in Misuse /\ buffers[b].state = "freed" /\ ~OnContext(buffers[b].ctx)
  <2>1. PICK e \in Buffers : Has(e, buffers[b].ctx)
    BY <1>2, <1>4, RestingContext DEF ContextCasts
  <2>2. pool[buffers[b].ctx].access = buffers[e].buft
    BY <2>1 DEF ContextsMirror, Mirrors, Has
  <2>3. buffers[b].buft = buffers[e].buft
    <3>1. Live(buffers[e].buft)
      BY <2>2 DEF AccessCasts
    <3>2. storage[buffers[b].buft].token = storage[buffers[e].buft].token
      BY <2>2 DEF TokensAgree
    <3> QED
      BY <3>1, <3>2 DEF TokensUnique, Live
  <2> QED
    BY <1>1, <1>2, <1>4, <2>1, <2>3 DEF OnContext, Strays
<1> QED
  BY <1>3, <1>4 DEF MayWrite

(* set_tensor, memset_tensor and clear: the checks on the handle and the bounds. *)
LEMMA WriteCallKeeps ==
  ASSUME GgmlInv, NEW t \in Threads, NEW b \in Buffers, WriteCall(t, b)
  PROVE  GgmlInv'
<1> USE DEF GgmlInv
<1> DEFINE c == buffers[b].ctx
           ctx == pool[c]
<1>1. PICK bytes \in Targets(ctx) :
        call' = [call EXCEPT ![t] =
          [Idle EXCEPT !.at = "askSeal", !.buf = b, !.access = ctx.access, !.ctx = c,
                       !.slot = ctx.slot, !.bytes = bytes, !.late = ctx.protected]]
  BY DEF WriteCall
<1>2. /\ call[t].at = "idle" /\ call[t].buf = 0 /\ call[t].ctx = NoContext
      /\ MayWrite(b) /\ ContextCasts(b) /\ AccessCasts(b) /\ Live(buffers[b].buft)
      /\ ctx.access # NoAddr /\ ctx.slot # NoSlot /\ TokensAgree(buffers[b].buft, ctx)
      /\ UNCHANGED <<storage, tokens, pool, inUse, used, mem, buffers, sealed>>
  BY DEF WriteCall, At, StepsHold, StepHolds
<1>3. /\ buffers[b].state # "none" /\ c \in Contexts
      /\ \A u \in Threads : Frees(u) => call[u].ctx # c
  BY <1>2, WriteChecks
<1>4. PICK e \in Buffers :
        Has(e, c) /\ (b = e \/ Strays(b, e))
  BY <1>2, WriteChecks
<1>5. ctx.slot \in Slots /\ ctx.size \in 0 .. kSlotSize /\ ctx.access \in Addrs /\ ctx.protected \in BOOLEAN
  BY <1>2, <1>3, ContextFacts
<1>6. \A i \in bytes : i \in Nat /\ i < ctx.size
  BY <1>5, TargetBytes
<1>7. bytes \in SUBSET Bytes
  <2>1. \A i \in bytes : i \in Bytes
    BY <1>5, <1>6, SlotFacts DEF Bytes
  <2> QED
    BY <2>1
<1> DEFINE new == [Idle EXCEPT !.at = "askSeal", !.buf = b, !.access = ctx.access, !.ctx = c,
                               !.slot = ctx.slot, !.bytes = bytes, !.late = ctx.protected]
<1>8. /\ new \in Call /\ new.at = "askSeal" /\ new.buf = b /\ new.ctx = c /\ new.slot = ctx.slot
      /\ new.bytes = bytes /\ new.late = ctx.protected
  <2>1. ctx.slot \in 0 .. NoSlot /\ b \in 0 .. MaxBuffers
    BY <1>3, ContextFacts DEF Buffers
  <2> QED
    BY <1>3, <1>5, <1>7, <2>1, IdleFacts DEF Call, Steps, Idle
<1> HIDE DEF new
<1>9. call' \in [Threads -> Call] /\ call'[t] = new /\ Others(t)
  BY <1>1, <1>8, OneCall DEF new
<1>10. ~Frees(t) /\ ~Frees(t)' /\ call'[t].at \notin {"fill", "init", "return"}
  BY <1>2, <1>8, <1>9 DEF Frees
<1>11. StepHolds(t)'
  BY <1>2, <1>3, <1>5, <1>8, <1>9, SlotFacts DEF StepHolds
<1>12. /\ \A k \in Contexts : ~Takes(t, k)' /\ ~Takes(t, k)
       /\ \A s \in Slots : ~Carries(t, s)' /\ ~Carries(t, s)
  BY <1>2, <1>8, <1>9, SlotFacts DEF Takes, Carries, Making
<1>13. Target(t)'
  <2>1. buffers[e].slot = ctx.slot /\ buffers[e].size = ctx.size
    BY <1>4 DEF ContextsMirror, Mirrors, Has
  <2> QED
    BY <1>2, <1>4, <1>6, <1>8, <1>9, <2>1 DEF Target, Strays, IsLive, Has
<1> QED
  BY <1>2, <1>3, <1>8, <1>9, <1>10, <1>11, <1>12, <1>13, CallOnly

-----------------------------------------------------------------------------
(* Steps that take or give back a slot. *)

(* alloc_buffer: the arena hands out a slot nobody has. *)
LEMMA TakeSlotKeeps ==
  ASSUME GgmlInv, NEW t \in Threads, TakeSlot(t)
  PROVE  GgmlInv'
<1> USE DEF GgmlInv
<1>1. /\ call[t].at = "slot" /\ call[t].buf = 0 /\ call[t].ctx = NoContext /\ Live(call[t].access)
      /\ call[t].slot = NoSlot
      /\ UNCHANGED <<storage, tokens, pool, inUse, mem, buffers, sealed>>
  BY DEF TakeSlot, At, StepsHold, StepHolds
<1>2. PICK s \in Slots \ used :
        used' = used \cup {s} /\ call' = [call EXCEPT ![t] = [@ EXCEPT !.at = "context", !.slot = s]]
  BY DEF TakeSlot
<1>3. /\ call' \in [Threads -> Call] /\ Others(t)
      /\ call'[t].at = "context" /\ call'[t].buf = 0 /\ call'[t].ctx = NoContext
      /\ call'[t].slot = s /\ call'[t].access = call[t].access
  <2>1. s \in 0 .. NoSlot /\ call[t] \in Call
    BY CallFacts, SlotFacts DEF Slots, NoSlot
  <2> QED
    BY <1>1, <1>2, <2>1, ZenonT(60) DEF TypeOK, Call, Steps, Others
<1>4. ~Frees(t) /\ ~Frees(t)' /\ ~Writes(t)' /\ call'[t].at \notin {"fill", "init", "return"}
      /\ StepHolds(t)'
  BY <1>1, <1>3 DEF Frees, Writes, StepHolds, Live
<1>5. TypeOK' /\ FreesOnce'
  BY <1>1, <1>2, <1>3 DEF TypeOK, FreesOnce
<1>6. StepsHold' /\ TokensUnique' /\ FreersAlone' /\ WritersTarget'
  BY <1>1, <1>3, <1>4, FreerFacts, CallCommon
<1>7. ContextsMirror'
  BY <1>1, <1>3, <1>4, MirrorsKept
<1>8. ContextsOwned'
  <2>1. \A c \in Contexts, u \in Threads : Takes(u, c)' <=> Takes(u, c)
    BY <1>1, <1>3, SlotFacts DEF Takes, Making, Others
  <2> QED
    BY <1>1, <2>1, ContextsKept DEF Has, IsLive
<1>9. \A b \in Buffers : SlotReleased(b)' <=> SlotReleased(b)
  BY <1>3, <1>4, NoFreerReleases
<1>10. \A m \in Slots, b \in Buffers : Holds(b, m)' <=> Holds(b, m)
  BY <1>1, <1>9 DEF Holds, IsLive
<1>11. \A m \in Slots, u \in Threads : Carries(u, m)' <=> Carries(u, m) \/ (u = t /\ m = s)
  BY <1>1, <1>3, SlotFacts DEF Carries, Making, Others
<1>12. SlotsOwned'
  <2>1. \A m \in Slots : Orphan(m) => Orphan(m)'
    BY <1>1, <1>9, OrphansKept DEF Gone, Live
  <2> QED
    BY <1>2, <1>10, <1>11, <2>1 DEF SlotsOwned
<1>13. BytesOwned'
  BY <1>1, <1>2, <1>10, <1>11 DEF BytesOwned, Strays
<1> QED
  BY <1>5, <1>6, <1>7, <1>8, <1>12, <1>13

(* A slot goes back wiped. *)
LEMMA ReleaseSlotFacts ==
  ASSUME TypeOK, NEW s \in Slots, ReleaseSlot(s)
  PROVE  /\ used' = used \ {s} /\ mem' \in [Slots -> [Bytes -> 0 .. MaxBuffers]]
         /\ \A i \in Bytes : mem'[s][i] = 0
         /\ \A m \in Slots \ {s} : mem'[m] = mem[m]
BY SlotFacts DEF TypeOK, ReleaseSlot, Zeroes

(* alloc_buffer: a rollback gives the slot back. *)
LEMMA DropSlotKeeps ==
  ASSUME GgmlInv, NEW t \in Threads, DropSlot(t)
  PROVE  GgmlInv'
<1> USE DEF GgmlInv
<1>1. /\ call[t].at = "dropSlot" /\ call[t].buf = 0 /\ call[t].ctx = NoContext /\ call[t].slot \in Slots
      /\ UNCHANGED <<storage, tokens, pool, inUse, buffers, sealed>>
  BY DEF DropSlot, At, StepsHold, StepHolds
<1> PICK s \in Slots : s = call[t].slot
  BY <1>1
<1>2. /\ used' = used \ {s} /\ mem' \in [Slots -> [Bytes -> 0 .. MaxBuffers]]
      /\ \A i \in Bytes : mem'[s][i] = 0
      /\ \A m \in Slots \ {s} : mem'[m] = mem[m]
  BY ReleaseSlotFacts DEF DropSlot
<1>3. call' \in [Threads -> Call] /\ Others(t) /\ call'[t] = Idle
  BY ReturnFacts DEF DropSlot
<1>4. ~Frees(t) /\ ~Frees(t)' /\ ~Writes(t)' /\ StepHolds(t)'
      /\ call'[t].at \notin {"fill", "init", "return"} /\ call'[t].ctx = NoContext
  BY <1>1, <1>3, IdleFacts DEF Frees, Writes, StepHolds
<1>5. TypeOK' /\ FreesOnce'
  BY <1>1, <1>2, <1>3 DEF TypeOK, FreesOnce
<1>6. StepsHold' /\ TokensUnique' /\ FreersAlone' /\ WritersTarget'
  BY <1>1, <1>3, <1>4, FreerFacts, CallCommon
<1>7. ContextsMirror'
  BY <1>1, <1>3, <1>4, MirrorsKept
<1>8. ContextsOwned'
  <2>1. \A c \in Contexts, u \in Threads : Takes(u, c)' <=> Takes(u, c)
    BY <1>1, <1>3, IdleFacts, SlotFacts DEF Takes, Making, Others
  <2> QED
    BY <1>1, <2>1, ContextsKept DEF Has, IsLive
<1>9. \A b \in Buffers : SlotReleased(b)' <=> SlotReleased(b)
  BY <1>3, <1>4, NoFreerReleases
<1>10. \A m \in Slots, b \in Buffers : Holds(b, m)' <=> Holds(b, m)
  BY <1>1, <1>9 DEF Holds, IsLive
<1>11. \A m \in Slots, u \in Threads : Carries(u, m)' <=> Carries(u, m) /\ u # t
  BY <1>3, IdleFacts DEF Carries, Making, Others
<1>12. Carries(t, s)
  BY <1>1 DEF Carries, Making
<1>13. SlotsOwned'
  <2>1. \A m \in Slots : Orphan(m) => Orphan(m)'
    BY <1>1, <1>9, OrphansKept DEF Gone, Live
  <2>2. \A m \in Slots \ {s} : ~Carries(t, m)
    BY DEF Carries
  <2> QED
    BY <1>2, <1>10, <1>11, <1>12, <2>1, <2>2 DEF SlotsOwned
<1>14. BytesOwned'
  BY <1>1, <1>2, <1>10, <1>11 DEF BytesOwned, Strays
<1> QED
  BY <1>5, <1>6, <1>7, <1>8, <1>13, <1>14

(* free_buffer: the slot goes back if its bridge is alive, and has no owner otherwise. *)
LEMMA FreeSlotKeeps ==
  ASSUME GgmlInv, NEW t \in Threads, FreeSlot(t)
  PROVE  GgmlInv'
<1> USE DEF GgmlInv
<1>1. /\ call[t].at = "freeSlot" /\ call[t].buf # 0 /\ call[t].slot \in Slots /\ Frees(t)
      /\ buffers[call[t].buf].state # "none"
      /\ UNCHANGED <<storage, tokens, pool, inUse, buffers, sealed>>
  BY DEF FreeSlot, At, StepsHold, StepHolds, Frees
<1> PICK s \in Slots : s = call[t].slot
  BY <1>1
<1> PICK d \in Buffers : d = call[t].buf
  BY <1>1, FreerFacts
<1>2. /\ used' = used \ {s} /\ mem' \in [Slots -> [Bytes -> 0 .. MaxBuffers]]
      /\ \A i \in Bytes : mem'[s][i] = 0
      /\ \A m \in Slots \ {s} : mem'[m] = mem[m]
  BY ReleaseSlotFacts DEF FreeSlot
<1>3. /\ call' \in [Threads -> Call] /\ Others(t) /\ call'[t].at = "markFreed"
      /\ call'[t].buf = d /\ call'[t].ctx = call[t].ctx /\ call'[t].slot = s
  BY GoOnFacts DEF FreeSlot, Steps
<1>4. /\ IsLive(d) /\ buffers[d].slot = s /\ call[t].ctx \in Contexts /\ Has(d, call[t].ctx)
      /\ \A u \in Threads \ {t} : call[u].ctx # call[t].ctx
  BY <1>1, FreerFacts
<1>5. \A u \in Threads \ {t} : Frees(u) => call[u].buf # d
  BY <1>4, FreerFacts DEF Has
<1>6. ~Writes(t)' /\ StepHolds(t)' /\ FreerAlone(t)'
  BY <1>1, <1>3, <1>4 DEF Writes, StepHolds, FreerAlone, IsLive, Has, Others
<1>7. TypeOK' /\ FreesOnce'
  BY <1>1, <1>2, <1>3 DEF TypeOK, FreesOnce
<1>8. StepsHold' /\ TokensUnique' /\ FreersAlone' /\ WritersTarget'
  BY <1>1, <1>3, <1>4, <1>6, CallCommon
<1>9. ContextsMirror'
  <2>1. ASSUME NEW b \in Buffers, IsLive(b) PROVE Mirrors(b)'
    <3>1. Mirrors(b)
      BY <2>1 DEF ContextsMirror
    <3>2. \A u \in Threads : call[u].at = "return" => call'[u] = call[u]
      BY <1>1, <1>3 DEF Others
    <3> QED
      BY <1>1, <3>1, <3>2 DEF Mirrors
  <2>2. \A u \in Threads : Prepared(u)'
    BY <1>1, <1>3 DEF ContextsMirror, Prepared, Others
  <2> QED
    BY <1>1, <2>1, <2>2 DEF ContextsMirror, IsLive, TypeOK
<1>10. \A u \in Threads : Making(u)' <=> Making(u) /\ u # t
  BY <1>1, <1>3 DEF Making, Others
<1>11. ContextsOwned'
  <2>1. \A c \in Contexts, u \in Threads : Takes(u, c)' <=> Takes(u, c)
    BY <1>1, <1>3, <1>10 DEF Takes, Making, Others
  <2> QED
    BY <1>1, <2>1, ContextsKept DEF Has, IsLive
<1>12. ~SlotReleased(d) /\ \A b \in Buffers : SlotReleased(b)' <=> SlotReleased(b) \/ b = d
  <2>1. d # 0
    BY <1>1
  <2> QED
    BY <1>1, <1>3, <1>5, <2>1 DEF SlotReleased, Others, Frees
<1>13. Holds(d, s)
  BY <1>4, <1>12 DEF Holds
<1>14. \A m \in Slots, b \in Buffers : Holds(b, m)' <=> Holds(b, m) /\ b # d
  BY <1>1, <1>12 DEF Holds, IsLive
<1>15. \A m \in Slots, u \in Threads : Carries(u, m)' <=> Carries(u, m)
  BY <1>3, <1>10 DEF Carries, Making, Others
<1>16. SlotsOwned'
  <2>1. \A m \in Slots : Orphan(m) => Orphan(m)'
    BY <1>1, <1>12, OrphansKept DEF Gone, Live
  <2>2. \A m \in Slots \ {s} : ~Holds(d, m)
    BY <1>4 DEF Holds
  <2> QED
    BY <1>2, <1>13, <1>14, <1>15, <2>1, <2>2 DEF SlotsOwned
<1>17. BytesOwned'
  BY <1>1, <1>2, <1>14, <1>15 DEF BytesOwned, Strays
<1> QED
  BY <1>7, <1>8, <1>9, <1>11, <1>16, <1>17

-----------------------------------------------------------------------------
(* Steps that take, fill or give back a context. *)

(* Nobody else is at work on a context a call is making a buffer of. *)
LEMMA TakerFacts ==
  ASSUME GgmlInv, NEW t \in Threads, NEW c \in Contexts, Takes(t, c)
  PROVE  /\ c \in inUse /\ \A b \in Buffers : ~Has(b, c)
         /\ \A u \in Threads \ {t} :
              /\ call[u].at \in {"reset", "fill", "init", "markFreed", "return"} => call[u].ctx # c
              /\ Writes(u) \/ Frees(u) => call[u].ctx # c
<1> USE DEF GgmlInv
<1>1. c \in inUse /\ \A b \in Buffers : ~Has(b, c)
  BY DEF ContextsOwned
<1>2. \A u \in Threads : Writes(u) => call[u].ctx # c
  BY <1>1 DEF WritersTarget, Target, Has
<1>3. \A u \in Threads : Frees(u) => call[u].ctx # c
  BY <1>1, FreerFacts
<1>4. ASSUME NEW u \in Threads \ {t}, call[u].at \in {"reset", "fill", "init", "markFreed", "return"}
      PROVE  call[u].ctx # c
  BY <1>3, <1>4 DEF Frees, Takes, Making, ContextsOwned, StepsHold, StepHolds
<1> QED
  BY <1>1, <1>2, <1>3, <1>4

(* ContextPool::acquire wins an in_use_ flag. *)
LEMMA TakeContextKeeps ==
  ASSUME GgmlInv, NEW t \in Threads, TakeContext(t)
  PROVE  GgmlInv'
<1> USE DEF GgmlInv
<1>1. /\ call[t].at = "context" /\ call[t].buf = 0 /\ call[t].ctx = NoContext /\ Live(call[t].access)
      /\ UNCHANGED <<storage, tokens, pool, used, mem, buffers, sealed>>
  BY DEF TakeContext, At, StepsHold, StepHolds
<1>2. PICK c \in Contexts \ inUse :
        inUse' = inUse \cup {c} /\ call' = [call EXCEPT ![t] = [@ EXCEPT !.at = "reset", !.ctx = c]]
  BY DEF TakeContext
<1>3. /\ call' \in [Threads -> Call] /\ Others(t)
      /\ call'[t].at = "reset" /\ call'[t].buf = 0 /\ call'[t].ctx = c
      /\ call'[t].slot = call[t].slot /\ call'[t].access = call[t].access
  <2>1. call[t] \in Call
    BY CallFacts
  <2> QED
    BY <1>1, <1>2, <2>1, ZenonT(60) DEF TypeOK, Call, Steps, Others
<1>4. ~Frees(t) /\ ~Frees(t)' /\ ~Writes(t)' /\ call'[t].at \notin {"fill", "init", "return"}
      /\ StepHolds(t)'
  BY <1>1, <1>2, <1>3 DEF Frees, Writes, StepHolds, Live
<1>5. TypeOK' /\ FreesOnce'
  BY <1>1, <1>2, <1>3 DEF TypeOK, FreesOnce
<1>6. \A u \in Threads : Frees(u) => call[u].ctx # c
  BY <1>2, FreerFacts DEF ContextsOwned
<1>7. StepsHold' /\ TokensUnique' /\ FreersAlone' /\ WritersTarget'
  BY <1>1, <1>3, <1>4, <1>6, CallCommon
<1>8. ContextsMirror'
  BY <1>1, <1>2, <1>3, <1>4, MirrorsKept
<1>9. ContextsOwned'
  <2>1. \A k \in Contexts, u \in Threads : Takes(u, k)' <=> Takes(u, k) \/ (u = t /\ k = c)
    BY <1>1, <1>3, SlotFacts DEF Takes, Making, Others
  <2>2. \A k \in Contexts, b \in Buffers : Has(b, k)' <=> Has(b, k)
    BY <1>1 DEF Has, IsLive
  <2>3. \A u \in Threads : ~Takes(u, c)
    BY <1>2 DEF ContextsOwned
  <2>4. \A b \in Buffers : ~Has(b, c)
    BY <1>2 DEF ContextsOwned
  <2> QED
    BY <1>1, <1>2, <2>1, <2>2, <2>3, <2>4 DEF ContextsOwned
<1>10. \A b \in Buffers : SlotReleased(b)' <=> SlotReleased(b)
  BY <1>3, <1>4, NoFreerReleases
<1>11. \A m \in Slots, b \in Buffers : Holds(b, m)' <=> Holds(b, m)
  BY <1>1, <1>10 DEF Holds, IsLive
<1>12. \A m \in Slots, u \in Threads : Carries(u, m)' <=> Carries(u, m)
  BY <1>1, <1>3 DEF Carries, Making, Others
<1>13. SlotsOwned'
  <2>1. \A m \in Slots : Orphan(m) => Orphan(m)'
    BY <1>1, <1>10, OrphansKept DEF Gone, Live
  <2> QED
    BY <1>1, <1>11, <1>12, <2>1, SlotsKept
<1>14. BytesOwned'
  BY <1>1, <1>11, <1>12, BytesKept DEF TypeOK
<1> QED
  BY <1>5, <1>7, <1>8, <1>9, <1>13, <1>14

(* A call that makes a buffer writes the context it took. *)
LEMMA MakerWrites ==
  ASSUME GgmlInv, NEW t \in Threads, NEW c \in Contexts, Takes(t, c), call[t].at \in {"reset", "fill", "markFreed"},
         NEW new \in Context, pool' = [pool EXCEPT ![c] = new],
         NEW step \in {"fill", "init", "return"}, GoOn(t, step), Prepared(t)', StepHolds(t)',
         UNCHANGED <<storage, tokens, inUse, used, mem, buffers, sealed>>
  PROVE  GgmlInv'
<1> USE DEF GgmlInv
<1>1. /\ call' \in [Threads -> Call] /\ Others(t) /\ call'[t].at = step
      /\ call'[t].buf = 0 /\ call[t].buf = 0 /\ call'[t].ctx = c /\ call'[t].slot = call[t].slot
  BY GoOnFacts DEF Steps, Takes, Making
<1>2. pool' \in [Contexts -> Context] /\ \A k \in Contexts \ {c} : pool'[k] = pool[k]
  BY DEF TypeOK
<1>3. /\ c \in inUse /\ \A b \in Buffers : ~Has(b, c)
      /\ \A u \in Threads \ {t} :
           /\ call[u].at \in {"reset", "fill", "init", "markFreed", "return"} => call[u].ctx # c
           /\ Writes(u) \/ Frees(u) => call[u].ctx # c
  BY TakerFacts
<1>4. ~Frees(t) /\ ~Frees(t)' /\ ~Writes(t)'
  BY <1>1 DEF Frees, Writes
<1>5. TypeOK' /\ FreesOnce'
  BY <1>1, <1>2 DEF TypeOK, FreesOnce
<1>6. StepsHold' /\ TokensUnique' /\ FreersAlone' /\ WritersTarget'
  <2>1. \A u \in Threads \ {t} : Writes(u) => call[u].ctx \in Contexts \ {c}
    BY <1>3 DEF WritersTarget, Target, ContextsOwned, IsLive
  <2> QED
    BY <1>1, <1>2, <1>3, <1>4, <2>1, CallCommon
<1>7. ContextsMirror'
  <2>1. ASSUME NEW b \in Buffers, IsLive(b) PROVE Mirrors(b)'
    <3>1. Mirrors(b) /\ buffers[b].ctx \in Contexts \ {c}
      BY <1>3, <2>1 DEF ContextsMirror, ContextsOwned, Has, IsLive
    <3>2. ASSUME NEW u \in Threads, call[u].buf = b, call[u].at = "return"
          PROVE  call'[u].buf = b /\ call'[u].at = "return"
      BY <1>1, <3>2, SlotFacts DEF Others
    <3> QED
      BY <1>2, <3>1, <3>2 DEF Mirrors
  <2>2. ASSUME NEW u \in Threads \ {t} PROVE Prepared(u)'
    <3>1. call'[u] = call[u] /\ Prepared(u)
      BY <1>1 DEF Others, ContextsMirror
    <3>2. CASE call[u].at \in {"fill", "init", "return"}
      <4>1. call[u].ctx \in Contexts \ {c}
        BY <1>3, <3>2 DEF StepsHold, StepHolds
      <4> QED
        BY <1>2, <3>1, <4>1 DEF Prepared
    <3>3. CASE call[u].at \notin {"fill", "init", "return"}
      BY <3>1, <3>3 DEF Prepared
    <3> QED
      BY <3>2, <3>3
  <2> QED
    BY <1>2, <1>3, <2>1, <2>2 DEF ContextsMirror, IsLive, TypeOK
<1>8. ContextsOwned'
  <2>1. \A k \in Contexts, u \in Threads : Takes(u, k)' <=> Takes(u, k)
    BY <1>1 DEF Takes, Making, Others
  <2> QED
    BY <2>1, ContextsKept DEF Has, IsLive
<1>9. \A b \in Buffers : SlotReleased(b)' <=> SlotReleased(b)
  BY <1>1, <1>4, NoFreerReleases
<1>10. \A m \in Slots, b \in Buffers : Holds(b, m)' <=> Holds(b, m)
  BY <1>9 DEF Holds, IsLive
<1>11. \A m \in Slots, u \in Threads : Carries(u, m)' <=> Carries(u, m)
  BY <1>1 DEF Carries, Making, Others
<1>12. SlotsOwned'
  <2>1. \A m \in Slots : Orphan(m) => Orphan(m)'
    BY <1>9, OrphansKept DEF Gone, Live
  <2> QED
    BY <1>10, <1>11, <2>1, SlotsKept
<1>13. BytesOwned'
  BY <1>10, <1>11, BytesKept DEF TypeOK
<1> QED
  BY <1>5, <1>6, <1>7, <1>8, <1>12, <1>13

(* ContextPool::acquire writes a fresh header. *)
LEMMA ResetContextKeeps ==
  ASSUME GgmlInv, NEW t \in Threads, ResetContext(t)
  PROVE  GgmlInv'
<1> USE DEF GgmlInv
<1>1. /\ call[t].at = "reset" /\ call[t].buf = 0 /\ call[t].ctx \in Contexts /\ Live(call[t].access)
      /\ UNCHANGED <<storage, tokens, inUse, used, mem, buffers, sealed>>
  BY DEF ResetContext, At, StepsHold, StepHolds
<1> PICK c \in Contexts : c = call[t].ctx
  BY <1>1
<1>2. Takes(t, c)
  BY <1>1 DEF Takes, Making
<1>3. pool' = [pool EXCEPT ![c] = Blank] /\ GoOn(t, "fill")
  BY DEF ResetContext
<1>4. Blank \in Context /\ Blank.magic = "buffer" /\ ~Blank.protected
  BY SlotFacts DEF Blank, Context, NoSlot
<1>5. /\ call'[t].at = "fill" /\ call'[t].buf = 0 /\ call'[t].ctx = c /\ call'[t].access = call[t].access
  BY <1>1, <1>3, GoOnFacts DEF Steps
<1>6. pool'[c] = Blank
  BY <1>3 DEF TypeOK
<1>7. Prepared(t)' /\ StepHolds(t)'
  BY <1>1, <1>4, <1>5, <1>6 DEF Prepared, StepHolds, Live
<1> QED
  BY <1>1, <1>2, <1>3, <1>4, <1>7, MakerWrites

(* alloc_buffer fills the context for its buffer. *)
LEMMA FillContextKeeps ==
  ASSUME GgmlInv, NEW t \in Threads, FillContext(t)
  PROVE  GgmlInv'
<1> USE DEF GgmlInv
<1>1. /\ call[t].at = "fill" /\ call[t].buf = 0 /\ call[t].ctx \in Contexts /\ Live(call[t].access)
      /\ pool[call[t].ctx].magic = "buffer" /\ ~pool[call[t].ctx].protected
      /\ UNCHANGED <<storage, tokens, inUse, used, mem, buffers, sealed>>
  BY DEF FillContext, At, StepsHold, StepHolds, ContextsMirror, Prepared
<1> PICK c \in Contexts : c = call[t].ctx
  BY <1>1
<1>2. Takes(t, c)
  BY <1>1 DEF Takes, Making
<1> DEFINE new == [pool[c] EXCEPT !.access = call[t].access, !.slot = call[t].slot, !.size = call[t].size,
                                  !.token = storage[call[t].access].token]
<1>3. pool' = [pool EXCEPT ![c] = new] /\ GoOn(t, "init")
  BY DEF FillContext
<1>4. /\ new \in Context /\ new.magic = "buffer" /\ ~new.protected
      /\ new.access = call[t].access /\ new.slot = call[t].slot /\ new.size = call[t].size
      /\ new.token = storage[call[t].access].token
  <2>1. storage[call[t].access].token \in 0 .. MaxBridges /\ call[t].access \in Addrs
    BY <1>1 DEF Live, TypeOK
  <2>2. pool[c] \in Context /\ call[t].slot \in 0 .. NoSlot /\ call[t].size \in 0 .. kSlotSize
    BY CallFacts, ContextFacts
  <2> QED
    BY <1>1, <2>1, <2>2 DEF Context
<1> HIDE DEF new
<1>5. /\ call'[t].at = "init" /\ call'[t].buf = 0 /\ call'[t].ctx = c /\ call'[t].access = call[t].access
      /\ call'[t].slot = call[t].slot /\ call'[t].size = call[t].size
  BY <1>1, <1>3, GoOnFacts DEF Steps
<1>6. pool'[c] = new
  BY <1>3 DEF TypeOK
<1>7. Prepared(t)' /\ StepHolds(t)'
  BY <1>1, <1>4, <1>5, <1>6 DEF Prepared, StepHolds, Live
<1> QED
  BY <1>1, <1>2, <1>3, <1>4, <1>7, MakerWrites

(* From the call to the buffer: context and slot change hands. *)
LEMMA InitBufferKeeps ==
  ASSUME GgmlInv, NEW t \in Threads, NEW b \in Buffers, InitBuffer(t, b)
  PROVE  GgmlInv'
<1> USE DEF GgmlInv
<1>1. /\ call[t].at = "init" /\ call[t].buf = 0 /\ call[t].ctx \in Contexts /\ Live(call[t].access)
      /\ buffers[b].state = "none" /\ Prepared(t)
      /\ UNCHANGED <<storage, tokens, pool, inUse, used, mem, sealed>>
  BY DEF InitBuffer, At, StepsHold, StepHolds, ContextsMirror
<1> PICK c \in Contexts : c = call[t].ctx
  BY <1>1
<1> PICK a \in Addrs : a = call[t].access
  BY <1>1 DEF Live
<1>2. /\ buffers' \in [Buffers -> Struct] /\ \A e \in Buffers \ {b} : buffers'[e] = buffers[e]
      /\ buffers'[b].state = "live" /\ buffers'[b].buft = a /\ buffers'[b].ctx = c
      /\ buffers'[b].slot = call[t].slot /\ buffers'[b].size = call[t].size
      /\ buffers'[b].token = storage[a].token
  <2> DEFINE new == [state |-> "live", buft |-> a, ctx |-> c, slot |-> call[t].slot,
                     size |-> call[t].size, token |-> storage[a].token]
  <2>1. buffers' = [buffers EXCEPT ![b] = new]
    BY DEF InitBuffer
  <2>2. storage[a].token \in 0 .. MaxBridges
    BY DEF TypeOK
  <2>3. new \in Struct
    BY <2>2, CallFacts DEF Struct
  <2> QED
    BY <2>1, <2>3 DEF TypeOK
<1>3. call' \in [Threads -> Call] /\ Others(t) /\ call'[t] = Idle
  BY ReturnFacts DEF InitBuffer
<1>4. \A u \in Threads : call[u].buf # b
  BY <1>1, SlotFacts DEF StepsHold, StepHolds
<1>5. ~Frees(t) /\ ~Frees(t)' /\ ~Writes(t)' /\ Takes(t, c)
  BY <1>1, <1>3, IdleFacts DEF Frees, Writes, Takes, Making
<1>6. \A e \in Buffers : IsLive(e)' <=> IsLive(e) \/ e = b
  BY <1>2 DEF IsLive
<1>7. TypeOK' /\ FreesOnce'
  BY <1>1, <1>2, <1>3 DEF TypeOK, FreesOnce
<1>8. StepsHold'
  <2>1. StepHolds(t)'
    BY <1>3, IdleFacts DEF StepHolds
  <2>2. ASSUME NEW u \in Threads \ {t} PROVE StepHolds(u)'
    <3>1. call[u].buf # 0 => call[u].buf \in Buffers \ {b}
      BY <1>4, CallFacts
    <3> QED
      BY <1>1, <1>2, <1>3, <3>1 DEF StepsHold, StepHolds, Others, Live
  <2> QED
    BY <2>1, <2>2 DEF StepsHold
<1>9. TokensUnique'
  BY <1>1, <1>2 DEF TokensUnique, Live
<1>10. FreersAlone'
  <2> SUFFICES ASSUME NEW u \in Threads, Frees(u)', u # t PROVE FreerAlone(u)'
    BY <1>5 DEF FreersAlone
  <2>1. Frees(u) /\ call'[u] = call[u]
    BY <1>3 DEF Others, Frees
  <2>2. /\ call[u].buf \in Buffers \ {b} /\ IsLive(call[u].buf) /\ call[u].ctx # NoContext
        /\ call[u].ctx = buffers[call[u].buf].ctx /\ call[u].slot = buffers[call[u].buf].slot
        /\ \A v \in Threads \ {u} : call[v].ctx # call[u].ctx
    BY <1>4, <2>1, FreerFacts DEF Has
  <2> QED
    BY <1>2, <1>3, <1>6, <2>1, <2>2, IdleFacts DEF FreerAlone, Others, IsLive
<1>11. WritersTarget'
  <2> SUFFICES ASSUME NEW u \in Threads, Writes(u)', u # t PROVE Target(u)'
    BY <1>5 DEF WritersTarget
  <2>1. call'[u] = call[u] /\ Writes(u) /\ Target(u)
    BY <1>3 DEF Others, Writes, WritersTarget
  <2>2. call[u].buf \in Buffers \ {b}
    BY <1>4, <2>1, CallFacts DEF StepsHold, StepHolds, Writes
  <2>3. \A e \in Buffers : IsLive(e) => e # b
    BY <1>1 DEF IsLive
  <2> QED
    BY <1>1, <1>2, <1>6, <2>1, <2>2, <2>3 DEF Target, Strays
<1>12. ContextsMirror'
  <2>1. b \notin sealed
    BY <1>1 DEF ContextsMirror, IsLive
  <2>2. Mirrors(b)'
    BY <1>1, <1>2, <2>1 DEF Mirrors, Prepared
  <2>3. ASSUME NEW e \in Buffers \ {b}, IsLive(e) PROVE Mirrors(e)'
    <3>1. Mirrors(e)
      BY <2>3 DEF ContextsMirror
    <3>2. \A u \in Threads : call[u].at = "return" => call'[u] = call[u]
      BY <1>1, <1>3 DEF Others
    <3> QED
      BY <1>1, <1>2, <3>1, <3>2 DEF Mirrors
  <2>4. \A u \in Threads : Prepared(u)'
    BY <1>1, <1>3, IdleFacts DEF ContextsMirror, Prepared, Others
  <2>5. \A e \in sealed' : IsLive(e)'
    BY <1>1, <1>6 DEF ContextsMirror, TypeOK
  <2> QED
    BY <1>1, <1>6, <2>2, <2>3, <2>4, <2>5 DEF ContextsMirror
<1>13. ContextsOwned'
  <2>1. \A k \in Contexts, u \in Threads : Takes(u, k)' <=> Takes(u, k) /\ u # t
    BY <1>3, IdleFacts DEF Takes, Making, Others
  <2>2. \A k \in Contexts, e \in Buffers : Has(e, k)' <=> Has(e, k) \/ (e = b /\ k = c)
    BY <1>1, <1>2 DEF Has, IsLive
  <2>3. \A k \in Contexts : Takes(t, k) => k = c
    BY DEF Takes
  <2>4. \A e \in Buffers : buffers'[e].state # "none" => buffers'[e].ctx \in Contexts
    BY <1>2 DEF ContextsOwned
  <2>5. \A k \in Contexts : ~Has(b, k)
    BY <1>1 DEF Has, IsLive
  <2> QED
    BY <1>1, <1>5, <2>1, <2>2, <2>3, <2>4, <2>5 DEF ContextsOwned
<1>14. \A e \in Buffers : SlotReleased(e)' <=> SlotReleased(e)
  BY <1>3, <1>5, NoFreerReleases
<1>15. ~SlotReleased(b)
  BY <1>4 DEF SlotReleased
<1>16. \A s \in Slots, e \in Buffers : Holds(e, s)' <=> Holds(e, s) \/ (e = b /\ s = call[t].slot)
  BY <1>1, <1>2, <1>14, <1>15 DEF Holds, IsLive
<1>17. \A s \in Slots, u \in Threads : Carries(u, s)' <=> Carries(u, s) /\ u # t
  BY <1>3, IdleFacts DEF Carries, Making, Others
<1>18. \A s \in Slots : Carries(t, s) <=> s = call[t].slot
  BY <1>1 DEF Carries, Making
<1>19. SlotsOwned'
  <2>1. ASSUME NEW s \in Slots, Orphan(s) PROVE Orphan(s)'
    <3>1. \A e \in Buffers : buffers[e].state = "freed" \/ SlotReleased(e) => e # b
      BY <1>1, <1>15
    <3> QED
      BY <1>1, <1>2, <1>14, <2>1, <3>1, OrphansKept DEF Gone, Live
  <2>2. \A s \in Slots : ~Holds(b, s)
    BY <1>1 DEF Holds, IsLive
  <2> QED
    BY <1>1, <1>16, <1>17, <1>18, <2>1, <2>2 DEF SlotsOwned
<1>20. BytesOwned'
  <2> SUFFICES ASSUME NEW s \in Slots, NEW i \in Bytes, mem[s][i] # 0
               PROVE  /\ s \in used /\ \A u \in Threads : ~Carries(u, s)'
                      /\ buffers'[mem[s][i]].state # "none"
                      /\ \A e \in Buffers : Holds(e, s)' =>
                           /\ i < buffers'[e].size
                           /\ \/ mem[s][i] = e
                              \/ /\ "stale_write" \in Misuse /\ buffers'[mem[s][i]].state = "freed"
                                 /\ buffers'[mem[s][i]].buft = buffers'[e].buft
    BY <1>1 DEF BytesOwned, Strays
  <2>1. mem[s][i] \in Buffers
    BY SlotFacts DEF TypeOK
  <2>2. mem[s][i] # b /\ s # call[t].slot
    BY <1>1, <1>18 DEF BytesOwned
  <2>3. \A e \in Buffers : Holds(e, s)' => Holds(e, s) /\ e # b
    BY <1>1, <1>16, <2>2 DEF Holds, IsLive
  <2> QED
    BY <1>2, <1>17, <2>1, <2>2, <2>3 DEF BytesOwned, Strays
<1> QED
  BY <1>7, <1>8, <1>9, <1>10, <1>11, <1>12, <1>13, <1>19, <1>20

(* ContextPool::release, first store: the header says freed. *)
LEMMA MarkFreedKeeps ==
  ASSUME GgmlInv, NEW t \in Threads, call[t].at = "markFreed", MarkFreed(t), GoOn(t, "return"),
         UNCHANGED <<storage, tokens, inUse, used, mem, buffers, sealed>>
  PROVE  GgmlInv'
<1> USE DEF GgmlInv
<1>1. call[t].buf # 0 => buffers[call[t].buf].state # "none"
  BY DEF StepsHold, StepHolds
<1> PICK c \in Contexts : c = call[t].ctx
  BY DEF StepsHold, StepHolds
<1> DEFINE new == [pool[c] EXCEPT !.magic = "freed"]
<1>2. pool' = [pool EXCEPT ![c] = new]
  BY DEF MarkFreed, TypeOK
<1>3. /\ new \in Context /\ new.magic = "freed" /\ new.access = pool[c].access /\ new.slot = pool[c].slot
      /\ new.size = pool[c].size /\ new.token = pool[c].token /\ new.protected = pool[c].protected
  BY ContextFacts DEF Context
<1> HIDE DEF new
<1>4. /\ call' \in [Threads -> Call] /\ Others(t) /\ call'[t].at = "return"
      /\ call'[t].buf = call[t].buf /\ call'[t].ctx = c /\ call'[t].slot = call[t].slot
  BY GoOnFacts DEF Steps
<1>5. pool' \in [Contexts -> Context] /\ pool'[c] = new /\ \A k \in Contexts \ {c} : pool'[k] = pool[k]
  BY <1>2, <1>3 DEF TypeOK
<1>6. Prepared(t)' /\ StepHolds(t)'
  BY <1>1, <1>3, <1>4, <1>5 DEF Prepared, StepHolds
<1>7. CASE call[t].buf = 0
  <2>1. Takes(t, c)
    BY <1>7 DEF Takes, Making
  <2> QED
    BY <1>2, <1>3, <1>6, <2>1, MakerWrites
<1>8. CASE call[t].buf # 0
  <2>1. Frees(t)
    BY <1>8 DEF Frees
  <2> PICK d \in Buffers : d = call[t].buf
    BY <2>1, FreerFacts
  <2>2. /\ IsLive(d) /\ Has(d, c) /\ call[t].slot = buffers[d].slot
        /\ \A u \in Threads \ {t} : call[u].ctx # c
    BY <2>1, FreerFacts
  <2>3. \A e \in Buffers \ {d} : ~Has(e, c)
    BY <2>2 DEF ContextsOwned
  <2>4. FreerAlone(t)' /\ ~Writes(t)'
    BY <1>4, <2>2 DEF FreerAlone, IsLive, Has, Others, Writes
  <2>5. TypeOK' /\ FreesOnce'
    BY <1>4, <1>5 DEF TypeOK, FreesOnce
  <2>6. StepsHold' /\ TokensUnique' /\ FreersAlone' /\ WritersTarget'
    <3>1. \A u \in Threads \ {t} : Writes(u) => call[u].ctx \in Contexts \ {c}
      BY <2>2 DEF WritersTarget, Target, ContextsOwned, IsLive
    <3> QED
      BY <1>4, <1>5, <1>6, <2>2, <2>4, <3>1, CallCommon
  <2>7. ContextsMirror'
    <3>1. Mirrors(d) /\ buffers[d].ctx = c
      BY <2>2 DEF ContextsMirror, Has
    <3>2. Mirrors(d)'
      BY <1>3, <1>4, <1>5, <3>1 DEF Mirrors
    <3>3. ASSUME NEW e \in Buffers \ {d}, IsLive(e) PROVE Mirrors(e)'
      <4>1. Mirrors(e) /\ buffers[e].ctx \in Contexts \ {c}
        BY <2>3, <3>3 DEF ContextsMirror, ContextsOwned, Has, IsLive
      <4>2. \A u \in Threads : call[u].at = "return" => call'[u] = call[u]
        BY <1>4 DEF Others
      <4> QED
        BY <1>5, <4>1, <4>2 DEF Mirrors
    <3>4. ASSUME NEW u \in Threads \ {t} PROVE Prepared(u)'
      <4>1. call'[u] = call[u] /\ Prepared(u) /\ call[u].ctx # c
        BY <1>4, <2>2 DEF Others, ContextsMirror
      <4>2. call[u].at \in {"fill", "init", "return"} => call[u].ctx \in Contexts \ {c}
        BY <4>1 DEF StepsHold, StepHolds
      <4> QED
        BY <1>5, <4>1, <4>2 DEF Prepared
    <3>5. c \in inUse
      BY <2>2 DEF ContextsOwned
    <3> QED
      BY <1>5, <1>6, <3>2, <3>3, <3>4, <3>5 DEF ContextsMirror, IsLive, TypeOK
  <2>8. \A u \in Threads : Making(u)' <=> Making(u)
    BY <1>4, <1>8 DEF Making, Others
  <2>9. ContextsOwned'
    <3>1. \A k \in Contexts, u \in Threads : Takes(u, k)' <=> Takes(u, k)
      BY <1>4, <2>8 DEF Takes, Others
    <3> QED
      BY <3>1, ContextsKept DEF Has, IsLive
  <2>10. \A e \in Buffers : SlotReleased(e)' <=> SlotReleased(e)
    BY <1>4 DEF SlotReleased, Others
  <2>11. \A m \in Slots, e \in Buffers : Holds(e, m)' <=> Holds(e, m)
    BY <2>10 DEF Holds, IsLive
  <2>12. \A m \in Slots, u \in Threads : Carries(u, m)' <=> Carries(u, m)
    BY <1>4, <2>8 DEF Carries, Others
  <2>13. SlotsOwned'
    <3>1. \A m \in Slots : Orphan(m) => Orphan(m)'
      BY <2>10, OrphansKept DEF Gone, Live
    <3> QED
      BY <2>11, <2>12, <3>1, SlotsKept
  <2>14. BytesOwned'
    BY <2>11, <2>12, BytesKept DEF TypeOK
  <2> QED
    BY <2>5, <2>6, <2>7, <2>9, <2>13, <2>14
<1> QED
  BY <1>7, <1>8

(* ContextPool::release, second store: the context may be taken again.     *)
(* First for a buffer that could not be made, then for a freed one.        *)
LEMMA MakerGivesBack ==
  ASSUME GgmlInv, NEW t \in Threads, call[t].at = "return", call[t].buf = 0, GiveBack(t), RollBack(t),
         UNCHANGED <<storage, tokens, pool, used, mem, buffers, sealed>>
  PROVE  GgmlInv'
<1> USE DEF GgmlInv
<1>1. call[t].ctx \in Contexts /\ Prepared(t)
  BY DEF StepsHold, StepHolds, ContextsMirror
<1> PICK c \in Contexts : c = call[t].ctx
  BY <1>1
<1>2. inUse' = inUse \ {c} /\ pool[c].magic = "freed" /\ Takes(t, c)
  BY <1>1 DEF GiveBack, Prepared, Takes, Making
<1>3. /\ call' \in [Threads -> Call] /\ Others(t)
      /\ call'[t].buf = 0 /\ call'[t].ctx = NoContext
      /\ \/ call[t].slot = NoSlot /\ call'[t] = Idle
         \/ call[t].slot \in Slots /\ call'[t].at = "dropSlot" /\ call'[t].slot = call[t].slot
  BY RollBackFacts
<1>4. ~Frees(t) /\ ~Frees(t)' /\ ~Writes(t)' /\ StepHolds(t)' /\ call'[t].at \notin {"fill", "init", "return"}
  BY <1>3, IdleFacts DEF Frees, Writes, StepHolds
<1>5. TypeOK' /\ FreesOnce'
  BY <1>2, <1>3 DEF TypeOK, FreesOnce
<1>6. StepsHold' /\ TokensUnique' /\ FreersAlone' /\ WritersTarget'
  BY <1>3, <1>4, FreerFacts, CallCommon
<1>7. ContextsMirror'
  <2>1. ASSUME NEW b \in Buffers, IsLive(b) PROVE Mirrors(b)'
    <3>1. Mirrors(b)
      BY <2>1 DEF ContextsMirror
    <3>2. \A u \in Threads : call[u].buf = b => call'[u] = call[u]
      BY <1>3, SlotFacts DEF Others
    <3> QED
      BY <3>1, <3>2 DEF Mirrors
  <2>2. \A u \in Threads : Prepared(u)'
    BY <1>3, <1>4 DEF ContextsMirror, Prepared, Others
  <2> QED
    BY <1>2, <2>1, <2>2 DEF ContextsMirror, IsLive, TypeOK
<1>8. ContextsOwned'
  <2>1. \A k \in Contexts, u \in Threads : Takes(u, k)' <=> Takes(u, k) /\ u # t
    BY <1>3, SlotFacts DEF Takes, Making, Others
  <2>2. \A k \in Contexts, b \in Buffers : Has(b, k)' <=> Has(b, k)
    BY DEF Has, IsLive
  <2>3. \A k \in Contexts \ {c} : ~Takes(t, k)
    BY DEF Takes
  <2> QED
    BY <1>2, <2>1, <2>2, <2>3 DEF ContextsOwned
<1>9. \A b \in Buffers : SlotReleased(b)' <=> SlotReleased(b)
  BY <1>3, <1>4, NoFreerReleases
<1>10. \A m \in Slots, b \in Buffers : Holds(b, m)' <=> Holds(b, m)
  BY <1>9 DEF Holds, IsLive
<1>11. \A m \in Slots, u \in Threads : Carries(u, m)' <=> Carries(u, m)
  BY <1>3, IdleFacts, SlotFacts DEF Carries, Making, Others
<1>12. SlotsOwned'
  <2>1. \A m \in Slots : Orphan(m) => Orphan(m)'
    BY <1>9, OrphansKept DEF Gone, Live
  <2> QED
    BY <1>10, <1>11, <2>1, SlotsKept
<1>13. BytesOwned'
  BY <1>10, <1>11, BytesKept DEF TypeOK
<1> QED
  BY <1>5, <1>6, <1>7, <1>8, <1>12, <1>13

(* ContextPool::release, called by free_buffer, clears in_use_: the buffer is gone. *)
LEMMA FreerGivesBack ==
  ASSUME GgmlInv, NEW t \in Threads, call[t].at = "return", call[t].buf # 0, GiveBack(t), Return(t),
         buffers' = [buffers EXCEPT ![call[t].buf].state = "freed"], sealed' = sealed \ {call[t].buf},
         UNCHANGED <<storage, tokens, pool, used, mem>>
  PROVE  GgmlInv'
<1> USE DEF GgmlInv
<1>1. Frees(t) /\ Prepared(t)
  BY DEF Frees, ContextsMirror
<1> PICK d \in Buffers : d = call[t].buf
  BY <1>1, FreerFacts
<1> PICK c \in Contexts : c = call[t].ctx
  BY <1>1, FreerFacts
<1>2. /\ IsLive(d) /\ Has(d, c) /\ SlotReleased(d)
      /\ \A u \in Threads \ {t} : call[u].ctx # c
  BY <1>1, FreerFacts DEF SlotReleased
<1>3. inUse' = inUse \ {c} /\ pool[c].magic = "freed" /\ sealed' = sealed \ {d}
  BY <1>1 DEF GiveBack, Prepared
<1>4. /\ buffers' \in [Buffers -> Struct] /\ \A e \in Buffers \ {d} : buffers'[e] = buffers[e]
      /\ buffers'[d].state = "freed" /\ buffers'[d].buft = buffers[d].buft /\ buffers'[d].ctx = c
      /\ buffers'[d].slot = buffers[d].slot /\ buffers'[d].size = buffers[d].size
      /\ buffers'[d].token = buffers[d].token
  <2>1. buffers' = [buffers EXCEPT ![d].state = "freed"] /\ buffers[d] \in Struct /\ buffers[d].ctx = c
    BY <1>2, BufferFacts DEF Has
  <2> QED
    <3> DEFINE s == [buffers[d] EXCEPT !.state = "freed"]
    <3>1. /\ s \in Struct /\ s.state = "freed" /\ s.buft = buffers[d].buft /\ s.ctx = c
          /\ s.slot = buffers[d].slot /\ s.size = buffers[d].size /\ s.token = buffers[d].token
      BY <2>1, SMT DEF Struct
    <3>2. buffers \in [Buffers -> Struct] /\ buffers' = [buffers EXCEPT ![d] = s]
      BY <2>1 DEF TypeOK
    <3> HIDE DEF s
    <3> QED
      BY <3>1, <3>2, Zenon
<1>5. call' \in [Threads -> Call] /\ Others(t) /\ call'[t] = Idle
  BY ReturnFacts
<1>6. \A e \in Buffers \ {d} : ~Has(e, c)
  BY <1>2 DEF ContextsOwned
<1>7. \A e \in Buffers : IsLive(e)' <=> IsLive(e) /\ e # d
  BY <1>4 DEF IsLive
<1>8. ~Frees(t)' /\ ~Writes(t)' /\ StepHolds(t)'
  BY <1>5, IdleFacts DEF Frees, Writes, StepHolds
<1>9. \A u \in Threads \ {t} : Frees(u) => call[u].buf \in Buffers \ {d}
  BY <1>2, FreerFacts DEF Has
<1>10. TypeOK' /\ FreesOnce'
  BY <1>3, <1>4, <1>5 DEF TypeOK, FreesOnce
<1>11. StepsHold'
  <2>1. ASSUME NEW u \in Threads \ {t} PROVE StepHolds(u)'
    <3>1. call[u].buf # 0 => call[u].buf \in Buffers
      BY CallFacts
    <3>2. \A e \in Buffers : buffers[e].state # "none" => buffers'[e].state # "none"
      BY <1>4, SMTT(60)
    <3> QED
      BY <1>5, <3>1, <3>2 DEF StepsHold, StepHolds, Others, Live
  <2> QED
    BY <1>8, <2>1 DEF StepsHold
<1>12. TokensUnique'
  BY <1>2, <1>4 DEF TokensUnique, Live, IsLive
<1>13. FreersAlone'
  <2> SUFFICES ASSUME NEW u \in Threads, Frees(u)', u # t PROVE FreerAlone(u)'
    BY <1>8 DEF FreersAlone
  <2>1. Frees(u) /\ call'[u] = call[u]
    BY <1>5 DEF Others, Frees
  <2>2. call[u].buf \in Buffers \ {d} /\ FreerAlone(u) /\ call[u].ctx # NoContext
    BY <1>9, <2>1, FreerFacts, SMTT(60) DEF FreersAlone
  <2> QED
    BY <1>4, <1>5, <1>7, <2>1, <2>2, IdleFacts DEF FreerAlone, Others, IsLive
<1>14. WritersTarget'
  <2> SUFFICES ASSUME NEW u \in Threads, Writes(u)', u # t PROVE Target(u)'
    BY <1>8 DEF WritersTarget
  <2>1. call'[u] = call[u] /\ Writes(u) /\ Target(u) /\ call[u].ctx # c
    BY <1>2, <1>5 DEF Others, Writes, WritersTarget
  <2>2. call[u].buf \in Buffers
    BY <2>1, CallFacts DEF StepsHold, StepHolds, Writes
  <2>3. \A e \in Buffers : buffers[e].ctx = call[u].ctx => e # d
    BY <1>2, <2>1 DEF Has
  <2>4. \A e \in Buffers : /\ buffers'[e].buft = buffers[e].buft
                          /\ buffers[e].state = "freed" => buffers'[e].state = "freed"
    BY <1>4
  <2> QED
    BY <1>4, <1>7, <2>1, <2>2, <2>3, <2>4 DEF Target, Strays
<1>15. ContextsMirror'
  <2>1. ASSUME NEW e \in Buffers \ {d}, IsLive(e) PROVE Mirrors(e)'
    <3>1. Mirrors(e)
      BY <2>1 DEF ContextsMirror
    <3>2. \A u \in Threads : call[u].buf = e => call'[u] = call[u]
      BY <1>5 DEF Others
    <3> QED
      BY <1>3, <1>4, <3>1, <3>2 DEF Mirrors
  <2>2. \A u \in Threads : Prepared(u)'
    BY <1>5, IdleFacts DEF ContextsMirror, Prepared, Others
  <2> QED
    BY <1>3, <1>7, <2>1, <2>2, SMTT(60) DEF ContextsMirror, TypeOK
<1>16. \A u \in Threads : Making(u)' <=> Making(u)
  BY <1>5, IdleFacts DEF Making, Others
<1>17. ContextsOwned'
  <2>1. \A k \in Contexts, u \in Threads : Takes(u, k)' <=> Takes(u, k)
    BY <1>5, <1>16, IdleFacts, SlotFacts DEF Takes, Making, Others
  <2>2. \A k \in Contexts, e \in Buffers : Has(e, k)' <=> Has(e, k) /\ e # d
    BY <1>4, <1>7 DEF Has
  <2>3. \A k \in Contexts \ {c} : ~Has(d, k)
    BY <1>2 DEF Has
  <2>4. \A e \in Buffers : buffers'[e].state # "none" => buffers'[e].ctx \in Contexts
    BY <1>4 DEF ContextsOwned
  <2> QED
    BY <1>2, <1>3, <2>1, <2>2, <2>3, <2>4 DEF ContextsOwned
<1>18. \A e \in Buffers \ {d} : SlotReleased(e)' <=> SlotReleased(e)
  BY <1>5, IdleFacts, SlotFacts DEF SlotReleased, Others
<1>19. \A m \in Slots, e \in Buffers : Holds(e, m)' <=> Holds(e, m)
  <2>1. \A m \in Slots : ~Holds(d, m) /\ ~Holds(d, m)'
    BY <1>2, <1>7 DEF Holds
  <2> QED
    BY <1>4, <1>7, <1>18, <2>1 DEF Holds
<1>20. \A m \in Slots, u \in Threads : Carries(u, m)' <=> Carries(u, m)
  BY <1>5, <1>16, IdleFacts DEF Carries, Making, Others
<1>21. SlotsOwned'
  <2>1. ASSUME NEW m \in Slots, Orphan(m) PROVE Orphan(m)'
    <3>1. \A e \in Buffers : buffers'[e].slot = buffers[e].slot /\ buffers'[e].token = buffers[e].token
      BY <1>4
    <3>2. \A e \in Buffers : buffers[e].state = "freed" \/ SlotReleased(e)
                               => buffers'[e].state = "freed" \/ SlotReleased(e)'
      BY <1>4, <1>18
    <3> QED
      BY <2>1, <3>1, <3>2, OrphansKept DEF Gone, Live
  <2> QED
    BY <1>19, <1>20, <2>1, SlotsKept
<1>22. BytesOwned'
  <2>1. \A e \in Buffers : buffers[e].state # "none" =>
          /\ buffers'[e].state # "none" /\ buffers'[e].size = buffers[e].size
          /\ buffers'[e].buft = buffers[e].buft
          /\ buffers[e].state = "freed" => buffers'[e].state = "freed"
    BY <1>4
  <2> QED
    BY <1>19, <1>20, <2>1, BytesKept DEF TypeOK
<1> QED
  BY <1>10, <1>11, <1>12, <1>13, <1>14, <1>15, <1>17, <1>21, <1>22

(* ContextPool::release, by a free_buffer or by a rollback. *)
LEMMA PoolReleaseKeeps ==
  ASSUME GgmlInv, NEW t \in Threads, PoolRelease(t)
  PROVE  GgmlInv'
<1>1. CASE call[t].at = "markFreed"
  BY <1>1, MarkFreedKeeps DEF PoolRelease, At
<1>2. CASE call[t].at = "return" /\ call[t].buf = 0
  BY <1>2, MakerGivesBack DEF PoolRelease, At, Finish
<1>3. CASE call[t].at = "return" /\ call[t].buf # 0
  BY <1>3, FreerGivesBack DEF PoolRelease, At, Finish
<1> QED
  BY <1>1, <1>2, <1>3 DEF PoolRelease, At

-----------------------------------------------------------------------------
(* free_buffer, the store of a write, sealBuffer. *)

(* A slot that free_buffer does not release has lost its bridge. *)
LEMMA FreeCallKeeps ==
  ASSUME GgmlInv, NEW t \in Threads, NEW b \in Buffers, FreeCall(t, b)
  PROVE  GgmlInv'
<1> USE DEF GgmlInv
<1>1. /\ call[t].at = "idle" /\ call[t].buf = 0 /\ call[t].ctx = NoContext
      /\ IsLive(b) /\ ~OnContext(buffers[b].ctx) /\ AccessCasts(b)
      /\ UNCHANGED <<storage, tokens, pool, inUse, used, mem, buffers, sealed>>
  BY DEF FreeCall, At, MayFree, FreesOnce, IsLive, StepsHold, StepHolds
<1> PICK c \in Contexts : c = buffers[b].ctx
  BY <1>1 DEF ContextsOwned, IsLive
<1>2. /\ pool[c].access = buffers[b].buft /\ pool[c].slot = buffers[b].slot
      /\ pool[c].token = buffers[b].token /\ Has(b, c)
  BY <1>1 DEF ContextsMirror, Mirrors, Has
<1>3. pool[c].access \in Addrs /\ pool[c].access # NoAddr /\ Live(pool[c].access)
  BY <1>1, <1>2, SlotFacts DEF TokensUnique, AccessCasts, IsLive
<1> DEFINE ours == pool[c].access # NoAddr /\ storage[pool[c].access].token = pool[c].token
           step == IF ours /\ pool[c].slot # NoSlot THEN "freeSlot" ELSE "markFreed"
           new  == [Idle EXCEPT !.at = step, !.buf = b, !.access = pool[c].access, !.ctx = c,
                                !.slot = pool[c].slot]
<1>4. call' = [call EXCEPT ![t] = new]
  BY DEF FreeCall
<1>5. /\ new \in Call /\ new.at = step /\ new.buf = b /\ new.ctx = c /\ new.slot = buffers[b].slot
  <2>1. step \in Steps /\ pool[c].slot \in 0 .. NoSlot /\ b \in 0 .. MaxBuffers
    BY ContextFacts, SlotFacts DEF Steps, Buffers
  <2> QED
    BY <1>2, <1>3, <2>1, IdleFacts, ZenonT(60) DEF Call
<1>6. /\ step = "freeSlot" \/ step = "markFreed"
      /\ step = "freeSlot" => buffers[b].slot \in Slots
      /\ step = "markFreed" => ~ours \/ buffers[b].slot = NoSlot
  BY <1>2, BufferFacts
<1>7. step = "markFreed" /\ buffers[b].slot \in Slots => Gone(buffers[b].token)
  <2> SUFFICES ASSUME step = "markFreed", buffers[b].slot \in Slots, NEW a \in Addrs, Live(a),
                      storage[a].token = buffers[b].token
               PROVE  FALSE
    BY DEF Gone
  <2>1. a = buffers[b].buft
    BY <1>1 DEF TokensUnique, IsLive
  <2>2. ~ours
    BY <1>6, SlotFacts
  <2> QED
    BY <1>2, <1>3, <2>1, <2>2
<1> HIDE DEF new, step
<1>8. call' \in [Threads -> Call] /\ call'[t] = new /\ Others(t)
  BY <1>4, <1>5, OneCall
<1>9. \A u \in Threads : call[u].ctx # c
  BY <1>1 DEF OnContext
<1>10. /\ ~Frees(t) /\ ~Writes(t)' /\ FreerAlone(t)' /\ StepHolds(t)'
       /\ call'[t].at \notin {"fill", "init", "return"} /\ call'[t].buf = b
  BY <1>1, <1>5, <1>6, <1>8, <1>9, SlotFacts
     DEF Frees, Writes, FreerAlone, IsLive, Others, StepHolds
<1>11. TypeOK' /\ FreesOnce'
  BY <1>1, <1>8 DEF TypeOK, FreesOnce
<1>12. StepsHold' /\ TokensUnique' /\ FreersAlone' /\ WritersTarget'
  BY <1>1, <1>5, <1>8, <1>9, <1>10, CallCommon
<1>13. ContextsMirror'
  BY <1>1, <1>8, <1>10, MirrorsKept
<1>14. \A u \in Threads : Making(u)' <=> Making(u)
  BY <1>1, <1>8, <1>10, SlotFacts DEF Making, Others
<1>15. ContextsOwned'
  <2>1. \A k \in Contexts, u \in Threads : Takes(u, k)' <=> Takes(u, k)
    BY <1>1, <1>8, <1>14 DEF Takes, Making, Others
  <2> QED
    BY <1>1, <2>1, ContextsKept DEF Has, IsLive
<1>16. \A e \in Buffers : SlotReleased(e)' <=> SlotReleased(e) \/ (e = b /\ step = "markFreed")
  BY <1>1, <1>5, <1>6, <1>8 DEF SlotReleased, Others
<1>17. \A m \in Slots, e \in Buffers :
         Holds(e, m)' <=> Holds(e, m) /\ ~(e = b /\ step = "markFreed")
  BY <1>1, <1>16 DEF Holds, IsLive
<1>18. \A m \in Slots, u \in Threads : Carries(u, m)' <=> Carries(u, m)
  BY <1>1, <1>8, <1>14 DEF Carries, Making, Others
<1>19. SlotsOwned'
  <2>1. \A m \in Slots : Orphan(m) => Orphan(m)'
    BY <1>1, <1>16, OrphansKept DEF Gone, Live
  <2>2. ASSUME NEW m \in Slots, Holds(b, m), step = "markFreed" PROVE Orphan(m)'
    <3>1. buffers'[b].slot = m /\ SlotReleased(b)'
      BY <1>1, <1>16, <2>2 DEF Holds
    <3>2. Gone(buffers[b].token)'
      <4> PICK k : k = buffers[b].token
        OBVIOUS
      <4>1. Gone(k) /\ buffers'[b].token = k
        BY <1>1, <1>7, <2>2 DEF Holds
      <4> QED
        BY <1>1, <4>1 DEF Gone, Live
    <3> QED
      BY <3>1, <3>2 DEF Orphan
  <2> QED
    BY <1>1, <1>17, <1>18, <2>1, <2>2 DEF SlotsOwned
<1>20. BytesOwned'
  BY <1>1, <1>17, <1>18, BytesKept DEF TypeOK
<1> QED
  BY <1>11, <1>12, <1>13, <1>15, <1>19, <1>20

(* The bytes of a write land in the slot of its buffer. *)
LEMMA StoreKeeps ==
  ASSUME GgmlInv, NEW t \in Threads, Store(t)
  PROVE  GgmlInv'
<1> USE DEF GgmlInv
<1>1. /\ call[t].at = "store" /\ call[t].buf # 0 /\ Target(t) /\ Writes(t)
      /\ call[t].slot \in Slots /\ buffers[call[t].buf].state # "none"
      /\ UNCHANGED <<storage, tokens, pool, inUse, used, buffers, sealed>>
  BY DEF Store, At, StepsHold, StepHolds, WritersTarget, Writes
<1> PICK s \in Slots : s = call[t].slot
  BY <1>1
<1> PICK d \in Buffers : d = call[t].buf
  BY <1>1, CallFacts
<1>2. PICK e \in Buffers :
        /\ IsLive(e) /\ buffers[e].ctx = call[t].ctx /\ buffers[e].slot = s
        /\ \A i \in call[t].bytes : i < buffers[e].size
        /\ d = e \/ Strays(d, e)
  BY <1>1 DEF Target
<1>3. /\ mem' \in [Slots -> [Bytes -> 0 .. MaxBuffers]] /\ \A m \in Slots \ {s} : mem'[m] = mem[m]
      /\ \A i \in Bytes : mem'[s][i] = IF i \in call[t].bytes THEN d ELSE mem[s][i]
  <2>1. d \in 0 .. MaxBuffers
    BY CallFacts
  <2>2. mem' = [mem EXCEPT ![s] = [i \in Bytes |-> IF i \in call[t].bytes THEN d ELSE mem[s][i]]]
    BY DEF Store, TypeOK
  <2> QED
    BY <2>1, <2>2 DEF TypeOK
<1>4. call' \in [Threads -> Call] /\ Others(t) /\ call'[t] = Idle
  BY ReturnFacts DEF Store
<1>5. /\ ~Frees(t) /\ ~Frees(t)' /\ ~Writes(t)' /\ StepHolds(t)'
      /\ call'[t].at \notin {"fill", "init", "return"} /\ call'[t].ctx = NoContext
  BY <1>1, <1>4, IdleFacts DEF Frees, Writes, StepHolds
<1>6. TypeOK' /\ FreesOnce'
  BY <1>1, <1>3, <1>4 DEF TypeOK, FreesOnce
<1>7. StepsHold' /\ TokensUnique' /\ FreersAlone' /\ WritersTarget'
  BY <1>1, <1>4, <1>5, FreerFacts, CallCommon
<1>8. ContextsMirror'
  BY <1>1, <1>4, <1>5, MirrorsKept
<1>9. \A u \in Threads : Making(u)' <=> Making(u)
  BY <1>1, <1>4, IdleFacts DEF Making, Others
<1>10. ContextsOwned'
  <2>1. \A k \in Contexts, u \in Threads : Takes(u, k)' <=> Takes(u, k)
    BY <1>1, <1>4, <1>9 DEF Takes, Making, Others
  <2> QED
    BY <1>1, <2>1, ContextsKept DEF Has, IsLive
<1>11. \A f \in Buffers : SlotReleased(f)' <=> SlotReleased(f)
  BY <1>4, <1>5, NoFreerReleases
<1>12. \A m \in Slots, f \in Buffers : Holds(f, m)' <=> Holds(f, m)
  BY <1>1, <1>11 DEF Holds, IsLive
<1>13. \A m \in Slots, u \in Threads : Carries(u, m)' <=> Carries(u, m)
  BY <1>1, <1>4, <1>9 DEF Carries, Making, Others
<1>14. SlotsOwned'
  <2>1. \A m \in Slots : Orphan(m) => Orphan(m)'
    BY <1>1, <1>11, OrphansKept DEF Gone, Live
  <2> QED
    BY <1>1, <1>12, <1>13, <2>1, SlotsKept
<1>15. Holds(e, s)
  <2>1. ASSUME NEW u \in Threads, call[u].buf = e, call[u].at \in {"markFreed", "return"} PROVE FALSE
    <3>1. Frees(u) /\ u # t
      BY <1>1, <2>1, SlotFacts DEF Frees
    <3>2. call[u].ctx = call[t].ctx
      BY <1>2, <2>1, <3>1, FreerFacts DEF Has
    <3> QED
      BY <3>1, <3>2, FreerFacts
  <2> QED
    BY <1>2, <2>1 DEF Holds, SlotReleased
<1>16. BytesOwned'
  <2>1. s \in used /\ \A f \in Buffers : Holds(f, s) => f = e
    BY <1>15 DEF SlotsOwned
  <2>2. \A u \in Threads : ~Carries(u, s)
    BY <1>15 DEF SlotsOwned
  <2> SUFFICES ASSUME NEW m \in Slots, NEW i \in Bytes, mem'[m][i] # 0
               PROVE  /\ m \in used /\ \A u \in Threads : ~Carries(u, m)
                      /\ buffers[mem'[m][i]].state # "none"
                      /\ \A f \in Buffers : Holds(f, m) =>
                           /\ i < buffers[f].size
                           /\ mem'[m][i] = f \/ Strays(mem'[m][i], f)
    BY <1>1, <1>12, <1>13 DEF BytesOwned, Strays
  <2>3. CASE m = s /\ i \in call[t].bytes
    BY <1>1, <1>2, <1>3, <2>1, <2>2, <2>3
  <2>4. CASE ~(m = s /\ i \in call[t].bytes)
    <3>1. mem'[m][i] = mem[m][i]
      BY <1>3, <2>4
    <3> QED
      BY <3>1 DEF BytesOwned
  <2> QED
    BY <2>3, <2>4
<1> QED
  BY <1>6, <1>7, <1>8, <1>10, <1>14, <1>16

(* The seal of a live buffer reaches its context and no other. *)
LEMMA SealBufferKeeps ==
  ASSUME GgmlInv, NEW t \in Threads, NEW a \in Addrs, NEW b \in Buffers, SealBuffer(t, a, b)
  PROVE  GgmlInv'
<1> USE DEF GgmlInv
<1>1. IsLive(b) /\ sealed' = sealed \cup {b}
      /\ UNCHANGED <<storage, tokens, inUse, used, mem, buffers, call>>
  BY DEF SealBuffer, InUse, IsLive
<1> PICK c \in Contexts : c = buffers[b].ctx
  BY <1>1 DEF ContextsOwned, IsLive
<1>2. Has(b, c) /\ c \in inUse
  BY <1>1 DEF Has, ContextsOwned
<1>3. /\ pool' \in [Contexts -> Context] /\ \A k \in Contexts \ {c} : pool'[k] = pool[k]
      /\ pool'[c].magic = pool[c].magic /\ pool'[c].access = pool[c].access /\ pool'[c].slot = pool[c].slot
      /\ pool'[c].size = pool[c].size /\ pool'[c].token = pool[c].token /\ pool'[c].protected
  <2>1. pool' = [pool EXCEPT ![c].protected = TRUE] /\ pool[c] \in Context
    BY ContextFacts DEF SealBuffer
  <2> QED
    BY <2>1 DEF TypeOK, Context
<1>4. TypeOK' /\ FreesOnce'
  BY <1>1, <1>3 DEF TypeOK, FreesOnce
<1>5. StepsHold' /\ TokensUnique' /\ FreersAlone'
  BY <1>1 DEF StepsHold, StepHolds, TokensUnique, FreersAlone, FreerAlone, Frees, IsLive, Live
<1>6. WritersTarget'
  <2> SUFFICES ASSUME NEW u \in Threads, Writes(u) PROVE Target(u)'
    BY <1>1 DEF WritersTarget, Writes
  <2>1. Target(u) /\ call[u].ctx \in Contexts
    BY DEF WritersTarget, Target, ContextsOwned, IsLive
  <2>2. pool[call[u].ctx].protected => pool'[call[u].ctx].protected
    BY <1>3, <2>1
  <2> QED
    BY <1>1, <2>1, <2>2 DEF Target, Strays, IsLive
<1>7. ContextsMirror'
  <2>1. Mirrors(b)'
    BY <1>1, <1>3 DEF ContextsMirror, Mirrors
  <2>2. ASSUME NEW e \in Buffers \ {b}, IsLive(e) PROVE Mirrors(e)'
    <3>1. Mirrors(e) /\ buffers[e].ctx \in Contexts \ {c}
      BY <1>2, <2>2 DEF ContextsMirror, ContextsOwned, Has, IsLive
    <3> QED
      BY <1>1, <1>3, <3>1 DEF Mirrors
  <2>3. ASSUME NEW u \in Threads PROVE Prepared(u)'
    <3>1. Prepared(u)
      BY DEF ContextsMirror
    <3>2. CASE call[u].at \in {"fill", "init"}
      <4>1. Takes(u, call[u].ctx) /\ call[u].ctx \in Contexts \ {c}
        BY <1>2, <3>2 DEF StepsHold, StepHolds, ContextsOwned, Takes, Making
      <4> QED
        BY <1>1, <1>3, <3>1, <4>1 DEF Prepared
    <3>3. CASE call[u].at \notin {"fill", "init"}
      <4>1. call[u].at = "return" => call[u].ctx \in Contexts
        BY DEF StepsHold, StepHolds
      <4> QED
        BY <1>1, <1>3, <3>1, <3>3, <4>1 DEF Prepared
    <3> QED
      BY <3>2, <3>3
  <2> QED
    BY <1>1, <1>2, <1>3, <2>1, <2>2, <2>3 DEF ContextsMirror, IsLive
<1>8. ContextsOwned'
  BY <1>1, ContextsKept DEF Has, IsLive, Takes, Making
<1>9. SlotsOwned'
  BY <1>1 DEF SlotsOwned, Holds, Carries, Making, Orphan, SlotReleased, IsLive, Gone, Live
<1>10. BytesOwned'
  BY <1>1 DEF BytesOwned, Strays, Holds, Carries, Making, SlotReleased, IsLive
<1> QED
  BY <1>4, <1>5, <1>6, <1>7, <1>8, <1>9, <1>10

-----------------------------------------------------------------------------
(* A bridge comes or goes: no call is at work on its address. *)
LEMMA BridgeOnly ==
  ASSUME GgmlInv, UNCHANGED <<pool, inUse, used, mem, buffers, call, sealed>>,
         TypeOK', TokensUnique',
         \A t \in Threads : Live(call[t].access) =>
           Live(call[t].access)' /\ storage'[call[t].access] = storage[call[t].access],
         \A k \in 1 .. tokens : Gone(k) => Gone(k)'
  PROVE  GgmlInv'
<1> USE DEF GgmlInv
<1>1. StepsHold'
  <2> SUFFICES ASSUME NEW t \in Threads PROVE StepHolds(t)'
    BY DEF StepsHold
  <2>1. StepHolds(t) /\ (Live(call[t].access) => Live(call[t].access)')
    BY DEF StepsHold
  <2> QED
    BY <2>1 DEF StepHolds
<1>2. FreersAlone' /\ FreesOnce'
  BY DEF FreersAlone, FreerAlone, Frees, IsLive, FreesOnce
<1>3. WritersTarget'
  BY DEF WritersTarget, Writes, Target, Strays, IsLive
<1>4. ContextsMirror'
  <2>1. \A b \in Buffers : Mirrors(b)' <=> Mirrors(b)
    BY DEF Mirrors
  <2>2. ASSUME NEW t \in Threads PROVE Prepared(t)'
    <3>1. Prepared(t)
      BY DEF ContextsMirror
    <3>2. call[t].at = "init" => storage'[call[t].access] = storage[call[t].access]
      BY DEF StepsHold, StepHolds
    <3> QED
      BY <3>1, <3>2 DEF Prepared
  <2> QED
    BY <2>1, <2>2 DEF ContextsMirror, IsLive
<1>5. ContextsOwned'
  BY ContextsKept DEF Has, IsLive, Takes, Making
<1>6. \A b \in Buffers : SlotReleased(b)' <=> SlotReleased(b)
  BY DEF SlotReleased
<1>7. SlotsOwned'
  <2>1. ASSUME NEW s \in Slots, Orphan(s) PROVE Orphan(s)'
    <3>1. ASSUME NEW b \in Buffers, buffers[b].state = "freed" \/ SlotReleased(b), Gone(buffers[b].token)
          PROVE  Gone(buffers[b].token)'
      <4>1. buffers[b].state # "none"
        BY <3>1, SlotFacts DEF SlotReleased, StepsHold, StepHolds
      <4> PICK k \in 1 .. tokens : k = buffers[b].token
        BY <4>1 DEF TokensUnique
      <4>2. Gone(k)'
        BY <3>1
      <4> QED
        BY <4>2 DEF Gone
    <3> QED
      BY <1>6, <2>1, <3>1, OrphansKept
  <2> QED
    BY <1>6, <2>1, SlotsKept DEF Holds, IsLive, Carries, Making
<1>8. BytesOwned'
  BY <1>6 DEF BytesOwned, Strays, Holds, IsLive, Carries, Making
<1> QED
  BY <1>1, <1>2, <1>3, <1>4, <1>5, <1>7, <1>8

(* A bridge is constructed, with a token nobody had. *)
LEMMA ConstructKeeps ==
  ASSUME GgmlInv, NEW a \in Addrs, Construct(a)
  PROVE  GgmlInv'
<1> USE DEF GgmlInv
<1>1. /\ ~Live(a) /\ tokens < MaxBridges /\ tokens' = tokens + 1 /\ tokens \in Nat
      /\ UNCHANGED <<pool, inUse, used, mem, buffers, call, sealed>>
  BY SlotFacts DEF Construct, TypeOK
<1>2. /\ storage'[a].magic = "live" /\ storage'[a].token = tokens + 1
      /\ \A e \in Addrs \ {a} : storage'[e] = storage[e]
  BY DEF Construct, TypeOK
<1>3. TypeOK'
  <2>1. tokens + 1 \in 0 .. MaxBridges
    BY <1>1, SlotFacts
  <2> QED
    BY <1>1, <2>1 DEF TypeOK, Construct
<1>4. \A e : Live(e)' <=> Live(e) \/ e = a
  BY <1>2 DEF Live
<1>5. TokensUnique'
  BY <1>1, <1>2, <1>4 DEF TokensUnique
<1>6. ASSUME NEW t \in Threads, Live(call[t].access)
      PROVE  Live(call[t].access)' /\ storage'[call[t].access] = storage[call[t].access]
  BY <1>1, <1>2, <1>6 DEF Live
<1>7. \A k \in 1 .. tokens : Gone(k) => Gone(k)'
  BY <1>1, <1>2, <1>4 DEF Gone
<1> QED
  BY <1>1, <1>3, <1>5, <1>6, <1>7, BridgeOnly

(* A bridge is destroyed, live buffers or not: their slots become orphans. *)
LEMMA DestroyKeeps ==
  ASSUME GgmlInv, NEW a \in Addrs, Destroy(a)
  PROVE  GgmlInv'
<1> USE DEF GgmlInv
<1>1. /\ ~OnBridge(a) /\ UNCHANGED <<tokens, pool, inUse, used, mem, buffers, call, sealed>>
  BY DEF Destroy
<1>2. /\ storage'[a].magic = "freed" /\ \A e \in Addrs \ {a} : storage'[e] = storage[e]
  BY DEF Destroy, TypeOK
<1>3. TypeOK'
  BY <1>1, SlotFacts DEF TypeOK, Destroy
<1>4. \A e : Live(e)' <=> Live(e) /\ e # a
  BY <1>2 DEF Live
<1>5. TokensUnique'
  BY <1>1, <1>2, <1>4 DEF TokensUnique, Live
<1>6. ASSUME NEW t \in Threads, Live(call[t].access)
      PROVE  Live(call[t].access)' /\ storage'[call[t].access] = storage[call[t].access]
  BY <1>1, <1>2, <1>6 DEF Live, OnBridge
<1>7. \A k \in 1 .. tokens : Gone(k) => Gone(k)'
  BY <1>1, <1>2, <1>4 DEF Gone
<1> QED
  BY <1>1, <1>3, <1>5, <1>6, <1>7, BridgeOnly

-----------------------------------------------------------------------------
(* Before the first bridge the invariant holds. *)
LEMMA InitGgmlInv ==
  ASSUME Init, FreesOnce
  PROVE  GgmlInv
<1> USE DEF Init
<1>1. TypeOK
  <2>1. Blank \in Context /\ NoStruct \in Struct
    BY SlotFacts DEF Blank, Context, NoStruct, Struct, NoSlot
  <2>2. Zeroes \in [Bytes -> 0 .. MaxBuffers]
    BY SlotFacts DEF Zeroes
  <2> QED
    BY <2>1, <2>2, IdleFacts, SlotFacts DEF TypeOK
<1>2. StepsHold /\ TokensUnique
  BY IdleFacts, SlotFacts DEF StepsHold, StepHolds, TokensUnique, Live, NoStruct
<1>3. /\ \A t \in Threads : call[t].at = "idle" /\ call[t].ctx = NoContext
      /\ \A b \in Buffers : buffers[b].state = "none"
  BY IdleFacts DEF NoStruct
<1>4. ContextsOwned /\ FreersAlone /\ WritersTarget
  BY <1>3 DEF ContextsOwned, FreersAlone, WritersTarget, Has, IsLive, Takes, Making, Frees, Writes
<1>5. ContextsMirror
  BY <1>3 DEF ContextsMirror, IsLive, Prepared, Blank
<1>6. SlotsOwned
  BY <1>3 DEF SlotsOwned, Holds, IsLive, Carries, Making
<1>7. BytesOwned
  BY DEF BytesOwned, Zeroes
<1> QED
  BY <1>1, <1>2, <1>4, <1>5, <1>6, <1>7 DEF GgmlInv

(* Every step keeps the invariant. *)
LEMMA NextGgmlInv ==
  ASSUME GgmlInv, [Next]_vars
  PROVE  GgmlInv'
<1>1. CASE \E a \in Addrs : Construct(a) \/ Destroy(a)
  BY <1>1, ConstructKeeps, DestroyKeeps
<1>2. ASSUME NEW t \in Threads, Alloc(t) PROVE GgmlInv'
  BY <1>2, AllocCallKeeps, TakeSlotKeeps, AllocateFailsKeeps, TakeContextKeeps, PoolExhaustedKeeps,
     ResetContextKeeps, FillContextKeeps, InitBufferKeeps, InitFailsKeeps, DropSlotKeeps DEF Alloc
<1>3. ASSUME NEW t \in Threads, Use(t) PROVE GgmlInv'
  BY <1>3, FreeCallKeeps, WriteCallKeeps, SealBufferKeeps, FreeSlotKeeps, PoolReleaseKeeps,
     AskSealKeeps, StoreKeeps DEF Use
<1>4. CASE UNCHANGED vars
  <2> USE <1>4 DEF vars, GgmlInv
  <2>1. TypeOK' /\ FreesOnce' /\ StepsHold' /\ TokensUnique'
    BY DEF TypeOK, FreesOnce, StepsHold, StepHolds, TokensUnique, Live
  <2>2. ContextsOwned' /\ FreersAlone' /\ WritersTarget'
    BY DEF ContextsOwned, Has, IsLive, Takes, Making, FreersAlone, FreerAlone, Frees,
           WritersTarget, Writes, Target, Strays
  <2>3. ContextsMirror'
    BY DEF ContextsMirror, IsLive, Mirrors, Prepared
  <2>4. SlotsOwned' /\ BytesOwned'
    BY DEF SlotsOwned, BytesOwned, Strays, Holds, Carries, Making, Orphan, SlotReleased, IsLive, Gone, Live
  <2> QED
    BY <2>1, <2>2, <2>3, <2>4
<1> QED
  BY <1>1, <1>2, <1>3, <1>4 DEF Next

(* As long as no caller frees a buffer twice, the invariant holds: of      *)
(* alloc_buffer and free_buffer of any number of threads, whatever fails,  *)
(* whichever bridge is destroyed first, and with writes to freed buffers.  *)
THEOREM GgmlInvariant == FreesOnce /\ Spec => []GgmlInv
<1>1. Init /\ FreesOnce => GgmlInv
  BY InitGgmlInv
<1>2. GgmlInv /\ [Next]_vars => GgmlInv'
  BY NextGgmlInv
<1> QED
  BY <1>1, <1>2, PTL DEF Spec

-----------------------------------------------------------------------------
(* Sets of which no two members differ have at most one. *)
LEMMA AtMostOne ==
  ASSUME NEW S, \A x, y \in S : x = y
  PROVE  /\ S = {} => Cardinality(S) = 0
         /\ S # {} => Cardinality(S) = 1
<1>1. CASE S = {}
  BY <1>1, FS_EmptySet
<1>2. CASE S # {}
  <2>1. PICK x \in S : TRUE
    BY <1>2
  <2>2. S = {x}
    BY <2>1
  <2> QED
    BY <2>2, FS_Singleton
<1> QED
  BY <1>1, <1>2

(* A taken slot has exactly one owner, a buffer or a call that makes one,  *)
(* unless its buffer outlived the bridge; a free slot has none (EC22).     *)
THEOREM SlotsHaveOneOwner == FreesOnce /\ Spec => []SlotsOwnedOnce
<1>1. ASSUME GgmlInv PROVE SlotsOwnedOnce
  <2> SUFFICES ASSUME NEW s \in Slots
               PROVE  LET owners == Cardinality(SlotBuffers(s)) + Cardinality(SlotCalls(s))
                      IN  IF s \in used THEN owners = 1 \/ (owners = 0 /\ Orphan(s)) ELSE owners = 0
    BY DEF SlotsOwnedOnce
  <2>1. \A b : b \in SlotBuffers(s) <=> b \in Buffers /\ Holds(b, s)
    BY DEF SlotBuffers, Holds, IsLive
  <2>2. \A t : t \in SlotCalls(s) <=> t \in Threads /\ Carries(t, s)
    BY DEF SlotCalls, Carries, Making
  <2>3. SlotsOwned
    BY <1>1 DEF GgmlInv
  <2>4. /\ SlotBuffers(s) = {} => Cardinality(SlotBuffers(s)) = 0
        /\ SlotBuffers(s) # {} => Cardinality(SlotBuffers(s)) = 1
    BY <2>1, <2>3, AtMostOne DEF SlotsOwned
  <2>5. /\ SlotCalls(s) = {} => Cardinality(SlotCalls(s)) = 0
        /\ SlotCalls(s) # {} => Cardinality(SlotCalls(s)) = 1
    BY <2>2, <2>3, AtMostOne DEF SlotsOwned
  <2>6. SlotBuffers(s) = {} \/ SlotCalls(s) = {}
    BY <2>1, <2>2, <2>3 DEF SlotsOwned
  <2>7. s \notin used => SlotBuffers(s) = {} /\ SlotCalls(s) = {}
    BY <2>1, <2>2, <2>3 DEF SlotsOwned
  <2>8. s \in used /\ SlotBuffers(s) = {} /\ SlotCalls(s) = {} => Orphan(s)
    BY <2>1, <2>2, <2>3 DEF SlotsOwned
  <2> QED
    BY <2>4, <2>5, <2>6, <2>7, <2>8
<1> QED
  BY <1>1, GgmlInvariant, PTL

(* The in_use_ flags are the contexts of live buffers and of calls that    *)
(* make one, each of exactly one: ContextPool::acquire never hands out a   *)
(* context that somebody has, and release never loses one.                 *)
THEOREM ContextsHaveOneOwner == FreesOnce /\ Spec => []ContextsOwnedOnce
<1>1. ASSUME GgmlInv PROVE ContextsOwnedOnce
  <2> SUFFICES ASSUME NEW c \in Contexts
               PROVE  Cardinality({b \in Buffers : buffers[b].state = "live" /\ buffers[b].ctx = c})
                      + Cardinality({t \in Threads : call[t].buf = 0 /\ call[t].ctx = c})
                      = IF c \in inUse THEN 1 ELSE 0
    BY DEF ContextsOwnedOnce
  <2> DEFINE B == {b \in Buffers : buffers[b].state = "live" /\ buffers[b].ctx = c}
             T == {t \in Threads : call[t].buf = 0 /\ call[t].ctx = c}
  <2>1. \A b : b \in B <=> b \in Buffers /\ Has(b, c)
    BY DEF Has, IsLive
  <2>2. \A t : t \in T <=> t \in Threads /\ Takes(t, c)
    BY <1>1, SlotFacts DEF Takes, Making, GgmlInv, StepsHold, StepHolds
  <2> HIDE DEF B, T
  <2>3. ContextsOwned
    BY <1>1 DEF GgmlInv
  <2>4. (B = {} => Cardinality(B) = 0) /\ (B # {} => Cardinality(B) = 1)
    BY <2>1, <2>3, AtMostOne DEF ContextsOwned
  <2>5. (T = {} => Cardinality(T) = 0) /\ (T # {} => Cardinality(T) = 1)
    BY <2>2, <2>3, AtMostOne DEF ContextsOwned
  <2>6. (c \in inUse <=> B # {} \/ T # {}) /\ (B = {} \/ T = {})
    BY <2>1, <2>2, <2>3 DEF ContextsOwned
  <2>7. Cardinality(B) + Cardinality(T) = IF c \in inUse THEN 1 ELSE 0
    BY <2>4, <2>5, <2>6
  <2> QED
    BY <2>7 DEF B, T
<1> QED
  BY <1>1, GgmlInvariant, PTL

(* set_tensor, memset_tensor and clear write inside the requested size of  *)
(* a buffer that has the slot: the one named (EC25).  Only a handle used   *)
(* after free_buffer may reach another one, whose buft it shares (what     *)
(* EC126 gives).                                                           *)
THEOREM WritesHitTheirBuffer == FreesOnce /\ Spec => []WritesStayInside
<1>1. ASSUME GgmlInv PROVE WritesStayInside
  <2> SUFFICES ASSUME NEW s \in Slots, NEW i \in Bytes, mem[s][i] # 0
               PROVE  \/ s \in used /\ SlotBuffers(s) = {} /\ SlotCalls(s) = {}
                      \/ \E b \in SlotBuffers(s) :
                           /\ i < buffers[b].size
                           /\ mem[s][i] = b \/ Strays(mem[s][i], b)
    BY DEF WritesStayInside
  <2>1. \A b : b \in SlotBuffers(s) <=> b \in Buffers /\ Holds(b, s)
    BY DEF SlotBuffers, Holds, IsLive
  <2>2. \A t : t \in SlotCalls(s) <=> t \in Threads /\ Carries(t, s)
    BY DEF SlotCalls, Carries, Making
  <2>3. BytesOwned
    BY <1>1 DEF GgmlInv
  <2>4. CASE SlotBuffers(s) = {}
    BY <2>2, <2>3, <2>4 DEF BytesOwned
  <2>5. CASE SlotBuffers(s) # {}
    BY <2>1, <2>3, <2>5 DEF BytesOwned
  <2> QED
    BY <2>4, <2>5
<1> QED
  BY <1>1, GgmlInvariant, PTL

(* A buffer in use is write-protected exactly if sealBuffer was called on  *)
(* it: recycled contexts carry no seal over, and none is lost (EC95).      *)
THEOREM SealsStayWithTheirBuffer == FreesOnce /\ Spec => []SealIsOwners
<1>1. ASSUME GgmlInv PROVE SealIsOwners
  BY <1>1 DEF GgmlInv, ContextsMirror, Mirrors, SealIsOwners, InUse, IsLive
<1> QED
  BY <1>1, GgmlInvariant, PTL

(* No write that began after sealBuffer returned gets past the seal, even  *)
(* one through the handle of a freed buffer.                               *)
THEOREM SealsHold == FreesOnce /\ Spec => []SealedIsFrozen
<1>1. ASSUME GgmlInv PROVE SealedIsFrozen
  BY <1>1 DEF GgmlInv, WritersTarget, Writes, Target, SealedIsFrozen, At
<1> QED
  BY <1>1, GgmlInvariant, PTL

(* Every cast that a call on a live buffer of an existing bridge makes     *)
(* succeeds: there are no boundary faults in legal use.                    *)
THEOREM LegalCallsPass == FreesOnce /\ Spec => []NoFalseAlarm
<1>1. ASSUME GgmlInv PROVE NoFalseAlarm
  <2> SUFFICES ASSUME NEW b \in Buffers, InUse(b), NEW a \in Addrs, Live(a),
                      storage[a].token = buffers[b].token
               PROVE  ContextCasts(b) /\ AccessCasts(b) /\ Live(buffers[b].buft)
    BY DEF NoFalseAlarm, Gone
  <2>1. IsLive(b) /\ Mirrors(b)
    BY <1>1 DEF InUse, IsLive, GgmlInv, ContextsMirror
  <2>2. a = buffers[b].buft
    BY <1>1, <2>1 DEF GgmlInv, TokensUnique, IsLive
  <2>3. pool[buffers[b].ctx].magic = "buffer"
    BY <2>1 DEF Mirrors, InUse, Freeing
  <2> QED
    BY <2>1, <2>2, <2>3 DEF ContextCasts, AccessCasts, Mirrors
<1> QED
  BY <1>1, GgmlInvariant, PTL
=============================================================================
