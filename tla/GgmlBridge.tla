------------------------------ MODULE GgmlBridge ------------------------------
(***************************************************************************)
(* ArenaBridge: ggml buffers backed by slots of a FractalArena.            *)
(*                                                                         *)
(* A buffer is three objects of three owners: the ggml_backend_buffer      *)
(* struct (ggml's), a BufferContext of the process-wide ContextPool, and   *)
(* the arena slot.  Pointers between them cross a C interface, so every    *)
(* callback casts with a magic number (checked_cast) and the writing ones  *)
(* compare install tokens as well.  A failed cast is a boundary fault:     *)
(* nothing has changed yet, the call never returns and the host aborts or  *)
(* unwinds it, so that a call that would fault is no step here.            *)
(*                                                                         *)
(* Several bridges share the arena here: the hard case for telling their   *)
(* buffers apart.  Buffers are numbered in the order they are made; a      *)
(* struct keeps its contents after ggml has freed it, which is what a      *)
(* stale pointer to it reads.                                              *)
(***************************************************************************)
EXTENDS Contracts, FiniteSets

CONSTANTS
  Threads,
  Addrs,        \* where the heap may put a BuftStorage
  NoAddr,
  Contexts,     \* storage_ of the ContextPool
  NoContext,
  SlotCount,
  kSlotSize,    \* bytes of a slot
  MaxBufferSize,\* max_buffer_size of the bridges, after validateConfig
  MaxBridges,   \* bound: bridges constructed
  MaxBuffers,   \* bound: buffers made
  Misuse        \* caller mistakes that are allowed, see MisuseKinds

(***************************************************************************)
(* "stale_write": set_tensor, memset_tensor or clear on a freed buffer.    *)
(* "double_free": free_buffer on a freed buffer.  "bridge_first": a bridge *)
(* destroyed before its buffers.  A stale call finds the context at rest,  *)
(* in the pool or with its next buffer, and runs alone on it.              *)
(***************************************************************************)
MisuseKinds == {"stale_write", "double_free", "bridge_first"}

ASSUME GgmlAssumption ==
  /\ SlotCount \in Nat /\ kSlotSize \in Nat \ {0}
  /\ SlotCount * kSlotSize < UsizeMod
  /\ MaxBufferSize \in 1 .. kSlotSize
  /\ MaxBridges \in Nat /\ MaxBuffers \in Nat
  /\ NoAddr \notin Addrs /\ NoContext \notin Contexts
  /\ Misuse \subseteq MisuseKinds

Slots   == 0 .. SlotCount - 1
NoSlot  == SlotCount
Bytes   == 0 .. kSlotSize - 1
Buffers == 1 .. MaxBuffers
Tokens  == 1 .. MaxBridges

VARIABLES
  storage,   \* the ArenaAccess header at each address
  tokens,    \* installTokenCounter
  pool,      \* storage_ of the ContextPool
  inUse,     \* in_use_ of the ContextPool
  used,      \* occupied slots of the arena
  mem,       \* the buffer on whose behalf each byte was written, 0 if zeroed
  buffers,   \* the ggml_backend_buffer structs made so far
  call,      \* the call each thread is inside
  sealed     \* history: the live buffers sealBuffer() was called on

vars == <<storage, tokens, pool, inUse, used, mem, buffers, call, sealed>>

(* token tells the bridges apart in the histories; the code has it only in *)
(* the storage behind buft.  slot is where the buffer's tensors point to.  *)
Struct  == [state : {"none", "live", "freed"}, buft : Addrs \cup {NoAddr},
            ctx : Contexts \cup {NoContext}, slot : 0 .. NoSlot,
            size : 0 .. kSlotSize, token : 0 .. MaxBridges]
Context == [magic : {"buffer", "freed"}, access : Addrs \cup {NoAddr}, slot : 0 .. NoSlot,
            size : 0 .. kSlotSize, token : 0 .. MaxBridges, protected : BOOLEAN]
Steps   == {"idle", "slot", "context", "reset", "fill", "init", "dropSlot",
            "freeSlot", "markFreed", "return", "askSeal", "store"}
Call    == [at : Steps, buf : 0 .. MaxBuffers, access : Addrs \cup {NoAddr},
            ctx : Contexts \cup {NoContext}, slot : 0 .. NoSlot, size : 0 .. kSlotSize,
            bytes : SUBSET Bytes, late : BOOLEAN]

NoStruct == [state |-> "none", buft |-> NoAddr, ctx |-> NoContext, slot |-> NoSlot,
             size |-> 0, token |-> 0]
Blank    == [magic |-> "buffer", access |-> NoAddr, slot |-> NoSlot, size |-> 0,
             token |-> 0, protected |-> FALSE]
Idle     == [at |-> "idle", buf |-> 0, access |-> NoAddr, ctx |-> NoContext, slot |-> NoSlot,
             size |-> 0, bytes |-> {}, late |-> FALSE]
Zeroes   == [i \in Bytes |-> 0]

Init ==
  /\ storage = [a \in Addrs |-> [magic |-> "none", token |-> 0]]
  /\ tokens = 0
  /\ pool = [c \in Contexts |-> Blank]
  /\ inUse = {}
  /\ used = {}
  /\ mem = [s \in Slots |-> Zeroes]
  /\ buffers = [b \in Buffers |-> NoStruct]
  /\ call = [t \in Threads |-> Idle]
  /\ sealed = {}

At(t, step)   == call[t].at = step
GoOn(t, step) == call' = [call EXCEPT ![t].at = step]
Return(t)     == call' = [call EXCEPT ![t] = Idle]
Live(a)       == a \in Addrs /\ storage[a].magic = "live"
Alone(t)      == \A u \in Threads \ {t} : call[u] = Idle

(* What other calls are at work on *)
OnBuffer(b)  == \E t \in Threads : call[t].buf = b
OnContext(c) == \E t \in Threads : call[t].ctx = c
OnBridge(a)  == \E t \in Threads : call[t].access = a

-----------------------------------------------------------------------------
(* ArenaBridge's constructor and destructor.  The destructor marks the     *)
(* header freed and deletes the storage; the heap may hand the address out *)
(* again, and until then a cast of it fails.                               *)
Construct(a) ==
  /\ ~Live(a)
  /\ tokens < MaxBridges
  /\ tokens' = tokens + 1
  /\ storage' = [storage EXCEPT ![a] = [magic |-> "live", token |-> tokens + 1]]
  /\ UNCHANGED <<pool, inUse, used, mem, buffers, call, sealed>>

Destroy(a) ==
  /\ Live(a)
  /\ ~OnBridge(a)
  /\ \/ "bridge_first" \in Misuse
     \/ \A b \in Buffers : buffers[b].state = "live" => buffers[b].token # storage[a].token
  /\ storage' = [storage EXCEPT ![a] = [magic |-> "freed", token |-> 0]]
  /\ UNCHANGED <<tokens, pool, inUse, used, mem, buffers, call, sealed>>

-----------------------------------------------------------------------------
(* alloc_buffer.  An empty buffer takes no slot (EC31). *)
AllocCall(t, a, n) ==
  /\ At(t, "idle")
  /\ Live(a)
  /\ n <= MaxBufferSize
  /\ call' = [call EXCEPT ![t] = [Idle EXCEPT !.at = IF n = 0 THEN "context" ELSE "slot",
                                              !.access = a, !.size = n]]
  /\ UNCHANGED <<storage, tokens, pool, inUse, used, mem, buffers, sealed>>

(* The view of a slot just allocated is never empty, so the code's second  *)
(* rollback is not an action.                                              *)
TakeSlot(t) ==
  /\ At(t, "slot")
  /\ \E s \in Slots \ used :
       /\ used' = used \cup {s}
       /\ call' = [call EXCEPT ![t] = [@ EXCEPT !.at = "context", !.slot = s]]
  /\ UNCHANGED <<storage, tokens, pool, inUse, mem, buffers, sealed>>

(* The selector may overlook a free slot (see AxiomSelector). *)
AllocateFails(t) ==
  /\ At(t, "slot")
  /\ Return(t)
  /\ UNCHANGED <<storage, tokens, pool, inUse, used, mem, buffers, sealed>>

TakeContext(t) ==
  /\ At(t, "context")
  /\ \E c \in Contexts \ inUse :
       /\ inUse' = inUse \cup {c}
       /\ call' = [call EXCEPT ![t] = [@ EXCEPT !.at = "reset", !.ctx = c]]
  /\ UNCHANGED <<storage, tokens, pool, used, mem, buffers, sealed>>

(* The sweep over the contexts may miss one freed behind it. *)
Exhausted(t) == inUse = Contexts \/ ~Alone(t)

(* A bug: the slot is not given back when the pool is exhausted. *)
PoolExhaustedLeaks(t) ==
  /\ At(t, "context")
  /\ Exhausted(t)
  /\ Return(t)
  /\ UNCHANGED <<storage, tokens, pool, inUse, used, mem, buffers, sealed>>

RollBack(t) ==
  IF call[t].slot = NoSlot
  THEN Return(t)
  ELSE call' = [call EXCEPT ![t] = [@ EXCEPT !.at = "dropSlot", !.ctx = NoContext]]

PoolExhausted(t) ==
  /\ At(t, "context")
  /\ Exhausted(t)
  /\ RollBack(t)
  /\ UNCHANGED <<storage, tokens, pool, inUse, used, mem, buffers, sealed>>

(* A bug: the write protection of the context's last life is kept. *)
ResetContextPartly(t) ==
  /\ At(t, "reset")
  /\ pool' = [pool EXCEPT ![call[t].ctx] = [Blank EXCEPT !.protected = pool[call[t].ctx].protected]]
  /\ GoOn(t, "fill")
  /\ UNCHANGED <<storage, tokens, inUse, used, mem, buffers, sealed>>

(* EC95, EC130: every field of a recycled context is reset *)
ResetContext(t) ==
  /\ At(t, "reset")
  /\ pool' = [pool EXCEPT ![call[t].ctx] = Blank]
  /\ GoOn(t, "fill")
  /\ UNCHANGED <<storage, tokens, inUse, used, mem, buffers, sealed>>

FillContext(t) ==
  /\ At(t, "fill")
  /\ pool' = [pool EXCEPT ![call[t].ctx] =
       [@ EXCEPT !.access = call[t].access, !.slot = call[t].slot, !.size = call[t].size,
                 !.token = storage[call[t].access].token]]
  /\ GoOn(t, "init")
  /\ UNCHANGED <<storage, tokens, inUse, used, mem, buffers, sealed>>

(* ggml_backend_buffer_init *)
InitBuffer(t, b) ==
  /\ At(t, "init")
  /\ buffers[b].state = "none" /\ \A e \in Buffers : e < b => buffers[e].state # "none"
  /\ buffers' = [buffers EXCEPT ![b] =
       [state |-> "live", buft |-> call[t].access, ctx |-> call[t].ctx, slot |-> call[t].slot,
        size |-> call[t].size, token |-> storage[call[t].access].token]]
  /\ Return(t)
  /\ UNCHANGED <<storage, tokens, pool, inUse, used, mem, sealed>>

(* A bug: the context is not given back when ggml is out of memory. *)
InitFailsLeaks(t) ==
  /\ At(t, "init")
  /\ RollBack(t)
  /\ UNCHANGED <<storage, tokens, pool, inUse, used, mem, buffers, sealed>>

(* EC22, EC94: malloc failed; the context goes back first, then the slot *)
InitFails(t) ==
  /\ At(t, "init")
  /\ GoOn(t, "markFreed")
  /\ UNCHANGED <<storage, tokens, pool, inUse, used, mem, buffers, sealed>>

ReleaseSlot(s) ==
  /\ used' = used \ {s}
  /\ mem' = [m \in Slots |-> IF m = s THEN Zeroes ELSE mem[m]]

DropSlot(t) ==
  /\ At(t, "dropSlot")
  /\ ReleaseSlot(call[t].slot)
  /\ Return(t)
  /\ UNCHANGED <<storage, tokens, pool, inUse, buffers, sealed>>

-----------------------------------------------------------------------------
(* ContextPool::release, for a buffer that is freed and for one that could *)
(* not be made (buf is 0).                                                 *)
MarkFreed(t) == pool' = [pool EXCEPT ![call[t].ctx].magic = "freed"]

GiveBack(t) == inUse' = inUse \ {call[t].ctx}

Finish(t) ==
  IF call[t].buf = 0
  THEN RollBack(t) /\ UNCHANGED <<buffers, sealed>>
  ELSE /\ Return(t)
       /\ buffers' = [buffers EXCEPT ![call[t].buf].state = "freed"]
       /\ sealed' = sealed \ {call[t].buf}

(* A bug: the context is up for grabs before its header says freed. *)
PoolReleaseSwapped(t) ==
  /\ \/ At(t, "markFreed") /\ GiveBack(t) /\ GoOn(t, "return") /\ UNCHANGED <<pool, buffers, sealed>>
     \/ At(t, "return") /\ MarkFreed(t) /\ Finish(t) /\ UNCHANGED inUse
  /\ UNCHANGED <<storage, tokens, used, mem>>

PoolRelease(t) ==
  /\ \/ At(t, "markFreed") /\ MarkFreed(t) /\ GoOn(t, "return") /\ UNCHANGED <<inUse, buffers, sealed>>
     \/ At(t, "return") /\ GiveBack(t) /\ Finish(t) /\ UNCHANGED pool
  /\ UNCHANGED <<storage, tokens, used, mem>>

-----------------------------------------------------------------------------
(* What a caller does: it frees a buffer when nobody else uses it, and     *)
(* uses it until it frees it, but for the mistakes in Misuse.              *)
Freeing(b) == \E t \in Threads : call[t].buf = b /\ call[t].at \in {"freeSlot", "markFreed", "return"}
InUse(b)   == buffers[b].state = "live" /\ ~Freeing(b)

MayFree(b) ==
  /\ ~OnContext(buffers[b].ctx)
  /\ \/ buffers[b].state = "live"
     \/ buffers[b].state = "freed" /\ "double_free" \in Misuse

MayWrite(b) ==
  \/ InUse(b)
  \/ buffers[b].state = "freed" /\ "stale_write" \in Misuse /\ ~OnContext(buffers[b].ctx)

(* The casts of a call on a buffer succeed. *)
ContextCasts(b) == pool[buffers[b].ctx].magic = "buffer"
AccessCasts(b)  == LET a == pool[buffers[b].ctx].access IN a = NoAddr \/ Live(a)

(* free_buffer.  A slot is released only to the bridge it came from. *)
FreeCall(t, b) ==
  /\ At(t, "idle")
  /\ MayFree(b)
  /\ ContextCasts(b) /\ AccessCasts(b)
  /\ LET ctx == pool[buffers[b].ctx]
         ours == ctx.access # NoAddr /\ storage[ctx.access].token = ctx.token
     IN  call' = [call EXCEPT ![t] =
           [Idle EXCEPT !.at = IF ours /\ ctx.slot # NoSlot THEN "freeSlot" ELSE "markFreed",
                        !.buf = b, !.access = ctx.access, !.ctx = buffers[b].ctx,
                        !.slot = ctx.slot]]
  /\ UNCHANGED <<storage, tokens, pool, inUse, used, mem, buffers, sealed>>

FreeSlot(t) ==
  /\ At(t, "freeSlot")
  /\ ReleaseSlot(call[t].slot)
  /\ GoOn(t, "markFreed")
  /\ UNCHANGED <<storage, tokens, pool, inUse, buffers, sealed>>

(* A bug: the install tokens are not compared. *)
TokensUnasked(buft, ctx) == TRUE

(* Layer 3 of validateBufferForWrite *)
TokensAgree(buft, ctx) ==
  /\ storage[buft].token = storage[ctx.access].token
  /\ ctx.token = storage[ctx.access].token

(* A bug: the tensor may end anywhere. *)
BytesUnbounded(ctx, data, offset, size) ==
  LET total == data - ctx.slot * kSlotSize + offset
  IN  IF total < 0 THEN {} ELSE total .. total + size - 1

(* The bytes of the slot that tensor->data + offset and size stand for:    *)
(* none when the call is refused.                                          *)
BytesWithin(ctx, data, offset, size) ==
  LET base  == ctx.slot * kSlotSize
      total == Sum(data - base, offset)
  IN  IF data < base \/ AddOverflow(data - base, offset) \/ ~RangeWithin(ctx.size, total, size)
      THEN {}
      ELSE total .. total + size - 1

(* set_tensor and memset_tensor write where a tensor says, clear writes    *)
(* the whole buffer.  A call that is refused changes nothing.              *)
Targets(ctx) ==
  {0 .. ctx.size - 1} \cup
  {BytesWithin(ctx, data, offset, size) :
     data \in Usize, offset \in {0, 1, UsizeMod - 1}, size \in {1, kSlotSize, UsizeMod - 1}}

WriteCall(t, b) ==
  /\ At(t, "idle")
  /\ MayWrite(b)
  /\ ContextCasts(b) /\ AccessCasts(b) /\ Live(buffers[b].buft)
  /\ LET ctx == pool[buffers[b].ctx]
     IN  /\ ctx.access # NoAddr /\ ctx.slot # NoSlot
         /\ TokensAgree(buffers[b].buft, ctx)
         /\ \E bytes \in Targets(ctx) \ {{}} :
              call' = [call EXCEPT ![t] =
                [Idle EXCEPT !.at = "askSeal", !.buf = b, !.access = ctx.access,
                             !.ctx = buffers[b].ctx, !.slot = ctx.slot, !.bytes = bytes,
                             !.late = ctx.protected]]
  /\ UNCHANGED <<storage, tokens, pool, inUse, used, mem, buffers, sealed>>

(* A bug: the seal is not asked for. *)
SealUnasked(t) ==
  /\ At(t, "askSeal")
  /\ GoOn(t, "store")
  /\ UNCHANGED <<storage, tokens, pool, inUse, used, mem, buffers, sealed>>

(* EC95 *)
AskSeal(t) ==
  /\ At(t, "askSeal")
  /\ IF pool[call[t].ctx].protected THEN Return(t) ELSE GoOn(t, "store")
  /\ UNCHANGED <<storage, tokens, pool, inUse, used, mem, buffers, sealed>>

Store(t) ==
  /\ At(t, "store")
  /\ mem' = [mem EXCEPT ![call[t].slot] =
               [i \in Bytes |-> IF i \in call[t].bytes THEN call[t].buf ELSE @[i]]]
  /\ Return(t)
  /\ UNCHANGED <<storage, tokens, pool, inUse, used, buffers, sealed>>

(* sealBuffer of the bridge at a: one exchange *)
SealBuffer(t, a, b) ==
  /\ At(t, "idle") /\ Live(a) /\ InUse(b)
  /\ ContextCasts(b)
  /\ LET c == buffers[b].ctx
     IN  /\ pool[c].token = storage[a].token
         /\ pool' = [pool EXCEPT ![c].protected = TRUE]
         /\ sealed' = sealed \cup {b}
  /\ UNCHANGED <<storage, tokens, inUse, used, mem, buffers, call>>

-----------------------------------------------------------------------------
Alloc(t) ==
  \/ \E a \in Addrs, n \in 0 .. MaxBufferSize : AllocCall(t, a, n)
  \/ TakeSlot(t) \/ AllocateFails(t) \/ TakeContext(t) \/ PoolExhausted(t)
  \/ ResetContext(t) \/ FillContext(t)
  \/ \E b \in Buffers : InitBuffer(t, b)
  \/ InitFails(t) \/ DropSlot(t)

Use(t) ==
  \/ \E b \in Buffers : FreeCall(t, b) \/ WriteCall(t, b)
  \/ \E a \in Addrs, b \in Buffers : SealBuffer(t, a, b)
  \/ FreeSlot(t) \/ PoolRelease(t) \/ AskSeal(t) \/ Store(t)

Next ==
  \/ \E a \in Addrs : Construct(a) \/ Destroy(a)
  \/ \E t \in Threads : Alloc(t) \/ Use(t)

Spec == Init /\ [][Next]_vars

-----------------------------------------------------------------------------
TypeOK ==
  /\ storage \in [Addrs -> [magic : {"none", "live", "freed"}, token : 0 .. MaxBridges]]
  /\ tokens \in 0 .. MaxBridges
  /\ pool \in [Contexts -> Context]
  /\ inUse \subseteq Contexts
  /\ used \subseteq Slots
  /\ mem \in [Slots -> [Bytes -> 0 .. MaxBuffers]]
  /\ buffers \in [Buffers -> Struct]
  /\ call \in [Threads -> Call]
  /\ sealed \subseteq Buffers

Gone(token) == \A a \in Addrs : ~(Live(a) /\ storage[a].token = token)

(* Who has a slot: buffers whose slot free_buffer has not released, and    *)
(* calls that make a buffer.                                               *)
SlotReleased(b) == \E t \in Threads : call[t].buf = b /\ call[t].at \in {"markFreed", "return"}
SlotBuffers(s)  == {b \in Buffers : buffers[b].state = "live" /\ buffers[b].slot = s /\ ~SlotReleased(b)}
SlotCalls(s)    == {t \in Threads : call[t].buf = 0 /\ call[t].at # "idle" /\ call[t].slot = s}
Orphan(s)       == \E b \in Buffers : /\ buffers[b].slot = s /\ Gone(buffers[b].token)
                                      /\ buffers[b].state = "freed" \/ SlotReleased(b)

(* A slot of the arena has exactly one owner while it is taken, whatever   *)
(* step of an allocation fails (EC22) and however allocations and frees    *)
(* interleave.  Only a buffer that outlived its bridge leaves a slot with  *)
(* no owner: free_buffer does not release what another bridge's token, or  *)
(* none, vouches for.                                                      *)
SlotsOwnedOnce ==
  \A s \in Slots :
    LET owners == Cardinality(SlotBuffers(s)) + Cardinality(SlotCalls(s))
    IN  IF s \in used THEN owners = 1 \/ (owners = 0 /\ Orphan(s)) ELSE owners = 0

(* The in_use_ flags of the ContextPool are exactly the contexts of live   *)
(* buffers and of calls that make one, each of one of them: a context is   *)
(* never lost on a failed allocation nor shared by two buffers.            *)
ContextsOwnedOnce ==
  \A c \in Contexts :
    LET owners == Cardinality({b \in Buffers : buffers[b].state = "live" /\ buffers[b].ctx = c})
                  + Cardinality({t \in Threads : call[t].buf = 0 /\ call[t].ctx = c})
    IN  owners = IF c \in inUse THEN 1 ELSE 0

(* What is known of a stray write: the handle of b, used after free_buffer, *)
(* has reached a buffer e whose buft it shares.                            *)
Strays(b, e) ==
  /\ "stale_write" \in Misuse
  /\ buffers[b].state = "freed" /\ buffers[b].buft = buffers[e].buft

(* A byte set_tensor, memset_tensor or clear wrote lies inside the         *)
(* requested size of a buffer that has the slot (EC25), and that buffer is *)
(* the one the call named.  The exception is a handle used after           *)
(* free_buffer, which may reach another buffer of the same bridge, or of   *)
(* one built at its address, but none of a bridge elsewhere (what EC126    *)
(* really gives, see StaleWriteDetected); no write through a live handle   *)
(* is excepted.  Only a slot that lost its owner keeps old bytes.          *)
WritesStayInside ==
  \A s \in Slots, i \in Bytes :
    \/ mem[s][i] = 0
    \/ s \in used /\ SlotBuffers(s) = {} /\ SlotCalls(s) = {}
    \/ \E b \in SlotBuffers(s) :
         /\ i < buffers[b].size
         /\ mem[s][i] = b \/ Strays(mem[s][i], b)

(* bridge.cpp:301-306: the install tokens detect writes through "contexts  *)
(* that were freed and recycled for a DIFFERENT bridge instance": the      *)
(* bytes in a buffer's slot were written through handles of its bridge.    *)
StaleWriteDetected ==
  \A s \in Slots, i \in Bytes : \A b \in SlotBuffers(s) :
    mem[s][i] # 0 => buffers[mem[s][i]].token = buffers[b].token

(* A buffer is write-protected exactly if sealBuffer was called on it: a   *)
(* recycled context does not carry the seal of its last life over (EC95,   *)
(* EC130), and a seal is not lost.                                         *)
SealIsOwners ==
  \A b \in Buffers : InUse(b) => (pool[buffers[b].ctx].protected <=> b \in sealed)

(* No call that began after sealBuffer returned gets as far as to write. *)
SealedIsFrozen == \A t \in Threads : At(t, "store") => ~call[t].late

(* No boundary fault in legal use: whatever other threads allocate and     *)
(* free, each cast a call on a live buffer makes succeeds as long as its   *)
(* bridge exists.                                                          *)
NoFalseAlarm ==
  \A b \in Buffers :
    InUse(b) /\ ~Gone(buffers[b].token)
      => ContextCasts(b) /\ AccessCasts(b) /\ Live(buffers[b].buft)

(* bridge.cpp:355-357: "a double free_buffer hits this branch and the      *)
(* second checked_cast sees kFreedMagic": no free_buffer gets past the     *)
(* casts on a buffer that was freed before.                                *)
DoubleFreeFaults ==
  \A t \in Threads :
    call[t].buf # 0 /\ call[t].at \in {"freeSlot", "markFreed", "return"}
      => buffers[call[t].buf].state = "live"
=============================================================================
