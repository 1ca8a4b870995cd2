---------------------------- MODULE TieredBridge ----------------------------
(***************************************************************************)
(* TieredArenaBridge: tenants whose payload lives in a hot arena and may   *)
(* be evicted, compressed, to a cold arena and promoted back on access.    *)
(* Micro-tenants share one hot slot, one sub-cell each, and never migrate. *)
(*                                                                         *)
(* Structural operations run under struct_mutex_.  An operation that may   *)
(* have to evict is split where the code loops over allocate and evict:    *)
(* cs describes the operation inside the mutex, and everything that does   *)
(* not take the mutex interleaves with it: release(), writes through the   *)
(* spans handed out, and the other users of the hot arena.                 *)
(*                                                                         *)
(* Payload bytes are abstracted to an owner stamp per sub-cell: 0 for      *)
(* zeroed memory, otherwise the id of the tenant whose payload it is.      *)
(* access_time tickets are abstracted to the order they induce.            *)
(***************************************************************************)
EXTENDS Integers, FiniteSets

CONSTANTS
  MaxTenants,    \* size of tenants_
  SubSlots,      \* kSubSlotsPerSlot
  EvictRetries,  \* kEvictRetries
  PinSoftMax,    \* kPinCountSoftMax (2^31 in the code)
  HotSlots,      \* slots of the hot arena
  ColdSlots,     \* slots of the cold arena
  NoSlot,        \* the null GenID
  Threads,       \* caller threads that hold spans
  NoThread,
  MaxIds,        \* bound: tenant ids handed out in a behaviour
  MaxExternal,   \* bound: hot slots other users of the arena hold at once
  CodecMayFail,  \* the codec may return a wrong byte count
  Misuse         \* caller mistakes that are allowed, see MisuseKinds

(***************************************************************************)
(* What a caller may get wrong.  "destroy_pinned": destroy a tenant that   *)
(* some thread still holds acquired.  "over_release": call release()       *)
(* without a matching acquire.  "leak": never release what was acquired.   *)
(* "fp32_on_micro": call acquireFP32 on a micro-tenant.  None of them is   *)
(* refused by the code.                                                    *)
(***************************************************************************)
MisuseKinds == {"destroy_pinned", "over_release", "leak", "fp32_on_micro"}

ASSUME SizesAssumption ==
  /\ MaxTenants \in Nat \ {0} /\ SubSlots \in Nat \ {0}
  /\ EvictRetries \in Nat /\ PinSoftMax \in Nat \ {0}
  /\ MaxIds \in Nat /\ MaxExternal \in Nat
ASSUME NamesAssumption ==
  /\ NoSlot \notin HotSlots \cup ColdSlots
  /\ IsFiniteSet(Threads) /\ NoThread \notin Threads
  /\ CodecMayFail \in BOOLEAN /\ Misuse \subseteq MisuseKinds

(* A bug: rounded down. *)
SharedSlotsRoundedDown == MaxTenants \div SubSlots

kMaxSharedSlots == (MaxTenants + SubSlots - 1) \div SubSlots

Recs   == 0 .. MaxTenants - 1
Shared == 0 .. kMaxSharedSlots - 1
Cells  == 0 .. SubSlots - 1
Ids    == 1 .. MaxIds
NoRec  == MaxTenants

VARIABLES
  tenants,    \* tenants_: the TenantRecord pool
  sharedHot,  \* shared_slots_[i].hot_id
  bitmap,     \* shared_slots_[i].occupancy_bitmap, as a set of sub-cells
  scanStart,  \* next_shared_scan_start_
  nextId,     \* next_tenant_id_
  before,     \* before[r]: the records with an older access_time than r
  cs,         \* the operation inside struct_mutex_
  hotUsed,    \* occupied slots of *hot_
  coldUsed,   \* occupied slots of *cold_
  ext,        \* occupied hot slots that belong to other users of the arena
  hotMem,     \* owner stamp of each sub-cell of each hot slot
  coldMem,    \* the stamps compressed into each cold slot
  view,       \* the span a thread holds from acquireFP32/acquireMicroFP32
  found       \* the record release() has looked up and not yet decremented

bridgeVars == <<tenants, sharedHot, bitmap, scanStart, nextId, before, cs>>
arenaVars  == <<hotUsed, coldUsed, ext, hotMem, coldMem>>
callerVars == <<view, found>>
vars == <<bridgeVars, arenaVars, callerVars>>

TenantRecord ==
  [id: 0 .. MaxIds, state: {"Dead", "InHot", "InCold"}, kind: {"Full", "Micro"},
   hot: HotSlots \cup {NoSlot}, sub: Cells, cold: ColdSlots \cup {NoSlot},
   shared: Shared, pins: 0 .. PinSoftMax, sealed: BOOLEAN]

Op == [op: {"none", "create", "micro", "promote"},
       rec: Recs \cup {NoRec}, who: Threads \cup {NoThread}, tries: 0 .. EvictRetries]

Span == [id: 0 .. MaxIds, slot: HotSlots \cup {NoSlot}, cells: SUBSET Cells]

Idle    == [op |-> "none", rec |-> NoRec, who |-> NoThread, tries |-> 0]
NoView  == [id |-> 0, slot |-> NoSlot, cells |-> {}]
Zeroes  == [c \in Cells |-> 0]

Init ==
  /\ tenants = [r \in Recs |->
       [id |-> 0, state |-> "Dead", kind |-> "Full", hot |-> NoSlot, sub |-> 0,
        cold |-> NoSlot, shared |-> 0, pins |-> 0, sealed |-> FALSE]]
  /\ sharedHot = [i \in Shared |-> NoSlot]
  /\ bitmap = [i \in Shared |-> {}]
  /\ scanStart = 0
  /\ nextId = 0
  /\ before = [r \in Recs |-> {}]
  /\ cs = Idle
  /\ hotUsed = {} /\ coldUsed = {} /\ ext = {}
  /\ hotMem = [s \in HotSlots |-> Zeroes]
  /\ coldMem = [c \in ColdSlots |-> Zeroes]
  /\ view = [t \in Threads |-> NoView]
  /\ found = [t \in Threads |-> NoRec]

-----------------------------------------------------------------------------
(* Lookups.  state = "Dead" stands for in_use = false as well: the code    *)
(* always writes the two together.                                         *)

Live(r) == tenants[r].state # "Dead"
FullInHot(r) == tenants[r].state = "InHot" /\ tenants[r].kind = "Full"

(* findTenantLocked and findTenantLockfree *)
FindTenant(h) == {r \in Recs : Live(r) /\ tenants[r].id = h}

(* acquireRecord: the first record that is not in use *)
FirstFreeRecord(r) == ~Live(r) /\ \A q \in Recs : q < r => Live(q)

(* bumpAccessTime, and the access_time a new record gets: the newest ticket *)
Touch(r) == before' = [q \in Recs |-> IF q = r THEN Recs \ {r} ELSE before[q] \ {r}]

(* hot_->allocate returns null on a full arena; while other threads use    *)
(* the arena it may also miss a free slot (see AxiomSelector).             *)
HotFree == HotSlots \ hotUsed
HotAllocateFails == HotFree = {} \/ MaxExternal > 0

(* Two bugs: a slot that goes back unwiped, one that does not go back. *)
ReleaseHotUnwiped(slot) == hotUsed' = hotUsed \ {slot} /\ UNCHANGED hotMem

ReleaseColdForgotten(slot) == UNCHANGED <<coldUsed, coldMem>>

(* hot_->release and cold_->release wipe the slot before they free it; a   *)
(* null GenID is refused.                                                  *)
ReleaseHot(slot) ==
  /\ hotUsed' = hotUsed \ {slot}
  /\ hotMem' = [s \in HotSlots |-> IF s = slot THEN Zeroes ELSE hotMem[s]]

ReleaseCold(slot) ==
  /\ coldUsed' = coldUsed \ {slot}
  /\ coldMem' = [c \in ColdSlots |-> IF c = slot THEN Zeroes ELSE coldMem[c]]

NewTenant(kind, slot, sub, i) ==
  [id |-> nextId + 1, state |-> "InHot", kind |-> kind, hot |-> slot, sub |-> sub,
   cold |-> NoSlot, shared |-> i, pins |-> 0, sealed |-> FALSE]

Enter(op, t, r) == cs' = [op |-> op, rec |-> r, who |-> t, tries |-> 0]

-----------------------------------------------------------------------------
(* createTenant *)

CreateTenant ==
  /\ cs = Idle
  /\ nextId < MaxIds
  /\ \E r \in Recs : FirstFreeRecord(r) /\ Enter("create", NoThread, r)
  /\ UNCHANGED <<tenants, sharedHot, bitmap, scanStart, nextId, before, arenaVars, callerVars>>

CreateBind ==
  /\ cs.op = "create"
  /\ \E s \in HotFree :
       /\ hotUsed' = hotUsed \cup {s}
       /\ tenants' = [tenants EXCEPT ![cs.rec] = NewTenant("Full", s, 0, 0)]
  /\ nextId' = nextId + 1
  /\ Touch(cs.rec)
  /\ cs' = Idle
  /\ UNCHANGED <<sharedHot, bitmap, scanStart, coldUsed, ext, hotMem, coldMem, callerVars>>

(* createMicroTenant *)

Roomy == {i \in Shared : sharedHot[i] # NoSlot /\ bitmap[i] # Cells}

ScanDistance(i) == (i - scanStart + kMaxSharedSlots) % kMaxSharedSlots

FirstRoomy(i) == i \in Roomy /\ \A j \in Roomy : ScanDistance(i) <= ScanDistance(j)

(* A bug: the next sub-cell is the number of sub-cells taken so far. *)
NextCell(i, b) == b = Cardinality(bitmap[i])

LowestFreeCell(i, b) == b \in Cells \ bitmap[i] /\ \A c \in Cells \ bitmap[i] : b <= c

AdvanceScan == scanStart' = (scanStart + 1) % kMaxSharedSlots

(* 2a: a sub-cell of a slot that is already shared *)
CreateMicroInShared ==
  /\ cs = Idle
  /\ nextId < MaxIds
  /\ \E r \in Recs, i \in Shared, b \in Cells :
       /\ FirstFreeRecord(r) /\ FirstRoomy(i) /\ LowestFreeCell(i, b)
       /\ bitmap' = [bitmap EXCEPT ![i] = @ \cup {b}]
       /\ tenants' = [tenants EXCEPT ![r] = NewTenant("Micro", sharedHot[i], b, i)]
       /\ hotMem' = [hotMem EXCEPT ![sharedHot[i]][b] = 0]
       /\ Touch(r)
  /\ nextId' = nextId + 1
  /\ AdvanceScan
  /\ UNCHANGED <<sharedHot, cs, hotUsed, coldUsed, ext, coldMem, callerVars>>

(* 2b: every shared slot is full, so a fresh hot slot is needed *)
CreateMicroTenant ==
  /\ cs = Idle
  /\ nextId < MaxIds
  /\ Roomy = {}
  /\ \E r \in Recs : FirstFreeRecord(r) /\ Enter("micro", NoThread, r)
  /\ AdvanceScan
  /\ UNCHANGED <<tenants, sharedHot, bitmap, nextId, before, arenaVars, callerVars>>

Unbound == {i \in Shared : sharedHot[i] = NoSlot /\ bitmap[i] = {}}

(* The code's "should not happen given the sizing" branch, no unbound      *)
(* entry, is not an action: SharedEntryAvailable says it is unreachable.   *)
CreateMicroBind ==
  /\ cs.op = "micro"
  /\ \E s \in HotFree, i \in Unbound :
       /\ \A j \in Unbound : i <= j
       /\ hotUsed' = hotUsed \cup {s}
       /\ sharedHot' = [sharedHot EXCEPT ![i] = s]
       /\ bitmap' = [bitmap EXCEPT ![i] = {0}]
       /\ tenants' = [tenants EXCEPT ![cs.rec] = NewTenant("Micro", s, 0, i)]
       /\ hotMem' = [hotMem EXCEPT ![s][0] = 0]
  /\ nextId' = nextId + 1
  /\ Touch(cs.rec)
  /\ cs' = Idle
  /\ UNCHANGED <<scanStart, coldUsed, ext, coldMem, callerVars>>

-----------------------------------------------------------------------------
(* evictOldestToColdLocked, inside the retry loop of the operation in cs *)

SkipId == IF cs.op = "promote" THEN tenants[cs.rec].id ELSE 0

(* Three bugs: a victim that is pinned, sealed, or a micro-tenant. *)
EvictablePinned ==
  {r \in Recs : /\ FullInHot(r) /\ tenants[r].id # SkipId /\ ~tenants[r].sealed}

EvictableSealed ==
  {r \in Recs : /\ FullInHot(r) /\ tenants[r].id # SkipId /\ tenants[r].pins = 0}

EvictableMicro ==
  {r \in Recs : /\ tenants[r].state = "InHot" /\ tenants[r].id # SkipId
                /\ tenants[r].pins = 0 /\ ~tenants[r].sealed}

Evictable ==
  {r \in Recs : /\ tenants[r].state = "InHot"
                /\ tenants[r].pins = 0
                /\ tenants[r].id # SkipId
                /\ ~tenants[r].sealed
                /\ tenants[r].kind = "Full"}

Oldest(S) == {r \in S : before[r] \cap S = {}}

EvictOldest ==
  /\ cs # Idle
  /\ HotAllocateFails
  /\ cs.tries < EvictRetries
  /\ \E v \in Oldest(Evictable), c \in ColdSlots \ coldUsed :
       /\ coldUsed' = coldUsed \cup {c}
       /\ coldMem' = [coldMem EXCEPT ![c] = hotMem[tenants[v].hot]]
       /\ ReleaseHot(tenants[v].hot)
       /\ tenants' = [tenants EXCEPT ![v] = [@ EXCEPT !.hot = NoSlot, !.cold = c, !.state = "InCold"]]
  /\ cs' = [cs EXCEPT !.tries = @ + 1]
  /\ UNCHANGED <<sharedHot, bitmap, scanStart, nextId, before, ext, callerVars>>

(* A bug: a failed eviction is ignored and the loop goes on. *)
GiveUpLate ==
  /\ cs # Idle
  /\ HotAllocateFails
  /\ cs.tries = EvictRetries
  /\ cs' = Idle
  /\ UNCHANGED <<tenants, sharedHot, bitmap, scanStart, nextId, before, arenaVars, callerVars>>

(* The operation gives up: no record changes, the caller gets a null       *)
(* handle or an empty span.                                                *)
GiveUp ==
  /\ cs # Idle
  /\ HotAllocateFails
  /\ \/ cs.tries = EvictRetries
     \/ Evictable = {}
     \/ coldUsed = ColdSlots
     \/ CodecMayFail
  /\ cs' = Idle
  /\ UNCHANGED <<tenants, sharedHot, bitmap, scanStart, nextId, before, arenaVars, callerVars>>

-----------------------------------------------------------------------------
(* acquireFP32 and acquireMicroFP32 *)

CanCall(t) == view[t] = NoView /\ found[t] = NoRec /\ cs.who # t

(* A bug: the soft maximum is not looked at. *)
PinUnbounded(r) == tenants' = [tenants EXCEPT ![r].pins = @ + 1]

(* EC15: at the soft maximum the caller gets an empty span and nothing     *)
(* changes, so that pins leaked by callers never wrap the count to zero.   *)
Pin(r) == tenants[r].pins < PinSoftMax /\ tenants' = [tenants EXCEPT ![r].pins = @ + 1]

GiveView(t, r, cells) ==
  view' = [view EXCEPT ![t] = [id |-> tenants[r].id, slot |-> tenants[r].hot, cells |-> cells]]

AcquireFP32(t, h) ==
  /\ cs = Idle
  /\ CanCall(t)
  /\ \E r \in FindTenant(h) :
       /\ tenants[r].state = "InHot"
       /\ tenants[r].kind = "Full" \/ "fp32_on_micro" \in Misuse
       /\ Pin(r)
       /\ Touch(r)
       /\ GiveView(t, r, Cells)
  /\ UNCHANGED <<sharedHot, bitmap, scanStart, nextId, cs, arenaVars, found>>

AcquireMicroFP32(t, h) ==
  /\ cs = Idle
  /\ CanCall(t)
  /\ \E r \in FindTenant(h) :
       /\ tenants[r].kind = "Micro"
       /\ Pin(r)
       /\ Touch(r)
       /\ GiveView(t, r, {tenants[r].sub})
  /\ UNCHANGED <<sharedHot, bitmap, scanStart, nextId, cs, arenaVars, found>>

(* acquireFP32 of a tenant in the cold tier promotes it first *)
AcquireFP32Cold(t, h) ==
  /\ cs = Idle
  /\ CanCall(t)
  /\ \E r \in FindTenant(h) : tenants[r].state = "InCold" /\ Enter("promote", t, r)
  /\ UNCHANGED <<tenants, sharedHot, bitmap, scanStart, nextId, before, arenaVars, callerVars>>

Promote ==
  /\ cs.op = "promote"
  /\ tenants[cs.rec].pins < PinSoftMax
  /\ \E s \in HotFree :
       /\ hotUsed' = hotUsed \cup {s}
       /\ hotMem' = [hotMem EXCEPT ![s] = coldMem[tenants[cs.rec].cold]]
       /\ tenants' = [tenants EXCEPT ![cs.rec] =
            [@ EXCEPT !.hot = s, !.cold = NoSlot, !.state = "InHot",
                      !.pins = tenants[cs.rec].pins + 1]]
       /\ view' = [view EXCEPT ![cs.who] =
                     [id |-> tenants[cs.rec].id, slot |-> s, cells |-> Cells]]
  /\ ReleaseCold(tenants[cs.rec].cold)
  /\ Touch(cs.rec)
  /\ cs' = Idle
  /\ UNCHANGED <<sharedHot, bitmap, scanStart, nextId, ext, found>>

(* A bug: the fresh slot is not given back. *)
PromoteLeaks ==
  /\ cs.op = "promote" /\ CodecMayFail
  /\ \E s \in HotFree : hotUsed' = hotUsed \cup {s}
  /\ cs' = Idle
  /\ UNCHANGED <<tenants, sharedHot, bitmap, scanStart, nextId, before,
                 coldUsed, ext, hotMem, coldMem, callerVars>>

(* EC83: the decoder wrote a wrong byte count; the fresh slot goes back,   *)
(* wiped, and the tenant stays in the cold tier.                           *)
PromoteDecodeFails ==
  /\ cs.op = "promote"
  /\ CodecMayFail
  /\ \E s \in HotFree : ReleaseHot(s)
  /\ cs' = Idle
  /\ UNCHANGED <<tenants, sharedHot, bitmap, scanStart, nextId, before,
                 coldUsed, ext, coldMem, callerVars>>

(* A thread writes through the span it holds. *)
Write(t) ==
  /\ view[t] # NoView
  /\ hotMem' = [hotMem EXCEPT ![view[t].slot] =
                  [c \in Cells |-> IF c \in view[t].cells THEN view[t].id ELSE @[c]]]
  /\ UNCHANGED <<bridgeVars, hotUsed, coldUsed, ext, coldMem, callerVars>>

(* A thread forgets the span it holds; its pin is never released. *)
Leak(t) ==
  /\ "leak" \in Misuse
  /\ view[t] # NoView
  /\ view' = [view EXCEPT ![t] = NoView]
  /\ UNCHANGED <<bridgeVars, arenaVars, found>>

(* release(), first half: the lock-free lookup.  Without a match it        *)
(* returns false.                                                          *)
ReleaseFind(t, h) ==
  /\ found[t] = NoRec
  /\ cs.who # t
  /\ \/ view[t] # NoView /\ view[t].id = h
     \/ view[t] = NoView /\ "over_release" \in Misuse
  /\ found' = [found EXCEPT ![t] =
                 IF FindTenant(h) = {} THEN NoRec ELSE CHOOSE r \in FindTenant(h) : TRUE]
  /\ view' = [view EXCEPT ![t] = NoView]
  /\ UNCHANGED <<bridgeVars, arenaVars>>

(* Two bugs: a decrement without the test for zero, and a count that is    *)
(* cleared instead of decremented.                                         *)
ReleaseUnchecked(t) ==
  /\ found[t] # NoRec
  /\ tenants' = [tenants EXCEPT ![found[t]].pins = @ - 1]
  /\ found' = [found EXCEPT ![t] = NoRec]
  /\ UNCHANGED <<sharedHot, bitmap, scanStart, nextId, before, cs, arenaVars, view>>

ReleaseClears(t) ==
  /\ found[t] # NoRec
  /\ tenants' = [tenants EXCEPT ![found[t]].pins = 0]
  /\ found' = [found EXCEPT ![t] = NoRec]
  /\ UNCHANGED <<sharedHot, bitmap, scanStart, nextId, before, cs, arenaVars, view>>

(* release(), second half: the compare-exchange loop, as the one exchange  *)
(* that succeeds or the load that reads zero.                              *)
ReleaseDecrement(t) ==
  /\ found[t] # NoRec
  /\ tenants' = [tenants EXCEPT ![found[t]].pins = IF @ > 0 THEN @ - 1 ELSE 0]
  /\ found' = [found EXCEPT ![t] = NoRec]
  /\ UNCHANGED <<sharedHot, bitmap, scanStart, nextId, before, cs, arenaVars, view>>

-----------------------------------------------------------------------------
(* sealTenant and destroyTenant *)

SealTenant(h) ==
  /\ cs = Idle
  /\ \E r \in FindTenant(h) : tenants' = [tenants EXCEPT ![r].sealed = TRUE]
  /\ UNCHANGED <<sharedHot, bitmap, scanStart, nextId, before, cs, arenaVars, callerVars>>

(* Who still holds the tenant: the code never asks, the callers should.    *)
InUseByCaller(r) ==
  \E t \in Threads : found[t] = r \/ (view[t] # NoView /\ view[t].id = tenants[r].id)

MayDestroy(r) == InUseByCaller(r) => "destroy_pinned" \in Misuse

(* A bug: the dead record keeps its cold slot. *)
KillHalf(r) ==
  tenants' = [tenants EXCEPT ![r] = [@ EXCEPT !.state = "Dead", !.hot = NoSlot, !.sub = 0]]

Kill(r) ==
  tenants' = [tenants EXCEPT ![r] =
    [@ EXCEPT !.state = "Dead", !.hot = NoSlot, !.sub = 0, !.cold = NoSlot]]

(* A tenant is in exactly one tier, so exactly one of the two releases of  *)
(* the full-slot path finds a slot.                                        *)
DestroyFull(h) ==
  /\ cs = Idle
  /\ \E r \in FindTenant(h) :
       /\ tenants[r].kind = "Full"
       /\ MayDestroy(r)
       /\ ReleaseHot(tenants[r].hot)
       /\ ReleaseCold(tenants[r].cold)
       /\ Kill(r)
  /\ UNCHANGED <<sharedHot, bitmap, scanStart, nextId, before, cs, ext, callerVars>>

(* The sub-cell is wiped, its bit cleared, and the last one out releases   *)
(* the shared slot.                                                        *)
DestroyMicro(h) ==
  /\ cs = Idle
  /\ \E r \in FindTenant(h) :
       LET i == tenants[r].shared
           b == tenants[r].sub
           last == bitmap[i] \ {b} = {}
       IN  /\ tenants[r].kind = "Micro"
           /\ MayDestroy(r)
           /\ bitmap' = [bitmap EXCEPT ![i] = @ \ {b}]
           /\ sharedHot' = [sharedHot EXCEPT ![i] = IF last THEN NoSlot ELSE @]
           /\ \/ last /\ ReleaseHot(sharedHot[i])
              \/ /\ ~last
                 /\ hotMem' = [hotMem EXCEPT ![tenants[r].hot][b] = 0]
                 /\ UNCHANGED hotUsed
           /\ Kill(r)
  /\ UNCHANGED <<scanStart, nextId, before, cs, coldUsed, ext, coldMem, callerVars>>

(* Other users of the hot arena, through FractalArena's own interface *)
ExternalAllocate(s) ==
  /\ s \in HotFree
  /\ Cardinality(ext) < MaxExternal
  /\ hotUsed' = hotUsed \cup {s}
  /\ ext' = ext \cup {s}
  /\ UNCHANGED <<bridgeVars, coldUsed, hotMem, coldMem, callerVars>>

ExternalRelease(s) ==
  /\ s \in ext
  /\ ReleaseHot(s)
  /\ ext' = ext \ {s}
  /\ UNCHANGED <<bridgeVars, coldUsed, coldMem, callerVars>>

-----------------------------------------------------------------------------
Structural ==
  \/ CreateTenant \/ CreateBind
  \/ CreateMicroInShared \/ CreateMicroTenant \/ CreateMicroBind
  \/ EvictOldest \/ GiveUp
  \/ Promote \/ PromoteDecodeFails
  \/ \E h \in Ids : SealTenant(h) \/ DestroyFull(h) \/ DestroyMicro(h)

Caller(t) ==
  \/ \E h \in Ids : \/ AcquireFP32(t, h) \/ AcquireMicroFP32(t, h)
                    \/ AcquireFP32Cold(t, h) \/ ReleaseFind(t, h)
  \/ Write(t) \/ Leak(t)
  \/ ReleaseDecrement(t)

External == \E s \in HotSlots : ExternalAllocate(s) \/ ExternalRelease(s)

Next == Structural \/ External \/ \E t \in Threads : Caller(t)

Spec == Init /\ [][Next]_vars

(* The thread inside struct_mutex_ is eventually scheduled. *)
HolderStep ==
  \/ CreateBind \/ CreateMicroBind \/ Promote \/ PromoteDecodeFails
  \/ EvictOldest \/ GiveUp

FairSpec == Spec /\ WF_vars(HolderStep)

-----------------------------------------------------------------------------
(* Type invariant: every field keeps to its range, pin counts included. *)
TypeOK ==
  /\ tenants \in [Recs -> TenantRecord]
  /\ sharedHot \in [Shared -> HotSlots \cup {NoSlot}]
  /\ bitmap \in [Shared -> SUBSET Cells]
  /\ scanStart \in Shared
  /\ nextId \in 0 .. MaxIds
  /\ before \in [Recs -> SUBSET Recs]
  /\ cs \in Op
  /\ hotUsed \subseteq HotSlots /\ coldUsed \subseteq ColdSlots /\ ext \subseteq HotSlots
  /\ hotMem \in [HotSlots -> [Cells -> 0 .. MaxIds]]
  /\ coldMem \in [ColdSlots -> [Cells -> 0 .. MaxIds]]
  /\ view \in [Threads -> Span]
  /\ found \in [Threads -> Recs \cup {NoRec}]

LiveMicro(r)  == Live(r) /\ tenants[r].kind = "Micro"
InCold(r)     == tenants[r].state = "InCold"

(* Every occupied hot slot has exactly one owner: a full-slot tenant, a    *)
(* shared-slot entry or another user of the arena.  Nothing leaks and      *)
(* nothing is handed out twice, whatever the callers do wrong.             *)
HotSlotsOwnedOnce ==
  /\ \A s \in HotSlots :
       s \in hotUsed <=> \/ s \in ext
                         \/ \E r \in Recs : FullInHot(r) /\ tenants[r].hot = s
                         \/ \E i \in Shared : sharedHot[i] = s
  /\ \A r \in Recs : FullInHot(r) =>
       /\ tenants[r].hot \notin ext
       /\ \A q \in Recs \ {r} : FullInHot(q) => tenants[q].hot # tenants[r].hot
       /\ \A i \in Shared : sharedHot[i] # tenants[r].hot
  /\ \A i \in Shared : sharedHot[i] # NoSlot =>
       /\ sharedHot[i] \notin ext
       /\ \A j \in Shared \ {i} : sharedHot[j] # sharedHot[i]

(* The same for the cold arena, whose slots belong to cold tenants only. *)
ColdSlotsOwnedOnce ==
  /\ \A c \in ColdSlots : c \in coldUsed <=> \E r \in Recs : InCold(r) /\ tenants[r].cold = c
  /\ \A r, q \in Recs : InCold(r) /\ InCold(q) /\ r # q => tenants[r].cold # tenants[q].cold

(* A tenant is in one tier: a hot one has a hot slot and no cold slot, a   *)
(* cold one the reverse, is a full-slot tenant and is not pinned.          *)
OneTier ==
  \A r \in Recs :
    /\ tenants[r].hot # NoSlot <=> tenants[r].state = "InHot"
    /\ tenants[r].cold # NoSlot <=> InCold(r)
    /\ InCold(r) => tenants[r].kind = "Full"

(* The occupancy bitmaps, the shared slots and the micro-tenants describe  *)
(* the same packing: one bit per tenant, no bit without a tenant, and a    *)
(* shared slot is kept exactly as long as somebody lives in it.            *)
BitmapMatchesTenants ==
  /\ \A i \in Shared : sharedHot[i] = NoSlot <=> bitmap[i] = {}
  /\ \A i \in Shared : \A b \in bitmap[i] :
       \E r \in Recs : LiveMicro(r) /\ tenants[r].shared = i /\ tenants[r].sub = b
  /\ \A r \in Recs : LiveMicro(r) =>
       /\ tenants[r].sub \in bitmap[tenants[r].shared]
       /\ tenants[r].hot = sharedHot[tenants[r].shared]
       /\ \A q \in Recs \ {r} : LiveMicro(q) /\ tenants[q].shared = tenants[r].shared
            => tenants[q].sub # tenants[r].sub

(* What the operation inside the mutex knows about the record it works on. *)
HolderKnows ==
  /\ cs.op = "none" <=> cs = Idle
  /\ cs.op \in {"create", "micro"} => cs.rec \in Recs /\ ~Live(cs.rec) /\ nextId < MaxIds
  /\ cs.op = "promote" => cs.rec \in Recs /\ InCold(cs.rec) /\ cs.who \in Threads
  /\ cs.op = "micro" => Roomy = {}

(* The inductive invariant of the structural state: it holds whatever the  *)
(* callers do wrong.                                                       *)
BridgeInv ==
  /\ TypeOK
  /\ HolderKnows
  /\ OneTier
  /\ HotSlotsOwnedOnce
  /\ ColdSlotsOwnedOnce
  /\ BitmapMatchesTenants

(* kMaxSharedSlots is enough: when createMicroTenant needs a fresh hot     *)
(* slot there is a SharedSlotEntry to bind it to, so the fail-safe branch  *)
(* at the end of step 2b is dead code.                                     *)
SharedEntryAvailable == cs.op = "micro" => Unbound # {}

(* Evict respects pins: as long as a thread holds a span, its tenant is    *)
(* alive, in the hot tier, and the span is the tenant's own memory.        *)
ViewsStayValid ==
  \A t \in Threads : view[t] # NoView =>
    \E r \in FindTenant(view[t].id) :
      /\ tenants[r].state = "InHot"
      /\ tenants[r].hot = view[t].slot
      /\ view[t].cells = IF tenants[r].kind = "Full" THEN Cells ELSE {tenants[r].sub}

(* pin_count counts the threads that hold the tenant, those half-way       *)
(* through release() included: no pin is lost and none is left behind.     *)
PinsCountHolders ==
  \A r \in Recs : Live(r) =>
    tenants[r].pins = Cardinality({t \in Threads : found[t] = r})
                      + Cardinality({t \in Threads : view[t].id = tenants[r].id})

CellsOf(r) == IF tenants[r].kind = "Full" THEN Cells ELSE {tenants[r].sub}

(* EC30, EC114: a tenant's memory holds zeroes or its own payload, never   *)
(* another tenant's, in either tier, through reuse of slots and sub-cells; *)
(* memory nobody owns is zeroed.                                           *)
PayloadIsPrivate ==
  /\ \A r \in Recs :
       /\ tenants[r].state = "InHot" =>
            \A c \in CellsOf(r) : hotMem[tenants[r].hot][c] \in {0, tenants[r].id}
       /\ InCold(r) => \A c \in Cells : coldMem[tenants[r].cold][c] \in {0, tenants[r].id}
  /\ \A s \in HotFree : hotMem[s] = Zeroes
  /\ \A c \in ColdSlots \ coldUsed : coldMem[c] = Zeroes

(* EC136: once a hot tenant is sealed its payload stays in the slot it is  *)
(* in until the tenant is destroyed.                                       *)
SealedStaysHot ==
  [][\A r \in Recs :
       /\ tenants[r].sealed /\ tenants[r].state = "InHot"
       /\ tenants'[r].id = tenants[r].id /\ tenants'[r].state # "Dead"
       => tenants'[r].state = "InHot" /\ tenants'[r].hot = tenants[r].hot]_vars

(* EC19: the allocate-evict-retry loop ends, also while other users of the *)
(* arena take every slot an eviction frees.                                *)
MutexIsReleased == cs # Idle ~> cs = Idle

(* What the callers are promised, see TenantStore: tier and slot are not   *)
(* part of it, so eviction and promotion are invisible.                    *)
BytesOf(r) == IF InCold(r) THEN {coldMem[tenants[r].cold][c] : c \in Cells}
              ELSE {hotMem[tenants[r].hot][c] : c \in CellsOf(r)}

Reading(h, bytes) ==
  IF bytes = {0} THEN "zero" ELSE IF bytes = {h} THEN "written" ELSE "corrupt"

PayloadOf(h) ==
  IF h > nextId THEN "unborn"
  ELSE IF FindTenant(h) = {} THEN "destroyed"
  ELSE Reading(h, BytesOf(CHOOSE r \in FindTenant(h) : TRUE))

Store == INSTANCE TenantStore WITH
           payload <- [h \in Ids |-> PayloadOf(h)],
           holds   <- [t \in Threads |-> view[t].id]

ImplementsStore == Store!Spec
=============================================================================
