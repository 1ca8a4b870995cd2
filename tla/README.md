# TLA+ models of QTX (Quintessence Tensor eXchange)

QTX is a C++ library that gives many tenants memory for tensor payloads: a lock-free slot
arena, a two-tier bridge that moves idle tenants to a compressed cold arena, a
single-producer single-consumer ring, a bridge that lets ggml allocate its buffers from an
arena, and 25 tensor codecs. This directory models the parts of it that keep state and the
codecs, checks them with TLC on small instances and proves the central invariants with TLAPS.
Paths below are relative to the repository (`src/` here); EC numbers are those of
`docs/development/EDGE_CASES_REPORT.md`.

## 1. The system: inventory

| Component | Source | State it keeps | Operations |
|---|---|---|---|
| TieredArenaBridge | `include/qtx/tiered/tiered_bridge.hpp` | a pool of tenant records (id, tier, slots, pin count, seal, access time), shared-slot entries with occupancy bitmaps, a scan cursor, a mutex | createTenant, createMicroTenant, destroyTenant, acquireFP32, acquireMicroFP32, release, sealTenant; internally eviction and promotion |
| FractalArena | `include/qtx/arena/fractal_arena.hpp` | slot memory, one version counter per slot, an AxiomSelector | allocate, view, viewSubSlot, zeroizeSubSlot, release |
| GenID | `include/qtx/arena/gen_id.hpp` | none: slot, version, generation and class packed in 64 bits | make, accessors, validate |
| AxiomSelector | `include/qtx/selector/axiom_selector.hpp` | atomic bitmap words, one bit per slot | acquire, release |
| SPSCRingBuffer | `include/qtx/ipc/spsc_ring_buffer.hpp` | head, tail, a cached copy of each on the other side, the elements | try_push, wait_push, try_pop, wait_pop, size |
| ggml bridge | `src/unsafe/ggml_bridge/bridge.cpp`, `safety.hpp` | tagged headers, install tokens, a process-wide pool of buffer contexts with a write-protect flag | alloc_buffer, free_buffer, memset/set/get_tensor, clear, sealBuffer, construction, destruction |
| Contracts | `include/qtx/core/contracts.hpp` | none | checked add, multiply, rangeWithin; fail handler |
| Cold codecs | `include/qtx/tiered/cold_codec.hpp` | the installed adapter, process-wide | compressedBound, compress, decompress, setAdapter, adapterByName |
| Quantizer | `include/qtx/quantize/quantizer.hpp`, `quantizer_simd.hpp` | none; the build decides which SIMD kernels exist | a compressor and a decompressor per format, dispatch by format |
| FPE guard | `include/qtx/core/fpe_guard.hpp` | the FTZ/DAZ bits it saves and restores | conversions between FP32 and BF16, FP16, E4M3, E5M2; FtzDazGuard |
| Codebooks | `src/iq_codebooks.cpp` | constant tables | |
| Platform, demos, tests | the rest | none | |

How they interact. Callers call the tiered bridge; it calls `allocate`, `view` and `release`
of two arenas, hot and cold, and a codec in between. An arena hands out slots through its
selector. The ggml bridge calls the same arena interface, and nothing stops other users of
an arena from allocating beside a bridge. Threads meet at three places: the bridge's
`struct_mutex_`, which everything structural takes and `release()` does not; the atomics of
selector, arena and context pool; and the two indices of the ring. There is no persistent
state, hence no crash recovery; the failures the code handles are exhausted arenas, pools
and retry budgets, a codec that refuses, and `malloc` failing inside ggml.

What is hard in it, and what correctness means for each part:

* **TieredArenaBridge.** A tenant a thread holds must not move; a sealed tenant must not
  be compressed; a shared slot must be released exactly when its last micro-tenant goes;
  every early return must give back what was taken before it; eviction and promotion must be
  invisible to callers. Other users of the hot arena can take the slot an eviction freed.
* **release()** finds its record without the mutex while records are written field by field.
* **FractalArena.** `validate` reads a version and then a bit; `release` wipes, bumps
  and frees in this order; a GenID of an earlier life must be refused throughout.
* **AxiomSelector.** A slot never goes to two callers, no bit is lost, the sweep ends.
* **SPSCRingBuffer.** Cached indices are stale by design, the counters wrap at 2^64, and
  the element copy must not be visible half-way.
* **Codecs.** Encoder and decoder lay out every bit with different loops, and SIMD kernels a third
  time; rounding, subnormals and saturation are written by hand per format; codes
  must fit the scale as it is stored; a stream met half-way to be broken, an output that
  overlaps the input or a refused call must leave nothing behind; a tenant is compressed
  again on each eviction and must not drift.
* **ggml bridge.** Three objects with three owners describe a buffer; contexts are recycled
  under handles that may outlive them; any step of an allocation may fail.

`PROJECT.json` lists the hazards one by one, each with its line and properties.

## 2. The modules

| Module | Models | Kind |
|---|---|---|
| `TieredBridge` | TieredArenaBridge over two arenas and a codec | detailed |
| `TenantStore` | what TieredArenaBridge promises: tenants with private memory, no tiers | abstract |
| `TenantLookup` | the tenant pool at the grain of single loads and stores, for `release()` | detailed |
| `FractalArena` | the arena, one step per atomic access | detailed |
| `SlotArena` | atomic allocation and release of zeroed slots | abstract |
| `AxiomSelector` | the bitmap, one step per atomic access | detailed |
| `SpscRing` | the ring, with cached indices, stale loads, two-step copies | detailed |
| `BoundedFifo` | a bounded queue | abstract |
| `GgmlBridge` | ArenaBridge and ContextPool with several bridges on one arena | detailed |
| `Contracts` | checked arithmetic on usize | pure |
| `FloatCodes` | FP32 to BF16, FP16, E4M3, E5M2 and back, bit by bit | pure |
| `BlockLayout` | where each bit of each block format, and of a GenID, is written and read | pure |
| `BlockQuant` | scales and codes of INT8, INT4, Q*, K, IQ4, NVFP4 and MXFP4 blocks | pure |
| `GridQuant` | scales, signs and codebook search of IQ1, IQ2 and IQ3 blocks | pure |
| `Codec` | the codec slot and a caller that compresses, reads back and compresses again | detailed |
| `MC...` | model values and symmetry for TLC | |
| `TieredBridgeProofs` | theorems about TieredBridge; refinement of TenantStore | proofs |
| `TenantLookupProofs`, `AxiomSelectorProofs` | theorems about these modules | proofs |
| `GgmlBridgeProofs` | theorems about GgmlBridge and Contracts | proofs |
| `FractalArenaProofs` | theorems about FractalArena; refinement of SlotArena | proofs |
| `SpscRingProofs` | theorems about SpscRing; refinement of BoundedFifo | proofs |
| `QuantizerProofs` | lemmas about the arithmetic of FloatCodes, BlockQuant and GridQuant | proofs |
| `CodecProofs` | theorems about Codec | proofs |

Each layer takes the one below as that one's module shows it to be: FractalArena uses
AxiomSelector's "acquire takes some free bit, and may overlook one", TieredBridge and
GgmlBridge use SlotArena's atomic allocation and release, GgmlBridge's bounds checks are the
operators of Contracts, and Codec is built on the four pure modules. TieredBridge takes from a
codec that it either reports the byte count the bridge expects or has failed, and that what it
wrote reads back; Codec shows when it fails (RefusalsAreClean) and how well it reads back.

Definitions whose comment begins "A bug:" are not part of any specification. Each is a
plausible mistake in the definition that follows it; putting one in place of the
correct definition makes the property paired with it in `PROJECT.json` fail, which shows
that the property speaks about the code and can fail within the bounds of its run.

### TieredBridge

`tenants[r]` is the record `tenants_[r]`; `in_use` and `state` are written together under
the mutex and are one field. `bitmap[i]` is `occupancy_bitmap` as a set. `access_time` is
abstracted to the relation it induces: `before[r]` holds the records with an older ticket. A
payload is one stamp per sub-cell of a slot: 0 for zeroed bytes, else the id of the tenant on
whose behalf it was written. Encoding copies the stamps of a slot to a cold slot, decoding
copies them back; where bytes come out different (`CodecMayFail`) the code sees only a wrong
byte count, and so does the model.

An operation that never loops is one action under the mutex. The three that may have to
evict (createTenant, createMicroTenant, acquireFP32 of a cold tenant) are split at their
retry loop: `cs` says which operation is inside the mutex, for which record, after how
many tries. `EvictOldest` is one action (victim choice, cold allocation, encode, release of
the hot slot), since only release() and the outside of the bridge can interleave with it.
The outside cannot observe its middle; a release() that unpins a record while the scan for
the victim goes on only makes one more record eligible, before or after the scan passed it. release() is two actions, lookup and decrement, and
interleaves with all of the above; `TenantLookup` opens up the lookup.

Callers follow the protocol the tests follow (release what you acquired, do not destroy what
somebody holds) except for the mistakes listed in `Misuse`, none of which the code
refuses: `destroy_pinned`, `over_release`, `fp32_on_micro` and `leak`, a span never
released. Leaked pins are how a pin count gets to the soft maximum (EC15); from there on
acquires are refused.

Left out: the queries `hotUsed`, `coldUsed`, `totalAgents`, `stats` and `isTenantSealed`.

### TenantLookup

One action per field access of createTenant, destroyTenant and release(). The plain field
`tenant_id` is read and written in single steps: what 64-bit builds do, although by the
language the race is undefined (see the finding in section 6).

### FractalArena

A GenID carries, besides slot and version, the life of the slot it was made for (`birth`), which
no guard reads; the properties compare it with the slot's present life. `VersionAssumption` keeps a
slot's lives below half the range of the version counter (32768 in the code): after that
many lives an old GenID is valid again, by construction. The counter itself wraps in the run.

### AxiomSelector

One action per load and per compare-exchange of a word, the two passes and the retry budget
included. `SpuriousFailures` lets the weak exchange fail for no reason. Loads return the
latest value: `acquire()` uses the value it loaded only as the expected value of an exchange,
and an exchange always sees the latest value, so that a stale load is the same as a load
before the last change followed by a lost exchange. `witness` is history: which slots
have been free since the sweep began, and how often it was disturbed.

### SpscRing

Each element is two words copied in two steps. `StaleLoads` lets an acquire load return any
value the index has had since the loader's cached copy. Counters are modulo `Wrap`, which
stands for 2^64; the only fact the code needs is that the capacity divides it.

### GgmlBridge

`storage[a]` is the tagged header of the ArenaAccess a bridge keeps at address `a`; the
heap may use an address again after the bridge is gone. `pool` and `inUse` are `storage_` and
`in_use_` of ContextPool. `buffers` are ggml's buffer structs, numbered as they are made; the model keeps a
struct's contents after ggml has freed it, which is what a handle used too late would
read. alloc_buffer and free_buffer are one action per call they make; the write callbacks
validate, ask the seal and write in three. A failed cast is a boundary fault: nothing
has changed by then and the call does not return, so that a call that would fault is no step, and
`NoFalseAlarm` says that no call in legal use is one. `Misuse` admits `stale_write` (a write
callback on a freed buffer), `double_free` and `bridge_first` (a bridge destroyed
before its buffers); a call of the first two kinds finds the context at rest.

Not modelled: the callbacks that only read (`get_base`, `get_tensor`, `isBufferSealed`), the
non-state queries of the buffer type, and the fault handler. One difference met on the way
and not worth a run: `bridge.hpp:139-141` says isBufferSealed "returns false for null, foreign,
or already-freed buffers"; on a freed buffer the cast at `bridge.cpp:829` faults instead.

### Codec, and the modules under it

`Codec` has one caller. `adapter` is `RuntimeColdCodec::slot()`, `call` the compression or
decompression in progress with the blocks written so far, `held` the stream the caller keeps
and `back` what it has read from it; `ftz` is the FTZ/DAZ mode and `callerMode` what the caller
had set; `build` says which kernels were compiled in. A call starts (every early return of the
argument checks, in `Rejected`), goes on block by block, and returns or meets a
scale that is not finite. `Damage` overwrites a scale of the stream while the caller keeps it,
`Recompress` compresses what was read back. SetAdapter is taken only while no stream is held:
the header makes this the caller's duty (`cold_codec.hpp:274-278`). The formats no adapter
name is bound to go in by a ForeignCodecAdapter over the public functions.

What is abstracted:

* *Numbers.* In `FloatCodes` an FP32 number is its bits, exactly. In `BlockQuant` and
  `GridQuant` it is an integer in a unit: the smallest FP16 number, 2^-24, for formats with FP16
  scales and for NVFP4, the smallest normal FP32 number for INT8, INT4 and MXFP4, `LaneUnit`
  units of 2^-24 in the codebook formats.
  Quotients are exact until they become a code or a stored scale; the roundings
  of FP32 between are not modelled. `HalfMax` and `FloatMax`, the largest FP16 and FP32
  number, are scaled down so that saturation and overflow happen in integers TLC can hold.
* *Scales.* FP16, E4M3 and power-of-two scales are rounded as stored. The FP32 scale of
  INT8 and INT4 is a whole number of units; hence `NoDrift` compares their codes, and the decoded
  numbers of the others, and `ErrorBounded` speaks of the blocks where nothing is lost by it
  (`Whole`). The header of NVFP4 is a multiple of `HeaderUnit`.
* *Sizes.* A block has the sub-blocks the test data give it, of two or three elements, and one
  sub-block where the format has a single scale (`BlockOf`); codebook formats have sub-blocks of one group of eight instead of four. What every element of the
  full block does to the bytes is in `BlockLayout`, which has the true sizes.
* *Codebooks.* Excerpts: the smallest entry and entries with one, two and separated larger
  lanes; the sign table is the parity rule it tabulates.

`BlockLayout` gives each format two sets of entries <<field, index, bit, position>>, one
following the encoder's loops, one the decoder's expressions, for each kernel that has its own.
A format is sound if the sets are equal and no position is used twice or left over.

## 3. The runs

| Run | Instance | Distinct states |
|---|---|---|
| `bridge_tiers` | 2 threads, 3 records, 2 hot and 2 cold slots, 2 sub-cells, 2 tries, 3 ids | 264,000 |
| `bridge_misuse` | 1 thread, 2 records, 3 hot and 1 cold slots, 2 external slots, all mistakes, soft maximum 1 | 2,130,000 |
| `bridge_destroy_pinned` | 2 threads, 2 records, 2 hot and 1 cold slots, `destroy_pinned`; violation expected | |
| `ring` | capacity 2, counters modulo 4, 2 values, stale loads | 22,800 |
| `selector` | 2 threads, 2 words of 2 bits, budget 2, 2 slots held each, spurious failures | 512,000 |
| `arena` | 2 threads, 2 slots of 2 cells, versions modulo 4, 2 lives a slot | 66,000 |
| `lookup` | 3 threads, 2 records, 3 ids | 55,000 |
| `lookup_race` | the same protocol; violation expected | |
| `ggml` | 2 threads, 2 addresses and bridges, 2 contexts, 2 slots of 2 bytes, 2 buffers | 3,300,000 |
| `ggml_double_free` | as above with `double_free`; violation expected | |
| `ggml_stale_write` | as above with `stale_write` only, requests of one byte; violation expected | |
| `codec` | 25 formats and plain FP32, 3 kernel builds, both caller modes, 30 argument shapes | 114,000 |

What they show:

* `bridge_tiers`: a held span stays the tenant's own memory (`ViewsStayValid`), pins count
  holders exactly, payloads never mix or survive in free memory, bitmaps and micro-tenants
  agree, the fail-safe branch at the end of createMicroTenant's step 2b is dead code
  (`SharedEntryAvailable`), a sealed tenant never leaves its slot, and the whole implements
  `TenantStore`, where tiers do not exist.
* `bridge_misuse`: the structural part of that survives all four caller mistakes and hot-slot
  theft by other arena users, pins stop at the soft maximum however many are leaked, and the
  mutex is always released.
* `ring`: FIFO refinement across the wrap, no overlap of the two copies, nothing half-copied
  is published, the waiting calls return.
* `selector`: no double hand-out and no lost bit; a free slot is overlooked only after
  2 * kMaxRetriesPerWord disturbances; acquire() ends.
* `arena`: stale GenIDs are refused at every later step too, live ones work, memory is
  wiped, and the steps implement atomic allocation and release (the release takes effect at the
  wipe).
* `lookup`: the lock-free scan finds the caller's own record and no pin is lost.
* `ggml`: no slot and no context is lost or shared whichever step of an allocation fails; the
  bytes in a slot that has an owner lie inside the owner's requested size and were written
  through its handle or, the one exception, through a handle already freed whose bridge is the
  owner's or stood at its address (section 6, item 3); a taken slot without an owner, left
  behind by a bridge destroyed too early, keeps what it held;
  seals neither leak into the context's next life nor get lost; writes that begin after
  sealBuffer returned do not land; legal calls do not fault.
* `codec`: every code of a scalar format is the one nearest to its number (but for the range of
  section 6, item a); encoder and decoder agree on every bit of every format, SIMD kernels and GenID
  included (`BitsAccountedFor`); decoded numbers are within the error the format promises, derived
  from the source alone (`ErrorBounded`; the nearest entry, in the codebook formats); the signs survive the seven-bit sign tables; a second
  compression changes nothing (`NoDrift`); a refused or broken call leaves neither bytes nor modes
  behind, and only calls with a reason are refused (`RefusalsAreClean`).

Why the bounds are enough. Two threads give every pairwise interleaving of the lock-free parts,
and a third only repeats a role (the lookup, where one thread holds, one creates and one
destroys, has three). Two hot slots and three records force eviction, promotion with
both tiers full and a full shared slot beside a fresh one; three ids force a record to be recycled. Two
tries distinguish the first failed attempt from the last. Three records over two
sub-cells make kMaxSharedSlots round up. Capacity 2 modulo 4 wraps every counter
many times. Version counters modulo 4 wrap after the second life. Two buffers on two contexts with two
bridges recycle a context within a bridge and across bridges; with usize modulo 8
a sum of tensor offset and offset wraps. For the scalar formats the codec run takes, for every
code, the number halfway to the next one and its two neighbours, of both signs: rounding can change
only there. HalfMax is 262016, which has
eleven significant bits and at most `Digits` digits, as its namesake has; FloatMax is 8693531, more
than 31 times HalfMax and a multiple of 127 and of 7, so that an INT8 or INT4 block clamped to it still has a
whole scale. Blocks on both sides of each then fit TLC's integers. The block tensors contain zero blocks, single-signed and mixed ones, ties, numbers
below one unit of the scale, blocks over and under FP16's range, NaN, and ranges that
overflow FP32; codebook groups have even and odd numbers of negative lanes, and a smallest lane
that is not the first. Argument shapes are exact, one byte more or less room, one stray byte,
and an output elsewhere, adjacent on both sides or overlapping by one byte on both sides.

Deadlock is checked where the code cannot stop (`ring`, `selector`). Elsewhere a bound on
ids, lives or buffers stops the model at the end of a behaviour.

Fairness. `bridge_misuse`: weak fairness of the operation inside the mutex, since a thread that
holds it is eventually scheduled; nothing is assumed of anyone else. `selector`: weak fairness
of each thread inside acquire(). `ring`: a side inside a call keeps running, both sides keep
calling, and a load repeated for ever eventually returns the newest index (strong fairness of the fresh
load), which is what the language asks of implementations for atomic stores.

## 4. The proofs

Everything below holds for every value of the constants, under the named assumptions of the
modules. These say that counts are natural numbers and bounds make sense, that special values
lie outside the sets they are not to be confused with, and what the code itself requires: a
ring's capacity divides the range of its counters, versions have room for the lives of a
slot, an arena's size fits usize. The modules that count threads also assume that
there are finitely many (`IsFiniteSet(Threads)`). Assumptions about the callers are hypotheses
of the theorems, not assumptions of a module. Each proof has the same shape: an
inductive invariant, one lemma per action, and the listed properties as consequences.

**TieredBridgeProofs**. First, for all sets of mistakes of the callers, `Spec => []BridgeInv` and from
it `TypeOK`, `HotSlotsOwnedOnce`, `ColdSlotsOwnedOnce`, `BitmapMatchesTenants` and
`SharedEntryAvailable`. Ownership of slots is not inductive alone: a step of a
looping operation relies on what it knew when it took the mutex (the record is still free, or
still cold; no shared slot has room), so BridgeInv adds `HolderKnows`, and that a record's
tier and its slot fields agree (`OneTier`). `SharedEntryAvailable` is a counting argument: with
every entry bound, each holds kMaxSharedSlots full bitmaps' worth of tenants, more than
there are records.

Then, for callers that keep to the protocol (`CallersBehave`, that is
`Misuse = {}`; each mistake breaks one of these properties by design, `bridge_destroy_pinned`
shows one). `CallerInv` adds to BridgeInv that the ids of live tenants are distinct and were
handed out, that pin_count is the number of threads that hold the tenant or have found it for a
release, that a held span is where the tenant is, and whose bytes a slot contains. The argument
runs in a circle that only the whole invariant closes: an eviction passes over pinned
records, so a held tenant stays where it is, so a span names its own tenant's slot, so a
write changes no other payload; and pins count holders because release() decrements only the
record of a tenant it held. Every step is shown to be of one of five kinds (a tenant born,
written, moved, ended, or nothing of a tenant changed); from the kinds follow `ViewsStayValid`,
`PinsCountHolders`, `PayloadIsPrivate`, and step by step the refinement of `TenantStore`
(`TiersAreInvisible`). `SealedStaysHot` needs no hypothesis on the callers.

**TenantLookupProofs**. At the grain of single loads `ReleaseNeverRefused`, `PinsCountHolders` and
`DecrementHitsOwnTenant`. The scan of release() takes no lock; what saves it is that ids are never
handed out again, that a record changes only under the mutex, and that the record of a
pinned tenant is not retired. Hence the part of the invariant about a scan (`UsersTenant`): it has not
passed the tenant's record, and what it has read of that record is still so.

**FractalArenaProofs**. `ArenaInv` ties the version of a slot to its life (odd, 2 * birth - 1,
while the life lasts; even between lives), a taken bit to the one GenID or call that owns
it, and says that a release has its slot to itself, and that the slot stays wiped from the
wipe to the moment its bit goes back. From it `StaleIsRefused`, `LiveIdsWork`,
`OccupiedHasOwner` and `NothingLeaks`, and the refinement of `SlotArena`: allocate() takes
effect when the bit is taken and release() at the wipe, every other step is invisible. The
heart of it is `MatchIsLive`: a GenID whose version agrees with its slot's is live. It is
where the bound on lives enters.

**AxiomSelectorProofs**. `SelectorInv` for every number of threads, words and bits, and the action
property `OverlooksOnlyUnderContention`. For the latter `SweepPays` gives each word a price: what a
sweep must have lost to be past it, kMaxRetriesPerWord exchanges a pass and those lost there so far, with
one more if the word is no longer what the sweep expects. A lost exchange loads the word afresh, so
that each is a disturbance of its own, and the history always covers the price of every slot that
has stayed free.

**SpscRingProofs**. `RingInv`, whose core is that cachedHead, head, cachedTail and tail are
in this order counted from cachedHead; "not full" alone would not survive a stale refresh.
`NoDataRace` and `SizeInRange` follow. `QueueInv` adds the bytes: what a side has copied so
far agrees with the slot it copies, and what lies between head and tail is whole.
`PublishedIsWhole` is part of it, and from it the ring implements `BoundedFifo`; the queue is the
slots from head to tail, which wrap around the buffer while the counters wrap around Wrap, and the
lemmas on `Slot` and `Diff` say that the two agree because the capacity divides Wrap.

**GgmlBridgeProofs**, for callers that free each buffer once (`FreesOnce`; `ggml_double_free`
shows why it is needed), but write through whatever stale handle and destroy bridges
before their buffers if they like. `GgmlInv` says who owns each context (a live buffer or a call
that makes one) and each slot (likewise, or nobody once the bridge is gone), that a
free_buffer has its context to itself, that a context describes its buffer while it has one and is marked
freed at rest, that install tokens are unique, and that a write past its checks has a live
buffer for a target. That bytes stay inside their buffer needs the ownership of contexts,
and that needs to know what each call in flight holds: neither is inductive without the
other. It yields all six properties of the run `ggml`. The bounds tests of the write callbacks
enter through `RangeWithinExact`.

Of Contracts: rangeWithin and addBounded mean the containment of integer
intervals, and the portable overflow tests of addition and multiplication agree with the
compiler's builtins, for every width of usize. The one for multiplication rests on the fact that
(a * b mod 2^w) / a = b only if the product fits.

**CodecProofs**, for every tensor of blocks of any number of sub-blocks of any integers and
non-finite values (`TensorsAssumption`), all HalfMax and FloatMax with 31 * HalfMax <= FloatMax < 2^30
(`NumbersAssumption`, `RangeAssumption`) and HalfMax a number FP16 can hold (`HalfAssumption`: it has
eleven significant bits). The invariant `Inv` is about control: each of the properties speaks of
a call that has returned, and only while the call runs is it known that every block written so far is
the code of the block read. So `CallInv` says that of the call, `HeldInv` of the stream the caller
keeps, of the one it was made from if it was read back, and `BackInv` of what has been read;
`RetInv` repeats RefusalsAreClean of the call that ended, against the stream held since, and
`ModeInv` says where FTZ stands. Each property is then a fact about single blocks:

* `NearestCode`: the codes of a scalar format fall into binades, neighbours are never nearer to
  each other than two of the binade below are, and the encoder adds half a code less one plus the last bit
  kept; so the code it keeps is the nearest one, in the lanes too, whose 32-bit addition carries
  out of the mantissa only where the exponent has to grow.
* `RefusalsAreClean`: a block in range has scales FP16 can hold, so that its decoder does not
  refuse it; and what a call has written is a prefix of what it needs room for.
* `SignsKept`: the parity of the lanes the encoder stores is even, and the eighth bit is restored from
  it; the entry that is chosen keeps the sign of each lane, as all bytes of the grids are positive.
* `ErrorBounded`, for the formats without a codebook (`CodecErrorBounded`): the code is within half
  a unit of the quotient or was clamped, and clamping loses nothing, since the scale was taken from
  the largest element; the stored scale is within `HalfCost` of the true one, and what that
  shifts is at most the number of codes times as much. Formats with two layers of scales add what
  rounding the scale of the sub-block costs. The bound is derived from the source alone.
* `NoDrift`: the numbers read back are codes times the stored scale, the largest of them again
  yields this scale, and each quotient is then exactly the code. For the FP16 scales this needs
  that rounding to eleven bits is idempotent and monotone where it saturates; for MXFP4 that no
  stream the encoder made holds half a unit, which the guard would have read as zero (`Reread`).

Only model-checked:

* Liveness: `MutexIsReleased`, `AcquireReturns`, `WaitPushReturns` and `WaitPopReturns`. Proofs
  under fairness need ENABLED, which the proof system does not handle.
* `BitsAccountedFor`: the layouts are constant sets of bit positions, with no parameter and no
  size to generalise over; that TLC evaluates them is a proof by exhaustion.
* `ErrorBounded` for the codebook formats.

## 5. What is not modelled

* The roundings of FP32 inside the quantizer's arithmetic (products, quotients and the
  reciprocals it multiplies by): quotients are exact up to the point where a code or a stored scale
  is formed. A code can therefore differ from the model's when a quotient lies within a few FP32
  ulps of a tie, and the FP32 sums of the
  decoders of Q4_1 and Q5_1 are the model's only below 2^24 units.
* The whole codebooks: the tables are data, and the model's excerpts stand for them.
* Nested FtzDazGuards: no code nests them.
* Platform macros, demos and tests: no state, or callers.
* Weak memory beyond the stale loads of the ring: the other lock-free parts publish through
  read-modify-write operations, and the bridge under a mutex.
* `tenant_id` tearing on 32-bit targets.
* Mistakes of callers the code makes no claim about, such as two concurrent releases of one
  GenID, or a release concurrent with the destruction of the same tenant.

## 6. Disagreements between code and documentation

Items 1 to 4 each have a run that produces a behaviour; details and quotations are in
`PROJECT.json`.

1. `destroyTenant` does not look at `pin_count`, although a comment in acquireMicroFP32 says
   it does (`bridge_destroy_pinned`).
2. `findTenantLockfree` reads the plain field `tenant_id` while createTenant may write it:
   not "only the state transitions race" (`lookup_race`).
3. The token chain of EC126 does not detect every write through a handle used after
   free_buffer, although `bridge.cpp:301-306` says it catches contexts "recycled for a DIFFERENT
   bridge instance" and `338-342` that "the chain breaks at exactly the right link". Two
   of the three tokens are read through pointers, the third is the context's and as new as its
   present owner. If the old bridge is gone and another was built at its address, both
   pointers lead to the new one: the chain agrees and the bytes land
   in a buffer of the new bridge (`ggml_stale_write`). If the context was recycled for another
   buffer of the same bridge, there is only one token, and the write goes through likewise.
   `WritesStayInside` excepts these two cases and no other: it holds of every write through a
   live handle, and of a stale one it says that it reaches no buffer of a bridge elsewhere.
4. A second `free_buffer` after the context was recycled passes the cast that a comment
   says stops it (`ggml_double_free`).
5. `acquire()` may report kNoSlot although a slot is free at every instant: it gives up on a
   word after kMaxRetriesPerWord lost exchanges, and passes a word whose bit is freed just
   behind it. `tests/test_axiom_selector.cpp:288-289` calls this "impossible by counting
   argument", and `EDGE_CASES_REPORT.md:45` says that the retry budget "eliminates false-OOM".
   It has no run of its own; how much contention it takes is `OverlooksOnlyUnderContention`.

Met while translating the codecs, each visible at the lines named and excepted by name in
the properties where it matters:

* a. `fpe_guard.hpp:319-327`: the thresholds of FP16 rounding stand one binade below the
  ones their comments name (0x32800000 is 2^-26, not 2^-25), so that [2^-26, 2^-25), nearer to zero,
  becomes the smallest code. `Misrounded` in FloatCodes is this range.
* b. `fpe_guard.hpp:218-220` says lroundHalfAwayFast matches `std::lround` bit for bit on every
  finite input; adding 0.5 rounds in FP32, so 0.49999997f gives 1, and 8388609.0f gives 8388610.
* c. `fpe_guard.hpp:602` gives the E5M2 NaN as S.11111.11; line 618 stores 0x7E, S.11111.10.
* d. `fpe_guard.hpp:629` calls 0x477F0000 "61440.0f bits"; it is 65280. Lines 330-331 call
  0x47800000 65520; it is 65536. The results agree with nearest rounding under saturation all the same.
* e. `cold_codec.hpp:61-65` and `163-164`: compressedBound "returns 0 if unsupported"; for INT8
  and INT4 it rounds a partial block up, and compress then returns 0.
* f. `cold_codec.hpp:14` offers "any of QTX's 25 built-in formats"; the registry names six of
  them, and the others need a ForeignCodecAdapter.
* g. Formats with a minimum (from `quantizer.hpp:1087` on): a finite block whose range exceeds
  FLT_MAX is stored with an infinite scale, and its own decoder refuses the stream. `InRange`
  leaves such blocks out of the claim that streams are readable.
* h. `quantizer_simd.hpp:393` says the AVX-512 BF16 lanes mirror the scalar code bit for bit; NaN
  loses its sign there (418-420). NearestCode asks of NaN only that it stay NaN.

## 7. Plan

Modelled so far, in the order of the plan: bridge, ring, selector, arena, lookup, ggml bridge,
codecs with their layouts and conversions. Proved: every invariant, action property and
refinement that a run checks of these, but for what section 4 lists as only model-checked. Next:

1. *One double free at a time.* What `GgmlInv` still promises the buffers that are freed once while
   another is freed twice.
2. *The error of the codebook formats.* What the nearest entry is worth, for every codebook.
3. *Layouts.* For a format with equal fields, that soundness of the layout holds for
   every block size, from the lemma that disjoint shifts of a field are disjoint.
