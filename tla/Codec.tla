------------------------------- MODULE Codec --------------------------------
(***************************************************************************)
(* Compression and decompression as a caller sees them: the dispatchers    *)
(* and the public functions of qtx/quantize/quantizer.hpp behind the       *)
(* run-time codec slot of qtx/tiered/cold_codec.hpp.  One caller installs  *)
(* a codec, compresses a tensor, keeps the stream, reads it back, and may  *)
(* compress what it has read once more, as a tenant does that is evicted,  *)
(* promoted and evicted again.                                             *)
(*                                                                         *)
(* A tensor is a sequence of blocks; a block of one of the scalar formats  *)
(* is a sequence of FP32 numbers of any length.  Addresses and sizes are   *)
(* in bytes, those of the code.                                            *)
(***************************************************************************)
EXTENDS FloatCodes, BlockLayout, GridQuant

CONSTANTS Data(_),     \* the tensors compressed to a format, with good arguments
          Shaped(_),   \* those compressed with every kind of argument, and damaged
          None

Narrowed == {"BF16", "FP16", "E4M3", "E5M2"}
Scalars == Narrowed \cup {"FP32"}
Dispatched == Scalars \cup DOMAIN IntLevels
Foreign == (BlockFormats \cup DOMAIN GridKinds) \ DOMAIN IntLevels
\* QuantFormat::kReserved, and a ForeignCodecAdapter without functions.
Unsupported == "unsupported"

\* The blocks the caller may pass: no sub-block is empty, and a format whose
\* scale is that of the whole block has one.
Layered == DOMAIN SignedKinds \cup DOMAIN RangeKinds
BlockOf(fmt) ==
  IF fmt \in DOMAIN GridKinds THEN Seq([1 .. 8 -> Number]) \ {<<>>}
  ELSE IF fmt \in Layered THEN Seq(Seq(Number) \ {<<>>}) \ {<<>>}
  ELSE IF fmt \in BlockFormats THEN [1 .. 1 -> Seq(Number) \ {<<>>}]
  ELSE Seq(Fp32)
ASSUME TensorsAssumption ==
  \A fmt \in Dispatched \cup Foreign \cup {Unsupported} :
    Data(fmt) \cup Shaped(fmt) \subseteq Seq(BlockOf(fmt))

VARIABLES build,      \* which kernels were compiled in
          callerMode, \* flush-to-zero as the caller set it
          ftz,        \* flush-to-zero now
          adapter,    \* RuntimeColdCodec::slot()
          call,       \* the call in progress, or Idle
          held,       \* the stream the caller keeps, or None
          back,       \* what it has read from it, or None
          ret         \* how the last call ended, or None

Idle == [op |-> "none"]
vars == <<build, callerMode, ftz, adapter, call, held, back, ret>>

-----------------------------------------------------------------------------
(* Sizes. *)

Elements(fmt) == IF fmt = "NVFP4" THEN 16
                 ELSE IF fmt \in DOMAIN IntLevels \cup DOMAIN MinMaxLevels
                                 \cup {"Q5_0", "IQ4_NL", "MXFP4"} THEN 32 ELSE 256
InBytes(fmt, x) == 4 * (IF fmt \in Scalars THEN Len(x) ELSE Elements(fmt))
OutBytes(fmt, x) ==
  IF fmt \in Scalars
  THEN Len(x) * (CASE fmt = "FP32" -> 4 [] fmt \in {"BF16", "FP16"} -> 2 [] OTHER -> 1)
  ELSE Layouts[fmt].bytes
HeaderBytes(fmt) == IF fmt = "NVFP4" THEN 4 ELSE 0

TensorBytes(fmt, blocks) == Total([k \in DOMAIN blocks |-> InBytes(fmt, blocks[k])])
compressedSize(fmt, blocks) ==
  HeaderBytes(fmt) + Total([k \in DOMAIN blocks |-> OutBytes(fmt, blocks[k])])

(* A bug: an output that begins before the input is not looked at. *)
OverlapsBehind(a, aLen, b, bLen) == a <= b /\ a + aLen > b

spansOverlap(a, aLen, b, bLen) == IF a <= b THEN a + aLen > b ELSE b + bLen > a

(***************************************************************************)
(* The arguments of a call, relative to what it needs: "extra" bytes of    *)
(* input, "slack" bytes of room, and where the output lies: elsewhere,     *)
(* just before or after the input, or into its first or last byte.         *)
(***************************************************************************)
Base == 10000
Shapes == [extra: {0, 1}, slack: {-1, 0, 1},
           place: {"elsewhere", "before", "head", "tail", "after"}]
Good == [extra |-> 0, slack |-> 0, place |-> "elsewhere"]
To(place, bytes, need) ==
  CASE place = "elsewhere" -> 0       [] place = "before" -> Base - need
    [] place = "head" -> Base - need + 1
    [] place = "tail" -> Base + bytes - 1 [] place = "after" -> Base + bytes

-----------------------------------------------------------------------------
(* One block. *)

\* _mm512: adds the bias to all 32 bits and saturates what reaches exponent 255.
BF16Lane(v) ==
  IF IsNaN32(v) THEN [sign |-> 0, mag |-> 32704]
  ELSE LET rounded == v.abs + 32767 + ((v.abs \div 2^16) % 2)
       IN  [sign |-> v.sign,
            mag |-> IF isFiniteStrict(v) /\ ExpOf(rounded) = 255 THEN 32639
                    ELSE rounded \div 2^16]

\* The AVX-512 kernel takes sixteen numbers at a time, a scalar loop the rest.
EncodeScalar(fmt, kernels, x) ==
  [i \in DOMAIN x |-> IF fmt = "BF16" /\ kernels = "avx512" /\ i <= 16 * (Len(x) \div 16)
                      THEN BF16Lane(x[i]) ELSE Encode(fmt, x[i])]

Compressed(fmt, kernels, header, x) ==
  CASE fmt = "FP32" -> x
    [] fmt \in Narrowed -> EncodeScalar(fmt, kernels, x)
    [] fmt \in DOMAIN GridKinds -> EncodeGridBlock(fmt, x)
    [] OTHER -> EncodeBlock(fmt, kernels, header, x)

Decompressed(fmt, header, blk) ==
  CASE fmt = "FP32" -> blk
    [] fmt \in Narrowed -> [i \in DOMAIN blk |-> Decode(fmt, blk[i])]
    [] fmt \in DOMAIN GridKinds -> DecodeGridBlock(fmt, blk)
    [] OTHER -> DecodeBlock(fmt, header, blk)

Unreadable(fmt, blk) == fmt \notin Scalars /\ Refused(fmt, blk)

\* The number the caller's floats hold: half a unit of MXFP4 lies below the
\* smallest normal number, and the guard has it read as zero.
Reread(fmt, y) ==
  IF fmt # "MXFP4" THEN y
  ELSE [j \in DOMAIN y |-> [i \in DOMAIN y[j] |-> IF y[j][i] % 2 = 1 THEN 0 ELSE y[j][i] \div 2]]

-----------------------------------------------------------------------------
(* The codec slot. *)

Init ==
  /\ build \in Kernels
  /\ callerMode \in BOOLEAN /\ ftz = callerMode
  /\ adapter = "INT8"
  /\ call = Idle /\ held = None /\ back = None /\ ret = None

\* adapterByName and adapterByFormat; null for every other name.
Registry == [bf16 |-> "BF16", fp16 |-> "FP16", fp8_e4m3 |-> "E4M3", fp8 |-> "E4M3",
             fp8_e5m2 |-> "E5M2", int8 |-> "INT8", int4 |-> "INT4"]
adapterByName(name) == IF name \in DOMAIN Registry THEN Registry[name] ELSE None

\* setAdapter(a), null for the default; only while no stream of the old codec is about.
Empty == call = Idle /\ held = None /\ ret = None
SetAdapter(a) ==
  /\ Empty
  /\ adapter' = IF a = None THEN "INT8" ELSE a
  /\ UNCHANGED <<build, callerMode, ftz, call, held, back, ret>>

Adapters == {adapterByName(name) : name \in DOMAIN Registry \cup {"other"}}
            \cup Foreign \cup {"FP32", Unsupported}

-----------------------------------------------------------------------------
(* Calls.  c.out is what has been written, block by block. *)

Request(op, fmt, x, header, bytes, need, shape) ==
  [op |-> op, fmt |-> fmt, in |-> x, header |-> header, bytes |-> bytes + shape.extra,
   extra |-> shape.extra, need |-> need, room |-> need + shape.slack,
   to |-> To(shape.place, bytes + shape.extra, need), began |-> FALSE, out |-> <<>>, saved |-> ftz]

\* The early returns, in the order of the code; 0 is all they report.
Rejected(c) ==
  \/ c.fmt = Unsupported
  \/ c.extra # 0
  \/ c.op = "compress" /\ c.fmt \in {"NVFP4", "MXFP4"} /\ c.need = 0
  \/ c.room < c.need
  \/ spansOverlap(Base, c.bytes, c.to, c.need)
  \/ c.op = "decompress" /\ c.header = NonFinite

\* FtzDazGuard stands in the compressors of the block formats.
Guarded(c) == c.op = "compress" /\ c.fmt \notin Scalars

Start(c) ==
  /\ call = Idle /\ c.room >= 0
  /\ IF Rejected(c)
     THEN ret' = [call |-> c, value |-> 0] /\ UNCHANGED <<call, ftz>>
     ELSE /\ call' = [c EXCEPT !.began = TRUE] /\ ret' = None
          /\ ftz' = (ftz \/ Guarded(c))
  /\ UNCHANGED <<build, callerMode, adapter, held, back>>

Need(x) == IF adapter = Unsupported THEN 0 ELSE compressedSize(adapter, x)
HeaderOf(x) == IF adapter = "NVFP4" THEN Header(x) ELSE 0

(***************************************************************************)
(* Bounds.  The kernels differ for INT8, INT4 and BF16 alone; the caller's *)
(* mode matters to no number; only E4M3, E5M2 and FP32 take a stream of    *)
(* any length, which is then one with another number of elements.          *)
(***************************************************************************)
KernelsDiffer == DOMAIN IntLevels \cup {"BF16"}
Tried(x, shape) ==
  /\ build = "scalar" \/ adapter \in KernelsDiffer
  /\ x \in Shaped(adapter) \/ (shape = Good /\ ~callerMode)
  /\ adapter = "FP32" => shape.extra = 0

Compress(x, shape) ==
  /\ Empty /\ Tried(x, shape)
  /\ Start(Request("compress", adapter, x, HeaderOf(x), TensorBytes(adapter, x), Need(x), shape))

Decompress(shape) ==
  /\ held # None /\ back = None
  /\ shape # Good => held.source \in Shaped(adapter) /\ ~held.damaged
  /\ adapter \in {"E4M3", "E5M2", "FP32"} => shape.extra = 0
  /\ Start(Request("decompress", adapter, held.blocks, held.header,
                   compressedSize(adapter, held.blocks), TensorBytes(adapter, held.blocks), shape))

\* The stream read back is compressed again, by the formats that keep its codes.
Fixed == Dispatched \cup DOMAIN MinMaxLevels \cup {"Q5_0", "IQ4_NL", "MXFP4"}
Recompress ==
  /\ held # None /\ back # None /\ held.first = None /\ ~held.damaged /\ adapter \in Fixed
  /\ LET x == [k \in DOMAIN back |-> Reread(adapter, back[k])]
     IN  Start(Request("compress", adapter, x, 0, TensorBytes(adapter, x), Need(x), Good))

NextBlock == call.in[Len(call.out) + 1]
EncodeNext ==
  /\ call # Idle /\ call.op = "compress" /\ Len(call.out) < Len(call.in)
  /\ call' = [call EXCEPT !.out = Append(@, Compressed(call.fmt, build, call.header, NextBlock))]
  /\ UNCHANGED <<build, callerMode, ftz, adapter, held, back, ret>>

DecodeNext ==
  /\ call # Idle /\ call.op = "decompress" /\ Len(call.out) < Len(call.in)
  /\ ~Unreadable(call.fmt, NextBlock)
  /\ call' = [call EXCEPT !.out = Append(@, Decompressed(call.fmt, call.header, NextBlock))]
  /\ UNCHANGED <<build, callerMode, ftz, adapter, held, back, ret>>

\* A scale that is not finite, met after the blocks before it were written.
DecodeFails ==
  /\ call # Idle /\ call.op = "decompress" /\ Len(call.out) < Len(call.in)
  /\ Unreadable(call.fmt, NextBlock)
  /\ ret' = [call |-> call, value |-> 0] /\ call' = Idle
  /\ UNCHANGED <<build, callerMode, ftz, adapter, held, back>>

CompressReturn ==
  /\ call # Idle /\ call.op = "compress" /\ Len(call.out) = Len(call.in)
  /\ ret' = [call |-> call, value |-> call.need] /\ call' = Idle
  /\ ftz' = call.saved
  /\ held' = IF call.need = 0 THEN held
             ELSE [header |-> call.header, source |-> call.in, blocks |-> call.out,
                   damaged |-> FALSE, first |-> IF held = None THEN None ELSE held]
  /\ back' = None
  /\ UNCHANGED <<build, callerMode, adapter>>

DecompressReturn ==
  /\ call # Idle /\ call.op = "decompress" /\ Len(call.out) = Len(call.in)
  /\ ret' = [call |-> call, value |-> call.need] /\ call' = Idle
  /\ back' = call.out
  /\ UNCHANGED <<build, callerMode, ftz, adapter, held>>

\* The bytes of a scale are overwritten while the caller keeps the stream.
Damage ==
  /\ call = Idle /\ held # None /\ back = None /\ ~held.damaged
  /\ adapter \notin Scalars /\ held.source \in Shaped(adapter)
  /\ \/ \E k \in DOMAIN held.blocks : \E field \in {"d", "m"} :
          /\ field = "m" => adapter \in DOMAIN MinMaxLevels \cup DOMAIN RangeKinds
          /\ held' = [held EXCEPT !.blocks[k][field] = NonFinite, !.damaged = TRUE]
     \/ adapter = "NVFP4" /\ held' = [held EXCEPT !.header = NonFinite, !.damaged = TRUE]
  /\ UNCHANGED <<build, callerMode, ftz, adapter, call, back, ret>>

Discard ==
  /\ call = Idle /\ ~Empty
  /\ held' = None /\ back' = None /\ ret' = None
  /\ UNCHANGED <<build, callerMode, ftz, adapter, call>>

Next ==
  \/ \E a \in Adapters : SetAdapter(a)
  \/ Empty /\ \E x \in Data(adapter) \cup Shaped(adapter), shape \in Shapes : Compress(x, shape)
  \/ \E shape \in Shapes : Decompress(shape)
  \/ Recompress \/ EncodeNext \/ CompressReturn
  \/ DecodeNext \/ DecodeFails \/ DecompressReturn
  \/ Damage \/ Discard

Spec == Init /\ [][Next]_vars

-----------------------------------------------------------------------------
(* Properties. *)

JustCompressed == held # None /\ ret # None /\ ret.call.op = "compress"
JustRead == back # None /\ ret # None

RightCode(fmt, v, code) ==
  IF IsNaN32(v) THEN IsNaN32(Decode(fmt, code))
  ELSE /\ code.sign = v.sign
       /\ IF v.abs = Inf32
          THEN IF fmt = "E4M3" THEN code.mag = LargestOf(fmt) ELSE Decode(fmt, code).abs = Inf32
          ELSE IsNearest(fmt, v.abs, code.mag) \/ Misrounded(fmt, v.abs)

(***************************************************************************)
(* Every number of a tensor compressed to BF16, FP16, E4M3 or E5M2, by the *)
(* scalar loops or the AVX-512 lanes, has the code whose value is nearest, *)
(* the even one of two; a finite number never becomes an infinity or NaN   *)
(* (EC158), NaN stays NaN, a sign is kept.  Round bit, sticky bits,        *)
(* subnormals, the carry into the exponent and saturation all have to be   *)
(* right for it.  The numbers of "Misrounded" are excepted.                *)
(***************************************************************************)
NearestCode ==
  JustCompressed /\ adapter \in Narrowed =>
    \A k \in DOMAIN held.blocks : \A i \in DOMAIN held.blocks[k] :
      RightCode(adapter, held.source[k][i], held.blocks[k][i])

LayoutsUsed ==
  {"GenID"} \cup
  (CASE adapter = "INT8" ->
          {"INT8_DP4A"} \cup (CASE build = "scalar" -> {"INT8"} [] build = "avx2" -> {"INT8_AVX2"}
                                [] build = "avx512" -> {"INT8_AVX512"})
     [] adapter = "INT4" -> IF build = "avx512" THEN {"INT4_AVX512", "INT4_AVX512_scalar"}
                            ELSE {"INT4"}
     [] adapter \in Scalars -> {}
     [] OTHER -> {adapter, "scales"})

(***************************************************************************)
(* In the stream of a block format, and in the GenID it is kept under, no  *)
(* two values share a bit, no bit is left over, and the decoder finds      *)
(* every bit of every scale, code, sign and index where the encoder of     *)
(* that build put it: the two are written with different loops and shifts. *)
(***************************************************************************)
BitsAccountedFor == held # None => LayoutsUsed \subseteq SoundLayouts

(***************************************************************************)
(* What is read back from an undamaged stream lies as near to the source   *)
(* as the codes allow: half a code of the element's own sub-block, plus    *)
(* what rounding its scale and the scale of the block cost, for every      *)
(* block in the range of the format; for the codebook formats, as near as  *)
(* the nearest entry of the codebook.                                      *)
(***************************************************************************)
ErrorBounded ==
  JustRead /\ ~held.damaged /\ adapter \notin Scalars =>
    \A k \in DOMAIN back :
      InRange(adapter, held.source[k]) /\ Whole(adapter, held.header, held.source[k]) =>
        IF adapter \in DOMAIN GridKinds THEN GridNear(adapter, held.source[k], back[k])
        ELSE BlockNear(adapter, held.header, held.source[k], back[k])

(***************************************************************************)
(* The codebook formats keep the signs of the elements; those that store   *)
(* seven signs for eight elements may turn one of the smallest around, and *)
(* then only to make the number of negative ones even, as ksigns_iq2xs     *)
(* supposes when it restores the eighth.                                   *)
(***************************************************************************)
SignsKept ==
  JustRead /\ ~held.damaged /\ adapter \in DOMAIN GridKinds =>
    \A k \in DOMAIN back : \A j \in DOMAIN back[k] :
      SignsRight(adapter, held.source[k][j], back[k][j])

(***************************************************************************)
(* A tensor that is compressed, read and compressed again does not drift:  *)
(* the second stream reads as the first one does, and has the same codes   *)
(* in INT8 and INT4, whose FP32 scale the model does not round.  A tenant  *)
(* goes through this each time it is evicted.                              *)
(***************************************************************************)
NoDrift ==
  JustCompressed /\ held.first # None /\ ~held.damaged =>
    \A k \in DOMAIN held.blocks :
      LET again == held.blocks[k]
          first == held.first.blocks[k]
      IN  IF adapter \in DOMAIN IntLevels THEN again.q = first.q
          ELSE Decompressed(adapter, 0, again) = Decompressed(adapter, 0, first)

-----------------------------------------------------------------------------
Written(c) ==
  IF ~c.began THEN 0
  ELSE IF c.op = "compress" THEN compressedSize(c.fmt, c.out) ELSE TensorBytes(c.fmt, c.out)
Meet(a, aLen, b, bLen) == (a .. a + aLen - 1) \cap (b .. b + bLen - 1) # {}

StaysInRoom(c) ==
  /\ Written(c) <= c.room
  /\ ~Meet(c.to, Written(c), Base, c.bytes)

\* Why a call that has something to read and to write may fail.
Rightful(c) ==
  \/ c.fmt = Unsupported \/ c.extra # 0 \/ c.room < c.need
  \/ Meet(c.to, c.need, Base, c.bytes)
  \/ c.op = "decompress" /\ (held.damaged \/ \E k \in DOMAIN c.in :
                                              ~InRange(c.fmt, held.source[k]))

\* What a call that failed may have written: the blocks before a broken one.
OnlyPrefix(c) ==
  LET broken == {k \in DOMAIN c.in : NonFinite \in {c.in[k].d, c.in[k].m}}
  IN  Written(c) > 0 => c.op = "decompress" /\ Len(c.out) = Min(broken) - 1

(***************************************************************************)
(* A call writes inside the room it was given, and no byte of its input,   *)
(* while it runs and when it fails; it fails only for a reason the caller  *)
(* can name, a stream made of a tensor in range being readable; it reports *)
(* what it wrote; a failure leaves the output alone but for the blocks     *)
(* before a broken one; the caller's floating-point mode is back whenever  *)
(* no call runs.                                                           *)
(***************************************************************************)
RefusalsAreClean ==
  /\ call # Idle => StaysInRoom(call)
  /\ call = Idle => ftz = callerMode
  /\ ret # None =>
       /\ StaysInRoom(ret.call)
       /\ ret.value # 0 => ret.value = Written(ret.call)
       /\ ret.value = 0 /\ 0 \notin {ret.call.bytes, ret.call.need} => Rightful(ret.call) /\ OnlyPrefix(ret.call)
=============================================================================
