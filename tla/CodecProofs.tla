----------------------------- MODULE CodecProofs ------------------------------
(***************************************************************************)
(* What the codecs promise, for every tensor of the formats' blocks, every *)
(* build and all arguments: the nearest code for every FP32 number, calls  *)
(* that stay in their room and fail cleanly, numbers that come back near   *)
(* their source and with its signs, and codes that are found again when    *)
(* what was read is compressed once more.                                  *)
(***************************************************************************)
EXTENDS Codec, QuantizerProofs

-----------------------------------------------------------------------------
(* Numbers and lanes of the scalar formats. *)

(* The parts of an FP32 number. *)
LEMMA Fp32Parts ==
  ASSUME NEW v \in Fp32
  PROVE  v.abs \in Nat /\ v.sign \in {0, 1} /\ v.abs < 2147483648
  <1>1. v.sign \in {0, 1} /\ v.abs \in 0 .. Inf32 + 2^23 - 1
    BY Zenon DEF Fp32
  <1>2. Inf32 = 2139095040 /\ 2^23 = 8388608
    BY SMT DEF Inf32
  <1> QED
    BY <1>1, <1>2, SMT

(* A code reads as a number of its own sign. *)
LEMMA DecodeIs ==
  ASSUME NEW fmt, NEW code
  PROVE  /\ Decode(fmt, code).abs = MagnitudeOf(fmt, code.mag)
         /\ Decode(fmt, code).sign = code.sign
  BY Zenon DEF Decode, MagnitudeOf

(***************************************************************************)
(* The scalar conversions are right for every number: the code is the      *)
(* nearest one, NaN stays NaN and infinity stays infinite.                 *)
(***************************************************************************)
LEMMA EncodeRight ==
  ASSUME NEW fmt \in Narrowed, NEW v \in Fp32
  PROVE  RightCode(fmt, v, Encode(fmt, v))
  <1> DEFINE f == Formats[fmt]
             code == Encode(fmt, v)
  <1>1. v.abs \in Nat /\ v.sign \in {0, 1}
    BY Fp32Parts
  <1>2. code.sign = v.sign
    BY SMT DEF Encode
  <1>3. CASE fmt = "BF16"
    <2>1. CASE IsNaN32(v)
      <3>1. code.mag = 32704
        BY <1>3, <2>1, SMT DEF Encode
      <3>2. Decode(fmt, code).abs > Inf32
        BY <1>3, <3>1, DecodeIs, SpecialCodes, SMT
      <3> QED
        BY <2>1, <3>2, SMT DEF RightCode, IsNaN32
    <2>2. CASE ~IsNaN32(v) /\ v.abs = Inf32
      <3>1. code.mag = 32640
        BY <1>3, <2>2, SMT DEF Encode
      <3>2. Decode(fmt, code).abs = Inf32
        BY <1>3, <3>1, DecodeIs, SpecialCodes, SMT
      <3> QED
        BY <1>2, <1>3, <2>2, <3>2, SMT DEF RightCode
    <2>3. CASE ~IsNaN32(v) /\ v.abs # Inf32
      <3>1. code.mag = NarrowBF16(v.abs)
        BY <1>3, <2>3, SMT DEF Encode
      <3>2. IsNearest("BF16", v.abs, NarrowBF16(v.abs))
        BY <1>1, BF16Nearest, SMT
      <3> QED
        BY <1>2, <1>3, <2>3, <3>1, <3>2, Zenon DEF RightCode
    <2> QED
      BY <2>1, <2>2, <2>3, Zenon
  <1>4. CASE fmt # "BF16"
    <2>0. fmt \in FloatFormats
      BY <1>4, Zenon DEF Narrowed, FloatFormats
    <2>1. CASE IsNaN32(v)
      <3>1. code.mag = f.nan
        BY <1>4, <2>1, SMT DEF Encode
      <3>2. MagnitudeOf(fmt, f.nan) > Inf32
        BY <2>0, FP16Facts, E4M3Facts, E5M2Facts, SpecialCodes, SMT DEF FloatFormats
      <3>3. Decode(fmt, code).abs > Inf32
        BY <3>1, <3>2, DecodeIs, SMT
      <3> QED
        BY <2>1, <3>3, SMT DEF RightCode, IsNaN32
    <2>2. CASE ~IsNaN32(v) /\ v.abs = Inf32
      <3>1. code.mag = f.inf
        BY <1>4, <2>2, SMT DEF Encode
      <3>2. fmt # "E4M3" => Decode(fmt, code).abs = Inf32
        <4>1. fmt # "E4M3" => MagnitudeOf(fmt, f.inf) = Inf32
          BY <2>0, FP16Facts, E5M2Facts, SpecialCodes, SMT DEF FloatFormats
        <4> QED
          BY <3>1, <4>1, DecodeIs, SMT
      <3>3. fmt = "E4M3" => code.mag = LargestOf(fmt)
        BY <3>1, E4M3Facts, SMT DEF LargestOf
      <3> QED
        BY <1>2, <2>2, <3>2, <3>3, Zenon DEF RightCode
    <2>3. CASE ~IsNaN32(v) /\ v.abs # Inf32
      <3>1. code.mag = Narrow(f, v.abs)
        BY <1>4, <2>3, SMT DEF Encode
      <3>2. IsNearest(fmt, v.abs, Narrow(f, v.abs)) \/ Misrounded(fmt, v.abs)
        BY <1>1, <2>0, NarrowNearest, Zenon
      <3> QED
        BY <1>2, <2>3, <3>1, <3>2, Zenon DEF RightCode
    <2> QED
      BY <2>1, <2>2, <2>3, Zenon
  <1> QED
    BY <1>3, <1>4, Zenon

(***************************************************************************)
(* The AVX-512 lane, which adds the bias to all 32 bits at once, gives the *)
(* number the code of the scalar loop.                                     *)
(***************************************************************************)
LEMMA LaneAgrees ==
  ASSUME NEW v \in Fp32, ~IsNaN32(v)
  PROVE  BF16Lane(v) = Encode("BF16", v)
  <1> DEFINE rounded == v.abs + 32767 + ((v.abs \div 65536) % 2)
             mag == IF isFiniteStrict(v) /\ ExpOf(rounded) = 255 THEN 32639 ELSE rounded \div 65536
  <1>1. v.abs \in Nat /\ v.abs <= 2139095040 /\ Inf32 = 2139095040
    BY Fp32Parts, SMT DEF Inf32, IsNaN32
  <1>2. BF16Lane(v) = [sign |-> v.sign, mag |-> mag]
    BY SMT DEF BF16Lane
  <1>3. mag = IF v.abs = Inf32 THEN 32640 ELSE NarrowBF16(v.abs)
    <2>1. CASE v.abs = Inf32
      BY <1>1, <2>1, SMT DEF isFiniteStrict
    <2>2. CASE v.abs # Inf32
      <3>1. isFiniteStrict(v)
        BY <1>1, <2>2, SMT DEF isFiniteStrict
      <3>2. NarrowBF16(v.abs) = IF RoundNearestEven(v.abs, 16) >= 32640 THEN 32639 ELSE RoundNearestEven(v.abs, 16)
        BY SMT DEF NarrowBF16
      <3>3. RoundNearestEven(v.abs, 16) = rounded \div 65536
        BY <1>1, SMT DEF RoundNearestEven
      <3>4. ExpOf(rounded) = 255 <=> rounded \div 65536 >= 32640
        BY <1>1, <2>2, SMT DEF ExpOf
      <3> QED
        BY <2>2, <3>1, <3>2, <3>3, <3>4, SMT
    <2> QED
      BY <2>1, <2>2, SMT
  <1> HIDE DEF mag
  <1>4. Encode("BF16", v) = [sign |-> v.sign, mag |-> IF v.abs = Inf32 THEN 32640 ELSE NarrowBF16(v.abs)]
    BY SMT DEF Encode
  <1> QED
    BY <1>2, <1>3, <1>4, SMT

(* EC133 (quantizer_simd.hpp:25): an AVX-512 lane gives every FP32         *)
(* number, whatever bits it has, the code that the property NearestCode    *)
(* asks for.                                                               *)
LEMMA LaneRight ==
  ASSUME NEW v \in Fp32
  PROVE  RightCode("BF16", v, BF16Lane(v))
  <1>1. CASE IsNaN32(v)
    <2>1. BF16Lane(v).mag = 32704
      BY <1>1, SMT DEF BF16Lane
    <2>2. Decode("BF16", BF16Lane(v)).abs > Inf32
      BY <2>1, DecodeIs, SpecialCodes, SMT
    <2> QED
      BY <1>1, <2>2, Zenon DEF RightCode, IsNaN32
  <1>2. CASE ~IsNaN32(v)
    <2>1. RightCode("BF16", v, Encode("BF16", v))
      BY EncodeRight, Zenon DEF Narrowed
    <2> QED
      BY <1>2, <2>1, LaneAgrees, Zenon
  <1> QED
    BY <1>1, <1>2, Zenon

(* The codebook formats share an encoder and a decoder. *)
LEMMA DispatchGrid ==
  ASSUME NEW fmt \in DOMAIN GridKinds, NEW kernels, NEW h, NEW x
  PROVE  /\ Compressed(fmt, kernels, h, x) = EncodeGrid(fmt, x)
         /\ Decompressed(fmt, h, x) = DecodeGrid(fmt, x)
  <1>1. Compressed(fmt, kernels, h, x) = EncodeGrid(fmt, x)
    <2>1. Compressed(fmt, kernels, h, x) = EncodeGridBlock(fmt, x)
      BY KindNames, SMT DEF Compressed, Narrowed
    <2>2. /\ EncodeGridBlock("IQ2_XXS", x) = EncodeGrid("IQ2_XXS", x)
          /\ EncodeGridBlock("IQ2_XS", x) = EncodeGrid("IQ2_XS", x)
          /\ EncodeGridBlock("IQ2_S", x) = EncodeGrid("IQ2_S", x)
          /\ EncodeGridBlock("IQ3_XXS", x) = EncodeGrid("IQ3_XXS", x)
          /\ EncodeGridBlock("IQ3_S", x) = EncodeGrid("IQ3_S", x)
          /\ EncodeGridBlock("IQ1_S", x) = EncodeGrid("IQ1_S", x)
          /\ EncodeGridBlock("IQ1_M", x) = EncodeGrid("IQ1_M", x)
      BY SMT DEF EncodeGridBlock, compressFP32ToIQ2_XXS, compressFP32ToIQ2_XS, compressFP32ToIQ2_S,
                 compressFP32ToIQ3_XXS, compressFP32ToIQ3_S, compressFP32ToIQ1_S, compressFP32ToIQ1_M
    <2> QED
      BY <2>1, <2>2, KindNames, Zenon
  <1>2. Decompressed(fmt, h, x) = DecodeGrid(fmt, x)
    <2>1. Decompressed(fmt, h, x) = DecodeGridBlock(fmt, x)
      BY KindNames, SMT DEF Decompressed, Narrowed
    <2>2. /\ DecodeGridBlock("IQ2_XXS", x) = DecodeGrid("IQ2_XXS", x)
          /\ DecodeGridBlock("IQ2_XS", x) = DecodeGrid("IQ2_XS", x)
          /\ DecodeGridBlock("IQ2_S", x) = DecodeGrid("IQ2_S", x)
          /\ DecodeGridBlock("IQ3_XXS", x) = DecodeGrid("IQ3_XXS", x)
          /\ DecodeGridBlock("IQ3_S", x) = DecodeGrid("IQ3_S", x)
          /\ DecodeGridBlock("IQ1_S", x) = DecodeGrid("IQ1_S", x)
          /\ DecodeGridBlock("IQ1_M", x) = DecodeGrid("IQ1_M", x)
      BY SMT DEF DecodeGridBlock, decompressIQ2_XXS_ToFP32, decompressIQ2_XS_ToFP32, decompressIQ2_S_ToFP32,
                 decompressIQ3_XXS_ToFP32, decompressIQ3_S_ToFP32, decompressIQ1_S_ToFP32, decompressIQ1_M_ToFP32
    <2> QED
      BY <2>1, <2>2, KindNames, Zenon
  <1> QED
    BY <1>1, <1>2, Zenon

(* Which encoder and which decoder a format has. *)
LEMMA Dispatch ==
  ASSUME NEW kernels, NEW h, NEW x
  PROVE  /\ \A fmt \in {"INT8", "INT4"} : Compressed(fmt, kernels, h, x)
               = EncodeINT(IntLevels[fmt], RoundsToEven(fmt, kernels), x)
         /\ \A fmt \in {"Q4_1", "Q5_1"} : Compressed(fmt, kernels, h, x) = EncodeMinMax(MinMaxLevels[fmt], x)
         /\ \A fmt \in DOMAIN SignedKinds : Compressed(fmt, kernels, h, x) = EncodeSigned(fmt, x)
         /\ \A fmt \in DOMAIN RangeKinds : Compressed(fmt, kernels, h, x) = EncodeRange(fmt, x)
         /\ \A fmt \in DOMAIN GridKinds : Compressed(fmt, kernels, h, x) = EncodeGrid(fmt, x)
         /\ Compressed("Q5_0", kernels, h, x) = compressFP32ToQ5_0(x)
         /\ Compressed("IQ4_NL", kernels, h, x) = compressFP32ToIQ4_NL(x)
         /\ Compressed("MXFP4", kernels, h, x) = compressFP32ToMXFP4(x)
         /\ Compressed("FP32", kernels, h, x) = x
         /\ \A fmt \in Narrowed : Compressed(fmt, kernels, h, x) = EncodeScalar(fmt, kernels, x)
  <1>1. ASSUME NEW fmt \in BlockFormats
        PROVE  Compressed(fmt, kernels, h, x) = EncodeBlock(fmt, kernels, h, x)
    BY KindNames, SMT DEF Compressed, Narrowed, BlockFormats
  <1>2. \A fmt \in {"INT8", "INT4"} : Compressed(fmt, kernels, h, x)
               = EncodeINT(IntLevels[fmt], RoundsToEven(fmt, kernels), x)
    <2>1. EncodeBlock("INT8", kernels, h, x) = EncodeINT(127, RoundsToEven("INT8", kernels), x)
      BY SMT DEF EncodeBlock, compressFP32ToINT8
    <2>2. EncodeBlock("INT4", kernels, h, x) = EncodeINT(7, RoundsToEven("INT4", kernels), x)
      BY SMT DEF EncodeBlock, compressFP32ToINT4
    <2> QED
      BY <1>1, <2>1, <2>2, KindNames, Zenon DEF BlockFormats
  <1>3. \A fmt \in {"Q4_1", "Q5_1"} : Compressed(fmt, kernels, h, x) = EncodeMinMax(MinMaxLevels[fmt], x)
    <2>1. EncodeBlock("Q4_1", kernels, h, x) = EncodeMinMax(15, x)
      BY SMT DEF EncodeBlock, compressFP32ToQ4_1
    <2>2. EncodeBlock("Q5_1", kernels, h, x) = EncodeMinMax(31, x)
      BY SMT DEF EncodeBlock, compressFP32ToQ5_1
    <2>3. {"Q4_1", "Q5_1"} \subseteq BlockFormats
      BY KindNames, Zenon DEF BlockFormats
    <2> QED
      BY <1>1, <2>1, <2>2, <2>3, KindNames, SMT
  <1>4. \A fmt \in DOMAIN SignedKinds : Compressed(fmt, kernels, h, x) = EncodeSigned(fmt, x)
    <2>1. /\ EncodeBlock("Q6_K", kernels, h, x) = EncodeSigned("Q6_K", x)
          /\ EncodeBlock("Q3_K", kernels, h, x) = EncodeSigned("Q3_K", x)
          /\ EncodeBlock("IQ4_XS", kernels, h, x) = EncodeSigned("IQ4_XS", x)
      BY SMT DEF EncodeBlock, compressFP32ToQ6_K, compressFP32ToQ3_K, compressFP32ToIQ4_XS
    <2> QED
      BY <1>1, <2>1, KindNames, Zenon DEF BlockFormats
  <1>5. \A fmt \in DOMAIN RangeKinds : Compressed(fmt, kernels, h, x) = EncodeRange(fmt, x)
    <2>1. /\ EncodeBlock("Q5_K", kernels, h, x) = EncodeRange("Q5_K", x)
          /\ EncodeBlock("Q4_K", kernels, h, x) = EncodeRange("Q4_K", x)
          /\ EncodeBlock("Q2_K", kernels, h, x) = EncodeRange("Q2_K", x)
      BY SMT DEF EncodeBlock, compressFP32ToQ5_K, compressFP32ToQ4_K, compressFP32ToQ2_K
    <2> QED
      BY <1>1, <2>1, KindNames, Zenon DEF BlockFormats
  <1>6. ASSUME NEW fmt \in DOMAIN GridKinds
        PROVE  Compressed(fmt, kernels, h, x) = EncodeGrid(fmt, x)
    BY DispatchGrid, Zenon
  <1>7. /\ EncodeBlock("Q5_0", kernels, h, x) = compressFP32ToQ5_0(x)
        /\ EncodeBlock("IQ4_NL", kernels, h, x) = compressFP32ToIQ4_NL(x)
        /\ EncodeBlock("MXFP4", kernels, h, x) = compressFP32ToMXFP4(x)
    BY SMT DEF EncodeBlock
  <1>8. Compressed("FP32", kernels, h, x) = x
    <2>1. "FP32" \notin Narrowed /\ "FP32" \notin DOMAIN GridKinds
      BY KindNames, SMT DEF Narrowed
    <2> QED
      BY <2>1, SMT DEF Compressed
  <1>10. ASSUME NEW fmt \in Narrowed
         PROVE  Compressed(fmt, kernels, h, x) = EncodeScalar(fmt, kernels, x)
    <2>1. fmt # "FP32" /\ fmt \notin DOMAIN GridKinds
      BY KindNames, SMT DEF Narrowed
    <2> QED
      BY <2>1, SMT DEF Compressed
  <1>9. {"Q5_0", "IQ4_NL", "MXFP4"} \subseteq BlockFormats
    BY Zenon DEF BlockFormats
  <1> QED
    BY <1>1, <1>2, <1>3, <1>4, <1>5, <1>6, <1>7, <1>8, <1>9, <1>10, Zenon

(* Which decoder reads the blocks of which format. *)
LEMMA DispatchBack ==
  ASSUME NEW h, NEW blk
  PROVE  /\ \A fmt \in {"INT8", "INT4"} : Decompressed(fmt, h, blk) = DecodeINT(blk)
         /\ \A fmt \in {"Q4_1", "Q5_1"} : Decompressed(fmt, h, blk) = DecodeMinMax(blk)
         /\ Decompressed("Q5_0", h, blk) = decompressQ5_0ToFP32(blk)
         /\ Decompressed("IQ4_NL", h, blk) = decompressIQ4_NL_ToFP32(blk)
         /\ Decompressed("MXFP4", h, blk) = DecodeE2M1(blk.d, blk)
         /\ Decompressed("FP32", h, blk) = blk
         /\ \A fmt \in Narrowed :
              Decompressed(fmt, h, blk) = [i \in DOMAIN blk |-> Decode(fmt, blk[i])]
         /\ \A fmt \in DOMAIN GridKinds : Decompressed(fmt, h, blk) = DecodeGrid(fmt, blk)
  <1>1. ASSUME NEW fmt \in BlockFormats
        PROVE  Decompressed(fmt, h, blk) = DecodeBlock(fmt, h, blk)
    BY KindNames, SMT DEF Decompressed, Narrowed, BlockFormats
  <1>2. /\ \A fmt \in {"INT8", "INT4"} : DecodeBlock(fmt, h, blk) = DecodeINT(blk)
        /\ \A fmt \in {"Q4_1", "Q5_1"} : DecodeBlock(fmt, h, blk) = DecodeMinMax(blk)
        /\ DecodeBlock("Q5_0", h, blk) = decompressQ5_0ToFP32(blk)
        /\ DecodeBlock("IQ4_NL", h, blk) = decompressIQ4_NL_ToFP32(blk)
        /\ DecodeBlock("MXFP4", h, blk) = DecodeE2M1(blk.d, blk)
    BY KindNames, SMT DEF DecodeBlock, decompressQ4_1ToFP32, decompressQ5_1ToFP32, decompressMXFP4ToFP32
  <1>3. Decompressed("FP32", h, blk) = blk
    <2>1. "FP32" \notin Narrowed /\ "FP32" \notin DOMAIN GridKinds
      BY KindNames, SMT DEF Narrowed
    <2> QED
      BY <2>1, SMT DEF Decompressed
  <1>6. ASSUME NEW fmt \in Narrowed
        PROVE  Decompressed(fmt, h, blk) = [i \in DOMAIN blk |-> Decode(fmt, blk[i])]
    <2>1. fmt # "FP32" /\ fmt \notin DOMAIN GridKinds
      BY KindNames, SMT DEF Narrowed
    <2> QED
      BY <2>1, SMT DEF Decompressed
  <1>4. {"INT8", "INT4", "Q4_1", "Q5_1", "Q5_0", "IQ4_NL", "MXFP4"} \subseteq BlockFormats
    BY KindNames, Zenon DEF BlockFormats
  <1>5. ASSUME NEW fmt \in DOMAIN GridKinds
        PROVE  Decompressed(fmt, h, blk) = DecodeGrid(fmt, blk)
    BY DispatchGrid, Zenon
  <1> QED
    BY <1>1, <1>2, <1>3, <1>4, <1>5, <1>6, Zenon

(* y is a block with the sub-blocks of x.                                  *)
Alike(x, y) == y \in Blocks /\ DOMAIN y = DOMAIN x

(* What is read from a block with finite scales can be compressed again. *)
LEMMA DecodedBlock ==
  ASSUME NEW x \in Blocks, NEW blk, SameShape(x, blk.q),
         \A j \in DOMAIN x : \A i \in DOMAIN x[j] : blk.q[j][i] \in Int
  PROVE  /\ blk.d \in Int => Alike(x, DecodeINT(blk))
         /\ blk.d \in Int /\ blk.m \in Int => Alike(x, DecodeMinMax(blk))
         /\ blk.d \in Int => Alike(x, decompressQ5_0ToFP32(blk))
         /\ blk.d \in Int /\ (\A j \in DOMAIN x : \A i \in DOMAIN x[j] : blk.q[j][i] \in 0 .. 15)
              => Alike(x, decompressIQ4_NL_ToFP32(blk))
         /\ blk.d \in Int /\ (\A j \in DOMAIN x : \A i \in DOMAIN x[j] : blk.q[j][i] \in 0 .. 15)
              => Alike(x, Reread("MXFP4", DecodeE2M1(blk.d, blk)))
  <1> DEFINE q == blk.q
             d == blk.d
             m == blk.m
  <1>0. /\ DOMAIN q = DOMAIN x /\ (\A j \in DOMAIN x : DOMAIN q[j] = DOMAIN x[j])
        /\ SameShape(x, q) /\ \A j \in DOMAIN q : \A i \in DOMAIN q[j] : q[j][i] \in Int
    BY Zenon DEF SameShape
  <1> DEFINE y1 == DecodeINT(blk)
             y2 == DecodeMinMax(blk)
             y3 == decompressQ5_0ToFP32(blk)
             y4 == decompressIQ4_NL_ToFP32(blk)
             y5 == Reread("MXFP4", DecodeE2M1(blk.d, blk))
             ints == \A j \in DOMAIN q : \A i \in DOMAIN q[j] : q[j][i] \in 0 .. 15
  <1>1. /\ y1 = [j \in DOMAIN q |-> [i \in DOMAIN q[j] |-> q[j][i] * Sane(d)]]
        /\ y2 = [j \in DOMAIN q |-> [i \in DOMAIN q[j] |-> q[j][i] * d + m]]
        /\ y3 = [j \in DOMAIN q |-> [i \in DOMAIN q[j] |-> (q[j][i] - 16) * d]]
        /\ y4 = [j \in DOMAIN q |-> [i \in DOMAIN q[j] |-> IQ4Codebook[q[j][i] + 1] * d]]
    BY Zenon DEF DecodeINT, DecodeMinMax, decompressQ5_0ToFP32, decompressIQ4_NL_ToFP32
  <1> DEFINE z == DecodeE2M1(d, blk)
  <1>2. z = [j \in DOMAIN q |-> [i \in DOMAIN q[j] |->
                                IF d = NonFinite THEN NonFinite ELSE ElementE2M1(q[j][i]) * d]]
    BY Zenon DEF DecodeE2M1
  <1>3. y5 = [j \in DOMAIN q |-> [i \in DOMAIN q[j] |-> IF z[j][i] % 2 = 1 THEN 0 ELSE z[j][i] \div 2]]
    <2>1. y5 = [j \in DOMAIN z |-> [i \in DOMAIN z[j] |-> IF z[j][i] % 2 = 1 THEN 0 ELSE z[j][i] \div 2]]
      BY SMT DEF Reread
    <2>2. DOMAIN z = DOMAIN q /\ \A j \in DOMAIN q : DOMAIN z[j] = DOMAIN q[j]
      BY <1>2, Zenon
    <2> HIDE DEF z, q, y5
    <2> QED
      BY <2>1, <2>2, Zenon
  <1>4. d \in Int => Sane(d) \in Int
    BY SaneIs, Zenon DEF Number
  <1> HIDE DEF y1, y2, y3, y4, y5, z, d, m, q
  <1>5. SameShape(q, y1) /\ SameShape(q, y2) /\ SameShape(q, y3) /\ SameShape(q, y4) /\ SameShape(q, y5)
    BY <1>1, <1>3, Zenon DEF SameShape
  <1>6. ASSUME d \in Int PROVE y1 \in Blocks
    <2>1. \A j \in DOMAIN q : \A i \in DOMAIN q[j] : y1[j][i] = q[j][i] * Sane(d)
      BY <1>1, Zenon
    <2>2. \A k \in Int : k * Sane(d) \in Number
      BY <1>4, <1>6, SMT DEF Number
    <2> QED
      BY <1>0, <1>5, <2>1, <2>2, DecodedNumbers, Zenon
  <1>7. ASSUME d \in Int, m \in Int PROVE y2 \in Blocks
    <2>1. \A j \in DOMAIN q : \A i \in DOMAIN q[j] : y2[j][i] = q[j][i] * d + m
      BY <1>1, Zenon
    <2>2. \A k \in Int : k * d + m \in Number
      BY <1>7, SMT DEF Number
    <2> QED
      BY <1>0, <1>5, <2>1, <2>2, DecodedNumbers, Zenon
  <1>8. ASSUME d \in Int PROVE y3 \in Blocks
    <2>1. \A j \in DOMAIN q : \A i \in DOMAIN q[j] : y3[j][i] = (q[j][i] - 16) * d
      BY <1>1, Zenon
    <2>2. \A k \in Int : (k - 16) * d \in Number
      BY <1>8, SMT DEF Number
    <2> QED
      BY <1>0, <1>5, <2>1, <2>2, DecodedNumbers, ZenonT(60)
  <1>9. ASSUME d \in Int, ints PROVE y4 \in Blocks
    <2>1. \A j \in DOMAIN q : \A i \in DOMAIN q[j] : y4[j][i] = IQ4Codebook[q[j][i] + 1] * d
      BY <1>1, Zenon
    <2>2. \A k \in 0 .. 15 : IQ4Codebook[k + 1] * d \in Number
      <3> TAKE k \in 0 .. 15
      <3> DEFINE t == IQ4Codebook[k + 1]
      <3>1. k + 1 \in 1 .. 16
        BY SMT
      <3>2. t \in -127 .. 113
        BY <3>1, IQ4Entries, Zenon
      <3> HIDE DEF t
      <3>3. t * d \in Int
        BY <1>9, <3>2, SMT
      <3> QED
        BY <3>3, Zenon DEF t, Number
    <2> QED
      BY <1>0, <1>5, <1>9, <2>1, <2>2, DecodedNumbers, ZenonT(60)
  <1>10. ASSUME d \in Int, ints PROVE y5 \in Blocks
    <2>1. \A j \in DOMAIN q : \A i \in DOMAIN q[j] : y5[j][i] = IF z[j][i] % 2 = 1 THEN 0 ELSE z[j][i] \div 2
      BY <1>3, Zenon
    <2>2. \A j \in DOMAIN q : \A i \in DOMAIN q[j] : z[j][i] = IF d = NonFinite THEN NonFinite ELSE ElementE2M1(q[j][i]) * d
      BY <1>2, Zenon
    <2>3. \A k \in 0 .. 15 : ElementE2M1(k) * d \in Int
      <3> TAKE k \in 0 .. 15
      <3>1. ElementE2M1(k) \in -12 .. 12
        BY ElementE2M1Is, Zenon
      <3> QED
        BY <1>10, <3>1, SMT
    <2>4. d # NonFinite
      BY <1>10, NumbersAssumption, Zenon
    <2>5. \A j \in DOMAIN q : \A i \in DOMAIN q[j] : z[j][i] \in Int
      BY <1>10, <2>2, <2>3, <2>4, Zenon
    <2>6. \A k \in Int : k \div 2 \in Number /\ 0 \in Number
      BY SMT DEF Number
    <2> QED
      BY <1>0, <1>5, <2>1, <2>5, <2>6, DecodedNumbers, Zenon
  <1>11. (\A j \in DOMAIN x : \A i \in DOMAIN x[j] : q[j][i] \in 0 .. 15) => ints
    BY <1>0, Zenon
  <1>12. \A y : SameShape(q, y) => DOMAIN y = DOMAIN x
    BY <1>0, Zenon DEF SameShape
  <1>13. /\ d \in Int => Alike(x, y1)
         /\ d \in Int /\ m \in Int => Alike(x, y2)
         /\ d \in Int => Alike(x, y3)
         /\ d \in Int /\ ints => Alike(x, y4)
         /\ d \in Int /\ ints => Alike(x, y5)
    BY <1>5, <1>6, <1>7, <1>8, <1>9, <1>10, <1>12, Zenon DEF Alike
  <1> QED
    BY <1>11, <1>13, Zenon DEF y1, y2, y3, y4, y5, d, m, q

(* The names of the formats, by what may be done with them. *)
LEMMA FormatNames ==
  /\ Fixed = {"BF16", "FP16", "E4M3", "E5M2", "FP32", "INT8", "INT4", "Q4_1", "Q5_1", "Q5_0", "IQ4_NL", "MXFP4"}
  /\ Dispatched = {"BF16", "FP16", "E4M3", "E5M2", "FP32", "INT8", "INT4"}
  /\ BlockFormats = {"INT8", "INT4", "Q4_1", "Q5_1", "Q6_K", "Q3_K", "IQ4_XS", "Q5_K", "Q4_K", "Q2_K",
                     "Q5_0", "IQ4_NL", "NVFP4", "MXFP4"}
  /\ Foreign = (BlockFormats \cup DOMAIN GridKinds) \ {"INT8", "INT4"}
  /\ Scalars = {"BF16", "FP16", "E4M3", "E5M2", "FP32"}
  /\ Scalars \cap (BlockFormats \cup DOMAIN GridKinds) = {}
  /\ BlockFormats \cap DOMAIN GridKinds = {}
  /\ Unsupported \notin Dispatched \cup Foreign
  <1>1. /\ Scalars = {"BF16", "FP16", "E4M3", "E5M2", "FP32"}
        /\ Dispatched = {"BF16", "FP16", "E4M3", "E5M2", "FP32", "INT8", "INT4"}
        /\ Fixed = {"BF16", "FP16", "E4M3", "E5M2", "FP32", "INT8", "INT4", "Q4_1", "Q5_1", "Q5_0", "IQ4_NL", "MXFP4"}
    BY KindNames, SMT DEF Fixed, Dispatched, Scalars, Narrowed
  <1>2. BlockFormats = {"INT8", "INT4", "Q4_1", "Q5_1", "Q6_K", "Q3_K", "IQ4_XS", "Q5_K", "Q4_K", "Q2_K",
                        "Q5_0", "IQ4_NL", "NVFP4", "MXFP4"}
    BY KindNames, SMT DEF BlockFormats
  <1>3. Foreign = (BlockFormats \cup DOMAIN GridKinds) \ {"INT8", "INT4"}
    BY KindNames, SMT DEF Foreign
  <1>4. Scalars \cap (BlockFormats \cup DOMAIN GridKinds) = {}
    BY <1>1, <1>2, KindNames, SMT
  <1>5. BlockFormats \cap DOMAIN GridKinds = {}
    BY <1>2, KindNames, SMT
  <1>6. Unsupported \notin Dispatched \cup Foreign
    BY <1>1, <1>2, <1>3, KindNames, SMT DEF Unsupported
  <1> QED
    BY <1>1, <1>2, <1>3, <1>4, <1>5, <1>6, Zenon

(* The blocks a caller may pass, format by format. *)
LEMMA BlockOfIs ==
  /\ \A fmt \in Scalars \cup {Unsupported} : BlockOf(fmt) = Seq(Fp32)
  /\ \A fmt \in BlockFormats : BlockOf(fmt) \subseteq Blocks
  /\ \A fmt \in BlockFormats \ Layered : BlockOf(fmt) = [1 .. 1 -> SubBlocks]
  /\ \A fmt \in DOMAIN GridKinds : BlockOf(fmt) = GridBlocksOf /\ BlockOf(fmt) \subseteq Blocks
  <1>1. \A fmt \in Scalars \cup {Unsupported} :
          fmt \notin DOMAIN GridKinds /\ fmt \notin BlockFormats /\ fmt \notin Layered
    BY FormatNames, KindNames, SMT DEF Unsupported, Layered
  <1>2. \A fmt \in BlockFormats : fmt \notin DOMAIN GridKinds
    BY FormatNames, Zenon
  <1>3. \A fmt \in DOMAIN GridKinds : BlockOf(fmt) = GridBlocksOf
    BY Zenon DEF BlockOf, GridBlocksOf
  <1>4. GridBlocksOf \subseteq Blocks
    BY GridBlockParts, Zenon
  <1>5. \A fmt \in BlockFormats \ Layered : BlockOf(fmt) = [1 .. 1 -> SubBlocks]
    BY <1>2, Zenon DEF BlockOf, SubBlocks
  <1>6. \A fmt \in BlockFormats \cap Layered : BlockOf(fmt) = Blocks
    BY <1>2, Zenon DEF BlockOf, Blocks, SubBlocks
  <1>7. [1 .. 1 -> SubBlocks] \subseteq Blocks
    <2> SUFFICES ASSUME NEW x \in [1 .. 1 -> SubBlocks] PROVE x \in Blocks
      BY Zenon
    <2>1. 1 \in Nat /\ 1 > 0
      BY SMT
    <2>2. x \in Seq(SubBlocks) /\ Len(x) = 1
      <3>1. x = [k \in 1 .. 1 |-> x[k]] /\ \A k \in 1 .. 1 : x[k] \in SubBlocks
        BY Zenon
      <3> QED
        BY <2>1, <3>1, SequenceOf, Zenon
    <2>3. x # <<>>
      BY <2>1, <2>2, NotEmpty, Zenon
    <2> QED
      BY <2>2, <2>3, Zenon DEF Blocks
  <1>8. \A fmt \in Scalars \cup {Unsupported} : BlockOf(fmt) = Seq(Fp32)
    BY <1>1, Zenon DEF BlockOf
  <1> QED
    BY <1>3, <1>4, <1>5, <1>6, <1>7, <1>8, Zenon

(* Every block of a format that keeps its codes reads as numbers again. *)
LEMMA DecodedTyped ==
  ASSUME NEW fmt \in Fixed \ Scalars, NEW kernels, NEW h, NEW g, NEW x \in Blocks,
         ~Refused(fmt, Compressed(fmt, kernels, h, x))
  PROVE  Alike(x, Reread(fmt, Decompressed(fmt, g, Compressed(fmt, kernels, h, x))))
  <1> DEFINE blk == Compressed(fmt, kernels, h, x)
  <1>0. fmt \in {"INT8", "INT4"} \/ fmt \in {"Q4_1", "Q5_1"} \/ fmt = "Q5_0" \/ fmt = "IQ4_NL" \/ fmt = "MXFP4"
    BY FormatNames, SMT
  <1>1. \A y : fmt # "MXFP4" => Reread(fmt, y) = y
    BY Zenon DEF Reread
  <1>2. \A j \in DOMAIN x : \A i \in DOMAIN x[j] : Sane(x[j][i]) \in Int
    BY FlatIs, Zenon
  <1>3. CASE fmt \in {"INT8", "INT4"}
    <2> DEFINE n == IntLevels[fmt]
               even == RoundsToEven(fmt, kernels)
               s == IntScale(n, x)
               Code(v) == IntCode(n, even, s, v)
    <2>1. n \in Nat /\ n > 0
      BY <1>3, KindNames, SMT
    <2>2. blk = EncodeINT(n, even, x)
      BY <1>3, Dispatch, SMT
    <2> HIDE DEF blk, n, even
    <2>3. /\ blk.d \in Nat
          /\ blk.q = [j \in DOMAIN x |-> [i \in DOMAIN x[j] |-> Code(Sane(x[j][i]))]]
          /\ \A v \in Int : Code(v) \in Int
      BY <2>1, <2>2, IntBlock, SMT
    <2> HIDE DEF Code
    <2>4. SameShape(x, blk.q) /\ \A j \in DOMAIN x : \A i \in DOMAIN x[j] : blk.q[j][i] \in Int
      <3> DEFINE q == blk.q
      <3>1. q = [j \in DOMAIN x |-> [i \in DOMAIN x[j] |-> Code(Sane(x[j][i]))]]
        BY <2>3
      <3> HIDE DEF q
      <3>2. SameShape(x, q) /\ \A j \in DOMAIN x : \A i \in DOMAIN x[j] : q[j][i] = Code(Sane(x[j][i]))
        BY <3>1, Zenon DEF SameShape
      <3> QED
        BY <1>2, <2>3, <3>2, SMT DEF q
    <2>5. blk.d \in Int
      BY <2>3, SMT
    <2>6. Alike(x, DecodeINT(blk))
      BY <2>4, <2>5, DecodedBlock, Zenon
    <2>7. fmt # "MXFP4"
      BY <1>3, SMT
    <2> QED
      BY <1>1, <1>3, <2>6, <2>7, DispatchBack, SMT DEF blk
  <1>4. CASE fmt \in {"Q4_1", "Q5_1"}
    <2> DEFINE n == MinMaxLevels[fmt]
               lo == MinOf(x[1])
               range == MaxOf(x[1]) - lo
               Code(v) == MinMaxCode(n, lo, range, v)
    <2>1. n \in Nat /\ n > 0
      BY <1>4, KindNames, SMT
    <2>2. blk = EncodeMinMax(n, x)
      BY <1>4, Dispatch, SMT
    <2>3. ~Refused(fmt, blk)
      OBVIOUS
    <2> HIDE DEF blk, n
    <2>4. /\ blk.m \in Int /\ blk.d \in Number
          /\ blk.q = [j \in DOMAIN x |-> [i \in DOMAIN x[j] |-> Code(Sane(x[j][i]))]]
          /\ \A v \in Int : Code(v) \in 0 .. n
      BY <2>1, <2>2, MinMaxBlock, MinMaxScales, Zenon
    <2>5. blk.d # NonFinite
      <3>1. fmt \notin DOMAIN IntLevels \cup {"NVFP4"}
        BY <1>4, KindNames, SMT
      <3> QED
        BY <2>3, <3>1, Zenon DEF Refused
    <2>6. blk.d \in Int
      BY <2>4, <2>5, Zenon DEF Number
    <2>7. \A v \in Int : Code(v) \in Int
      BY <2>1, <2>4, SMT
    <2> HIDE DEF Code
    <2>8. SameShape(x, blk.q) /\ \A j \in DOMAIN x : \A i \in DOMAIN x[j] : blk.q[j][i] \in Int
      <3> DEFINE q == blk.q
      <3>1. q = [j \in DOMAIN x |-> [i \in DOMAIN x[j] |-> Code(Sane(x[j][i]))]]
        BY <2>4
      <3> HIDE DEF q
      <3>2. SameShape(x, q) /\ \A j \in DOMAIN x : \A i \in DOMAIN x[j] : q[j][i] = Code(Sane(x[j][i]))
        BY <3>1, Zenon DEF SameShape
      <3> QED
        BY <1>2, <2>4, <2>7, <3>2, SMT DEF q
    <2>9. Alike(x, DecodeMinMax(blk))
      BY <2>4, <2>6, <2>8, DecodedBlock, Zenon
    <2>10. fmt # "MXFP4"
      BY <1>4, SMT
    <2> QED
      BY <1>1, <1>4, <2>9, <2>10, DispatchBack, SMT DEF blk
  <1>5. CASE fmt = "Q5_0"
    <2> DEFINE vmax == SignedAbsMax(x[1])
               Code(v) == Q5Code(vmax, v)
    <2>1. blk = compressFP32ToQ5_0(x)
      BY <1>5, Dispatch, SMT
    <2> HIDE DEF blk
    <2>2. /\ blk.d \in Int
          /\ blk.q = [j \in DOMAIN x |-> [i \in DOMAIN x[j] |-> Code(Sane(x[j][i]))]]
          /\ \A v \in Int : Code(v) \in 0 .. 31
      <3>1. LET b == compressFP32ToQ5_0(x)
                w == SignedAbsMax(x[1])
            IN  /\ w \in Int /\ b.d = Half(w, -16) /\ b.d \in Int /\ b.m = 0
                /\ b.q = [j \in DOMAIN x |-> [i \in DOMAIN x[j] |-> Q5Code(w, Sane(x[j][i]))]]
                /\ \A v \in Int : Q5Code(w, v) \in 0 .. 31
        BY Q5Block, Zenon
      <3> QED
        BY <2>1, <3>1, Zenon
    <2>3. \A v \in Int : Code(v) \in Int
      BY <2>2, SMT
    <2> HIDE DEF Code
    <2>4. SameShape(x, blk.q) /\ \A j \in DOMAIN x : \A i \in DOMAIN x[j] : blk.q[j][i] \in Int
      <3> DEFINE q == blk.q
      <3>1. q = [j \in DOMAIN x |-> [i \in DOMAIN x[j] |-> Code(Sane(x[j][i]))]]
        BY <2>2
      <3> HIDE DEF q
      <3>2. SameShape(x, q) /\ \A j \in DOMAIN x : \A i \in DOMAIN x[j] : q[j][i] = Code(Sane(x[j][i]))
        BY <3>1, Zenon DEF SameShape
      <3> QED
        BY <1>2, <2>2, <2>3, <3>2, SMT DEF q
    <2>5. Alike(x, decompressQ5_0ToFP32(blk))
      BY <2>2, <2>4, DecodedBlock, Zenon
    <2>6. fmt # "MXFP4"
      BY <1>5, SMT
    <2> QED
      BY <1>1, <1>5, <2>5, <2>6, DispatchBack, SMT DEF blk
  <1>6. CASE fmt = "IQ4_NL"
    <2> DEFINE vmax == SignedAbsMax(x[1])
               Code(v) == IQ4Code(vmax, v)
    <2>1. blk = compressFP32ToIQ4_NL(x)
      BY <1>6, Dispatch, SMT
    <2> HIDE DEF blk
    <2>2. /\ blk.d \in Int
          /\ blk.q = [j \in DOMAIN x |-> [i \in DOMAIN x[j] |-> Code(Sane(x[j][i]))]]
          /\ \A v \in Int : Code(v) \in 0 .. 15
      <3>1. LET b == compressFP32ToIQ4_NL(x)
                w == SignedAbsMax(x[1])
            IN  /\ w \in Int /\ b.d = Half(w, -127) /\ b.d \in Int /\ b.m = 0
                /\ b.q = [j \in DOMAIN x |-> [i \in DOMAIN x[j] |-> IQ4Code(w, Sane(x[j][i]))]]
                /\ \A v \in Int : IQ4Code(w, v) \in 0 .. 15
        BY IQ4Block, Zenon
      <3> QED
        BY <2>1, <3>1, Zenon
    <2> HIDE DEF Code
    <2>4. SameShape(x, blk.q) /\ \A j \in DOMAIN x : \A i \in DOMAIN x[j] : blk.q[j][i] \in 0 .. 15
      <3> DEFINE q == blk.q
      <3>1. q = [j \in DOMAIN x |-> [i \in DOMAIN x[j] |-> Code(Sane(x[j][i]))]]
        BY <2>2
      <3> HIDE DEF q
      <3>2. SameShape(x, q) /\ \A j \in DOMAIN x : \A i \in DOMAIN x[j] : q[j][i] = Code(Sane(x[j][i]))
        BY <3>1, Zenon DEF SameShape
      <3> QED
        BY <1>2, <2>2, <3>2, SMT DEF q
    <2>5. \A k \in 0 .. 15 : k \in Int
      BY SMT
    <2>6. Alike(x, decompressIQ4_NL_ToFP32(blk))
      BY <2>2, <2>4, <2>5, DecodedBlock, Zenon
    <2>7. fmt # "MXFP4"
      BY <1>6, SMT
    <2> QED
      BY <1>1, <1>6, <2>6, <2>7, DispatchBack, SMT DEF blk
  <1>7. CASE fmt = "MXFP4"
    <2> DEFINE Code(v) == MXCode(MXScale(x), v)
    <2>1. blk = compressFP32ToMXFP4(x)
      BY <1>7, Dispatch, SMT
    <2> HIDE DEF blk
    <2>2. /\ blk.d \in Nat
          /\ blk.q = [j \in DOMAIN x |-> [i \in DOMAIN x[j] |-> Code(Sane(x[j][i]))]]
          /\ \A v \in Int : Code(v) \in 0 .. 15
      BY <2>1, MXFP4Block, SMT
    <2> HIDE DEF Code
    <2>4. SameShape(x, blk.q) /\ \A j \in DOMAIN x : \A i \in DOMAIN x[j] : blk.q[j][i] \in 0 .. 15
      <3> DEFINE q == blk.q
      <3>1. q = [j \in DOMAIN x |-> [i \in DOMAIN x[j] |-> Code(Sane(x[j][i]))]]
        BY <2>2
      <3> HIDE DEF q
      <3>2. SameShape(x, q) /\ \A j \in DOMAIN x : \A i \in DOMAIN x[j] : q[j][i] = Code(Sane(x[j][i]))
        BY <3>1, Zenon DEF SameShape
      <3> QED
        BY <1>2, <2>2, <3>2, SMT DEF q
    <2>5. \A k \in 0 .. 15 : k \in Int
      BY SMT
    <2>6. blk.d \in Int
      BY <2>2, SMT
    <2>7. Alike(x, Reread("MXFP4", DecodeE2M1(blk.d, blk)))
      BY <2>4, <2>5, <2>6, DecodedBlock, Zenon
    <2> QED
      BY <1>7, <2>7, DispatchBack, SMT DEF blk
  <1> QED
    BY <1>0, <1>3, <1>4, <1>5, <1>6, <1>7, Zenon

(* ... among them those with minimums. *)
LEMMA DispatchRange ==
  ASSUME NEW fmt \in DOMAIN RangeKinds, NEW kernels, NEW h, NEW x
  PROVE  Compressed(fmt, kernels, h, x) = EncodeRange(fmt, x)
  <1>0. fmt \in {"Q5_K", "Q4_K", "Q2_K"}
    BY KindNames
  <1>1. fmt \notin Narrowed /\ fmt # "FP32" /\ fmt \notin DOMAIN GridKinds /\ fmt \notin DOMAIN IntLevels
    BY <1>0, KindNames, SMT DEF Narrowed
  <1>2. Compressed(fmt, kernels, h, x) = EncodeBlock(fmt, kernels, h, x)
    BY <1>1, SMT DEF Compressed
  <1>3. EncodeBlock(fmt, kernels, h, x) = EncodeRange(fmt, x)
    BY <1>0, <1>1, SMT DEF EncodeBlock, compressFP32ToQ5_K, compressFP32ToQ4_K, compressFP32ToQ2_K
  <1> QED
    BY <1>2, <1>3, Zenon

(* A block in the range of its format has finite scales. *)
LEMMA ScalesFinite ==
  ASSUME NEW fmt \in BlockFormats \cup DOMAIN GridKinds, NEW kernels, NEW h, NEW x \in BlockOf(fmt),
         InRange(fmt, x)
  PROVE  ~Refused(fmt, Compressed(fmt, kernels, h, x))
  <1> DEFINE blk == Compressed(fmt, kernels, h, x)
  <1>1. SUFFICES ASSUME fmt \notin DOMAIN IntLevels \cup {"NVFP4"}
                 PROVE  blk.d # NonFinite /\ blk.m # NonFinite
    BY Zenon DEF Refused
  <1>2. x \in Blocks
    BY BlockOfIs, Zenon
  <1>3. SUFFICES blk.d \in Int /\ blk.m \in Int
    BY NumbersAssumption, Zenon
  <1>4. CASE fmt \in DOMAIN MinMaxLevels
    <2> DEFINE n == MinMaxLevels[fmt]
               lo == MinOf(x[1])
               hi == MaxOf(x[1])
    <2>1. n \in Nat /\ n > 0 /\ fmt \in {"Q4_1", "Q5_1"}
      BY <1>4, KindNames, SMT
    <2>2. blk = EncodeMinMax(n, x)
      BY <2>1, Dispatch, SMT
    <2>3. Max(Flat(x)) <= HalfMax
      <3>1. fmt \notin DOMAIN IntLevels /\ fmt \notin {"NVFP4", "MXFP4"}
        BY <2>1, KindNames, SMT
      <3> QED
        BY <3>1, Zenon DEF InRange
    <2>4. x[1] \in Seq(Number) /\ x[1] # <<>> /\ 1 \in DOMAIN x
      BY <1>2, BlockParts, Zenon
    <2>5. /\ lo \in Int /\ hi \in Int /\ (\E i \in DOMAIN x[1] : lo = Sane(x[1][i]))
          /\ \E i \in DOMAIN x[1] : hi = Sane(x[1][i])
      BY <2>4, Measures, Zenon
    <2>6. Max(Flat(x)) \in Nat /\ Abs(lo) <= Max(Flat(x)) /\ Abs(hi) <= Max(Flat(x))
      BY <1>2, <2>4, <2>5, FlatIs, Zenon
    <2> DEFINE V == Max(Flat(x))
    <2>7. V \in Nat /\ Abs(lo) <= V /\ Abs(hi) <= V /\ V <= HalfMax
      BY <2>3, <2>6, Zenon
    <2> HIDE DEF V, lo, hi, n, blk
    <2>8. hi - lo <= FloatMax
      BY <2>5, <2>7, NumbersAssumption, SMT DEF Abs
    <2>9. blk.m \in Int /\ blk.d = Half(hi - lo, n)
      BY <1>2, <2>1, <2>2, <2>8, MinMaxScales, Zenon DEF lo, hi
    <2>10. hi - lo \in Int /\ n \in Int /\ n # 0
      BY <2>1, <2>5, SMT
    <2>11. Half(hi - lo, n) \in Int
      BY <2>10, HalfIs, Zenon
    <2> QED
      BY <2>9, <2>11, Zenon
  <1>5. CASE fmt = "Q5_0" \/ fmt = "IQ4_NL"
    <2>1. 0 \in Int
      BY SMT
    <2> QED
      BY <1>2, <1>5, <2>1, Dispatch, SymmetricScales, SMT
  <1>6. CASE fmt \in DOMAIN SignedKinds
    <2>1. blk = EncodeSigned(fmt, x)
      BY <1>6, Dispatch, SMT
    <2> HIDE DEF blk
    <2> QED
      BY <1>2, <1>6, <2>1, SignedScales, Zenon
  <1>7. CASE fmt \in DOMAIN RangeKinds
    <2>1. Max(Flat(x)) <= HalfMax
      <3>1. fmt \notin DOMAIN IntLevels /\ fmt \notin {"NVFP4", "MXFP4"}
        BY <1>7, KindNames, SMT
      <3> QED
        BY <3>1, Zenon DEF InRange
    <2>2. blk = EncodeRange(fmt, x)
      BY <1>7, DispatchRange, Zenon
    <2> HIDE DEF blk
    <2> QED
      BY <1>2, <1>7, <2>1, <2>2, RangeScales, Zenon
  <1>8. CASE fmt = "MXFP4"
    <2>1. blk = compressFP32ToMXFP4(x)
      BY <1>8, Dispatch, SMT
    <2> HIDE DEF blk
    <2>2. blk.d \in Nat /\ blk.m = 0
      BY <1>2, <2>1, MXFP4Block, Zenon
    <2> QED
      BY <2>2, SMT
  <1>9. CASE fmt \in DOMAIN GridKinds
    <2>1. blk = EncodeGrid(fmt, x)
      BY <1>9, Dispatch, SMTT(60)
    <2>2. x \in GridBlocksOf
      BY <1>9, BlockOfIs, Zenon
    <2> HIDE DEF blk
    <2>3. blk.d \in Int /\ blk.m = 0
      BY <1>9, <2>1, <2>2, GridScales, Zenon
    <2> QED
      BY <2>3, SMT
  <1>10. \/ fmt \in DOMAIN MinMaxLevels \/ fmt = "Q5_0" \/ fmt = "IQ4_NL" \/ fmt \in DOMAIN SignedKinds
         \/ fmt \in DOMAIN RangeKinds \/ fmt = "MXFP4" \/ fmt \in DOMAIN GridKinds
    BY <1>1, Zenon DEF BlockFormats
  <1> QED
    BY <1>4, <1>5, <1>6, <1>7, <1>8, <1>9, <1>10, Zenon

-----------------------------------------------------------------------------
(* The scalar formats, read back. *)

(* Every code of the four formats stands for more than the one before it,  *)
(* with the midpoint strictly between.                                     *)
LEMMA StepGrows ==
  ASSUME NEW fmt \in Narrowed, NEW c \in Nat, c < LargestOf(fmt)
  PROVE  /\ MagnitudeOf(fmt, c) \in Nat /\ MagnitudeOf(fmt, c + 1) \in Nat
         /\ Midpoint(fmt, c) \in Nat
         /\ MagnitudeOf(fmt, c) < Midpoint(fmt, c) /\ Midpoint(fmt, c) < MagnitudeOf(fmt, c + 1)
  <1>1. CASE fmt = "BF16"
    <2>1. \A k \in Nat : MagnitudeOf("BF16", k) = k * 65536
      BY SMT DEF MagnitudeOf, Decode
    <2>2. Midpoint("BF16", c) = c * 65536 + 32768
      BY BF16Midpoint, SMT
    <2> QED
      BY <1>1, <2>1, <2>2, SMT
  <1>2. CASE fmt # "BF16"
    <2>1. fmt \in FloatFormats
      BY <1>2, Zenon DEF Narrowed, FloatFormats
    <2>2. c < Formats[fmt].largest
      BY <2>1, FormatFacts, SMT
    <2> QED
      BY <2>1, <2>2, WidenGrows, MidpointBetween, Zenon
  <1> QED
    BY <1>1, <1>2, Zenon

(* The largest finite code stands for a finite number. *)
LEMMA LargestCode ==
  ASSUME NEW fmt \in Narrowed
  PROVE  /\ LargestOf(fmt) \in Nat /\ LargestOf(fmt) > 1
         /\ MagnitudeOf(fmt, LargestOf(fmt)) \in Nat
         /\ MagnitudeOf(fmt, LargestOf(fmt)) < Inf32
  <1>1. CASE fmt = "BF16"
    BY <1>1, SMT DEF LargestOf, MagnitudeOf, Decode, Inf32
  <1>2. CASE fmt = "FP16"
    <2>1. LargestOf(fmt) = 31743 /\ Pow(23 - Formats[fmt].drop) = 1024 /\ Pow(Formats[fmt].drop) = 8192
      BY <1>2, FP16Facts, SMT DEF LargestOf, Pow
    <2>2. MagnitudeOf(fmt, 31743) = (113 - 1) * 8388608 + 31743 * 8192
      BY <1>2, <2>1, FP16Facts, NormalWiden, SMT DEF FloatFormats
    <2> QED
      BY <2>1, <2>2, SMT DEF Inf32
  <1>3. CASE fmt = "E4M3"
    <2>1. LargestOf(fmt) = 126 /\ Pow(23 - Formats[fmt].drop) = 8 /\ Pow(Formats[fmt].drop) = 1048576
      BY <1>3, E4M3Facts, SMT DEF LargestOf, Pow
    <2>2. MagnitudeOf(fmt, 126) = (121 - 1) * 8388608 + 126 * 1048576
      BY <1>3, <2>1, E4M3Facts, NormalWiden, SMT DEF FloatFormats
    <2> QED
      BY <2>1, <2>2, SMT DEF Inf32
  <1>4. CASE fmt = "E5M2"
    <2>1. LargestOf(fmt) = 123 /\ Pow(23 - Formats[fmt].drop) = 4 /\ Pow(Formats[fmt].drop) = 2097152
      BY <1>4, E5M2Facts, SMT DEF LargestOf, Pow
    <2>2. MagnitudeOf(fmt, 123) = (113 - 1) * 8388608 + 123 * 2097152
      BY <1>4, <2>1, E5M2Facts, NormalWiden, SMT DEF FloatFormats
    <2> QED
      BY <2>1, <2>2, SMT DEF Inf32
  <1> QED
    BY <1>1, <1>2, <1>3, <1>4, Zenon DEF Narrowed

(* A larger code stands for a larger number. *)
LEMMA MagnitudeGrows ==
  ASSUME NEW fmt \in Narrowed, NEW c \in Nat, NEW e \in Nat, c <= e, e <= LargestOf(fmt)
  PROVE  /\ MagnitudeOf(fmt, c) \in Nat /\ MagnitudeOf(fmt, e) \in Nat
         /\ MagnitudeOf(fmt, c) <= MagnitudeOf(fmt, e)
  <1> DEFINE L == LargestOf(fmt)
             Mag(k) == MagnitudeOf(fmt, k)
             Bad == {n \in Nat : c <= n /\ n <= L /\ ~(Mag(c) <= Mag(n))}
  <1>1. \A k \in Nat : k <= L => Mag(k) \in Nat
    <2> TAKE k \in Nat
    <2> HAVE k <= L
    <2>1. CASE k = L
      BY <2>1, LargestCode
    <2>2. CASE k # L
      <3>1. k < L
        BY <2>2, LargestCode, SMT
      <3> QED
        BY <3>1, StepGrows
    <2> QED
      BY <2>1, <2>2
  <1>2. \A k \in Nat : k < L => Mag(k) < Mag(k + 1)
    <2> TAKE k \in Nat
    <2> HAVE k < L
    <2> DEFINE a == Mag(k)
               b == Mag(k + 1)
               m == Midpoint(fmt, k)
    <2>1. a \in Nat /\ b \in Nat /\ m \in Nat /\ a < m /\ m < b
      BY StepGrows
    <2> HIDE DEF a, b, m
    <2> QED
      BY <2>1, SMT DEF a, b
  <1>3. L \in Nat
    BY LargestCode
  <1>4. SUFFICES Mag(c) <= Mag(e)
    BY <1>1, <1>3, SMT
  <1>5. SUFFICES Bad = {}
    BY SMT
  <1>6. SUFFICES ASSUME Bad # {} PROVE FALSE
    OBVIOUS
  <1> HIDE DEF Mag, L
  <1>7. Bad \in SUBSET Nat
    BY Zenon
  <1>8. PICK n \in Bad : \A m \in Bad : n <= m
    <2> HIDE DEF Bad
    <2> QED
      BY <1>6, <1>7, LeastNat, Zenon
  <1>9. n \in Nat /\ c <= n /\ n <= L /\ ~(Mag(c) <= Mag(n))
    BY <1>8, Zenon
  <1>10. Mag(c) \in Nat /\ Mag(n) \in Nat
    BY <1>1, <1>3, <1>9, SMT
  <1>11. n # c
    BY <1>9, <1>10, SMT
  <1>12. n - 1 \in Nat /\ c <= n - 1 /\ n - 1 < L /\ n - 1 <= L
    BY <1>3, <1>9, <1>11, SMT
  <1>13. Mag(n - 1) < Mag(n - 1 + 1) /\ n - 1 + 1 = n
    BY <1>2, <1>9, <1>12, SMT
  <1>14. Mag(c) <= Mag(n - 1)
    <2>1. ~(n <= n - 1)
      BY <1>9, SMT
    <2>2. n - 1 \notin Bad
      BY <1>8, <2>1, Zenon
    <2> QED
      BY <1>12, <2>2, Zenon
  <1>15. Mag(n - 1) \in Nat
    BY <1>1, <1>12, Zenon
  <1> QED
    BY <1>9, <1>10, <1>13, <1>14, <1>15, SMT

(* NaN has one code per format, which reads as the quiet NaN. *)
NaNCode(fmt) == CASE fmt = "BF16" -> 32704 [] fmt = "FP16" -> 32256 [] fmt = "E4M3" -> 127 [] fmt = "E5M2" -> 126
InfCode(fmt) == CASE fmt = "BF16" -> 32640 [] fmt = "FP16" -> 31744 [] fmt = "E4M3" -> 126 [] fmt = "E5M2" -> 124

(* The codes of NaN and of infinity stand for them. *)
LEMMA SpecialMagnitudes ==
  ASSUME NEW fmt \in Narrowed
  PROVE  /\ MagnitudeOf(fmt, NaNCode(fmt)) = Quiet32
         /\ fmt # "E4M3" => MagnitudeOf(fmt, InfCode(fmt)) = Inf32
         /\ fmt = "E4M3" => InfCode(fmt) = LargestOf(fmt)
  <1>1. CASE fmt = "BF16"
    BY <1>1, SMT DEF MagnitudeOf, Decode, Inf32, Quiet32, NaNCode, InfCode
  <1>2. CASE fmt = "FP16"
    BY <1>2, FP16Facts, SMT DEF MagnitudeOf, Decode, Widen, Inf32, Quiet32, NaNCode, InfCode
  <1>3. CASE fmt = "E5M2"
    BY <1>3, E5M2Facts, SMT DEF MagnitudeOf, Decode, Widen, Inf32, Quiet32, NaNCode, InfCode
  <1>4. CASE fmt = "E4M3"
    BY <1>4, E4M3Facts, SMT DEF MagnitudeOf, Decode, Widen, Inf32, Quiet32, NaNCode, InfCode, LargestOf
  <1> QED
    BY <1>1, <1>2, <1>3, <1>4, Zenon DEF Narrowed

(* The codes the conversions give. *)
LEMMA EncodeIs ==
  ASSUME NEW fmt \in Narrowed, NEW v \in Fp32
  PROVE  LET code == Encode(fmt, v)
         IN  /\ code = [sign |-> v.sign, mag |-> code.mag]
             /\ IsNaN32(v) => code.mag = NaNCode(fmt)
             /\ v.abs = Inf32 => code.mag = InfCode(fmt)
             /\ v.abs < Inf32 => code.mag \in 0 .. LargestOf(fmt) /\ (IsNearest(fmt, v.abs, code.mag) \/ Misrounded(fmt, v.abs))
  <1> DEFINE code == Encode(fmt, v)
  <1>1. v.abs \in Nat /\ v.sign \in {0, 1}
    BY Fp32Parts
  <1>2. code = [sign |-> v.sign, mag |-> code.mag] /\ code.sign = v.sign
    BY SMT DEF Encode
  <1>3. Inf32 = 2139095040
    BY SMT DEF Inf32
  <1>4. RightCode(fmt, v, code)
    BY EncodeRight, Zenon
  <1>5. IsNaN32(v) => code.mag = NaNCode(fmt)
    <2> HAVE IsNaN32(v)
    <2>1. CASE fmt = "BF16"
      BY <2>1, SMT DEF Encode, NaNCode
    <2>2. CASE fmt # "BF16"
      <3>1. code.mag = Formats[fmt].nan
        BY <2>2, SMT DEF Encode
      <3>2. fmt \in FloatFormats
        BY <2>2, Zenon DEF Narrowed, FloatFormats
      <3> QED
        BY <3>1, <3>2, FP16Facts, E4M3Facts, E5M2Facts, SMT DEF FloatFormats, NaNCode
    <2> QED
      BY <2>1, <2>2, Zenon
  <1>6. v.abs = Inf32 => code.mag = InfCode(fmt)
    <2> HAVE v.abs = Inf32
    <2>0. ~IsNaN32(v)
      BY <1>3, SMT DEF IsNaN32
    <2>1. CASE fmt = "BF16"
      BY <2>0, <2>1, SMT DEF Encode, InfCode
    <2>2. CASE fmt # "BF16"
      <3>1. code.mag = Formats[fmt].inf
        BY <2>0, <2>2, SMT DEF Encode
      <3>2. fmt \in FloatFormats
        BY <2>2, Zenon DEF Narrowed, FloatFormats
      <3> QED
        BY <3>1, <3>2, FP16Facts, E4M3Facts, E5M2Facts, SMT DEF FloatFormats, InfCode
    <2> QED
      BY <2>1, <2>2, Zenon
  <1>7. v.abs < Inf32 => IsNearest(fmt, v.abs, code.mag) \/ Misrounded(fmt, v.abs)
    <2> HAVE v.abs < Inf32
    <2>1. ~IsNaN32(v) /\ v.abs # Inf32
      BY <1>1, <1>3, SMT DEF IsNaN32
    <2> QED
      BY <1>4, <2>1, Zenon DEF RightCode
  <1>8. v.abs < Inf32 /\ Misrounded(fmt, v.abs) => code.mag = 1
    <2> HAVE v.abs < Inf32 /\ Misrounded(fmt, v.abs)
    <2>1. /\ fmt = "FP16" /\ Formats["FP16"].tinyFrom <= v.abs /\ v.abs < Formats["FP16"].zeroBelow
      BY SMT DEF Misrounded
    <2>2. ~IsNaN32(v) /\ v.abs # Inf32
      BY <1>1, <1>3, SMT DEF IsNaN32
    <2>3. code.mag = Narrow(Formats["FP16"], v.abs)
      BY <2>1, <2>2, SMT DEF Encode
    <2> QED
      BY <1>1, <2>1, <2>3, FP16Facts, SMT DEF Narrow
  <1>9. LargestOf(fmt) \in Nat /\ LargestOf(fmt) > 1
    BY LargestCode
  <1>10. v.abs < Inf32 => code.mag \in 0 .. LargestOf(fmt)
    <2>1. 1 \in 0 .. LargestOf(fmt)
      BY <1>9, SMT
    <2>2. IsNearest(fmt, v.abs, code.mag) => code.mag \in 0 .. LargestOf(fmt)
      BY Zenon DEF IsNearest
    <2> QED
      BY <1>7, <1>8, <2>1, <2>2, Zenon
  <1> QED
    BY <1>2, <1>5, <1>6, <1>7, <1>10, Zenon

(* The lanes of the AVX-512 kernel give the same codes, a NaN without its sign. *)
LEMMA LaneIs ==
  ASSUME NEW v \in Fp32
  PROVE  /\ IsNaN32(v) => BF16Lane(v) = [sign |-> 0, mag |-> 32704]
         /\ ~IsNaN32(v) => BF16Lane(v) = Encode("BF16", v)
  <1>1. IsNaN32(v) => BF16Lane(v) = [sign |-> 0, mag |-> 32704]
    BY SMT DEF BF16Lane
  <1>2. ~IsNaN32(v) => BF16Lane(v) = Encode("BF16", v)
    BY LaneAgrees, Zenon
  <1> QED
    BY <1>1, <1>2, SMT

(* A code of the encoders, as a sign and the magnitude of a finite number, *)
(* of infinity or of NaN.                                                  *)
CodeOf(fmt) ==
  {c \in [sign : {0, 1}, mag : Nat] : c.mag \in 0 .. LargestOf(fmt) \/ c.mag = InfCode(fmt) \/ c.mag = NaNCode(fmt)}

(* Every FP32 number has a code of the format. *)
LEMMA EncodeTyped ==
  ASSUME NEW fmt \in Narrowed, NEW v \in Fp32
  PROVE  Encode(fmt, v) \in CodeOf(fmt) /\ BF16Lane(v) \in CodeOf("BF16")
  <1>1. ASSUME NEW f \in Narrowed
        PROVE  Encode(f, v) \in CodeOf(f)
    <2> DEFINE code == Encode(f, v)
               m == code.mag
    <2>1. v.abs \in Nat /\ v.sign \in {0, 1}
      BY Fp32Parts
    <2>2. code = [sign |-> v.sign, mag |-> m]
      BY EncodeIs, Zenon
    <2>3. m \in 0 .. LargestOf(f) \/ m = InfCode(f) \/ m = NaNCode(f)
      <3>1. IsNaN32(v) \/ v.abs = Inf32 \/ v.abs < Inf32
        BY <2>1, SMT DEF IsNaN32, Inf32
      <3> QED
        BY <3>1, EncodeIs, Zenon
    <2>4. InfCode(f) \in Nat /\ NaNCode(f) \in Nat
      BY SMT DEF InfCode, NaNCode, Narrowed
    <2> HIDE DEF code, m
    <2>5. m \in Nat
      BY <2>3, <2>4, LargestCode, SMT
    <2>6. code.sign = v.sign /\ code.mag = m /\ code \in [sign : {0, 1}, mag : Nat]
      BY <2>1, <2>2, <2>5, SMT
    <2> QED
      BY <2>3, <2>6, Zenon DEF CodeOf, code
  <1>2. IsNaN32(v) => BF16Lane(v) \in CodeOf("BF16")
    <2>1. NaNCode("BF16") = 32704
      BY SMT DEF NaNCode
    <2>2. IsNaN32(v) => BF16Lane(v) = [sign |-> 0, mag |-> 32704]
      BY LaneIs
    <2> QED
      BY <2>1, <2>2, SMT DEF CodeOf
  <1>3. "BF16" \in Narrowed
    BY Zenon DEF Narrowed
  <1> QED
    BY <1>1, <1>2, <1>3, LaneAgrees, Zenon

(* Every code of a format stands for an FP32 number. *)
LEMMA DecodeTyped ==
  ASSUME NEW fmt \in Narrowed, NEW c \in CodeOf(fmt)
  PROVE  Decode(fmt, c) \in Fp32
  <1>1. c.sign \in {0, 1} /\ c.mag \in Nat
        /\ (c.mag \in 0 .. LargestOf(fmt) \/ c.mag = InfCode(fmt) \/ c.mag = NaNCode(fmt))
    BY SMT DEF CodeOf
  <1> DEFINE a == MagnitudeOf(fmt, c.mag)
  <1>2. Inf32 = 2139095040 /\ Quiet32 = 2143289344
    BY SMT DEF Inf32, Quiet32
  <1>3. c.mag \in 0 .. LargestOf(fmt) => a \in Nat /\ a < Inf32
    <2> HAVE c.mag \in 0 .. LargestOf(fmt)
    <2>1. /\ MagnitudeOf(fmt, LargestOf(fmt)) \in Nat /\ MagnitudeOf(fmt, LargestOf(fmt)) < Inf32
          /\ LargestOf(fmt) \in Nat
      BY LargestCode
    <2>2. a \in Nat /\ a <= MagnitudeOf(fmt, LargestOf(fmt))
      <3>1. c.mag <= LargestOf(fmt) /\ LargestOf(fmt) <= LargestOf(fmt)
        BY <2>1, SMT
      <3> QED
        BY <1>1, <2>1, <3>1, MagnitudeGrows
    <2> HIDE DEF a
    <2> QED
      BY <1>2, <2>1, <2>2, SMT
  <1>4. c.mag = NaNCode(fmt) => a = Quiet32
    BY SpecialMagnitudes
  <1>5. c.mag = InfCode(fmt) => a = Inf32 \/ (a \in Nat /\ a < Inf32)
    <2>1. CASE fmt = "E4M3"
      <3>1. InfCode(fmt) = LargestOf(fmt) /\ LargestOf(fmt) \in 0 .. LargestOf(fmt)
        BY <2>1, SpecialMagnitudes, LargestCode, SMT
      <3> QED
        BY <1>3, <3>1
    <2>2. CASE fmt # "E4M3"
      BY <2>2, SpecialMagnitudes
    <2> QED
      BY <2>1, <2>2, Zenon
  <1>7. Decode(fmt, c) = [sign |-> c.sign, abs |-> a]
    BY Zenon DEF Decode, MagnitudeOf
  <1> HIDE DEF a
  <1>6. a \in 0 .. Inf32 + 2^23 - 1
    BY <1>1, <1>2, <1>3, <1>4, <1>5, SMT
  <1> QED
    BY <1>1, <1>6, <1>7, SMT DEF Fp32

(* A number that is a code's own value is given that code again. *)
LEMMA CodeKept ==
  ASSUME NEW fmt \in Narrowed, NEW c \in CodeOf(fmt)
  PROVE  Encode(fmt, Decode(fmt, c)) = c
  <1> DEFINE v == Decode(fmt, c)
             e == Encode(fmt, v)
             L == LargestOf(fmt)
  <1>1. c.sign \in {0, 1} /\ c.mag \in Nat /\ c = [sign |-> c.sign, mag |-> c.mag]
        /\ (c.mag \in 0 .. L \/ c.mag = InfCode(fmt) \/ c.mag = NaNCode(fmt))
    BY SMT DEF CodeOf
  <1>2. v \in Fp32 /\ v.abs = MagnitudeOf(fmt, c.mag) /\ v.sign = c.sign
    BY DecodeTyped, DecodeIs, Zenon
  <1> HIDE DEF v
  <1>3. e = [sign |-> c.sign, mag |-> e.mag]
    BY <1>2, EncodeIs, Zenon
  <1>4. Inf32 = 2139095040 /\ Quiet32 = 2143289344
    BY SMT DEF Inf32, Quiet32
  <1>5. SUFFICES e.mag = c.mag
    BY <1>1, <1>3, Zenon DEF v
  <1>6. CASE c.mag = NaNCode(fmt)
    <2>1. v.abs = Quiet32
      BY <1>2, <1>6, SpecialMagnitudes
    <2>2. IsNaN32(v)
      BY <1>4, <2>1, SMT DEF IsNaN32
    <2> QED
      BY <1>2, <1>6, <2>2, EncodeIs, Zenon
  <1>7. CASE c.mag = InfCode(fmt) /\ fmt # "E4M3"
    <2>1. v.abs = Inf32
      BY <1>2, <1>7, SpecialMagnitudes
    <2> QED
      BY <1>2, <1>7, <2>1, EncodeIs, Zenon
  <1>8. CASE c.mag \in 0 .. L
    <2>1. /\ MagnitudeOf(fmt, L) \in Nat /\ MagnitudeOf(fmt, L) < Inf32 /\ L \in Nat
      BY LargestCode
    <2> DEFINE a == v.abs
               k == c.mag
               m == e.mag
    <2>2. a \in Nat /\ a < Inf32 /\ a = MagnitudeOf(fmt, k) /\ k \in Nat /\ k <= L
      <3>1. c.mag <= L /\ L <= L
        BY <1>8, <2>1, SMT
      <3>2. a \in Nat /\ a <= MagnitudeOf(fmt, L)
        BY <1>1, <1>2, <2>1, <3>1, MagnitudeGrows
      <3> QED
        BY <1>1, <1>2, <1>4, <2>1, <3>1, <3>2, SMT
    <2>3. m \in 0 .. L /\ (IsNearest(fmt, a, m) \/ Misrounded(fmt, a))
      BY <1>2, <2>2, EncodeIs, Zenon
    <2> HIDE DEF a, k, m
    <2>4. ~Misrounded(fmt, a)
      <3>1. SUFFICES ASSUME fmt = "FP16", 847249408 <= a, a < 855638016 PROVE FALSE
        BY FP16Facts, SMT DEF Misrounded
      <3>2. MagnitudeOf("FP16", 0) = 0 /\ MagnitudeOf("FP16", 1) = 864026624
        <4>1. Formats["FP16"].drop = 13 /\ Smallest(Formats["FP16"]) = 103
          BY FP16Facts, SMT DEF Smallest
        <4>2. Pow(0) = 1 /\ Pow(0 + 1) = 2 /\ Pow(23 - 0) = 8388608 /\ 0 \in 0 .. 22 - Formats["FP16"].drop
          BY <4>1, SMT DEF Pow
        <4>3. "FP16" \in FloatFormats
          BY Zenon DEF FloatFormats
        <4>4. MagnitudeOf("FP16", 1) = (103 + 0 - 1) * 8388608 + 1 * 8388608
          BY <4>1, <4>2, <4>3, BinadeWiden, SMT
        <4>5. MagnitudeOf("FP16", 0) = 0
          BY SMT DEF MagnitudeOf, Decode, Widen
        <4> QED
          BY <4>4, <4>5, SMT
      <3>3. k # 0
        BY <2>2, <3>1, <3>2, SMT
      <3>4. 1 <= k /\ 1 \in Nat
        BY <2>2, <3>3, SMT
      <3>5. MagnitudeOf(fmt, 1) <= MagnitudeOf(fmt, k)
        BY <2>2, <3>4, MagnitudeGrows
      <3> QED
        BY <2>2, <3>1, <3>2, <3>5, SMT
    <2>5. IsNearest(fmt, a, m)
      BY <2>3, <2>4, Zenon
    <2>6. ~(m > k)
      <3>1. SUFFICES ASSUME m > k PROVE FALSE
        BY Zenon
      <3>2. m - 1 \in Nat /\ k <= m - 1 /\ m - 1 < L /\ m > 0 /\ m - 1 <= L
        BY <2>1, <2>2, <2>3, <3>1, SMT
      <3>3. MagnitudeOf(fmt, k) <= MagnitudeOf(fmt, m - 1) /\ MagnitudeOf(fmt, m - 1) \in Nat
        BY <2>2, <3>2, MagnitudeGrows
      <3>4. MagnitudeOf(fmt, m - 1) < Midpoint(fmt, m - 1) /\ Midpoint(fmt, m - 1) \in Nat
        BY <3>2, StepGrows
      <3>5. a > Midpoint(fmt, m - 1) \/ a = Midpoint(fmt, m - 1)
        BY <2>5, <3>2, Zenon DEF IsNearest
      <3> QED
        BY <2>2, <3>3, <3>4, <3>5, SMT
    <2>7. ~(m < k)
      <3>1. SUFFICES ASSUME m < k PROVE FALSE
        BY Zenon
      <3>2. m \in Nat /\ m + 1 \in Nat /\ m + 1 <= k /\ m < L
        BY <2>1, <2>2, <2>3, <3>1, SMT
      <3>3. MagnitudeOf(fmt, m + 1) <= MagnitudeOf(fmt, k) /\ MagnitudeOf(fmt, m + 1) \in Nat
        BY <2>2, <3>2, MagnitudeGrows
      <3>4. Midpoint(fmt, m) < MagnitudeOf(fmt, m + 1) /\ Midpoint(fmt, m) \in Nat
        BY <3>2, StepGrows
      <3>5. a < Midpoint(fmt, m) \/ a = Midpoint(fmt, m)
        BY <2>5, <3>2, Zenon DEF IsNearest
      <3> QED
        BY <2>2, <3>3, <3>4, <3>5, SMT
    <2> QED
      BY <2>2, <2>3, <2>6, <2>7, SMT DEF m, k
  <1>9. CASE c.mag = InfCode(fmt) /\ fmt = "E4M3"
    <2>1. c.mag \in 0 .. L
      BY <1>9, SpecialMagnitudes, LargestCode, SMT
    <2> QED
      BY <1>8, <2>1, Zenon
  <1> QED
    BY <1>1, <1>6, <1>7, <1>8, <1>9, Zenon

-----------------------------------------------------------------------------
(* How far a block, read back, lies from its source. *)

(* The reference, format by format: INT8 and INT4, *)
LEMMA ErrorINT ==
  ASSUME NEW fmt \in DOMAIN IntLevels, NEW h, NEW x, NEW j
  PROVE  LET A == AbsMax(x[j])
             e == ErrorScale(fmt)
         IN  /\ e = 2 * IntLevels[fmt] /\ Den(fmt) = 1
             /\ ErrorBound(fmt, h, x, j) = IF 2 * A < e THEN e * A ELSE A
  BY KindNames, SMT DEF ErrorBound, ErrorScale, Den

(* ... Q4_1 and Q5_1, *)
LEMMA ErrorMinMax ==
  ASSUME NEW fmt \in DOMAIN MinMaxLevels, NEW h, NEW x, NEW j
  PROVE  LET n == MinMaxLevels[fmt]
             lo == MinOf(x[j])
             range == MaxOf(x[j]) - lo
             e == ErrorScale(fmt)
         IN  /\ e = 2 * n /\ Den(fmt) = 1
             /\ ErrorBound(fmt, h, x, j) = range + e * (HalfCost(range, n) + HalfCost(lo, 1))
  BY KindNames, SMT DEF ErrorBound, ErrorScale, Den

(* The minimum of every sub-block, taken to be at most zero, and its range. *)
RangeLows(x) == [k \in DOMAIN x |-> Min({MinOf(x[k]), 0})]
RangeSpans(x) == [k \in DOMAIN x |-> MaxOf(x[k]) - RangeLows(x)[k]]

(* ... the formats with minimums, *)
LEMMA ErrorRange ==
  ASSUME NEW fmt \in DOMAIN RangeKinds, NEW h, NEW x, NEW j
  PROVE  LET los == RangeLows(x)
             ranges == RangeSpans(x)
             R == MaxOf(ranges)
             M == -MinOf(los)
             n == RangeKinds[fmt].levels
             s == RangeKinds[fmt].scales
             e == ErrorScale(fmt)
         IN  /\ e = 2 * n * s /\ Den(fmt) = 1
             /\ ErrorBound(fmt, h, x, j) = s * ranges[j] + R + n * R + n * M + e * (HalfCost(R, n * s) + HalfCost(M, s))
  BY KindNames, SMT DEF ErrorBound, RangeLows, RangeSpans, ErrorScale, Den

(* ... Q5_0, *)
LEMMA ErrorQ5 ==
  ASSUME NEW h, NEW x, NEW j
  PROVE  LET A == AbsMax(x[j])
         IN  /\ ErrorScale("Q5_0") = 16 /\ Den("Q5_0") = 1
             /\ ErrorBound("Q5_0", h, x, j) = A + 16 * HalfCost(A, 16)
  BY KindNames, SMT DEF ErrorBound, ErrorScale, Den

(* ... NVFP4, *)
LEMMA ErrorNV ==
  ASSUME NEW h, NEW x, NEW j
  PROVE  LET A == AbsMax(x[j])
         IN  /\ ErrorScale("NVFP4") = 1 /\ Den("NVFP4") = 42
             /\ ErrorBound("NVFP4", h, x, j) = 7 * A + 7 * Max({h, (7 * A) \div 16 + 1})
  BY KindNames, SMT DEF ErrorBound, ErrorScale, Den

(* ... MXFP4, *)
LEMMA ErrorMX ==
  ASSUME NEW h, NEW x, NEW j
  PROVE  LET A == AbsMax(x[j])
         IN  /\ ErrorScale("MXFP4") = 1 /\ Den("MXFP4") = 2
             /\ ErrorBound("MXFP4", h, x, j) = Max({A, 1})
  BY KindNames, SMT DEF ErrorBound, ErrorScale, Den

(* ... IQ4_NL, where k is 127, *)
LEMMA ErrorIQ4 ==
  ASSUME NEW h, NEW x, NEW j, NEW k \in Int, k = 127
  PROVE  LET A == AbsMax(x[j])
         IN  /\ ErrorScale("IQ4_NL") = k /\ Den("IQ4_NL") = 1
             /\ ErrorBound("IQ4_NL", h, x, j) = 14 * A + k * HalfCost(A, k)
  BY KindNames, SMT DEF ErrorBound, ErrorScale, Den

(* ... and those with a scale for every sub-block. *)
LEMMA ErrorSigned ==
  ASSUME NEW fmt \in DOMAIN SignedKinds, NEW h, NEW x, NEW j
  PROVE  LET V == Max(Flat(x))
             A == AbsMax(x[j])
             L == SignedKinds[fmt].levels
             S == SignedKinds[fmt].scales
             e == ErrorScale(fmt)
             bound == ErrorBound(fmt, h, x, j)
         IN  /\ e = L * S /\ Den(fmt) = 1
             /\ fmt # "IQ4_XS" => bound = S * A + (L + 1) * V + e * HalfCost(V, e)
             /\ fmt = "IQ4_XS" => bound = 14 * (S * A + V) + L * V + e * HalfCost(V, e)
  BY KindNames, SMT DEF ErrorBound, ErrorScale, Den, SignedKinds

(* A block is near enough if each of its numbers is.                       *)
LEMMA NearLanes ==
  ASSUME NEW fmt, NEW h, NEW x, NEW y, NEW e \in Nat, e = ErrorScale(fmt), NEW o, o = Den(fmt),
         \A j \in DOMAIN x : ErrorBound(fmt, h, x, j) \in Int,
         \A j \in DOMAIN x : \A i \in DOMAIN x[j] :
           LET w == y[j][i] - o * Sane(x[j][i])
           IN  w \in Int /\ Within(e * w, ErrorBound(fmt, h, x, j))
  PROVE  BlockNear(fmt, h, x, y)
  <1> SUFFICES ASSUME NEW j \in DOMAIN x, NEW i \in DOMAIN x[j]
               PROVE  e * Abs(y[j][i] - o * Sane(x[j][i])) <= ErrorBound(fmt, h, x, j)
    BY Zenon DEF BlockNear
  <1> DEFINE w == y[j][i] - o * Sane(x[j][i])
             B == ErrorBound(fmt, h, x, j)
  <1>1. w \in Int /\ Within(e * w, B) /\ B \in Int
    BY Zenon
  <1> HIDE DEF w, B
  <1>2. e * Abs(w) <= B
    BY <1>1, AbsWithin, Zenon
  <1> QED
    BY <1>2, Zenon DEF w, B

(* INT8 and INT4.                                                          *)
LEMMA IntBlockNear ==
  ASSUME NEW fmt \in DOMAIN IntLevels, NEW even, NEW h, NEW x \in [1 .. 1 -> SubBlocks], x \in Blocks,
         InRange(fmt, x), Whole(fmt, h, x)
  PROVE  BlockNear(fmt, h, x, DecodeINT(EncodeINT(IntLevels[fmt], even, x)))
  <1> DEFINE n == IntLevels[fmt]
             b == EncodeINT(n, even, x)
             y == DecodeINT(b)
             A == AbsMax(x[1])
             a == ClampAbsMax(A, n)
             s == IntScale(n, x)
             F == FloatMax \div n
             V == Max(Flat(x))
             e == ErrorScale(fmt)
             E == ErrorBound(fmt, h, x, 1)
  <1>0. n \in Nat /\ n > 0
    BY KindNames, SMT
  <1>1. A < n \/ A % n = 0
    BY Zenon DEF Whole
  <1>2. V <= F
    BY Zenon DEF InRange
  <1>3. x[1] \in Seq(Number) /\ x[1] # <<>> /\ DOMAIN x = {1}
    <2>1. 1 .. 1 = {1}
      BY SMT
    <2> QED
      BY <2>1, BlockParts, Zenon
  <1>4. /\ A \in Nat /\ \E i \in DOMAIN x[1] : A = Abs(Sane(x[1][i]))
        /\ \A i \in DOMAIN x[1] : Sane(x[1][i]) \in Int /\ Abs(Sane(x[1][i])) \in Nat /\ Abs(Sane(x[1][i])) <= A
    BY <1>3, Measures, Zenon
  <1>5. A <= V /\ V \in Nat
    <2>1. 1 \in DOMAIN x
      BY <1>3, Zenon
    <2> QED
      BY <1>4, <2>1, FlatIs, Zenon
  <1>6. /\ b.d = s /\ s \in Nat
        /\ b.q = [j \in DOMAIN x |-> [i \in DOMAIN x[j] |-> IntCode(n, even, s, Sane(x[j][i]))]]
        /\ \A v \in Int : IntCode(n, even, s, v) \in Int
    <2> HIDE DEF n
    <2>1. LET c == EncodeINT(n, even, x)
              t == IntScale(n, x)
              g == ClampAbsMax(AbsMax(x[1]), n)
          IN  /\ c.d = t /\ t \in Nat /\ g \in Nat /\ g <= AbsMax(x[1]) /\ g <= FloatMax \div n
              /\ n * t <= g
              /\ c.q = [j \in DOMAIN x |-> [i \in DOMAIN x[j] |-> IntCode(n, even, t, Sane(x[j][i]))]]
              /\ \A v \in Int : IntCode(n, even, t, v) \in -n .. n /\ IntCode(n, even, t, v) \in Int
      BY <1>0, IntBlock, Zenon
    <2> QED
      BY <2>1, Zenon
  <1>7. a = A /\ s = IF A < n THEN 0 ELSE A \div n
    <2>1. F \in Int
      <3> HIDE DEF n
      <3> QED
        BY <1>0, NumbersAssumption, SMT
    <2>2. a = Min({A, F})
      BY Zenon DEF ClampAbsMax
    <2>3. s = IF a < n THEN 0 ELSE a \div n
      BY Zenon DEF IntScale
    <2> HIDE DEF a, A, F, V, s, n
    <2>4. Min({A, F}) = IF A <= F THEN A ELSE F
      BY <1>4, <2>1, OfTwo, SMT
    <2>5. A <= F
      BY <1>2, <1>4, <1>5, <2>1, SMT
    <2> QED
      BY <2>2, <2>3, <2>4, <2>5, Zenon
  <1>8. /\ \A v : Sane(b.d) = s
        /\ y = [j \in DOMAIN b.q |-> [i \in DOMAIN b.q[j] |-> b.q[j][i] * s]]
    <2>1. Sane(s) = s
      <3>1. s \in Int
        BY <1>6, SMT
      <3> QED
        BY <3>1, NumbersAssumption, Zenon DEF Sane
    <2> QED
      BY <1>6, <2>1, ZenonT(60) DEF DecodeINT
  <1>9. e = 2 * n /\ Den(fmt) = 1 /\ E = IF 2 * A < e THEN e * A ELSE A
    BY ErrorINT, SMT
  <1> HIDE DEF n, A, a, s, e, E, F, V, b
  <1>10. \A i \in DOMAIN x[1] : y[1][i] = IntCode(n, even, s, Sane(x[1][i])) * s
    <2> DEFINE q == b.q
    <2> HIDE DEF y
    <2>1. q = [j \in DOMAIN x |-> [i \in DOMAIN x[j] |-> IntCode(n, even, s, Sane(x[j][i]))]]
      BY <1>6
    <2>2. y = [j \in DOMAIN q |-> [i \in DOMAIN q[j] |-> q[j][i] * s]]
      BY <1>8
    <2> HIDE DEF q
    <2>3. 1 \in DOMAIN x
      BY <1>3, Zenon
    <2> QED
      BY <2>1, <2>2, <2>3, Zenon
  <1> HIDE DEF y
  <1>11. e \in Nat /\ E \in Int
    <2>1. e \in Nat /\ e * A \in Int
      BY <1>0, <1>4, <1>9, SMT
    <2> QED
      BY <1>4, <1>9, <2>1, SMT
  <1>12. ASSUME NEW i \in DOMAIN x[1]
         PROVE  LET w == y[1][i] - Den(fmt) * Sane(x[1][i])
                IN  w \in Int /\ Within(e * w, E)
    <2> DEFINE v == Sane(x[1][i])
               c == IntCode(n, even, s, v)
               w == y[1][i] - Den(fmt) * v
    <2>1. v \in Int /\ Abs(v) <= A /\ c \in Int /\ y[1][i] = c * s
      BY <1>4, <1>6, <1>10, Zenon
    <2> HIDE DEF v
    <2>2. CASE A < n
      <3>1. s = 0 /\ E = e * A
        BY <1>0, <1>4, <1>7, <1>9, <2>2, SMT
      <3> HIDE DEF c
      <3>2. w = -v
        BY <1>9, <2>1, <3>1, SMT
      <3>3. w \in Int /\ Within(w, A)
        BY <1>4, <2>1, <3>2, SMT DEF Within, Abs
      <3> HIDE DEF w
      <3>4. Within(e, e)
        BY <1>11, SMT DEF Within
      <3>5. e \in Int /\ A \in Int
        BY <1>4, <1>11, SMT
      <3>6. Within(e * w, e * A)
        BY <1>11, <3>3, <3>4, <3>5, WithinProduct, Zenon
      <3>7. w \in Int /\ Within(e * w, E)
        BY <3>1, <3>3, <3>6, Zenon
      <3> QED
        BY <3>7, Zenon DEF w, v
    <2>3. CASE ~(A < n)
      <3>1. s = A \div n /\ A % n = 0 /\ E = A
        BY <1>0, <1>1, <1>4, <1>7, <1>9, <2>3, SMT
      <3>2. A = n * s /\ s > 0
        <4>1. s \in Nat /\ A = n * (A \div n)
          BY <1>0, <1>4, <1>6, <3>1, Z3
        <4>2. A = n * s
          BY <3>1, <4>1, Zenon
        <4> QED
          BY <1>0, <1>4, <2>3, <4>1, <4>2, Z3
      <3>3. Within((2 * n) * (c * s - v), A)
        BY <1>0, <1>4, <1>6, <2>1, <3>2, IntNear, Zenon
      <3> HIDE DEF c
      <3>4. w = c * s - v /\ w \in Int
        BY <1>6, <1>9, <2>1, SMT
      <3> HIDE DEF w
      <3>5. w \in Int /\ Within(e * w, E)
        BY <1>9, <3>1, <3>3, <3>4, Zenon
      <3> QED
        BY <3>5, Zenon DEF w, v
    <2> QED
      BY <2>2, <2>3, Zenon
  <1> QED
    <2>1. \A j \in DOMAIN x : j = 1
      BY <1>3, Zenon
    <2>2. \A j \in DOMAIN x : ErrorBound(fmt, h, x, j) \in Int
      BY <1>11, <2>1, Zenon DEF E
    <2>3. \A j \in DOMAIN x : \A i \in DOMAIN x[j] :
            LET w == y[j][i] - Den(fmt) * Sane(x[j][i])
            IN  w \in Int /\ Within(e * w, ErrorBound(fmt, h, x, j))
      BY <1>12, <2>1, Zenon DEF E
    <2>4. BlockNear(fmt, h, x, y)
      BY <1>11, <2>2, <2>3, NearLanes, Zenon DEF e
    <2> QED
      BY <2>4, Zenon DEF y, b, n

(* The formats whose scales are FP16 numbers are meant for that range.     *)
LEMMA HalfRange ==
  ASSUME NEW fmt, fmt \notin DOMAIN IntLevels, fmt \notin {"NVFP4", "MXFP4"}, NEW x, InRange(fmt, x)
  PROVE  Max(Flat(x)) <= HalfMax
  BY Zenon DEF InRange

(* A sub-block is as large as one of its numbers.                          *)
LEMMA SubBlockIs ==
  ASSUME NEW x \in Blocks, NEW j \in DOMAIN x
  PROVE  /\ AbsMax(x[j]) \in Nat /\ AbsMax(x[j]) <= Max(Flat(x)) /\ Max(Flat(x)) \in Nat
         /\ MinOf(x[j]) \in Int /\ Abs(MinOf(x[j])) <= Max(Flat(x))
         /\ MaxOf(x[j]) \in Int /\ Abs(MaxOf(x[j])) <= Max(Flat(x))
         /\ MinOf(x[j]) <= MaxOf(x[j])
         /\ SignedAbsMax(x[j]) \in Int /\ Abs(SignedAbsMax(x[j])) = AbsMax(x[j])
         /\ \A i \in DOMAIN x[j] :
              /\ Sane(x[j][i]) \in Int /\ Abs(Sane(x[j][i])) \in Nat /\ Abs(Sane(x[j][i])) <= AbsMax(x[j])
              /\ Abs(Sane(x[j][i])) <= Max(Flat(x))
              /\ MinOf(x[j]) <= Sane(x[j][i]) /\ Sane(x[j][i]) <= MaxOf(x[j])
  <1>1. x[j] \in Seq(Number) /\ x[j] # <<>>
    BY BlockParts, Zenon
  <1>2. /\ AbsMax(x[j]) \in Nat /\ (\E i \in DOMAIN x[j] : AbsMax(x[j]) = Abs(Sane(x[j][i])))
        /\ MaxOf(x[j]) \in Int /\ (\E i \in DOMAIN x[j] : MaxOf(x[j]) = Sane(x[j][i]))
        /\ MinOf(x[j]) \in Int /\ (\E i \in DOMAIN x[j] : MinOf(x[j]) = Sane(x[j][i]))
        /\ \A i \in DOMAIN x[j] : /\ Sane(x[j][i]) \in Int /\ Abs(Sane(x[j][i])) \in Nat
                                  /\ Abs(Sane(x[j][i])) <= AbsMax(x[j])
                                  /\ MinOf(x[j]) <= Sane(x[j][i]) /\ Sane(x[j][i]) <= MaxOf(x[j])
    BY <1>1, Measures, Zenon
  <1>3. /\ Max(Flat(x)) \in Nat
        /\ \A i \in DOMAIN x[j] : Abs(Sane(x[j][i])) <= Max(Flat(x))
    BY FlatIs, Zenon
  <1>4. SignedAbsMax(x[j]) \in Int /\ Abs(SignedAbsMax(x[j])) = AbsMax(x[j])
    BY <1>1, SignedAbsMaxIs, Zenon
  <1>5. MinOf(x[j]) <= MaxOf(x[j])
    <2> DEFINE lo == MinOf(x[j])
               hi == MaxOf(x[j])
    <2>1. PICK i \in DOMAIN x[j] : lo = Sane(x[j][i])
      BY <1>2, Zenon
    <2> QED
      BY <1>2, <2>1, Zenon
  <1> QED
    BY <1>2, <1>3, <1>4, <1>5, Zenon

(* The one sub-block of a block that has no others.                        *)
LEMMA OneSubBlock ==
  ASSUME NEW x \in [1 .. 1 -> SubBlocks]
  PROVE  1 \in DOMAIN x /\ \A j \in DOMAIN x : j = 1
  BY SMT

(* Q4_1 and Q5_1.                                                          *)
LEMMA MinMaxBlockNear ==
  ASSUME NEW fmt \in DOMAIN MinMaxLevels, NEW h, NEW x \in [1 .. 1 -> SubBlocks], x \in Blocks, InRange(fmt, x)
  PROVE  BlockNear(fmt, h, x, DecodeMinMax(EncodeMinMax(MinMaxLevels[fmt], x)))
  <1> DEFINE n == MinMaxLevels[fmt]
             b == EncodeMinMax(n, x)
             y == DecodeMinMax(b)
             V == Max(Flat(x))
             lo == MinOf(x[1])
             hi == MaxOf(x[1])
             range == hi - lo
             d == Half(range, n)
             m == Half(lo, 1)
             C == HalfCost(range, n)
             D == HalfCost(lo, 1)
             e == ErrorScale(fmt)
             E == ErrorBound(fmt, h, x, 1)
  <1>0. n \in Nat /\ n >= 2
    BY KindNames, SMT
  <1>1. V <= HalfMax
    <2>1. fmt \notin DOMAIN IntLevels /\ fmt \notin {"NVFP4", "MXFP4"}
      BY KindNames, SMT
    <2> QED
      BY <2>1, HalfRange, Zenon
  <1>2. 1 \in DOMAIN x /\ \A j \in DOMAIN x : j = 1
    BY OneSubBlock, Zenon
  <1>3. /\ V \in Nat /\ lo \in Int /\ Abs(lo) <= V /\ hi \in Int /\ Abs(hi) <= V /\ lo <= hi
        /\ \A i \in DOMAIN x[1] : Sane(x[1][i]) \in Int /\ lo <= Sane(x[1][i]) /\ Sane(x[1][i]) <= hi
    BY <1>2, SubBlockIs, Zenon
  <1>4. /\ b.d = IF range > FloatMax THEN NonFinite ELSE d
        /\ b.m = m
        /\ b.q = [j \in DOMAIN x |-> [i \in DOMAIN x[j] |-> MinMaxCode(n, lo, range, Sane(x[j][i]))]]
        /\ \A v \in Int : MinMaxCode(n, lo, range, v) \in 0 .. n
    <2>1. n \in Nat /\ n > 0
      <3> HIDE DEF n
      <3> QED
        BY <1>0, SMT
    <2> HIDE DEF n
    <2>2. LET c == EncodeMinMax(n, x)
              l == MinOf(x[1])
              r == MaxOf(x[1]) - l
          IN  /\ l \in Int /\ r \in Nat
              /\ c.d = IF r > FloatMax THEN NonFinite ELSE Half(r, n)
              /\ c.m = Half(l, 1) /\ c.m \in Int /\ Half(r, n) \in Int
              /\ c.q = [j \in DOMAIN x |-> [i \in DOMAIN x[j] |-> MinMaxCode(n, l, r, Sane(x[j][i]))]]
              /\ \A v \in Int : MinMaxCode(n, l, r, v) \in 0 .. n
      BY <2>1, MinMaxBlock, Zenon
    <2> QED
      BY <2>2, Zenon
  <1>5. e = 2 * n /\ Den(fmt) = 1 /\ E = range + e * (C + D)
    BY ErrorMinMax, SMT
  <1>6. y = [j \in DOMAIN b.q |-> [i \in DOMAIN b.q[j] |-> b.q[j][i] * b.d + b.m]]
    BY Zenon DEF DecodeMinMax
  <1> HIDE DEF n, b, y, V, lo, hi, e, E
  <1>7. range \in Nat /\ range <= FloatMax /\ Abs(range) <= HalfMax * n /\ Abs(n) = n /\ Abs(1) = 1
        /\ range \in Int /\ n \in Int /\ n # 0 /\ 1 \in Int /\ 1 # 0
    <2>1. range \in Nat /\ range <= 2 * HalfMax
      BY <1>1, <1>3, NumbersAssumption, SMT DEF Abs
    <2>2. 2 * HalfMax <= HalfMax * n
      BY <1>0, NumbersAssumption, Z3
    <2> HIDE DEF range
    <2>3. HalfMax * n \in Int
      BY <1>0, NumbersAssumption, SMT
    <2> QED
      BY <1>0, <2>1, <2>2, <2>3, NumbersAssumption, SMT DEF Abs
  <1>8. Abs(lo) <= HalfMax * Abs(1)
    BY <1>1, <1>3, <1>7, NumbersAssumption, SMT DEF Abs
  <1> HIDE DEF range
  <1>9. C \in Nat /\ d \in Int /\ Within(n * d - range, C)
    <2>1. Abs(range) <= HalfMax * Abs(n)
      BY <1>7, Zenon
    <2>2. HalfCost(range, Abs(n)) \in Nat /\ Half(range, n) \in Int
          /\ Within(n * Half(range, n) - range, HalfCost(range, Abs(n)))
      BY <1>7, <2>1, HalfError, Zenon
    <2> QED
      BY <1>7, <2>2, Zenon
  <1>10. D \in Nat /\ m \in Int /\ Within(m - lo, D)
    <2>1. HalfCost(lo, Abs(1)) \in Nat /\ Half(lo, 1) \in Int
          /\ Within(1 * Half(lo, 1) - lo, HalfCost(lo, Abs(1)))
      BY <1>3, <1>7, <1>8, HalfError, Zenon
    <2>2. D \in Nat /\ m \in Int /\ Within(1 * m - lo, D)
      BY <1>7, <2>1, Zenon
    <2> HIDE DEF m, D
    <2>3. 1 * m - lo = m - lo
      BY <1>3, <2>2, SMT
    <2> QED
      BY <2>2, <2>3, Zenon
  <1>11. ~(range > FloatMax)
    BY <1>7, NumbersAssumption, SMT
  <1>12. b.d = d
    BY <1>4, <1>11, Zenon
  <1> HIDE DEF C, D, d, m
  <1>13. \A i \in DOMAIN x[1] : y[1][i] = MinMaxCode(n, lo, range, Sane(x[1][i])) * d + m
    <2> DEFINE q == b.q
    <2>1. q = [j \in DOMAIN x |-> [i \in DOMAIN x[j] |-> MinMaxCode(n, lo, range, Sane(x[j][i]))]]
      BY <1>4
    <2>2. y = [j \in DOMAIN q |-> [i \in DOMAIN q[j] |-> q[j][i] * d + m]]
      BY <1>4, <1>6, <1>12, Zenon
    <2> HIDE DEF q
    <2> QED
      BY <1>2, <2>1, <2>2, Zenon
  <1>14. e \in Nat /\ E \in Int
    <2>1. e \in Nat /\ e * (C + D) \in Int
      BY <1>0, <1>5, <1>9, <1>10, SMT
    <2> QED
      BY <1>5, <1>7, <2>1, SMT
  <1>15. ASSUME NEW i \in DOMAIN x[1]
         PROVE  LET w == y[1][i] - Den(fmt) * Sane(x[1][i])
                IN  w \in Int /\ Within(e * w, E)
    <2> DEFINE v == Sane(x[1][i])
               c == MinMaxCode(n, lo, range, v)
               w == y[1][i] - Den(fmt) * v
    <2>1. v \in Int /\ lo <= v /\ v <= hi /\ c \in 0 .. n /\ y[1][i] = c * d + m
      BY <1>3, <1>4, <1>13, Zenon
    <2> HIDE DEF v
    <2>2. v <= lo + range
      BY <1>3, <2>1, SMT DEF range
    <2>3. n > 0
      BY <1>0, SMT
    <2>4. Within((2 * n) * (c * d + m - v), range + (2 * n) * (C + D))
      BY <1>0, <1>3, <1>7, <1>9, <1>10, <2>1, <2>2, <2>3, MinMaxNear, Zenon
    <2> HIDE DEF c
    <2>5. w = c * d + m - v /\ w \in Int
      BY <1>0, <1>5, <1>9, <1>10, <2>1, SMT
    <2> HIDE DEF w
    <2>6. w \in Int /\ Within(e * w, E)
      BY <1>5, <2>4, <2>5, Zenon
    <2> QED
      BY <2>6, Zenon DEF w, v
  <1> QED
    <2>1. \A j \in DOMAIN x : ErrorBound(fmt, h, x, j) \in Int
      BY <1>2, <1>14, Zenon DEF E
    <2>2. \A j \in DOMAIN x : \A i \in DOMAIN x[j] :
            LET w == y[j][i] - Den(fmt) * Sane(x[j][i])
            IN  w \in Int /\ Within(e * w, ErrorBound(fmt, h, x, j))
      BY <1>2, <1>15, Zenon DEF E
    <2>3. BlockNear(fmt, h, x, y)
      BY <1>14, <2>1, <2>2, NearLanes, Zenon DEF e
    <2> QED
      BY <2>3, Zenon DEF y, b, n

(* Q5_0.                                                                   *)
LEMMA Q5BlockNear ==
  ASSUME NEW h, NEW x \in [1 .. 1 -> SubBlocks], x \in Blocks, InRange("Q5_0", x)
  PROVE  BlockNear("Q5_0", h, x, decompressQ5_0ToFP32(compressFP32ToQ5_0(x)))
  <1> DEFINE fmt == "Q5_0"
             b == compressFP32ToQ5_0(x)
             y == decompressQ5_0ToFP32(b)
             V == Max(Flat(x))
             A == AbsMax(x[1])
             g == SignedAbsMax(x[1])
             d == Half(g, -16)
             C == HalfCost(A, 16)
             e == ErrorScale(fmt)
             E == ErrorBound(fmt, h, x, 1)
  <1>1. V <= HalfMax
    <2>1. fmt \notin DOMAIN IntLevels /\ fmt \notin {"NVFP4", "MXFP4"}
      BY KindNames, SMT
    <2> QED
      BY <2>1, HalfRange, Zenon
  <1>2. 1 \in DOMAIN x /\ \A j \in DOMAIN x : j = 1
    BY OneSubBlock, Zenon
  <1>3. /\ V \in Nat /\ A \in Nat /\ A <= V /\ g \in Int /\ Abs(g) = A
        /\ \A i \in DOMAIN x[1] : Sane(x[1][i]) \in Int /\ Abs(Sane(x[1][i])) <= A
    BY <1>2, SubBlockIs, Zenon
  <1>4. /\ b.d = d
        /\ b.q = [j \in DOMAIN x |-> [i \in DOMAIN x[j] |-> Q5Code(g, Sane(x[j][i]))]]
        /\ \A v \in Int : Q5Code(g, v) \in 0 .. 31
    <2>1. LET c == compressFP32ToQ5_0(x)
              w == SignedAbsMax(x[1])
          IN  /\ w \in Int /\ c.d = Half(w, -16) /\ c.d \in Int /\ c.m = 0
              /\ c.q = [j \in DOMAIN x |-> [i \in DOMAIN x[j] |-> Q5Code(w, Sane(x[j][i]))]]
              /\ \A v \in Int : Q5Code(w, v) \in 0 .. 31
      BY Q5Block, Zenon
    <2> QED
      BY <2>1, Zenon
  <1>5. e = 16 /\ Den(fmt) = 1 /\ E = A + 16 * C
    BY ErrorQ5, SMT
  <1>6. y = [j \in DOMAIN b.q |-> [i \in DOMAIN b.q[j] |-> (b.q[j][i] - 16) * b.d]]
    BY Zenon DEF decompressQ5_0ToFP32
  <1> HIDE DEF b, y, V, A, g, e, E, fmt
  <1>7. C \in Nat /\ d \in Int /\ Within((-16) * d - g, C)
    <2> DEFINE n == -16
    <2>1. n \in Int /\ n # 0 /\ Abs(n) = 16
      <3>1. n \in Int /\ n + 16 = 0
        BY SMT
      <3> HIDE DEF n
      <3>2. n < 0 /\ -n = 16
        BY <3>1, SMT
      <3> QED
        BY <3>1, <3>2, SMT DEF Abs
    <2> HIDE DEF n
    <2>2. Abs(g) <= HalfMax * Abs(n)
      BY <1>1, <1>3, <2>1, NumbersAssumption, SMT
    <2>3. HalfCost(g, Abs(n)) \in Nat /\ HalfCost(g, Abs(n)) = HalfCost(Abs(g), Abs(n)) /\ Half(g, n) \in Int
          /\ Within(n * Half(g, n) - g, HalfCost(g, Abs(n)))
      BY <1>3, <2>1, <2>2, HalfError, Zenon
    <2> QED
      BY <1>3, <2>1, <2>3, Zenon DEF n
  <1> HIDE DEF C, d
  <1>8. \A i \in DOMAIN x[1] : y[1][i] = (Q5Code(g, Sane(x[1][i])) - 16) * d
    <2> DEFINE q == b.q
    <2>1. q = [j \in DOMAIN x |-> [i \in DOMAIN x[j] |-> Q5Code(g, Sane(x[j][i]))]]
      BY <1>4
    <2>2. y = [j \in DOMAIN q |-> [i \in DOMAIN q[j] |-> (q[j][i] - 16) * d]]
      BY <1>4, <1>6, Zenon
    <2> HIDE DEF q
    <2> QED
      BY <1>2, <2>1, <2>2, Zenon
  <1>9. e \in Nat /\ E \in Int
    BY <1>3, <1>5, <1>7, SMT
  <1>10. ASSUME NEW i \in DOMAIN x[1]
         PROVE  LET w == y[1][i] - Den(fmt) * Sane(x[1][i])
                IN  w \in Int /\ Within(e * w, E)
    <2> DEFINE v == Sane(x[1][i])
               c == Q5Code(g, v)
               w == y[1][i] - Den(fmt) * v
    <2>1. v \in Int /\ Abs(v) <= Abs(g) /\ c \in 0 .. 31 /\ y[1][i] = (c - 16) * d
      BY <1>3, <1>4, <1>8, Zenon
    <2> HIDE DEF v
    <2>2. Within(16 * ((c - 16) * d - v), Abs(g) + 16 * C)
      BY <1>3, <1>7, <2>1, Q5Near, Zenon
    <2> HIDE DEF c
    <2>3. w = (c - 16) * d - v /\ w \in Int
      BY <1>5, <1>7, <2>1, SMT
    <2> HIDE DEF w
    <2>4. w \in Int /\ Within(e * w, E)
      BY <1>3, <1>5, <2>2, <2>3, Zenon
    <2> QED
      BY <2>4, Zenon DEF w, v
  <1> QED
    <2>1. \A j \in DOMAIN x : ErrorBound(fmt, h, x, j) \in Int
      BY <1>2, <1>9, Zenon DEF E
    <2>2. \A j \in DOMAIN x : \A i \in DOMAIN x[j] :
            LET w == y[j][i] - Den(fmt) * Sane(x[j][i])
            IN  w \in Int /\ Within(e * w, ErrorBound(fmt, h, x, j))
      BY <1>2, <1>10, Zenon DEF E
    <2>3. BlockNear(fmt, h, x, y)
      BY <1>9, <2>1, <2>2, NearLanes, Zenon DEF e
    <2> QED
      BY <2>3, Zenon DEF y, b, fmt

(* IQ4_NL.                                                                 *)
LEMMA IQ4BlockNear ==
  ASSUME NEW h, NEW x \in [1 .. 1 -> SubBlocks], x \in Blocks, InRange("IQ4_NL", x)
  PROVE  BlockNear("IQ4_NL", h, x, decompressIQ4_NL_ToFP32(compressFP32ToIQ4_NL(x)))
  <1> DEFINE fmt == "IQ4_NL"
             b == compressFP32ToIQ4_NL(x)
             y == decompressIQ4_NL_ToFP32(b)
             V == Max(Flat(x))
             A == AbsMax(x[1])
             g == SignedAbsMax(x[1])
             n == -127
             k == 127
             d == Half(g, n)
             C == HalfCost(A, k)
             e == ErrorScale(fmt)
             E == ErrorBound(fmt, h, x, 1)
  <1>1. V <= HalfMax
    <2>1. fmt \notin DOMAIN IntLevels /\ fmt \notin {"NVFP4", "MXFP4"}
      BY KindNames, SMT
    <2> QED
      BY <2>1, HalfRange, Zenon
  <1>2. 1 \in DOMAIN x /\ \A j \in DOMAIN x : j = 1
    BY OneSubBlock, Zenon
  <1>3. /\ V \in Nat /\ A \in Nat /\ A <= V /\ g \in Int /\ Abs(g) = A
        /\ \A i \in DOMAIN x[1] : Sane(x[1][i]) \in Int /\ Abs(Sane(x[1][i])) <= A
    BY <1>2, SubBlockIs, Zenon
  <1>4. /\ b.d = d
        /\ b.q = [j \in DOMAIN x |-> [i \in DOMAIN x[j] |-> IQ4Code(g, Sane(x[j][i]))]]
        /\ \A v \in Int : IQ4Code(g, v) \in 0 .. 15
    <2>1. LET c == compressFP32ToIQ4_NL(x)
              w == SignedAbsMax(x[1])
          IN  /\ w \in Int /\ c.d = Half(w, -127) /\ c.d \in Int /\ c.m = 0
              /\ c.q = [j \in DOMAIN x |-> [i \in DOMAIN x[j] |-> IQ4Code(w, Sane(x[j][i]))]]
              /\ \A v \in Int : IQ4Code(w, v) \in 0 .. 15
      BY IQ4Block, Zenon
    <2> QED
      BY <2>1, Zenon
  <1>5. e = k /\ Den(fmt) = 1 /\ E = 14 * A + k * C
    BY ErrorIQ4, SMT
  <1>6. y = [j \in DOMAIN b.q |-> [i \in DOMAIN b.q[j] |-> IQ4Codebook[b.q[j][i] + 1] * b.d]]
    BY Zenon DEF decompressIQ4_NL_ToFP32
  <1> HIDE DEF b, y, V, A, g, e, E, fmt
  <1>7. C \in Nat /\ d \in Int /\ Within(n * d - g, C)
    <2>1. n \in Int /\ n # 0 /\ Abs(n) = k
      <3>1. n \in Int /\ n + 127 = 0
        BY SMT
      <3> HIDE DEF n
      <3>2. n < 0 /\ -n = 127
        BY <3>1, SMT
      <3> QED
        BY <3>1, <3>2, SMT DEF Abs
    <2>2. Abs(g) <= HalfMax * Abs(n)
      BY <1>1, <1>3, <2>1, NumbersAssumption, SMT
    <2> HIDE DEF n, k
    <2>3. HalfCost(g, Abs(n)) \in Nat /\ HalfCost(g, Abs(n)) = HalfCost(Abs(g), Abs(n)) /\ Half(g, n) \in Int
          /\ Within(n * Half(g, n) - g, HalfCost(g, Abs(n)))
      BY <1>3, <2>1, <2>2, HalfError, Zenon
    <2> QED
      BY <1>3, <2>1, <2>3, Zenon
  <1> HIDE DEF C, d
  <1>8. \A i \in DOMAIN x[1] : y[1][i] = IQ4Codebook[IQ4Code(g, Sane(x[1][i])) + 1] * d
    <2> DEFINE q == b.q
    <2>1. q = [j \in DOMAIN x |-> [i \in DOMAIN x[j] |-> IQ4Code(g, Sane(x[j][i]))]]
      BY <1>4
    <2>2. y = [j \in DOMAIN q |-> [i \in DOMAIN q[j] |-> IQ4Codebook[q[j][i] + 1] * d]]
      BY <1>4, <1>6, Zenon
    <2> HIDE DEF q
    <2> QED
      BY <1>2, <2>1, <2>2, Zenon
  <1>9. e \in Nat /\ E \in Int
    BY <1>3, <1>5, <1>7, SMT
  <1>10. ASSUME NEW i \in DOMAIN x[1]
         PROVE  LET w == y[1][i] - Den(fmt) * Sane(x[1][i])
                IN  w \in Int /\ Within(e * w, E)
    <2> DEFINE v == Sane(x[1][i])
               c == IQ4Code(g, v)
               t == IQ4Codebook[c + 1]
               w == y[1][i] - Den(fmt) * v
    <2>1. v \in Int /\ Abs(v) <= Abs(g) /\ c \in 0 .. 15 /\ y[1][i] = t * d
      BY <1>3, <1>4, <1>8, Zenon
    <2> HIDE DEF v
    <2>2. Within(127 * (t * d - v), 14 * Abs(g) + 127 * C)
      <3>1. Within((-127) * d - g, C)
        BY <1>7
      <3> QED
        BY <1>3, <1>7, <2>1, <3>1, IQ4Near, SMT
    <2>3. Within(k * (t * d - v), 14 * Abs(g) + k * C)
      BY <2>2
    <2>4. t \in Int
      <3> HIDE DEF c
      <3>1. c + 1 \in 1 .. 16
        BY <2>1, SMT
      <3>2. t \in -127 .. 113
        BY <3>1, IQ4Entries, SMT
      <3> HIDE DEF t
      <3> QED
        BY <3>2, SMT
    <2> HIDE DEF c, t, k
    <2>5. w = t * d - v /\ w \in Int
      BY <1>5, <1>7, <2>1, <2>4, SMT
    <2> HIDE DEF w
    <2>6. w \in Int /\ Within(e * w, E)
      BY <1>3, <1>5, <2>3, <2>5, Zenon
    <2> QED
      BY <2>6, Zenon DEF w, v
  <1> QED
    <2> HIDE DEF k, n
    <2>1. \A j \in DOMAIN x : ErrorBound(fmt, h, x, j) \in Int
      BY <1>2, <1>9, Zenon DEF E
    <2>2. \A j \in DOMAIN x : \A i \in DOMAIN x[j] :
            LET w == y[j][i] - Den(fmt) * Sane(x[j][i])
            IN  w \in Int /\ Within(e * w, ErrorBound(fmt, h, x, j))
      BY <1>2, <1>10, Zenon DEF E
    <2>3. BlockNear(fmt, h, x, y)
      BY <1>9, <2>1, <2>2, NearLanes, Zenon DEF e
    <2> QED
      BY <2>3, Zenon DEF y, b, fmt

(* MXFP4.                                                                  *)
LEMMA MXBlockNear ==
  ASSUME NEW h, NEW x \in [1 .. 1 -> SubBlocks], x \in Blocks, InRange("MXFP4", x)
  PROVE  BlockNear("MXFP4", h, x, decompressMXFP4ToFP32(compressFP32ToMXFP4(x)))
  <1> DEFINE fmt == "MXFP4"
             b == compressFP32ToMXFP4(x)
             y == decompressMXFP4ToFP32(b)
             V == Max(Flat(x))
             A == AbsMax(x[1])
             s == MXScale(x)
             e == ErrorScale(fmt)
             E == ErrorBound(fmt, h, x, 1)
  <1>1. V <= FloatMax
    <2>1. fmt \notin DOMAIN IntLevels
      BY KindNames, SMT
    <2> QED
      BY <2>1, Zenon DEF InRange
  <1>2. 1 \in DOMAIN x /\ \A j \in DOMAIN x : j = 1
    BY OneSubBlock, Zenon
  <1>3. /\ V \in Nat /\ A \in Nat /\ A <= V
        /\ \A i \in DOMAIN x[1] : Sane(x[1][i]) \in Int /\ Abs(Sane(x[1][i])) <= A
    BY <1>2, SubBlockIs, Zenon
  <1>4. /\ b.d = s /\ s \in Nat
        /\ b.q = [j \in DOMAIN x |-> [i \in DOMAIN x[j] |-> MXCode(s, Sane(x[j][i]))]]
        /\ A # 0 => \E k \in 0 .. 27 : s = 2^k /\ k = IF Exponent(A) <= 2 THEN 0 ELSE Exponent(A) - 2
    <2>1. LET c == compressFP32ToMXFP4(x)
          IN  /\ c.d = MXScale(x) /\ MXScale(x) \in Nat /\ c.m = 0
              /\ AbsMax(x[1]) \in Nat
              /\ AbsMax(x[1]) # 0 => \E k \in 0 .. 27 : /\ MXScale(x) = 2^k
                                                       /\ k = IF Exponent(AbsMax(x[1])) <= 2 THEN 0
                                                              ELSE Exponent(AbsMax(x[1])) - 2
              /\ c.q = [j \in DOMAIN x |-> [i \in DOMAIN x[j] |-> MXCode(MXScale(x), Sane(x[j][i]))]]
              /\ \A v : MXCode(MXScale(x), v) \in 0 .. 15
      BY MXFP4Block, Zenon
    <2> QED
      BY <2>1, Zenon
  <1>a. A = 0 => s = 0
    BY Zenon DEF MXScale
  <1>5. e = 1 /\ Den(fmt) = 2 /\ E = Max({A, 1})
    BY ErrorMX, SMT
  <1>6. y = [j \in DOMAIN b.q |-> [i \in DOMAIN b.q[j] |->
               IF b.d = NonFinite THEN NonFinite ELSE ElementE2M1(b.q[j][i]) * b.d]]
    BY Zenon DEF decompressMXFP4ToFP32, DecodeE2M1
  <1> HIDE DEF b, y, V, A, s, e, E, fmt
  <1>7. (A = 0 /\ s = 0) \/ (s = 1 /\ A < 8) \/ (s > 0 /\ 4 * s <= A /\ A < 8 * s)
    <2>1. CASE A = 0
      BY <1>a, <2>1, Zenon
    <2>2. CASE A # 0
      <3>1. A < 2^30
        <4> DEFINE P == 2^30
        <4>1. FloatMax < P
          BY RangeAssumption
        <4>2. P \in Int
          BY SMT
        <4> HIDE DEF P
        <4>3. A < P
          BY <1>1, <1>3, <4>1, <4>2, NumbersAssumption, SMT
        <4> QED
          BY <4>3, Zenon DEF P
      <3>2. PICK k \in 0 .. 27 : s = 2^k /\ k = IF Exponent(A) <= 2 THEN 0 ELSE Exponent(A) - 2
        BY <1>4, <2>2, Zenon
      <3>3. LET t == 2^k
            IN  /\ t \in Nat /\ t > 0
                /\ \/ t = 1 /\ A < 8
                   \/ 4 * t <= A /\ A < 8 * t
        BY <1>3, <2>2, <3>1, <3>2, MXScaleNear, Zenon
      <3> QED
        BY <3>2, <3>3, Zenon
    <2> QED
      BY <2>1, <2>2, Zenon
  <1>8. s # NonFinite
    <2>1. s \in Int
      BY <1>4, SMT
    <2> QED
      BY <2>1, NumbersAssumption, Zenon
  <1>9. \A i \in DOMAIN x[1] : y[1][i] = ElementE2M1(MXCode(s, Sane(x[1][i]))) * s
    <2> DEFINE q == b.q
    <2>1. q = [j \in DOMAIN x |-> [i \in DOMAIN x[j] |-> MXCode(s, Sane(x[j][i]))]]
      BY <1>4
    <2>2. y = [j \in DOMAIN q |-> [i \in DOMAIN q[j] |-> ElementE2M1(q[j][i]) * s]]
      BY <1>4, <1>6, <1>8, Zenon
    <2> HIDE DEF q
    <2> QED
      BY <1>2, <2>1, <2>2, Zenon
  <1>10. e \in Nat /\ E \in Int /\ E = IF A <= 1 THEN 1 ELSE A
    <2>1. A \in Int /\ 1 \in Int
      BY <1>3, SMT
    <2>2. Max({A, 1}) = IF A <= 1 THEN 1 ELSE A
      BY <2>1, OfTwo, Zenon
    <2> QED
      BY <1>5, <2>1, <2>2, SMT
  <1>11. ASSUME NEW i \in DOMAIN x[1]
         PROVE  LET w == y[1][i] - Den(fmt) * Sane(x[1][i])
                IN  w \in Int /\ Within(e * w, E)
    <2> DEFINE v == Sane(x[1][i])
               t == ElementE2M1(MXCode(s, v))
               w == y[1][i] - Den(fmt) * v
    <2>1. v \in Int /\ Abs(v) <= A /\ y[1][i] = t * s
      BY <1>3, <1>9, Zenon
    <2> HIDE DEF v
    <2>2. t \in Int /\ Within(t * s - 2 * v, IF A <= 1 THEN 1 ELSE A)
      <3>1. LET c == MXCode(s, v)
            IN  ElementE2M1(c) \in Int /\ Within(ElementE2M1(c) * s - 2 * v, IF A <= 1 THEN 1 ELSE A)
        BY <1>3, <1>4, <1>7, <2>1, MXLaneNear, Zenon
      <3> QED
        BY <3>1, Zenon
    <2> HIDE DEF t
    <2>3. w = t * s - 2 * v /\ w \in Int
      BY <1>4, <1>5, <2>1, <2>2, SMT
    <2> HIDE DEF w
    <2>4. e * w = w
      BY <1>5, <2>3, SMT
    <2>5. Within(w, E)
      BY <1>10, <2>2, <2>3, Zenon
    <2>6. w \in Int /\ Within(e * w, E)
      BY <2>3, <2>4, <2>5, Zenon
    <2> QED
      BY <2>6, Zenon DEF w, v
  <1> QED
    <2>1. \A j \in DOMAIN x : ErrorBound(fmt, h, x, j) \in Int
      BY <1>2, <1>10, Zenon DEF E
    <2>2. \A j \in DOMAIN x : \A i \in DOMAIN x[j] :
            LET w == y[j][i] - Den(fmt) * Sane(x[j][i])
            IN  w \in Int /\ Within(e * w, ErrorBound(fmt, h, x, j))
      BY <1>2, <1>11, Zenon DEF E
    <2>3. BlockNear(fmt, h, x, y)
      BY <1>10, <2>1, <2>2, NearLanes, Zenon DEF e
    <2> QED
      BY <2>3, Zenon DEF y, b, fmt

(* NVFP4.                                                                  *)
LEMMA NVBlockNear ==
  ASSUME NEW h \in Int, NEW x \in [1 .. 1 -> SubBlocks], x \in Blocks, Whole("NVFP4", h, x)
  PROVE  BlockNear("NVFP4", h, x, decompressNVFP4ToFP32(h, compressFP32ToNVFP4(h, x)))
  <1> DEFINE fmt == "NVFP4"
             b == compressFP32ToNVFP4(h, x)
             y == decompressNVFP4ToFP32(h, b)
             A == AbsMax(x[1])
             r == RoundSignificant(7 * A, 2 * h, 4)
             s == IF h = 0 THEN 0 ELSE Min({r, MaxE4M3})
             u == h * s
             mu == Max({h, (7 * A) \div 16 + 1})
             Code(v) == IF u = 0 THEN (IF v < 0 THEN 8 ELSE 0) ELSE NearestE2M1(21 * v, u)
             e == ErrorScale(fmt)
             E == ErrorBound(fmt, h, x, 1)
  <1>1. A <= h * HeaderUnit
    BY Zenon DEF Whole
  <1>2. 1 \in DOMAIN x /\ \A j \in DOMAIN x : j = 1
    BY OneSubBlock, Zenon
  <1>3. /\ A \in Nat
        /\ \A i \in DOMAIN x[1] : Sane(x[1][i]) \in Int /\ Abs(Sane(x[1][i])) <= A
    BY <1>2, SubBlockIs, Zenon
  <1>4. /\ b.d = s
        /\ b.q = [j \in DOMAIN x |-> [i \in DOMAIN x[j] |-> Code(Sane(x[j][i]))]]
    BY Zenon DEF compressFP32ToNVFP4, Codes
  <1>5. e = 1 /\ Den(fmt) = 42 /\ E = 7 * A + 7 * mu
    BY ErrorNV, SMT
  <1>6. y = [j \in DOMAIN b.q |-> [i \in DOMAIN b.q[j] |->
               IF b.d = NonFinite THEN NonFinite
               ELSE ElementE2M1(b.q[j][i]) * (IF b.d = NonFinite THEN 0 ELSE h * b.d)]]
    BY Zenon DEF decompressNVFP4ToFP32, DecodeE2M1
  <1> HIDE DEF b, y, A, e, E, fmt
  <1>7. h \in Nat
    BY <1>1, <1>3, SMT DEF HeaderUnit
  <1>8. s \in Nat /\ mu \in Nat /\ Within(2 * u - 7 * A, mu)
    <2>1. LET t == IF h = 0 THEN 0 ELSE Min({RoundSignificant(7 * A, 2 * h, 4), MaxE4M3})
              k == Max({h, (7 * A) \div 16 + 1})
          IN  t \in Nat /\ k \in Nat /\ Within(2 * (h * t) - 7 * A, k)
      BY <1>1, <1>3, <1>7, BlockScaleNear, Zenon
    <2> QED
      BY <2>1, Zenon
  <1> HIDE DEF s, mu
  <1>9. s # NonFinite /\ u \in Nat
    <2>1. s \in Int /\ h * s \in Nat
      BY <1>7, <1>8, SMT
    <2> QED
      BY <2>1, NumbersAssumption, Zenon
  <1>10. y = [j \in DOMAIN b.q |-> [i \in DOMAIN b.q[j] |-> ElementE2M1(b.q[j][i]) * u]]
    BY <1>4, <1>6, <1>9, Zenon
  <1> HIDE DEF u
  <1>11. \A i \in DOMAIN x[1] : y[1][i] = ElementE2M1(Code(Sane(x[1][i]))) * u
    <2> DEFINE q == b.q
    <2> HIDE DEF Code
    <2>1. q = [j \in DOMAIN x |-> [i \in DOMAIN x[j] |-> Code(Sane(x[j][i]))]]
      BY <1>4
    <2>2. y = [j \in DOMAIN q |-> [i \in DOMAIN q[j] |-> ElementE2M1(q[j][i]) * u]]
      BY <1>10
    <2> HIDE DEF q
    <2> QED
      BY <1>2, <2>1, <2>2, Zenon
  <1>12. e \in Nat /\ E \in Int
    BY <1>3, <1>5, <1>8, SMT
  <1>13. ASSUME NEW i \in DOMAIN x[1]
         PROVE  LET w == y[1][i] - Den(fmt) * Sane(x[1][i])
                IN  w \in Int /\ Within(e * w, E)
    <2> DEFINE v == Sane(x[1][i])
               t == ElementE2M1(Code(v))
               w == y[1][i] - Den(fmt) * v
    <2>1. v \in Int /\ Abs(v) <= A /\ y[1][i] = t * u
      BY <1>3, <1>11, Zenon
    <2> HIDE DEF v
    <2>2. t \in Int /\ Within(t * u - 42 * v, 7 * A + 7 * mu)
      <3>1. LET c == IF u = 0 THEN (IF v < 0 THEN 8 ELSE 0) ELSE NearestE2M1(21 * v, u)
            IN  ElementE2M1(c) \in Int /\ Within(ElementE2M1(c) * u - 42 * v, 7 * A + 7 * mu)
        BY <1>3, <1>8, <1>9, <2>1, NVLaneNear, Zenon DEF u
      <3> QED
        BY <3>1, Zenon
    <2> HIDE DEF t
    <2>3. w = t * u - 42 * v /\ w \in Int
      BY <1>5, <1>9, <2>1, <2>2, SMT
    <2> HIDE DEF w
    <2>4. e * w = w
      BY <1>5, <2>3, SMT
    <2>5. Within(w, E)
      BY <1>5, <2>2, <2>3, SMT
    <2>6. w \in Int /\ Within(e * w, E)
      BY <2>3, <2>4, <2>5, Zenon
    <2> QED
      BY <2>6, Zenon DEF w, v
  <1> QED
    <2>1. \A j \in DOMAIN x : ErrorBound(fmt, h, x, j) \in Int
      BY <1>2, <1>12, Zenon DEF E
    <2>2. \A j \in DOMAIN x : \A i \in DOMAIN x[j] :
            LET w == y[j][i] - Den(fmt) * Sane(x[j][i])
            IN  w \in Int /\ Within(e * w, ErrorBound(fmt, h, x, j))
      BY <1>2, <1>13, Zenon DEF E
    <2>3. BlockNear(fmt, h, x, y)
      BY <1>12, <2>1, <2>2, NearLanes, Zenon DEF e
    <2> QED
      BY <2>3, Zenon DEF y, b, fmt

(* The scale of a sub-block whose first largest number is ext, in a block  *)
(* where that is g, and what the decoder makes of the code of a number v.  *)
SubScale(S, ext, g) == Clamp(nearestInt(-S * ext, g), -S, S - 1)
SignedLevel(L, S, g, sc, v) == IF sc = 0 THEN 0 ELSE Clamp(nearestInt(v * L * S, g * sc), -L, L - 1)
IQ4Level(L, S, g, sc, v) ==
  IQ4Codebook[(IF sc = 0 THEN bestIndexIQ4(0, 1) ELSE bestIndexIQ4(v * L * S, g * sc)) + 1]

(* The scale of a sub-block, put in terms of SignedScaleNear.              *)
LEMMA SubScaleNear ==
  ASSUME NEW L \in Nat, L > 0, NEW S \in Nat, S > 0, NEW g \in Int, g # 0,
         NEW ext \in Int, Abs(ext) <= Abs(g), NEW v \in Int, Abs(v) <= Abs(ext)
  PROVE  LET sc == SubScale(S, ext, g)
             T == S * Abs(ext)
             V == Abs(g)
             D == g * sc
             u == v * S
         IN  /\ sc \in Int /\ Within(sc, S) /\ D \in Int /\ (D = 0 <=> sc = 0)
             /\ T \in Nat /\ V \in Nat /\ T - V <= Abs(D) /\ 2 * Abs(D) <= 2 * T + V
             /\ u \in Int /\ Within(u, T) /\ v * L * S = L * u /\ L * u = (L * S) * v /\ L * u \in Int
  <1> DEFINE sc == SubScale(S, ext, g)
             T == S * Abs(ext)
             V == Abs(g)
             D == g * sc
             u == v * S
             p == -(S * ext)
  <1>1. p \in Int /\ Abs(ext) \in Nat /\ V \in Nat
    BY SMT DEF Abs
  <1>2. sc = Clamp(nearestInt(p, g), -S, S - 1)
    BY Zenon DEF SubScale
  <1> HIDE DEF sc
  <1>3. sc \in Int /\ Within(sc, S) /\ D \in Int /\ T \in Nat /\ T - V <= Abs(D) /\ 2 * Abs(D) <= 2 * T + V
    <2> DEFINE r == p
    <2>1. r \in Int /\ r = -(S * ext) /\ sc = Clamp(nearestInt(r, g), -S, S - 1)
      BY <1>1, <1>2
    <2> HIDE DEF r
    <2>2. LET c == Clamp(nearestInt(r, g), -S, S - 1)
              t == S * Abs(ext)
              Q == Abs(g * c)
          IN  /\ c \in Int /\ Within(c, S) /\ g * c \in Int /\ Q \in Nat /\ t \in Nat
              /\ t - Abs(g) <= Q /\ 2 * Q <= 2 * t + Abs(g)
      BY <2>1, SignedScaleNear, Zenon
    <2> QED
      BY <2>1, <2>2, Zenon
  <1>4. D = 0 <=> sc = 0
    BY <1>3, Z3
  <1>5. u \in Int /\ Within(u, T)
    <2> DEFINE a == Abs(ext)
    <2>1. a \in Nat /\ Within(v, a)
      BY <1>1, SMT DEF Abs, Within
    <2>2. Within(S, S) /\ S \in Int /\ a \in Int
      BY <2>1, SMT DEF Within
    <2> HIDE DEF a
    <2>3. Within(S * v, S * a)
      BY <2>1, <2>2, WithinProduct, Zenon
    <2>4. S * v = u /\ u \in Int
      BY SMT
    <2> QED
      BY <2>3, <2>4, Zenon DEF a
  <1>6. v * L * S = L * u /\ L * u = (L * S) * v /\ L * u \in Int
    BY Z3
  <1> QED
    BY <1>1, <1>3, <1>4, <1>5, <1>6, Zenon DEF sc

(* A number of Q6_K or Q3_K, ...                                           *)
LEMMA SignedLevelNear ==
  ASSUME NEW L \in Nat, L > 0, NEW S \in Nat, S > 0, NEW N \in Nat, N = L * S, NEW g \in Int, g # 0,
         NEW ext \in Int, Abs(ext) <= Abs(g), NEW v \in Int, Abs(v) <= Abs(ext),
         NEW d \in Int, NEW H \in Nat, Within(N * d - g, H)
  PROVE  LET sc == SubScale(S, ext, g)
             k == SignedLevel(L, S, g, sc, v)
         IN  /\ sc \in Int /\ k \in Int
             /\ Within(N * (d * sc * k - v), S * Abs(ext) + (L + 1) * Abs(g) + N * H)
  <1> DEFINE sc == SubScale(S, ext, g)
             T == S * Abs(ext)
             V == Abs(g)
             D == g * sc
             u == v * S
             p == L * u
             k == SignedLevel(L, S, g, sc, v)
             B == T + (L + 1) * V
  <1>1. /\ sc \in Int /\ Within(sc, S) /\ D \in Int /\ (D = 0 <=> sc = 0)
        /\ T \in Nat /\ V \in Nat /\ T - V <= Abs(D) /\ 2 * Abs(D) <= 2 * T + V
        /\ u \in Int /\ Within(u, T) /\ v * L * S = p /\ p = (L * S) * v /\ p \in Int
    BY SubScaleNear, Zenon
  <1>2. k = IF D = 0 THEN 0 ELSE Clamp(nearestInt(p, D), -L, L - 1)
    BY <1>1, Zenon DEF SignedLevel
  <1> HIDE DEF sc, T, V, k, u
  <1>3. k \in Int /\ Within(k, L) /\ Within(k * D - p, B)
    <2> DEFINE z == D
               r == L * u
    <2>1. /\ z \in Int /\ T - V <= Abs(z) /\ 2 * Abs(z) <= 2 * T + V
          /\ k = IF z = 0 THEN 0 ELSE Clamp(nearestInt(r, z), -L, L - 1)
      BY <1>1, <1>2
    <2> HIDE DEF z
    <2>2. LET c == IF z = 0 THEN 0 ELSE Clamp(nearestInt(L * u, z), -L, L - 1)
          IN  c \in Int /\ Within(c, L) /\ Within(c * z - L * u, T + (L + 1) * V)
      BY <1>1, <2>1, SignedCodeNear, Zenon
    <2>3. k \in Int /\ Within(k, L) /\ Within(k * z - r, B)
      BY <2>1, <2>2, Zenon
    <2> QED
      BY <2>3, Zenon DEF z, r
  <1>4. p = N * v /\ B \in Int
    BY <1>1, SMT
  <1> HIDE DEF B, p
  <1>5. Within(k * (g * sc) - N * v, B)
    BY <1>3, <1>4, Zenon
  <1>6. Within(N * (d * sc * k - v), B + N * H)
    BY <1>1, <1>3, <1>4, <1>5, SignedLane, ZenonT(60)
  <1> QED
    BY <1>1, <1>3, <1>6, Zenon DEF sc, k, T, V, B

(* ... and one of IQ4_XS.                                                  *)
LEMMA IQ4LevelNear ==
  ASSUME NEW L \in Nat, L = IQ4Top, NEW S \in Nat, S > 0, NEW N \in Nat, N = L * S, NEW g \in Int, g # 0,
         NEW ext \in Int, Abs(ext) <= Abs(g), NEW v \in Int, Abs(v) <= Abs(ext),
         NEW d \in Int, NEW H \in Nat, Within(N * d - g, H)
  PROVE  LET sc == SubScale(S, ext, g)
             k == IQ4Level(L, S, g, sc, v)
         IN  /\ sc \in Int /\ k \in Int
             /\ Within(N * (d * sc * k - v), 14 * (S * Abs(ext) + Abs(g)) + L * Abs(g) + N * H)
  <1> DEFINE sc == SubScale(S, ext, g)
             T == S * Abs(ext)
             V == Abs(g)
             D == g * sc
             u == v * S
             p == L * u
             k == IQ4Level(L, S, g, sc, v)
             B == 14 * (T + V) + L * V
  <1>0. L > 0
    BY SMT DEF IQ4Top
  <1>1. /\ sc \in Int /\ Within(sc, S) /\ D \in Int /\ (D = 0 <=> sc = 0)
        /\ T \in Nat /\ V \in Nat /\ T - V <= Abs(D) /\ 2 * Abs(D) <= 2 * T + V
        /\ u \in Int /\ Within(u, T) /\ v * L * S = p /\ p = (L * S) * v /\ p \in Int
    <2> DEFINE l == L
    <2>1. l \in Nat /\ l > 0
      BY <1>0
    <2> HIDE DEF l
    <2>2. /\ sc \in Int /\ Within(sc, S) /\ D \in Int /\ (D = 0 <=> sc = 0)
          /\ T \in Nat /\ V \in Nat /\ T - V <= Abs(D) /\ 2 * Abs(D) <= 2 * T + V
          /\ u \in Int /\ Within(u, T) /\ v * l * S = l * u /\ l * u = (l * S) * v /\ l * u \in Int
      BY <2>1, SubScaleNear, Zenon
    <2> QED
      BY <2>2 DEF l
  <1>2. k = IQ4Codebook[(IF D = 0 THEN bestIndexIQ4(0, 1) ELSE bestIndexIQ4(p, D)) + 1]
    BY <1>1, Zenon DEF IQ4Level
  <1> HIDE DEF sc, T, V, k, u
  <1>3. k \in Int /\ Within(k, L) /\ Within(k * D - p, B)
    <2> DEFINE z == D
               r == IQ4Top * u
               B1 == 14 * (T + V) + IQ4Top * V
    <2>1. /\ z \in Int /\ T - V <= Abs(z) /\ 2 * Abs(z) <= 2 * T + V
          /\ k = IQ4Codebook[(IF z = 0 THEN bestIndexIQ4(0, 1) ELSE bestIndexIQ4(r, z)) + 1]
      BY <1>1, <1>2
    <2> HIDE DEF z
    <2>2. LET t == IQ4Codebook[(IF z = 0 THEN bestIndexIQ4(0, 1) ELSE bestIndexIQ4(IQ4Top * u, z)) + 1]
          IN  t \in Int /\ Within(t, IQ4Top) /\ Within(t * z - IQ4Top * u, 14 * (T + V) + IQ4Top * V)
      <3> HIDE DEF B, B1
      <3> QED
        BY <1>1, <2>1, IQ4CodeNear, Zenon
    <2>3. k \in Int /\ Within(k, IQ4Top) /\ Within(k * z - r, B1)
      BY <2>1, <2>2, Zenon
    <2>4. B1 = B
      OBVIOUS
    <2> QED
      BY <2>3, <2>4 DEF z, r
  <1>4. p = N * v /\ B \in Int
    BY <1>1, SMT
  <1> DEFINE l == L
  <1>5. l \in Nat /\ N = l * S /\ Within(k, l)
    BY <1>3
  <1> HIDE DEF B, p, l
  <1>6. Within(k * (g * sc) - N * v, B)
    BY <1>3, <1>4, Zenon
  <1>7. Within(N * (d * sc * k - v), B + N * H)
    <2> DEFINE n == N
    <2>1. n \in Nat /\ n = l * S /\ Within(k * (g * sc) - n * v, B) /\ Within(n * d - g, H)
      BY <1>5, <1>6
    <2> HIDE DEF n
    <2>2. Within(n * (d * sc * k - v), B + n * H)
      BY <1>1, <1>3, <1>4, <1>5, <2>1, SignedLane, ZenonT(60)
    <2> QED
      BY <2>2 DEF n
  <1>8. k \in Int
    BY <1>3
  <1> QED
    BY <1>1, <1>7, <1>8 DEF sc, k, T, V, B

(* One of the numbers of a block has the largest magnitude, ...            *)
LEMMA FlatMax ==
  ASSUME NEW x \in Blocks
  PROVE  \E j \in DOMAIN x : \E i \in DOMAIN x[j] : Max(Flat(x)) = Abs(Sane(x[j][i]))
  <1>1. Flat(x) \in SUBSET Nat /\ IsFiniteSet(Flat(x))
    BY FlatIs, Zenon
  <1>2. Flat(x) # {}
    <2>1. PICK i : i \in DOMAIN x[1]
      BY BlockParts, Zenon
    <2> DEFINE F(j) == {Abs(Sane(x[j][k])) : k \in DOMAIN x[j]}
               U == {F(j) : j \in DOMAIN x}
    <2>2. Flat(x) = UNION U /\ 1 \in DOMAIN x
      BY BlockParts, Zenon DEF Flat
    <2>3. Abs(Sane(x[1][i])) \in F(1) /\ F(1) \in U
      BY <2>1, <2>2
    <2> HIDE DEF F, U
    <2> QED
      BY <2>2, <2>3, Zenon
  <1>3. Flat(x) \in SUBSET Int
    BY <1>1, SMT
  <1>4. Max(Flat(x)) \in Flat(x)
    BY <1>1, <1>2, <1>3, MaxIs, Zenon
  <1> DEFINE m == Max(Flat(x))
  <1>5. m \in UNION {{Abs(Sane(x[j][i])) : i \in DOMAIN x[j]} : j \in DOMAIN x}
    BY <1>4, Zenon DEF Flat
  <1> HIDE DEF m
  <1>6. \E j \in DOMAIN x : \E i \in DOMAIN x[j] : m = Abs(Sane(x[j][i]))
    BY <1>5, Zenon
  <1> QED
    BY <1>6, Zenon DEF m

(* ... and it is what the encoders of Q6_K, Q3_K and IQ4_XS find as the    *)
(* largest of the extremes of the sub-blocks.                              *)
LEMMA SignedLargest ==
  ASSUME NEW x \in Blocks
  PROVE  LET extreme == [j \in DOMAIN x |-> SignedAbsMax(x[j])]
             g == FirstLargest(extreme)
         IN  /\ g \in Int /\ Abs(g) = Max(Flat(x))
             /\ \A j \in DOMAIN x : extreme[j] \in Int /\ Abs(extreme[j]) = AbsMax(x[j])
                                    /\ Abs(extreme[j]) <= Abs(g)
  <1> DEFINE extreme == [j \in DOMAIN x |-> SignedAbsMax(x[j])]
             g == FirstLargest(extreme)
             V == Max(Flat(x))
             A(j) == AbsMax(x[j])
  <1>1. \A j \in DOMAIN x : /\ extreme[j] \in Int /\ Abs(extreme[j]) = A(j) /\ A(j) \in Nat /\ A(j) <= V
                            /\ \A i \in DOMAIN x[j] : Abs(Sane(x[j][i])) <= A(j)
    BY SubBlockIs, Zenon
  <1>2. DOMAIN extreme = DOMAIN x /\ DOMAIN x = 1 .. Len(x) /\ Len(x) \in Nat /\ Len(x) > 0
    BY BlockParts, Zenon
  <1>3. extreme = [j \in 1 .. Len(x) |-> extreme[j]]
    BY <1>2, Zenon
  <1>4. V \in Nat
    BY FlatIs, Zenon
  <1> HIDE DEF extreme, V
  <1>5. extreme \in Seq(Number) /\ extreme # <<>>
    <2>1. \A j \in 1 .. Len(x) : extreme[j] \in Number
      BY <1>1, <1>2, Zenon DEF Number
    <2>2. extreme \in Seq(Number) /\ Len(extreme) = Len(x)
      BY <1>2, <1>3, <2>1, SequenceOf, Zenon
    <2> QED
      BY <1>2, <2>2, SMT
  <1>6. \A j \in DOMAIN x : Sane(extreme[j]) = extreme[j]
    BY <1>1, NumbersAssumption, Zenon DEF Sane
  <1>7. /\ g \in Int /\ \E j \in DOMAIN x : g = extreme[j]
        /\ \A j \in DOMAIN x : Abs(extreme[j]) <= Abs(g)
    BY <1>2, <1>5, <1>6, SignedAbsMaxIs, Zenon DEF FirstLargest
  <1> HIDE DEF g
  <1>8. Abs(g) = V
    <2>1. PICK j \in DOMAIN x : \E i \in DOMAIN x[j] : V = Abs(Sane(x[j][i]))
      BY FlatMax, Zenon DEF V
    <2>2. V <= A(j) /\ A(j) \in Nat /\ Abs(extreme[j]) = A(j) /\ Abs(extreme[j]) <= Abs(g)
      BY <1>1, <1>7, <2>1, Zenon
    <2>3. PICK k \in DOMAIN x : g = extreme[k]
      BY <1>7, Zenon
    <2>4. Abs(g) = A(k) /\ A(k) \in Nat /\ A(k) <= V
      BY <1>1, <2>3, Zenon
    <2> HIDE DEF A
    <2> QED
      BY <1>4, <2>2, <2>4, SMT
  <1> QED
    BY <1>1, <1>7, <1>8, Zenon DEF extreme, g, V

(* What these formats read back of a block that is not all zeros.          *)
LEMMA SignedReadBack ==
  ASSUME NEW fmt \in DOMAIN SignedKinds, NEW x \in Blocks,
         NEW extreme, extreme = [j \in DOMAIN x |-> SignedAbsMax(x[j])],
         NEW g, g = FirstLargest(extreme), g # 0
  PROVE  LET f == SignedKinds[fmt]
             d == Half(g, f.levels * f.scales)
             y == DecodeSigned(fmt, EncodeSigned(fmt, x))
             sc(j) == SubScale(f.scales, extreme[j], g)
         IN  \A j \in DOMAIN x : \A i \in DOMAIN x[j] :
               y[j][i] = d * ((sc(j) + f.scaleBias) - f.scaleBias)
                           * (IF fmt = "IQ4_XS" THEN IQ4Level(f.levels, f.scales, g, sc(j), Sane(x[j][i]))
                              ELSE (f.bias + SignedLevel(f.levels, f.scales, g, sc(j), Sane(x[j][i]))) - f.bias)
  <1> DEFINE f == SignedKinds[fmt]
             d == Half(g, f.levels * f.scales)
             b == EncodeSigned(fmt, x)
             y == DecodeSigned(fmt, b)
             sc(j) == SubScale(f.scales, extreme[j], g)
             code(j, v) ==
               IF fmt = "IQ4_XS"
               THEN IF sc(j) = 0 THEN bestIndexIQ4(0, 1)
                    ELSE bestIndexIQ4(v * f.levels * f.scales, g * sc(j))
               ELSE f.bias + SignedLevel(f.levels, f.scales, g, sc(j), v)
             lev(c) == IF fmt = "IQ4_XS" THEN IQ4Codebook[c + 1] ELSE c - f.bias
             q == b.q
             s == b.s
  <1>1. /\ b.d = d
        /\ s = [j \in DOMAIN x |-> sc(j) + f.scaleBias]
        /\ q = [j \in DOMAIN x |-> [i \in DOMAIN x[j] |-> code(j, Sane(x[j][i]))]]
    BY SMT DEF EncodeSigned, Codes, SubScale, SignedLevel
  <1>2. y = [j \in DOMAIN q |-> [i \in DOMAIN q[j] |-> b.d * (s[j] - f.scaleBias) * lev(q[j][i])]]
    BY Zenon DEF DecodeSigned
  <1> HIDE DEF b, q, s, y, d, sc, lev, code
  <1>3. \A j \in DOMAIN x : \A i \in DOMAIN x[j] :
          y[j][i] = d * ((sc(j) + f.scaleBias) - f.scaleBias) * lev(code(j, Sane(x[j][i])))
    BY <1>1, <1>2, Zenon
  <1>4. \A j, v : lev(code(j, v)) = IF fmt = "IQ4_XS" THEN IQ4Level(f.levels, f.scales, g, sc(j), v)
                                   ELSE (f.bias + SignedLevel(f.levels, f.scales, g, sc(j), v)) - f.bias
    <2> TAKE j, v
    <2>1. CASE fmt = "IQ4_XS"
      BY <2>1, SMT DEF lev, code, IQ4Level
    <2>2. CASE fmt # "IQ4_XS"
      BY <2>2, Zenon DEF lev, code
    <2> QED
      BY <2>1, <2>2, Zenon
  <1>5. \A j \in DOMAIN x : \A i \in DOMAIN x[j] :
          y[j][i] = d * ((sc(j) + f.scaleBias) - f.scaleBias)
                      * (IF fmt = "IQ4_XS" THEN IQ4Level(f.levels, f.scales, g, sc(j), Sane(x[j][i]))
                         ELSE (f.bias + SignedLevel(f.levels, f.scales, g, sc(j), Sane(x[j][i]))) - f.bias)
    BY <1>3, <1>4, Zenon
  <1> QED
    BY <1>5 DEF d, y, sc, b

(* Q6_K, Q3_K and IQ4_XS.                                                  *)
LEMMA SignedBlockNear ==
  ASSUME NEW fmt \in DOMAIN SignedKinds, NEW h, NEW x \in Blocks, InRange(fmt, x)
  PROVE  BlockNear(fmt, h, x, DecodeSigned(fmt, EncodeSigned(fmt, x)))
  <1> DEFINE f == SignedKinds[fmt]
             L == f.levels
             S == f.scales
             N == L * S
             y == DecodeSigned(fmt, EncodeSigned(fmt, x))
             extreme == [j \in DOMAIN x |-> SignedAbsMax(x[j])]
             g == FirstLargest(extreme)
             V == Max(Flat(x))
             d == Half(g, N)
             H == HalfCost(V, N)
             e == ErrorScale(fmt)
             A(j) == AbsMax(x[j])
             E(j) == ErrorBound(fmt, h, x, j)
             v(j, i) == Sane(x[j][i])
             w(j, i) == y[j][i] - Den(fmt) * v(j, i)
             sc(j) == SubScale(S, extreme[j], g)
  <1>1. V <= HalfMax
    <2>1. fmt \notin DOMAIN IntLevels /\ fmt \notin {"NVFP4", "MXFP4"}
      BY KindNames, SMT
    <2> QED
      BY <2>1, HalfRange, Zenon
  <1>2. /\ g \in Int /\ Abs(g) = V /\ V \in Nat
        /\ \A j \in DOMAIN x : extreme[j] \in Int /\ Abs(extreme[j]) = A(j) /\ Abs(extreme[j]) <= Abs(g) /\ A(j) \in Nat
        /\ \A j \in DOMAIN x : \A i \in DOMAIN x[j] :
             v(j, i) \in Int /\ Abs(v(j, i)) \in Nat /\ Abs(v(j, i)) <= Abs(extreme[j]) /\ Abs(v(j, i)) <= V
    <2>1. g \in Int /\ Abs(g) = V /\ V \in Nat
      BY SignedLargest, FlatIs, Zenon
    <2>2. \A j \in DOMAIN x : extreme[j] \in Int /\ Abs(extreme[j]) = A(j) /\ Abs(extreme[j]) <= Abs(g)
      BY SignedLargest, Zenon
    <2> HIDE DEF g, extreme, V
    <2>3. \A j \in DOMAIN x : A(j) \in Nat /\ \A i \in DOMAIN x[j] :
             v(j, i) \in Int /\ Abs(v(j, i)) \in Nat /\ Abs(v(j, i)) <= A(j) /\ Abs(v(j, i)) <= V
      BY SubBlockIs, Zenon DEF V
    <2> QED
      BY <2>1, <2>2, <2>3, Zenon
  <1>3. /\ e = N /\ Den(fmt) = 1
        /\ \A j \in DOMAIN x :
             /\ fmt # "IQ4_XS" => E(j) = S * A(j) + (L + 1) * V + e * HalfCost(V, e)
             /\ fmt = "IQ4_XS" => E(j) = 14 * (S * A(j) + V) + L * V + e * HalfCost(V, e)
    <2>1. ASSUME NEW j \in DOMAIN x
          PROVE  /\ e = N /\ Den(fmt) = 1
                 /\ fmt # "IQ4_XS" => E(j) = S * A(j) + (L + 1) * V + e * HalfCost(V, e)
                 /\ fmt = "IQ4_XS" => E(j) = 14 * (S * A(j) + V) + L * V + e * HalfCost(V, e)
      BY ErrorSigned
    <2>2. e = N /\ Den(fmt) = 1
      BY ErrorSigned
    <2> QED
      BY <2>1, <2>2, Zenon
  <1>4. /\ L \in Nat /\ L > 0 /\ S \in Nat /\ S > 0 /\ N \in Nat /\ N > 0
        /\ f.bias \in Int /\ f.scaleBias \in Int /\ (fmt = "IQ4_XS" => L = IQ4Top)
    <2>1. L \in Nat /\ L > 0 /\ S \in Nat /\ S > 0 /\ N \in Nat /\ N > 0
      BY KindConstants, Zenon
    <2>2. f.bias \in Int /\ f.scaleBias \in Int /\ (fmt = "IQ4_XS" => L = IQ4Top)
      BY KindNames, SMT DEF SignedKinds, IQ4Top
    <2> QED
      BY <2>1, <2>2, Zenon
  <1>5. g # 0 => \A j \in DOMAIN x : \A i \in DOMAIN x[j] :
          y[j][i] = d * ((sc(j) + f.scaleBias) - f.scaleBias)
                      * (IF fmt = "IQ4_XS" THEN IQ4Level(L, S, g, sc(j), v(j, i))
                         ELSE (f.bias + SignedLevel(L, S, g, sc(j), v(j, i))) - f.bias)
    <2> DEFINE X == extreme
               G == g
    <2>1. X = [j \in DOMAIN x |-> SignedAbsMax(x[j])] /\ G = FirstLargest(X)
      OBVIOUS
    <2> HIDE DEF X, G
    <2>2. G # 0 => \A j \in DOMAIN x : \A i \in DOMAIN x[j] :
          y[j][i] = Half(G, N) * ((SubScale(S, X[j], G) + f.scaleBias) - f.scaleBias)
                      * (IF fmt = "IQ4_XS" THEN IQ4Level(L, S, G, SubScale(S, X[j], G), Sane(x[j][i]))
                         ELSE (f.bias + SignedLevel(L, S, G, SubScale(S, X[j], G), Sane(x[j][i]))) - f.bias)
      <3> SUFFICES ASSUME G # 0
                   PROVE  \A j \in DOMAIN x : \A i \in DOMAIN x[j] :
          y[j][i] = Half(G, N) * ((SubScale(S, X[j], G) + f.scaleBias) - f.scaleBias)
                      * (IF fmt = "IQ4_XS" THEN IQ4Level(L, S, G, SubScale(S, X[j], G), Sane(x[j][i]))
                         ELSE (f.bias + SignedLevel(L, S, G, SubScale(S, X[j], G), Sane(x[j][i]))) - f.bias)
        BY Zenon
      <3>1. LET f1 == SignedKinds[fmt]
                d1 == Half(G, f1.levels * f1.scales)
                y1 == DecodeSigned(fmt, EncodeSigned(fmt, x))
                sc1(j) == SubScale(f1.scales, X[j], G)
            IN  \A j \in DOMAIN x : \A i \in DOMAIN x[j] :
                  y1[j][i] = d1 * ((sc1(j) + f1.scaleBias) - f1.scaleBias)
                              * (IF fmt = "IQ4_XS" THEN IQ4Level(f1.levels, f1.scales, G, sc1(j), Sane(x[j][i]))
                                 ELSE (f1.bias + SignedLevel(f1.levels, f1.scales, G, sc1(j), Sane(x[j][i]))) - f1.bias)
        BY <2>1, SignedReadBack
      <3> QED
        BY <3>1
    <2> QED
      BY <2>2 DEF X, G
  <1>6. g = 0 => \A j \in DOMAIN x : \A i \in DOMAIN x[j] : y[j][i] = 0
    <2> SUFFICES ASSUME g = 0, NEW j \in DOMAIN x, NEW i \in DOMAIN x[j] PROVE y[j][i] = 0
      OBVIOUS
    <2>1. EncodeSigned(fmt, x) = ZeroBlock(x)
      BY Zenon DEF EncodeSigned
    <2> DEFINE c == IF fmt = "IQ4_XS" THEN IQ4Codebook[0 + 1] ELSE 0 - f.bias
    <2>2. y[j][i] = 0 * (0 - f.scaleBias) * c
      BY <2>1, SMT DEF DecodeSigned, ZeroBlock, Codes, Zeros
    <2>3. c \in Int
      <3>1. IQ4Codebook[0 + 1] \in Int
        BY SMT DEF IQ4Codebook
      <3> QED
        BY <1>4, <3>1, SMT
    <2> HIDE DEF c
    <2> QED
      BY <1>4, <2>2, <2>3, SMT
  <1> HIDE DEF y, g, V, d, H, e, A, E, v, L, S, N, extreme, sc
  <1>7. H \in Nat /\ d \in Int /\ Within(N * d - g, H)
    <2>1. N \in Int /\ N # 0 /\ Abs(N) = N
      BY <1>4, SMT DEF Abs
    <2>2. Abs(g) <= HalfMax * Abs(N)
      <3>1. V <= HalfMax * N
        BY <1>1, <1>2, <1>4, NumbersAssumption, Z3
      <3> QED
        BY <1>2, <2>1, <3>1, Zenon
    <2>3. HalfCost(g, Abs(N)) \in Nat /\ HalfCost(g, Abs(N)) = HalfCost(Abs(g), Abs(N)) /\ Half(g, N) \in Int
          /\ Within(N * Half(g, N) - g, HalfCost(g, Abs(N)))
      BY <1>2, <2>1, <2>2, HalfError, Zenon
    <2> QED
      BY <1>2, <2>1, <2>3, Zenon DEF H, d
  <1>8. \A j \in DOMAIN x :
          /\ E(j) \in Int /\ 0 <= E(j)
          /\ fmt # "IQ4_XS" => E(j) = S * A(j) + (L + 1) * V + N * H
          /\ fmt = "IQ4_XS" => E(j) = 14 * (S * A(j) + V) + L * V + N * H
    <2> SUFFICES ASSUME NEW j \in DOMAIN x
                 PROVE  /\ E(j) \in Int /\ 0 <= E(j)
                        /\ fmt # "IQ4_XS" => E(j) = S * A(j) + (L + 1) * V + N * H
                        /\ fmt = "IQ4_XS" => E(j) = 14 * (S * A(j) + V) + L * V + N * H
      BY Zenon
    <2>1. /\ fmt # "IQ4_XS" => E(j) = S * A(j) + (L + 1) * V + N * H
          /\ fmt = "IQ4_XS" => E(j) = 14 * (S * A(j) + V) + L * V + N * H
      BY <1>3, Zenon DEF H
    <2> DEFINE a == A(j)
    <2>2. a \in Nat
      BY <1>2
    <2> HIDE DEF a
    <2>3. S * a \in Nat /\ L * V \in Nat /\ N * H \in Nat /\ (L + 1) * V \in Nat
      BY <1>2, <1>4, <1>7, <2>2, Z3
    <2> HIDE DEF E
    <2>4. E(j) \in Int /\ 0 <= E(j)
      BY <1>2, <2>1, <2>3, SMT DEF a
    <2> QED
      BY <2>1, <2>4, Zenon
  <1>9. ASSUME NEW j \in DOMAIN x, NEW i \in DOMAIN x[j]
        PROVE  w(j, i) \in Int /\ Within(e * w(j, i), E(j))
    <2> DEFINE z == v(j, i)
               ext == extreme[j]
               s == SubScale(S, ext, g)
    <2>1. z \in Int /\ ext \in Int /\ Abs(ext) <= Abs(g) /\ Abs(z) <= Abs(ext) /\ Abs(ext) = A(j)
      BY <1>2, Zenon
    <2>2. CASE g = 0
      <3>1. z = 0 /\ y[j][i] = 0
        <4>1. Abs(z) <= 0 /\ y[j][i] = 0
          BY <1>2, <1>6, <2>2, SMT DEF Abs
        <4> HIDE DEF z
        <4> QED
          BY <2>1, <4>1, SMT DEF Abs
      <3>2. w(j, i) = 0
        BY <1>3, <3>1, SMT
      <3>3. w(j, i) \in Int /\ e * w(j, i) = 0
        BY <1>3, <1>4, <3>2, SMT
      <3> HIDE DEF w
      <3> QED
        BY <1>8, <3>3, SMT DEF Within
    <2>3. CASE g # 0 /\ fmt # "IQ4_XS"
      <3> DEFINE k == SignedLevel(L, S, g, s, z)
      <3>1. /\ s \in Int /\ k \in Int
            /\ Within(N * (d * s * k - z), S * Abs(ext) + (L + 1) * Abs(g) + N * H)
        <4> HIDE DEF z, ext
        <4> QED
          BY <1>2, <1>4, <1>7, <2>1, <2>3, SignedLevelNear, Zenon DEF N
      <3>2. y[j][i] = d * ((s + f.scaleBias) - f.scaleBias) * ((f.bias + k) - f.bias)
        BY <1>5, <2>3, Zenon DEF sc
      <3> HIDE DEF s, k, z, ext
      <3>3. w(j, i) = d * s * k - z /\ w(j, i) \in Int
        <4>1. (s + f.scaleBias) - f.scaleBias = s /\ (f.bias + k) - f.bias = k
          BY <1>4, <3>1, SMT
        <4>2. y[j][i] = d * s * k
          BY <3>2, <4>1, Zenon
        <4>3. d * s * k \in Int
          BY <1>7, <3>1, Z3
        <4> QED
          BY <1>3, <2>1, <4>2, <4>3, SMT DEF z
      <3>4. Within(N * (d * s * k - z), E(j))
        BY <1>2, <1>8, <2>1, <2>3, <3>1, Zenon
      <3> QED
        BY <1>3, <3>3, <3>4, Zenon
    <2>4. CASE g # 0 /\ fmt = "IQ4_XS"
      <3> DEFINE k == IQ4Level(L, S, g, s, z)
      <3>0. L = IQ4Top
        BY <1>4, <2>4, Zenon
      <3>1. /\ s \in Int /\ k \in Int
            /\ Within(N * (d * s * k - z), 14 * (S * Abs(ext) + Abs(g)) + L * Abs(g) + N * H)
        <4> HIDE DEF z, ext
        <4> QED
          BY <1>2, <1>4, <1>7, <2>1, <2>4, <3>0, IQ4LevelNear, Zenon DEF N
      <3>2. y[j][i] = d * ((s + f.scaleBias) - f.scaleBias) * k
        BY <1>5, <2>4, Zenon DEF sc
      <3> HIDE DEF s, k, z, ext
      <3>3. w(j, i) = d * s * k - z /\ w(j, i) \in Int
        <4>1. (s + f.scaleBias) - f.scaleBias = s
          BY <1>4, <3>1, SMT
        <4>2. y[j][i] = d * s * k
          BY <3>2, <4>1, Zenon
        <4>3. d * s * k \in Int
          BY <1>7, <3>1, Z3
        <4> QED
          BY <1>3, <2>1, <4>2, <4>3, SMT DEF z
      <3>4. Within(N * (d * s * k - z), E(j))
        BY <1>2, <1>8, <2>1, <2>4, <3>1, Zenon
      <3> QED
        BY <1>3, <3>3, <3>4, Zenon
    <2> QED
      BY <2>2, <2>3, <2>4, Zenon
  <1> QED
    <2>0. e \in Nat /\ e = ErrorScale(fmt)
      BY <1>3, <1>4, Zenon DEF e
    <2>1. \A j \in DOMAIN x : ErrorBound(fmt, h, x, j) \in Int
      BY <1>8, Zenon DEF E
    <2>2. \A j \in DOMAIN x : \A i \in DOMAIN x[j] :
            LET u == y[j][i] - Den(fmt) * Sane(x[j][i])
            IN  u \in Int /\ Within(e * u, ErrorBound(fmt, h, x, j))
      BY <1>9, Zenon DEF E, v
    <2>3. BlockNear(fmt, h, x, y)
      BY <2>0, <2>1, <2>2, NearLanes, Zenon
    <2> QED
      BY <2>3, Zenon DEF y

(* The scale of a sub-block of Q5_K, Q4_K or Q2_K, or its minimum, in a    *)
(* block where the largest of them is G; and the code of a number v.       *)
RangeSubScale(s, G, a) == IF G = 0 THEN 0 ELSE Clamp(nearestInt(s * a, G), 0, s)
RangeLevel(n, s, R, M, ls, lm, v) ==
  IF ls = 0 THEN 0 ELSE Clamp(nearestInt((v * s + M * lm) * n, R * ls), 0, n)

(* A number of these formats, read back (DecodeRange).                     *)
LEMMA RangeLevelNear ==
  ASSUME NEW n \in Nat, n > 0, NEW s \in Nat, s > 0, NEW N \in Nat, N = n * s,
         NEW R \in Nat, NEW M \in Nat, NEW a \in Nat, a <= R, NEW b \in Nat, b <= M,
         NEW v \in Int, 0 <= v + b, v + b <= a,
         NEW d \in Int, NEW m \in Int, NEW C \in Nat, NEW E \in Nat,
         Within(N * d - R, C), Within(s * m - M, E)
  PROVE  LET ls == RangeSubScale(s, R, a)
             lm == RangeSubScale(s, M, b)
             c == RangeLevel(n, s, R, M, ls, lm, v)
         IN  /\ ls \in Int /\ lm \in Int /\ c \in Int
             /\ Within((2 * N) * (d * ls * c - m * lm - v), s * a + R + n * R + n * M + (2 * N) * (C + E))
  <1> DEFINE ls == RangeSubScale(s, R, a)
             lm == RangeSubScale(s, M, b)
             c == RangeLevel(n, s, R, M, ls, lm, v)
             W == v * s + M * lm
             D == R * ls
             r == s * a
             t == s * b
  <1>1. r \in Int /\ t \in Int /\ r \in Nat /\ t \in Nat
    BY Z3
  <1>2. ls \in Int /\ 0 <= ls /\ ls <= s /\ Within(2 * (R * ls) - 2 * r, R)
    <2> DEFINE p == r
    <2>1. p \in Int /\ p = s * a
      BY <1>1
    <2> HIDE DEF p
    <2>2. ls = IF R = 0 THEN 0 ELSE Clamp(nearestInt(p, R), 0, s)
      BY <2>1, Zenon DEF RangeSubScale
    <2>3. LET l == IF R = 0 THEN 0 ELSE Clamp(nearestInt(p, R), 0, s)
          IN  l \in Int /\ 0 <= l /\ l <= s /\ Within(2 * (R * l) - 2 * p, R)
      BY <2>1, RangeScaleNear, Zenon
    <2> HIDE DEF ls
    <2>4. ls \in Int /\ 0 <= ls /\ ls <= s /\ Within(2 * (R * ls) - 2 * p, R)
      BY <2>2, <2>3, Zenon
    <2> QED
      BY <2>1, <2>4, Zenon
  <1>3. lm \in Int /\ 0 <= lm /\ lm <= s /\ Within(2 * (M * lm) - 2 * t, M)
    <2> DEFINE p == t
    <2>1. p \in Int /\ p = s * b
      BY <1>1
    <2> HIDE DEF p
    <2>2. lm = IF M = 0 THEN 0 ELSE Clamp(nearestInt(p, M), 0, s)
      BY <2>1, Zenon DEF RangeSubScale
    <2>3. LET l == IF M = 0 THEN 0 ELSE Clamp(nearestInt(p, M), 0, s)
          IN  l \in Int /\ 0 <= l /\ l <= s /\ Within(2 * (M * l) - 2 * p, M)
      BY <2>1, RangeScaleNear, Zenon
    <2> HIDE DEF lm
    <2>4. lm \in Int /\ 0 <= lm /\ lm <= s /\ Within(2 * (M * lm) - 2 * p, M)
      BY <2>2, <2>3, Zenon
    <2> QED
      BY <2>1, <2>4, Zenon
  <1>4. R = 0 => ls = 0
    BY Zenon DEF RangeSubScale
  <1>5. c = IF ls = 0 THEN 0 ELSE Clamp(nearestInt(W * n, D), 0, n)
    BY Zenon DEF RangeLevel
  <1> HIDE DEF ls, lm, c
  <1>6. /\ W \in Int /\ -M <= 2 * W /\ 2 * W <= 2 * r + M /\ W * n \in Int
        /\ D \in Nat /\ (D = 0 <=> ls = 0)
    <2> DEFINE u == M * lm
               z == v * s
               k == v + b
    <2>1. u \in Int /\ z \in Int /\ z + t \in Int
      BY <1>1, <1>3, Z3
    <2>2. z + t = s * k /\ 0 <= s * k /\ s * k <= r
      BY Z3
    <2> DEFINE sk == s * k
    <2>3. z + t = sk /\ 0 <= sk /\ sk <= r
      BY <2>2, Zenon
    <2> HIDE DEF sk
    <2>4. Within(2 * u - 2 * t, M)
      BY <1>3, Zenon
    <2> HIDE DEF u, z, t, r
    <2>5. W = z + u
      BY Zenon DEF u, z
    <2>6. W \in Int /\ -M <= 2 * W /\ 2 * W <= 2 * r + M
      <3> HIDE DEF W
      <3> QED
        BY <1>1, <2>1, <2>3, <2>4, <2>5, SMT DEF Within
    <2>7. D \in Nat /\ (D = 0 <=> ls = 0)
      BY <1>2, <1>4, Z3
    <2>8. W * n \in Int
      <3> HIDE DEF W
      <3> QED
        BY <2>6, Z3
    <2> QED
      BY <2>6, <2>7, <2>8, Zenon
  <1>7. c \in Int /\ 0 <= c /\ c <= n /\ Within(2 * (c * D - W * n), r + R + n * R + n * M)
    <2> DEFINE p == W * n
               w == W
               z == D
               x == r
    <2>1. /\ p \in Int /\ p = w * n /\ w \in Int /\ -M <= 2 * w /\ 2 * w <= 2 * x + M
          /\ z \in Nat /\ x \in Nat /\ Within(2 * z - 2 * x, R)
          /\ c = IF z = 0 THEN 0 ELSE Clamp(nearestInt(p, z), 0, n)
      <3>1. c = IF D = 0 THEN 0 ELSE Clamp(nearestInt(p, D), 0, n)
        BY <1>5, <1>6, Zenon
      <3> QED
        BY <1>1, <1>2, <1>6, <3>1, Zenon
    <2> HIDE DEF p, w, z, x
    <2>2. LET k == IF z = 0 THEN 0 ELSE Clamp(nearestInt(w * n, z), 0, n)
          IN  k \in Int /\ 0 <= k /\ k <= n /\ Within(2 * (k * z - w * n), x + R + n * R + n * M)
      BY <2>1, RangeCodeNear, Zenon
    <2>3. c \in Int /\ 0 <= c /\ c <= n /\ Within(2 * (c * z - p), x + R + n * R + n * M)
      BY <2>1, <2>2, Zenon
    <2> QED
      BY <2>3, Zenon DEF p, z, x
  <1> DEFINE B == r + R + n * R + n * M
  <1>8. B \in Int
    <2>1. n * R \in Int /\ n * M \in Int
      BY Z3
    <2> HIDE DEF r
    <2> QED
      BY <1>1, <2>1, SMT
  <1>9. Within(2 * (c * (R * ls) - (v * s + M * lm) * n), B)
    BY <1>7, Zenon
  <1> HIDE DEF B
  <1>10. Within((2 * N) * (d * ls * c - m * lm - v), B + (2 * N) * (C + E))
    <2>1. /\ ls \in Int /\ 0 <= ls /\ ls <= s /\ lm \in Int /\ 0 <= lm /\ lm <= s
          /\ c \in Int /\ 0 <= c /\ c <= n
      BY <1>2, <1>3, <1>7, Zenon
    <2>2. RangeLaneNear(n, s, N, R, M, ls, lm, c, d, m, v, C, E, B)
      BY <1>8, <1>9, <2>1, RangeLane, Zenon
    <2> QED
      BY <2>2, Zenon DEF RangeLaneNear
  <1> QED
    BY <1>2, <1>3, <1>7, <1>10, Zenon DEF ls, lm, c, B

(* What the encoders of Q5_K, Q4_K and Q2_K measure: the minimum of every  *)
(* sub-block, its range, and the largest of both.                          *)
LEMMA RangeParts ==
  ASSUME NEW x \in Blocks, Max(Flat(x)) <= HalfMax
  PROVE  LET los == RangeLows(x)
             ranges == RangeSpans(x)
             R == MaxOf(ranges)
             M == -MinOf(los)
         IN  /\ R \in Nat /\ R <= 2 * HalfMax /\ R <= FloatMax /\ M \in Nat /\ M <= HalfMax
             /\ \A j \in DOMAIN x :
                  /\ los[j] \in Int /\ -los[j] \in Nat /\ -los[j] <= M
                  /\ ranges[j] \in Nat /\ ranges[j] <= R
                  /\ \A i \in DOMAIN x[j] : /\ Sane(x[j][i]) \in Int /\ 0 <= Sane(x[j][i]) + -los[j]
                                            /\ Sane(x[j][i]) + -los[j] <= ranges[j]
  <1> DEFINE los == RangeLows(x)
             ranges == RangeSpans(x)
             R == MaxOf(ranges)
             M == -MinOf(los)
             V == Max(Flat(x))
  <1>1. ASSUME NEW j \in DOMAIN x
        PROVE  /\ los[j] \in Int /\ -los[j] \in Nat /\ -HalfMax <= los[j] /\ los[j] <= 0
               /\ ranges[j] \in Int /\ ranges[j] \in Nat /\ ranges[j] <= 2 * HalfMax
               /\ \A i \in DOMAIN x[j] : /\ Sane(x[j][i]) \in Int /\ 0 <= Sane(x[j][i]) + -los[j]
                                         /\ Sane(x[j][i]) + -los[j] <= ranges[j]
    <2> DEFINE hi == MaxOf(x[j])
               least == MinOf(x[j])
               v(i) == Sane(x[j][i])
    <2>1. /\ least \in Int /\ Abs(least) <= V /\ hi \in Int /\ Abs(hi) <= V /\ least <= hi /\ V \in Nat
          /\ \A i \in DOMAIN x[j] : v(i) \in Int /\ least <= v(i) /\ v(i) <= hi
      BY SubBlockIs, Zenon
    <2>2. los[j] = Min({least, 0}) /\ ranges[j] = hi - los[j] /\ V <= HalfMax
      BY Zenon DEF RangeLows, RangeSpans
    <2> DEFINE l == los[j]
               r == ranges[j]
    <2>3. l = Min({least, 0}) /\ r = hi - l
      BY <2>2
    <2> HIDE DEF hi, least, los, ranges, V, v, l, r
    <2>4. Min({least, 0}) = IF least <= 0 THEN least ELSE 0
      BY <2>1, OfTwo, SMT
    <2>5. -HalfMax <= least /\ hi <= HalfMax /\ least <= hi
      BY <2>1, <2>2, NumbersAssumption, SMT DEF Abs
    <2>6. /\ l \in Int /\ -l \in Nat /\ -HalfMax <= l /\ l <= 0 /\ l <= least
          /\ r \in Int /\ r \in Nat /\ r <= 2 * HalfMax
      BY <2>1, <2>3, <2>4, <2>5, NumbersAssumption, SMT
    <2>7. \A i \in DOMAIN x[j] : v(i) \in Int /\ 0 <= v(i) + -l /\ v(i) + -l <= r
      BY <2>1, <2>3, <2>6, SMT
    <2> QED
      BY <2>6, <2>7, Zenon DEF l, r, v
  <1>2. DOMAIN x = 1 .. Len(x) /\ Len(x) \in Nat /\ Len(x) > 0
    BY BlockParts, Zenon
  <1>3. /\ los = [j \in 1 .. Len(x) |-> los[j]] /\ ranges = [j \in 1 .. Len(x) |-> ranges[j]]
    BY <1>2, Zenon DEF RangeLows, RangeSpans
  <1> DEFINE s == MinOf(los)
  <1>4. M = -s
    BY Zenon
  <1> HIDE DEF los, ranges, M
  <1>5. los \in Seq(Number) /\ los # <<>> /\ ranges \in Seq(Number) /\ ranges # <<>>
    <2>1. \A j \in 1 .. Len(x) : los[j] \in Number /\ ranges[j] \in Number
      BY <1>1, <1>2, Zenon DEF Number
    <2>2. los \in Seq(Number) /\ Len(los) = Len(x) /\ ranges \in Seq(Number) /\ Len(ranges) = Len(x)
      BY <1>2, <1>3, <2>1, SequenceOf, Zenon
    <2> QED
      BY <1>2, <2>2, SMT
  <1>6. DOMAIN los = DOMAIN x /\ DOMAIN ranges = DOMAIN x
    BY <1>2, <1>3, Zenon
  <1>7. \A j \in DOMAIN x : Sane(ranges[j]) = ranges[j] /\ Sane(los[j]) = los[j]
    BY <1>1, NumbersAssumption, Zenon DEF Sane
  <1>8. /\ R \in Int /\ \E j \in DOMAIN x : R = ranges[j]
        /\ s \in Int /\ \E j \in DOMAIN x : s = los[j]
        /\ \A j \in DOMAIN x : ranges[j] <= R /\ s <= los[j]
    <2>1. /\ R \in Int /\ \E j \in DOMAIN ranges : R = Sane(ranges[j])
          /\ s \in Int /\ \E j \in DOMAIN los : s = Sane(los[j])
          /\ \A j \in DOMAIN ranges : Sane(ranges[j]) <= R
          /\ \A j \in DOMAIN los : s <= Sane(los[j])
      BY <1>5, Measures, Zenon
    <2> HIDE DEF R, s
    <2> QED
      BY <1>6, <1>7, <2>1, Zenon
  <1> HIDE DEF R, s
  <1>9. R \in Nat /\ R <= 2 * HalfMax /\ s \in Int /\ -HalfMax <= s /\ s <= 0
    BY <1>1, <1>8, Zenon
  <1>10. R <= FloatMax /\ M \in Nat /\ M <= HalfMax
    BY <1>4, <1>9, NumbersAssumption, SMT
  <1>11. \A j \in DOMAIN x : -los[j] <= M
    BY <1>1, <1>4, <1>8, <1>9, SMT
  <1> QED
    BY <1>1, <1>8, <1>9, <1>10, <1>11, Zenon DEF los, ranges, R, M

(* What these formats read back.                                           *)
LEMMA RangeReadBack ==
  ASSUME NEW fmt \in DOMAIN RangeKinds, NEW x \in Blocks
  PROVE  LET f == RangeKinds[fmt]
             los == RangeLows(x)
             ranges == RangeSpans(x)
             R == MaxOf(ranges)
             M == -MinOf(los)
             d == Half(R, f.levels * f.scales)
             m == Half(M, f.scales)
             y == DecodeRange(EncodeRange(fmt, x))
             ls(j) == RangeSubScale(f.scales, R, ranges[j])
             lm(j) == RangeSubScale(f.scales, M, -los[j])
         IN  R \in Nat /\ R <= FloatMax => \A j \in DOMAIN x : \A i \in DOMAIN x[j] :
               y[j][i] = d * ls(j) * RangeLevel(f.levels, f.scales, R, M, ls(j), lm(j), Sane(x[j][i])) - m * lm(j)
  <1> DEFINE f == RangeKinds[fmt]
             los == RangeLows(x)
             ranges == RangeSpans(x)
             R == MaxOf(ranges)
             M == -MinOf(los)
             d == Half(R, f.levels * f.scales)
             m == Half(M, f.scales)
             b == EncodeRange(fmt, x)
             y == DecodeRange(b)
             ls(j) == RangeSubScale(f.scales, R, ranges[j])
             lm(j) == RangeSubScale(f.scales, M, -los[j])
             c(j, v) == RangeLevel(f.levels, f.scales, R, M, ls(j), lm(j), v)
             q == b.q
             s == b.s
             n == b.n
  <1> SUFFICES ASSUME R \in Nat, R <= FloatMax
               PROVE  \A j \in DOMAIN x : \A i \in DOMAIN x[j] : y[j][i] = d * ls(j) * c(j, Sane(x[j][i])) - m * lm(j)
    BY Zenon
  <1>0. ~(R > FloatMax)
    <2> HIDE DEF R
    <2> QED
      BY NumbersAssumption, SMT
  <1>1. /\ b.d = d /\ b.m = m
        /\ s = [j \in DOMAIN x |-> ls(j)]
        /\ n = [j \in DOMAIN x |-> lm(j)]
        /\ q = [j \in DOMAIN x |-> [i \in DOMAIN x[j] |-> c(j, Sane(x[j][i]))]]
    <2> DEFINE S1 == [j \in DOMAIN x |-> IF R = 0 \/ R > FloatMax THEN 0
                                        ELSE Clamp(nearestInt(f.scales * ranges[j], R), 0, f.scales)]
               N1 == [j \in DOMAIN x |-> IF M = 0 THEN 0
                                        ELSE Clamp(nearestInt(f.scales * (-los[j]), M), 0, f.scales)]
    <2>1. b.d = IF R > FloatMax THEN NonFinite ELSE d
      BY Zenon DEF RangeLows, RangeSpans, EncodeRange
    <2>2. b.m = m
      BY Zenon DEF RangeLows, RangeSpans, EncodeRange
    <2>3. s = S1
      BY Zenon DEF RangeLows, RangeSpans, EncodeRange
    <2>4. n = N1
      BY Zenon DEF RangeLows, RangeSpans, EncodeRange
    <2>5. q = [j \in DOMAIN x |-> [i \in DOMAIN x[j] |->
                 IF S1[j] = 0 THEN 0
                 ELSE Clamp(nearestInt((Sane(x[j][i]) * f.scales + M * N1[j]) * f.levels, R * S1[j]), 0, f.levels)]]
      BY Zenon DEF RangeLows, RangeSpans, EncodeRange, Codes
    <2>6. \A j \in DOMAIN x : S1[j] = ls(j) /\ N1[j] = lm(j)
      BY <1>0, Zenon DEF RangeSubScale
    <2>7. S1 = [j \in DOMAIN x |-> S1[j]] /\ N1 = [j \in DOMAIN x |-> N1[j]]
      BY Zenon
    <2> HIDE DEF S1, N1, ls, lm, b, s, n, q
    <2>8. s = [j \in DOMAIN x |-> ls(j)] /\ n = [j \in DOMAIN x |-> lm(j)]
      BY <2>3, <2>4, <2>6, <2>7, Zenon
    <2>9. q = [j \in DOMAIN x |-> [i \in DOMAIN x[j] |-> c(j, Sane(x[j][i]))]]
      BY <2>5, <2>6, Zenon DEF RangeLevel
    <2> QED
      BY <1>0, <2>1, <2>2, <2>8, <2>9, Zenon
  <1>2. y = [j \in DOMAIN q |-> [i \in DOMAIN q[j] |-> b.d * s[j] * q[j][i] - b.m * n[j]]]
    BY Zenon DEF DecodeRange
  <1> HIDE DEF b, q, s, n, y, d, m, ls, lm, c
  <1>3. \A j \in DOMAIN x : \A i \in DOMAIN x[j] : y[j][i] = d * ls(j) * c(j, Sane(x[j][i])) - m * lm(j)
    BY <1>1, <1>2, Zenon
  <1> QED
    BY <1>3 DEF d, m, y, ls, lm, c, b

(* Q5_K, Q4_K and Q2_K.                                                    *)
LEMMA RangeBlockNear ==
  ASSUME NEW fmt \in DOMAIN RangeKinds, NEW h, NEW x \in Blocks, InRange(fmt, x)
  PROVE  BlockNear(fmt, h, x, DecodeRange(EncodeRange(fmt, x)))
  <1> DEFINE f == RangeKinds[fmt]
             n == f.levels
             s == f.scales
             N == n * s
             y == DecodeRange(EncodeRange(fmt, x))
             los == RangeLows(x)
             ranges == RangeSpans(x)
             R == MaxOf(ranges)
             M == -MinOf(los)
             d == Half(R, N)
             m == Half(M, s)
             C == HalfCost(R, N)
             F == HalfCost(M, s)
             e == ErrorScale(fmt)
             E(j) == ErrorBound(fmt, h, x, j)
             v(j, i) == Sane(x[j][i])
             w(j, i) == y[j][i] - Den(fmt) * v(j, i)
             ls(j) == RangeSubScale(s, R, ranges[j])
             lm(j) == RangeSubScale(s, M, -los[j])
  <1>1. Max(Flat(x)) <= HalfMax
    <2>1. fmt \notin DOMAIN IntLevels /\ fmt \notin {"NVFP4", "MXFP4"}
      BY KindNames, SMT
    <2> QED
      BY <2>1, HalfRange, Zenon
  <1>2. /\ R \in Nat /\ R <= 2 * HalfMax /\ R <= FloatMax /\ M \in Nat /\ M <= HalfMax
        /\ \A j \in DOMAIN x :
             /\ los[j] \in Int /\ -los[j] \in Nat /\ -los[j] <= M
             /\ ranges[j] \in Nat /\ ranges[j] <= R
             /\ \A i \in DOMAIN x[j] : v(j, i) \in Int /\ 0 <= v(j, i) + -los[j] /\ v(j, i) + -los[j] <= ranges[j]
    BY <1>1, RangeParts, Zenon
  <1>3. /\ e = 2 * n * s /\ Den(fmt) = 1
        /\ \A j \in DOMAIN x : E(j) = s * ranges[j] + R + n * R + n * M + e * (C + F)
    <2>1. \A j \in DOMAIN x :
            /\ e = 2 * n * s /\ Den(fmt) = 1
            /\ E(j) = s * ranges[j] + R + n * R + n * M + e * (HalfCost(R, n * s) + HalfCost(M, s))
      BY ErrorRange, Zenon
    <2>2. \E j : j \in DOMAIN x
      BY BlockParts, Zenon
    <2> QED
      BY <2>1, <2>2, Zenon
  <1>4. n \in Nat /\ n > 0 /\ s \in Nat /\ s > 0 /\ N \in Nat /\ N >= 2
    BY KindNames, SMT DEF RangeKinds
  <1>5. \A j \in DOMAIN x : \A i \in DOMAIN x[j] :
          y[j][i] = d * ls(j) * RangeLevel(n, s, R, M, ls(j), lm(j), v(j, i)) - m * lm(j)
    BY <1>2, RangeReadBack, Zenon
  <1> HIDE DEF y, los, ranges, R, M, d, m, C, F, e, E, v, n, s, N, ls, lm
  <1>6. C \in Nat /\ d \in Int /\ Within(N * d - R, C)
    <2>1. N \in Int /\ N # 0 /\ Abs(N) = N /\ R \in Int /\ Abs(R) = R
      BY <1>2, <1>4, SMT DEF Abs
    <2>2. Abs(R) <= HalfMax * Abs(N)
      <3>1. R <= HalfMax * N
        BY <1>2, <1>4, NumbersAssumption, Z3
      <3> QED
        BY <2>1, <3>1, Zenon
    <2> DEFINE q == R
    <2>3. q \in Int /\ Abs(q) <= HalfMax * Abs(N)
      BY <2>1, <2>2
    <2> HIDE DEF q
    <2>4. HalfCost(q, Abs(N)) \in Nat /\ HalfCost(q, Abs(N)) = HalfCost(Abs(q), Abs(N)) /\ Half(q, N) \in Int
          /\ Within(N * Half(q, N) - q, HalfCost(q, Abs(N)))
      BY <2>1, <2>3, HalfError, Zenon
    <2> QED
      BY <2>1, <2>4, Zenon DEF C, d, q
  <1>7. F \in Nat /\ m \in Int /\ Within(s * m - M, F)
    <2>1. s \in Int /\ s # 0 /\ Abs(s) = s /\ M \in Int /\ Abs(M) = M
      BY <1>2, <1>4, SMT DEF Abs
    <2>2. Abs(M) <= HalfMax * Abs(s)
      <3>1. M <= HalfMax * s
        BY <1>2, <1>4, NumbersAssumption, Z3
      <3> QED
        BY <2>1, <3>1, Zenon
    <2> DEFINE q == M
    <2>3. q \in Int /\ Abs(q) <= HalfMax * Abs(s)
      BY <2>1, <2>2
    <2> HIDE DEF q
    <2>4. HalfCost(q, Abs(s)) \in Nat /\ HalfCost(q, Abs(s)) = HalfCost(Abs(q), Abs(s)) /\ Half(q, s) \in Int
          /\ Within(s * Half(q, s) - q, HalfCost(q, Abs(s)))
      BY <2>1, <2>3, HalfError, Zenon
    <2> QED
      BY <2>1, <2>4, Zenon DEF F, m, q
  <1>8. e = 2 * N /\ e \in Nat
    <2>1. 2 * n * s = 2 * N
      BY <1>4, Z3 DEF N
    <2> QED
      BY <1>3, <1>4, <2>1, SMT
  <1>9. ASSUME NEW j \in DOMAIN x
        PROVE  E(j) = s * ranges[j] + R + n * R + n * M + (2 * N) * (C + F) /\ E(j) \in Int
    <2> DEFINE a == ranges[j]
               K == C + F
    <2>1. E(j) = s * a + R + n * R + n * M + (2 * N) * K /\ a \in Nat
      BY <1>2, <1>3, <1>8, Zenon
    <2>2. K \in Nat
      BY <1>6, <1>7, SMT
    <2> HIDE DEF a, K, E
    <2>3. s * a \in Int /\ n * R \in Int /\ n * M \in Int /\ (2 * N) * K \in Int
      BY <1>2, <1>4, <2>1, <2>2, Z3
    <2>4. E(j) \in Int
      BY <1>2, <2>1, <2>3, SMT
    <2> QED
      BY <2>1, <2>4, Zenon DEF a, K
  <1>10. ASSUME NEW j \in DOMAIN x, NEW i \in DOMAIN x[j]
         PROVE  w(j, i) \in Int /\ Within(e * w(j, i), E(j))
    <2> DEFINE z == v(j, i)
               a == ranges[j]
               b == -los[j]
               l == RangeSubScale(s, R, a)
               k == RangeSubScale(s, M, b)
               c == RangeLevel(n, s, R, M, l, k, z)
    <2>1. /\ z \in Int /\ 0 <= z + b /\ z + b <= a /\ a \in Nat /\ a <= R /\ b \in Nat /\ b <= M
          /\ N = n * s
      BY <1>2, Zenon DEF N
    <2>2. y[j][i] = d * l * c - m * k
      BY <1>5, Zenon DEF ls, lm
    <2>3. /\ l \in Int /\ k \in Int /\ c \in Int
          /\ Within((2 * N) * (d * l * c - m * k - z), s * a + R + n * R + n * M + (2 * N) * (C + F))
      <3> HIDE DEF z, a, b
      <3>1. R \in Nat /\ M \in Nat /\ n \in Nat /\ n > 0 /\ s \in Nat /\ s > 0 /\ N \in Nat
        BY <1>2, <1>4, Zenon
      <3>2. /\ z \in Int /\ 0 <= z + b /\ z + b <= a /\ a \in Nat /\ a <= R /\ b \in Nat /\ b <= M
            /\ d \in Int /\ m \in Int /\ C \in Nat /\ F \in Nat /\ Within(N * d - R, C) /\ Within(s * m - M, F)
        BY <1>6, <1>7, <2>1, Zenon
      <3> QED
        BY <3>1, <3>2, RangeLevelNear, Zenon DEF N
    <2>4. Within(e * (d * l * c - m * k - z), E(j))
      BY <1>8, <1>9, <2>3, Zenon
    <2> HIDE DEF l, k, c, z
    <2>5. w(j, i) = d * l * c - m * k - z /\ w(j, i) \in Int
      <3> DEFINE g == d * l * c
                 o == m * k
      <3>1. g \in Int /\ o \in Int
        BY <1>6, <1>7, <2>3, Z3
      <3>2. y[j][i] = g - o
        BY <2>2, Zenon
      <3> HIDE DEF g, o
      <3>3. w(j, i) = g - o - z /\ w(j, i) \in Int
        BY <1>3, <2>1, <3>1, <3>2, SMT DEF z
      <3> QED
        BY <3>3, Zenon DEF g, o
    <2> QED
      BY <2>4, <2>5, Zenon
  <1> QED
    <2>0. e = ErrorScale(fmt)
      BY Zenon DEF e
    <2>1. \A j \in DOMAIN x : ErrorBound(fmt, h, x, j) \in Int
      BY <1>9, Zenon DEF E
    <2>2. \A j \in DOMAIN x : \A i \in DOMAIN x[j] :
            LET u == y[j][i] - Den(fmt) * Sane(x[j][i])
            IN  u \in Int /\ Within(e * u, ErrorBound(fmt, h, x, j))
      BY <1>10, Zenon DEF E, v
    <2>3. BlockNear(fmt, h, x, y)
      BY <1>8, <2>0, <2>1, <2>2, NearLanes, Zenon
    <2> QED
      BY <2>3, Zenon DEF y

-----------------------------------------------------------------------------
(* The inductive invariant.  CallInv, BackInv and RetInv carry what is     *)
(* needed to know the stream CompressReturn keeps, and HeldInv what it     *)
(* is.                                                                     *)

Codecs == Dispatched \cup Foreign \cup {Unsupported}

(* A call, whatever has become of it.                                      *)
IsCall(c) ==
  /\ c = [op |-> c.op, fmt |-> c.fmt, in |-> c.in, header |-> c.header, bytes |-> c.bytes,
          extra |-> c.extra, need |-> c.need, room |-> c.room, to |-> c.to, began |-> c.began,
          out |-> c.out, saved |-> c.saved]
  /\ c.op \in {"compress", "decompress"}
  /\ c.bytes \in Nat /\ c.need \in Nat /\ c.room \in Nat /\ c.to \in Int

(* The stream of a tensor, block by block.                                 *)
IsStream(fmt, kernels, s) ==
  /\ s = [header |-> s.header, source |-> s.source, blocks |-> s.blocks,
          damaged |-> s.damaged, first |-> s.first]
  /\ s.source \in Seq(BlockOf(fmt))
  /\ s.blocks = [k \in 1 .. Len(s.source) |-> s.blocks[k]]
  /\ s.damaged \in BOOLEAN
  /\ fmt \in Scalars => ~s.damaged
  /\ ~s.damaged =>
       /\ s.header \in Int /\ (fmt # "NVFP4" => s.header = 0)
       /\ \A k \in 1 .. Len(s.source) : s.blocks[k] = Compressed(fmt, kernels, s.header, s.source[k])

(* x is what was read from the stream s.                                   *)
Repeats(fmt, x, s) ==
  /\ fmt \in Fixed /\ ~s.damaged /\ Len(x) = Len(s.source)
  /\ \A k \in 1 .. Len(x) : /\ ~Unreadable(fmt, s.blocks[k])
                            /\ x[k] = Reread(fmt, Decompressed(fmt, 0, s.blocks[k]))

(* A compression has come as far as c.out; h is the stream held, from      *)
(* which the tensor was read if there is one.                              *)
Compressing(fmt, kernels, c, h) ==
  /\ c.in \in Seq(BlockOf(fmt))
  /\ c.header \in Int /\ (fmt # "NVFP4" => c.header = 0)
  /\ c.need = compressedSize(fmt, c.in)
  /\ c.out = [k \in 1 .. Len(c.out) |-> Compressed(fmt, kernels, c.header, c.in[k])]
  /\ h # None => h.first = None /\ Repeats(fmt, c.in, h)

(* A decompression of the stream h has come as far as c.out.               *)
Decompressing(fmt, c, h) ==
  /\ h # None /\ c.in = h.blocks /\ c.header = h.header /\ Len(c.in) = Len(h.source)
  /\ c.need = TensorBytes(fmt, c.in)
  /\ c.out = [k \in 1 .. Len(c.out) |-> Decompressed(fmt, c.header, c.in[k])]
  /\ \A k \in 1 .. Len(c.out) : ~Unreadable(fmt, c.in[k])

(* A call in progress.                                                     *)
InProgress(fmt, kernels, mode, c, h) ==
  /\ IsCall(c) /\ c.began = TRUE /\ c.fmt = fmt /\ c.saved = mode
  /\ ~Rejected(c)
  /\ Len(c.in) \in Nat /\ Len(c.out) \in Nat /\ Len(c.out) <= Len(c.in)
  /\ c.op = "compress" => Compressing(fmt, kernels, c, h)
  /\ c.op = "decompress" => Decompressing(fmt, c, h)

(* A stream the caller keeps.                                              *)
Kept(fmt, kernels, h) ==
  /\ fmt # Unsupported /\ IsStream(fmt, kernels, h)
  /\ h.first # None => IsStream(fmt, kernels, h.first) /\ Repeats(fmt, h.source, h.first)

(* What has been read from it.                                             *)
ReadFrom(fmt, b, h) ==
  /\ h # None
  /\ b = [k \in 1 .. Len(h.source) |-> Decompressed(fmt, h.header, h.blocks[k])]
  /\ \A k \in 1 .. Len(h.source) : ~Unreadable(fmt, h.blocks[k])

(* "Rightful" of the stream h instead of the one held.                     *)
RightfulOf(c, h) ==
  \/ c.fmt = Unsupported \/ c.extra # 0 \/ c.room < c.need
  \/ Meet(c.to, c.need, Base, c.bytes)
  \/ c.op = "decompress" /\ (h.damaged \/ \E k \in DOMAIN c.in : ~InRange(c.fmt, h.source[k]))

(* How a call ended.                                                       *)
Ended(r, h) ==
  /\ StaysInRoom(r.call)
  /\ r.value # 0 => r.value = Written(r.call)
  /\ r.value = 0 /\ 0 \notin {r.call.bytes, r.call.need} => RightfulOf(r.call, h) /\ OnlyPrefix(r.call)

SlotInv == adapter \in Codecs
ModeInv == callerMode \in BOOLEAN /\ (call = Idle => ftz = callerMode)
CallInv ==
  call # Idle => /\ InProgress(adapter, build, callerMode, call, held)
                 /\ call.op = "decompress" => ftz = callerMode
HeldInv == held # None => Kept(adapter, build, held)
BackInv == back # None => ReadFrom(adapter, back, held)
RetInv == ret # None => Ended(ret, held)

Inv == SlotInv /\ ModeInv /\ CallInv /\ HeldInv /\ BackInv /\ RetInv

-----------------------------------------------------------------------------
(* Sizes and places. *)

LEMMA AdaptersAre ==
  /\ "INT8" \in Codecs
  /\ \A a \in Adapters : a = None \/ a \in Codecs
  <1>1. "INT8" \in Codecs
    BY FormatNames, SMT DEF Codecs
  <1>2. \A name \in DOMAIN Registry : Registry[name] \in Dispatched
    BY FormatNames, SMT DEF Registry
  <1>3. \A name : adapterByName(name) = None \/ adapterByName(name) \in Dispatched
    BY <1>2, Zenon DEF adapterByName
  <1>4. "FP32" \in Dispatched
    BY FormatNames, SMT
  <1>5. ASSUME NEW a \in Adapters PROVE a = None \/ a \in Codecs
    <2>1. \/ \E name \in DOMAIN Registry \cup {"other"} : a = adapterByName(name)
          \/ a \in Foreign \/ a = "FP32" \/ a = Unsupported
      BY <1>5, SMT DEF Adapters
    <2> QED
      BY <1>3, <1>4, <2>1, Zenon DEF Codecs
  <1> QED
    BY <1>1, <1>5, Zenon

(* The sizes of a block are whole numbers, and only those of the scalar    *)
(* formats depend on the block.                                            *)
LEMMA LayoutBytes ==
  ASSUME NEW fmt \in BlockFormats \cup DOMAIN GridKinds
  PROVE  Layouts[fmt].bytes \in Nat
  BY FormatNames, KindNames, SMT DEF Layouts, Layout

(* The sizes of a block depend on the format and on its number of          *)
(* elements alone.                                                         *)
LEMMA BlockSizes ==
  ASSUME NEW fmt \in Codecs, NEW a, fmt \in Scalars => Len(a) \in Nat
  PROVE  /\ InBytes(fmt, a) \in Nat
         /\ fmt # Unsupported => OutBytes(fmt, a) \in Nat
         /\ \A b : (fmt \in Scalars => Len(b) = Len(a)) =>
                     InBytes(fmt, b) = InBytes(fmt, a) /\ OutBytes(fmt, b) = OutBytes(fmt, a)
  <1>1. CASE fmt \in Scalars
    <2>1. Len(a) \in Nat
      BY <1>1
    <2> DEFINE w == CASE fmt = "FP32" -> 4 [] fmt \in {"BF16", "FP16"} -> 2 [] OTHER -> 1
    <2>2. w \in Nat
      BY SMT
    <2>3. \A b : InBytes(fmt, b) = 4 * Len(b) /\ OutBytes(fmt, b) = Len(b) * w
      BY <1>1, Zenon DEF InBytes, OutBytes
    <2> HIDE DEF w
    <2>4. 4 * Len(a) \in Nat /\ Len(a) * w \in Nat
      BY <2>1, <2>2, SMT
    <2> QED
      BY <1>1, <2>3, <2>4, Zenon
  <1>2. CASE fmt \notin Scalars
    <2>1. \A b : InBytes(fmt, b) = 4 * Elements(fmt) /\ OutBytes(fmt, b) = Layouts[fmt].bytes
      BY <1>2, Zenon DEF InBytes, OutBytes
    <2>2. 4 * Elements(fmt) \in Nat
      BY SMT DEF Elements
    <2>3. fmt # Unsupported => Layouts[fmt].bytes \in Nat
      <3>1. fmt # Unsupported => fmt \in BlockFormats \cup DOMAIN GridKinds
        BY <1>2, FormatNames, SMT DEF Codecs
      <3> QED
        BY <3>1, LayoutBytes, Zenon
    <2> QED
      BY <2>1, <2>2, <2>3, Zenon
  <1> QED
    BY <1>1, <1>2, Zenon

(* The sizes of the blocks, as a sequence. *)
LEMMA SizesSeq ==
  ASSUME NEW n \in Nat, NEW b, DOMAIN b = 1 .. n, NEW s, s = [k \in DOMAIN b |-> s[k]],
         \A k \in 1 .. n : s[k] \in Nat
  PROVE  s \in Seq(Nat) /\ Len(s) = n
  <1>1. s = [k \in 1 .. n |-> s[k]]
    BY Zenon
  <1> QED
    BY <1>1, SequenceOf, Zenon

(* The first m of n blocks; those of a scalar format are as long as the    *)
(* ones they stand for.                                                    *)
Beginning(fmt, part, m, whole, n) ==
  /\ n \in Nat /\ m \in Nat /\ m <= n /\ DOMAIN whole = 1 .. n /\ DOMAIN part = 1 .. m
  /\ fmt \in Scalars => /\ \A k \in 1 .. n : Len(whole[k]) \in Nat
                        /\ \A k \in 1 .. m : Len(part[k]) = Len(whole[k])

(* The beginning of a tensor takes no more than all of it, before and      *)
(* after it is compressed.                                                 *)
LEMMA PartFits ==
  ASSUME NEW fmt \in Codecs, NEW part, NEW m, NEW whole, NEW n, Beginning(fmt, part, m, whole, n)
  PROVE  /\ TensorBytes(fmt, whole) \in Nat /\ TensorBytes(fmt, part) \in Nat
         /\ TensorBytes(fmt, part) <= TensorBytes(fmt, whole)
         /\ m = n => TensorBytes(fmt, part) = TensorBytes(fmt, whole)
         /\ fmt # Unsupported =>
              /\ compressedSize(fmt, whole) \in Nat /\ compressedSize(fmt, part) \in Nat
              /\ compressedSize(fmt, part) <= compressedSize(fmt, whole)
              /\ m = n => compressedSize(fmt, part) = compressedSize(fmt, whole)
  <1>a. /\ n \in Nat /\ m \in Nat /\ m <= n /\ DOMAIN whole = 1 .. n /\ DOMAIN part = 1 .. m
        /\ \A k \in 1 .. n : fmt \in Scalars => Len(whole[k]) \in Nat
        /\ \A k \in 1 .. m : fmt \in Scalars => Len(part[k]) = Len(whole[k])
    BY Zenon DEF Beginning
  <1>0. \A k \in 1 .. m : k \in 1 .. n
    BY <1>a, SMT
  <1>1. /\ \A k \in 1 .. n : InBytes(fmt, whole[k]) \in Nat
        /\ \A k \in 1 .. m : InBytes(fmt, part[k]) = InBytes(fmt, whole[k])
        /\ fmt # Unsupported => \A k \in 1 .. n : OutBytes(fmt, whole[k]) \in Nat
        /\ \A k \in 1 .. m : OutBytes(fmt, part[k]) = OutBytes(fmt, whole[k])
    BY <1>a, <1>0, BlockSizes, Zenon
  <1> DEFINE si == [k \in DOMAIN whole |-> InBytes(fmt, whole[k])]
             pi == [k \in DOMAIN part |-> InBytes(fmt, part[k])]
             so == [k \in DOMAIN whole |-> OutBytes(fmt, whole[k])]
             po == [k \in DOMAIN part |-> OutBytes(fmt, part[k])]
  <1>2. /\ si = [k \in DOMAIN whole |-> si[k]] /\ \A k \in 1 .. n : si[k] = InBytes(fmt, whole[k])
        /\ pi = [k \in DOMAIN part |-> pi[k]] /\ \A k \in 1 .. m : pi[k] = InBytes(fmt, part[k])
        /\ so = [k \in DOMAIN whole |-> so[k]] /\ \A k \in 1 .. n : so[k] = OutBytes(fmt, whole[k])
        /\ po = [k \in DOMAIN part |-> po[k]] /\ \A k \in 1 .. m : po[k] = OutBytes(fmt, part[k])
    BY <1>a, Zenon
  <1>3. /\ TensorBytes(fmt, whole) = Total(si) /\ TensorBytes(fmt, part) = Total(pi)
        /\ compressedSize(fmt, whole) = HeaderBytes(fmt) + Total(so)
        /\ compressedSize(fmt, part) = HeaderBytes(fmt) + Total(po)
    BY Zenon DEF TensorBytes, compressedSize
  <1> HIDE DEF si, pi, so, po
  <1>4. si \in Seq(Nat) /\ Len(si) = n /\ pi \in Seq(Nat) /\ Len(pi) = m
    <2>1. (\A k \in 1 .. n : si[k] \in Nat) /\ \A k \in 1 .. m : pi[k] \in Nat
      BY <1>a, <1>0, <1>1, <1>2, Zenon
    <2> QED
      BY <1>2, <2>1, <1>a, SizesSeq, Zenon
  <1>5. /\ Total(si) \in Nat /\ Total(pi) \in Nat /\ Total(pi) <= Total(si)
        /\ m = n => Total(pi) = Total(si)
    <2>1. \A k \in 1 .. Len(pi) : pi[k] = si[k]
      <3>1. ASSUME NEW k \in 1 .. m
            PROVE  pi[k] = si[k]
        <4>1. pi[k] = InBytes(fmt, part[k]) /\ si[k] = InBytes(fmt, whole[k])
          BY <1>0, <1>2, Zenon
        <4>2. InBytes(fmt, part[k]) = InBytes(fmt, whole[k])
          BY <1>1, Zenon
        <4> QED
          BY <4>1, <4>2, Zenon
      <3>2. Len(pi) = m
        BY <1>4, Zenon
      <3> QED
        BY <3>1, <3>2, Zenon
    <2>2. Len(pi) <= Len(si)
      BY <1>a, <1>4, SMT
    <2> QED
      BY <1>4, <2>1, <2>2, <1>a, TotalOfPrefix, Zenon
  <1>6. ASSUME fmt # Unsupported
        PROVE  /\ Total(so) \in Nat /\ Total(po) \in Nat /\ Total(po) <= Total(so)
               /\ m = n => Total(po) = Total(so)
    <2>0. so \in Seq(Nat) /\ Len(so) = n /\ po \in Seq(Nat) /\ Len(po) = m
      <3>1. (\A k \in 1 .. n : so[k] \in Nat) /\ \A k \in 1 .. m : po[k] \in Nat
        BY <1>a, <1>0, <1>1, <1>2, <1>6, ZenonT(60)
      <3> QED
        BY <1>2, <3>1, <1>a, SizesSeq, Zenon
    <2>1. \A k \in 1 .. Len(po) : po[k] = so[k]
      <3>1. ASSUME NEW k \in 1 .. m
            PROVE  po[k] = so[k]
        <4>1. po[k] = OutBytes(fmt, part[k]) /\ so[k] = OutBytes(fmt, whole[k])
          BY <1>0, <1>2, Zenon
        <4>2. OutBytes(fmt, part[k]) = OutBytes(fmt, whole[k])
          BY <1>1, Zenon
        <4> QED
          BY <4>1, <4>2, Zenon
      <3>2. Len(po) = m
        BY <2>0, Zenon
      <3> QED
        BY <3>1, <3>2, Zenon
    <2>2. Len(po) <= Len(so)
      BY <1>a, <2>0, SMT
    <2> QED
      BY <2>0, <2>1, <2>2, <1>a, TotalOfPrefix, Zenon
  <1>7. HeaderBytes(fmt) \in Nat
    BY SMT DEF HeaderBytes
  <1> QED
    BY <1>3, <1>5, <1>6, <1>7, SMT

(* The ranges of two spans. *)
LEMMA Disjoint ==
  ASSUME NEW bytes \in Nat, NEW to \in Int, NEW need \in Nat, NEW w \in Nat, w <= need,
         ~spansOverlap(Base, bytes, to, need)
  PROVE  ~Meet(to, w, Base, bytes)
  BY SMT DEF spansOverlap, Meet, Base

(* No bytes meet no others. *)
LEMMA NothingMeets ==
  ASSUME NEW bytes \in Nat, NEW to \in Int
  PROVE  ~Meet(to, 0, Base, bytes)
  BY SMT DEF Meet, Base

(* spansOverlap is true of ranges with a byte in common only, if neither   *)
(* is empty.                                                               *)
LEMMA Overlapping ==
  ASSUME NEW bytes \in Nat, NEW to \in Int, NEW need \in Nat, bytes # 0, need # 0,
         spansOverlap(Base, bytes, to, need)
  PROVE  Meet(to, need, Base, bytes)
  <1>1. CASE Base <= to
    <2>1. to \in (to .. to + need - 1) \cap (Base .. Base + bytes - 1)
      BY <1>1, SMT DEF spansOverlap, Base
    <2> QED
      BY <2>1, Zenon DEF Meet
  <1>2. CASE ~(Base <= to)
    <2>1. Base \in (to .. to + need - 1) \cap (Base .. Base + bytes - 1)
      BY <1>2, SMT DEF spansOverlap, Base
    <2> QED
      BY <2>1, Zenon DEF Meet
  <1> QED
    BY <1>1, <1>2, Zenon

(* A finite set of numbers stays one when 0 joins it. *)
LEMMA WithZero ==
  ASSUME NEW T \in SUBSET Nat, IsFiniteSet(T)
  PROVE  IsFiniteSet(T \cup {0}) /\ T \cup {0} # {} /\ T \cup {0} \in SUBSET Int
  <1>1. IsFiniteSet(T \cup {0})
    BY FS_AddElement, Zenon
  <1>2. T \cup {0} \in SUBSET Int
    BY SMT
  <1> QED
    BY <1>1, <1>2, Zenon

(* The header of a tensor is a number. *)
LEMMA HeaderTyped ==
  ASSUME NEW fmt \in Codecs, NEW n \in Nat, NEW x, DOMAIN x = 1 .. n, \A k \in 1 .. n : x[k] \in Blocks
  PROVE  Header(x) \in Int
  <1> DEFINE f == [k \in 1 .. n |-> Flat(x[k])]
             U == {f[k] : k \in 1 .. n}
             V == {Flat(x[k]) : k \in DOMAIN x}
  <1>1. U = V
    BY Zenon
  <1>2. f = [k \in 1 .. n |-> f[k]] /\ \A k \in 1 .. n : f[k] \in SUBSET Nat /\ IsFiniteSet(f[k])
    BY FlatIs, Zenon
  <1>3. IsFiniteSet(1 .. n)
    BY FS_Interval, SMT
  <1> HIDE DEF f
  <1>4. IsFiniteSet(U)
    BY <1>2, <1>3, ImageFinite, Zenon
  <1>5. IsFiniteSet(UNION U) /\ UNION U \in SUBSET Nat
    <2>1. \A W \in U : IsFiniteSet(W) /\ W \in SUBSET Nat
      BY <1>2, Zenon
    <2> HIDE DEF U
    <2> QED
      BY <1>4, <2>1, FS_UNION, Zenon
  <1> DEFINE R == (UNION V) \cup {0}
  <1>6. IsFiniteSet(UNION V) /\ UNION V \in SUBSET Nat
    <2> HIDE DEF U, V
    <2> QED
      BY <1>1, <1>5
  <1>7. Header(x) = Max(R) \div HeaderUnit
    BY Zenon DEF Header
  <1>8. IsFiniteSet(R) /\ R # {} /\ R \in SUBSET Int
    <2> DEFINE T == UNION V
    <2>1. IsFiniteSet(T) /\ T \in SUBSET Nat /\ R = T \cup {0}
      <3> HIDE DEF V
      <3> QED
        BY <1>6
    <2> HIDE DEF T, R
    <2> QED
      BY <2>1, WithZero, Zenon
  <1> HIDE DEF R
  <1>9. Max(R) \in Int
    BY <1>8, MaxIs, Zenon
  <1> QED
    BY <1>7, <1>9, SMT DEF HeaderUnit

-----------------------------------------------------------------------------
(* What the invariant says of one block. *)

(* A block of a scalar format keeps its length and holds one code for each *)
(* number, the nearest one, and reads as numbers again.                    *)
LEMMA ScalarBlock ==
  ASSUME NEW fmt \in Scalars, NEW kernels, NEW h, NEW g, NEW x \in Seq(Fp32)
  PROVE  LET blk == Compressed(fmt, kernels, h, x)
         IN  /\ Len(blk) = Len(x) /\ DOMAIN blk = 1 .. Len(x) /\ Len(x) \in Nat
             /\ fmt \in Narrowed => \A i \in DOMAIN blk : blk[i] \in CodeOf(fmt) /\ RightCode(fmt, x[i], blk[i])
             /\ Decompressed(fmt, g, blk) \in Seq(Fp32)
             /\ Len(Decompressed(fmt, g, blk)) = Len(x)
  <1>0. Len(x) \in Nat /\ DOMAIN x = 1 .. Len(x) /\ \A i \in 1 .. Len(x) : x[i] \in Fp32
    BY SMT
  <1>1. CASE fmt = "FP32"
    <2>1. Compressed(fmt, kernels, h, x) = x
      BY <1>1, Dispatch, SMT
    <2>2. Decompressed(fmt, g, x) = x
      BY <1>1, DispatchBack, Zenon
    <2>3. fmt \notin Narrowed
      BY <1>1, SMT DEF Narrowed
    <2> QED
      BY <1>0, <2>1, <2>2, <2>3, Zenon
  <1>2. CASE fmt # "FP32"
    <2>1. fmt \in Narrowed
      BY <1>2, Zenon DEF Scalars
    <2>2. Compressed(fmt, kernels, h, x) = EncodeScalar(fmt, kernels, x)
      <3>1. fmt \notin DOMAIN GridKinds
        BY <2>1, KindNames, SMT DEF Narrowed
      <3> QED
        BY <1>2, <2>1, <3>1, SMT DEF Compressed
    <2> DEFINE C(i) == IF fmt = "BF16" /\ kernels = "avx512" /\ i <= 16 * (Len(x) \div 16)
                       THEN BF16Lane(x[i]) ELSE Encode(fmt, x[i])
    <2> DEFINE blk == [i \in 1 .. Len(x) |-> C(i)]
    <2>3. Compressed(fmt, kernels, h, x) = blk
      BY <1>0, <2>2, Zenon DEF EncodeScalar
    <2>4. \A i \in 1 .. Len(x) : (C(i) = BF16Lane(x[i]) /\ fmt = "BF16") \/ C(i) = Encode(fmt, x[i])
      BY Zenon
    <2> HIDE DEF C
    <2>5. \A i \in 1 .. Len(x) : C(i) \in CodeOf(fmt) /\ RightCode(fmt, x[i], C(i))
      <3> TAKE i \in 1 .. Len(x)
      <3>1. x[i] \in Fp32
        BY <1>0, Zenon
      <3>2. Encode(fmt, x[i]) \in CodeOf(fmt) /\ BF16Lane(x[i]) \in CodeOf("BF16")
        BY <2>1, <3>1, EncodeTyped, Zenon
      <3>3. RightCode(fmt, x[i], Encode(fmt, x[i])) /\ RightCode("BF16", x[i], BF16Lane(x[i]))
        BY <2>1, <3>1, EncodeRight, LaneRight, Zenon
      <3> QED
        BY <2>4, <3>2, <3>3, Zenon
    <2>6. DOMAIN blk = 1 .. Len(x) /\ \A i \in 1 .. Len(x) : blk[i] = C(i)
      BY Zenon
    <2>7. Len(blk) = Len(x) /\ blk = [i \in 1 .. Len(x) |-> blk[i]]
      BY <1>0, SMT
    <2> HIDE DEF blk
    <2>8. Decompressed(fmt, g, blk) = [i \in 1 .. Len(x) |-> Decode(fmt, blk[i])]
      <3>1. Decompressed(fmt, g, blk) = [i \in DOMAIN blk |-> Decode(fmt, blk[i])]
        <4>1. fmt \notin DOMAIN GridKinds
          BY <2>1, KindNames, SMT DEF Narrowed
        <4> QED
          BY <1>2, <2>1, <4>1, SMT DEF Decompressed
      <3> QED
        BY <2>6, <3>1
    <2> DEFINE y == [i \in 1 .. Len(x) |-> Decode(fmt, blk[i])]
    <2>9. y = [i \in 1 .. Len(x) |-> y[i]] /\ \A i \in 1 .. Len(x) : y[i] \in Fp32
      BY <2>1, <2>5, <2>6, DecodeTyped, Zenon
    <2>10. Decompressed(fmt, g, blk) = y
      BY <2>8
    <2> HIDE DEF y
    <2>11. y \in Seq(Fp32) /\ Len(y) = Len(x)
      BY <1>0, <2>9, SequenceOf, Zenon
    <2> QED
      BY <1>0, <2>3, <2>5, <2>6, <2>7, <2>10, <2>11, Zenon
  <1> QED
    BY <1>1, <1>2, Zenon

(* The compressed scalar block has as many codes as the block numbers. *)
LEMMA ScalarSize ==
  ASSUME NEW fmt \in Scalars, NEW kernels, NEW h, NEW x \in Seq(Fp32)
  PROVE  Len(Compressed(fmt, kernels, h, x)) = Len(x) /\ Len(x) \in Nat
  <1>1. /\ Len(Compressed(fmt, kernels, h, x)) = Len(x) /\ Len(x) \in Nat
        /\ Len(Decompressed(fmt, h, Compressed(fmt, kernels, h, x))) = Len(x)
    BY ScalarBlock, SMT
  <1> QED
    BY <1>1, Zenon

(* What is read from a stream of a format that keeps its codes is a block  *)
(* that can be compressed again.                                           *)
LEMMA ReadTyped ==
  ASSUME NEW fmt \in Fixed, NEW kernels, NEW h, NEW g, NEW x \in BlockOf(fmt),
         ~Unreadable(fmt, Compressed(fmt, kernels, h, x))
  PROVE  Reread(fmt, Decompressed(fmt, g, Compressed(fmt, kernels, h, x))) \in BlockOf(fmt)
  <1>1. CASE fmt \in Scalars
    <2>1. BlockOf(fmt) = Seq(Fp32)
      BY <1>1, BlockOfIs, Zenon
    <2>2. fmt # "MXFP4"
      BY <1>1, FormatNames, SMT
    <2>3. \A y : Reread(fmt, y) = y
      BY <2>2, Zenon DEF Reread
    <2> QED
      BY <1>1, <2>1, <2>3, ScalarBlock, Zenon
  <1>2. CASE fmt \notin Scalars
    <2>1. fmt \in BlockFormats
      BY <1>2, FormatNames, SMT
    <2>2. BlockOf(fmt) = [1 .. 1 -> SubBlocks] /\ x \in Blocks
      <3>1. fmt \notin Layered
        BY <1>2, FormatNames, KindNames, SMT DEF Layered
      <3> QED
        BY <2>1, <3>1, BlockOfIs, Zenon
    <2>3. ~Refused(fmt, Compressed(fmt, kernels, h, x))
      BY <1>2, Zenon DEF Unreadable
    <2>4. fmt \in Fixed \ Scalars
      BY <1>2, Zenon
    <2> DEFINE y == Reread(fmt, Decompressed(fmt, g, Compressed(fmt, kernels, h, x)))
    <2>5. y \in Blocks /\ DOMAIN y = 1 .. 1
      <3>1. Alike(x, y)
        BY <2>2, <2>3, <2>4, DecodedTyped, Zenon
      <3> QED
        BY <2>2, <3>1, Zenon DEF Alike
    <2> HIDE DEF y
    <2>6. y \in [1 .. 1 -> SubBlocks]
      BY <2>5, SMT DEF Blocks
    <2> QED
      BY <2>2, <2>6, Zenon DEF y
  <1> QED
    BY <1>1, <1>2, Zenon

(* Scalars can always be read; the blocks of a tensor in range too.        *)
LEMMA InRangeReadable ==
  ASSUME NEW fmt \in Codecs, fmt # Unsupported, NEW kernels, NEW h, NEW x \in BlockOf(fmt),
         Unreadable(fmt, Compressed(fmt, kernels, h, x))
  PROVE  /\ fmt \notin Scalars /\ ~InRange(fmt, x)
         /\ NonFinite \in {Compressed(fmt, kernels, h, x).d, Compressed(fmt, kernels, h, x).m}
  <1>1. fmt \notin Scalars /\ Refused(fmt, Compressed(fmt, kernels, h, x))
    BY Zenon DEF Unreadable
  <1>2. fmt \in BlockFormats \cup DOMAIN GridKinds
    BY <1>1, FormatNames, SMT DEF Codecs
  <1> QED
    BY <1>1, <1>2, ScalesFinite, Zenon DEF Refused

(* A block that can be read, of the others, has no scale that is not finite. *)
LEMMA ReadableScales ==
  ASSUME NEW fmt \in Codecs, NEW blk, Unreadable(fmt, blk), NEW other, ~Unreadable(fmt, other)
  PROVE  NonFinite \in {blk.d, blk.m} /\ NonFinite \notin {other.d, other.m}
  BY Zenon DEF Unreadable, Refused

-----------------------------------------------------------------------------
(* The actions, one by one. *)

(* How far a call has come takes no more room than the whole of it.        *)
LEMMA ProgressFits ==
  ASSUME NEW fmt \in Codecs, NEW kernels, NEW mode, NEW h, NEW c,
         InProgress(fmt, kernels, mode, c, h), h # None => Kept(fmt, kernels, h)
  PROVE  /\ Written(c) \in Nat /\ Written(c) <= c.need
         /\ Len(c.out) = Len(c.in) => Written(c) = c.need
         /\ StaysInRoom(c)
  <1>1. /\ IsCall(c) /\ c.began = TRUE /\ c.fmt = fmt /\ ~Rejected(c)
        /\ Len(c.in) \in Nat /\ Len(c.out) \in Nat /\ Len(c.out) <= Len(c.in)
        /\ c.op = "compress" => Compressing(fmt, kernels, c, h)
        /\ c.op = "decompress" => Decompressing(fmt, c, h)
    BY Zenon DEF InProgress
  <1>2. /\ c.op \in {"compress", "decompress"}
        /\ c.bytes \in Nat /\ c.need \in Nat /\ c.room \in Nat /\ c.to \in Int
    BY <1>1, Zenon DEF IsCall
  <1>3. fmt # Unsupported /\ ~(c.room < c.need) /\ ~spansOverlap(Base, c.bytes, c.to, c.need)
    BY <1>1, Zenon DEF Rejected
  <1> DEFINE n == Len(c.in)
             m == Len(c.out)
  <1>4. n \in Nat /\ m \in Nat /\ m <= n
    BY <1>1
  <1>5. ASSUME c.op = "compress"
        PROVE  /\ Written(c) \in Nat /\ Written(c) <= c.need
               /\ m = n => Written(c) = c.need
    <2>1. /\ c.in \in Seq(BlockOf(fmt)) /\ c.need = compressedSize(fmt, c.in)
          /\ c.out = [k \in 1 .. m |-> Compressed(fmt, kernels, c.header, c.in[k])]
      BY <1>1, <1>5, Zenon DEF Compressing
    <2>2. Written(c) = compressedSize(fmt, c.out)
      BY <1>1, <1>5, Zenon DEF Written
    <2>3. DOMAIN c.in = 1 .. n /\ \A k \in 1 .. n : c.in[k] \in BlockOf(fmt)
      BY <2>1, SMT
    <2>4. DOMAIN c.out = 1 .. m /\ \A k \in 1 .. m : c.out[k] = Compressed(fmt, kernels, c.header, c.in[k])
      BY <2>1, Zenon
    <2>5. ASSUME fmt \in Scalars
          PROVE  /\ \A k \in 1 .. n : Len(c.in[k]) \in Nat
                 /\ \A k \in 1 .. m : Len(c.out[k]) = Len(c.in[k])
      <3>1. BlockOf(fmt) = Seq(Fp32)
        BY <2>5, BlockOfIs, Zenon
      <3>2. \A k \in 1 .. n : c.in[k] \in Seq(Fp32)
        BY <2>3, <3>1, Zenon
      <3>3. \A k \in 1 .. m : k \in 1 .. n
        BY <1>4, SMT
      <3> HIDE DEF n, m
      <3>4. ASSUME NEW k \in 1 .. n
            PROVE  Len(c.in[k]) \in Nat /\ Len(Compressed(fmt, kernels, c.header, c.in[k])) = Len(c.in[k])
        <4>1. c.in[k] \in Seq(Fp32)
          BY <3>2, Zenon
        <4> QED
          BY <2>5, <4>1, ScalarSize, Zenon
      <3> QED
        BY <2>4, <3>3, <3>4, Zenon
    <2> HIDE DEF n, m
    <2>6. Beginning(fmt, c.out, m, c.in, n)
      BY <1>4, <2>3, <2>4, <2>5, Zenon DEF Beginning
    <2>7. /\ compressedSize(fmt, c.in) \in Nat /\ compressedSize(fmt, c.out) \in Nat
          /\ compressedSize(fmt, c.out) <= compressedSize(fmt, c.in)
          /\ m = n => compressedSize(fmt, c.out) = compressedSize(fmt, c.in)
      BY <1>3, <2>6, PartFits, Zenon
    <2> QED
      BY <2>1, <2>2, <2>7, Zenon
  <1>6. ASSUME c.op = "decompress"
        PROVE  /\ Written(c) \in Nat /\ Written(c) <= c.need
               /\ m = n => Written(c) = c.need
    <2>1. /\ h # None /\ c.in = h.blocks /\ c.header = h.header /\ n = Len(h.source)
          /\ c.need = TensorBytes(fmt, c.in)
          /\ c.out = [k \in 1 .. m |-> Decompressed(fmt, c.header, c.in[k])]
      BY <1>1, <1>6, Zenon DEF Decompressing
    <2>2. Written(c) = TensorBytes(fmt, c.out)
      <3>1. "decompress" # "compress"
        BY SMT
      <3> QED
        BY <1>1, <1>6, <3>1, Zenon DEF Written
    <2>3. IsStream(fmt, kernels, h)
      BY <2>1, Zenon DEF Kept
    <2>4. /\ h.source \in Seq(BlockOf(fmt)) /\ h.blocks = [k \in 1 .. n |-> h.blocks[k]]
          /\ fmt \in Scalars => \A k \in 1 .. n : h.blocks[k] = Compressed(fmt, kernels, h.header, h.source[k])
      <3> HIDE DEF n
      <3> QED
        BY <2>1, <2>3, Zenon DEF IsStream
    <2>5. \A k \in 1 .. n : h.source[k] \in BlockOf(fmt)
      BY <2>1, <2>4, SMT
    <2>6. DOMAIN c.in = 1 .. n
      <3> HIDE DEF n
      <3> QED
        BY <2>1, <2>4, Zenon
    <2>7. DOMAIN c.out = 1 .. m /\ \A k \in 1 .. m : c.out[k] = Decompressed(fmt, c.header, c.in[k])
      BY <2>1, Zenon
    <2>8. ASSUME fmt \in Scalars
          PROVE  /\ \A k \in 1 .. n : Len(c.in[k]) \in Nat
                 /\ \A k \in 1 .. m : Len(c.out[k]) = Len(c.in[k])
      <3>1. BlockOf(fmt) = Seq(Fp32)
        BY <2>8, BlockOfIs, Zenon
      <3>2. \A k \in 1 .. n : h.source[k] \in Seq(Fp32) /\ c.in[k] = Compressed(fmt, kernels, h.header, h.source[k])
        BY <2>1, <2>4, <2>5, <2>8, <3>1, Zenon
      <3>3. \A k \in 1 .. m : k \in 1 .. n
        BY <1>4, SMT
      <3> HIDE DEF n, m
      <3>4. \A k \in 1 .. n : /\ Len(c.in[k]) = Len(h.source[k]) /\ Len(h.source[k]) \in Nat
                              /\ Len(Decompressed(fmt, c.header, c.in[k])) = Len(h.source[k])
        <4> TAKE k \in 1 .. n
        <4>1. h.source[k] \in Seq(Fp32) /\ c.in[k] = Compressed(fmt, kernels, h.header, h.source[k])
          BY <3>2, Zenon
        <4>2. /\ Len(Compressed(fmt, kernels, h.header, h.source[k])) = Len(h.source[k]) /\ Len(h.source[k]) \in Nat
              /\ Len(Decompressed(fmt, c.header, Compressed(fmt, kernels, h.header, h.source[k]))) = Len(h.source[k])
          BY <2>8, <4>1, ScalarBlock, SMT
        <4> QED
          BY <4>1, <4>2, Zenon
      <3> QED
        BY <2>7, <3>3, <3>4, Zenon
    <2> HIDE DEF n, m
    <2> QED
      <3>1. Beginning(fmt, c.out, m, c.in, n)
        BY <1>4, <2>6, <2>7, <2>8, Zenon DEF Beginning
      <3>2. /\ TensorBytes(fmt, c.in) \in Nat /\ TensorBytes(fmt, c.out) \in Nat
            /\ TensorBytes(fmt, c.out) <= TensorBytes(fmt, c.in)
            /\ m = n => TensorBytes(fmt, c.out) = TensorBytes(fmt, c.in)
        BY <3>1, PartFits, Zenon
      <3> QED
        BY <2>1, <2>2, <3>2, Zenon
  <1>7. /\ Written(c) \in Nat /\ Written(c) <= c.need
        /\ m = n => Written(c) = c.need
    BY <1>2, <1>5, <1>6, Zenon
  <1>8. Written(c) <= c.room
    BY <1>2, <1>3, <1>7, SMT
  <1>9. ~Meet(c.to, Written(c), Base, c.bytes)
    BY <1>2, <1>3, <1>7, Disjoint, Zenon
  <1> QED
    BY <1>7, <1>8, <1>9, Zenon DEF StaysInRoom

(* A call that is turned down has written nothing, and for a reason. *)
LEMMA RejectedEnds ==
  ASSUME NEW c, IsCall(c), ~c.began, Rejected(c), NEW h,
         c.op = "decompress" /\ c.header = NonFinite => h.damaged
  PROVE  Ended([call |-> c, value |-> 0], h)
  <1>1. /\ c.op \in {"compress", "decompress"}
        /\ c.bytes \in Nat /\ c.need \in Nat /\ c.room \in Nat /\ c.to \in Int
    BY Zenon DEF IsCall
  <1>2. Written(c) = 0
    BY Zenon DEF Written
  <1>3. 0 <= c.room /\ ~(0 > 0)
    BY <1>1, SMT
  <1>4. StaysInRoom(c)
    <2>1. Written(c) <= c.room
      BY <1>2, <1>3
    <2>2. ~Meet(c.to, 0, Base, c.bytes)
      BY <1>1, NothingMeets, Zenon
    <2> QED
      BY <1>2, <2>1, <2>2, Zenon DEF StaysInRoom
  <1>5. ASSUME c.bytes # 0, c.need # 0
        PROVE  RightfulOf(c, h) /\ OnlyPrefix(c)
    <2>1. OnlyPrefix(c)
      BY <1>2, <1>3, Zenon DEF OnlyPrefix
    <2>2. spansOverlap(Base, c.bytes, c.to, c.need) => Meet(c.to, c.need, Base, c.bytes)
      BY <1>1, <1>5, Overlapping, Zenon
    <2>3. RightfulOf(c, h)
      BY <1>5, <2>2, Zenon DEF Rejected, RightfulOf
    <2> QED
      BY <2>1, <2>3
  <1>6. 0 \notin {c.bytes, c.need} => c.bytes # 0 /\ c.need # 0
    BY Zenon
  <1> DEFINE r == [call |-> c, value |-> 0]
  <1>7. r.call = c /\ r.value = 0
    BY Zenon
  <1> HIDE DEF r
  <1>8. Ended(r, h)
    BY <1>4, <1>5, <1>6, <1>7, Zenon DEF Ended
  <1> QED
    BY <1>8 DEF r

(* A sequence of values, extended by one.                                  *)
LEMMA OneMore ==
  ASSUME NEW g, NEW n \in Nat, NEW s, s = [k \in 1 .. n |-> g[k]]
  PROVE  /\ Append(s, g[n + 1]) = [k \in 1 .. n + 1 |-> g[k]]
         /\ Len(Append(s, g[n + 1])) = n + 1
  <1>1. Append(s, g[n + 1]) = [k \in 1 .. n + 1 |-> g[k]]
    BY PrefixGrows
  <1>2. Len([k \in 1 .. n + 1 |-> g[k]]) = n + 1
    BY SMT
  <1> QED
    BY <1>1, <1>2

(* The call d is c, with o as its output. *)
Continues(d, c, o) ==
  /\ IsCall(d) /\ d.out = o /\ (Rejected(d) <=> Rejected(c))
  /\ d.op = c.op /\ d.fmt = c.fmt /\ d.in = c.in /\ d.header = c.header /\ d.need = c.need
  /\ d.began = c.began /\ d.saved = c.saved

(* What a call has written changes nothing of the rest of it.              *)
LEMMA OutputSet ==
  ASSUME NEW c, IsCall(c), NEW o
  PROVE  Continues([c EXCEPT !.out = o], c, o)
  <1> DEFINE d == [c EXCEPT !.out = o]
             r == [op |-> c.op, fmt |-> c.fmt, in |-> c.in, header |-> c.header, bytes |-> c.bytes,
                   extra |-> c.extra, need |-> c.need, room |-> c.room, to |-> c.to, began |-> c.began,
                   out |-> o, saved |-> c.saved]
  <1>1. c = [op |-> c.op, fmt |-> c.fmt, in |-> c.in, header |-> c.header, bytes |-> c.bytes,
             extra |-> c.extra, need |-> c.need, room |-> c.room, to |-> c.to, began |-> c.began,
             out |-> c.out, saved |-> c.saved]
    BY Zenon DEF IsCall
  <1>2. d = r
    BY <1>1, SMT
  <1>3. /\ r.op = c.op /\ r.fmt = c.fmt /\ r.in = c.in /\ r.header = c.header /\ r.bytes = c.bytes
        /\ r.extra = c.extra /\ r.need = c.need /\ r.room = c.room /\ r.to = c.to
        /\ r.began = c.began /\ r.out = o /\ r.saved = c.saved
    BY Zenon
  <1>4. r = [op |-> r.op, fmt |-> r.fmt, in |-> r.in, header |-> r.header, bytes |-> r.bytes,
             extra |-> r.extra, need |-> r.need, room |-> r.room, to |-> r.to, began |-> r.began,
             out |-> r.out, saved |-> r.saved]
    BY Zenon
  <1> HIDE DEF r
  <1>5. IsCall(r)
    BY <1>3, <1>4, Zenon DEF IsCall
  <1>6. Rejected(r) <=> Rejected(c)
    BY <1>3, Zenon DEF Rejected
  <1> HIDE DEF d
  <1> QED
    BY <1>2, <1>3, <1>5, <1>6 DEF d, Continues

(* One more block of a compression.                                        *)
LEMMA EncodeStep ==
  ASSUME NEW fmt, NEW kernels, NEW mode, NEW h, NEW c,
         InProgress(fmt, kernels, mode, c, h), c.op = "compress", Len(c.out) < Len(c.in),
         NEW b, b = Compressed(c.fmt, kernels, c.header, c.in[Len(c.out) + 1])
  PROVE  InProgress(fmt, kernels, mode, [c EXCEPT !.out = Append(c.out, b)], h)
  <1> DEFINE n == Len(c.out)
             g == [k \in 1 .. Len(c.in) |-> Compressed(fmt, kernels, c.header, c.in[k])]
             o == Append(c.out, b)
             d == [c EXCEPT !.out = o]
  <1>1. /\ IsCall(c) /\ c.began = TRUE /\ c.fmt = fmt /\ c.saved = mode /\ ~Rejected(c)
        /\ Len(c.in) \in Nat /\ n \in Nat /\ n <= Len(c.in)
        /\ Compressing(fmt, kernels, c, h)
    BY Zenon DEF InProgress
  <1>2. n + 1 <= Len(c.in) /\ n + 1 \in Nat /\ n + 1 \in 1 .. Len(c.in)
        /\ \A k \in 1 .. n + 1 : k \in 1 .. Len(c.in)
    BY <1>1, SMT
  <1>3. c.out = [k \in 1 .. n |-> Compressed(fmt, kernels, c.header, c.in[k])]
    BY <1>1, Zenon DEF Compressing
  <1> HIDE DEF n
  <1>4. c.out = [k \in 1 .. n |-> g[k]] /\ b = g[n + 1]
    <2>1. \A k \in 1 .. n : g[k] = Compressed(fmt, kernels, c.header, c.in[k])
      <3>1. \A k \in 1 .. n : k \in 1 .. n + 1
        BY <1>1, SMT
      <3> QED
        BY <1>2, <3>1, Zenon
    <2>2. g[n + 1] = b
      BY <1>1, <1>2, Zenon DEF n
    <2> HIDE DEF g
    <2> QED
      BY <1>3, <2>1, <2>2, Zenon
  <1>5. \A k \in 1 .. n + 1 : g[k] = Compressed(fmt, kernels, c.header, c.in[k])
    BY <1>2, Zenon
  <1> HIDE DEF g
  <1>6. o = [k \in 1 .. n + 1 |-> g[k]] /\ Len(o) = n + 1
    <2>1. o = Append(c.out, g[n + 1])
      BY <1>4
    <2> HIDE DEF o
    <2> QED
      BY <1>1, <1>4, <2>1, OneMore, SMT
  <1>7. o = [k \in 1 .. Len(o) |-> Compressed(fmt, kernels, c.header, c.in[k])]
    BY <1>5, <1>6, Zenon
  <1> HIDE DEF o
  <1>8. /\ IsCall(d) /\ d.out = o /\ ~Rejected(d)
        /\ d.op = c.op /\ d.fmt = c.fmt /\ d.in = c.in /\ d.header = c.header /\ d.need = c.need
        /\ d.began = c.began /\ d.saved = c.saved
    <2>1. Continues(d, c, o)
      BY <1>1, OutputSet, Zenon
    <2> HIDE DEF d
    <2> QED
      BY <1>1, <2>1, Zenon DEF Continues
  <1> HIDE DEF d
  <1>9. Compressing(fmt, kernels, d, h)
    BY <1>1, <1>7, <1>8, ZenonT(60) DEF Compressing
  <1>10. "compress" # "decompress"
    BY SMT
  <1>11. InProgress(fmt, kernels, mode, d, h)
    <2>1. d.op = "compress" /\ d.op # "decompress"
      BY <1>8, <1>10
    <2>2. Len(d.in) \in Nat /\ Len(d.out) \in Nat /\ Len(d.out) <= Len(d.in)
      BY <1>1, <1>2, <1>6, <1>8, Zenon
    <2> QED
      BY <1>1, <1>8, <1>9, <2>1, <2>2, Zenon DEF InProgress
  <1> QED
    BY <1>11 DEF d, o

(* One more block of a decompression.                                      *)
LEMMA DecodeStep ==
  ASSUME NEW fmt, NEW kernels, NEW mode, NEW h, NEW c,
         InProgress(fmt, kernels, mode, c, h), c.op = "decompress", Len(c.out) < Len(c.in),
         ~Unreadable(c.fmt, c.in[Len(c.out) + 1]),
         NEW b, b = Decompressed(c.fmt, c.header, c.in[Len(c.out) + 1])
  PROVE  InProgress(fmt, kernels, mode, [c EXCEPT !.out = Append(c.out, b)], h)
  <1> DEFINE n == Len(c.out)
             g == [k \in 1 .. Len(c.in) |-> Decompressed(fmt, c.header, c.in[k])]
             o == Append(c.out, b)
             d == [c EXCEPT !.out = o]
  <1>1. /\ IsCall(c) /\ c.began = TRUE /\ c.fmt = fmt /\ c.saved = mode /\ ~Rejected(c)
        /\ Len(c.in) \in Nat /\ n \in Nat /\ n <= Len(c.in)
        /\ Decompressing(fmt, c, h)
    BY Zenon DEF InProgress
  <1>2. n + 1 <= Len(c.in) /\ n + 1 \in Nat /\ n + 1 \in 1 .. Len(c.in)
        /\ \A k \in 1 .. n + 1 : k \in 1 .. Len(c.in)
    BY <1>1, SMT
  <1>3. /\ c.out = [k \in 1 .. n |-> Decompressed(fmt, c.header, c.in[k])]
        /\ \A k \in 1 .. n : ~Unreadable(fmt, c.in[k])
    BY <1>1, Zenon DEF Decompressing
  <1> HIDE DEF n
  <1>4. c.out = [k \in 1 .. n |-> g[k]] /\ b = g[n + 1]
    <2>1. \A k \in 1 .. n : g[k] = Decompressed(fmt, c.header, c.in[k])
      <3>1. \A k \in 1 .. n : k \in 1 .. n + 1
        BY <1>1, SMT
      <3> QED
        BY <1>2, <3>1, Zenon
    <2>2. g[n + 1] = b
      BY <1>1, <1>2, Zenon DEF n
    <2> HIDE DEF g
    <2> QED
      BY <1>3, <2>1, <2>2, Zenon
  <1>5. \A k \in 1 .. n + 1 : g[k] = Decompressed(fmt, c.header, c.in[k])
    BY <1>2, Zenon
  <1>5a. \A k \in 1 .. n + 1 : ~Unreadable(fmt, c.in[k])
    <2> TAKE k \in 1 .. n + 1
    <2>1. k \in 1 .. n \/ k = n + 1
      BY <1>1, SMT
    <2> QED
      BY <1>1, <1>3, <2>1, Zenon DEF n
  <1> HIDE DEF g
  <1>6. o = [k \in 1 .. n + 1 |-> g[k]] /\ Len(o) = n + 1
    <2>1. o = Append(c.out, g[n + 1])
      BY <1>4
    <2> HIDE DEF o
    <2> QED
      BY <1>1, <1>4, <2>1, OneMore, SMT
  <1>7. o = [k \in 1 .. Len(o) |-> Decompressed(fmt, c.header, c.in[k])]
    BY <1>5, <1>6, Zenon
  <1> HIDE DEF o
  <1>8. /\ IsCall(d) /\ d.out = o /\ ~Rejected(d)
        /\ d.op = c.op /\ d.fmt = c.fmt /\ d.in = c.in /\ d.header = c.header /\ d.need = c.need
        /\ d.began = c.began /\ d.saved = c.saved
    <2>1. Continues(d, c, o)
      BY <1>1, OutputSet, Zenon
    <2> HIDE DEF d
    <2> QED
      BY <1>1, <2>1, Zenon DEF Continues
  <1> HIDE DEF d
  <1>9. Decompressing(fmt, d, h)
    BY <1>1, <1>5a, <1>6, <1>7, <1>8, SMT DEF Decompressing
  <1>10. "compress" # "decompress"
    BY SMT
  <1>11. InProgress(fmt, kernels, mode, d, h)
    <2>1. d.op = "decompress" /\ d.op # "compress"
      BY <1>8, <1>10
    <2>2. Len(d.in) \in Nat /\ Len(d.out) \in Nat /\ Len(d.out) <= Len(d.in)
      BY <1>1, <1>2, <1>6, <1>8, Zenon
    <2> QED
      BY <1>1, <1>8, <1>9, <2>1, <2>2, Zenon DEF InProgress
  <1> QED
    BY <1>11 DEF d, o

(* The places an output may have are addresses. *)
LEMMA ToIs ==
  ASSUME NEW shape \in Shapes, NEW bytes \in Int, NEW need \in Int
  PROVE  /\ shape.extra \in {0, 1} /\ shape.slack \in {-1, 0, 1}
         /\ To(shape.place, bytes, need) \in Int
  <1>1. shape.place \in {"elsewhere", "before", "head", "tail", "after"}
    BY Zenon DEF Shapes
  <1>2. shape.extra \in {0, 1} /\ shape.slack \in {-1, 0, 1}
    BY Zenon DEF Shapes
  <1>3. To(shape.place, bytes, need) \in Int
    <2>1. Base \in Int
      BY SMT DEF Base
    <2>2. ASSUME NEW place \in {"elsewhere", "before", "head", "tail", "after"}
          PROVE  To(place, bytes, need) \in Int
      <3>1. /\ To("elsewhere", bytes, need) = 0
            /\ To("before", bytes, need) = Base - need
            /\ To("head", bytes, need) = Base - need + 1
            /\ To("tail", bytes, need) = Base + bytes - 1
            /\ To("after", bytes, need) = Base + bytes
        BY SMT DEF To
      <3>2. 0 \in Int /\ Base - need \in Int /\ Base - need + 1 \in Int /\ Base + bytes - 1 \in Int /\ Base + bytes \in Int
        BY <2>1, SMT
      <3> QED
        BY <3>1, <3>2, Zenon
    <2> QED
      BY <1>1, <2>2, Zenon
  <1> QED
    BY <1>2, <1>3

(* A call that has not begun. *)
Requested(c, op, fmt, x, header, need, mode) ==
  /\ IsCall(c) /\ c.op = op /\ c.fmt = fmt /\ c.in = x /\ c.header = header /\ c.need = need
  /\ ~c.began /\ c.out = <<>> /\ c.saved = mode

(* What a request is made of. *)
LEMMA RequestIs ==
  ASSUME NEW op \in {"compress", "decompress"}, NEW fmt, NEW x, NEW header, NEW bytes \in Nat,
         NEW need \in Nat, NEW shape \in Shapes, Request(op, fmt, x, header, bytes, need, shape).room >= 0
  PROVE  Requested(Request(op, fmt, x, header, bytes, need, shape), op, fmt, x, header, need, ftz)
  <1> DEFINE c == Request(op, fmt, x, header, bytes, need, shape)
  <1> DEFINE b == bytes + shape.extra
             r == need + shape.slack
             t == To(shape.place, b, need)
  <1>1. b \in Nat /\ r \in Int /\ t \in Int
    <2>1. shape.extra \in {0, 1} /\ shape.slack \in {-1, 0, 1}
      <3>1. bytes \in Int /\ need \in Int
        BY SMT
      <3> QED
        BY <3>1, ToIs, Zenon
    <2>2. b \in Nat /\ r \in Int /\ b \in Int /\ need \in Int
      BY <2>1, SMT
    <2> HIDE DEF b
    <2>3. t \in Int
      BY <2>2, ToIs, Zenon
    <2> QED
      BY <2>2, <2>3
  <1> DEFINE d == [op |-> op, fmt |-> fmt, in |-> x, header |-> header, bytes |-> b,
                   extra |-> shape.extra, need |-> need, room |-> r,
                   to |-> t, began |-> FALSE, out |-> <<>>, saved |-> ftz]
  <1>2. c = d
    BY Zenon DEF Request
  <1>2a. c.room >= 0
    OBVIOUS
  <1> HIDE DEF c
  <1> HIDE DEF b, r, t
  <1>3. /\ d.op = op /\ d.fmt = fmt /\ d.in = x /\ d.header = header /\ d.need = need
        /\ d.bytes = b /\ d.extra = shape.extra /\ d.room = r /\ d.to = t
        /\ d.out = <<>> /\ d.saved = ftz
    BY Zenon
  <1>4. ~d.began
    BY Zenon
  <1>5. d = [op |-> d.op, fmt |-> d.fmt, in |-> d.in, header |-> d.header, bytes |-> d.bytes,
             extra |-> d.extra, need |-> d.need, room |-> d.room, to |-> d.to, began |-> d.began,
             out |-> d.out, saved |-> d.saved]
    BY Zenon
  <1> HIDE DEF d
  <1>6. d.room \in Nat
    <2>1. r >= 0
      BY <1>2, <1>2a, <1>3
    <2> QED
      BY <1>1, <1>3, <2>1, SMT
  <1>7. IsCall(d)
    BY <1>1, <1>3, <1>5, <1>6, Zenon DEF IsCall
  <1> QED
    BY <1>2, <1>3, <1>4, <1>7, Zenon DEF c, Requested

(* A call that is not turned down is in progress. *)
LEMMA Accepted ==
  ASSUME NEW fmt, NEW kernels, NEW mode, NEW h, NEW c, IsCall(c), c.fmt = fmt, c.saved = mode,
         c.out = <<>>, ~Rejected(c), Len(c.in) \in Nat,
         c.op = "compress" =>
           /\ c.in \in Seq(BlockOf(fmt)) /\ c.header \in Int /\ (fmt # "NVFP4" => c.header = 0)
           /\ c.need = compressedSize(fmt, c.in)
           /\ h # None => h.first = None /\ Repeats(fmt, c.in, h),
         c.op = "decompress" =>
           /\ h # None /\ c.in = h.blocks /\ c.header = h.header /\ Len(c.in) = Len(h.source)
           /\ c.need = TensorBytes(fmt, c.in)
  PROVE  InProgress(fmt, kernels, mode, [c EXCEPT !.began = TRUE], h)
  <1> DEFINE yes == TRUE
             d == [c EXCEPT !.began = yes]
             r == [op |-> c.op, fmt |-> c.fmt, in |-> c.in, header |-> c.header, bytes |-> c.bytes,
                   extra |-> c.extra, need |-> c.need, room |-> c.room, to |-> c.to, began |-> yes,
                   out |-> c.out, saved |-> c.saved]
  <1>1. c = [op |-> c.op, fmt |-> c.fmt, in |-> c.in, header |-> c.header, bytes |-> c.bytes,
             extra |-> c.extra, need |-> c.need, room |-> c.room, to |-> c.to, began |-> c.began,
             out |-> c.out, saved |-> c.saved]
    BY Zenon DEF IsCall
  <1> HIDE DEF yes
  <1>2. d = r
    BY <1>1, SMT
  <1>3. /\ r.op = c.op /\ r.fmt = c.fmt /\ r.in = c.in /\ r.header = c.header /\ r.bytes = c.bytes
        /\ r.extra = c.extra /\ r.need = c.need /\ r.room = c.room /\ r.to = c.to
        /\ r.out = c.out /\ r.saved = c.saved
    BY Zenon
  <1>4. r.began = TRUE
    <2>1. r.began = yes
      BY Zenon
    <2> QED
      BY <2>1 DEF yes
  <1>5. r = [op |-> r.op, fmt |-> r.fmt, in |-> r.in, header |-> r.header, bytes |-> r.bytes,
             extra |-> r.extra, need |-> r.need, room |-> r.room, to |-> r.to, began |-> r.began,
             out |-> r.out, saved |-> r.saved]
    BY Zenon
  <1> HIDE DEF r
  <1>6. IsCall(r)
    BY <1>3, <1>5, Zenon DEF IsCall
  <1>7. ~Rejected(r)
    BY <1>3, Zenon DEF Rejected
  <1>8. Len(r.out) = 0 /\ 0 \in Nat /\ 0 <= Len(r.in) /\ Len(r.in) \in Nat
    <2>1. Len(<<>>) = 0
      BY SMT
    <2>2. 0 \in Nat /\ 0 <= Len(c.in)
      BY SMT
    <2> QED
      BY <1>3, <2>1, <2>2, Zenon
  <1>9. /\ \A k \in 1 .. Len(r.out) : FALSE
        /\ r.out = [k \in 1 .. Len(r.out) |-> Compressed(fmt, kernels, r.header, r.in[k])]
        /\ r.out = [k \in 1 .. Len(r.out) |-> Decompressed(fmt, r.header, r.in[k])]
    <2>1. 1 .. Len(r.out) = {}
      BY <1>8, SMT
    <2>2. /\ <<>> = [k \in {} |-> Compressed(fmt, kernels, r.header, r.in[k])]
          /\ <<>> = [k \in {} |-> Decompressed(fmt, r.header, r.in[k])]
      BY SMT
    <2> QED
      BY <1>3, <2>1, <2>2, Zenon
  <1>10. r.op = "compress" => Compressing(fmt, kernels, r, h)
    BY <1>3, <1>9, Zenon DEF Compressing
  <1>11. r.op = "decompress" => Decompressing(fmt, r, h)
    BY <1>3, <1>9, Zenon DEF Decompressing
  <1>12. InProgress(fmt, kernels, mode, r, h)
    BY <1>3, <1>4, <1>6, <1>7, <1>8, <1>10, <1>11, Zenon DEF InProgress
  <1> QED
    BY <1>2, <1>12 DEF d, yes

(* A call that has come to its end. *)
LEMMA Finished ==
  ASSUME NEW fmt \in Codecs, NEW kernels, NEW mode, NEW h, NEW c,
         InProgress(fmt, kernels, mode, c, h), h # None => Kept(fmt, kernels, h),
         Len(c.out) = Len(c.in), NEW g
  PROVE  Ended([call |-> c, value |-> c.need], g)
  <1>1. StaysInRoom(c) /\ Written(c) = c.need
    BY ProgressFits, Zenon
  <1> DEFINE r == [call |-> c, value |-> c.need]
  <1>2. r.call = c /\ r.value = c.need
    BY Zenon
  <1> HIDE DEF r
  <1>3. Ended(r, g)
    <2>1. r.value = 0 => 0 \in {r.call.bytes, r.call.need}
      BY <1>2, Zenon
    <2> QED
      BY <1>1, <1>2, <2>1, Zenon DEF Ended
  <1> QED
    BY <1>3 DEF r

(* The stream a compression leaves. *)
LEMMA StreamMade ==
  ASSUME NEW fmt \in Codecs, NEW kernels, NEW mode, NEW h, NEW c,
         InProgress(fmt, kernels, mode, c, h), c.op = "compress", h # None => Kept(fmt, kernels, h),
         Len(c.out) = Len(c.in), NEW s,
         s = [header |-> c.header, source |-> c.in, blocks |-> c.out,
              damaged |-> FALSE, first |-> IF h = None THEN None ELSE h]
  PROVE  Kept(fmt, kernels, s)
  <1>1. /\ c.fmt = fmt /\ ~Rejected(c) /\ Compressing(fmt, kernels, c, h)
    BY Zenon DEF InProgress
  <1>2. fmt # Unsupported
    BY <1>1, Zenon DEF Rejected
  <1>3. /\ s.header = c.header /\ s.source = c.in /\ s.blocks = c.out
        /\ s.first = IF h = None THEN None ELSE h
    BY Zenon
  <1>4. s.damaged = FALSE
    BY Zenon
  <1>5. s = [header |-> s.header, source |-> s.source, blocks |-> s.blocks,
             damaged |-> s.damaged, first |-> s.first]
    BY Zenon
  <1>6. /\ c.in \in Seq(BlockOf(fmt)) /\ c.header \in Int /\ (fmt # "NVFP4" => c.header = 0)
        /\ c.out = [k \in 1 .. Len(c.in) |-> Compressed(fmt, kernels, c.header, c.in[k])]
        /\ h # None => h.first = None /\ Repeats(fmt, c.in, h)
    BY <1>1, Zenon DEF Compressing
  <1>7. /\ \A k \in 1 .. Len(c.in) : c.out[k] = Compressed(fmt, kernels, c.header, c.in[k])
        /\ c.out = [k \in 1 .. Len(c.in) |-> c.out[k]]
    BY <1>6, Zenon
  <1>8. IsStream(fmt, kernels, s)
    BY <1>3, <1>4, <1>5, <1>6, <1>7, Zenon DEF IsStream
  <1>9. s.first # None => IsStream(fmt, kernels, s.first) /\ Repeats(fmt, s.source, s.first)
    BY <1>3, <1>6, Zenon DEF Kept
  <1> QED
    BY <1>2, <1>8, <1>9, Zenon DEF Kept

(* What a decompression has read. *)
LEMMA TensorRead ==
  ASSUME NEW fmt, NEW kernels, NEW mode, NEW h, NEW c,
         InProgress(fmt, kernels, mode, c, h), c.op = "decompress", Len(c.out) = Len(c.in)
  PROVE  ReadFrom(fmt, c.out, h)
  <1>1. Decompressing(fmt, c, h)
    BY Zenon DEF InProgress
  <1> QED
    BY <1>1, Zenon DEF Decompressing, ReadFrom

(* A decompression that meets a block it cannot read. *)
LEMMA FailedEnds ==
  ASSUME NEW fmt \in Codecs, NEW kernels, NEW mode, NEW h, NEW c,
         InProgress(fmt, kernels, mode, c, h), c.op = "decompress", Kept(fmt, kernels, h),
         Len(c.out) < Len(c.in), Unreadable(c.fmt, c.in[Len(c.out) + 1])
  PROVE  Ended([call |-> c, value |-> 0], h)
  <1> DEFINE n == Len(c.out)
             bad == n + 1
  <1>1. /\ c.fmt = fmt /\ ~Rejected(c) /\ Decompressing(fmt, c, h)
        /\ Len(c.in) \in Nat /\ n \in Nat
    BY Zenon DEF InProgress
  <1>2. /\ h # None /\ c.in = h.blocks /\ Len(c.in) = Len(h.source)
        /\ \A k \in 1 .. n : ~Unreadable(fmt, c.in[k])
    BY <1>1, Zenon DEF Decompressing
  <1>3. StaysInRoom(c)
    BY ProgressFits, Zenon
  <1>4. IsStream(fmt, kernels, h) /\ fmt # Unsupported
    BY Zenon DEF Kept
  <1>5. /\ h.source \in Seq(BlockOf(fmt)) /\ h.blocks = [k \in 1 .. Len(h.source) |-> h.blocks[k]]
        /\ ~h.damaged => \A k \in 1 .. Len(h.source) : h.blocks[k] = Compressed(fmt, kernels, h.header, h.source[k])
    BY <1>4, Zenon DEF IsStream
  <1>6. DOMAIN c.in = 1 .. Len(c.in)
    BY <1>2, <1>5, Zenon
  <1>7. bad \in 1 .. Len(c.in) /\ bad \in Nat /\ n = bad - 1 /\ \A k \in 1 .. Len(c.in) : k <= n => k \in 1 .. n
    BY <1>1, SMT
  <1>8. h.source[bad] \in BlockOf(fmt)
    <2>1. \A k \in 1 .. Len(h.source) : h.source[k] \in BlockOf(fmt)
      BY <1>1, <1>2, <1>5, SMT
    <2> QED
      BY <1>2, <1>7, <2>1, Zenon
  <1>9. Unreadable(fmt, c.in[bad])
    BY <1>1
  <1> HIDE DEF bad
  <1>10. RightfulOf(c, h)
    <2>1. SUFFICES ASSUME ~h.damaged PROVE RightfulOf(c, h)
      BY Zenon DEF RightfulOf
    <2>2. c.in[bad] = Compressed(fmt, kernels, h.header, h.source[bad])
      BY <1>2, <1>5, <1>7, <2>1, Zenon
    <2>3. ~InRange(fmt, h.source[bad])
      BY <1>4, <1>8, <1>9, <2>2, InRangeReadable, Zenon
    <2> QED
      BY <1>1, <1>6, <1>7, <2>3, Zenon DEF RightfulOf
  <1>11. OnlyPrefix(c)
    <2> DEFINE broken == {k \in DOMAIN c.in : NonFinite \in {c.in[k].d, c.in[k].m}}
    <2>1. bad \in broken
      <3>1. NonFinite \in {c.in[bad].d, c.in[bad].m}
        BY <1>9, Zenon DEF Unreadable, Refused
      <3> QED
        BY <1>6, <1>7, <3>1, Zenon
    <2>2. \A k \in broken : ~(k \in 1 .. n)
      <3> TAKE k \in broken
      <3>1. k \in 1 .. n => ~Unreadable(fmt, c.in[k])
        BY <1>2, Zenon
      <3>2. ~Unreadable(fmt, c.in[k]) => NonFinite \notin {c.in[k].d, c.in[k].m}
        BY <1>9, ReadableScales, Zenon
      <3> QED
        BY <3>1, <3>2, Zenon
    <2>3. broken \in SUBSET (1 .. Len(c.in))
      BY <1>6, Zenon
    <2> HIDE DEF broken
    <2>4. Min(broken) = bad
      <3>1. broken \in SUBSET (0 .. Len(c.in)) /\ broken # {}
        <4>1. \A k \in 1 .. Len(c.in) : k \in 0 .. Len(c.in)
          BY <1>1, SMT
        <4> QED
          BY <2>1, <2>3, <4>1, Zenon
      <3>2. Min(broken) \in broken /\ \A k \in broken : Min(broken) <= k
        BY <1>1, <3>1, SmallestOfInterval, Zenon
      <3>3. Min(broken) <= bad /\ Min(broken) \in 1 .. Len(c.in) /\ ~(Min(broken) \in 1 .. n)
        BY <2>1, <2>2, <2>3, <3>2, Zenon
      <3> HIDE DEF n
      <3> QED
        BY <1>1, <1>7, <3>3, SMT
    <2>5. Len(c.out) = Min(broken) - 1
      BY <1>7, <2>4
    <2> QED
      BY <2>5, Zenon DEF OnlyPrefix, broken
  <1> DEFINE r == [call |-> c, value |-> 0]
  <1>12. r.call = c /\ r.value = 0
    BY Zenon
  <1> HIDE DEF r
  <1>13. Ended(r, h)
    BY <1>3, <1>10, <1>11, <1>12, Zenon DEF Ended
  <1> QED
    BY <1>13 DEF r

(* A stream whose scale has been overwritten is still one, and what has    *)
(* failed before has still failed for a reason.                            *)
LEMMA Damaged ==
  ASSUME NEW fmt, NEW kernels, NEW h, Kept(fmt, kernels, h), fmt \notin Scalars, NEW d,
         d.damaged = TRUE, d.source = h.source, d.first = h.first,
         d = [header |-> d.header, source |-> d.source, blocks |-> d.blocks,
              damaged |-> d.damaged, first |-> d.first],
         d.blocks = [k \in 1 .. Len(h.source) |-> d.blocks[k]]
  PROVE  /\ Kept(fmt, kernels, d)
         /\ \A r : Ended(r, h) => Ended(r, d)
  <1>1. /\ IsStream(fmt, kernels, h) /\ fmt # Unsupported
        /\ h.first # None => IsStream(fmt, kernels, h.first) /\ Repeats(fmt, h.source, h.first)
    BY Zenon DEF Kept
  <1>2. h.source \in Seq(BlockOf(fmt))
    BY <1>1, Zenon DEF IsStream
  <1>3. IsStream(fmt, kernels, d)
    BY <1>2, Zenon DEF IsStream
  <1>4. Kept(fmt, kernels, d)
    BY <1>1, <1>3, Zenon DEF Kept
  <1>5. \A c : RightfulOf(c, h) => RightfulOf(c, d)
    BY Zenon DEF RightfulOf
  <1>6. \A r : Ended(r, h) => Ended(r, d)
    BY <1>5, Zenon DEF Ended
  <1> QED
    BY <1>4, <1>6

(* The sizes of a tensor. *)
LEMMA TensorIs ==
  ASSUME NEW fmt \in Codecs, NEW x \in Seq(BlockOf(fmt))
  PROVE  /\ Len(x) \in Nat /\ DOMAIN x = 1 .. Len(x) /\ \A k \in 1 .. Len(x) : x[k] \in BlockOf(fmt)
         /\ TensorBytes(fmt, x) \in Nat
         /\ fmt # Unsupported => compressedSize(fmt, x) \in Nat
  <1> DEFINE n == Len(x)
  <1>1. n \in Nat /\ n <= n /\ DOMAIN x = 1 .. n /\ \A k \in 1 .. n : x[k] \in BlockOf(fmt)
    BY SMT
  <1>2. ASSUME fmt \in Scalars
        PROVE  \A k \in 1 .. n : Len(x[k]) \in Nat
    <2>1. \A k \in 1 .. n : x[k] \in Seq(Fp32)
      BY <1>1, <1>2, BlockOfIs, Zenon
    <2> HIDE DEF n
    <2> QED
      BY <2>1, SMT
  <1> HIDE DEF n
  <1>3. Beginning(fmt, x, n, x, n)
    BY <1>1, <1>2, Zenon DEF Beginning
  <1>4. TensorBytes(fmt, x) \in Nat /\ (fmt # Unsupported => compressedSize(fmt, x) \in Nat)
    BY <1>3, PartFits, Zenon
  <1> QED
    BY <1>1, <1>4, Zenon DEF n

(* The sizes of a stream. *)
LEMMA StreamIs ==
  ASSUME NEW fmt \in Codecs, NEW kernels, NEW h, Kept(fmt, kernels, h)
  PROVE  /\ Len(h.blocks) = Len(h.source) /\ Len(h.source) \in Nat
         /\ TensorBytes(fmt, h.blocks) \in Nat /\ compressedSize(fmt, h.blocks) \in Nat
  <1> DEFINE n == Len(h.source)
             b == h.blocks
  <1>1. IsStream(fmt, kernels, h) /\ fmt # Unsupported
    BY Zenon DEF Kept
  <1>2. /\ h.source \in Seq(BlockOf(fmt)) /\ b = [k \in 1 .. n |-> b[k]]
        /\ fmt \in Scalars => ~h.damaged
        /\ ~h.damaged => \A k \in 1 .. n : b[k] = Compressed(fmt, kernels, h.header, h.source[k])
    BY <1>1, Zenon DEF IsStream
  <1>3. n \in Nat /\ n <= n /\ \A k \in 1 .. n : h.source[k] \in BlockOf(fmt)
    BY <1>2, TensorIs, SMT
  <1> HIDE DEF n, b
  <1>4. DOMAIN b = 1 .. n
    BY <1>2, Zenon
  <1>5. Len(b) = n
    BY <1>3, <1>4, SMT
  <1>6. ASSUME fmt \in Scalars
        PROVE  \A k \in 1 .. n : Len(b[k]) \in Nat
    <2> TAKE k \in 1 .. n
    <2>1. h.source[k] \in Seq(Fp32) /\ b[k] = Compressed(fmt, kernels, h.header, h.source[k])
      BY <1>2, <1>3, <1>6, BlockOfIs, Zenon
    <2>2. /\ Len(Compressed(fmt, kernels, h.header, h.source[k])) = Len(h.source[k])
          /\ Len(h.source[k]) \in Nat
      <3>1. h.source[k] \in Seq(Fp32)
        BY <2>1
      <3> QED
        BY <1>6, <3>1, ScalarSize, Zenon
    <2> QED
      BY <2>1, <2>2, Zenon
  <1>7. Beginning(fmt, b, n, b, n)
    BY <1>3, <1>4, <1>6, Zenon DEF Beginning
  <1>8. TensorBytes(fmt, b) \in Nat /\ compressedSize(fmt, b) \in Nat
    BY <1>1, <1>7, PartFits, Zenon
  <1> QED
    BY <1>3, <1>5, <1>8, Zenon DEF n, b

(* The beginning of a call keeps the invariant. *)
LEMMA Starting ==
  ASSUME Inv, NEW c, Start(c), IsCall(c), ~c.began, c.out = <<>>, c.saved = ftz, c.fmt = adapter,
         Len(c.in) \in Nat,
         c.op = "compress" =>
           /\ c.in \in Seq(BlockOf(adapter)) /\ c.header \in Int /\ (adapter # "NVFP4" => c.header = 0)
           /\ c.need = compressedSize(adapter, c.in) \/ adapter = Unsupported
           /\ held # None => held.first = None /\ Repeats(adapter, c.in, held),
         c.op = "decompress" =>
           /\ held # None /\ c.in = held.blocks /\ c.header = held.header /\ Len(c.in) = Len(held.source)
           /\ c.need = TensorBytes(adapter, c.in)
           /\ c.header = NonFinite => held.damaged
  PROVE  Inv'
  <1>1. /\ call = Idle /\ callerMode \in BOOLEAN /\ ftz = callerMode
        /\ adapter' = adapter /\ build' = build /\ callerMode' = callerMode /\ held' = held /\ back' = back
    BY Zenon DEF Inv, ModeInv, Start
  <1>2. SlotInv' /\ HeldInv' /\ BackInv'
    BY <1>1, Zenon DEF Inv, SlotInv, HeldInv, BackInv
  <1>3. CASE Rejected(c)
    <2>1. ret' = [call |-> c, value |-> 0] /\ call' = call /\ ftz' = ftz
      BY <1>3, Zenon DEF Start
    <2>2. Ended([call |-> c, value |-> 0], held)
      BY <1>3, RejectedEnds, Zenon
    <2>3. RetInv'
      BY <1>1, <2>1, <2>2, Zenon DEF RetInv
    <2>4. ModeInv' /\ CallInv'
      BY <1>1, <2>1, Zenon DEF ModeInv, CallInv
    <2> QED
      BY <1>2, <2>3, <2>4, Zenon DEF Inv
  <1>4. CASE ~Rejected(c)
    <2> DEFINE d == [c EXCEPT !.began = TRUE]
    <2>1. ret' = None /\ call' = d /\ ftz' = (ftz \/ Guarded(c))
      BY <1>4, Zenon DEF Start
    <2>2. adapter # Unsupported
      BY <1>4, Zenon DEF Rejected
    <2>3. InProgress(adapter, build, callerMode, d, held)
      BY <1>1, <1>4, <2>2, Accepted, Zenon
    <2>4. d.op = c.op
      <3>1. c = [op |-> c.op, fmt |-> c.fmt, in |-> c.in, header |-> c.header, bytes |-> c.bytes,
                 extra |-> c.extra, need |-> c.need, room |-> c.room, to |-> c.to, began |-> c.began,
                 out |-> c.out, saved |-> c.saved]
        BY Zenon DEF IsCall
      <3>2. DOMAIN c = {"op", "fmt", "in", "header", "bytes", "extra", "need", "room", "to", "began", "out", "saved"}
        BY <3>1, SMT
      <3> QED
        BY <3>2, SMT
    <2> HIDE DEF d
    <2>5. d.op \in {"compress", "decompress"}
      BY <2>3, Zenon DEF InProgress, IsCall
    <2>6. d # Idle
      <3>1. Idle.op = "none" /\ "none" \notin {"compress", "decompress"}
        BY SMT DEF Idle
      <3> QED
        BY <2>5, <3>1, Zenon
    <2>7. d.op = "decompress" => ftz' = callerMode
      <3>1. d.op = "decompress" => ~Guarded(c)
        <4>1. "compress" # "decompress"
          BY SMT
        <4> QED
          BY <2>4, <4>1, Zenon DEF Guarded
      <3> QED
        <4>1. ASSUME ~Guarded(c) PROVE (ftz \/ Guarded(c)) = ftz
          <5>1. CASE ftz = TRUE
            BY <5>1, Zenon
          <5>2. CASE ftz = FALSE
            BY <4>1, <5>2, Zenon
          <5> QED
            BY <1>1, <5>1, <5>2, Zenon
        <4> QED
          BY <1>1, <2>1, <3>1, <4>1, Zenon
    <2>8. ModeInv' /\ CallInv' /\ RetInv'
      BY <1>1, <2>1, <2>3, <2>6, <2>7, Zenon DEF ModeInv, CallInv, RetInv
    <2> QED
      BY <1>2, <2>8, Zenon DEF Inv
  <1> QED
    BY <1>3, <1>4, Zenon

(* What Damage does to a stream. *)
LEMMA HeaderSet ==
  ASSUME NEW fmt, NEW kernels, NEW h, IsStream(fmt, kernels, h), NEW v, NEW w
  PROVE  [h EXCEPT !.header = v, !.damaged = w]
           = [header |-> v, source |-> h.source, blocks |-> h.blocks, damaged |-> w, first |-> h.first]
  <1> DEFINE g == [h EXCEPT !.header = v]
  <1>1. [h EXCEPT !.header = v, !.damaged = w] = [g EXCEPT !.damaged = w]
    OBVIOUS
  <1>2. h = [header |-> h.header, source |-> h.source, blocks |-> h.blocks,
             damaged |-> h.damaged, first |-> h.first]
    BY Zenon DEF IsStream
  <1>3. g = [header |-> v, source |-> h.source, blocks |-> h.blocks, damaged |-> h.damaged, first |-> h.first]
    BY <1>2, SMT
  <1> HIDE DEF g
  <1>4. [g EXCEPT !.damaged = w]
          = [header |-> v, source |-> h.source, blocks |-> h.blocks, damaged |-> w, first |-> h.first]
    BY <1>3, SMT
  <1> QED
    BY <1>1, <1>4

(* One field of one block overwritten. *)
FieldSet(blocks, k, field, v) == [blocks EXCEPT ![k][field] = v]
Overwritten(h, k, field, v, w) == [h EXCEPT !.blocks[k][field] = v, !.damaged = w]

(* A stream with a scale overwritten. *)
LEMMA ScaleSet ==
  ASSUME NEW fmt, NEW kernels, NEW h, IsStream(fmt, kernels, h), NEW k, NEW field, NEW v, NEW w
  PROVE  Overwritten(h, k, field, v, w)
           = [header |-> h.header, source |-> h.source, blocks |-> FieldSet(h.blocks, k, field, v),
              damaged |-> w, first |-> h.first]
  <1> DEFINE b == [h.blocks EXCEPT ![k][field] = v]
             g == [h EXCEPT !.blocks = b]
  <1>1. [h EXCEPT !.blocks[k][field] = v, !.damaged = w] = [g EXCEPT !.damaged = w]
    OBVIOUS
  <1> HIDE DEF b
  <1>2. h = [header |-> h.header, source |-> h.source, blocks |-> h.blocks,
             damaged |-> h.damaged, first |-> h.first]
    BY Zenon DEF IsStream
  <1>3. g = [header |-> h.header, source |-> h.source, blocks |-> b, damaged |-> h.damaged, first |-> h.first]
    BY <1>2, SMT
  <1> HIDE DEF g
  <1>4. [g EXCEPT !.damaged = w]
          = [header |-> h.header, source |-> h.source, blocks |-> b, damaged |-> w, first |-> h.first]
    BY <1>3, SMT
  <1> QED
    BY <1>1, <1>4 DEF b, Overwritten, FieldSet

(* The invariant holds to begin with. *)
LEMMA InitInv ==
  Init => Inv
  <1> SUFFICES ASSUME Init PROVE Inv
    OBVIOUS
  <1>1. adapter = "INT8" /\ call = Idle /\ held = None /\ back = None /\ ret = None
        /\ callerMode \in BOOLEAN /\ ftz = callerMode
    BY Zenon DEF Init
  <1> QED
    BY <1>1, AdaptersAre, Zenon DEF Inv, SlotInv, ModeInv, CallInv, HeldInv, BackInv, RetInv

(* SetAdapter: nothing is held of the old codec. *)
LEMMA SetAdapterInv ==
  ASSUME Inv, NEW a \in Adapters, SetAdapter(a)
  PROVE  Inv'
  <1>1. /\ call = Idle /\ held = None /\ ret = None /\ adapter' = IF a = None THEN "INT8" ELSE a
        /\ callerMode' = callerMode /\ ftz' = ftz /\ call' = call /\ held' = held /\ back' = back /\ ret' = ret
    BY Zenon DEF SetAdapter, Empty
  <1>2. back = None /\ callerMode \in BOOLEAN /\ ftz = callerMode
    BY <1>1, Zenon DEF Inv, BackInv, ModeInv, ReadFrom
  <1>3. adapter' \in Codecs
    BY <1>1, AdaptersAre, Zenon
  <1> QED
    BY <1>1, <1>2, <1>3, Zenon DEF Inv, SlotInv, ModeInv, CallInv, HeldInv, BackInv, RetInv

(* Compress. *)
LEMMA CompressInv ==
  ASSUME Inv, NEW x \in Data(adapter) \cup Shaped(adapter), NEW shape \in Shapes, Compress(x, shape)
  PROVE  Inv'
  <1> DEFINE bytes == TensorBytes(adapter, x)
             need == Need(x)
             header == HeaderOf(x)
             c == Request("compress", adapter, x, header, bytes, need, shape)
  <1>1. adapter \in Codecs /\ held = None /\ Start(c) /\ c.room >= 0
    BY Zenon DEF Inv, SlotInv, Compress, Empty, Start
  <1>2. x \in Seq(BlockOf(adapter))
    BY <1>1, TensorsAssumption, Zenon DEF Codecs
  <1>3. /\ Len(x) \in Nat /\ DOMAIN x = 1 .. Len(x) /\ \A k \in 1 .. Len(x) : x[k] \in BlockOf(adapter)
        /\ bytes \in Nat
        /\ adapter # Unsupported => compressedSize(adapter, x) \in Nat
    BY <1>1, <1>2, TensorIs, Zenon
  <1>4. need \in Nat /\ (adapter # Unsupported => need = compressedSize(adapter, x))
    <2>1. 0 \in Nat
      BY SMT
    <2> QED
      BY <1>3, <2>1, Zenon DEF Need
  <1>5. header \in Int /\ (adapter # "NVFP4" => header = 0)
    <2>1. CASE adapter = "NVFP4"
      <3>1. BlockOf(adapter) \subseteq Blocks
        <4>1. "NVFP4" \in BlockFormats
          BY FormatNames, SMT
        <4> QED
          BY <2>1, <4>1, BlockOfIs, Zenon
      <3>2. Header(x) \in Int
        BY <1>1, <1>3, <3>1, HeaderTyped, Zenon
      <3> QED
        BY <2>1, <3>2, Zenon DEF HeaderOf
    <2>2. CASE adapter # "NVFP4"
      <3>1. 0 \in Int
        BY SMT
      <3> QED
        BY <2>2, <3>1, Zenon DEF HeaderOf
    <2> QED
      BY <2>1, <2>2, Zenon
  <1>6. "compress" \in {"compress", "decompress"} /\ "compress" # "decompress"
    BY SMT
  <1> HIDE DEF bytes, need, header, c
  <1>8. /\ IsCall(c) /\ c.op = "compress" /\ c.fmt = adapter /\ c.in = x /\ c.header = header /\ c.need = need
        /\ ~c.began /\ c.out = <<>> /\ c.saved = ftz
    <2>1. "compress" \in {"compress", "decompress"} /\ bytes \in Nat /\ need \in Nat /\ shape \in Shapes /\ c.room >= 0
      BY <1>1, <1>3, <1>4, <1>6
    <2>2. Requested(c, "compress", adapter, x, header, need, ftz)
      BY <2>1, RequestIs, Zenon DEF c
    <2> QED
      BY <2>2, Zenon DEF Requested
  <1> QED
    BY <1>1, <1>2, <1>3, <1>4, <1>5, <1>6, <1>8, Starting, Zenon

(* Decompress. *)
LEMMA DecompressInv ==
  ASSUME Inv, NEW shape \in Shapes, Decompress(shape)
  PROVE  Inv'
  <1> DEFINE bytes == compressedSize(adapter, held.blocks)
             need == TensorBytes(adapter, held.blocks)
             c == Request("decompress", adapter, held.blocks, held.header, bytes, need, shape)
  <1>1. adapter \in Codecs /\ held # None /\ Kept(adapter, build, held) /\ Start(c) /\ c.room >= 0
    BY Zenon DEF Inv, SlotInv, HeldInv, Decompress, Start
  <1>2. /\ Len(held.blocks) = Len(held.source) /\ Len(held.source) \in Nat
        /\ bytes \in Nat /\ need \in Nat
    BY <1>1, StreamIs, Zenon
  <1>3. held.header = NonFinite => held.damaged
    BY <1>1, NumbersAssumption, Zenon DEF Kept, IsStream
  <1>4. "decompress" \in {"compress", "decompress"} /\ "compress" # "decompress"
    BY SMT
  <1>5. need = TensorBytes(adapter, held.blocks)
    OBVIOUS
  <1> HIDE DEF bytes, need, c
  <1>7. /\ IsCall(c) /\ c.op = "decompress" /\ c.fmt = adapter /\ c.in = held.blocks /\ c.header = held.header
        /\ c.need = need /\ ~c.began /\ c.out = <<>> /\ c.saved = ftz
    <2>1. "decompress" \in {"compress", "decompress"} /\ bytes \in Nat /\ need \in Nat /\ shape \in Shapes /\ c.room >= 0
      BY <1>1, <1>2, <1>4
    <2>2. Requested(c, "decompress", adapter, held.blocks, held.header, need, ftz)
      BY <2>1, RequestIs, Zenon DEF c
    <2> QED
      BY <2>2, Zenon DEF Requested
  <1> QED
    BY <1>1, <1>2, <1>3, <1>4, <1>5, <1>7, Starting, Zenon

(* What has been read of a stream whose codes are kept is a tensor again.  *)
LEMMA ReadAgain ==
  ASSUME NEW fmt \in Fixed, NEW kernels, NEW h, Kept(fmt, kernels, h), ~h.damaged,
         NEW b, ReadFrom(fmt, b, h), NEW x, x = [k \in DOMAIN b |-> Reread(fmt, b[k])]
  PROVE  /\ x \in Seq(BlockOf(fmt)) /\ Len(x) = Len(h.source) /\ Repeats(fmt, x, h)
  <1> DEFINE n == Len(h.source)
  <1>1. IsStream(fmt, kernels, h)
    BY Zenon DEF Kept
  <1>2. /\ h.source \in Seq(BlockOf(fmt)) /\ (fmt # "NVFP4" => h.header = 0)
        /\ \A k \in 1 .. n : h.blocks[k] = Compressed(fmt, kernels, h.header, h.source[k])
    BY <1>1, Zenon DEF IsStream
  <1>3. h.header = 0
    <2>1. fmt # "NVFP4"
      BY FormatNames, SMT
    <2> QED
      BY <1>2, <2>1, Zenon
  <1>4. n \in Nat /\ \A k \in 1 .. n : h.source[k] \in BlockOf(fmt)
    BY <1>2, SMT
  <1>5. /\ b = [k \in 1 .. n |-> Decompressed(fmt, 0, h.blocks[k])]
        /\ \A k \in 1 .. n : ~Unreadable(fmt, h.blocks[k])
    BY <1>3, Zenon DEF ReadFrom
  <1> HIDE DEF n
  <1>6. /\ x = [k \in 1 .. n |-> Reread(fmt, Decompressed(fmt, 0, h.blocks[k]))]
    BY <1>5, Zenon
  <1>7. \A k \in 1 .. n : x[k] = Reread(fmt, Decompressed(fmt, 0, h.blocks[k]))
    BY <1>6, Zenon
  <1>8. \A k \in 1 .. n : x[k] \in BlockOf(fmt)
    <2> TAKE k \in 1 .. n
    <2>1. ~Unreadable(fmt, Compressed(fmt, kernels, h.header, h.source[k])) /\ h.source[k] \in BlockOf(fmt)
      BY <1>2, <1>4, <1>5, Zenon DEF n
    <2>2. Reread(fmt, Decompressed(fmt, 0, Compressed(fmt, kernels, h.header, h.source[k]))) \in BlockOf(fmt)
      BY <2>1, ReadTyped, Zenon
    <2>3. h.blocks[k] = Compressed(fmt, kernels, h.header, h.source[k])
      BY <1>2 DEF n
    <2> QED
      BY <1>7, <2>2, <2>3, Zenon
  <1>9. x = [k \in 1 .. n |-> x[k]]
    BY <1>6, Zenon
  <1>10. x \in Seq(BlockOf(fmt)) /\ Len(x) = n
    BY <1>4, <1>8, <1>9, SequenceOf, SMT
  <1>11. Repeats(fmt, x, h)
    BY <1>5, <1>7, <1>10, Zenon DEF Repeats, n
  <1> QED
    BY <1>10, <1>11 DEF n

(* Recompress. *)
LEMMA RecompressInv ==
  ASSUME Inv, Recompress
  PROVE  Inv'
  <1> DEFINE x == [k \in DOMAIN back |-> Reread(adapter, back[k])]
             bytes == TensorBytes(adapter, x)
             need == Need(x)
             c == Request("compress", adapter, x, 0, bytes, need, Good)
  <1>1. /\ adapter \in Codecs /\ held # None /\ held.first = None /\ ~held.damaged /\ adapter \in Fixed
        /\ Kept(adapter, build, held) /\ ReadFrom(adapter, back, held)
        /\ Start(c) /\ c.room >= 0
    BY Zenon DEF Inv, SlotInv, HeldInv, BackInv, Recompress, Start
  <1>2. x \in Seq(BlockOf(adapter)) /\ Repeats(adapter, x, held)
    BY <1>1, ReadAgain, Zenon
  <1> HIDE DEF x
  <1>3. /\ Len(x) \in Nat /\ bytes \in Nat
        /\ adapter # Unsupported => compressedSize(adapter, x) \in Nat
    BY <1>1, <1>2, TensorIs, Zenon
  <1>4. need \in Nat /\ (adapter # Unsupported => need = compressedSize(adapter, x))
    <2>1. 0 \in Nat
      BY SMT
    <2> QED
      BY <1>3, <2>1, Zenon DEF Need
  <1>5. 0 \in Int
    BY SMT
  <1>6. "compress" \in {"compress", "decompress"} /\ "compress" # "decompress"
    BY SMT
  <1>7. Good \in Shapes
    BY SMT DEF Good, Shapes
  <1> HIDE DEF bytes, need, c
  <1>9. /\ IsCall(c) /\ c.op = "compress" /\ c.fmt = adapter /\ c.in = x /\ c.header = 0 /\ c.need = need
        /\ ~c.began /\ c.out = <<>> /\ c.saved = ftz
    <2>1. "compress" \in {"compress", "decompress"} /\ bytes \in Nat /\ need \in Nat /\ Good \in Shapes /\ c.room >= 0
      BY <1>1, <1>3, <1>4, <1>6, <1>7
    <2>2. Requested(c, "compress", adapter, x, 0, need, ftz)
      BY <2>1, RequestIs, Zenon DEF c
    <2> QED
      BY <2>2, Zenon DEF Requested
  <1> QED
    BY <1>1, <1>2, <1>3, <1>4, <1>5, <1>6, <1>9, Starting, Zenon

(* EncodeNext and DecodeNext. *)
LEMMA StepInv ==
  ASSUME Inv, EncodeNext \/ DecodeNext
  PROVE  Inv'
  <1>1. /\ call # Idle /\ adapter' = adapter /\ build' = build /\ callerMode' = callerMode
        /\ ftz' = ftz /\ held' = held /\ back' = back /\ ret' = ret
    BY Zenon DEF EncodeNext, DecodeNext
  <1>2. InProgress(adapter, build, callerMode, call, held)
    BY <1>1, Zenon DEF Inv, CallInv
  <1>3. InProgress(adapter, build, callerMode, call', held) /\ call'.op = call.op
    <2>1. \A o : [call EXCEPT !.out = o].op = call.op
      BY <1>2, OutputSet, Zenon DEF InProgress, Continues
    <2>2. CASE EncodeNext
      <3> DEFINE b == Compressed(call.fmt, build, call.header, NextBlock)
      <3>1. /\ call.op = "compress" /\ Len(call.out) < Len(call.in)
            /\ call' = [call EXCEPT !.out = Append(call.out, b)]
            /\ b = Compressed(call.fmt, build, call.header, call.in[Len(call.out) + 1])
        BY <2>2, Zenon DEF EncodeNext, NextBlock
      <3> HIDE DEF b
      <3> QED
        BY <1>2, <2>1, <3>1, EncodeStep, Zenon
    <2>3. CASE DecodeNext
      <3> DEFINE b == Decompressed(call.fmt, call.header, NextBlock)
      <3>1. /\ call.op = "decompress" /\ Len(call.out) < Len(call.in)
            /\ ~Unreadable(call.fmt, call.in[Len(call.out) + 1])
            /\ call' = [call EXCEPT !.out = Append(call.out, b)]
            /\ b = Decompressed(call.fmt, call.header, call.in[Len(call.out) + 1])
        BY <2>3, Zenon DEF DecodeNext, NextBlock
      <3> HIDE DEF b
      <3> QED
        BY <1>2, <2>1, <3>1, DecodeStep, Zenon
    <2> QED
      BY <2>2, <2>3, Zenon
  <1>4. call'.op \in {"compress", "decompress"}
    BY <1>3, Zenon DEF InProgress, IsCall
  <1>5. call' # Idle
    <2>1. Idle.op = "none" /\ "none" \notin {"compress", "decompress"}
      BY SMT DEF Idle
    <2> QED
      BY <1>4, <2>1, Zenon
  <1> QED
    BY <1>1, <1>3, <1>5, Zenon DEF Inv, SlotInv, ModeInv, CallInv, HeldInv, BackInv, RetInv

(* DecodeFails. *)
LEMMA DecodeFailsInv ==
  ASSUME Inv, DecodeFails
  PROVE  Inv'
  <1>1. /\ call # Idle /\ call.op = "decompress" /\ Len(call.out) < Len(call.in)
        /\ Unreadable(call.fmt, call.in[Len(call.out) + 1])
        /\ ret' = [call |-> call, value |-> 0] /\ call' = Idle
        /\ adapter' = adapter /\ build' = build /\ callerMode' = callerMode
        /\ ftz' = ftz /\ held' = held /\ back' = back
    BY Zenon DEF DecodeFails, NextBlock
  <1>2. InProgress(adapter, build, callerMode, call, held) /\ ftz = callerMode /\ adapter \in Codecs
    BY <1>1, Zenon DEF Inv, CallInv, SlotInv
  <1>3. held # None
    BY <1>1, <1>2, Zenon DEF InProgress, Decompressing
  <1>4. Kept(adapter, build, held)
    BY <1>3, Zenon DEF Inv, HeldInv
  <1>5. Ended([call |-> call, value |-> 0], held)
    BY <1>1, <1>2, <1>4, FailedEnds, Zenon
  <1> QED
    BY <1>1, <1>2, <1>5, Zenon DEF Inv, SlotInv, ModeInv, CallInv, HeldInv, BackInv, RetInv

(* CompressReturn. *)
LEMMA CompressReturnInv ==
  ASSUME Inv, CompressReturn
  PROVE  Inv'
  <1> DEFINE s == [header |-> call.header, source |-> call.in, blocks |-> call.out,
                   damaged |-> FALSE, first |-> IF held = None THEN None ELSE held]
  <1>1. /\ call # Idle /\ call.op = "compress" /\ Len(call.out) = Len(call.in)
        /\ ret' = [call |-> call, value |-> call.need] /\ call' = Idle
        /\ adapter' = adapter /\ build' = build /\ callerMode' = callerMode
        /\ ftz' = call.saved /\ held' = (IF call.need = 0 THEN held ELSE s) /\ back' = None
    BY Zenon DEF CompressReturn
  <1>2. InProgress(adapter, build, callerMode, call, held) /\ adapter \in Codecs
    BY <1>1, Zenon DEF Inv, CallInv, SlotInv
  <1>3. call.saved = callerMode /\ callerMode \in BOOLEAN
    BY <1>2, Zenon DEF Inv, InProgress, ModeInv
  <1>4. held # None => Kept(adapter, build, held)
    BY Zenon DEF Inv, HeldInv
  <1>5. Ended([call |-> call, value |-> call.need], held')
    BY <1>1, <1>2, <1>4, Finished, Zenon
  <1>6. Kept(adapter, build, s)
    BY <1>1, <1>2, <1>4, StreamMade, Zenon
  <1> HIDE DEF s
  <1>7. HeldInv'
    BY <1>1, <1>4, <1>6, Zenon DEF HeldInv
  <1> QED
    BY <1>1, <1>2, <1>3, <1>5, <1>7, Zenon DEF Inv, SlotInv, ModeInv, CallInv, BackInv, RetInv

(* DecompressReturn. *)
LEMMA DecompressReturnInv ==
  ASSUME Inv, DecompressReturn
  PROVE  Inv'
  <1>1. /\ call # Idle /\ call.op = "decompress" /\ Len(call.out) = Len(call.in)
        /\ ret' = [call |-> call, value |-> call.need] /\ call' = Idle
        /\ adapter' = adapter /\ build' = build /\ callerMode' = callerMode
        /\ ftz' = ftz /\ held' = held /\ back' = call.out
    BY Zenon DEF DecompressReturn
  <1>2. InProgress(adapter, build, callerMode, call, held) /\ adapter \in Codecs /\ ftz = callerMode
    BY <1>1, Zenon DEF Inv, CallInv, SlotInv
  <1>3. held # None => Kept(adapter, build, held)
    BY Zenon DEF Inv, HeldInv
  <1>4. Ended([call |-> call, value |-> call.need], held)
    BY <1>1, <1>2, <1>3, Finished, Zenon
  <1>5. ReadFrom(adapter, call.out, held)
    BY <1>1, <1>2, TensorRead, Zenon
  <1> QED
    BY <1>1, <1>2, <1>4, <1>5, Zenon DEF Inv, SlotInv, ModeInv, CallInv, HeldInv, BackInv, RetInv

(* Damage. *)
LEMMA DamageInv ==
  ASSUME Inv, Damage
  PROVE  Inv'
  <1>1. /\ call = Idle /\ held # None /\ back = None /\ adapter \notin Scalars
        /\ adapter' = adapter /\ build' = build /\ callerMode' = callerMode
        /\ ftz' = ftz /\ call' = call /\ back' = back /\ ret' = ret
    BY Zenon DEF Damage
  <1>2. Kept(adapter, build, held) /\ IsStream(adapter, build, held)
    BY <1>1, Zenon DEF Inv, HeldInv, Kept
  <1>3. /\ held = [header |-> held.header, source |-> held.source, blocks |-> held.blocks,
                   damaged |-> held.damaged, first |-> held.first]
        /\ held.blocks = [k \in 1 .. Len(held.source) |-> held.blocks[k]]
    BY <1>2, Zenon DEF IsStream
  <1>4. \E header, blocks :
          /\ held' = [header |-> header, source |-> held.source, blocks |-> blocks,
                      damaged |-> TRUE, first |-> held.first]
          /\ blocks = [k \in 1 .. Len(held.source) |-> blocks[k]]
    <2> DEFINE yes == TRUE
    <2>1. CASE \E k \in DOMAIN held.blocks : \E field \in {"d", "m"} :
                 held' = [held EXCEPT !.blocks[k][field] = NonFinite, !.damaged = yes]
      <3>1. PICK k \in DOMAIN held.blocks, field \in {"d", "m"} :
              held' = [held EXCEPT !.blocks[k][field] = NonFinite, !.damaged = yes]
        BY <2>1, Zenon
      <3> DEFINE b == [held.blocks EXCEPT ![k][field] = NonFinite]
      <3> HIDE DEF yes
      <3>2. held' = [header |-> held.header, source |-> held.source, blocks |-> b,
                     damaged |-> yes, first |-> held.first]
        <4>1. Overwritten(held, k, field, NonFinite, yes)
                = [header |-> held.header, source |-> held.source,
                   blocks |-> FieldSet(held.blocks, k, field, NonFinite),
                   damaged |-> yes, first |-> held.first]
          BY <1>2, ScaleSet, SMT
        <4>2. held' = Overwritten(held, k, field, NonFinite, yes)
          BY <3>1 DEF Overwritten
        <4>3. FieldSet(held.blocks, k, field, NonFinite) = b
          BY DEF FieldSet
        <4> HIDE DEF b
        <4> QED
          BY <4>1, <4>2, <4>3
      <3>3. b = [j \in 1 .. Len(held.source) |-> b[j]]
        BY <1>3
      <3> HIDE DEF b
      <3> QED
        BY <3>2, <3>3, Zenon DEF yes
    <2>2. CASE held' = [held EXCEPT !.header = NonFinite, !.damaged = yes]
      <3> HIDE DEF yes
      <3>1. held' = [header |-> NonFinite, source |-> held.source, blocks |-> held.blocks,
                     damaged |-> yes, first |-> held.first]
        <4>1. [held EXCEPT !.header = NonFinite, !.damaged = yes]
                = [header |-> NonFinite, source |-> held.source, blocks |-> held.blocks,
                   damaged |-> yes, first |-> held.first]
          BY <1>2, HeaderSet, Zenon
        <4> QED
          BY <2>2, <4>1
      <3> QED
        BY <1>3, <3>1, Zenon DEF yes
    <2> QED
      BY <2>1, <2>2, Zenon DEF Damage
  <1>5. PICK header, blocks :
          /\ held' = [header |-> header, source |-> held.source, blocks |-> blocks,
                      damaged |-> TRUE, first |-> held.first]
          /\ blocks = [k \in 1 .. Len(held.source) |-> blocks[k]]
    BY <1>4, Zenon
  <1> DEFINE d == [header |-> header, source |-> held.source, blocks |-> blocks,
                   damaged |-> TRUE, first |-> held.first]
  <1>6. /\ d.source = held.source /\ d.first = held.first /\ d.blocks = blocks
        /\ d = [header |-> d.header, source |-> d.source, blocks |-> d.blocks,
                damaged |-> d.damaged, first |-> d.first]
    BY Zenon
  <1>7. d.damaged = TRUE
    BY Zenon
  <1>8. held' = d
    BY <1>5
  <1> HIDE DEF d
  <1>9. Kept(adapter, build, d) /\ \A r : Ended(r, held) => Ended(r, d)
    BY <1>1, <1>2, <1>5, <1>6, <1>7, Damaged, Zenon
  <1>10. ftz = callerMode /\ callerMode \in BOOLEAN /\ adapter \in Codecs
    BY <1>1, Zenon DEF Inv, ModeInv, SlotInv
  <1>11. RetInv'
    BY <1>1, <1>8, <1>9, Zenon DEF Inv, RetInv
  <1> QED
    BY <1>1, <1>8, <1>9, <1>10, <1>11, Zenon DEF Inv, SlotInv, ModeInv, CallInv, HeldInv, BackInv

(* Discard. *)
LEMMA DiscardInv ==
  ASSUME Inv, Discard
  PROVE  Inv'
  BY Zenon DEF Discard, Inv, SlotInv, ModeInv, CallInv, HeldInv, BackInv, RetInv

(* Every action keeps the invariant. *)
LEMMA NextInv ==
  Inv /\ [Next]_vars => Inv'
  <1> SUFFICES ASSUME Inv, [Next]_vars PROVE Inv'
    OBVIOUS
  <1>1. CASE UNCHANGED vars
    BY <1>1, Zenon DEF vars, Inv, SlotInv, ModeInv, CallInv, HeldInv, BackInv, RetInv
  <1>2. CASE Next
    BY <1>2, SetAdapterInv, CompressInv, DecompressInv, RecompressInv, StepInv, DecodeFailsInv,
       CompressReturnInv, DecompressReturnInv, DamageInv, DiscardInv, Zenon DEF Next
  <1> QED
    BY <1>1, <1>2, Zenon

-----------------------------------------------------------------------------
(* The properties. *)

(* The inductive invariant holds of every state the codec can be in: what  *)
(* a call has written is, block by block, the code of what it has read     *)
(* (quantizer.hpp, the block loops), and what the caller keeps and reads   *)
(* back is the stream of the tensor it passed and the decoding of it.      *)
THEOREM CodecInv ==
  Spec => []Inv
  <1>1. Init => Inv
    BY InitInv
  <1>2. Inv /\ [Next]_vars => Inv'
    BY NextInv
  <1> QED
    BY <1>1, <1>2, PTL DEF Spec

(* EC158 (fpe_guard.hpp:286 "Finite-in -> Finite-out", 291 "Round-to-      *)
(* nearest-even on the discarded mantissa bits"): every number of a        *)
(* tensor compressed to BF16, FP16, E4M3 or E5M2, by the scalar loops or   *)
(* the AVX-512 lanes, has the code whose value is nearest, the even one    *)
(* of two; for every FP32 number, every length and every build.            *)
THEOREM CodecNearestCode ==
  Spec => []NearestCode
  <1>1. Inv => NearestCode
    <2> SUFFICES ASSUME Inv, JustCompressed, adapter \in Narrowed,
                        NEW k \in DOMAIN held.blocks, NEW i \in DOMAIN held.blocks[k]
                 PROVE  RightCode(adapter, held.source[k][i], held.blocks[k][i])
      BY Zenon DEF NearestCode
    <2>1. held # None
      BY Zenon DEF JustCompressed
    <2>2. IsStream(adapter, build, held)
      BY <2>1, Zenon DEF Inv, HeldInv, Kept
    <2>3. adapter \in Scalars
      BY Zenon DEF Scalars
    <2>4. /\ held.source \in Seq(BlockOf(adapter)) /\ DOMAIN held.blocks = 1 .. Len(held.source)
          /\ \A j \in 1 .. Len(held.source) :
               held.blocks[j] = Compressed(adapter, build, held.header, held.source[j])
      <3>1. held.blocks = [j \in 1 .. Len(held.source) |-> held.blocks[j]]
        BY <2>2, Zenon DEF IsStream
      <3>2. DOMAIN held.blocks = 1 .. Len(held.source)
        BY <3>1, Zenon
      <3> QED
        BY <2>2, <2>3, <3>2, Zenon DEF IsStream
    <2>5. held.source[k] \in Seq(Fp32)
      <3>1. BlockOf(adapter) = Seq(Fp32)
        BY <2>3, BlockOfIs, Zenon
      <3>2. \A j \in 1 .. Len(held.source) : held.source[j] \in BlockOf(adapter)
        BY <2>4, SMT
      <3> QED
        BY <2>4, <3>1, <3>2, Zenon
    <2> DEFINE blk == Compressed(adapter, build, held.header, held.source[k])
    <2>6. held.blocks[k] = blk
      BY <2>4, Zenon
    <2>7. \A j \in DOMAIN blk : RightCode(adapter, held.source[k][j], blk[j])
      BY <2>3, <2>5, ScalarBlock, Zenon
    <2> HIDE DEF blk
    <2> QED
      BY <2>6, <2>7, Zenon
  <1> QED
    BY <1>1, CodecInv, PTL

(* The early returns of the compressors and decompressors and              *)
(* FtzDazGuard: a call writes inside its room and no byte of its input,    *)
(* while it runs and when it fails; it fails only for a reason the caller  *)
(* can name, reports what it wrote, leaves nothing behind but the blocks   *)
(* before a broken one, and gives the floating-point mode back; for every  *)
(* tensor, every number of blocks and all arguments.                       *)
THEOREM CodecRefusalsAreClean ==
  Spec => []RefusalsAreClean
  <1>1. Inv => RefusalsAreClean
    <2> SUFFICES ASSUME Inv PROVE RefusalsAreClean
      OBVIOUS
    <2>1. call # Idle => StaysInRoom(call)
      BY ProgressFits, Zenon DEF Inv, SlotInv, CallInv, HeldInv
    <2>2. call = Idle => ftz = callerMode
      BY Zenon DEF Inv, ModeInv
    <2>3. \A c : RightfulOf(c, held) <=> Rightful(c)
      BY Zenon DEF RightfulOf, Rightful
    <2>4. ret # None =>
            /\ StaysInRoom(ret.call)
            /\ ret.value # 0 => ret.value = Written(ret.call)
            /\ ret.value = 0 /\ 0 \notin {ret.call.bytes, ret.call.need}
                 => Rightful(ret.call) /\ OnlyPrefix(ret.call)
      BY <2>3, Zenon DEF Inv, RetInv, Ended
    <2> QED
      BY <2>1, <2>2, <2>4, Zenon DEF RefusalsAreClean
  <1> QED
    BY <1>1, CodecInv, PTL

-----------------------------------------------------------------------------
(* The stream that was read, compressed again. *)

(* The scalar formats among them. *)
LEMMA DispatchScalar ==
  ASSUME NEW fmt \in Narrowed, NEW kernels, NEW h, NEW x
  PROVE  /\ Compressed(fmt, kernels, h, x) = EncodeScalar(fmt, kernels, x)
         /\ Decompressed(fmt, h, x) = [i \in DOMAIN x |-> Decode(fmt, x[i])]
  <1>1. fmt # "FP32" /\ fmt \notin DOMAIN GridKinds
    BY KindNames, SMT DEF Narrowed
  <1> QED
    BY <1>1, SMT DEF Compressed, Decompressed

(* What an AVX-512 lane makes of the value of its own code. *)
LEMMA LaneKept ==
  ASSUME NEW v \in Fp32
  PROVE  BF16Lane(Decode("BF16", BF16Lane(v))) = BF16Lane(v)
  <1> DEFINE c == BF16Lane(v)
             w == Decode("BF16", c)
  <1>1. "BF16" \in Narrowed
    BY Zenon DEF Narrowed
  <1>2. c \in CodeOf("BF16") /\ w \in Fp32
    BY <1>1, EncodeTyped, DecodeTyped, Zenon
  <1>3. w.abs = c.mag * 65536
    BY SMT DEF Decode
  <1> HIDE DEF c, w
  <1>4. CASE IsNaN32(v)
    <2>1. c = [sign |-> 0, mag |-> 32704]
      BY <1>4, LaneIs DEF c
    <2>2. IsNaN32(w)
      BY <1>3, <2>1, SMT DEF IsNaN32, Inf32
    <2>3. BF16Lane(w) = [sign |-> 0, mag |-> 32704]
      BY <1>2, <2>2, LaneIs
    <2> QED
      BY <2>1, <2>3 DEF w, c
  <1>5. CASE ~IsNaN32(v)
    <2>1. c = Encode("BF16", v)
      BY <1>5, LaneIs DEF c
    <2>2. v.abs = Inf32 \/ v.abs < Inf32
      BY <1>5, Fp32Parts, SMT DEF IsNaN32, Inf32
    <2>3. c.mag \in Nat /\ c.mag <= 32640
      <3>1. v.abs = Inf32 => c.mag = InfCode("BF16")
        BY <1>1, <2>1, EncodeIs, Zenon
      <3>2. v.abs < Inf32 => c.mag \in 0 .. LargestOf("BF16")
        BY <1>1, <2>1, EncodeIs, Zenon
      <3>3. InfCode("BF16") = 32640 /\ LargestOf("BF16") = 32639
        BY SMT DEF InfCode, LargestOf
      <3> QED
        BY <2>2, <3>1, <3>2, <3>3, SMT
    <2>4. ~IsNaN32(w)
      BY <1>3, <2>3, SMT DEF IsNaN32, Inf32
    <2>5. BF16Lane(w) = Encode("BF16", w)
      BY <1>2, <2>4, LaneIs
    <2>6. Encode("BF16", w) = c
      BY <1>1, <1>2, CodeKept, Zenon DEF w
    <2> QED
      BY <2>5, <2>6, Zenon DEF w, c
  <1> QED
    BY <1>4, <1>5, Zenon

(* The codes and the length of a scalar block, apart.                      *)
LEMMA ScalarCodes ==
  ASSUME NEW fmt \in Narrowed, NEW kernels, NEW h, NEW x \in Seq(Fp32)
  PROVE  \A i \in DOMAIN Compressed(fmt, kernels, h, x) : Compressed(fmt, kernels, h, x)[i] \in CodeOf(fmt)
  <1>1. fmt \in Scalars
    BY Zenon DEF Scalars
  <1>2. ASSUME NEW i \in DOMAIN Compressed(fmt, kernels, h, x)
        PROVE  Compressed(fmt, kernels, h, x)[i] \in CodeOf(fmt)
    BY <1>1, ScalarBlock, Zenon
  <1> QED
    BY <1>2, Zenon

(* What is read from a scalar block is as long as the block was. *)
LEMMA ScalarLength ==
  ASSUME NEW fmt \in Scalars, NEW kernels, NEW h, NEW g, NEW x \in Seq(Fp32)
  PROVE  Len(Decompressed(fmt, g, Compressed(fmt, kernels, h, x))) = Len(x)
  BY ScalarBlock, SMT

(* BF16, FP16, E4M3 and E5M2: every number that is read has the code it    *)
(* was read from.                                                          *)
LEMMA ScalarAgain ==
  ASSUME NEW fmt \in Narrowed, NEW kernels, NEW h, NEW g, NEW o, NEW x \in Seq(Fp32)
  PROVE  Compressed(fmt, kernels, o, Decompressed(fmt, g, Compressed(fmt, kernels, h, x)))
           = Compressed(fmt, kernels, h, x)
  <1> DEFINE Lane(i) == fmt = "BF16" /\ kernels = "avx512" /\ i <= 16 * (Len(x) \div 16)
             blk == Compressed(fmt, kernels, h, x)
             y == Decompressed(fmt, g, blk)
             r == Compressed(fmt, kernels, o, y)
  <1>1. blk = [i \in DOMAIN x |-> IF Lane(i) THEN BF16Lane(x[i]) ELSE Encode(fmt, x[i])]
    <2>1. Compressed(fmt, kernels, h, x) = EncodeScalar(fmt, kernels, x)
      BY DispatchScalar
    <2> QED
      BY <2>1, Zenon DEF EncodeScalar
  <1>2. \A z : /\ Decompressed(fmt, g, z) = [i \in DOMAIN z |-> Decode(fmt, z[i])]
               /\ Compressed(fmt, kernels, o, z) = EncodeScalar(fmt, kernels, z)
    <2> TAKE z
    <2>1. Decompressed(fmt, g, z) = [i \in DOMAIN z |-> Decode(fmt, z[i])]
      BY DispatchScalar
    <2>2. Compressed(fmt, kernels, o, z) = EncodeScalar(fmt, kernels, z)
      BY DispatchScalar
    <2> QED
      BY <2>1, <2>2
  <1>0. fmt \in Scalars
    BY Zenon DEF Scalars
  <1>4. /\ \A i \in DOMAIN blk : blk[i] \in CodeOf(fmt)
        /\ Len(y) = Len(x)
    <2>1. \A i \in DOMAIN blk : blk[i] \in CodeOf(fmt)
      BY ScalarCodes
    <2>2. Len(y) = Len(x)
      BY <1>0, ScalarLength
    <2> QED
      BY <2>1, <2>2, Zenon
  <1>5. \A i \in DOMAIN x : x[i] \in Fp32
    BY SMT
  <1> HIDE DEF blk
  <1>10. y = [i \in DOMAIN blk |-> Decode(fmt, blk[i])]
    BY <1>2, Zenon
  <1> HIDE DEF y
  <1>3. r = [i \in DOMAIN y |-> IF fmt = "BF16" /\ kernels = "avx512" /\ i <= 16 * (Len(y) \div 16)
                               THEN BF16Lane(y[i]) ELSE Encode(fmt, y[i])]
    BY <1>2, Zenon DEF EncodeScalar
  <1> HIDE DEF r
  <1>6. DOMAIN blk = DOMAIN x /\ DOMAIN y = DOMAIN x
    BY <1>1, <1>10, Zenon
  <1>7. r = [i \in DOMAIN x |-> IF Lane(i) THEN BF16Lane(y[i]) ELSE Encode(fmt, y[i])]
    BY <1>3, <1>4, <1>6, Zenon
  <1>8. \A i \in DOMAIN x : (IF Lane(i) THEN BF16Lane(y[i]) ELSE Encode(fmt, y[i]))
                              = (IF Lane(i) THEN BF16Lane(x[i]) ELSE Encode(fmt, x[i]))
    <2> TAKE i \in DOMAIN x
    <2>1. y[i] = Decode(fmt, blk[i]) /\ blk[i] \in CodeOf(fmt) /\ x[i] \in Fp32
      BY <1>4, <1>5, <1>6, <1>10, Zenon
    <2>2. blk[i] = IF Lane(i) THEN BF16Lane(x[i]) ELSE Encode(fmt, x[i])
      BY <1>1, Zenon
    <2>3. CASE Lane(i)
      <3>1. blk[i] = BF16Lane(x[i]) /\ fmt = "BF16"
        BY <2>2, <2>3, Zenon
      <3>2. BF16Lane(Decode("BF16", BF16Lane(x[i]))) = BF16Lane(x[i])
        BY <2>1, LaneKept, Zenon
      <3> QED
        BY <2>1, <2>3, <3>1, <3>2, Zenon
    <2>4. CASE ~Lane(i)
      <3>1. Encode(fmt, y[i]) = blk[i]
        BY <2>1, CodeKept, Zenon
      <3> HIDE DEF Lane
      <3> QED
        BY <2>2, <2>4, <3>1, Zenon
    <2> QED
      BY <2>3, <2>4, Zenon
  <1>9. r = blk
    <2> HIDE DEF Lane
    <2> QED
      BY <1>1, <1>7, <1>8, Zenon
  <1> QED
    BY <1>9, Zenon DEF r, y, blk

(* The block formats of one scale among them.                              *)
LEMMA DispatchINT ==
  ASSUME NEW fmt \in {"INT8", "INT4"}, NEW kernels, NEW h, NEW x
  PROVE  /\ Compressed(fmt, kernels, h, x) = EncodeINT(IntLevels[fmt], RoundsToEven(fmt, kernels), x)
         /\ Decompressed(fmt, h, x) = DecodeINT(x)
  <1>1. Compressed(fmt, kernels, h, x) = EncodeINT(IntLevels[fmt], RoundsToEven(fmt, kernels), x)
    BY Dispatch, Z3
  <1>2. Decompressed(fmt, h, x) = DecodeINT(x)
    BY DispatchBack, Z3
  <1> QED
    BY <1>1, <1>2

(* Q4_1 and Q5_1 among them. *)
LEMMA DispatchMinMax ==
  ASSUME NEW fmt \in {"Q4_1", "Q5_1"}, NEW kernels, NEW h, NEW x
  PROVE  /\ Compressed(fmt, kernels, h, x) = EncodeMinMax(MinMaxLevels[fmt], x)
         /\ Decompressed(fmt, h, x) = DecodeMinMax(x)
  <1>1. Compressed(fmt, kernels, h, x) = EncodeMinMax(MinMaxLevels[fmt], x)
    BY Dispatch, Z3
  <1>2. Decompressed(fmt, h, x) = DecodeMinMax(x)
    BY DispatchBack, Z3
  <1> QED
    BY <1>1, <1>2

(* The other formats with one scale, and FP32. *)
LEMMA DispatchOther ==
  ASSUME NEW kernels, NEW h, NEW x
  PROVE  /\ Compressed("Q5_0", kernels, h, x) = compressFP32ToQ5_0(x)
         /\ Decompressed("Q5_0", h, x) = decompressQ5_0ToFP32(x)
         /\ Compressed("IQ4_NL", kernels, h, x) = compressFP32ToIQ4_NL(x)
         /\ Decompressed("IQ4_NL", h, x) = decompressIQ4_NL_ToFP32(x)
         /\ Compressed("MXFP4", kernels, h, x) = compressFP32ToMXFP4(x)
         /\ Decompressed("MXFP4", h, x) = decompressMXFP4ToFP32(x)
         /\ Compressed("FP32", kernels, h, x) = x
         /\ Decompressed("FP32", h, x) = x
  <1>1. /\ Compressed("Q5_0", kernels, h, x) = compressFP32ToQ5_0(x)
        /\ Compressed("IQ4_NL", kernels, h, x) = compressFP32ToIQ4_NL(x)
        /\ Compressed("MXFP4", kernels, h, x) = compressFP32ToMXFP4(x)
        /\ Compressed("FP32", kernels, h, x) = x
    BY Dispatch
  <1>2. /\ Decompressed("Q5_0", h, x) = decompressQ5_0ToFP32(x)
        /\ Decompressed("IQ4_NL", h, x) = decompressIQ4_NL_ToFP32(x)
        /\ Decompressed("MXFP4", h, x) = DecodeE2M1(x.d, x)
        /\ Decompressed("FP32", h, x) = x
    BY DispatchBack
  <1> QED
    BY <1>1, <1>2, Zenon DEF decompressMXFP4ToFP32

(* Q5_0, by its format. *)
LEMMA DispatchQ5 ==
  ASSUME NEW fmt \in {"Q5_0"}, NEW kernels, NEW h, NEW x
  PROVE  /\ Compressed(fmt, kernels, h, x) = compressFP32ToQ5_0(x)
         /\ Decompressed(fmt, h, x) = decompressQ5_0ToFP32(x)
  <1>1. fmt = "Q5_0"
    BY SMT
  <1>2. /\ Compressed("Q5_0", kernels, h, x) = compressFP32ToQ5_0(x)
        /\ Decompressed("Q5_0", h, x) = decompressQ5_0ToFP32(x)
    BY DispatchOther
  <1> QED
    BY <1>1, <1>2, Zenon

(* IQ4_NL, by its format. *)
LEMMA DispatchIQ4 ==
  ASSUME NEW fmt \in {"IQ4_NL"}, NEW kernels, NEW h, NEW x
  PROVE  /\ Compressed(fmt, kernels, h, x) = compressFP32ToIQ4_NL(x)
         /\ Decompressed(fmt, h, x) = decompressIQ4_NL_ToFP32(x)
  <1>1. fmt = "IQ4_NL"
    BY SMT
  <1>2. /\ Compressed("IQ4_NL", kernels, h, x) = compressFP32ToIQ4_NL(x)
        /\ Decompressed("IQ4_NL", h, x) = decompressIQ4_NL_ToFP32(x)
    BY DispatchOther
  <1> QED
    BY <1>1, <1>2, Zenon

(* MXFP4, by its format. *)
LEMMA DispatchMX ==
  ASSUME NEW fmt \in {"MXFP4"}, NEW kernels, NEW h, NEW x
  PROVE  /\ Compressed(fmt, kernels, h, x) = compressFP32ToMXFP4(x)
         /\ Decompressed(fmt, h, x) = decompressMXFP4ToFP32(x)
  <1>1. fmt = "MXFP4"
    BY SMT
  <1>2. /\ Compressed("MXFP4", kernels, h, x) = compressFP32ToMXFP4(x)
        /\ Decompressed("MXFP4", h, x) = decompressMXFP4ToFP32(x)
    BY DispatchOther
  <1> QED
    BY <1>1, <1>2, Zenon

(* FP32, by its format. *)
LEMMA DispatchFP32 ==
  ASSUME NEW fmt \in {"FP32"}, NEW kernels, NEW h, NEW x
  PROVE  /\ Compressed(fmt, kernels, h, x) = x
         /\ Decompressed(fmt, h, x) = x
  <1>1. fmt = "FP32"
    BY SMT
  <1>2. /\ Compressed("FP32", kernels, h, x) = x
        /\ Decompressed("FP32", h, x) = x
    BY DispatchOther
  <1> QED
    BY <1>1, <1>2, Zenon

(* A block that can be read keeps its codes, or what is read from it, when *)
(* it is compressed again.                                                 *)
LEMMA BlockKept ==
  ASSUME NEW fmt \in Fixed, NEW kernels, NEW h, NEW o, NEW x \in BlockOf(fmt),
         ~Unreadable(fmt, Compressed(fmt, kernels, h, x))
  PROVE  LET blk == Compressed(fmt, kernels, h, x)
             again == Compressed(fmt, kernels, o, Reread(fmt, Decompressed(fmt, 0, blk)))
         IN  IF fmt \in DOMAIN IntLevels THEN again.q = blk.q
             ELSE Decompressed(fmt, 0, again) = Decompressed(fmt, 0, blk)
  <1> DEFINE blk == Compressed(fmt, kernels, h, x)
             y == Decompressed(fmt, 0, blk)
             again == Compressed(fmt, kernels, o, Reread(fmt, y))
             Goal == IF fmt \in DOMAIN IntLevels THEN again.q = blk.q
                     ELSE Decompressed(fmt, 0, again) = Decompressed(fmt, 0, blk)
  <1>1. fmt # "MXFP4" => Reread(fmt, y) = y
    BY Zenon DEF Reread
  <1>2. DOMAIN IntLevels = {"INT8", "INT4"} /\ DOMAIN MinMaxLevels = {"Q4_1", "Q5_1"}
        /\ IntLevels["INT8"] = 127 /\ IntLevels["INT4"] = 7
        /\ MinMaxLevels["Q4_1"] = 15 /\ MinMaxLevels["Q5_1"] = 31
    BY SMT DEF IntLevels, MinMaxLevels
  <1>3. CASE fmt \in Narrowed
    <2>1. fmt \in Scalars /\ fmt # "MXFP4" /\ fmt \notin DOMAIN IntLevels
      BY <1>2, <1>3, SMT DEF Narrowed, Scalars
    <2>2. x \in Seq(Fp32)
      BY <2>1, BlockOfIs, Zenon
    <2>3. Compressed(fmt, kernels, o, y) = blk
      BY <1>3, <2>2, ScalarAgain, SMT
    <2>4. Goal
      BY <1>1, <2>1, <2>3, Zenon
    <2> QED
      BY <2>4, Zenon
  <1>4. CASE fmt \in {"FP32"}
    <2>1. fmt # "MXFP4" /\ fmt \notin DOMAIN IntLevels
      BY <1>2, <1>4, SMT
    <2>2. ASSUME NEW g, NEW z
          PROVE  Compressed(fmt, kernels, g, z) = z /\ Decompressed(fmt, g, z) = z
      BY <1>4, DispatchFP32
    <2>3. Goal
      BY <1>1, <1>4, <2>1, <2>2, Zenon
    <2> QED
      BY <2>3, Zenon
  <1>5. ASSUME fmt \in {"INT8", "INT4", "Q4_1", "Q5_1", "Q5_0", "IQ4_NL", "MXFP4"}
        PROVE  x \in Blocks /\ fmt \in BlockFormats /\ fmt \notin Scalars
    <2>1. fmt \in BlockFormats /\ fmt \notin Scalars
      BY <1>2, <1>5, SMT DEF BlockFormats, Scalars, Narrowed
    <2> QED
      BY <2>1, BlockOfIs, Zenon
  <1>6. CASE fmt \in {"INT8", "INT4"}
    <2> DEFINE n == IntLevels[fmt]
               even == RoundsToEven(fmt, kernels)
    <2>1. n \in Nat /\ n > 0 /\ fmt \in DOMAIN IntLevels /\ fmt # "MXFP4"
      BY <1>2, <1>6, SMT
    <2>2. x \in Blocks
      BY <1>5, <1>6, SMT
    <2>3. blk = EncodeINT(n, even, x) /\ y = DecodeINT(blk) /\ Compressed(fmt, kernels, o, y) = EncodeINT(n, even, y)
      <3>1. \A g, z : Compressed(fmt, kernels, g, z) = EncodeINT(n, even, z) /\ Decompressed(fmt, g, z) = DecodeINT(z)
        BY <1>6, DispatchINT, ZenonT(60)
      <3> HIDE DEF n, even
      <3> QED
        BY <3>1, Zenon
    <2> HIDE DEF n, even, blk, y
    <2>4. EncodeINT(n, even, DecodeINT(EncodeINT(n, even, x))).q = EncodeINT(n, even, x).q
      BY <2>1, <2>2, IntAgain, Zenon
    <2>5. Goal
      BY <1>1, <2>1, <2>3, <2>4, Zenon
    <2> QED
      BY <2>5, Zenon DEF y, blk
  <1>7. CASE fmt \in {"Q4_1", "Q5_1"}
    <2> DEFINE n == MinMaxLevels[fmt]
    <2>1. n \in Nat /\ n > 0 /\ n <= 31 /\ fmt \notin DOMAIN IntLevels /\ fmt # "MXFP4"
      BY <1>2, <1>7, SMT
    <2>2. x \in Blocks /\ fmt \notin Scalars
      BY <1>5, <1>7, SMT
    <2>3. blk = EncodeMinMax(n, x) /\ y = DecodeMinMax(blk) /\ Compressed(fmt, kernels, o, y) = EncodeMinMax(n, y)
          /\ Decompressed(fmt, 0, EncodeMinMax(n, y)) = DecodeMinMax(EncodeMinMax(n, y))
      <3>1. \A g, z : Compressed(fmt, kernels, g, z) = EncodeMinMax(n, z) /\ Decompressed(fmt, g, z) = DecodeMinMax(z)
        BY <1>7, DispatchMinMax, Zenon
      <3> HIDE DEF n
      <3> QED
        BY <3>1, Zenon
    <2>4. blk.d # NonFinite
      <3>1. fmt \notin DOMAIN IntLevels \cup {"NVFP4"}
        BY <1>2, <1>7, SMT
      <3> HIDE DEF blk
      <3>2. ~Refused(fmt, blk)
        BY <2>2, Zenon DEF Unreadable, blk
      <3> QED
        BY <3>1, <3>2, Zenon DEF Refused
    <2> HIDE DEF n, blk, y
    <2>5. DecodeMinMax(EncodeMinMax(n, DecodeMinMax(EncodeMinMax(n, x)))) = DecodeMinMax(EncodeMinMax(n, x))
      <3>1. EncodeMinMax(n, x).d # NonFinite
        BY <2>3, <2>4, Zenon
      <3> QED
        BY <2>1, <2>2, <3>1, MinMaxAgain, Zenon
    <2>6. Goal
      BY <1>1, <2>1, <2>3, <2>5, Zenon DEF y
    <2> QED
      BY <2>6, Zenon DEF y, blk
  <1>8. CASE fmt \in {"Q5_0"}
    <2>1. fmt \notin DOMAIN IntLevels /\ fmt # "MXFP4" /\ x \in Blocks
      BY <1>2, <1>5, <1>8, SMT
    <2>2. blk = compressFP32ToQ5_0(x) /\ y = decompressQ5_0ToFP32(blk) /\ Compressed(fmt, kernels, o, y) = compressFP32ToQ5_0(y)
          /\ Decompressed(fmt, 0, compressFP32ToQ5_0(y)) = decompressQ5_0ToFP32(compressFP32ToQ5_0(y))
      <3>1. \A g, z : Compressed(fmt, kernels, g, z) = compressFP32ToQ5_0(z) /\ Decompressed(fmt, g, z) = decompressQ5_0ToFP32(z)
        BY <1>8, DispatchQ5, Zenon
      <3> QED
        BY <3>1, Zenon
    <2> HIDE DEF blk, y
    <2>3. decompressQ5_0ToFP32(compressFP32ToQ5_0(decompressQ5_0ToFP32(compressFP32ToQ5_0(x))))
            = decompressQ5_0ToFP32(compressFP32ToQ5_0(x))
      BY <2>1, Q5Again, Zenon
    <2>4. Goal
      BY <1>1, <2>1, <2>2, <2>3, Zenon DEF y
    <2> QED
      BY <2>4, Zenon DEF y, blk
  <1>9. CASE fmt \in {"IQ4_NL"}
    <2>1. fmt \notin DOMAIN IntLevels /\ fmt # "MXFP4" /\ x \in Blocks
      BY <1>2, <1>5, <1>9, SMT
    <2>2. blk = compressFP32ToIQ4_NL(x) /\ y = decompressIQ4_NL_ToFP32(blk) /\ Compressed(fmt, kernels, o, y) = compressFP32ToIQ4_NL(y)
          /\ Decompressed(fmt, 0, compressFP32ToIQ4_NL(y)) = decompressIQ4_NL_ToFP32(compressFP32ToIQ4_NL(y))
      <3>1. \A g, z : Compressed(fmt, kernels, g, z) = compressFP32ToIQ4_NL(z) /\ Decompressed(fmt, g, z) = decompressIQ4_NL_ToFP32(z)
        BY <1>9, DispatchIQ4, Zenon
      <3> QED
        BY <3>1, Zenon
    <2> HIDE DEF blk, y
    <2>3. decompressIQ4_NL_ToFP32(compressFP32ToIQ4_NL(decompressIQ4_NL_ToFP32(compressFP32ToIQ4_NL(x))))
            = decompressIQ4_NL_ToFP32(compressFP32ToIQ4_NL(x))
      BY <2>1, IQ4Again, Zenon
    <2>4. Goal
      BY <1>1, <2>1, <2>2, <2>3, Zenon DEF y
    <2> QED
      BY <2>4, Zenon DEF y, blk
  <1>10. CASE fmt \in {"MXFP4"}
    <2>1. fmt \notin DOMAIN IntLevels /\ x \in Blocks
      BY <1>2, <1>5, <1>10, SMT
    <2> DEFINE u == RereadBlock(y)
               e == compressFP32ToMXFP4(u)
    <2>2. \A g, z : Compressed(fmt, kernels, g, z) = compressFP32ToMXFP4(z)
                    /\ Decompressed(fmt, g, z) = decompressMXFP4ToFP32(z)
      BY <1>10, DispatchMX, Zenon
    <2>3. Reread(fmt, y) = RereadBlock(y)
      BY <1>10, Zenon DEF Reread, RereadBlock, RereadLane
    <2>4. blk = compressFP32ToMXFP4(x) /\ y = decompressMXFP4ToFP32(blk)
      BY <2>2, Zenon
    <2> HIDE DEF blk, y
    <2>5. Compressed(fmt, kernels, o, u) = e
      BY <2>2, Zenon
    <2>6. Decompressed(fmt, 0, e) = decompressMXFP4ToFP32(e)
      BY <2>2, Zenon
    <2>7. decompressMXFP4ToFP32(compressFP32ToMXFP4(RereadBlock(decompressMXFP4ToFP32(compressFP32ToMXFP4(x)))))
            = decompressMXFP4ToFP32(compressFP32ToMXFP4(x))
      BY <2>1, MXAgain, Zenon
    <2>8. Goal
      BY <2>1, <2>3, <2>4, <2>5, <2>6, <2>7, Zenon DEF y
    <2> QED
      BY <2>8, Zenon DEF y, blk
  <1>11. fmt \in Narrowed \/ fmt \in {"FP32"} \/ fmt \in {"INT8", "INT4"} \/ fmt \in {"Q4_1", "Q5_1"}
         \/ fmt \in {"Q5_0"} \/ fmt \in {"IQ4_NL"} \/ fmt \in {"MXFP4"}
    BY FormatNames, Zenon DEF Narrowed
  <1> QED
    BY <1>3, <1>4, <1>6, <1>7, <1>8, <1>9, <1>10, <1>11, Zenon

(* ksigns_iq2xs and the seven sign bits of IQ2_XXS, IQ2_XS and IQ3_XXS     *)
(* ("bit 7 forces even popcount parity"): the codebook formats keep the    *)
(* signs of the elements, and turn at most one of the smallest around,     *)
(* when the number of negative ones is odd; for every tensor, every number *)
(* of sub-blocks and whatever is done to the stream in between.            *)
THEOREM CodecSignsKept ==
  Spec => []SignsKept
  <1>1. Inv => SignsKept
    <2> SUFFICES ASSUME Inv, JustRead, ~held.damaged, adapter \in DOMAIN GridKinds,
                        NEW k \in DOMAIN back, NEW j \in DOMAIN back[k]
                 PROVE  SignsRight(adapter, held.source[k][j], back[k][j])
      BY Zenon DEF SignsKept
    <2>1. back # None /\ held # None /\ ReadFrom(adapter, back, held)
      BY Zenon DEF JustRead, Inv, BackInv, ReadFrom
    <2>2. IsStream(adapter, build, held)
      BY <2>1, Zenon DEF Inv, HeldInv, Kept
    <2>3. held.source \in Seq(BlockOf(adapter))
          /\ \A i \in 1 .. Len(held.source) :
               held.blocks[i] = Compressed(adapter, build, held.header, held.source[i])
      BY <2>2, Zenon DEF IsStream
    <2>4. k \in 1 .. Len(held.source)
          /\ back[k] = Decompressed(adapter, held.header, held.blocks[k])
      <3>1. back = [i \in 1 .. Len(held.source) |-> Decompressed(adapter, held.header, held.blocks[i])]
        BY <2>1, Zenon DEF ReadFrom
      <3>2. DOMAIN back = 1 .. Len(held.source)
            /\ \A i \in 1 .. Len(held.source) : back[i] = Decompressed(adapter, held.header, held.blocks[i])
        BY <3>1, Zenon
      <3> QED
        BY <3>2, Zenon
    <2>5. held.source[k] \in GridBlocksOf
      <3>1. \A i \in 1 .. Len(held.source) : held.source[i] \in BlockOf(adapter)
        BY <2>3, SMT
      <3> QED
        BY <2>4, <3>1, BlockOfIs, Zenon
    <2>6. held.blocks[k] = EncodeGrid(adapter, held.source[k])
      <3>1. Compressed(adapter, build, held.header, held.source[k]) = EncodeGrid(adapter, held.source[k])
        BY DispatchGrid, Zenon
      <3>2. held.blocks[k] = Compressed(adapter, build, held.header, held.source[k])
        BY <2>3, <2>4, Zenon
      <3> QED
        BY <3>1, <3>2, Zenon
    <2>7. back[k] = DecodeGrid(adapter, EncodeGrid(adapter, held.source[k]))
      <3>1. Decompressed(adapter, held.header, held.blocks[k]) = DecodeGrid(adapter, held.blocks[k])
        BY DispatchGrid, Zenon
      <3> QED
        BY <2>4, <2>6, <3>1, Zenon
    <2> QED
      BY <2>5, <2>7, GridSigns, Zenon
  <1> QED
    BY <1>1, CodecInv, PTL

(* A tensor that is compressed, read and compressed again keeps what can   *)
(* be read from it: an evicted tenant that nobody writes to is the same    *)
(* after the second eviction as after the first; for every tensor, every   *)
(* number of blocks and every build.                                       *)
THEOREM CodecNoDrift ==
  Spec => []NoDrift
  <1>1. Inv => NoDrift
    <2> SUFFICES ASSUME Inv, JustCompressed, held.first # None, ~held.damaged,
                        NEW k \in DOMAIN held.blocks
                 PROVE  IF adapter \in DOMAIN IntLevels THEN held.blocks[k].q = held.first.blocks[k].q
                        ELSE Decompressed(adapter, 0, held.blocks[k]) = Decompressed(adapter, 0, held.first.blocks[k])
      BY Zenon DEF NoDrift
    <2>1. Kept(adapter, build, held)
      BY Zenon DEF JustCompressed, Inv, HeldInv
    <2>2. /\ IsStream(adapter, build, held) /\ IsStream(adapter, build, held.first)
          /\ Repeats(adapter, held.source, held.first)
      BY <2>1, Zenon DEF Kept
    <2>3. /\ adapter \in Fixed /\ ~held.first.damaged
          /\ Len(held.source) = Len(held.first.source)
          /\ \A i \in 1 .. Len(held.source) :
               /\ ~Unreadable(adapter, held.first.blocks[i])
               /\ held.source[i] = Reread(adapter, Decompressed(adapter, 0, held.first.blocks[i]))
      BY <2>2, Zenon DEF Repeats
    <2>4. k \in 1 .. Len(held.source)
      <3>1. held.blocks = [i \in 1 .. Len(held.source) |-> held.blocks[i]]
        BY <2>2, Zenon DEF IsStream
      <3>2. DOMAIN held.blocks = 1 .. Len(held.source)
        BY <3>1, Zenon
      <3> QED
        BY <3>2, Zenon
    <2> DEFINE h == held.first.header
               o == held.header
               x == held.first.source[k]
    <2>5. held.blocks[k] = Compressed(adapter, build, o, held.source[k])
      BY <2>2, <2>4, Zenon DEF IsStream
    <2>6. /\ held.first.blocks[k] = Compressed(adapter, build, h, x)
          /\ held.first.source \in Seq(BlockOf(adapter))
      BY <2>2, <2>3, <2>4, Zenon DEF IsStream
    <2>7. x \in BlockOf(adapter)
      <3>1. \A i \in 1 .. Len(held.first.source) : held.first.source[i] \in BlockOf(adapter)
        BY <2>6, SMT
      <3> QED
        BY <2>3, <2>4, <3>1, Zenon
    <2> HIDE DEF h, o, x
    <2>8. /\ ~Unreadable(adapter, Compressed(adapter, build, h, x))
          /\ held.source[k] = Reread(adapter, Decompressed(adapter, 0, Compressed(adapter, build, h, x)))
      BY <2>3, <2>4, <2>6, Zenon
    <2> DEFINE blk == Compressed(adapter, build, h, x)
               again == Compressed(adapter, build, o, Reread(adapter, Decompressed(adapter, 0, blk)))
    <2>9. IF adapter \in DOMAIN IntLevels THEN again.q = blk.q
          ELSE Decompressed(adapter, 0, again) = Decompressed(adapter, 0, blk)
      BY <2>3, <2>7, <2>8, BlockKept, SMT
    <2>10. held.blocks[k] = again /\ held.first.blocks[k] = blk
      BY <2>5, <2>6, <2>8, Zenon
    <2> HIDE DEF blk, again
    <2> QED
      BY <2>9, <2>10, Zenon
  <1> QED
    BY <1>1, CodecInv, PTL

-----------------------------------------------------------------------------
(* How far a tensor read back lies from its source. *)

(* NVFP4, by its format, ...                                               *)
LEMMA DispatchNV ==
  ASSUME NEW fmt \in {"NVFP4"}, NEW kernels, NEW h, NEW x
  PROVE  /\ Compressed(fmt, kernels, h, x) = compressFP32ToNVFP4(h, x)
         /\ Decompressed(fmt, h, x) = decompressNVFP4ToFP32(h, x)
  <1>1. fmt = "NVFP4" /\ fmt \notin Narrowed /\ fmt # "FP32" /\ fmt \notin DOMAIN GridKinds
        /\ fmt \notin DOMAIN IntLevels
    BY KindNames, SMT DEF Narrowed
  <1>2. /\ Compressed(fmt, kernels, h, x) = EncodeBlock(fmt, kernels, h, x)
        /\ Decompressed(fmt, h, x) = DecodeBlock(fmt, h, x)
    BY <1>1, SMT DEF Compressed, Decompressed
  <1>3. EncodeBlock(fmt, kernels, h, x) = compressFP32ToNVFP4(h, x)
    BY <1>1, SMT DEF EncodeBlock
  <1>4. DecodeBlock(fmt, h, x) = decompressNVFP4ToFP32(h, x)
    BY <1>1, SMT DEF DecodeBlock
  <1> QED
    BY <1>2, <1>3, <1>4, Zenon

(* ... Q6_K, Q3_K and IQ4_XS, ...                                          *)
LEMMA DispatchSigned ==
  ASSUME NEW fmt \in {"Q6_K", "Q3_K", "IQ4_XS"}, NEW kernels, NEW h, NEW x
  PROVE  /\ Compressed(fmt, kernels, h, x) = EncodeSigned(fmt, x)
         /\ Decompressed(fmt, h, x) = DecodeSigned(fmt, x)
  <1>1. fmt \notin Narrowed /\ fmt # "FP32" /\ fmt \notin DOMAIN GridKinds /\ fmt \notin DOMAIN IntLevels
    BY KindNames, SMT DEF Narrowed
  <1>2. /\ Compressed(fmt, kernels, h, x) = EncodeBlock(fmt, kernels, h, x)
        /\ Decompressed(fmt, h, x) = DecodeBlock(fmt, h, x)
    BY <1>1, SMT DEF Compressed, Decompressed
  <1>3. EncodeBlock(fmt, kernels, h, x) = EncodeSigned(fmt, x)
    BY <1>1, SMT DEF EncodeBlock, compressFP32ToQ6_K, compressFP32ToQ3_K, compressFP32ToIQ4_XS
  <1>4. DecodeBlock(fmt, h, x) = DecodeSigned(fmt, x)
    BY <1>1, SMT DEF DecodeBlock, decompressQ6_K_ToFP32, decompressQ3_K_ToFP32, decompressIQ4_XS_ToFP32
  <1> QED
    BY <1>2, <1>3, <1>4, Zenon

(* ... and Q5_K, Q4_K and Q2_K.                                            *)
LEMMA DispatchMinima ==
  ASSUME NEW fmt \in {"Q5_K", "Q4_K", "Q2_K"}, NEW kernels, NEW h, NEW x
  PROVE  /\ Compressed(fmt, kernels, h, x) = EncodeRange(fmt, x)
         /\ Decompressed(fmt, h, x) = DecodeRange(x)
  <1>1. fmt \notin Narrowed /\ fmt # "FP32" /\ fmt \notin DOMAIN GridKinds /\ fmt \notin DOMAIN IntLevels
    BY KindNames, SMT DEF Narrowed
  <1>2. Decompressed(fmt, h, x) = DecodeBlock(fmt, h, x)
    BY <1>1, SMT DEF Decompressed
  <1>3. Compressed(fmt, kernels, h, x) = EncodeRange(fmt, x)
    <2>1. fmt \in DOMAIN RangeKinds
      BY KindNames
    <2> QED
      BY <2>1, DispatchRange, Zenon
  <1>4. DecodeBlock(fmt, h, x) = DecodeRange(x)
    BY <1>1, SMT DEF DecodeBlock, decompressQ5_K_ToFP32, decompressQ4_K_ToFP32, decompressQ2_K_ToFP32
  <1> QED
    BY <1>2, <1>3, <1>4, Zenon

(* A block of any format but those of the codebooks, compressed and read   *)
(* back.                                                                   *)
LEMMA BlockReadNear ==
  ASSUME NEW fmt \in BlockFormats, NEW kernels, NEW h \in Int, NEW x \in BlockOf(fmt),
         InRange(fmt, x), Whole(fmt, h, x)
  PROVE  BlockNear(fmt, h, x, Decompressed(fmt, h, Compressed(fmt, kernels, h, x)))
  <1> DEFINE b == Compressed(fmt, kernels, h, x)
             y == Decompressed(fmt, h, b)
  <1>1. x \in Blocks /\ (fmt \notin Layered => x \in [1 .. 1 -> SubBlocks])
    BY BlockOfIs, Zenon
  <1>2. fmt \in {"INT8", "INT4", "Q4_1", "Q5_1", "Q6_K", "Q3_K", "IQ4_XS", "Q5_K", "Q4_K", "Q2_K",
                 "Q5_0", "IQ4_NL", "NVFP4", "MXFP4"}
    BY KindNames, SMT DEF BlockFormats
  <1>3. Layered = {"Q6_K", "Q3_K", "IQ4_XS", "Q5_K", "Q4_K", "Q2_K"}
    BY KindNames, SMT DEF Layered
  <1>4. CASE fmt \in {"INT8", "INT4"}
    <2>1. fmt \in DOMAIN IntLevels /\ fmt \notin Layered
      BY <1>3, <1>4, KindNames, SMT
    <2>2. y = DecodeINT(EncodeINT(IntLevels[fmt], RoundsToEven(fmt, kernels), x))
      <3>1. b = EncodeINT(IntLevels[fmt], RoundsToEven(fmt, kernels), x)
        BY <1>4, DispatchINT
      <3>2. \A c : Decompressed(fmt, h, c) = DecodeINT(c)
        BY <1>4, DispatchINT, Zenon
      <3> QED
        BY <3>1, <3>2, Zenon
    <2>3. BlockNear(fmt, h, x, DecodeINT(EncodeINT(IntLevels[fmt], RoundsToEven(fmt, kernels), x)))
      BY <1>1, <2>1, IntBlockNear
    <2> QED
      BY <2>2, <2>3, Zenon
  <1>5. CASE fmt \in {"Q4_1", "Q5_1"}
    <2>1. fmt \in DOMAIN MinMaxLevels /\ fmt \notin Layered
      BY <1>3, <1>5, KindNames, SMT
    <2>2. y = DecodeMinMax(EncodeMinMax(MinMaxLevels[fmt], x))
      <3>1. b = EncodeMinMax(MinMaxLevels[fmt], x)
        BY <1>5, DispatchMinMax, SMT
      <3>2. \A c : Decompressed(fmt, h, c) = DecodeMinMax(c)
        BY <1>5, DispatchMinMax, Zenon
      <3> QED
        BY <3>1, <3>2, Zenon
    <2>3. BlockNear(fmt, h, x, DecodeMinMax(EncodeMinMax(MinMaxLevels[fmt], x)))
      BY <1>1, <2>1, MinMaxBlockNear
    <2> QED
      BY <2>2, <2>3, Zenon
  <1>6. CASE fmt \in {"Q6_K", "Q3_K", "IQ4_XS"}
    <2>1. fmt \in DOMAIN SignedKinds
      BY <1>6, KindNames, SMT
    <2>2. y = DecodeSigned(fmt, EncodeSigned(fmt, x))
      <3>1. b = EncodeSigned(fmt, x)
        BY <1>6, DispatchSigned, SMT
      <3>2. \A c : Decompressed(fmt, h, c) = DecodeSigned(fmt, c)
        BY <1>6, DispatchSigned, Zenon
      <3> QED
        BY <3>1, <3>2, Zenon
    <2> QED
      BY <1>1, <2>1, <2>2, SignedBlockNear, Zenon
  <1>7. CASE fmt \in {"Q5_K", "Q4_K", "Q2_K"}
    <2>1. fmt \in DOMAIN RangeKinds
      BY <1>7, KindNames, SMT
    <2>2. y = DecodeRange(EncodeRange(fmt, x))
      <3>1. b = EncodeRange(fmt, x)
        BY <1>7, DispatchMinima, SMT
      <3>2. \A c : Decompressed(fmt, h, c) = DecodeRange(c)
        BY <1>7, DispatchMinima, Zenon
      <3> QED
        BY <3>1, <3>2, Zenon
    <2> QED
      BY <1>1, <2>1, <2>2, RangeBlockNear, Zenon
  <1>8. CASE fmt \in {"Q5_0"}
    <2>1. fmt = "Q5_0" /\ fmt \notin Layered
      BY <1>3, <1>8, SMT
    <2>2. y = decompressQ5_0ToFP32(compressFP32ToQ5_0(x))
      <3>1. b = compressFP32ToQ5_0(x)
        BY <1>8, DispatchQ5, Zenon
      <3>2. \A c : Decompressed(fmt, h, c) = decompressQ5_0ToFP32(c)
        BY <1>8, DispatchQ5, Zenon
      <3> QED
        BY <3>1, <3>2, Zenon
    <2> QED
      BY <1>1, <2>1, <2>2, Q5BlockNear, Zenon
  <1>9. CASE fmt \in {"IQ4_NL"}
    <2>1. fmt = "IQ4_NL" /\ fmt \notin Layered
      BY <1>3, <1>9, SMT
    <2>2. y = decompressIQ4_NL_ToFP32(compressFP32ToIQ4_NL(x))
      <3>1. b = compressFP32ToIQ4_NL(x)
        BY <1>9, DispatchIQ4, Zenon
      <3>2. \A c : Decompressed(fmt, h, c) = decompressIQ4_NL_ToFP32(c)
        BY <1>9, DispatchIQ4, Zenon
      <3> QED
        BY <3>1, <3>2, Zenon
    <2> QED
      BY <1>1, <2>1, <2>2, IQ4BlockNear, Zenon
  <1>10. CASE fmt \in {"MXFP4"}
    <2>1. fmt = "MXFP4" /\ fmt \notin Layered
      BY <1>3, <1>10, SMT
    <2>2. y = decompressMXFP4ToFP32(compressFP32ToMXFP4(x))
      <3>1. b = compressFP32ToMXFP4(x)
        BY <1>10, DispatchMX, Zenon
      <3>2. \A c : Decompressed(fmt, h, c) = decompressMXFP4ToFP32(c)
        BY <1>10, DispatchMX, Zenon
      <3> QED
        BY <3>1, <3>2, Zenon
    <2> QED
      BY <1>1, <2>1, <2>2, MXBlockNear, Zenon
  <1>11. CASE fmt \in {"NVFP4"}
    <2>1. fmt = "NVFP4" /\ fmt \notin Layered
      BY <1>3, <1>11, SMT
    <2>2. y = decompressNVFP4ToFP32(h, compressFP32ToNVFP4(h, x))
      <3>1. b = compressFP32ToNVFP4(h, x)
        BY <1>11, DispatchNV, ZenonT(60)
      <3>2. \A c : Decompressed(fmt, h, c) = decompressNVFP4ToFP32(h, c)
        BY <1>11, DispatchNV, Zenon
      <3> QED
        BY <3>1, <3>2, Zenon
    <2> QED
      BY <1>1, <2>1, <2>2, NVBlockNear, Zenon
  <1> QED
    BY <1>2, <1>4, <1>5, <1>6, <1>7, <1>8, <1>9, <1>10, <1>11, SMT

(* ErrorBounded, of the block formats: a decoded number is off by no more  *)
(* than half a code and what rounding the scales costs, for every tensor   *)
(* in the range of its format.                                             *)
THEOREM CodecErrorBounded ==
  Spec => [](adapter \notin DOMAIN GridKinds => ErrorBounded)
  <1>1. Inv => (adapter \notin DOMAIN GridKinds => ErrorBounded)
    <2> SUFFICES ASSUME Inv, adapter \notin DOMAIN GridKinds, JustRead, ~held.damaged, adapter \notin Scalars,
                        NEW k \in DOMAIN back,
                        InRange(adapter, held.source[k]), Whole(adapter, held.header, held.source[k])
                 PROVE  BlockNear(adapter, held.header, held.source[k], back[k])
      BY Zenon DEF ErrorBounded
    <2>1. back # None /\ held # None /\ ReadFrom(adapter, back, held)
      BY Zenon DEF JustRead, Inv, BackInv, ReadFrom
    <2>2. IsStream(adapter, build, held) /\ adapter # Unsupported /\ adapter \in Codecs
      BY <2>1, Zenon DEF Inv, SlotInv, HeldInv, Kept
    <2>3. adapter \in BlockFormats
      BY <2>2, SMT DEF Codecs, Dispatched, Foreign, BlockFormats
    <2>4. held.source \in Seq(BlockOf(adapter)) /\ held.header \in Int
          /\ \A i \in 1 .. Len(held.source) :
               held.blocks[i] = Compressed(adapter, build, held.header, held.source[i])
      BY <2>2, Zenon DEF IsStream
    <2>5. k \in 1 .. Len(held.source)
          /\ back[k] = Decompressed(adapter, held.header, held.blocks[k])
      <3>1. back = [i \in 1 .. Len(held.source) |-> Decompressed(adapter, held.header, held.blocks[i])]
        BY <2>1, Zenon DEF ReadFrom
      <3>2. DOMAIN back = 1 .. Len(held.source)
            /\ \A i \in 1 .. Len(held.source) : back[i] = Decompressed(adapter, held.header, held.blocks[i])
        BY <3>1, Zenon
      <3> QED
        BY <3>2, Zenon
    <2>6. held.source[k] \in BlockOf(adapter)
      BY <2>4, <2>5, SMT
    <2>7. back[k] = Decompressed(adapter, held.header, Compressed(adapter, build, held.header, held.source[k]))
      BY <2>4, <2>5, Zenon
    <2> QED
      BY <2>3, <2>4, <2>6, <2>7, BlockReadNear, Zenon
  <1> QED
    BY <1>1, CodecInv, PTL
=============================================================================
