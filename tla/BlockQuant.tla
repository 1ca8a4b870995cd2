----------------------------- MODULE BlockQuant -----------------------------
(***************************************************************************)
(* The block formats of qtx/quantize/quantizer.hpp whose codes are         *)
(* multiples of a scale (or, IQ4, of an entry of a table of 16): how a     *)
(* block of numbers is turned into scales and codes, and back.             *)
(*                                                                         *)
(* A block is a sequence of sub-blocks, each a sequence of numbers; the    *)
(* formats without sub-blocks have one.  Numbers are integers, in units of *)
(* the smallest FP16 number (2^-24) for the formats whose scales are FP16  *)
(* numbers and for NVFP4, of the smallest normal FP32 number for INT8,     *)
(* INT4 and MXFP4.  Arithmetic is exact: an FP32 quotient p / q is the     *)
(* pair of its terms until it is rounded to a code or to an FP16 scale.    *)
(* NonFinite is any NaN or infinity.                                       *)
(***************************************************************************)
EXTENDS Integers, Sequences, FiniteSetsExt

CONSTANTS HalfMax,    \* the largest FP16 number
          FloatMax,   \* the largest FP32 number
          NonFinite

ASSUME NumbersAssumption ==
  /\ HalfMax \in Nat \ {0} /\ FloatMax \in Nat /\ 31 * HalfMax <= FloatMax
  /\ NonFinite \notin Int
Number == {NonFinite} \cup Int

Abs(n) == IF n < 0 THEN -n ELSE n
Clamp(n, lo, hi) == IF n < lo THEN lo ELSE IF n > hi THEN hi ELSE n
Sane(v) == IF v = NonFinite THEN 0 ELSE v          \* core::sanitiseFinite

-----------------------------------------------------------------------------
(* Rounding of p / q. *)

(* A bug: a conversion to an integer where it should be rounded. *)
Truncated(p, q) == p \div q

HalfUp(p, q) == (p \div q) + (IF 2 * (p % q) >= q THEN 1 ELSE 0)
HalfEven(p, q) ==
  LET whole == p \div q  rest == 2 * (p % q)
  IN  IF rest > q \/ (rest = q /\ whole % 2 = 1) THEN whole + 1 ELSE whole
Signed(Round(_, _), p, q) ==
  LET r == Round(Abs(p), Abs(q)) IN IF (p < 0) = (q < 0) THEN r ELSE -r
nearestInt(p, q) == Signed(HalfUp, p, q)           \* also lroundHalfAwayFast

\* A non-negative quotient with "bits" significant bits, in whole units; no
\* scale has more binary digits than Digits.
Digits == 18
RoundSignificant(p, q, bits) ==
  LET last == Digits - bits
      e == Min({k \in 0 .. last : p < q * 2^(bits + k)} \cup {last})
  IN  HalfEven(p, q * 2^e) * 2^e

ASSUME HalfAssumption == RoundSignificant(HalfMax, 1, 11) = HalfMax

\* fp32ToFP16Safe; [1/4, 1/2) becomes one unit, as it does there.
Half(p, q) ==
  Signed(LAMBDA a, b : IF 4 * a < b THEN 0
                       ELSE IF 2 * a < b THEN 1
                       ELSE Min({RoundSignificant(a, b, 11), HalfMax}), p, q)

-----------------------------------------------------------------------------
(* What the encoders measure. *)

AbsMax(x) == Max({Abs(Sane(x[i])) : i \in DOMAIN x})
MaxOf(x) == Max({Sane(x[i]) : i \in DOMAIN x})
MinOf(x) == Min({Sane(x[i]) : i \in DOMAIN x})
Flat(block) == UNION {{Abs(Sane(block[j][i])) : i \in DOMAIN block[j]} : j \in DOMAIN block}

\* subBlockSignedAbsMax: the first of the elements of largest magnitude.
SignedAbsMax(x) ==
  LET first == Min({i \in DOMAIN x : Abs(Sane(x[i])) = AbsMax(x)}) IN Sane(x[first])
FirstLargest(values) == SignedAbsMax(values)

Codes(x, Code(_, _)) ==
  [j \in DOMAIN x |-> [i \in DOMAIN x[j] |-> Code(j, Sane(x[j][i]))]]
Zeros(x) == [j \in DOMAIN x |-> 0]
\* std::memset(out, 0, ...)
ZeroBlock(x) ==
  [d |-> 0, m |-> 0, s |-> Zeros(x), n |-> Zeros(x), q |-> Codes(x, LAMBDA j, v : 0)]

-----------------------------------------------------------------------------
(***************************************************************************)
(* INT8 and INT4, n = 127 and 7.  A scale below one unit, here the         *)
(* smallest normal FP32 number, is flushed to zero (FtzDazGuard).  The     *)
(* SIMD kernels round a tie to even, the scalar loops away from zero.      *)
(***************************************************************************)
Kernels == {"scalar", "avx2", "avx512"}
RoundsToEven(fmt, build) == build = "avx512" \/ (build = "avx2" /\ fmt = "INT8")
ClampAbsMax(a, n) == Min({a, FloatMax \div n})

EncodeINT(n, even, x) ==
  LET amax == ClampAbsMax(AbsMax(x[1]), n)
      scale == IF amax < n THEN 0 ELSE amax \div n
      Code(j, v) == IF scale = 0 THEN 0
                    ELSE Clamp(IF even THEN Signed(HalfEven, v, scale)
                                       ELSE nearestInt(v, scale), -n, n)
  IN  [d |-> scale, m |-> 0, s |-> Zeros(x), n |-> Zeros(x), q |-> Codes(x, Code)]

DecodeINT(blk) ==
  [j \in DOMAIN blk.q |-> [i \in DOMAIN blk.q[j] |-> blk.q[j][i] * Sane(blk.d)]]

-----------------------------------------------------------------------------
(***************************************************************************)
(* Q4_1 and Q5_1, n = 15 and 31.  When the largest and the smallest        *)
(* element lie further apart than FP32 reaches, the difference and the     *)
(* stored scale are infinite; every quotient is then zero or NaN, and the  *)
(* conversion of NaN to int, followed by the clamp, leaves code zero.      *)
(***************************************************************************)
EncodeMinMax(n, x) ==
  LET lo == MinOf(x[1])
      range == MaxOf(x[1]) - lo
      overflows == range > FloatMax
      Code(j, v) == IF overflows \/ range = 0 THEN 0
                    ELSE Clamp(HalfUp((v - lo) * n, range), 0, n)
  IN  [d |-> IF overflows THEN NonFinite ELSE Half(range, n), m |-> Half(lo, 1),
       s |-> Zeros(x), n |-> Zeros(x), q |-> Codes(x, Code)]

DecodeMinMax(blk) ==
  [j \in DOMAIN blk.q |-> [i \in DOMAIN blk.q[j] |-> blk.q[j][i] * blk.d + blk.m]]

(* A bug: the scale of a code that is symmetric about zero. *)
CompressQ5_0Symmetric(x) ==
  LET vmax == SignedAbsMax(x[1])
      Code(j, v) == IF vmax = 0 THEN 16
                    ELSE Clamp(HalfUp(16 * Abs(vmax) - 16 * v * (vmax \div Abs(vmax)), Abs(vmax)), 0, 31)
  IN  [d |-> Half(vmax, -15), m |-> 0, s |-> Zeros(x), n |-> Zeros(x), q |-> Codes(x, Code)]

\* Q5_0: the element of largest magnitude is given code 0.
compressFP32ToQ5_0(x) ==
  LET vmax == SignedAbsMax(x[1])
      Code(j, v) == IF vmax = 0 THEN 16
                    ELSE LET toward == IF vmax > 0 THEN -16 * v ELSE 16 * v
                         IN  Clamp(HalfUp(toward + 16 * Abs(vmax), Abs(vmax)), 0, 31)
  IN  [d |-> Half(vmax, -16), m |-> 0, s |-> Zeros(x), n |-> Zeros(x), q |-> Codes(x, Code)]

decompressQ5_0ToFP32(blk) ==
  [j \in DOMAIN blk.q |-> [i \in DOMAIN blk.q[j] |-> (blk.q[j][i] - 16) * blk.d]]

-----------------------------------------------------------------------------
(* The table of IQ4_NL and IQ4_XS; bestIndexIQ4(p / q) takes the first of  *)
(* the nearest entries, and the end ones for what lies beyond them.        *)

IQ4Codebook == <<-127, -104, -83, -65, -49, -35, -22, -10,
                 1, 13, 25, 38, 53, 69, 89, 113>>
bestIndexIQ4(p, q) ==
  LET a == IF q < 0 THEN -p ELSE p
      b == Abs(q)
      error == [k \in 1 .. 16 |-> Abs(a - IQ4Codebook[k] * b)]
  IN  IF a <= IQ4Codebook[1] * b THEN 0
      ELSE IF a >= IQ4Codebook[16] * b THEN 15
      ELSE Min({k \in 1 .. 16 : \A o \in 1 .. 16 : error[k] <= error[o]}) - 1

compressFP32ToIQ4_NL(x) ==
  LET vmax == SignedAbsMax(x[1])
      Code(j, v) == IF vmax = 0 THEN bestIndexIQ4(0, 1) ELSE bestIndexIQ4(-127 * v, vmax)
  IN  [d |-> Half(vmax, -127), m |-> 0, s |-> Zeros(x), n |-> Zeros(x), q |-> Codes(x, Code)]

decompressIQ4_NL_ToFP32(blk) ==
  [j \in DOMAIN blk.q |-> [i \in DOMAIN blk.q[j] |-> IQ4Codebook[blk.q[j][i] + 1] * blk.d]]

-----------------------------------------------------------------------------
(***************************************************************************)
(* Q6_K, Q3_K and IQ4_XS: the scale of a sub-block maps its element of     *)
(* largest magnitude to -"levels"; these scales are in turn multiples of   *)
(* the scale of the block, which maps the largest to -"scales".  "bias"    *)
(* and "scaleBias" are added before a code or a scale is stored.  A        *)
(* quotient is rounded with the scales the decoder will see.               *)
(***************************************************************************)
SignedKinds ==
  [Q6_K   |-> [levels |-> 32,  scales |-> 128, bias |-> 32, scaleBias |-> 0],
   Q3_K   |-> [levels |-> 4,   scales |-> 32,  bias |-> 4,  scaleBias |-> 32],
   IQ4_XS |-> [levels |-> 127, scales |-> 32,  bias |-> 0,  scaleBias |-> 32]]

EncodeSigned(fmt, x) ==
  LET f == SignedKinds[fmt]
      extreme == [j \in DOMAIN x |-> SignedAbsMax(x[j])]
      largest == FirstLargest(extreme)
      scale == [j \in DOMAIN x |->
                 Clamp(nearestInt(-f.scales * extreme[j], largest), -f.scales, f.scales - 1)]
      Code(j, v) ==
        IF fmt = "IQ4_XS"
        THEN IF scale[j] = 0 THEN bestIndexIQ4(0, 1)
             ELSE bestIndexIQ4(v * f.levels * f.scales, largest * scale[j])
        ELSE f.bias + (IF scale[j] = 0 THEN 0
                       ELSE Clamp(nearestInt(v * f.levels * f.scales, largest * scale[j]),
                                  -f.levels, f.levels - 1))
  IN  IF largest = 0 THEN ZeroBlock(x)
      ELSE [d |-> Half(largest, f.levels * f.scales), m |-> 0,
            s |-> [j \in DOMAIN x |-> scale[j] + f.scaleBias], n |-> Zeros(x),
            q |-> Codes(x, Code)]

DecodeSigned(fmt, blk) ==
  LET f == SignedKinds[fmt]
      Level(c) == IF fmt = "IQ4_XS" THEN IQ4Codebook[c + 1] ELSE c - f.bias
  IN  [j \in DOMAIN blk.q |-> [i \in DOMAIN blk.q[j] |->
         blk.d * (blk.s[j] - f.scaleBias) * Level(blk.q[j][i])]]

-----------------------------------------------------------------------------
(***************************************************************************)
(* Q5_K, Q4_K and Q2_K: every sub-block has a scale and a minimum, taken   *)
(* to be at most zero, each a multiple of one of the block.  When a range  *)
(* overflows FP32 the scale of the block is infinite and everything        *)
(* divided by it comes out as zero.                                        *)
(***************************************************************************)
RangeKinds ==
  [Q5_K |-> [levels |-> 31, scales |-> 63],
   Q4_K |-> [levels |-> 15, scales |-> 63],
   Q2_K |-> [levels |-> 3,  scales |-> 15]]

EncodeRange(fmt, x) ==
  LET f == RangeKinds[fmt]
      lo == [j \in DOMAIN x |-> Min({MinOf(x[j]), 0})]
      range == [j \in DOMAIN x |-> MaxOf(x[j]) - lo[j]]
      R == MaxOf(range)
      M == -MinOf(lo)
      overflows == R > FloatMax
      ls == [j \in DOMAIN x |->
              IF R = 0 \/ overflows THEN 0
              ELSE Clamp(nearestInt(f.scales * range[j], R), 0, f.scales)]
      lm == [j \in DOMAIN x |->
              IF M = 0 THEN 0 ELSE Clamp(nearestInt(f.scales * (-lo[j]), M), 0, f.scales)]
      Code(j, v) == IF ls[j] = 0 THEN 0
                    ELSE Clamp(nearestInt((v * f.scales + M * lm[j]) * f.levels, R * ls[j]),
                               0, f.levels)
  IN  [d |-> IF overflows THEN NonFinite ELSE Half(R, f.levels * f.scales),
       m |-> Half(M, f.scales), s |-> ls, n |-> lm, q |-> Codes(x, Code)]

DecodeRange(blk) ==
  [j \in DOMAIN blk.q |-> [i \in DOMAIN blk.q[j] |->
     blk.d * blk.s[j] * blk.q[j][i] - blk.m * blk.n[j]]]

-----------------------------------------------------------------------------
(***************************************************************************)
(* The E2M1 nibble of NVFP4 and MXFP4: magnitudes in halves, the midpoints *)
(* between them in quarters.  A midpoint goes to the even index.           *)
(***************************************************************************)
Magnitudes == <<0, 1, 2, 3, 4, 6, 8, 12>>
Midpoints == <<1, 3, 5, 7, 10, 14, 20>>
NearestE2M1(p, q) ==
  LET a == 4 * Abs(p)
      past == {k \in 1 .. 7 : a > Midpoints[k] * q \/ (a = Midpoints[k] * q /\ k % 2 = 1)}
      index == IF a >= 24 * q THEN 7 ELSE Max(past \cup {0})
  IN  index + (IF p < 0 THEN 8 ELSE 0)
ElementE2M1(nibble) ==
  (IF nibble >= 8 THEN -1 ELSE 1) * Magnitudes[(nibble % 8) + 1]

(***************************************************************************)
(* NVFP4.  The header is the largest magnitude of the whole tensor over    *)
(* 2688 = 448 * 6, kept here as that magnitude in units of HeaderUnit, of  *)
(* which it is a multiple; with this the block scale is 7B / 2g E4M3 units *)
(* and the product of the two scales gb / 21.                              *)
(***************************************************************************)
HeaderUnit == 65536
Header(blocks) ==
  Max((UNION {Flat(blocks[k]) : k \in DOMAIN blocks}) \cup {0}) \div HeaderUnit
MaxE4M3 == 448 * 512

compressFP32ToNVFP4(g, x) ==
  LET B == AbsMax(x[1])
      b == IF g = 0 THEN 0 ELSE Min({RoundSignificant(7 * B, 2 * g, 4), MaxE4M3})
      Code(j, v) == IF g * b = 0 THEN (IF v < 0 THEN 8 ELSE 0) ELSE NearestE2M1(21 * v, g * b)
  IN  [d |-> b, m |-> 0, s |-> Zeros(x), n |-> Zeros(x), q |-> Codes(x, Code)]

\* MXFP4: the power of two two binades below the largest element.
ASSUME RangeAssumption == FloatMax < 2^30
Exponent(a) == Max({e \in 0 .. 29 : 2^e <= a})
compressFP32ToMXFP4(x) ==
  LET A == AbsMax(x[1])
      scale == IF A = 0 THEN 0 ELSE 2^Max({0, Exponent(A) - 2})
      Code(j, v) == IF scale = 0 THEN (IF v < 0 THEN 8 ELSE 0) ELSE NearestE2M1(v, scale)
  IN  [d |-> scale, m |-> 0, s |-> Zeros(x), n |-> Zeros(x), q |-> Codes(x, Code)]

DecodeE2M1(scale, blk) ==
  [j \in DOMAIN blk.q |-> [i \in DOMAIN blk.q[j] |->
     IF blk.d = NonFinite THEN NonFinite ELSE ElementE2M1(blk.q[j][i]) * scale]]

\* A scale byte of NaN: NVFP4 multiplies it through, MXFP4 refuses the block.
decompressNVFP4ToFP32(header, blk) ==
  DecodeE2M1(IF blk.d = NonFinite THEN 0 ELSE header * blk.d, blk)
decompressMXFP4ToFP32(blk) == DecodeE2M1(blk.d, blk)

-----------------------------------------------------------------------------
(* All of them, by name.  A decoded number is Den(fmt) times too large. *)

IntLevels == [INT8 |-> 127, INT4 |-> 7]
MinMaxLevels == [Q4_1 |-> 15, Q5_1 |-> 31]
BlockFormats == DOMAIN IntLevels \cup DOMAIN MinMaxLevels \cup DOMAIN SignedKinds
                \cup DOMAIN RangeKinds \cup {"Q5_0", "IQ4_NL", "NVFP4", "MXFP4"}
Den(fmt) == CASE fmt = "NVFP4" -> 42 [] fmt = "MXFP4" -> 2 [] OTHER -> 1

\* The block loop of each compressor ...
compressFP32ToINT8(build, x) == EncodeINT(127, RoundsToEven("INT8", build), x)
compressFP32ToINT4(build, x) == EncodeINT(7, RoundsToEven("INT4", build), x)
compressFP32ToQ4_1(x) == EncodeMinMax(15, x)
compressFP32ToQ5_1(x) == EncodeMinMax(31, x)
compressFP32ToQ6_K(x) == EncodeSigned("Q6_K", x)
compressFP32ToQ3_K(x) == EncodeSigned("Q3_K", x)
compressFP32ToIQ4_XS(x) == EncodeSigned("IQ4_XS", x)
compressFP32ToQ5_K(x) == EncodeRange("Q5_K", x)
compressFP32ToQ4_K(x) == EncodeRange("Q4_K", x)
compressFP32ToQ2_K(x) == EncodeRange("Q2_K", x)

\* ... and of each decompressor.
decompressQ4_1ToFP32(blk) == DecodeMinMax(blk)
decompressQ5_1ToFP32(blk) == DecodeMinMax(blk)
decompressQ6_K_ToFP32(blk) == DecodeSigned("Q6_K", blk)
decompressQ3_K_ToFP32(blk) == DecodeSigned("Q3_K", blk)
decompressIQ4_XS_ToFP32(blk) == DecodeSigned("IQ4_XS", blk)
decompressQ5_K_ToFP32(blk) == DecodeRange(blk)
decompressQ4_K_ToFP32(blk) == DecodeRange(blk)
decompressQ2_K_ToFP32(blk) == DecodeRange(blk)

EncodeBlock(fmt, build, header, x) ==
  CASE fmt = "INT8" -> compressFP32ToINT8(build, x)
    [] fmt = "INT4" -> compressFP32ToINT4(build, x)
    [] fmt = "NVFP4" -> compressFP32ToNVFP4(header, x)
    [] fmt = "MXFP4" -> compressFP32ToMXFP4(x)
    [] fmt = "Q4_1" -> compressFP32ToQ4_1(x)     [] fmt = "Q5_0" -> compressFP32ToQ5_0(x)
    [] fmt = "Q5_1" -> compressFP32ToQ5_1(x)     [] fmt = "Q6_K" -> compressFP32ToQ6_K(x)
    [] fmt = "Q5_K" -> compressFP32ToQ5_K(x)     [] fmt = "Q4_K" -> compressFP32ToQ4_K(x)
    [] fmt = "Q3_K" -> compressFP32ToQ3_K(x)     [] fmt = "Q2_K" -> compressFP32ToQ2_K(x)
    [] fmt = "IQ4_NL" -> compressFP32ToIQ4_NL(x) [] fmt = "IQ4_XS" -> compressFP32ToIQ4_XS(x)

DecodeBlock(fmt, header, blk) ==
  CASE fmt \in DOMAIN IntLevels -> DecodeINT(blk)
    [] fmt = "NVFP4" -> decompressNVFP4ToFP32(header, blk)
    [] fmt = "MXFP4" -> decompressMXFP4ToFP32(blk)
    [] fmt = "Q4_1" -> decompressQ4_1ToFP32(blk)     [] fmt = "Q5_0" -> decompressQ5_0ToFP32(blk)
    [] fmt = "Q5_1" -> decompressQ5_1ToFP32(blk)     [] fmt = "Q6_K" -> decompressQ6_K_ToFP32(blk)
    [] fmt = "Q5_K" -> decompressQ5_K_ToFP32(blk)    [] fmt = "Q4_K" -> decompressQ4_K_ToFP32(blk)
    [] fmt = "Q3_K" -> decompressQ3_K_ToFP32(blk)    [] fmt = "Q2_K" -> decompressQ2_K_ToFP32(blk)
    [] fmt = "IQ4_NL" -> decompressIQ4_NL_ToFP32(blk)
    [] fmt = "IQ4_XS" -> decompressIQ4_XS_ToFP32(blk)

\* What the decoder refuses: a scale that is not finite, except where it is
\* taken for zero (INT8, INT4) or multiplied through (the scale of an NVFP4 block).
Refused(fmt, blk) ==
  fmt \notin DOMAIN IntLevels \cup {"NVFP4"} /\ NonFinite \in {blk.d, blk.m}

-----------------------------------------------------------------------------
(***************************************************************************)
(* Reference.  How far a decoded number may lie from its source, from the  *)
(* source alone: half a step between codes, what rounding the scales of    *)
(* the sub-blocks moves the step by, and what FP16 costs the scales of the *)
(* block (HalfCost is a bound on |q * Half(p, q) - p|).  It holds up to    *)
(* the range the format is meant for: FP16 for the scales stored as FP16,  *)
(* and for INT8 and INT4 the largest FP32 number over 127 and over 7.      *)
(***************************************************************************)
HalfCost(p, q) ==
  IF 2 * Abs(p) < q THEN q ELSE Max({q \div 2, Abs(p) \div 2048}) + 1

InRange(fmt, x) ==
  Max(Flat(x)) <= IF fmt \in DOMAIN IntLevels THEN FloatMax \div IntLevels[fmt]
                  ELSE IF fmt \in {"NVFP4", "MXFP4"} THEN FloatMax ELSE HalfMax

\* The FP32 scale of INT8 and INT4 and the FP32 header of NVFP4 are kept in
\* whole units; these are the blocks where that loses nothing.
Whole(fmt, header, x) ==
  /\ fmt \in DOMAIN IntLevels =>
       LET n == IntLevels[fmt] IN AbsMax(x[1]) < n \/ AbsMax(x[1]) % n = 0
  /\ fmt = "NVFP4" => AbsMax(x[1]) <= header * HeaderUnit

\* |y - x|, times Scale, is at most Bound, for the elements of sub-block j.
ErrorScale(fmt) ==
  CASE fmt \in DOMAIN IntLevels -> 2 * IntLevels[fmt]
    [] fmt \in DOMAIN MinMaxLevels -> 2 * MinMaxLevels[fmt]
    [] fmt \in DOMAIN SignedKinds -> SignedKinds[fmt].levels * SignedKinds[fmt].scales
    [] fmt \in DOMAIN RangeKinds -> 2 * RangeKinds[fmt].levels * RangeKinds[fmt].scales
    [] fmt = "Q5_0" -> 16
    [] fmt = "IQ4_NL" -> 127
    [] OTHER -> 1

ErrorBound(fmt, header, x, j) ==
  LET V == Max(Flat(x))
      A == AbsMax(x[j])
      lo == MinOf(x[j])
      range == MaxOf(x[j]) - lo
      e == ErrorScale(fmt)
      los == [k \in DOMAIN x |-> Min({MinOf(x[k]), 0})]
      ranges == [k \in DOMAIN x |-> MaxOf(x[k]) - los[k]]
      R == MaxOf(ranges)
      M == -MinOf(los)
  IN  CASE fmt \in DOMAIN IntLevels -> IF 2 * A < e THEN e * A ELSE A
        [] fmt \in DOMAIN MinMaxLevels ->
             range + e * (HalfCost(range, MinMaxLevels[fmt]) + HalfCost(lo, 1))
        [] fmt = "Q5_0" -> A + e * HalfCost(A, 16)
        [] fmt = "IQ4_NL" -> 14 * A + e * HalfCost(A, 127)
        [] fmt = "Q6_K" -> 128 * A + 33 * V + e * HalfCost(V, e)
        [] fmt = "Q3_K" -> 32 * A + 5 * V + e * HalfCost(V, e)
        [] fmt = "IQ4_XS" -> 14 * (32 * A + V) + 127 * V + e * HalfCost(V, e)
        [] fmt \in DOMAIN RangeKinds ->
             LET n == RangeKinds[fmt].levels  s == RangeKinds[fmt].scales
             IN  s * ranges[j] + R + n * R + n * M + e * (HalfCost(R, n * s) + HalfCost(M, s))
        [] fmt = "NVFP4" -> 7 * A + 7 * Max({header, (7 * A) \div 16 + 1})
        [] fmt = "MXFP4" -> Max({A, 1})

\* Every number of block y, decoded, is near enough to that of block x.
BlockNear(fmt, header, x, y) ==
  \A j \in DOMAIN x :
    LET bound == ErrorBound(fmt, header, x, j)
    IN  \A i \in DOMAIN x[j] :
          ErrorScale(fmt) * Abs(y[j][i] - Den(fmt) * Sane(x[j][i])) <= bound
=============================================================================
