----------------------------- MODULE FloatCodes -----------------------------
(***************************************************************************)
(* The scalar conversions of qtx/core/fpe_guard.hpp.  An FP32 number is a  *)
(* record of its sign bit and of its other 31 bits, "abs", taken as an     *)
(* integer: finite magnitudes are ordered as these integers are, and the   *)
(* code compares them that way.  A narrow code is a sign bit and an        *)
(* integer "mag", its other bits.                                          *)
(*                                                                         *)
(* FP16, FP8 E4M3 and FP8 E5M2 are converted by three functions of one     *)
(* shape; a record of "Formats" holds the constants each of them uses.     *)
(***************************************************************************)
EXTENDS Integers

Inf32 == 2139095040                      \* 0x7F800000: exponent 255, mantissa 0
Quiet32 == Inf32 + 2^22                  \* 0x7FC00000
Fp32 == [sign: {0, 1}, abs: 0 .. Inf32 + 2^23 - 1]
ExpOf(a) == a \div 2^23
Significand(a) == (a % 2^23) + 2^23      \* mantissa with its leading one

IsNaN32(v) == v.abs > Inf32
isFiniteStrict(v) == v.abs < Inf32
Zero32 == [sign |-> 0, abs |-> 0]
sanitiseFinite(v) == IF isFiniteStrict(v) THEN v ELSE Zero32

(* A bug: a tie goes away from zero. *)
RoundHalfAway(q, shift) == (q + 2^(shift - 1)) \div 2^shift

(***************************************************************************)
(* q / 2^shift rounded to the nearest integer, a tie to the even one: the  *)
(* round bit, the sticky bits and the last bit kept, as the code tests     *)
(* them.                                                                   *)
(***************************************************************************)
RoundNearestEven(q, shift) ==
  LET kept == q \div 2^shift
      rest == q % 2^shift
      half == 2^(shift - 1)
  IN  IF rest > half \/ (rest = half /\ kept % 2 = 1) THEN kept + 1 ELSE kept

(***************************************************************************)
(* drop       mantissa bits of FP32 the format has no room for             *)
(* minExp     FP32 exponent of the smallest normal number of the format    *)
(* saturateAt magnitudes from here on become "largest"                     *)
(* zeroBelow  magnitudes below this one become zero ...                    *)
(* tinyFrom   ... except from here on: these become the smallest code      *)
(* special    the first code a finite number must not be rounded to        *)
(* inf, nan   codes of infinity and of NaN                                 *)
(***************************************************************************)
Formats ==
  [FP16 |-> [drop |-> 13, minExp |-> 113, saturateAt |-> 1199570944,
             zeroBelow |-> 855638016, tinyFrom |-> 847249408,
             special |-> 31744, largest |-> 31743, inf |-> 31744, nan |-> 32256],
   E4M3 |-> [drop |-> 20, minExp |-> 121, saturateAt |-> 1139277824,
             zeroBelow |-> 981467136, tinyFrom |-> 981467136,
             special |-> 127, largest |-> 126, inf |-> 126, nan |-> 127],
   E5M2 |-> [drop |-> 21, minExp |-> 113, saturateAt |-> 1199505408,
             zeroBelow |-> 922746880, tinyFrom |-> 922746880,
             special |-> 124, largest |-> 123, inf |-> 124, nan |-> 126]]

\* The magnitude code of a finite FP32 magnitude.
Subnormal(f, a) == RoundNearestEven(Significand(a), f.drop + f.minExp - ExpOf(a))
Normal(f, a) == RoundNearestEven(a - (f.minExp - 1) * 2^23, f.drop)

Narrow(f, a) ==
  IF a < f.zeroBelow THEN IF a >= f.tinyFrom THEN 1 ELSE 0
  ELSE IF a >= f.saturateAt THEN f.largest
  ELSE IF ExpOf(a) < f.minExp THEN Subnormal(f, a)
  ELSE IF Normal(f, a) >= f.special THEN f.largest
  ELSE Normal(f, a)

NarrowBF16(a) ==
  LET rounded == RoundNearestEven(a, 16)
  IN  IF rounded >= 32640 THEN 32639 ELSE rounded

(***************************************************************************)
(* fp32ToFP16Safe, fp32ToFP8_E4M3_Safe, fp32ToFP8_E5M2_Safe and            *)
(* fp32ToBF16Safe.                                                         *)
(***************************************************************************)
Encode(fmt, v) ==
  [sign |-> v.sign,
   mag  |-> IF fmt = "BF16"
            THEN IF IsNaN32(v) THEN 32704
                 ELSE IF v.abs = Inf32 THEN 32640 ELSE NarrowBF16(v.abs)
            ELSE LET f == Formats[fmt]
                 IN  IF IsNaN32(v) THEN f.nan
                     ELSE IF v.abs = Inf32 THEN f.inf ELSE Narrow(f, v.abs)]

(***************************************************************************)
(* fp16ToFP32, fp8_E4M3_toFP32, fp8_E5M2_toFP32 and bf16ToFP32: exact.     *)
(* A subnormal code is shifted left until its leading one falls out.       *)
(***************************************************************************)
LeadingBit(m) == CHOOSE p \in 0 .. 9 : 2^p <= m /\ m < 2^(p + 1)

WidenSubnormal(f, m) ==
  LET p == LeadingBit(m)
  IN  (f.minExp - (23 - f.drop) + p) * 2^23 + (m - 2^p) * 2^(23 - p)

Widen(fmt, c) ==
  LET f == Formats[fmt]
      perBinade == 2^(23 - f.drop)
  IN  IF c = 0 THEN 0
      ELSE IF c < perBinade THEN WidenSubnormal(f, c)
      ELSE IF fmt = "E4M3"
           THEN IF c = f.nan THEN Quiet32 ELSE (f.minExp - 1) * 2^23 + c * 2^f.drop
      ELSE IF c >= f.inf THEN Inf32 + (c - f.inf) * 2^f.drop
      ELSE (f.minExp - 1) * 2^23 + c * 2^f.drop

Decode(fmt, code) ==
  [sign |-> code.sign,
   abs  |-> IF fmt = "BF16" THEN code.mag * 2^16 ELSE Widen(fmt, code.mag)]

(***************************************************************************)
(* Reference definition.  Codes of one sign are ordered as their values;   *)
(* a code is right for a finite magnitude when the magnitude lies between  *)
(* the midpoints to the two neighbouring codes, a midpoint itself going to *)
(* the even code, and what is beyond the largest finite code going there.  *)
(* Between two neighbours FP32 numbers are evenly spaced, so that the      *)
(* midpoint is the mean of their bits; only half the smallest code lies a  *)
(* binade lower.                                                           *)
(***************************************************************************)
LargestOf(fmt) == IF fmt = "BF16" THEN 32639 ELSE Formats[fmt].largest
MagnitudeOf(fmt, c) == Decode(fmt, [sign |-> 0, mag |-> c]).abs
Halved(a) == IF a >= 2^24 THEN a - 2^23 ELSE a \div 2
Midpoint(fmt, c) ==
  LET lo == MagnitudeOf(fmt, c)
      hi == MagnitudeOf(fmt, c + 1)
  IN  IF c = 0 THEN Halved(hi) ELSE lo + (hi - lo) \div 2

IsNearest(fmt, a, c) ==
  /\ c \in 0 .. LargestOf(fmt)
  /\ c > 0 => \/ a > Midpoint(fmt, c - 1)
              \/ a = Midpoint(fmt, c - 1) /\ c % 2 = 0
  /\ c < LargestOf(fmt) => \/ a < Midpoint(fmt, c)
                           \/ a = Midpoint(fmt, c) /\ c % 2 = 0

(***************************************************************************)
(* The magnitudes fp32ToFP16Safe does not round to the nearest code: its   *)
(* thresholds stand one binade below the ones its comments name, so that   *)
(* [2^-26, 2^-25), which is nearer to zero, becomes the smallest code.     *)
(***************************************************************************)
Misrounded(fmt, a) ==
  fmt = "FP16" /\ Formats.FP16.tinyFrom <= a /\ a < Formats.FP16.zeroBelow
=============================================================================
