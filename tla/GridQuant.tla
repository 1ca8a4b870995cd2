----------------------------- MODULE GridQuant ------------------------------
(***************************************************************************)
(* The codebook formats of qtx/quantize/quantizer.hpp, IQ2 and IQ3: the    *)
(* signs of a group of eight elements are stored apart, their magnitudes   *)
(* replaced by the nearest entry of a table; and IQ1, whose entries carry  *)
(* the signs.                                                              *)
(*                                                                         *)
(* A block is a sequence of sub-blocks of one group of eight lanes each    *)
(* (the code has eight of four groups).  A lane is an integer in units of  *)
(* LaneUnit * 2^-24, quotients are exact until they are rounded, and of    *)
(* each table there is an excerpt.                                         *)
(***************************************************************************)
EXTENDS BlockQuant

LaneUnit == 2048
Lanes == 0 .. 7

(***************************************************************************)
(* center   the entry value the largest element of a sub-block is mapped   *)
(*          to; IQ1 counts entries in eighths, delta being one of them     *)
(* scaleMax the largest sub-block scale; scale s stands for 2s + 1         *)
(* num, den the scale of the block, as a share of its largest element      *)
(* over     what the decoder divides by                                    *)
(* parity   the signs take seven bits: an even number of them is negative  *)
(* rounded  elements are divided by the sub-block scale as it is stored,   *)
(*          and not by the one it was rounded from                         *)
(* width    lanes to a codebook entry                                      *)
(***************************************************************************)
IQ2(parity) == [center |-> 25, scaleMax |-> 15, num |-> 8, den |-> 775, over |-> 8,
                parity |-> parity, rounded |-> FALSE, width |-> 8]
IQ1 == [center |-> 9, scaleMax |-> 7, num |-> 1, den |-> 17, over |-> 8,
        parity |-> FALSE, rounded |-> TRUE, width |-> 8]
GridKinds ==
  [IQ2_XXS |-> IQ2(TRUE), IQ2_XS |-> IQ2(TRUE), IQ2_S |-> IQ2(FALSE),
   IQ3_XXS |-> [center |-> 14, scaleMax |-> 15, num |-> 4, den |-> 434, over |-> 4,
                parity |-> TRUE, rounded |-> FALSE, width |-> 4],
   IQ3_S |-> [center |-> 14, scaleMax |-> 15, num |-> 1, den |-> 434, over |-> 1,
              parity |-> FALSE, rounded |-> TRUE, width |-> 4],
   IQ1_S |-> IQ1, IQ1_M |-> IQ1]
SignedGrids == {"IQ1_S", "IQ1_M"}

Total(values) ==
  LET upTo[n \in 0 .. Len(values)] == IF n = 0 THEN 0 ELSE upTo[n - 1] + values[n]
  IN  upTo[Len(values)]

\* Excerpts; the first byte of an entry is its lane 0.
Repeat(v, n) == [i \in 1 .. n |-> v]
IQ2Grid == <<Repeat(8, 8), <<43>> \o Repeat(8, 7), <<25, 25>> \o Repeat(8, 6),
             <<25, 8, 25>> \o Repeat(8, 5)>>
IQ3XXSGrid == <<Repeat(4, 4), <<20, 4, 4, 4>>, <<36, 4, 4, 4>>, <<12, 12, 4, 4>>>>
IQ3SGrid == <<Repeat(1, 4), <<3, 1, 1, 1>>, <<5, 1, 1, 1>>, <<11, 1, 1, 1>>, <<15, 1, 1, 1>>>>
IQ1SGrid == <<Repeat(-1, 8), <<1>> \o Repeat(-1, 7), <<0, 0>> \o Repeat(-1, 6),
              <<-1, 1>> \o Repeat(-1, 6), Repeat(1, 8)>>
Codebook(fmt) == CASE fmt = "IQ3_XXS" -> IQ3XXSGrid
                   [] fmt = "IQ3_S" -> IQ3SGrid
                   [] fmt \in SignedGrids -> IQ1SGrid
                   [] OTHER -> IQ2Grid

-----------------------------------------------------------------------------
(* Signs. *)

Negative(x) == {i \in Lanes : Sane(x[i + 1]) < 0}
FirstSmallest(x) ==
  Min({i \in Lanes : \A k \in Lanes : Abs(Sane(x[i + 1])) <= Abs(Sane(x[k + 1]))})

(* A bug: seven sign bits for any number of negative lanes. *)
SignsUnbalanced(fmt, x) == Negative(x)

\* The lanes the encoder takes for negative: with an odd number of them the
\* first of the smallest lanes changes sides.
SignsOf(fmt, x) ==
  IF GridKinds[fmt].parity /\ Cardinality(Negative(x)) % 2 = 1
  THEN SymDiff(Negative(x), {FirstSmallest(x)})
  ELSE Negative(x)
StoredSigns(fmt, x) ==
  IF GridKinds[fmt].parity THEN SignsOf(fmt, x) \ {7} ELSE SignsOf(fmt, x)

\* ksigns_iq2xs: bit 7 makes the number of ones even.
ksigns_iq2xs(stored) == IF Cardinality(stored) % 2 = 1 THEN stored \cup {7} ELSE stored
SignsRead(fmt, stored) == IF GridKinds[fmt].parity THEN ksigns_iq2xs(stored) ELSE stored

\* xval: the magnitude, negated in the lane whose sign was changed.
XVal(fmt, x) ==
  [i \in 1 .. 8 |-> IF (i - 1 \in SignsOf(fmt, x)) = (Sane(x[i]) < 0)
                    THEN Abs(Sane(x[i])) ELSE -Abs(Sane(x[i]))]

-----------------------------------------------------------------------------
(***************************************************************************)
(* bestGridIndexU64, bestGridIndexU32 and bestGridIQ1S: the first of the   *)
(* entries at the least squared distance from the target p[i] / unit.      *)
(***************************************************************************)
bestGridIndex(entries, p, unit) ==
  LET error(k, i) == p[i] - entries[k][i] * unit
      distance == [k \in DOMAIN entries |->
                    Total([i \in DOMAIN p |-> error(k, i) * error(k, i)])]
  IN  Min({k \in DOMAIN entries : \A o \in DOMAIN entries : distance[k] <= distance[o]})

\* The entries as they are compared and decoded.
Entries(fmt, delta) ==
  LET grid == Codebook(fmt)
  IN  IF fmt \in SignedGrids
      THEN [k \in DOMAIN grid |-> [i \in DOMAIN grid[k] |-> 8 * grid[k][i] + delta]]
      ELSE grid

\* IQ1: every entry is moved by 1/8, down when the elements sum to less than zero.
DeltaOf(x) ==
  IF Total([i \in DOMAIN x |-> Sane(x[i])]) < 0 THEN -1 ELSE 1

Groups(fmt) == 1 .. 8 \div GridKinds[fmt].width
Group(fmt, v, c) ==
  LET w == GridKinds[fmt].width IN [i \in 1 .. w |-> v[w * (c - 1) + i]]

EncodeGrid(fmt, x) ==
  LET f == GridKinds[fmt]
      signed == fmt \in SignedGrids
      value == [j \in DOMAIN x |-> IF signed THEN [i \in DOMAIN x[j] |-> Sane(x[j][i])]
                                   ELSE XVal(fmt, x[j])]
      gmax == [j \in DOMAIN x |-> IF signed THEN AbsMax(x[j]) ELSE MaxOf(value[j])]
      largest == MaxOf(gmax)
      step == f.center * f.num * largest
      scale == [j \in DOMAIN x |->
                 IF gmax[j] = 0 THEN 0
                 ELSE Clamp(nearestInt(f.over * f.den * gmax[j] - step, 2 * step), 0, f.scaleMax)]
      delta == [j \in DOMAIN x |-> IF signed THEN DeltaOf(x[j]) ELSE 0]
      Target(j) ==
        IF gmax[j] = 0 THEN [p |-> [i \in 1 .. 8 |-> 0], unit |-> 1]
        ELSE IF f.rounded
        THEN [p |-> [i \in 1 .. 8 |-> value[j][i] * f.den * f.over],
              unit |-> f.num * largest * (2 * scale[j] + 1)]
        ELSE [p |-> [i \in 1 .. 8 |-> value[j][i] * f.center], unit |-> gmax[j]]
  IN  IF largest = 0 THEN [d |-> 0, m |-> 0, s |-> Zeros(x), n |-> [j \in DOMAIN x |-> {}],
                           q |-> [j \in DOMAIN x |-> [c \in Groups(fmt) |-> 1]]]
      ELSE [d |-> Half(f.num * largest * LaneUnit, f.den), m |-> 0, s |-> scale,
            n |-> [j \in DOMAIN x |-> IF ~signed THEN StoredSigns(fmt, x[j])
                                      ELSE IF delta[j] < 0 THEN {0} ELSE {}],
            q |-> [j \in DOMAIN x |-> [c \in Groups(fmt) |->
                     bestGridIndex(Entries(fmt, delta[j]), Group(fmt, Target(j).p, c),
                                   Target(j).unit)]]]

\* Each lane "over" times too large.
DecodeGrid(fmt, blk) ==
  LET f == GridKinds[fmt]
  IN  [j \in DOMAIN blk.q |->
        LET signed == fmt \in SignedGrids
            entries == Entries(fmt, IF signed /\ blk.n[j] # {} THEN -1 ELSE 1)
            minus == IF signed THEN {} ELSE SignsRead(fmt, blk.n[j])
        IN  [i \in 1 .. 8 |->
              LET c == (i - 1) \div f.width + 1
                  k == ((i - 1) % f.width) + 1
              IN  blk.d * (2 * blk.s[j] + 1) * entries[blk.q[j][c]][k]
                  * (IF i - 1 \in minus THEN -1 ELSE 1)]]

\* The block loop of each compressor and of each decompressor.
compressFP32ToIQ2_XXS(x) == EncodeGrid("IQ2_XXS", x)
compressFP32ToIQ2_XS(x) == EncodeGrid("IQ2_XS", x)
compressFP32ToIQ2_S(x) == EncodeGrid("IQ2_S", x)
compressFP32ToIQ3_XXS(x) == EncodeGrid("IQ3_XXS", x)
compressFP32ToIQ3_S(x) == EncodeGrid("IQ3_S", x)
compressFP32ToIQ1_S(x) == EncodeGrid("IQ1_S", x)
compressFP32ToIQ1_M(x) == EncodeGrid("IQ1_M", x)
decompressIQ2_XXS_ToFP32(blk) == DecodeGrid("IQ2_XXS", blk)
decompressIQ2_XS_ToFP32(blk) == DecodeGrid("IQ2_XS", blk)
decompressIQ2_S_ToFP32(blk) == DecodeGrid("IQ2_S", blk)
decompressIQ3_XXS_ToFP32(blk) == DecodeGrid("IQ3_XXS", blk)
decompressIQ3_S_ToFP32(blk) == DecodeGrid("IQ3_S", blk)
decompressIQ1_S_ToFP32(blk) == DecodeGrid("IQ1_S", blk)
decompressIQ1_M_ToFP32(blk) == DecodeGrid("IQ1_M", blk)

EncodeGridBlock(fmt, x) ==
  CASE fmt = "IQ2_XXS" -> compressFP32ToIQ2_XXS(x)
    [] fmt = "IQ2_XS" -> compressFP32ToIQ2_XS(x)
    [] fmt = "IQ2_S" -> compressFP32ToIQ2_S(x)
    [] fmt = "IQ3_XXS" -> compressFP32ToIQ3_XXS(x)
    [] fmt = "IQ3_S" -> compressFP32ToIQ3_S(x)
    [] fmt = "IQ1_S" -> compressFP32ToIQ1_S(x)
    [] fmt = "IQ1_M" -> compressFP32ToIQ1_M(x)

DecodeGridBlock(fmt, blk) ==
  CASE fmt = "IQ2_XXS" -> decompressIQ2_XXS_ToFP32(blk)
    [] fmt = "IQ2_XS" -> decompressIQ2_XS_ToFP32(blk)
    [] fmt = "IQ2_S" -> decompressIQ2_S_ToFP32(blk)
    [] fmt = "IQ3_XXS" -> decompressIQ3_XXS_ToFP32(blk)
    [] fmt = "IQ3_S" -> decompressIQ3_S_ToFP32(blk)
    [] fmt = "IQ1_S" -> decompressIQ1_S_ToFP32(blk)
    [] fmt = "IQ1_M" -> decompressIQ1_M_ToFP32(blk)

-----------------------------------------------------------------------------
(***************************************************************************)
(* Reference.  The signs of the source come back; a format with seven sign *)
(* bits may flip one lane, one of the smallest, and only when the number   *)
(* of negative lanes is odd.                                               *)
(***************************************************************************)
SignsRight(fmt, x, y) ==
  LET flipped == SymDiff(Negative(x), {i \in Lanes : y[i + 1] < 0})
  IN  IF fmt \in SignedGrids THEN TRUE
      ELSE IF GridKinds[fmt].parity /\ Cardinality(Negative(x)) % 2 = 1
      THEN \E i \in Lanes : /\ flipped = {i}
                            /\ Abs(Sane(x[i + 1])) = Min({Abs(Sane(x[k])) : k \in 1 .. 8})
      ELSE flipped = {}

(***************************************************************************)
(* No lane comes back further from its source than the nearest entry of    *)
(* the codebook is, the largest lane of the sub-block being "center"; but  *)
(* for what rounding the two scales costs, one step of the sub-block scale *)
(* for each of the lanes an entry is chosen by, if that is done with the   *)
(* rounded scale: as deviations add up, one step times the root of their   *)
(* number.                                                                 *)
(***************************************************************************)
Distance(fmt, x, c, k) ==
  LET v == IF fmt \in SignedGrids THEN [i \in 1 .. 8 |-> Sane(x[i])] ELSE XVal(fmt, x)
      entry == Entries(fmt, DeltaOf(x))[k]
      error == [i \in 1 .. GridKinds[fmt].width |->
                 GridKinds[fmt].center * Group(fmt, v, c)[i] - AbsMax(x) * entry[i]]
  IN  Total([i \in DOMAIN error |-> error[i] * error[i]])

Widest(fmt) ==
  Max({Abs(Entries(fmt, delta)[k][i]) :
         delta \in {-1, 1}, k \in DOMAIN Codebook(fmt), i \in 1 .. GridKinds[fmt].width})

Steps(fmt) ==
  LET f == GridKinds[fmt]
  IN  IF f.rounded THEN Min({r \in 1 .. f.width : r * r >= f.width}) ELSE 1

\* What the rounded scales may cost, den times too large: "p" is the step of
\* the sub-block scale before it was rounded itself.
Slack(fmt, x) ==
  LET f == GridKinds[fmt]
      p == f.num * Max(Flat(x)) * LaneUnit
  IN  Widest(fmt) * (Steps(fmt) * p + (2 * f.scaleMax + 1) * HalfCost(p, f.den))

\* What is left of the error of a lane, in units of AbsMax / center.
Excess(fmt, x, y, j, lane) ==
  LET f == GridKinds[fmt]
      error == f.den * Abs(y[j][lane] - f.over * LaneUnit * Sane(x[j][lane]))
  IN  (error - Slack(fmt, x)) \div ((f.den * f.over * LaneUnit) \div f.center + 1)

GridNear(fmt, x, y) ==
  \A j \in DOMAIN x : AbsMax(x[j]) > 0 =>
    \A c \in Groups(fmt) :
      LET least == Min({Distance(fmt, x[j], c, k) : k \in DOMAIN Codebook(fmt)})
      IN  \A i \in 1 .. GridKinds[fmt].width :
            LET excess == Excess(fmt, x, y, j, GridKinds[fmt].width * (c - 1) + i)
            IN  excess > 0 => excess * excess <= least
=============================================================================
