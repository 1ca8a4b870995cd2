---------------------------- MODULE BlockLayout ----------------------------
(***************************************************************************)
(* Where every bit of a compressed block goes, and where the decoder looks *)
(* for it (qtx/quantize/quantizer.hpp and quantizer_simd.hpp), and the     *)
(* same for the 64 bits of a GenID (qtx/arena/gen_id.hpp).                 *)
(*                                                                         *)
(* A layout is a set of entries <<field, index, bit, position>>: bit "bit" *)
(* of field[index] stands at bit "position" of the block.  The fields are  *)
(* "d" and "m" (the scale and the minimum or second scale of the block),   *)
(* "s" and "n" (the scales and minima of its sub-blocks), "q" (the code of *)
(* an element, or the index of a group of elements in the codebook),       *)
(* "sign" and "delta".  "Writes" follows the loops of the encoder, "Reads" *)
(* the expressions of the decoder: both are written down as the code has   *)
(* them, and the claim is that they are one set.                           *)
(***************************************************************************)
EXTENDS Integers, Sequences, FiniteSets

\* Bits lo .. lo + n - 1 of field[i] stand from bit "at" of byte "byte" on.
Field(field, i, lo, n, byte, at) ==
  {<<field, i, lo + b, 8 * byte + at + b>> : b \in 0 .. n - 1}

Each(S, F(_)) == UNION {F(j) : j \in S}
Word(field, byte) == Field(field, 0, 0, 16, byte, 0)     \* storeU16, loadU16
Float(byte) == Field("d", 0, 0, 32, byte, 0)             \* storeFloat, loadFloat

-----------------------------------------------------------------------------
(* INT8 and INT4: the scalar loops, and the lanes of the SIMD kernels. *)

INT8Writes == Float(0) \cup Each(0 .. 31, LAMBDA i : Field("q", i, 0, 8, 4 + i, 0))
INT8Reads == Float(0) \cup Each(0 .. 31, LAMBDA i : Field("q", i, 0, 8, 4 + i, 0))

\* extractINT8Scales_DP4A copies 4 bytes of each block, extractINT8Payload_DP4A 32.
DP4AReads == Each(0 .. 31, LAMBDA b : {<<"d", 0, b, b>>})
             \cup Each(0 .. 255, LAMBDA b : {<<"q", b \div 8, (b % 8), 8 * 4 + b>>})

INT4Writes ==
  Float(0) \cup Each({i \in 0 .. 31 : (i % 2) = 0}, LAMBDA i :
    Field("q", i, 0, 4, 4 + i \div 2, 0) \cup Field("q", i + 1, 0, 4, 4 + i \div 2, 4))
INT4Reads ==
  Float(0) \cup Each(0 .. 31, LAMBDA i : Field("q", i, 0, 4, 4 + i \div 2, 4 * (i % 2)))

\* The element whose 32-bit lane is lane k of register r, eight lanes a register.
Register8(r) == [k \in 1 .. 8 |-> 8 * r + k - 1]
\* _mm256_packs_*: the two 128-bit halves of both operands, interleaved.
Packs(a, b) ==
  LET h == Len(a) \div 2
  IN  SubSeq(a, 1, h) \o SubSeq(b, 1, h) \o SubSeq(a, h + 1, 2 * h) \o SubSeq(b, h + 1, 2 * h)
PermuteDwords(a, idx) ==
  [k \in 1 .. Len(a) |-> a[4 * idx[(k - 1) \div 4 + 1] + ((k - 1) % 4) + 1]]

(* A bug: the lanes stay in the order the packs leave them in. *)
INT8WritesUnpermuted ==
  LET p == Packs(Packs(Register8(0), Register8(1)), Packs(Register8(2), Register8(3)))
  IN  Float(0) \cup Each(1 .. 32, LAMBDA k : Field("q", p[k], 0, 8, 4 + k - 1, 0))

INT8WritesAVX2 ==
  LET packed == Packs(Packs(Register8(0), Register8(1)), Packs(Register8(2), Register8(3)))
      p == PermuteDwords(packed, <<0, 4, 1, 5, 2, 6, 3, 7>>)
  IN  Float(0) \cup Each(1 .. 32, LAMBDA k : Field("q", p[k], 0, 8, 4 + k - 1, 0))

INT8WritesAVX512 ==
  Float(0) \cup Each({0, 16}, LAMBDA half : Each(0 .. 15, LAMBDA k :
    Field("q", half + k, 0, 8, 4 + half + k, 0)))
INT8ReadsAVX512 == INT8WritesAVX512

(***************************************************************************)
(* _mm_maddubs_epi16 puts bytes 2k and 2k + 1 of a half into the low byte  *)
(* of word k, "pick" keeps the low bytes, _mm_unpacklo_epi64 joins the     *)
(* halves.  The decoder masks both nibbles of each byte and interleaves    *)
(* the two vectors with _mm_unpacklo_epi8 and _mm_unpackhi_epi8.           *)
(***************************************************************************)
INT4WritesAVX512 ==
  LET pick == <<0, 2, 4, 6, 8, 10, 12, 14>>
  IN  Float(0) \cup Each({0, 1}, LAMBDA half : Each(1 .. 8, LAMBDA j :
        LET word == pick[j] \div 2
        IN  Field("q", 16 * half + 2 * word, 0, 4, 4 + 8 * half + j - 1, 0)
            \cup Field("q", 16 * half + 2 * word + 1, 0, 4, 4 + 8 * half + j - 1, 4)))
INT4ReadsAVX512 ==
  Float(0) \cup Each({0, 8}, LAMBDA half : Each(0 .. 7, LAMBDA k :
    Field("q", 2 * half + 2 * k, 0, 4, 4 + half + k, 0)
    \cup Field("q", 2 * half + 2 * k + 1, 0, 4, 4 + half + k, 4)))

-----------------------------------------------------------------------------
(* NVFP4 and MXFP4: a scale byte, then pairs of nibbles. *)

NibblePairs(n) == Each({i \in 0 .. n - 1 : (i % 2) = 0}, LAMBDA i :
  Field("q", i, 0, 4, 1 + i \div 2, 0) \cup Field("q", i + 1, 0, 4, 1 + i \div 2, 4))
ScaleByte == Field("s", 0, 0, 8, 0, 0)
NVFP4Writes == ScaleByte \cup NibblePairs(16)
NVFP4Reads == ScaleByte \cup
  Each(0 .. 15, LAMBDA i : Field("q", i, 0, 4, 1 + i \div 2, 4 * (i % 2)))
MXFP4Writes == ScaleByte \cup NibblePairs(32)
MXFP4Reads == ScaleByte \cup
  Each(0 .. 31, LAMBDA i : Field("q", i, 0, 4, 1 + i \div 2, 4 * (i % 2)))

-----------------------------------------------------------------------------
(* The 32-element formats of ggml: elements 0..15 in the low nibbles,      *)
(* 16..31 in the high ones, the fifth bits in the 32-bit word qh.          *)

Nibbles(byte) == Each(0 .. 15, LAMBDA j :
  Field("q", j, 0, 4, byte + j, 0) \cup Field("q", j + 16, 0, 4, byte + j, 4))
FifthBits(byte) == Each(0 .. 15, LAMBDA j :
  {<<"q", j, 4, 8 * byte + j>>, <<"q", j + 16, 4, 8 * byte + j + 16>>})

\* (qh >> j) << 4 and qh >> (j + 12), both masked with 0x10.
FifthBitsRead(byte) == Each(0 .. 15, LAMBDA j :
  {<<"q", j, 0 + 4, 8 * byte + j>>, <<"q", j + 16, 4, 8 * byte + (j + 12) + 4>>})

Q4_1Writes == Word("d", 0) \cup Word("m", 2) \cup Nibbles(4)
Q4_1Reads == Word("d", 0) \cup Word("m", 2) \cup
  Each(0 .. 31, LAMBDA i : Field("q", i, 0, 4, 4 + (i % 16), 4 * (i \div 16)))

Q5_0Writes == Word("d", 0) \cup FifthBits(2) \cup Nibbles(6)
Q5_0Reads == Word("d", 0) \cup FifthBitsRead(2) \cup
  Each(0 .. 31, LAMBDA i : Field("q", i, 0, 4, 6 + (i % 16), 4 * (i \div 16)))

Q5_1Writes == Word("d", 0) \cup Word("m", 2) \cup FifthBits(4) \cup Nibbles(8)
Q5_1Reads == Word("d", 0) \cup Word("m", 2) \cup FifthBitsRead(4) \cup
  Each(0 .. 31, LAMBDA i : Field("q", i, 0, 4, 8 + (i % 16), 4 * (i \div 16)))

IQ4_NLWrites == Word("d", 0) \cup Nibbles(2)
IQ4_NLReads == Word("d", 0) \cup
  Each(0 .. 31, LAMBDA i : Field("q", i, 0, 4, 2 + (i % 16), 4 * (i \div 16)))

-----------------------------------------------------------------------------
(* The 256-element formats: h is the half, g a group of 64 elements, l or  *)
(* j runs over 32 bytes that each hold bits of several elements.           *)

Q6_KWrites ==
  Each(0 .. 1, LAMBDA h : Each(0 .. 31, LAMBDA l :
    LET L(k) == 128 * h + l + 32 * k
    IN  Field("q", L(0), 0, 4, 64 * h + l, 0) \cup Field("q", L(2), 0, 4, 64 * h + l, 4)
        \cup Field("q", L(1), 0, 4, 64 * h + l + 32, 0)
        \cup Field("q", L(3), 0, 4, 64 * h + l + 32, 4)
        \cup Each(0 .. 3, LAMBDA k : Field("q", L(k), 4, 2, 128 + 32 * h + l, 2 * k))))
  \cup Each(0 .. 15, LAMBDA ib : Field("s", ib, 0, 8, 128 + 64 + ib, 0))
  \cup Word("d", 128 + 64 + 16)
Q6_KReads ==
  Each(0 .. 255, LAMBDA i :
    LET h == i \div 128  l == (i % 32)  k == (i % 128) \div 32
    IN  Field("q", i, 0, 4, 64 * h + l + 32 * (k % 2), 4 * (k \div 2))
        \cup Field("q", i, 4, 2, 128 + 32 * h + l, 2 * k))
  \cup Each(0 .. 15, LAMBDA ib : Field("s", ib, 0, 8, 192 + ib, 0)) \cup Word("d", 208)
\* The sub-block scale the decoder multiplies element i by.
Q6_KScaleRead(i) == 8 * (i \div 128) + (i % 32) \div 16 + 2 * ((i % 128) \div 32)

\* packScalesMinsK4 and unpackScaleMinK4: sixteen 6-bit numbers in 12 bytes.
PackScalesMinsK4(byte) ==
  Each(0 .. 3, LAMBDA j : Field("s", j, 0, 6, byte + j, 0) \cup Field("n", j, 0, 6, byte + j + 4, 0))
  \cup Each(4 .. 7, LAMBDA j :
         Field("s", j, 0, 4, byte + j + 4, 0) \cup Field("n", j, 0, 4, byte + j + 4, 4)
         \cup Field("s", j, 4, 2, byte + j - 4, 6) \cup Field("n", j, 4, 2, byte + j, 6))
UnpackScaleMinK4(byte) ==
  Each(0 .. 7, LAMBDA j :
    IF j < 4
    THEN Field("s", j, 0, 6, byte + j, 0) \cup Field("n", j, 0, 6, byte + j + 4, 0)
    ELSE Field("s", j, 0, 4, byte + j + 4, 0) \cup Field("s", j, 4, 2, byte + j - 4, 6)
         \cup Field("n", j, 0, 4, byte + j + 4, 4) \cup Field("n", j, 4, 2, byte + j, 6))

Q5_KWrites ==
  Word("d", 0) \cup Word("m", 2) \cup PackScalesMinsK4(4)
  \cup Each(0 .. 3, LAMBDA g : Each(0 .. 31, LAMBDA j :
         LET l1 == 64 * g + j  l2 == 64 * g + j + 32
         IN  Field("q", l1, 0, 4, 48 + 32 * g + j, 0) \cup Field("q", l2, 0, 4, 48 + 32 * g + j, 4)
             \cup Field("q", l1, 4, 1, 16 + j, 2 * g) \cup Field("q", l2, 4, 1, 16 + j, 2 * g + 1)))
Q5_KReads ==
  Word("d", 0) \cup Word("m", 2) \cup UnpackScaleMinK4(4)
  \cup Each(0 .. 255, LAMBDA i :
         LET g == i \div 64  l == (i % 32)  upper == (i % 64) \div 32
         IN  Field("q", i, 0, 4, 48 + 32 * g + l, 4 * upper)
             \cup Field("q", i, 4, 1, 16 + l, 2 * g + upper))
Q5_KScaleRead(i) == 2 * (i \div 64) + (i % 64) \div 32

Q4_KWrites ==
  Word("d", 0) \cup Word("m", 2) \cup PackScalesMinsK4(4)
  \cup Each(0 .. 3, LAMBDA g : Each(0 .. 31, LAMBDA j :
         Field("q", 64 * g + j, 0, 4, 16 + 32 * g + j, 0)
         \cup Field("q", 64 * g + j + 32, 0, 4, 16 + 32 * g + j, 4)))
Q4_KReads ==
  Word("d", 0) \cup Word("m", 2) \cup UnpackScaleMinK4(4)
  \cup Each(0 .. 255, LAMBDA i :
         Field("q", i, 0, 4, 16 + 32 * (i \div 64) + (i % 32), 4 * ((i % 64) \div 32)))
Q4_KScaleRead(i) == 2 * (i \div 64) + (i % 64) \div 32

\* Two bits of four elements a byte, shared by Q3_K and Q2_K.
CrumbsWrite(byte) == Each(0 .. 1, LAMBDA h : Each(0 .. 31, LAMBDA l : Each(0 .. 3, LAMBDA k :
  Field("q", 128 * h + l + 32 * k, 0, 2, byte + 32 * h + l, 2 * k))))
CrumbsRead(byte) == Each(0 .. 255, LAMBDA i :
  Field("q", i, 0, 2, byte + 32 * (i \div 128) + (i % 32), 2 * ((i % 128) \div 32)))

Q3_KWrites ==
  Each(0 .. 255, LAMBDA j : Field("q", j, 2, 1, (j % 32), j \div 32)) \cup CrumbsWrite(32)
  \cup Each(0 .. 15, LAMBDA j :
         (IF j < 8 THEN Field("s", j, 0, 4, 96 + j, 0) ELSE Field("s", j, 0, 4, 96 + j - 8, 4))
         \cup Field("s", j, 4, 2, 96 + 8 + (j % 4), 2 * (j \div 4)))
  \cup Word("d", 108)
Q3_KReads ==
  Each(0 .. 255, LAMBDA i :
    {<<"q", i, 2, 8 * (i % 32) + 4 * (i \div 128) + (i % 128) \div 32>>})
  \cup CrumbsRead(32)
  \cup Each(0 .. 15, LAMBDA j :
         (IF j < 8 THEN Field("s", j, 0, 4, 96 + j, 0) ELSE Field("s", j, 0, 4, 88 + j, 4))
         \cup Field("s", j, 4, 2, 104 + (j % 4), 2 * (j \div 4)))
  \cup Word("d", 108)
Q3_KScaleRead(i) == 8 * (i \div 128) + 2 * ((i % 128) \div 32) + (i % 32) \div 16

Q2_KWrites ==
  Each(0 .. 15, LAMBDA j : Field("s", j, 0, 4, j, 0) \cup Field("n", j, 0, 4, j, 4))
  \cup CrumbsWrite(16) \cup Word("d", 80) \cup Word("m", 82)
Q2_KReads ==
  Each(0 .. 15, LAMBDA j : Field("s", j, 0, 4, j, 0) \cup Field("n", j, 0, 4, j, 4))
  \cup CrumbsRead(16) \cup Word("d", 80) \cup Word("m", 82)
Q2_KScaleRead(i) == 8 * (i \div 128) + 2 * ((i % 128) \div 32) + (i % 32) \div 16

IQ4_XSWrites ==
  Word("d", 0)
  \cup Each(0 .. 7, LAMBDA ib :
         Field("s", ib, 0, 4, 4 + ib \div 2, 4 * (ib % 2)) \cup Field("s", ib, 4, 2, 2, 2 * ib)
         \cup Each(0 .. 15, LAMBDA j :
                Field("q", 32 * ib + j, 0, 4, 8 + 16 * ib + j, 0)
                \cup Field("q", 32 * ib + j + 16, 0, 4, 8 + 16 * ib + j, 4)))
IQ4_XSReads ==
  Word("d", 0)
  \cup Each(0 .. 7, LAMBDA ib :
         Field("s", ib, 0, 4, 4 + ib \div 2, 4 * (ib % 2)) \cup Field("s", ib, 4, 2, 2, 2 * ib))
  \cup Each(0 .. 255, LAMBDA i :
         Field("q", i, 0, 4, 8 + 16 * (i \div 32) + (i % 16), 4 * ((i % 32) \div 16)))

-----------------------------------------------------------------------------
(* The codebook formats: ib is a group of 32 elements, l one of its four   *)
(* groups of 8, "q" the index of a group in the codebook, "sign" the sign  *)
(* code of a group of 8.                                                   *)

Ib32(F(_)) == Each(0 .. 7, F)
Quarters(F(_)) == Each(0 .. 3, F)

IQ2_XXSWrites == Word("d", 0) \cup Ib32(LAMBDA ib :
  Field("s", ib, 0, 4, 2 + 8 * ib + 4, 28) \cup Quarters(LAMBDA k :
    Field("q", 4 * ib + k, 0, 8, 2 + 8 * ib, 8 * k)
    \cup Field("sign", 4 * ib + k, 0, 7, 2 + 8 * ib + 4, 7 * k)))
IQ2_XXSReads == Word("d", 0) \cup Ib32(LAMBDA ib :
  Field("s", ib, 0, 4, 2 + 8 * ib + 4, 28) \cup Quarters(LAMBDA l :
    Field("q", 4 * ib + l, 0, 8, 2 + 8 * ib + l, 0)
    \cup Field("sign", 4 * ib + l, 0, 7, 2 + 8 * ib + 4, 7 * l)))

\* The encoder has one scale for 32 elements and stores it twice; the decoder
\* reads one for the groups 0 and 1, one for 2 and 3.
IQ2_XSWrites == Word("d", 0) \cup Ib32(LAMBDA ib :
  Field("s", 2 * ib, 0, 4, 66 + ib, 0) \cup Field("s", 2 * ib + 1, 0, 4, 66 + ib, 4)
  \cup Quarters(LAMBDA l :
    Field("q", 4 * ib + l, 0, 9, 2 + 2 * (4 * ib + l), 0)
    \cup Field("sign", 4 * ib + l, 0, 7, 2 + 2 * (4 * ib + l), 9)))
IQ2_XSReads == Word("d", 0) \cup Ib32(LAMBDA ib : Quarters(LAMBDA l :
  Field("s", 2 * ib + l \div 2, 0, 4, 66 + ib, 4 * (l \div 2))
  \cup Field("q", 4 * ib + l, 0, 9, 2 + 2 * (4 * ib + l), 0)
  \cup Field("sign", 4 * ib + l, 0, 7, 2 + 2 * (4 * ib + l), 9)))

IQ2_SWrites == Word("d", 0) \cup Ib32(LAMBDA ib :
  Field("s", 2 * ib, 0, 4, 74 + ib, 0) \cup Field("s", 2 * ib + 1, 0, 4, 74 + ib, 4)
  \cup Quarters(LAMBDA l :
    Field("q", 4 * ib + l, 0, 8, 2 + 4 * ib + l, 0) \cup Field("q", 4 * ib + l, 8, 2, 66 + ib, 2 * l)
    \cup Field("sign", 4 * ib + l, 0, 8, 2 + 32 + 4 * ib + l, 0)))
IQ2_SReads == Word("d", 0) \cup Ib32(LAMBDA ib : Quarters(LAMBDA l :
  Field("s", 2 * ib + l \div 2, 0, 4, 74 + ib, 4 * (l \div 2))
  \cup Field("q", 4 * ib + l, 0, 8, 2 + 4 * ib + l, 0) \cup Field("q", 4 * ib + l, 8, 2, 66 + ib, 2 * l)
  \cup Field("sign", 4 * ib + l, 0, 8, 34 + 4 * ib + l, 0)))

\* Groups of four from here on in "q", of eight in "sign".
IQ3_XXSWrites == Word("d", 0) \cup Ib32(LAMBDA ib :
  Field("s", ib, 0, 4, 66 + 4 * ib, 28)
  \cup Each(0 .. 7, LAMBDA g : Field("q", 8 * ib + g, 0, 8, 2 + 8 * ib + g, 0))
  \cup Quarters(LAMBDA l : Field("sign", 4 * ib + l, 0, 7, 66 + 4 * ib, 7 * l)))
IQ3_XXSReads == Word("d", 0) \cup Ib32(LAMBDA ib :
  Field("s", ib, 0, 4, 66 + 4 * ib, 28) \cup Quarters(LAMBDA l :
    Field("sign", 4 * ib + l, 0, 7, 66 + 4 * ib, 7 * l)
    \cup Field("q", 8 * ib + 2 * l, 0, 8, 2 + 8 * ib + 2 * l + 0, 0)
    \cup Field("q", 8 * ib + 2 * l + 1, 0, 8, 2 + 8 * ib + 2 * l + 1, 0)))

IQ3_SWrites == Word("d", 0) \cup Ib32(LAMBDA ib :
  Field("s", ib, 0, 4, 106 + ib \div 2, 4 * (ib % 2))
  \cup Each(0 .. 7, LAMBDA g :
         Field("q", 8 * ib + g, 0, 8, 2 + 8 * ib + g, 0) \cup Field("q", 8 * ib + g, 8, 1, 66 + ib, g))
  \cup Quarters(LAMBDA l : Field("sign", 4 * ib + l, 0, 8, 74 + 4 * ib + l, 0)))
IQ3_SReads == Word("d", 0) \cup Ib32(LAMBDA ib :
  Field("s", ib, 0, 4, 106 + ib \div 2, 4 * (ib % 2)) \cup Each(0 .. 7, LAMBDA g :
    Field("q", 8 * ib + g, 0, 8, 2 + 8 * ib + g, 0) \cup Field("q", 8 * ib + g, 8, 1, 66 + ib, g)
    \cup Field("sign", 4 * ib + g \div 2, 4 * (g % 2), 4, 74 + 4 * ib + g \div 2, 4 * (g % 2))))

IQ1_SWrites == Word("d", 0) \cup Ib32(LAMBDA ib :
  Field("s", ib, 0, 3, 34 + 2 * ib, 12) \cup Field("delta", ib, 0, 1, 34 + 2 * ib, 15)
  \cup Quarters(LAMBDA l :
    Field("q", 4 * ib + l, 0, 8, 2 + 4 * ib + l, 0) \cup Field("q", 4 * ib + l, 8, 3, 34 + 2 * ib, 3 * l)))
IQ1_SReads == Word("d", 0) \cup Ib32(LAMBDA ib :
  Field("s", ib, 0, 3, 34 + 2 * ib, 12) \cup {<<"delta", ib, 0, 8 * (34 + 2 * ib) + 15>>}
  \cup Quarters(LAMBDA l :
    Field("q", 4 * ib + l, 0, 8, 2 + 4 * ib + l, 0) \cup Field("q", 4 * ib + l, 8, 3, 34 + 2 * ib, 3 * l)))

(***************************************************************************)
(* The FP16 scale of IQ1_M is spread over the high nibbles of four words.  *)
(* The encoder writes the sign of delta with each of the two groups of a   *)
(* sub-block of 16, as "delta" of the group.                               *)
(***************************************************************************)
IQ1_MWrites ==
  Quarters(LAMBDA k : Field("d", 0, 4 * k, 4, 48 + 2 * k, 12)
    \cup Quarters(LAMBDA i : Field("s", 4 * k + i, 0, 3, 48 + 2 * k, 3 * i)))
  \cup Ib32(LAMBDA ib : Quarters(LAMBDA l :
    LET byte == 32 + 2 * ib + l \div 2   shift == IF (l % 2) = 0 THEN 0 ELSE 4
    IN  Field("q", 4 * ib + l, 0, 8, 4 * ib + l, 0) \cup Field("q", 4 * ib + l, 8, 3, byte, shift)
        \cup Field("delta", 4 * ib + l, 0, 1, byte, 3 + shift)))
IQ1_MReads ==
  Field("d", 0, 0, 4, 48, 12) \cup Field("d", 0, 4, 4, 50, 8 + 4)
  \cup Field("d", 0, 8, 4, 52, 4 + 8) \cup Field("d", 0, 12, 4, 54, 12)
  \cup Ib32(LAMBDA ib :
    Field("s", 2 * ib, 0, 3, 48 + 2 * (ib \div 2), 6 * (ib % 2))
    \cup Field("s", 2 * ib + 1, 0, 3, 48 + 2 * (ib \div 2), 6 * (ib % 2) + 3)
    \cup Quarters(LAMBDA l :
      LET byte == 32 + 2 * ib + (IF l < 2 THEN 0 ELSE 1)   low == IF (l % 2) = 0 THEN 0 ELSE 4
      IN  Field("q", 4 * ib + l, 0, 8, 4 * ib + l, 0) \cup Field("q", 4 * ib + l, 8, 3, byte, low)
          \cup Field("delta", 4 * ib + l, 0, 1, byte, low + 3)))

-----------------------------------------------------------------------------
(* A GenID as the set of the positions of its ones.  A field with a value  *)
(* out of range leaves the GenID as it was, and makes "make" return null.  *)

GenIDWidths == <<[name |-> "id", bits |-> 24], [name |-> "version", bits |-> 16],
                 [name |-> "alignmentClass", bits |-> 7], [name |-> "quantFormat", bits |-> 3],
                 [name |-> "state", bits |-> 2], [name |-> "subSlotIndex", bits |-> 5],
                 [name |-> "metadata", bits |-> 7]>>
Shift == LET f[k \in 1 .. 7] == IF k = 1 THEN 0 ELSE f[k - 1] + GenIDWidths[k - 1].bits IN f
Mask(k) == Shift[k] .. Shift[k] + GenIDWidths[k].bits - 1
GetField(bits, k) == {b - Shift[k] : b \in bits \cap Mask(k)}
WithField(bits, k, ones) ==
  IF \E b \in ones : b >= GenIDWidths[k].bits THEN bits
  ELSE (bits \ Mask(k)) \cup {b + Shift[k] : b \in ones}
MakeGenID(fields) ==
  IF \E k \in 1 .. 3 : \E b \in fields[k] : b >= GenIDWidths[k].bits THEN {}
  ELSE UNION {{b + Shift[k] : b \in {c \in fields[k] : c < GenIDWidths[k].bits}} : k \in 1 .. 5}

-----------------------------------------------------------------------------
(* One record per format: the size of its block in bytes, what is written, *)
(* what is read, and by which scale of its block the encoder and the       *)
(* decoder scale an element.                                               *)

Layout(bytes, writes, reads) == [bytes |-> bytes, writes |-> writes, reads |-> reads]

Layouts ==
  [INT8 |-> Layout(36, INT8Writes, INT8Reads), INT8_DP4A |-> Layout(36, INT8Writes, DP4AReads),
   INT8_AVX2 |-> Layout(36, INT8WritesAVX2, INT8Reads),
   INT8_AVX512 |-> Layout(36, INT8WritesAVX512, INT8ReadsAVX512),
   INT4 |-> Layout(20, INT4Writes, INT4Reads),
   INT4_AVX512 |-> Layout(20, INT4WritesAVX512, INT4ReadsAVX512),
   INT4_AVX512_scalar |-> Layout(20, INT4WritesAVX512, INT4Reads),
   NVFP4 |-> Layout(9, NVFP4Writes, NVFP4Reads), MXFP4 |-> Layout(17, MXFP4Writes, MXFP4Reads),
   Q4_1 |-> Layout(20, Q4_1Writes, Q4_1Reads), Q5_0 |-> Layout(22, Q5_0Writes, Q5_0Reads),
   Q5_1 |-> Layout(24, Q5_1Writes, Q5_1Reads), IQ4_NL |-> Layout(18, IQ4_NLWrites, IQ4_NLReads),
   Q6_K |-> Layout(210, Q6_KWrites, Q6_KReads), Q5_K |-> Layout(176, Q5_KWrites, Q5_KReads),
   Q4_K |-> Layout(144, Q4_KWrites, Q4_KReads), Q3_K |-> Layout(110, Q3_KWrites, Q3_KReads),
   Q2_K |-> Layout(84, Q2_KWrites, Q2_KReads), IQ4_XS |-> Layout(136, IQ4_XSWrites, IQ4_XSReads),
   IQ2_XXS |-> Layout(66, IQ2_XXSWrites, IQ2_XXSReads), IQ2_XS |-> Layout(74, IQ2_XSWrites, IQ2_XSReads),
   IQ2_S |-> Layout(82, IQ2_SWrites, IQ2_SReads), IQ3_XXS |-> Layout(98, IQ3_XXSWrites, IQ3_XXSReads),
   IQ3_S |-> Layout(110, IQ3_SWrites, IQ3_SReads), IQ1_S |-> Layout(50, IQ1_SWrites, IQ1_SReads),
   IQ1_M |-> Layout(56, IQ1_MWrites, IQ1_MReads)]

(***************************************************************************)
(* Reads and writes agree, no bit of the block holds two things, the block *)
(* has no byte left over and the bits of each field have no gap.           *)
(***************************************************************************)
Sound(lay) ==
  LET positions == {w[4] : w \in lay.writes}
  IN  /\ lay.reads = lay.writes
      /\ Cardinality(positions) = Cardinality(lay.writes)
      /\ positions = 0 .. 8 * lay.bytes - 1
      /\ \A w \in lay.writes : w[3] > 0 => \E v \in lay.writes :
           v[1] = w[1] /\ v[2] = w[2] /\ v[3] = w[3] - 1

ScalesAgree ==
  \A i \in 0 .. 255 :
    /\ Q6_KScaleRead(i) = i \div 16 /\ Q3_KScaleRead(i) = i \div 16 /\ Q2_KScaleRead(i) = i \div 16
    /\ Q5_KScaleRead(i) = i \div 32 /\ Q4_KScaleRead(i) = i \div 32

\* Setting a field changes that field and no other, whatever the others hold.
GenIDSound ==
  /\ UNION {Mask(k) : k \in 1 .. 7} = 0 .. 63
  /\ \A k \in 1 .. 7 : \A others \in {{}, 0 .. 63} :
       \A ones \in {{0}, {GenIDWidths[k].bits - 1}, {GenIDWidths[k].bits}} :
         LET g == WithField(others, k, ones)
         IN  /\ GetField(g, k) = IF GenIDWidths[k].bits \in ones THEN GetField(others, k) ELSE ones
             /\ \A other \in (1 .. 7) \ {k} : GetField(g, other) = GetField(others, other)
  /\ \A k \in 1 .. 3 : LET fields == [j \in 1 .. 5 |-> IF j = k THEN {GenIDWidths[k].bits} ELSE {0}]
                       IN  MakeGenID(fields) = {}
  /\ \A k \in 1 .. 5 : GetField(MakeGenID([j \in 1 .. 5 |-> {(j % 2)}]), k) = {(k % 2)}

SoundLayouts ==
  {name \in DOMAIN Layouts : Sound(Layouts[name])}
  \cup (IF ScalesAgree THEN {"scales"} ELSE {}) \cup (IF GenIDSound THEN {"GenID"} ELSE {})
=============================================================================
