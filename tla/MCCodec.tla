------------------------------ MODULE MCCodec -------------------------------
(* Tensors for Codec.  Scalar formats: for every code, the FP32 number     *)
(* halfway to the next code and its two neighbours, of both signs.  Block  *)
(* formats: small blocks over numbers that take every scale, tie and clamp *)
(* of the format.                                                          *)
EXTENDS Codec

\* Three numbers around the upper midpoint of each code, of both signs.
Around(fmt, codes) ==
  LET n == Cardinality(codes)
      from == Min(codes)
  IN  [i \in 1 .. 6 * n |->
        [sign |-> (i % 2), abs |-> Midpoint(fmt, from + (i - 1) \div 6) + (((i - 1) \div 2) % 3) - 1]]
\* All codes but the largest, 64 at a time.
Ranges(fmt) ==
  {64 * k .. Min({64 * k + 63, LargestOf(fmt) - 1}) : k \in 0 .. (LargestOf(fmt) - 1) \div 64}
F(sign, abs) == [sign |-> sign, abs |-> abs]
Specials == <<F(0, 0), F(1, 0), F(0, Inf32), F(1, Inf32), F(0, Inf32 - 1), F(1, Inf32 - 1),
              F(0, Quiet32), F(1, Inf32 + 1), F(0, 1), F(1, 2^23 - 1), F(0, 2^23),
              F(0, 1199570943), F(0, 1199570944), F(0, 1199505407), F(0, 1139277823),
              F(1, 855638015), F(1, 847249407), F(0, 855638016), F(0, 847249408)>>
One == <<F(0, 1065353216)>>
Two == <<F(1, 1073741824), F(0, Inf32)>>

Triples(S) == {<<<<a, b, c>>>> : a, b, c \in S}
Pairs(S) == {<<<<a, b>>, <<c, e>>>> : a, b, c, e \in S}

Wide == {-180039, -60013, 0, 5, 120026, 180039}
Near == {-7, -1, 0, 3, 100}
Ints == {889 * k : k \in {-127, -7, -1, 1, 2, 1398}} \cup {0, 1}
Huge == 4400000

BlocksOf(fmt) ==
  CASE fmt \in DOMAIN IntLevels -> {<<<<a, b>>>> : a, b \in Ints \cup {NonFinite}}
    [] fmt \in {"Q4_1", "Q5_1"} -> Triples({-60013, 5, 120026, 180039} \cup Near)
                                   \cup Triples({-Huge, 0, Huge})
    [] fmt \in DOMAIN SignedKinds -> Pairs({-180039, 0, 5, 120026})
    [] fmt \in DOMAIN RangeKinds -> Pairs({-180039, 0, 5, 120026}) \cup Pairs({-7, 0, 3})
                                    \cup {<<<<-Huge, Huge>>, <<0, Huge>>>>}
    [] fmt = "MXFP4" -> Triples(Near \cup {11, 13, 14, 24, 30, -180039})
    [] OTHER -> Triples(Wide \cup Near)

\* Groups of eight: multiples of entries, odd and even numbers of negative
\* lanes, a smallest lane that is not the first, all of one magnitude.
Eight(v, w) == v \o [i \in 1 .. 8 - Len(v) |-> w]
GroupsOf8 ==
  {Eight(<<25, 8, 8>>, 8), Eight(<<-25, -8, 25>>, -8), Eight(<<25, 25>>, 8),
   Eight(<<9, -7>>, -7), Eight(<<-9, 7>>, 7), Eight(<<-9>>, -9), Eight(<<9, 9>>, 9),
   Eight(<<1, 1, -7>>, -7), Eight(<<14, 4, 4, 4, 14, 4>>, 4), Eight(<<-14, 4, 4, 4>>, 14),
   Eight(<<0, -3, 25, 2, 0>>, 5), Eight(<<5, -3, 4, -2>>, -6), Eight(<<>>, 0),
   Eight(<<30, -1, NonFinite, 2>>, 2), Eight(<<-1>>, 1)}
GridBlocks ==
  {<<x>> : x \in GroupsOf8} \cup
  {<<x, y>> : x \in {Eight(<<25, 8, -25>>, 8), Eight(<<-9, 7>>, 7)}, y \in GroupsOf8}

NVFP4Tensors ==
  {<<<<<<g * HeaderUnit, a, b>>>>, <<<<c, 0, a>>>>>> :
     g \in {1, 3, 8}, a \in {-60013, 5, 300}, b \in {0, -2000, 60013}, c \in {0, 1, 65536}}

MCData(fmt) ==
  CASE fmt = Unsupported -> {}
    [] fmt \in Narrowed -> {<<Around(fmt, codes)>> : codes \in Ranges(fmt)} \cup {<<Specials>>}
    [] fmt = "FP32" -> {<<Specials>>}
    [] fmt \in DOMAIN GridKinds -> {<<x>> : x \in GridBlocks}
    [] fmt = "NVFP4" -> NVFP4Tensors
    [] OTHER -> {<<x>> : x \in BlocksOf(fmt)}

\* An empty tensor, and one of two blocks.
MCShaped(fmt) ==
  {<<>>} \cup
  (CASE fmt = Unsupported -> {<<One>>}
     [] fmt \in Scalars -> {<<One, Two>>}
     [] fmt \in DOMAIN GridKinds -> {<<<<Eight(<<25, 8, 8>>, 8)>>, <<Eight(<<>>, 0)>>>>}
     [] fmt = "NVFP4" -> {<<<<<<HeaderUnit, 5, 0>>>>, <<<<0, -7, 300>>>>>>}
     [] fmt \in DOMAIN SignedKinds \cup DOMAIN RangeKinds ->
          {<<<<<<-7, 3>>, <<100, 0>>>>, <<<<0, 0>>, <<0, 0>>>>>>}
     [] OTHER -> {<<<<<<-7, 3, 100>>>>, <<<<0, 0, 0>>>>>>})
=============================================================================
