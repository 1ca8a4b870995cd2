--------------------------- MODULE QuantizerProofs ----------------------------
(***************************************************************************)
(* The arithmetic of the codecs, for all numbers: rounding of FP32 numbers *)
(* to the codes of a scalar format, of quotients to codes and to FP16      *)
(* scales, the codes and scales of every block format, what comes back     *)
(* when they are decoded, and what becomes of it when it is encoded again. *)
(***************************************************************************)
EXTENDS FloatCodes, GridQuant, FiniteSetTheorems, WellFoundedInduction, TLAPS

-----------------------------------------------------------------------------
(* Sets of integers and sequences. *)

(* A set of natural numbers that is not empty has a least one. *)
LEMMA LeastNat ==
  ASSUME NEW T \in SUBSET Nat, T # {}
  PROVE  \E n \in T : \A m \in T : n <= m
  <1>1. \A m, n \in Nat : m < n => <<m, n>> \in OpToRel(<, Nat)
    BY Zenon DEF OpToRel
  <1>2. PICK n \in T : \A m \in T : ~(<<m, n>> \in OpToRel(<, Nat))
    BY NatLessThanWellFounded, WFMin, Zenon
  <1>3. \A m \in T : ~(m < n)
    BY <1>1, <1>2, Zenon
  <1> HIDE <1>2
  <1> QED
    BY <1>3, SMT

(* A finite set of integers has a largest and a smallest element. *)
LEMMA LargestExists ==
  ASSUME NEW S \in SUBSET Int, IsFiniteSet(S), S # {}
  PROVE  \E n \in S : \A m \in S : m <= n
  <1> DEFINE Bad == {n \in Nat : \E T \in SUBSET S : /\ IsFiniteSet(T) /\ Cardinality(T) = n
                                                     /\ T # {} /\ \A x \in T : \E y \in T : ~(y <= x)}
  <1>1. SUFFICES ASSUME \A x \in S : \E y \in S : ~(y <= x) PROVE FALSE
    BY Zenon
  <1>2. Cardinality(S) \in Nat
    BY FS_CardinalityType, Zenon
  <1>3. Cardinality(S) \in Bad
    BY <1>1, <1>2, Zenon
  <1>4. PICK n \in Bad : \A m \in Bad : n <= m
    <2>1. Bad \in SUBSET Nat
      OBVIOUS
    <2> HIDE DEF Bad
    <2> QED
      BY <1>3, <2>1, LeastNat, Zenon
  <1>5. PICK T \in SUBSET S : /\ IsFiniteSet(T) /\ Cardinality(T) = n
                              /\ T # {} /\ \A x \in T : \E y \in T : ~(y <= x)
    BY <1>4, Zenon
  <1>6. PICK a \in T : TRUE
    BY <1>5, Zenon
  <1> DEFINE U == T \ {a}
  <1>7. IsFiniteSet(U) /\ Cardinality(U) = n - 1 /\ U \in SUBSET S /\ n \in Nat
    BY <1>4, <1>5, <1>6, FS_RemoveElement, Zenon
  <1>8. U # {}
    <2>1. PICK y \in T : ~(y <= a)
      BY <1>5, <1>6, Zenon
    <2>2. y # a
      BY <2>1, <1>6, SMT
    <2> QED
      BY <2>1, <2>2, Zenon
  <1>9. \A x \in U : \E y \in U : ~(y <= x)
    <2>1. SUFFICES ASSUME NEW x \in U, \A y \in U : y <= x PROVE FALSE
      BY Zenon
    <2>2. PICK y \in T : ~(y <= x)
      BY <1>5, <2>1, Zenon
    <2>3. y = a
      BY <2>1, <2>2, Zenon
    <2>4. PICK z \in T : ~(z <= a)
      BY <1>5, <1>6, Zenon
    <2>5. z # a
      BY <2>4, <1>6, SMT
    <2>6. z <= x
      BY <2>1, <2>4, <2>5, Zenon
    <2>7. a \in Int /\ x \in Int /\ z \in Int
      BY <1>5, <1>6, <2>1, <2>4, Zenon
    <2> QED
      BY <2>2, <2>3, <2>4, <2>6, <2>7, SMT
  <1>10. n - 1 \in Nat
    BY <1>7, FS_CardinalityType, Zenon
  <1>11. n - 1 \in Bad
    BY <1>7, <1>8, <1>9, <1>10, Zenon
  <1> QED
    BY <1>4, <1>7, <1>10, <1>11, SMT

(* The maximum of a finite set that is not empty is a member of it, and    *)
(* no member is larger.                                                    *)
LEMMA MaxIs ==
  ASSUME NEW S \in SUBSET Int, IsFiniteSet(S), S # {}
  PROVE  Max(S) \in S /\ Max(S) \in Int /\ \A m \in S : m <= Max(S)
  <1>1. \E n \in S : \A m \in S : n >= m
    BY LargestExists, SMT
  <1> DEFINE k == Max(S)
  <1>2. k \in S /\ \A m \in S : k >= m
    BY <1>1, Zenon DEF Max
  <1> HIDE DEF k
  <1>3. k \in Int /\ \A m \in S : m <= k
    BY <1>2, SMT
  <1> QED
    BY <1>2, <1>3, Zenon DEF k

(* The minimum of a finite set that is not empty is a member of it, and    *)
(* no member is smaller.                                                   *)
LEMMA MinIs ==
  ASSUME NEW S \in SUBSET Int, IsFiniteSet(S), S # {}
  PROVE  Min(S) \in S /\ Min(S) \in Int /\ \A m \in S : Min(S) <= m
  <1> DEFINE f == [x \in S |-> -x]
             T == {f[x] : x \in S}
  <1>1. f \in Surjection(S, T)
    BY Zenon DEF Surjection
  <1>2. IsFiniteSet(T)
    BY <1>1, FS_Surjection, Zenon
  <1>3. T \in SUBSET Int /\ T # {}
    <2>1. \A x \in S : f[x] \in Int
      BY SMT
    <2> QED
      BY <2>1, Zenon
  <1>4. PICK n \in T : \A m \in T : m <= n
    BY <1>2, <1>3, LargestExists, Zenon
  <1>5. PICK k \in S : n = -k
    BY <1>4, SMT
  <1>6. \A m \in S : k <= m
    <2> TAKE m \in S
    <2>1. -m \in T
      BY Zenon
    <2> QED
      BY <1>4, <1>5, <2>1, SMT
  <1>7. \E x \in S : \A m \in S : x <= m
    BY <1>5, <1>6, Zenon
  <1>8. Min(S) \in S /\ \A m \in S : Min(S) <= m
    BY <1>7, Zenon DEF Min
  <1> QED
    BY <1>8, Zenon

(* The values of a finite function are finitely many. *)
LEMMA ImageFinite ==
  ASSUME NEW S, IsFiniteSet(S), NEW f, f = [x \in S |-> f[x]]
  PROVE  IsFiniteSet({f[x] : x \in S})
  <1>1. f \in Surjection(S, {f[x] : x \in S})
    BY Zenon DEF Surjection
  <1> QED
    BY <1>1, FS_Surjection, Zenon

(* The sums that "Total" runs through. *)
IsSums(f, sizes, n) == f = [k \in 0 .. n |-> IF k = 0 THEN 0 ELSE f[k - 1] + sizes[k]]

(* The partial sums of a sequence exist. *)
LEMMA SumsExist ==
  ASSUME NEW sizes, NEW n \in Nat
  PROVE  \E f : IsSums(f, sizes, n)
  <1> DEFINE Bad == {k \in Nat : ~\E f : IsSums(f, sizes, k)}
  <1>1. SUFFICES ASSUME Bad # {} PROVE FALSE
    BY Zenon
  <1>2. PICK k \in Bad : \A m \in Bad : k <= m
    <2>1. Bad \in SUBSET Nat
      BY Zenon
    <2> HIDE DEF Bad
    <2> QED
      BY <1>1, <2>1, LeastNat, Zenon
  <1>3. k \in Nat /\ ~\E f : IsSums(f, sizes, k)
    BY <1>2, Zenon
  <1>4. CASE k = 0
    <2> DEFINE f == [i \in 0 .. 0 |-> 0]
    <2>1. f = [i \in 0 .. 0 |-> IF i = 0 THEN 0 ELSE f[i - 1] + sizes[i]]
      BY SMT
    <2> QED
      BY <1>3, <1>4, <2>1, Zenon DEF IsSums
  <1>5. CASE k # 0
    <2>1. k - 1 \in Nat /\ ~(k <= k - 1)
      BY <1>3, <1>5, SMT
    <2>2. PICK g : IsSums(g, sizes, k - 1)
      BY <1>2, <2>1, Zenon
    <2>3. g = [i \in 0 .. k - 1 |-> IF i = 0 THEN 0 ELSE g[i - 1] + sizes[i]]
      BY <2>2, Zenon DEF IsSums
    <2> DEFINE f == [i \in 0 .. k |-> IF i = k THEN g[k - 1] + sizes[k] ELSE g[i]]
    <2>4. \A i \in 0 .. k : f[i] = IF i = 0 THEN 0 ELSE f[i - 1] + sizes[i]
      <3> TAKE i \in 0 .. k
      <3>1. CASE i = k
        BY <1>3, <1>5, <2>1, <3>1, SMT
      <3>2. CASE i # k
        <4>1. i \in 0 .. k - 1
          BY <1>3, <3>2, SMT
        <4>2. g[i] = IF i = 0 THEN 0 ELSE g[i - 1] + sizes[i]
          BY <2>3, <4>1, Zenon
        <4>3. i # 0 => i - 1 \in 0 .. k /\ i - 1 # k
          BY <1>3, <4>1, SMT
        <4> QED
          BY <3>2, <4>1, <4>2, <4>3, SMT
      <3> QED
        BY <3>1, <3>2, Zenon
    <2>5. f = [i \in 0 .. k |-> IF i = 0 THEN 0 ELSE f[i - 1] + sizes[i]]
      <3>1. f = [i \in 0 .. k |-> f[i]]
        BY Zenon
      <3> HIDE DEF f
      <3> QED
        BY <2>4, <3>1, Zenon
    <2> QED
      BY <1>3, <2>5, Zenon DEF IsSums
  <1> QED
    BY <1>4, <1>5, Zenon

(* Total is the last of the partial sums. *)
LEMMA TotalIs ==
  ASSUME NEW sizes, Len(sizes) \in Nat
  PROVE  \E f : IsSums(f, sizes, Len(sizes)) /\ Total(sizes) = f[Len(sizes)]
  <1> DEFINE f == CHOOSE f : IsSums(f, sizes, Len(sizes))
  <1>1. IsSums(f, sizes, Len(sizes))
    BY SumsExist, Zenon
  <1>2. Total(sizes) = f[Len(sizes)]
    BY Zenon DEF Total, IsSums
  <1> HIDE DEF f
  <1> QED
    BY <1>1, <1>2, Zenon

(* The beginning of a sequence of sizes takes no more than all of it. *)
LEMMA TotalOfPrefix ==
  ASSUME NEW sizes \in Seq(Nat), NEW part \in Seq(Nat), Len(part) <= Len(sizes),
         \A k \in 1 .. Len(part) : part[k] = sizes[k]
  PROVE  /\ Total(sizes) \in Nat /\ Total(part) \in Nat
         /\ Total(part) <= Total(sizes)
         /\ Len(part) = Len(sizes) => Total(part) = Total(sizes)
  <1> DEFINE N == Len(sizes)
             L == Len(part)
  <1>1. /\ N \in Nat /\ L \in Nat /\ L <= N
        /\ (\A k \in 1 .. N : sizes[k] \in Nat) /\ (\A k \in 1 .. L : part[k] \in Nat)
    BY SMT
  <1>2. PICK f : IsSums(f, sizes, N) /\ Total(sizes) = f[N]
    BY <1>1, TotalIs, Zenon
  <1>3. PICK g : IsSums(g, part, L) /\ Total(part) = g[L]
    BY <1>1, TotalIs, Zenon
  <1> HIDE DEF N, L
  <1>4. \A k \in 0 .. N : f[k] = IF k = 0 THEN 0 ELSE f[k - 1] + sizes[k]
    BY <1>2, Zenon DEF IsSums
  <1>5. \A k \in 0 .. L : g[k] = IF k = 0 THEN 0 ELSE g[k - 1] + part[k]
    BY <1>3, Zenon DEF IsSums
  <1> DEFINE Fine(k) == f[k] \in Nat /\ (k <= L => g[k] = f[k]) /\ (k >= L => f[k] >= f[L])
  <1> DEFINE Bad == {k \in Nat : k <= N /\ ~Fine(k)}
  <1>6. ASSUME Bad # {} PROVE FALSE
    <2>1. PICK k \in Bad : \A m \in Bad : k <= m
      <3>1. Bad \in SUBSET Nat
        BY Zenon
      <3> HIDE DEF Bad
      <3> QED
        BY <1>6, <3>1, LeastNat, Zenon
    <2>2. k \in Nat /\ k <= N /\ ~Fine(k)
      BY <2>1, Zenon
    <2>3. \A m \in Nat : m < k => Fine(m)
      <3> TAKE m \in Nat
      <3> HAVE m < k
      <3>1. m <= N /\ ~(k <= m)
        BY <1>1, <2>2, SMT
      <3> QED
        BY <2>1, <3>1, Zenon
    <2>4. CASE k = 0
      BY <1>1, <1>4, <1>5, <2>2, <2>4, SMT
    <2>5. CASE k # 0
      <3>1. k - 1 \in Nat /\ k - 1 < k
        BY <2>2, <2>5, SMT
      <3>2. Fine(k - 1)
        BY <2>3, <3>1, Zenon
      <3>3. L < k => Fine(L)
        BY <1>1, <2>3, Zenon
      <3>4. f[k] = f[k - 1] + sizes[k] /\ sizes[k] \in Nat
        BY <1>1, <1>4, <2>2, <2>5, SMT
      <3>5. k <= L => g[k] = g[k - 1] + part[k] /\ part[k] = sizes[k]
        BY <1>1, <1>5, <2>2, <2>5, SMT DEF L
      <3>6. f[k] \in Nat
        BY <3>2, <3>4, SMT
      <3>7. k <= L => g[k] = f[k]
        BY <1>1, <2>2, <3>1, <3>2, <3>4, <3>5, SMT
      <3>8. k >= L => f[k] >= f[L]
        <4>1. CASE k = L
          BY <3>6, <4>1, SMT
        <4>2. CASE k > L
          BY <1>1, <2>2, <3>1, <3>2, <3>3, <3>4, <4>2, SMTT(60)
        <4> QED
          BY <1>1, <2>2, <4>1, <4>2, SMT
      <3> QED
        BY <2>2, <3>6, <3>7, <3>8, Zenon
    <2> QED
      BY <2>4, <2>5, Zenon
  <1>7. Fine(N) /\ Fine(L)
    <2>1. N <= N /\ L <= N
      BY <1>1, SMT
    <2> QED
      BY <1>1, <1>6, <2>1, Zenon
  <1> QED
    BY <1>1, <1>2, <1>3, <1>7, SMT DEF N, L

(* The first n values of a function, as a sequence. *)
LEMMA Prefix ==
  ASSUME NEW g, NEW n \in Nat, NEW S, \A k \in 1 .. n : g[k] \in S
  PROVE  /\ [k \in 1 .. n |-> g[k]] \in Seq(S)
         /\ Len([k \in 1 .. n |-> g[k]]) = n
         /\ DOMAIN [k \in 1 .. n |-> g[k]] = 1 .. n
  BY SMT

(* One more value of a function makes the next longer sequence of its      *)
(* values.                                                                 *)
LEMMA PrefixGrows ==
  ASSUME NEW g, NEW n \in Nat
  PROVE  Append([k \in 1 .. n |-> g[k]], g[n + 1]) = [k \in 1 .. n + 1 |-> g[k]]
  <1> DEFINE S == {g[k] : k \in 1 .. n + 1}
             out == [k \in 1 .. n |-> g[k]]
             all == [k \in 1 .. n + 1 |-> g[k]]
             new == Append(out, g[n + 1])
  <1>1. \A k \in 1 .. n + 1 : g[k] \in S
    BY Zenon
  <1>2. out \in Seq(S) /\ Len(out) = n /\ (\A k \in 1 .. n : out[k] = g[k])
    <2>1. \A k \in 1 .. n : g[k] \in S
      BY <1>1, SMT
    <2> HIDE DEF S
    <2> QED
      BY <2>1, Prefix, SMT
  <1>3. g[n + 1] \in S
    BY <1>1, SMT
  <1> HIDE DEF S, out
  <1>4. /\ new \in Seq(S) /\ Len(new) = n + 1 /\ new[n + 1] = g[n + 1]
        /\ \A k \in 1 .. n : new[k] = g[k]
    BY <1>2, <1>3, SMT
  <1> HIDE DEF new
  <1>5. new = [k \in 1 .. n + 1 |-> new[k]]
    BY <1>4, SMT
  <1>6. \A k \in 1 .. n + 1 : new[k] = g[k]
    BY <1>4, SMT
  <1> QED
    BY <1>5, <1>6, Zenon DEF new, out

(* A function on 1 .. n with values in S is a sequence over S of length    *)
(* n.                                                                      *)
LEMMA SequenceOf ==
  ASSUME NEW s, NEW n \in Nat, NEW S, s = [k \in 1 .. n |-> s[k]], \A k \in 1 .. n : s[k] \in S
  PROVE  s \in Seq(S) /\ Len(s) = n /\ DOMAIN s = 1 .. n
  <1>1. s \in [1 .. n -> S]
    BY Zenon
  <1> QED
    BY <1>1, SMT

(* A sequence with a positive length is not the empty one. *)
LEMMA NotEmpty ==
  ASSUME NEW S, NEW s \in Seq(S), NEW n \in Nat, n > 0, Len(s) = n
  PROVE  s # <<>>
  BY SMT

-----------------------------------------------------------------------------
(* The scalar conversions.  The codes of a format fall into binades, and   *)
(* two neighbours are never nearer to each other than two of the binade    *)
(* below are.                                                              *)

Pow(k) == 2^k

Rounds(q, gap, c) ==
  /\ c \in Nat
  /\ 2 * q <= gap * (2 * c + 1) /\ gap * (2 * c - 1) <= 2 * q
  /\ (2 * q = gap * (2 * c + 1) \/ 2 * q = gap * (2 * c - 1)) => c % 2 = 0

(* The remainder, by the quotient. *)
LEMMA Division ==
  ASSUME NEW q \in Int, NEW g \in Int, g > 0
  PROVE  q % g = q - (q \div g) * g
  BY Z3

(* Going up is right when what is left over is more than half, or half     *)
(* after an odd number.                                                    *)
LEMMA RoundsUp ==
  ASSUME NEW q \in Nat, NEW gap \in Nat, NEW kept \in Nat, NEW rest \in 0 .. gap - 1,
         rest = q - kept * gap, gap <= 2 * rest, gap = 2 * rest => kept % 2 = 1
  PROVE  Rounds(q, gap, kept + 1)
  <1> DEFINE product == kept * gap
  <1>1. product \in Int
    OBVIOUS
  <1>2. gap * (2 * (kept + 1) + 1) = 2 * product + 3 * gap /\ gap * (2 * (kept + 1) - 1) = 2 * product + gap
    BY Z3
  <1>3. kept % 2 = 1 => (kept + 1) % 2 = 0
    OBVIOUS
  <1> HIDE DEF product
  <1>4. q = product + rest
    BY DEF product
  <1> QED
    BY <1>1, <1>2, <1>3, <1>4 DEF Rounds

(* Staying is right when what is left over is less than half, or half      *)
(* after an even number.                                                   *)
LEMMA RoundsDown ==
  ASSUME NEW q \in Nat, NEW gap \in Nat, NEW kept \in Nat, NEW rest \in 0 .. gap - 1,
         rest = q - kept * gap, gap >= 2 * rest, gap = 2 * rest => kept % 2 = 0
  PROVE  Rounds(q, gap, kept)
  <1> DEFINE product == kept * gap
  <1>1. product \in Int
    OBVIOUS
  <1>2. gap * (2 * kept + 1) = 2 * product + gap /\ gap * (2 * kept - 1) = 2 * product - gap
    BY Z3
  <1> HIDE DEF product
  <1>4. q = product + rest
    BY DEF product
  <1> QED
    BY <1>1, <1>2, <1>4 DEF Rounds

(* Round bit, sticky bits and last bit give the nearest multiple of the    *)
(* gap, the even one of two.                                               *)
LEMMA RoundNearestEvenRounds ==
  ASSUME NEW q \in Nat, NEW shift \in Nat, NEW gap \in Nat, gap > 0,
         Pow(shift) = gap, 2 * Pow(shift - 1) = gap, Pow(shift - 1) \in Nat
  PROVE  Rounds(q, gap, RoundNearestEven(q, shift))
  <1> DEFINE kept == q \div gap
             rest == q % gap
  <1>1. kept \in Nat /\ rest \in 0 .. gap - 1
    OBVIOUS
  <1>5. rest = q - kept * gap
    BY Division
  <1>2. RoundNearestEven(q, shift) =
          IF 2 * rest > gap \/ (2 * rest = gap /\ kept % 2 = 1) THEN kept + 1 ELSE kept
    BY <1>1, SMT DEF RoundNearestEven, Pow
  <1> HIDE DEF kept, rest
  <1>3. CASE 2 * rest > gap \/ (2 * rest = gap /\ kept % 2 = 1)
    BY <1>1, <1>2, <1>5, <1>3, RoundsUp
  <1>4. CASE ~ (2 * rest > gap \/ (2 * rest = gap /\ kept % 2 = 1))
    BY <1>1, <1>2, <1>5, <1>4, RoundsDown
  <1> QED
    BY <1>3, <1>4

(* The powers of two of the binades. *)
LEMMA Powers ==
  ASSUME NEW q \in 0 .. 10
  PROVE  /\ Pow(q) \in Nat /\ Pow(q) > 0
         /\ Pow(23 - q) \in Nat /\ Pow(23 - q) > 1 /\ Pow(22 - q) \in Nat
         /\ Pow(q + 1) = 2 * Pow(q) /\ Pow(23 - q) = 2 * Pow(22 - q)
         /\ Pow(q) * Pow(23 - q) = 8388608
  <1>0. CASE q = 0  BY <1>0, SMT DEF Pow
  <1>1. CASE q = 1  BY <1>1, SMT DEF Pow
  <1>2. CASE q = 2  BY <1>2, SMT DEF Pow
  <1>3. CASE q = 3  BY <1>3, SMT DEF Pow
  <1>4. CASE q = 4  BY <1>4, SMT DEF Pow
  <1>5. CASE q = 5  BY <1>5, SMT DEF Pow
  <1>6. CASE q = 6  BY <1>6, SMT DEF Pow
  <1>7. CASE q = 7  BY <1>7, SMT DEF Pow
  <1>8. CASE q = 8  BY <1>8, SMT DEF Pow
  <1>9. CASE q = 9  BY <1>9, SMT DEF Pow
  <1>10. CASE q = 10  BY <1>10, SMT DEF Pow
  <1> QED
    BY <1>0, <1>1, <1>2, <1>3, <1>4, <1>5, <1>6, <1>7, <1>8, <1>9, <1>10, SMT

(* The powers of two that occur as gaps grow. *)
LEMMA PowersGrow ==
  ASSUME NEW j \in 0 .. 10, NEW k \in 0 .. 10, j < k
  PROVE  Pow(j) < Pow(k)
  <1>1. /\ Pow(0) = 1 /\ Pow(1) = 2 /\ Pow(2) = 4 /\ Pow(3) = 8 /\ Pow(4) = 16 /\ Pow(5) = 32
        /\ Pow(6) = 64 /\ Pow(7) = 128 /\ Pow(8) = 256 /\ Pow(9) = 512 /\ Pow(10) = 1024
    BY SMT DEF Pow
  <1>2. j \in {0, 1, 2, 3, 4, 5, 6, 7, 8, 9, 10} /\ k \in {0, 1, 2, 3, 4, 5, 6, 7, 8, 9, 10}
    BY SMT
  <1> QED
    BY <1>1, <1>2, SMT

(* The leading bit of a number is its binade. *)
LEMMA LeadingBitIs ==
  ASSUME NEW q \in 0 .. 9, NEW m \in Nat, Pow(q) <= m, m < Pow(q + 1)
  PROVE  LeadingBit(m) = q
  <1>0. CASE q = 0  BY <1>0, SMT DEF LeadingBit, Pow
  <1>1. CASE q = 1  BY <1>1, SMT DEF LeadingBit, Pow
  <1>2. CASE q = 2  BY <1>2, SMT DEF LeadingBit, Pow
  <1>3. CASE q = 3  BY <1>3, SMT DEF LeadingBit, Pow
  <1>4. CASE q = 4  BY <1>4, SMT DEF LeadingBit, Pow
  <1>5. CASE q = 5  BY <1>5, SMT DEF LeadingBit, Pow
  <1>6. CASE q = 6  BY <1>6, SMT DEF LeadingBit, Pow
  <1>7. CASE q = 7  BY <1>7, SMT DEF LeadingBit, Pow
  <1>8. CASE q = 8  BY <1>8, SMT DEF LeadingBit, Pow
  <1>9. CASE q = 9  BY <1>9, SMT DEF LeadingBit, Pow
  <1> QED
    BY <1>0, <1>1, <1>2, <1>3, <1>4, <1>5, <1>6, <1>7, <1>8, <1>9, SMT

(* Every subnormal code lies in a binade. *)
LEMMA BinadeOf ==
  ASSUME NEW c \in Nat, 0 < c, c < Pow(10)
  PROVE  \E q \in 0 .. 9 : Pow(q) <= c /\ c < Pow(q + 1)
  <1>n. c \in 1 .. 1023
    BY SMT DEF Pow
  <1>0. CASE 1 <= c /\ c < 2
    <2> WITNESS 0 \in 0 .. 9
    <2> QED BY <1>0, SMT DEF Pow
  <1>1. CASE 2 <= c /\ c < 4
    <2> WITNESS 1 \in 0 .. 9
    <2> QED BY <1>1, SMT DEF Pow
  <1>2. CASE 4 <= c /\ c < 8
    <2> WITNESS 2 \in 0 .. 9
    <2> QED BY <1>2, SMT DEF Pow
  <1>3. CASE 8 <= c /\ c < 16
    <2> WITNESS 3 \in 0 .. 9
    <2> QED BY <1>3, SMT DEF Pow
  <1>4. CASE 16 <= c /\ c < 32
    <2> WITNESS 4 \in 0 .. 9
    <2> QED BY <1>4, SMT DEF Pow
  <1>5. CASE 32 <= c /\ c < 64
    <2> WITNESS 5 \in 0 .. 9
    <2> QED BY <1>5, SMT DEF Pow
  <1>6. CASE 64 <= c /\ c < 128
    <2> WITNESS 6 \in 0 .. 9
    <2> QED BY <1>6, SMT DEF Pow
  <1>7. CASE 128 <= c /\ c < 256
    <2> WITNESS 7 \in 0 .. 9
    <2> QED BY <1>7, SMT DEF Pow
  <1>8. CASE 256 <= c /\ c < 512
    <2> WITNESS 8 \in 0 .. 9
    <2> QED BY <1>8, SMT DEF Pow
  <1>9. CASE 512 <= c /\ c < 1024
    <2> WITNESS 9 \in 0 .. 9
    <2> QED BY <1>9, SMT DEF Pow
  <1> QED
    BY <1>n, <1>0, <1>1, <1>2, <1>3, <1>4, <1>5, <1>6, <1>7, <1>8, <1>9, SMT

(* The constants of FP16, computed. *)
LEMMA FP16Facts ==
  LET f == Formats["FP16"]
  IN  /\ f.drop = 13 /\ f.minExp = 113 /\ f.saturateAt = 1199570944
      /\ f.zeroBelow = 855638016 /\ f.tinyFrom = 847249408
      /\ f.special = 31744 /\ f.largest = 31743 /\ f.inf = 31744 /\ f.nan = 32256
  BY SMT DEF Formats

(* The constants of E4M3, computed. *)
LEMMA E4M3Facts ==
  LET f == Formats["E4M3"]
  IN  /\ f.drop = 20 /\ f.minExp = 121 /\ f.saturateAt = 1139277824
      /\ f.zeroBelow = 981467136 /\ f.tinyFrom = 981467136
      /\ f.special = 127 /\ f.largest = 126 /\ f.inf = 126 /\ f.nan = 127
  BY SMT DEF Formats

(* The constants of E5M2, computed. *)
LEMMA E5M2Facts ==
  LET f == Formats["E5M2"]
  IN  /\ f.drop = 21 /\ f.minExp = 113 /\ f.saturateAt = 1199505408
      /\ f.zeroBelow = 922746880 /\ f.tinyFrom = 922746880
      /\ f.special = 124 /\ f.largest = 123 /\ f.inf = 124 /\ f.nan = 126
  BY SMT DEF Formats

FloatFormats == {"FP16", "E4M3", "E5M2"}

(* What the three formats have in common. *)
LEMMA FormatFacts ==
  ASSUME NEW fmt \in FloatFormats
  PROVE  LET f == Formats[fmt]
         IN  /\ f.drop \in 13 .. 21 /\ f.minExp \in 113 .. 121
             /\ f.largest \in Nat /\ f.special \in Nat /\ f.largest = f.special - 1 /\ LargestOf(fmt) = f.largest
             /\ f.zeroBelow = (f.minExp - 24 + f.drop) * 8388608
             /\ Pow(23 - f.drop) \in Nat /\ Pow(23 - f.drop) > 0 /\ Pow(23 - f.drop) < f.largest /\ Pow(f.drop) \in Nat /\ Pow(f.drop) > 0
             /\ Pow(f.drop) = 2 * Pow(f.drop - 1) /\ Pow(f.drop - 1) \in Nat
             /\ Pow(23 - f.drop) * Pow(f.drop) = 8388608
             /\ Pow(23 - f.drop) <= 1024
             /\ \A c \in Nat : c <= f.largest => IF fmt = "E4M3" THEN c # f.nan ELSE c < f.inf
  <1>1. CASE fmt = "FP16"  BY <1>1, FP16Facts, SMT DEF LargestOf, Pow
  <1>2. CASE fmt = "E4M3"  BY <1>2, E4M3Facts, SMT DEF LargestOf, Pow
  <1>3. CASE fmt = "E5M2"  BY <1>3, E5M2Facts, SMT DEF LargestOf, Pow
  <1> QED
    BY <1>1, <1>2, <1>3 DEF FloatFormats

Smallest(f) == f.minExp - (23 - f.drop)     \* the exponent of code 1

(* What the codes stand for: in the binade of Pow(q) they are Pow(23 - q)      *)
(* apart, both ends included.                                              *)
LEMMA SubnormalWiden ==
  ASSUME NEW f, f.minExp \in Nat, f.drop \in 13 .. 21,
         NEW q \in 0 .. 9, NEW c \in Nat, Pow(q) <= c, c < Pow(q + 1)
  PROVE  WidenSubnormal(f, c) = (Smallest(f) + q - 1) * 8388608 + c * Pow(23 - q)
  <1> DEFINE gap == Pow(23 - q)
             low == Pow(q)
  <1>0. q \in 0 .. 10
    BY SMT
  <1>1. low \in Nat /\ gap \in Nat /\ low * gap = 8388608
    BY <1>0, Powers, SMT
  <1>2. LeadingBit(c) = q
    BY LeadingBitIs, Zenon
  <1>3. WidenSubnormal(f, c) = (Smallest(f) + q) * 8388608 + (c - low) * gap
    BY <1>2, SMT DEF WidenSubnormal, Smallest, Pow
  <1> HIDE DEF gap, low
  <1>4. (c - low) * gap = c * gap - 8388608 /\ c * gap \in Nat
    BY <1>1, Z3
  <1>5. Smallest(f) \in Int
    BY SMT DEF Smallest
  <1> QED
    BY <1>3, <1>4, <1>5, SMT DEF gap

(* What a normal code stands for. *)
LEMMA NormalWiden ==
  ASSUME NEW fmt \in FloatFormats, NEW c \in Nat,
         Pow(23 - Formats[fmt].drop) <= c, c <= Formats[fmt].largest
  PROVE  MagnitudeOf(fmt, c) = (Formats[fmt].minExp - 1) * 8388608 + c * Pow(Formats[fmt].drop)
  <1> DEFINE f == Formats[fmt]
  <1>1. /\ Pow(23 - f.drop) \in Nat /\ Pow(23 - f.drop) > 0
        /\ IF fmt = "E4M3" THEN c # f.nan ELSE c < f.inf
    BY FormatFacts, SMT
  <1>2. MagnitudeOf(fmt, c) = Widen(fmt, c)
    BY SMT DEF MagnitudeOf, Decode, FloatFormats
  <1>3. Widen(fmt, c) = (f.minExp - 1) * 2^23 + c * Pow(f.drop)
    <2>1. CASE fmt = "FP16"  BY <1>1, <2>1, FP16Facts, SMT DEF Widen, Pow
    <2>2. CASE fmt = "E4M3"  BY <1>1, <2>2, E4M3Facts, SMT DEF Widen, Pow
    <2>3. CASE fmt = "E5M2"  BY <1>1, <2>3, E5M2Facts, SMT DEF Widen, Pow
    <2> QED
      BY <2>1, <2>2, <2>3, Zenon DEF FloatFormats
  <1> QED
    BY <1>2, <1>3, SMT

(* What a subnormal code of binade q stands for; the first code of the     *)
(* next binade fits the same line.                                         *)
LEMMA BinadeWiden ==
  ASSUME NEW fmt \in FloatFormats, NEW q \in 0 .. 22 - Formats[fmt].drop,
         NEW c \in Nat, Pow(q) <= c, c <= Pow(q + 1)
  PROVE  MagnitudeOf(fmt, c) = (Smallest(Formats[fmt]) + q - 1) * 8388608 + c * Pow(23 - q)
  <1> DEFINE f == Formats[fmt]
             full == Pow(23 - f.drop)
             gap == Pow(23 - q)
             E == Smallest(f)
  <1>1. /\ f.drop \in 13 .. 21 /\ f.minExp \in 113 .. 121 /\ f.largest \in Nat
        /\ full \in Nat /\ full < f.largest /\ full * Pow(f.drop) = 8388608 /\ E \in Nat
    BY FormatFacts, SMT DEF Smallest
  <1>2. /\ q \in 0 .. 9 /\ q \in 0 .. 10 /\ q + 1 \in 0 .. 10
    BY <1>1, SMT
  <1>3. /\ Pow(q) \in Nat /\ Pow(q) > 0 /\ gap \in Nat /\ Pow(q) * gap = 8388608
        /\ Pow(q + 1) = 2 * Pow(q)
    BY <1>2, Powers, SMT
  <1>4. Pow(q + 1) <= full /\ (Pow(q + 1) = full => q + 1 = 23 - f.drop)
    <2>1. 23 - f.drop \in 0 .. 10 /\ q + 1 <= 23 - f.drop
      BY <1>1, SMT
    <2>2. CASE q + 1 = 23 - f.drop
      BY <1>1, <2>2, SMT
    <2>3. CASE q + 1 < 23 - f.drop
      <3>1. Pow(q + 1) < full
        BY <1>2, <2>1, <2>3, PowersGrow, Zenon
      <3> QED
        BY <1>1, <1>3, <3>1, SMT
    <2> QED
      BY <1>2, <2>1, <2>2, <2>3, SMT
  <1>5. ASSUME c < full, c > 0 PROVE MagnitudeOf(fmt, c) = WidenSubnormal(f, c)
    BY <1>1, <1>5, SMT DEF MagnitudeOf, Decode, Widen, FloatFormats, Pow
  <1>6. CASE c < Pow(q + 1)
    <2>1. c < full /\ c > 0
      BY <1>1, <1>3, <1>4, <1>6, SMT
    <2>2. WidenSubnormal(f, c) = (E + q - 1) * 8388608 + c * gap
      BY <1>1, <1>2, <1>6, SubnormalWiden, SMT
    <2> QED
      BY <1>5, <2>1, <2>2, SMT
  <1>7. CASE c = Pow(q + 1)
    <2>1. c * gap = 2 * 8388608
      BY <1>3, <1>7, Z3
    <2>2. CASE c < full
      <3>1. q + 1 \in 0 .. 9
        BY <1>1, <1>2, <1>4, <1>7, <2>2, SMT
      <3>2. Pow(q + 1 + 1) = 2 * Pow(q + 1) /\ Pow(q + 1) > 0
        BY <1>2, Powers, SMT
      <3>3. c < Pow(q + 1 + 1) /\ c > 0
        BY <1>7, <3>2, SMT
      <3>4. WidenSubnormal(f, c) = (E + (q + 1) - 1) * 8388608 + c * Pow(23 - (q + 1))
        BY <1>1, <1>7, <3>1, <3>3, SubnormalWiden, SMT
      <3>5. c * Pow(23 - (q + 1)) = 8388608
        BY <1>2, <1>7, Powers, SMT
      <3> QED
        BY <1>1, <1>5, <2>1, <2>2, <3>3, <3>4, <3>5, SMT
    <2>3. CASE c = full
      <3>1. q + 1 = 23 - f.drop
        BY <1>4, <1>7, <2>3, SMT
      <3>2. MagnitudeOf(fmt, c) = (f.minExp - 1) * 8388608 + 8388608
        BY <1>1, <2>3, NormalWiden, SMT
      <3> QED
        BY <1>1, <1>2, <2>1, <3>1, <3>2, SMT DEF Smallest
    <2> QED
      BY <1>1, <1>3, <1>4, <1>7, <2>2, <2>3, SMT
  <1> QED
    BY <1>6, <1>7, <1>3, SMT

-----------------------------------------------------------------------------
(* The midpoints, and the nearest code. *)

(* A code stands for more than the one before it. *)
LEMMA WidenGrows ==
  ASSUME NEW fmt \in FloatFormats, NEW c \in Nat, c < Formats[fmt].largest
  PROVE  /\ MagnitudeOf(fmt, c) \in Nat /\ MagnitudeOf(fmt, c + 1) \in Nat
         /\ MagnitudeOf(fmt, c) < MagnitudeOf(fmt, c + 1)
         /\ MagnitudeOf(fmt, c) + 2 <= MagnitudeOf(fmt, c + 1)
  <1> DEFINE f == Formats[fmt]
             full == Pow(23 - f.drop)
             E == Smallest(f)
  <1>1. /\ f.drop \in 13 .. 21 /\ f.minExp \in 113 .. 121 /\ f.largest \in Nat
        /\ full \in Nat /\ full < f.largest /\ full <= 1024 /\ E \in 92 .. 121
        /\ Pow(f.drop) \in Nat /\ Pow(f.drop) > 1
    BY FormatFacts, SMT DEF Smallest
  <1>2. CASE c = 0
    <2>1. /\ 0 \in 0 .. 22 - f.drop /\ Pow(0) = 1 /\ Pow(0 + 1) = 2 /\ Pow(23 - 0) = 8388608
      BY <1>1, SMT DEF Pow
    <2>2. MagnitudeOf(fmt, 1) = (E + 0 - 1) * 8388608 + 1 * Pow(23 - 0)
      BY <2>1, BinadeWiden, SMT
    <2>3. MagnitudeOf(fmt, 0) = 0
      BY SMT DEF MagnitudeOf, Decode, Widen, FloatFormats
    <2> QED
      BY <1>1, <1>2, <2>1, <2>2, <2>3, SMT
  <1>3. CASE c > 0 /\ c < full
    <2>1. PICK q \in 0 .. 9 : Pow(q) <= c /\ c < Pow(q + 1)
      <3>1. c \in Nat /\ 0 < c /\ c < Pow(10)
        BY <1>1, <1>3, SMT DEF Pow
      <3> QED
        BY <3>1, BinadeOf, Zenon
    <2>2. q \in 0 .. 22 - f.drop
      <3>1. ASSUME q > 22 - f.drop PROVE FALSE
        <4>1. q = 23 - f.drop \/ (23 - f.drop \in 0 .. 10 /\ q \in 0 .. 10 /\ 23 - f.drop < q)
          BY <1>1, <3>1, SMT
        <4>2. Pow(q) >= full /\ Pow(q) \in Nat
          BY <4>1, <1>1, Powers, PowersGrow, SMT
        <4> QED
          BY <1>1, <1>3, <2>1, <4>2, SMT
      <3> QED
        BY <1>1, <3>1, SMT
    <2>3. /\ MagnitudeOf(fmt, c) = (E + q - 1) * 8388608 + c * Pow(23 - q)
          /\ MagnitudeOf(fmt, c + 1) = (E + q - 1) * 8388608 + (c + 1) * Pow(23 - q)
      <3>1. Pow(q) \in Nat /\ Pow(q + 1) \in Nat
        BY Powers, SMT
      <3> QED
        BY <2>1, <2>2, <3>1, BinadeWiden, SMT
    <2>4. Pow(23 - q) \in Nat /\ Pow(23 - q) > 1
      BY Powers, SMT
    <2>5. (c + 1) * Pow(23 - q) = c * Pow(23 - q) + Pow(23 - q) /\ c * Pow(23 - q) \in Nat
      BY <2>4, Z3
    <2> QED
      BY <1>1, <2>3, <2>4, <2>5, SMT
  <1>4. CASE c >= full
    <2>1. /\ MagnitudeOf(fmt, c) = (f.minExp - 1) * 8388608 + c * Pow(f.drop)
          /\ MagnitudeOf(fmt, c + 1) = (f.minExp - 1) * 8388608 + (c + 1) * Pow(f.drop)
      BY <1>1, <1>4, NormalWiden, SMT
    <2>2. (c + 1) * Pow(f.drop) = c * Pow(f.drop) + Pow(f.drop) /\ c * Pow(f.drop) \in Nat
      BY <1>1, Z3
    <2> QED
      BY <1>1, <2>1, <2>2, SMT
  <1> QED
    BY <1>1, <1>2, <1>3, <1>4, SMT

(* The midpoint to the next code lies between the two. *)
LEMMA MidpointBetween ==
  ASSUME NEW fmt \in FloatFormats, NEW c \in Nat, c < Formats[fmt].largest
  PROVE  /\ Midpoint(fmt, c) \in Nat
         /\ MagnitudeOf(fmt, c) <= Midpoint(fmt, c) /\ MagnitudeOf(fmt, c) < Midpoint(fmt, c)
         /\ Midpoint(fmt, c) < MagnitudeOf(fmt, c + 1)
  <1> DEFINE lo == MagnitudeOf(fmt, c)
             hi == MagnitudeOf(fmt, c + 1)
  <1>1. lo \in Nat /\ hi \in Nat /\ lo + 2 <= hi
    BY WidenGrows
  <1>2. c = 0 => lo = 0
    BY SMT DEF MagnitudeOf, Decode, Widen, FloatFormats
  <1>3. Midpoint(fmt, c) = IF c = 0 THEN Halved(hi) ELSE lo + (hi - lo) \div 2
    BY SMT DEF Midpoint
  <1> HIDE DEF lo, hi
  <1>4. Halved(hi) \in Nat /\ Halved(hi) < hi /\ Halved(hi) > 0
    BY <1>1, SMT DEF Halved
  <1> QED
    BY <1>1, <1>2, <1>3, <1>4, SMT DEF lo, hi

(* Between two codes of one binade the midpoint is half a gap from each. *)
LEMMA MidpointWithin ==
  ASSUME NEW fmt, NEW c \in Nat, c > 0, NEW lo \in Int, NEW half \in Nat,
         MagnitudeOf(fmt, c) = lo, MagnitudeOf(fmt, c + 1) = lo + 2 * half
  PROVE  Midpoint(fmt, c) = lo + half
  BY SMT DEF Midpoint

(* A code is the nearest if the magnitude rounds to it by the gap of its   *)
(* binade and lies on the right side of the midpoints beyond.              *)
LEMMA NearestByGap ==
  ASSUME NEW fmt, NEW a \in Nat, NEW c \in 0 .. LargestOf(fmt), NEW base \in Int,
         NEW gap \in Nat, NEW half \in Nat, gap = 2 * half, half > 0,
         Rounds(a - base, gap, c),
         c > 0 => a > Midpoint(fmt, c - 1) \/ Midpoint(fmt, c - 1) = base + c * gap - half,
         c < LargestOf(fmt) => a < Midpoint(fmt, c) \/ Midpoint(fmt, c) = base + c * gap + half
  PROVE  IsNearest(fmt, a, c)
  <1> DEFINE product == c * gap
  <1>1. gap * (2 * c + 1) = 2 * product + gap /\ gap * (2 * c - 1) = 2 * product - gap
    BY Z3
  <1>2. product \in Int
    OBVIOUS
  <1>3. /\ 2 * (a - base) <= 2 * product + gap /\ 2 * product - gap <= 2 * (a - base)
        /\ (2 * (a - base) = 2 * product + gap \/ 2 * (a - base) = 2 * product - gap) => c % 2 = 0
    BY <1>1 DEF Rounds
  <1> HIDE DEF product
  <1>4. /\ c > 0 => a > Midpoint(fmt, c - 1) \/ Midpoint(fmt, c - 1) = base + product - half
        /\ c < LargestOf(fmt) => a < Midpoint(fmt, c) \/ Midpoint(fmt, c) = base + product + half
    BY Zenon DEF product
  <1> QED
    BY <1>2, <1>3, <1>4, SMT DEF IsNearest

(* Rounding stays between the multiples of the gap around the number. *)
LEMMA RoundsBetween ==
  ASSUME NEW s \in Int, NEW gap \in Nat, gap > 0, NEW c \in Nat, Rounds(s, gap, c),
         NEW lo \in Nat, NEW hi \in Nat, lo * gap <= s, s <= hi * gap
  PROVE  lo <= c /\ c <= hi
  <1>1. 2 * s <= gap * (2 * c + 1) /\ gap * (2 * c - 1) <= 2 * s
    BY DEF Rounds
  <1>2. ASSUME c < lo PROVE FALSE
    <2>1. gap * (2 * c + 1) <= gap * (2 * lo - 1)
      BY <1>2, Z3
    <2>2. gap * (2 * lo - 1) = 2 * (lo * gap) - gap
      BY Z3
    <2> QED
      BY <1>1, <2>1, <2>2, Z3
  <1>3. ASSUME c > hi PROVE FALSE
    <2>1. gap * (2 * c - 1) >= gap * (2 * hi + 1)
      BY <1>3, Z3
    <2>2. gap * (2 * hi + 1) = 2 * (hi * gap) + gap
      BY Z3
    <2> QED
      BY <1>1, <2>1, <2>2, Z3
  <1> QED
    BY <1>2, <1>3

(***************************************************************************)
(* Magnitudes below the smallest normal number: the shift grows as the     *)
(* exponent falls, and what is kept of the significand is the code.        *)
(***************************************************************************)
LEMMA SubnormalNearest ==
  ASSUME NEW fmt \in FloatFormats, NEW a \in Nat,
         Formats[fmt].zeroBelow <= a, ExpOf(a) < Formats[fmt].minExp
  PROVE  IsNearest(fmt, a, Subnormal(Formats[fmt], a))
  <1> DEFINE f == Formats[fmt]
             E == Smallest(f)
             e == ExpOf(a)
             q == e - E
             sig == Significand(a)
             c == Subnormal(f, a)
             full == Pow(23 - f.drop)
  <1>1. /\ f.drop \in 13 .. 21 /\ f.minExp \in 113 .. 121 /\ f.largest \in Nat /\ LargestOf(fmt) = f.largest
        /\ full \in Nat /\ full > 0 /\ full < f.largest /\ E \in 92 .. 121 /\ E = f.minExp - 23 + f.drop
        /\ f.zeroBelow = (E - 1) * 8388608
    BY FormatFacts, SMT DEF Smallest
  <1>2. /\ e \in Nat /\ a >= e * 8388608 /\ a < (e + 1) * 8388608
        /\ sig \in Nat /\ sig = a - (e - 1) * 8388608
    BY SMT DEF ExpOf, Significand
  <1>3. /\ q \in -1 .. 22 - f.drop /\ f.drop + f.minExp - e = 23 - q /\ 23 - q \in Nat /\ e = E + q
    <2>1. (E - 1) * 8388608 <= a /\ e < f.minExp /\ a \in Int /\ f.drop \in Int /\ f.minExp \in Int /\ E \in Int
      BY <1>1, SMT
    <2> HIDE DEF E, e
    <2>2. E - 1 <= e
      BY <1>2, <2>1, SMT
    <2> QED
      BY <1>1, <1>2, <2>1, <2>2, SMT
  <1>4. c = RoundNearestEven(sig, 23 - q)
    BY <1>3, SMT DEF Subnormal
  <1> HIDE DEF c, sig, q, e, E
  <1>5. CASE q = -1
    <2>1. /\ Pow(24) = 16777216 /\ Pow(24 - 1) = 8388608
      BY SMT DEF Pow
    <2>2. Rounds(sig, 16777216, c)
      <3>1. c = RoundNearestEven(sig, 24)
        BY <1>4, <1>5, SMT
      <3>2. sig \in Nat
        BY <1>2
      <3> QED
        BY <2>1, <3>1, <3>2, RoundNearestEvenRounds, SMT
    <2>3. c \in {0, 1} /\ (c = 0 => sig = 8388608)
      BY <1>2, <2>2, SMT DEF Rounds
    <2>4. MagnitudeOf(fmt, 1) = E * 8388608
      <3>1. /\ 0 \in 0 .. 22 - f.drop /\ Pow(0) = 1 /\ Pow(0 + 1) = 2 /\ Pow(23 - 0) = 8388608
        BY <1>1, SMT DEF Pow
      <3>2. MagnitudeOf(fmt, 1) = (Smallest(f) + 0 - 1) * 8388608 + 1 * Pow(23 - 0)
        BY <3>1, BinadeWiden, SMT
      <3> QED
        BY <1>1, <3>1, <3>2, SMT DEF E
    <2>5. Midpoint(fmt, 0) = (E - 1) * 8388608
      BY <1>1, <2>4, SMT DEF Midpoint, Halved
    <2>6. Midpoint(fmt, 1) >= E * 8388608 /\ Midpoint(fmt, 1) \in Nat
      <3>1. 1 < f.largest
        BY <1>1, SMT
      <3> QED
        BY <2>4, <3>1, MidpointBetween, SMT
    <2>7. CASE c = 0
      <3>1. a = (E - 1) * 8388608
        BY <1>1, <1>2, <1>3, <1>5, <2>3, <2>7, SMT
      <3>2. IsNearest(fmt, a, 0)
        BY <1>1, <2>5, <3>1, SMT DEF IsNearest
      <3> QED
        BY <2>7, <3>2, SMT DEF c
    <2>8. CASE c = 1
      <3>1. sig # 8388608
        BY <2>2, <2>8, SMT DEF Rounds
      <3> QED
        <4>1. a > (E - 1) * 8388608 /\ a < E * 8388608
          BY <1>1, <1>2, <1>3, <1>5, <2>8, <3>1, SMT
        <4>2. IsNearest(fmt, a, 1)
          <5>1. 1 - 1 = 0
            BY SMT
          <5> QED
            BY <1>1, <2>5, <2>6, <4>1, <5>1, SMT DEF IsNearest
        <4> QED
          BY <2>8, <4>2, SMT DEF c
    <2> QED
      BY <2>3, <2>7, <2>8, SMT DEF c
  <1>6. CASE q >= 0
    <2> DEFINE gap == Pow(23 - q)
               half == Pow(22 - q)
               low == Pow(q)
               base == (e - 1) * 8388608
    <2>1. q \in 0 .. 22 - f.drop /\ q \in 0 .. 10 /\ q \in 0 .. 9
      BY <1>1, <1>3, <1>6, SMT
    <2>2. /\ low \in Nat /\ low > 0 /\ gap \in Nat /\ gap > 1 /\ half \in Nat
          /\ Pow(q + 1) = 2 * low /\ gap = 2 * half /\ low * gap = 8388608
      BY <2>1, Powers, SMT
    <2>3. Rounds(sig, gap, c) /\ c \in Nat
      <3>1. Pow(23 - q - 1) = half
        <4>1. 23 - q - 1 = 22 - q
          BY <1>3, SMT
        <4> QED
          BY <4>1
      <3>2. Rounds(sig, gap, RoundNearestEven(sig, 23 - q))
        <4>1. /\ sig \in Nat /\ 23 - q \in Nat /\ gap \in Nat /\ gap > 0
              /\ Pow(23 - q) = gap /\ 2 * Pow(23 - q - 1) = gap /\ Pow(23 - q - 1) \in Nat
          BY <1>2, <1>3, <2>2, <3>1, SMT
        <4> HIDE DEF gap
        <4> QED
          BY <4>1, RoundNearestEvenRounds, Zenon
      <3> QED
        BY <1>4, <3>2, Zenon DEF Rounds
    <2>4. low <= c /\ c <= 2 * low
      <3>1. (2 * low) * gap = 16777216
        BY <2>2, Z3
      <3>2. low * gap <= sig /\ sig <= (2 * low) * gap
        BY <1>2, <2>2, <3>1, SMT
      <3> HIDE DEF gap, low
      <3>3. /\ low \in Nat /\ 2 * low \in Nat /\ sig \in Int /\ gap \in Nat /\ gap > 0
        BY <1>2, <2>2, SMT
      <3> DEFINE hi == 2 * low
      <3>4. hi \in Nat /\ sig <= hi * gap
        BY <3>2, <3>3, SMT
      <3> HIDE DEF hi
      <3>5. low <= c /\ c <= hi
        BY <2>3, <3>2, <3>3, <3>4, RoundsBetween, Zenon
      <3> QED
        BY <3>5 DEF hi
    <2>5. 2 * low <= full /\ 2 * low <= f.largest
      <3>1. 23 - f.drop \in 0 .. 10 /\ q + 1 \in 0 .. 10 /\ q + 1 <= 23 - f.drop
        BY <1>1, <2>1, SMT
      <3>2. CASE q + 1 = 23 - f.drop
        BY <1>1, <2>2, <3>2, SMT
      <3>3. CASE q + 1 < 23 - f.drop
        <4>1. Pow(q + 1) < full
          BY <3>1, <3>3, PowersGrow, Zenon
        <4> QED
          BY <1>1, <2>2, <4>1, SMT
      <3> QED
        BY <3>1, <3>2, <3>3, SMT
    <2>6. \A k \in Nat : low <= k /\ k <= 2 * low => MagnitudeOf(fmt, k) = base + k * gap
      <3> TAKE k \in Nat
      <3> HAVE low <= k /\ k <= 2 * low
      <3>1. Pow(q) <= k /\ k <= Pow(q + 1)
        BY <2>2, SMT
      <3>2. MagnitudeOf(fmt, k) = (E + q - 1) * 8388608 + k * gap
        BY <2>1, <3>1, BinadeWiden, SMT DEF E
      <3>3. E + q - 1 = e - 1
        BY <1>1, <1>2, <1>3, SMT
      <3> QED
        BY <3>2, <3>3, SMT
    <2>7. c \in 0 .. LargestOf(fmt)
      BY <1>1, <2>2, <2>3, <2>4, <2>5, SMT
    <2>11. gap \in Nat /\ half \in Nat /\ gap = 2 * half
      BY <2>2, SMT
    <2>8. c > 0 => a > Midpoint(fmt, c - 1) \/ Midpoint(fmt, c - 1) = base + c * gap - half
      <3>1. CASE c = low
        <4>1. MagnitudeOf(fmt, c) = e * 8388608
          BY <1>2, <2>2, <2>3, <2>6, <3>1, SMT
        <4>2. Midpoint(fmt, c - 1) < MagnitudeOf(fmt, c) /\ Midpoint(fmt, c - 1) \in Nat
          <5>1. c - 1 \in Nat /\ c - 1 < f.largest /\ c - 1 + 1 = c
            BY <1>1, <2>2, <2>5, <3>1, SMT
          <5> QED
            BY <5>1, MidpointBetween, SMT
        <4> QED
          BY <1>2, <4>1, <4>2, SMT
      <3>2. CASE c > low
        <4>1. /\ MagnitudeOf(fmt, c - 1) = base + (c - 1) * gap
              /\ MagnitudeOf(fmt, c - 1 + 1) = base + (c - 1 + 1) * gap
              /\ c - 1 \in Nat /\ c - 1 > 0
          <5>1. /\ c - 1 \in Nat /\ c - 1 > 0 /\ low <= c - 1 /\ c - 1 <= 2 * low
                /\ c - 1 + 1 = c
            BY <2>2, <2>3, <2>4, <3>2, SMT
          <5> QED
            BY <2>3, <2>4, <2>6, <5>1, SMT
        <4>2. (c - 1) * gap = c * gap - 2 * half /\ c * gap \in Int /\ base \in Int
          <5>1. base \in Int /\ c * gap \in Int
            BY <1>2, <2>2, <2>3, SMT
          <5> QED
            BY <2>2, <2>3, <5>1, Z3
        <4> DEFINE product == c * gap
        <4> HIDE DEF base, gap, half
        <4>3. /\ MagnitudeOf(fmt, c - 1) = base + product - 2 * half
              /\ MagnitudeOf(fmt, c - 1 + 1) = base + product - 2 * half + 2 * half
              /\ base + product - 2 * half \in Int
          <5>1. (c - 1 + 1) * gap = product
            BY <2>3, SMT
          <5> HIDE DEF product
          <5>2. (c - 1) * gap = product - 2 * half /\ product \in Int
            BY <4>2 DEF product
          <5> QED
            BY <2>11, <4>1, <4>2, <5>1, <5>2, SMT
        <4> HIDE DEF product
        <4>4. Midpoint(fmt, c - 1) = base + product - 2 * half + half
          BY <2>11, <4>1, <4>3, MidpointWithin, SMT
        <4> QED
          BY <2>11, <4>2, <4>4, SMT DEF product
      <3> QED
        BY <2>2, <2>3, <2>4, <3>1, <3>2, SMT
    <2>9. c < LargestOf(fmt) => a < Midpoint(fmt, c) \/ Midpoint(fmt, c) = base + c * gap + half
      <3> HAVE c < LargestOf(fmt)
      <3>1. CASE c = 2 * low
        <4>1. MagnitudeOf(fmt, c) = (e + 1) * 8388608
          <5>1. (2 * low) * gap = 16777216
            BY <2>2, Z3
          <5> QED
            BY <1>2, <2>2, <2>3, <2>6, <3>1, <5>1, SMT
        <4>2. Midpoint(fmt, c) >= MagnitudeOf(fmt, c) /\ Midpoint(fmt, c) \in Nat
          BY <1>1, <2>3, MidpointBetween, SMT
        <4> QED
          BY <1>2, <4>1, <4>2, SMT
      <3>2. CASE c < 2 * low
        <4>1. /\ MagnitudeOf(fmt, c) = base + c * gap
              /\ MagnitudeOf(fmt, c + 1) = base + (c + 1) * gap /\ c > 0
          BY <2>2, <2>3, <2>4, <2>6, <3>2, SMT
        <4>2. (c + 1) * gap = c * gap + 2 * half /\ c * gap \in Int /\ base \in Int
          <5>1. base \in Int /\ c * gap \in Int
            BY <1>2, <2>2, <2>3, SMT
          <5> QED
            BY <2>2, <2>3, <5>1, Z3
        <4> HIDE DEF base, gap, half
        <4>3. MagnitudeOf(fmt, c + 1) = base + c * gap + 2 * half /\ base + c * gap \in Int
          BY <2>11, <4>1, <4>2, SMT
        <4> QED
          BY <2>3, <2>11, <4>1, <4>3, MidpointWithin, SMT
      <3> QED
        BY <2>2, <2>3, <2>4, <3>1, <3>2, SMT
    <2>10. Rounds(a - base, gap, c) /\ base \in Int /\ half > 0
      BY <1>2, <2>2, <2>3, SMT
    <2> HIDE DEF base, gap, half
    <2>12. IsNearest(fmt, a, c)
      BY <2>7, <2>8, <2>9, <2>10, <2>11, NearestByGap, Zenon
    <2> QED
      BY <2>12, SMT DEF c
  <1> QED
    BY <1>3, <1>5, <1>6, SMT

(* The largest code is right from half a gap below it on. *)
LEMMA LargestNearest ==
  ASSUME NEW fmt \in FloatFormats, NEW a \in Nat, a > Midpoint(fmt, Formats[fmt].largest - 1)
  PROVE  IsNearest(fmt, a, Formats[fmt].largest)
  <1>1. Formats[fmt].largest \in Nat /\ LargestOf(fmt) = Formats[fmt].largest
    BY FormatFacts, SMT
  <1> QED
    BY <1>1, SMT DEF IsNearest

(* Where that is. *)
LEMMA LargestMidpoint ==
  ASSUME NEW fmt \in FloatFormats
  PROVE  LET f == Formats[fmt]
         IN  Midpoint(fmt, f.largest - 1) =
               (f.minExp - 1) * 8388608 + f.largest * Pow(f.drop) - Pow(f.drop - 1)
  <1> DEFINE f == Formats[fmt]
             base == (f.minExp - 1) * 8388608
             gap == Pow(f.drop)
             half == Pow(f.drop - 1)
             k == f.largest - 1
  <1>1. /\ f.minExp \in 113 .. 121 /\ f.largest \in Nat /\ Pow(23 - f.drop) \in Nat
        /\ Pow(23 - f.drop) > 0 /\ Pow(23 - f.drop) < f.largest
        /\ gap \in Nat /\ half \in Nat /\ gap = 2 * half
    BY FormatFacts, SMT
  <1>2. k \in Nat /\ k > 0 /\ Pow(23 - f.drop) <= k /\ k + 1 = f.largest
    <2>1. CASE fmt = "FP16"  BY <2>1, FP16Facts, SMT DEF Pow
    <2>2. CASE fmt = "E4M3"  BY <2>2, E4M3Facts, SMT DEF Pow
    <2>3. CASE fmt = "E5M2"  BY <2>3, E5M2Facts, SMT DEF Pow
    <2> QED
      BY <2>1, <2>2, <2>3, Zenon DEF FloatFormats
  <1>3. /\ MagnitudeOf(fmt, k) = base + k * gap
        /\ MagnitudeOf(fmt, k + 1) = base + (k + 1) * gap
    BY <1>1, <1>2, NormalWiden, SMT
  <1>4. (k + 1) * gap = k * gap + 2 * half /\ k * gap \in Int /\ base \in Int
    <2>1. k * gap \in Int /\ base \in Int
      BY <1>1, <1>2, SMT
    <2> QED
      BY <1>1, <1>2, <2>1, Z3
  <1> HIDE DEF base, gap, half, k
  <1>5. MagnitudeOf(fmt, k + 1) = base + k * gap + 2 * half /\ base + k * gap \in Int
    <2> DEFINE product == k * gap
    <2>1. product \in Int /\ (k + 1) * gap = product + 2 * half /\ base \in Int
      BY <1>4
    <2>2. MagnitudeOf(fmt, k + 1) = base + (product + 2 * half)
      BY <1>3, <2>1
    <2> HIDE DEF product
    <2>3. MagnitudeOf(fmt, k + 1) = base + product + 2 * half /\ base + product \in Int
      BY <1>1, <2>1, <2>2, SMT
    <2> QED
      BY <2>3 DEF product
  <1>6. Midpoint(fmt, k) = base + k * gap + half
    BY <1>1, <1>2, <1>3, <1>5, MidpointWithin, SMT
  <1>7. f.largest * gap = k * gap + 2 * half
    BY <1>2, <1>4, SMT
  <1> QED
    BY <1>1, <1>4, <1>6, <1>7, SMT DEF base, gap, half, k

(* The largest code is nearest to a number that saturates. *)
LEMMA SaturatedNearest ==
  ASSUME NEW fmt \in FloatFormats, NEW a \in Nat, a >= Formats[fmt].saturateAt
  PROVE  IsNearest(fmt, a, Formats[fmt].largest)
  <1>1. a > Midpoint(fmt, Formats[fmt].largest - 1)
    <2> DEFINE f == Formats[fmt]
    <2>0. Midpoint(fmt, f.largest - 1) =
            (f.minExp - 1) * 8388608 + f.largest * Pow(f.drop) - Pow(f.drop - 1)
      BY LargestMidpoint, SMT
    <2>1. CASE fmt = "FP16"  BY <2>0, <2>1, FP16Facts, SMT DEF Pow
    <2>2. CASE fmt = "E4M3"  BY <2>0, <2>2, E4M3Facts, SMT DEF Pow
    <2>3. CASE fmt = "E5M2"  BY <2>0, <2>3, E5M2Facts, SMT DEF Pow
    <2> QED
      BY <2>1, <2>2, <2>3, SMT DEF FloatFormats
  <1> QED
    BY <1>1, LargestNearest, Zenon

(***************************************************************************)
(* Magnitudes in the normal range: the carry out of the mantissa lands in  *)
(* the exponent, and a carry past the largest code saturates.              *)
(***************************************************************************)
LEMMA NormalNearest ==
  ASSUME NEW fmt \in FloatFormats, NEW a \in Nat, ExpOf(a) >= Formats[fmt].minExp
  PROVE  LET f == Formats[fmt]
         IN  IsNearest(fmt, a, IF Normal(f, a) >= f.special THEN f.largest ELSE Normal(f, a))
  <1> DEFINE f == Formats[fmt]
             full == Pow(23 - f.drop)
             gap == Pow(f.drop)
             half == Pow(f.drop - 1)
             base == (f.minExp - 1) * 8388608
             c == Normal(f, a)
  <1>1. /\ f.drop \in 13 .. 21 /\ f.minExp \in 113 .. 121
        /\ f.largest \in Nat /\ f.special \in Nat /\ f.largest = f.special - 1 /\ LargestOf(fmt) = f.largest
        /\ full \in Nat /\ full > 0 /\ full < f.largest
        /\ gap \in Nat /\ half \in Nat /\ gap = 2 * half /\ half > 0 /\ full * gap = 8388608
    BY FormatFacts, SMT
  <1>2. base \in Int /\ a - base \in Nat /\ a - base >= 8388608 /\ a >= base + 8388608
    BY <1>1, SMT DEF ExpOf
  <1>3. Rounds(a - base, gap, c) /\ c \in Nat
    <2>1. c = RoundNearestEven(a - base, f.drop)
      BY SMT DEF Normal
    <2>2. f.drop \in Nat /\ gap > 0
      BY <1>1, SMT
    <2> HIDE DEF base, c
    <2>3. Rounds(a - base, gap, RoundNearestEven(a - base, f.drop))
      BY <1>1, <1>2, <2>2, RoundNearestEvenRounds, SMT
    <2> QED
      BY <2>1, <2>3, SMT DEF Rounds
  <1> DEFINE product == c * gap
  <1> HIDE DEF c, base, gap, half, full
  <1>4. product \in Int /\ 2 * (a - base) >= 2 * product - gap /\ 2 * (a - base) <= 2 * product + gap
    <2>1. gap * (2 * c - 1) = 2 * product - gap /\ gap * (2 * c + 1) = 2 * product + gap
      BY <1>1, <1>3, Z3
    <2>2. product \in Int
      BY <1>1, <1>3, SMT
    <2> QED
      BY <1>3, <2>1, <2>2, SMT DEF Rounds
  <1>5. c >= full
    <2> DEFINE s == a - base
      <2>1. full * gap <= s /\ s \in Int /\ gap > 0
      BY <1>1, <1>2, SMT
    <2>2. s <= s * gap /\ s \in Nat
      BY <1>1, <1>2, <2>1, Z3
    <2> HIDE DEF s
    <2>3. Rounds(s, gap, c)
      BY <1>3, Zenon DEF s
    <2>4. full \in Nat /\ gap \in Nat /\ c \in Nat
      BY <1>1, <1>3, SMT
    <2>5. full <= c
      BY <2>1, <2>2, <2>3, <2>4, RoundsBetween, Zenon
    <2> QED
      BY <1>1, <1>3, <2>5, SMT
  <1>6. CASE c >= f.special
    <2>1. product >= f.special * gap
      BY <1>1, <1>3, <1>6, Z3
    <2>2. f.special * gap = f.largest * gap + 2 * half /\ f.largest * gap \in Int
      <3>1. f.largest * gap \in Int /\ f.special = f.largest + 1
        BY <1>1, SMT
      <3> QED
        BY <1>1, <3>1, Z3
    <2>3. Midpoint(fmt, f.largest - 1) = base + f.largest * gap - half
      BY LargestMidpoint, SMT DEF base, gap, half
    <2>4. a > Midpoint(fmt, f.largest - 1)
      BY <1>1, <1>2, <1>4, <2>1, <2>2, <2>3, SMT
    <2> QED
      BY <1>6, <2>4, LargestNearest, SMT DEF c
  <1>7. CASE c < f.special
    <2>1. c \in 0 .. LargestOf(fmt) /\ c > 0
      BY <1>1, <1>3, <1>5, <1>7, SMT
    <2>2. \A k \in Nat : full <= k /\ k <= f.largest => MagnitudeOf(fmt, k) = base + k * gap
      BY NormalWiden, SMT DEF base, gap, full
    <2>3. (c - 1) * gap = product - 2 * half /\ (c + 1) * gap = product + 2 * half
      BY <1>1, <1>3, Z3
    <2>4. a > Midpoint(fmt, c - 1) \/ Midpoint(fmt, c - 1) = base + product - half
      <3>1. CASE c = full
        <4>1. MagnitudeOf(fmt, c) = base + 8388608
          BY <1>1, <1>3, <2>2, <3>1, SMT
        <4>2. Midpoint(fmt, c - 1) < MagnitudeOf(fmt, c) /\ Midpoint(fmt, c - 1) \in Nat
          <5>1. c - 1 \in Nat /\ c - 1 < f.largest /\ c - 1 + 1 = c
            BY <1>1, <2>1, SMT
          <5> QED
            BY <5>1, MidpointBetween, SMT
        <4> QED
          BY <1>2, <4>1, <4>2, SMT
      <3>2. CASE c > full
        <4>1. /\ c - 1 \in Nat /\ c - 1 > 0 /\ full <= c - 1 /\ c - 1 <= f.largest /\ c - 1 + 1 = c
              /\ c <= f.largest /\ full <= c
          BY <1>1, <1>3, <1>5, <2>1, <3>2, SMT
        <4>2. /\ MagnitudeOf(fmt, c - 1) = base + product - 2 * half
              /\ MagnitudeOf(fmt, c - 1 + 1) = base + product - 2 * half + 2 * half
              /\ base + product - 2 * half \in Int
          <5>1. MagnitudeOf(fmt, c - 1) = base + (c - 1) * gap
            BY <2>2, <4>1, SMT
          <5>2. MagnitudeOf(fmt, c) = base + product
            BY <1>3, <2>2, <4>1, SMT
          <5> HIDE DEF product
          <5> QED
            BY <1>1, <1>2, <1>4, <2>3, <4>1, <5>1, <5>2, SMT
        <4> HIDE DEF product
        <4>3. Midpoint(fmt, c - 1) = base + product - 2 * half + half
          BY <1>1, <4>1, <4>2, MidpointWithin, SMT
        <4> QED
          BY <1>1, <1>2, <1>4, <4>3, SMT
      <3> QED
        BY <1>1, <1>3, <1>5, <3>1, <3>2, SMT
    <2>5. c < LargestOf(fmt) => Midpoint(fmt, c) = base + product + half
      <3> HAVE c < LargestOf(fmt)
      <3>1. MagnitudeOf(fmt, c) = base + product
        BY <1>1, <1>3, <1>5, <2>1, <2>2, SMT
      <3>2. MagnitudeOf(fmt, c + 1) = base + product + 2 * half /\ base + product \in Int
        <4>1. MagnitudeOf(fmt, c + 1) = base + (c + 1) * gap
          BY <1>1, <1>3, <1>5, <2>1, <2>2, SMT
        <4> HIDE DEF product
        <4> QED
          BY <1>1, <1>2, <1>4, <2>3, <4>1, SMT
      <3> HIDE DEF product
      <3> QED
        BY <1>1, <1>3, <2>1, <3>1, <3>2, MidpointWithin, SMT
    <2>6. IsNearest(fmt, a, c)
      <3>1. gap \in Nat /\ half \in Nat /\ gap = 2 * half /\ half > 0 /\ base \in Int
        BY <1>1, <1>2, SMT
      <3>2. Rounds(a - base, gap, c)
        BY <1>3, Zenon
      <3> QED
        BY <2>1, <2>4, <2>5, <3>1, <3>2, NearestByGap, Zenon
    <2> QED
      BY <1>1, <1>3, <1>7, <2>6, SMT DEF c
  <1> QED
    BY <1>1, <1>3, <1>6, <1>7, SMT

(* Magnitudes at most half the smallest code. *)
LEMMA ZeroNearest ==
  ASSUME NEW fmt \in FloatFormats, NEW a \in Nat, a < Formats[fmt].zeroBelow
  PROVE  IsNearest(fmt, a, 0)
  <1> DEFINE f == Formats[fmt]
  <1>1. /\ f.drop \in 13 .. 21 /\ f.minExp \in 113 .. 121 /\ f.largest \in Nat /\ LargestOf(fmt) = f.largest
        /\ f.zeroBelow = (f.minExp - 24 + f.drop) * 8388608
    BY FormatFacts, SMT
  <1>2. /\ 0 \in 0 .. 22 - f.drop /\ Pow(0) = 1 /\ Pow(0 + 1) = 2 /\ Pow(23 - 0) = 8388608
    BY <1>1, SMT DEF Pow
  <1>3. MagnitudeOf(fmt, 1) = (Smallest(f) + 0 - 1) * 8388608 + 1 * Pow(23 - 0)
    BY <1>2, BinadeWiden, SMT
  <1>4. MagnitudeOf(fmt, 1) = (f.minExp - 23 + f.drop) * 8388608
    BY <1>1, <1>2, <1>3, SMT DEF Smallest
  <1>5. Midpoint(fmt, 0) = f.zeroBelow
    BY <1>1, <1>4, SMT DEF Midpoint, Halved
  <1> QED
    BY <1>1, <1>5, SMT DEF IsNearest

(* The bit-by-bit conversion to FP16, E4M3 and E5M2 finds the nearest      *)
(* code, but for the misrounded numbers.                                   *)
LEMMA NarrowNearest ==
  ASSUME NEW fmt \in FloatFormats, NEW a \in Nat
  PROVE  IsNearest(fmt, a, Narrow(Formats[fmt], a)) \/ Misrounded(fmt, a)
  <1> DEFINE f == Formats[fmt]
  <1>1. CASE a < f.zeroBelow /\ a >= f.tinyFrom
    <2>1. Misrounded(fmt, a)
      <3>1. CASE fmt = "FP16"
        BY <3>1, <1>1, SMT DEF Misrounded
      <3>2. CASE fmt = "E4M3"
        BY <3>2, <1>1, E4M3Facts, SMT
      <3>3. CASE fmt = "E5M2"
        BY <3>3, <1>1, E5M2Facts, SMT
      <3> QED  BY <3>1, <3>2, <3>3, Zenon DEF FloatFormats
    <2> QED  BY <2>1, Zenon
  <1>2. CASE a < f.zeroBelow /\ ~(a >= f.tinyFrom)
    <2>1. Narrow(f, a) = 0
      BY <1>2, Zenon DEF Narrow
    <2>2. IsNearest(fmt, a, 0)
      BY <1>2, ZeroNearest
    <2> QED  BY <2>1, <2>2, Zenon
  <1>3. CASE ~(a < f.zeroBelow) /\ a >= f.saturateAt
    <2>1. Narrow(f, a) = f.largest
      BY <1>3, Zenon DEF Narrow
    <2>2. IsNearest(fmt, a, f.largest)
      BY <1>3, SaturatedNearest
    <2> QED  BY <2>1, <2>2, Zenon
  <1>4. CASE ~(a < f.zeroBelow) /\ ~(a >= f.saturateAt) /\ ExpOf(a) < f.minExp
    <2>1. Narrow(f, a) = Subnormal(f, a)
      BY <1>4, Zenon DEF Narrow
    <2>2. f.zeroBelow <= a
      BY <1>4, FormatFacts, SMT
    <2>3. IsNearest(fmt, a, Subnormal(f, a))
      BY <1>4, <2>2, SubnormalNearest
    <2> QED  BY <2>1, <2>3, Zenon
  <1>5. CASE ~(a < f.zeroBelow) /\ ~(a >= f.saturateAt) /\ ~(ExpOf(a) < f.minExp)
    <2>1. Narrow(f, a) = IF Normal(f, a) >= f.special THEN f.largest ELSE Normal(f, a)
      BY <1>5, Zenon DEF Narrow
    <2>2. ExpOf(a) >= f.minExp
      BY <1>5, FormatFacts, SMT DEF ExpOf
    <2>3. IsNearest(fmt, a, IF Normal(f, a) >= f.special THEN f.largest ELSE Normal(f, a))
      BY <2>2, NormalNearest
    <2> QED  BY <2>1, <2>3, Zenon
  <1> QED  BY <1>1, <1>2, <1>3, <1>4, <1>5, Zenon

-----------------------------------------------------------------------------
(* Upper halves, NaN and infinity, and the lanes. *)

(* BF16 is the upper half of an FP32 number: code c is c * 65536. *)
LEMMA BF16Midpoint ==
  ASSUME NEW c \in Nat
  PROVE  Midpoint("BF16", c) = c * 65536 + 32768
  <1>1. MagnitudeOf("BF16", c) = c * 65536 /\ MagnitudeOf("BF16", c + 1) = (c + 1) * 65536
    BY SMT DEF MagnitudeOf, Decode
  <1> QED
    BY <1>1, SMT DEF Midpoint, Halved

(* The conversion to BF16 finds the nearest code. *)
LEMMA BF16Nearest ==
  ASSUME NEW a \in Nat
  PROVE  IsNearest("BF16", a, NarrowBF16(a))
  <1> DEFINE rounded == RoundNearestEven(a, 16)
  <1>1. LargestOf("BF16") = 32639
    BY SMT DEF LargestOf
  <1>2. /\ rounded \in Nat
        /\ a <= rounded * 65536 + 32768 /\ (a = rounded * 65536 + 32768 => rounded % 2 = 0)
        /\ a >= rounded * 65536 - 32768 /\ (a = rounded * 65536 - 32768 => rounded % 2 = 0)
    BY SMT DEF RoundNearestEven
  <1>3. NarrowBF16(a) = IF rounded >= 32640 THEN 32639 ELSE rounded
    BY SMT DEF NarrowBF16
  <1> HIDE DEF rounded
  <1>4. CASE rounded >= 32640
    <2>1. Midpoint("BF16", 32638) = 32638 * 65536 + 32768
      BY BF16Midpoint, SMT
    <2> QED
      BY <1>1, <1>2, <1>3, <1>4, <2>1, SMT DEF IsNearest
  <1>5. CASE rounded < 32640
    <2>1. Midpoint("BF16", rounded) = rounded * 65536 + 32768
      BY <1>2, BF16Midpoint, SMT
    <2>2. rounded > 0 => Midpoint("BF16", rounded - 1) = (rounded - 1) * 65536 + 32768
      <3> HAVE rounded > 0
      <3>1. rounded - 1 \in Nat
        BY <1>2, SMT
      <3> QED
        BY <3>1, BF16Midpoint, SMT
    <2> QED
      BY <1>1, <1>2, <1>3, <1>5, <2>1, <2>2, SMT DEF IsNearest
  <1> QED
    BY <1>2, <1>4, <1>5, SMT

(* What the two NaN codes and the code of infinity read as. *)
LEMMA SpecialCodes ==
  /\ MagnitudeOf("BF16", 32704) > Inf32 /\ MagnitudeOf("BF16", 32640) = Inf32
  /\ MagnitudeOf("FP16", 32256) > Inf32 /\ MagnitudeOf("FP16", 31744) = Inf32
  /\ MagnitudeOf("E5M2", 126) > Inf32 /\ MagnitudeOf("E5M2", 124) = Inf32
  /\ MagnitudeOf("E4M3", 127) > Inf32
  <1>1. MagnitudeOf("BF16", 32704) > Inf32 /\ MagnitudeOf("BF16", 32640) = Inf32
    BY SMT DEF MagnitudeOf, Decode, Inf32
  <1>2. MagnitudeOf("FP16", 32256) > Inf32 /\ MagnitudeOf("FP16", 31744) = Inf32
    BY FP16Facts, SMT DEF MagnitudeOf, Decode, Widen, Inf32
  <1>3. MagnitudeOf("E5M2", 126) > Inf32 /\ MagnitudeOf("E5M2", 124) = Inf32
    BY E5M2Facts, SMT DEF MagnitudeOf, Decode, Widen, Inf32
  <1>4. MagnitudeOf("E4M3", 127) > Inf32
    BY E4M3Facts, SMT DEF MagnitudeOf, Decode, Widen, Inf32, Quiet32
  <1> QED
    BY <1>1, <1>2, <1>3, <1>4, SMT

-----------------------------------------------------------------------------
(* The block formats: rounding. *)

LEMMA QuotientAndRest ==
  ASSUME NEW p \in Int, NEW q \in Nat, q > 0
  PROVE  /\ p \div q \in Int /\ p % q \in 0 .. q - 1
         /\ p = (p \div q) * q + (p % q)
  <1>1. p \div q \in Int /\ p % q \in 0 .. q - 1
    BY SMT
  <1>2. p % q = p - (p \div q) * q
    BY Z3
  <1>3. (p \div q) * q \in Int
    BY <1>1, Z3
  <1> QED
    BY <1>1, <1>2, <1>3, SMT

(* Rounding a quotient gives an integer half a unit away at the most. *)
LEMMA HalfEvenIs ==
  ASSUME NEW p \in Int, NEW q \in Nat, q > 0
  PROVE  /\ HalfEven(p, q) \in Int
         /\ 2 * (HalfEven(p, q) * q) <= 2 * p + q /\ 2 * p - q <= 2 * (HalfEven(p, q) * q)
  <1> DEFINE w == p \div q
             r == p % q
  <1>1. w \in Int /\ r \in 0 .. q - 1 /\ p = w * q + r
    BY QuotientAndRest
  <1>2. HalfEven(p, q) = IF 2 * r > q \/ (2 * r = q /\ w % 2 = 1) THEN w + 1 ELSE w
    BY Zenon DEF HalfEven
  <1> HIDE DEF w, r
  <1> DEFINE wq == w * q
  <1>3. (w + 1) * q = wq + q /\ wq \in Int
    BY <1>1, Z3
  <1> HIDE DEF wq
  <1>4. CASE 2 * r > q \/ (2 * r = q /\ w % 2 = 1)
    BY <1>1, <1>2, <1>3, <1>4, SMT DEF wq
  <1>5. CASE ~(2 * r > q \/ (2 * r = q /\ w % 2 = 1))
    BY <1>1, <1>2, <1>3, <1>5, SMT DEF wq
  <1> QED
    BY <1>4, <1>5, Zenon

(* HalfUp is within a half of the quotient. *)
LEMMA HalfUpIs ==
  ASSUME NEW p \in Int, NEW q \in Nat, q > 0
  PROVE  /\ HalfUp(p, q) \in Int
         /\ 2 * (HalfUp(p, q) * q) <= 2 * p + q /\ 2 * p - q <= 2 * (HalfUp(p, q) * q)
  <1> DEFINE w == p \div q
             r == p % q
  <1>1. w \in Int /\ r \in 0 .. q - 1 /\ p = w * q + r
    BY QuotientAndRest
  <1>2. HalfUp(p, q) = w + (IF 2 * r >= q THEN 1 ELSE 0)
    BY Zenon DEF HalfUp
  <1> HIDE DEF w, r
  <1> DEFINE wq == w * q
  <1>3. (w + 1) * q = wq + q /\ wq \in Int /\ w + 0 = w
    BY <1>1, Z3
  <1> HIDE DEF wq
  <1>4. CASE 2 * r >= q
    BY <1>1, <1>2, <1>3, <1>4, SMT DEF wq
  <1>5. CASE ~(2 * r >= q)
    BY <1>1, <1>2, <1>3, <1>5, SMT DEF wq
  <1> QED
    BY <1>4, <1>5, Zenon

(* A whole quotient is not changed. *)
LEMMA WholeQuotient ==
  ASSUME NEW k \in Int, NEW q \in Nat, q > 0
  PROVE  HalfEven(k * q, q) = k /\ HalfUp(k * q, q) = k
  <1>1. (k * q) \div q = k /\ (k * q) % q = 0
    BY Z3
  <1>2. k * q \in Int
    BY Z3
  <1> QED
    BY <1>1, SMT DEF HalfEven, HalfUp

(* The magnitude of a number. *)
LEMMA AbsIs ==
  ASSUME NEW n \in Int
  PROVE  Abs(n) \in Nat /\ (n >= 0 => Abs(n) = n) /\ (n < 0 => Abs(n) = -n)
         /\ Abs(-n) = Abs(n) /\ (n # 0 => Abs(n) > 0)
  BY SMT DEF Abs

(* Both ways of rounding a signed quotient give an integer. *)
LEMMA nearestIntIs ==
  ASSUME NEW p \in Int, NEW q \in Int, q # 0
  PROVE  nearestInt(p, q) \in Int /\ Signed(HalfEven, p, q) \in Int
  <1>1. Abs(p) \in Nat /\ Abs(q) \in Nat /\ Abs(q) > 0
    BY AbsIs
  <1>2. HalfUp(Abs(p), Abs(q)) \in Int /\ HalfEven(Abs(p), Abs(q)) \in Int
    BY <1>1, HalfUpIs, HalfEvenIs, SMT
  <1> QED
    BY <1>2, SMT DEF nearestInt, Signed

(* The smallest and the largest member of a set of small numbers. *)
LEMMA SmallestOfInterval ==
  ASSUME NEW n \in Nat, NEW S \in SUBSET (0 .. n), S # {}
  PROVE  /\ Min(S) \in S /\ Min(S) \in 0 .. n /\ \A k \in S : Min(S) <= k
         /\ Max(S) \in S /\ Max(S) \in 0 .. n /\ \A k \in S : k <= Max(S)
  <1>1. IsFiniteSet(0 .. n)
    BY FS_Interval, SMT
  <1>2. IsFiniteSet(S)
    BY <1>1, FS_Subset, Zenon
  <1>3. S \in SUBSET Int
    BY SMT
  <1>4. Min(S) \in S /\ (\A k \in S : Min(S) <= k) /\ Max(S) \in S /\ \A k \in S : k <= Max(S)
    BY <1>2, <1>3, MinIs, MaxIs, Zenon
  <1> QED
    BY <1>4, Zenon

(* The exponent a number is rounded at. *)
Exp(p, q, bits) == Min({k \in 0 .. Digits - bits : p < q * 2^(bits + k)} \cup {Digits - bits})

(* The exponent a quotient is rounded with is the least that leaves it     *)
(* enough bits, or the last.                                               *)
LEMMA ExpIs ==
  ASSUME NEW p, NEW q, NEW bits \in 0 .. 18
  PROVE  LET last == 18 - bits
         IN  /\ Exp(p, q, bits) \in 0 .. last
             /\ RoundSignificant(p, q, bits)
                  = HalfEven(p, q * Pow(Exp(p, q, bits))) * Pow(Exp(p, q, bits))
             /\ \A k \in 0 .. last : p < q * 2^(bits + k) => Exp(p, q, bits) <= k
             /\ \/ Exp(p, q, bits) = last
                \/ p < q * 2^(bits + Exp(p, q, bits))
  <1> DEFINE last == 18 - bits
             S == {k \in 0 .. last : p < q * 2^(bits + k)} \cup {last}
  <1>0. last \in Nat /\ last \in 0 .. last
    BY SMT
  <1>7. Exp(p, q, bits) = Min(S)
    BY Zenon DEF Exp, S, Digits
  <1>6. RoundSignificant(p, q, bits) = HalfEven(p, q * 2^Min(S)) * 2^Min(S)
    BY Zenon DEF S, RoundSignificant, Digits
  <1> HIDE DEF last
  <1>1. S \in SUBSET (0 .. last) /\ S # {}
    BY <1>0, Zenon
  <1> HIDE DEF S
  <1>2. Min(S) \in S /\ Min(S) \in 0 .. last /\ \A k \in S : Min(S) <= k
    BY <1>0, <1>1, SmallestOfInterval, Zenon
  <1>4. Min(S) = last \/ p < q * 2^(bits + Min(S))
    BY <1>2, Zenon DEF S
  <1>5. \A k \in 0 .. last : p < q * 2^(bits + k) => k \in S
    BY Zenon DEF S
  <1> QED
    BY <1>2, <1>4, <1>5, <1>6, <1>7, Zenon DEF Pow, last

(* The same for the eleven bits of FP16.                                   *)
LEMMA HalfExpIs ==
  ASSUME NEW p, NEW q
  PROVE  /\ Exp(p, q, 11) \in 0 .. 7
         /\ RoundSignificant(p, q, 11)
              = HalfEven(p, q * Pow(Exp(p, q, 11))) * Pow(Exp(p, q, 11))
         /\ \A k \in 0 .. 7 : p < q * 2^(11 + k) => Exp(p, q, 11) <= k
         /\ \/ Exp(p, q, 11) = 7
            \/ p < q * 2^(11 + Exp(p, q, 11))
  <1> DEFINE bits == 11
  <1>1. bits \in 0 .. 18 /\ 18 - bits = 7
    BY SMT
  <1> HIDE DEF bits
  <1>2. /\ Exp(p, q, bits) \in 0 .. 7
        /\ RoundSignificant(p, q, bits)
             = HalfEven(p, q * Pow(Exp(p, q, bits))) * Pow(Exp(p, q, bits))
        /\ \A k \in 0 .. 7 : p < q * 2^(bits + k) => Exp(p, q, bits) <= k
        /\ \/ Exp(p, q, bits) = 7
           \/ p < q * 2^(bits + Exp(p, q, bits))
    BY <1>1, ExpIs, Zenon
  <1> QED
    BY <1>2, Zenon DEF bits

(* The powers of two that are gaps are positive.                           *)
LEMMA GapsPositive ==
  ASSUME NEW e \in 0 .. 18
  PROVE  Pow(e) \in Nat /\ Pow(e) > 0
  <1>2. CASE e \in 0 .. 10
    BY <1>2, Powers
  <1>3. CASE e = 11  BY <1>3, SMT DEF Pow
  <1>4. CASE e = 12  BY <1>4, SMT DEF Pow
  <1>5. CASE e = 13  BY <1>5, SMT DEF Pow
  <1>6. CASE e = 14  BY <1>6, SMT DEF Pow
  <1>7. CASE e = 15  BY <1>7, SMT DEF Pow
  <1>8. CASE e = 16  BY <1>8, SMT DEF Pow
  <1>9. CASE e = 17  BY <1>9, SMT DEF Pow
  <1>10. CASE e = 18  BY <1>10, SMT DEF Pow
  <1>11. e \in 0 .. 10 \/ e = 11 \/ e = 12 \/ e = 13 \/ e = 14 \/ e = 15 \/ e = 16 \/ e = 17 \/ e = 18
    BY SMT
  <1> QED
    BY <1>2, <1>3, <1>4, <1>5, <1>6, <1>7, <1>8, <1>9, <1>10, <1>11

(* A quotient rounded to a few significant bits is a natural number. *)
LEMMA RoundSignificantIs ==
  ASSUME NEW p \in Nat, NEW q \in Nat, q > 0, NEW bits \in 0 .. 18
  PROVE  RoundSignificant(p, q, bits) \in Nat
  <1> DEFINE e == Exp(p, q, bits)
             r == HalfEven(p, q * Pow(e))
  <1>1. e \in 0 .. 18 - bits /\ RoundSignificant(p, q, bits) = r * Pow(e)
    BY ExpIs, Zenon
  <1>2. Pow(e) \in Nat /\ Pow(e) > 0
    <2>1. e \in 0 .. 18
      BY <1>1, SMT
    <2> QED
      BY <2>1, GapsPositive, Zenon
  <1> HIDE DEF e
  <1> DEFINE unit == q * Pow(e)
  <1>3. unit \in Nat /\ unit > 0
    BY <1>2, Z3
  <1> HIDE DEF unit
  <1>4. /\ HalfEven(p, unit) \in Int
        /\ 2 * p - unit <= 2 * (HalfEven(p, unit) * unit)
    BY <1>3, HalfEvenIs, SMT
  <1>5. HalfEven(p, unit) \in Nat
    <2> DEFINE k == HalfEven(p, unit)
    <2>1. k \in Int /\ 2 * p - unit <= 2 * (k * unit)
      BY <1>4, Zenon
    <2> HIDE DEF k
    <2>2. ASSUME k < 0 PROVE FALSE
      <3>1. k * unit <= -unit
        BY <1>3, <2>1, <2>2, Z3
      <3>2. k * unit \in Int
        BY <1>3, <2>1, Z3
      <3> QED
        BY <1>3, <2>1, <3>1, <3>2, SMT
    <2> QED
      BY <2>1, <2>2, SMT DEF k
  <1>6. r \in Nat
    BY <1>5, Zenon DEF unit
  <1> HIDE DEF r
  <1>7. r * Pow(e) \in Nat
    BY <1>2, <1>6, Z3
  <1> QED
    BY <1>1, <1>7, Zenon DEF e, r

(* So is one of eleven bits. *)
LEMMA ElevenBitsNatural ==
  ASSUME NEW p \in Nat, NEW q \in Nat, q > 0
  PROVE  RoundSignificant(p, q, 11) \in Nat
  <1>1. 11 \in 0 .. 18
    BY SMT
  <1> QED
    BY <1>1, RoundSignificantIs, Zenon

(* The scale of an NVFP4 block.                                            *)
LEMMA FourBitsNatural ==
  ASSUME NEW p \in Nat, NEW q \in Nat, q > 0
  PROVE  RoundSignificant(p, q, 4) \in Nat
  <1>1. 4 \in 0 .. 18
    BY SMT
  <1> QED
    BY <1>1, RoundSignificantIs, Zenon

(* The smaller and the larger of two numbers. *)
LEMMA OfTwo ==
  ASSUME NEW a \in Int, NEW b \in Int
  PROVE  /\ Min({a, b}) = IF a <= b THEN a ELSE b
         /\ Max({a, b}) = IF a <= b THEN b ELSE a
  <1> DEFINE S == {a, b}
             lo == Min(S)
             hi == Max(S)
  <1>1. IsFiniteSet(S)
    <2>1. IsFiniteSet({a})
      BY FS_Singleton, Zenon
    <2>2. IsFiniteSet({a} \cup {b})
      BY <2>1, FS_AddElement, Zenon
    <2>3. S = {a} \cup {b}
      BY Zenon
    <2> QED
      BY <2>2, <2>3, Zenon
  <1>2. S \in SUBSET Int /\ S # {} /\ a \in S /\ b \in S
    BY Zenon
  <1>3. lo \in S /\ lo <= a /\ lo <= b /\ hi \in S /\ a <= hi /\ b <= hi
    <2> HIDE DEF S
    <2> QED
      BY <1>1, <1>2, MinIs, MaxIs, Zenon
  <1>4. (lo = a \/ lo = b) /\ (hi = a \/ hi = b)
    <2> HIDE DEF lo, hi
    <2> QED
      BY <1>3, Zenon
  <1> HIDE DEF lo, hi
  <1>5. lo = (IF a <= b THEN a ELSE b) /\ hi = (IF a <= b THEN b ELSE a)
    BY <1>3, <1>4, SMT
  <1> QED
    BY <1>5, Zenon DEF lo, hi

(* The magnitude of an FP16 number. *)
HalfOf(a, b) == IF 4 * a < b THEN 0
                ELSE IF 2 * a < b THEN 1
                ELSE Min({RoundSignificant(a, b, 11), HalfMax})

(* fp32ToFP16Safe gives a finite number, and no larger one than FP16 has. *)
LEMMA HalfIs ==
  ASSUME NEW p \in Int, NEW q \in Int, q # 0
  PROVE  /\ Half(p, q) \in Int /\ HalfOf(Abs(p), Abs(q)) \in Nat
         /\ Half(p, q) = IF (p < 0) = (q < 0) THEN HalfOf(Abs(p), Abs(q)) ELSE -HalfOf(Abs(p), Abs(q))
         /\ HalfOf(Abs(p), Abs(q)) <= HalfMax \/ HalfOf(Abs(p), Abs(q)) = 1
  <1>1. Abs(p) \in Nat /\ Abs(q) \in Nat /\ Abs(q) > 0
    BY AbsIs
  <1> DEFINE r == HalfOf(Abs(p), Abs(q))
             s == RoundSignificant(Abs(p), Abs(q), 11)
  <1>2. s \in Nat /\ HalfMax \in Nat
    BY <1>1, ElevenBitsNatural, NumbersAssumption, Zenon
  <1>3. Min({s, HalfMax}) = IF s <= HalfMax THEN s ELSE HalfMax
    <2> HIDE DEF s
    <2>1. s \in Int /\ HalfMax \in Int
      BY <1>2, SMT
    <2> QED
      BY <2>1, OfTwo, Zenon
  <1>4. r = IF 4 * Abs(p) < Abs(q) THEN 0 ELSE IF 2 * Abs(p) < Abs(q) THEN 1 ELSE Min({s, HalfMax})
    BY Zenon DEF HalfOf
  <1>5. Half(p, q) = IF (p < 0) = (q < 0) THEN r ELSE -r
    BY Zenon DEF Half, Signed, HalfOf
  <1> HIDE DEF r, s
  <1>6. r \in Nat /\ (r <= HalfMax \/ r = 1)
    BY <1>1, <1>2, <1>3, <1>4, SMT
  <1>7. Half(p, q) \in Int
    BY <1>5, <1>6, SMT
  <1> QED
    BY <1>5, <1>6, <1>7, Zenon DEF r

(* sanitiseFinite leaves a finite number. *)
LEMMA SaneIs ==
  ASSUME NEW v \in Number
  PROVE  Sane(v) \in Int /\ Abs(Sane(v)) \in Nat
  <1>1. Sane(v) \in Int
    BY SMT DEF Sane, Number
  <1> QED
    BY <1>1, AbsIs, Zenon

(* What a clamp returns. *)
LEMMA ClampIs ==
  ASSUME NEW n \in Int, NEW lo \in Int, NEW hi \in Int, lo <= hi
  PROVE  /\ Clamp(n, lo, hi) \in lo .. hi /\ Clamp(n, lo, hi) \in Int
         /\ lo <= n /\ n <= hi => Clamp(n, lo, hi) = n
         /\ n <= lo => Clamp(n, lo, hi) = lo
         /\ n >= hi => Clamp(n, lo, hi) = hi
  BY SMT DEF Clamp

(* What the encoders measure on a sequence of numbers. *)
LEMMA Measures ==
  ASSUME NEW x \in Seq(Number), x # <<>>
  PROVE  /\ AbsMax(x) \in Nat /\ \E i \in DOMAIN x : AbsMax(x) = Abs(Sane(x[i]))
         /\ MaxOf(x) \in Int /\ \E i \in DOMAIN x : MaxOf(x) = Sane(x[i])
         /\ MinOf(x) \in Int /\ \E i \in DOMAIN x : MinOf(x) = Sane(x[i])
         /\ \A i \in DOMAIN x : /\ Sane(x[i]) \in Int /\ Abs(Sane(x[i])) \in Nat
                                /\ Abs(Sane(x[i])) <= AbsMax(x)
                                /\ MinOf(x) <= Sane(x[i]) /\ Sane(x[i]) <= MaxOf(x)
  <1> DEFINE I == DOMAIN x
             f == [i \in I |-> Abs(Sane(x[i]))]
             g == [i \in I |-> Sane(x[i])]
             F == {f[i] : i \in I}
             G == {g[i] : i \in I}
  <1>1. I = 1 .. Len(x) /\ Len(x) \in Nat /\ I # {} /\ \A i \in I : x[i] \in Number
    BY SMT
  <1>2. IsFiniteSet(I)
    BY <1>1, FS_Interval, SMT
  <1>3. \A i \in I : Sane(x[i]) \in Int /\ Abs(Sane(x[i])) \in Nat
    BY <1>1, SaneIs, Zenon
  <1> HIDE DEF I
  <1>4. IsFiniteSet(F) /\ IsFiniteSet(G)
    <2>1. f = [i \in I |-> f[i]] /\ g = [i \in I |-> g[i]]
      BY Zenon
    <2> HIDE DEF f, g
    <2> QED
      BY <1>2, <2>1, ImageFinite, Z3
  <1>5. F \in SUBSET Int /\ F # {} /\ G \in SUBSET Int /\ G # {} /\ F \in SUBSET Nat
    <2>1. \A i \in I : f[i] \in Nat /\ g[i] \in Int
      BY <1>3, Zenon
    <2> HIDE DEF f, g
    <2>2. \A i \in I : f[i] \in Int
      BY <2>1, SMT
    <2> QED
      BY <1>1, <2>1, <2>2, Zenon
  <1>6. /\ \A i \in I : f[i] \in F /\ g[i] \in G
        /\ \A y \in F : \E i \in I : y = f[i]
        /\ \A y \in G : \E i \in I : y = g[i]
    BY Zenon
  <1>7. AbsMax(x) = Max(F) /\ MaxOf(x) = Max(G) /\ MinOf(x) = Min(G)
    <2>1. F = {Abs(Sane(x[i])) : i \in I} /\ G = {Sane(x[i]) : i \in I}
      BY Zenon
    <2> HIDE DEF F, G
    <2> QED
      BY <2>1, Zenon DEF AbsMax, MaxOf, MinOf, I
  <1> HIDE DEF F, G
  <1>8. /\ Max(F) \in F /\ \A m \in F : m <= Max(F)
        /\ Max(G) \in G /\ \A m \in G : m <= Max(G)
        /\ Min(G) \in G /\ \A m \in G : Min(G) <= m
    BY <1>4, <1>5, MaxIs, MinIs, Zenon
  <1>9. /\ \E i \in I : Max(F) = f[i]
        /\ \E i \in I : Max(G) = g[i]
        /\ \E i \in I : Min(G) = g[i]
        /\ \A i \in I : f[i] <= Max(F) /\ g[i] <= Max(G) /\ Min(G) <= g[i]
    BY <1>6, <1>8, Zenon
  <1>10. Max(F) \in Nat /\ Max(G) \in Int /\ Min(G) \in Int
    BY <1>5, <1>8, Zenon
  <1>11. \A i \in I : f[i] = Abs(Sane(x[i])) /\ g[i] = Sane(x[i])
    BY Zenon
  <1> HIDE DEF f, g
  <1>12. /\ \E i \in I : Max(F) = Abs(Sane(x[i]))
         /\ \E i \in I : Max(G) = Sane(x[i])
         /\ \E i \in I : Min(G) = Sane(x[i])
         /\ \A i \in I : /\ Abs(Sane(x[i])) <= Max(F) /\ Sane(x[i]) <= Max(G)
                         /\ Min(G) <= Sane(x[i])
    BY <1>9, <1>11, Zenon
  <1> QED
    BY <1>3, <1>7, <1>10, <1>12, Zenon DEF I

-----------------------------------------------------------------------------
(* The block formats: what a block of numbers becomes. *)

SubBlocks == Seq(Number) \ {<<>>}
Blocks == Seq(SubBlocks) \ {<<>>}

(* The indices of a sequence that is not empty. *)
LEMMA IndexSet ==
  ASSUME NEW n \in Nat, n > 0
  PROVE  IsFiniteSet(1 .. n) /\ 1 .. n # {} /\ 1 \in 1 .. n
  <1>1. IsFiniteSet(1 .. n)
    BY FS_Interval, SMT
  <1> QED
    BY <1>1, SMT

(* The parts of a block. *)
LEMMA BlockParts ==
  ASSUME NEW x \in Blocks
  PROVE  /\ DOMAIN x = 1 .. Len(x) /\ Len(x) \in Nat /\ Len(x) > 0 /\ 1 \in DOMAIN x
         /\ IsFiniteSet(DOMAIN x) /\ DOMAIN x # {}
         /\ \A j \in DOMAIN x :
              /\ x[j] \in Seq(Number) /\ x[j] # <<>>
              /\ DOMAIN x[j] = 1 .. Len(x[j]) /\ Len(x[j]) \in Nat /\ Len(x[j]) > 0
              /\ IsFiniteSet(DOMAIN x[j]) /\ DOMAIN x[j] # {}
              /\ \A i \in DOMAIN x[j] : x[j][i] \in Number
  <1>1. x \in Seq(SubBlocks) /\ x # <<>>
    BY Zenon DEF Blocks
  <1>2. /\ DOMAIN x = 1 .. Len(x) /\ Len(x) \in Nat /\ Len(x) > 0
        /\ \A j \in DOMAIN x : x[j] \in SubBlocks
    BY <1>1, SMT
  <1>3. IsFiniteSet(DOMAIN x) /\ DOMAIN x # {} /\ 1 \in DOMAIN x
    BY <1>2, IndexSet, Zenon
  <1>4. ASSUME NEW j \in DOMAIN x
        PROVE  /\ x[j] \in Seq(Number) /\ x[j] # <<>>
               /\ DOMAIN x[j] = 1 .. Len(x[j]) /\ Len(x[j]) \in Nat /\ Len(x[j]) > 0
               /\ IsFiniteSet(DOMAIN x[j]) /\ DOMAIN x[j] # {}
               /\ \A i \in DOMAIN x[j] : x[j][i] \in Number
    <2>1. x[j] \in Seq(Number) /\ x[j] # <<>>
      BY <1>2, Zenon DEF SubBlocks
    <2> DEFINE s == x[j]
    <2>2. s \in Seq(Number) /\ s # <<>>
      BY <2>1
    <2> HIDE DEF s
    <2>3. /\ DOMAIN s = 1 .. Len(s) /\ Len(s) \in Nat /\ Len(s) > 0
          /\ \A i \in DOMAIN s : s[i] \in Number
      BY <2>2, SMT
    <2>4. IsFiniteSet(DOMAIN s) /\ DOMAIN s # {}
      BY <2>3, IndexSet, Zenon
    <2> QED
      BY <2>2, <2>3, <2>4, Zenon DEF s
  <1> QED
    BY <1>2, <1>3, <1>4, Zenon

(* The largest magnitude of a block. *)
LEMMA FlatIs ==
  ASSUME NEW x \in Blocks
  PROVE  /\ Flat(x) \in SUBSET Nat /\ IsFiniteSet(Flat(x)) /\ Max(Flat(x)) \in Nat
         /\ \A j \in DOMAIN x : \A i \in DOMAIN x[j] :
              /\ Sane(x[j][i]) \in Int /\ Abs(Sane(x[j][i])) \in Nat
              /\ Abs(Sane(x[j][i])) <= Max(Flat(x))
  <1> DEFINE J == DOMAIN x
             F(j) == {Abs(Sane(x[j][i])) : i \in DOMAIN x[j]}
             U == {F(j) : j \in J}
  <1>1. \A j \in J : \A i \in DOMAIN x[j] : Sane(x[j][i]) \in Int /\ Abs(Sane(x[j][i])) \in Nat
    BY BlockParts, SaneIs, Zenon
  <1>2. Flat(x) = UNION U
    BY Zenon DEF Flat
  <1>3. \A j \in J : IsFiniteSet(F(j))
    <2> TAKE j \in J
    <2> DEFINE f == [i \in DOMAIN x[j] |-> Abs(Sane(x[j][i]))]
    <2>1. f = [i \in DOMAIN x[j] |-> f[i]] /\ IsFiniteSet(DOMAIN x[j])
      BY BlockParts, Zenon
    <2>2. {f[i] : i \in DOMAIN x[j]} = F(j)
      BY Zenon
    <2> HIDE DEF f
    <2>3. IsFiniteSet({f[i] : i \in DOMAIN x[j]})
      BY <2>1, ImageFinite, Zenon
    <2> QED
      BY <2>2, <2>3, Zenon
  <1>4. IsFiniteSet(U)
    <2> DEFINE f == [j \in J |-> F(j)]
    <2>1. f = [j \in J |-> f[j]] /\ IsFiniteSet(J)
      BY BlockParts, Zenon
    <2>2. {f[j] : j \in J} = U
      BY Zenon
    <2> HIDE DEF f, U
    <2>3. IsFiniteSet({f[j] : j \in J})
      BY <2>1, ImageFinite, Zenon
    <2> QED
      BY <2>2, <2>3, Zenon
  <1>5. IsFiniteSet(UNION U)
    <2>1. \A T \in U : IsFiniteSet(T)
      BY <1>3, Zenon
    <2> HIDE DEF U
    <2> QED
      BY <1>4, <2>1, FS_UNION, Zenon
  <1>6. \A v \in UNION U : v \in Nat
    <2> TAKE v \in UNION U
    <2>1. PICK j \in J : v \in F(j)
      OBVIOUS
    <2> QED
      BY <1>1, <2>1
  <1>7. ASSUME NEW j \in J, NEW i \in DOMAIN x[j]
        PROVE  Abs(Sane(x[j][i])) \in UNION U
    <2>1. Abs(Sane(x[j][i])) \in F(j) /\ F(j) \in U
      OBVIOUS
    <2> HIDE DEF F, U
    <2> QED
      BY <2>1, Zenon
  <1>8. UNION U # {}
    <2>1. 1 \in J /\ DOMAIN x[1] # {}
      BY BlockParts, Zenon
    <2> QED
      BY <1>7, <2>1, Zenon
  <1> HIDE DEF U
  <1>9. UNION U \in SUBSET Int
    BY <1>6, SMT
  <1>10. Max(UNION U) \in UNION U /\ \A m \in UNION U : m <= Max(UNION U)
    BY <1>5, <1>8, <1>9, MaxIs, Zenon
  <1> QED
    BY <1>1, <1>2, <1>5, <1>6, <1>7, <1>10, Zenon

(* subBlockSignedAbsMax is one of the elements, and none has a larger      *)
(* magnitude.                                                              *)
LEMMA SignedAbsMaxIs ==
  ASSUME NEW x \in Seq(Number), x # <<>>
  PROVE  /\ SignedAbsMax(x) \in Int /\ Abs(SignedAbsMax(x)) = AbsMax(x)
         /\ \E i \in DOMAIN x : SignedAbsMax(x) = Sane(x[i])
         /\ \A i \in DOMAIN x : Abs(Sane(x[i])) <= Abs(SignedAbsMax(x))
  <1> DEFINE S == {i \in DOMAIN x : Abs(Sane(x[i])) = AbsMax(x)}
  <1>1. S # {}
    BY Measures, Zenon
  <1>2. S \in SUBSET (0 .. Len(x)) /\ Len(x) \in Nat
    BY SMT
  <1>3. SignedAbsMax(x) = Sane(x[Min(S)])
    BY Zenon DEF SignedAbsMax
  <1>4. Min(S) \in S
    <2> HIDE DEF S
    <2> QED
      BY <1>1, <1>2, SmallestOfInterval, Zenon
  <1>5. Min(S) \in DOMAIN x /\ Abs(Sane(x[Min(S)])) = AbsMax(x)
    BY <1>4, Zenon
  <1> QED
    BY <1>3, <1>5, Measures, Zenon

-----------------------------------------------------------------------------
(* The scales of a block in range are finite. *)

LEMMA KindNames ==
  /\ DOMAIN IntLevels = {"INT8", "INT4"} /\ DOMAIN MinMaxLevels = {"Q4_1", "Q5_1"}
  /\ DOMAIN SignedKinds = {"Q6_K", "Q3_K", "IQ4_XS"}
  /\ DOMAIN RangeKinds = {"Q5_K", "Q4_K", "Q2_K"}
  /\ DOMAIN GridKinds = {"IQ2_XXS", "IQ2_XS", "IQ2_S", "IQ3_XXS", "IQ3_S", "IQ1_S", "IQ1_M"}
  /\ IntLevels["INT8"] = 127 /\ IntLevels["INT4"] = 7
  /\ MinMaxLevels["Q4_1"] = 15 /\ MinMaxLevels["Q5_1"] = 31
  BY SMT DEF IntLevels, MinMaxLevels, SignedKinds, RangeKinds, GridKinds

(* The numbers of levels and of scales are positive. *)
LEMMA KindConstants ==
  /\ \A fmt \in DOMAIN SignedKinds :
       /\ SignedKinds[fmt].levels \in Nat /\ SignedKinds[fmt].levels > 0
       /\ SignedKinds[fmt].scales \in Nat /\ SignedKinds[fmt].scales > 0
       /\ SignedKinds[fmt].levels * SignedKinds[fmt].scales \in Nat
       /\ SignedKinds[fmt].levels * SignedKinds[fmt].scales > 0
  /\ \A fmt \in DOMAIN RangeKinds :
       /\ RangeKinds[fmt].levels \in Nat /\ RangeKinds[fmt].levels > 0
       /\ RangeKinds[fmt].scales \in Nat /\ RangeKinds[fmt].scales > 0
       /\ RangeKinds[fmt].levels * RangeKinds[fmt].scales \in Nat
       /\ RangeKinds[fmt].levels * RangeKinds[fmt].scales > 0
  BY KindNames, SMT DEF SignedKinds, RangeKinds

(* The constants of the codebook formats, one by one. *)
LEMMA GridFacts ==
  /\ LET f == GridKinds["IQ2_XXS"]
     IN  /\ f.center = 25 /\ f.num = 8 /\ f.den = 775 /\ f.over = 8
         /\ f.scaleMax = 15 /\ f.width = 8
  /\ LET f == GridKinds["IQ2_XS"]
     IN  /\ f.center = 25 /\ f.num = 8 /\ f.den = 775 /\ f.over = 8
         /\ f.scaleMax = 15 /\ f.width = 8
  /\ LET f == GridKinds["IQ2_S"]
     IN  /\ f.center = 25 /\ f.num = 8 /\ f.den = 775 /\ f.over = 8
         /\ f.scaleMax = 15 /\ f.width = 8
  /\ LET f == GridKinds["IQ3_XXS"]
     IN  /\ f.center = 14 /\ f.num = 4 /\ f.den = 434 /\ f.over = 4
         /\ f.scaleMax = 15 /\ f.width = 4
  /\ LET f == GridKinds["IQ3_S"]
     IN  /\ f.center = 14 /\ f.num = 1 /\ f.den = 434 /\ f.over = 1
         /\ f.scaleMax = 15 /\ f.width = 4
  /\ LET f == GridKinds["IQ1_S"]
     IN  /\ f.center = 9 /\ f.num = 1 /\ f.den = 17 /\ f.over = 8
         /\ f.scaleMax = 7 /\ f.width = 8
  /\ LET f == GridKinds["IQ1_M"]
     IN  /\ f.center = 9 /\ f.num = 1 /\ f.den = 17 /\ f.over = 8
         /\ f.scaleMax = 7 /\ f.width = 8
  BY SMT DEF GridKinds, IQ1, IQ2

(* What these constants have in common. *)
LEMMA GridConstants ==
  ASSUME NEW fmt \in DOMAIN GridKinds
  PROVE  LET f == GridKinds[fmt]
         IN  /\ f.center \in Nat /\ f.center > 0 /\ f.num \in Nat /\ f.num > 0
             /\ f.den \in Nat /\ f.den > 0 /\ f.den <= 775 /\ f.over \in Nat /\ f.over > 0
             /\ f.scaleMax \in Nat /\ f.width \in {4, 8}
  <1>1. CASE fmt = "IQ2_XXS"
    BY <1>1, GridFacts, SMT
  <1>2. CASE fmt = "IQ2_XS"
    BY <1>2, GridFacts, SMT
  <1>3. CASE fmt = "IQ2_S"
    BY <1>3, GridFacts, SMT
  <1>4. CASE fmt = "IQ3_XXS"
    BY <1>4, GridFacts, SMT
  <1>5. CASE fmt = "IQ3_S"
    BY <1>5, GridFacts, SMT
  <1>6. CASE fmt = "IQ1_S"
    BY <1>6, GridFacts, SMT
  <1>7. CASE fmt = "IQ1_M"
    BY <1>7, GridFacts, SMT
  <1> QED
    BY <1>1, <1>2, <1>3, <1>4, <1>5, <1>6, <1>7, KindNames, Zenon

(* The codebook formats that store seven signs for eight elements. *)
LEMMA GridParity ==
  /\ GridKinds["IQ2_XXS"].parity = TRUE
  /\ GridKinds["IQ2_XS"].parity = TRUE
  /\ GridKinds["IQ2_S"].parity = FALSE
  /\ GridKinds["IQ3_XXS"].parity = TRUE
  /\ GridKinds["IQ3_S"].parity = FALSE
  /\ GridKinds["IQ1_S"].parity = FALSE
  /\ GridKinds["IQ1_M"].parity = FALSE
  BY SMT DEF GridKinds, IQ1, IQ2

(* A block whose numbers the format reaches gets scales that are finite. *)
LEMMA MinMaxScales ==
  ASSUME NEW n \in Nat, n > 0, NEW x \in Blocks
  PROVE  /\ EncodeMinMax(n, x).m \in Int
         /\ MaxOf(x[1]) - MinOf(x[1]) <= FloatMax => EncodeMinMax(n, x).d = Half(MaxOf(x[1]) - MinOf(x[1]), n)
         /\ EncodeMinMax(n, x).d \in Number
  <1> DEFINE lo == MinOf(x[1])
             range == MaxOf(x[1]) - lo
  <1>1. lo \in Int /\ MaxOf(x[1]) \in Int /\ range \in Int
    <2>1. x[1] \in Seq(Number) /\ x[1] # <<>>
      BY BlockParts, Zenon
    <2>2. lo \in Int /\ MaxOf(x[1]) \in Int
      BY <2>1, Measures, Zenon
    <2> QED
      BY <2>2, SMT
  <1>2. EncodeMinMax(n, x).m = Half(lo, 1)
    BY Zenon DEF EncodeMinMax
  <1>3. EncodeMinMax(n, x).d = IF range > FloatMax THEN NonFinite ELSE Half(range, n)
    BY Zenon DEF EncodeMinMax
  <1> HIDE DEF lo, range
  <1>4. Half(lo, 1) \in Int /\ Half(range, n) \in Int
    BY <1>1, HalfIs, SMT
  <1>5. range <= FloatMax => EncodeMinMax(n, x).d = Half(range, n)
    BY <1>1, <1>3, NumbersAssumption, SMT
  <1>6. EncodeMinMax(n, x).d \in Number
    BY <1>3, <1>4, Zenon DEF Number
  <1> QED
    BY <1>2, <1>4, <1>5, <1>6, Zenon DEF range, lo

(* The scale of a block of Q5_0 or IQ4_NL is finite, whatever the block. *)
LEMMA SymmetricScales ==
  ASSUME NEW x \in Blocks
  PROVE  /\ compressFP32ToQ5_0(x).d \in Int /\ compressFP32ToQ5_0(x).m = 0
         /\ compressFP32ToIQ4_NL(x).d \in Int /\ compressFP32ToIQ4_NL(x).m = 0
  <1>1. SignedAbsMax(x[1]) \in Int
    BY BlockParts, SignedAbsMaxIs, Zenon
  <1>2. Half(SignedAbsMax(x[1]), -16) \in Int /\ Half(SignedAbsMax(x[1]), -127) \in Int
    BY <1>1, HalfIs, SMT
  <1>3. /\ compressFP32ToQ5_0(x).d = Half(SignedAbsMax(x[1]), -16) /\ compressFP32ToQ5_0(x).m = 0
        /\ compressFP32ToIQ4_NL(x).d = Half(SignedAbsMax(x[1]), -127) /\ compressFP32ToIQ4_NL(x).m = 0
    BY Zenon DEF compressFP32ToQ5_0, compressFP32ToIQ4_NL
  <1> QED
    BY <1>2, <1>3, Zenon

(* The scale of a block of Q6_K, Q3_K or IQ4_XS is finite, whatever the    *)
(* block.                                                                  *)
LEMMA SignedScales ==
  ASSUME NEW fmt \in DOMAIN SignedKinds, NEW x \in Blocks
  PROVE  EncodeSigned(fmt, x).d \in Int /\ EncodeSigned(fmt, x).m \in Int
  <1> DEFINE f == SignedKinds[fmt]
             extreme == [j \in DOMAIN x |-> SignedAbsMax(x[j])]
             largest == FirstLargest(extreme)
  <1>1. largest \in Int
    <2>1. \A j \in DOMAIN x : SignedAbsMax(x[j]) \in Int
      BY BlockParts, SignedAbsMaxIs, Zenon
    <2>2. extreme \in Seq(Number) /\ extreme # <<>>
      <3>1. \A j \in DOMAIN x : SignedAbsMax(x[j]) \in Number
        BY <2>1, Zenon DEF Number
      <3>2. DOMAIN x = 1 .. Len(x) /\ Len(x) \in Nat /\ Len(x) > 0
        BY BlockParts, Zenon
      <3>3. \A j \in 1 .. Len(x) : extreme[j] \in Number
        BY <3>1, <3>2, Zenon
      <3>4. extreme = [j \in 1 .. Len(x) |-> extreme[j]]
        BY <3>2, Zenon
      <3> HIDE DEF extreme
      <3>5. extreme \in Seq(Number) /\ Len(extreme) = Len(x)
        BY <3>2, <3>3, <3>4, SequenceOf, Zenon
      <3> QED
        BY <3>2, <3>5, SMT
    <2> HIDE DEF extreme
    <2> QED
      BY <2>2, SignedAbsMaxIs, Zenon DEF FirstLargest
  <1>2. f.levels * f.scales \in Nat /\ f.levels * f.scales > 0
    BY KindConstants, Zenon
  <1> HIDE DEF largest
  <1>3. Half(largest, f.levels * f.scales) \in Int
    <2> DEFINE q == f.levels * f.scales
    <2>1. q \in Int /\ q # 0
      <3>1. q \in Nat /\ q > 0
        BY <1>2, Zenon
      <3> HIDE DEF q
      <3> QED
        BY <3>1, SMT
    <2> HIDE DEF q
    <2>2. Half(largest, q) \in Int
      BY <1>1, <2>1, HalfIs, Zenon
    <2> QED
      BY <2>2, Zenon DEF q
  <1>4. /\ EncodeSigned(fmt, x).d = IF largest = 0 THEN 0 ELSE Half(largest, f.levels * f.scales)
        /\ EncodeSigned(fmt, x).m = 0
    BY Zenon DEF EncodeSigned, ZeroBlock, largest
  <1> QED
    BY <1>3, <1>4, SMT

(* The two scales of a block of Q5_K, Q4_K or Q2_K are finite if the       *)
(* block is in range.                                                      *)
LEMMA RangeScales ==
  ASSUME NEW fmt \in DOMAIN RangeKinds, NEW x \in Blocks, Max(Flat(x)) <= HalfMax
  PROVE  EncodeRange(fmt, x).d \in Int /\ EncodeRange(fmt, x).m \in Int
  <1> DEFINE f == RangeKinds[fmt]
             lo == [j \in DOMAIN x |-> Min({MinOf(x[j]), 0})]
             range == [j \in DOMAIN x |-> MaxOf(x[j]) - lo[j]]
             R == MaxOf(range)
             M == -MinOf(lo)
  <1>1. ASSUME NEW j \in DOMAIN x
        PROVE  /\ lo[j] \in Int /\ -HalfMax <= lo[j] /\ lo[j] <= 0
               /\ range[j] \in Int /\ range[j] <= 2 * HalfMax
    <2>1. x[j] \in Seq(Number) /\ x[j] # <<>>
      BY BlockParts, Zenon
    <2>2. /\ \E i \in DOMAIN x[j] : MaxOf(x[j]) = Sane(x[j][i])
          /\ \E i \in DOMAIN x[j] : MinOf(x[j]) = Sane(x[j][i])
      BY <2>1, Measures, Zenon
    <2>3. \A i \in DOMAIN x[j] : Sane(x[j][i]) \in Int /\ Abs(Sane(x[j][i])) \in Nat /\ Abs(Sane(x[j][i])) <= Max(Flat(x))
      BY FlatIs, Zenon
    <2>4. \A v \in Int : Abs(v) <= HalfMax => -HalfMax <= v /\ v <= HalfMax
      BY NumbersAssumption, SMT DEF Abs
    <2>5. Max(Flat(x)) \in Nat
      BY FlatIs, Zenon
    <2> DEFINE hi == MaxOf(x[j])
               least == MinOf(x[j])
               V == Max(Flat(x))
    <2>6. \A i \in DOMAIN x[j] : Abs(Sane(x[j][i])) <= HalfMax
      <3>1. \A a \in Nat : a <= V => a <= HalfMax
        <4>1. V \in Nat /\ V <= HalfMax
          BY <2>5
        <4> HIDE DEF V
        <4> QED
          BY <4>1, NumbersAssumption, SMT
      <3> QED
        BY <2>3, <3>1, Zenon
    <2>7. \A i \in DOMAIN x[j] : -HalfMax <= Sane(x[j][i]) /\ Sane(x[j][i]) <= HalfMax /\ Sane(x[j][i]) \in Int
      BY <2>3, <2>4, <2>6, Zenon
    <2>8. hi \in Int /\ hi <= HalfMax /\ least \in Int /\ -HalfMax <= least
      BY <2>2, <2>7, Zenon
    <2>9. lo[j] = Min({least, 0}) /\ range[j] = hi - lo[j]
      BY Zenon
    <2> HIDE DEF hi, least, lo, range
    <2>10. Min({least, 0}) = IF least <= 0 THEN least ELSE 0
      BY <2>8, OfTwo, SMT
    <2> QED
      BY <2>8, <2>9, <2>10, NumbersAssumption, SMT
  <1>2. DOMAIN x = 1 .. Len(x) /\ Len(x) \in Nat /\ Len(x) > 0
    BY BlockParts, Zenon
  <1>3. /\ lo = [j \in 1 .. Len(x) |-> lo[j]] /\ range = [j \in 1 .. Len(x) |-> range[j]]
    BY <1>2, Zenon
  <1>a. EncodeRange(fmt, x).d = IF R > FloatMax THEN NonFinite ELSE Half(R, f.levels * f.scales)
    BY Zenon DEF EncodeRange
  <1>b. EncodeRange(fmt, x).m = Half(M, f.scales)
    BY Zenon DEF EncodeRange
  <1> DEFINE s == MinOf(lo)
  <1>c. M = -s
    BY Zenon
  <1> HIDE DEF lo, range, M
  <1>4. lo \in Seq(Number) /\ lo # <<>> /\ range \in Seq(Number) /\ range # <<>>
    <2>1. \A j \in 1 .. Len(x) : lo[j] \in Number /\ range[j] \in Number
      BY <1>1, <1>2, Zenon DEF Number
    <2>2. lo \in Seq(Number) /\ Len(lo) = Len(x) /\ range \in Seq(Number) /\ Len(range) = Len(x)
      BY <1>2, <1>3, <2>1, SequenceOf, Zenon
    <2> QED
      BY <1>2, <2>2, SMT
  <1>5. DOMAIN lo = DOMAIN x /\ DOMAIN range = DOMAIN x
    BY <1>2, <1>3, Zenon
  <1>6. \A j \in DOMAIN x : Sane(range[j]) = range[j]
    BY <1>1, NumbersAssumption, Zenon DEF Sane
  <1>7. R \in Int /\ R <= 2 * HalfMax /\ s \in Int
    <2>1. R \in Int /\ s \in Int /\ \E j \in DOMAIN range : R = Sane(range[j])
      BY <1>4, Measures, Zenon
    <2> QED
      BY <1>1, <1>5, <1>6, <2>1, Zenon
  <1> HIDE DEF R, s
  <1>8. ~(R > FloatMax) /\ M \in Int
    BY <1>7, <1>c, NumbersAssumption, SMT
  <1> DEFINE q == f.levels * f.scales
             p == f.scales
  <1>9. q \in Int /\ q # 0 /\ p \in Int /\ p # 0
    <2>1. q \in Nat /\ q > 0 /\ p \in Nat /\ p > 0
      BY KindConstants, Zenon
    <2> HIDE DEF q, p
    <2> QED
      BY <2>1, SMT
  <1>10. Half(R, q) \in Int /\ Half(M, p) \in Int
    <2> HIDE DEF q, p
    <2> QED
      BY <1>7, <1>8, <1>9, HalfIs, Zenon
  <1> QED
    BY <1>8, <1>10, <1>a, <1>b, Zenon

GridBlocksOf == Seq([1 .. 8 -> Number]) \ {<<>>}

(* The parts of a block of a codebook format. *)
LEMMA GridBlockParts ==
  ASSUME NEW x \in GridBlocksOf
  PROVE  /\ x \in Blocks
         /\ \A j \in DOMAIN x : /\ x[j] \in [1 .. 8 -> Number] /\ DOMAIN x[j] = 1 .. 8
                                /\ \A i \in 1 .. 8 : /\ x[j][i] \in Number /\ Sane(x[j][i]) \in Int
                                                     /\ Abs(Sane(x[j][i])) \in Nat
  <1>1. x \in Seq([1 .. 8 -> Number]) /\ x # <<>>
    BY Zenon DEF GridBlocksOf
  <1>2. \A j \in DOMAIN x : x[j] \in [1 .. 8 -> Number]
    BY <1>1, SMT
  <1>3. \A y \in [1 .. 8 -> Number] : y \in Seq(Number) /\ y # <<>>
    <2> TAKE y \in [1 .. 8 -> Number]
    <2>1. /\ y = [k \in 1 .. 8 |-> y[k]] /\ \A k \in 1 .. 8 : y[k] \in Number
      BY SMT
    <2>2. y \in Seq(Number) /\ Len(y) = 8
      BY <2>1, SequenceOf, SMT
    <2>3. Len(<<>>) # 8 /\ Len(y) = 8
      BY <2>2, SMT
    <2> QED
      BY <2>2, <2>3, Zenon
  <1>4. x \in Seq(SubBlocks)
    <2>1. \A j \in DOMAIN x : x[j] \in SubBlocks
      BY <1>2, <1>3, Zenon DEF SubBlocks
    <2>2. DOMAIN x = 1 .. Len(x) /\ Len(x) \in Nat /\ x = [k \in 1 .. Len(x) |-> x[k]]
      BY <1>1, SMT
    <2> QED
      BY <2>1, <2>2, SequenceOf, Zenon
  <1>5. x \in Blocks
    BY <1>1, <1>4, Zenon DEF Blocks
  <1>6. ASSUME NEW j \in DOMAIN x
        PROVE  /\ DOMAIN x[j] = 1 .. 8
               /\ \A i \in 1 .. 8 : /\ x[j][i] \in Number /\ Sane(x[j][i]) \in Int
                                    /\ Abs(Sane(x[j][i])) \in Nat
    <2>1. x[j] \in [1 .. 8 -> Number]
      BY <1>2
    <2>2. DOMAIN x[j] = 1 .. 8 /\ \A i \in 1 .. 8 : x[j][i] \in Number
      BY <2>1, SMT
    <2> QED
      BY <2>2, SaneIs, Zenon
  <1> QED
    BY <1>2, <1>5, <1>6, Zenon

(* The magnitudes an encoder of signs apart compares, one perhaps negated. *)
LEMMA XValIs ==
  ASSUME NEW fmt, NEW y \in [1 .. 8 -> Number]
  PROVE  /\ XVal(fmt, y) \in Seq(Number) /\ XVal(fmt, y) # <<>> /\ DOMAIN XVal(fmt, y) = 1 .. 8
         /\ \A i \in 1 .. 8 :
              /\ XVal(fmt, y)[i] \in Int /\ Sane(XVal(fmt, y)[i]) = XVal(fmt, y)[i]
              /\ XVal(fmt, y)[i] = IF (i - 1 \in SignsOf(fmt, y)) = (Sane(y[i]) < 0)
                                   THEN Abs(Sane(y[i])) ELSE -Abs(Sane(y[i]))
  <1> DEFINE v == XVal(fmt, y)
  <1>1. \A i \in 1 .. 8 : Abs(Sane(y[i])) \in Nat
    <2>1. \A i \in 1 .. 8 : y[i] \in Number
      BY SMT
    <2> QED
      BY <2>1, SaneIs, Zenon
  <1>2. v = [i \in 1 .. 8 |-> IF (i - 1 \in SignsOf(fmt, y)) = (Sane(y[i]) < 0)
                              THEN Abs(Sane(y[i])) ELSE -Abs(Sane(y[i]))]
    BY Zenon DEF XVal
  <1> HIDE DEF v
  <1>3. \A i \in 1 .. 8 : v[i] = IF (i - 1 \in SignsOf(fmt, y)) = (Sane(y[i]) < 0)
                                 THEN Abs(Sane(y[i])) ELSE -Abs(Sane(y[i]))
    BY <1>2, Zenon
  <1>4. \A i \in 1 .. 8 : v[i] \in Int
    <2> TAKE i \in 1 .. 8
    <2>1. Abs(Sane(y[i])) \in Int /\ -Abs(Sane(y[i])) \in Int
      BY <1>1, SMT
    <2> QED
      BY <1>3, <2>1, Zenon
  <1>5. \A i \in 1 .. 8 : Sane(v[i]) = v[i]
    BY <1>4, NumbersAssumption, Zenon DEF Sane
  <1>6. v = [i \in 1 .. 8 |-> v[i]]
    BY <1>2, Zenon
  <1>7. v \in Seq(Number) /\ Len(v) = 8 /\ DOMAIN v = 1 .. 8
    <2>1. \A i \in 1 .. 8 : v[i] \in Number
      BY <1>4, Zenon DEF Number
    <2>2. 8 \in Nat
      BY SMT
    <2> QED
      BY <1>6, <2>1, <2>2, SequenceOf, Zenon
  <1>8. v # <<>>
    BY <1>7, SMT
  <1> QED
    BY <1>3, <1>4, <1>5, <1>7, <1>8, Zenon DEF v

(* The largest element of a sub-block, as a codebook encoder measures it. *)
GridMax(fmt, y) == IF fmt \in SignedGrids THEN AbsMax(y) ELSE MaxOf(XVal(fmt, y))
GridMaxes(fmt, x) == [j \in DOMAIN x |-> GridMax(fmt, x[j])]

(* The largest of the maxima of the sub-blocks. *)
LEMMA GridLargestIs ==
  ASSUME NEW fmt, NEW x \in GridBlocksOf
  PROVE  /\ MaxOf(GridMaxes(fmt, x)) \in Int
         /\ \A j \in DOMAIN x : GridMax(fmt, x[j]) \in Int /\ GridMax(fmt, x[j]) <= MaxOf(GridMaxes(fmt, x))
         /\ \E j \in DOMAIN x : GridMax(fmt, x[j]) = MaxOf(GridMaxes(fmt, x))
  <1> DEFINE g == GridMaxes(fmt, x)
  <1>1. \A j \in DOMAIN x : GridMax(fmt, x[j]) \in Int
    <2> TAKE j \in DOMAIN x
    <2>1. x[j] \in [1 .. 8 -> Number] /\ x[j] \in Seq(Number) /\ x[j] # <<>>
      BY GridBlockParts, BlockParts, Zenon
    <2>2. AbsMax(x[j]) \in Int
      <3>1. AbsMax(x[j]) \in Nat
        BY <2>1, Measures, Zenon
      <3> QED
        BY <3>1, SMT
    <2>3. MaxOf(XVal(fmt, x[j])) \in Int
      BY <2>1, XValIs, Measures, Zenon
    <2> QED
      BY <2>2, <2>3, Zenon DEF GridMax
  <1>2. g = [j \in DOMAIN x |-> GridMax(fmt, x[j])]
    BY Zenon DEF GridMaxes
  <1> HIDE DEF g
  <1>3. DOMAIN x = 1 .. Len(x) /\ Len(x) \in Nat /\ Len(x) > 0
    BY GridBlockParts, BlockParts, Zenon
  <1>4. \A j \in DOMAIN x : g[j] = GridMax(fmt, x[j]) /\ g[j] \in Int /\ g[j] \in Number
    BY <1>1, <1>2, Zenon DEF Number
  <1>5. g = [j \in 1 .. Len(x) |-> g[j]]
    BY <1>2, <1>3, Zenon
  <1>6. g \in Seq(Number) /\ Len(g) = Len(x) /\ DOMAIN g = 1 .. Len(x)
    BY <1>3, <1>4, <1>5, SequenceOf, Zenon
  <1>7. g # <<>>
    BY <1>3, <1>6, SMT
  <1>8. \A j \in DOMAIN x : Sane(g[j]) = g[j]
    BY <1>4, NumbersAssumption, Zenon DEF Sane
  <1>9. /\ MaxOf(g) \in Int /\ \E j \in DOMAIN g : MaxOf(g) = Sane(g[j])
        /\ \A j \in DOMAIN g : Sane(g[j]) <= MaxOf(g)
    BY <1>6, <1>7, Measures, Zenon
  <1>10. DOMAIN g = DOMAIN x
    BY <1>3, <1>6, Zenon
  <1> QED
    BY <1>4, <1>8, <1>9, <1>10, Zenon DEF g

(* The scale of a block of a codebook format is finite, whatever the       *)
(* block.                                                                  *)
LEMMA GridScales ==
  ASSUME NEW fmt \in DOMAIN GridKinds, NEW x \in GridBlocksOf
  PROVE  LET largest == MaxOf(GridMaxes(fmt, x))
             f == GridKinds[fmt]
         IN  /\ EncodeGrid(fmt, x).d = IF largest = 0 THEN 0 ELSE Half(f.num * largest * LaneUnit, f.den)
             /\ EncodeGrid(fmt, x).m = 0
             /\ EncodeGrid(fmt, x).d \in Int
  <1> DEFINE f == GridKinds[fmt]
             largest == MaxOf(GridMaxes(fmt, x))
  <1>1. /\ EncodeGrid(fmt, x).d = IF largest = 0 THEN 0 ELSE Half(f.num * largest * LaneUnit, f.den)
        /\ EncodeGrid(fmt, x).m = 0
    <2> DEFINE signed == fmt \in SignedGrids
               value == [j \in DOMAIN x |-> IF signed THEN [i \in DOMAIN x[j] |-> Sane(x[j][i])]
                                            ELSE XVal(fmt, x[j])]
               gmax == [j \in DOMAIN x |-> IF signed THEN AbsMax(x[j]) ELSE MaxOf(value[j])]
    <2>1. gmax = GridMaxes(fmt, x)
      <3>1. \A j \in DOMAIN x : (IF signed THEN AbsMax(x[j]) ELSE MaxOf(value[j])) = GridMax(fmt, x[j])
        BY Zenon DEF GridMax
      <3> QED
        BY <3>1, Zenon DEF GridMaxes
    <2>2. /\ EncodeGrid(fmt, x).d = IF MaxOf(gmax) = 0 THEN 0 ELSE Half(f.num * MaxOf(gmax) * LaneUnit, f.den)
          /\ EncodeGrid(fmt, x).m = 0
      BY Zenon DEF EncodeGrid
    <2> HIDE DEF gmax
    <2> QED
      BY <2>1, <2>2, Zenon
  <1>2. largest \in Int
    BY GridLargestIs, Zenon
  <1> HIDE DEF largest
  <1>3. f.num \in Nat /\ f.den \in Nat /\ f.den > 0
    BY GridConstants, SMT
  <1> DEFINE num == f.num
             den == f.den
  <1>4. num \in Int /\ den \in Int /\ den # 0
    <2>1. num \in Nat /\ den \in Nat /\ den > 0
      BY <1>3, Zenon
    <2> HIDE DEF num, den
    <2> QED
      BY <2>1, SMT
  <1> HIDE DEF num, den
  <1>5. num * largest * LaneUnit \in Int
    BY <1>2, <1>4, SMT DEF LaneUnit
  <1>6. Half(num * largest * LaneUnit, den) \in Int
    BY <1>4, <1>5, HalfIs, Zenon
  <1>7. EncodeGrid(fmt, x).d \in Int
    BY <1>1, <1>6, SMT DEF num, den
  <1> QED
    BY <1>1, <1>7, Zenon DEF largest

-----------------------------------------------------------------------------
(* What is read from a block can be compressed again. *)

(* A block rebuilt number by number is a block. *)
LEMMA BlockOfNumbers ==
  ASSUME NEW x \in Blocks, NEW y, y = [j \in DOMAIN x |-> y[j]],
         \A j \in DOMAIN x : y[j] = [i \in DOMAIN x[j] |-> y[j][i]],
         \A j \in DOMAIN x : \A i \in DOMAIN x[j] : y[j][i] \in Number
  PROVE  y \in Blocks
  <1>1. DOMAIN x = 1 .. Len(x) /\ Len(x) \in Nat /\ Len(x) > 0
    BY BlockParts, Zenon
  <1>2. \A j \in DOMAIN x : y[j] \in SubBlocks
    <2> TAKE j \in DOMAIN x
    <2>1. DOMAIN x[j] = 1 .. Len(x[j]) /\ Len(x[j]) \in Nat /\ Len(x[j]) > 0
      BY BlockParts, Zenon
    <2> DEFINE s == y[j]
               n == Len(x[j])
    <2>2. s = [i \in 1 .. n |-> s[i]] /\ \A i \in 1 .. n : s[i] \in Number
      BY <2>1, Zenon
    <2>3. n \in Nat /\ n > 0
      BY <2>1
    <2> HIDE DEF s, n
    <2>4. s \in Seq(Number) /\ Len(s) = n
      BY <2>2, <2>3, SequenceOf, Zenon
    <2>5. s # <<>>
      BY <2>3, <2>4, SMT
    <2> QED
      BY <2>4, <2>5, Zenon DEF s, SubBlocks
  <1>3. y = [j \in 1 .. Len(x) |-> y[j]]
    BY <1>1, Zenon
  <1>4. y \in Seq(SubBlocks) /\ Len(y) = Len(x)
    BY <1>1, <1>2, <1>3, SequenceOf, Zenon
  <1>5. y # <<>>
    BY <1>1, <1>4, NotEmpty, Zenon
  <1> QED
    BY <1>4, <1>5, Zenon DEF Blocks

IntScale(n, x) == IF ClampAbsMax(AbsMax(x[1]), n) < n THEN 0 ELSE ClampAbsMax(AbsMax(x[1]), n) \div n
IntCode(n, even, scale, v) ==
  IF scale = 0 THEN 0
  ELSE Clamp(IF even THEN Signed(HalfEven, v, scale) ELSE nearestInt(v, scale), -n, n)

(* The block INT8 and INT4 make: the scale times the largest code stays    *)
(* within the largest magnitude.                                           *)
LEMMA IntBlock ==
  ASSUME NEW n \in Nat, n > 0, NEW even, NEW x \in Blocks
  PROVE  LET b == EncodeINT(n, even, x)
             s == IntScale(n, x)
             a == ClampAbsMax(AbsMax(x[1]), n)
         IN  /\ b.d = s /\ s \in Nat /\ a \in Nat /\ a <= AbsMax(x[1]) /\ a <= FloatMax \div n
             /\ n * s <= a
             /\ b.q = [j \in DOMAIN x |-> [i \in DOMAIN x[j] |-> IntCode(n, even, s, Sane(x[j][i]))]]
             /\ \A v \in Int : IntCode(n, even, s, v) \in -n .. n /\ IntCode(n, even, s, v) \in Int
  <1> DEFINE b == EncodeINT(n, even, x)
             s == IntScale(n, x)
             A == AbsMax(x[1])
             top == FloatMax \div n
             a == ClampAbsMax(A, n)
  <1>1. A \in Nat
    <2>1. x[1] \in Seq(Number) /\ x[1] # <<>>
      BY BlockParts, Zenon
    <2> QED
      BY <2>1, Measures, Zenon
  <1>2. top \in Nat
    <2>1. FloatMax \in Nat
      BY NumbersAssumption
    <2> QED
      BY <2>1, SMT
  <1>3. a = Min({A, top})
    BY Zenon DEF ClampAbsMax
  <1> HIDE DEF A, top, a
  <1>4. a = IF A <= top THEN A ELSE top
    <2>1. A \in Int /\ top \in Int
      BY <1>1, <1>2, SMT
    <2>2. Min({A, top}) = IF A <= top THEN A ELSE top
      BY <2>1, OfTwo, Zenon
    <2> QED
      BY <1>3, <2>2, Zenon
  <1>5. a \in Nat /\ a <= A /\ a <= top
    BY <1>1, <1>2, <1>4, SMT
  <1>6. s = IF a < n THEN 0 ELSE a \div n
    BY Zenon DEF IntScale, a, A
  <1>7. s \in Nat /\ n * s <= a
    <2>1. a \div n \in Nat
      BY <1>5, SMT
    <2>2. a = (a \div n) * n + (a % n) /\ a % n \in 0 .. n - 1
      BY <1>5, QuotientAndRest, SMT
    <2> DEFINE w == a \div n
               r == a % n
    <2>3. w \in Nat /\ r \in 0 .. n - 1 /\ a = w * n + r
      BY <2>1, <2>2, Zenon
    <2> HIDE DEF w, r
    <2>4. n * w = w * n /\ w * n \in Int
      BY <2>3, Z3
    <2>5. n * w <= a
      BY <2>3, <2>4, SMT
    <2> QED
      BY <1>5, <1>6, <2>3, <2>5, SMT DEF w
  <1>8. b.d = s /\ b.q = [j \in DOMAIN x |-> [i \in DOMAIN x[j] |-> IntCode(n, even, s, Sane(x[j][i]))]]
    BY Zenon DEF EncodeINT, Codes, IntCode, IntScale
  <1> HIDE DEF s, b
  <1>9. ASSUME NEW v \in Int
        PROVE  IntCode(n, even, s, v) \in -n .. n /\ IntCode(n, even, s, v) \in Int
    <2>1. CASE s = 0
      BY <2>1, SMT DEF IntCode
    <2>2. CASE s # 0
      <3>1. s \in Int
        BY <1>7, SMT
      <3> DEFINE k == IF even THEN Signed(HalfEven, v, s) ELSE nearestInt(v, s)
      <3>2. k \in Int
        BY <2>2, <3>1, nearestIntIs, Zenon
      <3>3. IntCode(n, even, s, v) = Clamp(k, -n, n)
        BY <2>2, Zenon DEF IntCode
      <3> HIDE DEF k
      <3> QED
        BY <3>2, <3>3, ClampIs, SMT
    <2> QED
      BY <2>1, <2>2, Zenon
  <1> QED
    BY <1>5, <1>7, <1>8, <1>9, Zenon DEF a, A, b, s, top

MinMaxCode(n, lo, range, v) ==
  IF range > FloatMax \/ range = 0 THEN 0 ELSE Clamp(HalfUp((v - lo) * n, range), 0, n)

(* The block Q4_1 and Q5_1 make. *)
LEMMA MinMaxBlock ==
  ASSUME NEW n \in Nat, n > 0, NEW x \in Blocks
  PROVE  LET b == EncodeMinMax(n, x)
             lo == MinOf(x[1])
             range == MaxOf(x[1]) - lo
         IN  /\ lo \in Int /\ range \in Nat
             /\ b.d = IF range > FloatMax THEN NonFinite ELSE Half(range, n)
             /\ b.m = Half(lo, 1) /\ b.m \in Int /\ Half(range, n) \in Int
             /\ b.q = [j \in DOMAIN x |-> [i \in DOMAIN x[j] |-> MinMaxCode(n, lo, range, Sane(x[j][i]))]]
             /\ \A v \in Int : MinMaxCode(n, lo, range, v) \in 0 .. n
  <1> DEFINE b == EncodeMinMax(n, x)
             lo == MinOf(x[1])
             range == MaxOf(x[1]) - lo
  <1>1. lo \in Int /\ range \in Nat
    <2>1. x[1] \in Seq(Number) /\ x[1] # <<>>
      BY BlockParts, Zenon
    <2>2. lo \in Int /\ MaxOf(x[1]) \in Int /\ \E i \in DOMAIN x[1] : MaxOf(x[1]) = Sane(x[1][i])
      BY <2>1, Measures, Zenon
    <2>3. lo <= MaxOf(x[1])
      BY <2>1, <2>2, Measures, Zenon
    <2> QED
      BY <2>2, <2>3, SMT
  <1>2. /\ b.d = IF range > FloatMax THEN NonFinite ELSE Half(range, n)
        /\ b.m = Half(lo, 1)
        /\ b.q = [j \in DOMAIN x |-> [i \in DOMAIN x[j] |-> MinMaxCode(n, lo, range, Sane(x[j][i]))]]
    BY Zenon DEF EncodeMinMax, Codes, MinMaxCode
  <1> HIDE DEF b, lo, range
  <1>3. Half(lo, 1) \in Int /\ Half(range, n) \in Int
    BY <1>1, HalfIs, SMT
  <1>4. ASSUME NEW v \in Int
        PROVE  MinMaxCode(n, lo, range, v) \in 0 .. n
    <2>1. CASE range > FloatMax \/ range = 0
      BY <2>1, SMT DEF MinMaxCode
    <2>2. CASE ~(range > FloatMax \/ range = 0)
      <3> DEFINE p == (v - lo) * n
      <3>1. p \in Int /\ range > 0
        BY <1>1, <2>2, SMT
      <3>2. HalfUp(p, range) \in Int
        <4> HIDE DEF p
        <4> QED
          BY <1>1, <3>1, HalfUpIs, Zenon
      <3> DEFINE k == HalfUp(p, range)
      <3>3. MinMaxCode(n, lo, range, v) = Clamp(k, 0, n)
        BY <2>2, Zenon DEF MinMaxCode
      <3>4. k \in Int
        BY <3>2
      <3> HIDE DEF k
      <3> QED
        BY <3>3, <3>4, ClampIs, SMT
    <2> QED
      BY <2>1, <2>2, Zenon
  <1> QED
    BY <1>1, <1>2, <1>3, <1>4, Zenon DEF b, lo, range

Q5Code(vmax, v) ==
  IF vmax = 0 THEN 16
  ELSE Clamp(HalfUp((IF vmax > 0 THEN -16 * v ELSE 16 * v) + 16 * Abs(vmax), Abs(vmax)), 0, 31)

(* The block Q5_0 makes. *)
LEMMA Q5Block ==
  ASSUME NEW x \in Blocks
  PROVE  LET b == compressFP32ToQ5_0(x)
             vmax == SignedAbsMax(x[1])
         IN  /\ vmax \in Int /\ b.d = Half(vmax, -16) /\ b.d \in Int /\ b.m = 0
             /\ b.q = [j \in DOMAIN x |-> [i \in DOMAIN x[j] |-> Q5Code(vmax, Sane(x[j][i]))]]
             /\ \A v \in Int : Q5Code(vmax, v) \in 0 .. 31
  <1> DEFINE b == compressFP32ToQ5_0(x)
             vmax == SignedAbsMax(x[1])
  <1>1. vmax \in Int
    BY BlockParts, SignedAbsMaxIs, Zenon
  <1>2. b.d = Half(vmax, -16) /\ b.d \in Int /\ b.m = 0
    <2>1. b.d = Half(vmax, -16) /\ b.m = 0
      BY Zenon DEF compressFP32ToQ5_0
    <2> HIDE DEF b, vmax
    <2>2. Half(vmax, -16) \in Int
      BY <1>1, HalfIs, SMT
    <2> QED
      BY <2>1, <2>2, Zenon
  <1>3. b.q = [j \in DOMAIN x |-> [i \in DOMAIN x[j] |-> Q5Code(vmax, Sane(x[j][i]))]]
    BY Zenon DEF compressFP32ToQ5_0, Codes, Q5Code
  <1> HIDE DEF b, vmax
  <1>4. ASSUME NEW v \in Int
        PROVE  Q5Code(vmax, v) \in 0 .. 31
    <2>1. CASE vmax = 0
      BY <2>1, SMT DEF Q5Code
    <2>2. CASE vmax # 0
      <3> DEFINE p == (IF vmax > 0 THEN -16 * v ELSE 16 * v) + 16 * Abs(vmax)
                 q == Abs(vmax)
      <3>1. q \in Nat /\ q > 0
        BY <1>1, <2>2, AbsIs, Zenon
      <3>2. p \in Int
        BY <1>1, <3>1, SMT
      <3>3. Q5Code(vmax, v) = Clamp(HalfUp(p, q), 0, 31)
        BY <2>2, Zenon DEF Q5Code
      <3> HIDE DEF p, q
      <3> DEFINE k == HalfUp(p, q)
      <3>4. k \in Int
        BY <3>1, <3>2, HalfUpIs, Zenon
      <3>5. Q5Code(vmax, v) = Clamp(k, 0, 31)
        BY <3>3
      <3> HIDE DEF k
      <3>6. Clamp(k, 0, 31) \in 0 .. 31
        BY <3>4, SMT DEF Clamp
      <3> QED
        BY <3>5, <3>6, Zenon
    <2> QED
      BY <2>1, <2>2, Zenon
  <1> QED
    BY <1>1, <1>2, <1>3, <1>4, Zenon DEF b, vmax

IQ4Code(vmax, v) == IF vmax = 0 THEN bestIndexIQ4(0, 1) ELSE bestIndexIQ4(-127 * v, vmax)

(* The table of IQ4 grows. *)
LEMMA IQ4Entries ==
  /\ \A k \in 1 .. 16 : IQ4Codebook[k] \in -127 .. 113
  /\ \A k \in 1 .. 15 : IQ4Codebook[k] < IQ4Codebook[k + 1]
  /\ IQ4Codebook[1] = -127 /\ IQ4Codebook[9] = 1 /\ IQ4Codebook[16] = 113
  /\ \A k \in 2 .. 16 : IQ4Codebook[k] > -127
  BY SMT DEF IQ4Codebook

(* One of sixteen errors is the least. *)
LEMMA LeastIndexExists ==
  ASSUME NEW e, \A k \in 1 .. 16 : e[k] \in Nat
  PROVE  \E k \in 1 .. 16 : \A o \in 1 .. 16 : e[k] <= e[o]
  <1> DEFINE f == [k \in 1 .. 16 |-> e[k]]
             E == {f[k] : k \in 1 .. 16}
  <1>1. E \in SUBSET Nat
    BY Zenon
  <1>2. f[1] \in E
    <2>1. 1 \in 1 .. 16
      BY SMT
    <2> QED
      BY <2>1, Zenon
  <1>3. PICK m \in E : \A o \in E : m <= o
    <2> HIDE DEF E
    <2> QED
      BY <1>1, <1>2, LeastNat, Zenon
  <1>4. PICK k \in 1 .. 16 : m = f[k]
    BY <1>3, Zenon
  <1>5. \A o \in 1 .. 16 : f[k] <= f[o]
    BY <1>3, <1>4, Zenon
  <1> QED
    BY <1>5, Zenon

(* bestIndexIQ4 returns the index of a nearest entry, or that of an end    *)
(* one for what lies beyond it.                                            *)
LEMMA BestIndexIs ==
  ASSUME NEW p \in Int, NEW q \in Int, q # 0
  PROVE  LET a == IF q < 0 THEN -p ELSE p
             b == Abs(q)
         IN  /\ a \in Int /\ b \in Nat /\ b > 0
             /\ bestIndexIQ4(p, q) \in 0 .. 15
             /\ \/ bestIndexIQ4(p, q) = 0 /\ a <= IQ4Codebook[1] * b
                \/ bestIndexIQ4(p, q) = 15 /\ a >= IQ4Codebook[16] * b
                \/ \A o \in 1 .. 16 : Abs(a - IQ4Codebook[bestIndexIQ4(p, q) + 1] * b) <= Abs(a - IQ4Codebook[o] * b)
             /\ a <= IQ4Codebook[1] * b => bestIndexIQ4(p, q) = 0
  <1> DEFINE a == IF q < 0 THEN -p ELSE p
             b == Abs(q)
             e == [k \in 1 .. 16 |-> Abs(a - IQ4Codebook[k] * b)]
             S == {k \in 1 .. 16 : \A o \in 1 .. 16 : e[k] <= e[o]}
             r == bestIndexIQ4(p, q)
  <1>1. a \in Int /\ b \in Nat /\ b > 0
    BY AbsIs, SMT
  <1>2. r = IF a <= IQ4Codebook[1] * b THEN 0
            ELSE IF a >= IQ4Codebook[16] * b THEN 15 ELSE Min(S) - 1
    BY Zenon DEF bestIndexIQ4
  <1>3. \A k \in 1 .. 16 : e[k] = Abs(a - IQ4Codebook[k] * b)
    BY Zenon
  <1> HIDE DEF a, b, e, r
  <1>4. \A k \in 1 .. 16 : e[k] \in Nat
    <2> TAKE k \in 1 .. 16
    <2> DEFINE t == IQ4Codebook[k]
    <2>1. t \in Int
      BY IQ4Entries, SMTT(60)
    <2> HIDE DEF t
    <2>2. a - t * b \in Int
      BY <1>1, <2>1, SMT
    <2>3. Abs(a - t * b) \in Nat
      BY <2>2, AbsIs, Zenon
    <2> QED
      BY <1>3, <2>3, Zenon DEF t
  <1>5. S # {}
    BY <1>4, LeastIndexExists, Zenon
  <1>6. S \in SUBSET (0 .. 16) /\ 16 \in Nat
    BY SMT
  <1>7. Min(S) \in S
    <2> HIDE DEF S
    <2> QED
      BY <1>5, <1>6, SmallestOfInterval, Zenon
  <1> DEFINE m == Min(S)
  <1>8. m \in 1 .. 16 /\ \A o \in 1 .. 16 : e[m] <= e[o]
    BY <1>7, Zenon
  <1> HIDE DEF m, S
  <1>9. CASE a <= IQ4Codebook[1] * b
    <2>1. r = 0
      BY <1>2, <1>9, Zenon
    <2>2. 0 \in 0 .. 15
      BY SMT
    <2> QED
      BY <1>1, <1>9, <2>1, <2>2, Zenon DEF r, a, b
  <1>10. CASE ~(a <= IQ4Codebook[1] * b) /\ a >= IQ4Codebook[16] * b
    <2>1. r = 15
      BY <1>2, <1>10, Zenon
    <2>2. 15 \in 0 .. 15
      BY SMT
    <2> QED
      BY <1>1, <1>10, <2>1, <2>2, Zenon DEF r, a, b
  <1>11. CASE ~(a <= IQ4Codebook[1] * b) /\ ~(a >= IQ4Codebook[16] * b)
    <2>1. r = m - 1
      BY <1>2, <1>11, Zenon DEF m
    <2>2. r \in 0 .. 15 /\ r + 1 = m
      BY <1>8, <2>1, SMT
    <2>3. \A o \in 1 .. 16 : Abs(a - IQ4Codebook[r + 1] * b) <= Abs(a - IQ4Codebook[o] * b)
      BY <1>3, <1>8, <2>2, Zenon
    <2> QED
      BY <1>1, <1>11, <2>2, <2>3, Zenon DEF r, a, b
  <1> QED
    BY <1>9, <1>10, <1>11, Zenon DEF r, a, b

(* The block IQ4_NL makes. *)
LEMMA IQ4Block ==
  ASSUME NEW x \in Blocks
  PROVE  LET b == compressFP32ToIQ4_NL(x)
             vmax == SignedAbsMax(x[1])
         IN  /\ vmax \in Int /\ b.d = Half(vmax, -127) /\ b.d \in Int /\ b.m = 0
             /\ b.q = [j \in DOMAIN x |-> [i \in DOMAIN x[j] |-> IQ4Code(vmax, Sane(x[j][i]))]]
             /\ \A v \in Int : IQ4Code(vmax, v) \in 0 .. 15
  <1> DEFINE b == compressFP32ToIQ4_NL(x)
             vmax == SignedAbsMax(x[1])
  <1>1. vmax \in Int
    BY BlockParts, SignedAbsMaxIs, Zenon
  <1>2. b.d = Half(vmax, -127) /\ b.d \in Int /\ b.m = 0
    BY SymmetricScales, Zenon DEF compressFP32ToIQ4_NL
  <1>3. b.q = [j \in DOMAIN x |-> [i \in DOMAIN x[j] |-> IQ4Code(vmax, Sane(x[j][i]))]]
    BY Zenon DEF compressFP32ToIQ4_NL, Codes, IQ4Code
  <1> HIDE DEF b, vmax
  <1>4. ASSUME NEW v \in Int
        PROVE  IQ4Code(vmax, v) \in 0 .. 15
    <2>1. bestIndexIQ4(0, 1) \in 0 .. 15
      BY BestIndexIs, SMT
    <2>2. vmax # 0 => bestIndexIQ4(-127 * v, vmax) \in 0 .. 15
      <3>1. -127 * v \in Int
        BY SMT
      <3> QED
        BY <1>1, <3>1, BestIndexIs, Zenon
    <2> QED
      BY <2>1, <2>2, Zenon DEF IQ4Code
  <1> QED
    BY <1>1, <1>2, <1>3, <1>4, Zenon DEF b, vmax

(* The powers of two that are scales. *)
LEMMA ScalePowers ==
  ASSUME NEW k \in 0 .. 29
  PROVE  2^k \in Nat /\ 2^k > 0
  <1>0. CASE k = 0  BY <1>0, SMT
  <1>1. CASE k = 1  BY <1>1, SMT
  <1>2. CASE k = 2  BY <1>2, SMT
  <1>3. CASE k = 3  BY <1>3, SMT
  <1>4. CASE k = 4  BY <1>4, SMT
  <1>5. CASE k = 5  BY <1>5, SMT
  <1>6. CASE k = 6  BY <1>6, SMT
  <1>7. CASE k = 7  BY <1>7, SMT
  <1>8. CASE k = 8  BY <1>8, SMT
  <1>9. CASE k = 9  BY <1>9, SMT
  <1>10. CASE k = 10  BY <1>10, SMT
  <1>11. CASE k = 11  BY <1>11, SMT
  <1>12. CASE k = 12  BY <1>12, SMT
  <1>13. CASE k = 13  BY <1>13, SMT
  <1>14. CASE k = 14  BY <1>14, SMT
  <1>15. CASE k = 15  BY <1>15, SMT
  <1>16. CASE k = 16  BY <1>16, SMT
  <1>17. CASE k = 17  BY <1>17, SMT
  <1>18. CASE k = 18  BY <1>18, SMT
  <1>19. CASE k = 19  BY <1>19, SMT
  <1>20. CASE k = 20  BY <1>20, SMT
  <1>21. CASE k = 21  BY <1>21, SMT
  <1>22. CASE k = 22  BY <1>22, SMT
  <1>23. CASE k = 23  BY <1>23, SMT
  <1>24. CASE k = 24  BY <1>24, SMT
  <1>25. CASE k = 25  BY <1>25, SMT
  <1>26. CASE k = 26  BY <1>26, SMT
  <1>27. CASE k = 27  BY <1>27, SMT
  <1>28. CASE k = 28  BY <1>28, SMT
  <1>29. CASE k = 29  BY <1>29, SMT
  <1> QED
    BY <1>0, <1>1, <1>2, <1>3, <1>4, <1>5, <1>6, <1>7, <1>8, <1>9, <1>10, <1>11, <1>12, <1>13, <1>14, <1>15, <1>16, <1>17, <1>18, <1>19, <1>20, <1>21, <1>22, <1>23, <1>24, <1>25, <1>26, <1>27, <1>28, <1>29, SMT

(* The exponent of a number is that of the largest power of two it         *)
(* reaches.                                                                *)
LEMMA ExponentIs ==
  ASSUME NEW a \in Nat, a > 0
  PROVE  /\ Exponent(a) \in 0 .. 29 /\ 2^Exponent(a) <= a
         /\ \A e \in 0 .. 29 : 2^e <= a => e <= Exponent(a)
  <1> DEFINE S == {e \in 0 .. 29 : 2^e <= a}
  <1>1. S \in SUBSET (0 .. 29) /\ 29 \in Nat
    BY SMT
  <1>2. 0 \in 0 .. 29 /\ 2^0 <= a
    BY SMT
  <1>3. 0 \in S
    BY <1>2, Zenon
  <1>4. Exponent(a) = Max(S)
    BY Zenon DEF Exponent
  <1> HIDE DEF S
  <1>5. Max(S) \in S /\ \A k \in S : k <= Max(S)
    BY <1>1, <1>3, SmallestOfInterval, Zenon
  <1> QED
    BY <1>4, <1>5, Zenon DEF S

(* The nearest nibble is a nibble. *)
LEMMA NearestE2M1Is ==
  ASSUME NEW p, NEW q
  PROVE  NearestE2M1(p, q) \in 0 .. 15
  <1> DEFINE a == 4 * Abs(p)
             past == {k \in 1 .. 7 : a > Midpoints[k] * q \/ (a = Midpoints[k] * q /\ k % 2 = 1)}
             index == IF a >= 24 * q THEN 7 ELSE Max(past \cup {0})
  <1>1. NearestE2M1(p, q) = index + (IF p < 0 THEN 8 ELSE 0)
    BY Zenon DEF NearestE2M1
  <1>2. past \cup {0} \in SUBSET (0 .. 7) /\ past \cup {0} # {} /\ 7 \in Nat
    <2>1. past \in SUBSET (1 .. 7)
      BY Zenon
    <2> HIDE DEF past
    <2> QED
      BY <2>1, SMT
  <1>3. Max(past \cup {0}) \in 0 .. 7
    <2> HIDE DEF past
    <2> QED
      BY <1>2, SmallestOfInterval, Zenon
  <1> DEFINE m == Max(past \cup {0})
  <1>4. m \in 0 .. 7 /\ index = IF a >= 24 * q THEN 7 ELSE m
    BY <1>3, Zenon
  <1> HIDE DEF m, past, index
  <1>5. index \in 0 .. 7
    BY <1>4, SMT
  <1> QED
    BY <1>1, <1>5, SMT

(* What a nibble stands for. *)
LEMMA ElementE2M1Is ==
  ASSUME NEW k \in 0 .. 15
  PROVE  ElementE2M1(k) \in -12 .. 12
  BY SMT DEF ElementE2M1, Magnitudes

MXCode(s, v) == IF s = 0 THEN (IF v < 0 THEN 8 ELSE 0) ELSE NearestE2M1(v, s)
MXScale(x) == IF AbsMax(x[1]) = 0 THEN 0 ELSE 2^Max({0, Exponent(AbsMax(x[1])) - 2})

(* The block MXFP4 makes. *)
LEMMA MXFP4Block ==
  ASSUME NEW x \in Blocks
  PROVE  LET b == compressFP32ToMXFP4(x)
         IN  /\ b.d = MXScale(x) /\ MXScale(x) \in Nat /\ b.m = 0
             /\ AbsMax(x[1]) \in Nat
             /\ AbsMax(x[1]) # 0 => \E k \in 0 .. 27 : /\ MXScale(x) = 2^k
                                                      /\ k = IF Exponent(AbsMax(x[1])) <= 2 THEN 0
                                                             ELSE Exponent(AbsMax(x[1])) - 2
             /\ b.q = [j \in DOMAIN x |-> [i \in DOMAIN x[j] |-> MXCode(MXScale(x), Sane(x[j][i]))]]
             /\ \A v : MXCode(MXScale(x), v) \in 0 .. 15
  <1> DEFINE b == compressFP32ToMXFP4(x)
             A == AbsMax(x[1])
             s == MXScale(x)
  <1>1. A \in Nat
    <2>1. x[1] \in Seq(Number) /\ x[1] # <<>>
      BY BlockParts, Zenon
    <2> QED
      BY <2>1, Measures, Zenon
  <1>2. b.d = s /\ b.m = 0 /\ b.q = [j \in DOMAIN x |-> [i \in DOMAIN x[j] |-> MXCode(s, Sane(x[j][i]))]]
    BY Zenon DEF compressFP32ToMXFP4, Codes, MXCode, MXScale
  <1>3. s = IF A = 0 THEN 0 ELSE 2^Max({0, Exponent(A) - 2})
    BY Zenon DEF MXScale
  <1> HIDE DEF b, A, s
  <1>4. ASSUME A # 0
        PROVE  \E k \in 0 .. 27 : s = 2^k /\ k = IF Exponent(A) <= 2 THEN 0 ELSE Exponent(A) - 2
    <2> DEFINE e == Exponent(A)
               k == Max({0, e - 2})
    <2>1. e \in 0 .. 29
      <3>1. A > 0
        BY <1>1, <1>4, SMT
      <3> QED
        BY <1>1, <3>1, ExponentIs, Zenon
    <2> HIDE DEF e
    <2>2. k = IF 0 <= e - 2 THEN e - 2 ELSE 0
      <3>1. 0 \in Int /\ e - 2 \in Int
        BY <2>1, SMT
      <3> QED
        BY <3>1, OfTwo, Zenon
    <2>3. s = 2^k
      BY <1>3, <1>4, Zenon DEF e
    <2> HIDE DEF k
    <2>4. k \in 0 .. 27 /\ k = IF e <= 2 THEN 0 ELSE e - 2
      BY <2>1, <2>2, SMT
    <2> QED
      BY <2>3, <2>4, Zenon DEF e
  <1>5. s \in Nat
    <2>1. CASE A = 0
      BY <1>3, <2>1, SMT
    <2>2. CASE A # 0
      <3>1. PICK k \in 0 .. 27 : s = 2^k
        BY <1>4, <2>2, Zenon
      <3>2. k \in 0 .. 29
        BY <3>1, SMT
      <3> QED
        BY <3>1, <3>2, ScalePowers, Zenon
    <2> QED
      BY <2>1, <2>2, Zenon
  <1>6. ASSUME NEW v
        PROVE  MXCode(s, v) \in 0 .. 15
    <2>1. NearestE2M1(v, s) \in 0 .. 15 /\ 0 \in 0 .. 15 /\ 8 \in 0 .. 15
      BY NearestE2M1Is, SMT
    <2> QED
      BY <2>1, Zenon DEF MXCode
  <1> QED
    BY <1>1, <1>2, <1>4, <1>5, <1>6, Zenon DEF b, A, s

(* q has a code for every number of x. *)
SameShape(x, q) ==
  q = [j \in DOMAIN x |-> q[j]] /\ \A j \in DOMAIN x : q[j] = [i \in DOMAIN x[j] |-> q[j][i]]

(* What has the shape of a block and numbers for elements is a block. *)
LEMMA DecodedNumbers ==
  ASSUME NEW x \in Blocks, NEW q, SameShape(x, q),
         NEW y, SameShape(q, y), \A j \in DOMAIN q : \A i \in DOMAIN q[j] : y[j][i] \in Number
  PROVE  y \in Blocks
  <1>1. DOMAIN q = DOMAIN x /\ \A j \in DOMAIN x : DOMAIN q[j] = DOMAIN x[j]
    BY Zenon DEF SameShape
  <1>2. /\ y = [j \in DOMAIN x |-> y[j]]
        /\ \A j \in DOMAIN x : y[j] = [i \in DOMAIN x[j] |-> y[j][i]]
        /\ \A j \in DOMAIN x : \A i \in DOMAIN x[j] : y[j][i] \in Number
    BY <1>1, Zenon DEF SameShape
  <1> QED
    BY <1>2, BlockOfNumbers, Zenon

-----------------------------------------------------------------------------
(* FP16 numbers: rounding one again changes nothing. *)

(* The numbers with eleven significant bits, and the largest binade, which *)
(* has no end here.                                                        *)
Top == 2048      \* 2^11
Significant(d) == \E e \in 0 .. 7 : \E c \in Nat : d = c * Pow(e) /\ (e = 7 \/ c <= Top)

(* The powers of two of a number with eleven bits. *)
LEMMA ElevenBits ==
  ASSUME NEW e \in 0 .. 7
  PROVE  Pow(e) \in Nat /\ Pow(e) > 0 /\ 2^(11 + e) = Top * Pow(e)
  <1>0. CASE e = 0  BY <1>0, SMT DEF Pow, Top
  <1>1. CASE e = 1  BY <1>1, SMT DEF Pow, Top
  <1>2. CASE e = 2  BY <1>2, SMT DEF Pow, Top
  <1>3. CASE e = 3  BY <1>3, SMT DEF Pow, Top
  <1>4. CASE e = 4  BY <1>4, SMT DEF Pow, Top
  <1>5. CASE e = 5  BY <1>5, SMT DEF Pow, Top
  <1>6. CASE e = 6  BY <1>6, SMT DEF Pow, Top
  <1>7. CASE e = 7  BY <1>7, SMT DEF Pow, Top
  <1> QED
    BY <1>0, <1>1, <1>2, <1>3, <1>4, <1>5, <1>6, <1>7, SMT

(* A smaller power divides a larger one. *)
LEMMA PowersDivide ==
  ASSUME NEW j \in 0 .. 7, NEW k \in 0 .. 7, j <= k
  PROVE  \E c \in Nat : c > 0 /\ Pow(k) = c * Pow(j)
  <1>1. /\ Pow(0) = 1 /\ Pow(1) = 2 /\ Pow(2) = 4 /\ Pow(3) = 8 /\ Pow(4) = 16 /\ Pow(5) = 32
        /\ Pow(6) = 64 /\ Pow(7) = 128
    BY SMT DEF Pow
  <1>2. Pow(k - j) \in Nat /\ Pow(k - j) > 0 /\ Pow(k) = Pow(k - j) * Pow(j)
    <2>0. CASE j = 0  BY <1>1, <2>0, SMT
    <2>1. CASE j = 1  BY <1>1, <2>1, SMT
    <2>2. CASE j = 2  BY <1>1, <2>2, SMT
    <2>3. CASE j = 3  BY <1>1, <2>3, SMT
    <2>4. CASE j = 4  BY <1>1, <2>4, SMT
    <2>5. CASE j = 5  BY <1>1, <2>5, SMT
    <2>6. CASE j = 6  BY <1>1, <2>6, SMT
    <2>7. CASE j = 7  BY <1>1, <2>7, SMT
    <2> QED
      BY <2>0, <2>1, <2>2, <2>3, <2>4, <2>5, <2>6, <2>7, SMT
  <1> QED
    BY <1>2, Zenon

(* What RoundSignificant returns has eleven significant bits, and is not   *)
(* zero if the quotient is at least one.                                   *)
LEMMA RoundedSignificant ==
  ASSUME NEW p \in Nat, NEW q \in Nat, q > 0
  PROVE  /\ Significant(RoundSignificant(p, q, 11))
         /\ p >= q => RoundSignificant(p, q, 11) > 0
  <1> DEFINE e == Exp(p, q, 11)
             P == Pow(e)
             u == q * P
             c == HalfEven(p, u)
             r == RoundSignificant(p, q, 11)
  <1>1. /\ e \in 0 .. 7 /\ r = c * P
        /\ \A k \in 0 .. 7 : p < q * 2^(11 + k) => e <= k
        /\ e = 7 \/ p < q * 2^(11 + e)
    BY HalfExpIs, Zenon
  <1>2. P \in Nat /\ P > 0 /\ 2^(11 + e) = Top * P
    BY <1>1, ElevenBits, Zenon
  <1>3. u \in Nat /\ u > 0
    <2> HIDE DEF P
    <2> QED
      BY <1>2, Z3
  <1>4. c \in Int /\ 2 * (c * u) <= 2 * p + u /\ 2 * p - u <= 2 * (c * u)
    <2> HIDE DEF u
    <2> QED
      BY <1>3, HalfEvenIs, SMT
  <1>5. r \in Nat
    BY ElevenBitsNatural, Zenon
  <1>6. e # 7 => p < Top * u
    <2> SUFFICES ASSUME e # 7 PROVE p < Top * u
      OBVIOUS
    <2>1. p < q * (Top * P)
      BY <1>1, <1>2, Zenon
    <2> HIDE DEF P
    <2>2. q * (Top * P) = Top * u
      BY <1>2, Z3 DEF Top
    <2> QED
      BY <2>1, <2>2, Zenon
  <1>7. p >= q => p >= u
    <2> SUFFICES ASSUME p >= q PROVE p >= u
      OBVIOUS
    <2>1. CASE e = 0
      <3>1. P = 1
        <4> HIDE DEF e
        <4>1. Pow(0) = 1
          BY SMT DEF Pow
        <4> QED
          BY <2>1, <4>1, Zenon
      <3> HIDE DEF P
      <3> QED
        BY <3>1, Z3
    <2>2. CASE e # 0
      <3>0. e - 1 \in 0 .. 7 /\ e - 1 \in 0 .. 10 /\ e = (e - 1) + 1 /\ ~(e <= e - 1)
        BY <1>1, <2>2, SMT
      <3> DEFINE Q == Pow(e - 1)
      <3>1. ~(p < q * 2^(11 + (e - 1)))
        BY <1>1, <3>0, Zenon
      <3>2. Q \in Nat /\ Q > 0 /\ 2^(11 + (e - 1)) = Top * Q
        BY <3>0, ElevenBits, Zenon
      <3>3. P = 2 * Q
        BY <3>0, Powers, SMT
      <3>4. ~(p < q * (Top * Q))
        BY <3>1, <3>2, Zenon
      <3> HIDE DEF P, Q
      <3>5. q * (Top * Q) = 1024 * u
        BY <1>2, <3>2, <3>3, Z3 DEF Top
      <3> QED
        BY <1>3, <3>4, <3>5, SMT
    <2> QED
      BY <2>1, <2>2, Zenon
  <1> HIDE DEF e, u, r, c, P
  <1>8. e # 7 => c <= Top
    <2> SUFFICES ASSUME e # 7, c >= Top + 1 PROVE FALSE
      BY <1>4, SMT DEF Top
    <2>1. c * u >= (Top + 1) * u /\ c * u \in Int
      BY <1>3, <1>4, Z3 DEF Top
    <2> QED
      BY <1>3, <1>4, <1>6, <2>1, SMT DEF Top
  <1>9. c \in Nat
    <2> SUFFICES ASSUME c <= -1 PROVE FALSE
      BY <1>4, SMT
    <2>1. c * u <= -u /\ c * u \in Int
      BY <1>3, <1>4, Z3
    <2> QED
      BY <1>3, <1>4, <2>1, SMT
  <1>10. p >= u => c > 0
    <2> SUFFICES ASSUME p >= u, c = 0 PROVE FALSE
      BY <1>9, SMT
    <2>1. c * u = 0
      BY <1>3, <1>4, Z3
    <2> QED
      BY <1>3, <1>4, <2>1, SMT
  <1>11. c > 0 => r > 0
    BY <1>1, <1>2, <1>4, Z3
  <1>12. Significant(r)
    BY <1>1, <1>8, <1>9, Zenon DEF Significant, P
  <1> QED
    BY <1>7, <1>10, <1>11, <1>12, Zenon DEF r

(* A number with eleven significant bits is not changed. *)
LEMMA SignificantKept ==
  ASSUME NEW d \in Nat, Significant(d), NEW n \in Nat, n > 0
  PROVE  RoundSignificant(n * d, n, 11) = d
  <1>1. PICK e \in 0 .. 7, c \in Nat : d = c * Pow(e) /\ (e = 7 \/ c <= Top)
    BY Zenon DEF Significant
  <1> DEFINE g == Exp(n * d, n, 11)
             r == RoundSignificant(n * d, n, 11)
             N == n * d
  <1>2. /\ g \in 0 .. 7 /\ r = HalfEven(N, n * Pow(g)) * Pow(g)
        /\ \A k \in 0 .. 7 : N < n * 2^(11 + k) => g <= k
    BY HalfExpIs, Zenon
  <1>3. Pow(g) \in Nat /\ Pow(g) > 0
    BY <1>2, ElevenBits, Zenon
  <1> HIDE DEF g, r
  <1>4. \E f \in Nat : d = f * Pow(g)
    <2>1. CASE g <= e
      <3>1. PICK f \in Nat : Pow(e) = f * Pow(g)
        BY <1>2, <2>1, PowersDivide, Zenon
      <3> DEFINE P == Pow(g)
                 Q == Pow(e)
      <3>2. P \in Nat /\ Q = f * P /\ d = c * Q
        BY <1>1, <1>3, <3>1, Zenon
      <3> HIDE DEF P, Q
      <3>3. d = (c * f) * P /\ c * f \in Nat
        BY <3>2, Z3
      <3> QED
        BY <3>3, Zenon DEF P
    <2>2. CASE ~(g <= e)
      <3>1. e # 7 /\ e + 1 \in 0 .. 7 /\ e \in 0 .. 10
        BY <1>2, <2>2, SMT
      <3> DEFINE P == Pow(e)
                 Q == Pow(e + 1)
      <3>13. Q = 2 * P
        BY <3>1, Powers, SMT
      <3>2. P \in Nat /\ P > 0 /\ 2^(11 + e) = Top * P /\ 2^(11 + (e + 1)) = Top * Q /\ Q = 2 * P
        BY <3>1, <3>13, ElevenBits, Zenon
      <3>3. d = c * P /\ c <= Top
        BY <1>1, <3>1, Zenon
      <3>4. ~(N < n * (Top * P)) /\ (N < n * (Top * Q) => g <= e + 1)
        BY <1>2, <2>2, <3>1, <3>2, Zenon
      <3> HIDE DEF P, Q, N
      <3>5. d <= Top * P
        BY <3>2, <3>3, Z3 DEF Top
      <3> DEFINE T == Top * P
      <3>6. T \in Nat /\ T > 0 /\ Top * Q = 2 * T /\ d <= T
        BY <3>2, <3>5, SMT DEF Top
      <3>7. N = n * d
        BY Zenon DEF N
      <3>8. ~(N < n * T) /\ (N < n * (2 * T) => g <= e + 1)
        BY <3>4, <3>6, Zenon
      <3> HIDE DEF T
      <3>9. d = T
        <4>1. ~(d < T)
          BY <3>6, <3>7, <3>8, Z3
        <4> QED
          BY <3>6, <4>1, SMT
      <3>10. N < n * (2 * T)
        BY <3>6, <3>7, <3>9, Z3
      <3>11. g = e + 1
        BY <1>2, <2>2, <3>8, <3>10, SMT
      <3>12. d = 1024 * Q
        BY <3>2, <3>6, <3>9, SMT DEF Top
      <3> QED
        BY <3>11, <3>12, SMT DEF Q
    <2> QED
      BY <2>1, <2>2, Zenon
  <1>5. PICK f \in Nat : d = f * Pow(g)
    BY <1>4
  <1> DEFINE P == Pow(g)
             u == n * P
  <1>6. u \in Nat /\ u > 0
    <2>1. P \in Nat /\ P > 0
      BY <1>3
    <2> HIDE DEF P
    <2> QED
      BY <2>1, Z3
  <1>7. N = f * u
    <2>1. P \in Nat /\ d = f * P
      BY <1>3, <1>5, Zenon
    <2> HIDE DEF P
    <2> QED
      BY <2>1, Z3
  <1> HIDE DEF N, u
  <1>8. HalfEven(N, u) = f
    BY <1>6, <1>7, WholeQuotient, SMT
  <1>9. r = f * P
    BY <1>2, <1>8, Zenon DEF u
  <1> QED
    BY <1>5, <1>9, Zenon DEF r, P, N

(* HalfMax is such a number. *)
LEMMA HalfMaxSignificant ==
  Significant(HalfMax) /\ HalfMax \in Nat /\ HalfMax > 0
  <1>1. HalfMax \in Nat /\ HalfMax > 0
    BY NumbersAssumption, SMT
  <1>2. Significant(RoundSignificant(HalfMax, 1, 11))
    BY <1>1, RoundedSignificant, SMT
  <1> QED
    BY <1>1, <1>2, HalfAssumption, Zenon

(* What fp32ToFP16Safe makes of a magnitude. *)
LEMMA HalfOfSignificant ==
  ASSUME NEW a \in Nat, NEW b \in Nat, b > 0
  PROVE  /\ HalfOf(a, b) \in Nat /\ Significant(HalfOf(a, b)) /\ HalfOf(a, b) <= HalfMax
         /\ a >= b => HalfOf(a, b) > 0
         /\ a = 0 => HalfOf(a, b) = 0
  <1> DEFINE s == RoundSignificant(a, b, 11)
             r == HalfOf(a, b)
  <1>1. s \in Nat /\ Significant(s) /\ (a >= b => s > 0)
    BY ElevenBitsNatural, RoundedSignificant, Zenon
  <1>2. HalfMax \in Nat /\ HalfMax > 0 /\ Significant(HalfMax)
    BY HalfMaxSignificant, Zenon
  <1>3. Significant(0) /\ Significant(1)
    <2>1. 0 \in 0 .. 7 /\ Pow(0) = 1 /\ 0 \in Nat /\ 1 \in Nat
      BY SMT DEF Pow
    <2>2. 0 = 0 * Pow(0) /\ 1 = 1 * Pow(0) /\ 0 <= Top /\ 1 <= Top
      BY <2>1, SMT DEF Top
    <2> QED
      BY <2>1, <2>2, Zenon DEF Significant
  <1>4. Min({s, HalfMax}) = IF s <= HalfMax THEN s ELSE HalfMax
    <2> HIDE DEF s
    <2>1. s \in Int /\ HalfMax \in Int
      BY <1>1, <1>2, SMT
    <2> QED
      BY <2>1, OfTwo, Zenon
  <1>5. r = IF 4 * a < b THEN 0 ELSE IF 2 * a < b THEN 1 ELSE IF s <= HalfMax THEN s ELSE HalfMax
    BY <1>4, Zenon DEF HalfOf
  <1>6. r \in {0, 1, s, HalfMax}
    BY <1>5, Zenon
  <1> HIDE DEF r, s
  <1>7. r \in Nat /\ r <= HalfMax
    BY <1>1, <1>2, <1>5, SMT
  <1>8. Significant(r)
    BY <1>1, <1>2, <1>3, <1>6, Zenon
  <1>9. (a >= b => r > 0) /\ (a = 0 => r = 0)
    BY <1>1, <1>2, <1>5, SMT
  <1> QED
    BY <1>7, <1>8, <1>9, Zenon DEF r

(* An FP16 magnitude, times n and over n, is itself. *)
LEMMA HalfOfKept ==
  ASSUME NEW d \in Nat, Significant(d), d <= HalfMax, NEW n \in Nat, n > 0
  PROVE  HalfOf(n * d, n) = d
  <1> DEFINE N == n * d
             s == RoundSignificant(N, n, 11)
  <1>1. s = d
    BY SignificantKept, Zenon
  <1>2. Min({s, HalfMax}) = d
    <2>1. d \in Int /\ HalfMax \in Int
      BY HalfMaxSignificant, SMT
    <2> QED
      BY <1>1, <2>1, OfTwo, Zenon
  <1>3. HalfOf(N, n) = IF 4 * N < n THEN 0 ELSE IF 2 * N < n THEN 1 ELSE d
    BY <1>2, Zenon DEF HalfOf
  <1>4. CASE d = 0
    <2>1. N = 0
      BY <1>4, Z3
    <2> HIDE DEF N
    <2>2. 4 * N < n
      BY <2>1, SMT
    <2> QED
      BY <1>3, <1>4, <2>2, SMT DEF N
  <1>5. CASE d # 0
    <2>1. N >= n /\ N \in Int
      BY <1>5, Z3
    <2> HIDE DEF N
    <2>2. ~(4 * N < n) /\ ~(2 * N < n)
      BY <2>1, SMT
    <2> QED
      BY <1>3, <2>2, SMT DEF N
  <1> QED
    BY <1>4, <1>5, Zenon

(* fp32ToFP16Safe, of n times an FP16 number over n. *)
LEMMA HalfAgain ==
  ASSUME NEW p \in Int, NEW q \in Int, q # 0, NEW n \in Int, n # 0
  PROVE  /\ Half(n * Half(p, q), n) = Half(p, q) /\ Half(p, q) \in Int
         /\ Half(p, q) <= HalfMax /\ -HalfMax <= Half(p, q)
         /\ p = 0 => Half(p, q) = 0
         /\ (p < 0) = (q < 0) => Half(p, q) >= 0
         /\ (p < 0) # (q < 0) => Half(p, q) <= 0
  <1> DEFINE d == Half(p, q)
             r == HalfOf(Abs(p), Abs(q))
             N == n * d
  <1>1. Abs(p) \in Nat /\ Abs(q) \in Nat /\ Abs(q) > 0 /\ Abs(n) \in Nat /\ Abs(n) > 0
    BY AbsIs, SMT
  <1>2. r \in Nat /\ Significant(r) /\ r <= HalfMax /\ (Abs(p) = 0 => r = 0)
    BY <1>1, HalfOfSignificant, Zenon
  <1>3. d = IF (p < 0) = (q < 0) THEN r ELSE -r
    BY HalfIs, Zenon
  <1>4. HalfOf(Abs(n) * r, Abs(n)) = r
    BY <1>1, <1>2, HalfOfKept, Zenon
  <1>5. p = 0 => r = 0
    BY <1>2, SMT DEF Abs
  <1> HIDE DEF d, r
  <1>6. d \in Int /\ HalfMax \in Nat
    BY <1>2, <1>3, HalfMaxSignificant, SMT
  <1>7. N \in Int
    BY <1>6, Z3
  <1>8. Abs(N) = Abs(n) * r
    BY <1>2, <1>3, Z3 DEF Abs
  <1>9. Half(N, n) = IF (N < 0) = (n < 0) THEN r ELSE -r
    <2>1. Half(N, n) = IF (N < 0) = (n < 0) THEN HalfOf(Abs(N), Abs(n)) ELSE -HalfOf(Abs(N), Abs(n))
      BY <1>7, HalfIs, Zenon
    <2> QED
      BY <1>4, <1>8, <2>1, Zenon
  <1>10. (d > 0 => ((N < 0) <=> (n < 0))) /\ (d < 0 => ~((N < 0) <=> (n < 0)))
    BY <1>6, Z3
  <1> HIDE DEF N
  <1>11. Half(N, n) = d
    BY <1>2, <1>3, <1>6, <1>9, <1>10, SMT
  <1> QED
    BY <1>2, <1>3, <1>5, <1>6, <1>11, SMT DEF d, N

-----------------------------------------------------------------------------
(* The signs of a codebook format. *)

(* One lane more or less turns an odd number of lanes into an even one. *)
LEMMA OneLane ==
  ASSUME NEW N \in SUBSET Lanes, NEW i \in Lanes
  PROVE  /\ Cardinality(N) \in Nat
         /\ i \in N => Cardinality(N \ {i}) = Cardinality(N) - 1
         /\ i \notin N => Cardinality(N \cup {i}) = Cardinality(N) + 1
  <1>1. IsFiniteSet(Lanes)
    <2>1. 0 \in Int /\ 7 \in Int
      BY SMT
    <2> QED
      BY <2>1, FS_Interval, Zenon DEF Lanes
  <1>2. IsFiniteSet(N)
    BY <1>1, FS_Subset, Zenon
  <1>3. Cardinality(N) \in Nat
    BY <1>2, FS_CardinalityType, Zenon
  <1>4. i \in N => Cardinality(N \ {i}) = Cardinality(N) - 1
    BY <1>2, FS_RemoveElement, Zenon
  <1>5. i \notin N => Cardinality(N \cup {i}) = Cardinality(N) + 1
    BY <1>2, FS_AddElement, Zenon
  <1> QED
    BY <1>3, <1>4, <1>5, Zenon

(* ksigns_iq2xs restores the eighth sign of an even number of signs. *)
LEMMA EighthSign ==
  ASSUME NEW S \in SUBSET Lanes, Cardinality(S) % 2 = 0
  PROVE  ksigns_iq2xs(S \ {7}) = S
  <1>0. 7 \in Lanes
    BY SMT DEF Lanes
  <1>1. CASE 7 \in S
    <2>1. Cardinality(S) \in Nat /\ Cardinality(S \ {7}) = Cardinality(S) - 1
      BY <1>0, <1>1, OneLane, Zenon
    <2>2. Cardinality(S \ {7}) % 2 = 1
      BY <2>1, SMT
    <2>3. (S \ {7}) \cup {7} = S
      BY <1>1, Zenon
    <2> QED
      BY <2>2, <2>3, Zenon DEF ksigns_iq2xs
  <1>2. CASE 7 \notin S
    <2>1. S \ {7} = S
      BY <1>2, Zenon
    <2>2. Cardinality(S) % 2 # 1
      BY SMT
    <2> QED
      BY <2>1, <2>2, Zenon DEF ksigns_iq2xs
  <1> QED
    BY <1>1, <1>2, Zenon

(* The first of the smallest lanes is one of the smallest. *)
LEMMA SmallestLane ==
  ASSUME NEW y \in [1 .. 8 -> Number]
  PROVE  /\ FirstSmallest(y) \in Lanes
         /\ \A k \in 1 .. 8 : Abs(Sane(y[FirstSmallest(y) + 1])) <= Abs(Sane(y[k]))
         /\ Abs(Sane(y[FirstSmallest(y) + 1])) = Min({Abs(Sane(y[k])) : k \in 1 .. 8})
  <1> DEFINE F == {i \in Lanes : \A k \in Lanes : Abs(Sane(y[i + 1])) <= Abs(Sane(y[k + 1]))}
             M == {Abs(Sane(y[k])) : k \in 1 .. 8}
  <1>1. \A k \in 1 .. 8 : Abs(Sane(y[k])) \in Nat
    <2>1. \A k \in 1 .. 8 : y[k] \in Number
      BY SMT
    <2> QED
      BY <2>1, SaneIs, Zenon
  <1>2. Min(M) \in M /\ (\A m \in M : Min(M) <= m) /\ M \in SUBSET Int
    <2>1. IsFiniteSet(1 .. 8) /\ 1 \in 1 .. 8
      <3>1. 8 \in Nat /\ 8 > 0
        BY SMT
      <3> QED
        BY <3>1, IndexSet, Zenon
    <2> DEFINE f == [k \in 1 .. 8 |-> Abs(Sane(y[k]))]
               G == {f[k] : k \in 1 .. 8}
    <2>2. G = M
      BY Zenon
    <2>3. f = [k \in 1 .. 8 |-> f[k]]
      BY Zenon
    <2> HIDE DEF f
    <2>4. IsFiniteSet(G)
      BY <2>1, <2>3, ImageFinite, Zenon
    <2>5. M \in SUBSET Nat /\ M # {}
      BY <1>1, <2>1, Zenon
    <2> HIDE DEF G, M
    <2>6. M \in SUBSET Int
      BY <2>5, SMT
    <2> QED
      BY <2>2, <2>4, <2>5, <2>6, MinIs, Zenon
  <1>3. PICK k \in 1 .. 8 : Min(M) = Abs(Sane(y[k]))
    BY <1>2, Zenon
  <1>4. \A m \in 1 .. 8 : Abs(Sane(y[k])) <= Abs(Sane(y[m]))
    BY <1>2, <1>3, Zenon
  <1>5. k - 1 \in F
    <2>1. k - 1 \in Lanes /\ (k - 1) + 1 = k /\ \A m \in Lanes : m + 1 \in 1 .. 8
      BY SMT DEF Lanes
    <2>2. \A m \in Lanes : Abs(Sane(y[k])) <= Abs(Sane(y[m + 1]))
      BY <1>4, <2>1, Zenon
    <2> QED
      BY <2>1, <2>2, Zenon
  <1>6. FirstSmallest(y) \in F
    <2>1. F \in SUBSET (0 .. 7) /\ F # {} /\ 7 \in Nat
      <3>1. F \in SUBSET Lanes /\ F # {}
        BY <1>5, Zenon
      <3> HIDE DEF F
      <3> QED
        BY <3>1, SMT DEF Lanes
    <2>2. FirstSmallest(y) = Min(F)
      BY Zenon DEF FirstSmallest
    <2> HIDE DEF F
    <2> QED
      BY <2>1, <2>2, SmallestOfInterval, Zenon
  <1> DEFINE s == FirstSmallest(y)
  <1>7. s \in Lanes /\ \A m \in Lanes : Abs(Sane(y[s + 1])) <= Abs(Sane(y[m + 1]))
    BY <1>6, Zenon
  <1> HIDE DEF s
  <1>8. \A m \in 1 .. 8 : Abs(Sane(y[s + 1])) <= Abs(Sane(y[m]))
    <2> TAKE m \in 1 .. 8
    <2>1. m - 1 \in Lanes /\ (m - 1) + 1 = m
      BY SMT DEF Lanes
    <2> QED
      BY <1>7, <2>1, Zenon
  <1>9. s + 1 \in 1 .. 8
    BY <1>7, SMT DEF Lanes
  <1>10. Abs(Sane(y[s + 1])) = Abs(Sane(y[k]))
    <2> DEFINE a == Abs(Sane(y[s + 1]))
               b == Abs(Sane(y[k]))
    <2>1. a \in Nat /\ b \in Nat /\ a <= b /\ b <= a
      BY <1>1, <1>4, <1>8, <1>9, Zenon
    <2> HIDE DEF a, b
    <2>2. a = b
      BY <2>1, SMT
    <2> QED
      BY <2>2, Zenon DEF a, b
  <1> QED
    BY <1>3, <1>7, <1>8, <1>10, Zenon DEF s, M

(* What is read of the signs an encoder stores is what it took them for:   *)
(* the signs of the lanes, but for one of the smallest when their number   *)
(* is odd and has to be even.                                              *)
LEMMA SignsReadBack ==
  ASSUME NEW fmt, GridKinds[fmt].parity \in BOOLEAN, NEW y \in [1 .. 8 -> Number]
  PROVE  /\ SignsOf(fmt, y) \in SUBSET Lanes
         /\ SignsRead(fmt, StoredSigns(fmt, y)) = SignsOf(fmt, y)
         /\ SymDiff(Negative(y), SignsOf(fmt, y))
              = IF GridKinds[fmt].parity /\ Cardinality(Negative(y)) % 2 = 1
                THEN {FirstSmallest(y)} ELSE {}
  <1> DEFINE N == Negative(y)
             S == SignsOf(fmt, y)
             f == FirstSmallest(y)
             odd == GridKinds[fmt].parity /\ Cardinality(N) % 2 = 1
  <1>1. N \in SUBSET Lanes /\ f \in Lanes
    BY SmallestLane, Zenon DEF Negative
  <1>2. S = IF odd THEN SymDiff(N, {f}) ELSE N
    BY Zenon DEF SignsOf
  <1>3. StoredSigns(fmt, y) = IF GridKinds[fmt].parity THEN S \ {7} ELSE S
    BY Zenon DEF StoredSigns
  <1> HIDE DEF N, S, f
  <1>4. S \in SUBSET Lanes
    BY <1>1, <1>2, Zenon DEF SymDiff
  <1>5. SymDiff(N, S) = IF odd THEN {f} ELSE {}
    BY <1>2, Zenon DEF SymDiff
  <1>6. ASSUME GridKinds[fmt].parity PROVE Cardinality(S) % 2 = 0
    <2>0. Cardinality(N) \in Nat
      BY <1>1, OneLane, Zenon
    <2>1. CASE odd /\ f \in N
      <3>1. S = N \ {f}
        BY <1>2, <2>1, Zenon DEF SymDiff
      <3>2. Cardinality(S) = Cardinality(N) - 1
        BY <1>1, <2>1, <3>1, OneLane, Zenon
      <3> QED
        BY <2>0, <2>1, <3>2, SMT
    <2>2. CASE odd /\ f \notin N
      <3>1. S = N \cup {f}
        BY <1>2, <2>2, Zenon DEF SymDiff
      <3>2. Cardinality(S) = Cardinality(N) + 1
        BY <1>1, <2>2, <3>1, OneLane, Zenon
      <3> QED
        BY <2>0, <2>2, <3>2, SMT
    <2>3. CASE ~odd
      <3>1. S = N /\ Cardinality(N) % 2 # 1
        BY <1>2, <1>6, <2>3, Zenon
      <3> QED
        BY <2>0, <3>1, SMT
    <2> QED
      BY <2>1, <2>2, <2>3, Zenon
  <1>7. SignsRead(fmt, StoredSigns(fmt, y)) = S
    <2>1. CASE GridKinds[fmt].parity
      <3>1. ksigns_iq2xs(S \ {7}) = S
        BY <1>4, <1>6, <2>1, EighthSign, Zenon
      <3> QED
        BY <1>3, <2>1, <3>1, Zenon DEF SignsRead
    <2>2. CASE ~GridKinds[fmt].parity
      BY <1>3, <2>2, Zenon DEF SignsRead
    <2> QED
      BY <2>1, <2>2, Zenon
  <1> QED
    BY <1>4, <1>5, <1>7, Zenon DEF N, S, f

Magnitude == Nat \ {0}

(* An entry spelled out for its first lanes and repeating one value after. *)
LEMMA EntryIs ==
  ASSUME NEW s \in Seq(Magnitude), NEW n \in Nat, NEW v \in Magnitude, NEW w, Len(s) + n = w
  PROVE  s \o Repeat(v, n) \in Seq(Magnitude) /\ Len(s \o Repeat(v, n)) = w
  <1> DEFINE r == Repeat(v, n)
  <1>1. r = [i \in 1 .. n |-> r[i]] /\ \A i \in 1 .. n : r[i] \in Magnitude
    BY Zenon DEF Repeat
  <1> HIDE DEF r
  <1>2. r \in Seq(Magnitude) /\ Len(r) = n
    BY <1>1, SequenceOf, Zenon
  <1>3. s \o r \in Seq(Magnitude) /\ Len(s \o r) = w
    BY <1>2, SMT
  <1> QED
    BY <1>3, Zenon DEF r

(* An entry that repeats one value in every lane. *)
LEMMA UniformEntry ==
  ASSUME NEW S, NEW n \in Nat, NEW v \in S
  PROVE  Repeat(v, n) \in Seq(S) /\ Len(Repeat(v, n)) = n
  <1> DEFINE r == Repeat(v, n)
  <1>1. r = [i \in 1 .. n |-> r[i]] /\ \A i \in 1 .. n : r[i] \in S
    BY Zenon DEF Repeat
  <1> HIDE DEF r
  <1>2. r \in Seq(S) /\ Len(r) = n
    BY <1>1, SequenceOf, Zenon
  <1> QED
    BY <1>2, Zenon DEF r

(* The entries of a codebook of magnitudes are positive in every lane. *)
LEMMA EntriesPositive ==
  ASSUME NEW fmt \in DOMAIN GridKinds, fmt \notin SignedGrids
  PROVE  \E n \in Nat : /\ n > 0 /\ DOMAIN Codebook(fmt) = 1 .. n
                        /\ \A k \in 1 .. n : \A i \in 1 .. GridKinds[fmt].width :
                             Codebook(fmt)[k][i] \in Magnitude
  <1> DEFINE Book(g, w, n) ==
               /\ n \in Nat /\ n > 0 /\ DOMAIN g = 1 .. n
               /\ \A k \in 1 .. n : g[k] \in Seq(Magnitude) /\ Len(g[k]) = w
  <1>0. /\ \A v \in {1, 3, 4, 5, 8, 11, 12, 15, 20, 25, 36, 43} : v \in Magnitude
        /\ 5 \in Nat /\ 6 \in Nat /\ 7 \in Nat /\ 8 \in Nat /\ 4 \in Nat
    BY SMT DEF Magnitude
  <1>1. Book(IQ2Grid, 8, 4)
    <2>1. Repeat(8, 8) \in Seq(Magnitude) /\ Len(Repeat(8, 8)) = 8
      BY <1>0, UniformEntry, ZenonT(60)
    <2>2. /\ <<43>> \o Repeat(8, 7) \in Seq(Magnitude) /\ Len(<<43>> \o Repeat(8, 7)) = 8
      <3> DEFINE t == <<43>>
      <3>1. t \in Seq(Magnitude) /\ Len(t) + 7 = 8
        BY SMT DEF Magnitude
      <3> HIDE DEF t
      <3>3. 8 \in Magnitude /\ 7 \in Nat
        BY <1>0, Zenon
      <3>2. t \o Repeat(8, 7) \in Seq(Magnitude) /\ Len(t \o Repeat(8, 7)) = 8
        BY <3>1, <3>3, EntryIs, Zenon
      <3> QED
        BY <3>2, Zenon DEF t
    <2>3. /\ <<25, 25>> \o Repeat(8, 6) \in Seq(Magnitude) /\ Len(<<25, 25>> \o Repeat(8, 6)) = 8
      <3> DEFINE t == <<25, 25>>
      <3>1. t \in Seq(Magnitude) /\ Len(t) + 6 = 8
        BY SMT DEF Magnitude
      <3> HIDE DEF t
      <3>3. 8 \in Magnitude /\ 6 \in Nat
        BY <1>0, Zenon
      <3>2. t \o Repeat(8, 6) \in Seq(Magnitude) /\ Len(t \o Repeat(8, 6)) = 8
        BY <3>1, <3>3, EntryIs, Zenon
      <3> QED
        BY <3>2, Zenon DEF t
    <2>4. /\ <<25, 8, 25>> \o Repeat(8, 5) \in Seq(Magnitude) /\ Len(<<25, 8, 25>> \o Repeat(8, 5)) = 8
      <3> DEFINE t == <<25, 8, 25>>
      <3>1. t \in Seq(Magnitude) /\ Len(t) + 5 = 8
        BY SMT DEF Magnitude
      <3> HIDE DEF t
      <3>3. 8 \in Magnitude /\ 5 \in Nat
        BY <1>0, Zenon
      <3>2. t \o Repeat(8, 5) \in Seq(Magnitude) /\ Len(t \o Repeat(8, 5)) = 8
        BY <3>1, <3>3, EntryIs, Zenon
      <3> QED
        BY <3>2, Zenon DEF t
    <2> DEFINE a == Repeat(8, 8)
               b == <<43>> \o Repeat(8, 7)
               c == <<25, 25>> \o Repeat(8, 6)
               d == <<25, 8, 25>> \o Repeat(8, 5)
    <2>5. IQ2Grid = <<a, b, c, d>>
      BY Zenon DEF IQ2Grid
    <2> HIDE DEF a, b, c, d
    <2>6. DOMAIN <<a, b, c, d>> = 1 .. 4 /\ 4 > 0
      BY SMT
    <2>7. \A k \in 1 .. 4 : <<a, b, c, d>>[k] \in {a, b, c, d}
      BY SMT
    <2>8. \A e \in {a, b, c, d} : e \in Seq(Magnitude) /\ Len(e) = 8
      BY <2>1, <2>2, <2>3, <2>4, Zenon DEF a, b, c, d
    <2> QED
      BY <1>0, <2>5, <2>6, <2>7, <2>8, Zenon
  <1>2. Book(IQ3XXSGrid, 4, 4)
    <2>1. Repeat(4, 4) \in Seq(Magnitude) /\ Len(Repeat(4, 4)) = 4
      BY <1>0, UniformEntry, Zenon
    <2> DEFINE a == Repeat(4, 4)
               b == <<20, 4, 4, 4>>
               c == <<36, 4, 4, 4>>
               d == <<12, 12, 4, 4>>
    <2>2. \A e \in {b, c, d} : e \in Seq(Magnitude) /\ Len(e) = 4
      <3> DEFINE M4(e) == e \in Seq(Magnitude) /\ Len(e) = 4
      <3>1. M4(b)
        BY SMT DEF Magnitude
      <3>2. M4(c)
        BY SMT DEF Magnitude
      <3>3. M4(d)
        BY SMT DEF Magnitude
      <3> HIDE DEF b, c, d
      <3> QED
        BY <3>1, <3>2, <3>3, Zenon
    <2>5. IQ3XXSGrid = <<a, b, c, d>>
      BY Zenon DEF IQ3XXSGrid
    <2> HIDE DEF a, b, c, d
    <2>6. DOMAIN <<a, b, c, d>> = 1 .. 4 /\ 4 > 0
      BY SMT
    <2>7. \A k \in 1 .. 4 : <<a, b, c, d>>[k] \in {a, b, c, d}
      BY SMT
    <2>8. \A e \in {a, b, c, d} : e \in Seq(Magnitude) /\ Len(e) = 4
      BY <2>1, <2>2, Zenon DEF a
    <2> QED
      BY <1>0, <2>5, <2>6, <2>7, <2>8, Zenon
  <1>3. Book(IQ3SGrid, 4, 5)
    <2>1. Repeat(1, 4) \in Seq(Magnitude) /\ Len(Repeat(1, 4)) = 4
      BY <1>0, UniformEntry, Zenon
    <2> DEFINE a == Repeat(1, 4)
               b == <<3, 1, 1, 1>>
               c == <<5, 1, 1, 1>>
               d == <<11, 1, 1, 1>>
               g == <<15, 1, 1, 1>>
    <2>2. \A e \in {b, c, d, g} : e \in Seq(Magnitude) /\ Len(e) = 4
      <3> DEFINE M4(e) == e \in Seq(Magnitude) /\ Len(e) = 4
      <3>1. M4(b)
        BY SMT DEF Magnitude
      <3>2. M4(c)
        BY SMT DEF Magnitude
      <3>3. M4(d)
        BY SMT DEF Magnitude
      <3>4. M4(g)
        BY SMT DEF Magnitude
      <3> HIDE DEF b, c, d, g
      <3> QED
        BY <3>1, <3>2, <3>3, <3>4, Zenon
    <2>5. IQ3SGrid = <<a, b, c, d, g>>
      BY Zenon DEF IQ3SGrid
    <2> HIDE DEF a, b, c, d, g
    <2>6. DOMAIN <<a, b, c, d, g>> = 1 .. 5 /\ 5 > 0
      BY SMT
    <2>7. \A k \in 1 .. 5 : <<a, b, c, d, g>>[k] \in {a, b, c, d, g}
      BY SMT
    <2>8. \A e \in {a, b, c, d, g} : e \in Seq(Magnitude) /\ Len(e) = 4
      BY <2>1, <2>2, Zenon DEF a
    <2> QED
      BY <1>0, <2>5, <2>6, <2>7, <2>8, Zenon
  <1>4. ASSUME NEW g, NEW w \in Nat, NEW n, Book(g, w, n)
        PROVE  \A k \in 1 .. n : \A i \in 1 .. w : g[k][i] \in Magnitude
    <2> TAKE k \in 1 .. n
    <2> TAKE i \in 1 .. w
    <2> DEFINE s == g[k]
    <2>1. s \in Seq(Magnitude) /\ Len(s) = w
      BY <1>4, Zenon
    <2> HIDE DEF s
    <2>2. s[i] \in Magnitude
      BY <2>1, SMT
    <2> QED
      BY <2>2, Zenon DEF s
  <1> HIDE DEF Book
  <1>5. \E n : Book(Codebook(fmt), GridKinds[fmt].width, n)
    <2>1. CASE fmt \in {"IQ2_XXS", "IQ2_XS", "IQ2_S"}
      <3>1. Codebook(fmt) = IQ2Grid
        BY <2>1, SMT DEF Codebook, SignedGrids
      <3>2. GridKinds[fmt].width = 8
        BY <2>1, GridFacts, SMT
      <3> QED
        BY <1>1, <3>1, <3>2, Zenon
    <2>2. CASE fmt = "IQ3_XXS"
      <3>1. Codebook(fmt) = IQ3XXSGrid
        BY <2>2, SMT DEF Codebook, SignedGrids
      <3>2. GridKinds[fmt].width = 4
        BY <2>2, GridFacts, SMT
      <3> QED
        BY <1>2, <3>1, <3>2, Zenon
    <2>3. CASE fmt = "IQ3_S"
      <3>1. Codebook(fmt) = IQ3SGrid
        BY <2>3, SMT DEF Codebook, SignedGrids
      <3>2. GridKinds[fmt].width = 4
        BY <2>3, GridFacts, SMT
      <3> QED
        BY <1>3, <3>1, <3>2, Zenon
    <2> QED
      BY <2>1, <2>2, <2>3, KindNames, SMT DEF SignedGrids
  <1>6. PICK n : Book(Codebook(fmt), GridKinds[fmt].width, n)
    BY <1>5
  <1>7. GridKinds[fmt].width \in Nat
    <2>1. GridKinds[fmt].width \in {4, 8}
      BY GridConstants, ZenonT(60)
    <2> QED
      BY <2>1, SMT
  <1>8. n \in Nat /\ n > 0 /\ DOMAIN Codebook(fmt) = 1 .. n
    BY <1>6, Zenon DEF Book
  <1> QED
    BY <1>4, <1>6, <1>7, <1>8, Zenon

(* The squares of a vector, and the sum of two vectors.                    *)
Squares(a, n) == [i \in 1 .. n |-> a[i] * a[i]]
Plus(a, b, n) == [i \in 1 .. n |-> a[i] + b[i]]
Times(m, a, n) == [i \in 1 .. n |-> m * a[i]]

(* Squares are natural numbers.                                            *)
LEMMA SquaresAre ==
  ASSUME NEW n \in Nat, NEW a, \A i \in 1 .. n : a[i] \in Int
  PROVE  /\ Squares(a, n) \in Seq(Nat) /\ Squares(a, n) \in Seq(Int) /\ Len(Squares(a, n)) = n
         /\ Total(Squares(a, n)) \in Nat
         /\ \A i \in 1 .. n : Squares(a, n)[i] = a[i] * a[i] /\ a[i] * a[i] \in Nat
  <1> DEFINE s == Squares(a, n)
  <1>1. \A i \in 1 .. n : a[i] * a[i] \in Nat
    <2> TAKE i \in 1 .. n
    <2> DEFINE x == a[i]
    <2>1. x \in Int
      BY Zenon
    <2> HIDE DEF x
    <2>2. x * x \in Nat
      BY <2>1, Z3
    <2> QED
      BY <2>2, Zenon DEF x
  <1>2. \A i \in 1 .. n : s[i] = a[i] * a[i]
    BY Zenon DEF Squares
  <1>3. s = [i \in 1 .. n |-> s[i]]
    BY Zenon DEF Squares
  <1> HIDE DEF s
  <1>4. \A i \in 1 .. n : s[i] \in Nat
    BY <1>1, <1>2, Zenon
  <1>5. s \in Seq(Nat) /\ Len(s) = n
    BY <1>3, <1>4, SequenceOf, Zenon
  <1>6. s \in Seq(Int)
    <2>1. \A i \in 1 .. n : s[i] \in Int
      BY <1>4, SMT
    <2> QED
      BY <1>3, <2>1, SequenceOf, Zenon
  <1>7. Len(s) <= Len(s) /\ \A i \in 1 .. Len(s) : s[i] = s[i]
    BY <1>5, SMT
  <1>8. Total(s) \in Nat
    BY <1>5, <1>7, TotalOfPrefix, Zenon
  <1> QED
    BY <1>1, <1>2, <1>5, <1>6, <1>8, Zenon DEF s

(* How far the entry k of a codebook lies from the target p / unit.        *)
GridErrors(entries, p, unit, w, k) == [i \in 1 .. w |-> p[i] - entries[k][i] * unit]

(* The entry found is one of the codebook, and none lies nearer.           *)
LEMMA GridIndexLeast ==
  ASSUME NEW entries, NEW n \in Nat, n > 0, DOMAIN entries = 1 .. n, NEW w \in Nat,
         \A k \in 1 .. n : \A i \in 1 .. w : entries[k][i] \in Int,
         NEW p, DOMAIN p = 1 .. w, \A i \in 1 .. w : p[i] \in Int, NEW unit \in Int
  PROVE  LET far(k) == Total(Squares(GridErrors(entries, p, unit, w, k), w))
             best == bestGridIndex(entries, p, unit)
         IN  best \in 1 .. n /\ \A k \in 1 .. n : far(k) \in Nat /\ far(best) <= far(k)
  <1> DEFINE Error(k, i) == p[i] - entries[k][i] * unit
             squares(k) == [i \in DOMAIN p |-> Error(k, i) * Error(k, i)]
             distance == [k \in DOMAIN entries |-> Total(squares(k))]
             Nearest == {k \in DOMAIN entries : \A o \in DOMAIN entries : distance[k] <= distance[o]}
             far(k) == Total(Squares(GridErrors(entries, p, unit, w, k), w))
  <1>1. bestGridIndex(entries, p, unit) = Min(Nearest)
    BY Zenon DEF bestGridIndex
  <1>2. ASSUME NEW k \in 1 .. n PROVE distance[k] = far(k) /\ far(k) \in Nat
    <2> DEFINE e == GridErrors(entries, p, unit, w, k)
    <2>1. \A i \in 1 .. w : e[i] = Error(k, i)
      BY Zenon DEF GridErrors
    <2>2. squares(k) = Squares(e, w)
      <3>1. squares(k) = [i \in 1 .. w |-> Error(k, i) * Error(k, i)]
        BY Zenon
      <3> HIDE DEF e, Error
      <3>2. Squares(e, w) = [i \in 1 .. w |-> Error(k, i) * Error(k, i)]
        BY <2>1, Zenon DEF Squares
      <3> HIDE DEF squares
      <3> QED
        BY <3>1, <3>2, Zenon
    <2>3. \A i \in 1 .. w : e[i] \in Int
      <3> TAKE i \in 1 .. w
      <3> DEFINE a == p[i]
                 b == entries[k][i]
      <3>1. a \in Int /\ b \in Int /\ e[i] = a - b * unit
        BY <2>1, Zenon
      <3> HIDE DEF a, b, e
      <3>2. a - b * unit \in Int
        BY <3>1, Z3
      <3> QED
        BY <3>1, <3>2, Zenon
    <2> HIDE DEF e
    <2>4. Total(Squares(e, w)) \in Nat
      BY <2>3, SquaresAre, Zenon
    <2>5. distance[k] = Total(squares(k))
      BY Zenon
    <2> HIDE DEF distance, squares
    <2> QED
      BY <2>2, <2>4, <2>5, Zenon DEF e
  <1> HIDE DEF distance, far
  <1>3. \A k \in 1 .. n : distance[k] \in Nat
    BY <1>2, Zenon
  <1>4. Nearest # {}
    <2> DEFINE D == {distance[k] : k \in 1 .. n}
    <2>1. D \in SUBSET Nat
      BY <1>3, Zenon
    <2>2. D # {}
      BY IndexSet, Zenon
    <2>3. PICK d \in D : \A m \in D : d <= m
      <3> HIDE DEF D
      <3> QED
        BY <2>1, <2>2, LeastNat, Zenon
    <2>4. PICK k \in 1 .. n : d = distance[k]
      BY <2>3, Zenon
    <2>5. \A o \in 1 .. n : distance[k] <= distance[o]
      BY <2>3, <2>4, Zenon
    <2> QED
      BY <2>5, Zenon
  <1>5. \A k \in Nearest : k \in 1 .. n /\ \A o \in 1 .. n : distance[k] <= distance[o]
    BY Zenon
  <1> HIDE DEF Nearest
  <1>6. Nearest \in SUBSET (0 .. n)
    BY <1>5, SMT
  <1>7. Min(Nearest) \in Nearest
    BY <1>4, <1>6, SmallestOfInterval, Zenon
  <1> DEFINE best == bestGridIndex(entries, p, unit)
  <1>8. best \in 1 .. n /\ \A o \in 1 .. n : distance[best] <= distance[o]
    BY <1>1, <1>5, <1>7, Zenon
  <1> HIDE DEF best
  <1>9. best \in 1 .. n /\ \A k \in 1 .. n : far(k) \in Nat /\ far(best) <= far(k)
    BY <1>2, <1>8, Zenon
  <1> QED
    BY <1>9, Zenon DEF best, far

(* A quotient of at least one is not rounded to zero. *)
LEMMA HalfPositive ==
  ASSUME NEW p \in Nat, NEW q \in Nat, q > 0, p >= q
  PROVE  Half(p, q) > 0 /\ Half(p, q) \in Int
  <1>1. Abs(p) = p /\ Abs(q) = q /\ p \in Int /\ q \in Int /\ q # 0 /\ ((p < 0) = (q < 0))
    BY SMT DEF Abs
  <1>2. HalfOf(p, q) > 0
    BY HalfOfSignificant, Zenon
  <1>3. Half(p, q) = HalfOf(p, q) /\ Half(p, q) \in Int
    BY <1>1, HalfIs, Zenon
  <1> QED
    BY <1>2, <1>3, Zenon

(* A sub-block of which no lane is taken to be positive is zero. *)
LEMMA GridZero ==
  ASSUME NEW fmt \in DOMAIN GridKinds, fmt \notin SignedGrids, NEW y \in [1 .. 8 -> Number],
         GridMax(fmt, y) <= 0
  PROVE  \A i \in 1 .. 8 : Sane(y[i]) = 0
  <1> DEFINE N == Negative(y)
             S == SignsOf(fmt, y)
             v == XVal(fmt, y)
             f == FirstSmallest(y)
  <1>1. /\ v \in Seq(Number) /\ v # <<>> /\ DOMAIN v = 1 .. 8
        /\ \A i \in 1 .. 8 : /\ v[i] \in Int /\ Sane(v[i]) = v[i]
                             /\ v[i] = IF (i - 1 \in S) = (Sane(y[i]) < 0)
                                       THEN Abs(Sane(y[i])) ELSE -Abs(Sane(y[i]))
    BY XValIs, ZenonT(60)
  <1>2. MaxOf(v) \in Int /\ MaxOf(v) <= 0
    <2>1. MaxOf(v) \in Int
      BY <1>1, Measures, Zenon
    <2> QED
      BY <2>1, Zenon DEF GridMax
  <1>3. \A i \in 1 .. 8 : v[i] <= MaxOf(v)
    BY <1>1, Measures, ZenonT(60)
  <1>4. \A i \in 1 .. 8 : Sane(y[i]) \in Int /\ Abs(Sane(y[i])) \in Nat
    <2>1. \A i \in 1 .. 8 : y[i] \in Number
      BY SMT
    <2> QED
      BY <2>1, SaneIs, Zenon
  <1>5. GridKinds[fmt].parity \in BOOLEAN
    BY GridParity, KindNames, Zenon
  <1>6. /\ f \in Lanes /\ \A k \in 1 .. 8 : Abs(Sane(y[f + 1])) <= Abs(Sane(y[k]))
        /\ SymDiff(N, S) \subseteq {f}
    <2>1. f \in Lanes /\ \A k \in 1 .. 8 : Abs(Sane(y[f + 1])) <= Abs(Sane(y[k]))
      BY SmallestLane, Zenon
    <2>2. S \in SUBSET Lanes /\ SymDiff(N, S) \subseteq {f}
      <3> DEFINE odd == GridKinds[fmt].parity /\ Cardinality(N) % 2 = 1
      <3>0. S \in SUBSET Lanes
        BY <1>5, SignsReadBack, SMT
      <3>1. SymDiff(N, S) = IF odd THEN {f} ELSE {}
        BY <1>5, SignsReadBack, SMT
      <3> HIDE DEF N, S, f, odd
      <3> QED
        BY <3>0, <3>1, Zenon
    <2> QED
      BY <2>1, <2>2, Zenon
  <1>7. \A i \in 1 .. 8 : i - 1 # f => Abs(Sane(y[i])) = 0
    <2> TAKE i \in 1 .. 8
    <2> HAVE i - 1 # f
    <2>1. i - 1 \in Lanes /\ (i - 1) + 1 = i
      BY SMT DEF Lanes
    <2>2. i - 1 \in N <=> Sane(y[i]) < 0
      BY <2>1, Zenon DEF Negative
    <2>3. (i - 1 \in S) = (Sane(y[i]) < 0)
      <3> DEFINE l == i - 1
      <3>1. l # f /\ (l \in N <=> Sane(y[i]) < 0)
        BY <2>2, Zenon
      <3> HIDE DEF l, N, S, f
      <3>2. l \in N <=> l \in S
        BY <1>6, <3>1, Zenon DEF SymDiff
      <3>3. (l \in S) = (Sane(y[i]) < 0)
        BY <3>1, <3>2, SMT
      <3> QED
        BY <3>3, Zenon DEF l
    <2>4. v[i] = Abs(Sane(y[i]))
      <3> HIDE DEF v, S
      <3> QED
        BY <1>1, <2>3, Zenon
    <2> DEFINE a == Abs(Sane(y[i]))
               m == MaxOf(v)
    <2>5. a \in Nat /\ m \in Int /\ m <= 0 /\ a <= m
      BY <1>2, <1>3, <1>4, <2>4, Zenon
    <2> HIDE DEF a, m
    <2>6. a = 0
      BY <2>5, SMT
    <2> QED
      BY <2>6, Zenon DEF a
  <1> HIDE DEF f
  <1>8. \E k \in 1 .. 8 : k - 1 # f
    <2>1. 1 \in 1 .. 8 /\ 2 \in 1 .. 8 /\ 1 - 1 # 2 - 1
      BY SMT
    <2> QED
      BY <2>1, Zenon
  <1>9. \A i \in 1 .. 8 : Abs(Sane(y[i])) = 0
    <2> TAKE i \in 1 .. 8
    <2>1. CASE i - 1 # f
      BY <1>7, <2>1, Zenon
    <2>2. CASE i - 1 = f
      <3>1. f + 1 = i
        BY <2>2, SMT
      <3>2. PICK k \in 1 .. 8 : Abs(Sane(y[k])) = 0
        BY <1>7, <1>8, Zenon
      <3> DEFINE a == Abs(Sane(y[i]))
                 b == Abs(Sane(y[k]))
      <3>3. a \in Nat /\ b = 0 /\ a <= b
        BY <1>4, <1>6, <3>1, <3>2, Zenon
      <3> HIDE DEF a, b
      <3>4. a = 0
        BY <3>3, SMT
      <3> QED
        BY <3>4, Zenon DEF a
    <2> QED
      BY <2>1, <2>2, Zenon
  <1> QED
    BY <1>4, <1>9, AbsIs, SMT

(* What a codebook of magnitudes makes of a block that is not zero: the    *)
(* signs as they are stored, a scale of each sub-block, and entries.       *)
LEMMA GridBlock ==
  ASSUME NEW fmt \in DOMAIN GridKinds, fmt \notin SignedGrids, NEW x \in GridBlocksOf,
         MaxOf(GridMaxes(fmt, x)) > 0, NEW n \in Nat, n > 0, DOMAIN Codebook(fmt) = 1 .. n,
         \A k \in 1 .. n : \A i \in 1 .. GridKinds[fmt].width : Codebook(fmt)[k][i] \in Magnitude
  PROVE  /\ EncodeGrid(fmt, x).d > 0 /\ EncodeGrid(fmt, x).d \in Int
         /\ DOMAIN EncodeGrid(fmt, x).q = DOMAIN x
         /\ \A j \in DOMAIN x : /\ EncodeGrid(fmt, x).n[j] = StoredSigns(fmt, x[j])
                                /\ EncodeGrid(fmt, x).s[j] \in Nat
                                /\ \A c \in Groups(fmt) : EncodeGrid(fmt, x).q[j][c] \in 1 .. n
  <1> DEFINE f == GridKinds[fmt]
             signed == fmt \in SignedGrids
             value == [j \in DOMAIN x |-> IF signed THEN [i \in DOMAIN x[j] |-> Sane(x[j][i])]
                                          ELSE XVal(fmt, x[j])]
             gmax == [j \in DOMAIN x |-> IF signed THEN AbsMax(x[j]) ELSE MaxOf(value[j])]
             largest == MaxOf(gmax)
             step == f.center * f.num * largest
             scale == [j \in DOMAIN x |->
                        IF gmax[j] = 0 THEN 0
                        ELSE Clamp(nearestInt(f.over * f.den * gmax[j] - step, 2 * step), 0, f.scaleMax)]
             delta == [j \in DOMAIN x |-> IF signed THEN DeltaOf(x[j]) ELSE 0]
             Target(j) ==
               IF gmax[j] = 0 THEN [p |-> [i \in 1 .. 8 |-> 0], unit |-> 1]
               ELSE IF f.rounded
               THEN [p |-> [i \in 1 .. 8 |-> value[j][i] * f.den * f.over],
                     unit |-> f.num * largest * (2 * scale[j] + 1)]
               ELSE [p |-> [i \in 1 .. 8 |-> value[j][i] * f.center], unit |-> gmax[j]]
             signs == [j \in DOMAIN x |-> IF ~signed THEN StoredSigns(fmt, x[j])
                                          ELSE IF delta[j] < 0 THEN {0} ELSE {}]
             codes == [j \in DOMAIN x |-> [c \in Groups(fmt) |->
                        bestGridIndex(Entries(fmt, delta[j]), Group(fmt, Target(j).p, c), Target(j).unit)]]
  <1>1. gmax = GridMaxes(fmt, x)
    <2>1. \A j \in DOMAIN x : (IF signed THEN AbsMax(x[j]) ELSE MaxOf(value[j])) = GridMax(fmt, x[j])
      BY Zenon DEF GridMax
    <2> QED
      BY <2>1, Zenon DEF GridMaxes
  <1>2. largest > 0 /\ largest \in Int /\ \A j \in DOMAIN x : gmax[j] \in Int
    <2>1. \A j \in DOMAIN x : GridMaxes(fmt, x)[j] = GridMax(fmt, x[j])
      BY Zenon DEF GridMaxes
    <2> HIDE DEF gmax
    <2> QED
      BY <1>1, <2>1, GridLargestIs, Zenon
  <1>3. largest # 0
    <2> HIDE DEF largest
    <2> QED
      BY <1>2, SMT
  <1>4. /\ EncodeGrid(fmt, x).s = scale /\ EncodeGrid(fmt, x).n = signs /\ EncodeGrid(fmt, x).q = codes
    BY <1>3, Zenon DEF EncodeGrid
  <1> HIDE DEF largest, gmax
  <1>5. /\ f.center \in Nat /\ f.center > 0 /\ f.num \in Nat /\ f.num > 0 /\ f.den \in Nat /\ f.den > 0
        /\ f.den <= 775 /\ f.over \in Nat /\ f.over > 0 /\ f.scaleMax \in Nat /\ f.width \in {4, 8}
    BY GridConstants, SMT
  <1> DEFINE center == f.center
             num == f.num
             den == f.den
             over == f.over
             top == f.scaleMax
             w == f.width
  <1>6. /\ center \in Nat /\ center > 0 /\ num \in Nat /\ num > 0 /\ den \in Nat /\ den > 0
        /\ den <= 775 /\ over \in Nat /\ over > 0 /\ top \in Nat /\ w \in {4, 8}
    BY <1>5, SMT
  <1> HIDE DEF center, num, den, over, top, w
  <1>7. step \in Int /\ 2 * step \in Int /\ 2 * step # 0
    <2>0. step = center * num * largest
      BY Zenon DEF center, num
    <2> HIDE DEF step
    <2>1. center * num \in Nat /\ center * num > 0
      BY <1>6, Z3
    <2> DEFINE z == center * num
    <2>2. step = z * largest /\ z \in Nat /\ z > 0
      BY <2>0, <2>1, Zenon
    <2> HIDE DEF z
    <2>3. step > 0 /\ step \in Int
      BY <1>2, <2>2, Z3
    <2> QED
      BY <2>3, SMT
  <1>8. EncodeGrid(fmt, x).d > 0 /\ EncodeGrid(fmt, x).d \in Int
    <2>1. EncodeGrid(fmt, x).d = Half(f.num * MaxOf(GridMaxes(fmt, x)) * LaneUnit, f.den)
      <3>1. MaxOf(GridMaxes(fmt, x)) # 0
        BY <1>1, <1>3, Zenon DEF largest
      <3> QED
        BY <3>1, GridScales, Zenon
    <2> DEFINE p == num * largest * LaneUnit
    <2>2. EncodeGrid(fmt, x).d = Half(p, den)
      BY <1>1, <2>1, Zenon DEF largest, num, den
    <2>3. p \in Nat /\ p >= den
      <3>1. num * largest \in Nat /\ num * largest >= 1
        BY <1>2, <1>6, Z3
      <3> DEFINE z == num * largest
      <3>2. p = z * LaneUnit /\ z \in Nat /\ z >= 1
        BY <3>1, Zenon
      <3> HIDE DEF z, p
      <3> QED
        BY <1>6, <3>2, SMT DEF LaneUnit
    <2> HIDE DEF p
    <2> QED
      BY <1>6, <2>2, <2>3, HalfPositive, Zenon
  <1>9. \A j \in DOMAIN x : scale[j] \in Nat
    <2> TAKE j \in DOMAIN x
    <2> DEFINE a == over * den * gmax[j] - step
               r == nearestInt(a, 2 * step)
    <2>1. scale[j] = IF gmax[j] = 0 THEN 0 ELSE Clamp(r, 0, top)
      BY Zenon DEF over, den, top
    <2> HIDE DEF step, scale
    <2>2. a \in Int
      <3>1. over * den * gmax[j] \in Int
        <4> DEFINE g == gmax[j]
        <4>1. g \in Int
          BY <1>2, Zenon
        <4> HIDE DEF g
        <4>2. over * den * g \in Int
          BY <1>6, <4>1, Z3
        <4> QED
          BY <4>2, Zenon DEF g
      <3> DEFINE z == over * den * gmax[j]
      <3>2. z \in Int
        BY <3>1, Zenon
      <3> HIDE DEF z
      <3>3. z - step \in Int
        BY <1>7, <3>2, SMT
      <3> QED
        BY <3>3, Zenon DEF z
    <2> HIDE DEF a
    <2>3. r \in Int
      BY <1>7, <2>2, nearestIntIs, Zenon
    <2> HIDE DEF r
    <2>4. Clamp(r, 0, top) \in Nat
      BY <1>6, <2>3, SMT DEF Clamp
    <2>5. 0 \in Nat
      BY SMT
    <2> QED
      BY <2>1, <2>4, <2>5, Zenon
  <1>10. \A j \in DOMAIN x : signs[j] = StoredSigns(fmt, x[j])
    BY Zenon
  <1>11. \A j \in DOMAIN x : \A i \in 1 .. 8 : value[j][i] \in Int
    <2> TAKE j \in DOMAIN x
    <2>1. x[j] \in [1 .. 8 -> Number]
      BY GridBlockParts, Zenon
    <2>2. value[j] = XVal(fmt, x[j])
      BY Zenon
    <2> QED
      BY <2>1, <2>2, XValIs, Zenon
  <1> HIDE DEF value, scale, signs
  <1>12. ASSUME NEW j \in DOMAIN x, NEW c \in Groups(fmt)
         PROVE  codes[j][c] \in 1 .. n
    <2> DEFINE T == Target(j)
               P == T.p
               U == T.unit
               G == Group(fmt, P, c)
    <2>1. codes[j][c] = bestGridIndex(Codebook(fmt), G, U)
      <3>1. Entries(fmt, delta[j]) = Codebook(fmt)
        BY Zenon DEF Entries
      <3>2. codes[j][c] = bestGridIndex(Entries(fmt, delta[j]), G, U)
        BY Zenon
      <3> HIDE DEF codes, delta, G, U
      <3> QED
        BY <3>1, <3>2, Zenon
    <2>2. (\A i \in 1 .. 8 : P[i] \in Int) /\ U \in Int
      <3> DEFINE A == [p |-> [i \in 1 .. 8 |-> 0], unit |-> 1]
                 B == [p |-> [i \in 1 .. 8 |-> value[j][i] * den * over], unit |-> num * largest * (2 * scale[j] + 1)]
                 C == [p |-> [i \in 1 .. 8 |-> value[j][i] * center], unit |-> gmax[j]]
      <3>1. T = A \/ T = B \/ T = C
        BY Zenon DEF den, over, num, center
      <3>2. \A i \in 1 .. 8 : value[j][i] * den * over \in Int /\ value[j][i] * center \in Int
        <4> TAKE i \in 1 .. 8
        <4> DEFINE v == value[j][i]
        <4>1. v \in Int
          BY <1>11, Zenon
        <4> HIDE DEF v
        <4>2. v * den * over \in Int /\ v * center \in Int
          BY <1>6, <4>1, Z3
        <4> QED
          BY <4>2, Zenon DEF v
      <3>3. num * largest * (2 * scale[j] + 1) \in Int /\ gmax[j] \in Int
        <4> DEFINE s == scale[j]
        <4>1. s \in Nat
          BY <1>9, Zenon
        <4> HIDE DEF s
        <4>2. num * largest * (2 * s + 1) \in Int
          BY <1>2, <1>6, <4>1, Z3
        <4> QED
          BY <1>2, <4>2, Zenon DEF s
      <3>4. 0 \in Int /\ 1 \in Int
        BY SMT
      <3>5. /\ (\A i \in 1 .. 8 : A.p[i] \in Int) /\ A.unit \in Int
            /\ (\A i \in 1 .. 8 : B.p[i] \in Int) /\ B.unit \in Int
            /\ (\A i \in 1 .. 8 : C.p[i] \in Int) /\ C.unit \in Int
        BY <3>2, <3>3, <3>4, Zenon
      <3> HIDE DEF A, B, C, T
      <3> QED
        BY <3>1, <3>5, Zenon
    <2> HIDE DEF P, U
    <2>3. G = [i \in 1 .. w |-> P[w * (c - 1) + i]]
      BY Zenon DEF Group, w
    <2>4. c \in 1 .. 8 \div w
      BY Zenon DEF Groups, w
    <2> HIDE DEF G
    <2>5. DOMAIN G = 1 .. w /\ \A i \in 1 .. w : G[i] = P[w * (c - 1) + i]
      BY <2>3, Zenon
    <2>6. \A i \in 1 .. w : w * (c - 1) + i \in 1 .. 8
      <3>1. CASE w = 4
        BY <2>4, <3>1, SMT
      <3>2. CASE w = 8
        BY <2>4, <3>2, SMT
      <3> QED
        BY <1>6, <3>1, <3>2, Zenon
    <2>7. \A i \in 1 .. w : G[i] \in Int
      BY <2>2, <2>5, <2>6, Zenon
    <2>8. \A k \in 1 .. n : \A i \in 1 .. w : Codebook(fmt)[k][i] \in Int
      <3>1. \A m \in Magnitude : m \in Int
        BY SMT DEF Magnitude
      <3> QED
        BY <3>1, Zenon DEF w
    <2>9. w \in Nat
      BY <1>6, SMT
    <2> HIDE DEF codes
    <2>10. bestGridIndex(Codebook(fmt), G, U) \in 1 .. n
      BY <2>2, <2>5, <2>7, <2>8, <2>9, GridIndexLeast, Zenon
    <2> QED
      BY <2>1, <2>10, Zenon
  <1>13. DOMAIN codes = DOMAIN x
    BY Zenon
  <1> HIDE DEF codes
  <1> QED
    BY <1>4, <1>8, <1>9, <1>10, <1>12, <1>13, Zenon

(* The signs are right when those that are read are those the encoder took *)
(* the lanes to have.                                                      *)
LEMMA SignsRightRead ==
  ASSUME NEW fmt, fmt \notin SignedGrids, GridKinds[fmt].parity \in BOOLEAN,
         NEW s \in [1 .. 8 -> Number], NEW z, {i \in Lanes : z[i + 1] < 0} = SignsOf(fmt, s)
  PROVE  SignsRight(fmt, s, z)
  <1> DEFINE N == Negative(s)
             S == SignsOf(fmt, s)
             f == FirstSmallest(s)
             odd == GridKinds[fmt].parity /\ Cardinality(N) % 2 = 1
             flipped == SymDiff(N, {i \in Lanes : z[i + 1] < 0})
             m == Min({Abs(Sane(s[k])) : k \in 1 .. 8})
  <1>1. SignsRight(fmt, s, z) <=> IF odd THEN \E i \in Lanes : flipped = {i} /\ Abs(Sane(s[i + 1])) = m
                                  ELSE flipped = {}
    BY Zenon DEF SignsRight
  <1>2. f \in Lanes /\ Abs(Sane(s[f + 1])) = m
    BY SmallestLane, Zenon
  <1>3. SymDiff(N, S) = IF odd THEN {f} ELSE {}
    BY SignsReadBack, SMT
  <1>4. flipped = SymDiff(N, S)
    BY Zenon
  <1> HIDE DEF flipped, odd, f, m, N, S
  <1> QED
    BY <1>1, <1>2, <1>3, <1>4, Zenon

(* They are right in a sub-block of zeros of which no lane is read as      *)
(* negative.                                                               *)
LEMMA SignsRightZero ==
  ASSUME NEW fmt, NEW s, \A i \in 1 .. 8 : Sane(s[i]) = 0,
         NEW z, \A i \in 1 .. 8 : z[i] = 0
  PROVE  SignsRight(fmt, s, z)
  <1>1. \A i \in Lanes : i + 1 \in 1 .. 8
    BY SMT DEF Lanes
  <1>2. ~(0 < 0)
    BY SMT
  <1>3. Negative(s) = {}
    BY <1>1, <1>2, Zenon DEF Negative
  <1>4. {i \in Lanes : z[i + 1] < 0} = {}
    BY <1>1, <1>2, Zenon
  <1>5. Cardinality({}) % 2 # 1
    <2>1. Cardinality({}) = 0
      BY FS_EmptySet, Zenon
    <2> QED
      BY <2>1, SMT
  <1>6. SymDiff({}, {}) = {}
    BY Zenon DEF SymDiff
  <1> QED
    BY <1>3, <1>4, <1>5, <1>6, Zenon DEF SignsRight

(* The sign of zero does not matter. *)
LEMMA ZeroOfAbs == Abs(0) = 0 /\ -0 = 0
  <1>1. \A m \in Int : Abs(m) = IF m < 0 THEN -m ELSE m
    BY Zenon DEF Abs
  <1>2. \A m \in Int : -m = 0 - m
    BY SMT
  <1>3. 0 \in Int /\ ~(0 < 0) /\ 0 - 0 = 0
    BY SMT
  <1> QED
    BY <1>1, <1>2, <1>3, Zenon

(* Lane i of sub-block j, which is lane k of entry c. *)
LaneDecoded(fmt, blk, j, i, c, k) ==
  blk.d * (2 * blk.s[j] + 1) * Codebook(fmt)[blk.q[j][c]][k]
  * (IF i - 1 \in SignsRead(fmt, blk.n[j]) THEN -1 ELSE 1)

(* What a codebook of magnitudes decodes a lane to. *)
LEMMA GridLane ==
  ASSUME NEW fmt \in DOMAIN GridKinds, fmt \notin SignedGrids, NEW blk,
         NEW j \in DOMAIN blk.q, NEW i \in 1 .. 8
  PROVE  \E c \in Groups(fmt), k \in 1 .. GridKinds[fmt].width :
           DecodeGrid(fmt, blk)[j][i] = LaneDecoded(fmt, blk, j, i, c, k)
  <1> DEFINE w == GridKinds[fmt].width
             c == (i - 1) \div w + 1
             k == ((i - 1) % w) + 1
             entries == Entries(fmt, IF fmt \in SignedGrids /\ blk.n[j] # {} THEN -1 ELSE 1)
             minus == IF fmt \in SignedGrids THEN {} ELSE SignsRead(fmt, blk.n[j])
  <1>1. w \in {4, 8}
    BY GridConstants, ZenonT(60)
  <1>2. DecodeGrid(fmt, blk)[j][i]
          = blk.d * (2 * blk.s[j] + 1) * entries[blk.q[j][c]][k] * (IF i - 1 \in minus THEN -1 ELSE 1)
    BY Zenon DEF DecodeGrid
  <1>3. entries = Codebook(fmt)
    BY Zenon DEF Entries
  <1>4. minus = SignsRead(fmt, blk.n[j])
    BY Zenon
  <1>5. Groups(fmt) = 1 .. 8 \div w
    BY Zenon DEF Groups
  <1>6. c \in 1 .. 8 \div w /\ k \in 1 .. w
    <2> HIDE DEF w
    <2>1. CASE w = 4
      BY <2>1, SMT
    <2>2. CASE w = 8
      BY <2>2, SMT
    <2> QED
      BY <1>1, <2>1, <2>2, Zenon
  <1> HIDE DEF c, k, entries, minus
  <1>7. c \in Groups(fmt) /\ k \in 1 .. w
    BY <1>5, <1>6, Zenon
  <1>8. DecodeGrid(fmt, blk)[j][i] = LaneDecoded(fmt, blk, j, i, c, k)
    BY <1>2, <1>3, <1>4, Zenon DEF LaneDecoded
  <1> QED
    BY <1>7, <1>8, Zenon

(* A block is zero when none of its sub-blocks has a lane taken to be      *)
(* positive.                                                               *)
LEMMA GridNotPositive ==
  ASSUME NEW fmt \in DOMAIN GridKinds, fmt \notin SignedGrids, NEW x \in GridBlocksOf,
         ~(MaxOf(GridMaxes(fmt, x)) > 0)
  PROVE  /\ MaxOf(GridMaxes(fmt, x)) = 0
         /\ \A j \in DOMAIN x : \A i \in 1 .. 8 : Sane(x[j][i]) = 0
  <1> DEFINE L == MaxOf(GridMaxes(fmt, x))
  <1>1. /\ L \in Int
        /\ \A j \in DOMAIN x : GridMax(fmt, x[j]) \in Int /\ GridMax(fmt, x[j]) <= L
        /\ \E j \in DOMAIN x : GridMax(fmt, x[j]) = L
    BY GridLargestIs, Zenon
  <1>2. ~(L > 0)
    OBVIOUS
  <1> HIDE DEF L
  <1>3. \A j \in DOMAIN x : x[j] \in [1 .. 8 -> Number]
    BY GridBlockParts, Zenon
  <1>4. \A j \in DOMAIN x : GridMax(fmt, x[j]) <= 0
    <2> TAKE j \in DOMAIN x
    <2> DEFINE g == GridMax(fmt, x[j])
    <2>1. g \in Int /\ g <= L
      BY <1>1, Zenon
    <2> HIDE DEF g
    <2>2. g <= 0
      BY <1>1, <1>2, <2>1, SMT
    <2> QED
      BY <2>2, Zenon DEF g
  <1>5. \A j \in DOMAIN x : \A i \in 1 .. 8 : Sane(x[j][i]) = 0
    BY <1>3, <1>4, GridZero, Zenon
  <1>6. PICK j \in DOMAIN x : GridMax(fmt, x[j]) = L
    BY <1>1, Zenon
  <1> DEFINE y == x[j]
             v == XVal(fmt, y)
  <1>7. y \in [1 .. 8 -> Number] /\ \A i \in 1 .. 8 : Sane(y[i]) = 0
    BY <1>3, <1>5, Zenon
  <1>8. L = MaxOf(v)
    BY <1>6, Zenon DEF GridMax
  <1> HIDE DEF y
  <1>9. /\ v \in Seq(Number) /\ v # <<>> /\ DOMAIN v = 1 .. 8
        /\ \A i \in 1 .. 8 : /\ v[i] \in Int /\ Sane(v[i]) = v[i]
                             /\ v[i] = IF (i - 1 \in SignsOf(fmt, y)) = (Sane(y[i]) < 0)
                                       THEN Abs(Sane(y[i])) ELSE -Abs(Sane(y[i]))
    BY <1>7, XValIs, Zenon
  <1> HIDE DEF v
  <1>10. \E i \in 1 .. 8 : MaxOf(v) = Sane(v[i])
    BY <1>9, Measures, Zenon
  <1>11. Abs(0) = 0 /\ -0 = 0
    BY ZeroOfAbs, Zenon
  <1>12. MaxOf(v) = 0
    <2>1. PICK i \in 1 .. 8 : MaxOf(v) = Sane(v[i])
      BY <1>10, Zenon
    <2>2. v[i] = Abs(Sane(y[i])) \/ v[i] = -Abs(Sane(y[i]))
      BY <1>9, Zenon
    <2>3. v[i] = 0
      BY <1>7, <1>11, <2>2, Zenon
    <2> QED
      BY <1>9, <2>1, <2>3, Zenon
  <1> QED
    BY <1>5, <1>8, <1>12, Zenon DEF L

(* A codebook format keeps the signs of a block. *)
LEMMA GridSigns ==
  ASSUME NEW fmt \in DOMAIN GridKinds, NEW x \in GridBlocksOf
  PROVE  \A j \in DOMAIN DecodeGrid(fmt, EncodeGrid(fmt, x)) :
           SignsRight(fmt, x[j], DecodeGrid(fmt, EncodeGrid(fmt, x))[j])
  <1>1. CASE fmt \in SignedGrids
    BY <1>1, Zenon DEF SignsRight
  <1>2. CASE fmt \notin SignedGrids
    <2> DEFINE blk == EncodeGrid(fmt, x)
               y == DecodeGrid(fmt, blk)
               L == MaxOf(GridMaxes(fmt, x))
    <2>1. PICK n \in Nat : /\ n > 0 /\ DOMAIN Codebook(fmt) = 1 .. n
                           /\ \A k \in 1 .. n : \A i \in 1 .. GridKinds[fmt].width :
                                Codebook(fmt)[k][i] \in Magnitude
      BY <1>2, EntriesPositive, Zenon
    <2>2. DOMAIN y = DOMAIN blk.q
      BY Zenon DEF DecodeGrid
    <2>3. \A j \in DOMAIN x : x[j] \in [1 .. 8 -> Number]
      BY GridBlockParts, Zenon
    <2>4. GridKinds[fmt].parity \in BOOLEAN
      BY GridParity, KindNames, Zenon
    <2>5. CASE L > 0
      <3> DEFINE B(b) == /\ b.d > 0 /\ b.d \in Int
                         /\ DOMAIN b.q = DOMAIN x
                         /\ \A j \in DOMAIN x : /\ b.n[j] = StoredSigns(fmt, x[j])
                                                /\ b.s[j] \in Nat
                                                /\ \A c \in Groups(fmt) : b.q[j][c] \in 1 .. n
      <3>1. B(blk)
        BY <1>2, <2>1, <2>5, GridBlock, Zenon
      <3> SUFFICES ASSUME NEW j \in DOMAIN x
                   PROVE  SignsRight(fmt, x[j], y[j])
        BY <2>2, <3>1, Zenon
      <3>2. /\ blk.d > 0 /\ blk.d \in Int /\ blk.s[j] \in Nat /\ j \in DOMAIN blk.q
            /\ SignsRead(fmt, blk.n[j]) = SignsOf(fmt, x[j])
            /\ \A c \in Groups(fmt) : blk.q[j][c] \in 1 .. n
        <4>1. SignsRead(fmt, StoredSigns(fmt, x[j])) = SignsOf(fmt, x[j])
          BY <2>3, <2>4, SignsReadBack, SMT
        <4> QED
          BY <3>1, <4>1, Zenon
      <3> HIDE DEF blk
      <3>3. \A i \in 1 .. 8 : y[j][i] < 0 <=> i - 1 \in SignsOf(fmt, x[j])
        <4> TAKE i \in 1 .. 8
        <4>0. j \in DOMAIN blk.q
          BY <3>2, Zenon
        <4>1. PICK c \in Groups(fmt), k \in 1 .. GridKinds[fmt].width :
                y[j][i] = LaneDecoded(fmt, blk, j, i, c, k)
          BY <1>2, <4>0, GridLane, Zenon
        <4> DEFINE a == blk.d
                   b == blk.s[j]
                   e == Codebook(fmt)[blk.q[j][c]][k]
                   z == y[j][i]
        <4>2. a > 0 /\ a \in Int /\ b \in Nat /\ e \in Magnitude
          BY <2>1, <3>2, Zenon
        <4>3. z = a * (2 * b + 1) * e * (IF i - 1 \in SignsOf(fmt, x[j]) THEN -1 ELSE 1)
          BY <3>2, <4>1, Zenon DEF LaneDecoded
        <4> HIDE DEF a, b, e, z
        <4>4. e \in Nat /\ e > 0
          BY <4>2, SMT DEF Magnitude
        <4> DEFINE r == a * (2 * b + 1)
        <4>5. r > 0 /\ r \in Int
          BY <4>2, Z3
        <4> HIDE DEF r
        <4> DEFINE t == r * e
        <4>6. t > 0 /\ t \in Int
          BY <4>4, <4>5, Z3
        <4>7. z = t * (IF i - 1 \in SignsOf(fmt, x[j]) THEN -1 ELSE 1)
          BY <4>3, Zenon DEF r
        <4> HIDE DEF t
        <4>8. z < 0 <=> i - 1 \in SignsOf(fmt, x[j])
          <5>1. CASE i - 1 \in SignsOf(fmt, x[j])
            <6>1. z = t * (-1)
              BY <4>7, <5>1, Zenon
            <6> QED
              BY <4>6, <5>1, <6>1, SMT
          <5>2. CASE i - 1 \notin SignsOf(fmt, x[j])
            <6>1. z = t * 1
              BY <4>7, <5>2, Zenon
            <6> QED
              BY <4>6, <5>2, <6>1, SMT
          <5> QED
            BY <5>1, <5>2, Zenon
        <4> QED
          BY <4>8, Zenon DEF z
      <3>4. SignsOf(fmt, x[j]) \in SUBSET Lanes
        BY <2>3, <2>4, SignsReadBack, SMT
      <3>5. \A i \in Lanes : i + 1 \in 1 .. 8 /\ (i + 1) - 1 = i
        BY SMT DEF Lanes
      <3> DEFINE z == y[j]
      <3> HIDE DEF z
      <3>6. {i \in Lanes : z[i + 1] < 0} = SignsOf(fmt, x[j])
        BY <3>3, <3>4, <3>5, Zenon DEF z
      <3>7. SignsRight(fmt, x[j], z)
        BY <1>2, <2>3, <2>4, <3>6, SignsRightRead, Zenon
      <3> QED
        BY <3>7, Zenon DEF z
    <2>6. CASE ~(L > 0)
      <3>1. L = 0 /\ \A j \in DOMAIN x : \A i \in 1 .. 8 : Sane(x[j][i]) = 0
        BY <1>2, <2>6, GridNotPositive, Zenon
      <3>2. blk = [d |-> 0, m |-> 0, s |-> Zeros(x), n |-> [j \in DOMAIN x |-> {}],
                   q |-> [j \in DOMAIN x |-> [c \in Groups(fmt) |-> 1]]]
        <4> DEFINE gmax == [j \in DOMAIN x |-> IF fmt \in SignedGrids THEN AbsMax(x[j])
                                               ELSE MaxOf(XVal(fmt, x[j]))]
        <4>1. gmax = GridMaxes(fmt, x)
          BY Zenon DEF GridMaxes, GridMax
        <4>2. MaxOf([j \in DOMAIN x |->
                IF fmt \in SignedGrids THEN AbsMax(x[j])
                ELSE MaxOf([k \in DOMAIN x |-> IF fmt \in SignedGrids THEN [i \in DOMAIN x[k] |-> Sane(x[k][i])]
                                               ELSE XVal(fmt, x[k])][j])]) = 0
          BY <3>1, <4>1, Zenon
        <4> QED
          BY <4>2, Zenon DEF EncodeGrid
      <3>3. blk.d = 0 /\ blk.s = Zeros(x) /\ blk.q = [j \in DOMAIN x |-> [c \in Groups(fmt) |-> 1]]
        BY <3>2, SMT
      <3>4. \A j \in DOMAIN x : Zeros(x)[j] = 0
        BY Zenon DEF Zeros
      <3>6. DOMAIN blk.q = DOMAIN x /\ \A j \in DOMAIN x : \A c \in Groups(fmt) : blk.q[j][c] = 1
        <4> DEFINE q == [j \in DOMAIN x |-> [c \in Groups(fmt) |-> 1]]
        <4>1. DOMAIN q = DOMAIN x /\ \A j \in DOMAIN x : \A c \in Groups(fmt) : q[j][c] = 1
          BY Zenon
        <4> HIDE DEF blk, q
        <4>2. blk.q = q
          BY <3>3, Zenon DEF q
        <4> QED
          BY <4>1, <4>2, Zenon
      <3> SUFFICES ASSUME NEW j \in DOMAIN x
                   PROVE  SignsRight(fmt, x[j], y[j])
        BY <2>2, <3>6, Zenon
      <3> HIDE DEF blk
      <3>5. \A i \in 1 .. 8 : y[j][i] = 0
        <4> TAKE i \in 1 .. 8
        <4>0. j \in DOMAIN blk.q
          BY <3>6, Zenon
        <4>1. PICK c \in Groups(fmt), k \in 1 .. GridKinds[fmt].width :
                y[j][i] = LaneDecoded(fmt, blk, j, i, c, k)
          BY <1>2, <4>0, GridLane, Zenon
        <4> DEFINE e == Codebook(fmt)[1][k]
                   u == IF i - 1 \in SignsRead(fmt, blk.n[j]) THEN -1 ELSE 1
                   z == y[j][i]
        <4>2. z = 0 * (2 * 0 + 1) * e * u
          BY <3>3, <3>4, <3>6, <4>1, ZenonT(60) DEF LaneDecoded
        <4>3. 1 \in 1 .. n
          BY <2>1, SMT
        <4>4. e \in Magnitude
          BY <2>1, <4>3, Zenon
        <4>5. u \in Int
          BY SMT
        <4> HIDE DEF e, u, z
        <4>6. z = 0
          BY <4>2, <4>4, <4>5, SMT DEF Magnitude
        <4> QED
          BY <4>6, Zenon DEF z
      <3> QED
        BY <3>1, <3>5, SignsRightZero, Zenon
    <2> QED
      BY <2>5, <2>6, Zenon
  <1> QED
    BY <1>1, <1>2, Zenon

-----------------------------------------------------------------------------
(* A second compression: the codes found before are found again. *)

SameIndices(x, q) == DOMAIN q = DOMAIN x /\ \A j \in DOMAIN x : DOMAIN q[j] = DOMAIN x[j]
Elementwise(q) == q = [j \in DOMAIN q |-> [i \in DOMAIN q[j] |-> q[j][i]]]

(* What has the shape of a block has its indices. *)
LEMMA ShapeIs ==
  ASSUME NEW x, NEW q, SameShape(x, q)
  PROVE  SameIndices(x, q) /\ Elementwise(q)
  <1>1. q = [j \in DOMAIN x |-> q[j]] /\ \A j \in DOMAIN x : q[j] = [i \in DOMAIN x[j] |-> q[j][i]]
    BY Zenon DEF SameShape
  <1>2. DOMAIN q = DOMAIN x
    BY <1>1, Zenon
  <1>3. \A j \in DOMAIN x : DOMAIN q[j] = DOMAIN x[j]
    <2> TAKE j \in DOMAIN x
    <2> DEFINE r == q[j]
    <2>1. r = [i \in DOMAIN x[j] |-> r[i]]
      BY <1>1, Zenon
    <2> HIDE DEF r
    <2>2. DOMAIN r = DOMAIN x[j]
      BY <2>1, Zenon
    <2> QED
      BY <2>2, Zenon DEF r
  <1>4. \A j \in DOMAIN q : q[j] = [i \in DOMAIN q[j] |-> q[j][i]]
    BY <1>1, <1>2, <1>3, Zenon
  <1>5. q = [j \in DOMAIN q |-> q[j]]
    BY <1>1, <1>2, Zenon
  <1>6. SameIndices(x, q)
    BY <1>2, <1>3, Zenon DEF SameIndices
  <1>7. Elementwise(q)
    <2>1. [j \in DOMAIN q |-> q[j]] = [j \in DOMAIN q |-> [i \in DOMAIN q[j] |-> q[j][i]]]
      BY <1>4, Zenon
    <2> QED
      BY <1>5, <2>1, Zenon DEF Elementwise
  <1> QED
    BY <1>6, <1>7, Zenon

(* A block with the indices and the elements of another is that block. *)
LEMMA SameElements ==
  ASSUME NEW x, NEW q, SameShape(x, q), NEW y, SameShape(q, y), NEW r, SameShape(y, r),
         \A j \in DOMAIN q : \A i \in DOMAIN q[j] : r[j][i] = q[j][i]
  PROVE  r = q
  <1>1. Elementwise(q) /\ SameIndices(q, y) /\ Elementwise(r) /\ SameIndices(y, r)
    BY ShapeIs, Zenon
  <1>2. DOMAIN r = DOMAIN q /\ \A j \in DOMAIN q : DOMAIN r[j] = DOMAIN q[j]
    BY <1>1, Zenon DEF SameIndices
  <1>3. \A j \in DOMAIN q : [i \in DOMAIN r[j] |-> r[j][i]] = [i \in DOMAIN q[j] |-> q[j][i]]
    BY <1>2, Zenon
  <1>4. /\ q = [j \in DOMAIN q |-> [i \in DOMAIN q[j] |-> q[j][i]]]
        /\ r = [j \in DOMAIN r |-> [i \in DOMAIN r[j] |-> r[j][i]]]
    BY <1>1, Zenon DEF Elementwise
  <1>5. [j \in DOMAIN r |-> [i \in DOMAIN r[j] |-> r[j][i]]] = [j \in DOMAIN q |-> [i \in DOMAIN q[j] |-> q[j][i]]]
    BY <1>2, <1>3, Zenon
  <1> QED
    BY <1>4, <1>5, Zenon

(* Rounding is the same on both sides of zero. *)
LEMMA SignedAre ==
  ASSUME NEW p \in Int, NEW q \in Nat, q > 0
  PROVE  /\ p >= 0 => Signed(HalfEven, p, q) = HalfEven(p, q) /\ nearestInt(p, q) = HalfUp(p, q)
         /\ p < 0 => Signed(HalfEven, p, q) = -HalfEven(-p, q) /\ nearestInt(p, q) = -HalfUp(-p, q)
  <1>1. Abs(q) = q /\ ~(q < 0) /\ (p >= 0 => Abs(p) = p /\ ~(p < 0)) /\ (p < 0 => Abs(p) = -p)
    BY SMT DEF Abs
  <1>2. Signed(HalfEven, p, q) = IF (p < 0) = (q < 0) THEN HalfEven(Abs(p), Abs(q)) ELSE -HalfEven(Abs(p), Abs(q))
    BY Zenon DEF Signed
  <1>3. nearestInt(p, q) = IF (p < 0) = (q < 0) THEN HalfUp(Abs(p), Abs(q)) ELSE -HalfUp(Abs(p), Abs(q))
    BY Zenon DEF Signed, nearestInt
  <1>4. CASE p >= 0
    BY <1>1, <1>2, <1>3, <1>4, SMT
  <1>5. CASE p < 0
    BY <1>1, <1>2, <1>3, <1>5, SMT
  <1>6. p >= 0 \/ p < 0
    BY SMT
  <1>7. p >= 0 => ~(p < 0)
    BY SMT
  <1> QED
    BY <1>4, <1>5, <1>6, <1>7, Zenon

(* A code times the scale has that code, and what the scale does not reach *)
(* has the last one.                                                       *)
LEMMA IntCodeIs ==
  ASSUME NEW n \in Nat, n > 0, NEW even, NEW s \in Nat, s > 0
  PROVE  /\ \A k \in -n .. n : IntCode(n, even, s, k * s) = k
         /\ \A v \in Int : Abs(v) >= n * s => IntCode(n, even, s, v) \in {n, -n}
  <1> DEFINE Rounded(v) == IF even THEN Signed(HalfEven, v, s) ELSE nearestInt(v, s)
  <1>1. \A v : IntCode(n, even, s, v) = Clamp(Rounded(v), -n, n)
    <2>1. s # 0
      BY SMT
    <2> QED
      BY <2>1, Zenon DEF IntCode
  <1>2. ASSUME NEW k \in -n .. n PROVE IntCode(n, even, s, k * s) = k
    <2>1. CASE k >= 0
      <3>1. k * s >= 0 /\ k * s \in Int /\ k \in Int
        BY <2>1, Z3
      <3>2. Rounded(k * s) = k
        <4>1. HalfEven(k * s, s) = k /\ HalfUp(k * s, s) = k
          BY <3>1, WholeQuotient, Zenon
        <4>2. Signed(HalfEven, k * s, s) = HalfEven(k * s, s) /\ nearestInt(k * s, s) = HalfUp(k * s, s)
          BY <3>1, SignedAre, Zenon
        <4> QED
          BY <4>1, <4>2, Zenon
      <3> HIDE DEF Rounded
      <3>3. Clamp(k, -n, n) = k
        BY SMT DEF Clamp
      <3> QED
        BY <1>1, <3>2, <3>3, Zenon
    <2>2. CASE k < 0
      <3> DEFINE m == -k
      <3>1. k * s < 0 /\ k * s \in Int /\ m \in Int /\ -(k * s) = m * s /\ -m = k
        BY <2>2, Z3
      <3> HIDE DEF m
      <3>2. Rounded(k * s) = -m
        <4>1. HalfEven(m * s, s) = m /\ HalfUp(m * s, s) = m
          BY <3>1, WholeQuotient, Zenon
        <4>2. /\ Signed(HalfEven, k * s, s) = -HalfEven(-(k * s), s)
              /\ nearestInt(k * s, s) = -HalfUp(-(k * s), s)
          BY <3>1, SignedAre, Zenon
        <4> QED
          BY <3>1, <4>1, <4>2, Zenon
      <3> HIDE DEF Rounded
      <3>3. Clamp(k, -n, n) = k
        BY SMT DEF Clamp
      <3> QED
        BY <1>1, <3>1, <3>2, <3>3, Zenon
    <2> QED
      BY <2>1, <2>2, SMT
  <1>3. ASSUME NEW v \in Int, Abs(v) >= n * s PROVE IntCode(n, even, s, v) \in {n, -n}
    <2> DEFINE R(a) == IF even THEN HalfEven(a, s) ELSE HalfUp(a, s)
    <2>1. ASSUME NEW a \in Nat, a >= n * s PROVE R(a) \in Int /\ R(a) >= n
      <3>1. R(a) \in Int /\ 2 * a - s <= 2 * (R(a) * s)
        BY <2>1, HalfUpIs, HalfEvenIs, SMT
      <3> DEFINE r == R(a)
      <3>2. r \in Int /\ 2 * a - s <= 2 * (r * s)
        BY <3>1
      <3> HIDE DEF r, R
      <3>3. r >= n
        <4> SUFFICES ASSUME r <= n - 1 PROVE FALSE
          BY <3>2, SMT
        <4>1. r * s <= (n - 1) * s
          BY <3>2, Z3
        <4>2. (n - 1) * s = n * s - s /\ n * s \in Nat /\ r * s \in Int
          BY <3>2, Z3
        <4> DEFINE c == n * s
                   b == r * s
        <4>3. b <= c - s /\ c \in Nat /\ b \in Int /\ a >= c /\ 2 * a - s <= 2 * b
          BY <2>1, <3>2, <4>1, <4>2, SMT
        <4> HIDE DEF c, b
        <4> QED
          BY <4>3, SMT
      <3> QED
        BY <3>2, <3>3, Zenon DEF r
    <2>2. CASE v >= 0
      <3>1. Abs(v) = v /\ v \in Nat
        BY <2>2, SMT DEF Abs
      <3>2. Rounded(v) = R(v)
        BY <2>2, SignedAre, Zenon
      <3>3. R(v) \in Int /\ R(v) >= n
        BY <1>3, <2>1, <3>1, Zenon
      <3> DEFINE r == R(v)
      <3> HIDE DEF r, Rounded
      <3>4. Clamp(r, -n, n) = n
        BY <3>3, SMT DEF Clamp, r
      <3> QED
        BY <1>1, <3>2, <3>4, Zenon DEF r
    <2>3. CASE v < 0
      <3>1. Abs(v) = -v /\ -v \in Nat
        BY <2>3, SMT DEF Abs
      <3>2. Rounded(v) = -R(-v)
        BY <2>3, SignedAre, Zenon
      <3>3. R(-v) \in Int /\ R(-v) >= n
        BY <1>3, <2>1, <3>1, Zenon
      <3> DEFINE r == R(-v)
      <3>5. r \in Int /\ r >= n
        BY <3>3, Zenon
      <3>6. IntCode(n, even, s, v) = Clamp(-r, -n, n)
        BY <1>1, <3>2, Zenon
      <3> HIDE DEF r, Rounded
      <3>4. Clamp(-r, -n, n) = -n
        BY <3>5, SMT DEF Clamp
      <3> QED
        BY <3>4, <3>6, Zenon
    <2> QED
      BY <2>2, <2>3, SMT
  <1> QED
    BY <1>2, <1>3, Zenon

(* The quotient of a multiple. *)
LEMMA WholeQuotientDiv ==
  ASSUME NEW k \in Int, NEW q \in Nat, q > 0
  PROVE  (k * q) \div q = k
  <1> DEFINE p == k * q
             w == p \div q
             r == p % q
  <1>1. p \in Int
    BY Z3
  <1> HIDE DEF p
  <1>2. w \in Int /\ r \in 0 .. q - 1 /\ p = w * q + r
    BY <1>1, QuotientAndRest, SMT
  <1>3. p = k * q
    BY Zenon DEF p
  <1> HIDE DEF w, r
  <1>4. w = k
    <2>1. r \in Int /\ 0 <= r /\ r < q /\ (k - w) * q = r
      BY <1>2, <1>3, Z3
    <2> DEFINE e == k - w
    <2>2. e \in Int /\ e * q = r /\ (e = 0 => w = k)
      BY <1>2, <2>1, SMT
    <2> HIDE DEF e
    <2>3. e >= 1 => e * q >= q
      BY <2>2, Z3
    <2>4. e <= -1 => e * q <= -q
      BY <2>2, Z3
    <2> DEFINE z == e * q
    <2>5. z = r /\ (e >= 1 => z >= q) /\ (e <= -1 => z <= -q)
      BY <2>2, <2>3, <2>4, Zenon
    <2> HIDE DEF z
    <2> QED
      BY <2>1, <2>2, <2>5, SMT
  <1> QED
    BY <1>4, Zenon DEF w, p

(* What is decoded from a block has its indices, and numbers in it. *)
LEMMA ReadBlock ==
  ASSUME NEW x \in Blocks, NEW q, SameShape(x, q), NEW y, SameShape(q, y),
         \A j \in DOMAIN q : \A i \in DOMAIN q[j] : y[j][i] \in Int
  PROVE  /\ y \in Blocks /\ SameIndices(x, y) /\ SameIndices(x, q) /\ SameIndices(q, y)
         /\ 1 \in DOMAIN x /\ y[1] \in Seq(Number) /\ y[1] # <<>>
         /\ \A j \in DOMAIN x : \A i \in DOMAIN x[j] : y[j][i] \in Int /\ Sane(y[j][i]) = y[j][i]
  <1>1. SameIndices(x, q) /\ SameIndices(q, y)
    BY ShapeIs, Zenon
  <1>2. SameIndices(x, y)
    BY <1>1, Zenon DEF SameIndices
  <1>3. \A m \in Int : m \in Number /\ Sane(m) = m
    BY NumbersAssumption, Zenon DEF Number, Sane
  <1>4. y \in Blocks
    BY <1>3, DecodedNumbers, Zenon
  <1>5. 1 \in DOMAIN x
    BY BlockParts, Zenon
  <1>6. y[1] \in Seq(Number) /\ y[1] # <<>>
    <2>1. 1 \in DOMAIN y
      BY <1>2, <1>5, Zenon DEF SameIndices
    <2> QED
      BY <1>4, <2>1, BlockParts, Zenon
  <1>7. \A j \in DOMAIN x : \A i \in DOMAIN x[j] : y[j][i] \in Int
    BY <1>1, Zenon DEF SameIndices
  <1> QED
    BY <1>1, <1>2, <1>3, <1>4, <1>5, <1>6, <1>7, Zenon

(* INT8 and INT4: the scale is the same and so are the codes, for the      *)
(* largest element is a whole multiple of the scale.                       *)
LEMMA IntAgain ==
  ASSUME NEW n \in Nat, n > 0, NEW even, NEW x \in Blocks
  PROVE  EncodeINT(n, even, DecodeINT(EncodeINT(n, even, x))).q = EncodeINT(n, even, x).q
  <1> DEFINE b == EncodeINT(n, even, x)
             q == b.q
             s == IntScale(n, x)
             a == ClampAbsMax(AbsMax(x[1]), n)
             y == DecodeINT(b)
             c == EncodeINT(n, even, y)
             r == c.q
  <1>1. /\ b.d = s /\ s \in Nat /\ a \in Nat /\ a <= AbsMax(x[1]) /\ a <= FloatMax \div n
        /\ n * s <= a
        /\ q = [j \in DOMAIN x |-> [i \in DOMAIN x[j] |-> IntCode(n, even, s, Sane(x[j][i]))]]
        /\ \A v \in Int : IntCode(n, even, s, v) \in -n .. n /\ IntCode(n, even, s, v) \in Int
    BY IntBlock, Zenon
  <1>2. Sane(s) = s
    <2>1. s \in Int
      BY <1>1, SMT
    <2> QED
      BY <2>1, NumbersAssumption, Zenon DEF Sane
  <1>3. y = [j \in DOMAIN q |-> [i \in DOMAIN q[j] |-> q[j][i] * s]]
    <2>1. y = [j \in DOMAIN q |-> [i \in DOMAIN q[j] |-> q[j][i] * Sane(b.d)]]
      BY Zenon DEF DecodeINT
    <2>2. Sane(b.d) = s
      BY <1>1, <1>2, Zenon
    <2> HIDE DEF q, b, s, y
    <2> QED
      BY <2>1, <2>2, Zenon
  <1> DEFINE S == IntScale(n, y)
  <1>4. y \in Blocks => r = [j \in DOMAIN y |-> [i \in DOMAIN y[j] |-> IntCode(n, even, S, Sane(y[j][i]))]]
    <2>1. ASSUME NEW z \in Blocks
          PROVE  EncodeINT(n, even, z).q
                   = [j \in DOMAIN z |-> [i \in DOMAIN z[j] |-> IntCode(n, even, IntScale(n, z), Sane(z[j][i]))]]
      BY IntBlock, SMT
    <2> HIDE DEF y
    <2> QED
      BY <2>1, Zenon
  <1>5. S = IF ClampAbsMax(AbsMax(y[1]), n) < n THEN 0 ELSE ClampAbsMax(AbsMax(y[1]), n) \div n
    BY Zenon DEF IntScale
  <1> HIDE DEF b, q, s, y, r, S
  <1>6. SameShape(x, q) /\ SameShape(q, y)
    BY <1>1, <1>3, Zenon DEF SameShape
  <1>7. \A j \in DOMAIN x : \A i \in DOMAIN x[j] : Sane(x[j][i]) \in Int
    <2>1. \A j \in DOMAIN x : \A i \in DOMAIN x[j] : x[j][i] \in Number
      BY BlockParts, Zenon
    <2> QED
      BY <2>1, SaneIs, Zenon
  <1>8. SameIndices(x, q)
    BY <1>6, ShapeIs, Zenon
  <1>9. \A j \in DOMAIN x : \A i \in DOMAIN x[j] : /\ q[j][i] \in -n .. n
                                                  /\ q[j][i] = IntCode(n, even, s, Sane(x[j][i]))
                                                  /\ y[j][i] = q[j][i] * s
    <2>1. \A j \in DOMAIN x : \A i \in DOMAIN x[j] : q[j][i] = IntCode(n, even, s, Sane(x[j][i]))
      BY <1>1, Zenon
    <2>2. \A j \in DOMAIN q : \A i \in DOMAIN q[j] : y[j][i] = q[j][i] * s
      BY <1>3, Zenon
    <2> QED
      BY <1>1, <1>7, <1>8, <2>1, <2>2, Zenon DEF SameIndices
  <1>10. \A k \in -n .. n : /\ k * s \in Int /\ Abs(k * s) <= n * s /\ Abs(k * s) \in Int
                            /\ k \in {n, -n} => Abs(k * s) = n * s
    <2> TAKE k \in -n .. n
    <2>1. k \in Int /\ -n <= k /\ k <= n
      BY SMT
    <2>2. k * s <= n * s /\ (-n) * s <= k * s /\ (-n) * s = -(n * s) /\ k * s \in Int /\ n * s \in Int /\ n * s >= 0
      BY <1>1, <2>1, Z3
    <2> DEFINE p == k * s
               t == n * s
               u == (-n) * s
    <2>3. p <= t /\ u <= p /\ u = -t /\ p \in Int /\ t \in Int /\ t >= 0
      BY <2>2, Zenon
    <2>4. k \in {n, -n} => p = t \/ p = u
      BY Zenon
    <2> HIDE DEF p, t, u
    <2>5. p \in Int /\ Abs(p) <= t /\ Abs(p) \in Int /\ (p = t \/ p = u => Abs(p) = t)
      BY <2>3, SMT DEF Abs
    <2> QED
      BY <2>4, <2>5, Zenon DEF p, t
  <1>11. \A j \in DOMAIN x : \A i \in DOMAIN x[j] : y[j][i] \in Int
    BY <1>9, <1>10, Zenon
  <1>12. /\ y \in Blocks /\ SameIndices(x, y) /\ 1 \in DOMAIN x /\ y[1] \in Seq(Number) /\ y[1] # <<>>
         /\ \A j \in DOMAIN x : \A i \in DOMAIN x[j] : Sane(y[j][i]) = y[j][i]
    <2>1. \A j \in DOMAIN q : \A i \in DOMAIN q[j] : y[j][i] \in Int
      BY <1>8, <1>11, Zenon DEF SameIndices
    <2>2. /\ y \in Blocks /\ SameIndices(x, y) /\ SameIndices(x, q) /\ SameIndices(q, y)
          /\ 1 \in DOMAIN x /\ y[1] \in Seq(Number) /\ y[1] # <<>>
          /\ \A j \in DOMAIN x : \A i \in DOMAIN x[j] : y[j][i] \in Int /\ Sane(y[j][i]) = y[j][i]
      BY <1>6, <2>1, ReadBlock, SMT
    <2> QED
      BY <2>2, Zenon
  <1>13. S = s
    <2> DEFINE A == AbsMax(y[1])
    <2>1. /\ A \in Nat /\ \E i \in DOMAIN y[1] : A = Abs(Sane(y[1][i]))
          /\ \A i \in DOMAIN y[1] : Abs(Sane(y[1][i])) <= A
      BY <1>12, Measures, Zenon
    <2>2. A <= n * s /\ n * s \in Int
      <3>1. PICK i \in DOMAIN x[1] : A = Abs(Sane(y[1][i]))
        BY <1>12, <2>1, Zenon DEF SameIndices
      <3>2. A = Abs(q[1][i] * s) /\ q[1][i] \in -n .. n
        BY <1>9, <1>12, <3>1, SMT
      <3>3. n * s \in Int
        BY <1>1, Z3
      <3> QED
        BY <1>10, <3>2, <3>3, Zenon
    <2>3. s > 0 => n * s <= A
      <3> SUFFICES ASSUME s > 0 PROVE n * s <= A
        OBVIOUS
      <3>0. x[1] \in Seq(Number) /\ x[1] # <<>>
        BY <1>12, BlockParts, Zenon
      <3>1. PICK i \in DOMAIN x[1] : AbsMax(x[1]) = Abs(Sane(x[1][i]))
        BY <3>0, Measures, Zenon
      <3>2. Abs(Sane(x[1][i])) >= n * s /\ Sane(x[1][i]) \in Int
        <4> DEFINE w == Abs(Sane(x[1][i]))
                   t == n * s
        <4>1. a <= w /\ t <= a /\ a \in Nat /\ w \in Int /\ t \in Int
          <5>1. AbsMax(x[1]) \in Nat
            BY <3>0, Measures, Zenon
          <5>2. AbsMax(x[1]) \in Int
            BY <5>1, SMT
          <5> QED
            BY <1>1, <2>2, <3>1, <5>2, Zenon
        <4> HIDE DEF w, t, a
        <4>2. w >= t
          BY <4>1, SMT
        <4> QED
          BY <1>7, <1>12, <4>2, Zenon DEF w, t
      <3>3. q[1][i] \in {n, -n}
        <4>1. IntCode(n, even, s, Sane(x[1][i])) \in {n, -n}
          BY <1>1, <3>2, IntCodeIs, Zenon
        <4> QED
          BY <1>9, <1>12, <4>1, Zenon
      <3>4. Abs(Sane(y[1][i])) = n * s
        <4>1. Sane(y[1][i]) = q[1][i] * s /\ q[1][i] \in -n .. n
          BY <1>9, <1>12, SMT
        <4> QED
          BY <1>10, <3>3, <4>1, Zenon
      <3>5. i \in DOMAIN y[1]
        BY <1>12, Zenon DEF SameIndices
      <3>6. Abs(Sane(y[1][i])) <= A
        BY <2>1, <3>5, Zenon
      <3> QED
        BY <3>4, <3>6, Zenon
    <2> DEFINE t == n * s
    <2>4. A = t
      <3>1. CASE s > 0
        <4>1. A <= t /\ t <= A /\ t \in Int /\ A \in Nat
          BY <2>1, <2>2, <2>3, <3>1, Zenon
        <4> HIDE DEF A, t
        <4> QED
          BY <4>1, SMT
      <3>2. CASE s = 0
        <4>1. t = 0
          BY <3>2, SMT
        <4>2. A <= t /\ A \in Nat
          BY <2>1, <2>2, Zenon
        <4> HIDE DEF A, t
        <4> QED
          BY <4>1, <4>2, SMT
      <3>3. s > 0 \/ s = 0
        BY <1>1, SMT
      <3> QED
        BY <3>1, <3>2, <3>3, Zenon
    <2>5. t \in Nat /\ t <= FloatMax \div n /\ FloatMax \div n \in Int
      <3>1. t \in Int /\ A \in Nat
        BY <2>1, <2>2, Zenon
      <3>2. FloatMax \div n \in Int
        BY NumbersAssumption, SMT
      <3> DEFINE F == FloatMax \div n
      <3>3. t <= a /\ a <= F /\ F \in Int /\ t \in Nat /\ a \in Nat
        BY <1>1, <2>1, <2>4, <3>2, Zenon
      <3> HIDE DEF F, t, a
      <3>4. t <= F
        BY <3>3, SMT
      <3> QED
        BY <3>3, <3>4, Zenon DEF F
    <2>6. ClampAbsMax(A, n) = t
      <3>1. t \in Int
        BY <2>5, SMT
      <3>2. Min({t, FloatMax \div n}) = t
        <4> HIDE DEF t
        <4> QED
          BY <2>5, <3>1, OfTwo, Zenon
      <3> HIDE DEF t, A
      <3> QED
        BY <2>4, <3>2, Zenon DEF ClampAbsMax
    <2>7. S = IF t < n THEN 0 ELSE t \div n
      BY <1>5, <2>6, Zenon
    <2>8. CASE s = 0
      <3>1. t = 0
        BY <2>8, SMT
      <3> HIDE DEF t
      <3>2. t < n
        BY <3>1, SMT
      <3> QED
        BY <2>7, <2>8, <3>2, Zenon
    <2>9. CASE s > 0
      <3>1. t \div n = s
        <4>1. t = s * n /\ s \in Int
          BY <1>1, Z3
        <4> HIDE DEF t
        <4> QED
          BY <4>1, WholeQuotientDiv, Zenon
      <3>2. ~(t < n)
        <4>1. t >= n /\ t \in Int
          BY <1>1, <2>9, Z3
        <4> HIDE DEF t
        <4> QED
          BY <4>1, SMT
      <3> HIDE DEF t
      <3> QED
        BY <2>7, <3>1, <3>2, Zenon
    <2>10. s > 0 \/ s = 0
      BY <1>1, SMT
    <2> QED
      BY <2>8, <2>9, <2>10, Zenon
  <1>14. r = [j \in DOMAIN y |-> [i \in DOMAIN y[j] |-> IntCode(n, even, s, Sane(y[j][i]))]]
    BY <1>4, <1>12, <1>13, Zenon
  <1>15. SameShape(y, r)
    BY <1>14, Zenon DEF SameShape
  <1>16. \A j \in DOMAIN q : \A i \in DOMAIN q[j] : r[j][i] = q[j][i]
    <2> SUFFICES ASSUME NEW j \in DOMAIN x, NEW i \in DOMAIN x[j] PROVE r[j][i] = q[j][i]
      BY <1>8, Zenon DEF SameIndices
    <2>1. r[j][i] = IntCode(n, even, s, Sane(y[j][i]))
      <3>1. j \in DOMAIN y /\ i \in DOMAIN y[j]
        BY <1>12, Zenon DEF SameIndices
      <3> QED
        BY <1>14, <3>1, Zenon
    <2>2. Sane(y[j][i]) = q[j][i] * s /\ q[j][i] \in -n .. n /\ q[j][i] = IntCode(n, even, s, Sane(x[j][i]))
      BY <1>9, <1>12, SMT
    <2>3. CASE s = 0
      BY <2>1, <2>2, <2>3, Zenon DEF IntCode
    <2>4. CASE s > 0
      <3>0. s \in Nat
        BY <1>1, Zenon
      <3>1. \A k \in -n .. n : IntCode(n, even, s, k * s) = k
        BY <2>4, <3>0, IntCodeIs, Zenon
      <3> QED
        BY <2>1, <2>2, <3>1, Zenon
    <2>5. s > 0 \/ s = 0
      BY <1>1, SMT
    <2> QED
      BY <2>3, <2>4, <2>5, Zenon
  <1>17. r = q
    BY <1>6, <1>15, <1>16, SameElements, Zenon
  <1> QED
    BY <1>17, Zenon DEF r, q, y, b

(* Q4_1 and Q5_1: the ends of the range are given the first and the last   *)
(* code, so that the minimum and the scale come out as they were.          *)
LEMMA MinMaxAgain ==
  ASSUME NEW n \in Nat, n > 0, n <= 31, NEW x \in Blocks, EncodeMinMax(n, x).d # NonFinite
  PROVE  DecodeMinMax(EncodeMinMax(n, DecodeMinMax(EncodeMinMax(n, x)))) = DecodeMinMax(EncodeMinMax(n, x))
  <1> DEFINE b == EncodeMinMax(n, x)
             q == b.q
             lo == MinOf(x[1])
             hi == MaxOf(x[1])
             range == hi - lo
             d == Half(range, n)
             m == Half(lo, 1)
             y == DecodeMinMax(b)
             c == EncodeMinMax(n, y)
             r == c.q
             z == DecodeMinMax(c)
             low == MinOf(y[1])
             wide == MaxOf(y[1]) - low
  <1>1. /\ lo \in Int /\ range \in Nat
        /\ b.d = IF range > FloatMax THEN NonFinite ELSE Half(range, n)
        /\ b.m = m /\ b.m \in Int /\ d \in Int
        /\ q = [j \in DOMAIN x |-> [i \in DOMAIN x[j] |-> MinMaxCode(n, lo, range, Sane(x[j][i]))]]
        /\ \A v \in Int : MinMaxCode(n, lo, range, v) \in 0 .. n
    BY MinMaxBlock, Zenon
  <1>2. ~(range > FloatMax) /\ b.d = d
    BY <1>1, Zenon
  <1>3. y = [j \in DOMAIN q |-> [i \in DOMAIN q[j] |-> q[j][i] * d + m]]
    <2>1. y = [j \in DOMAIN q |-> [i \in DOMAIN q[j] |-> q[j][i] * b.d + b.m]]
      BY Zenon DEF DecodeMinMax
    <2> HIDE DEF q, b, d, m, y
    <2> QED
      BY <1>1, <1>2, <2>1, Zenon
  <1>4. y \in Blocks => /\ c.d = IF wide > FloatMax THEN NonFinite ELSE Half(wide, n)
                        /\ c.m = Half(low, 1)
                        /\ r = [j \in DOMAIN y |-> [i \in DOMAIN y[j] |-> MinMaxCode(n, low, wide, Sane(y[j][i]))]]
    <2>1. ASSUME NEW u \in Blocks
          PROVE  LET e == EncodeMinMax(n, u)
                     l == MinOf(u[1])
                     w == MaxOf(u[1]) - l
                 IN  /\ e.d = IF w > FloatMax THEN NonFinite ELSE Half(w, n)
                     /\ e.m = Half(l, 1)
                     /\ e.q = [j \in DOMAIN u |-> [i \in DOMAIN u[j] |-> MinMaxCode(n, l, w, Sane(u[j][i]))]]
      BY MinMaxBlock, SMT
    <2> HIDE DEF y
    <2> QED
      BY <2>1, Zenon
  <1>5. z = [j \in DOMAIN r |-> [i \in DOMAIN r[j] |-> r[j][i] * c.d + c.m]]
    BY Zenon DEF DecodeMinMax
  <1>6. lo \in Int /\ hi \in Int /\ (\E i \in DOMAIN x[1] : lo = Sane(x[1][i])) /\ (\E i \in DOMAIN x[1] : hi = Sane(x[1][i]))
    <2>1. x[1] \in Seq(Number) /\ x[1] # <<>>
      BY BlockParts, Zenon
    <2> QED
      BY <2>1, Measures, Zenon
  <1>7. /\ d \in Int /\ d >= 0 /\ d <= HalfMax /\ Half(n * d, n) = d /\ (range = 0 => d = 0)
        /\ m \in Int /\ Half(m, 1) = m
    <2>1. range \in Int /\ n \in Int /\ n # 0 /\ ~(range < 0) /\ ~(n < 0) /\ range \in Nat
      <3> DEFINE w == range
      <3>1. w \in Nat
        BY <1>1, Zenon
      <3> HIDE DEF w
      <3>2. w \in Int /\ n \in Int /\ n # 0 /\ ~(w < 0) /\ ~(n < 0)
        BY <3>1, SMT
      <3> QED
        BY <3>1, <3>2, Zenon DEF w
    <2>2. lo \in Int /\ 1 \in Int /\ 1 # 0
      BY <1>6, SMT
    <2>3. (range < 0) = (n < 0)
      BY <2>1, SMT
    <2> HIDE DEF range, lo
    <2>4. Half(n * d, n) = d /\ d \in Int /\ d <= HalfMax /\ (range = 0 => d = 0) /\ d >= 0
      BY <2>1, <2>3, HalfAgain, SMT
    <2>5. Half(1 * m, 1) = m /\ m \in Int
      BY <2>2, HalfAgain, Zenon
    <2>6. 1 * m = m
      <3> HIDE DEF m
      <3> QED
        BY <2>5, SMT
    <2> QED
      BY <2>4, <2>5, <2>6, Zenon
  <1>8. n * d <= FloatMax /\ n * d \in Int /\ n * d >= 0
    <2> HIDE DEF d
    <2>1. n * d <= 31 * HalfMax /\ n * d \in Int /\ n * d >= 0
      <3>1. HalfMax \in Nat
        BY NumbersAssumption, SMT
      <3> DEFINE H == HalfMax
      <3>2. H \in Nat /\ d <= H
        BY <1>7, <3>1, Zenon
      <3> HIDE DEF H
      <3>3. n * d <= n * H /\ n * H <= 31 * H /\ n * d \in Int /\ n * H \in Int /\ n * d >= 0
        BY <1>7, <3>2, Z3
      <3> QED
        BY <3>2, <3>3, SMT DEF H
    <2> QED
      BY <2>1, NumbersAssumption, SMT
  <1>9. \A j \in DOMAIN x : \A i \in DOMAIN x[j] : Sane(x[j][i]) \in Int
    <2>1. \A j \in DOMAIN x : \A i \in DOMAIN x[j] : x[j][i] \in Number
      BY BlockParts, Zenon
    <2> QED
      BY <2>1, SaneIs, Zenon
  <1>10. range > 0 => MinMaxCode(n, lo, range, lo) = 0 /\ MinMaxCode(n, lo, range, hi) = n
    <2> SUFFICES ASSUME range > 0 PROVE MinMaxCode(n, lo, range, lo) = 0 /\ MinMaxCode(n, lo, range, hi) = n
      OBVIOUS
    <2> DEFINE w == range
    <2>1. w \in Nat /\ w > 0 /\ ~(w > FloatMax)
      BY <1>1, <1>2, Zenon
    <2>2. (lo - lo) * n = 0 * w /\ (hi - lo) * n = n * w
      <3>1. \A l, h \in Int : (l - l) * n = 0 * (h - l) /\ (h - l) * n = n * (h - l)
        BY Z3
      <3> QED
        BY <1>6, <3>1, Zenon
    <2> HIDE DEF w
    <2>3. w # 0
      BY <2>1, SMT
    <2>4. \A v : MinMaxCode(n, lo, w, v) = Clamp(HalfUp((v - lo) * n, w), 0, n)
      BY <2>1, <2>3, Zenon DEF MinMaxCode
    <2> HIDE DEF lo, hi
    <2>5. 0 \in Int /\ n \in Int
      BY SMT
    <2>6. HalfUp(0 * w, w) = 0 /\ HalfUp(n * w, w) = n
      BY <2>1, <2>5, WholeQuotient, Zenon
    <2>7. Clamp(0, 0, n) = 0 /\ Clamp(n, 0, n) = n
      BY SMT DEF Clamp
    <2>8. MinMaxCode(n, lo, w, lo) = 0 /\ MinMaxCode(n, lo, w, hi) = n
      BY <2>2, <2>4, <2>6, <2>7, Zenon
    <2> QED
      BY <2>8, Zenon DEF w
  <1> HIDE DEF b, q, d, m, y, c, r, z, lo, hi, range, low, wide
  <1>11. SameShape(x, q) /\ SameShape(q, y) /\ SameIndices(x, q)
    <2>1. SameShape(x, q) /\ SameShape(q, y)
      BY <1>1, <1>3, Zenon DEF SameShape
    <2> QED
      BY <2>1, ShapeIs, Zenon
  <1>12. \A j \in DOMAIN x : \A i \in DOMAIN x[j] : /\ q[j][i] \in 0 .. n
                                                   /\ q[j][i] = MinMaxCode(n, lo, range, Sane(x[j][i]))
                                                   /\ y[j][i] = q[j][i] * d + m
    <2>1. \A j \in DOMAIN x : \A i \in DOMAIN x[j] : q[j][i] = MinMaxCode(n, lo, range, Sane(x[j][i]))
      BY <1>1, Zenon
    <2>2. \A j \in DOMAIN q : \A i \in DOMAIN q[j] : y[j][i] = q[j][i] * d + m
      BY <1>3, Zenon
    <2> QED
      BY <1>1, <1>9, <1>11, <2>1, <2>2, ZenonT(60) DEF SameIndices
  <1>13. \A k \in 0 .. n : k * d + m \in Int /\ m <= k * d + m /\ k * d + m <= n * d + m
    <2> TAKE k \in 0 .. n
    <2>1. k * d <= n * d /\ 0 <= k * d /\ k * d \in Int /\ n * d \in Int
      BY <1>7, Z3
    <2> DEFINE p == k * d
               t == n * d
    <2>2. p <= t /\ 0 <= p /\ p \in Int /\ t \in Int
      BY <2>1, Zenon
    <2> HIDE DEF p, t
    <2>3. p + m \in Int /\ m <= p + m /\ p + m <= t + m
      BY <1>7, <2>2, SMT
    <2> QED
      BY <2>3, Zenon DEF p, t
  <1>14. \A j \in DOMAIN x : \A i \in DOMAIN x[j] : y[j][i] \in Int
    BY <1>12, <1>13, Zenon
  <1>15. /\ y \in Blocks /\ SameIndices(x, y) /\ SameIndices(x, q) /\ SameIndices(q, y)
         /\ 1 \in DOMAIN x /\ y[1] \in Seq(Number) /\ y[1] # <<>>
         /\ \A j \in DOMAIN x : \A i \in DOMAIN x[j] : y[j][i] \in Int /\ Sane(y[j][i]) = y[j][i]
    <2>1. \A j \in DOMAIN q : \A i \in DOMAIN q[j] : y[j][i] \in Int
      BY <1>11, <1>14, Zenon DEF SameIndices
    <2> QED
      BY <1>11, <2>1, ReadBlock, SMT
  <1>16. low = m /\ MaxOf(y[1]) = n * d + m
    <2> DEFINE H == MaxOf(y[1])
               t == n * d
    <2>1. /\ H \in Int /\ (\E i \in DOMAIN y[1] : H = Sane(y[1][i]))
          /\ low \in Int /\ (\E i \in DOMAIN y[1] : low = Sane(y[1][i]))
          /\ \A i \in DOMAIN y[1] : low <= Sane(y[1][i]) /\ Sane(y[1][i]) <= H
      BY <1>15, Measures, Zenon DEF low
    <2> HIDE DEF H
    <2>2. DOMAIN y[1] = DOMAIN x[1]
      BY <1>15, Zenon DEF SameIndices
    <2>3. \A i \in DOMAIN x[1] : /\ Sane(y[1][i]) = q[1][i] * d + m /\ q[1][i] \in 0 .. n
                                 /\ m <= Sane(y[1][i]) /\ Sane(y[1][i]) <= n * d + m
      BY <1>12, <1>13, <1>15, SMT
    <2>4. m <= low /\ H <= t + m
      BY <2>1, <2>2, <2>3, Zenon
    <2>5. 0 * d = 0 /\ 0 + m = m /\ t \in Int
      <3>1. \A e \in Int : 0 * e = 0 /\ 0 + e = e
        BY SMT
      <3> QED
        BY <1>7, <1>8, <3>1, Zenon
    <2>6. CASE d = 0
      <3>1. t = 0
        BY <2>6, SMT
      <3>2. m <= H
        BY <2>1, <2>2, <2>3, Zenon
      <3>3. low <= t + m
        BY <2>1, <2>2, <2>3, Zenon
      <3> HIDE DEF t
      <3>4. low = m /\ H = t + m
        BY <1>7, <2>1, <2>4, <3>1, <3>2, <3>3, SMT
      <3> QED
        BY <3>4, Zenon DEF H, t
    <2>7. CASE d # 0
      <3>1. range > 0
        BY <1>1, <1>7, <2>7, SMT
      <3>2. PICK i \in DOMAIN x[1] : lo = Sane(x[1][i])
        BY <1>6, Zenon
      <3>3. PICK k \in DOMAIN x[1] : hi = Sane(x[1][k])
        BY <1>6, Zenon
      <3>4. q[1][i] = 0 /\ q[1][k] = n
        BY <1>10, <1>12, <1>15, <3>1, <3>2, <3>3, Zenon
      <3>5. Sane(y[1][i]) = m /\ Sane(y[1][k]) = t + m
        BY <2>3, <2>5, <3>4, Zenon
      <3>6. low <= m /\ t + m <= H
        BY <2>1, <2>2, <3>5, Zenon
      <3> HIDE DEF t
      <3>7. low = m /\ H = t + m
        BY <1>7, <2>1, <2>4, <2>5, <3>6, SMT
      <3> QED
        BY <3>7, Zenon DEF H, t
    <2> QED
      BY <2>6, <2>7, Zenon
  <1>17. wide = n * d
    <2> DEFINE H == MaxOf(y[1])
               t == n * d
    <2>1. wide = H - low
      BY Zenon DEF wide
    <2>2. H = t + m /\ low = m /\ t \in Int
      BY <1>8, <1>16, Zenon
    <2> HIDE DEF t, H
    <2>3. wide = t
      BY <1>7, <2>1, <2>2, SMT
    <2> QED
      BY <2>3, Zenon DEF t
  <1>18. c.d = d /\ c.m = m
    <2>1. ~(n * d > FloatMax)
      <3> DEFINE t == n * d
      <3>1. t <= FloatMax /\ t \in Int
        BY <1>8, Zenon
      <3> HIDE DEF t
      <3>2. ~(t > FloatMax)
        BY <3>1, NumbersAssumption, SMT
      <3> QED
        BY <3>2, Zenon DEF t
    <2>2. c.d = IF wide > FloatMax THEN NonFinite ELSE Half(wide, n)
      BY <1>4, <1>15, Zenon
    <2>3. c.m = Half(low, 1)
      BY <1>4, <1>15, Zenon
    <2> QED
      BY <1>7, <1>16, <1>17, <2>1, <2>2, <2>3, Zenon
  <1>19. r = [j \in DOMAIN y |-> [i \in DOMAIN y[j] |-> MinMaxCode(n, low, wide, Sane(y[j][i]))]]
    BY <1>4, <1>15, Zenon
  <1>20. SameShape(y, r) /\ SameShape(r, z) /\ SameIndices(y, r)
    <2>1. SameShape(y, r) /\ SameShape(r, z)
      BY <1>5, <1>19, Zenon DEF SameShape
    <2> QED
      BY <2>1, ShapeIs, Zenon
  <1>21. \A j \in DOMAIN y : \A i \in DOMAIN y[j] : z[j][i] = y[j][i]
    <2> SUFFICES ASSUME NEW j \in DOMAIN x, NEW i \in DOMAIN x[j] PROVE z[j][i] = y[j][i]
      BY <1>15, Zenon DEF SameIndices
    <2>1. j \in DOMAIN y /\ i \in DOMAIN y[j] /\ j \in DOMAIN r /\ i \in DOMAIN r[j]
      BY <1>15, <1>20, Zenon DEF SameIndices
    <2>2. r[j][i] = MinMaxCode(n, m, n * d, y[j][i])
      <3>1. r[j][i] = MinMaxCode(n, low, wide, Sane(y[j][i]))
        BY <1>19, <2>1, Zenon
      <3> QED
        BY <1>15, <1>16, <1>17, <3>1, Zenon
    <2>3. z[j][i] = r[j][i] * d + m
      <3>1. z[j][i] = r[j][i] * c.d + c.m
        BY <1>5, <2>1, Zenon
      <3> QED
        BY <1>18, <3>1, Zenon
    <2> DEFINE k == q[j][i]
               v == y[j][i]
               e == r[j][i]
    <2>4. k \in 0 .. n /\ v = k * d + m
      BY <1>12, Zenon
    <2>5. CASE d = 0
      <3>1. e \in Int
        <4>1. MinMaxCode(n, m, 0, v) = 0
          BY Zenon DEF MinMaxCode
        <4>2. n * d = 0
          BY <2>5, SMT
        <4> QED
          BY <2>2, <4>1, <4>2, SMT
      <3> HIDE DEF k, v, e
      <3>2. e * d + m = k * d + m
        BY <2>4, <2>5, <3>1, SMT
      <3> QED
        BY <2>3, <2>4, <3>2, Zenon DEF e, v
    <2>6. CASE d # 0
      <3> DEFINE t == n * d
      <3>1. t \in Nat /\ t > 0 /\ ~(t > FloatMax) /\ t # 0
        <4>1. n * d > 0
          BY <1>7, <2>6, Z3
        <4>2. t > 0 /\ t <= FloatMax /\ t \in Int
          BY <1>8, <4>1, Zenon
        <4> HIDE DEF t
        <4> QED
          BY <4>2, NumbersAssumption, SMT
      <3>2. (v - m) * n = k * t /\ k \in Int
        <4> HIDE DEF k, v
        <4>1. k \in Int /\ v - m = k * d
          BY <1>7, <2>4, SMT
        <4>2. (k * d) * n = k * (n * d)
          BY <1>7, <4>1, Z3
        <4> QED
          BY <4>1, <4>2, Zenon
      <3> HIDE DEF t
      <3>3. HalfUp(k * t, t) = k
        BY <3>1, <3>2, WholeQuotient, Zenon
      <3>4. Clamp(k, 0, n) = k
        <4> HIDE DEF k
        <4> QED
          BY <2>4, SMT DEF Clamp
      <3>5. MinMaxCode(n, m, t, v) = k
        BY <3>1, <3>2, <3>3, <3>4, Zenon DEF MinMaxCode
      <3>6. e = k
        BY <2>2, <3>5, Zenon DEF t
      <3> QED
        BY <2>3, <2>4, <3>6, Zenon
    <2> QED
      BY <2>5, <2>6, Zenon
  <1>22. z = y
    BY <1>11, <1>20, <1>21, SameElements, ZenonT(60)
  <1> QED
    BY <1>22, Zenon DEF z, c, y, b

(* The code of Q5_0 for an element of largest magnitude, and for what a    *)
(* code stands for.                                                        *)
LEMMA Q5CodeIs ==
  ASSUME NEW d \in Int, d # 0, NEW V \in Int, V = -16 * d, NEW k \in 0 .. 31
  PROVE  Q5Code(V, (k - 16) * d) = k
  <1> DEFINE t == IF V > 0 THEN -16 * ((k - 16) * d) ELSE 16 * ((k - 16) * d)
             w == Abs(V)
  <1>1. V # 0 /\ w \in Nat /\ w > 0
    BY AbsIs, SMT
  <1>2. Q5Code(V, (k - 16) * d) = Clamp(HalfUp(t + 16 * w, w), 0, 31)
    BY <1>1, Zenon DEF Q5Code
  <1>3. t + 16 * w = k * w
    <2> DEFINE p == k * d
    <2>1. p \in Int /\ (k - 16) * d = p - 16 * d
      BY Z3
    <2>2. CASE d > 0
      <3>1. w = 16 * d /\ ~(V > 0)
        BY <2>2, SMT DEF Abs
      <3>2. k * (16 * d) = 16 * p
        BY Z3
      <3> HIDE DEF p
      <3>3. 16 * (p - 16 * d) + 16 * (16 * d) = 16 * p
        BY <2>1, SMT
      <3> QED
        BY <2>1, <3>1, <3>2, <3>3, Zenon
    <2>3. CASE d < 0
      <3>1. w = -16 * d /\ V > 0
        BY <2>3, SMT DEF Abs
      <3>2. k * (-16 * d) = -16 * p
        BY Z3
      <3> HIDE DEF p
      <3>3. -16 * (p - 16 * d) + 16 * (-16 * d) = -16 * p
        BY <2>1, SMT
      <3> QED
        BY <2>1, <3>1, <3>2, <3>3, Zenon
    <2> QED
      BY <2>2, <2>3, SMT
  <1> HIDE DEF t, w
  <1>4. HalfUp(k * w, w) = k
    <2>1. k \in Int
      BY SMT
    <2> QED
      BY <1>1, <2>1, WholeQuotient, Zenon
  <1>5. Clamp(k, 0, 31) = k
    BY SMT DEF Clamp
  <1> QED
    BY <1>2, <1>3, <1>4, <1>5, Zenon

(* The extreme element has the first code. *)
LEMMA Q5First ==
  ASSUME NEW V \in Int, V # 0
  PROVE  Q5Code(V, V) = 0
  <1> DEFINE t == IF V > 0 THEN -16 * V ELSE 16 * V
             w == Abs(V)
  <1>1. w \in Nat /\ w > 0 /\ t + 16 * w = 0 * w
    BY SMT DEF Abs
  <1>2. Q5Code(V, V) = Clamp(HalfUp(t + 16 * w, w), 0, 31)
    BY Zenon DEF Q5Code
  <1> HIDE DEF t, w
  <1>3. HalfUp(0 * w, w) = 0
    <2>1. 0 \in Int
      BY SMT
    <2> QED
      BY <1>1, <2>1, WholeQuotient, Zenon
  <1>4. Clamp(0, 0, 31) = 0
    BY SMT DEF Clamp
  <1> QED
    BY <1>1, <1>2, <1>3, <1>4, Zenon

(* Q5_0: the extreme element is given the first code, so that the scale    *)
(* comes out as it was.                                                    *)
LEMMA Q5Again ==
  ASSUME NEW x \in Blocks
  PROVE  decompressQ5_0ToFP32(compressFP32ToQ5_0(decompressQ5_0ToFP32(compressFP32ToQ5_0(x))))
           = decompressQ5_0ToFP32(compressFP32ToQ5_0(x))
  <1> DEFINE b == compressFP32ToQ5_0(x)
             q == b.q
             vmax == SignedAbsMax(x[1])
             d == Half(vmax, -16)
             y == decompressQ5_0ToFP32(b)
             c == compressFP32ToQ5_0(y)
             r == c.q
             z == decompressQ5_0ToFP32(c)
             V == SignedAbsMax(y[1])
  <1>1. /\ vmax \in Int /\ b.d = d /\ d \in Int
        /\ q = [j \in DOMAIN x |-> [i \in DOMAIN x[j] |-> Q5Code(vmax, Sane(x[j][i]))]]
        /\ \A v \in Int : Q5Code(vmax, v) \in 0 .. 31
    <2>1. /\ vmax \in Int /\ b.d = d /\ b.d \in Int
          /\ q = [j \in DOMAIN x |-> [i \in DOMAIN x[j] |-> Q5Code(vmax, Sane(x[j][i]))]]
          /\ \A v \in Int : Q5Code(vmax, v) \in 0 .. 31
      BY Q5Block, Zenon
    <2> HIDE DEF b, d, q, vmax
    <2> QED
      BY <2>1, Zenon
  <1>2. y = [j \in DOMAIN q |-> [i \in DOMAIN q[j] |-> (q[j][i] - 16) * d]]
    <2>1. y = [j \in DOMAIN q |-> [i \in DOMAIN q[j] |-> (q[j][i] - 16) * b.d]]
      BY Zenon DEF decompressQ5_0ToFP32
    <2> HIDE DEF q, b, d, y
    <2> QED
      BY <1>1, <2>1, Zenon
  <1>3. y \in Blocks => /\ c.d = Half(V, -16)
                        /\ r = [j \in DOMAIN y |-> [i \in DOMAIN y[j] |-> Q5Code(V, Sane(y[j][i]))]]
                        /\ \A v \in Int : Q5Code(V, v) \in 0 .. 31
    <2>1. ASSUME NEW u \in Blocks
          PROVE  LET e == compressFP32ToQ5_0(u)
                     w == SignedAbsMax(u[1])
                 IN  /\ e.d = Half(w, -16)
                     /\ e.q = [j \in DOMAIN u |-> [i \in DOMAIN u[j] |-> Q5Code(w, Sane(u[j][i]))]]
                     /\ \A v \in Int : Q5Code(w, v) \in 0 .. 31
      BY Q5Block, SMT
    <2> HIDE DEF y
    <2> QED
      BY <2>1, Zenon
  <1>4. z = [j \in DOMAIN r |-> [i \in DOMAIN r[j] |-> (r[j][i] - 16) * c.d]]
    BY Zenon DEF decompressQ5_0ToFP32
  <1>5. Half(-16 * d, -16) = d /\ (vmax = 0 => d = 0)
    <2> DEFINE n == -16
    <2>1. n \in Int /\ n # 0
      BY SMT
    <2>2. n * d = -16 * d
      BY <1>1, SMT
    <2> HIDE DEF vmax
    <2>3. Half(n * d, n) = d /\ (vmax = 0 => d = 0)
      <3>1. d = Half(vmax, n)
        BY Zenon
      <3> HIDE DEF n, d
      <3>2. vmax \in Int
        BY <1>1, Zenon
      <3>3. Half(n * Half(vmax, n), n) = Half(vmax, n) /\ (vmax = 0 => Half(vmax, n) = 0)
        BY <2>1, <3>2, HalfAgain, Zenon
      <3> QED
        BY <3>1, <3>3, Zenon
    <2> QED
      BY <2>2, <2>3, Zenon
  <1>6. \E i \in DOMAIN x[1] : vmax = Sane(x[1][i])
    <2>1. x[1] \in Seq(Number) /\ x[1] # <<>>
      BY BlockParts, Zenon
    <2> QED
      BY <2>1, SignedAbsMaxIs, Zenon
  <1>7. \A j \in DOMAIN x : \A i \in DOMAIN x[j] : Sane(x[j][i]) \in Int
    <2>1. \A j \in DOMAIN x : \A i \in DOMAIN x[j] : x[j][i] \in Number
      BY BlockParts, Zenon
    <2> QED
      BY <2>1, SaneIs, Zenon
  <1> HIDE DEF b, q, vmax, d, y, c, r, z, V
  <1>8. SameShape(x, q) /\ SameShape(q, y) /\ SameIndices(x, q)
    <2>1. SameShape(x, q) /\ SameShape(q, y)
      BY <1>1, <1>2, Zenon DEF SameShape
    <2> QED
      BY <2>1, ShapeIs, Zenon
  <1>9. \A j \in DOMAIN x : \A i \in DOMAIN x[j] : /\ q[j][i] \in 0 .. 31
                                                  /\ q[j][i] = Q5Code(vmax, Sane(x[j][i]))
                                                  /\ y[j][i] = (q[j][i] - 16) * d
    <2>1. \A j \in DOMAIN x : \A i \in DOMAIN x[j] : q[j][i] = Q5Code(vmax, Sane(x[j][i]))
      BY <1>1, Zenon
    <2>2. \A j \in DOMAIN q : \A i \in DOMAIN q[j] : y[j][i] = (q[j][i] - 16) * d
      BY <1>2, Zenon
    <2> QED
      BY <1>1, <1>7, <1>8, <2>1, <2>2, ZenonT(60) DEF SameIndices
  <1>10. \A k \in 0 .. 31 : (k - 16) * d \in Int
    BY <1>1, SMT
  <1>11. /\ y \in Blocks /\ SameIndices(x, y) /\ SameIndices(x, q) /\ SameIndices(q, y)
         /\ 1 \in DOMAIN x /\ y[1] \in Seq(Number) /\ y[1] # <<>>
         /\ \A j \in DOMAIN x : \A i \in DOMAIN x[j] : y[j][i] \in Int /\ Sane(y[j][i]) = y[j][i]
    <2>1. \A j \in DOMAIN q : \A i \in DOMAIN q[j] : y[j][i] \in Int
      BY <1>8, <1>9, <1>10, Zenon DEF SameIndices
    <2> QED
      BY <1>8, <2>1, ReadBlock, SMT
  <1>12. V = -16 * d
    <2>1. /\ V \in Int /\ (\E i \in DOMAIN y[1] : V = Sane(y[1][i]))
          /\ \A i \in DOMAIN y[1] : Abs(Sane(y[1][i])) <= Abs(V)
      BY <1>11, SignedAbsMaxIs, Zenon DEF V
    <2>2. DOMAIN y[1] = DOMAIN x[1]
      BY <1>11, Zenon DEF SameIndices
    <2>3. PICK k \in 0 .. 31 : V = (k - 16) * d
      <3>1. PICK i \in DOMAIN x[1] : V = Sane(y[1][i])
        BY <2>1, <2>2, Zenon
      <3>2. V = (q[1][i] - 16) * d /\ q[1][i] \in 0 .. 31
        BY <1>9, <1>11, <3>1, SMT
      <3> QED
        BY <3>2, Zenon
    <2>4. CASE d = 0
      BY <2>3, <2>4, SMT
    <2>5. CASE d # 0
      <3>1. PICK i \in DOMAIN x[1] : vmax = Sane(x[1][i])
        BY <1>6, Zenon
      <3>2. q[1][i] = 0
        BY <1>1, <1>5, <1>9, <1>11, <2>5, <3>1, Q5First, Zenon
      <3>3. Sane(y[1][i]) = (0 - 16) * d
        BY <1>9, <1>11, <3>2, ZenonT(60)
      <3>4. Abs((0 - 16) * d) <= Abs((k - 16) * d)
        BY <2>1, <2>2, <2>3, <3>3, Zenon
      <3>5. k = 0
        <4>1. CASE d > 0
          <5>1. Abs((0 - 16) * d) = 16 * d
            BY <1>1, <4>1, SMT DEF Abs
          <5>2. Abs((k - 16) * d) <= 15 * d \/ k = 0
            <6>1. k # 0 => (k - 16) * d <= 15 * d /\ -15 * d <= (k - 16) * d /\ (k - 16) * d \in Int
              BY <1>1, <4>1, Z3
            <6> DEFINE t == (k - 16) * d
            <6>2. k # 0 => t <= 15 * d /\ -15 * d <= t /\ t \in Int
              BY <6>1
            <6> HIDE DEF t
            <6>3. k # 0 => Abs(t) <= 15 * d
              BY <1>1, <6>2, SMT DEF Abs
            <6> QED
              BY <6>3, Zenon DEF t
          <5> DEFINE t == Abs((k - 16) * d)
          <5>3. 16 * d <= t /\ (t <= 15 * d \/ k = 0) /\ t \in Int
            <6>1. t \in Nat
              BY <1>10, AbsIs, Zenon
            <6>2. t \in Int
              BY <6>1, SMT
            <6> QED
              BY <3>4, <5>1, <5>2, <6>2, Zenon
          <5> HIDE DEF t
          <5> QED
            BY <1>1, <4>1, <5>3, SMT
        <4>2. CASE d < 0
          <5>1. Abs((0 - 16) * d) = -16 * d
            BY <1>1, <4>2, SMT DEF Abs
          <5>2. Abs((k - 16) * d) <= -15 * d \/ k = 0
            <6>1. k # 0 => 15 * d <= (k - 16) * d /\ (k - 16) * d <= -15 * d /\ (k - 16) * d \in Int
              BY <1>1, <4>2, Z3
            <6> DEFINE t == (k - 16) * d
            <6>2. k # 0 => 15 * d <= t /\ t <= -15 * d /\ t \in Int
              BY <6>1
            <6> HIDE DEF t
            <6>3. k # 0 => Abs(t) <= -15 * d
              BY <1>1, <6>2, SMT DEF Abs
            <6> QED
              BY <6>3, Zenon DEF t
          <5> DEFINE t == Abs((k - 16) * d)
          <5>3. -16 * d <= t /\ (t <= -15 * d \/ k = 0) /\ t \in Int
            <6>1. t \in Nat
              BY <1>10, AbsIs, Zenon
            <6>2. t \in Int
              BY <6>1, SMT
            <6> QED
              BY <3>4, <5>1, <5>2, <6>2, Zenon
          <5> HIDE DEF t
          <5> QED
            BY <1>1, <4>2, <5>3, SMT
        <4> QED
          BY <1>1, <2>5, <4>1, <4>2, SMT
      <3>6. (k - 16) * d = -16 * d
        BY <1>1, <3>5, SMT
      <3> QED
        BY <2>3, <3>6, Zenon
    <2> QED
      BY <2>4, <2>5, Zenon
  <1>13. c.d = d
    BY <1>3, <1>5, <1>11, <1>12, Zenon
  <1>14. r = [j \in DOMAIN y |-> [i \in DOMAIN y[j] |-> Q5Code(V, Sane(y[j][i]))]]
    BY <1>3, <1>11, Zenon
  <1>15. SameShape(y, r) /\ SameShape(r, z) /\ SameIndices(y, r)
    <2>2. SameShape(y, r) /\ SameShape(r, z)
      BY <1>4, <1>14, Zenon DEF SameShape
    <2> QED
      BY <2>2, ShapeIs, Zenon
  <1>16. \A j \in DOMAIN y : \A i \in DOMAIN y[j] : z[j][i] = y[j][i]
    <2> SUFFICES ASSUME NEW j \in DOMAIN x, NEW i \in DOMAIN x[j] PROVE z[j][i] = y[j][i]
      BY <1>11, Zenon DEF SameIndices
    <2>1. j \in DOMAIN y /\ i \in DOMAIN y[j] /\ j \in DOMAIN r /\ i \in DOMAIN r[j]
      BY <1>11, <1>15, Zenon DEF SameIndices
    <2>2. r[j][i] = Q5Code(V, y[j][i]) /\ r[j][i] \in 0 .. 31
      <3>1. r[j][i] = Q5Code(V, Sane(y[j][i]))
        BY <1>14, <2>1, Zenon
      <3>2. Sane(y[j][i]) = y[j][i] /\ y[j][i] \in Int
        BY <1>11, Zenon
      <3> QED
        BY <1>3, <1>11, <3>1, <3>2, Zenon
    <2>3. z[j][i] = (r[j][i] - 16) * d
      BY <1>4, <1>13, <2>1, Zenon
    <2> DEFINE k == q[j][i]
               v == y[j][i]
               e == r[j][i]
    <2>4. k \in 0 .. 31 /\ v = (k - 16) * d
      BY <1>9, Zenon
    <2>5. CASE d = 0
      <3> HIDE DEF k, v, e
      <3>1. (e - 16) * d = (k - 16) * d
        BY <2>2, <2>4, <2>5, SMT DEF e
      <3> QED
        BY <2>3, <2>4, <3>1, Zenon DEF e, v
    <2>6. CASE d # 0
      <3> HIDE DEF k, v, e
      <3>1. V \in Int
        BY <1>1, <1>12, SMT
      <3>2. Q5Code(V, (k - 16) * d) = k
        BY <1>1, <1>12, <2>4, <2>6, <3>1, Q5CodeIs, Zenon
      <3>3. e = k
        BY <2>2, <2>4, <3>2, Zenon DEF e, v
      <3> QED
        BY <2>3, <2>4, <3>3, Zenon DEF e, v
    <2> QED
      BY <2>5, <2>6, Zenon
  <1>17. z = y
    BY <1>8, <1>15, <1>16, SameElements, Zenon
  <1> QED
    BY <1>17, Zenon DEF z, c, y, b

(* The entry that is found for an entry of the table times the scale.      *)
LEMMA IQ4CodeIs ==
  ASSUME NEW d \in Int, d # 0, NEW V \in Int, V = -127 * d, NEW k \in 1 .. 16
  PROVE  IQ4Codebook[IQ4Code(V, IQ4Codebook[k] * d) + 1] = IQ4Codebook[k]
  <1> DEFINE C == IQ4Codebook[k]
             p == -127 * (C * d)
             a == IF V < 0 THEN -p ELSE p
             w == Abs(V)
             r == bestIndexIQ4(p, V)
  <1>1. C \in Int /\ C >= -127 /\ C <= 113 /\ V # 0
    <2>1. C \in -127 .. 113
      BY IQ4Entries, Zenon
    <2> HIDE DEF C
    <2> QED
      BY <2>1, SMT
  <1> HIDE DEF C
  <1>2. p \in Int
    BY <1>1, SMT
  <1>3. /\ a \in Int /\ w \in Nat /\ w > 0 /\ r \in 0 .. 15
        /\ \/ r = 0 /\ a <= IQ4Codebook[1] * w
           \/ r = 15 /\ a >= IQ4Codebook[16] * w
           \/ \A o \in 1 .. 16 : Abs(a - IQ4Codebook[r + 1] * w) <= Abs(a - IQ4Codebook[o] * w)
    <2> HIDE DEF p, r, w
    <2>1. /\ a \in Int /\ Abs(V) \in Nat /\ Abs(V) > 0 /\ bestIndexIQ4(p, V) \in 0 .. 15
          /\ \/ bestIndexIQ4(p, V) = 0 /\ a <= IQ4Codebook[1] * Abs(V)
             \/ bestIndexIQ4(p, V) = 15 /\ a >= IQ4Codebook[16] * Abs(V)
             \/ \A o \in 1 .. 16 : Abs(a - IQ4Codebook[bestIndexIQ4(p, V) + 1] * Abs(V)) <= Abs(a - IQ4Codebook[o] * Abs(V))
      <3> DEFINE D == V
      <3>1. D \in Int /\ D # 0
        BY <1>1
      <3> HIDE DEF D
      <3>2. LET e == IF D < 0 THEN -p ELSE p
                b == Abs(D)
            IN  /\ e \in Int /\ b \in Nat /\ b > 0 /\ bestIndexIQ4(p, D) \in 0 .. 15
                /\ \/ bestIndexIQ4(p, D) = 0 /\ e <= IQ4Codebook[1] * b
                   \/ bestIndexIQ4(p, D) = 15 /\ e >= IQ4Codebook[16] * b
                   \/ \A o \in 1 .. 16 : Abs(e - IQ4Codebook[bestIndexIQ4(p, D) + 1] * b) <= Abs(e - IQ4Codebook[o] * b)
        BY <1>2, <3>1, BestIndexIs, Zenon
      <3> QED
        BY <3>2, Zenon DEF D
    <2> QED
      BY <2>1, Zenon DEF r, w
  <1>4. a = C * w
    <2> DEFINE t == C * d
    <2>1. t \in Int
      BY <1>1, SMT
    <2>2. CASE d > 0
      <3>1. V < 0 /\ w = 127 * d
        BY <2>2, SMT DEF Abs
      <3>2. C * (127 * d) = 127 * t
        BY <1>1, Z3
      <3> HIDE DEF t
      <3>3. -(-127 * t) = 127 * t
        BY <2>1, SMT
      <3> QED
        BY <3>1, <3>2, <3>3, Zenon DEF t
    <2>3. CASE d < 0
      <3>1. ~(V < 0) /\ w = -127 * d
        BY <2>3, SMT DEF Abs
      <3>2. C * (-127 * d) = -127 * t
        BY <1>1, Z3
      <3> QED
        BY <3>1, <3>2, Zenon
    <2> QED
      BY <2>2, <2>3, SMT
  <1>5. IQ4Code(V, C * d) = r
    BY <1>1, Zenon DEF IQ4Code
  <1> HIDE DEF a, w, r, p
  <1>6. IQ4Codebook[r + 1] = C
    <2>1. CASE r = 0 /\ a <= IQ4Codebook[1] * w
      <3>1. C * w <= -127 * w
        <4> DEFINE m == IQ4Codebook[1]
        <4>1. m = -127 /\ C * w <= m * w
          BY <1>4, <2>1, IQ4Entries, Zenon
        <4> HIDE DEF m
        <4> QED
          BY <1>3, <4>1, SMT
      <3>2. C <= -127
        BY <1>1, <1>3, <3>1, Z3
      <3>3. r + 1 = 1 /\ C = -127
        BY <1>1, <2>1, <3>2, SMT
      <3> QED
        BY <3>3, IQ4Entries, Zenon
    <2>2. CASE r = 15 /\ a >= IQ4Codebook[16] * w
      <3>1. C * w >= 113 * w
        <4> DEFINE m == IQ4Codebook[16]
        <4>1. m = 113 /\ C * w >= m * w
          BY <1>4, <2>2, IQ4Entries, Zenon
        <4> HIDE DEF m
        <4> QED
          BY <1>3, <4>1, SMT
      <3>2. C >= 113
        BY <1>1, <1>3, <3>1, Z3
      <3>3. r + 1 = 16 /\ C = 113
        BY <1>1, <2>2, <3>2, SMT
      <3> QED
        BY <3>3, IQ4Entries, Zenon
    <2>3. CASE \A o \in 1 .. 16 : Abs(a - IQ4Codebook[r + 1] * w) <= Abs(a - IQ4Codebook[o] * w)
      <3> DEFINE D == IQ4Codebook[r + 1]
      <3>1. D \in Int
        <4>1. r + 1 \in 1 .. 16
          BY <1>3, SMT
        <4>2. IQ4Codebook[r + 1] \in -127 .. 113
          BY <4>1, IQ4Entries, Zenon
        <4> QED
          BY <4>2, SMT
      <3>2. Abs(a - D * w) <= Abs(a - C * w)
        BY <2>3, Zenon DEF C
      <3> HIDE DEF D
      <3>3. a - C * w = 0 /\ C * w \in Int /\ D * w \in Int
        BY <1>1, <1>3, <1>4, <3>1, SMT
      <3>4. D * w = C * w
        <4> DEFINE e == D * w
                   f == C * w
        <4>1. e \in Int /\ f \in Int /\ a = f /\ Abs(a - e) <= Abs(a - f)
          BY <1>4, <3>2, <3>3, Zenon
        <4> HIDE DEF e, f
        <4>2. e = f
          BY <4>1, SMT DEF Abs
        <4> QED
          BY <4>2, Zenon DEF e, f
      <3>5. D = C
        BY <1>1, <1>3, <3>1, <3>4, Z3
      <3> QED
        BY <3>5, Zenon DEF D
    <2> QED
      BY <1>3, <2>1, <2>2, <2>3, Zenon
  <1> QED
    BY <1>5, <1>6, Zenon DEF C

(* The extreme element has the first code. *)
LEMMA IQ4First ==
  ASSUME NEW V \in Int, V # 0
  PROVE  IQ4Code(V, V) = 0
  <1> DEFINE p == -127 * V
             a == IF V < 0 THEN -p ELSE p
             w == Abs(V)
  <1>1. p \in Int /\ a <= -127 * w
    BY SMT DEF Abs
  <1>2. IQ4Codebook[1] = -127
    BY IQ4Entries, Zenon
  <1>3. IQ4Code(V, V) = bestIndexIQ4(p, V)
    BY Zenon DEF IQ4Code
  <1> HIDE DEF p
  <1>4. a <= IQ4Codebook[1] * Abs(V) => bestIndexIQ4(p, V) = 0
    BY <1>1, BestIndexIs, SMT
  <1>5. a <= IQ4Codebook[1] * Abs(V)
    <2>1. Abs(V) \in Nat
      BY AbsIs, Zenon
    <2>2. IQ4Codebook[1] * Abs(V) = -127 * Abs(V)
      BY <1>2, <2>1, SMT
    <2> QED
      BY <1>1, <2>2, Zenon
  <1> QED
    BY <1>3, <1>4, <1>5, Zenon

(* IQ4_NL: so is the scale of the codebook, whose first entry the extreme  *)
(* element is given.                                                       *)
LEMMA IQ4Again ==
  ASSUME NEW x \in Blocks
  PROVE  decompressIQ4_NL_ToFP32(compressFP32ToIQ4_NL(decompressIQ4_NL_ToFP32(compressFP32ToIQ4_NL(x))))
           = decompressIQ4_NL_ToFP32(compressFP32ToIQ4_NL(x))
  <1> DEFINE b == compressFP32ToIQ4_NL(x)
             q == b.q
             vmax == SignedAbsMax(x[1])
             d == Half(vmax, -127)
             y == decompressIQ4_NL_ToFP32(b)
             c == compressFP32ToIQ4_NL(y)
             r == c.q
             z == decompressIQ4_NL_ToFP32(c)
             V == SignedAbsMax(y[1])
  <1>1. /\ vmax \in Int /\ b.d = d /\ d \in Int
        /\ q = [j \in DOMAIN x |-> [i \in DOMAIN x[j] |-> IQ4Code(vmax, Sane(x[j][i]))]]
        /\ \A v \in Int : IQ4Code(vmax, v) \in 0 .. 15
    <2>1. /\ vmax \in Int /\ b.d = d /\ b.d \in Int
          /\ q = [j \in DOMAIN x |-> [i \in DOMAIN x[j] |-> IQ4Code(vmax, Sane(x[j][i]))]]
          /\ \A v \in Int : IQ4Code(vmax, v) \in 0 .. 15
      BY IQ4Block, Zenon
    <2> HIDE DEF b, d, q, vmax
    <2> QED
      BY <2>1, Zenon
  <1>2. y = [j \in DOMAIN q |-> [i \in DOMAIN q[j] |-> IQ4Codebook[q[j][i] + 1] * d]]
    <2>1. y = [j \in DOMAIN q |-> [i \in DOMAIN q[j] |-> IQ4Codebook[q[j][i] + 1] * b.d]]
      BY Zenon DEF decompressIQ4_NL_ToFP32
    <2> HIDE DEF q, b, d, y
    <2> QED
      BY <1>1, <2>1, Zenon
  <1>3. y \in Blocks => /\ c.d = Half(V, -127)
                        /\ r = [j \in DOMAIN y |-> [i \in DOMAIN y[j] |-> IQ4Code(V, Sane(y[j][i]))]]
                        /\ \A v \in Int : IQ4Code(V, v) \in 0 .. 15
    <2>1. ASSUME NEW u \in Blocks
          PROVE  LET e == compressFP32ToIQ4_NL(u)
                     w == SignedAbsMax(u[1])
                 IN  /\ w \in Int /\ e.d = Half(w, -127) /\ e.d \in Int /\ e.m = 0
                     /\ e.q = [j \in DOMAIN u |-> [i \in DOMAIN u[j] |-> IQ4Code(w, Sane(u[j][i]))]]
                     /\ \A v \in Int : IQ4Code(w, v) \in 0 .. 15
      BY IQ4Block, Zenon
    <2> HIDE DEF y
    <2> QED
      BY <2>1, Zenon
  <1>4. z = [j \in DOMAIN r |-> [i \in DOMAIN r[j] |-> IQ4Codebook[r[j][i] + 1] * c.d]]
    BY Zenon DEF decompressIQ4_NL_ToFP32
  <1>5. Half(-127 * d, -127) = d /\ (vmax = 0 => d = 0)
    <2> DEFINE n == -127
    <2>1. n \in Int /\ n # 0
      BY SMT
    <2>2. n * d = -127 * d
      BY <1>1, SMT
    <2> HIDE DEF vmax
    <2>3. Half(n * d, n) = d /\ (vmax = 0 => d = 0)
      <3>1. d = Half(vmax, n)
        BY Zenon
      <3> HIDE DEF n, d
      <3>2. vmax \in Int
        BY <1>1, Zenon
      <3>3. Half(n * Half(vmax, n), n) = Half(vmax, n) /\ (vmax = 0 => Half(vmax, n) = 0)
        BY <2>1, <3>2, HalfAgain, Zenon
      <3> QED
        BY <3>1, <3>3, Zenon
    <2> QED
      BY <2>2, <2>3, ZenonT(60)
  <1>6. \E i \in DOMAIN x[1] : vmax = Sane(x[1][i])
    <2>1. x[1] \in Seq(Number) /\ x[1] # <<>>
      BY BlockParts, Zenon
    <2> QED
      BY <2>1, SignedAbsMaxIs, Zenon
  <1>7. \A j \in DOMAIN x : \A i \in DOMAIN x[j] : Sane(x[j][i]) \in Int
    <2>1. \A j \in DOMAIN x : \A i \in DOMAIN x[j] : x[j][i] \in Number
      BY BlockParts, Zenon
    <2> QED
      BY <2>1, SaneIs, Zenon
  <1> HIDE DEF b, q, vmax, d, y, c, r, z, V
  <1>8. SameShape(x, q) /\ SameShape(q, y) /\ SameIndices(x, q)
    <2>1. SameShape(x, q) /\ SameShape(q, y)
      BY <1>1, <1>2, Zenon DEF SameShape
    <2> QED
      BY <2>1, ShapeIs, Zenon
  <1>9. \A j \in DOMAIN x : \A i \in DOMAIN x[j] : /\ q[j][i] \in 0 .. 15
                                                  /\ q[j][i] = IQ4Code(vmax, Sane(x[j][i]))
                                                  /\ y[j][i] = IQ4Codebook[q[j][i] + 1] * d
    <2>1. \A j \in DOMAIN x : \A i \in DOMAIN x[j] : q[j][i] = IQ4Code(vmax, Sane(x[j][i]))
      BY <1>1, Zenon
    <2>2. \A j \in DOMAIN q : \A i \in DOMAIN q[j] : y[j][i] = IQ4Codebook[q[j][i] + 1] * d
      BY <1>2, Zenon
    <2> QED
      BY <1>1, <1>7, <1>8, <2>1, <2>2, ZenonT(60) DEF SameIndices
  <1>10. \A k \in 0 .. 15 : IQ4Codebook[k + 1] * d \in Int
    <2> TAKE k \in 0 .. 15
    <2> DEFINE C == IQ4Codebook[k + 1]
    <2>1. C \in Int
      <3>1. k + 1 \in 1 .. 16
        BY SMT
      <3>2. C \in -127 .. 113
        BY <3>1, IQ4Entries, Zenon
      <3> HIDE DEF C
      <3> QED
        BY <3>2, SMT
    <2> HIDE DEF C
    <2>2. C * d \in Int
      BY <1>1, <2>1, SMT
    <2> QED
      BY <2>2, Zenon DEF C
  <1>11. /\ y \in Blocks /\ SameIndices(x, y) /\ SameIndices(x, q) /\ SameIndices(q, y)
         /\ 1 \in DOMAIN x /\ y[1] \in Seq(Number) /\ y[1] # <<>>
         /\ \A j \in DOMAIN x : \A i \in DOMAIN x[j] : y[j][i] \in Int /\ Sane(y[j][i]) = y[j][i]
    <2>1. \A j \in DOMAIN q : \A i \in DOMAIN q[j] : y[j][i] \in Int
      <3>1. \A j \in DOMAIN x : \A i \in DOMAIN x[j] : y[j][i] \in Int
        <4> TAKE j \in DOMAIN x
        <4> TAKE i \in DOMAIN x[j]
        <4>1. q[j][i] \in 0 .. 15 /\ y[j][i] = IQ4Codebook[q[j][i] + 1] * d
          BY <1>9, Zenon
        <4> QED
          BY <1>10, <4>1, Zenon
      <3> QED
        BY <1>8, <3>1, Zenon DEF SameIndices
    <2> QED
      BY <1>8, <2>1, ReadBlock, SMT
  <1>12. V = -127 * d
    <2>1. /\ V \in Int /\ (\E i \in DOMAIN y[1] : V = Sane(y[1][i]))
          /\ \A i \in DOMAIN y[1] : Abs(Sane(y[1][i])) <= Abs(V)
      BY <1>11, SignedAbsMaxIs, Zenon DEF V
    <2>2. DOMAIN y[1] = DOMAIN x[1]
      BY <1>11, Zenon DEF SameIndices
    <2>3. PICK k \in 0 .. 15 : V = IQ4Codebook[k + 1] * d
      <3>1. PICK i \in DOMAIN x[1] : V = Sane(y[1][i])
        BY <2>1, <2>2, Zenon
      <3>2. V = IQ4Codebook[q[1][i] + 1] * d /\ q[1][i] \in 0 .. 15
        BY <1>9, <1>11, <3>1, ZenonT(60)
      <3> QED
        BY <3>2, Zenon
    <2> DEFINE C == IQ4Codebook[k + 1]
    <2>4. C \in Int /\ -127 <= C /\ C <= 113 /\ V = C * d
      <3>1. k + 1 \in 1 .. 16
        BY SMT
      <3>2. C \in -127 .. 113 /\ V = C * d
        BY <2>3, <3>1, IQ4Entries, Zenon
      <3> HIDE DEF C
      <3> QED
        BY <3>2, SMT
    <2> HIDE DEF C
    <2>5. CASE d = 0
      BY <2>4, <2>5, SMT
    <2>6. CASE d # 0
      <3>1. PICK i \in DOMAIN x[1] : vmax = Sane(x[1][i])
        BY <1>6, Zenon
      <3>2. q[1][i] = 0
        BY <1>1, <1>5, <1>9, <1>11, <2>6, <3>1, IQ4First, Zenon
      <3>3. Sane(y[1][i]) = -127 * d
        <4>1. Sane(y[1][i]) = IQ4Codebook[0 + 1] * d
          BY <1>9, <1>11, <3>2, ZenonT(60)
        <4> DEFINE m == IQ4Codebook[1]
        <4>2. 0 + 1 = 1
          BY SMT
        <4>3. m = -127 /\ Sane(y[1][i]) = m * d
          BY <4>1, <4>2, IQ4Entries, Zenon
        <4> HIDE DEF m
        <4>4. m * d = -127 * d
          BY <1>1, <4>3, SMT
        <4> QED
          BY <4>3, <4>4, Zenon
      <3>4. Abs(-127 * d) <= Abs(C * d)
        BY <2>1, <2>2, <2>4, <3>3, Zenon
      <3> DEFINE t == C * d
      <3>5. t \in Int /\ Abs(-127 * d) <= Abs(t)
        <4>1. t \in Int
          BY <1>1, <2>4, SMT
        <4> QED
          BY <3>4, <4>1, Zenon
      <3>6. C = -127
        <4>1. CASE d > 0
          <5>1. C >= -126 => -126 * d <= t /\ t <= 113 * d
            BY <1>1, <2>4, <4>1, Z3
          <5> HIDE DEF t
          <5>2. ~(C >= -126)
            BY <1>1, <3>5, <4>1, <5>1, SMT DEF Abs
          <5> QED
            BY <2>4, <5>2, SMT
        <4>2. CASE d < 0
          <5>1. C >= -126 => 113 * d <= t /\ t <= -126 * d
            BY <1>1, <2>4, <4>2, Z3
          <5> HIDE DEF t
          <5>2. ~(C >= -126)
            BY <1>1, <3>5, <4>2, <5>1, SMT DEF Abs
          <5> QED
            BY <2>4, <5>2, SMT
        <4> QED
          BY <1>1, <2>6, <4>1, <4>2, SMT
      <3> HIDE DEF t
      <3>7. V = -127 * d
        BY <1>1, <2>4, <3>6, SMT
      <3> QED
        BY <3>7, Zenon
    <2> QED
      BY <2>5, <2>6, Zenon
  <1>13. c.d = d
    BY <1>3, <1>5, <1>11, <1>12, Zenon
  <1>14. r = [j \in DOMAIN y |-> [i \in DOMAIN y[j] |-> IQ4Code(V, Sane(y[j][i]))]]
    BY <1>3, <1>11, Zenon
  <1>15. SameShape(y, r) /\ SameShape(r, z) /\ SameIndices(y, r)
    <2>2. SameShape(y, r) /\ SameShape(r, z)
      BY <1>4, <1>14, Zenon DEF SameShape
    <2> QED
      BY <2>2, ShapeIs, Zenon
  <1>16. \A j \in DOMAIN y : \A i \in DOMAIN y[j] : z[j][i] = y[j][i]
    <2> SUFFICES ASSUME NEW j \in DOMAIN x, NEW i \in DOMAIN x[j] PROVE z[j][i] = y[j][i]
      BY <1>11, Zenon DEF SameIndices
    <2>1. j \in DOMAIN y /\ i \in DOMAIN y[j] /\ j \in DOMAIN r /\ i \in DOMAIN r[j]
      BY <1>11, <1>15, Zenon DEF SameIndices
    <2>2. r[j][i] = IQ4Code(V, y[j][i]) /\ r[j][i] \in 0 .. 15
      <3>1. r[j][i] = IQ4Code(V, Sane(y[j][i]))
        BY <1>14, <2>1, Zenon
      <3>2. Sane(y[j][i]) = y[j][i] /\ y[j][i] \in Int
        BY <1>11, Zenon
      <3> QED
        BY <1>3, <1>11, <3>1, <3>2, ZenonT(60)
    <2>3. z[j][i] = IQ4Codebook[r[j][i] + 1] * d
      BY <1>4, <1>13, <2>1, Zenon
    <2> DEFINE k == q[j][i]
               v == y[j][i]
               e == r[j][i]
    <2>4. k \in 0 .. 15 /\ e \in 0 .. 15 /\ v = IQ4Codebook[k + 1] * d
      BY <1>9, <2>2, Zenon
    <2>5. CASE d = 0
      <3>1. \A o \in 0 .. 15 : IQ4Codebook[o + 1] * d = 0
        <4> TAKE o \in 0 .. 15
        <4> DEFINE C == IQ4Codebook[o + 1]
        <4>1. C * d \in Int /\ C \in Int
          <5>1. o + 1 \in 1 .. 16
            BY SMT
          <5>2. C \in -127 .. 113
            BY <5>1, IQ4Entries, Zenon
          <5> HIDE DEF C
          <5> QED
            BY <1>1, <5>2, SMT
        <4> HIDE DEF C
        <4>2. C * d = 0
          BY <2>5, <4>1, SMT
        <4> QED
          BY <4>2, Zenon DEF C
      <3> QED
        BY <2>3, <2>4, <3>1, Zenon
    <2>6. CASE d # 0
      <3> HIDE DEF k, v, e
      <3>1. V \in Int /\ k + 1 \in 1 .. 16
        BY <1>1, <1>12, <2>4, SMT
      <3>2. IQ4Codebook[IQ4Code(V, IQ4Codebook[k + 1] * d) + 1] = IQ4Codebook[k + 1]
        BY <1>1, <1>12, <2>6, <3>1, IQ4CodeIs, SMT
      <3>3. IQ4Codebook[e + 1] = IQ4Codebook[k + 1]
        BY <2>2, <2>4, <3>2, Zenon DEF e, v
      <3> QED
        BY <2>3, <2>4, <3>3, Zenon DEF e, v
    <2> QED
      BY <2>5, <2>6, Zenon
  <1>17. z = y
    BY <1>8, <1>15, <1>16, SameElements, Zenon
  <1> QED
    BY <1>17, Zenon DEF z, c, y, b

-----------------------------------------------------------------------------
(* MXFP4: the elements and the scale found again. *)

(* The nibble of p / q stands for a magnitude between whose midpoints four *)
(* times the quotient lies.                                                *)
LEMMA NearestE2M1Between ==
  ASSUME NEW p \in Int, NEW q \in Nat, q > 0
  PROVE  \E k \in 0 .. 7 :
           /\ ElementE2M1(NearestE2M1(p, q)) = IF p < 0 THEN -Magnitudes[k + 1] ELSE Magnitudes[k + 1]
           /\ k > 0 => 4 * Abs(p) >= Midpoints[k] * q
           /\ k < 7 => 4 * Abs(p) <= Midpoints[k + 1] * q
  <1> DEFINE a == 4 * Abs(p)
             past == {k \in 1 .. 7 : a > Midpoints[k] * q \/ (a = Midpoints[k] * q /\ k % 2 = 1)}
             m == Max(past \cup {0})
             k == IF a >= 24 * q THEN 7 ELSE m
  <1>1. NearestE2M1(p, q) = k + (IF p < 0 THEN 8 ELSE 0)
    BY Zenon DEF NearestE2M1
  <1>2. past \cup {0} \in SUBSET (0 .. 7) /\ past \cup {0} # {} /\ 7 \in Nat
    <2>1. past \in SUBSET (1 .. 7)
      BY Zenon
    <2> HIDE DEF past
    <2> QED
      BY <2>1, SMT
  <1>3. m \in past \cup {0} /\ m \in 0 .. 7 /\ \A i \in past \cup {0} : i <= m
    <2> DEFINE S == past \cup {0}
    <2>1. S \in SUBSET (0 .. 7) /\ S # {} /\ 7 \in Nat
      BY <1>2, Zenon
    <2> HIDE DEF S, past
    <2>2. Max(S) \in S /\ \A i \in S : i <= Max(S)
      BY <2>1, SmallestOfInterval, Zenon
    <2> QED
      BY <2>1, <2>2, Zenon DEF S
  <1>4. a \in Nat
    BY AbsIs, SMT
  <1> HIDE DEF a, m
  <1>5. m > 0 => a >= Midpoints[m] * q
    <2>1. m > 0 => m \in past
      BY <1>3, SMT
    <2>2. m \in past => a > Midpoints[m] * q \/ a = Midpoints[m] * q
      BY Zenon
    <2>3. m \in 1 .. 7 => Midpoints[m] * q \in Int
      <3> SUFFICES ASSUME m \in 1 .. 7 PROVE Midpoints[m] * q \in Int
        OBVIOUS
      <3> DEFINE M == Midpoints[m]
      <3>1. M \in Int
        BY SMT DEF Midpoints
      <3> HIDE DEF M
      <3>2. M * q \in Int
        BY <3>1, SMT
      <3> QED
        BY <3>2, Zenon DEF M
    <2> DEFINE b == Midpoints[m] * q
    <2>4. m \in past => m \in 1 .. 7
      BY Zenon
    <2> SUFFICES ASSUME m > 0 PROVE a >= b
      OBVIOUS
    <2>5. b \in Int /\ (a > b \/ a = b)
      BY <2>1, <2>2, <2>3, <2>4, Zenon
    <2> HIDE DEF b
    <2> QED
      BY <1>4, <2>5, SMT
  <1>6. m < 7 => a <= Midpoints[m + 1] * q
    <2> SUFFICES ASSUME m < 7 PROVE a <= Midpoints[m + 1] * q
      OBVIOUS
    <2> DEFINE n == m + 1
               M == Midpoints[n]
               b == M * q
    <2>1. n \in 1 .. 7 /\ ~(n <= m)
      BY <1>3, SMT
    <2>2. n \notin past
      <3> HIDE DEF past, n
      <3> QED
        BY <1>3, <2>1, Zenon
    <2>3. ~(a > b)
      BY <2>1, <2>2, Zenon
    <2>4. M \in Int
      BY <2>1, SMT DEF Midpoints
    <2> HIDE DEF M
    <2>5. b \in Int
      BY <2>4, SMT
    <2> HIDE DEF b
    <2>6. a <= b
      BY <1>4, <2>3, <2>5, SMT
    <2> QED
      BY <2>6, Zenon DEF b, M, n
  <1> HIDE DEF past
  <1>7. k \in 0 .. 7 /\ (k > 0 => a >= Midpoints[k] * q) /\ (k < 7 => a <= Midpoints[k + 1] * q)
    <2>1. CASE a >= 24 * q
      <3>1. k = 7
        BY <2>1, Zenon
      <3>2. Midpoints[7] = 20 /\ 7 \in 0 .. 7 /\ ~(7 < 7) /\ 7 > 0
        BY SMT DEF Midpoints
      <3>3. a >= 20 * q
        BY <1>4, <2>1, SMT
      <3> HIDE DEF k
      <3> QED
        BY <3>1, <3>2, <3>3, Zenon
    <2>2. CASE ~(a >= 24 * q)
      <3>1. k = m
        BY <2>2, Zenon
      <3> HIDE DEF k
      <3> QED
        BY <1>3, <1>5, <1>6, <3>1, Zenon
    <2> QED
      BY <2>1, <2>2, Zenon
  <1> HIDE DEF k
  <1>8. ElementE2M1(NearestE2M1(p, q)) = IF p < 0 THEN -Magnitudes[k + 1] ELSE Magnitudes[k + 1]
    <2>1. \A o \in 0 .. 7 : ElementE2M1(o + 8) = -Magnitudes[o + 1] /\ ElementE2M1(o + 0) = Magnitudes[o + 1]
      <3> TAKE o \in 0 .. 7
      <3>1. (o + 8) % 8 = o /\ (o + 0) % 8 = o /\ o + 8 >= 8 /\ ~(o + 0 >= 8)
        BY SMT
      <3>2. Magnitudes[o + 1] \in Int
        BY SMT DEF Magnitudes
      <3>3. ElementE2M1(o + 8) = (-1) * Magnitudes[o + 1] /\ ElementE2M1(o + 0) = 1 * Magnitudes[o + 1]
        BY <3>1, Zenon DEF ElementE2M1
      <3> DEFINE M == Magnitudes[o + 1]
      <3> HIDE DEF M
      <3>4. (-1) * M = -M /\ 1 * M = M
        BY <3>2, SMT DEF M
      <3> QED
        BY <3>3, <3>4, Zenon DEF M
    <2> QED
      BY <1>1, <1>7, <2>1, Zenon
  <1> QED
    BY <1>7, <1>8, Zenon DEF a

(* What is a multiple of half the scale that a nibble stands for is given  *)
(* that nibble, whatever its sign.                                         *)
LEMMA ElementAgain ==
  ASSUME NEW s \in Nat, s > 0, NEW k \in 0 .. 7, NEW v \in Int, 2 * Abs(v) = Magnitudes[k + 1] * s
  PROVE  ElementE2M1(NearestE2M1(v, s)) = IF v < 0 THEN -Magnitudes[k + 1] ELSE Magnitudes[k + 1]
  <1>1. PICK o \in 0 .. 7 :
           /\ ElementE2M1(NearestE2M1(v, s)) = IF v < 0 THEN -Magnitudes[o + 1] ELSE Magnitudes[o + 1]
           /\ o > 0 => 4 * Abs(v) >= Midpoints[o] * s
           /\ o < 7 => 4 * Abs(v) <= Midpoints[o + 1] * s
    BY NearestE2M1Between, Zenon
  <1> DEFINE a == Abs(v)
  <1>2. a \in Nat
    BY AbsIs, Zenon
  <1>3. 2 * a = Magnitudes[k + 1] * s /\ (o > 0 => 4 * a >= Midpoints[o] * s) /\ (o < 7 => 4 * a <= Midpoints[o + 1] * s)
    BY <1>1, Zenon
  <1> HIDE DEF a
  <1>4. o = k
    <2> DEFINE t == Magnitudes[k + 1]
               lo == Midpoints[o]
               hi == Midpoints[o + 1]
    <2>1. t \in Nat /\ (o > 0 => lo \in Nat) /\ (o < 7 => hi \in Nat)
      BY SMT DEF Magnitudes, Midpoints
    <2>2. (o > 0 => lo <= 2 * t) /\ (o < 7 => 2 * t <= hi)
      <3> HIDE DEF t, lo, hi
      <3>1. o > 0 => lo * s <= (2 * t) * s
        <4>1. (2 * t) * s = 2 * (t * s) /\ t * s \in Int
          BY <2>1, Z3
        <4>2. 2 * a = t * s /\ (o > 0 => 4 * a >= lo * s)
          BY <1>3, Zenon DEF t, lo
        <4>3. o > 0 => lo * s \in Int
          BY <2>1, Z3
        <4> DEFINE b == t * s
                   c == lo * s
        <4>4. b \in Int /\ 2 * a = b /\ (o > 0 => 4 * a >= c) /\ (o > 0 => c \in Int)
          BY <4>1, <4>2, <4>3, Zenon
        <4> HIDE DEF b, c
        <4>5. o > 0 => c <= 2 * b
          BY <1>2, <4>4, SMT
        <4> QED
          BY <4>1, <4>5, Zenon DEF b, c
      <3>2. o < 7 => (2 * t) * s <= hi * s
        <4>1. (2 * t) * s = 2 * (t * s) /\ t * s \in Int
          BY <2>1, Z3
        <4>2. 2 * a = t * s /\ (o < 7 => 4 * a <= hi * s)
          BY <1>3, Zenon DEF t, hi
        <4>3. o < 7 => hi * s \in Int
          BY <2>1, Z3
        <4> DEFINE b == t * s
                   c == hi * s
        <4>4. b \in Int /\ 2 * a = b /\ (o < 7 => 4 * a <= c) /\ (o < 7 => c \in Int)
          BY <4>1, <4>2, <4>3, Zenon
        <4> HIDE DEF b, c
        <4>5. o < 7 => 2 * b <= c
          BY <1>2, <4>4, SMT
        <4> QED
          BY <4>1, <4>5, Zenon DEF b, c
      <3>3. o > 0 => lo <= 2 * t
        BY <2>1, <3>1, Z3
      <3>4. o < 7 => 2 * t <= hi
        BY <2>1, <3>2, Z3
      <3> QED
        BY <3>3, <3>4, Zenon
    <2> QED
      BY <2>2, SMT DEF Magnitudes, Midpoints
  <1> QED
    BY <1>1, <1>4, Zenon

(* From four times the scale up, a number is read as at least that.        *)
LEMMA LargeElement ==
  ASSUME NEW s \in Nat, s > 0, NEW v \in Int, Abs(v) >= 4 * s
  PROVE  Abs(ElementE2M1(NearestE2M1(v, s))) >= 8
  <1>1. PICK o \in 0 .. 7 :
           /\ ElementE2M1(NearestE2M1(v, s)) = IF v < 0 THEN -Magnitudes[o + 1] ELSE Magnitudes[o + 1]
           /\ o > 0 => 4 * Abs(v) >= Midpoints[o] * s
           /\ o < 7 => 4 * Abs(v) <= Midpoints[o + 1] * s
    BY NearestE2M1Between, Zenon
  <1> DEFINE a == Abs(v)
  <1>2. a \in Nat /\ a >= 4 * s /\ (o < 7 => 4 * a <= Midpoints[o + 1] * s)
    BY <1>1, AbsIs, Zenon
  <1> HIDE DEF a
  <1>3. o >= 6
    <2> SUFFICES ASSUME o < 6 PROVE FALSE
      BY SMT
    <2> DEFINE hi == Midpoints[o + 1]
    <2>1. hi \in Nat /\ hi <= 14
      BY SMT DEF Midpoints
    <2>2. 4 * a <= hi * s
      <3>1. o < 7
        BY SMT
      <3> QED
        BY <1>2, <3>1, Zenon
    <2> HIDE DEF hi
    <2>3. hi * s <= 14 * s /\ hi * s \in Int
      BY <2>1, Z3
    <2> DEFINE b == hi * s
    <2>4. 4 * a <= b /\ b <= 14 * s /\ b \in Int
      BY <2>2, <2>3, Zenon
    <2> HIDE DEF b
    <2> QED
      BY <1>2, <2>4, SMT
  <1>4. Magnitudes[o + 1] \in Int /\ Magnitudes[o + 1] >= 8
    BY <1>3, SMT DEF Magnitudes
  <1> DEFINE M == Magnitudes[o + 1]
             e == ElementE2M1(NearestE2M1(v, s))
  <1>5. M \in Int /\ M >= 8 /\ (e = M \/ e = -M)
    BY <1>1, <1>4, Zenon
  <1> HIDE DEF M, e
  <1>6. Abs(e) >= 8
    BY <1>5, SMT DEF Abs
  <1> QED
    BY <1>6, Zenon DEF e

(* A whole number over the scale one is read as a whole number, and as     *)
(* zero only if it is.                                                     *)
LEMMA WholeElement ==
  ASSUME NEW v \in Int
  PROVE  /\ ElementE2M1(NearestE2M1(v, 1)) % 2 = 0
         /\ v # 0 => Abs(ElementE2M1(NearestE2M1(v, 1))) >= 2
  <1>1. PICK o \in 0 .. 7 :
           /\ ElementE2M1(NearestE2M1(v, 1)) = IF v < 0 THEN -Magnitudes[o + 1] ELSE Magnitudes[o + 1]
           /\ o > 0 => 4 * Abs(v) >= Midpoints[o] * 1
           /\ o < 7 => 4 * Abs(v) <= Midpoints[o + 1] * 1
    <2>1. 1 \in Nat /\ 1 > 0
      BY SMT
    <2> QED
      BY <2>1, NearestE2M1Between, Zenon
  <1> DEFINE a == Abs(v)
  <1>2. a \in Nat /\ (v # 0 => a > 0)
    BY AbsIs, Zenon
  <1>3. (o > 0 => 4 * a >= Midpoints[o] * 1) /\ (o < 7 => 4 * a <= Midpoints[o + 1] * 1)
    BY <1>1, Zenon
  <1> HIDE DEF a
  <1>4. o # 1 /\ o # 3 /\ (v # 0 => o >= 2)
    BY <1>2, <1>3, SMT DEF Midpoints
  <1>5. Magnitudes[o + 1] \in {0, 2, 4, 6, 8, 12} /\ (v # 0 => Magnitudes[o + 1] >= 2)
    BY <1>4, SMT DEF Magnitudes
  <1> DEFINE M == Magnitudes[o + 1]
             e == ElementE2M1(NearestE2M1(v, 1))
  <1>6. M \in {0, 2, 4, 6, 8, 12} /\ (v # 0 => M >= 2) /\ (e = M \/ e = -M)
    BY <1>1, <1>5, Zenon
  <1> HIDE DEF M, e
  <1>7. e % 2 = 0 /\ (v # 0 => Abs(e) >= 2)
    BY <1>6, SMT DEF Abs
  <1> QED
    BY <1>7, Zenon DEF e

(* The powers of two that are scales double ... *)
LEMMA PowersDouble ==
  ASSUME NEW k \in 0 .. 28
  PROVE  2^(k + 1) = 2 * 2^k
  <1>0. CASE k = 0  BY <1>0, SMT
  <1>1. CASE k = 1  BY <1>1, SMT
  <1>2. CASE k = 2  BY <1>2, SMT
  <1>3. CASE k = 3  BY <1>3, SMT
  <1>4. CASE k = 4  BY <1>4, SMT
  <1>5. CASE k = 5  BY <1>5, SMT
  <1>6. CASE k = 6  BY <1>6, SMT
  <1>7. CASE k = 7  BY <1>7, SMT
  <1>8. CASE k = 8  BY <1>8, SMT
  <1>9. CASE k = 9  BY <1>9, SMT
  <1>10. CASE k = 10  BY <1>10, SMT
  <1>11. CASE k = 11  BY <1>11, SMT
  <1>12. CASE k = 12  BY <1>12, SMT
  <1>13. CASE k = 13  BY <1>13, SMT
  <1>14. CASE k = 14  BY <1>14, SMT
  <1>15. CASE k = 15  BY <1>15, SMT
  <1>16. CASE k = 16  BY <1>16, SMT
  <1>17. CASE k = 17  BY <1>17, SMT
  <1>18. CASE k = 18  BY <1>18, SMT
  <1>19. CASE k = 19  BY <1>19, SMT
  <1>20. CASE k = 20  BY <1>20, SMT
  <1>21. CASE k = 21  BY <1>21, SMT
  <1>22. CASE k = 22  BY <1>22, SMT
  <1>23. CASE k = 23  BY <1>23, SMT
  <1>24. CASE k = 24  BY <1>24, SMT
  <1>25. CASE k = 25  BY <1>25, SMT
  <1>26. CASE k = 26  BY <1>26, SMT
  <1>27. CASE k = 27  BY <1>27, SMT
  <1>28. CASE k = 28  BY <1>28, SMT
  <1> QED
    BY <1>0, <1>1, <1>2, <1>3, <1>4, <1>5, <1>6, <1>7, <1>8, <1>9, <1>10, <1>11, <1>12, <1>13, <1>14, <1>15, <1>16, <1>17, <1>18, <1>19, <1>20, <1>21, <1>22, <1>23, <1>24, <1>25, <1>26, <1>27, <1>28, SMT

(* ... and so they grow. *)
LEMMA ScalesGrow ==
  ASSUME NEW i \in 0 .. 29, NEW j \in 0 .. 29, i <= j
  PROVE  2^i <= 2^j
  <1> DEFINE P(k) == 2^k
             S == {k \in 0 .. 29 : i <= k /\ ~(P(i) <= P(k))}
  <1>1. \A k \in 0 .. 29 : P(k) \in Nat
    BY ScalePowers, Zenon
  <1>2. \A k \in 0 .. 28 : P(k + 1) = 2 * P(k)
    BY PowersDouble, Zenon
  <1> HIDE DEF P
  <1> SUFFICES ASSUME j \in S PROVE FALSE
    BY Zenon DEF P
  <1>3. S \in SUBSET Nat
    BY SMT
  <1>4. PICK k \in S : \A o \in S : k <= o
    <2> HIDE DEF S
    <2> QED
      BY <1>3, LeastNat, Zenon
  <1>5. k \in 0 .. 29 /\ i <= k /\ ~(P(i) <= P(k))
    BY <1>4, Zenon
  <1>6. k # i
    <2>1. P(i) <= P(i)
      BY <1>1, SMT
    <2> QED
      BY <1>5, <2>1, Zenon
  <1> DEFINE o == k - 1
  <1>7. o \in 0 .. 28 /\ o \in 0 .. 29 /\ i <= o /\ o + 1 = k /\ ~(k <= o)
    BY <1>5, <1>6, SMT
  <1> HIDE DEF o
  <1>8. P(i) <= P(o)
    BY <1>4, <1>7, Zenon
  <1>9. P(k) = 2 * P(o)
    BY <1>2, <1>7, Zenon
  <1>10. P(i) \in Nat /\ P(o) \in Nat
    BY <1>1, <1>7, Zenon
  <1>11. P(i) <= P(k)
    BY <1>8, <1>9, <1>10, SMT
  <1> QED
    BY <1>5, <1>11, Zenon

(* A number that lies between four and six times the scale has that scale. *)
LEMMA ScaleAgain ==
  ASSUME NEW e \in 0 .. 29, NEW k \in 0 .. 27, k = IF e <= 2 THEN 0 ELSE e - 2,
         NEW B \in Nat, B > 0, B <= 6 * 2^k, e >= 2 => 4 * 2^k <= B
  PROVE  k = IF Exponent(B) <= 2 THEN 0 ELSE Exponent(B) - 2
  <1> DEFINE f == Exponent(B)
             P(o) == 2^o
  <1>1. f \in 0 .. 29 /\ P(f) <= B /\ \A o \in 0 .. 29 : P(o) <= B => o <= f
    BY ExponentIs, Zenon
  <1>2. \A o \in 0 .. 29 : P(o) \in Nat
    BY ScalePowers, Zenon
  <1>3. P(k + 1) = 2 * P(k) /\ P(k + 1 + 1) = 2 * P(k + 1)
    <2>1. k \in 0 .. 28 /\ k + 1 \in 0 .. 28
      BY SMT
    <2> QED
      BY <2>1, PowersDouble, Zenon
  <1>4. B <= 6 * P(k) /\ (e >= 2 => 4 * P(k) <= B)
    BY Zenon
  <1>5. k = 27 \/ P(k + 1 + 1 + 1) = 2 * P(k + 1 + 1)
    <2>1. k = 27 \/ k + 1 + 1 \in 0 .. 28
      BY SMT
    <2> QED
      BY <2>1, PowersDouble, Zenon
  <1>6. k # 27 /\ f > k + 2 => P(k + 1 + 1 + 1) <= P(f)
    <2>1. k # 27 /\ f > k + 2 => k + 1 + 1 + 1 \in 0 .. 29 /\ k + 1 + 1 + 1 <= f
      BY <1>1, SMT
    <2> QED
      BY <1>1, <2>1, ScalesGrow, Zenon
  <1>7. e >= 2 => k + 1 + 1 <= f
    <2>1. k + 1 + 1 \in 0 .. 29 /\ k \in 0 .. 29
      BY SMT
    <2>2. e >= 2 => P(k + 1 + 1) <= B
      <3> DEFINE t == P(k)
                 u == P(k + 1)
                 w == P(k + 1 + 1)
      <3>1. t \in Nat /\ u = 2 * t /\ w = 2 * u /\ (e >= 2 => 4 * t <= B)
        BY <1>2, <1>3, <1>4, <2>1, Zenon
      <3> HIDE DEF t, u, w
      <3>2. e >= 2 => w <= B
        BY <3>1, SMT
      <3> QED
        BY <3>2, Zenon DEF w
    <2> QED
      BY <1>1, <2>1, <2>2, Zenon
  <1>8. f <= k + 2
    <2> SUFFICES ASSUME f > k + 2 PROVE FALSE
      BY <1>1, SMT
    <2>1. k # 27
      BY <1>1, SMT
    <2>2. k \in 0 .. 29
      BY SMT
    <2> DEFINE t == P(k)
               u == P(k + 1)
               w == P(k + 1 + 1)
               z == P(k + 1 + 1 + 1)
               g == P(f)
    <2>3. t \in Nat /\ u = 2 * t /\ w = 2 * u /\ z = 2 * w /\ z <= g /\ g <= B /\ g \in Nat /\ B <= 6 * t
      BY <1>1, <1>2, <1>3, <1>4, <1>5, <1>6, <2>1, <2>2, Zenon
    <2>4. t > 0
      BY <2>2, ScalePowers, Zenon
    <2> HIDE DEF t, u, w, z, g
    <2> QED
      BY <2>3, <2>4, SMT
  <1> HIDE DEF f
  <1>9. k = IF f <= 2 THEN 0 ELSE f - 2
    BY <1>1, <1>7, <1>8, SMT
  <1> QED
    BY <1>9, Zenon DEF f

MXElement(s, v) == ElementE2M1(NearestE2M1(v, s))
RereadLane(n) == IF n % 2 = 1 THEN 0 ELSE n \div 2

(* A number of an MXFP4 block that is read, reread and read again.         *)
LEMMA MXLane ==
  ASSUME NEW s \in Nat, s > 0, s = 1 \/ \E t \in Nat : s = 2 * t, NEW v \in Int
  PROVE  LET y == MXElement(s, v) * s
             u == RereadLane(y)
         IN  /\ y \in Int /\ u \in Int /\ Abs(u) \in Nat /\ Abs(u) <= 6 * s
             /\ MXElement(s, u) = MXElement(s, v)
             /\ Abs(v) >= 4 * s => Abs(u) >= 4 * s
             /\ s = 1 /\ v # 0 => Abs(u) > 0
  <1> DEFINE e == MXElement(s, v)
             y == e * s
             u == RereadLane(y)
  <1>1. s > 0
    OBVIOUS
  <1>2. PICK o \in 0 .. 7 : e = IF v < 0 THEN -Magnitudes[o + 1] ELSE Magnitudes[o + 1]
    BY <1>1, NearestE2M1Between, Zenon DEF MXElement
  <1> DEFINE M == Magnitudes[o + 1]
  <1>3. M \in Nat /\ M <= 12 /\ e = (IF v < 0 THEN -M ELSE M)
    <2>1. M \in Nat /\ M <= 12
      BY SMT DEF Magnitudes
    <2> QED
      BY <1>2, <2>1, Zenon
  <1>4. s = 1 => e % 2 = 0 /\ (v # 0 => Abs(e) >= 2)
    BY WholeElement, Zenon DEF MXElement
  <1>5. Abs(v) >= 4 * s => Abs(e) >= 8
    BY <1>1, LargeElement, Zenon DEF MXElement
  <1> HIDE DEF e, M
  <1>6. e \in Int
    BY <1>3, SMT
  <1>7. PICK h \in Int : y = 2 * h
    <2>1. CASE s = 1
      <3>1. e = 2 * (e \div 2) /\ e \div 2 \in Int /\ e * 1 = e
        BY <1>4, <1>6, <2>1, SMT
      <3> QED
        BY <2>1, <3>1, Zenon
    <2>2. ASSUME NEW t \in Nat, s = 2 * t PROVE \E h \in Int : y = 2 * h
      <3> DEFINE h == e * t
      <3>1. e * (2 * t) = 2 * h /\ h \in Int
        BY <1>6, Z3
      <3> QED
        BY <2>2, <3>1, Zenon
    <2> QED
      BY <2>1, <2>2, Zenon
  <1> DEFINE a == Abs(e)
  <1>8. a \in Nat /\ a = M /\ (e >= 0 => e = M) /\ (e < 0 => e = -M)
    BY <1>3, SMT DEF Abs
  <1>9. y \in Int /\ u = h
    <2> HIDE DEF y
    <2>1. y % 2 = 0 /\ y \div 2 = h /\ y \in Int
      BY <1>7, SMT
    <2>2. ~(0 = 1)
      BY SMT
    <2> QED
      BY <2>1, <2>2, Zenon DEF RereadLane
  <1>10. /\ 2 * Abs(h) = M * s /\ M * s \in Int
         /\ e >= 0 => h >= 0
         /\ e < 0 => h < 0
    <2> DEFINE w == M * s
    <2>1. e >= 0 => y = w /\ w >= 0
      BY <1>3, <1>8, Z3
    <2>2. e < 0 => y = -w /\ w > 0
      BY <1>1, <1>3, <1>8, Z3
    <2>3. w \in Int
      BY <1>3, Z3
    <2> HIDE DEF w, y
    <2>4. e >= 0 => 2 * Abs(h) = w /\ h >= 0
      BY <1>7, <2>1, <2>3, SMT DEF Abs
    <2>5. e < 0 => 2 * Abs(h) = w /\ h < 0
      BY <1>7, <2>2, <2>3, SMT DEF Abs
    <2>6. e >= 0 \/ e < 0
      BY <1>6, SMT
    <2> QED
      BY <2>3, <2>4, <2>5, <2>6, Zenon DEF w
  <1>11. MXElement(s, h) = e
    <2>1. MXElement(s, h) = IF h < 0 THEN -M ELSE M
      BY <1>1, <1>10, ElementAgain, Zenon DEF M, MXElement
    <2>2. CASE e >= 0
      <3>1. ~(h < 0)
        BY <1>10, <2>2, SMT
      <3> QED
        BY <1>8, <2>1, <2>2, <3>1, Zenon
    <2>3. CASE e < 0
      BY <1>8, <1>10, <2>1, <2>3, Zenon
    <2>4. e >= 0 \/ e < 0
      BY <1>6, SMT
    <2> QED
      BY <2>2, <2>3, <2>4, Zenon
  <1> DEFINE b == Abs(h)
             w == M * s
  <1>12. b \in Nat /\ 2 * b = w /\ w \in Int
    BY <1>10, AbsIs, Zenon
  <1>13. w <= 12 * s /\ (M >= 8 => w >= 8 * s) /\ (M >= 2 => w > 0)
    BY <1>1, <1>3, Z3
  <1>14. (Abs(v) >= 4 * s => M >= 8) /\ (s = 1 /\ v # 0 => M >= 2)
    BY <1>4, <1>5, <1>8, Zenon
  <1> HIDE DEF b, w
  <1>15. b <= 6 * s /\ (M >= 8 => b >= 4 * s) /\ (M >= 2 => b > 0)
    BY <1>12, <1>13, SMT
  <1>16. /\ Abs(h) \in Nat /\ Abs(h) <= 6 * s
         /\ Abs(v) >= 4 * s => Abs(h) >= 4 * s
         /\ s = 1 /\ v # 0 => Abs(h) > 0
    BY <1>12, <1>14, <1>15, Zenon DEF b
  <1> HIDE DEF y, u
  <1>17. /\ y \in Int /\ u \in Int /\ Abs(u) \in Nat /\ Abs(u) <= 6 * s
         /\ MXElement(s, u) = e
         /\ Abs(v) >= 4 * s => Abs(u) >= 4 * s
         /\ s = 1 /\ v # 0 => Abs(u) > 0
    BY <1>9, <1>11, <1>16, Zenon
  <1> QED
    BY <1>17, Zenon DEF u, y, e

(* What a caller reads from a block of MXFP4. *)
RereadBlock(y) == [j \in DOMAIN y |-> [i \in DOMAIN y[j] |-> RereadLane(y[j][i])]]

(* MXFP4: the largest element keeps its binade, and a magnitude its        *)
(* nibble; every number that is read is a normal one.                      *)
LEMMA MXAgain ==
  ASSUME NEW x \in Blocks
  PROVE  decompressMXFP4ToFP32(compressFP32ToMXFP4(RereadBlock(decompressMXFP4ToFP32(compressFP32ToMXFP4(x)))))
           = decompressMXFP4ToFP32(compressFP32ToMXFP4(x))
  <1> DEFINE b == compressFP32ToMXFP4(x)
             q == b.q
             s == MXScale(x)
             y == decompressMXFP4ToFP32(b)
             u == RereadBlock(y)
             c == compressFP32ToMXFP4(u)
             r == c.q
             z == decompressMXFP4ToFP32(c)
             A == AbsMax(x[1])
             B == AbsMax(u[1])
             S == MXScale(u)
  <1>1. /\ b.d = s /\ s \in Nat /\ A \in Nat
        /\ A # 0 => \E k \in 0 .. 27 : s = 2^k /\ k = IF Exponent(A) <= 2 THEN 0 ELSE Exponent(A) - 2
        /\ q = [j \in DOMAIN x |-> [i \in DOMAIN x[j] |-> MXCode(s, Sane(x[j][i]))]]
    <2>1. /\ b.d = s /\ s \in Nat /\ b.m = 0 /\ A \in Nat
          /\ A # 0 => \E k \in 0 .. 27 : s = 2^k /\ k = IF Exponent(A) <= 2 THEN 0 ELSE Exponent(A) - 2
          /\ q = [j \in DOMAIN x |-> [i \in DOMAIN x[j] |-> MXCode(s, Sane(x[j][i]))]]
          /\ \A v : MXCode(s, v) \in 0 .. 15
      BY MXFP4Block, Zenon
    <2> HIDE DEF b, q, s, A
    <2> QED
      BY <2>1, Zenon
  <1>2. y = [j \in DOMAIN q |-> [i \in DOMAIN q[j] |-> ElementE2M1(q[j][i]) * s]]
    <2>1. y = [j \in DOMAIN q |-> [i \in DOMAIN q[j] |-> IF b.d = NonFinite THEN NonFinite ELSE ElementE2M1(q[j][i]) * b.d]]
      BY Zenon DEF decompressMXFP4ToFP32, DecodeE2M1
    <2>2. s # NonFinite
      <3> HIDE DEF s
      <3>1. s \in Int
        BY <1>1, SMT
      <3> QED
        BY <3>1, NumbersAssumption, Zenon
    <2> HIDE DEF b, q, s, y
    <2> QED
      BY <1>1, <2>1, <2>2, Zenon
  <1>3. u = [j \in DOMAIN y |-> [i \in DOMAIN y[j] |-> RereadLane(y[j][i])]]
    BY Zenon DEF RereadBlock
  <1>4. u \in Blocks => /\ c.d = S /\ S \in Nat /\ c.m = 0 /\ B \in Nat
                        /\ B # 0 => \E k \in 0 .. 27 : S = 2^k /\ k = IF Exponent(B) <= 2 THEN 0 ELSE Exponent(B) - 2
                        /\ r = [j \in DOMAIN u |-> [i \in DOMAIN u[j] |-> MXCode(S, Sane(u[j][i]))]]
                        /\ \A v : MXCode(S, v) \in 0 .. 15
    <2> HIDE DEF u
    <2> QED
      BY MXFP4Block, Zenon
  <1>5. z = [j \in DOMAIN r |-> [i \in DOMAIN r[j] |-> IF c.d = NonFinite THEN NonFinite ELSE ElementE2M1(r[j][i]) * c.d]]
    BY Zenon DEF decompressMXFP4ToFP32, DecodeE2M1
  <1>6. S = IF B = 0 THEN 0 ELSE 2^Max({0, Exponent(B) - 2})
    BY Zenon DEF MXScale
  <1>7. s = IF A = 0 THEN 0 ELSE 2^Max({0, Exponent(A) - 2})
    BY Zenon DEF MXScale
  <1>8. \A j \in DOMAIN x : \A i \in DOMAIN x[j] : Sane(x[j][i]) \in Int
    <2>1. \A j \in DOMAIN x : \A i \in DOMAIN x[j] : x[j][i] \in Number
      BY BlockParts, Zenon
    <2> QED
      BY <2>1, SaneIs, Zenon
  <1>9. \E i \in DOMAIN x[1] : A = Abs(Sane(x[1][i]))
    <2>1. x[1] \in Seq(Number) /\ x[1] # <<>>
      BY BlockParts, Zenon
    <2> QED
      BY <2>1, Measures, Zenon
  <1> HIDE DEF b, q, s, y, u, c, r, z, A, B, S
  <1>10. SameShape(x, q) /\ SameShape(q, y) /\ SameShape(y, u) /\ SameIndices(x, q) /\ SameIndices(q, y) /\ SameIndices(y, u)
    <2>1. SameShape(x, q) /\ SameShape(q, y) /\ SameShape(y, u)
      BY <1>1, <1>2, <1>3, Zenon DEF SameShape
    <2> QED
      BY <2>1, ShapeIs, Zenon
  <1>11. \A j \in DOMAIN x : \A i \in DOMAIN x[j] : /\ y[j][i] = ElementE2M1(MXCode(s, Sane(x[j][i]))) * s
                                                   /\ u[j][i] = RereadLane(y[j][i])
    <2>1. \A j \in DOMAIN x : \A i \in DOMAIN x[j] : q[j][i] = MXCode(s, Sane(x[j][i]))
      BY <1>1, Zenon
    <2>2. \A j \in DOMAIN q : \A i \in DOMAIN q[j] : y[j][i] = ElementE2M1(q[j][i]) * s
      BY <1>2, Zenon
    <2>3. \A j \in DOMAIN y : \A i \in DOMAIN y[j] : u[j][i] = RereadLane(y[j][i])
      BY <1>3, Zenon
    <2> TAKE j \in DOMAIN x
    <2> TAKE i \in DOMAIN x[j]
    <2>4. j \in DOMAIN q /\ i \in DOMAIN q[j] /\ j \in DOMAIN y /\ i \in DOMAIN y[j]
      BY <1>10, Zenon DEF SameIndices
    <2>5. q[j][i] = MXCode(s, Sane(x[j][i])) /\ y[j][i] = ElementE2M1(q[j][i]) * s /\ u[j][i] = RereadLane(y[j][i])
      BY <2>1, <2>2, <2>3, <2>4, Zenon
    <2> QED
      BY <2>5, Zenon
  <1> DEFINE Again(v, n, m) == /\ n \in Int /\ m \in Int /\ Abs(m) \in Nat
                               /\ s = 0 => n = 0 /\ m = 0
                               /\ s # 0 => /\ n = MXElement(s, v) * s /\ Abs(m) <= 6 * s
                                           /\ MXElement(s, m) = MXElement(s, v)
                                           /\ Abs(v) >= 4 * s => Abs(m) >= 4 * s
                                           /\ s = 1 /\ v # 0 => Abs(m) > 0
  <1>12. s = 0 <=> A = 0
    <2>1. A # 0 => s > 0
      <3> SUFFICES ASSUME A # 0 PROVE s > 0
        OBVIOUS
      <3>1. PICK k \in 0 .. 27 : s = 2^k
        BY <1>1, Zenon
      <3>2. k \in 0 .. 29
        BY SMT
      <3> QED
        BY <3>1, <3>2, ScalePowers, Zenon
    <2>2. A # 0 => s # 0
      <3> HIDE DEF s
      <3> QED
        BY <1>1, <2>1, SMT
    <2> QED
      BY <1>7, <2>2, Zenon
  <1>13. s # 0 => s > 0 /\ (s = 1 \/ \E t \in Nat : s = 2 * t)
    <2> SUFFICES ASSUME s # 0 PROVE s > 0 /\ (s = 1 \/ \E t \in Nat : s = 2 * t)
      OBVIOUS
    <2>1. s > 0
      BY <1>1, SMT
    <2>2. PICK k \in 0 .. 27 : s = 2^k
      BY <1>1, <1>12, Zenon
    <2>3. CASE k = 0
      <3>1. 2^0 = 1
        BY SMT
      <3> QED
        BY <2>1, <2>2, <2>3, <3>1, Zenon
    <2>4. CASE k # 0
      <3> DEFINE j == k - 1
      <3>1. j \in 0 .. 28 /\ j \in 0 .. 29 /\ j + 1 = k
        BY <2>4, SMT
      <3> HIDE DEF j
      <3>2. 2^j \in Nat /\ s = 2 * 2^j
        BY <2>2, <3>1, ScalePowers, PowersDouble, Zenon
      <3> QED
        BY <2>1, <3>2, Zenon
    <2> QED
      BY <2>3, <2>4, Zenon
  <1>14. \A j \in DOMAIN x : \A i \in DOMAIN x[j] : Again(Sane(x[j][i]), y[j][i], u[j][i])
    <2> TAKE j \in DOMAIN x
    <2> TAKE i \in DOMAIN x[j]
    <2> DEFINE v == Sane(x[j][i])
               n == y[j][i]
               m == u[j][i]
    <2>1. v \in Int /\ n = ElementE2M1(MXCode(s, v)) * s /\ m = RereadLane(n)
      BY <1>8, <1>11, Zenon
    <2> HIDE DEF v, n, m
    <2>2. CASE s = 0
      <3>1. ElementE2M1(MXCode(s, v)) \in Int
        <4>1. ElementE2M1(0) \in Int /\ ElementE2M1(8) \in Int
          BY SMT DEF ElementE2M1, Magnitudes
        <4> QED
          BY <2>2, <4>1, Zenon DEF MXCode
      <3> DEFINE e == ElementE2M1(MXCode(s, v))
      <3>2. e \in Int /\ n = e * s
        BY <2>1, <3>1, Zenon
      <3> HIDE DEF e
      <3>3. n = 0
        BY <2>2, <3>2, SMT
      <3>4. RereadLane(0) = 0
        BY SMT DEF RereadLane
      <3>5. m = 0
        BY <2>1, <3>3, <3>4, Zenon
      <3>6. 0 \in Int /\ Abs(0) \in Nat
        BY SMT DEF Abs
      <3> QED
        BY <2>2, <3>3, <3>5, <3>6, Zenon DEF v, n, m
    <2>3. CASE s # 0
      <3>1. n = MXElement(s, v) * s
        BY <2>1, <2>3, Zenon DEF MXCode, MXElement
      <3>2. LET yy == MXElement(s, v) * s
                uu == RereadLane(yy)
            IN  /\ yy \in Int /\ uu \in Int /\ Abs(uu) \in Nat /\ Abs(uu) <= 6 * s
                /\ MXElement(s, uu) = MXElement(s, v)
                /\ Abs(v) >= 4 * s => Abs(uu) >= 4 * s
                /\ s = 1 /\ v # 0 => Abs(uu) > 0
        BY <1>1, <1>13, <2>1, <2>3, MXLane, Zenon
      <3>3. m = RereadLane(MXElement(s, v) * s)
        BY <2>1, <3>1, Zenon
      <3>4. Again(v, n, m)
        BY <2>3, <3>1, <3>2, <3>3, Zenon
      <3> QED
        BY <3>4, Zenon DEF v, n, m
    <2> QED
      BY <2>2, <2>3, Zenon
  <1>15. \A j \in DOMAIN x : \A i \in DOMAIN x[j] : y[j][i] \in Int /\ u[j][i] \in Int
    BY <1>14, Zenon
  <1>16. /\ y \in Blocks /\ SameIndices(x, y)
    <2>1. \A j \in DOMAIN q : \A i \in DOMAIN q[j] : y[j][i] \in Int
      BY <1>10, <1>15, Zenon DEF SameIndices
    <2> QED
      BY <1>10, <2>1, ReadBlock, SMT
  <1>17. /\ u \in Blocks /\ SameIndices(x, u) /\ 1 \in DOMAIN x /\ u[1] \in Seq(Number) /\ u[1] # <<>>
         /\ \A j \in DOMAIN x : \A i \in DOMAIN x[j] : u[j][i] \in Int /\ Sane(u[j][i]) = u[j][i]
    <2>1. SameShape(x, y)
      <3>1. Elementwise(y) /\ DOMAIN y = DOMAIN x /\ \A j \in DOMAIN x : DOMAIN y[j] = DOMAIN x[j]
        BY <1>10, <1>16, ShapeIs, Zenon DEF SameIndices
      <3>2. y = [j \in DOMAIN x |-> y[j]]
        BY <1>2, <3>1, Zenon
      <3>3. \A j \in DOMAIN x : y[j] = [i \in DOMAIN x[j] |-> y[j][i]]
        BY <1>2, <1>10, <3>1, Zenon DEF SameIndices
      <3> QED
        BY <3>2, <3>3, Zenon DEF SameShape
    <2>2. \A j \in DOMAIN y : \A i \in DOMAIN y[j] : u[j][i] \in Int
      BY <1>15, <1>16, Zenon DEF SameIndices
    <2> QED
      BY <1>10, <2>1, <2>2, ReadBlock, SMT
  <1>18. S = s
    <2>1. B \in Nat /\ (\E i \in DOMAIN u[1] : B = Abs(Sane(u[1][i]))) /\ \A i \in DOMAIN u[1] : Abs(Sane(u[1][i])) <= B
      BY <1>17, Measures, Zenon DEF B
    <2>2. DOMAIN u[1] = DOMAIN x[1]
      BY <1>17, Zenon DEF SameIndices
    <2>3. \A i \in DOMAIN x[1] : Again(Sane(x[1][i]), y[1][i], u[1][i]) /\ Sane(u[1][i]) = u[1][i]
      BY <1>14, <1>17, Zenon
    <2>4. PICK i \in DOMAIN x[1] : A = Abs(Sane(x[1][i]))
      BY <1>9, Zenon
    <2>5. PICK o \in DOMAIN x[1] : B = Abs(u[1][o])
      BY <2>1, <2>2, <2>3, Zenon
    <2>6. CASE s = 0
      <3>1. u[1][o] = 0
        BY <2>3, <2>6, Zenon
      <3>2. Abs(0) = 0
        BY SMT DEF Abs
      <3> QED
        BY <1>6, <2>5, <2>6, <3>1, <3>2, Zenon
    <2>7. CASE s # 0
      <3> DEFINE v == Sane(x[1][i])
                 m == u[1][i]
      <3>1. /\ B <= 6 * s /\ Abs(m) <= B /\ Abs(m) \in Nat /\ v \in Int
            /\ (A >= 4 * s => Abs(m) >= 4 * s) /\ (s = 1 /\ v # 0 => Abs(m) > 0)
        BY <1>8, <1>17, <2>1, <2>2, <2>3, <2>4, <2>5, <2>7, Zenon
      <3>2. v # 0
        <4>1. Abs(0) = 0
          BY SMT DEF Abs
        <4> QED
          BY <1>12, <2>4, <2>7, <4>1, Zenon
      <3> DEFINE n == Abs(m)
      <3>3. /\ B <= 6 * s /\ n <= B /\ n \in Nat /\ (A >= 4 * s => n >= 4 * s) /\ (s = 1 => n > 0)
        BY <3>1, <3>2, Zenon
      <3>4. PICK k \in 0 .. 27 : s = 2^k /\ k = IF Exponent(A) <= 2 THEN 0 ELSE Exponent(A) - 2
        BY <1>1, <1>12, <2>7, Zenon
      <3> DEFINE e == Exponent(A)
      <3>5. e \in 0 .. 29 /\ 2^e <= A
        <4>1. A > 0
          BY <1>1, <1>12, <2>7, SMT
        <4> QED
          BY <1>1, <4>1, ExponentIs, Zenon
      <3>6. k = IF e <= 2 THEN 0 ELSE e - 2
        BY <3>4, Zenon
      <3> HIDE DEF e, n, m, v
      <3>7. e >= 2 => A >= 4 * s
        <4> SUFFICES ASSUME e >= 2 PROVE A >= 4 * s
          OBVIOUS
        <4>1. e = k + 1 + 1 /\ k \in 0 .. 28 /\ k + 1 \in 0 .. 28
          BY <3>5, <3>6, SMT
        <4>2. 2^(k + 1) = 2 * 2^k /\ 2^(k + 1 + 1) = 2 * 2^(k + 1)
          BY <4>1, PowersDouble, Zenon
        <4> DEFINE p == 2^(k + 1)
                   g == 2^e
        <4>3. p = 2 * s /\ g = 2 * p /\ g <= A
          BY <3>4, <3>5, <4>1, <4>2, Zenon
        <4> HIDE DEF p, g
        <4> QED
          BY <1>1, <4>3, SMT
      <3>8. e < 2 => s = 1
        <4>1. e < 2 => k = 0
          BY <3>5, <3>6, SMT
        <4>2. 2^0 = 1
          BY SMT
        <4> QED
          BY <3>4, <4>1, <4>2, Zenon
      <3>9. e >= 2 \/ e < 2
        BY <3>5, SMT
      <3>10. (e >= 2 => 4 * s <= B) /\ B > 0
        <4>1. s > 0 /\ s \in Nat /\ B \in Nat
          BY <1>1, <1>13, <2>1, <2>7, Zenon
        <4>2. (e >= 2 => n >= 4 * s) /\ (e < 2 => n > 0) /\ n <= B /\ n \in Nat
          BY <3>3, <3>7, <3>8, Zenon
        <4> QED
          BY <3>9, <4>1, <4>2, SMT
      <3>11. k = IF Exponent(B) <= 2 THEN 0 ELSE Exponent(B) - 2
        <4>1. B <= 6 * 2^k /\ (e >= 2 => 4 * 2^k <= B)
          BY <3>3, <3>4, <3>10, Zenon
        <4> QED
          BY <2>1, <3>5, <3>6, <3>10, <4>1, ScaleAgain, Zenon
      <3>12. B # 0
        BY <2>1, <3>10, SMT
      <3> QED
        BY <1>4, <1>17, <3>4, <3>11, <3>12, Zenon
    <2> QED
      BY <2>6, <2>7, Zenon
  <1>19. c.d = s
    BY <1>4, <1>17, <1>18, Zenon
  <1>20. r = [j \in DOMAIN u |-> [i \in DOMAIN u[j] |-> MXCode(S, Sane(u[j][i]))]]
    BY <1>4, <1>17, Zenon
  <1>21. z = [j \in DOMAIN r |-> [i \in DOMAIN r[j] |-> ElementE2M1(r[j][i]) * s]]
    <2>1. s # NonFinite
      <3>1. s \in Int
        BY <1>1, SMT
      <3> QED
        BY <3>1, NumbersAssumption, Zenon
    <2> QED
      BY <1>5, <1>19, <2>1, Zenon
  <1>22. SameShape(u, r) /\ SameShape(r, z) /\ SameIndices(u, r) /\ SameIndices(r, z)
    <2>1. SameShape(u, r) /\ SameShape(r, z)
      BY <1>20, <1>21, Zenon DEF SameShape
    <2> QED
      BY <2>1, ShapeIs, Zenon
  <1>23. \A j \in DOMAIN y : \A i \in DOMAIN y[j] : z[j][i] = y[j][i]
    <2> SUFFICES ASSUME NEW j \in DOMAIN x, NEW i \in DOMAIN x[j] PROVE z[j][i] = y[j][i]
      BY <1>16, Zenon DEF SameIndices
    <2>1. j \in DOMAIN u /\ i \in DOMAIN u[j] /\ j \in DOMAIN r /\ i \in DOMAIN r[j]
      BY <1>17, <1>22, Zenon DEF SameIndices
    <2>2. r[j][i] = MXCode(s, u[j][i])
      <3>1. r[j][i] = MXCode(S, Sane(u[j][i]))
        BY <1>20, <2>1, Zenon
      <3> QED
        BY <1>17, <1>18, <3>1, Zenon
    <2>3. z[j][i] = ElementE2M1(r[j][i]) * s
      BY <1>21, <2>1, Zenon
    <2>4. Again(Sane(x[j][i]), y[j][i], u[j][i])
      BY <1>14, Zenon
    <2>5. CASE s # 0
      <3>1. ElementE2M1(r[j][i]) = MXElement(s, u[j][i])
        BY <2>2, <2>5, Zenon DEF MXCode, MXElement
      <3> QED
        BY <2>3, <2>4, <2>5, <3>1, Zenon
    <2>6. CASE s = 0
      <3>1. ElementE2M1(r[j][i]) \in Int
        <4>1. ElementE2M1(0) \in Int /\ ElementE2M1(8) \in Int
          BY SMT DEF ElementE2M1, Magnitudes
        <4> QED
          BY <2>2, <2>6, <4>1, Zenon DEF MXCode
      <3>2. y[j][i] = 0
        BY <2>4, <2>6, Zenon
      <3> DEFINE e == ElementE2M1(r[j][i])
      <3>3. z[j][i] = e * s /\ e \in Int
        BY <2>3, <3>1, Zenon
      <3> HIDE DEF e
      <3>4. e * 0 = 0
        BY <3>3, SMT
      <3> QED
        BY <2>6, <3>2, <3>3, <3>4, Zenon
    <2> QED
      BY <2>5, <2>6, Zenon
  <1>24. DOMAIN z = DOMAIN y /\ (\A j \in DOMAIN y : DOMAIN z[j] = DOMAIN y[j]) /\ Elementwise(z) /\ Elementwise(y)
    BY <1>10, <1>22, ShapeIs, Zenon DEF SameIndices
  <1>25. z = y
    <2>1. \A j \in DOMAIN y : [i \in DOMAIN z[j] |-> z[j][i]] = [i \in DOMAIN y[j] |-> y[j][i]]
      BY <1>23, <1>24, Zenon
    <2>2. [j \in DOMAIN z |-> [i \in DOMAIN z[j] |-> z[j][i]]] = [j \in DOMAIN y |-> [i \in DOMAIN y[j] |-> y[j][i]]]
      BY <1>24, <2>1, Zenon
    <2> QED
      BY <1>24, <2>2, Zenon DEF Elementwise
  <1> QED
    BY <1>25, Zenon DEF z, c, u, y, b

-----------------------------------------------------------------------------
(* How far a decoded number lies from its source. *)

Within(w, c) == -c <= w /\ w <= c

(* Bounds on two numbers add up.                                           *)
LEMMA WithinSum ==
  ASSUME NEW a \in Int, NEW b \in Int, NEW c \in Int, NEW d \in Int, Within(a, c), Within(b, d)
  PROVE  Within(a + b, c + d) /\ Within(a - b, c + d) /\ Within(-a, c)
  BY SMT DEF Within

(* A product is no larger than the product of the bounds.                  *)
LEMMA WithinProduct ==
  ASSUME NEW k \in Int, NEW n \in Nat, NEW w \in Int, NEW c \in Int, Within(k, n), Within(w, c)
  PROVE  Within(k * w, n * c)
  <1>1. c >= 0 /\ -c <= w /\ w <= c /\ -n <= k /\ k <= n
    BY SMT DEF Within
  <1>2. k >= 0 => -(n * c) <= k * w /\ k * w <= n * c
    <2> SUFFICES ASSUME k >= 0 PROVE -(n * c) <= k * w /\ k * w <= n * c
      OBVIOUS
    <2>1. k * c <= n * c
      BY <1>1, Z3
    <2>2. k * w <= k * c /\ -(k * c) <= k * w
      BY <1>1, Z3
    <2> DEFINE kc == k * c  nc == n * c  kw == k * w
    <2>3. kc \in Int /\ nc \in Int /\ kw \in Int
      BY Z3
    <2> HIDE DEF kc, nc, kw
    <2>4. -nc <= kw /\ kw <= nc
      <3>1. kc <= nc /\ kw <= kc /\ -kc <= kw
        BY <2>1, <2>2, Zenon DEF kc, nc, kw
      <3> QED
        BY <2>3, <3>1, SMT
    <2> QED
      BY <2>4, Zenon DEF kc, nc, kw
  <1>3. k < 0 => -(n * c) <= k * w /\ k * w <= n * c
    <2> SUFFICES ASSUME k < 0 PROVE -(n * c) <= k * w /\ k * w <= n * c
      OBVIOUS
    <2> DEFINE m == -k
    <2>0. m \in Int /\ m >= 0 /\ m <= n /\ k = -m
      BY <1>1, SMT
    <2> HIDE DEF m
    <2>1. m * c <= n * c
      BY <1>1, <2>0, Z3
    <2>2. m * w <= m * c /\ -(m * c) <= m * w
      BY <1>1, <2>0, Z3
    <2>5. k * w = -(m * w)
      BY <2>0, Z3
    <2> DEFINE mc == m * c  nc == n * c  mw == m * w  kw == k * w
    <2>3. mc \in Int /\ nc \in Int /\ mw \in Int /\ kw \in Int
      BY <2>0, Z3
    <2> HIDE DEF mc, nc, mw, kw
    <2>4. -nc <= kw /\ kw <= nc
      <3>1. mc <= nc /\ mw <= mc /\ -mc <= mw /\ kw = -mw
        BY <2>1, <2>2, <2>5, Zenon DEF mc, nc, mw, kw
      <3> QED
        BY <2>3, <3>1, SMT
    <2> QED
      BY <2>4, Zenon DEF mc, nc, mw, kw
  <1> QED
    BY <1>2, <1>3, SMT DEF Within

(* The bound on a magnitude, from the bounds on the number.                *)
LEMMA AbsWithin ==
  ASSUME NEW e \in Nat, NEW w \in Int, NEW c \in Int, Within(e * w, c)
  PROVE  e * Abs(w) <= c
  <1>1. CASE w >= 0
    <2>1. Abs(w) = w
      BY <1>1, SMT DEF Abs
    <2> DEFINE p == e * w
    <2>2. p \in Int /\ p <= c
      BY SMT DEF Within
    <2> QED
      BY <2>1, <2>2
  <1>2. CASE w < 0
    <2>1. Abs(w) = -w
      BY <1>2, SMT DEF Abs
    <2>2. e * (-w) = -(e * w)
      BY Z3
    <2> DEFINE p == e * w
    <2>3. p \in Int
      BY Z3
    <2> HIDE DEF p
    <2>4. -p <= c
      <3>1. Within(p, c)
        BY Zenon DEF p
      <3> QED
        BY <2>3, <3>1, SMT DEF Within
    <2> QED
      BY <2>1, <2>2, <2>4, Zenon DEF p
  <1> QED
    BY <1>1, <1>2, SMT

(* What rounding to FP16 costs (fp32ToFP16Safe, fpe_guard.hpp:298-389), up *)
(* to the largest FP16 number: half a step.                                *)
LEMMA HalfOfError ==
  ASSUME NEW a \in Nat, NEW b \in Nat, b > 0, a <= HalfMax * b
  PROVE  HalfCost(a, b) \in Nat /\ Within(b * HalfOf(a, b) - a, HalfCost(a, b))
  <1> DEFINE h == HalfOf(a, b)
             H == HalfMax
  <1>0. Abs(a) = a /\ H \in Nat
    BY NumbersAssumption, SMT DEF Abs
  <1>1. CASE 2 * a < b
    <2>1. HalfCost(a, b) = b
      BY <1>0, <1>1 DEF HalfCost
    <2>2. h \in {0, 1}
      BY <1>1, Zenon DEF HalfOf
    <2> HIDE DEF h
    <2>3. h = 0 => b * h = 0
      BY SMT
    <2>4. h = 1 => b * h = b
      BY SMT
    <2>5. Within(b * h - a, b)
      BY <1>1, <2>2, <2>3, <2>4, SMT DEF Within
    <2> QED
      BY <2>1, <2>5, Zenon DEF h
  <1>2. CASE ~(2 * a < b)
    <2> DEFINE c == b \div 2
               d == a \div 2048
               m == Max({c, d})
    <2>1. HalfCost(a, b) = m + 1
      BY <1>0, <1>2, SMT DEF HalfCost
    <2>2. c \in Nat /\ d \in Nat
      BY SMT
    <2>c. 2 * c <= b /\ b <= 2 * c + 1 /\ 2048 * d <= a /\ a <= 2048 * d + 2047
      BY SMT
    <2> HIDE DEF c, d
    <2>3. m = IF c <= d THEN d ELSE c
      <3>1. c \in Int /\ d \in Int
        BY <2>2, SMT
      <3> QED
        BY <3>1, OfTwo, Zenon
    <2>4. m \in Nat /\ c <= m /\ d <= m
      <3> HIDE DEF m
      <3> QED
        BY <2>2, <2>3, SMT
    <2> DEFINE e == Exp(a, b, 11)
               P == Pow(e)
               r == RoundSignificant(a, b, 11)
               u == b * P
               q == HalfEven(a, u)
               w == q * u
    <2>5. e \in 0 .. 7 /\ r = q * P /\ \A k \in 0 .. 7 : a < b * 2^(11 + k) => e <= k
      BY HalfExpIs, Zenon
    <2>6. P \in Nat /\ P > 0
      BY <2>5, ElevenBits, Zenon
    <2>7. e > 0 => a >= 1024 * u
      <3> SUFFICES ASSUME e > 0 PROVE a >= 1024 * u
        OBVIOUS
      <3> DEFINE f == e - 1
                 F == Pow(f)
                 t == b * F
                 T == b * (Top * F)
      <3>1. f \in 0 .. 7 /\ ~(e <= f) /\ e = f + 1
        BY <2>5, SMT
      <3>2. ~(a < b * 2^(11 + f))
        BY <2>5, <3>1, Zenon
      <3>3. 2^(11 + f) = Top * Pow(f) /\ Pow(f) \in Nat
        BY <3>1, ElevenBits, Zenon
      <3>4. Pow(e) = 2 * Pow(f)
        <4>1. f \in 0 .. 10
          BY <3>1, SMT
        <4>2. Pow(f + 1) = 2 * Pow(f)
          BY <4>1, Powers, SMT
        <4> QED
          BY <3>1, <4>2, Zenon
      <3> HIDE DEF f
      <3>5. ~(a < T)
        BY <3>2, <3>3, Zenon
      <3>6. F \in Nat
        BY <3>3, Zenon
      <3> HIDE DEF F, P
      <3>7. P = 2 * F
        BY <3>4, Zenon DEF P, F
      <3>8. T = 2048 * t /\ t \in Nat
        BY <3>6, SMT DEF Top
      <3>9. u = 2 * t
        BY <3>6, <3>7, Z3
      <3> HIDE DEF t, T, u
      <3> QED
        BY <3>5, <3>8, <3>9, SMT
    <2>8. e = 0 => P = 1
      <3>1. Pow(0) = 1
        BY SMT DEF Pow
      <3> QED
        BY <3>1, Zenon
    <2>9. u \in Nat /\ u > 0
      <3> HIDE DEF P
      <3> QED
        BY <2>6, Z3
    <2>10. q \in Int /\ 2 * w <= 2 * a + u /\ 2 * a - u <= 2 * w
      <3> HIDE DEF u
      <3> QED
        <4>1. a \in Int
          BY SMT
        <4> QED
          BY <2>9, <4>1, HalfEvenIs, Zenon
    <2>11. b * r = w
      <3> HIDE DEF P, q, r
      <3> QED
        BY <2>5, <2>6, <2>10, Z3
    <2>12. r \in Nat
      BY ElevenBitsNatural, Zenon
    <2> HIDE DEF e, P, q, r, w, u, m
    <2>13. w \in Int
      BY <2>11, <2>12, SMT
    <2>14. w - a <= m /\ a - w <= m
      <3>1. CASE e = 0
        <4>1. u = b
          BY <2>8, <3>1, SMT DEF u
        <4> QED
          BY <2>2, <2>c, <2>4, <2>10, <2>13, <4>1, SMT
      <3>2. CASE e > 0
        <4> QED
          BY <2>2, <2>c, <2>4, <2>7, <2>9, <2>10, <2>13, <3>2, SMT
      <3> QED
        BY <2>5, <3>1, <3>2, SMT
    <2>15. h = IF r <= H THEN r ELSE H
      <3>1. ~(4 * a < b)
        BY <1>2, SMT
      <3>2. h = Min({r, H})
        BY <1>2, <3>1, Zenon DEF HalfOf, r
      <3> QED
        <4>1. r \in Int /\ H \in Int
          BY <1>0, <2>12, SMT
        <4> QED
          BY <3>2, <4>1, OfTwo, Zenon
    <2>16. Within(b * h - a, m + 1)
      <3>1. CASE r <= H
        <4>1. b * h = w
          BY <2>11, <2>15, <3>1, Zenon
        <4> QED
          BY <2>4, <2>13, <2>14, <4>1, SMT DEF Within
      <3>2. CASE ~(r <= H)
        <4>1. h = H
          BY <2>15, <3>2, Zenon
        <4>2. b * H <= b * r
          <5> HIDE DEF H
          <5> QED
            BY <1>0, <2>12, <3>2, Z3
        <4> DEFINE z == b * H
        <4>3. z \in Int /\ a <= z
          <5>1. H * b = b * H
            BY <1>0, Z3
          <5> QED
            BY <1>0, <5>1, SMT
        <4> HIDE DEF z
        <4>4. z <= w
          BY <2>11, <4>2, Zenon DEF z
        <4>5. Within(z - a, m + 1)
          BY <2>4, <2>13, <2>14, <4>3, <4>4, SMT DEF Within
        <4> QED
          BY <4>1, <4>5, Zenon DEF z
      <3> QED
        BY <3>1, <3>2, Zenon
    <2> QED
      BY <2>1, <2>4, <2>16, SMT
  <1> QED
    BY <1>1, <1>2, Zenon

(* The same of a scale of any sign.                                        *)
LEMMA HalfError ==
  ASSUME NEW p \in Int, NEW q \in Int, q # 0, Abs(p) <= HalfMax * Abs(q)
  PROVE  /\ HalfCost(p, Abs(q)) \in Nat /\ HalfCost(p, Abs(q)) = HalfCost(Abs(p), Abs(q))
         /\ Half(p, q) \in Int /\ Within(q * Half(p, q) - p, HalfCost(p, Abs(q)))
  <1> DEFINE a == Abs(p)
             b == Abs(q)
             h == HalfOf(a, b)
             c == HalfCost(a, b)
  <1>1. a \in Nat /\ b \in Nat /\ b > 0
    BY AbsIs
  <1>2. c \in Nat /\ Within(b * h - a, c)
    <2> HIDE DEF a, b
    <2> QED
      BY <1>1, HalfOfError, Zenon DEF a, b
  <1>3. Abs(a) = a
    BY <1>1, AbsIs, SMT
  <1>4. HalfCost(p, b) = c
    <2> HIDE DEF a, b
    <2>1. HalfCost(p, b) = IF 2 * a < b THEN b ELSE Max({b \div 2, a \div 2048}) + 1
      BY SMT DEF HalfCost, a
    <2>2. HalfCost(a, b) = IF 2 * a < b THEN b ELSE Max({b \div 2, a \div 2048}) + 1
      BY <1>3, SMT DEF HalfCost
    <2> QED
      BY <2>1, <2>2, SMT
  <1>5. /\ Half(p, q) \in Int /\ h \in Nat
        /\ Half(p, q) = IF (p < 0) = (q < 0) THEN h ELSE -h
    BY HalfIs, Zenon
  <1>6. (p < 0 => a = -p) /\ (~(p < 0) => a = p) /\ (q < 0 => b = -q) /\ (~(q < 0) => b = q)
    BY AbsIs, SMT
  <1> DEFINE g == Half(p, q)
             bh == b * h
             qg == q * g
  <1> HIDE DEF a, b, h, c, g
  <1>7. bh \in Int /\ qg \in Int
    BY <1>1, <1>5, Z3 DEF g
  <1>8. q * h = IF q < 0 THEN -bh ELSE bh
    <2>1. q < 0 => q * h = -(b * h)
      BY <1>5, <1>6, Z3
    <2>2. ~(q < 0) => q * h = b * h
      BY <1>5, <1>6, Z3
    <2> QED
      BY <2>1, <2>2, Zenon
  <1>9. q * (-h) = -(q * h)
    BY <1>5, Z3
  <1>10. qg = IF p < 0 THEN -bh ELSE bh
    <2>1. g = h \/ g = -h
      BY <1>5, Zenon DEF g
    <2>2. g = h => qg = q * h
      BY Zenon
    <2>3. g = -h => qg = -(q * h)
      BY <1>9, Zenon
    <2> DEFINE qh == q * h
    <2>4. qh \in Int
      BY <1>5, Z3
    <2> HIDE DEF qh, qg, bh
    <2>5. g = IF (p < 0) = (q < 0) THEN h ELSE -h
      BY <1>5, Zenon DEF g
    <2>6. (g = h => qg = qh) /\ (g = -h => qg = -qh) /\ qh = IF q < 0 THEN -bh ELSE bh
      BY <1>8, <2>2, <2>3, Zenon DEF qh
    <2> QED
      BY <1>7, <2>4, <2>5, <2>6, SMT
  <1> HIDE DEF bh, qg
  <1>11. Within(bh - a, c)
    BY <1>2, Zenon DEF bh
  <1>12. Within(qg - p, c)
    BY <1>1, <1>2, <1>6, <1>7, <1>10, <1>11, SMT DEF Within
  <1> QED
    BY <1>2, <1>4, <1>5, <1>12, Zenon DEF a, b, c, qg, g

(* p, on the side of q.                                                    *)
Turned(p, q) == IF q < 0 THEN -p ELSE p

(* A rounded quotient is within half of the exact one, for both kinds of   *)
(* kernels (quantizer.hpp:1507-1513, quantizer_simd.hpp:562-566).          *)
LEMMA RoundedIs ==
  ASSUME NEW p \in Int, NEW q \in Int, q # 0
  PROVE  LET Q == Abs(q)
             X == Turned(p, q)
             r == nearestInt(p, q)
             s == Signed(HalfEven, p, q)
         IN  /\ Q \in Nat /\ Q > 0 /\ X \in Int /\ r \in Int /\ s \in Int
             /\ Within(2 * (r * Q) - 2 * X, Q) /\ Within(2 * (s * Q) - 2 * X, Q)
  <1> DEFINE Q == Abs(q)
             X == Turned(p, q)
             P == Abs(p)
             u == HalfUp(P, Q)
             e == HalfEven(P, Q)
             r == nearestInt(p, q)
             s == Signed(HalfEven, p, q)
             same == (p < 0) = (q < 0)
  <1>1. Q \in Nat /\ Q > 0 /\ P \in Nat /\ X \in Int
    BY AbsIs, SMT DEF Turned
  <1>2. X = IF same THEN P ELSE -P
    BY AbsIs, SMT DEF Turned
  <1>3. r = IF same THEN u ELSE -u
    BY Zenon DEF nearestInt, Signed
  <1>4. s = IF same THEN e ELSE -e
    BY Zenon DEF Signed
  <1> HIDE DEF Q, X, P, same, r, s
  <1>5. P \in Int
    BY <1>1, SMT
  <1>6. u \in Int /\ 2 * (u * Q) <= 2 * P + Q /\ 2 * P - Q <= 2 * (u * Q)
    BY <1>1, <1>5, HalfUpIs, Zenon
  <1>7. e \in Int /\ 2 * (e * Q) <= 2 * P + Q /\ 2 * P - Q <= 2 * (e * Q)
    BY <1>1, <1>5, HalfEvenIs, Zenon
  <1>8. \A k \in Int : k * Q \in Int /\ (-k) * Q = -(k * Q)
    BY <1>1, Z3
  <1>9. ASSUME NEW k \in Int, NEW h \in Int, h = IF same THEN k ELSE -k,
               2 * (k * Q) <= 2 * P + Q, 2 * P - Q <= 2 * (k * Q)
        PROVE  Within(2 * (h * Q) - 2 * X, Q)
    <2>1. k * Q \in Int /\ (-k) * Q = -(k * Q)
      BY <1>8
    <2> DEFINE kq == k * Q
               hq == h * Q
    <2>2. hq = IF same THEN kq ELSE -kq
      BY <1>9, <2>1, Zenon
    <2>3. kq \in Int /\ 2 * kq <= 2 * P + Q /\ 2 * P - Q <= 2 * kq
      BY <1>9, <2>1, Zenon
    <2> HIDE DEF kq, hq
    <2>4. Within(2 * hq - 2 * X, Q)
      BY <1>1, <1>2, <2>2, <2>3, SMT DEF Within
    <2> QED
      BY <2>4, Zenon DEF hq
  <1> HIDE DEF u, e
  <1>10. r \in Int /\ s \in Int
    BY <1>3, <1>4, <1>6, <1>7, SMT
  <1>11. Within(2 * (r * Q) - 2 * X, Q) /\ Within(2 * (s * Q) - 2 * X, Q)
    BY <1>3, <1>4, <1>6, <1>7, <1>9, <1>10, Zenon
  <1> QED
    BY <1>1, <1>10, <1>11, Zenon DEF Q, X, r, s

(* A clamp leaves a code alone, or lies on the near side of it.            *)
LEMMA ClampedNear ==
  ASSUME NEW r \in Int, NEW X \in Int, NEW Q \in Nat, Q > 0, NEW lo \in Int, NEW hi \in Int, lo <= hi,
         Within(2 * (r * Q) - 2 * X, Q)
  PROVE  LET c == Clamp(r, lo, hi)
         IN  /\ c \in Int /\ lo <= c /\ c <= hi
             /\ \/ Within(2 * (c * Q) - 2 * X, Q)
                \/ c = hi /\ 2 * (hi * Q) + Q <= 2 * X
                \/ c = lo /\ 2 * X + Q <= 2 * (lo * Q)
  <1> DEFINE c == Clamp(r, lo, hi)
             rq == r * Q
             lq == lo * Q
             hq == hi * Q
  <1>1. c = IF r < lo THEN lo ELSE IF r > hi THEN hi ELSE r
    BY Zenon DEF Clamp
  <1>2. rq \in Int /\ lq \in Int /\ hq \in Int
    BY Z3
  <1>3. r > hi => rq >= hq + Q
    BY Z3
  <1>4. r < lo => rq + Q <= lq
    BY Z3
  <1>5. c \in Int /\ lo <= c /\ c <= hi
    BY <1>1, SMT
  <1>6. Within(2 * rq - 2 * X, Q)
    BY Zenon
  <1> HIDE DEF c, rq, lq, hq
  <1>7. \/ c = r
        \/ c = hi /\ 2 * hq + Q <= 2 * X
        \/ c = lo /\ 2 * X + Q <= 2 * lq
    BY <1>1, <1>2, <1>3, <1>4, <1>6, SMT DEF Within
  <1>8. c = r => Within(2 * (c * Q) - 2 * X, Q)
    BY <1>6, Zenon DEF rq
  <1> QED
    BY <1>5, <1>7, <1>8, Zenon DEF c, lq, hq

(* INT8 and INT4: half a step, when the scale is exact.                    *)
LEMMA IntNear ==
  ASSUME NEW n \in Nat, n > 0, NEW even, NEW s \in Nat, s > 0, NEW v \in Int, NEW A \in Nat, A = n * s,
         Abs(v) <= A
  PROVE  Within((2 * n) * (IntCode(n, even, s, v) * s - v), A)
  <1> DEFINE r == IF even THEN Signed(HalfEven, v, s) ELSE nearestInt(v, s)
             lo == -n
             c == Clamp(r, lo, n)
             cs == c * s
             ls == lo * s
             ns == n * s
  <1>1. Abs(s) = s /\ Turned(v, s) = v /\ -A <= v /\ v <= A
    BY AbsIs, SMT DEF Turned
  <1>2. r \in Int /\ Within(2 * (r * s) - 2 * v, s)
    <2>1. s \in Int /\ s # 0
      BY SMT
    <2>2. LET Q == Abs(s)
              X == Turned(v, s)
              k == nearestInt(v, s)
              e == Signed(HalfEven, v, s)
          IN  /\ Q \in Nat /\ Q > 0 /\ X \in Int /\ k \in Int /\ e \in Int
              /\ Within(2 * (k * Q) - 2 * X, Q) /\ Within(2 * (e * Q) - 2 * X, Q)
      BY <2>1, RoundedIs, Zenon
    <2> QED
      BY <1>1, <2>2, Zenon
  <1>3. IntCode(n, even, s, v) = c
    BY SMT DEF IntCode
  <1> HIDE DEF r
  <1>4. lo \in Int /\ n \in Int /\ lo <= n
    BY SMT
  <1>5. LET k == Clamp(r, lo, n)
        IN  /\ k \in Int /\ lo <= k /\ k <= n
            /\ \/ Within(2 * (k * s) - 2 * v, s)
               \/ k = n /\ 2 * (n * s) + s <= 2 * v
               \/ k = lo /\ 2 * v + s <= 2 * (lo * s)
    <2> HIDE DEF lo
    <2> QED
      BY <1>2, <1>4, ClampedNear, Zenon
  <1>6. ls = -A /\ ns = A
    BY Z3
  <1>7. c \in Int /\ (Within(2 * cs - 2 * v, s) \/ 2 * ns + s <= 2 * v \/ 2 * v + s <= 2 * ls)
    BY <1>5, Zenon
  <1> HIDE DEF lo, c, ls, ns
  <1>8. cs \in Int
    BY <1>7, Z3
  <1> HIDE DEF cs
  <1>9. Within(2 * cs - 2 * v, s)
    BY <1>1, <1>6, <1>7, SMT
  <1> DEFINE w == 2 * cs - 2 * v
  <1>10. w \in Int /\ Within(w, s) /\ Within(n, n) /\ s \in Int /\ n \in Int
    BY <1>8, <1>9, SMT DEF Within
  <1> HIDE DEF w
  <1>11. Within(n * w, n * s)
    BY <1>10, WithinProduct, Zenon
  <1>12. n * w = (2 * n) * (cs - v)
    BY <1>8, Z3 DEF w
  <1> QED
    BY <1>3, <1>11, <1>12, Zenon DEF cs

(* Q4_1 and Q5_1: half a step, and what the two scales cost.               *)
LEMMA MinMaxNear ==
  ASSUME NEW n \in Nat, n > 0, NEW lo \in Int, NEW range \in Nat, range <= FloatMax,
         NEW v \in Int, lo <= v, v <= lo + range,
         NEW d \in Int, NEW m \in Int, NEW C \in Nat, NEW D \in Nat,
         Within(n * d - range, C), Within(m - lo, D)
  PROVE  Within((2 * n) * (MinMaxCode(n, lo, range, v) * d + m - v), range + (2 * n) * (C + D))
  <1> DEFINE c == MinMaxCode(n, lo, range, v)
             X == (v - lo) * n
             nr == n * range
  <1>0. X \in Int /\ nr \in Int /\ 0 <= X /\ X <= nr
    <2> DEFINE t == v - lo
    <2>1. t \in Nat /\ t <= range
      BY SMT
    <2> HIDE DEF t
    <2>2. t * n \in Int /\ nr \in Int /\ 0 <= t * n /\ t * n <= nr
      BY <2>1, Z3
    <2> QED
      BY <2>2, Zenon DEF t
  <1>1. FloatMax \in Nat
    BY NumbersAssumption, Zenon
  <1>2. /\ c \in Int /\ 0 <= c /\ c <= n
        /\ Within(2 * (c * range) - 2 * X, range)
    <2>1. CASE range = 0
      <3>1. c = 0
        BY <2>1, Zenon DEF MinMaxCode
      <3>2. nr = 0
        BY <2>1, SMT
      <3> HIDE DEF X, nr, c
      <3>3. c * range = 0
        BY <2>1, <3>1, SMT
      <3> QED
        BY <1>0, <2>1, <3>1, <3>2, <3>3, SMT DEF Within
    <2>2. CASE range # 0
      <3> DEFINE r == HalfUp(X, range)
      <3>1. ~(range > FloatMax) /\ range > 0 /\ 0 \in Int /\ n \in Int /\ 0 <= n /\ range \in Int
        BY <1>1, <2>2, SMT
      <3>2. c = Clamp(r, 0, n)
        BY <2>2, <3>1, Zenon DEF MinMaxCode
      <3> HIDE DEF X
      <3>3. r \in Int /\ 2 * (r * range) <= 2 * X + range /\ 2 * X - range <= 2 * (r * range)
        BY <1>0, <3>1, HalfUpIs, Zenon
      <3> HIDE DEF r
      <3>4. Within(2 * (r * range) - 2 * X, range)
        <4> DEFINE t == r * range
        <4>1. t \in Int
          BY <3>3, Z3
        <4>2. 2 * t <= 2 * X + range /\ 2 * X - range <= 2 * t
          BY <3>3, Zenon
        <4> HIDE DEF t
        <4>3. Within(2 * t - 2 * X, range)
          BY <1>0, <4>1, <4>2, SMT DEF Within
        <4> QED
          BY <4>3, Zenon DEF t
      <3>5. LET k == Clamp(r, 0, n)
            IN  /\ k \in Int /\ 0 <= k /\ k <= n
                /\ \/ Within(2 * (k * range) - 2 * X, range)
                   \/ k = n /\ 2 * (n * range) + range <= 2 * X
                   \/ k = 0 /\ 2 * X + range <= 2 * (0 * range)
        BY <1>0, <3>1, <3>3, <3>4, ClampedNear, Zenon
      <3>6. ~(2 * nr + range <= 2 * X)
        <4> HIDE DEF nr
        <4> QED
          BY <1>0, <3>1, SMT
      <3>7. ~(2 * X + range <= 2 * (0 * range))
        BY <1>0, <3>1, SMT
      <3> QED
        BY <3>2, <3>5, <3>6, <3>7, Zenon
    <2> QED
      BY <2>1, <2>2, Zenon
  <1> HIDE DEF c
  <1> DEFINE e == n * d - range
             f == m - lo
             g == 2 * (c * range) - 2 * X
  <1>3. e \in Int /\ f \in Int /\ g \in Int
    <2>1. c * range \in Int /\ n * d \in Int
      BY <1>2, Z3
    <2> HIDE DEF X
    <2> QED
      BY <1>0, <2>1, SMT
  <1>4. (2 * n) * (c * d + m - v) = g + 2 * (c * e + n * f)
    BY <1>2, Z3
  <1>5. Within(e, C) /\ Within(f, D) /\ Within(g, range)
    BY <1>2, Zenon
  <1> HIDE DEF e, f, g
  <1> DEFINE ce == c * e
             nf == n * f
             nC == n * C
             nD == n * D
  <1>6. Within(c, n) /\ Within(n, n) /\ C \in Int /\ D \in Int /\ n \in Int
    BY <1>2, SMT DEF Within
  <1>7. Within(ce, nC) /\ Within(nf, nD)
    BY <1>2, <1>3, <1>5, <1>6, WithinProduct, Zenon
  <1>8. ce \in Int /\ nf \in Int /\ nC \in Int /\ nD \in Int
    BY <1>2, <1>3, Z3
  <1>9. (2 * n) * (C + D) = 2 * (nC + nD)
    BY Z3
  <1> HIDE DEF ce, nf, nC, nD
  <1>10. Within(g + 2 * (ce + nf), range + 2 * (nC + nD))
    BY <1>3, <1>5, <1>7, <1>8, SMT DEF Within
  <1>11. (2 * n) * (c * d + m - v) = g + 2 * (ce + nf)
    BY <1>4, Zenon DEF ce, nf
  <1> QED
    BY <1>9, <1>10, <1>11, Zenon DEF c

(* Q5_0: a code is at most a step away, 31 instead of 32 at the far end.   *)
LEMMA Q5Near ==
  ASSUME NEW V \in Int, NEW v \in Int, Abs(v) <= Abs(V), NEW d \in Int, NEW C \in Nat,
         Within((-16) * d - V, C)
  PROVE  Within(16 * ((Q5Code(V, v) - 16) * d - v), Abs(V) + 16 * C)
  <1> DEFINE A == Abs(V)
             c == Q5Code(V, v)
             toward == IF V > 0 THEN -16 * v ELSE 16 * v
             X == toward + 16 * A
  <1>0. A \in Nat /\ (V > 0 => A = V) /\ (V <= 0 => A = -V)
    BY AbsIs, SMT
  <1>1. -A <= v /\ v <= A
    BY AbsIs, SMT
  <1>2. /\ c \in Int /\ 0 <= c /\ c <= 31
        /\ V # 0 => Within(c * A - X, A)
        /\ V = 0 => c = 16
    <2>1. CASE V = 0
      BY <2>1, SMT DEF Q5Code
    <2>2. CASE V # 0
      <3> DEFINE r == HalfUp(X, A)
      <3>1. c = Clamp(r, 0, 31)
        BY <2>2, Zenon DEF Q5Code
      <3>2. A > 0 /\ X \in Int /\ 0 <= X /\ X <= 32 * A /\ 0 \in Int /\ 31 \in Int /\ 0 <= 31
        <4> HIDE DEF A
        <4> QED
          BY <1>0, <1>1, <2>2, SMT
      <3> HIDE DEF A, X, c
      <3>3. r \in Int /\ 2 * (r * A) <= 2 * X + A /\ 2 * X - A <= 2 * (r * A)
        BY <1>0, <3>2, HalfUpIs, Zenon
      <3> HIDE DEF r
      <3> DEFINE t == r * A
                 k == Clamp(r, 0, 31)
                 u == k * A
      <3>4. Within(2 * (r * A) - 2 * X, A)
        <4>1. t \in Int
          BY <1>0, <3>3, Z3
        <4>2. 2 * t <= 2 * X + A /\ 2 * X - A <= 2 * t
          BY <3>3, Zenon
        <4> HIDE DEF t
        <4>3. Within(2 * t - 2 * X, A)
          BY <1>0, <3>2, <4>1, <4>2, SMT DEF Within
        <4> QED
          BY <4>3, Zenon DEF t
      <3> DEFINE hi == 31
      <3>5. LET j == Clamp(r, 0, hi)
            IN  /\ j \in Int /\ 0 <= j /\ j <= hi
                /\ \/ Within(2 * (j * A) - 2 * X, A)
                   \/ j = hi /\ 2 * (hi * A) + A <= 2 * X
                   \/ j = 0 /\ 2 * X + A <= 2 * (0 * A)
        <4>1. A \in Nat /\ A > 0 /\ X \in Int /\ r \in Int /\ 0 \in Int /\ hi \in Int /\ 0 <= hi
          BY <1>0, <3>2, <3>3, SMT
        <4> HIDE DEF hi
        <4> QED
          BY <3>4, <4>1, ClampedNear, Zenon
      <3>6. k \in Int /\ 0 <= k /\ k <= 31
            /\ (Within(2 * u - 2 * X, A) \/ (k = 31 /\ 2 * (31 * A) + A <= 2 * X)
                \/ (k = 0 /\ 2 * X + A <= 2 * (0 * A)))
        BY <3>5, Zenon
      <3>7. u \in Int /\ (k = 31 => u = 31 * A)
        <4> HIDE DEF k
        <4> QED
          BY <1>0, <3>6, SMT
      <3> HIDE DEF k, u
      <3>8. Within(u - X, A)
        BY <1>0, <3>2, <3>6, <3>7, SMT DEF Within
      <3> QED
        BY <2>2, <3>1, <3>6, <3>8, Zenon DEF k, u
    <2> QED
      BY <2>1, <2>2, Zenon
  <1> HIDE DEF c
  <1> DEFINE b == c - 16
             e == (-16) * d - V
             be == b * e
             w == b * V + 16 * v
  <1>3. b \in Int /\ Within(b, 16) /\ e \in Int /\ be \in Int /\ w \in Int
    <2>1. b \in Int /\ Within(b, 16)
      BY <1>2, SMT DEF Within
    <2> HIDE DEF b
    <2>2. e \in Int
      BY SMT
    <2>3. b * e \in Int /\ b * V \in Int
      <3> HIDE DEF e
      <3> QED
        BY <2>1, <2>2, Z3
    <2> QED
      BY <2>1, <2>2, <2>3, SMT
  <1>4. Within(be, 16 * C)
    <2>1. 16 \in Nat /\ C \in Int
      BY SMT
    <2> HIDE DEF b, e
    <2>2. Within(e, C)
      BY Zenon DEF e
    <2> QED
      BY <1>3, <2>1, <2>2, WithinProduct, Zenon
  <1>5. 16 * ((c - 16) * d - v) = -(be + w)
    BY <1>2, Z3
  <1>6. Within(w, A)
    <2>1. CASE V = 0
      <3>1. w = 0 /\ A = 0
        BY <1>0, <1>1, <1>2, <2>1, SMT
      <3> QED
        BY <3>1, SMT DEF Within
    <2>2. CASE V > 0
      <3>1. c * A - X = b * V + 16 * v
        <4>1. A = V /\ toward = -16 * v
          BY <1>0, <2>2, SMT
        <4> HIDE DEF A, toward
        <4> QED
          BY <1>2, <4>1, Z3
      <3> QED
        BY <1>2, <2>2, <3>1, SMT DEF Within
    <2>3. CASE V < 0
      <3>1. c * A - X = -(b * V + 16 * v)
        <4>1. A = -V /\ toward = 16 * v
          BY <1>0, <2>3, SMT
        <4> HIDE DEF A, toward
        <4> QED
          BY <1>2, <4>1, Z3
      <3> DEFINE z == c * A - X
      <3>2. Within(z, A) /\ z = -w
        BY <1>2, <2>3, <3>1
      <3> HIDE DEF z, w, A
      <3> QED
        BY <1>0, <1>3, <3>2, SMT DEF Within
    <2> QED
      BY <2>1, <2>2, <2>3, SMT
  <1> HIDE DEF be, w, A
  <1>7. Within(-(be + w), A + 16 * C)
    BY <1>0, <1>3, <1>4, <1>6, SMT DEF Within
  <1> QED
    BY <1>5, <1>7, Zenon DEF A, c

(* An entry E of kIQ4_Codebook (quantizer.hpp) within 12 of a / b, or the  *)
(* end one beyond which a / b lies.                                        *)
EntryNear(a, b, E) ==
  /\ a \in Int /\ b \in Nat /\ b > 0 /\ E \in -127 .. 113
  /\ \/ Within(a - E * b, 12 * b)
     \/ E = 113 /\ a >= 113 * b
     \/ E = -127 /\ a <= -(127 * b)

(* bestIndexIQ4 finds such an entry. *)
LEMMA BestIndexNear ==
  ASSUME NEW p \in Int, NEW q \in Int, q # 0
  PROVE  EntryNear(Turned(p, q), Abs(q), IQ4Codebook[bestIndexIQ4(p, q) + 1])
  <1> DEFINE a == Turned(p, q)
             b == Abs(q)
             k == bestIndexIQ4(p, q)
             E == IQ4Codebook[k + 1]
  <1> SUFFICES /\ a \in Int /\ b \in Nat /\ b > 0 /\ E \in -127 .. 113
               /\ \/ Within(a - E * b, 12 * b)
                  \/ E = 113 /\ a >= 113 * b
                  \/ E = -127 /\ a <= -(127 * b)
    BY Zenon DEF EntryNear
  <1>1. /\ a \in Int /\ b \in Nat /\ b > 0 /\ k \in 0 .. 15
        /\ \/ k = 0 /\ a <= IQ4Codebook[1] * b
           \/ k = 15 /\ a >= IQ4Codebook[16] * b
           \/ \A o \in 1 .. 16 : Abs(a - E * b) <= Abs(a - IQ4Codebook[o] * b)
    BY BestIndexIs, Zenon DEF Turned
  <1>7. a <= IQ4Codebook[1] * b => k = 0
    BY BestIndexIs, Zenon DEF Turned
  <1>2. IQ4Codebook[1] = -127 /\ IQ4Codebook[16] = 113 /\ \A o \in 1 .. 16 : IQ4Codebook[o] \in -127 .. 113
    BY IQ4Entries, Zenon
  <1>3. E \in -127 .. 113
    <2>1. k + 1 \in 1 .. 16
      BY <1>1, SMT
    <2> QED
      BY <1>2, <2>1, Zenon
  <1> HIDE DEF k, a, b
  <1>4. CASE k = 0 /\ a <= IQ4Codebook[1] * b
    <2>1. E = -127
      BY <1>2, <1>4, SMT
    <2>2. a <= (-127) * b
      BY <1>2, <1>4, SMT
    <2>3. a <= -(127 * b)
      BY <1>1, <2>2, SMT
    <2> QED
      BY <1>1, <1>3, <2>1, <2>3, Zenon DEF a, b, k
  <1>5. CASE k = 15 /\ a >= IQ4Codebook[16] * b
    <2>1. E = 113
      BY <1>2, <1>5, SMT
    <2>2. a >= 113 * b
      BY <1>2, <1>5, Zenon
    <2> QED
      BY <1>1, <1>3, <2>1, <2>2, Zenon DEF a, b, k
  <1>6. CASE \A o \in 1 .. 16 : Abs(a - E * b) <= Abs(a - IQ4Codebook[o] * b)
    <2> DEFINE Eb == E * b
               D == Abs(a - Eb)
    <2>1. Eb \in Int
      <3> HIDE DEF E
      <3> QED
        BY <1>1, <1>3, Z3
    <2> HIDE DEF E
    <2>2. D <= Abs(a - IQ4Codebook[1] * b) /\ D <= Abs(a - IQ4Codebook[2] * b)
          /\ D <= Abs(a - IQ4Codebook[3] * b) /\ D <= Abs(a - IQ4Codebook[4] * b)
          /\ D <= Abs(a - IQ4Codebook[5] * b) /\ D <= Abs(a - IQ4Codebook[6] * b)
          /\ D <= Abs(a - IQ4Codebook[7] * b) /\ D <= Abs(a - IQ4Codebook[8] * b)
          /\ D <= Abs(a - IQ4Codebook[9] * b) /\ D <= Abs(a - IQ4Codebook[10] * b)
          /\ D <= Abs(a - IQ4Codebook[11] * b) /\ D <= Abs(a - IQ4Codebook[12] * b)
          /\ D <= Abs(a - IQ4Codebook[13] * b) /\ D <= Abs(a - IQ4Codebook[14] * b)
          /\ D <= Abs(a - IQ4Codebook[15] * b) /\ D <= Abs(a - IQ4Codebook[16] * b)
      BY <1>6, SMT
    <2> HIDE DEF Eb
    <2>3. D <= Abs(a - (-127) * b) /\ D <= Abs(a - (-104) * b)
          /\ D <= Abs(a - (-83) * b) /\ D <= Abs(a - (-65) * b)
          /\ D <= Abs(a - (-49) * b) /\ D <= Abs(a - (-35) * b)
          /\ D <= Abs(a - (-22) * b) /\ D <= Abs(a - (-10) * b)
          /\ D <= Abs(a - 1 * b) /\ D <= Abs(a - 13 * b)
          /\ D <= Abs(a - 25 * b) /\ D <= Abs(a - 38 * b)
          /\ D <= Abs(a - 53 * b) /\ D <= Abs(a - 69 * b)
          /\ D <= Abs(a - 89 * b) /\ D <= Abs(a - 113 * b)
      BY <2>2, SMT DEF IQ4Codebook
    <2>4. a <= -(127 * b) \/ a >= 113 * b \/ D <= 12 * b
      <3> HIDE DEF D
      <3>1. D \in Nat /\ D = Abs(a - Eb)
        BY <1>1, <2>1, AbsIs, SMT DEF D
      <3> QED
        BY <1>1, <2>3, <3>1, SMT DEF Abs
    <2>5. CASE a <= -(127 * b)
      <3>1. a <= (-127) * b
        BY <1>1, <2>5, SMT
      <3>2. a <= IQ4Codebook[1] * b
        BY <1>2, <3>1, Zenon
      <3> QED
        BY <1>4, <1>7, <3>2, Zenon
    <2>6. CASE ~(a <= -(127 * b)) /\ a >= 113 * b
      <3>1. E >= 113
        <4>1. D <= Abs(a - 113 * b)
          BY <2>3, Zenon
        <4>2. Eb >= 113 * b
          BY <1>1, <2>1, <2>6, <4>1, SMT DEF Abs
        <4>3. ~(E <= 112)
          <5> SUFFICES ASSUME E <= 112 PROVE FALSE
            OBVIOUS
          <5>1. E * b <= 112 * b
            BY <1>1, <1>3, Z3
          <5> QED
            BY <1>1, <2>1, <4>2, <5>1, SMT DEF Eb
        <4> QED
          BY <1>3, <4>3, SMT
      <3>2. E = 113
        BY <1>3, <3>1, SMT
      <3> QED
        BY <1>1, <1>3, <2>6, <3>2, Zenon DEF a, b, k, E
    <2>7. CASE D <= 12 * b
      <3>1. Within(a - Eb, 12 * b)
        <4> DEFINE t == a - Eb
        <4>1. t \in Int /\ Abs(t) <= 12 * b
          BY <1>1, <2>1, <2>7, SMT
        <4> HIDE DEF t
        <4>2. Within(t, 12 * b)
          BY <1>1, <4>1, SMT DEF Abs, Within
        <4> QED
          BY <4>2, Zenon DEF t
      <3> QED
        BY <1>1, <1>3, <3>1, Zenon DEF a, b, k, E, Eb
    <2> QED
      BY <2>4, <2>5, <2>6, <2>7, Zenon
  <1> QED
    BY <1>1, <1>4, <1>5, <1>6, Zenon

(* An IQ4_NL number: within 14 of the 127 parts of the largest magnitude,  *)
(* but for what rounding the scale costs, for the entries lie at most 24   *)
(* apart and the largest is 113 (compressFP32ToIQ4_NL).                    *)
LEMMA IQ4Near ==
  ASSUME NEW V \in Int, NEW v \in Int, Abs(v) <= Abs(V), NEW d \in Int, NEW C \in Nat,
         Within((-127) * d - V, C)
  PROVE  Within(127 * (IQ4Codebook[IQ4Code(V, v) + 1] * d - v), 14 * Abs(V) + 127 * C)
  <1> DEFINE A == Abs(V)
             E == IQ4Codebook[IQ4Code(V, v) + 1]
             e == (-127) * d - V
             Ee == E * e
             w == E * V + 127 * v
  <1>1. A \in Nat /\ (V > 0 => A = V) /\ (V <= 0 => A = -V) /\ -A <= v /\ v <= A
    BY AbsIs, SMT
  <1>2. /\ E \in -127 .. 113
        /\ V # 0 => \/ Within(Turned((-127) * v, V) - E * A, 12 * A)
                    \/ E = 113 /\ Turned((-127) * v, V) >= 113 * A
                    \/ E = -127 /\ Turned((-127) * v, V) <= -(127 * A)
    <2>1. CASE V = 0
      <3>1. IQ4Code(V, v) = bestIndexIQ4(0, 1)
        BY <2>1, Zenon DEF IQ4Code
      <3>2. 0 \in Int /\ 1 \in Int /\ 1 # 0
        BY SMT
      <3>3. IQ4Codebook[bestIndexIQ4(0, 1) + 1] \in -127 .. 113
        BY <3>2, BestIndexNear, Zenon DEF EntryNear
      <3> QED
        BY <2>1, <3>1, <3>3, Zenon
    <2>2. CASE V # 0
      <3> DEFINE p == (-127) * v
      <3>1. IQ4Code(V, v) = bestIndexIQ4(p, V)
        <4>1. IQ4Code(V, v) = bestIndexIQ4(-127 * v, V)
          BY <2>2, Zenon DEF IQ4Code
        <4>2. -127 * v = p
          BY SMT
        <4> QED
          BY <4>1, <4>2, Zenon
      <3>2. p \in Int
        BY SMT
      <3> HIDE DEF p
      <3>3. EntryNear(Turned(p, V), Abs(V), IQ4Codebook[bestIndexIQ4(p, V) + 1])
        BY <2>2, <3>2, BestIndexNear, Zenon
      <3>4. /\ E \in -127 .. 113
            /\ \/ Within(Turned(p, V) - E * A, 12 * A)
               \/ E = 113 /\ Turned(p, V) >= 113 * A
               \/ E = -127 /\ Turned(p, V) <= -(127 * A)
        BY <3>1, <3>3, Zenon DEF EntryNear
      <3> HIDE DEF E, A
      <3> QED
        BY <3>4, Zenon DEF p
    <2> QED
      BY <2>1, <2>2, Zenon
  <1> HIDE DEF E
  <1>3. E \in Int /\ Within(E, 127) /\ e \in Int /\ Within(e, C)
    BY <1>2, SMT DEF Within
  <1>4. Ee \in Int /\ Within(Ee, 127 * C)
    <2>1. 127 \in Nat /\ C \in Int
      BY SMT
    <2> HIDE DEF e
    <2>2. Within(E * e, 127 * C)
      BY <1>3, <2>1, WithinProduct, Zenon
    <2> QED
      BY <1>3, <2>2, Z3
  <1>5. w \in Int /\ Within(w, 14 * A)
    <2> DEFINE EA == E * A
               EV == E * V
    <2>1. EV \in Int
      BY <1>3, Z3
    <2>0. EA \in Int
      <3> HIDE DEF A
      <3> QED
        BY <1>1, <1>3, Z3
    <2>2. CASE V = 0
      <3>1. A = 0 /\ v = 0 /\ EV = 0
        BY <1>1, <1>3, <2>2, SMT
      <3> HIDE DEF A, EV
      <3>2. Within(EV + 127 * v, 14 * A)
        BY <3>1, SMT DEF Within
      <3> QED
        BY <2>1, <3>1, <3>2, SMT DEF EV
    <2>3. CASE V # 0
      <3> DEFINE a == Turned((-127) * v, V)
      <3>1. (V > 0 => EA = EV /\ a = (-127) * v) /\ (V < 0 => EA = -EV /\ a = 127 * v)
        <4>1. CASE V > 0
          <5>1. A = V
            BY <1>1, <4>1, Zenon
          <5>2. a = (-127) * v
            BY <4>1, SMT DEF Turned
          <5> QED
            BY <4>1, <5>1, <5>2, SMT
        <4>2. CASE V < 0
          <5>1. A = -V
            BY <1>1, <4>2, SMT
          <5>2. a = 127 * v
            BY <4>2, SMT DEF Turned
          <5> HIDE DEF A, a
          <5>3. E * A = -(E * V)
            BY <1>3, <5>1, Z3
          <5> QED
            BY <4>2, <5>2, <5>3, SMT
        <4> QED
          BY <2>3, <4>1, <4>2, SMT
      <3>2. A > 0
        BY <1>1, <2>3, SMT
      <3>3. /\ \/ Within(a - EA, 12 * A)
               \/ E = 113 /\ a >= 113 * A
               \/ E = -127 /\ a <= -(127 * A)
            /\ (E = 113 => EA = 113 * A) /\ (E = -127 => EA = (-127) * A)
        <4>1. \/ Within(a - EA, 12 * A)
              \/ E = 113 /\ a >= 113 * A
              \/ E = -127 /\ a <= -(127 * A)
          <5> HIDE DEF A
          <5> QED
            BY <1>2, <2>3, Zenon
        <4>2. (E = 113 => EA = 113 * A) /\ (E = -127 => EA = (-127) * A)
          <5> HIDE DEF A, a
          <5> QED
            BY SMT
        <4> QED
          BY <4>1, <4>2
      <3> HIDE DEF A, EA, a
      <3>4. V > 0 => Within(EV + 127 * v, 14 * A)
        <4> HIDE DEF EV
        <4> QED
          BY <1>1, <2>0, <2>1, <3>1, <3>2, <3>3, SMT DEF Within
      <3>5. V < 0 => Within(EV + 127 * v, 14 * A)
        <4> HIDE DEF EV
        <4> QED
          BY <1>1, <2>0, <2>1, <3>1, <3>2, <3>3, SMT DEF Within
      <3>6. Within(EV + 127 * v, 14 * A)
        <4> HIDE DEF EV
        <4> QED
          BY <2>3, <3>4, <3>5, SMT
      <3>7. w \in Int
        <4>1. EV + 127 * v \in Int
          <5> HIDE DEF EV
          <5> QED
            BY <2>1, SMT
        <4> QED
          BY <4>1, Zenon DEF EV
      <3> QED
        BY <3>6, <3>7, Zenon DEF EV
    <2> QED
      BY <2>2, <2>3, Zenon
  <1>6. 127 * (E * d - v) = -(Ee + w)
    BY <1>3, Z3
  <1> HIDE DEF Ee, w, A
  <1>7. Within(-(Ee + w), 14 * A + 127 * C)
    BY <1>1, <1>4, <1>5, SMT DEF Within
  <1> QED
    BY <1>6, <1>7, Zenon DEF A, E

(* Q6_K, Q3_K, IQ4_XS: the step of a sub-block is that of its largest      *)
(* element, but for half a step of the block, or a whole one at the top of *)
(* the range, where the scale that is wanted has no code.                  *)
LEMMA SignedScaleNear ==
  ASSUME NEW S \in Nat, S > 0, NEW g \in Int, g # 0, NEW ext \in Int, Abs(ext) <= Abs(g),
         NEW p \in Int, p = -(S * ext)
  PROVE  LET sc == Clamp(nearestInt(p, g), -S, S - 1)
             T == S * Abs(ext)
             Q == Abs(g * sc)
         IN  /\ sc \in Int /\ Within(sc, S) /\ g * sc \in Int /\ Q \in Nat /\ T \in Nat
             /\ T - Abs(g) <= Q /\ 2 * Q <= 2 * T + Abs(g)
  <1> DEFINE V == Abs(g)
             A == Abs(ext)
             T == S * A
             X == Turned(p, g)
             r == nearestInt(p, g)
             lo == -S
             hi == S - 1
             sc == Clamp(r, lo, hi)
             z == sc * V
  <1>1. V \in Nat /\ V > 0 /\ (g > 0 => V = g) /\ (g < 0 => V = -g) /\ A \in Nat /\ A <= V
        /\ (ext >= 0 => A = ext) /\ (ext < 0 => A = -ext)
    BY AbsIs, SMT
  <1>2. X \in Int /\ r \in Int /\ Within(2 * (r * V) - 2 * X, V)
    BY RoundedIs, Zenon
  <1>3. T \in Nat /\ (X = T \/ X = -T) /\ T <= S * V
    <2>1. T \in Nat /\ T <= S * V
      <3> HIDE DEF A, V
      <3> QED
        BY <1>1, Z3
    <2>2. p = T \/ p = -T
      <3>1. CASE ext >= 0
        <4>1. A = ext
          BY <1>1, <3>1, Zenon
        <4> QED
          BY <4>1, SMT
      <3>2. CASE ext < 0
        <4>1. A = -ext
          BY <1>1, <3>2, Zenon
        <4> HIDE DEF A
        <4>2. p = S * A
          BY <4>1, Z3
        <4> QED
          BY <4>2, SMT
      <3> QED
        BY <3>1, <3>2, SMT
    <2> HIDE DEF T
    <2>3. X = p \/ X = -p
      BY SMT DEF Turned
    <2> HIDE DEF X
    <2> QED
      BY <2>1, <2>2, <2>3, SMT
  <1> HIDE DEF X, r, T
  <1>4. LET c == Clamp(r, lo, hi)
        IN  /\ c \in Int /\ lo <= c /\ c <= hi
            /\ \/ Within(2 * (c * V) - 2 * X, V)
               \/ c = hi /\ 2 * (hi * V) + V <= 2 * X
               \/ c = lo /\ 2 * X + V <= 2 * (lo * V)
    <2>1. lo \in Int /\ hi \in Int /\ lo <= hi
      BY SMT
    <2> HIDE DEF lo, hi, V
    <2> QED
      BY <1>1, <1>2, <2>1, ClampedNear, Zenon
  <1>5. /\ sc \in Int /\ lo <= sc /\ sc <= hi
        /\ \/ Within(2 * z - 2 * X, V)
           \/ sc = hi /\ 2 * (hi * V) + V <= 2 * X
           \/ sc = lo /\ 2 * X + V <= 2 * (lo * V)
    <2> HIDE DEF lo, hi, V
    <2> QED
      BY <1>4, Zenon
  <1> HIDE DEF sc
  <1>6. Within(sc, S)
    BY <1>5, SMT DEF Within
  <1>7. z \in Int /\ g * sc \in Int /\ (z = g * sc \/ z = -(g * sc))
    <2>1. g * sc \in Int
      BY <1>5, Z3
    <2>2. CASE g > 0
      <3>1. V = g
        BY <1>1, <2>2, Zenon
      <3> HIDE DEF V
      <3>2. z = g * sc
        BY <1>5, <3>1, Z3
      <3> QED
        BY <2>1, <3>2, SMT
    <2>3. CASE g < 0
      <3>1. V = -g
        BY <1>1, <2>3, Zenon
      <3> HIDE DEF V
      <3>2. z = -(g * sc)
        BY <1>5, <3>1, Z3
      <3> HIDE DEF z
      <3> QED
        BY <2>1, <3>2, SMT
    <2> QED
      BY <2>2, <2>3, SMT
  <1>8. Abs(z) = Abs(g * sc) /\ Abs(z) \in Nat /\ (z >= 0 => Abs(z) = z) /\ (z < 0 => Abs(z) = -z)
    <2> DEFINE w == g * sc
    <2>1. w \in Int /\ z \in Int /\ (z = w \/ z = -w)
      BY <1>7, Zenon
    <2> HIDE DEF w, z
    <2>2. Abs(z) = Abs(w)
      BY <2>1, AbsIs, Zenon
    <2> QED
      BY <2>1, <2>2, AbsIs, Zenon DEF w
  <1>9. T - V <= Abs(z) /\ 2 * Abs(z) <= 2 * T + V
    <2>1. CASE Within(2 * z - 2 * X, V)
      <3> HIDE DEF z, V
      <3> QED
        BY <1>1, <1>2, <1>3, <1>7, <1>8, <2>1, SMT DEF Within
    <2>2. CASE sc = hi /\ 2 * (hi * V) + V <= 2 * X
      <3>1. z = hi * V
        BY <2>2, Zenon
      <3>2. hi * V = S * V - V
        <4> HIDE DEF V
        <4> QED
          BY <1>1, Z3
      <3> DEFINE y == S * V
                 w == hi * V
      <3>3. y \in Int /\ y >= V
        <4> HIDE DEF V
        <4> QED
          BY <1>1, Z3
      <3>4. w = y - V /\ z = w /\ 2 * w + V <= 2 * X /\ T <= y
        BY <1>3, <2>2, <3>1, <3>2, Zenon
      <3> HIDE DEF y, w, V, z
      <3> QED
        BY <1>1, <1>2, <1>3, <1>7, <1>8, <3>3, <3>4, SMT
    <2>3. CASE sc = lo /\ 2 * X + V <= 2 * (lo * V)
      <3>1. lo * V = -(S * V)
        <4> HIDE DEF V
        <4> QED
          BY <1>1, Z3
      <3> DEFINE y == S * V
                 w == lo * V
      <3>2. w = -y /\ 2 * X + V <= 2 * w /\ T <= y
        BY <1>3, <2>3, <3>1, Zenon
      <3>3. y \in Int
        <4> HIDE DEF V
        <4> QED
          BY <1>1, Z3
      <3> HIDE DEF y, w, V
      <3>4. FALSE
        BY <1>1, <1>2, <1>3, <3>2, <3>3, SMT
      <3> QED
        BY <3>4
    <2> HIDE DEF V, z, lo, hi
    <2> QED
      BY <1>5, <2>1, <2>2, <2>3, Zenon
  <1> QED
    BY <1>3, <1>5, <1>6, <1>7, <1>8, <1>9, Zenon DEF sc, r, T

(* Their codes: a code is within what the step of the sub-block is, and    *)
(* where there is no code for the quotient, its step makes up for it.      *)
LEMMA SignedCodeNear ==
  ASSUME NEW L \in Nat, L > 0, NEW T \in Nat, NEW V \in Nat, NEW D \in Int,
         T - V <= Abs(D), 2 * Abs(D) <= 2 * T + V,
         NEW u \in Int, Within(u, T)
  PROVE  LET k == IF D = 0 THEN 0 ELSE Clamp(nearestInt(L * u, D), -L, L - 1)
         IN  k \in Int /\ Within(k, L) /\ Within(k * D - L * u, T + (L + 1) * V)
  <1> SUFFICES ASSUME NEW p \in Int, p = L * u
               PROVE  LET k == IF D = 0 THEN 0 ELSE Clamp(nearestInt(p, D), -L, L - 1)
                      IN  k \in Int /\ Within(k, L) /\ Within(k * D - p, T + (L + 1) * V)
    <2>1. L * u \in Int
      BY Z3
    <2> QED
      BY <2>1, Zenon
  <1> DEFINE k == IF D = 0 THEN 0 ELSE Clamp(nearestInt(p, D), -L, L - 1)
             LV == L * V
             LT == L * T
             Q == Abs(D)
  <1>1. LV \in Nat /\ LT \in Nat /\ (L + 1) * V = LV + V /\ Within(p, LT) /\ Q \in Nat
        /\ LT >= T
    <2>1. LV \in Nat /\ LT \in Nat /\ (L + 1) * V = LV + V /\ LT >= T
      BY Z3
    <2>2. Within(p, LT)
      <3>1. -T <= u /\ u <= T
        BY SMT DEF Within
      <3>2. L * u <= L * T /\ L * u >= L * (-T)
        BY <3>1, Z3
      <3>3. L * (-T) = -LT
        BY Z3
      <3> DEFINE y == L * u
      <3>4. y <= LT /\ y >= -LT /\ p = y
        BY <3>2, <3>3, Zenon
      <3> HIDE DEF y, LT
      <3> QED
        BY <2>1, <3>4, SMT DEF Within
    <2>3. Q \in Nat
      BY AbsIs, Zenon
    <2> QED
      BY <2>1, <2>2, <2>3, Zenon
  <1>2. CASE D = 0
    <2>1. k = 0 /\ Q = 0
      BY <1>2, SMT DEF Abs
    <2>2. T <= V
      <3>1. T - V <= Q
        BY Zenon
      <3> HIDE DEF Q
      <3> QED
        BY <2>1, <3>1, SMT
    <2>3. LT <= LV
      BY <2>2, Z3
    <2>4. k * D = 0
      BY <1>2, <2>1, SMT
    <2>5. Within(k, L)
      BY <2>1, SMT DEF Within
    <2> HIDE DEF LT, LV, k
    <2>6. Within(0 - p, T + (LV + V))
      BY <1>1, <2>3, SMT DEF Within
    <2> QED
      BY <1>1, <2>1, <2>4, <2>5, <2>6, SMT DEF k
  <1>3. CASE D # 0
    <2> DEFINE X == Turned(p, D)
               r == nearestInt(p, D)
               lo == -L
               hi == L - 1
               c == Clamp(r, lo, hi)
               z == c * Q
    <2>1. X \in Int /\ r \in Int /\ Within(2 * (r * Q) - 2 * X, Q) /\ Q > 0
      BY <1>3, RoundedIs, Zenon
    <2>2. Within(X, LT)
      <3>1. X = p \/ X = -p
        BY SMT DEF Turned
      <3> HIDE DEF X, LT
      <3> QED
        BY <1>1, <3>1, SMT DEF Within
    <2> HIDE DEF r, X
    <2>3. LET j == Clamp(r, lo, hi)
          IN  /\ j \in Int /\ lo <= j /\ j <= hi
              /\ \/ Within(2 * (j * Q) - 2 * X, Q)
                 \/ j = hi /\ 2 * (hi * Q) + Q <= 2 * X
                 \/ j = lo /\ 2 * X + Q <= 2 * (lo * Q)
      <3>1. lo \in Int /\ hi \in Int /\ lo <= hi
        BY SMT
      <3> HIDE DEF lo, hi, Q
      <3> QED
        BY <1>1, <2>1, <3>1, ClampedNear, Zenon
    <2>4. /\ c \in Int /\ lo <= c /\ c <= hi
          /\ \/ Within(2 * z - 2 * X, Q)
             \/ c = hi /\ 2 * (hi * Q) + Q <= 2 * X
             \/ c = lo /\ 2 * X + Q <= 2 * (lo * Q)
      <3> HIDE DEF lo, hi, Q
      <3> QED
        BY <2>3, Zenon
    <2>5. k = c
      BY <1>3, Zenon DEF r
    <2> HIDE DEF c
    <2>6. z \in Int
      <3> HIDE DEF Q
      <3> QED
        BY <1>1, <2>4, Z3
    <2>7. Within(z - X, T + (LV + V))
      <3>0. T - V <= Q /\ 2 * Q <= 2 * T + V
        BY Zenon
      <3>1. CASE Within(2 * z - 2 * X, Q)
        <4> HIDE DEF z, Q, LV
        <4> QED
          BY <1>1, <2>1, <2>6, <3>0, <3>1, SMT DEF Within
      <3>2. CASE c = hi /\ 2 * (hi * Q) + Q <= 2 * X
        <4> DEFINE w == hi * Q
        <4>1. z = w /\ 2 * w + Q <= 2 * X
          BY <3>2, Zenon
        <4>2. w >= (LT - T) - (LV - V)
          <5> HIDE DEF Q
          <5>1. hi * Q >= hi * (T - V)
            BY <1>1, <3>0, Z3
          <5>2. hi * (T - V) = (LT - T) - (LV - V)
            BY Z3
          <5> DEFINE y == hi * (T - V)
          <5>3. w >= y /\ y = (LT - T) - (LV - V)
            BY <5>1, <5>2, Zenon
          <5> HIDE DEF w, y, LT, LV
          <5> QED
            BY <5>3, Zenon
        <4> HIDE DEF w, z, Q, LT, LV
        <4> QED
          BY <1>1, <2>1, <2>2, <2>6, <4>1, <4>2, SMT DEF Within
      <3>3. CASE c = lo /\ 2 * X + Q <= 2 * (lo * Q)
        <4> DEFINE w == lo * Q
        <4>1. z = w /\ 2 * X + Q <= 2 * w
          BY <3>3, Zenon
        <4>2. w <= LV - LT
          <5> HIDE DEF Q
          <5>1. L * Q >= L * (T - V)
            BY <1>1, <3>0, Z3
          <5>2. L * (T - V) = LT - LV /\ lo * Q = -(L * Q)
            BY <1>1, Z3
          <5> DEFINE y == L * (T - V)
                     s == L * Q
          <5>3. s >= y /\ y = LT - LV /\ w = -s /\ s \in Int
            <6>1. s \in Int
              BY <1>1, Z3
            <6> QED
              BY <5>1, <5>2, <6>1, Zenon
          <5> HIDE DEF w, y, s, LT, LV
          <5> QED
            BY <1>1, <5>3, SMT
        <4> HIDE DEF w, z, Q, LT, LV
        <4> QED
          BY <1>1, <2>1, <2>2, <2>6, <4>1, <4>2, SMT DEF Within
      <3> HIDE DEF lo, hi, Q, z
      <3> QED
        BY <2>4, <3>1, <3>2, <3>3, Zenon
    <2>8. z - X = k * D - p \/ z - X = -(k * D - p)
      <3>1. CASE D > 0
        <4>1. Q = D /\ X = p
          BY <3>1, SMT DEF Abs, Turned, X
        <4>2. z = k * D
          BY <2>5, <4>1, Zenon
        <4>3. k * D \in Int
          BY <2>4, <2>5, Z3
        <4> DEFINE w == k * D
        <4> HIDE DEF w, z
        <4>4. z - X = w - p
          BY <4>1, <4>2, Zenon DEF w
        <4> QED
          BY <4>4, Zenon DEF w
      <3>2. CASE D < 0
        <4>1. Q = -D /\ X = -p
          BY <3>2, SMT DEF Abs, Turned, X
        <4>2. z = c * (-D)
          BY <4>1, Zenon
        <4> HIDE DEF k, z
        <4>3. z - X = -(k * D - p)
          BY <2>4, <2>5, <4>1, <4>2, Z3
        <4> QED
          BY <4>3, Zenon
      <3> QED
        BY <1>3, <3>1, <3>2, SMT
    <2>9. Within(k * D - p, T + (L + 1) * V) /\ Within(k, L)
      <3> DEFINE w == k * D
                 b == T + (LV + V)
      <3>0. k \in Int /\ -L <= k /\ k <= L
        BY <2>4, <2>5, SMT
      <3>1. w \in Int /\ b \in Int /\ T + (L + 1) * V = b
        <4> HIDE DEF k, LV
        <4>1. w \in Int
          BY <3>0, Z3
        <4> QED
          BY <1>1, <4>1, SMT
      <3>2. Within(z - X, b) /\ (z - X = w - p \/ z - X = -(w - p))
        BY <2>7, <2>8, Zenon
      <3>3. Within(k, L)
        <4> HIDE DEF k
        <4> QED
          BY <3>0, SMT DEF Within
      <3> DEFINE y == z - X
      <3>4. y \in Int /\ Within(y, b) /\ (y = w - p \/ y = -(w - p))
        <4>1. z - X \in Int
          <5> HIDE DEF z
          <5> QED
            BY <2>1, <2>6, SMT
        <4> QED
          BY <3>2, <4>1, Zenon
      <3> HIDE DEF w, b, y
      <3>5. Within(w - p, b)
        BY <3>1, <3>4, SMT DEF Within
      <3> QED
        BY <3>1, <3>3, <3>5, Zenon DEF w
    <2> QED
      BY <2>4, <2>5, <2>9, Zenon
  <1> HIDE DEF k
  <1> QED
    BY <1>2, <1>3, Zenon DEF k

(* The same of IQ4_XS, whose codes are the entries of the table of 16, none *)
(* of which is larger than 127.                                            *)
IQ4Top == 127

(* A code of IQ4_XS against the number it stands for.                      *)
LEMMA IQ4CodeNear ==
  ASSUME NEW T \in Nat, NEW V \in Nat, NEW D \in Int,
         T - V <= Abs(D), 2 * Abs(D) <= 2 * T + V,
         NEW u \in Int, Within(u, T)
  PROVE  LET E == IQ4Codebook[(IF D = 0 THEN bestIndexIQ4(0, 1) ELSE bestIndexIQ4(IQ4Top * u, D)) + 1]
         IN  E \in Int /\ Within(E, IQ4Top) /\ Within(E * D - IQ4Top * u, 14 * (T + V) + IQ4Top * V)
  <1> SUFFICES ASSUME NEW p \in Int, p = IQ4Top * u
               PROVE  LET E == IQ4Codebook[(IF D = 0 THEN bestIndexIQ4(0, 1) ELSE bestIndexIQ4(p, D)) + 1]
                      IN  E \in Int /\ Within(E, IQ4Top) /\ Within(E * D - p, 14 * (T + V) + IQ4Top * V)
    <2>1. IQ4Top * u \in Int
      BY SMT DEF IQ4Top
    <2> QED
      BY <2>1, Zenon
  <1> DEFINE k == IF D = 0 THEN bestIndexIQ4(0, 1) ELSE bestIndexIQ4(p, D)
             E == IQ4Codebook[k + 1]
             Q == Abs(D)
             X == Turned(p, D)
             EQ == E * Q
  <1>0. IQ4Top = 127 /\ p = 127 * u
    BY SMT DEF IQ4Top
  <1>1. Q \in Nat /\ (D > 0 => Q = D /\ X = p) /\ (D < 0 => Q = -D /\ X = -p)
    <2>1. (D > 0 => X = p) /\ (D < 0 => X = -p)
      BY SMT DEF Turned
    <2> QED
      BY <2>1, AbsIs, SMT
  <1>2. /\ E \in -127 .. 113
        /\ D # 0 => \/ Within(X - E * Q, 12 * Q)
                    \/ E = 113 /\ X >= 113 * Q
                    \/ E = -127 /\ X <= -(127 * Q)
    <2>1. CASE D = 0
      <3>1. k = bestIndexIQ4(0, 1)
        BY <2>1, Zenon
      <3>2. 0 \in Int /\ 1 \in Int /\ 1 # 0
        BY SMT
      <3>3. IQ4Codebook[bestIndexIQ4(0, 1) + 1] \in -127 .. 113
        BY <3>2, BestIndexNear, Zenon DEF EntryNear
      <3> QED
        BY <2>1, <3>1, <3>3, Zenon
    <2>2. CASE D # 0
      <3>1. k = bestIndexIQ4(p, D)
        BY <2>2, Zenon
      <3>3. EntryNear(Turned(p, D), Abs(D), IQ4Codebook[bestIndexIQ4(p, D) + 1])
        BY <2>2, BestIndexNear, Zenon
      <3> QED
        BY <3>1, <3>3, Zenon DEF EntryNear
    <2> QED
      BY <2>1, <2>2, Zenon
  <1> HIDE DEF E
  <1>3. E \in Int /\ Within(E, 127)
    BY <1>2, SMT DEF Within
  <1>4. Within(E * D - p, 14 * (T + V) + 127 * V)
    <2>0. T - V <= Q /\ 2 * Q <= 2 * T + V
      BY Zenon
    <2>1. CASE D = 0
      <3>1. Q = 0 /\ E * D = 0
        <4>1. E * D = 0
          BY <1>3, <2>1, SMT
        <4> QED
          BY <2>1, <4>1, SMT DEF Abs
      <3> DEFINE ED == E * D
      <3>2. Within(ED - p, 14 * (T + V) + 127 * V)
        <4>1. ED = 0 /\ Q = 0
          BY <3>1, Zenon
        <4> HIDE DEF ED, Q
        <4> QED
          BY <1>0, <2>0, <4>1, SMT DEF Within
      <3> QED
        BY <3>2, Zenon
    <2>2. CASE D # 0
      <3>1. EQ \in Int /\ X \in Int
        <4>1. X \in Int
          BY SMT DEF Turned
        <4> HIDE DEF Q
        <4>2. EQ \in Int
          BY <1>1, <1>3, Z3
        <4> QED
          BY <4>1, <4>2, Zenon
      <3>2. \/ Within(X - EQ, 12 * Q)
            \/ E = 113 /\ X >= 113 * Q
            \/ E = -127 /\ X <= -(127 * Q)
        <4> HIDE DEF X, Q
        <4> QED
          BY <1>2, <2>2, Zenon
      <3>3. (E = 113 => EQ = 113 * Q) /\ (E = -127 => EQ = (-127) * Q)
        <4> HIDE DEF Q
        <4> QED
          BY SMT
      <3>4. X <= 127 * T /\ X >= -(127 * T)
        <4>1. X = p \/ X = -p
          BY <1>1, <2>2, SMT
        <4> HIDE DEF X
        <4> QED
          BY <1>0, <3>1, <4>1, SMT DEF Within
      <3> HIDE DEF EQ, X
      <3>5. Within(EQ - X, 14 * (T + V) + 127 * V)
        <4> HIDE DEF Q
        <4> QED
          BY <1>1, <2>0, <3>1, <3>2, <3>3, <3>4, SMT DEF Within
      <3>6. EQ - X = E * D - p \/ EQ - X = -(E * D - p)
        <4>1. CASE D > 0
          <5>1. Q = D /\ X = p
            BY <1>1, <4>1, Zenon
          <5>2. EQ = E * D
            BY <5>1, Zenon DEF EQ
          <5> QED
            BY <5>1, <5>2, Zenon
        <4>2. CASE D < 0
          <5>1. Q = -D /\ X = -p
            BY <1>1, <4>2, Zenon
          <5>2. EQ = E * (-D)
            BY <5>1, Zenon DEF EQ
          <5> HIDE DEF Q
          <5>3. EQ - X = -(E * D - p)
            BY <1>3, <5>1, <5>2, Z3
          <5> QED
            BY <5>3, Zenon
        <4> QED
          BY <2>2, <4>1, <4>2, SMT
      <3> DEFINE w == E * D
                 y == EQ - X
                 b == 14 * (T + V) + 127 * V
      <3>7. w \in Int /\ b \in Int /\ y \in Int /\ Within(y, b) /\ (y = w - p \/ y = -(w - p))
        <4>1. w \in Int
          BY <1>3, Z3
        <4>2. b \in Int /\ y \in Int
          BY <3>1, SMT
        <4> QED
          BY <3>5, <3>6, <4>1, <4>2, Zenon
      <3> HIDE DEF w, b, y
      <3>8. Within(w - p, b)
        BY <3>7, SMT DEF Within
      <3> QED
        BY <3>8, Zenon DEF w, b
    <2> QED
      BY <2>1, <2>2, Zenon
  <1>5. Within(E, IQ4Top) /\ Within(E * D - p, 14 * (T + V) + IQ4Top * V)
    BY <1>0, <1>3, <1>4
  <1> QED
    BY <1>3, <1>5, Zenon DEF E

(* What comes back of a lane of these formats (DecodeSigned), from what    *)
(* was said of its code and of the two scales.                             *)
LEMMA SignedLane ==
  ASSUME NEW L \in Nat, NEW S \in Nat, NEW N \in Nat, N = L * S,
         NEW g \in Int, NEW sc \in Int, NEW k \in Int, NEW d \in Int, NEW v \in Int,
         NEW H \in Nat, NEW B \in Int,
         Within(sc, S), Within(k, L), Within(N * d - g, H), Within(k * (g * sc) - N * v, B)
  PROVE  Within(N * (d * sc * k - v), B + N * H)
  <1> DEFINE s == sc * k
             e == N * d - g
             se == s * e
             w == s * g - N * v
  <1>1. s \in Int /\ e \in Int /\ Within(s, N)
    <2>1. s \in Int /\ e \in Int
      BY Z3
    <2>2. Within(sc * k, S * L)
      <3>1. L \in Int
        BY SMT
      <3> QED
        BY <3>1, WithinProduct, Zenon
    <2>3. S * L = N
      BY Z3
    <2> QED
      BY <2>1, <2>2, <2>3, Zenon
  <1>2. k * (g * sc) = s * g /\ d * sc * k = d * s
    BY Z3
  <1> HIDE DEF s
  <1>3. N * (d * s - v) = se + w /\ w \in Int /\ se \in Int /\ N * H \in Int
    <2>1. N * (d * s - v) = se + w
      BY <1>1, Z3
    <2>2. w \in Int /\ N * H \in Int
      BY <1>1, Z3
    <2>3. se \in Int
      <3> HIDE DEF e
      <3> QED
        BY <1>1, Z3
    <2> QED
      BY <2>1, <2>2, <2>3, Zenon
  <1>4. Within(se, N * H)
    <2>1. H \in Int /\ Within(e, H)
      <3>1. H \in Int
        BY SMT
      <3> QED
        BY <3>1, Zenon
    <2> HIDE DEF e
    <2> QED
      BY <1>1, <2>1, WithinProduct, Zenon
  <1>5. Within(w, B)
    BY <1>2, Zenon
  <1> DEFINE NH == N * H
  <1> HIDE DEF se, w, NH
  <1>6. NH \in Int /\ Within(se, NH) /\ Within(w, B)
    BY <1>3, <1>4, <1>5, Zenon DEF NH
  <1>7. Within(se + w, B + NH)
    BY <1>3, <1>6, SMT DEF Within
  <1> QED
    BY <1>2, <1>3, <1>7, Zenon DEF NH

(* Q5_K, Q4_K, Q2_K: the scale and the minimum of a sub-block are within   *)
(* half a step of the block's of what they should be.                      *)
LEMMA RangeScaleNear ==
  ASSUME NEW S \in Nat, S > 0, NEW G \in Nat, NEW a \in Nat, a <= G, NEW p \in Int, p = S * a
  PROVE  LET l == IF G = 0 THEN 0 ELSE Clamp(nearestInt(p, G), 0, S)
         IN  l \in Int /\ 0 <= l /\ l <= S /\ Within(2 * (G * l) - 2 * p, G)
  <1> DEFINE l == IF G = 0 THEN 0 ELSE Clamp(nearestInt(p, G), 0, S)
             SG == S * G
  <1>1. SG \in Nat /\ p >= 0 /\ p <= SG
    BY Z3
  <1>2. CASE G = 0
    <2>1. SG = 0
      BY <1>2, SMT
    <2>2. l = 0 /\ p = 0
      <3> HIDE DEF SG
      <3> QED
        BY <1>1, <1>2, <2>1, SMT
    <2> HIDE DEF l
    <2>3. G * l = 0
      BY <1>2, <2>2, SMT
    <2>4. Within(2 * (G * l) - 2 * p, G)
      BY <1>2, <2>2, <2>3, SMT DEF Within
    <2> QED
      BY <2>2, <2>4, SMT DEF l
  <1>3. CASE G # 0
    <2> DEFINE r == nearestInt(p, G)
               c == Clamp(r, 0, S)
               z == c * G
    <2>1. G > 0 /\ 0 \in Int /\ S \in Int /\ 0 <= S
      BY <1>3, SMT
    <2>0. Abs(G) = G /\ Turned(p, G) = p
      BY <1>3, SMT DEF Abs, Turned
    <2>2. r \in Int /\ Within(2 * (r * G) - 2 * p, G)
      <3>1. LET A == Abs(G)
                X == Turned(p, G)
                q == nearestInt(p, G)
                s == Signed(HalfEven, p, G)
            IN  /\ A \in Nat /\ A > 0 /\ X \in Int /\ q \in Int /\ s \in Int
                /\ Within(2 * (q * A) - 2 * X, A) /\ Within(2 * (s * A) - 2 * X, A)
        <4>1. G \in Int /\ G # 0
          BY <1>3, SMT
        <4> QED
          BY <4>1, RoundedIs, Zenon
      <3> QED
        BY <2>0, <3>1, Zenon
    <2> HIDE DEF r
    <2>3. LET j == Clamp(r, 0, S)
          IN  /\ j \in Int /\ 0 <= j /\ j <= S
              /\ \/ Within(2 * (j * G) - 2 * p, G)
                 \/ j = S /\ 2 * (S * G) + G <= 2 * p
                 \/ j = 0 /\ 2 * p + G <= 2 * (0 * G)
      <3> DEFINE lo == 0
                 X == p
      <3>0. X \in Int /\ Within(2 * (r * G) - 2 * X, G)
        BY <2>2, Zenon
      <3>1. lo \in Int /\ lo <= S
        BY SMT
      <3> HIDE DEF lo, X
      <3>2. LET j == Clamp(r, lo, S)
            IN  /\ j \in Int /\ lo <= j /\ j <= S
                /\ \/ Within(2 * (j * G) - 2 * X, G)
                   \/ j = S /\ 2 * (S * G) + G <= 2 * X
                   \/ j = lo /\ 2 * X + G <= 2 * (lo * G)
        BY <2>1, <2>2, <3>0, <3>1, ClampedNear, Zenon
      <3> QED
        BY <3>2, Zenon DEF lo, X
    <2>4. l = c
      BY <1>3, Zenon DEF r
    <2>5. /\ c \in Int /\ 0 <= c /\ c <= S
          /\ \/ Within(2 * z - 2 * p, G)
             \/ 2 * SG + G <= 2 * p
             \/ 2 * p + G <= 2 * (0 * G)
      BY <2>3, Zenon
    <2> HIDE DEF c
    <2>6. Within(2 * z - 2 * p, G)
      <3>1. z \in Int
        BY <2>5, Z3
      <3> HIDE DEF z, SG
      <3> QED
        BY <1>1, <2>1, <2>5, <3>1, SMT
    <2>7. z = G * c
      BY <2>5, Z3
    <2> QED
      BY <2>4, <2>5, <2>6, <2>7, Zenon
  <1> HIDE DEF l
  <1> QED
    BY <1>2, <1>3, Zenon DEF l

(* Their codes: half a step of the sub-block, or what the rounding of its  *)
(* minimum and of its scale leaves of a number beyond the range.           *)
LEMMA RangeCodeNear ==
  ASSUME NEW n \in Nat, n > 0, NEW D \in Nat, NEW R \in Nat, NEW M \in Nat, NEW r \in Nat,
         Within(2 * D - 2 * r, R), NEW W \in Int, -M <= 2 * W, 2 * W <= 2 * r + M
  PROVE  LET c == IF D = 0 THEN 0 ELSE Clamp(nearestInt(W * n, D), 0, n)
         IN  c \in Int /\ 0 <= c /\ c <= n /\ Within(2 * (c * D - W * n), r + R + n * R + n * M)
  <1> SUFFICES ASSUME NEW p \in Int, p = W * n
               PROVE  LET c == IF D = 0 THEN 0 ELSE Clamp(nearestInt(p, D), 0, n)
                      IN  c \in Int /\ 0 <= c /\ c <= n /\ Within(2 * (c * D - p), r + R + n * R + n * M)
    <2>1. W * n \in Int
      BY Z3
    <2> QED
      BY <2>1, Zenon
  <1> DEFINE c == IF D = 0 THEN 0 ELSE Clamp(nearestInt(p, D), 0, n)
             nR == n * R
             nM == n * M
             nD == n * D
             B == r + R + nR + nM
  <1>0. 2 * D - 2 * r <= R /\ 2 * r - 2 * D <= R
    BY SMT DEF Within
  <1>1. /\ nR \in Nat /\ nM \in Nat /\ nD \in Nat /\ -nM <= 2 * p
        /\ 2 * p <= 2 * nD + nR + nM
    <2>1. nR \in Nat /\ nM \in Nat /\ nD \in Nat
      BY Z3
    <2>2. 2 * W <= 2 * D + R + M
      BY <1>0, SMT
    <2>3. n * (2 * W) <= n * (2 * D + R + M) /\ n * (-M) <= n * (2 * W)
      BY <2>2, Z3
    <2>4. n * (2 * W) = 2 * p /\ n * (2 * D + R + M) = 2 * nD + nR + nM /\ n * (-M) = -nM
      BY Z3
    <2> DEFINE a == n * (2 * W)
               b == n * (2 * D + R + M)
               e == n * (-M)
    <2>5. a <= b /\ e <= a /\ a = 2 * p /\ b = 2 * nD + nR + nM /\ e = -nM
      BY <2>3, <2>4, Zenon
    <2> HIDE DEF a, b, e, nR, nM, nD
    <2> QED
      BY <2>1, <2>5, SMT
  <1>2. CASE D = 0
    <2>1. c = 0 /\ nD = 0
      BY <1>2, SMT
    <2> HIDE DEF c, nD, nR, nM
    <2>2. c * D = 0
      BY <1>2, <2>1, SMT
    <2>3. Within(2 * (c * D - p), B)
      BY <1>1, <2>1, <2>2, SMT DEF Within
    <2> QED
      BY <2>1, <2>3, SMT DEF c, nR, nM
  <1>3. CASE D # 0
    <2> DEFINE a == nearestInt(p, D)
               k == Clamp(a, 0, n)
               z == k * D
    <2>1. D > 0 /\ 0 \in Int /\ n \in Int /\ 0 <= n
      BY <1>3, SMT
    <2>0. Abs(D) = D /\ Turned(p, D) = p
      BY <1>3, SMT DEF Abs, Turned
    <2>2. a \in Int /\ Within(2 * (a * D) - 2 * p, D)
      <3>1. LET A == Abs(D)
                X == Turned(p, D)
                q == nearestInt(p, D)
                s == Signed(HalfEven, p, D)
            IN  /\ A \in Nat /\ A > 0 /\ X \in Int /\ q \in Int /\ s \in Int
                /\ Within(2 * (q * A) - 2 * X, A) /\ Within(2 * (s * A) - 2 * X, A)
        <4>1. D \in Int /\ D # 0
          BY <1>3, SMT
        <4> QED
          BY <4>1, RoundedIs, Zenon
      <3> QED
        BY <2>0, <3>1, Zenon
    <2> HIDE DEF a
    <2>3. LET j == Clamp(a, 0, n)
          IN  /\ j \in Int /\ 0 <= j /\ j <= n
              /\ \/ Within(2 * (j * D) - 2 * p, D)
                 \/ j = n /\ 2 * (n * D) + D <= 2 * p
                 \/ j = 0 /\ 2 * p + D <= 2 * (0 * D)
      <3> DEFINE lo == 0
                 X == p
      <3>0. X \in Int /\ Within(2 * (a * D) - 2 * X, D)
        BY <2>2, Zenon
      <3>1. lo \in Int /\ lo <= n
        BY SMT
      <3> HIDE DEF lo, X
      <3>2. LET j == Clamp(a, lo, n)
            IN  /\ j \in Int /\ lo <= j /\ j <= n
                /\ \/ Within(2 * (j * D) - 2 * X, D)
                   \/ j = n /\ 2 * (n * D) + D <= 2 * X
                   \/ j = lo /\ 2 * X + D <= 2 * (lo * D)
        BY <2>1, <2>2, <3>0, <3>1, ClampedNear, Zenon
      <3> QED
        BY <3>2, Zenon DEF lo, X
    <2>4. c = k
      BY <1>3, Zenon DEF a
    <2>5. /\ k \in Int /\ 0 <= k /\ k <= n
          /\ \/ Within(2 * z - 2 * p, D)
             \/ z = nD /\ 2 * nD + D <= 2 * p
             \/ z = 0 * D /\ 2 * p + D <= 2 * (0 * D)
      BY <2>3, Zenon
    <2>6. z \in Int
      <3> HIDE DEF k
      <3> QED
        BY <2>5, Z3
    <2> HIDE DEF z, k, c
    <2>7. Within(2 * (z - p), B)
      <3> HIDE DEF nD, nR, nM
      <3>1. CASE Within(2 * z - 2 * p, D)
        BY <1>0, <1>1, <2>6, <3>1, SMT DEF Within
      <3>2. CASE z = nD /\ 2 * nD + D <= 2 * p
        BY <1>0, <1>1, <2>6, <3>2, SMT DEF Within
      <3>3. CASE z = 0 * D /\ 2 * p + D <= 2 * (0 * D)
        BY <1>0, <1>1, <2>6, <3>3, SMT DEF Within
      <3> QED
        BY <2>5, <3>1, <3>2, <3>3, Zenon
    <2> QED
      BY <2>4, <2>5, <2>7, Zenon DEF z, c
  <1> HIDE DEF c
  <1> QED
    BY <1>2, <1>3, Zenon DEF c

(* What comes back of a lane of these formats (DecodeRange), from what was *)
(* said of its code, of the scales and of the minima.                      *)
RangeLaneNear(n, s, N, R, M, ls, lm, c, d, m, v, C, E, B) ==
  Within((2 * N) * (d * ls * c - m * lm - v), B + (2 * N) * (C + E))

(* That it lies so near.                                                   *)
LEMMA RangeLane ==
  ASSUME NEW n \in Nat, NEW s \in Nat, NEW N \in Nat, N = n * s, NEW R \in Nat, NEW M \in Nat,
         NEW ls \in Int, 0 <= ls, ls <= s, NEW lm \in Int, 0 <= lm, lm <= s,
         NEW c \in Int, 0 <= c, c <= n, NEW d \in Int, NEW m \in Int, NEW v \in Int,
         NEW C \in Nat, NEW E \in Nat, NEW B \in Int,
         Within(N * d - R, C), Within(s * m - M, E),
         Within(2 * (c * (R * ls) - (v * s + M * lm) * n), B)
  PROVE  RangeLaneNear(n, s, N, R, M, ls, lm, c, d, m, v, C, E, B)
  <1> DEFINE u == ls * c
             e == N * d - R
             ue == u * e
             t == n * lm
             f == s * m - M
             tf == t * f
             w == c * (R * ls) - (v * s + M * lm) * n
             NC == N * C
             NE == N * E
  <1>1. u \in Int /\ t \in Int /\ e \in Int /\ f \in Int /\ NC \in Int /\ NE \in Int /\ w \in Int
    <2>1. u \in Int /\ t \in Int /\ e \in Int /\ f \in Int
      BY Z3
    <2>2. NC \in Int /\ NE \in Int
      BY Z3
    <2>3. w \in Int
      <3>1. R * ls \in Int /\ M * lm \in Int /\ v * s \in Int
        BY Z3
      <3> DEFINE a == R * ls
                 b == v * s + M * lm
      <3>2. a \in Int /\ b \in Int
        BY <3>1, SMT
      <3> HIDE DEF a, b
      <3>3. c * a - b * n \in Int
        BY <3>2, Z3
      <3> QED
        BY <3>3, Zenon DEF a, b
    <2> QED
      BY <2>1, <2>2, <2>3, Zenon
  <1>2. Within(u, N) /\ Within(t, N)
    <2>1. Within(ls, s) /\ Within(c, n) /\ s \in Int /\ n \in Int
      BY SMT DEF Within
    <2>2. Within(ls * c, s * n)
      BY <2>1, WithinProduct, Zenon
    <2>3. s * n = N
      BY Z3
    <2>4. Within(n, n) /\ Within(lm, s)
      BY SMT DEF Within
    <2>5. Within(n * lm, n * s)
      BY <2>1, <2>4, WithinProduct, Zenon
    <2> QED
      BY <2>2, <2>3, <2>5, Zenon
  <1>3. Within(ue, NC) /\ Within(tf, NE)
    <2>1. C \in Int /\ E \in Int /\ Within(e, C) /\ Within(f, E)
      <3>1. C \in Int /\ E \in Int
        BY SMT
      <3> QED
        BY <3>1, Zenon
    <2> HIDE DEF e, f, u, t
    <2> QED
      BY <1>1, <1>2, <2>1, WithinProduct, Zenon
  <1>4. ue \in Int /\ tf \in Int
    <2> HIDE DEF e, f, u, t
    <2> QED
      BY <1>1, Z3
  <1>5. N * (d * ls * c - m * lm - v) = ue - tf + w
    <2> DEFINE g == d * ls * c
               h == m * lm
    <2>1. g = d * u /\ h \in Int /\ g \in Int
      BY Z3
    <2>2. c * (R * ls) = R * u
      BY Z3
    <2> HIDE DEF u, g
    <2>3. N * g = u * (N * d) /\ tf = N * h - n * (lm * M)
      <3>1. N * g = u * (N * d)
        BY <1>1, <2>1, Z3
      <3>2. t * f = (n * s) * (m * lm) - n * (lm * M)
        BY Z3
      <3> QED
        BY <3>1, <3>2, Zenon
    <2>4. ue = u * (N * d) - R * u
      BY <1>1, Z3
    <2>5. w = R * u - N * v - n * (lm * M)
      <3>1. (v * s + M * lm) * n = (n * s) * v + n * (lm * M)
        BY Z3
      <3> DEFINE a == c * (R * ls)
                 b == (v * s + M * lm) * n
                 x == N * v
                 y == n * (lm * M)
                 z == R * u
      <3>2. a = z /\ b = x + y /\ w = a - b
        BY <2>2, <3>1, Zenon
      <3>3. x \in Int /\ y \in Int /\ z \in Int
        <4>1. x \in Int /\ z \in Int
          BY <1>1, Z3
        <4>2. y \in Int
          BY Z3
        <4> QED
          BY <4>1, <4>2, Zenon
      <3> HIDE DEF a, b, x, y, z, w
      <3>4. w = z - x - y
        BY <3>2, <3>3, SMT
      <3> QED
        BY <3>4, Zenon DEF x, y, z
    <2> DEFINE x == N * v
               y == n * (lm * M)
               z == R * u
               q == u * (N * d)
               o == N * h
    <2>6. x \in Int /\ y \in Int /\ z \in Int /\ q \in Int /\ o \in Int
      <3>1. x \in Int /\ z \in Int
        BY <1>1, Z3
      <3>2. y \in Int
        BY Z3
      <3>3. q \in Int /\ o \in Int
        <4> HIDE DEF h
        <4> QED
          BY <1>1, <2>1, Z3
      <3> QED
        BY <3>1, <3>2, <3>3, Zenon
    <2>7. N * (g - h - v) = q - o - x
      <3>1. N * (g - h - v) = N * g - N * h - N * v
        <4> HIDE DEF h
        <4> QED
          BY <2>1, Z3
      <3> QED
        BY <2>3, <3>1, Zenon
    <2>8. tf = o - y /\ ue = q - z /\ w = z - x - y
      BY <2>3, <2>4, <2>5, Zenon
    <2> HIDE DEF x, y, z, q, o, tf, ue, w, h
    <2>9. q - o - x = ue - tf + w
      BY <2>6, <2>8, SMT
    <2> QED
      BY <2>7, <2>9, Zenon DEF g, h
  <1> DEFINE y == d * ls * c - m * lm - v
  <1>6. y \in Int /\ (2 * N) * y = 2 * (N * y) /\ (2 * N) * (C + E) = 2 * NC + 2 * NE
    <2>1. y \in Int
      BY Z3
    <2>2. (2 * N) * (C + E) = 2 * NC + 2 * NE
      BY Z3
    <2> HIDE DEF y
    <2>3. (2 * N) * y = 2 * (N * y)
      BY <2>1, Z3
    <2> QED
      BY <2>1, <2>2, <2>3, Zenon
  <1>7. Within(2 * w, B)
    BY Zenon
  <1> HIDE DEF ue, tf, w, NC, NE
  <1>8. Within(2 * (ue - tf + w), B + (2 * NC + 2 * NE))
    BY <1>1, <1>3, <1>4, <1>7, SMT DEF Within
  <1>9. N * y = ue - tf + w
    BY <1>5, Zenon
  <1> HIDE DEF y
  <1>10. Within((2 * N) * y, B + (2 * N) * (C + E))
    BY <1>6, <1>8, <1>9, Zenon
  <1> QED
    BY <1>10, Zenon DEF y, RangeLaneNear

(* Powers of two up to the last of four significant bits.                  *)
LEMMA FourBits ==
  ASSUME NEW e \in 0 .. 14
  PROVE  Pow(e) \in Nat /\ Pow(e) > 0 /\ 2^(4 + e) = 16 * Pow(e) /\ (e < 14 => Pow(e + 1) = 2 * Pow(e))
  <1>0. CASE e = 0  BY <1>0, SMT DEF Pow
  <1>1. CASE e = 1  BY <1>1, SMT DEF Pow
  <1>2. CASE e = 2  BY <1>2, SMT DEF Pow
  <1>3. CASE e = 3  BY <1>3, SMT DEF Pow
  <1>4. CASE e = 4  BY <1>4, SMT DEF Pow
  <1>5. CASE e = 5  BY <1>5, SMT DEF Pow
  <1>6. CASE e = 6  BY <1>6, SMT DEF Pow
  <1>7. CASE e = 7  BY <1>7, SMT DEF Pow
  <1>8. CASE e = 8  BY <1>8, SMT DEF Pow
  <1>9. CASE e = 9  BY <1>9, SMT DEF Pow
  <1>10. CASE e = 10  BY <1>10, SMT DEF Pow
  <1>11. CASE e = 11  BY <1>11, SMT DEF Pow
  <1>12. CASE e = 12  BY <1>12, SMT DEF Pow
  <1>13. CASE e = 13  BY <1>13, SMT DEF Pow
  <1>14. CASE e = 14  BY <1>14, SMT DEF Pow
  <1> QED
    BY <1>0, <1>1, <1>2, <1>3, <1>4, <1>5, <1>6, <1>7, <1>8, <1>9, <1>10, <1>11, <1>12, <1>13, <1>14, SMT

(* NVFP4: the scale of a block, rounded to the four bits of an E4M3 number *)
(* against the header, misses by half a unit of the header or a sixteenth. *)
(* The saturation at 448 costs nothing: the header is at least the largest *)
(* magnitude of all blocks over 2688 (compressFP32ToNVFP4).                *)
LEMMA BlockScaleNear ==
  ASSUME NEW A \in Nat, NEW g \in Nat, A <= g * HeaderUnit
  PROVE  LET b == IF g = 0 THEN 0 ELSE Min({RoundSignificant(7 * A, 2 * g, 4), MaxE4M3})
             mu == Max({g, (7 * A) \div 16 + 1})
         IN  b \in Nat /\ mu \in Nat /\ Within(2 * (g * b) - 7 * A, mu)
  <1> DEFINE p == 7 * A
             q == 2 * g
             R == RoundSignificant(p, q, 4)
             b == IF g = 0 THEN 0 ELSE Min({R, MaxE4M3})
             c == p \div 16 + 1
             mu == Max({g, c})
  <1>1. p \in Nat /\ c \in Nat /\ 16 * c >= p
    BY SMT
  <1> HIDE DEF c
  <1>2. mu \in Nat /\ mu >= g /\ mu >= c
    <2>1. mu = IF g <= c THEN c ELSE g
      <3>1. g \in Int /\ c \in Int
        BY <1>1, SMT
      <3> QED
        BY <3>1, OfTwo, Zenon
    <2> HIDE DEF mu
    <2> QED
      BY <1>1, <2>1, SMT
  <1> HIDE DEF mu
  <1>3. CASE g = 0
    <2>1. A = 0
      BY <1>3, SMT DEF HeaderUnit
    <2>2. b = 0 /\ 2 * (g * b) = 0
      BY <1>3, SMT
    <2> DEFINE z == 2 * (g * b)
    <2>3. Within(z - p, mu)
      <3>1. z = 0 /\ p = 0
        BY <2>1, <2>2, SMT
      <3> HIDE DEF z, p
      <3> QED
        BY <1>2, <3>1, SMT DEF Within
    <2>4. b \in Nat
      BY <2>2, SMT
    <2> QED
      BY <1>2, <2>3, <2>4, Zenon DEF mu, c
  <1>4. CASE g # 0
    <2> DEFINE e == Exp(p, q, 4)
               P == Pow(e)
               u == q * P
               h == HalfEven(p, u)
               w == h * u
    <2>1. q \in Nat /\ q > 0
      BY <1>4, SMT
    <2> HIDE DEF q, p
    <2>2. e \in 0 .. 14 /\ R = h * P /\ \A k \in 0 .. 14 : p < q * 2^(4 + k) => e <= k
      <3>0. 4 \in 0 .. 18 /\ 18 - 4 = 14
        BY SMT
      <3> DEFINE last == 18 - 4
      <3>1. e \in 0 .. last /\ R = h * P /\ \A k \in 0 .. last : p < q * 2^(4 + k) => e <= k
        BY <3>0, ExpIs, Zenon
      <3> HIDE DEF e, h
      <3>2. last = 14
        BY SMT
      <3> HIDE DEF last
      <3> QED
        BY <3>1, <3>2, Zenon
    <2>3. P \in Nat /\ P > 0
      BY <2>2, FourBits, Zenon
    <2>4. e > 0 => p >= 8 * u
      <3> SUFFICES ASSUME e > 0 PROVE p >= 8 * u
        OBVIOUS
      <3> DEFINE f == e - 1
                 F == Pow(f)
                 t == q * F
                 T == q * (16 * F)
      <3>1. f \in 0 .. 14 /\ f < 14 /\ ~(e <= f) /\ e = f + 1
        BY <2>2, SMT
      <3>2. ~(p < q * 2^(4 + f))
        BY <2>2, <3>1, Zenon
      <3>3. 2^(4 + f) = 16 * Pow(f) /\ Pow(f) \in Nat /\ Pow(f + 1) = 2 * Pow(f)
        BY <3>1, FourBits, Zenon
      <3>4. Pow(e) = 2 * Pow(f)
        BY <3>1, <3>3, Zenon
      <3> HIDE DEF f
      <3>5. ~(p < T)
        BY <3>2, <3>3, Zenon
      <3>6. F \in Nat
        BY <3>3, Zenon
      <3> HIDE DEF F, P
      <3>7. P = 2 * F
        BY <3>4, Zenon DEF P, F
      <3>8. T = 16 * t /\ t \in Nat
        BY <2>1, <3>6, Z3
      <3>9. u = 2 * t
        BY <2>1, <3>6, <3>7, Z3
      <3> HIDE DEF t, T, u
      <3> QED
        BY <1>1, <3>5, <3>8, <3>9, SMT
    <2>5. e = 0 => P = 1
      <3>1. Pow(0) = 1
        BY SMT DEF Pow
      <3> QED
        BY <3>1, Zenon
    <2>6. u \in Nat /\ u > 0
      <3> HIDE DEF P
      <3> QED
        BY <2>1, <2>3, Z3
    <2>7. h \in Int /\ 2 * w <= 2 * p + u /\ 2 * p - u <= 2 * w
      <3>1. p \in Int
        BY <1>1, SMT
      <3> HIDE DEF u
      <3> QED
        BY <2>6, <3>1, HalfEvenIs, Zenon
    <2>8. q * R = w
      <3> HIDE DEF P, h, R
      <3> QED
        BY <2>1, <2>2, <2>3, <2>7, Z3
    <2>9. R \in Nat
      BY <1>1, <2>1, FourBitsNatural, Zenon
    <2>10. u <= 2 * mu
      <3>1. CASE e > 0
        <4>1. p >= 8 * u
          BY <2>4, <3>1, Zenon
        <4> HIDE DEF u
        <4> QED
          BY <1>1, <1>2, <2>6, <4>1, SMT
      <3>2. CASE e = 0
        <4>1. P = 1
          BY <2>5, <3>2, Zenon
        <4> HIDE DEF P
        <4>2. u = q
          BY <2>1, <4>1, SMT
        <4>3. q = 2 * g
          BY SMT DEF q
        <4> HIDE DEF u
        <4> QED
          BY <1>2, <2>1, <4>2, <4>3, SMT
      <3>3. e > 0 \/ e = 0
        BY <2>2, SMT
      <3> QED
        BY <3>1, <3>2, <3>3, Zenon
    <2> HIDE DEF w, u, e, h, P
    <2> DEFINE M == MaxE4M3
               qR == q * R
               qM == q * M
    <2>11. M \in Nat /\ p <= qM
      <3>1. M = 448 * 512 /\ HeaderUnit = 65536
        BY SMT DEF MaxE4M3, HeaderUnit
      <3>2. M = 229376
        BY <3>1, SMT
      <3>3. A <= g * 65536
        BY SMT DEF HeaderUnit
      <3> HIDE DEF M
      <3>4. qM = 229376 * q
        BY <2>1, <3>2, SMT
      <3> HIDE DEF qM
      <3>5. p <= qM
        BY <3>3, <3>4, SMT DEF p, q
      <3> QED
        BY <3>2, <3>5, SMT
    <2>12. b = IF R <= M THEN R ELSE M
      <3>1. R \in Int /\ M \in Int
        BY <2>9, <2>11, SMT
      <3>2. b = Min({R, M})
        BY <1>4, Zenon
      <3> QED
        BY <3>1, <3>2, OfTwo, Zenon
    <2> HIDE DEF R, M
    <2>13. qR \in Nat /\ qM \in Nat /\ (R > M => qM <= qR) /\ qR = w
      <3>1. qR \in Nat /\ qM \in Nat
        BY <2>1, <2>9, <2>11, Z3
      <3>2. R > M => qM <= qR
        BY <2>1, <2>9, <2>11, Z3
      <3> QED
        BY <2>8, <3>1, <3>2, Zenon
    <2> HIDE DEF b
    <2> DEFINE y == q * b
    <2>14. Within(y - p, mu)
      <3>1. CASE R <= M
        <4>1. y = qR
          BY <2>12, <3>1, Zenon
        <4> HIDE DEF y, qR, qM
        <4> QED
          BY <1>1, <1>2, <2>6, <2>7, <2>10, <2>13, <4>1, SMT DEF Within
      <3>2. CASE ~(R <= M)
        <4>1. y = qM
          BY <2>12, <3>2, Zenon
        <4>2. R > M
          BY <2>9, <2>11, <3>2, SMT
        <4>3. qM <= qR
          BY <2>13, <4>2, Zenon
        <4> HIDE DEF y, qR, qM
        <4> QED
          BY <1>1, <1>2, <2>6, <2>7, <2>10, <2>11, <2>13, <4>1, <4>3, SMT DEF Within
      <3> QED
        BY <3>1, <3>2, Zenon
    <2>15. b \in Nat
      BY <2>9, <2>11, <2>12, Zenon
    <2>16. 2 * (g * b) = y
      <3>1. q = 2 * g
        BY SMT DEF q
      <3> QED
        BY <2>15, <3>1, Z3
    <2> HIDE DEF y
    <2>17. Within(2 * (g * b) - p, mu)
      BY <2>14, <2>16, Zenon
    <2> QED
      BY <1>2, <2>15, <2>17, Zenon DEF b, mu, c, p, q, R, M
  <1> QED
    BY <1>3, <1>4, Zenon

(* The E2M1 nibbles: half of the widest gap between two magnitudes, or how *)
(* far the number lies beyond the last (NearestE2M1 counts in halves).     *)
LEMMA E2M1Near ==
  ASSUME NEW p \in Int, NEW q \in Nat, q > 0
  PROVE  LET E == ElementE2M1(NearestE2M1(p, q))
         IN  /\ E \in Int
             /\ \/ Within(E * q - 2 * p, 2 * q)
                \/ 12 * q <= 2 * Abs(p) /\ Within(E * q - 2 * p, 2 * Abs(p) - 12 * q)
  <1> DEFINE E == ElementE2M1(NearestE2M1(p, q))
             a == Abs(p)
  <1>0. a \in Nat /\ (p >= 0 => a = p) /\ (p < 0 => a = -p)
    BY AbsIs, Zenon
  <1>1. PICK k \in 0 .. 7 :
           /\ E = IF p < 0 THEN -Magnitudes[k + 1] ELSE Magnitudes[k + 1]
           /\ k > 0 => 4 * a >= Midpoints[k] * q
           /\ k < 7 => 4 * a <= Midpoints[k + 1] * q
    BY NearestE2M1Between, Zenon
  <1> DEFINE m == Magnitudes[k + 1]
             z == m * q
  <1> HIDE DEF a, E
  <1>2. /\ m \in Nat /\ z \in Int
        /\ \/ Within(z - 2 * a, 2 * q)
           \/ 12 * q <= 2 * a /\ Within(z - 2 * a, 2 * a - 12 * q)
    <2>0. CASE k = 0
      BY <1>0, <1>1, <2>0, SMT DEF Magnitudes, Midpoints, Within
    <2>1. CASE k = 1
      BY <1>0, <1>1, <2>1, SMT DEF Magnitudes, Midpoints, Within
    <2>2. CASE k = 2
      BY <1>0, <1>1, <2>2, SMT DEF Magnitudes, Midpoints, Within
    <2>3. CASE k = 3
      BY <1>0, <1>1, <2>3, SMT DEF Magnitudes, Midpoints, Within
    <2>4. CASE k = 4
      BY <1>0, <1>1, <2>4, SMT DEF Magnitudes, Midpoints, Within
    <2>5. CASE k = 5
      BY <1>0, <1>1, <2>5, SMT DEF Magnitudes, Midpoints, Within
    <2>6. CASE k = 6
      BY <1>0, <1>1, <2>6, SMT DEF Magnitudes, Midpoints, Within
    <2>7. CASE k = 7
      BY <1>0, <1>1, <2>7, SMT DEF Magnitudes, Midpoints, Within
    <2> HIDE DEF m, z
    <2> QED
      BY <2>0, <2>1, <2>2, <2>3, <2>4, <2>5, <2>6, <2>7, SMT
  <1>3. E = IF p < 0 THEN -m ELSE m
    BY <1>1, Zenon
  <1> HIDE DEF m
  <1>4. E \in Int
    BY <1>2, <1>3, SMT
  <1> DEFINE w == E * q
  <1>5. w \in Int /\ (p < 0 => w = -z) /\ (p >= 0 => w = z)
    <2>1. CASE p < 0
      <3>1. E = -m
        BY <1>3, <2>1, Zenon
      <3>2. w = -z
        BY <1>2, <3>1, Z3
      <3> HIDE DEF w, z
      <3> QED
        BY <1>2, <2>1, <3>2, SMT
    <2>2. CASE ~(p < 0)
      <3>1. E = m
        BY <1>3, <2>2, Zenon
      <3>2. w = z
        BY <3>1, Zenon
      <3> HIDE DEF w, z
      <3> QED
        BY <1>2, <2>2, <3>2, SMT
    <2> QED
      BY <2>1, <2>2, Zenon
  <1> HIDE DEF w, z
  <1>6. \/ Within(w - 2 * p, 2 * q)
        \/ 12 * q <= 2 * a /\ Within(w - 2 * p, 2 * a - 12 * q)
    <2>1. CASE p < 0
      BY <1>0, <1>2, <1>5, <2>1, SMT DEF Within
    <2>2. CASE p >= 0
      BY <1>0, <1>2, <1>5, <2>2, SMT DEF Within
    <2> QED
      BY <2>1, <2>2, SMT
  <1> QED
    BY <1>4, <1>6, Zenon DEF w, E, a

(* An NVFP4 number, 42 times too large: within half of the widest gap of   *)
(* the magnitudes, or, if the scale came out too small to reach it, within *)
(* what the largest element of the block misses.                           *)
LEMMA NVLaneNear ==
  ASSUME NEW A \in Nat, NEW v \in Int, Abs(v) <= A, NEW u \in Nat, NEW mu \in Nat,
         Within(2 * u - 7 * A, mu)
  PROVE  LET c == IF u = 0 THEN (IF v < 0 THEN 8 ELSE 0) ELSE NearestE2M1(21 * v, u)
         IN  ElementE2M1(c) \in Int /\ Within(ElementE2M1(c) * u - 42 * v, 7 * A + 7 * mu)
  <1> DEFINE c == IF u = 0 THEN (IF v < 0 THEN 8 ELSE 0) ELSE NearestE2M1(21 * v, u)
             E == ElementE2M1(c)
             w == E * u
             p == 21 * v
  <1>0. -A <= v /\ v <= A
    BY AbsIs, SMT
  <1>1. CASE u = 0
    <2>1. c \in {0, 8}
      BY <1>1, SMT
    <2> HIDE DEF c
    <2>2. E = 0
      BY <2>1, SMT DEF ElementE2M1, Magnitudes
    <2> HIDE DEF E
    <2>3. w = 0
      BY <2>2, SMT
    <2> HIDE DEF w
    <2>4. Within(w - 42 * v, 7 * A + 7 * mu)
      BY <1>0, <1>1, <2>3, SMT DEF Within
    <2> QED
      BY <2>2, <2>4, SMT DEF w, E, c
  <1>2. CASE u # 0
    <2>1. p \in Int /\ u > 0
      BY <1>2, SMT
    <2>2. c = NearestE2M1(p, u)
      BY <1>2, Zenon
    <2> HIDE DEF p, c
    <2>3. LET F == ElementE2M1(NearestE2M1(p, u))
          IN  /\ F \in Int
              /\ \/ Within(F * u - 2 * p, 2 * u)
                 \/ 12 * u <= 2 * Abs(p) /\ Within(F * u - 2 * p, 2 * Abs(p) - 12 * u)
      BY <2>1, E2M1Near, Zenon
    <2>4. /\ E \in Int
          /\ \/ Within(w - 2 * p, 2 * u)
             \/ 12 * u <= 2 * Abs(p) /\ Within(w - 2 * p, 2 * Abs(p) - 12 * u)
      BY <2>2, <2>3, Zenon
    <2> HIDE DEF E
    <2>5. w \in Int
      BY <2>4, Z3
    <2> HIDE DEF w
    <2> DEFINE b == Abs(p)
    <2>6. b \in Int /\ b <= 21 * A /\ p = 21 * v
      <3>1. p = 21 * v
        BY SMT DEF p
      <3> QED
        BY <1>0, <2>1, <3>1, AbsIs, SMT
    <2>7. \/ Within(w - 2 * p, 2 * u)
          \/ 12 * u <= 2 * b /\ Within(w - 2 * p, 2 * b - 12 * u)
      BY <2>4, Zenon
    <2> HIDE DEF b
    <2>8. Within(w - 42 * v, 7 * A + 7 * mu)
      BY <2>1, <2>5, <2>6, <2>7, SMT DEF Within
    <2> QED
      BY <2>4, <2>8, SMT DEF w, E, c
  <1> HIDE DEF c
  <1> QED
    BY <1>1, <1>2, Zenon DEF c

(* MXFP4: the scale is the power of two that puts the largest magnitude    *)
(* between 4 and 8, unless it is less than that already.                   *)
LEMMA MXScaleNear ==
  ASSUME NEW A \in Nat, A # 0, A < 2^30, NEW k \in 0 .. 27,
         k = IF Exponent(A) <= 2 THEN 0 ELSE Exponent(A) - 2
  PROVE  LET s == 2^k
         IN  /\ s \in Nat /\ s > 0
             /\ \/ s = 1 /\ A < 8
                \/ 4 * s <= A /\ A < 8 * s
  <1> DEFINE e == Exponent(A)
             s == 2^k
  <1>1. A > 0
    BY SMT
  <1>2. e \in 0 .. 29 /\ 2^e <= A /\ \A o \in 0 .. 29 : 2^o <= A => o <= e
    BY <1>1, ExponentIs, Zenon
  <1>3. k \in 0 .. 29 /\ k + 1 \in 0 .. 28 /\ k \in 0 .. 28
    BY SMT
  <1>4. s \in Nat /\ s > 0 /\ 2^(k + 1) = 2 * s
    BY <1>3, ScalePowers, PowersDouble, Zenon
  <1>5. CASE e <= 2
    <2>1. k = 0
      BY <1>5, Zenon
    <2>2. s = 1
      <3>1. 2^0 = 1
        BY SMT
      <3> QED
        BY <2>1, <3>1, Zenon
    <2>3. ~(2^3 <= A)
      <3>1. 3 \in 0 .. 29 /\ ~(3 <= e)
        BY <1>2, <1>5, SMT
      <3> QED
        BY <1>2, <3>1, Zenon
    <2>4. 2^3 = 8
      BY SMT
    <2>5. ~(8 <= A)
      BY <2>3, <2>4, Zenon
    <2> HIDE DEF s
    <2>6. A < 8
      BY <2>5, SMT
    <2> QED
      BY <1>4, <2>2, <2>6, Zenon DEF s
  <1>6. CASE ~(e <= 2)
    <2>1. k = e - 2
      BY <1>6, Zenon
    <2>2. e = (k + 1) + 1
      BY <1>2, <2>1, SMT
    <2>3. 2^((k + 1) + 1) = 2 * 2^(k + 1)
      BY <1>3, PowersDouble, Zenon
    <2> DEFINE t == 2^(k + 1)
               f == 2^e
    <2>4. t = 2 * s /\ f = 2 * t /\ f <= A
      BY <1>2, <1>4, <2>2, <2>3, Zenon
    <2> DEFINE h == 2^(e + 1)
    <2>5. h = 2 * f /\ ~(h <= A)
      <3>1. CASE e \in 0 .. 28
        <4>1. e + 1 \in 0 .. 29 /\ ~(e + 1 <= e)
          BY <3>1, SMT
        <4>2. ~(h <= A)
          BY <1>2, <4>1, Zenon
        <4>3. h = 2 * f
          BY <3>1, PowersDouble, Zenon
        <4> QED
          BY <4>2, <4>3, Zenon
      <3>2. CASE ~(e \in 0 .. 28)
        <4>1. e = 29
          BY <1>2, <3>2, SMT
        <4>2. 2^30 = 2 * 2^29 /\ 29 + 1 = 30 /\ 2^30 \in Nat
          BY SMT
        <4>3. ~(2^30 <= A)
          <5> DEFINE y == 2^30
          <5>1. y \in Nat /\ A < y
            BY <4>2, Zenon
          <5> HIDE DEF y
          <5>2. ~(y <= A)
            BY <5>1, SMT
          <5> QED
            BY <5>2, Zenon DEF y
        <4> QED
          BY <4>1, <4>2, <4>3, Zenon
      <3> QED
        BY <3>1, <3>2, Zenon
    <2> HIDE DEF h, f, t, s
    <2>6. 4 * s <= A /\ A < 8 * s
      BY <1>4, <2>4, <2>5, SMT
    <2> QED
      BY <1>4, <2>6, Zenon DEF s
  <1> QED
    BY <1>5, <1>6, Zenon

(* An MXFP4 number, twice too large: half of the widest gap, or how far it *)
(* lies beyond the last magnitude; whole numbers below 4 are exact.        *)
LEMMA MXLaneNear ==
  ASSUME NEW A \in Nat, NEW v \in Int, Abs(v) <= A, NEW s \in Nat,
         (A = 0 /\ s = 0) \/ (s = 1 /\ A < 8) \/ (s > 0 /\ 4 * s <= A /\ A < 8 * s)
  PROVE  LET c == MXCode(s, v)
         IN  ElementE2M1(c) \in Int
             /\ Within(ElementE2M1(c) * s - 2 * v, IF A <= 1 THEN 1 ELSE A)
  <1> DEFINE c == MXCode(s, v)
             E == ElementE2M1(c)
             w == E * s
             a == Abs(v)
             B == IF A <= 1 THEN 1 ELSE A
  <1>0. -A <= v /\ v <= A /\ a \in Nat /\ a <= A /\ (v >= 0 => a = v) /\ (v < 0 => a = -v)
    BY AbsIs, SMT
  <1>9. B \in Nat /\ B >= A /\ B >= 1
    BY SMT
  <1>1. CASE s = 0
    <2>1. A = 0 /\ v = 0
      BY <1>0, <1>1, SMT
    <2>2. c \in {0, 8}
      BY <1>1, SMT DEF MXCode
    <2> HIDE DEF c
    <2>3. E = 0
      BY <2>2, SMT DEF ElementE2M1, Magnitudes
    <2> HIDE DEF E
    <2>4. w = 0
      BY <2>3, SMT
    <2> HIDE DEF w, B
    <2>5. Within(w - 2 * v, B)
      BY <1>9, <2>1, <2>4, SMT DEF Within
    <2> QED
      BY <2>3, <2>5, SMT DEF w, E, c, B
  <1>2. CASE s # 0
    <2>1. s > 0 /\ c = NearestE2M1(v, s)
      BY <1>2, SMT DEF MXCode
    <2> HIDE DEF c
    <2>2. LET F == ElementE2M1(NearestE2M1(v, s))
          IN  /\ F \in Int
              /\ \/ Within(F * s - 2 * v, 2 * s)
                 \/ 12 * s <= 2 * Abs(v) /\ Within(F * s - 2 * v, 2 * Abs(v) - 12 * s)
      BY <2>1, E2M1Near, Zenon
    <2>3. /\ E \in Int
          /\ \/ Within(w - 2 * v, 2 * s)
             \/ 12 * s <= 2 * a /\ Within(w - 2 * v, 2 * a - 12 * s)
      BY <2>1, <2>2, Zenon
    <2>4. w \in Int
      <3> HIDE DEF E
      <3> QED
        BY <2>3, Z3
    <2>5. CASE A >= 4
      <3> HIDE DEF w, E, a, B
      <3>1. 4 * s <= A
        BY <1>2, <2>5, SMT
      <3>2. A < 8 * s
        BY <1>2, <2>5, SMT
      <3>3. Within(w - 2 * v, B)
        BY <1>0, <1>9, <2>1, <2>3, <2>4, <3>1, <3>2, SMT DEF Within
      <3> QED
        BY <2>3, <3>3, SMT DEF w, E, B, c
    <2>6. CASE ~(A >= 4)
      <3>1. s = 1 /\ a <= 3
        <4> HIDE DEF a
        <4> QED
          BY <1>0, <1>2, <2>6, SMT
      <3>2. PICK k \in 0 .. 7 :
               /\ E = IF v < 0 THEN -Magnitudes[k + 1] ELSE Magnitudes[k + 1]
               /\ k > 0 => 4 * a >= Midpoints[k] * s
               /\ k < 7 => 4 * a <= Midpoints[k + 1] * s
        BY <2>1, NearestE2M1Between, Zenon
      <3> HIDE DEF E, a
      <3>3. /\ a = 0 => k = 0
            /\ a = 1 => k = 2
            /\ a = 2 => k = 4
            /\ a = 3 => k = 5
        BY <1>0, <3>1, <3>2, SMT DEF Midpoints
      <3>4. Magnitudes[k + 1] = 2 * a
        BY <1>0, <3>1, <3>3, SMT DEF Magnitudes
      <3>5. E = 2 * v
        <4> DEFINE m == Magnitudes[k + 1]
        <4>1. E = (IF v < 0 THEN -m ELSE m) /\ m = 2 * a
          BY <3>2, <3>4, Zenon
        <4> HIDE DEF m
        <4> QED
          BY <1>0, <4>1, SMT
      <3>6. w = 2 * v
        BY <3>1, <3>5, SMT
      <3> HIDE DEF w, B
      <3>7. Within(w - 2 * v, B)
        BY <1>9, <3>6, SMT DEF Within
      <3> QED
        BY <2>3, <3>7, SMT DEF w, E, B, c
    <2> QED
      BY <2>5, <2>6, Zenon DEF E
  <1> HIDE DEF c
  <1> QED
    BY <1>1, <1>2, Zenon DEF c
=============================================================================
