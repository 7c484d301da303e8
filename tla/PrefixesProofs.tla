----------------------------- MODULE PrefixesProofs ----------------------------
(***************************************************************************)
(* Lemmas about the helpers of every compact schema, for every width of a  *)
(* byte and of usize: what the checked arithmetic returns, and that        *)
(* writing a prefix and reading it are inverse to each other.  The proofs  *)
(* about structs and about enums rest on them.                             *)
(***************************************************************************)
EXTENDS Prefixes, Sequences, WellFoundedInduction, TLAPS

-----------------------------------------------------------------------------
(* Recursion over a range.                                                 *)

\* A set with 0 that holds the successor, up to n, of what it holds, holds
\* 0 .. n: a least number outside would have its predecessor inside.
LEMMA RangeInduction ==
    ASSUME NEW n \in Nat, NEW S, 0 \in S, \A i \in 1 .. n : i - 1 \in S => i \in S
    PROVE  \A i \in 0 .. n : i \in S
<1>. DEFINE Below == OpToRel(<, Nat)
            T == (0 .. n) \ S
<1>. SUFFICES ASSUME T # {} PROVE FALSE
  OBVIOUS
<1>1. \E x \in T : \A y \in T : ~(<<y, x>> \in Below)
  <2>1. T \subseteq Nat
    OBVIOUS
  <2>. HIDE DEF T, Below
  <2>2. IsWellFoundedOn(Below, Nat)
    BY NatLessThanWellFounded DEF Below
  <2>. QED
    BY <2>1, <2>2, WFMin
<1>2. PICK x \in T : \A y \in T : ~(<<y, x>> \in Below)
  BY <1>1
<1>3. x \in 1 .. n /\ x - 1 \in Nat /\ x \in Nat /\ x - 1 < x /\ x \notin S
  OBVIOUS
<1>4. x - 1 \notin T
  BY <1>2, <1>3 DEF OpToRel
<1>5. x - 1 \in S
  BY <1>3, <1>4
<1>. QED
  BY <1>3, <1>5

\* f is what the recursion from z with the steps of G is over 0 .. n, and its
\* values are in the sets of V.
Solves(n, z, G, V, f) ==
    /\ f = [i \in 0 .. n |-> f[i]]
    /\ f[0] = z
    /\ \A i \in 1 .. n : f[i] = G[<<i, f[i - 1]>>]
    /\ \A i \in 0 .. n : f[i] \in V[i]

\* A recursion over 0 .. n whose step takes values of one set to values of the
\* next has a solution, built one value at a time.
LEMMA TypedRecursion ==
    ASSUME NEW n \in Nat, NEW V, NEW z \in V[0], NEW G,
           \A i \in 1 .. n : \A x \in V[i - 1] : G[<<i, x>>] \in V[i]
    PROVE  \E f : Solves(n, z, G, V, f)
<1>. DEFINE S == {m \in 0 .. n : \E f : Solves(m, z, G, V, f)}
<1>1. 0 \in S
  <2>. DEFINE f == [i \in 0 .. 0 |-> z]
  <2>1. f = [i \in 0 .. 0 |-> f[i]] /\ f[0] = z /\ \A i \in 0 .. 0 : f[i] \in V[i]
    OBVIOUS
  <2>2. Solves(0, z, G, V, f)
    BY <2>1 DEF Solves
  <2>. QED
    BY <2>2
<1>2. ASSUME NEW m \in 1 .. n, m - 1 \in S PROVE m \in S
  <2>1. PICK f : Solves(m - 1, z, G, V, f)
    BY <1>2
  <2>2. /\ f[0] = z
        /\ \A i \in 1 .. (m - 1) : f[i] = G[<<i, f[i - 1]>>]
        /\ \A i \in 0 .. (m - 1) : f[i] \in V[i]
    BY <2>1 DEF Solves
  <2>. DEFINE g == [k \in 0 .. m |-> IF k = m THEN G[<<m, f[m - 1]>>] ELSE f[k]]
  <2>3. m - 1 \in 0 .. m /\ m - 1 # m /\ m - 1 \in 0 .. (m - 1) /\ 0 \in 0 .. m /\ m # 0
    OBVIOUS
  <2>4. g[0] = z /\ g = [i \in 0 .. m |-> g[i]]
    BY <2>2, <2>3
  <2>5. ASSUME NEW i \in 1 .. m PROVE g[i] = G[<<i, g[i - 1]>>]
    <3>1. i \in 0 .. m /\ i - 1 \in 0 .. m /\ i - 1 # m
      OBVIOUS
    <3>2. g[i - 1] = f[i - 1]
      BY <3>1
    <3>3. CASE i = m
      BY <3>1, <3>2, <3>3
    <3>4. CASE i # m
      <4>1. i \in 1 .. (m - 1)
        BY <3>4
      <4>. QED
        BY <2>2, <3>1, <3>2, <3>4, <4>1
    <3>. QED
      BY <3>3, <3>4
  <2>6. ASSUME NEW i \in 0 .. m PROVE g[i] \in V[i]
    <3>1. CASE i = m
      BY <2>2, <2>3, <3>1
    <3>2. CASE i # m
      <4>1. i \in 0 .. (m - 1)
        BY <3>2
      <4>. QED
        BY <2>2, <3>2, <4>1
    <3>. QED
      BY <3>1, <3>2
  <2>. HIDE DEF g
  <2>7. Solves(m, z, G, V, g)
    BY <2>4, <2>5, <2>6 DEF Solves
  <2>8. m \in 0 .. n
    OBVIOUS
  <2>. QED
    BY <2>7, <2>8
<1>3. \A m \in 0 .. n : m \in S
  <2>. HIDE DEF S
  <2>. QED
    BY <1>1, <1>2, RangeInduction
<1>. QED
  BY <1>3

-----------------------------------------------------------------------------
(* Numbers read from bytes.                                                *)

\* The digits of a prefix.
LEMMA WeightNat == Weight(1) \in Nat /\ Weight(2) \in Nat /\ Weight(4) \in Nat
<1>1. Radix \in Nat
  BY PrefixesAssumption
<1>2. Radix * Radix \in Nat
  BY <1>1
<1>3. Radix * Radix * Radix \in Nat
  BY <1>1, <1>2
<1>4. Radix * Radix * Radix * Radix \in Nat
  BY <1>1, <1>3
<1> QED
  BY <1>1, <1>2, <1>4 DEF Weight

\* A byte is a natural number.
LEMMA ByteNat == \A b \in Byte : b \in Nat
  BY PrefixesAssumption DEF Byte

\* A two-byte prefix inside the bytes is a natural number.
LEMMA LePairNat ==
    ASSUME NEW n \in Nat, NEW d \in [0 .. (n - 1) -> Byte], NEW off \in Nat, off + 2 <= n
    PROVE  LePair(d, off) \in Nat
<1>1. d[off] \in Nat /\ d[off + 1] \in Nat
  BY ByteNat
<1>2. Weight(1) * d[off + 1] \in Nat
  BY <1>1, WeightNat
<1> QED
  BY <1>1, <1>2 DEF LePair

\* A four-byte prefix inside the bytes is a natural number.
LEMMA LeQuadNat ==
    ASSUME NEW n \in Nat, NEW d \in [0 .. (n - 1) -> Byte], NEW off \in Nat, off + 4 <= n
    PROVE  LeQuad(d, off) \in Nat
<1>1. LePair(d, off) \in Nat
  BY LePairNat
<1>2. LePair(d, off + 2) \in Nat
  <2>1. off + 2 \in Nat /\ (off + 2) + 2 <= n
    OBVIOUS
  <2> QED
    BY <2>1, LePairNat
<1>3. Weight(2) * LePair(d, off + 2) \in Nat
  BY <1>2, WeightNat
<1> QED
  BY <1>1, <1>3 DEF LeQuad

\* A prefix read inside the bytes is a natural number.
LEMMA RawPrefixNat ==
    ASSUME NEW n \in Nat, NEW d \in [0 .. (n - 1) -> Byte], NEW off \in Nat,
           NEW pfx \in Width, off + pfx <= n
    PROVE  RawPrefix(d, off, pfx) \in Nat
<1>1. CASE pfx = 1
  BY <1>1, ByteNat DEF RawPrefix
<1>2. CASE pfx = 2
  BY <1>2, LePairNat DEF RawPrefix
<1>3. CASE pfx = 4
  BY <1>3, LeQuadNat DEF RawPrefix
<1>4. CASE pfx = 8
  <2>1. LeQuad(d, off) \in Nat
    BY <1>4, LeQuadNat
  <2>2. off + 4 \in Nat /\ (off + 4) + 4 <= n
    BY <1>4
  <2>3. LeQuad(d, off + 4) \in Nat
    BY <2>2, LeQuadNat
  <2>4. Weight(4) * LeQuad(d, off + 4) \in Nat
    BY <2>3, WeightNat
  <2> QED
    BY <1>4, <2>1, <2>4 DEF RawPrefix
<1> QED
  BY <1>1, <1>2, <1>3, <1>4 DEF Width

\* What the unchecked decode returns is a usize.
LEMMA CastPrefixNat ==
    ASSUME NEW n \in Nat, NEW d \in [0 .. (n - 1) -> Byte], NEW off \in Nat,
           NEW pfx \in Width, off + pfx <= n
    PROVE  CastPrefix(d, off, pfx) \in Nat
<1>1. RawPrefix(d, off, pfx) \in Nat
  BY RawPrefixNat
<1> QED
  BY <1>1, PrefixesAssumption DEF CastPrefix, Wrap

\* The weights of the digits of a prefix are positive.
LEMMA WeightPositive ==
    ASSUME NEW k \in 0 .. 7
    PROVE  Weight(k) \in Nat /\ Weight(k) > 0
<1> DEFINE R2 == Radix * Radix
           R3 == R2 * Radix
           R4 == R3 * Radix
           R5 == R4 * Radix
           R6 == R5 * Radix
           R7 == R6 * Radix
<1>1. \A m, n \in Nat : m > 0 /\ n > 0 => m * n \in Nat /\ m * n > 0
  OBVIOUS
<1>2. Radix \in Nat /\ Radix > 0
  BY PrefixesAssumption
<1>3. R2 \in Nat /\ R2 > 0
  BY <1>1, <1>2
<1>4. R3 \in Nat /\ R3 > 0
  BY <1>1, <1>2, <1>3
<1>5. R4 \in Nat /\ R4 > 0
  BY <1>1, <1>2, <1>4
<1>6. R5 \in Nat /\ R5 > 0
  BY <1>1, <1>2, <1>5
<1>7. R6 \in Nat /\ R6 > 0
  BY <1>1, <1>2, <1>6
<1>8. R7 \in Nat /\ R7 > 0
  BY <1>1, <1>2, <1>7
<1>9. k \in {0, 1, 2, 3, 4, 5, 6, 7}
  OBVIOUS
<1>10. Weight(k) \in {1, Radix, R2, R3, R4, R5, R6, R7}
  BY <1>9, Zenon DEF Weight
<1> HIDE DEF R2, R3, R4, R5, R6, R7
<1> QED
  BY <1>2, <1>3, <1>4, <1>5, <1>6, <1>7, <1>8, <1>10

\* A written prefix is bytes.
LEMMA LeByteIsByte ==
    ASSUME NEW value \in Nat, NEW k \in 0 .. 7
    PROVE  LeByte(value, k) \in Byte
<1>1. value \div Weight(k) \in Int
  BY WeightPositive
<1> QED
  BY <1>1, PrefixesAssumption DEF LeByte, Byte

-----------------------------------------------------------------------------
(* Results.                                                                *)

\* An error is a result.
LEMMA ErrResult ==
    ASSUME NEW e
    PROVE  IsResult(Err(e)) /\ ~Err(e).ok /\ Err(e).value = 0
  BY DEF Err, IsResult

\* A success is a result.
LEMMA OkResult ==
    ASSUME NEW v \in Nat
    PROVE  IsResult(Ok(v)) /\ Ok(v).ok /\ Ok(v).value = v
  BY DEF Ok, IsResult

\* Checked arithmetic returns the sum or the product, and only within usize.
LEMMA CheckedAddResult ==
    ASSUME NEW a \in Nat, NEW b \in Nat
    PROVE  /\ IsResult(CheckedAdd(a, b))
           /\ CheckedAdd(a, b).ok =>
                CheckedAdd(a, b).value = a + b /\ ~(a + b > UsizeMax)
           /\ ~CheckedAdd(a, b).ok => a + b > UsizeMax
  BY DEF CheckedAdd, Ok, Err, IsResult

\* The checked product is a result, and when it succeeds it is the product.
LEMMA CheckedMulResult ==
    ASSUME NEW a \in Nat, NEW b \in Nat
    PROVE  /\ IsResult(CheckedMul(a, b))
           /\ CheckedMul(a, b).ok => CheckedMul(a, b).value = a * b
<1>1. a * b \in Nat
  OBVIOUS
<1> QED
  BY <1>1 DEF CheckedMul, Ok, Err, IsResult

\* A prefix read is a result, whatever the bytes.
LEMMA ReadPrefixResult ==
    ASSUME NEW n \in Nat, NEW d \in [0 .. (n - 1) -> Byte], NEW off \in Nat,
           NEW pfx \in Width
    PROVE  IsResult(ReadPrefix(d, n, off, pfx))
<1>1. pfx \in Nat
  BY DEF Width
<1>2. CASE ~CheckedAdd(off, pfx).ok
  BY <1>1, <1>2, CheckedAddResult DEF ReadPrefix
<1>3. CASE CheckedAdd(off, pfx).ok /\ CheckedAdd(off, pfx).value > n
  BY <1>3, ErrResult DEF ReadPrefix
<1>4. CASE CheckedAdd(off, pfx).ok /\ ~(CheckedAdd(off, pfx).value > n)
  <2>1. off + pfx <= n
    BY <1>1, <1>4, CheckedAddResult
  <2>2. RawPrefix(d, off, pfx) \in Nat
    BY <2>1, RawPrefixNat
  <2>3. IsResult(DecodePrefix(d, off, pfx))
    BY <2>2, OkResult, ErrResult DEF DecodePrefix
  <2> QED
    BY <1>4, <2>3 DEF ReadPrefix
<1> QED
  BY <1>2, <1>3, <1>4

\* A product of fewer elements is no larger.
LEMMA ProductsGrow ==
    ASSUME NEW a \in Nat, NEW b \in Nat, NEW c \in Nat, a <= b
    PROVE  a * c \in Nat /\ b * c \in Nat /\ a * c <= b * c
  OBVIOUS

\* A sum or a product within usize is exact, whatever the width of the prefix.
LEMMA BoundedIsExact ==
    ASSUME NEW pfx, NEW a \in Nat, NEW b \in Nat
    PROVE  /\ a + b <= UsizeMax => BoundedAdd(pfx, a, b) = Ok(a + b)
           /\ a * b <= UsizeMax => BoundedMul(pfx, a, b) = Ok(a * b)
           /\ a + b <= UsizeMax => CheckedAdd(a, b) = Ok(a + b)
           /\ a * b <= UsizeMax => CheckedMul(a, b) = Ok(a * b)
<1>1. \A v \in Nat : v <= UsizeMax => Wrap(v) = v
  BY PrefixesAssumption DEF Wrap
<1>2. a + b \in Nat /\ a * b \in Nat
  OBVIOUS
<1>3. \A v \in Nat : v <= UsizeMax => ~(v > UsizeMax)
  BY PrefixesAssumption
<1>. QED
  BY <1>1, <1>2, <1>3 DEF BoundedAdd, BoundedMul, CheckedAdd, CheckedMul

-----------------------------------------------------------------------------
(* The digits of a prefix.                                                 *)

\* h[k] is what digits k and up of a number stand for, the digits being the
\* bytes of d behind `off`.
Digits(d, off, pfx, h) ==
    \A k \in 0 .. (pfx - 1) : h[k] = d[off + k] + Radix * h[k + 1]

\* A number is its quotient and its remainder.
LEMMA Division ==
    ASSUME NEW v \in Nat, NEW w \in Nat, w > 0
    PROVE  /\ v \div w \in Nat /\ v % w \in Nat /\ (v % w) < w
           /\ v = (v \div w) * w + (v % w)
<1>1. v \div w \in Nat
  OBVIOUS
<1>2. v % w \in Nat /\ (v % w) < w
  OBVIOUS
<1>3. v = (v \div w) * w + (v % w)
  OBVIOUS
<1>. QED
  BY <1>1, <1>2, <1>3

\* There is only one quotient.
LEMMA Quotient ==
    ASSUME NEW v \in Nat, NEW w \in Nat, w > 0, NEW q \in Nat, NEW r \in Nat,
           v = q * w + r, r < w
    PROVE  v \div w = q /\ v % w = r
<1>1. v % w = r
  OBVIOUS
<1>2. v \div w = q
  OBVIOUS
<1>. QED
  BY <1>1, <1>2

\* The lower half of a sum of digits, twice.
LEMMA TwoDigits ==
    ASSUME NEW w \in Nat, NEW x \in Nat, NEW y \in Nat, NEW z \in Nat
    PROVE  x + w * (y + w * z) = (x + w * y) + (w * w) * z
<1>1. w * (y + w * z) = w * y + w * (w * z)
  OBVIOUS
<1>2. w * (w * z) = (w * w) * z
  OBVIOUS
<1>. QED
  BY <1>1, <1>2

\* A prefix is the number its digits stand for.
LEMMA DigitsOfPrefix ==
    ASSUME NEW n \in Nat, NEW d \in [0 .. (n - 1) -> Byte], NEW off \in Nat,
           NEW pfx \in Width, off + pfx <= n, NEW h \in [0 .. pfx -> Nat],
           Digits(d, off, pfx, h), h[pfx] = 0
    PROVE  RawPrefix(d, off, pfx) = h[0]
<1>1. Radix \in Nat
  BY PrefixesAssumption
<1>0. \A k \in 0 .. (pfx - 1) : d[off + k] \in Nat
  <2>1. \A k \in 0 .. (pfx - 1) : off + k \in 0 .. (n - 1)
    BY DEF Width
  <2>. QED
    BY <2>1, ByteNat
<1>2. ASSUME NEW k \in Nat, k + 1 <= pfx - 1
      PROVE  /\ h[k] = LePair(d, off + k) + (Radix * Radix) * h[k + 2]
             /\ h[k] \in Nat /\ h[k + 2] \in Nat /\ LePair(d, off + k) \in Nat
  <2>1. pfx \in Nat
    BY DEF Width
  <2>2. k \in 0 .. (pfx - 1) /\ k + 1 \in 0 .. (pfx - 1) /\ (k + 1) + 1 = k + 2 /\ off + k + 1 = off + (k + 1)
    BY <1>2, <2>1
  <2>3. /\ h[k] = d[off + k] + Radix * h[k + 1]
        /\ h[k + 1] = d[off + k + 1] + Radix * h[k + 2]
    BY <2>2 DEF Digits
  <2>4. d[off + k] \in Nat /\ d[off + k + 1] \in Nat
    BY <1>0, <2>2
  <2>5. h[k] \in Nat /\ h[k + 1] \in Nat /\ h[k + 2] \in Nat
    BY <1>2, <2>1, <2>2
  <2>6. h[k] = (d[off + k] + Radix * d[off + k + 1]) + (Radix * Radix) * h[k + 2]
    <3>. DEFINE x == d[off + k]
                y == d[off + k + 1]
                z == h[k + 2]
    <3>1. x \in Nat /\ y \in Nat /\ z \in Nat
      BY <2>4, <2>5
    <3>2. h[k] = x + Radix * (y + Radix * z)
      BY <2>3
    <3>. HIDE DEF x, y, z
    <3>3. h[k] = (x + Radix * y) + (Radix * Radix) * z
      BY <1>1, <3>1, <3>2, TwoDigits
    <3>. QED
      BY <3>3 DEF x, y, z
  <2>7. LePair(d, off + k) = d[off + k] + Radix * d[off + k + 1]
    BY DEF LePair, Weight
  <2>8. LePair(d, off + k) \in Nat
    BY <1>1, <2>4, <2>7
  <2>. QED
    BY <2>5, <2>6, <2>7, <2>8
<1>3. ASSUME NEW k \in Nat, k + 3 <= pfx - 1
      PROVE  /\ h[k] = LeQuad(d, off + k) + ((Radix * Radix) * (Radix * Radix)) * h[k + 4]
             /\ h[k + 4] \in Nat
  <2>1. pfx \in Nat
    BY DEF Width
  <2>2. k + 1 <= pfx - 1 /\ (k + 2) + 1 <= pfx - 1 /\ k + 2 \in Nat /\ (k + 2) + 2 = k + 4
        /\ off + (k + 2) = off + k + 2
    BY <1>3, <2>1
  <2>. DEFINE w == Radix * Radix
  <2>3. w \in Nat
    BY <1>1
  <2>. HIDE DEF w
  <2>4. h[k] = LePair(d, off + k) + w * h[k + 2] /\ LePair(d, off + k) \in Nat
    BY <1>2, <2>2 DEF w
  <2>5. h[k + 2] = LePair(d, off + k + 2) + w * h[k + 4]
        /\ LePair(d, off + k + 2) \in Nat /\ h[k + 4] \in Nat
    BY <1>2, <2>2 DEF w
  <2>6. h[k] = (LePair(d, off + k) + w * LePair(d, off + k + 2)) + (w * w) * h[k + 4]
    BY SMTT(60), <2>3, <2>4, <2>5, TwoDigits
  <2>7. LeQuad(d, off + k) = LePair(d, off + k) + w * LePair(d, off + k + 2)
    BY DEF LeQuad, Weight, w
  <2>. QED
    BY <2>5, <2>6, <2>7 DEF w
<1>4. 0 \in Nat /\ off + 0 = off /\ pfx \in {1, 2, 4, 8}
  BY DEF Width
<1>5. CASE pfx = 1
  <2>1. h[0] = d[off + 0] + Radix * h[0 + 1] /\ h[1] = 0
    BY <1>5 DEF Digits
  <2>2. d[off] \in Nat /\ h[0] = d[off]
    <3>1. 0 \in 0 .. (pfx - 1) /\ Radix * 0 = 0
      BY <1>1, <1>5
    <3>2. d[off] \in Nat
      BY <1>0, <1>4, <3>1
    <3>3. h[0] = d[off] + Radix * 0
      BY <1>4, <2>1
    <3>. QED
      BY <3>1, <3>2, <3>3
  <2>. QED
    BY <1>5, <2>2 DEF RawPrefix
<1>6. CASE pfx = 2
  <2>1. h[0] = LePair(d, off) + (Radix * Radix) * h[2] /\ LePair(d, off) \in Nat /\ h[2] = 0
    BY <1>2, <1>4, <1>6
  <2>2. (Radix * Radix) * 0 = 0
    BY <1>1
  <2>. QED
    BY <1>6, <2>1, <2>2 DEF RawPrefix
<1>7. CASE pfx = 4
  <2>. DEFINE w == (Radix * Radix) * (Radix * Radix)
  <2>1. w \in Nat
    BY <1>1
  <2>. HIDE DEF w
  <2>2. h[0] = LeQuad(d, off) + w * h[4] /\ h[4] = 0
    BY <1>3, <1>4, <1>7 DEF w
  <2>3. w * h[4] = 0
    BY <2>1, <2>2
  <2>4. LeQuad(d, off) \in Nat
    <3>1. off + 4 <= n
      BY <1>7
    <3>. QED
      BY <3>1, LeQuadNat
  <2>. QED
    BY <1>7, <2>2, <2>3, <2>4 DEF RawPrefix
<1>8. CASE pfx = 8
  <2>. DEFINE w == (Radix * Radix) * (Radix * Radix)
  <2>1. w \in Nat
    BY <1>1
  <2>. HIDE DEF w
  <2>2. h[0] = LeQuad(d, off) + w * h[4] /\ h[4] = LeQuad(d, off + 4) + w * h[8] /\ h[8] = 0
    BY <1>3, <1>4, <1>8 DEF w
  <2>3. w * h[8] = 0
    BY <2>1, <2>2
  <2>4. LeQuad(d, off) \in Nat /\ LeQuad(d, off + 4) \in Nat
    <3>1. off + 4 <= n /\ off + 4 + 4 <= n /\ off + 4 \in Nat
      BY <1>8
    <3>. QED
      BY <3>1, LeQuadNat
  <2>5. Weight(4) = w
    <3>1. \A r \in Nat : ((r * r) * r) * r = (r * r) * (r * r)
      OBVIOUS
    <3>. QED
      BY <1>1, <3>1 DEF Weight, w
  <2>. QED
    BY <1>8, <2>2, <2>3, <2>4, <2>5 DEF RawPrefix
<1>. QED
  BY <1>4, <1>5, <1>6, <1>7, <1>8

\* The digits of a prefix stand for numbers.
LEMMA DigitsExist ==
    ASSUME NEW n \in Nat, NEW d \in [0 .. (n - 1) -> Byte], NEW off \in Nat,
           NEW pfx \in Width, off + pfx <= n
    PROVE  \E h \in [0 .. pfx -> Nat] : Digits(d, off, pfx, h) /\ h[pfx] = 0
<1>. DEFINE V == [i \in 0 .. pfx |-> Nat]
            Step(i, x) == d[off + (pfx - i)] + Radix * x
            G == [p \in (1 .. pfx) \X Nat |-> Step(p[1], p[2])]
<1>1. pfx \in Nat /\ Radix \in Nat
  BY PrefixesAssumption DEF Width
<1>2. \A k \in 0 .. (pfx - 1) : d[off + k] \in Nat
  <2>1. \A k \in 0 .. (pfx - 1) : off + k \in 0 .. (n - 1)
    BY DEF Width
  <2>. QED
    BY <2>1, ByteNat
<1>3. ASSUME NEW i \in 1 .. pfx, NEW x \in Nat PROVE Step(i, x) \in Nat
  <2>1. pfx - i \in 0 .. (pfx - 1)
    BY <1>1
  <2>2. d[off + (pfx - i)] \in Nat
    BY <1>2, <2>1
  <2>3. Radix * x \in Nat
    BY <1>1
  <2>. QED
    BY <2>2, <2>3
<1>4. \A i \in 1 .. pfx : \A x \in Nat : G[<<i, x>>] = Step(i, x)
  OBVIOUS
<1>5. \A i \in 0 .. pfx : V[i] = Nat
  OBVIOUS
<1>6. PICK f : Solves(pfx, 0, G, V, f)
  <2>. HIDE DEF V, G, Step
  <2>1. 0 \in V[0]
    BY <1>1, <1>5
  <2>2. ASSUME NEW i \in 1 .. pfx, NEW x \in V[i - 1] PROVE G[<<i, x>>] \in V[i]
    <3>1. i \in 0 .. pfx /\ i - 1 \in 0 .. pfx
      BY <1>1
    <3>2. x \in Nat /\ V[i] = Nat
      BY <1>5, <2>2, <3>1
    <3>. QED
      BY <1>3, <1>4, <3>2
  <2>. QED
    BY <1>1, <2>1, <2>2, TypedRecursion
<1>7. /\ f[0] = 0
      /\ \A i \in 0 .. pfx : f[i] \in Nat
      /\ \A i \in 1 .. pfx : f[i] = Step(i, f[i - 1])
  <2>. HIDE DEF V, G, Step
  <2>1. \A i \in 0 .. pfx : f[i] \in Nat
    BY <1>5, <1>6 DEF Solves
  <2>2. ASSUME NEW i \in 1 .. pfx PROVE f[i] = Step(i, f[i - 1])
    <3>1. i - 1 \in 0 .. pfx
      BY <1>1
    <3>. QED
      BY <1>4, <1>6, <2>1, <3>1 DEF Solves
  <2>. QED
    BY <1>6, <2>1, <2>2 DEF Solves
<1>. DEFINE h == [k \in 0 .. pfx |-> f[pfx - k]]
<1>8. h \in [0 .. pfx -> Nat]
  <2>1. \A k \in 0 .. pfx : pfx - k \in 0 .. pfx
    BY <1>1
  <2>. QED
    BY <1>7, <2>1
<1>9. h[pfx] = 0
  BY <1>1, <1>7
<1>10. ASSUME NEW k \in 0 .. (pfx - 1) PROVE h[k] = d[off + k] + Radix * h[k + 1]
  <2>1. /\ k \in 0 .. pfx /\ k + 1 \in 0 .. pfx /\ pfx - k \in 1 .. pfx
        /\ (pfx - k) - 1 = pfx - (k + 1) /\ pfx - (pfx - k) = k
    BY <1>1
  <2>2. h[k] = f[pfx - k] /\ h[k + 1] = f[pfx - (k + 1)]
    BY <2>1
  <2>3. f[pfx - k] = Step(pfx - k, f[(pfx - k) - 1])
    <3>. HIDE DEF Step
    <3>. QED
      BY <1>7, <2>1
  <2>4. Step(pfx - k, f[(pfx - k) - 1]) = d[off + k] + Radix * f[(pfx - k) - 1]
    BY <2>1
  <2>. HIDE DEF h, Step
  <2>. QED
    BY <2>1, <2>2, <2>3, <2>4
<1>. HIDE DEF h
<1>. QED
  BY <1>8, <1>9, <1>10 DEF Digits

\* The next digit weighs Radix times as much.
LEMMA WeightStep ==
    /\ Weight(0) = 1
    /\ \A k \in 0 .. 6 : Weight(k + 1) = Weight(k) * Radix
<1>1. Radix \in Nat
  BY PrefixesAssumption
<1>2. Weight(0) = 1
  BY DEF Weight
<1>3. ASSUME NEW k \in 0 .. 6 PROVE Weight(k + 1) = Weight(k) * Radix
  <2>1. k \in {0, 1, 2, 3, 4, 5, 6}
    OBVIOUS
  <2>2. Weight(0 + 1) = Weight(0) * Radix
    BY <1>1 DEF Weight
  <2>3. Weight(1 + 1) = Weight(1) * Radix
    BY DEF Weight
  <2>4. Weight(2 + 1) = Weight(2) * Radix
    BY DEF Weight
  <2>5. Weight(3 + 1) = Weight(3) * Radix
    BY DEF Weight
  <2>6. Weight(4 + 1) = Weight(4) * Radix
    BY DEF Weight
  <2>7. Weight(5 + 1) = Weight(5) * Radix
    BY DEF Weight
  <2>8. Weight(6 + 1) = Weight(6) * Radix
    BY DEF Weight
  <2>. QED
    BY <2>1, <2>2, <2>3, <2>4, <2>5, <2>6, <2>7, <2>8
<1>. QED
  BY <1>2, <1>3

\* A usize is at most eight bytes wide.
LEMMA UsizeWidth == UsizeMax < Weight(7) * Radix
<1>1. Radix \in Nat /\ Radix > 2 /\ UsizeMax \in Nat
  BY PrefixesAssumption
<1>2. PICK k \in 1 .. 7 : UsizeMax < Weight(k) * Radix
  BY PrefixesAssumption
<1>3. \A j \in 0 .. 6 : Weight(j) <= Weight(j + 1) /\ Weight(j) \in Nat /\ Weight(j + 1) \in Nat
  <2>1. ASSUME NEW j \in 0 .. 6 PROVE Weight(j) <= Weight(j + 1) /\ Weight(j) \in Nat /\ Weight(j + 1) \in Nat
    <3>. DEFINE w == Weight(j)
    <3>1. j \in 0 .. 7 /\ Weight(j + 1) = w * Radix
      BY WeightStep
    <3>2. w \in Nat
      BY <3>1, WeightPositive
    <3>. HIDE DEF w
    <3>3. 1 * w <= Radix * w
      BY <1>1, <3>2, ProductsGrow
    <3>4. 1 * w = w /\ Radix * w = w * Radix /\ w * Radix \in Nat
      BY <1>1, <3>2
    <3>. QED
      BY <3>1, <3>2, <3>3, <3>4 DEF w
  <2>. QED
    BY <2>1
<1>4. Weight(k) <= Weight(7) /\ Weight(k) \in Nat /\ Weight(7) \in Nat
  <2>1. /\ Weight(1) <= Weight(2) /\ Weight(2) <= Weight(3) /\ Weight(3) <= Weight(4)
        /\ Weight(4) <= Weight(5) /\ Weight(5) <= Weight(6) /\ Weight(6) <= Weight(7)
        /\ Weight(1) \in Nat /\ Weight(2) \in Nat /\ Weight(3) \in Nat /\ Weight(4) \in Nat
        /\ Weight(5) \in Nat /\ Weight(6) \in Nat /\ Weight(7) \in Nat
    <3>1. \A a, b \in 0 .. 7 : a \in 0 .. 6 /\ b = a + 1 =>
            Weight(a) <= Weight(b) /\ Weight(a) \in Nat /\ Weight(b) \in Nat
      BY <1>3
    <3>. QED
      BY <3>1
  <2>2. k \in {1, 2, 3, 4, 5, 6, 7}
    OBVIOUS
  <2>. QED
    BY <2>1, <2>2
<1>. DEFINE v == Weight(k)
            w == Weight(7)
<1>. HIDE DEF v, w
<1>5. v * Radix <= w * Radix
  BY <1>1, <1>4, ProductsGrow DEF v, w
<1>6. v * Radix \in Nat /\ w * Radix \in Nat
  BY <1>1, <1>4 DEF v, w
<1>7. UsizeMax < v * Radix
  BY <1>2 DEF v
<1>8. UsizeMax < w * Radix
  BY <1>1, <1>5, <1>6, <1>7
<1>. QED
  BY <1>8 DEF w

\* The byte at a digit of a prefix is that digit of its number.
LEMMA DecodedDigits ==
    ASSUME NEW n \in Nat, NEW d \in [0 .. (n - 1) -> Byte], NEW off \in Nat,
           NEW pfx \in Width, off + pfx <= n, NEW i \in 0 .. (pfx - 1)
    PROVE  LeByte(RawPrefix(d, off, pfx), i) = d[off + i]
<1>1. PICK h \in [0 .. pfx -> Nat] : Digits(d, off, pfx, h) /\ h[pfx] = 0
  BY DigitsExist
<1>. DEFINE v == RawPrefix(d, off, pfx)
            Upper(k) == \E low \in Nat : low < Weight(k) /\ v = low + Weight(k) * h[k]
            S == {k \in 0 .. (pfx - 1) : Upper(k)}
<1>2. v = h[0]
  BY ZenonT(60), <1>1, DigitsOfPrefix
<1>. HIDE DEF v
<1>3. /\ pfx \in Nat /\ pfx - 1 \in Nat /\ Radix \in Nat /\ Radix > 0
      /\ \A k \in 0 .. (pfx - 1) : k \in 0 .. 7 /\ k \in 0 .. pfx /\ k + 1 \in 0 .. pfx /\ k \in Nat
      /\ \A k \in 1 .. (pfx - 1) : k - 1 \in 0 .. 6 /\ k - 1 \in 0 .. (pfx - 1) /\ (k - 1) + 1 = k
  BY PrefixesAssumption DEF Width
<1>4. \A k \in 0 .. (pfx - 1) :
        /\ d[off + k] \in Byte /\ d[off + k] \in Nat /\ d[off + k] < Radix
        /\ h[k] = d[off + k] + Radix * h[k + 1] /\ h[k + 1] \in Nat /\ h[k] \in Nat
  <2>1. \A k \in 0 .. (pfx - 1) : off + k \in 0 .. (n - 1)
    BY <1>3
  <2>2. \A k \in 0 .. (pfx - 1) : d[off + k] \in Byte
    BY <2>1
  <2>3. \A b \in Byte : b \in Nat /\ b < Radix
    BY <1>3 DEF Byte
  <2>. QED
    BY <1>1, <1>3, <2>2, <2>3 DEF Digits
<1>5. 0 \in S
  <2>1. 0 < Weight(0) /\ 0 \in Nat /\ 0 \in 0 .. (pfx - 1)
    BY <1>3, WeightStep
  <2>2. v = 0 + Weight(0) * h[0]
    BY <1>2, <1>4, <2>1, WeightStep
  <2>. QED
    BY <2>1, <2>2
<1>6. ASSUME NEW k \in 1 .. (pfx - 1), k - 1 \in S PROVE k \in S
  <2>. DEFINE j == k - 1
              w == Weight(j)
              b == d[off + j]
              x == h[k]
  <2>1. j \in 0 .. (pfx - 1) /\ j \in 0 .. 6 /\ j + 1 = k /\ j \in 0 .. 7
    BY <1>3
  <2>2. PICK low \in Nat : low < w /\ v = low + w * h[j]
    BY <1>6
  <2>3. w \in Nat /\ w > 0 /\ Weight(k) = w * Radix
    BY <2>1, WeightPositive, WeightStep
  <2>4. b \in Nat /\ b < Radix /\ x \in Nat /\ h[j] = b + Radix * x
    BY <1>4, <2>1
  <2>. HIDE DEF w, b, x
  <2>5. w * (b + Radix * x) = w * b + (w * Radix) * x
    <3>1. \A p, q, r, s \in Nat : p * (q + r * s) = p * q + (p * r) * s
      OBVIOUS
    <3>. QED
      BY <1>3, <2>3, <2>4, <3>1
  <2>6. low + w * b \in Nat /\ low + w * b < w * Radix
    <3>1. w * b \in Nat /\ b + 1 \in Nat /\ w * Radix \in Nat
      BY <1>3, <2>3, <2>4
    <3>2. (b + 1) * w <= Radix * w
      BY <1>3, <2>3, <2>4, <3>1, ProductsGrow
    <3>3. (b + 1) * w = w * b + w /\ Radix * w = w * Radix
      BY <1>3, <2>3, <2>4
    <3>. QED
      BY <2>2, <2>3, <3>1, <3>2, <3>3
  <2>7. v = (low + w * b) + (w * Radix) * x
    <3>. DEFINE p == w * b
                q == (w * Radix) * x
    <3>1. v = low + (p + q)
      BY <2>2, <2>4, <2>5
    <3>2. p \in Nat /\ q \in Nat
      BY <1>3, <2>3, <2>4
    <3>. HIDE DEF p, q
    <3>3. v = (low + p) + q
      BY <3>1, <3>2
    <3>. QED
      BY <3>3 DEF p, q
  <2>8. Upper(k)
    BY <2>3, <2>6, <2>7 DEF x
  <2>9. k \in 0 .. (pfx - 1)
    BY <1>3
  <2>. QED
    BY <2>8, <2>9
<1>7. \A k \in 0 .. (pfx - 1) : k \in S
  <2>. HIDE DEF S
  <2>. QED
    BY <1>3, <1>5, <1>6, RangeInduction
<1>8. PICK low \in Nat : low < Weight(i) /\ v = low + Weight(i) * h[i]
  BY <1>7
<1>. DEFINE w == Weight(i)
            u == h[i]
            b == d[off + i]
            x == h[i + 1]
<1>9. w \in Nat /\ w > 0 /\ u \in Nat /\ b \in Nat /\ b < Radix /\ x \in Nat
  BY <1>3, <1>4, WeightPositive
<1>10. low < w /\ v = low + w * u /\ u = b + Radix * x
  BY <1>4, <1>8
<1>. HIDE DEF w, u, b, x
<1>11. v \div w = u
  <2>. DEFINE p == w * u
  <2>1. p \in Nat /\ u * w = p
    BY <1>9
  <2>2. v = low + p
    BY <1>10
  <2>. HIDE DEF p
  <2>3. v = u * w + low /\ v \in Nat
    BY <2>1, <2>2
  <2>. QED
    BY <1>9, <1>10, <2>3, Quotient
<1>12. u % Radix = b
  <2>1. u = x * Radix + b
    BY <1>3, <1>9, <1>10
  <2>. QED
    BY <1>3, <1>9, <2>1
<1>. QED
  BY <1>11, <1>12 DEF LeByte, v, w, b

\* The bytes of d behind `off` are the digits of a number.
Written(d, off, pfx, value) ==
    \A k \in 0 .. (pfx - 1) : d[off + k] = LeByte(value, k)

\* The bytes of a number that they are enough for decode to it.
LEMMA WrittenNumber ==
    ASSUME NEW n \in Nat, NEW d \in [0 .. (n - 1) -> Byte], NEW off \in Nat,
           NEW pfx \in Width, off + pfx <= n
    PROVE  \A value \in Nat : value < Weight(pfx - 1) * Radix /\ Written(d, off, pfx, value)
                                => RawPrefix(d, off, pfx) = value
<1>0. ASSUME NEW g \in [0 .. pfx -> Nat], Digits(d, off, pfx, g), g[pfx] = 0
      PROVE  RawPrefix(d, off, pfx) = g[0]
  BY ZenonT(60), <1>0, DigitsOfPrefix
<1>. SUFFICES ASSUME NEW value \in Nat, value < Weight(pfx - 1) * Radix, Written(d, off, pfx, value)
              PROVE  RawPrefix(d, off, pfx) = value
  OBVIOUS
<1>. DEFINE h == [k \in 0 .. pfx |-> IF k = pfx THEN 0 ELSE value \div Weight(k)]
<1>1. /\ pfx \in Nat /\ pfx - 1 \in 0 .. 7 /\ Radix \in Nat /\ Radix > 0 /\ pfx \in 0 .. pfx
      /\ 0 \in 0 .. pfx /\ pfx # 0 /\ (pfx - 1) + 1 = pfx
      /\ \A k \in 0 .. (pfx - 1) : k \in 0 .. 7 /\ k \in 0 .. pfx /\ k + 1 \in 0 .. pfx /\ k # pfx
      /\ \A k \in 0 .. (pfx - 1) : k # pfx - 1 => k \in 0 .. 6 /\ k + 1 # pfx
  BY PrefixesAssumption DEF Width
<1>2. \A k \in 0 .. (pfx - 1) : Weight(k) \in Nat /\ Weight(k) > 0 /\ value \div Weight(k) \in Nat
  <2>1. ASSUME NEW k \in 0 .. (pfx - 1) PROVE Weight(k) \in Nat /\ Weight(k) > 0 /\ value \div Weight(k) \in Nat
    <3>. DEFINE w == Weight(k)
    <3>1. w \in Nat /\ w > 0
      BY <1>1, WeightPositive
    <3>. HIDE DEF w
    <3>2. value \div w \in Nat
      BY <3>1
    <3>. QED
      BY <3>1, <3>2 DEF w
  <2>. QED
    BY <2>1
<1>3. /\ h \in [0 .. pfx -> Nat] /\ h[pfx] = 0
      /\ \A k \in 0 .. (pfx - 1) : h[k] = value \div Weight(k)
  <2>1. ASSUME NEW k \in 0 .. pfx PROVE (IF k = pfx THEN 0 ELSE value \div Weight(k)) \in Nat
    <3>1. CASE k = pfx
      BY <3>1
    <3>2. CASE k # pfx
      <4>1. k \in 0 .. (pfx - 1)
        BY <1>1, <3>2
      <4>. QED
        BY <1>2, <3>2, <4>1
    <3>. QED
      BY <3>1, <3>2
  <2>2. h \in [0 .. pfx -> Nat]
    BY <2>1
  <2>3. h[pfx] = 0
    BY <1>1
  <2>4. \A k \in 0 .. (pfx - 1) : h[k] = value \div Weight(k)
    BY <1>1
  <2>. QED
    BY <2>2, <2>3, <2>4
<1>. HIDE DEF h
\* The digit above the last is zero.
<1>4. value \div Weight(pfx - 1) < Radix
  <2>. DEFINE w == Weight(pfx - 1)
  <2>1. w \in Nat /\ w > 0 /\ value < w * Radix
    BY <1>1, WeightPositive
  <2>. HIDE DEF w
  <2>. DEFINE q == value \div w
  <2>2. value = q * w + (value % w)
    BY <2>1
  <2>3. q \in Nat /\ value % w \in Nat
    BY <2>1
  <2>. HIDE DEF q
  <2>4. q < Radix
    <3>1. CASE q >= Radix
      <4>1. Radix * w <= q * w
        BY <1>1, <2>1, <2>3, <3>1, ProductsGrow
      <4>2. Radix * w = w * Radix /\ q * w \in Nat /\ Radix * w \in Nat
        BY <1>1, <2>1, <2>3
      <4>3. value >= q * w
        BY <2>2, <2>3, <4>2
      <4>. QED
        BY <2>1, <4>1, <4>2, <4>3
    <3>. QED
      BY <1>1, <2>3, <3>1
  <2>. QED
    BY <2>4 DEF q, w
<1>5. ASSUME NEW k \in 0 .. (pfx - 1) PROVE h[k] = d[off + k] + Radix * h[k + 1]
  <2>. DEFINE w == Weight(k)
              u == value \div w
  <2>1. w \in Nat /\ w > 0 /\ u \in Nat /\ h[k] = u
    BY <1>2, <1>3
  <2>2. d[off + k] = u % Radix
    BY DEF LeByte, Written
  <2>3. h[k + 1] = u \div Radix
    <3>1. CASE k = pfx - 1
      <4>1. h[k + 1] = 0 /\ u < Radix
        BY <1>1, <1>3, <1>4, <3>1
      <4>. HIDE DEF u
      <4>2. u \div Radix = 0
        BY <1>1, <2>1, <4>1
      <4>. QED
        BY <4>1, <4>2
    <3>2. CASE k # pfx - 1
      <4>1. /\ k + 1 \in 0 .. (pfx - 1) /\ Weight(k + 1) = w * Radix
            /\ h[k + 1] = value \div Weight(k + 1)
        <5>1. k + 1 \in 0 .. (pfx - 1) /\ k \in 0 .. 6
          BY <1>1, <3>2
        <5>. QED
          BY <1>3, <5>1, WeightStep
      <4>2. value \div (w * Radix) = u \div Radix
        <5>. DEFINE r == value % w
                    t == u % Radix
                    s == u \div Radix
        <5>1. value = u * w + r /\ r \in Nat /\ r < w
          <6>. HIDE DEF w
          <6>. QED
            BY <2>1, Division
        <5>2. r \in Nat /\ r < w
          BY <5>1
        <5>. HIDE DEF u, w, r
        <5>3. u = s * Radix + t
          BY <1>1, <2>1
        <5>4. t \in Nat /\ t < Radix
          BY <1>1, <2>1
        <5>5. s \in Nat
          BY <1>1, <2>1
        <5>. HIDE DEF t, s
        <5>6. u * w = s * (w * Radix) + t * w
          <6>1. \A a, b, c, e \in Nat : (a * b + c) * e = a * (e * b) + c * e
            OBVIOUS
          <6>. QED
            BY <1>1, <2>1, <5>3, <5>4, <5>5, <6>1
        <5>7. t * w + r < w * Radix /\ t * w + r \in Nat
          <6>1. (t + 1) * w <= Radix * w /\ t + 1 \in Nat
            BY <1>1, <2>1, <5>4, ProductsGrow
          <6>2. (t + 1) * w = t * w + w /\ Radix * w = w * Radix /\ t * w \in Nat /\ w * Radix \in Nat
            BY <1>1, <2>1, <5>4
          <6>. QED
            BY <2>1, <5>2, <6>1, <6>2
        <5>. DEFINE z == w * Radix
                    m == t * w + r
        <5>8. value = s * z + m
          <6>. DEFINE a == s * (w * Radix)
                      b == t * w
          <6>1. a \in Nat /\ b \in Nat
            BY <1>1, <2>1, <5>4, <5>5
          <6>2. value = (a + b) + r
            BY <5>1, <5>6
          <6>. HIDE DEF a, b
          <6>3. value = a + (b + r)
            BY <5>2, <6>1, <6>2
          <6>. QED
            BY <6>3 DEF a, b
        <5>9. z \in Nat /\ z > 0 /\ m \in Nat /\ m < z
          <6>1. z \in Nat
            BY <1>1, <2>1
          <6>. HIDE DEF z, m
          <6>2. m \in Nat /\ m < z
            BY <5>7 DEF z, m
          <6>. QED
            BY <6>1, <6>2
        <5>. HIDE DEF z, m
        <5>10. value \div z = s
          BY <5>5, <5>8, <5>9, Quotient
        <5>. QED
          BY <5>10 DEF z, s
      <4>. QED
        BY <4>1, <4>2
    <3>. QED
      BY <3>1, <3>2
  <2>. HIDE DEF u
  <2>. DEFINE q == u \div Radix
              r == u % Radix
  <2>4. u = q * Radix + r
    BY <1>1, <2>1
  <2>5. q \in Nat /\ r \in Nat
    BY <1>1, <2>1
  <2>6. h[k] = u /\ h[k + 1] = q /\ d[off + k] = r
    BY <2>1, <2>2, <2>3
  <2>. HIDE DEF q, r
  <2>7. q * Radix = Radix * q
    BY <1>1, <2>5
  <2>8. q * Radix \in Nat
    BY <1>1, <2>5
  <2>9. q * Radix + r = r + q * Radix
    BY <2>5, <2>8
  <2>. QED
    BY <2>4, <2>6, <2>7, <2>9
<1>6. RawPrefix(d, off, pfx) = h[0]
  <2>1. Digits(d, off, pfx, h)
    BY <1>5 DEF Digits
  <2>2. h \in [0 .. pfx -> Nat] /\ h[pfx] = 0
    BY <1>3
  <2>. QED
    BY <1>0, <2>1, <2>2
<1>7. h[0] = value
  <2>1. 0 \in 0 .. (pfx - 1) /\ h[0] = value \div 1
    BY <1>1, <1>3, WeightStep
  <2>2. value \div 1 = value
    OBVIOUS
  <2>. QED
    BY <2>1, <2>2
<1>. QED
  BY <1>6, <1>7

\* A prefix has room for the lengths up to its maximum.
LEMMA PrefixMaxFits ==
    ASSUME NEW pfx \in Width, NEW value \in Nat, value <= PrefixMax(pfx)
    PROVE  value < Weight(pfx - 1) * Radix
<1>. DEFINE w == Weight(pfx - 1)
<1>0. Radix \in Nat /\ pfx - 1 \in 0 .. 7
  BY PrefixesAssumption DEF Width
<1>1. w \in Nat /\ w > 0
  BY <1>0, WeightPositive
<1>2. CASE pfx = 1
  <2>1. w * Radix = Radix /\ value <= Radix - 1
    BY <1>0, <1>2 DEF PrefixMax, Weight
  <2>. QED
    BY <1>0, <1>1, <2>1
<1>3. CASE pfx = 2
  <2>1. w * Radix = Weight(2) /\ value <= Weight(2) - 1
    BY <1>3, WeightStep DEF PrefixMax
  <2>. QED
    BY <1>1, <2>1, WeightNat
<1>4. CASE pfx = 4
  <2>1. w * Radix = Weight(4)
    BY <1>4, WeightStep
  <2>2. PrefixMax(pfx) \in {Weight(4) - 1, -1}
    BY <1>4 DEF PrefixMax
  <2>. QED
    BY <1>1, <2>1, <2>2, WeightNat
<1>5. CASE pfx = 8
  <2>1. PrefixMax(pfx) = UsizeMax
    BY <1>5 DEF PrefixMax
  <2>2. UsizeMax \in Nat /\ UsizeMax < w * Radix
    BY <1>5, PrefixesAssumption, UsizeWidth
  <2>3. w * Radix \in Nat
    BY <1>0, <1>1
  <2>. HIDE DEF w
  <2>4. value < w * Radix
    BY <1>1, <2>1, <2>2, <2>3
  <2>. QED
    BY <2>4 DEF w
<1>. QED
  BY <1>2, <1>3, <1>4, <1>5 DEF Width

\* A prefix that was written decodes to the length it was written for.
LEMMA WrittenPrefix ==
    ASSUME NEW n \in Nat, NEW d \in [0 .. (n - 1) -> Byte], NEW off \in Nat,
           NEW pfx \in Width, off + pfx <= n
    PROVE  \A value \in Nat : value <= PrefixMax(pfx) /\ Written(d, off, pfx, value)
                                => RawPrefix(d, off, pfx) = value
  BY WrittenNumber, PrefixMaxFits
-----------------------------------------------------------------------------
(* Stretches of bytes.                                                     *)

\* m bytes of d from offset a on, as a sequence.
BytesAt(d, a, m) == [k \in 1 .. m |-> d[a + k - 1]]

\* Bytes of a buffer are bytes.
LEMMA BytesAtFacts ==
    ASSUME NEW n \in Nat, NEW d \in [0 .. (n - 1) -> Byte], NEW a \in Nat, NEW m \in Nat,
           a + m <= n
    PROVE  /\ BytesAt(d, a, m) \in Seq(Byte) /\ Len(BytesAt(d, a, m)) = m
           /\ \A k \in 1 .. m : BytesAt(d, a, m)[k] = d[a + k - 1]
<1>1. \A k \in 1 .. m : a + k - 1 \in 0 .. (n - 1)
  OBVIOUS
<1>2. \A k \in 1 .. m : d[a + k - 1] \in Byte
  BY <1>1
<1>. DEFINE s == BytesAt(d, a, m)
<1>3. s = [k \in 1 .. m |-> d[a + k - 1]]
  BY DEF BytesAt
<1>. HIDE DEF s
<1>4. s \in [1 .. m -> Byte]
  BY <1>2, <1>3
<1>5. s \in Seq(Byte) /\ Len(s) = m
  BY <1>4
<1>. QED
  BY <1>3, <1>5 DEF s

\* A concatenation.
LEMMA Concatenated ==
    ASSUME NEW S, NEW s \in Seq(S), NEW t \in Seq(S)
    PROVE  /\ s \o t \in Seq(S) /\ Len(s \o t) = Len(s) + Len(t)
           /\ \A k \in 1 .. (Len(s) + Len(t)) :
                (s \o t)[k] = IF k <= Len(s) THEN s[k] ELSE t[k - Len(s)]
  OBVIOUS
================================================================================
