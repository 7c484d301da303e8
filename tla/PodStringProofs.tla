---------------------------- MODULE PodStringProofs ----------------------------
(***************************************************************************)
(* Proofs about PodString, for every capacity, prefix width and encoding   *)
(* in which a byte that begins a character continues none.                 *)
(***************************************************************************)
EXTENDS PodString, WellFoundedInduction, TLAPS

-----------------------------------------------------------------------------
(* The slots and their positions, as for PodVec.                           *)

\* A length the capacity allows survives the cast to the prefix and the clamp:
\* the cast of encode_len (vec.rs:122) truncates nothing.
LEMMA EncodeLenIsExact ==
    ASSUME NEW n \in 0 .. N
    PROVE  EncodeLen(n) = n /\ Clamp(n) = n
<1>1. n \in 0 .. PrefixMax /\ PrefixMax + 1 \in Nat /\ n < PrefixMax + 1
    BY PodSlotsAssumption
<1>2. n % (PrefixMax + 1) = n
    BY <1>1
<1>3. n <= UsizeMax
    BY PodSlotsAssumption
<1> QED
    BY <1>2, <1>3, PodSlotsAssumption DEF EncodeLen, Clamp, DecodeLen

\* No prefix, whatever the account holds, is read as more than N elements.
LEMMA ClampIsBounded ==
    ASSUME NEW p \in 0 .. PrefixMax
    PROVE  Clamp(p) \in 0 .. N
BY PodSlotsAssumption DEF Clamp, DecodeLen

\* Copying elements into slots yields slots.
LEMMA CopyToType ==
    ASSUME NEW data \in [Slot -> Elem], NEW from \in Nat, NEW values \in Seq(Elem)
    PROVE  CopyTo(data, from, values) \in [Slot -> Elem]
<1> SUFFICES ASSUME NEW k \in Slot, from <= k, k < from + Len(values)
             PROVE  values[k - from + 1] \in Elem
    BY DEF CopyTo
<1>1. k - from + 1 \in 1 .. Len(values)
    BY PodSlotsAssumption DEF Slot
<1> QED
    BY <1>1

\* Zeroing slots yields slots.
LEMMA ZeroRangeType ==
    ASSUME NEW data \in [Slot -> Elem], NEW from \in Nat, NEW to \in Nat
    PROVE  ZeroRange(data, from, to) \in [Slot -> Elem]
BY PodSlotsAssumption DEF ZeroRange

\* A non-empty set of numbers up to a bound has a largest one: the smallest
\* distance from the bound is well-founded.
LEMMA LargestExists ==
    ASSUME NEW n \in Nat, NEW S, S \subseteq 0 .. n, S # {}
    PROVE  \E b \in S : \A a \in S : a <= b
<1>. DEFINE Below == OpToRel(<, Nat)
            T == {n - b : b \in S}
<1>1. T \subseteq Nat /\ T # {}
  <2>1. \A b \in S : n - b \in Nat
      OBVIOUS
  <2>2. PICK b \in S : TRUE
      OBVIOUS
  <2>3. n - b \in T
      OBVIOUS
  <2>. QED
      BY <2>1, <2>3
<1>2. \E x \in T : \A y \in T : ~(<<y, x>> \in Below)
  <2>. HIDE DEF T, Below
  <2>1. IsWellFoundedOn(Below, Nat)
      BY NatLessThanWellFounded DEF Below
  <2>. QED
      BY <1>1, <2>1, WFMin
<1>3. PICK b \in S : \A y \in T : ~(<<y, n - b>> \in Below)
    BY <1>2
<1>4. ASSUME NEW a \in S PROVE a <= b
  <2>1. a \in Nat /\ b \in Nat /\ n - a \in Nat /\ n - b \in Nat /\ n - a \in T
      OBVIOUS
  <2>2. ~(n - a < n - b)
      BY <1>3, <2>1 DEF OpToRel
  <2>. QED
      BY <2>1, <2>2
<1>. QED
    BY <1>4

-----------------------------------------------------------------------------
(* The inductive invariant.                                                *)

BytesTyped ==
    /\ len \in 0 .. PrefixMax
    /\ slots \in [Slot -> Elem]
    /\ touched \subseteq Slot

IInv == BytesTyped /\ VacatedBytesAreZero /\ StaysUtf8

-----------------------------------------------------------------------------
(* Sequences cut into characters.                                          *)

\* Two texts with the same bytes in the same places are one text.
LEMMA SequencesEqual ==
    ASSUME NEW s \in Seq(Elem), NEW t \in Seq(Elem), Len(s) = Len(t),
           \A k \in 1 .. Len(s) : s[k] = t[k]
    PROVE  s = t
OBVIOUS

\* A slice is a given character when it has its bytes.
LEMMA SliceIsCharacter ==
    ASSUME NEW bytes \in Seq(Elem), NEW c \in Seq(Elem), NEW i \in Nat,
           i + Len(c) <= Len(bytes)
    PROVE  SubSeq(bytes, i + 1, i + Len(c)) = c
             <=> \A k \in 1 .. Len(c) : bytes[i + k] = c[k]
<1>. DEFINE s == SubSeq(bytes, i + 1, i + Len(c))
<1>1. Len(c) \in Nat /\ Len(bytes) \in Nat
    OBVIOUS
<1>2. s \in Seq(Elem) /\ Len(s) = Len(c) /\ \A k \in 1 .. Len(c) : s[k] = bytes[i + k]
    BY <1>1
<1>. HIDE DEF s
<1>3. (s = c) <=> \A k \in 1 .. Len(c) : s[k] = c[k]
    BY <1>1, <1>2
<1>. QED
    BY <1>2, <1>3 DEF s

\* Where a text can be cut: the ends of its characters.
Cuts(bytes, B) ==
    /\ B \subseteq 0 .. Len(bytes) /\ {0, Len(bytes)} \subseteq B
    /\ \A i \in B \ {Len(bytes)} :
           \E c \in Chars :
               /\ i + Len(c) \in B
               /\ \A j \in B : j <= i \/ j >= i + Len(c)
               /\ \A k \in 1 .. Len(c) : bytes[i + k] = c[k]

\* A text is UTF-8 exactly when it has a set of cuts between its characters.
LEMMA Utf8HasCuts ==
    ASSUME NEW bytes \in Seq(Elem)
    PROVE  IsUtf8(bytes) <=> \E B : Cuts(bytes, B)
<1>1. ASSUME NEW B \in SUBSET (0 .. Len(bytes)), NEW i \in B, NEW c \in Chars,
             i + Len(c) \in B
      PROVE  SubSeq(bytes, i + 1, i + Len(c)) = c
               <=> \A k \in 1 .. Len(c) : bytes[i + k] = c[k]
  <2>1. c \in Seq(Elem) /\ i \in Nat /\ i + Len(c) <= Len(bytes)
      BY <1>1, CharsAssumption
  <2>. QED
      BY <2>1, SliceIsCharacter
<1>2. ASSUME NEW B \in SUBSET (0 .. Len(bytes)), {0, Len(bytes)} \subseteq B
      PROVE  Cuts(bytes, B) <=>
               \A i \in B \ {Len(bytes)} :
                   \E c \in Chars :
                       /\ i + Len(c) \in B
                       /\ \A j \in B : j <= i \/ j >= i + Len(c)
                       /\ SubSeq(bytes, i + 1, i + Len(c)) = c
    BY <1>1, <1>2, ZenonT(60) DEF Cuts
<1>. QED
    BY <1>2, Zenon DEF IsUtf8, Cuts

\* A position that no continuation byte is at cuts a text.
LEMMA BoundaryIsCut ==
    ASSUME NEW bytes \in Seq(Elem), NEW B, Cuts(bytes, B), NEW b \in 0 .. Len(bytes),
           b \in {0, Len(bytes)} \/ bytes[b + 1] \notin Continuation
    PROVE  b \in B
<1>. SUFFICES ASSUME b \notin B PROVE FALSE
    OBVIOUS
<1>0. Len(bytes) \in Nat /\ B \subseteq 0 .. Len(bytes) /\ 0 \in B /\ Len(bytes) \in B
    BY DEF Cuts
<1>1. 0 < b /\ b < Len(bytes) /\ bytes[b + 1] \notin Continuation
    BY <1>0
<1>. DEFINE S == {a \in B : a <= b}
<1>2. PICK i \in S : \A a \in S : a <= i
  <2>1. ASSUME NEW a \in S PROVE a \in 0 .. b
    <3>1. a \in 0 .. Len(bytes) /\ a <= b
        BY <1>0
    <3>. QED
        BY <1>0, <3>1
  <2>2. 0 \in S
      BY <1>0, <1>1
  <2>3. b \in Nat
      BY <1>0
  <2>. HIDE DEF S
  <2>. QED
      BY <2>1, <2>2, <2>3, LargestExists
<1>3. i \in B /\ i \in Nat /\ i < b /\ i \in B \ {Len(bytes)}
    BY <1>0, <1>1, <1>2
<1>4. PICK c \in Chars : /\ i + Len(c) \in B
                         /\ \A k \in 1 .. Len(c) : bytes[i + k] = c[k]
  <2>1. \A j \in B \ {Len(bytes)} :
           \E c \in Chars :
               /\ j + Len(c) \in B
               /\ \A l \in B : l <= j \/ l >= j + Len(c)
               /\ \A k \in 1 .. Len(c) : bytes[j + k] = c[k]
      BY Zenon DEF Cuts
  <2>. QED
      BY <1>3, <2>1, Zenon
<1>5. Len(c) \in Nat /\ Len(c) >= 1
    BY CharsAssumption
<1>6. b < i + Len(c)
    BY <1>0, <1>1, <1>2, <1>3, <1>4, <1>5
<1>7. b + 1 - i \in 2 .. Len(c) /\ i + (b + 1 - i) = b + 1
    BY <1>1, <1>3, <1>5, <1>6
<1>8. bytes[b + 1] = c[b + 1 - i] /\ c[b + 1 - i] \in Continuation
    BY <1>4, <1>7, CharsAssumption
<1>. QED
    BY <1>1, <1>8

\* Cutting a text where no continuation byte is leaves a text.
LEMMA PrefixIsUtf8 ==
    ASSUME NEW bytes \in Seq(Elem), IsUtf8(bytes), NEW b \in 0 .. Len(bytes),
           b \in {0, Len(bytes)} \/ bytes[b + 1] \notin Continuation
    PROVE  IsUtf8(SubSeq(bytes, 1, b))
<1>. DEFINE s == SubSeq(bytes, 1, b)
<1>1. s \in Seq(Elem) /\ Len(s) = b /\ \A k \in 1 .. b : s[k] = bytes[k]
    OBVIOUS
<1>. HIDE DEF s
<1>2. PICK B : Cuts(bytes, B)
    BY Utf8HasCuts
<1>3. b \in B
    BY <1>2, BoundaryIsCut
<1>. DEFINE A == B \cap 0 .. b
<1>4. Cuts(s, A)
  <2>1. A \subseteq 0 .. Len(s) /\ {0, Len(s)} \subseteq A
      BY <1>1, <1>2, <1>3 DEF Cuts
  <2>2. ASSUME NEW i \in A \ {Len(s)}
        PROVE  \E c \in Chars :
                 /\ i + Len(c) \in A
                 /\ \A j \in A : j <= i \/ j >= i + Len(c)
                 /\ \A k \in 1 .. Len(c) : s[i + k] = c[k]
    <3>1. i \in B \ {Len(bytes)} /\ i \in Nat /\ i < b
        BY <1>1, <2>2
    <3>2. PICK c \in Chars : /\ i + Len(c) \in B
                             /\ \A j \in B : j <= i \/ j >= i + Len(c)
                             /\ \A k \in 1 .. Len(c) : bytes[i + k] = c[k]
        BY <1>2, <3>1 DEF Cuts
    <3>3. Len(c) \in Nat /\ Len(c) >= 1
        BY CharsAssumption
    <3>4. i + Len(c) <= b /\ i + Len(c) \in A
        BY <1>3, <3>1, <3>2, <3>3
    <3>5. \A k \in 1 .. Len(c) : s[i + k] = c[k]
        BY <1>1, <3>1, <3>2, <3>3, <3>4
    <3>. QED
        BY <3>2, <3>4, <3>5
  <2>. QED
      BY <2>1, <2>2 DEF Cuts
<1>. QED
    BY <1>1, <1>4, Utf8HasCuts DEF s

\* Two texts in a row are a text.
LEMMA ConcatenationIsUtf8 ==
    ASSUME NEW s \in Seq(Elem), NEW t \in Seq(Elem), IsUtf8(s), IsUtf8(t)
    PROVE  IsUtf8(s \o t)
<1>. DEFINE r == s \o t
            m == Len(s)
<1>1. /\ r \in Seq(Elem) /\ m \in Nat /\ Len(t) \in Nat /\ Len(r) = m + Len(t)
      /\ \A k \in 1 .. m : r[k] = s[k]
      /\ \A k \in 1 .. Len(t) : r[m + k] = t[k]
    OBVIOUS
<1>. HIDE DEF r
<1>2. PICK A : Cuts(s, A)
    BY Utf8HasCuts
<1>3. PICK B : Cuts(t, B)
    BY Utf8HasCuts
<1>. DEFINE C == A \cup {m + j : j \in B}
<1>4. A \subseteq 0 .. m /\ 0 \in A /\ m \in A /\ B \subseteq 0 .. Len(t) /\ 0 \in B /\ Len(t) \in B
    BY <1>1, <1>2, <1>3 DEF Cuts
<1>5. C \subseteq 0 .. Len(r) /\ {0, Len(r)} \subseteq C
  <2>1. \A j \in B : m + j \in 0 .. Len(r)
      BY <1>1, <1>4
  <2>2. A \subseteq 0 .. Len(r)
      BY <1>1, <1>4
  <2>3. m + Len(t) \in C
      BY <1>4
  <2>. QED
      BY <1>1, <1>4, <2>1, <2>2, <2>3
<1>6. ASSUME NEW i \in A, i # m
      PROVE  \E c \in Chars :
               /\ i + Len(c) \in C
               /\ \A j \in C : j <= i \/ j >= i + Len(c)
               /\ \A k \in 1 .. Len(c) : r[i + k] = c[k]
  <2>1. PICK c \in Chars : /\ i + Len(c) \in A
                           /\ \A j \in A : j <= i \/ j >= i + Len(c)
                           /\ \A k \in 1 .. Len(c) : s[i + k] = c[k]
      BY <1>2, <1>6 DEF Cuts
  <2>2. Len(c) \in Nat /\ i \in Nat /\ i + Len(c) <= m
      BY <1>1, <1>4, <2>1, CharsAssumption
  <2>3. \A j \in C : j <= i \/ j >= i + Len(c)
    <3>1. \A j \in B : m + j >= i + Len(c)
        BY <1>1, <1>4, <2>2
    <3>. QED
        BY <2>1, <3>1
  <2>4. \A k \in 1 .. Len(c) : r[i + k] = c[k]
      BY SMTT(60), <1>1, <2>1, <2>2
  <2>. QED
      BY <2>1, <2>3, <2>4
<1>7. ASSUME NEW k0 \in B, k0 # Len(t)
      PROVE  \E c \in Chars :
               /\ m + k0 + Len(c) \in C
               /\ \A j \in C : j <= m + k0 \/ j >= m + k0 + Len(c)
               /\ \A k \in 1 .. Len(c) : r[m + k0 + k] = c[k]
  <2>1. PICK c \in Chars : /\ k0 + Len(c) \in B
                           /\ \A j \in B : j <= k0 \/ j >= k0 + Len(c)
                           /\ \A k \in 1 .. Len(c) : t[k0 + k] = c[k]
      BY <1>3, <1>7 DEF Cuts
  <2>2. Len(c) \in Nat /\ k0 \in Nat /\ k0 + Len(c) <= Len(t)
      BY <1>1, <1>4, <2>1, CharsAssumption
  <2>3. m + k0 + Len(c) \in C
    <3>1. m + (k0 + Len(c)) \in C
        BY <2>1
    <3>. QED
        BY <1>1, <2>2, <3>1
  <2>4. ASSUME NEW j \in C PROVE j <= m + k0 \/ j >= m + k0 + Len(c)
    <3>1. CASE j \in A
        BY <1>1, <1>4, <2>2, <3>1
    <3>2. CASE j \in {m + l : l \in B}
      <4>1. PICK l \in B : j = m + l
          BY <3>2
      <4>2. l \in Nat /\ (l <= k0 \/ l >= k0 + Len(c))
          BY <1>1, <1>4, <2>1
      <4>. QED
          BY <1>1, <2>2, <4>1, <4>2
    <3>. QED
        BY <3>1, <3>2
  <2>5. ASSUME NEW k \in 1 .. Len(c) PROVE r[m + k0 + k] = c[k]
    <3>1. k0 + k \in 1 .. Len(t) /\ m + (k0 + k) = m + k0 + k
        BY <1>1, <2>2
    <3>. QED
        BY <1>1, <2>1, <3>1
  <2>. QED
      BY <2>3, <2>4, <2>5
<1>8. ASSUME NEW i \in C \ {Len(r)}
      PROVE  \E c \in Chars :
               /\ i + Len(c) \in C
               /\ \A j \in C : j <= i \/ j >= i + Len(c)
               /\ \A k \in 1 .. Len(c) : r[i + k] = c[k]
  <2>1. CASE i \in A /\ i # m
      BY <1>6, <2>1
  <2>2. CASE \E k0 \in B : i = m + k0 /\ k0 # Len(t)
      BY <1>7, <2>2
  <2>3. (i \in A /\ i # m) \/ \E k0 \in B : i = m + k0 /\ k0 # Len(t)
    <3>1. CASE i \in A /\ i = m
      <4>1. i = m + 0 /\ 0 # Len(t)
          BY <1>1, <1>8, <3>1
      <4>. QED
          BY <1>4, <4>1
    <3>2. CASE i \notin A
      <4>1. PICK l \in B : i = m + l
          BY <1>8, <3>2
      <4>. QED
          BY <1>1, <1>8, <4>1
    <3>. QED
        BY <3>1, <3>2
  <2>. QED
      BY <2>1, <2>2, <2>3
<1>9. Cuts(r, C)
  <2>. HIDE DEF C, m
  <2>. QED
      BY <1>5, <1>8 DEF Cuts
<1>. QED
    BY <1>1, <1>9, Utf8HasCuts DEF r

-----------------------------------------------------------------------------
(* Texts as sequences of characters.                                       *)

\* A set with 0 that holds the successor, up to n, of what it holds, holds
\* 0 .. n: a least number outside would have its predecessor inside.
LEMMA RangeInduction ==
    ASSUME NEW n \in Nat, NEW S, 0 \in S, \A i \in 1 .. n : i - 1 \in S => i \in S
    PROVE  \A i \in 0 .. n : i \in S
<1>. DEFINE Below == OpToRel(<, Nat)
            T == (0 .. n) \ S
<1>. SUFFICES ASSUME T # {} PROVE FALSE
    OBVIOUS
<1>1. \E x \in T : \A y \in T : ~(<<y, x>> \in Below)
  <2>1. T \subseteq Nat
      OBVIOUS
  <2>. HIDE DEF T, Below
  <2>2. IsWellFoundedOn(Below, Nat)
      BY NatLessThanWellFounded DEF Below
  <2>. QED
      BY <2>1, <2>2, WFMin
<1>2. PICK x \in T : \A y \in T : ~(<<y, x>> \in Below)
    BY <1>1
<1>3. x \in 1 .. n /\ x - 1 \in Nat /\ x \in Nat /\ x - 1 < x /\ x \notin S
    OBVIOUS
<1>4. x - 1 \notin T
    BY <1>2, <1>3 DEF OpToRel
<1>5. x - 1 \in S
    BY <1>3, <1>4
<1>. QED
    BY <1>3, <1>5

\* What is assumed of a character.
LEMMA CharFacts ==
    ASSUME NEW c \in Chars
    PROVE  /\ c \in Seq(Elem) /\ Len(c) \in Nat /\ Len(c) >= 1 /\ c[1] \notin Continuation
           /\ \A i \in 1 .. Len(c) : c[i] \in Elem
           /\ \A i \in 2 .. Len(c) : c[i] \in Continuation
BY CharsAssumption

Concat(a, b) == a \o b

\* Where the bytes of two texts in a row are.
LEMMA ConcatFacts ==
    ASSUME NEW a \in Seq(Elem), NEW b \in Seq(Elem)
    PROVE  /\ Concat(a, b) \in Seq(Elem) /\ Len(Concat(a, b)) = Len(a) + Len(b)
           /\ \A j \in 1 .. Len(a) : Concat(a, b)[j] = a[j]
           /\ \A j \in 1 .. Len(b) : Concat(a, b)[Len(a) + j] = b[j]
           /\ Len(a) \in Nat /\ Len(b) \in Nat
BY DEF Concat

\* F[i] is the first i members of s in a row.
Rows(s, n, F) ==
    /\ F[0] = << >>
    /\ \A i \in 1 .. n : F[i] = Concat(F[i - 1], s[i])
    /\ \A i \in 0 .. n : F[i] \in Seq(Elem)

\* The rows of a text exist, one longer at a time.
LEMMA RowsExist ==
    ASSUME NEW s \in Seq(Chars)
    PROVE  \E F : Rows(s, Len(s), F)
<1>. DEFINE n == Len(s)
            S == {m \in 0 .. n : \E F : Rows(s, m, F)}
<1>1. n \in Nat /\ \A i \in 1 .. n : s[i] \in Chars
    OBVIOUS
<1>2. 0 \in S
  <2>. DEFINE F == [i \in 0 .. 0 |-> << >>]
  <2>0. << >> \in Seq(Elem) /\ 0 .. 0 = {0} /\ 1 .. 0 = {}
      OBVIOUS
  <2>1. F[0] = << >>
      OBVIOUS
  <2>. HIDE DEF F
  <2>2. 1 .. 0 = {} /\ \A i \in 0 .. 0 : F[i] \in Seq(Elem)
      BY <2>0, <2>1, Zenon
  <2>3. \A i \in 1 .. 0 : F[i] = Concat(F[i - 1], s[i])
      BY <2>2
  <2>4. Rows(s, 0, F)
      BY <2>1, <2>2, <2>3 DEF Rows
  <2>. QED
      BY <1>1, <2>4
<1>3. ASSUME NEW m \in 1 .. n, m - 1 \in S PROVE m \in S
  <2>1. PICK F : Rows(s, m - 1, F)
      BY <1>3
  <2>. DEFINE G == [i \in 0 .. m |-> IF i = m THEN Concat(F[m - 1], s[m]) ELSE F[i]]
  <2>2. m \in Nat /\ m - 1 \in 0 .. m - 1 /\ s[m] \in Seq(Elem) /\ m \in 0 .. n
      BY <1>1, CharFacts
  <2>3. Concat(F[m - 1], s[m]) \in Seq(Elem)
      BY <2>1, <2>2, ConcatFacts DEF Rows
  <2>4. G[m] = Concat(F[m - 1], s[m]) /\ \A i \in 0 .. m - 1 : G[i] = F[i]
      BY <2>2
  <2>. HIDE DEF G
  <2>5. ASSUME NEW i \in 1 .. m PROVE G[i] = Concat(G[i - 1], s[i])
    <3>1. CASE i = m
        BY <2>2, <2>4, <3>1
    <3>2. CASE i # m
      <4>1. i \in 1 .. m - 1 /\ i \in 0 .. m - 1 /\ i - 1 \in 0 .. m - 1
          BY <2>2, <3>2
      <4>. QED
          BY <2>1, <2>4, <4>1 DEF Rows
    <3>. QED
        BY <3>1, <3>2
  <2>6. ASSUME NEW i \in 0 .. m PROVE G[i] \in Seq(Elem)
    <3>1. CASE i = m
        BY <2>3, <2>4, <3>1
    <3>2. CASE i # m
      <4>1. i \in 0 .. m - 1
          BY <2>2, <3>2
      <4>. QED
          BY <2>1, <2>4, <4>1 DEF Rows
    <3>. QED
        BY <3>1, <3>2
  <2>7. 0 \in 0 .. m - 1
      BY <2>2
  <2>8. Rows(s, m, G)
      BY <2>1, <2>4, <2>5, <2>6, <2>7 DEF Rows
  <2>. QED
      BY <2>2, <2>8
<1>4. \A m \in 0 .. n : m \in S
  <2>. HIDE DEF S
  <2>. QED
      BY <1>1, <1>2, <1>3, RangeInduction
<1>. QED
    BY <1>1, <1>4

\* The last row is what FlattenSeq computes.
LEMMA FlattenIsRow ==
    ASSUME NEW s \in Seq(Chars)
    PROVE  \E F : Rows(s, Len(s), F) /\ FlattenSeq(s) = F[Len(s)]
<1>. DEFINE n == Len(s)
            Recursion(f) ==
                f = [i \in 1 .. n |-> IF i = 1 THEN s[i] ELSE f[i - 1] \o s[i]]
            flatten == CHOOSE f : Recursion(f)
<1>1. n \in Nat /\ \A i \in 1 .. n : s[i] \in Chars /\ s[i] \in Seq(Elem)
    BY CharFacts
<1>2. PICK F : Rows(s, n, F)
    BY RowsExist
<1>3. CASE n = 0
  <2>1. FlattenSeq(s) = s /\ s = << >>
      BY <1>3 DEF FlattenSeq
  <2>. QED
      BY <1>2, <1>3, <2>1 DEF Rows
<1>4. CASE n # 0
  <2>. DEFINE h == [i \in 1 .. n |-> F[i]]
  <2>1. FlattenSeq(s) = flatten[n]
      BY <1>4 DEF FlattenSeq
  <2>2. \A i \in 1 .. n : F[i] = IF i = 1 THEN s[i] ELSE F[i - 1] \o s[i]
    <3>1. F[1] = s[1]
      <4>1. 1 \in 1 .. n /\ F[1] = Concat(F[0], s[1]) /\ F[0] = << >>
          BY <1>1, <1>2, <1>4 DEF Rows
      <4>2. ASSUME NEW c \in Seq(Elem) PROVE << >> \o c = c
          OBVIOUS
      <4>. QED
          BY <1>1, <4>1, <4>2 DEF Concat
    <3>. QED
        BY <1>2, <3>1 DEF Rows, Concat
  <2>3. \A i \in 1 .. n : h[i] = IF i = 1 THEN s[i] ELSE h[i - 1] \o s[i]
    <3>1. \A i \in 1 .. n : i # 1 => i - 1 \in 1 .. n
        BY <1>1
    <3>. QED
        BY <2>2, <3>1
  <2>4. Recursion(h)
    <3>. HIDE DEF n
    <3>1. h = [i \in 1 .. n |-> h[i]]
        OBVIOUS
    <3>. HIDE DEF h
    <3>. QED
        BY <2>3, <3>1
  <2>. HIDE DEF Recursion
  <2>5. Recursion(flatten)
      BY <2>4
  <2>. HIDE DEF flatten
  <2>6. \A i \in 1 .. n : flatten[i] = IF i = 1 THEN s[i] ELSE flatten[i - 1] \o s[i]
      BY <2>5 DEF Recursion
  <2>. DEFINE S == {i \in 0 .. n : i # 0 => flatten[i] = F[i]}
  <2>7. 0 \in S
      BY <1>1
  <2>8. ASSUME NEW i \in 1 .. n, i - 1 \in S PROVE i \in S
    <3>1. CASE i = 1
        BY <2>2, <2>6, <3>1
    <3>2. CASE i # 1
        BY <2>2, <2>6, <2>8, <3>2
    <3>. QED
        BY <3>1, <3>2
  <2>9. n \in S
    <3>. HIDE DEF S, n
    <3>1. \A i \in 0 .. n : i \in S
        BY <1>1, <2>7, <2>8, RangeInduction
    <3>. QED
        BY <1>1, <3>1
  <2>. QED
      BY <1>2, <1>4, <2>1, <2>9
<1>. QED
    BY <1>3, <1>4

\* f[k] bytes of the text are those of its first k characters.
Joined(s, f, bytes) ==
    /\ bytes \in Seq(Elem)
    /\ \A k \in 0 .. Len(s) : f[k] \in Nat
    /\ f[0] = 0 /\ f[Len(s)] = Len(bytes)
    /\ \A k \in 1 .. Len(s) :
         /\ f[k] = f[k - 1] + Len(s[k])
         /\ \A j \in 1 .. Len(s[k]) : bytes[f[k - 1] + j] = s[k][j]

\* FlattenSeq puts the characters where their lengths say.
LEMMA FlattenJoined ==
    ASSUME NEW s \in Seq(Chars)
    PROVE  \E f : Joined(s, f, FlattenSeq(s))
<1>. DEFINE n == Len(s)
<1>1. n \in Nat /\ \A i \in 1 .. n : s[i] \in Seq(Elem) /\ Len(s[i]) \in Nat
    BY CharFacts
<1>2. PICK F : Rows(s, n, F) /\ FlattenSeq(s) = F[n]
    BY FlattenIsRow
<1>. DEFINE f == [k \in 0 .. n |-> Len(F[k])]
            S == {i \in 0 .. n :
                     \A k \in 1 .. i :
                        /\ f[k] <= f[i] /\ f[k] = f[k - 1] + Len(s[k])
                        /\ \A j \in 1 .. Len(s[k]) : F[i][f[k - 1] + j] = s[k][j]}
<1>3. \A k \in 0 .. n : f[k] = Len(F[k]) /\ f[k] \in Nat /\ F[k] \in Seq(Elem)
    BY <1>2 DEF Rows
<1>4. f[0] = 0
    BY <1>1, <1>2 DEF Rows
<1>. HIDE DEF f
<1>5. 0 \in S
    BY <1>1
<1>6. ASSUME NEW i \in 1 .. n, i - 1 \in S PROVE i \in S
  <2>1. /\ i \in Nat /\ i \in 0 .. n /\ i - 1 \in 0 .. n /\ s[i] \in Seq(Elem) /\ Len(s[i]) \in Nat
        /\ f[i] \in Nat /\ f[i - 1] \in Nat
      BY <1>1, <1>3
  <2>2. /\ f[i] = f[i - 1] + Len(s[i])
        /\ \A j \in 1 .. f[i - 1] : F[i][j] = F[i - 1][j]
        /\ \A j \in 1 .. Len(s[i]) : F[i][f[i - 1] + j] = s[i][j]
    <3>1. F[i] = Concat(F[i - 1], s[i]) /\ F[i - 1] \in Seq(Elem) /\ f[i - 1] = Len(F[i - 1])
          /\ f[i] = Len(F[i])
        BY <1>2, <1>3, <2>1 DEF Rows
    <3>2. /\ Len(F[i]) = Len(F[i - 1]) + Len(s[i])
          /\ \A j \in 1 .. Len(F[i - 1]) : F[i][j] = F[i - 1][j]
          /\ \A j \in 1 .. Len(s[i]) : F[i][Len(F[i - 1]) + j] = s[i][j]
      <4>. DEFINE r == Concat(F[i - 1], s[i])
      <4>1. /\ Len(r) = Len(F[i - 1]) + Len(s[i])
            /\ \A j \in 1 .. Len(F[i - 1]) : r[j] = F[i - 1][j]
            /\ \A j \in 1 .. Len(s[i]) : r[Len(F[i - 1]) + j] = s[i][j]
          BY <2>1, <3>1, ConcatFacts
      <4>2. F[i] = r
          BY <3>1
      <4>. HIDE DEF r
      <4>. QED
          BY <4>1, <4>2, Zenon
    <3>. QED
        BY <3>1, <3>2, Zenon
  <2>3. ASSUME NEW k \in 1 .. i
        PROVE  /\ f[k] <= f[i] /\ f[k] = f[k - 1] + Len(s[k])
               /\ \A j \in 1 .. Len(s[k]) : F[i][f[k - 1] + j] = s[k][j]
    <3>1. CASE k = i
        BY <2>1, <2>2, <3>1
    <3>2. CASE k # i
      <4>1. k \in 1 .. i - 1 /\ k \in 1 .. n /\ k \in 0 .. n /\ k - 1 \in 0 .. n
          BY <2>1, <3>2
      <4>2. /\ f[k] <= f[i - 1] /\ f[k] = f[k - 1] + Len(s[k])
            /\ \A j \in 1 .. Len(s[k]) : F[i - 1][f[k - 1] + j] = s[k][j]
          BY <1>6, <4>1
      <4>3. f[k] \in Nat /\ f[k - 1] \in Nat /\ Len(s[k]) \in Nat
          BY <1>1, <1>3, <4>1
      <4>4. \A j \in 1 .. Len(s[k]) : f[k - 1] + j \in 1 .. f[i - 1]
        <5>1. f[i - 1] \in Nat /\ f[k - 1] + Len(s[k]) <= f[i - 1]
            BY <1>1, <1>3, <2>1, <4>2
        <5>. QED
            BY <4>3, <5>1
      <4>5. \A j \in 1 .. Len(s[k]) : F[i][f[k - 1] + j] = s[k][j]
          BY <2>2, <4>2, <4>4, Zenon
      <4>6. f[i - 1] <= f[i]
          BY <2>1, <2>2
      <4>7. f[k] <= f[i]
          BY <2>1, <4>2, <4>3, <4>6
      <4>. QED
          BY <4>2, <4>5, <4>7, Zenon
    <3>. QED
        BY <3>1, <3>2, Zenon
  <2>. QED
      BY <2>1, <2>3
<1>7. n \in S
  <2>. HIDE DEF S, n
  <2>1. \A i \in 0 .. n : i \in S
      BY <1>1, <1>5, <1>6, RangeInduction
  <2>. QED
      BY <1>1, <2>1
<1>8. n \in 0 .. n
    BY <1>1
<1>9. Joined(s, f, FlattenSeq(s))
    BY <1>2, <1>3, <1>4, <1>7, <1>8 DEF Joined
<1>. QED
    BY <1>9

\* Every character takes some bytes.
LEMMA OffsetsGrow ==
    ASSUME NEW s \in Seq(Chars), NEW f, NEW bytes, Joined(s, f, bytes)
    PROVE  /\ \A k, m \in 0 .. Len(s) : k < m => f[k] < f[m]
           /\ \A k, m \in 0 .. Len(s) : k <= m => f[k] <= f[m]
           /\ \A k \in 0 .. Len(s) : f[k] \in 0 .. Len(bytes) /\ k <= f[k]
<1>. DEFINE n == Len(s)
            S == {m \in 0 .. n : m <= f[m] /\ \A k \in 0 .. m : k < m => f[k] < f[m]}
<1>1. /\ n \in Nat /\ \A i \in 1 .. n : Len(s[i]) \in Nat /\ Len(s[i]) >= 1
      /\ \A k \in 0 .. n : f[k] \in Nat
      /\ \A i \in 1 .. n : f[i] = f[i - 1] + Len(s[i])
      /\ f[n] = Len(bytes) /\ Len(bytes) \in Nat /\ f[0] = 0
    BY CharFacts DEF Joined
<1>. HIDE DEF n
<1>2. 0 \in S
    BY <1>1
<1>3. ASSUME NEW m \in 1 .. n, m - 1 \in S PROVE m \in S
  <2>0. m \in Nat /\ m \in 0 .. n /\ m - 1 \in 0 .. n /\ m - 1 <= f[m - 1]
      BY <1>1, <1>3
  <2>1. /\ m \in 0 .. n /\ m - 1 \in 0 .. n /\ f[m - 1] \in Nat /\ f[m] \in Nat
        /\ f[m - 1] < f[m] /\ m - 1 <= f[m - 1] /\ m <= f[m]
    <3>1. f[m] = f[m - 1] + Len(s[m]) /\ Len(s[m]) \in Nat /\ Len(s[m]) >= 1
        BY <1>1
    <3>2. f[m - 1] \in Nat /\ f[m] \in Nat
        BY <1>1, <2>0
    <3>. QED
        BY <2>0, <3>1, <3>2
  <2>2. ASSUME NEW k \in 0 .. m, k < m PROVE f[k] < f[m]
    <3>1. k \in 0 .. m - 1 /\ k \in 0 .. n /\ f[k] \in Nat
        BY <1>1, <2>2
    <3>2. k = m - 1 \/ f[k] < f[m - 1]
        BY <1>3, <3>1
    <3>. QED
        BY <2>1, <3>1, <3>2
  <2>. QED
      BY <2>1, <2>2
<1>4. \A m \in 0 .. n : m \in S
  <2>. HIDE DEF S
  <2>. QED
      BY <1>1, <1>2, <1>3, RangeInduction
<1>5. ASSUME NEW k \in 0 .. n, NEW m \in 0 .. n
      PROVE  (k < m => f[k] < f[m]) /\ (k <= m => f[k] <= f[m])
  <2>1. k < m => f[k] < f[m]
      BY <1>1, <1>4
  <2>2. k = m => f[k] <= f[m]
      BY <1>1
  <2>. QED
      BY <1>1, <2>1, <2>2
<1>6. ASSUME NEW k \in 0 .. n
      PROVE  f[k] \in 0 .. Len(bytes) /\ k <= f[k]
  <2>1. f[k] <= f[n]
      BY <1>1, <1>5
  <2>. QED
      BY <1>1, <1>4, <2>1
<1>. QED
    BY <1>5, <1>6 DEF n

\* Every byte of a text is one of a character.
LEMMA BytesAreCovered ==
    ASSUME NEW s \in Seq(Chars), NEW f, NEW bytes, Joined(s, f, bytes),
           NEW p \in 1 .. Len(bytes)
    PROVE  \E k \in 1 .. Len(s) : \E j \in 1 .. Len(s[k]) : p = f[k - 1] + j
<1>. DEFINE n == Len(s)
            S == {k \in 0 .. n : f[k] < p}
<1>1. /\ n \in Nat /\ Len(bytes) \in Nat /\ p \in Nat
      /\ \A k \in 0 .. n : f[k] \in Nat
      /\ f[0] = 0 /\ f[n] = Len(bytes)
      /\ \A k \in 1 .. n : f[k] = f[k - 1] + Len(s[k]) /\ Len(s[k]) \in Nat
    BY CharFacts DEF Joined
<1>. HIDE DEF n
<1>2. S \subseteq 0 .. n /\ 0 \in S
    BY <1>1
<1>3. PICK k \in S : \A a \in S : a <= k
  <2>. HIDE DEF S
  <2>. QED
      BY <1>1, <1>2, LargestExists
<1>4. k # n /\ k \in Nat /\ k + 1 \in 1 .. n /\ k + 1 \in 0 .. n /\ (k + 1) - 1 = k
    BY <1>1
<1>5. f[k + 1] >= p /\ f[k + 1] = f[k] + Len(s[k + 1]) /\ Len(s[k + 1]) \in Nat /\ f[k] \in Nat
      /\ f[k] < p
    BY <1>1, <1>3, <1>4
<1>6. p - f[k] \in 1 .. Len(s[k + 1]) /\ p = f[(k + 1) - 1] + (p - f[k])
    BY <1>1, <1>4, <1>5
<1>. QED
    BY <1>4, <1>6 DEF n

\* What has the characters of s one after the other is FlattenSeq(s).
LEMMA JoinedIsFlatten ==
    ASSUME NEW s \in Seq(Chars), NEW f, NEW bytes, Joined(s, f, bytes)
    PROVE  bytes = FlattenSeq(s)
<1>. DEFINE n == Len(s)
            t == FlattenSeq(s)
<1>1. PICK g : Joined(s, g, t)
    BY FlattenJoined
<1>. HIDE DEF t
<1>2. n \in Nat /\ (\A k \in 1 .. n : Len(s[k]) \in Nat)
    BY CharFacts
<1>. DEFINE S == {k \in 0 .. n : f[k] = g[k]}
<1>3. \A k \in 0 .. n : k \in S
  <2>1. 0 \in S
      BY <1>1, <1>2 DEF Joined
  <2>2. ASSUME NEW k \in 1 .. n, k - 1 \in S PROVE k \in S
    <3>1. f[k] = f[k - 1] + Len(s[k]) /\ g[k] = g[k - 1] + Len(s[k])
        BY <1>1 DEF Joined
    <3>. QED
        BY <2>2, <3>1
  <2>. HIDE DEF S
  <2>. QED
      BY <1>2, <2>1, <2>2, RangeInduction
<1>4. Len(bytes) = Len(t) /\ bytes \in Seq(Elem) /\ t \in Seq(Elem)
    BY <1>1, <1>2, <1>3 DEF Joined
<1>5. ASSUME NEW p \in 1 .. Len(bytes) PROVE bytes[p] = t[p]
  <2>1. PICK k \in 1 .. n : \E j \in 1 .. Len(s[k]) : p = f[k - 1] + j
      BY BytesAreCovered
  <2>2. PICK j \in 1 .. Len(s[k]) : p = f[k - 1] + j
      BY <2>1
  <2>3. k - 1 \in 0 .. n /\ f[k - 1] = g[k - 1]
      BY <1>2, <1>3
  <2>4. bytes[f[k - 1] + j] = s[k][j] /\ t[g[k - 1] + j] = s[k][j]
      BY <1>1 DEF Joined
  <2>. QED
      BY <2>2, <2>3, <2>4
<1>6. bytes = t
    BY <1>4, <1>5, SequencesEqual
<1>. QED
    BY <1>6 DEF t

\* The ends of the characters are cuts.
LEMMA JoinedHasCuts ==
    ASSUME NEW s \in Seq(Chars), NEW f, NEW bytes, Joined(s, f, bytes)
    PROVE  Cuts(bytes, {f[k] : k \in 0 .. Len(s)})
<1>. DEFINE n == Len(s)
            B == {f[k] : k \in 0 .. n}
<1>1. /\ n \in Nat /\ bytes \in Seq(Elem) /\ Len(bytes) \in Nat
      /\ \A k \in 0 .. n : f[k] \in Nat
      /\ f[0] = 0 /\ f[n] = Len(bytes)
      /\ \A k \in 1 .. n : /\ s[k] \in Chars /\ f[k] = f[k - 1] + Len(s[k])
                           /\ \A j \in 1 .. Len(s[k]) : bytes[f[k - 1] + j] = s[k][j]
    BY DEF Joined
<1>2. /\ \A k, m \in 0 .. n : k <= m => f[k] <= f[m]
      /\ \A k \in 0 .. n : f[k] \in 0 .. Len(bytes)
    BY OffsetsGrow
<1>. HIDE DEF n
<1>3. B \subseteq 0 .. Len(bytes) /\ {0, Len(bytes)} \subseteq B
  <2>1. 0 \in 0 .. n /\ n \in 0 .. n
      BY <1>1
  <2>. QED
      BY <1>1, <1>2, <2>1
<1>4. ASSUME NEW i \in B \ {Len(bytes)}
      PROVE  \E c \in Chars :
               /\ i + Len(c) \in B
               /\ \A j \in B : j <= i \/ j >= i + Len(c)
               /\ \A k \in 1 .. Len(c) : bytes[i + k] = c[k]
  <2>1. PICK k \in 0 .. n : i = f[k]
      BY <1>4
  <2>2. k # n /\ k + 1 \in 1 .. n /\ k + 1 \in 0 .. n /\ (k + 1) - 1 = k
      BY <1>1, <1>4, <2>1
  <2>. DEFINE c == s[k + 1]
  <2>3. /\ c \in Chars /\ f[k + 1] = i + Len(c)
        /\ \A j \in 1 .. Len(c) : bytes[i + j] = c[j]
      BY <1>1, <2>1, <2>2
  <2>4. ASSUME NEW j \in B PROVE j <= i \/ j >= i + Len(c)
    <3>1. PICK m \in 0 .. n : j = f[m]
        BY <2>4
    <3>2. m <= k \/ k + 1 <= m
        BY <1>1
    <3>. QED
        BY <1>2, <2>1, <2>2, <2>3, <3>1, <3>2
  <2>5. i + Len(c) \in B
      BY <2>2, <2>3
  <2>. QED
      BY <2>3, <2>4, <2>5
<1>5. Cuts(bytes, B)
  <2>. HIDE DEF B
  <2>. QED
      BY <1>3, <1>4 DEF Cuts
<1>. QED
    BY <1>5 DEF n

\* What the program passes in is UTF-8.
LEMMA TextsAreUtf8 ==
    ASSUME NEW s \in Seq(Chars)
    PROVE  FlattenSeq(s) \in Seq(Elem) /\ IsUtf8(FlattenSeq(s))
<1>1. PICK f : Joined(s, f, FlattenSeq(s))
    BY FlattenJoined
<1>2. FlattenSeq(s) \in Seq(Elem)
    BY <1>1 DEF Joined
<1>. QED
    BY <1>1, <1>2, JoinedHasCuts, Utf8HasCuts

LEMMA InputsAreUtf8 ==
    ASSUME NEW value \in Inputs
    PROVE  value \in Seq(Elem) /\ IsUtf8(value)
<1>1. PICK s \in Offered : value = FlattenSeq(s)
    BY DEF Inputs
<1>2. s \in Seq(Chars)
    BY OfferedAssumption
<1>. QED
    BY <1>1, <1>2, TextsAreUtf8

\* A number at the end of a character is at the end of the same one whichever
\* way the text is cut.
LEMMA EndIsEnd ==
    ASSUME NEW s \in Seq(Chars), NEW f, NEW bytes, Joined(s, f, bytes),
           NEW b \in 0 .. Len(bytes),
           b \in {0, Len(bytes)} \/ bytes[b + 1] \notin Continuation
    PROVE  \E k \in 0 .. Len(s) : b = f[k]
<1>1. bytes \in Seq(Elem)
    BY DEF Joined
<1>. DEFINE B == {f[k] : k \in 0 .. Len(s)}
<1>2. Cuts(bytes, B)
    BY JoinedHasCuts
<1>3. b \in B
  <2>. HIDE DEF B
  <2>. QED
      BY <1>1, <1>2, BoundaryIsCut
<1>. QED
    BY <1>3

\* No character begins with a continuation byte.
LEMMA EndIsBoundary ==
    ASSUME NEW s \in Seq(Chars), NEW f, NEW bytes, Joined(s, f, bytes), NEW k \in 0 .. Len(s)
    PROVE  /\ f[k] \in 0 .. Len(bytes)
           /\ f[k] \in {0, Len(bytes)} \/ bytes[f[k] + 1] \notin Continuation
<1>1. f[k] \in 0 .. Len(bytes)
    BY OffsetsGrow
<1>2. CASE k = Len(s)
    BY <1>1, <1>2 DEF Joined
<1>3. CASE k # Len(s)
  <2>1. k + 1 \in 1 .. Len(s) /\ (k + 1) - 1 = k
      BY <1>3
  <2>2. s[k + 1] \in Chars
      BY <2>1
  <2>3. 1 \in 1 .. Len(s[k + 1]) /\ s[k + 1][1] \notin Continuation
      BY <2>2, CharFacts
  <2>4. bytes[f[k] + 1] = s[k + 1][1]
      BY <2>1, <2>3 DEF Joined
  <2>. QED
      BY <1>1, <2>3, <2>4
<1>. QED
    BY <1>2, <1>3

\* One of two ways to cut a text goes as far as the other: it cannot end in the
\* middle, and its next character ends where the other's does.
LEMMA CutsAgree ==
    ASSUME NEW s \in Seq(Chars), NEW f, NEW t \in Seq(Chars), NEW g, NEW bytes,
           Joined(s, f, bytes), Joined(t, g, bytes)
    PROVE  Len(s) <= Len(t) /\ \A k \in 1 .. Len(s) : s[k] = t[k]
<1>. DEFINE n == Len(s)
            m == Len(t)
            S == {k \in 0 .. n : k <= m /\ f[k] = g[k] /\ \A j \in 1 .. k : s[j] = t[j]}
<1>1. /\ n \in Nat /\ m \in Nat /\ bytes \in Seq(Elem)
      /\ \A k \in 0 .. n : f[k] \in Nat
      /\ \A k \in 0 .. m : g[k] \in Nat
      /\ f[0] = 0 /\ g[0] = 0 /\ f[n] = Len(bytes) /\ g[m] = Len(bytes)
      /\ \A k \in 1 .. n : /\ s[k] \in Chars /\ f[k] = f[k - 1] + Len(s[k])
                           /\ \A j \in 1 .. Len(s[k]) : bytes[f[k - 1] + j] = s[k][j]
      /\ \A k \in 1 .. m : /\ t[k] \in Chars /\ g[k] = g[k - 1] + Len(t[k])
                           /\ \A j \in 1 .. Len(t[k]) : bytes[g[k - 1] + j] = t[k][j]
    BY DEF Joined
<1>2. /\ \A k, l \in 0 .. n : k < l => f[k] < f[l]
      /\ \A k, l \in 0 .. m : k < l => g[k] < g[l]
    BY OffsetsGrow
<1>3. /\ \A k \in 0 .. n : \E l \in 0 .. m : f[k] = g[l]
      /\ \A l \in 0 .. m : \E k \in 0 .. n : g[l] = f[k]
  <2>1. ASSUME NEW k \in 0 .. n PROVE \E l \in 0 .. m : f[k] = g[l]
    <3>1. f[k] \in 0 .. Len(bytes)
          /\ (f[k] \in {0, Len(bytes)} \/ bytes[f[k] + 1] \notin Continuation)
        BY EndIsBoundary
    <3>. QED
        BY <3>1, EndIsEnd
  <2>2. ASSUME NEW l \in 0 .. m PROVE \E k \in 0 .. n : g[l] = f[k]
    <3>1. g[l] \in 0 .. Len(bytes)
          /\ (g[l] \in {0, Len(bytes)} \/ bytes[g[l] + 1] \notin Continuation)
        BY EndIsBoundary
    <3>. QED
        BY <3>1, EndIsEnd
  <2>. QED
      BY <2>1, <2>2
<1>. HIDE DEF n, m
<1>4. 0 \in S
    BY <1>1
<1>5. ASSUME NEW k \in 1 .. n, k - 1 \in S PROVE k \in S
  <2>1. k \in Nat /\ k \in 0 .. n /\ k - 1 \in 0 .. n /\ k - 1 \in 0 .. m /\ n \in 0 .. n
      BY <1>1, <1>5
  <2>2. f[k - 1] = g[k - 1] /\ \A j \in 1 .. k - 1 : s[j] = t[j]
      BY <1>5
  <2>3. f[k - 1] < f[k] /\ f[k] \in Nat /\ f[k - 1] \in Nat
      BY <1>1, <1>2, <2>1
  <2>4. PICK l \in 0 .. m : f[k] = g[l]
      BY <1>3, <2>1
  <2>5. l \in Nat /\ k <= l
    <3>1. l < k - 1 => g[l] < g[k - 1]
        BY <1>2, <2>1
    <3>2. ~(l < k - 1) /\ l # k - 1
        BY <1>1, <2>2, <2>3, <2>4, <3>1
    <3>. QED
        BY <1>1, <2>1, <3>2
  <2>6. k \in 1 .. m /\ k \in 0 .. m
      BY <1>1, <2>1, <2>5
  <2>7. g[k] = f[k]
    <3>1. SUFFICES ASSUME k < l PROVE FALSE
        BY <2>1, <2>4, <2>5
    <3>2. g[k] < f[k] /\ g[k - 1] < g[k]
        BY <1>2, <2>1, <2>4, <2>6, <3>1
    <3>3. PICK i \in 0 .. n : g[k] = f[i]
        BY <1>3, <2>6
    <3>4. i \in Nat /\ f[i] \in Nat
        BY <1>1
    <3>5. ~(i < k - 1) /\ i # k - 1 /\ ~(k < i) /\ i # k
      <4>1. i < k - 1 => f[i] < f[k - 1]
          BY <1>2, <2>1
      <4>2. k < i => f[k] < f[i]
          BY <1>2, <2>1
      <4>. QED
          BY <1>1, <2>2, <2>3, <3>2, <3>3, <3>4, <4>1, <4>2
    <3>. QED
        BY <2>1, <3>4, <3>5
  <2>8. s[k] = t[k]
    <3>1. s[k] \in Seq(Elem) /\ t[k] \in Seq(Elem) /\ Len(s[k]) \in Nat /\ Len(t[k]) \in Nat
        BY <1>1, <2>6, CharFacts
    <3>2. f[k] = f[k - 1] + Len(s[k]) /\ g[k] = g[k - 1] + Len(t[k])
        BY <1>1, <2>6
    <3>3. Len(s[k]) = Len(t[k])
        BY <2>2, <2>3, <2>7, <3>1, <3>2
    <3>4. \A j \in 1 .. Len(s[k]) : s[k][j] = t[k][j]
      <4>1. \A j \in 1 .. Len(s[k]) : bytes[f[k - 1] + j] = s[k][j]
          BY <1>1
      <4>2. \A j \in 1 .. Len(t[k]) : bytes[g[k - 1] + j] = t[k][j]
          BY <1>1, <2>6
      <4>. QED
          BY <2>2, <3>3, <4>1, <4>2, Zenon
    <3>. QED
        BY <3>1, <3>3, <3>4, SequencesEqual
  <2>9. \A j \in 1 .. k : s[j] = t[j]
    <3>1. \A j \in 1 .. k : j = k \/ j \in 1 .. k - 1
        BY <2>1
    <3>. QED
        BY <2>2, <2>8, <3>1
  <2>. QED
      BY <2>1, <2>6, <2>7, <2>9
<1>6. \A k \in 0 .. n : k \in S
  <2>. HIDE DEF S
  <2>. QED
      BY <1>1, <1>4, <1>5, RangeInduction
<1>7. n \in S
    BY <1>1, <1>6
<1>. QED
    BY <1>7 DEF n, m

\* The bytes of a text determine its characters.
LEMMA CharactersDetermined ==
    ASSUME NEW s \in Seq(Chars), NEW f, NEW t \in Seq(Chars), NEW g, NEW bytes,
           Joined(s, f, bytes), Joined(t, g, bytes)
    PROVE  s = t
<1>1. Len(s) <= Len(t) /\ Len(t) <= Len(s) /\ \A k \in 1 .. Len(s) : s[k] = t[k]
    BY CutsAgree
<1>. QED
    BY <1>1

\* A longer row of characters.
LEMMA OneMoreCharacter ==
    ASSUME NEW bytes \in Seq(Elem), NEW i \in 0 .. Len(bytes), NEW c \in Chars,
           i + Len(c) <= Len(bytes), \A j \in 1 .. Len(c) : bytes[i + j] = c[j],
           NEW s \in Seq(Chars), NEW f, Joined(s, f, SubSeq(bytes, 1, i))
    PROVE  \E t \in Seq(Chars) : \E g : Joined(t, g, SubSeq(bytes, 1, i + Len(c)))
<1>. DEFINE n == Len(s)
            head == SubSeq(bytes, 1, i)
            more == SubSeq(bytes, 1, i + Len(c))
            t == Append(s, c)
            g == [k \in 0 .. n + 1 |-> IF k = n + 1 THEN i + Len(c) ELSE f[k]]
<1>1. /\ n \in Nat /\ i \in Nat /\ Len(c) \in Nat /\ Len(bytes) \in Nat
      /\ \A k \in 1 .. n : s[k] \in Chars /\ Len(s[k]) \in Nat
    BY CharFacts
<1>2. /\ head \in Seq(Elem) /\ Len(head) = i /\ \A k \in 1 .. i : head[k] = bytes[k]
      /\ more \in Seq(Elem) /\ Len(more) = i + Len(c)
      /\ \A k \in 1 .. i + Len(c) : more[k] = bytes[k]
    BY <1>1
<1>3. t \in Seq(Chars) /\ Len(t) = n + 1 /\ t[n + 1] = c /\ \A k \in 1 .. n : t[k] = s[k]
    BY <1>1
<1>4. g[n + 1] = i + Len(c) /\ \A k \in 0 .. n : g[k] = f[k]
    BY <1>1
<1>5. /\ \A k \in 0 .. n : f[k] \in Nat
      /\ f[0] = 0 /\ f[n] = i
      /\ \A k \in 1 .. n : /\ f[k] = f[k - 1] + Len(s[k])
                           /\ \A j \in 1 .. Len(s[k]) : head[f[k - 1] + j] = s[k][j]
    BY <1>2 DEF Joined
<1>6. \A k \in 0 .. n : f[k] <= i
  <2>. HIDE DEF head, more, t, g
  <2>1. Joined(s, f, head)
      BY DEF head
  <2>2. \A k \in 0 .. n : f[k] \in 0 .. Len(head)
      BY <2>1, OffsetsGrow
  <2>. QED
      BY <1>1, <1>2, <2>2
<1>. HIDE DEF head, more, t, g, n
<1>7. \A k \in 0 .. n + 1 : g[k] \in Nat
  <2>1. \A k \in 0 .. n + 1 : k = n + 1 \/ k \in 0 .. n
      BY <1>1
  <2>2. i + Len(c) \in Nat
      BY <1>1
  <2>. QED
      BY <1>4, <1>5, <2>1, <2>2
<1>8. g[0] = 0 /\ g[n + 1] = Len(more)
    BY <1>1, <1>2, <1>4, <1>5
<1>9. ASSUME NEW k \in 1 .. n + 1
      PROVE  /\ g[k] = g[k - 1] + Len(t[k])
             /\ \A j \in 1 .. Len(t[k]) : more[g[k - 1] + j] = t[k][j]
  <2>1. CASE k = n + 1
    <3>1. k - 1 = n /\ n \in 0 .. n
        BY <1>1, <2>1
    <3>2. g[k - 1] = i /\ t[k] = c
        BY <1>3, <1>4, <1>5, <2>1, <3>1
    <3>3. \A j \in 1 .. Len(c) : i + j \in 1 .. i + Len(c)
        BY <1>1
    <3>. QED
        BY <1>2, <1>4, <2>1, <3>2, <3>3
  <2>2. CASE k # n + 1
    <3>1. k \in 1 .. n /\ k \in 0 .. n /\ k - 1 \in 0 .. n
        BY <1>1, <2>2
    <3>2. g[k] = f[k] /\ g[k - 1] = f[k - 1] /\ t[k] = s[k]
        BY <1>3, <1>4, <3>1
    <3>3. f[k] = f[k - 1] + Len(s[k]) /\ f[k] <= i /\ f[k - 1] \in Nat /\ Len(s[k]) \in Nat
        BY <1>1, <1>5, <1>6, <3>1
    <3>4. \A j \in 1 .. Len(s[k]) : f[k - 1] + j \in 1 .. i /\ f[k - 1] + j \in 1 .. i + Len(c)
        BY <1>1, <3>3
    <3>5. \A j \in 1 .. Len(s[k]) : more[f[k - 1] + j] = s[k][j]
        BY <1>2, <1>5, <3>1, <3>4
    <3>. QED
        BY <3>2, <3>3, <3>5
  <2>. QED
      BY <2>1, <2>2
<1>10. Joined(t, g, more)
    BY <1>2, <1>3, <1>7, <1>8, <1>9 DEF Joined
<1>. QED
    BY <1>3, <1>10 DEF more

\* UTF-8 is a row of characters.
LEMMA Utf8Joins ==
    ASSUME NEW bytes \in Seq(Elem), IsUtf8(bytes)
    PROVE  \E s \in Seq(Chars) : \E f : Joined(s, f, bytes)
<1>. DEFINE n == Len(bytes)
            Reached(i) == \E s \in Seq(Chars) : \E f : Joined(s, f, SubSeq(bytes, 1, i))
<1>1. PICK B : Cuts(bytes, B)
    BY Utf8HasCuts
<1>2. n \in Nat /\ B \subseteq 0 .. n /\ 0 \in B /\ n \in B
    BY <1>1 DEF Cuts
<1>. DEFINE S == {i \in 0 .. n : \A b \in B : b <= i => Reached(b)}
<1>3. Reached(0)
  <2>. DEFINE f == [k \in 0 .. 0 |-> 0]
              none == SubSeq(bytes, 1, 0)
  <2>1. none \in Seq(Elem) /\ Len(none) = 0
      BY <1>2
  <2>2. << >> \in Seq(Chars) /\ Len(<< >>) = 0
      OBVIOUS
  <2>3. \A k \in 0 .. 0 : f[k] = 0
      OBVIOUS
  <2>. HIDE DEF f, none
  <2>4. f[0] = 0 /\ \A k \in 1 .. 0 : FALSE
      BY <2>3
  <2>5. Joined(<< >>, f, none)
      BY <2>1, <2>2, <2>3, <2>4 DEF Joined
  <2>. QED
      BY <2>2, <2>5 DEF none
<1>4. 0 \in S
  <2>. HIDE DEF Reached
  <2>1. \A b \in B : b <= 0 => b = 0
      BY <1>2
  <2>. QED
      BY <1>2, <1>3, <2>1
<1>5. ASSUME NEW i \in 1 .. n, i - 1 \in S PROVE i \in S
  <2>1. i \in Nat /\ i \in 0 .. n
      BY <1>2
  <2>2. ASSUME i \in B PROVE Reached(i)
    <3>. DEFINE Before == {b \in B : b < i}
    <3>1. Before \subseteq 0 .. n /\ 0 \in Before
      <4>1. 0 < i
          BY <2>1
      <4>. HIDE DEF n, S, Reached
      <4>. QED
          BY <1>2, <4>1
    <3>2. PICK a \in Before : \A b \in Before : b <= a
      <4>. HIDE DEF Before
      <4>. QED
          BY <1>2, <3>1, LargestExists
    <3>3. a \in B /\ a \in Nat /\ a < i /\ a # n /\ a \in 0 .. n /\ a <= i - 1
        BY <1>2, <2>1, <3>2
    <3>4. PICK c \in Chars :
              /\ a + Len(c) \in B
              /\ \A j \in B : j <= a \/ j >= a + Len(c)
              /\ \A k \in 1 .. Len(c) : bytes[a + k] = c[k]
        BY <1>1, <3>3 DEF Cuts
    <3>5. Len(c) \in Nat /\ Len(c) >= 1
        BY CharFacts
    <3>6. a + Len(c) = i
      <4>1. a + Len(c) <= i
          BY <2>2, <3>3, <3>4, <3>5
      <4>2. ~(a + Len(c) < i)
          BY <3>2, <3>3, <3>4, <3>5
      <4>. QED
          BY <2>1, <3>3, <3>5, <4>1, <4>2
    <3>7. Reached(a)
        BY <1>5, <3>3
    <3>8. PICK s \in Seq(Chars) : \E f : Joined(s, f, SubSeq(bytes, 1, a))
        BY <3>7
    <3>9. Reached(a + Len(c))
        BY <2>1, <3>3, <3>4, <3>6, <3>8, OneMoreCharacter
    <3>. QED
        BY <3>6, <3>9
  <2>. HIDE DEF Reached
  <2>3. ASSUME NEW b \in B, b <= i PROVE Reached(b)
    <3>1. b = i \/ b <= i - 1
        BY <1>2, <2>1, <2>3
    <3>. QED
        BY <1>5, <2>2, <3>1
  <2>. QED
      BY <2>1, <2>3
<1>6. Reached(n)
  <2>. HIDE DEF S, Reached
  <2>1. n \in S
    <3>1. \A i \in 0 .. n : i \in S
        BY <1>2, <1>4, <1>5, RangeInduction
    <3>. QED
        BY <1>2, <3>1
  <2>. QED
      BY <1>2, <2>1 DEF S
<1>7. SubSeq(bytes, 1, n) = bytes
    OBVIOUS
<1>. QED
    BY <1>6, <1>7

\* Characters finds the characters of a text.
LEMMA CharactersAre ==
    ASSUME NEW s \in Seq(Chars), NEW f, NEW bytes, Joined(s, f, bytes)
    PROVE  Characters(bytes) = s
<1>. DEFINE Found(t) == t \in BoundedSeq(Chars, Len(bytes)) /\ FlattenSeq(t) = bytes
<1>1. s \in BoundedSeq(Chars, Len(bytes))
  <2>1. Len(s) \in 0 .. Len(s) /\ Len(s) \in Nat
      OBVIOUS
  <2>2. Len(s) <= Len(bytes) /\ Len(bytes) \in Nat
      BY <2>1, OffsetsGrow DEF Joined
  <2>3. s \in [1 .. Len(s) -> Chars] /\ Len(s) \in 0 .. Len(bytes)
      BY <2>1, <2>2
  <2>. QED
      BY <2>3 DEF BoundedSeq, SeqOf
<1>2. Found(s)
    BY <1>1, JoinedIsFlatten
<1>3. ASSUME NEW t, Found(t) PROVE t = s
  <2>1. t \in Seq(Chars)
    <3>1. PICK m \in 0 .. Len(bytes) : t \in [1 .. m -> Chars]
        BY <1>3 DEF BoundedSeq, SeqOf
    <3>2. m \in Nat
        BY <3>1 DEF Joined
    <3>. QED
        BY <3>1, <3>2
  <2>2. PICK g : Joined(t, g, bytes)
      BY <1>3, <2>1, FlattenJoined
  <2>. QED
      BY <2>1, <2>2, CharactersDetermined
<1>4. Characters(bytes) = CHOOSE t : Found(t)
    BY DEF Characters
<1>. HIDE DEF Found
<1>. QED
    BY <1>2, <1>3, <1>4

LEMMA CharactersExist ==
    ASSUME NEW bytes \in Seq(Elem), IsUtf8(bytes)
    PROVE  /\ Characters(bytes) \in Seq(Chars)
           /\ FlattenSeq(Characters(bytes)) = bytes
           /\ \E f : Joined(Characters(bytes), f, bytes)
<1>1. PICK s \in Seq(Chars) : \E f : Joined(s, f, bytes)
    BY Utf8Joins
<1>2. PICK f : Joined(s, f, bytes)
    BY <1>1
<1>3. Characters(bytes) = s
    BY <1>2, CharactersAre
<1>. QED
    BY <1>2, <1>3, JoinedIsFlatten

-----------------------------------------------------------------------------
(* The calls.                                                              *)

ActiveText(n, data) == [k \in 1 .. n |-> data[k - 1]]

\* The first n slots, read in order, are a text of length n.
LEMMA ActiveIsText ==
    ASSUME NEW n \in 0 .. N, NEW data \in [Slot -> Elem]
    PROVE  /\ ActiveText(n, data) \in Seq(Elem) /\ Len(ActiveText(n, data)) = n
           /\ \A k \in 1 .. n : ActiveText(n, data)[k] = data[k - 1]
<1>1. \A k \in 1 .. n : k - 1 \in Slot
    BY PodSlotsAssumption DEF Slot
<1>2. n \in Nat
    BY PodSlotsAssumption
<1>. QED
    BY <1>1, <1>2 DEF ActiveText

\* What the string shows is a sequence of its first bytes.
LEMMA TextTyped ==
    ASSUME BytesTyped
    PROVE  /\ ActiveLen \in 0 .. N /\ Text = ActiveText(ActiveLen, slots)
           /\ Text \in Seq(Elem) /\ Len(Text) = ActiveLen
           /\ \A k \in 1 .. ActiveLen : Text[k] = slots[k - 1]
<1>1. ActiveLen \in 0 .. N
    BY ClampIsBounded DEF BytesTyped, ActiveLen
<1>2. Text = ActiveText(ActiveLen, slots)
    BY DEF Text, Active, ActiveLen, ActiveText
<1>. QED
    BY <1>1, <1>2, ActiveIsText DEF BytesTyped

\* A call that stores n bytes over data keeps the invariant when what it
\* shows is a text, and it has zeros behind it wherever the string had bytes
\* or zeros.
LEMMA StoreKeepsInvariant ==
    ASSUME IInv, NEW n \in 0 .. N, NEW data \in [Slot -> Elem], NEW answer,
           Store(n, data, answer), IsUtf8(ActiveText(n, data)),
           \A k \in Slot : k >= n /\ (k < ActiveLen \/ slots[k] = Zero) => data[k] = Zero
    PROVE  IInv' /\ Text' = ActiveText(n, data)
<1>1. len' = n /\ ActiveLen' = n /\ slots' = data
    BY EncodeLenIsExact DEF Store, ActiveLen
<1>2. touched' = touched \cup 0 .. n - 1
    BY EncodeLenIsExact DEF Store
<1>3. BytesTyped'
  <2>1. len' \in 0 .. PrefixMax
      BY <1>1, PodSlotsAssumption
  <2>2. touched' \subseteq Slot
      BY <1>2, PodSlotsAssumption DEF IInv, BytesTyped, Slot
  <2>. QED
      BY <1>1, <2>1, <2>2 DEF BytesTyped
<1>4. VacatedBytesAreZero'
  <2>. SUFFICES ASSUME NEW k \in touched', k >= n
                PROVE  data[k] = Zero
      BY <1>1 DEF VacatedBytesAreZero
  <2>1. k \in touched /\ k \in Slot
      BY <1>2 DEF IInv, BytesTyped
  <2>2. ActiveLen \in 0 .. N
      BY TextTyped DEF IInv
  <2>3. k < ActiveLen \/ slots[k] = Zero
      BY <2>1, <2>2, PodSlotsAssumption DEF IInv, VacatedBytesAreZero, Slot
  <2>. QED
      BY <2>1, <2>3
<1>5. Text' = ActiveText(n, data)
    BY <1>1 DEF Text, Active, ActiveLen, ActiveText
<1>6. StaysUtf8'
    BY <1>5 DEF StaysUtf8
<1>. QED
    BY <1>3, <1>4, <1>5, <1>6 DEF IInv

\* A refused write and a read leave the invariant alone.
LEMMA UnchangedKeepsInvariant ==
    ASSUME IInv, NEW answer, Unchanged(answer)
    PROVE  IInv'
BY DEF IInv, BytesTyped, VacatedBytesAreZero, StaysUtf8, Text, ActiveLen, Unchanged

\* Any bytes that show a text satisfy the invariant.
LEMMA InitInvariant == Init => IInv
<1>. SUFFICES ASSUME Init PROVE IInv
    OBVIOUS
<1>1. ActiveLen \in 0 .. N
    BY ClampIsBounded DEF Init, ActiveLen
<1>. QED
    BY <1>1, PodSlotsAssumption
    DEF Init, IInv, BytesTyped, VacatedBytesAreZero, StaysUtf8, Slot

\* try_set shows the value, and zeroes what a longer old one leaves.
LEMMA TrySetKeepsInvariant ==
    ASSUME IInv, NEW value \in Inputs, TrySet(value)
    PROVE  IInv' /\ (~(Len(value) > N) => Text' = value)
<1>. DEFINE n == Len(value)
            copied == CopyTo(slots, 0, value)
            data == IF n < ActiveLen THEN ZeroRange(copied, n, ActiveLen) ELSE copied
<1>1. value \in Seq(Elem) /\ IsUtf8(value) /\ n \in Nat
    BY InputsAreUtf8
<1>2. ActiveLen \in 0 .. N /\ slots \in [Slot -> Elem]
    BY TextTyped DEF IInv, BytesTyped
<1>3. CASE n > N
    BY <1>3, UnchangedKeepsInvariant DEF TrySet
<1>4. CASE ~(n > N)
  <2>1. n \in 0 .. N
      BY <1>1, <1>4, PodSlotsAssumption
  <2>2. /\ copied \in [Slot -> Elem]
        /\ \A k \in Slot : copied[k] = IF k < n THEN value[k + 1] ELSE slots[k]
      BY <1>1, <1>2, CopyToType, PodSlotsAssumption DEF CopyTo, Slot
  <2>3. /\ data \in [Slot -> Elem]
        /\ \A k \in Slot : data[k] = IF k < n THEN value[k + 1]
                                     ELSE IF k < ActiveLen THEN Zero ELSE slots[k]
    <3>. HIDE DEF copied
    <3>1. CASE n < ActiveLen
      <4>1. ZeroRange(copied, n, ActiveLen) \in [Slot -> Elem]
          BY <1>2, <2>1, <2>2, ZeroRangeType, PodSlotsAssumption
      <4>. QED
          BY <1>2, <2>1, <2>2, <3>1, <4>1, PodSlotsAssumption DEF ZeroRange, Slot
    <3>2. CASE ~(n < ActiveLen)
        BY <1>2, <2>1, <2>2, <3>2, PodSlotsAssumption DEF Slot
    <3>. QED
        BY <3>1, <3>2
  <2>4. Store(n, data, Done)
      BY <1>4 DEF TrySet
  <2>. HIDE DEF data
  <2>5. ActiveText(n, data) = value
    <3>1. /\ ActiveText(n, data) \in Seq(Elem) /\ Len(ActiveText(n, data)) = n
          /\ \A k \in 1 .. n : ActiveText(n, data)[k] = data[k - 1]
        BY <2>1, <2>3, ActiveIsText
    <3>2. \A k \in 1 .. n : data[k - 1] = value[k]
        BY <2>1, <2>3, PodSlotsAssumption DEF Slot
    <3>. QED
        BY <1>1, <3>1, <3>2
  <2>6. \A k \in Slot : k >= n /\ (k < ActiveLen \/ slots[k] = Zero) => data[k] = Zero
      BY <2>1, <2>3, PodSlotsAssumption DEF Slot
  <2>. HIDE DEF n
  <2>. QED
      BY <1>1, <2>1, <2>3, <2>4, <2>5, <2>6, StoreKeepsInvariant
<1>. QED
    BY <1>3, <1>4

\* try_push_str shows the old text followed by the value.
LEMMA TryPushStrKeepsInvariant ==
    ASSUME IInv, NEW value \in Inputs, TryPushStr(value)
    PROVE  IInv' /\ (~(ActiveLen + Len(value) > N) => Text' = Text \o value)
<1>. DEFINE n == ActiveLen + Len(value)
            data == CopyTo(slots, ActiveLen, value)
<1>1. value \in Seq(Elem) /\ IsUtf8(value) /\ Len(value) \in Nat
    BY InputsAreUtf8
<1>2. /\ ActiveLen \in 0 .. N /\ ActiveLen \in Nat /\ slots \in [Slot -> Elem]
      /\ Text \in Seq(Elem) /\ Len(Text) = ActiveLen
      /\ \A k \in 1 .. ActiveLen : Text[k] = slots[k - 1]
    BY TextTyped, PodSlotsAssumption DEF IInv, BytesTyped
<1>3. CASE n > N
    BY <1>3, UnchangedKeepsInvariant DEF TryPushStr
<1>4. CASE ~(n > N)
  <2>1. n \in 0 .. N
      BY <1>1, <1>2, <1>4, PodSlotsAssumption
  <2>2. /\ data \in [Slot -> Elem]
        /\ \A k \in Slot : data[k] = IF ActiveLen <= k /\ k < n THEN value[k - ActiveLen + 1]
                                     ELSE slots[k]
      BY <1>1, <1>2, CopyToType DEF CopyTo
  <2>3. Store(n, data, Done)
      BY <1>4 DEF TryPushStr
  <2>. HIDE DEF data
  <2>4. ActiveText(n, data) = Text \o value
    <3>1. /\ ActiveText(n, data) \in Seq(Elem) /\ Len(ActiveText(n, data)) = n
          /\ \A k \in 1 .. n : ActiveText(n, data)[k] = data[k - 1]
        BY <2>1, <2>2, ActiveIsText
    <3>2. /\ Text \o value \in Seq(Elem) /\ Len(Text \o value) = n
          /\ \A k \in 1 .. n : (Text \o value)[k] = IF k <= ActiveLen THEN Text[k]
                                                    ELSE value[k - ActiveLen]
        BY <1>1, <1>2
    <3>3. ASSUME NEW k \in 1 .. n
          PROVE  data[k - 1] = IF k <= ActiveLen THEN Text[k] ELSE value[k - ActiveLen]
      <4>1. k - 1 \in Slot /\ (k - 1) - ActiveLen + 1 = k - ActiveLen
          BY <1>2, <2>1, PodSlotsAssumption DEF Slot
      <4>. QED
          BY <1>1, <1>2, <2>1, <2>2, <4>1
    <3>4. \A k \in 1 .. n : ActiveText(n, data)[k] = (Text \o value)[k]
        BY <3>1, <3>2, <3>3
    <3>. QED
        BY <3>1, <3>2, <3>4, SequencesEqual
  <2>5. IsUtf8(Text \o value)
      BY <1>1, <1>2, ConcatenationIsUtf8 DEF IInv, StaysUtf8
  <2>6. \A k \in Slot : k >= n /\ (k < ActiveLen \/ slots[k] = Zero) => data[k] = Zero
      BY <1>1, <1>2, <2>1, <2>2, PodSlotsAssumption DEF Slot
  <2>. HIDE DEF n
  <2>. QED
      BY <2>1, <2>2, <2>3, <2>4, <2>5, <2>6, StoreKeepsInvariant
<1>. QED
    BY <1>3, <1>4

\* Zeroing from a boundary on keeps the invariant.
LEMMA CutKeepsInvariant ==
    ASSUME IInv, NEW b \in 0 .. ActiveLen, IsCharBoundary(b), NEW answer,
           Store(b, ZeroRange(slots, b, ActiveLen), answer)
    PROVE  IInv' /\ Text' = SubSeq(Text, 1, b)
<1>. DEFINE data == ZeroRange(slots, b, ActiveLen)
<1>1. /\ ActiveLen \in 0 .. N /\ ActiveLen \in Nat /\ slots \in [Slot -> Elem]
      /\ Text \in Seq(Elem) /\ Len(Text) = ActiveLen
      /\ \A k \in 1 .. ActiveLen : Text[k] = slots[k - 1]
    BY TextTyped, PodSlotsAssumption DEF IInv, BytesTyped
<1>2. b \in 0 .. N /\ b \in Nat
    BY <1>1, PodSlotsAssumption
<1>3. /\ data \in [Slot -> Elem]
      /\ \A k \in Slot : data[k] = IF b <= k /\ k < ActiveLen THEN Zero ELSE slots[k]
    BY <1>1, <1>2, ZeroRangeType DEF ZeroRange
<1>4. b \in {0, Len(Text)} \/ Text[b + 1] \notin Continuation
  <2>1. CASE b \in {0, ActiveLen}
      BY <1>1, <2>1
  <2>2. CASE b \notin {0, ActiveLen}
    <3>1. b + 1 \in 1 .. ActiveLen /\ b + 1 - 1 = b
        BY <1>1, <1>2, <2>2
    <3>2. Text[b + 1] = slots[b]
        BY <1>1, <3>1
    <3>. QED
        BY <2>2, <3>2 DEF IsCharBoundary
  <2>. QED
      BY <2>1, <2>2
<1>5. IsUtf8(SubSeq(Text, 1, b))
    BY <1>1, <1>4, PrefixIsUtf8 DEF IInv, StaysUtf8
<1>. HIDE DEF data
<1>6. ActiveText(b, data) = SubSeq(Text, 1, b)
  <2>1. /\ ActiveText(b, data) \in Seq(Elem) /\ Len(ActiveText(b, data)) = b
        /\ \A k \in 1 .. b : ActiveText(b, data)[k] = data[k - 1]
      BY <1>2, <1>3, ActiveIsText
  <2>2. /\ SubSeq(Text, 1, b) \in Seq(Elem) /\ Len(SubSeq(Text, 1, b)) = b
        /\ \A k \in 1 .. b : SubSeq(Text, 1, b)[k] = Text[k]
      BY <1>1, <1>2
  <2>3. \A k \in 1 .. b : data[k - 1] = Text[k]
      BY <1>1, <1>2, <1>3, PodSlotsAssumption DEF Slot
  <2>. QED
      BY <1>2, <2>1, <2>2, <2>3
<1>7. \A k \in Slot : k >= b /\ (k < ActiveLen \/ slots[k] = Zero) => data[k] = Zero
    BY <1>1, <1>2, <1>3, PodSlotsAssumption DEF Slot
<1>8. Store(b, data, answer)
    BY DEF data
<1>. QED
    BY <1>2, <1>3, <1>5, <1>6, <1>7, <1>8, StoreKeepsInvariant

\* The walk down from n stops at the last boundary: position 0 is one.
LEMMA BoundaryExists ==
    ASSUME NEW n \in Nat
    PROVE  /\ Boundary(n) \in 0 .. n /\ IsCharBoundary(Boundary(n))
           /\ \A a \in Boundary(n) + 1 .. n : ~IsCharBoundary(a)
<1>. DEFINE S == {b \in 0 .. n : IsCharBoundary(b)}
<1>1. 0 \in S /\ S \subseteq 0 .. n
    BY DEF IsCharBoundary
<1>2. \E b \in S : \A a \in S : a <= b
    BY <1>1, LargestExists
<1>3. \E b \in 0 .. n : IsCharBoundary(b) /\ \A a \in b + 1 .. n : ~IsCharBoundary(a)
  <2>1. PICK b \in S : \A a \in S : a <= b
      BY <1>2
  <2>2. ASSUME NEW a \in b + 1 .. n PROVE ~IsCharBoundary(a)
    <3>1. b \in 0 .. n /\ a \in 0 .. n /\ ~(a <= b)
        OBVIOUS
    <3>. QED
        BY <2>1, <3>1
  <2>. QED
      BY <2>2
<1>. QED
    BY <1>3 DEF Boundary

\* truncate cuts at a boundary, or not at all.
LEMMA TruncateKeepsInvariant ==
    ASSUME IInv, NEW n \in 0 .. N, Truncate(n)
    PROVE  IInv'
<1>1. n \in Nat /\ ActiveLen \in 0 .. N
    BY TextTyped, PodSlotsAssumption DEF IInv
<1>2. CASE n >= ActiveLen
    BY <1>2, UnchangedKeepsInvariant DEF Truncate
<1>3. CASE ~(n >= ActiveLen)
  <2>1. Boundary(n) \in 0 .. ActiveLen /\ IsCharBoundary(Boundary(n))
    <3>. DEFINE b == Boundary(n)
    <3>1. b \in 0 .. n /\ IsCharBoundary(b)
        BY <1>1, BoundaryExists
    <3>. HIDE DEF b
    <3>2. b \in 0 .. ActiveLen
        BY <1>1, <1>3, <3>1, PodSlotsAssumption
    <3>. QED
        BY <3>1, <3>2 DEF b
  <2>. QED
      BY <1>3, <2>1, CutKeepsInvariant DEF Truncate
<1>. QED
    BY <1>2, <1>3

\* clear is the cut at 0.
LEMMA ClearKeepsInvariant ==
    ASSUME IInv, Clear
    PROVE  IInv'
<1>1. 0 \in 0 .. ActiveLen
    BY TextTyped, PodSlotsAssumption DEF IInv
<1>. QED
    BY <1>1, CutKeepsInvariant DEF Clear, IsCharBoundary

\* Every method keeps the invariant.
LEMMA NextInvariant == IInv /\ [Next]_vars => IInv'
<1>. SUFFICES ASSUME IInv, [Next]_vars PROVE IInv'
    OBVIOUS
<1>1. CASE \E value \in Inputs : TrySet(value) \/ TryPushStr(value)
    BY <1>1, TrySetKeepsInvariant, TryPushStrKeepsInvariant
<1>2. CASE \E n \in 0 .. N : Truncate(n)
    BY <1>2, TruncateKeepsInvariant
<1>3. CASE Clear
    BY <1>3, ClearKeepsInvariant
<1>4. CASE UNCHANGED vars
    BY <1>4 DEF vars, IInv, BytesTyped, VacatedBytesAreZero, StaysUtf8, Text, ActiveLen
<1>. QED
    BY <1>1, <1>2, <1>3, <1>4 DEF Next

\* The invariant holds in every state.
LEMMA Invariance == Spec => []IInv
    BY InitInvariant, NextInvariant, PTL DEF Spec

\* No sequence of calls leaves part of a character, whatever the prefix held.
THEOREM StaysUtf8Always == Spec => []StaysUtf8
    BY Invariance, PTL DEF IInv

\* The bytes of every character that truncation gave up are zero.
THEOREM VacatedBytesAreZeroAlways == Spec => []VacatedBytesAreZero
    BY Invariance, PTL DEF IInv

-----------------------------------------------------------------------------
(* The refinement of BoundedText.                                          *)

\* The first k characters of a text are its first f[k] bytes.
LEMMA PrefixJoined ==
    ASSUME NEW s \in Seq(Chars), NEW f, NEW bytes, Joined(s, f, bytes), NEW k \in 0 .. Len(s)
    PROVE  /\ SubSeq(s, 1, k) \in Seq(Chars)
           /\ Joined(SubSeq(s, 1, k), f, SubSeq(bytes, 1, f[k]))
           /\ Len(SubSeq(bytes, 1, f[k])) = f[k] /\ f[k] \in Nat
<1>. DEFINE n == Len(s)
            t == SubSeq(s, 1, k)
            head == SubSeq(bytes, 1, f[k])
<1>1. /\ n \in Nat /\ bytes \in Seq(Elem) /\ Len(bytes) \in Nat /\ k \in Nat /\ k <= n
      /\ \A i \in 0 .. n : f[i] \in Nat
      /\ f[0] = 0
      /\ \A i \in 1 .. n : /\ f[i] = f[i - 1] + Len(s[i]) /\ Len(s[i]) \in Nat
                           /\ \A j \in 1 .. Len(s[i]) : bytes[f[i - 1] + j] = s[i][j]
    BY CharFacts DEF Joined
<1>2. f[k] \in 0 .. Len(bytes) /\ \A i \in 0 .. n : i <= k => f[i] <= f[k]
    BY OffsetsGrow
<1>3. t \in Seq(Chars) /\ Len(t) = k /\ \A i \in 1 .. k : t[i] = s[i]
    BY <1>1
<1>4. head \in Seq(Elem) /\ Len(head) = f[k] /\ \A i \in 1 .. f[k] : head[i] = bytes[i]
    BY <1>1, <1>2
<1>. HIDE DEF n, t, head
<1>5. ASSUME NEW i \in 1 .. k
      PROVE  /\ f[i] = f[i - 1] + Len(t[i])
             /\ \A j \in 1 .. Len(t[i]) : head[f[i - 1] + j] = t[i][j]
  <2>1. i \in 1 .. n /\ i \in 0 .. n /\ i - 1 \in 0 .. n /\ i <= k
      BY <1>1
  <2>2. f[i] = f[i - 1] + Len(s[i]) /\ Len(s[i]) \in Nat /\ f[i - 1] \in Nat /\ f[i] <= f[k]
      BY <1>1, <1>2, <2>1
  <2>3. f[k] \in Nat
      BY <1>1
  <2>4. \A j \in 1 .. Len(s[i]) : f[i - 1] + j \in 1 .. f[k]
      BY <2>2, <2>3
  <2>5. \A j \in 1 .. Len(s[i]) : head[f[i - 1] + j] = s[i][j]
      BY <1>1, <1>4, <2>1, <2>4
  <2>. QED
      BY <1>3, <2>2, <2>5
<1>6. \A i \in 0 .. k : f[i] \in Nat
    BY <1>1
<1>7. Joined(t, f, head)
    BY <1>1, <1>3, <1>4, <1>5, <1>6 DEF Joined
<1>. QED
    BY <1>1, <1>3, <1>4, <1>7 DEF t, head

\* Two texts in a row are their characters in a row.
LEMMA ConcatJoined ==
    ASSUME NEW s \in Seq(Chars), NEW f, NEW a, Joined(s, f, a),
           NEW t \in Seq(Chars), NEW g, NEW b, Joined(t, g, b)
    PROVE  s \o t \in Seq(Chars) /\ \E h : Joined(s \o t, h, a \o b)
<1>. DEFINE n == Len(s)
            m == Len(t)
            r == s \o t
            c == a \o b
            h == [k \in 0 .. n + m |-> IF k <= n THEN f[k] ELSE f[n] + g[k - n]]
<1>1. /\ n \in Nat /\ m \in Nat
      /\ r \in Seq(Chars) /\ Len(r) = n + m
      /\ \A k \in 1 .. n : r[k] = s[k]
      /\ \A k \in 1 .. m : r[n + k] = t[k]
    OBVIOUS
<1>2. a \in Seq(Elem) /\ b \in Seq(Elem) /\ Len(a) \in Nat /\ Len(b) \in Nat
    BY DEF Joined
<1>3. /\ c \in Seq(Elem) /\ Len(c) = Len(a) + Len(b)
      /\ \A j \in 1 .. Len(a) : c[j] = a[j]
      /\ \A j \in 1 .. Len(b) : c[Len(a) + j] = b[j]
    BY <1>2, ConcatFacts DEF Concat
<1>4. /\ \A k \in 0 .. n : h[k] = f[k]
      /\ \A k \in 0 .. n + m : k > n => h[k] = f[n] + g[k - n]
    BY <1>1
<1>. HIDE DEF r, c, h
<1>5. /\ \A k \in 0 .. n : f[k] \in Nat /\ f[k] <= Len(a)
      /\ f[0] = 0 /\ f[n] = Len(a)
      /\ \A k \in 1 .. n : /\ f[k] = f[k - 1] + Len(s[k]) /\ Len(s[k]) \in Nat
                           /\ \A j \in 1 .. Len(s[k]) : a[f[k - 1] + j] = s[k][j]
  <2>1. \A k \in 0 .. n : f[k] \in 0 .. Len(a)
      BY OffsetsGrow
  <2>. QED
      BY <1>2, <2>1, CharFacts DEF Joined
<1>6. /\ \A k \in 0 .. m : g[k] \in Nat /\ g[k] <= Len(b)
      /\ g[0] = 0 /\ g[m] = Len(b)
      /\ \A k \in 1 .. m : /\ g[k] = g[k - 1] + Len(t[k]) /\ Len(t[k]) \in Nat
                           /\ \A j \in 1 .. Len(t[k]) : b[g[k - 1] + j] = t[k][j]
  <2>1. \A k \in 0 .. m : g[k] \in 0 .. Len(b)
      BY OffsetsGrow
  <2>. QED
      BY <1>2, <2>1, CharFacts DEF Joined
<1>. HIDE DEF n, m
<1>7. \A k \in 0 .. m : n + k \in 0 .. n + m /\ h[n + k] = Len(a) + g[k]
  <2>1. h[n] = Len(a) /\ n + 0 = n
      BY <1>1, <1>4, <1>5
  <2>. SUFFICES ASSUME NEW k \in 0 .. m
                PROVE  n + k \in 0 .. n + m /\ h[n + k] = Len(a) + g[k]
      OBVIOUS
  <2>2. n + k \in 0 .. n + m /\ (n + k) - n = k
      BY <1>1
  <2>3. CASE k = 0
      BY <1>1, <1>2, <1>6, <2>1, <2>2, <2>3
  <2>4. CASE k # 0
    <3>1. n + k > n
        BY <1>1, <2>4
    <3>. QED
        BY <1>4, <1>5, <2>2, <3>1
  <2>. QED
      BY <2>3, <2>4
<1>8. ASSUME NEW k \in 0 .. n + m PROVE k \in 0 .. n \/ \E i \in 1 .. m : k = n + i
  <2>1. k \notin 0 .. n => k - n \in 1 .. m /\ k = n + (k - n)
      BY <1>1
  <2>. QED
      BY <2>1
<1>9. \A k \in 0 .. n + m : h[k] \in Nat
  <2>. SUFFICES ASSUME NEW k \in 0 .. n + m PROVE h[k] \in Nat
      OBVIOUS
  <2>1. CASE k \in 0 .. n
      BY <1>4, <1>5, <2>1
  <2>2. ASSUME NEW i \in 1 .. m, k = n + i PROVE h[k] \in Nat
    <3>1. i \in 0 .. m
        BY <1>1
    <3>2. h[k] = Len(a) + g[i] /\ g[i] \in Nat
        BY <1>6, <1>7, <2>2, <3>1
    <3>. QED
        BY <1>2, <3>2
  <2>. QED
      BY <1>8, <2>1, <2>2
<1>10. h[0] = 0 /\ h[n + m] = Len(c)
  <2>1. 0 \in 0 .. n /\ m \in 0 .. m
      BY <1>1
  <2>. QED
      BY <1>3, <1>4, <1>5, <1>6, <1>7, <2>1
<1>11. ASSUME NEW k \in 1 .. n
       PROVE  /\ h[k] = h[k - 1] + Len(r[k])
              /\ \A j \in 1 .. Len(r[k]) : c[h[k - 1] + j] = r[k][j]
  <2>1. k \in 0 .. n /\ k - 1 \in 0 .. n
      BY <1>1
  <2>2. h[k] = f[k] /\ h[k - 1] = f[k - 1] /\ r[k] = s[k]
      BY <1>1, <1>4, <2>1
  <2>3. f[k] = f[k - 1] + Len(s[k]) /\ f[k] <= Len(a) /\ f[k - 1] \in Nat /\ Len(s[k]) \in Nat
      BY <1>5, <2>1
  <2>4. \A j \in 1 .. Len(s[k]) : f[k - 1] + j \in 1 .. Len(a)
      BY <1>2, <2>3
  <2>5. \A j \in 1 .. Len(s[k]) : c[f[k - 1] + j] = s[k][j]
      BY <1>3, <1>5, <2>4
  <2>6. h[k] = h[k - 1] + Len(r[k])
      BY <2>2, <2>3, Zenon
  <2>7. \A j \in 1 .. Len(r[k]) : c[h[k - 1] + j] = r[k][j]
      BY <2>2, <2>5, Zenon
  <2>. QED
      BY <2>6, <2>7, Zenon
<1>12. ASSUME NEW i \in 1 .. m
       PROVE  /\ h[n + i] = h[(n + i) - 1] + Len(r[n + i])
              /\ \A j \in 1 .. Len(r[n + i]) : c[h[(n + i) - 1] + j] = r[n + i][j]
  <2>1. i \in 0 .. m /\ i - 1 \in 0 .. m /\ (n + i) - 1 = n + (i - 1)
      BY <1>1
  <2>2. h[n + i] = Len(a) + g[i] /\ h[(n + i) - 1] = Len(a) + g[i - 1] /\ r[n + i] = t[i]
      BY <1>1, <1>7, <2>1
  <2>3. g[i] = g[i - 1] + Len(t[i]) /\ g[i] <= Len(b) /\ g[i - 1] \in Nat /\ Len(t[i]) \in Nat
      BY <1>6, <2>1
  <2>4. \A j \in 1 .. Len(t[i]) :
            g[i - 1] + j \in 1 .. Len(b) /\ (Len(a) + g[i - 1]) + j = Len(a) + (g[i - 1] + j)
      BY <1>2, <2>3
  <2>5. \A j \in 1 .. Len(t[i]) : c[(Len(a) + g[i - 1]) + j] = t[i][j]
      BY <1>3, <1>6, <2>4
  <2>6. Len(a) + g[i] = (Len(a) + g[i - 1]) + Len(t[i])
      BY <1>2, <2>3
  <2>. QED
      BY <2>2, <2>5, <2>6
<1>13. ASSUME NEW k \in 1 .. n + m
       PROVE  /\ h[k] = h[k - 1] + Len(r[k])
              /\ \A j \in 1 .. Len(r[k]) : c[h[k - 1] + j] = r[k][j]
  <2>1. k \in 0 .. n + m /\ (k \in 0 .. n => k \in 1 .. n)
      BY <1>1
  <2>2. CASE k \in 0 .. n
      BY <1>11, <2>1, <2>2, Zenon
  <2>3. ASSUME NEW i \in 1 .. m, k = n + i
        PROVE  /\ h[k] = h[k - 1] + Len(r[k])
               /\ \A j \in 1 .. Len(r[k]) : c[h[k - 1] + j] = r[k][j]
      BY <1>12, <2>3
  <2>4. k \in 0 .. n \/ \E i \in 1 .. m : k = n + i
      BY <1>8, <2>1
  <2>5. CASE \E i \in 1 .. m : k = n + i
    <3>1. PICK i \in 1 .. m : k = n + i
        BY <2>5
    <3>. QED
        BY <2>3, <3>1
  <2>. QED
      BY <2>2, <2>4, <2>5
<1>14. Joined(r, h, c)
    BY <1>1, <1>3, <1>9, <1>10, <1>13 DEF Joined
<1>. QED
    BY <1>1, <1>14 DEF r, c

\* What the mapping shows.
LEMMA ShownText ==
    ASSUME IInv
    PROVE  /\ Text \in Seq(Elem) /\ Len(Text) = ActiveLen /\ ActiveLen \in 0 .. N
           /\ Characters(Text) \in Seq(Chars) /\ FlattenSeq(Characters(Text)) = Text
           /\ \E f : Joined(Characters(Text), f, Text)
<1>1. Text \in Seq(Elem) /\ Len(Text) = ActiveLen /\ ActiveLen \in 0 .. N
    BY TextTyped DEF IInv
<1>. QED
    BY <1>1, CharactersExist DEF IInv, StaysUtf8

LEMMA ShownNext ==
    ASSUME NEW bytes, Text' = bytes
    PROVE  Characters(Text)' = Characters(bytes)
BY Zenon DEF Characters

LEMMA SizeIsLength ==
    ASSUME NEW s
    PROVE  Abstract!Size(s) = Len(FlattenSeq(s))
BY Zenon DEF Abstract!Size, Abstract!FlattenSeq, FlattenSeq

LEMMA InitRefines == Init => Abstract!Init
<1>. SUFFICES ASSUME Init PROVE Abstract!Init
    OBVIOUS
<1>1. IInv
    BY InitInvariant
<1>2. Len(Text) \in 0 .. N /\ FlattenSeq(Characters(Text)) = Text
    BY <1>1, ShownText
<1>3. Len(FlattenSeq(Characters(Text))) <= N
    BY <1>2, PodSlotsAssumption
<1>4. Abstract!Size(Characters(Text)) <= N
    BY <1>3, SizeIsLength
<1>5. reply = Done
    BY DEF Init
<1>. QED
    BY <1>4, <1>5 DEF Abstract!Init, Abstract!Done, Done

\* A refused write changes nothing.
LEMMA RefusalRefines ==
    ASSUME IInv, NEW s \in Offered, Unchanged(Overflow),
           Len(FlattenSeq(s)) > N \/ ActiveLen + Len(FlattenSeq(s)) > N
    PROVE  Abstract!Refuse(s)
<1>1. Text' = Text
    BY DEF Unchanged, Text
<1>2. Characters(Text)' = Characters(Text)
    BY <1>1, ShownNext
<1>3. Abstract!Size(s) = Len(FlattenSeq(s)) /\ Abstract!Size(Characters(Text)) = ActiveLen
    BY ShownText, SizeIsLength
<1>4. reply' = Overflow
    BY DEF Unchanged
<1>. QED
    BY <1>2, <1>3, <1>4 DEF Abstract!Refuse, Abstract!Overflow, Overflow

\* try_set stores the characters of the value.
LEMMA TrySetRefines ==
    ASSUME IInv, NEW s \in Offered, TrySet(FlattenSeq(s))
    PROVE  Abstract!Replace(s) \/ Abstract!Refuse(s)
<1>. DEFINE value == FlattenSeq(s)
<1>1. value \in Inputs /\ s \in Seq(Chars)
    BY OfferedAssumption DEF Inputs
<1>2. PICK f : Joined(s, f, value)
    BY <1>1, FlattenJoined
<1>3. Len(value) \in Nat
    BY <1>2 DEF Joined
<1>. HIDE DEF value
<1>4. TrySet(value)
    BY DEF value
<1>5. CASE Len(value) > N
  <2>1. Unchanged(Overflow)
      BY <1>4, <1>5 DEF TrySet
  <2>. QED
      BY <1>5, <2>1, RefusalRefines DEF value
<1>6. CASE ~(Len(value) > N)
  <2>1. Text' = value
      BY <1>1, <1>4, <1>6, TrySetKeepsInvariant
  <2>2. Characters(Text)' = s
      BY <1>1, <1>2, <2>1, ShownNext, CharactersAre
  <2>3. reply' = Done
      BY <1>4, <1>6 DEF TrySet, Store
  <2>4. Abstract!Size(s) <= N
      BY <1>3, <1>6, SizeIsLength, PodSlotsAssumption DEF value
  <2>. QED
      BY <2>2, <2>3, <2>4 DEF Abstract!Replace, Abstract!Done, Done
<1>. QED
    BY <1>5, <1>6

\* try_push_str appends the characters of the value.
LEMMA TryPushStrRefines ==
    ASSUME IInv, NEW s \in Offered, TryPushStr(FlattenSeq(s))
    PROVE  Abstract!Extend(s) \/ Abstract!Refuse(s)
<1>. DEFINE value == FlattenSeq(s)
            old == Characters(Text)
<1>1. value \in Inputs /\ s \in Seq(Chars)
    BY OfferedAssumption DEF Inputs
<1>2. PICK f : Joined(s, f, value)
    BY <1>1, FlattenJoined
<1>3. Len(value) \in Nat
    BY <1>2 DEF Joined
<1>. HIDE DEF value
<1>4. TryPushStr(value)
    BY DEF value
<1>5. CASE ActiveLen + Len(value) > N
  <2>1. Unchanged(Overflow)
      BY <1>4, <1>5 DEF TryPushStr
  <2>. QED
      BY <1>5, <2>1, RefusalRefines DEF value
<1>6. CASE ~(ActiveLen + Len(value) > N)
  <2>1. Text' = Text \o value
      BY <1>1, <1>4, <1>6, TryPushStrKeepsInvariant
  <2>2. old \in Seq(Chars) /\ (\E g : Joined(old, g, Text)) /\ FlattenSeq(old) = Text
        /\ Len(Text) = ActiveLen /\ ActiveLen \in 0 .. N
      BY ShownText
  <2>. HIDE DEF old
  <2>3. PICK g : Joined(old, g, Text)
      BY <2>2
  <2>. DEFINE more == Text \o value
              new == old \o s
  <2>4. new \in Seq(Chars) /\ \E h : Joined(new, h, more)
      BY <1>1, <1>2, <2>2, <2>3, ConcatJoined
  <2>5. Text' = more
      BY <2>1
  <2>. HIDE DEF more, new
  <2>6. Characters(more) = new
      BY <2>4, CharactersAre
  <2>7. Characters(Text)' = old \o s
      BY <2>5, <2>6, ShownNext DEF new
  <2>8. reply' = Done
      BY <1>4, <1>6 DEF TryPushStr, Store
  <2>9. Abstract!Size(s) = Len(value) /\ Abstract!Size(old) = ActiveLen
      BY <2>2, SizeIsLength DEF value
  <2>10. Abstract!Size(Characters(Text)) + Abstract!Size(s) <= N
      BY <1>3, <1>6, <2>2, <2>9, PodSlotsAssumption DEF old
  <2>. QED
      BY <2>7, <2>8, <2>10 DEF old, Abstract!Extend, Abstract!Done, Done
<1>. QED
    BY <1>5, <1>6

\* A cut at the end of the last character that fits is a Shorten.
LEMMA ShortensTo ==
    ASSUME IInv, NEW n \in Nat, NEW f, Joined(Characters(Text), f, Text),
           NEW k \in 0 .. Len(Characters(Text)), f[k] <= n,
           k < Len(Characters(Text)) => f[k + 1] > n,
           Text' = SubSeq(Text, 1, f[k]), reply' = Truncated(n)
    PROVE  Abstract!Shorten(n)
<1>. DEFINE s == Characters(Text)
            short == SubSeq(s, 1, k)
            bytes == SubSeq(Text, 1, f[k])
<1>1. s \in Seq(Chars)
    BY ShownText
<1>. HIDE DEF s
<1>2. Joined(s, f, Text) /\ k \in 0 .. Len(s) /\ (k < Len(s) => f[k + 1] > n)
    BY DEF s
<1>3. ASSUME NEW j \in 0 .. Len(s)
      PROVE  Abstract!Size(SubSeq(s, 1, j)) = f[j]
  <2>1. /\ SubSeq(s, 1, j) \in Seq(Chars)
        /\ Joined(SubSeq(s, 1, j), f, SubSeq(Text, 1, f[j]))
        /\ Len(SubSeq(Text, 1, f[j])) = f[j]
      BY <1>1, <1>2, PrefixJoined
  <2>2. SubSeq(Text, 1, f[j]) = FlattenSeq(SubSeq(s, 1, j))
      BY <2>1, JoinedIsFlatten
  <2>. QED
      BY <2>1, <2>2, SizeIsLength
<1>4. short \in Seq(Chars) /\ Joined(short, f, bytes)
    BY <1>1, <1>2, PrefixJoined
<1>5. Text' = bytes
    OBVIOUS
<1>. HIDE DEF short, bytes
<1>6. Characters(Text)' = short
    BY <1>4, <1>5, ShownNext, CharactersAre
<1>7. Abstract!Size(SubSeq(s, 1, k)) <= n
    BY <1>2, <1>3
<1>8. k < Len(s) => ~(Abstract!Size(SubSeq(s, 1, k + 1)) <= n)
  <2>. SUFFICES ASSUME k < Len(s) PROVE ~(Abstract!Size(SubSeq(s, 1, k + 1)) <= n)
      OBVIOUS
  <2>1. k + 1 \in 0 .. Len(s)
      BY <1>1, <1>2
  <2>2. Abstract!Size(SubSeq(s, 1, k + 1)) = f[k + 1] /\ f[k + 1] > n /\ f[k + 1] \in Nat
      BY <1>2, <1>3, <2>1 DEF Joined
  <2>. QED
      BY <2>2
<1>9. Characters(Text)' = SubSeq(s, 1, k)
    BY <1>6 DEF short
<1>. QED
    BY <1>2, <1>7, <1>8, <1>9 DEF s, Abstract!Shorten, Abstract!Truncated, Truncated

\* truncate keeps the whole characters that fit: its walk ends where one does,
\* and the next one ends above n.
LEMMA TruncateRefines ==
    ASSUME IInv, NEW n \in 0 .. N, Truncate(n)
    PROVE  Abstract!Shorten(n)
<1>. DEFINE s == Characters(Text)
<1>1. /\ Text \in Seq(Elem) /\ Len(Text) = ActiveLen /\ ActiveLen \in 0 .. N /\ ActiveLen \in Nat
      /\ s \in Seq(Chars) /\ n \in Nat
    BY ShownText, PodSlotsAssumption
<1>2. PICK f : Joined(s, f, Text)
    BY ShownText
<1>. HIDE DEF s
<1>3. f[Len(s)] = ActiveLen /\ Len(s) \in Nat /\ \A k \in 0 .. Len(s) : f[k] \in Nat
    BY <1>1, <1>2 DEF Joined
<1>4. CASE n >= ActiveLen
  <2>1. reply' = Truncated(n) /\ Text' = Text
      BY <1>4 DEF Truncate, Unchanged, Text
  <2>2. Text = SubSeq(Text, 1, f[Len(s)])
      BY <1>1, <1>3
  <2>3. Len(s) \in 0 .. Len(s) /\ ~(Len(s) < Len(s))
      BY <1>3
  <2>. QED
      BY <1>1, <1>2, <1>3, <1>4, <2>1, <2>2, <2>3, ShortensTo DEF s
<1>5. CASE ~(n >= ActiveLen)
  <2>. DEFINE b == Boundary(n)
  <2>1. /\ b \in 0 .. n /\ IsCharBoundary(b)
        /\ \A a \in b + 1 .. n : ~IsCharBoundary(a)
      BY <1>1, BoundaryExists
  <2>2. Store(b, ZeroRange(slots, b, ActiveLen), Truncated(n))
      BY <1>5 DEF Truncate
  <2>. HIDE DEF b
  <2>3. b \in 0 .. ActiveLen /\ b \in Nat /\ b # ActiveLen
      BY <1>1, <1>5, <2>1
  <2>4. Text' = SubSeq(Text, 1, b)
      BY <2>1, <2>2, <2>3, CutKeepsInvariant
  <2>5. ASSUME NEW a \in 0 .. ActiveLen
        PROVE  IsCharBoundary(a)
                 <=> a \in {0, Len(Text)} \/ Text[a + 1] \notin Continuation
    <3>1. CASE a \in {0, ActiveLen}
        BY <1>1, <3>1 DEF IsCharBoundary
    <3>2. CASE a \notin {0, ActiveLen}
      <4>1. a + 1 \in 1 .. ActiveLen /\ (a + 1) - 1 = a
          BY <1>1, <3>2
      <4>2. Text[a + 1] = slots[a]
          BY <4>1, TextTyped DEF IInv
      <4>. QED
          BY <1>1, <3>2, <4>2 DEF IsCharBoundary
    <3>. QED
        BY <3>1, <3>2
  <2>6. PICK k \in 0 .. Len(s) : b = f[k]
      BY <1>1, <1>2, <2>1, <2>3, <2>5, EndIsEnd
  <2>7. k < Len(s) => f[k + 1] > n
    <3>. SUFFICES ASSUME k < Len(s) PROVE f[k + 1] > n
        OBVIOUS
    <3>1. k \in Nat /\ k + 1 \in 0 .. Len(s) /\ k < k + 1
        BY <1>3
    <3>2. /\ f[k + 1] \in 0 .. Len(Text)
          /\ f[k + 1] \in {0, Len(Text)} \/ Text[f[k + 1] + 1] \notin Continuation
        BY <1>1, <1>2, <3>1, EndIsBoundary
    <3>3. IsCharBoundary(f[k + 1])
        BY <1>1, <2>5, <3>2
    <3>4. f[k] < f[k + 1]
        BY <1>1, <1>2, <3>1, OffsetsGrow
    <3>5. f[k + 1] \in Nat
        BY <1>3, <3>1
    <3>. QED
        BY <1>1, <2>1, <2>3, <2>6, <3>3, <3>4, <3>5
  <2>8. reply' = Truncated(n) /\ f[k] <= n /\ Text' = SubSeq(Text, 1, f[k])
      BY <1>1, <2>1, <2>2, <2>4, <2>6 DEF Store
  <2>. QED
      BY <1>1, <1>2, <2>6, <2>7, <2>8, ShortensTo DEF s
<1>. QED
    BY <1>4, <1>5

\* clear leaves no character.
LEMMA ClearRefines ==
    ASSUME IInv, Clear
    PROVE  Abstract!Shorten(0)
<1>. DEFINE s == Characters(Text)
<1>1. /\ Text \in Seq(Elem) /\ ActiveLen \in 0 .. N /\ ActiveLen \in Nat /\ s \in Seq(Chars)
      /\ 0 \in 0 .. ActiveLen
    BY ShownText, PodSlotsAssumption
<1>2. PICK f : Joined(s, f, Text)
    BY ShownText
<1>. HIDE DEF s
<1>3. f[0] = 0 /\ Len(s) \in Nat /\ 0 \in 0 .. Len(s)
    BY <1>1, <1>2 DEF Joined
<1>4. Text' = SubSeq(Text, 1, f[0]) /\ reply' = Truncated(0)
  <2>1. Store(0, ZeroRange(slots, 0, ActiveLen), Truncated(0))
      BY DEF Clear
  <2>2. Text' = SubSeq(Text, 1, 0)
      BY <1>1, <2>1, CutKeepsInvariant DEF IsCharBoundary
  <2>. QED
      BY <1>3, <2>1, <2>2 DEF Store
<1>5. 0 < Len(s) => f[0 + 1] > 0
  <2>. SUFFICES ASSUME 0 < Len(s) PROVE f[0 + 1] > 0
      OBVIOUS
  <2>1. 1 \in 0 .. Len(s) /\ 0 + 1 = 1
      BY <1>3
  <2>2. f[0] < f[1]
      BY <1>1, <1>2, <1>3, <2>1, OffsetsGrow
  <2>. QED
      BY <1>3, <2>1, <2>2
<1>. QED
    BY <1>2, <1>3, <1>4, <1>5, ShortensTo DEF s

\* Every step of the string is a step of the text, or shows nothing.
LEMMA NextRefines == IInv /\ [Next]_vars => [Abstract!Next]_Abstract!vars
<1>. SUFFICES ASSUME IInv, [Next]_vars PROVE [Abstract!Next]_Abstract!vars
    OBVIOUS
<1>1. CASE \E value \in Inputs : TrySet(value) \/ TryPushStr(value)
  <2>1. PICK s \in Offered : TrySet(FlattenSeq(s)) \/ TryPushStr(FlattenSeq(s))
      BY <1>1 DEF Inputs
  <2>2. Abstract!Replace(s) \/ Abstract!Extend(s) \/ Abstract!Refuse(s)
      BY <2>1, TrySetRefines, TryPushStrRefines
  <2>. QED
      BY <2>2 DEF Abstract!Next
<1>2. CASE \E n \in 0 .. N : Truncate(n)
    BY <1>2, TruncateRefines DEF Abstract!Next
<1>3. CASE Clear
  <2>1. 0 \in 0 .. N
      BY PodSlotsAssumption
  <2>. QED
      BY <1>3, <2>1, ClearRefines DEF Abstract!Next
<1>4. CASE UNCHANGED vars
  <2>1. Text' = Text /\ reply' = reply
      BY <1>4 DEF vars, Text
  <2>2. Characters(Text)' = Characters(Text)
      BY <2>1, ShownNext
  <2>. QED
      BY <2>1, <2>2 DEF Abstract!vars
<1>. QED
    BY <1>1, <1>2, <1>3, <1>4 DEF Next

\* Calls act on whole characters: what is shown is a sequence of them, stored or
\* appended completely or refused, and truncation keeps the longest run that
\* fits.
THEOREM TextIsImplemented == Spec => ImplementsBoundedText
<1>1. IInv /\ IInv' /\ [Next]_vars => [Abstract!Next]_Abstract!vars
    BY NextRefines
<1>. QED
    BY <1>1, InitRefines, Invariance, PTL DEF Spec, ImplementsBoundedText, Abstract!Spec
================================================================================
