---------------------------- MODULE CompactEnumProofs --------------------------
(***************************************************************************)
(* Proofs about a compact enum, for every set of variants, discriminant    *)
(* width, account and patch: a buffer is accepted exactly when it begins   *)
(* with the encoding of an admissible value, and the account is a cell     *)
(* that holds one variant, with zeros where earlier ones were.             *)
(***************************************************************************)
EXTENDS CompactEnum, PrefixesProofs

-----------------------------------------------------------------------------
(* The variants and their sizes.                                           *)

\* A set of naturals has a least member.
LEMMA LeastExists ==
    ASSUME NEW S, S \subseteq Nat, S # {}
    PROVE  \E n \in S : \A m \in S : n <= m
<1>. DEFINE Below == OpToRel(<, Nat)
<1>. HIDE DEF Below
<1>1. IsWellFoundedOn(Below, Nat)
  BY NatLessThanWellFounded DEF Below
<1>2. PICK n \in S : \A m \in S : ~(<<m, n>> \in Below)
  BY <1>1, WFMin
<1>3. \A m \in S : ~(m < n)
  BY <1>2 DEF Below, OpToRel
<1>. QED
  BY <1>3

\* A bounded set of naturals has a greatest member.
LEMMA GreatestExists ==
    ASSUME NEW S, S \subseteq Nat, S # {}, NEW b \in Nat, \A m \in S : m <= b
    PROVE  \E n \in S : \A m \in S : n >= m
<1>. DEFINE T == {b - m : m \in S}
<1>1. T \subseteq Nat /\ T # {}
  <2>1. \A m \in S : b - m \in Nat
    OBVIOUS
  <2>. QED
    BY <2>1
<1>2. PICK t \in T : \A u \in T : t <= u
  <2>. HIDE DEF T
  <2>. QED
    BY <1>1, LeastExists
<1>3. PICK n \in S : t = b - n
  BY <1>2
<1>4. \A m \in S : b - n <= b - m /\ n \in Nat /\ m \in Nat
  BY <1>2, <1>3
<1>5. \A m \in S : n >= m
  BY <1>4
<1>. QED
  BY <1>5

\* What is known of a variant.
LEMMA VariantFacts ==
    ASSUME NEW tag \in DOMAIN Variants
    PROVE  LET v == Variants[tag]
           IN  /\ tag \in Nat /\ tag < Weight(TagSize - 1) * Radix
               /\ TagSize \in Width /\ TagSize \in Nat /\ TagSize > 0
               /\ v.dynamic \in BOOLEAN
               /\ v.max \in Nat /\ v.size \in Nat /\ v.ok \subseteq Byte
               /\ v.pfx \in Width /\ v.pfx \in Nat /\ v.pfx > 0
               /\ v.dynamic => v.size > 0 /\ v.max <= PrefixMax(v.pfx)
               /\ UsizeMax \in Nat /\ Radix \in Nat /\ Radix > 2
               /\ v.max * v.size \in Nat
               /\ PayloadOffset(v) \in Nat /\ PayloadOffset(v) >= TagSize
               /\ PayloadOffset(v) = IF v.dynamic THEN TagSize + v.pfx ELSE TagSize
               /\ SmallestSize(v) \in Nat /\ SmallestSize(v) >= PayloadOffset(v)
               /\ LargestSize(v) \in Nat /\ LargestSize(v) <= UsizeMax
               /\ LargestSize(v) >= SmallestSize(v)
<1>. DEFINE v == Variants[tag]
<1>1. /\ tag \in Nat /\ tag < Weight(TagSize - 1) * Radix
      /\ TagSize \in Width
      /\ v \in VariantSchema
      /\ v.dynamic => v.size # 0 /\ v.max <= PrefixMax(v.pfx)
      /\ LargestSize(v) <= UsizeMax
  BY EnumAssumption
<1>2. /\ v.dynamic \in BOOLEAN /\ v.max \in Nat /\ v.size \in Nat
      /\ v.ok \subseteq Byte /\ v.pfx \in Width
  BY <1>1 DEF VariantSchema
<1>3. \A w \in Width : w \in Nat /\ w > 0
  BY DEF Width
<1>. HIDE DEF v
<1>4. v.max * v.size \in Nat
  BY <1>2
<1>5. /\ PayloadOffset(v) \in Nat /\ PayloadOffset(v) >= TagSize
      /\ PayloadOffset(v) = IF v.dynamic THEN TagSize + v.pfx ELSE TagSize
  BY <1>1, <1>2, <1>3 DEF PayloadOffset
<1>6. SmallestSize(v) \in Nat /\ SmallestSize(v) >= PayloadOffset(v)
  BY <1>2, <1>5 DEF SmallestSize
<1>7. LargestSize(v) \in Nat /\ LargestSize(v) >= SmallestSize(v)
  BY <1>2, <1>4, <1>5 DEF SmallestSize, LargestSize
<1>8. UsizeMax \in Nat /\ Radix \in Nat /\ Radix > 2
  BY PrefixesAssumption
<1>. QED
  BY <1>1, <1>2, <1>3, <1>4, <1>5, <1>6, <1>7, <1>8 DEF v

\* The allocations of the enum are those of its variants.
LEMMA SizesFacts ==
    /\ MinSize \in Nat /\ TagSize <= MinSize
    /\ MaxSize \in Nat
    /\ \A t \in DOMAIN Variants :
         MinSize <= SmallestSize(Variants[t]) /\ LargestSize(Variants[t]) <= MaxSize
<1>. DEFINE S == {SmallestSize(Variants[t]) : t \in DOMAIN Variants}
            L == {LargestSize(Variants[t]) : t \in DOMAIN Variants}
<1>1. S \subseteq Nat /\ S # {} /\ \A m \in S : TagSize <= m
  BY VariantFacts, EnumAssumption
<1>2. L \subseteq Nat /\ L # {} /\ (\A m \in L : m <= UsizeMax) /\ UsizeMax \in Nat
  BY VariantFacts, EnumAssumption, PrefixesAssumption
<1>3. \E n \in S : \A t \in DOMAIN Variants : n <= SmallestSize(Variants[t])
  <2>1. \E n \in S : \A m \in S : n <= m
    <3>. HIDE DEF S
    <3>. QED
      BY <1>1, LeastExists
  <2>. QED
    BY <2>1
<1>4. \E n \in L : \A t \in DOMAIN Variants : n >= LargestSize(Variants[t])
  <2>1. \E n \in L : \A m \in L : n >= m
    <3>. HIDE DEF L
    <3>. QED
      BY <1>2, GreatestExists
  <2>. QED
    BY <2>1
<1>5. MinSize \in S /\ \A t \in DOMAIN Variants : MinSize <= SmallestSize(Variants[t])
  BY <1>3 DEF MinSize
<1>6. MaxSize \in L /\ \A t \in DOMAIN Variants : MaxSize >= LargestSize(Variants[t])
  BY <1>4 DEF MaxSize
<1>7. \A t \in DOMAIN Variants : LargestSize(Variants[t]) \in Nat
  BY VariantFacts
<1>. QED
  BY <1>1, <1>2, <1>5, <1>6, <1>7

-----------------------------------------------------------------------------
(* The encoding of a value, byte by byte.                                  *)

Values == [tag: DOMAIN Variants, bytes: Seq(Byte)]

\* What a count prefix says of a payload.
CountOf(value) == Len(value.bytes) \div Variants[value.tag].size

\* d begins with the tag, the count and the payload of the value.
Holds(d, value) ==
    LET v == Variants[value.tag]
    IN  /\ Written(d, 0, TagSize, value.tag)
        /\ v.dynamic => Written(d, TagSize, v.pfx, CountOf(value))
        /\ \A k \in 1 .. Len(value.bytes) : d[PayloadOffset(v) + k - 1] = value.bytes[k]

Extent(value) == PayloadOffset(Variants[value.tag]) + Len(value.bytes)

\* The bytes of a number.
LEMMA LittleEndianFacts ==
    ASSUME NEW m \in Nat, NEW w \in Width
    PROVE  /\ LittleEndian(m, w) \in Seq(Byte) /\ Len(LittleEndian(m, w)) = w
           /\ \A k \in 1 .. w : LittleEndian(m, w)[k] = LeByte(m, k - 1)
<1>. DEFINE s == LittleEndian(m, w)
<1>1. w \in Nat /\ \A k \in 1 .. w : k - 1 \in 0 .. 7
  BY DEF Width
<1>2. \A k \in 1 .. w : LeByte(m, k - 1) \in Byte
  BY <1>1, LeByteIsByte
<1>3. s = [k \in 1 .. w |-> LeByte(m, k - 1)]
  BY DEF LittleEndian
<1>. HIDE DEF s
<1>4. s \in [1 .. w -> Byte]
  BY <1>2, <1>3
<1>5. s \in Seq(Byte) /\ Len(s) = w
  BY <1>1, <1>4
<1>. QED
  BY <1>3, <1>5 DEF s

\* The count of a payload is a number.
LEMMA CountNat ==
    ASSUME NEW value \in Values, Variants[value.tag].dynamic
    PROVE  CountOf(value) \in Nat
<1>. DEFINE m == Len(value.bytes)
            w == Variants[value.tag].size
<1>1. m \in Nat /\ w \in Nat /\ w > 0
  BY VariantFacts DEF Values
<1>. HIDE DEF m, w
<1>2. m \div w \in Nat
  BY <1>1
<1>. QED
  BY <1>2 DEF CountOf, m, w

\* The bytes of the encoding.
LEMMA EncodeParts ==
    ASSUME NEW value \in Values
    PROVE  LET v == Variants[value.tag]
           IN  /\ Size(value) = Extent(value) /\ Size(value) \in Nat
               /\ \A k \in 1 .. TagSize : Encode(value)[k] = LeByte(value.tag, k - 1)
               /\ v.dynamic => \A k \in 1 .. v.pfx :
                      Encode(value)[TagSize + k] = LeByte(CountOf(value), k - 1)
               /\ \A k \in 1 .. Len(value.bytes) :
                      Encode(value)[PayloadOffset(v) + k] = value.bytes[k]
<1>. DEFINE v == Variants[value.tag]
            from == PayloadOffset(v)
            tag == LittleEndian(value.tag, TagSize)
            count == IF v.dynamic THEN LittleEndian(CountOf(value), v.pfx) ELSE << >>
            body == value.bytes
            all == Encode(value)
<1>1. value.tag \in DOMAIN Variants /\ body \in Seq(Byte) /\ Len(body) \in Nat
  BY DEF Values
<1>2. /\ value.tag \in Nat /\ TagSize \in Width /\ TagSize \in Nat
      /\ v.dynamic \in BOOLEAN /\ v.pfx \in Width /\ v.pfx \in Nat
      /\ from = IF v.dynamic THEN TagSize + v.pfx ELSE TagSize
  BY <1>1, VariantFacts
<1>3. /\ tag \in Seq(Byte) /\ Len(tag) = TagSize
      /\ \A k \in 1 .. TagSize : tag[k] = LeByte(value.tag, k - 1)
  BY <1>2, LittleEndianFacts
<1>4. /\ count \in Seq(Byte) /\ Len(count) = IF v.dynamic THEN v.pfx ELSE 0
      /\ v.dynamic => \A k \in 1 .. v.pfx : count[k] = LeByte(CountOf(value), k - 1)
  <2>1. CASE v.dynamic
    BY <1>2, <2>1, CountNat, LittleEndianFacts
  <2>2. CASE ~v.dynamic
    <3>1. count = << >>
      BY <2>2
    <3>. HIDE DEF count
    <3>. QED
      BY <2>2, <3>1
  <2>. QED
    BY <2>1, <2>2
<1>5. all = (tag \o count) \o body
  BY DEF Encode, CountOf
<1>. HIDE DEF tag, count, body, v, from, all
<1>. DEFINE head == tag \o count
<1>6. /\ head \in Seq(Byte) /\ Len(head) = from
      /\ \A k \in 1 .. from : head[k] = IF k <= TagSize THEN tag[k] ELSE count[k - TagSize]
  <2>1. Len(tag) + Len(count) = from
    BY <1>2, <1>3, <1>4
  <2>2. /\ head \in Seq(Byte) /\ Len(head) = Len(tag) + Len(count)
        /\ \A k \in 1 .. (Len(tag) + Len(count)) :
             head[k] = IF k <= Len(tag) THEN tag[k] ELSE count[k - Len(tag)]
    BY <1>3, <1>4, Concatenated
  <2>. HIDE DEF head
  <2>. QED
    BY <1>3, <2>1, <2>2
<1>7. all = head \o body
  BY <1>5
<1>. HIDE DEF head
<1>8. /\ Len(all) = from + Len(body)
      /\ \A k \in 1 .. (from + Len(body)) : all[k] = IF k <= from THEN head[k] ELSE body[k - from]
  <2>1. /\ Len(head \o body) = Len(head) + Len(body)
        /\ \A k \in 1 .. (Len(head) + Len(body)) :
             (head \o body)[k] = IF k <= Len(head) THEN head[k] ELSE body[k - Len(head)]
    BY <1>1, <1>6, Concatenated
  <2>. QED
    BY <1>6, <1>7, <2>1
<1>9. from \in Nat
  BY <1>2
<1>10. ASSUME NEW k \in 1 .. TagSize PROVE all[k] = LeByte(value.tag, k - 1)
  <2>1. k \in 1 .. (from + Len(body)) /\ k <= from /\ k \in 1 .. from /\ k <= TagSize
    BY <1>1, <1>2
  <2>. QED
    BY <1>3, <1>6, <1>8, <2>1
<1>11. ASSUME v.dynamic, NEW k \in 1 .. v.pfx PROVE all[TagSize + k] = LeByte(CountOf(value), k - 1)
  <2>1. /\ TagSize + k \in 1 .. (from + Len(body)) /\ TagSize + k <= from /\ TagSize + k \in 1 .. from
        /\ ~(TagSize + k <= TagSize) /\ (TagSize + k) - TagSize = k
    BY <1>1, <1>2, <1>11
  <2>. QED
    BY <1>4, <1>6, <1>8, <1>11, <2>1
<1>12. ASSUME NEW k \in 1 .. Len(body) PROVE all[from + k] = body[k]
  <2>1. from + k \in 1 .. (from + Len(body)) /\ ~(from + k <= from) /\ (from + k) - from = k
    BY <1>1, <1>9
  <2>. QED
    BY <1>8, <2>1
<1>13. Size(value) = Extent(value) /\ Size(value) \in Nat
  BY <1>1, <1>8, <1>9 DEF Size, Extent, v, body, from, all
<1>. QED
  BY <1>10, <1>11, <1>12, <1>13 DEF v, body, from, all

\* To hold a value is to begin with its encoding.
LEMMA HoldsIsEncoded ==
    ASSUME NEW value \in Values, NEW d
    PROVE  Holds(d, value) <=> \A k \in 1 .. Size(value) : d[k - 1] = Encode(value)[k]
<1>. DEFINE v == Variants[value.tag]
            from == PayloadOffset(v)
<1>1. value.tag \in DOMAIN Variants /\ value.bytes \in Seq(Byte) /\ Len(value.bytes) \in Nat
  BY DEF Values
<1>2. /\ TagSize \in Nat /\ v.dynamic \in BOOLEAN /\ v.pfx \in Nat /\ from \in Nat
      /\ from = IF v.dynamic THEN TagSize + v.pfx ELSE TagSize
  BY <1>1, VariantFacts
<1>3. /\ Size(value) = from + Len(value.bytes)
      /\ \A k \in 1 .. TagSize : Encode(value)[k] = LeByte(value.tag, k - 1)
      /\ v.dynamic => \A k \in 1 .. v.pfx : Encode(value)[TagSize + k] = LeByte(CountOf(value), k - 1)
      /\ \A k \in 1 .. Len(value.bytes) : Encode(value)[from + k] = value.bytes[k]
  BY EncodeParts DEF Extent
<1>. HIDE DEF from
<1>4. ASSUME Holds(d, value), NEW k \in 1 .. Size(value) PROVE d[k - 1] = Encode(value)[k]
  <2>. HIDE DEF v
  <2>1. /\ \A j \in 0 .. (TagSize - 1) : d[0 + j] = LeByte(value.tag, j)
        /\ v.dynamic => \A j \in 0 .. (v.pfx - 1) : d[TagSize + j] = LeByte(CountOf(value), j)
        /\ \A j \in 1 .. Len(value.bytes) : d[from + j - 1] = value.bytes[j]
    BY <1>4 DEF Holds, Written, v, from
  <2>2. CASE k <= TagSize
    <3>1. k - 1 \in 0 .. (TagSize - 1) /\ 0 + (k - 1) = k - 1 /\ k \in 1 .. TagSize
      BY <1>2, <2>2
    <3>. QED
      BY <1>3, <2>1, <3>1
  <2>3. CASE k > TagSize /\ k <= from
    <3>1. /\ v.dynamic /\ k - TagSize \in 1 .. v.pfx /\ (k - TagSize) - 1 \in 0 .. (v.pfx - 1)
          /\ TagSize + (k - TagSize) = k /\ TagSize + ((k - TagSize) - 1) = k - 1
      BY <1>2, <2>3
    <3>. QED
      BY <1>3, <2>1, <3>1
  <2>4. CASE k > from
    <3>. DEFINE m == Len(value.bytes)
    <3>1. m \in Nat /\ Size(value) = from + m
      BY <1>1, <1>3
    <3>. HIDE DEF m
    <3>2. k - from \in 1 .. m /\ from + (k - from) = k /\ from + (k - from) - 1 = k - 1
      BY <1>2, <2>4, <3>1
    <3>. QED
      BY <1>3, <2>1, <3>2 DEF m
  <2>. QED
    BY <1>2, <2>2, <2>3, <2>4
<1>5. ASSUME \A k \in 1 .. Size(value) : d[k - 1] = Encode(value)[k] PROVE Holds(d, value)
  <2>1. ASSUME NEW j \in 0 .. (TagSize - 1) PROVE d[0 + j] = LeByte(value.tag, j)
    <3>1. j + 1 \in 1 .. TagSize /\ (j + 1) - 1 = j /\ 0 + j = j
      BY <1>2
    <3>. DEFINE z == j + 1
    <3>2. z \in 1 .. Size(value)
      <4>1. TagSize <= from /\ Size(value) \in Nat /\ from <= Size(value)
        BY <1>1, <1>2, <1>3
      <4>. QED
        BY <1>2, <3>1, <4>1
    <3>3. d[z - 1] = Encode(value)[z]
      <4>. HIDE DEF z
      <4>. QED
        BY <1>5, <3>2
    <3>4. Encode(value)[z] = LeByte(value.tag, z - 1)
      BY <1>3, <3>1
    <3>5. z - 1 = j /\ 0 + j = j
      BY <3>1
    <3>. HIDE DEF z
    <3>. QED
      BY <3>3, <3>4, <3>5
  <2>2. ASSUME v.dynamic, NEW j \in 0 .. (v.pfx - 1) PROVE d[TagSize + j] = LeByte(CountOf(value), j)
    <3>. HIDE DEF v
    <3>1. /\ TagSize + (j + 1) \in 1 .. Size(value) /\ j + 1 \in 1 .. v.pfx /\ (j + 1) - 1 = j
          /\ TagSize + (j + 1) - 1 = TagSize + j
      <4>1. from = TagSize + v.pfx /\ Size(value) \in Nat /\ from <= Size(value)
        BY <1>1, <1>2, <1>3, <2>2
      <4>2. j \in Nat /\ j + 1 <= v.pfx
        BY <1>2, <2>2
      <4>. QED
        BY <1>2, <4>1, <4>2
    <3>. DEFINE z == TagSize + (j + 1)
    <3>0. z \in 1 .. Size(value)
      BY <3>1
    <3>2. d[z - 1] = Encode(value)[z]
      <4>. HIDE DEF z
      <4>. QED
        BY <1>5, <3>0
    <3>3. z - 1 = TagSize + j /\ (j + 1) - 1 = j
      BY <1>2
    <3>4. Encode(value)[z] = LeByte(CountOf(value), (j + 1) - 1)
      BY <1>3, <2>2, <3>1
    <3>. HIDE DEF z
    <3>. QED
      BY <3>2, <3>3, <3>4
  <2>3. ASSUME NEW k \in 1 .. Len(value.bytes) PROVE d[from + k - 1] = value.bytes[k]
    <3>. DEFINE z == from + k
    <3>1. z \in 1 .. Size(value)
      BY <1>1, <1>2, <1>3
    <3>2. d[z - 1] = Encode(value)[z]
      <4>. HIDE DEF z
      <4>. QED
        BY <1>5, <3>1
    <3>3. z - 1 = from + k - 1
      BY <1>2
    <3>4. Encode(value)[z] = value.bytes[k]
      BY <1>3
    <3>. HIDE DEF z
    <3>. QED
      BY <3>2, <3>3, <3>4
  <2>. QED
    BY <2>1, <2>2, <2>3 DEF Holds, Written, from
<1>. QED
  BY <1>4, <1>5

-----------------------------------------------------------------------------
(* The walks, without the arithmetic of machine words.                     *)

\* A payload of at most the capacity fits usize.
LEMMA PayloadFits ==
    ASSUME NEW tag \in DOMAIN Variants, NEW count \in Nat,
           Variants[tag].dynamic, count <= Variants[tag].max
    PROVE  LET v == Variants[tag]
           IN  /\ count * v.size \in Nat /\ count * v.size <= UsizeMax
               /\ PayloadOffset(v) + count * v.size <= LargestSize(v)
               /\ PayloadOffset(v) + count * v.size \in Nat
               /\ CheckedMul(count, v.size) = Ok(count * v.size)
               /\ CheckedAdd(PayloadOffset(v), count * v.size) = Ok(PayloadOffset(v) + count * v.size)
<1>. DEFINE v == Variants[tag]
            from == PayloadOffset(v)
            len == count * v.size
            most == v.max * v.size
<1>1. /\ v.max \in Nat /\ v.size \in Nat /\ from \in Nat /\ LargestSize(v) \in Nat
      /\ LargestSize(v) <= UsizeMax /\ UsizeMax \in Nat
  BY VariantFacts
<1>2. LargestSize(v) = from + most
  BY DEF LargestSize
<1>3. len \in Nat /\ most \in Nat /\ len <= most
  BY <1>1, ProductsGrow
<1>4. CheckedMul(count, v.size) = Ok(len)
  <2>. HIDE DEF v
  <2>1. len <= UsizeMax
    <3>. HIDE DEF from, len, most
    <3>. QED
      BY <1>1, <1>2, <1>3
  <2>. QED
    BY <1>1, <2>1, BoundedIsExact
<1>. HIDE DEF from, len, most
<1>5. from + len <= UsizeMax /\ len <= UsizeMax /\ from + len <= LargestSize(v) /\ from + len \in Nat
  BY <1>1, <1>2, <1>3
<1>6. CheckedAdd(from, len) = Ok(from + len)
  BY <1>1, <1>3, <1>5, BoundedIsExact
<1>. QED
  BY <1>3, <1>4, <1>5, <1>6 DEF from, len

\* The checks of a fixed payload.
LEMMA FixedBounds ==
    ASSUME NEW n \in Nat, NEW d \in [0 .. (n - 1) -> Byte], NEW tag \in DOMAIN Variants,
           ~Variants[tag].dynamic
    PROVE  LET v == Variants[tag]
           IN  /\ Bounds(d, n, v) = IF TagSize + v.size > n THEN Err("BufferTooSmall")
                                    ELSE Ok(TagSize + v.size)
               /\ CheckedAdd(TagSize, v.size) = Ok(TagSize + v.size)
<1>. DEFINE v == Variants[tag]
<1>1. /\ TagSize \in Nat /\ v.size \in Nat /\ LargestSize(v) <= UsizeMax /\ PayloadOffset(v) = TagSize
      /\ UsizeMax \in Nat
  BY VariantFacts
<1>2. LargestSize(v) = TagSize + v.size
  BY <1>1 DEF LargestSize
<1>. HIDE DEF v
<1>3. CheckedAdd(TagSize, v.size) = Ok(TagSize + v.size)
  BY <1>1, <1>2, BoundedIsExact
<1>4. ~v.dynamic
  BY DEF v
<1>5. Bounds(d, n, v) = IF TagSize + v.size > n THEN Err("BufferTooSmall") ELSE Ok(TagSize + v.size)
  BY <1>3, <1>4 DEF Bounds, AndThen, Ok
<1>. QED
  BY <1>3, <1>5 DEF v

\* The checks of a dynamic payload.
LEMMA DynamicBounds ==
    ASSUME NEW n \in Nat, NEW d \in [0 .. (n - 1) -> Byte], NEW tag \in DOMAIN Variants,
           Variants[tag].dynamic
    PROVE  LET v == Variants[tag]
               count == RawPrefix(d, TagSize, v.pfx)
           IN  /\ Bounds(d, n, v).ok =>
                    /\ PayloadOffset(v) <= n /\ count \in Nat /\ count <= v.max
                    /\ count <= UsizeMax /\ PayloadOffset(v) + count * v.size <= n
               /\ PayloadOffset(v) <= n /\ count <= v.max /\ count <= UsizeMax =>
                    /\ ReadPrefix(d, n, TagSize, v.pfx) = Ok(count)
                    /\ PayloadOffset(v) + count * v.size <= n =>
                         Bounds(d, n, v) = Ok(PayloadOffset(v) + count * v.size)
<1>. DEFINE v == Variants[tag]
            from == PayloadOffset(v)
            count == RawPrefix(d, TagSize, v.pfx)
            read == ReadPrefix(d, n, TagSize, v.pfx)
<1>1. /\ TagSize \in Nat /\ v.pfx \in Width /\ v.pfx \in Nat /\ v.size \in Nat /\ v.max \in Nat
      /\ from = TagSize + v.pfx /\ from \in Nat /\ UsizeMax \in Nat
      /\ LargestSize(v) \in Nat /\ LargestSize(v) <= UsizeMax
      /\ SmallestSize(v) >= from /\ LargestSize(v) >= SmallestSize(v) /\ SmallestSize(v) \in Nat
  BY VariantFacts
<1>2. v.dynamic
  OBVIOUS
<1>3. CheckedAdd(TagSize, v.pfx) = Ok(from)
  <2>1. TagSize + v.pfx <= UsizeMax
    <3>. HIDE DEF from, v
    <3>. QED
      BY <1>1
  <2>. QED
    BY <1>1, <2>1, BoundedIsExact
<1>4. from <= n => count \in Nat
  BY <1>1, RawPrefixNat
<1>. HIDE DEF v, from, count
<1>5. read = IF from > n THEN Err("BufferTooSmall")
             ELSE IF count > UsizeMax THEN Err("InvalidLength") ELSE Ok(count)
  BY <1>3 DEF ReadPrefix, DecodePrefix, Ok, count
<1>. HIDE DEF read
<1>6. Bounds(d, n, v) =
        AndThen(read, LAMBDA c : IF c > v.max THEN Err("InvalidLength")
            ELSE AndThen(CheckedMul(c, v.size),
                     LAMBDA len : AndThen(CheckedAdd(from, len),
                         LAMBDA end : IF end > n THEN Err("BufferTooSmall") ELSE Ok(end))))
  BY <1>2 DEF Bounds, read, from
<1>7. from <= n /\ count <= v.max /\ count <= UsizeMax => read = Ok(count)
  BY <1>1, <1>4, <1>5
<1>8. count \in Nat /\ count <= v.max =>
        /\ CheckedMul(count, v.size) = Ok(count * v.size)
        /\ CheckedAdd(from, count * v.size) = Ok(from + count * v.size)
        /\ from + count * v.size \in Nat
  BY <1>2, PayloadFits DEF v, from
<1>9. read = Ok(count) /\ count \in Nat /\ count <= v.max =>
        Bounds(d, n, v) = IF from + count * v.size > n THEN Err("BufferTooSmall")
                          ELSE Ok(from + count * v.size)
  <2>. SUFFICES ASSUME read = Ok(count), count \in Nat, count <= v.max
                PROVE  Bounds(d, n, v) = IF from + count * v.size > n THEN Err("BufferTooSmall")
                                         ELSE Ok(from + count * v.size)
    OBVIOUS
  <2>. DEFINE len == count * v.size
              end == from + len
  <2>1. CheckedMul(count, v.size) = Ok(len) /\ CheckedAdd(from, len) = Ok(end) /\ ~(count > v.max)
    BY <1>1, <1>8
  <2>. HIDE DEF len, end
  <2>2. \A x : Ok(x).ok /\ Ok(x).value = x
    BY DEF Ok
  <2>3. Bounds(d, n, v) = IF end > n THEN Err("BufferTooSmall") ELSE Ok(end)
    BY <1>6, <2>1, <2>2 DEF AndThen
  <2>. QED
    BY <2>3 DEF len, end
<1>10. ASSUME Bounds(d, n, v).ok
       PROVE  /\ from <= n /\ count \in Nat /\ count <= v.max
              /\ count <= UsizeMax /\ from + count * v.size <= n
  <2>1. read.ok
    BY <1>6, <1>10 DEF AndThen
  <2>2. ~(from > n) /\ ~(count > UsizeMax) /\ read = Ok(count)
    BY <1>5, <2>1 DEF Err
  <2>3. from <= n /\ count \in Nat /\ count <= UsizeMax
    BY <1>1, <1>4, <2>2
  <2>4. ~(count > v.max)
    BY <1>6, <1>10, <2>2 DEF AndThen, Ok, Err
  <2>5. count <= v.max
    BY <1>1, <2>3, <2>4
  <2>6. ~(from + count * v.size > n)
    BY <1>9, <1>10, <2>2, <2>3, <2>5 DEF Err
  <2>. QED
    BY <1>8, <2>3, <2>5, <2>6
<1>11. ASSUME from <= n, count <= v.max, count <= UsizeMax
       PROVE  /\ read = Ok(count)
              /\ from + count * v.size <= n => Bounds(d, n, v) = Ok(from + count * v.size)
  BY <1>4, <1>7, <1>8, <1>9, <1>11
<1>. QED
  BY <1>10, <1>11 DEF v, from, count, read

-----------------------------------------------------------------------------
(* What validation accepts.                                                *)

\* A payload of whole elements has as many as were written.
LEMMA CountExact ==
    ASSUME NEW value \in Values, NEW count \in Nat, Variants[value.tag].dynamic,
           Len(value.bytes) = count * Variants[value.tag].size
    PROVE  CountOf(value) = count
<1>. DEFINE m == Len(value.bytes)
            w == Variants[value.tag].size
<1>1. m \in Nat /\ w \in Nat /\ w > 0
  BY VariantFacts DEF Values
<1>2. m = count * w + 0 /\ 0 < w
  BY <1>1
<1>. HIDE DEF m, w
<1>3. m \div w = count
  BY <1>1, <1>2, Quotient
<1>. QED
  BY <1>3 DEF CountOf, m, w

\* An accepted buffer lies within the allocations and holds a known tag.
LEMMA AcceptedTag ==
    ASSUME NEW n \in Nat, NEW d, Validate(d, n).ok
    PROVE  LET v == Variants[ReadTag(d)]
           IN  /\ MinSize <= n /\ n <= MaxSize /\ TagSize <= n
               /\ ReadTag(d) \in DOMAIN Variants
               /\ Bounds(d, n, v).ok
               /\ PayloadValid(d, v, Bounds(d, n, v).value)
               /\ Validate(d, n) = Ok(Bounds(d, n, v).value)
<1>. DEFINE v == Variants[ReadTag(d)]
<1>1. ValidateStorageLen(n).ok
  BY DEF Validate
<1>2. MinSize <= n /\ n <= MaxSize
  BY <1>1, SizesFacts DEF ValidateStorageLen, Err
<1>3. ReadTag(d) \in DOMAIN Variants
  BY <1>1 DEF Validate, Err
<1>4. TagSize <= n
  BY <1>2, <1>3, SizesFacts, VariantFacts
<1>. HIDE DEF v
<1>5. Validate(d, n) = AndThen(Bounds(d, n, v),
          LAMBDA end : IF PayloadValid(d, v, end) THEN Ok(end) ELSE Err(v.error))
  BY <1>1, <1>3 DEF Validate, v
<1>6. Bounds(d, n, v).ok
  BY <1>5 DEF AndThen
<1>7. Validate(d, n) = IF PayloadValid(d, v, Bounds(d, n, v).value)
                       THEN Ok(Bounds(d, n, v).value) ELSE Err(v.error)
  BY <1>5, <1>6 DEF AndThen
<1>8. PayloadValid(d, v, Bounds(d, n, v).value)
  BY <1>7 DEF Err
<1>. QED
  BY <1>2, <1>3, <1>4, <1>6, <1>7, <1>8 DEF v

\* The view of an accepted buffer is an admissible value, and the buffer begins
\* with its encoding.
LEMMA AcceptedValue ==
    ASSUME NEW n \in Nat, NEW d \in [0 .. (n - 1) -> Byte], Validate(d, n).ok
    PROVE  LET value == View(d)
           IN  /\ value \in Values /\ Admissible(value) /\ Holds(d, value)
               /\ Extent(value) <= n
               /\ Validate(d, n) = Ok(Extent(value))
               /\ CurrentLen(d, n) = Ok(Extent(value))
<1>. DEFINE tag == ReadTag(d)
            v == Variants[tag]
            from == PayloadOffset(v)
            count == RawPrefix(d, TagSize, v.pfx)
            len == IF v.dynamic THEN count * v.size ELSE v.size
            value == View(d)
<1>1. /\ TagSize <= n /\ tag \in DOMAIN Variants
      /\ Bounds(d, n, v).ok
      /\ PayloadValid(d, v, Bounds(d, n, v).value)
      /\ Validate(d, n) = Ok(Bounds(d, n, v).value)
  BY AcceptedTag
<1>2. /\ tag \in Nat /\ TagSize \in Width /\ TagSize \in Nat /\ v.dynamic \in BOOLEAN
      /\ v.pfx \in Width /\ v.pfx \in Nat /\ v.size \in Nat /\ v.max \in Nat
      /\ v.dynamic => v.size > 0
      /\ from \in Nat /\ from = IF v.dynamic THEN TagSize + v.pfx ELSE TagSize
      /\ UsizeMax \in Nat
  BY <1>1, VariantFacts
<1>3. v.dynamic =>
        /\ from <= n /\ count \in Nat /\ count <= v.max /\ count <= UsizeMax
        /\ from + len <= n
        /\ ReadPrefix(d, n, TagSize, v.pfx) = Ok(count)
  <2>. HIDE DEF tag
  <2>. QED
    BY <1>1, DynamicBounds
<1>4. /\ len \in Nat /\ from + len <= n
      /\ Bounds(d, n, v) = Ok(from + len)
      /\ v.dynamic => count * v.size <= UsizeMax /\ count * v.size \in Nat
  <2>. HIDE DEF tag, count
  <2>1. CASE v.dynamic
    <3>. HIDE DEF v, from
    <3>1. count * v.size \in Nat /\ count * v.size <= UsizeMax
      BY <1>1, <1>3, <2>1, PayloadFits DEF v
    <3>2. Bounds(d, n, v) = Ok(from + len)
      BY <1>1, <1>3, <2>1, DynamicBounds DEF v, from, count
    <3>. QED
      BY <1>3, <2>1, <3>1, <3>2
  <2>2. CASE ~v.dynamic
    <3>1. Bounds(d, n, v) = IF TagSize + v.size > n THEN Err("BufferTooSmall") ELSE Ok(TagSize + v.size)
      BY <1>1, <2>2, FixedBounds
    <3>. HIDE DEF v, from
    <3>2. ~(TagSize + v.size > n)
      BY <1>1, <3>1 DEF Err
    <3>. QED
      BY <1>2, <2>2, <3>1, <3>2
  <2>. QED
    BY <1>2, <2>1, <2>2
<1>5. value = [tag |-> tag, bytes |-> BytesAt(d, from, len)]
  <2>1. v.dynamic => Wrap(CastPrefix(d, TagSize, v.pfx) * v.size) = len
    <3>. HIDE DEF v
    <3>1. \A x \in Nat : x <= UsizeMax => Wrap(x) = x
      BY <1>2 DEF Wrap
    <3>2. v.dynamic => CastPrefix(d, TagSize, v.pfx) = count
      BY <1>3, <3>1 DEF CastPrefix
    <3>. QED
      BY <1>4, <3>1, <3>2
  <2>2. value.tag = tag /\ value = [tag |-> tag, bytes |-> [k \in 1 .. len |-> d[from + k - 1]]]
    <3>. HIDE DEF count
    <3>. QED
      BY <2>1 DEF View
  <2>. QED
    BY <2>2 DEF BytesAt
<1>. HIDE DEF value
<1>6. /\ BytesAt(d, from, len) \in Seq(Byte) /\ Len(BytesAt(d, from, len)) = len
      /\ \A k \in 1 .. len : BytesAt(d, from, len)[k] = d[from + k - 1]
  <2>1. from \in Nat /\ len \in Nat /\ from + len <= n
    <3>. HIDE DEF len, count
    <3>. QED
      BY <1>2, <1>4
  <2>. HIDE DEF from, len
  <2>. QED
    BY <2>1, BytesAtFacts
<1>. HIDE DEF tag, count, len, from
<1>7. /\ value.tag = tag /\ value.bytes \in Seq(Byte) /\ Len(value.bytes) = len
      /\ \A k \in 1 .. len : value.bytes[k] = d[from + k - 1]
  BY <1>5, <1>6
<1>8. value \in Values
  BY <1>1, <1>5, <1>6 DEF Values
<1>9. Extent(value) = from + len
  BY <1>7 DEF Extent, from
<1>10. Admissible(value)
  <2>1. ASSUME NEW k \in DOMAIN value.bytes PROVE value.bytes[k] \in v.ok
    <3>0. from \in Nat /\ len \in Nat
      BY <1>2, <1>4 DEF tag, v, from
    <3>1. k \in 1 .. len
      BY <1>7, <3>0
    <3>2. from + k - 1 \in from .. (from + len) - 1
      BY <3>0, <3>1
    <3>3. d[from + k - 1] \in v.ok
      BY <1>1, <1>4, <3>2 DEF PayloadValid, Ok, from
    <3>. QED
      BY <1>7, <3>1, <3>3
  <2>2. v.dynamic => Len(value.bytes) \in {c * v.size : c \in 0 .. v.max}
    <3>1. v.dynamic => count \in 0 .. v.max
      BY <1>2, <1>3
    <3>. HIDE DEF v
    <3>. QED
      BY <1>7, <3>1 DEF len
  <2>3. ~v.dynamic => Len(value.bytes) = v.size
    BY <1>7 DEF len
  <2>. QED
    BY <1>1, <1>7, <2>1, <2>2, <2>3 DEF Admissible
<1>11. v.dynamic => CountOf(value) = count
  BY <1>3, <1>7, <1>8, CountExact DEF len
<1>12. Holds(d, value)
  <2>1. Written(d, 0, TagSize, tag)
    <3>0. 0 + TagSize <= n /\ 0 \in Nat
      BY <1>1, <1>2
    <3>1. \A k \in 0 .. (TagSize - 1) : LeByte(RawPrefix(d, 0, TagSize), k) = d[0 + k]
      BY <1>2, <3>0, DecodedDigits
    <3>. QED
      BY <3>1 DEF Written, tag, ReadTag
  <2>2. v.dynamic => Written(d, TagSize, v.pfx, count)
    <3>. HIDE DEF v
    <3>1. v.dynamic => \A k \in 0 .. (v.pfx - 1) : LeByte(RawPrefix(d, TagSize, v.pfx), k) = d[TagSize + k]
      BY <1>2, <1>3, DecodedDigits
    <3>. QED
      BY <3>1 DEF Written, count
  <2>. QED
    BY <1>7, <1>11, <2>1, <2>2 DEF Holds, from
<1>13. CurrentLen(d, n) = Ok(from + len)
  <2>1. CASE v.dynamic
    <3>1. CheckedMul(count, v.size) = Ok(len) /\ CheckedAdd(from, len) = Ok(from + len)
      BY <1>1, <1>3, <2>1, PayloadFits DEF len, from
    <3>2. \A x : Ok(x).ok /\ Ok(x).value = x
      BY DEF Ok
    <3>3. CurrentLen(d, n) = AndThen(ReadPrefix(d, n, TagSize, v.pfx),
              LAMBDA c : AndThen(CheckedMul(c, v.size), LAMBDA l : CheckedAdd(from, l)))
      BY <1>1, <2>1 DEF CurrentLen, tag, from
    <3>. HIDE DEF v
    <3>. QED
      BY <1>3, <2>1, <3>1, <3>2, <3>3 DEF AndThen
  <2>2. CASE ~v.dynamic
    <3>1. CurrentLen(d, n) = CheckedAdd(TagSize, v.size)
      BY <1>1, <2>2 DEF CurrentLen, tag
    <3>2. CheckedAdd(TagSize, v.size) = Ok(TagSize + v.size)
      BY <1>1, <2>2, FixedBounds
    <3>. QED
      BY <1>2, <2>2, <3>1, <3>2 DEF len
  <2>. QED
    BY <1>2, <2>1, <2>2
<1>14. Validate(d, n) = Ok(from + len)
  BY <1>1, <1>4 DEF Ok
<1>. QED
  BY <1>4, <1>8, <1>9, <1>10, <1>12, <1>13, <1>14 DEF value

\* A buffer that begins with the encoding of an admissible value, in an
\* allocation of the schema, is accepted and shows that value.
LEMMA EncodedIsAccepted ==
    ASSUME NEW n \in Nat, NEW d \in [0 .. (n - 1) -> Byte], NEW value \in Values,
           Admissible(value), Holds(d, value), Extent(value) <= n,
           MinSize <= n, n <= MaxSize
    PROVE  Validate(d, n) = Ok(Extent(value)) /\ View(d) = value
<1>. DEFINE tag == value.tag
            v == Variants[tag]
            from == PayloadOffset(v)
            count == CountOf(value)
            len == Len(value.bytes)
<1>1. tag \in DOMAIN Variants /\ value.bytes \in Seq(Byte) /\ len \in Nat
      /\ value = [tag |-> tag, bytes |-> value.bytes]
  BY DEF Values
<1>2. /\ tag \in Nat /\ tag < Weight(TagSize - 1) * Radix
      /\ TagSize \in Width /\ TagSize \in Nat /\ v.dynamic \in BOOLEAN
      /\ v.pfx \in Width /\ v.pfx \in Nat /\ v.size \in Nat /\ v.max \in Nat
      /\ v.dynamic => v.size > 0 /\ v.max <= PrefixMax(v.pfx)
      /\ from \in Nat /\ from = IF v.dynamic THEN TagSize + v.pfx ELSE TagSize
      /\ UsizeMax \in Nat
  BY <1>1, VariantFacts
<1>3. /\ \A k \in DOMAIN value.bytes : value.bytes[k] \in v.ok
      /\ v.dynamic => len \in {c * v.size : c \in 0 .. v.max}
      /\ ~v.dynamic => len = v.size
  BY DEF Admissible
<1>4. from + len <= n
  BY DEF Extent
<1>5. /\ Written(d, 0, TagSize, tag)
      /\ v.dynamic => Written(d, TagSize, v.pfx, count)
      /\ \A k \in 1 .. len : d[from + k - 1] = value.bytes[k]
  BY DEF Holds
<1>6. v.dynamic => count \in Nat /\ count <= v.max /\ len = count * v.size
  <2>. SUFFICES ASSUME v.dynamic PROVE count \in Nat /\ count <= v.max /\ len = count * v.size
    OBVIOUS
  <2>1. PICK c \in 0 .. v.max : len = c * v.size
    BY <1>3
  <2>2. c \in Nat /\ c <= v.max
    BY <1>2
  <2>3. count = c
    BY <2>1, <2>2, CountExact
  <2>. QED
    BY <2>1, <2>2, <2>3
<1>7. ReadTag(d) = tag
  <2>1. 0 + TagSize <= n
    BY <1>1, <1>2, <1>4
  <2>2. RawPrefix(d, 0, TagSize) = tag
    <3>. HIDE DEF tag
    <3>. QED
      BY <1>2, <1>5, <2>1, WrittenNumber
  <2>. QED
    BY <2>2 DEF ReadTag
<1>8. v.dynamic => RawPrefix(d, TagSize, v.pfx) = count /\ from <= n
  <2>. SUFFICES ASSUME v.dynamic PROVE RawPrefix(d, TagSize, v.pfx) = count /\ from <= n
    OBVIOUS
  <2>1. from <= n /\ TagSize + v.pfx <= n
    BY <1>1, <1>2, <1>4
  <2>. DEFINE pfx == v.pfx
  <2>2. count <= PrefixMax(pfx)
    <3>1. PrefixMax(pfx) \in Int
      BY <1>2, WeightNat DEF PrefixMax
    <3>. HIDE DEF v, count
    <3>. QED
      BY <1>2, <1>6, <3>1
  <2>3. count \in Nat /\ Written(d, TagSize, pfx, count) /\ pfx \in Width
    BY <1>2, <1>5, <1>6
  <2>. HIDE DEF pfx, count, v
  <2>4. RawPrefix(d, TagSize, pfx) = count
    BY <1>2, <2>1, <2>2, <2>3, WrittenPrefix DEF pfx
  <2>. QED
    BY <2>1, <2>4 DEF pfx
<1>9. v.dynamic => count <= UsizeMax
  <2>1. ASSUME v.dynamic PROVE count <= UsizeMax
    <3>. HIDE DEF tag, v, count, from, len
    <3>1. len \in Nat /\ len <= UsizeMax
      BY <1>1, <1>6, <2>1, PayloadFits DEF v
    <3>2. count <= len
      <4>. DEFINE s == v.size
      <4>1. s \in Nat /\ s > 0 /\ count \in Nat /\ len = count * s
        BY <1>2, <1>6, <2>1 DEF tag, v, count, len
      <4>. HIDE DEF s
      <4>2. 1 * count <= s * count
        BY <4>1, ProductsGrow
      <4>3. 1 * count = count /\ s * count = count * s
        BY <4>1
      <4>. QED
        BY <4>1, <4>2, <4>3
    <3>. QED
      BY <1>2, <1>6, <2>1, <3>1, <3>2 DEF tag, v, count
  <2>. QED
    BY <2>1
<1>10. Bounds(d, n, v) = Ok(from + len)
  <2>1. CASE v.dynamic
    <3>. HIDE DEF tag
    <3>1. Bounds(d, n, v) = Ok(from + count * v.size)
      <4>1. from + count * v.size <= n
        BY <1>4, <1>6, <2>1
      <4>. HIDE DEF count
      <4>. QED
        BY <1>1, <1>6, <1>8, <1>9, <2>1, <4>1, DynamicBounds
    <3>. QED
      BY <1>6, <2>1, <3>1
  <2>2. CASE ~v.dynamic
    <3>1. Bounds(d, n, v) = IF TagSize + v.size > n THEN Err("BufferTooSmall") ELSE Ok(TagSize + v.size)
      BY <1>1, <2>2, FixedBounds
    <3>. HIDE DEF v
    <3>2. TagSize + v.size = from + len /\ ~(from + len > n)
      BY <1>1, <1>2, <1>3, <1>4, <2>2
    <3>. QED
      BY <3>1, <3>2
  <2>. QED
    BY <1>2, <2>1, <2>2
<1>. HIDE DEF from, len, count
<1>11. PayloadValid(d, v, from + len)
  <2>1. ASSUME NEW a \in from .. (from + len) - 1 PROVE d[a] \in v.ok
    <3>. DEFINE k == a - from + 1
    <3>0. len \in Nat /\ from \in Nat
      BY <1>1, <1>2 DEF from, len
    <3>1. k \in 1 .. len /\ from + k - 1 = a
      BY <3>0
    <3>. HIDE DEF k
    <3>2. d[a] = value.bytes[k] /\ k \in DOMAIN value.bytes
      BY <1>1, <1>5, <3>1 DEF len
    <3>. QED
      BY <1>3, <3>2
  <2>. QED
    BY <2>1 DEF PayloadValid, from
<1>12. Validate(d, n) = Ok(from + len)
  <2>1. ValidateStorageLen(n).ok
    BY SizesFacts DEF ValidateStorageLen, Ok
  <2>2. Validate(d, n) = AndThen(Bounds(d, n, v),
            LAMBDA end : IF PayloadValid(d, v, end) THEN Ok(end) ELSE Err(v.error))
    BY <1>1, <1>7, <2>1 DEF Validate
  <2>. QED
    BY <1>10, <1>11, <2>2 DEF AndThen, Ok
<1>13. View(d) = value
  <2>. DEFINE bytes == [k \in 1 .. (IF v.dynamic THEN Wrap(CastPrefix(d, TagSize, v.pfx) * v.size)
                                    ELSE v.size) |-> d[from + k - 1]]
  <2>1. View(d) = [tag |-> tag, bytes |-> bytes]
    BY <1>7 DEF View, from
  <2>2. (IF v.dynamic THEN Wrap(CastPrefix(d, TagSize, v.pfx) * v.size) ELSE v.size) = len
    <3>1. \A x \in Nat : x <= UsizeMax => Wrap(x) = x
      BY <1>2 DEF Wrap
    <3>2. v.dynamic => CastPrefix(d, TagSize, v.pfx) = count
      BY <1>6, <1>8, <1>9, <3>1 DEF CastPrefix
    <3>3. v.dynamic => len <= UsizeMax
      BY <1>1, <1>6, PayloadFits
    <3>. HIDE DEF v
    <3>. QED
      BY <1>1, <1>3, <1>6, <3>1, <3>2, <3>3
  <2>3. bytes = [k \in 1 .. len |-> d[from + k - 1]]
    BY <2>2
  <2>. HIDE DEF bytes
  <2>4. bytes = [k \in 1 .. len |-> value.bytes[k]]
    BY <1>5, <2>3
  <2>5. value.bytes = [k \in 1 .. len |-> value.bytes[k]]
    BY <1>1 DEF len
  <2>. QED
    BY <1>1, <2>1, <2>4, <2>5
<1>. QED
  BY <1>12, <1>13 DEF Extent, from, len

-----------------------------------------------------------------------------
(* Patches.                                                                *)

\* A result is a success, or says nothing but its error.
Clean(r) == r.ok \in BOOLEAN /\ (~r.ok => r.value = 0)

\* What is computed with results is a result.
LEMMA CleanResults ==
    /\ \A e : Clean(Err(e)) /\ ~Err(e).ok
    /\ \A x : Clean(Ok(x)) /\ Ok(x).ok /\ Ok(x).value = x
    /\ \A a, b : Clean(CheckedAdd(a, b)) /\ Clean(CheckedMul(a, b))
    /\ \A n : Clean(ValidateStorageLen(n))
    /\ \A d, n, off, pfx : Clean(ReadPrefix(d, n, off, pfx))
<1>1. /\ \A e : Clean(Err(e)) /\ ~Err(e).ok
      /\ \A x : Clean(Ok(x)) /\ Ok(x).ok /\ Ok(x).value = x
  BY DEF Clean, Err, Ok
<1>2. /\ \A a, b : Clean(CheckedAdd(a, b)) /\ Clean(CheckedMul(a, b))
      /\ \A n : Clean(ValidateStorageLen(n))
  BY <1>1 DEF CheckedAdd, CheckedMul, ValidateStorageLen
<1>3. \A d, n, off, pfx : Clean(ReadPrefix(d, n, off, pfx))
  BY <1>1, <1>2 DEF ReadPrefix, DecodePrefix
<1>. QED
  BY <1>1, <1>2, <1>3

\* Validation ends with a result.
LEMMA CleanValidate == \A d, n : Clean(Validate(d, n))
<1>. TAKE d, n
<1>. DEFINE v == Variants[ReadTag(d)]
<1>1. Clean(Bounds(d, n, v))
  <2>. HIDE DEF v
  <2>1. \A end : Clean(IF end > n THEN Err("BufferTooSmall") ELSE Ok(end))
    BY CleanResults
  <2>2. \A count : Clean(AndThen(CheckedMul(count, v.size),
                     LAMBDA len : AndThen(CheckedAdd(PayloadOffset(v), len),
                         LAMBDA end : IF end > n THEN Err("BufferTooSmall") ELSE Ok(end))))
    BY <2>1, CleanResults DEF AndThen
  <2>3. \A count : Clean(IF count > v.max THEN Err("InvalidLength")
                         ELSE AndThen(CheckedMul(count, v.size),
                     LAMBDA len : AndThen(CheckedAdd(PayloadOffset(v), len),
                         LAMBDA end : IF end > n THEN Err("BufferTooSmall") ELSE Ok(end))))
    BY <2>2, CleanResults
  <2>. QED
    BY <2>1, <2>3, CleanResults DEF Bounds, AndThen
<1>. HIDE DEF v
<1>2. \A end : Clean(IF PayloadValid(d, v, end) THEN Ok(end) ELSE Err(v.error))
  BY CleanResults
<1>. QED
  BY <1>1, <1>2, CleanResults DEF Validate, AndThen, v

\* A patch is a value, of whole elements.
LEMMA PatchFacts ==
    ASSUME NEW p \in Patches
    PROVE  LET v == Variants[p.tag]
           IN  /\ p \in Values
               /\ v.dynamic => /\ Elements(p) \in Nat /\ Elements(p) = CountOf(p)
                               /\ Len(p.bytes) = Elements(p) * v.size
               /\ ~v.dynamic => Len(p.bytes) = v.size
<1>. DEFINE v == Variants[p.tag]
            m == Len(p.bytes)
            w == v.size
<1>1. p \in Values
  BY EnumPatchAssumption DEF Values
<1>2. p.tag \in DOMAIN Variants /\ m \in Nat /\ w \in Nat /\ (v.dynamic => w > 0)
  BY <1>1, VariantFacts DEF Values
<1>3. /\ v.dynamic => m % w = 0
      /\ ~v.dynamic => m = w
  BY EnumPatchAssumption
<1>4. v.dynamic => m \div w \in Nat /\ m = (m \div w) * w
  <2>. HIDE DEF m, w, v
  <2>1. ASSUME v.dynamic PROVE m \div w \in Nat /\ m = (m \div w) * w
    <3>. DEFINE q == m \div w
    <3>1. q \in Nat /\ m = q * w + (m % w)
      BY <1>2, <2>1, Division
    <3>2. q * w \in Nat
      BY <1>2, <3>1
    <3>. HIDE DEF q
    <3>3. m = q * w
      BY <1>3, <2>1, <3>1, <3>2
    <3>. QED
      BY <3>1, <3>3 DEF q
  <2>. QED
    BY <2>1
<1>. QED
  BY <1>1, <1>3, <1>4 DEF Elements, CountOf

\* encoded_len accepts the admissible patches and returns the bytes they take.
LEMMA EncodedLenExact ==
    ASSUME NEW p \in Patches
    PROVE  /\ Admissible(p) => EncodedLen(p) = Ok(Extent(p))
           /\ ~Admissible(p) => Clean(EncodedLen(p)) /\ ~EncodedLen(p).ok
           /\ Admissible(p) => Extent(p) \in Nat /\ Extent(p) <= MaxSize /\ MinSize <= Extent(p)
           /\ Admissible(p) \in BOOLEAN
<1>. DEFINE v == Variants[p.tag]
            from == PayloadOffset(v)
            count == Elements(p)
            m == Len(p.bytes)
<1>1. /\ p \in Values /\ p.tag \in DOMAIN Variants
      /\ v.dynamic => count \in Nat /\ m = count * v.size
      /\ ~v.dynamic => m = v.size
  BY PatchFacts DEF Values
<1>2. /\ TagSize \in Nat /\ v.dynamic \in BOOLEAN /\ v.max \in Nat /\ v.size \in Nat
      /\ v.dynamic => v.max <= PrefixMax(v.pfx) /\ v.size > 0
      /\ from \in Nat /\ from = IF v.dynamic THEN TagSize + v.pfx ELSE TagSize
      /\ LargestSize(v) \in Nat /\ SmallestSize(v) \in Nat
  BY <1>1, VariantFacts
<1>3. PrefixMax(v.pfx) \in Int
  <2>1. \A w \in Width : PrefixMax(w) \in Int
    BY WeightNat, PrefixesAssumption DEF PrefixMax
  <2>2. v.pfx \in Width
    BY <1>1, VariantFacts
  <2>. QED
    BY <2>1, <2>2
<1>4. BytesValid(p) \in BOOLEAN
  BY DEF BytesValid
<1>5. Admissible(p) <=> BytesValid(p) /\ (v.dynamic => count <= v.max)
  <2>1. v.dynamic => (m \in {c * v.size : c \in 0 .. v.max} <=> count <= v.max)
    <3>1. ASSUME v.dynamic, count <= v.max PROVE m \in {c * v.size : c \in 0 .. v.max}
      <4>1. count \in 0 .. v.max
        BY <1>1, <1>2, <3>1
      <4>. HIDE DEF v, count, m
      <4>. QED
        BY <1>1, <3>1, <4>1
    <3>2. ASSUME v.dynamic, m \in {c * v.size : c \in 0 .. v.max} PROVE count <= v.max
      <4>1. PICK c \in 0 .. v.max : m = c * v.size
        BY <3>2
      <4>2. c \in Nat /\ c <= v.max
        BY <1>2
      <4>3. CountOf(p) = c
        BY <1>1, <3>2, <4>1, <4>2, CountExact
      <4>. QED
        BY <3>2, <4>2, <4>3, PatchFacts
    <3>. QED
      BY <3>1, <3>2
  <2>2. Admissible(p) <=> /\ p.tag \in DOMAIN Variants
                          /\ BytesValid(p)
                          /\ IF v.dynamic THEN m \in {c * v.size : c \in 0 .. v.max} ELSE m = v.size
    BY DEF Admissible, BytesValid
  <2>. HIDE DEF v, count, m
  <2>. QED
    BY <1>1, <1>2, <2>1, <2>2 DEF v
<1>6. Extent(p) = from + m
  BY DEF Extent
<1>7. ASSUME ~v.dynamic
      PROVE  /\ EncodedLen(p) = IF BytesValid(p) THEN Ok(from + m) ELSE Err(v.error)
             /\ from + m = LargestSize(v) /\ from + m = SmallestSize(v)
  <2>1. CheckedAdd(TagSize, v.size) = Ok(TagSize + v.size)
    BY <1>1, <1>7, VariantFacts, BoundedIsExact DEF LargestSize, PayloadOffset
  <2>2. EncodedLen(p) = IF BytesValid(p) THEN CheckedAdd(TagSize, v.size) ELSE Err(v.error)
    BY <1>7 DEF EncodedLen
  <2>3. from = TagSize /\ m = v.size
    BY <1>1, <1>2, <1>7
  <2>4. LargestSize(v) = from + v.size /\ SmallestSize(v) = from + v.size
    BY <1>7 DEF LargestSize, SmallestSize
  <2>. HIDE DEF v, from, m
  <2>. QED
    BY <2>1, <2>2, <2>3, <2>4
<1>8. ASSUME v.dynamic
      PROVE  /\ count <= v.max /\ BytesValid(p) => EncodedLen(p) = Ok(from + m)
             /\ ~(count <= v.max /\ BytesValid(p)) => Clean(EncodedLen(p)) /\ ~EncodedLen(p).ok
             /\ count <= v.max => from + m <= LargestSize(v)
             /\ from + m >= SmallestSize(v)
  <2>1. EncodedLen(p) =
          IF count > v.max THEN Err("Overflow")
          ELSE IF ~CheckPrefix(count, v.pfx).ok THEN CheckPrefix(count, v.pfx)
          ELSE IF ~BytesValid(p) THEN Err(v.error)
          ELSE AndThen(CheckedMul(count, v.size), LAMBDA len : CheckedAdd(from, len))
    BY <1>8 DEF EncodedLen
  <2>2. SmallestSize(v) = from
    BY <1>2, <1>8 DEF SmallestSize
  <2>3. count <= v.max =>
          /\ CheckedMul(count, v.size) = Ok(m) /\ CheckedAdd(from, m) = Ok(from + m)
          /\ from + m <= LargestSize(v)
    <3>. HIDE DEF count, m, from
    <3>. QED
      BY <1>1, <1>8, PayloadFits DEF from
  <2>4. m \in Nat
    BY <1>1 DEF Values
  <2>. HIDE DEF v, from, m, count
  <2>5. count <= v.max => CheckPrefix(count, v.pfx) = Ok(count) /\ ~(count > v.max)
    BY <1>1, <1>2, <1>3, <1>8 DEF CheckPrefix
  <2>6. ~(count <= v.max) => count > v.max
    BY <1>1, <1>2, <1>8
  <2>7. count <= v.max /\ BytesValid(p) => EncodedLen(p) = Ok(from + m)
    BY <2>1, <2>3, <2>5, CleanResults DEF AndThen
  <2>8. ~(count <= v.max /\ BytesValid(p)) => Clean(EncodedLen(p)) /\ ~EncodedLen(p).ok
    BY <2>1, <2>5, <2>6, CleanResults
  <2>. QED
    BY <1>2, <2>2, <2>3, <2>4, <2>7, <2>8
<1>9. /\ MinSize \in Nat /\ MaxSize \in Nat /\ MinSize <= SmallestSize(v) /\ LargestSize(v) <= MaxSize
  BY <1>1, SizesFacts
<1>10. m \in Nat
  BY <1>1 DEF Values
<1>. HIDE DEF v, from, m, count
<1>11. Admissible(p) => EncodedLen(p) = Ok(Extent(p))
  BY <1>2, <1>5, <1>6, <1>7, <1>8
<1>12. ~Admissible(p) => Clean(EncodedLen(p)) /\ ~EncodedLen(p).ok
  BY <1>2, <1>5, <1>7, <1>8, CleanResults
<1>13. Admissible(p) => from + m <= LargestSize(v) /\ from + m >= SmallestSize(v) /\ from + m \in Nat
  BY <1>2, <1>5, <1>7, <1>8, <1>10
<1>14. Admissible(p) => Extent(p) \in Nat /\ Extent(p) <= MaxSize /\ MinSize <= Extent(p)
  BY <1>2, <1>6, <1>9, <1>13
<1>15. Admissible(p) \in BOOLEAN
  BY DEF Admissible
<1>. QED
  BY <1>11, <1>12, <1>14, <1>15

\* Writing a patch stores its encoding and nothing behind it.
LEMMA WriteHolds ==
    ASSUME NEW n \in Nat, NEW d \in [0 .. (n - 1) -> Byte], NEW p \in Patches, Extent(p) <= n
    PROVE  /\ Write(d, p) \in [0 .. (n - 1) -> Byte]
           /\ Holds(Write(d, p), p)
           /\ \A a \in 0 .. (n - 1) : a >= Extent(p) => Write(d, p)[a] = d[a]
<1>. DEFINE tag == p.tag
            v == Variants[tag]
            from == PayloadOffset(v)
            m == Len(p.bytes)
            count == Elements(p)
            tagged == PutPrefix(d, 0, TagSize, tag)
            counted == IF v.dynamic THEN PutPrefix(tagged, TagSize, v.pfx, count) ELSE tagged
            w == Write(d, p)
<1>1. /\ tag \in DOMAIN Variants /\ p.bytes \in Seq(Byte) /\ m \in Nat
      /\ v.dynamic => count \in Nat /\ count = CountOf(p)
  BY PatchFacts DEF Values
<1>2. /\ tag \in Nat /\ TagSize \in Nat /\ TagSize \in Width /\ v.dynamic \in BOOLEAN
      /\ v.pfx \in Nat /\ v.pfx \in Width
      /\ from \in Nat /\ from = IF v.dynamic THEN TagSize + v.pfx ELSE TagSize
  BY <1>1, VariantFacts
<1>3. Extent(p) = from + m
  BY DEF Extent
<1>4. DOMAIN d = 0 .. (n - 1)
  OBVIOUS
<1>5. tagged = [a \in 0 .. (n - 1) |->
                  IF a \in 0 .. (0 + TagSize - 1) THEN LeByte(tag, a - 0) ELSE d[a]]
  BY <1>4 DEF PutPrefix
<1>6. \A a \in 0 .. (n - 1) : a \in 0 .. (0 + TagSize - 1) => LeByte(tag, a - 0) \in Byte
  <2>1. \A a \in 0 .. (n - 1) : a \in 0 .. (0 + TagSize - 1) => a - 0 \in 0 .. 7
    BY <1>2 DEF Width
  <2>. HIDE DEF tag
  <2>. QED
    BY <1>2, <2>1, LeByteIsByte
<1>7. /\ tagged \in [0 .. (n - 1) -> Byte]
      /\ \A a \in 0 .. (n - 1) : a < TagSize => tagged[a] = LeByte(tag, a)
      /\ \A a \in 0 .. (n - 1) : a >= TagSize => tagged[a] = d[a]
  <2>. HIDE DEF tag, tagged
  <2>1. tagged \in [0 .. (n - 1) -> Byte]
    BY <1>5, <1>6
  <2>2. \A a \in 0 .. (n - 1) : a < TagSize => a \in 0 .. (0 + TagSize - 1) /\ a - 0 = a
    BY <1>2
  <2>3. \A a \in 0 .. (n - 1) : a >= TagSize => a \notin 0 .. (0 + TagSize - 1)
    BY <1>2
  <2>. QED
    BY <1>5, <2>1, <2>2, <2>3
<1>. HIDE DEF tagged, tag
<1>8. /\ counted \in [0 .. (n - 1) -> Byte]
      /\ \A a \in 0 .. (n - 1) : a < TagSize => counted[a] = LeByte(tag, a)
      /\ v.dynamic => \A a \in 0 .. (n - 1) :
             TagSize <= a /\ a < from => counted[a] = LeByte(count, a - TagSize)
      /\ \A a \in 0 .. (n - 1) : a >= from => counted[a] = d[a]
  <2>. HIDE DEF v, from, count
  <2>1. CASE v.dynamic
    <3>1. counted = [a \in 0 .. (n - 1) |->
                       IF a \in TagSize .. (TagSize + v.pfx - 1) THEN LeByte(count, a - TagSize)
                       ELSE tagged[a]]
      BY <1>7, <2>1 DEF PutPrefix
    <3>2. \A a \in 0 .. (n - 1) : a \in TagSize .. (TagSize + v.pfx - 1) => LeByte(count, a - TagSize) \in Byte
      <4>1. \A a \in 0 .. (n - 1) : a \in TagSize .. (TagSize + v.pfx - 1) => a - TagSize \in 0 .. 7
        BY <1>2 DEF Width
      <4>. QED
        BY <1>1, <2>1, <4>1, LeByteIsByte
    <3>. HIDE DEF counted
    <3>3. \A a \in 0 .. (n - 1) : a \in TagSize .. (TagSize + v.pfx - 1) <=> TagSize <= a /\ a < from
      BY <1>2, <2>1
    <3>4. counted \in [0 .. (n - 1) -> Byte]
      BY <1>7, <3>1, <3>2
    <3>5. from >= TagSize
      BY <1>2
    <3>6. \A a \in 0 .. (n - 1) : a < TagSize => counted[a] = LeByte(tag, a)
      BY <1>2, <1>7, <3>1, <3>3
    <3>7. \A a \in 0 .. (n - 1) : a >= from => counted[a] = d[a]
      BY <1>2, <1>7, <3>1, <3>3, <3>5
    <3>. QED
      BY <3>1, <3>3, <3>4, <3>6, <3>7
  <2>2. CASE ~v.dynamic
    <3>1. counted = tagged
      BY <2>2
    <3>. HIDE DEF counted
    <3>. QED
      BY <1>2, <1>7, <2>2, <3>1
  <2>. QED
    BY <1>2, <2>1, <2>2
<1>9. w = [a \in 0 .. (n - 1) |->
             IF from <= a /\ a < from + m THEN p.bytes[a - from + 1] ELSE counted[a]]
  BY <1>4 DEF Write, tagged, tag
<1>. HIDE DEF counted, w
<1>10. \A a \in 0 .. (n - 1) : from <= a /\ a < from + m => a - from + 1 \in 1 .. m
  <2>1. from \in Int /\ m \in Int
    BY <1>1, <1>2
  <2>. HIDE DEF from, m
  <2>. QED
    BY <2>1
<1>11. \A k \in 1 .. m : p.bytes[k] \in Byte
  BY <1>1
<1>. HIDE DEF v, from, m
<1>12. w \in [0 .. (n - 1) -> Byte]
  BY <1>8, <1>9, <1>10, <1>11
<1>13. Holds(w, p)
  <2>1. ASSUME NEW k \in 0 .. (TagSize - 1) PROVE w[0 + k] = LeByte(tag, k)
    <3>1. 0 + k = k /\ k \in 0 .. (n - 1) /\ k < TagSize /\ ~(from <= k)
      BY <1>1, <1>2, <1>3
    <3>. QED
      BY <1>8, <1>9, <3>1
  <2>2. ASSUME v.dynamic, NEW k \in 0 .. (v.pfx - 1) PROVE w[TagSize + k] = LeByte(count, k)
    <3>. DEFINE a == TagSize + k
    <3>1. a \in 0 .. (n - 1) /\ TagSize <= a /\ a < from /\ ~(from <= a) /\ a - TagSize = k
      BY <1>1, <1>2, <1>3, <2>2
    <3>. HIDE DEF a
    <3>2. w[a] = LeByte(count, k)
      BY <1>8, <1>9, <2>2, <3>1
    <3>. QED
      BY <3>2 DEF a
  <2>3. ASSUME NEW k \in 1 .. m PROVE w[from + k - 1] = p.bytes[k]
    <3>. DEFINE a == from + k - 1
    <3>0. from \in Nat /\ m \in Nat /\ from + m <= n
      BY <1>1, <1>2, <1>3 DEF m, v, from
    <3>1. a \in 0 .. (n - 1) /\ from <= a /\ a < from + m /\ a - from + 1 = k
      BY <3>0
    <3>. HIDE DEF a
    <3>2. w[a] = p.bytes[k]
      BY <1>9, <3>1
    <3>. QED
      BY <3>2 DEF a
  <2>. HIDE DEF count
  <2>4. v.dynamic => Written(w, TagSize, v.pfx, CountOf(p))
    BY <1>1, <2>2 DEF Written
  <2>. QED
    BY <2>1, <2>3, <2>4 DEF Holds, Written, tag, v, from, m
<1>14. \A a \in 0 .. (n - 1) : a >= Extent(p) => w[a] = d[a]
  <2>1. \A a \in 0 .. (n - 1) : a >= from + m => a >= from /\ ~(a < from + m)
    BY <1>1, <1>2
  <2>. QED
    BY <1>3, <1>8, <1>9, <2>1
<1>. QED
  BY <1>12, <1>13, <1>14 DEF w

\* Clearing a range leaves the bytes outside it.
LEMMA ZeroRangeFacts ==
    ASSUME NEW n \in Nat, NEW d \in [0 .. (n - 1) -> Byte], NEW from \in Nat, NEW to \in Nat
    PROVE  /\ ZeroRange(d, from, to) \in [0 .. (n - 1) -> Byte]
           /\ \A a \in 0 .. (n - 1) : ZeroRange(d, from, to)[a] =
                IF from <= a /\ a < to THEN 0 ELSE d[a]
<1>1. 0 \in Byte
  BY PrefixesAssumption DEF Byte
<1>. QED
  BY <1>1 DEF ZeroRange

\* An allocation of the schema that begins with the bytes of an accepted value
\* shows that value.
LEMMA SameValue ==
    ASSUME NEW n \in Nat, NEW d \in [0 .. (n - 1) -> Byte], Validate(d, n).ok,
           NEW m \in Nat, NEW e \in [0 .. (m - 1) -> Byte],
           MinSize <= m, m <= MaxSize, Extent(View(d)) <= m,
           \A a \in 0 .. (n - 1) : a < Extent(View(d)) => e[a] = d[a]
    PROVE  Validate(e, m) = Validate(d, n) /\ View(e) = View(d)
<1>. DEFINE value == View(d)
<1>1. /\ value \in Values /\ Admissible(value) /\ Holds(d, value)
      /\ Extent(value) <= n /\ Validate(d, n) = Ok(Extent(value))
  BY AcceptedValue
<1>. HIDE DEF value
<1>2. Size(value) = Extent(value) /\ Size(value) \in Nat
  BY <1>1, EncodeParts
<1>3. \A k \in 1 .. Size(value) : d[k - 1] = Encode(value)[k]
  BY <1>1, HoldsIsEncoded
<1>4. \A k \in 1 .. Size(value) : k - 1 \in 0 .. (n - 1) /\ k - 1 < Extent(value)
  BY <1>1, <1>2
<1>5. \A k \in 1 .. Size(value) : e[k - 1] = Encode(value)[k]
  BY <1>3, <1>4 DEF value
<1>6. Holds(e, value)
  BY <1>1, <1>5, HoldsIsEncoded
<1>7. Validate(e, m) = Ok(Extent(value)) /\ View(e) = value
  <2>1. Extent(value) <= m
    BY DEF value
  <2>. QED
    BY <1>1, <1>6, <2>1, EncodedIsAccepted
<1>. QED
  BY <1>1, <1>7 DEF value

-----------------------------------------------------------------------------
(* The inductive invariant.                                                *)

EnumTyped ==
    /\ size \in Nat
    /\ data \in [0 .. (size - 1) -> Byte]
    /\ used \in Nat

\* A length just announced is that of an admissible patch, and the account is
\* readable.
Announced ==
    reply.op = "updated_len" /\ reply.result.ok =>
        /\ Validate(data, size).ok
        /\ \E p \in Patches : Admissible(p) /\ reply.result = Ok(Extent(p))

\* After a successful write the account shows the patch and the call returned
\* its length.
Stored ==
    reply.op \in {"update", "initialize"} /\ reply.result.ok =>
        \E p \in Patches :
            /\ Admissible(p) /\ reply.result = Ok(Extent(p))
            /\ Validate(data, size) = Ok(Extent(p)) /\ View(data) = p

EnumInv == EnumTyped /\ Announced /\ Stored /\ VacatedBytesAreZeroed

\* The bytes in use are a prefix of the account.
LEMMA InUseFacts ==
    ASSUME NEW n \in Nat, NEW d \in [0 .. (n - 1) -> Byte]
    PROVE  /\ InUse(d, n) \in Nat
           /\ Validate(d, n).ok => InUse(d, n) = Extent(View(d))
           /\ ~Validate(d, n).ok => InUse(d, n) = 0
<1>1. Validate(d, n).ok => View(d) \in Values /\ Validate(d, n) = Ok(Extent(View(d)))
  BY AcceptedValue
<1>2. Validate(d, n).ok => Extent(View(d)) \in Nat
  BY <1>1, EncodeParts
<1>3. Validate(d, n).ok => Validate(d, n).value = Extent(View(d))
  BY <1>1 DEF Ok
<1>. QED
  BY <1>2, <1>3 DEF InUse

\* What update checks before its first write decides as the specification does.
LEMMA PreflightExact ==
    ASSUME EnumTyped, NEW p \in Patches
    PROVE  /\ Validate(data, size).ok /\ Admissible(p) /\ Extent(p) <= size =>
                Preflight(p) = Ok(Extent(p))
           /\ ~(Validate(data, size).ok /\ Admissible(p) /\ Extent(p) <= size) =>
                Clean(Preflight(p)) /\ ~Preflight(p).ok
<1>. DEFINE Checked == Room(EncodedLen(p))
            Rest == AndThen(CurrentLen(data, size), LAMBDA old : Checked)
<1>1. size \in Nat /\ data \in [0 .. (size - 1) -> Byte]
  BY DEF EnumTyped
<1>2. /\ Admissible(p) /\ Extent(p) <= size => Checked = Ok(Extent(p))
      /\ ~(Admissible(p) /\ Extent(p) <= size) => Clean(Checked) /\ ~Checked.ok
  <2>1. Admissible(p) => Checked = IF Extent(p) > size THEN Err("BufferTooSmall") ELSE Ok(Extent(p))
    BY EncodedLenExact, CleanResults DEF Room, AndThen
  <2>2. ~Admissible(p) => Checked = EncodedLen(p)
    BY EncodedLenExact DEF Room, AndThen
  <2>3. Admissible(p) => (Extent(p) <= size <=> ~(Extent(p) > size))
    BY <1>1, EncodedLenExact
  <2>. HIDE DEF Checked
  <2>. QED
    BY <2>1, <2>2, <2>3, EncodedLenExact, CleanResults
<1>3. Validate(data, size).ok => CurrentLen(data, size) = Ok(Extent(View(data)))
  BY <1>1, AcceptedValue
<1>4. Preflight(p) = AndThen(Validate(data, size), LAMBDA end : Rest)
  BY DEF Preflight
<1>. HIDE DEF Checked
<1>5. Validate(data, size).ok => Rest = Checked
  BY <1>3, CleanResults DEF AndThen
<1>. HIDE DEF Rest
<1>6. Preflight(p) = IF Validate(data, size).ok THEN Rest ELSE Validate(data, size)
  BY <1>4 DEF AndThen
<1>. QED
  BY <1>2, <1>5, <1>6, CleanValidate

\* update replaces the variant and clears what the larger one leaves, or does
\* nothing.
LEMMA UpdateEffect ==
    ASSUME EnumTyped, NEW p \in Patches, Update(p)
    PROVE  LET ok == Validate(data, size).ok /\ Admissible(p) /\ Extent(p) <= size
           IN  /\ size' = size /\ data' \in [0 .. (size - 1) -> Byte]
               /\ reply' = Answer("update", p, Preflight(p))
               /\ used' = IF InUse(data', size) > used THEN InUse(data', size) ELSE used
               /\ ok => /\ Preflight(p) = Ok(Extent(p))
                        /\ Validate(data', size) = Ok(Extent(p)) /\ View(data') = p
                        /\ \A a \in 0 .. (size - 1) : a >= Extent(p) =>
                             data'[a] = IF a < InUse(data, size) THEN 0 ELSE data[a]
               /\ ~ok => Clean(Preflight(p)) /\ ~Preflight(p).ok /\ data' = data
<1>. DEFINE ok == Validate(data, size).ok /\ Admissible(p) /\ Extent(p) <= size
            written == Write(data, p)
            old == CurrentLen(data, size).value
<1>1. size \in Nat /\ data \in [0 .. (size - 1) -> Byte]
  BY DEF EnumTyped
<1>2. /\ size' = size
      /\ data' = IF Preflight(p).ok THEN ZeroRange(written, Preflight(p).value, old) ELSE data
      /\ reply' = Answer("update", p, Preflight(p))
      /\ used' = IF InUse(data', size) > used THEN InUse(data', size) ELSE used
  BY DEF Update, Return
<1>3. ASSUME ok
      PROVE  /\ Preflight(p) = Ok(Extent(p)) /\ data' \in [0 .. (size - 1) -> Byte]
             /\ Validate(data', size) = Ok(Extent(p)) /\ View(data') = p
             /\ \A a \in 0 .. (size - 1) : a >= Extent(p) =>
                  data'[a] = IF a < InUse(data, size) THEN 0 ELSE data[a]
  <2>1. Preflight(p) = Ok(Extent(p))
    BY <1>3, PreflightExact
  <2>2. /\ View(data) \in Values /\ old = InUse(data, size) /\ old \in Nat
    BY <1>1, <1>3, AcceptedValue, InUseFacts, CleanResults
  <2>3. Extent(p) \in Nat /\ Extent(p) <= size /\ p \in Values /\ Admissible(p)
    BY <1>3, EncodedLenExact, PatchFacts
  <2>4. /\ written \in [0 .. (size - 1) -> Byte] /\ Holds(written, p)
        /\ \A a \in 0 .. (size - 1) : a >= Extent(p) => written[a] = data[a]
    BY <1>1, <2>3, WriteHolds
  <2>. HIDE DEF old, written
  <2>5. data' = ZeroRange(written, Extent(p), old)
    BY <1>2, <2>1, CleanResults
  <2>6. /\ data' \in [0 .. (size - 1) -> Byte]
        /\ \A a \in 0 .. (size - 1) : data'[a] = IF Extent(p) <= a /\ a < old THEN 0 ELSE written[a]
    BY <1>1, <2>2, <2>3, <2>4, <2>5, ZeroRangeFacts
  <2>7. Size(p) = Extent(p) /\ Size(p) \in Nat
    BY <2>3, EncodeParts
  <2>8. \A k \in 1 .. Size(p) : written[k - 1] = Encode(p)[k]
    BY <2>3, <2>4, HoldsIsEncoded
  <2>9. \A k \in 1 .. Size(p) : k - 1 \in 0 .. (size - 1) /\ ~(Extent(p) <= k - 1)
    BY <1>1, <2>3, <2>7
  <2>10. \A k \in 1 .. Size(p) : data'[k - 1] = Encode(p)[k]
    BY <2>6, <2>8, <2>9
  <2>11. Holds(data', p)
    BY <2>3, <2>10, HoldsIsEncoded
  <2>12. MinSize <= size /\ size <= MaxSize
    BY <1>1, <1>3, AcceptedTag
  <2>13. Validate(data', size) = Ok(Extent(p)) /\ View(data') = p
    BY <1>1, <2>3, <2>6, <2>11, <2>12, EncodedIsAccepted
  <2>14. \A a \in 0 .. (size - 1) : a >= Extent(p) => Extent(p) <= a
    BY <2>3
  <2>. QED
    BY <2>1, <2>2, <2>4, <2>6, <2>13, <2>14
<1>4. ASSUME ~ok PROVE Clean(Preflight(p)) /\ ~Preflight(p).ok /\ data' = data
  BY <1>2, <1>4, PreflightExact
<1>. QED
  BY <1>1, <1>2, <1>3, <1>4

\* initialize stores the variant over zeros, or leaves zeros.
LEMMA InitializeEffect ==
    ASSUME EnumTyped, NEW p \in Patches, Initialize(p)
    PROVE  LET ok == MinSize <= size /\ size <= MaxSize /\ Admissible(p) /\ Extent(p) <= size
           IN  \E result :
               /\ size' = size /\ data' \in [0 .. (size - 1) -> Byte]
               /\ reply' = Answer("initialize", p, result)
               /\ used' = IF InUse(data', size) > used THEN InUse(data', size) ELSE used
               /\ ok => /\ result = Ok(Extent(p))
                        /\ Validate(data', size) = Ok(Extent(p)) /\ View(data') = p
                        /\ \A a \in 0 .. (size - 1) : a >= Extent(p) => data'[a] = 0
               /\ ~ok => /\ Clean(result) /\ ~result.ok
                         /\ data' = [a \in 0 .. (size - 1) |-> 0]
<1>. DEFINE ok == MinSize <= size /\ size <= MaxSize /\ Admissible(p) /\ Extent(p) <= size
            blank == ZeroRange(data, 0, size)
            len == AndThen(ValidateStorageLen(size), LAMBDA n : Room(EncodedLen(p)))
            result == AndThen(len,
                LAMBDA n : AndThen(Validate(Write(blank, p), size), LAMBDA end : len))
<1>1. size \in Nat /\ data \in [0 .. (size - 1) -> Byte]
  BY DEF EnumTyped
<1>2. /\ size' = size
      /\ data' = IF result.ok THEN Write(blank, p) ELSE blank
      /\ reply' = Answer("initialize", p, result)
      /\ used' = IF InUse(data', size) > used THEN InUse(data', size) ELSE used
  BY DEF Initialize, Return
<1>3. blank = [a \in 0 .. (size - 1) |-> 0] /\ blank \in [0 .. (size - 1) -> Byte]
  <2>1. DOMAIN data = 0 .. (size - 1)
    BY <1>1
  <2>2. \A a \in 0 .. (size - 1) : 0 <= a /\ a < size
    BY <1>1
  <2>3. 0 \in Byte
    BY PrefixesAssumption DEF Byte
  <2>4. blank = [a \in 0 .. (size - 1) |-> 0]
    BY <2>1, <2>2 DEF ZeroRange
  <2>. HIDE DEF blank
  <2>. QED
    BY <2>3, <2>4
<1>. HIDE DEF blank
<1>4. /\ ok => len = Ok(Extent(p))
      /\ ~ok => Clean(len) /\ ~len.ok
  <2>. DEFINE Checked == Room(EncodedLen(p))
  <2>1. /\ Admissible(p) => Checked = IF Extent(p) > size THEN Err("BufferTooSmall") ELSE Ok(Extent(p))
        /\ ~Admissible(p) => Checked = EncodedLen(p)
    BY EncodedLenExact, CleanResults DEF Room, AndThen
  <2>2. Admissible(p) => (Extent(p) <= size <=> ~(Extent(p) > size))
    BY <1>1, EncodedLenExact
  <2>3. ValidateStorageLen(size) = IF MinSize <= size /\ size <= MaxSize THEN Ok(size)
                                   ELSE Err("InvalidLength")
    BY <1>1, SizesFacts DEF ValidateStorageLen
  <2>. HIDE DEF Checked
  <2>4. len = IF MinSize <= size /\ size <= MaxSize THEN Checked ELSE Err("InvalidLength")
    BY <2>3, CleanResults DEF AndThen, Checked
  <2>. HIDE DEF len
  <2>. QED
    BY <2>1, <2>2, <2>4, EncodedLenExact, CleanResults
<1>. HIDE DEF len
<1>5. ASSUME ok
      PROVE  /\ result = Ok(Extent(p)) /\ data' \in [0 .. (size - 1) -> Byte]
             /\ Validate(data', size) = Ok(Extent(p)) /\ View(data') = p
             /\ \A a \in 0 .. (size - 1) : a >= Extent(p) => data'[a] = 0
  <2>. DEFINE written == Write(blank, p)
  <2>1. p \in Values
    BY PatchFacts
  <2>2. /\ written \in [0 .. (size - 1) -> Byte] /\ Holds(written, p)
        /\ \A a \in 0 .. (size - 1) : a >= Extent(p) => written[a] = blank[a]
    BY <1>1, <1>3, <1>5, WriteHolds
  <2>. HIDE DEF written
  <2>3. Validate(written, size) = Ok(Extent(p)) /\ View(written) = p
    BY <1>1, <1>5, <2>1, <2>2, EncodedIsAccepted
  <2>4. result = Ok(Extent(p))
    BY <1>4, <1>5, <2>3, CleanResults DEF AndThen, written
  <2>5. data' = written
    BY <1>2, <2>4, CleanResults DEF written
  <2>. QED
    BY <1>3, <2>2, <2>3, <2>4, <2>5
<1>6. ASSUME ~ok PROVE Clean(result) /\ ~result.ok /\ data' = blank
  <2>1. result = len
    BY <1>4, <1>6 DEF AndThen
  <2>. QED
    BY <1>2, <1>4, <1>6, <2>1
<1>. HIDE DEF result
<1>. QED
  BY <1>2, <1>3, <1>5, <1>6

\* The framework grows the account: zeros follow, and the value stays.
LEMMA GrowEffect ==
    ASSUME EnumInv, Grow
    PROVE  /\ size' \in Nat /\ data' \in [0 .. (size' - 1) -> Byte] /\ UNCHANGED <<reply, used>>
           /\ \A a \in 0 .. (size' - 1) : data'[a] = IF a < size THEN data[a] ELSE 0
           /\ Validate(data, size).ok /\ size' = reply.result.value /\ reply.result.ok
           /\ size < size' /\ MinSize <= size' /\ size' <= MaxSize
           /\ Validate(data', size') = Validate(data, size) /\ View(data') = View(data)
<1>1. /\ size \in Nat /\ data \in [0 .. (size - 1) -> Byte]
      /\ reply.op = "updated_len" /\ reply.result.ok
      /\ reply.result.value > size /\ size' = reply.result.value
      /\ data' = [a \in 0 .. (size' - 1) |-> IF a < size THEN data[a] ELSE 0]
      /\ UNCHANGED <<reply, used>>
  BY DEF EnumInv, EnumTyped, Grow
<1>2. Validate(data, size).ok
  BY <1>1 DEF EnumInv, Announced
<1>3. PICK p \in Patches : Admissible(p) /\ reply.result = Ok(Extent(p))
  BY <1>1 DEF EnumInv, Announced
<1>4. size' = Extent(p) /\ size' \in Nat /\ MinSize <= size' /\ size' <= MaxSize /\ size < size'
  BY <1>1, <1>3, CleanResults, EncodedLenExact
<1>5. data' \in [0 .. (size' - 1) -> Byte]
  <2>1. 0 \in Byte
    BY PrefixesAssumption DEF Byte
  <2>2. \A a \in 0 .. (size' - 1) : a < size => a \in 0 .. (size - 1)
    BY <1>1, <1>4
  <2>. QED
    BY <1>1, <2>1, <2>2
<1>6. View(data) \in Values /\ Extent(View(data)) <= size
  BY <1>1, <1>2, AcceptedValue
<1>7. Extent(View(data)) \in Nat
  BY <1>6, EncodeParts
<1>8. Extent(View(data)) <= size'
  BY <1>1, <1>4, <1>6, <1>7
<1>9. \A a \in 0 .. (size - 1) : a < Extent(View(data)) => data'[a] = data[a]
  <2>1. \A a \in 0 .. (size - 1) : a \in 0 .. (size' - 1) /\ a < size
    BY <1>1, <1>4
  <2>. QED
    BY <1>1, <2>1
<1>10. Validate(data', size') = Validate(data, size) /\ View(data') = View(data)
  <2>. DEFINE m == size'
              e == data'
  <2>1. m \in Nat /\ e \in [0 .. (m - 1) -> Byte] /\ MinSize <= m /\ m <= MaxSize /\ Extent(View(data)) <= m
    BY <1>4, <1>5, <1>8
  <2>2. \A a \in 0 .. (size - 1) : a < Extent(View(data)) => e[a] = data[a]
    BY <1>9
  <2>. HIDE DEF m, e
  <2>3. Validate(e, m) = Validate(data, size) /\ View(e) = View(data)
    BY <1>1, <1>2, <2>1, <2>2, SameValue
  <2>. QED
    BY <2>3 DEF m, e
<1>. QED
  BY <1>1, <1>2, <1>4, <1>5, <1>10

\* The framework trims the account to the value it shows.
LEMMA TrimEffect ==
    ASSUME EnumInv, Trim
    PROVE  \E p \in Patches :
           /\ Admissible(p) /\ Validate(data, size) = Ok(Extent(p)) /\ View(data) = p
           /\ size' \in Nat /\ data' \in [0 .. (size' - 1) -> Byte] /\ UNCHANGED <<reply, used>>
           /\ size' = Extent(p) /\ reply.result = Ok(Extent(p))
           /\ MinSize <= size' /\ size' <= MaxSize
           /\ Validate(data', size') = Validate(data, size) /\ View(data') = View(data)
<1>1. /\ size \in Nat /\ data \in [0 .. (size - 1) -> Byte]
      /\ reply.op \in {"update", "initialize"} /\ reply.result.ok
      /\ reply.result.value < size /\ size' = reply.result.value
      /\ data' = [a \in 0 .. (size' - 1) |-> data[a]]
      /\ UNCHANGED <<reply, used>>
  BY DEF EnumInv, EnumTyped, Trim
<1>2. PICK p \in Patches :
        /\ Admissible(p) /\ reply.result = Ok(Extent(p))
        /\ Validate(data, size) = Ok(Extent(p)) /\ View(data) = p
  BY <1>1 DEF EnumInv, Stored
<1>3. size' = Extent(p) /\ size' \in Nat /\ MinSize <= size' /\ size' <= MaxSize /\ size' < size
  BY <1>1, <1>2, CleanResults, EncodedLenExact
<1>4. \A a \in 0 .. (size' - 1) : a \in 0 .. (size - 1)
  BY <1>1, <1>3
<1>5. data' \in [0 .. (size' - 1) -> Byte]
  BY <1>1, <1>4
<1>6. \A a \in 0 .. (size - 1) : a < Extent(p) => data'[a] = data[a]
  <2>1. \A a \in 0 .. (size - 1) : a < Extent(p) => a \in 0 .. (size' - 1)
    BY <1>1, <1>3
  <2>. QED
    BY <1>1, <2>1
<1>7. Validate(data', size') = Validate(data, size) /\ View(data') = View(data)
  <2>. DEFINE m == size'
              e == data'
  <2>1. m \in Nat /\ e \in [0 .. (m - 1) -> Byte] /\ MinSize <= m /\ m <= MaxSize /\ Extent(View(data)) <= m
    BY <1>2, <1>3, <1>5
  <2>2. \A a \in 0 .. (size - 1) : a < Extent(View(data)) => e[a] = data[a]
    BY <1>2, <1>6
  <2>. HIDE DEF m, e
  <2>3. Validate(data, size).ok
    BY <1>2, CleanResults
  <2>4. Validate(e, m) = Validate(data, size) /\ View(e) = View(data)
    BY <1>1, <2>1, <2>2, <2>3, SameValue
  <2>. QED
    BY <2>4 DEF m, e
<1>. QED
  BY <1>1, <1>2, <1>3, <1>5, <1>7

\* Account bytes of any content satisfy the invariant.
LEMMA EnumInit == Init => EnumInv
<1>. SUFFICES ASSUME Init PROVE EnumInv
  OBVIOUS
<1>1. PICK bytes \in Accounts : size = Len(bytes) /\ data = Slice(bytes)
  BY DEF Init
<1>2. bytes \in Seq(Byte)
  BY EnumPatchAssumption
<1>3. size \in Nat /\ data \in [0 .. (size - 1) -> Byte]
  <2>1. Len(bytes) \in Nat /\ \A k \in 1 .. Len(bytes) : bytes[k] \in Byte
    BY <1>2
  <2>2. \A a \in 0 .. (Len(bytes) - 1) : a + 1 \in 1 .. Len(bytes)
    BY <2>1
  <2>3. data = [a \in 0 .. (Len(bytes) - 1) |-> bytes[a + 1]]
    BY <1>1 DEF Slice
  <2>. QED
    BY <1>1, <2>1, <2>2, <2>3
<1>4. reply.op = "none" /\ used = InUse(data, size)
  BY DEF Init, Answer
<1>5. used \in Nat
  BY <1>3, <1>4, InUseFacts
<1>6. VacatedBytesAreZeroed
  BY <1>3, <1>4, <1>5 DEF VacatedBytesAreZeroed
<1>. QED
  BY <1>3, <1>4, <1>5, <1>6 DEF EnumInv, EnumTyped, Announced, Stored

\* Asking for a length writes nothing.
LEMMA UpdatedLenKeeps ==
    ASSUME EnumInv, NEW p \in Patches, UpdatedLen(p)
    PROVE  EnumInv'
<1>. DEFINE answer == AndThen(Validate(data, size), LAMBDA end : EncodedLen(p))
<1>1. size \in Nat /\ data \in [0 .. (size - 1) -> Byte] /\ used \in Nat
  BY DEF EnumInv, EnumTyped
<1>2. /\ data' = data /\ size' = size /\ reply' = Answer("updated_len", p, answer)
      /\ used' = IF InUse(data, size) > used THEN InUse(data, size) ELSE used
  BY DEF UpdatedLen, Return
<1>3. InUse(data, size) \in Nat
  BY <1>1, InUseFacts
<1>4. EnumTyped'
  BY <1>1, <1>2, <1>3 DEF EnumTyped
<1>5. answer.ok => Validate(data, size).ok /\ Admissible(p) /\ answer = Ok(Extent(p))
  <2>1. answer.ok => Validate(data, size).ok /\ answer = EncodedLen(p)
    BY CleanValidate DEF AndThen, Clean
  <2>. HIDE DEF answer
  <2>. QED
    BY <2>1, EncodedLenExact
<1>6. reply'.op = "updated_len" /\ reply'.result = answer
  BY <1>2 DEF Answer
<1>. HIDE DEF answer
<1>7. Announced'
  BY <1>2, <1>5, <1>6 DEF Announced
<1>8. Stored'
  BY <1>6 DEF Stored
<1>9. VacatedBytesAreZeroed'
  BY <1>1, <1>2, <1>3 DEF EnumInv, VacatedBytesAreZeroed
<1>. QED
  BY <1>4, <1>7, <1>8, <1>9 DEF EnumInv

\* A call that stores the patch keeps the invariant, if what lies behind the
\* patch is zero as far as values ever reached.
LEMMA WrittenKeeps ==
    ASSUME EnumInv, NEW p \in Patches, Admissible(p), NEW op,
           reply' = Answer(op, p, Ok(Extent(p))), op # "updated_len",
           size' = size, data' \in [0 .. (size - 1) -> Byte],
           used' = IF InUse(data', size) > used THEN InUse(data', size) ELSE used,
           Validate(data', size) = Ok(Extent(p)), View(data') = p,
           \A a \in 0 .. (size - 1) : a >= Extent(p) /\ a < used => data'[a] = 0
    PROVE  EnumInv'
<1>1. size \in Nat /\ used \in Nat
  BY DEF EnumInv, EnumTyped
<1>2. InUse(data', size) = Extent(p) /\ Extent(p) \in Nat
  BY CleanResults, EncodedLenExact DEF InUse
<1>3. EnumTyped'
  BY <1>1, <1>2 DEF EnumTyped
<1>4. reply'.op = op /\ reply'.result = Ok(Extent(p))
  BY DEF Answer
<1>5. Announced'
  BY <1>4 DEF Announced
<1>6. Stored'
  BY <1>4 DEF Stored
<1>7. VacatedBytesAreZeroed'
  <2>. SUFFICES ASSUME NEW a \in 0 .. (size - 1), Extent(p) <= a, a < used'
                PROVE  data'[a] = 0
    BY <1>2 DEF VacatedBytesAreZeroed
  <2>1. a < used /\ a >= Extent(p)
    BY <1>1, <1>2
  <2>. QED
    BY <2>1
<1>. QED
  BY <1>3, <1>5, <1>6, <1>7 DEF EnumInv

\* update keeps the invariant.
LEMMA UpdateKeeps ==
    ASSUME EnumInv, NEW p \in Patches, Update(p)
    PROVE  EnumInv'
<1>. DEFINE ok == Validate(data, size).ok /\ Admissible(p) /\ Extent(p) <= size
<1>1. size \in Nat /\ data \in [0 .. (size - 1) -> Byte] /\ used \in Nat
  BY DEF EnumInv, EnumTyped
<1>2. /\ size' = size /\ data' \in [0 .. (size - 1) -> Byte]
      /\ reply' = Answer("update", p, Preflight(p))
      /\ used' = IF InUse(data', size) > used THEN InUse(data', size) ELSE used
      /\ ok => /\ Preflight(p) = Ok(Extent(p))
               /\ Validate(data', size) = Ok(Extent(p)) /\ View(data') = p
               /\ \A a \in 0 .. (size - 1) : a >= Extent(p) =>
                    data'[a] = IF a < InUse(data, size) THEN 0 ELSE data[a]
      /\ ~ok => Clean(Preflight(p)) /\ ~Preflight(p).ok /\ data' = data
  BY UpdateEffect DEF EnumInv
<1>3. InUse(data, size) \in Nat
  BY <1>1, InUseFacts
<1>4. CASE ok
  <2>1. \A a \in 0 .. (size - 1) : a >= Extent(p) /\ a < used => data'[a] = 0
    <3>. SUFFICES ASSUME NEW a \in 0 .. (size - 1), a >= Extent(p), a < used PROVE data'[a] = 0
      OBVIOUS
    <3>1. data'[a] = IF a < InUse(data, size) THEN 0 ELSE data[a]
      BY <1>2, <1>4
    <3>2. InUse(data, size) <= a => data[a] = 0
      BY <1>1 DEF EnumInv, VacatedBytesAreZeroed
    <3>. QED
      BY <1>3, <3>1, <3>2
  <2>2. "update" # "updated_len"
    OBVIOUS
  <2>. QED
    BY <1>2, <1>4, <2>1, <2>2, WrittenKeeps
<1>5. CASE ~ok
  <2>1. reply'.op = "update" /\ ~reply'.result.ok
    BY <1>2, <1>5 DEF Answer
  <2>2. EnumTyped' /\ Announced' /\ Stored'
    BY <1>1, <1>2, <1>3, <1>5, <2>1 DEF EnumTyped, Announced, Stored
  <2>3. VacatedBytesAreZeroed'
    BY <1>1, <1>2, <1>3, <1>5 DEF EnumInv, VacatedBytesAreZeroed
  <2>. QED
    BY <2>2, <2>3 DEF EnumInv
<1>. QED
  BY <1>4, <1>5

\* initialize keeps the invariant.
LEMMA InitializeKeeps ==
    ASSUME EnumInv, NEW p \in Patches, Initialize(p)
    PROVE  EnumInv'
<1>. DEFINE ok == MinSize <= size /\ size <= MaxSize /\ Admissible(p) /\ Extent(p) <= size
<1>1. size \in Nat /\ data \in [0 .. (size - 1) -> Byte] /\ used \in Nat
  BY DEF EnumInv, EnumTyped
<1>2. PICK result :
      /\ size' = size /\ data' \in [0 .. (size - 1) -> Byte]
      /\ reply' = Answer("initialize", p, result)
      /\ used' = IF InUse(data', size) > used THEN InUse(data', size) ELSE used
      /\ ok => /\ result = Ok(Extent(p))
               /\ Validate(data', size) = Ok(Extent(p)) /\ View(data') = p
               /\ \A a \in 0 .. (size - 1) : a >= Extent(p) => data'[a] = 0
      /\ ~ok => /\ Clean(result) /\ ~result.ok
                /\ data' = [a \in 0 .. (size - 1) |-> 0]
  BY InitializeEffect DEF EnumInv
<1>3. CASE ok
  <2>1. "initialize" # "updated_len"
    OBVIOUS
  <2>. QED
    BY <1>2, <1>3, <2>1, WrittenKeeps
<1>4. CASE ~ok
  <2>1. reply'.op = "initialize" /\ ~reply'.result.ok
    BY <1>2, <1>4 DEF Answer
  <2>2. InUse(data', size) \in Nat
    BY <1>1, <1>2, InUseFacts
  <2>3. EnumTyped' /\ Announced' /\ Stored'
    BY <1>1, <1>2, <2>1, <2>2 DEF EnumTyped, Announced, Stored
  <2>4. VacatedBytesAreZeroed'
    <3>1. \A a \in 0 .. (size - 1) : data'[a] = 0
      BY <1>2, <1>4
    <3>2. DOMAIN data' = 0 .. (size - 1)
      BY <1>2
    <3>. QED
      BY <3>1, <3>2 DEF VacatedBytesAreZeroed
  <2>. QED
    BY <2>3, <2>4 DEF EnumInv
<1>. QED
  BY <1>3, <1>4

\* Growth adds zeros only.
LEMMA GrowKeeps == EnumInv /\ Grow => EnumInv'
<1>. SUFFICES ASSUME EnumInv, Grow PROVE EnumInv'
  OBVIOUS
<1>1. size \in Nat /\ data \in [0 .. (size - 1) -> Byte] /\ used \in Nat
  BY DEF EnumInv, EnumTyped
<1>2. /\ size' \in Nat /\ data' \in [0 .. (size' - 1) -> Byte] /\ UNCHANGED <<reply, used>>
      /\ \A a \in 0 .. (size' - 1) : data'[a] = IF a < size THEN data[a] ELSE 0
      /\ Validate(data, size).ok
      /\ Validate(data', size') = Validate(data, size)
  BY GrowEffect
<1>3. reply.op = "updated_len"
  BY DEF Grow
<1>4. EnumTyped' /\ Announced' /\ Stored'
  BY <1>1, <1>2, <1>3 DEF EnumInv, EnumTyped, Announced, Stored
<1>5. InUse(data', size') = InUse(data, size)
  BY <1>2 DEF InUse
<1>6. VacatedBytesAreZeroed'
  <2>. SUFFICES ASSUME NEW a \in 0 .. (size' - 1), InUse(data, size) <= a, a < used PROVE data'[a] = 0
    BY <1>2, <1>5 DEF VacatedBytesAreZeroed
  <2>1. a < size => a \in DOMAIN data
    BY <1>1, <1>2
  <2>2. a < size => data[a] = 0
    BY <2>1 DEF EnumInv, VacatedBytesAreZeroed
  <2>. QED
    BY <1>2, <2>2
<1>. QED
  BY <1>4, <1>6 DEF EnumInv

\* A trimmed account is in use wholly.
LEMMA TrimKeeps == EnumInv /\ Trim => EnumInv'
<1>. SUFFICES ASSUME EnumInv, Trim PROVE EnumInv'
  OBVIOUS
<1>1. PICK p \in Patches :
        /\ Admissible(p) /\ Validate(data, size) = Ok(Extent(p)) /\ View(data) = p
        /\ size' \in Nat /\ data' \in [0 .. (size' - 1) -> Byte] /\ UNCHANGED <<reply, used>>
        /\ size' = Extent(p) /\ reply.result = Ok(Extent(p))
        /\ Validate(data', size') = Validate(data, size) /\ View(data') = View(data)
  BY TrimEffect
<1>2. reply.op \in {"update", "initialize"}
  BY DEF Trim
<1>3. EnumTyped'
  BY <1>1 DEF EnumInv, EnumTyped
<1>4. Announced' /\ Stored'
  BY <1>1, <1>2 DEF Announced, Stored
<1>5. InUse(data', size') = size'
  BY <1>1, CleanResults DEF InUse
<1>6. VacatedBytesAreZeroed'
  BY <1>1, <1>5 DEF VacatedBytesAreZeroed
<1>. QED
  BY <1>3, <1>4, <1>6 DEF EnumInv

\* Every step keeps the invariant.
LEMMA EnumNext == EnumInv /\ [Next]_vars => EnumInv'
<1>. SUFFICES ASSUME EnumInv, [Next]_vars PROVE EnumInv'
  OBVIOUS
<1>1. CASE UNCHANGED vars
  BY <1>1 DEF EnumInv, EnumTyped, Announced, Stored, VacatedBytesAreZeroed, vars
<1>. QED
  BY <1>1, UpdatedLenKeeps, UpdateKeeps, InitializeKeeps, GrowKeeps, TrimKeeps DEF Next

\* The invariant holds in every state.
LEMMA EnumInvariance == Spec => []EnumInv
  BY EnumInit, EnumNext, PTL DEF Spec

\* What clears an account of the variants that were, for every enum.
THEOREM VacatedZeroed == Spec => []VacatedBytesAreZeroed
  BY EnumInvariance, PTL DEF EnumInv

\* Acceptance is canonical in every reachable state, for every enum and every
\* content of the account.
THEOREM EnumCanonical == Spec => []AcceptedBytesAreCanonical
<1>1. EnumInv => AcceptedBytesAreCanonical
  <2>. SUFFICES ASSUME EnumInv, Validate(data, size).ok
                PROVE  LET value == View(data)
                       IN  /\ Admissible(value)
                           /\ Size(value) <= size
                           /\ \A k \in 1 .. Size(value) : data[k - 1] = Encode(value)[k]
                           /\ Validate(data, size) = Ok(Size(value))
                           /\ CurrentLen(data, size) = Ok(Size(value))
    BY DEF AcceptedBytesAreCanonical
  <2>1. size \in Nat /\ data \in [0 .. (size - 1) -> Byte]
    BY DEF EnumInv, EnumTyped
  <2>2. LET value == View(data)
        IN  /\ value \in Values /\ Admissible(value) /\ Holds(data, value)
            /\ Extent(value) <= size
            /\ Validate(data, size) = Ok(Extent(value))
            /\ CurrentLen(data, size) = Ok(Extent(value))
    BY <2>1, AcceptedValue
  <2>3. Size(View(data)) = Extent(View(data))
    BY <2>2, EncodeParts
  <2>4. \A k \in 1 .. Size(View(data)) : data[k - 1] = Encode(View(data))[k]
    BY <2>2, HoldsIsEncoded
  <2>. QED
    BY <2>2, <2>3, <2>4
<1>. QED
  BY <1>1, EnumInvariance, PTL

-----------------------------------------------------------------------------
(* The account is a cell that holds one variant.                           *)

\* What a readable account shows is admissible and lies within it.
LEMMA ReadableFacts ==
    ASSUME NEW n \in Nat, NEW d \in [0 .. (n - 1) -> Byte]
    PROVE  LET value == ValueOf(d, n)
           IN  /\ Validate(d, n).ok <=> value # Unreadable
               /\ Validate(d, n).ok =>
                    value = View(d) /\ Admissible(value) /\ Size(value) <= n
                    /\ n \in MinSize .. MaxSize
<1>1. CASE ~Validate(d, n).ok
  BY <1>1 DEF ValueOf
<1>2. CASE Validate(d, n).ok
  <2>1. ValueOf(d, n) = View(d)
    BY <1>2 DEF ValueOf
  <2>2. /\ View(d) \in Values /\ Admissible(View(d)) /\ Extent(View(d)) <= n
    BY <1>2, AcceptedValue
  <2>3. MinSize <= n /\ n <= MaxSize
    BY <1>2, AcceptedTag
  <2>4. n \in MinSize .. MaxSize
    BY <2>3, SizesFacts
  <2>5. View(d).tag \in Nat
    BY <2>2, VariantFacts DEF Values
  <2>6. View(d) # Unreadable
    BY <2>5 DEF Unreadable
  <2>. QED
    BY <1>2, <2>1, <2>2, <2>4, <2>6, EncodeParts
<1>. QED
  BY <1>1, <1>2

\* A patch fits the account as the cell has it.
LEMMA PatchFits ==
    ASSUME EnumTyped, NEW p \in Patches
    PROVE  /\ Size(p) = Extent(p)
           /\ Cell!Fits(p, size) <=>
                /\ Admissible(p) /\ Extent(p) <= size
                /\ MinSize <= size /\ size <= MaxSize
<1>1. Size(p) = Extent(p)
  BY PatchFacts, EncodeParts
<1>2. size \in MinSize .. MaxSize <=> MinSize <= size /\ size <= MaxSize
  BY SizesFacts DEF EnumTyped
<1>. QED
  BY <1>1, <1>2 DEF Cell!Fits

\* Any bytes are a cell in some state.
LEMMA InitRefinesCell == EnumInv /\ Init => Cell!Init
<1>. SUFFICES ASSUME EnumInv, Init PROVE Cell!Init
  OBVIOUS
<1>1. size \in Nat /\ data \in [0 .. (size - 1) -> Byte]
  BY DEF EnumInv, EnumTyped
<1>2. Cell!Readable => Cell!Fits(ValueOf(data, size), size)
  BY <1>1, ReadableFacts DEF Cell!Readable, Cell!Fits
<1>3. reply.op = "none"
  BY DEF Init, Answer
<1>. QED
  BY <1>2, <1>3 DEF Cell!Init

\* The answer of a call, as the cell records it.
LEMMA AnswerRefines ==
    ASSUME EnumTyped, NEW p \in Patches, NEW op, NEW result, NEW ok \in BOOLEAN,
           reply' = Answer(op, p, result),
           ok => result = Ok(Extent(p)), ~ok => Clean(result) /\ ~result.ok
    PROVE  Cell!Answers(op, p, ok)
<1>1. reply'.op = op /\ reply'.patch = p /\ reply'.result = result
  BY DEF Answer
<1>2. result.ok = ok
  BY CleanResults DEF Clean
<1>3. result.value = IF ok THEN Size(p) ELSE 0
  BY PatchFits, CleanResults DEF Clean
<1>. QED
  BY <1>1, <1>2, <1>3 DEF Cell!Answers

\* updated_len announces the size of an admissible variant.
LEMMA UpdatedLenRefines ==
    ASSUME EnumInv, NEW p \in Patches, UpdatedLen(p)
    PROVE  Cell!UpdatedLen(p)
<1>. DEFINE result == AndThen(Validate(data, size), LAMBDA end : EncodedLen(p))
            ok == Validate(data, size).ok /\ Admissible(p)
<1>1. EnumTyped /\ size \in Nat /\ data \in [0 .. (size - 1) -> Byte]
  BY DEF EnumInv, EnumTyped
<1>2. reply' = Answer("updated_len", p, result) /\ UNCHANGED <<data, size>>
  BY DEF UpdatedLen, Return
<1>3. /\ ok => result = Ok(Extent(p))
      /\ ~ok => Clean(result) /\ ~result.ok
  BY EncodedLenExact, CleanValidate DEF AndThen
<1>4. Cell!Readable <=> Validate(data, size).ok
  BY <1>1, ReadableFacts DEF Cell!Readable
<1>. HIDE DEF result
<1>5. ok \in BOOLEAN /\ ok = (Cell!Readable /\ Admissible(p))
  BY <1>4, EncodedLenExact, CleanValidate DEF Clean
<1>. HIDE DEF ok
<1>6. Cell!Answers("updated_len", p, ok)
  BY <1>1, <1>2, <1>3, <1>5, AnswerRefines
<1>. QED
  BY <1>2, <1>5, <1>6 DEF Cell!UpdatedLen

\* update replaces the variant of the cell, or leaves it.
LEMMA UpdateRefines ==
    ASSUME EnumInv, NEW p \in Patches, Update(p)
    PROVE  Cell!Update(p)
<1>. DEFINE ok == Validate(data, size).ok /\ Admissible(p) /\ Extent(p) <= size
<1>1. EnumTyped /\ size \in Nat /\ data \in [0 .. (size - 1) -> Byte]
  BY DEF EnumInv, EnumTyped
<1>2. /\ size' = size
      /\ reply' = Answer("update", p, Preflight(p))
      /\ ok => Preflight(p) = Ok(Extent(p))
      /\ ok => Validate(data', size) = Ok(Extent(p)) /\ View(data') = p
      /\ ~ok => Clean(Preflight(p)) /\ ~Preflight(p).ok /\ data' = data
  BY <1>1, UpdateEffect
<1>3. Cell!Readable <=> Validate(data, size).ok
  BY <1>1, ReadableFacts DEF Cell!Readable
<1>4. Validate(data, size).ok => MinSize <= size /\ size <= MaxSize
  BY <1>1, AcceptedTag
<1>5. ok <=> Cell!Readable /\ Cell!Fits(p, size)
  BY <1>1, <1>3, <1>4, PatchFits
<1>6. ValueOf(data', size') = IF ok THEN p ELSE ValueOf(data, size)
  BY <1>2, CleanResults DEF ValueOf
<1>7. ok \in BOOLEAN
  BY EncodedLenExact, CleanValidate DEF Clean
<1>. HIDE DEF ok
<1>8. Cell!Answers("update", p, ok)
  BY <1>1, <1>2, <1>7, AnswerRefines
<1>9. ok = (Cell!Readable /\ Cell!Fits(p, size))
  BY <1>5, <1>7 DEF Cell!Readable
<1>. QED
  BY <1>2, <1>6, <1>8, <1>9 DEF Cell!Update

\* initialize stores the variant, or leaves what zeros read as.
LEMMA InitializeRefines ==
    ASSUME EnumInv, NEW p \in Patches, Initialize(p)
    PROVE  Cell!Initialize(p)
<1>. DEFINE ok == MinSize <= size /\ size <= MaxSize /\ Admissible(p) /\ Extent(p) <= size
<1>1. EnumTyped /\ size \in Nat
  BY DEF EnumInv, EnumTyped
<1>2. PICK result :
      /\ size' = size
      /\ reply' = Answer("initialize", p, result)
      /\ ok => result = Ok(Extent(p))
      /\ ok => Validate(data', size) = Ok(Extent(p)) /\ View(data') = p
      /\ ~ok => /\ Clean(result) /\ ~result.ok
                /\ data' = [a \in 0 .. (size - 1) |-> 0]
  BY <1>1, InitializeEffect
<1>3. ok <=> Cell!Fits(p, size)
  BY <1>1, PatchFits
<1>4. ValueOf(data', size') = IF ok THEN p ELSE Zeroed(size)
  BY <1>2, CleanResults DEF ValueOf, Zeroed
<1>5. ok \in BOOLEAN
  BY EncodedLenExact
<1>. HIDE DEF ok
<1>6. Cell!Answers("initialize", p, ok)
  BY <1>1, <1>2, <1>5, AnswerRefines
<1>7. Cell!Fits(p, size) \in BOOLEAN
  BY DEF Cell!Fits
<1>8. ok = Cell!Fits(p, size)
  BY <1>3, <1>5, <1>7
<1>. QED
  BY <1>2, <1>4, <1>6, <1>8 DEF Cell!Initialize

\* Growing and trimming change the capacity alone.
LEMMA ResizeRefines ==
    ASSUME EnumInv, Grow \/ Trim
    PROVE  Cell!Resize
<1>1. /\ size' \in Nat /\ data' \in [0 .. (size' - 1) -> Byte] /\ reply' = reply
      /\ MinSize <= size' /\ size' <= MaxSize
      /\ Validate(data, size).ok /\ size' = reply.result.value /\ reply.result.ok
      /\ Validate(data', size') = Validate(data, size) /\ View(data') = View(data)
  <2>1. CASE Grow
    BY <2>1, GrowEffect
  <2>2. CASE Trim
    BY <2>2, TrimEffect, CleanResults
  <2>. QED
    BY <2>1, <2>2
<1>2. ValueOf(data', size') = ValueOf(data, size)
  BY <1>1 DEF ValueOf
<1>3. Admissible(ValueOf(data, size)) /\ Size(ValueOf(data, size)) <= size' /\ size' \in MinSize .. MaxSize
  <2>. DEFINE m == size'
              e == data'
  <2>1. m \in Nat /\ e \in [0 .. (m - 1) -> Byte] /\ Validate(e, m).ok
    BY <1>1
  <2>. HIDE DEF m, e
  <2>2. Admissible(ValueOf(e, m)) /\ Size(ValueOf(e, m)) <= m /\ m \in MinSize .. MaxSize
    BY <2>1, ReadableFacts
  <2>. QED
    BY <1>2, <2>2 DEF m, e
<1>. QED
  BY <1>1, <1>2, <1>3 DEF Cell!Resize, Cell!Fits

\* Each step is a step of the cell, or changes nothing it shows.
LEMMA StepRefinesCell == EnumInv /\ [Next]_vars => [Cell!Next]_Cell!vars
<1>. SUFFICES ASSUME EnumInv, [Next]_vars PROVE [Cell!Next]_Cell!vars
  OBVIOUS
<1>1. CASE UNCHANGED vars
  BY <1>1 DEF vars, Cell!vars, ValueOf
<1>2. CASE Next
  BY <1>2, UpdatedLenRefines, UpdateRefines, InitializeRefines, ResizeRefines
     DEF Next, Cell!Next
<1>. QED
  BY <1>1, <1>2

\* Whatever bytes an account starts with, for every enum: a call replaces the
\* variant wholly or not at all, succeeds exactly for an admissible variant that
\* fits, and returns its size.
THEOREM EnumImplementsCell == Spec => ImplementsVariantCell
<1>1. Spec => Cell!Init
  BY EnumInit, InitRefinesCell DEF Spec
<1>. QED
  BY <1>1, EnumInvariance, StepRefinesCell, PTL DEF Spec, ImplementsVariantCell, Cell!Spec
=============================================================================
