------------------------- MODULE CompactReaderProofs -------------------------
(***************************************************************************)
(* Proofs about the walks over the bytes of a compact schema and about its *)
(* read side, for every schema and every account.  First the walks of      *)
(* CompactLayout: the checked walks of validation, the unchecked replay of *)
(* the readers and the capacity sums agree, and what they read is the      *)
(* reference codec's.  Then the view: what validation accepts licenses the *)
(* unchecked readers, and the walks that the generator emits apart do not  *)
(* drift.  The writer's proofs rest on the first part.                     *)
(***************************************************************************)
EXTENDS CompactReader, PrefixesProofs

-----------------------------------------------------------------------------
(* Tails.                                                                  *)

\* What is known of a tail's schema.
LEMMA TailFacts ==
    ASSUME NEW i \in TailId
    PROVE  /\ Tails[i].opt \in BOOLEAN
           /\ Tails[i].max \in Nat
           /\ Tails[i].pfx \in Width /\ Tails[i].pfx \in Nat /\ Tails[i].pfx > 0
           /\ Tails[i].size \in Nat /\ Tails[i].size > 0
<1>1. Tails[i] \in TailSchema
  BY SchemaAssumption, PrefixesAssumption DEF TailId, TailCount
<1> QED
  BY <1>1 DEF TailSchema, Width

\* The inline bytes and the slots follow one another in the header.
LEMMA SlotOrder ==
    /\ \A i \in TailId :
         /\ SlotWidth(i) \in Nat /\ SlotWidth(i) > 0
         /\ Inline.size <= Slot[i] /\ Slot[i] + SlotWidth(i) <= HeaderSize
    /\ \A i, j \in TailId : i < j => Slot[i] + SlotWidth(i) <= Slot[j]
    /\ Inline.size <= HeaderSize
<1>. DEFINE In(m) == /\ HeaderEnd(m) \in Nat /\ Inline.size <= HeaderEnd(m)
                     /\ \A k \in 0 .. m : HeaderEnd(k) <= HeaderEnd(m)
            S == {m \in 0 .. TailCount : In(m)}
<1>1. \A i \in TailId : SlotWidth(i) \in Nat /\ SlotWidth(i) > 0
  BY TailFacts DEF SlotWidth
<1>2. \A i \in TailId : /\ i \in 1 .. TailCount /\ i # 0
                         /\ Slot[i] = HeaderEnd(i - 1) /\ Slot[i] \in Nat
                         /\ HeaderEnd(i) = Slot[i] + SlotWidth(i)
  BY SchemaAssumption, PrefixesAssumption DEF HeaderEnd, TailId
<1>3. TailCount \in Nat /\ TailId = 1 .. TailCount /\ Inline.size \in Nat
  BY SchemaAssumption, PrefixesAssumption DEF TailCount, TailId
<1>4. 0 \in S
  <2>1. HeaderEnd(0) = Inline.size
    BY DEF HeaderEnd
  <2>2. \A k \in 0 .. 0 : k = 0
    OBVIOUS
  <2>3. In(0)
    BY <1>3, <2>1, <2>2
  <2>. QED
    BY <1>3, <2>3
<1>5. ASSUME NEW m \in 1 .. TailCount, m - 1 \in S PROVE m \in S
  <2>1. /\ HeaderEnd(m) = HeaderEnd(m - 1) + SlotWidth(m)
        /\ SlotWidth(m) \in Nat
    BY <1>1, <1>2, <1>3
  <2>2. /\ HeaderEnd(m - 1) \in Nat /\ Inline.size <= HeaderEnd(m - 1)
        /\ \A k \in 0 .. (m - 1) : HeaderEnd(k) <= HeaderEnd(m - 1)
    BY <1>5
  <2>3. HeaderEnd(m) \in Nat /\ Inline.size <= HeaderEnd(m) /\ HeaderEnd(m - 1) <= HeaderEnd(m)
    BY <1>3, <2>1, <2>2
  <2>4. ASSUME NEW k \in 0 .. m PROVE HeaderEnd(k) <= HeaderEnd(m)
    <3>1. CASE k = m
      BY <2>3, <3>1
    <3>2. CASE k # m
      <4>1. k \in 0 .. (m - 1)
        BY <3>2
      <4>2. HeaderEnd(k) \in Int
        <5>1. CASE k = 0
          BY <1>3, <5>1 DEF HeaderEnd
        <5>2. CASE k # 0
          <6>1. k \in TailId
            BY <1>3, <4>1, <5>2
          <6>. QED
            BY <1>1, <1>2, <6>1
        <5>. QED
          BY <5>1, <5>2
      <4>. QED
        BY <2>2, <2>3, <4>1, <4>2
    <3>. QED
      BY <3>1, <3>2
  <2>5. In(m)
    BY <2>3, <2>4
  <2>6. m \in 0 .. TailCount
    BY <1>3
  <2>. QED
    BY <2>5, <2>6
<1>6. \A m \in 0 .. TailCount : In(m)
  <2>1. \A m \in 0 .. TailCount : m \in S
    <3>. HIDE DEF S
    <3>. QED
      BY <1>3, <1>4, <1>5, RangeInduction
  <2>. QED
    BY <2>1
<1>7. HeaderSize = HeaderEnd(TailCount)
  BY SchemaAssumption, PrefixesAssumption
<1>8. ASSUME NEW i \in TailId
      PROVE  /\ Inline.size <= Slot[i] /\ Slot[i] + SlotWidth(i) <= HeaderSize
             /\ \A j \in TailId : i < j => Slot[i] + SlotWidth(i) <= Slot[j]
  <2>1. i - 1 \in 0 .. TailCount /\ i \in 0 .. TailCount /\ TailCount \in 0 .. TailCount
    BY <1>3
  <2>2. Inline.size <= Slot[i]
    BY <1>2, <1>6, <2>1
  <2>3. Slot[i] + SlotWidth(i) <= HeaderSize
    BY <1>2, <1>6, <1>7, <2>1
  <2>4. ASSUME NEW j \in TailId, i < j PROVE Slot[i] + SlotWidth(i) <= Slot[j]
    <3>1. j - 1 \in 0 .. TailCount /\ i \in 0 .. (j - 1)
      BY <1>3, <2>4
    <3>. QED
      BY <1>2, <1>6, <3>1
  <2>. QED
    BY <2>2, <2>3, <2>4
<1>9. Inline.size <= HeaderSize
  <2>1. TailCount \in 0 .. TailCount
    BY <1>3
  <2>. QED
    BY <1>6, <1>7, <2>1
<1>. QED
  BY <1>1, <1>8, <1>9

\* A tail's slot lies in the header.
LEMMA SlotFacts ==
    ASSUME NEW i \in TailId
    PROVE  /\ Slot[i] \in Nat
           /\ Slot[i] < HeaderSize
           /\ ~Tails[i].opt => Slot[i] + Tails[i].pfx <= HeaderSize
<1>1. Slot[i] \in Nat /\ HeaderSize \in Nat
  BY SchemaAssumption, PrefixesAssumption
<1>2. /\ SlotWidth(i) \in Nat /\ SlotWidth(i) > 0 /\ Slot[i] + SlotWidth(i) <= HeaderSize
      /\ ~Tails[i].opt => SlotWidth(i) = Tails[i].pfx
  BY SlotOrder DEF SlotWidth
<1>. QED
  BY <1>1, <1>2

-----------------------------------------------------------------------------
(* Sizes.                                                                  *)

\* Numbers the walks compute with.
LEMMA SchemaFacts ==
    /\ HeaderSize \in Nat /\ UsizeMax \in Nat /\ Radix \in Nat /\ Radix > 2
    /\ TailCount \in Nat
    /\ \A i \in TailId : i \in 1 .. TailCount /\ i - 1 \in 0 .. TailCount /\ i \in 0 .. TailCount
  BY SchemaAssumption, PrefixesAssumption DEF TailCount, TailId

\* Bytes tail i takes at its capacity.
TailCapacity(i) ==
    Tails[i].max * Tails[i].size + (IF Tails[i].opt THEN Tails[i].pfx ELSE 0)

\* Capacity is what its recursion says.
LEMMA CapacityRuns ==
    /\ Capacity[0] = HeaderSize
    /\ \A i \in TailId : TailCapacity(i) \in Nat
    /\ \A i \in TailId : Capacity[i] = Capacity[i - 1] + TailCapacity(i)
    /\ \A i \in 0 .. TailCount : Capacity[i] \in Nat
<1>. DEFINE V == [i \in 0 .. TailCount |-> Nat]
            G == [p \in TailId \X Nat |-> p[2] + TailCapacity(p[1])]
            Rec(f) == [i \in 0 .. TailCount |->
                          IF i = 0 THEN HeaderSize
                          ELSE f[i - 1] + Tails[i].max * Tails[i].size
                                 + (IF Tails[i].opt THEN Tails[i].pfx ELSE 0)]
<1>1. ASSUME NEW i \in TailId
      PROVE  /\ Tails[i].max * Tails[i].size \in Nat
             /\ (IF Tails[i].opt THEN Tails[i].pfx ELSE 0) \in Nat
             /\ TailCapacity(i) \in Nat
  BY TailFacts DEF TailCapacity
<1>2. ASSUME NEW i \in TailId, NEW x \in Nat
      PROVE  G[<<i, x>>] = x + TailCapacity(i) /\ G[<<i, x>>] \in Nat
  BY <1>1
<1>3. HeaderSize \in V[0] /\ \A i \in 1 .. TailCount : \A x \in V[i - 1] : G[<<i, x>>] \in V[i]
  <2>1. \A i \in 0 .. TailCount : V[i] = Nat
    OBVIOUS
  <2>. HIDE DEF V, G
  <2>. QED
    BY <1>2, <2>1, SchemaFacts DEF TailId
<1>4. PICK f : Solves(TailCount, HeaderSize, G, V, f)
  <2>. HIDE DEF V, G
  <2>. QED
    BY <1>3, SchemaFacts, TypedRecursion
<1>5. /\ f = [i \in 0 .. TailCount |-> f[i]]
      /\ f[0] = HeaderSize
      /\ \A i \in TailId : f[i] = f[i - 1] + TailCapacity(i)
      /\ \A i \in 0 .. TailCount : f[i] \in Nat
  <2>1. \A i \in 0 .. TailCount : f[i] \in Nat
    BY <1>4 DEF Solves
  <2>. HIDE DEF G
  <2>2. \A i \in TailId : f[i] = f[i - 1] + TailCapacity(i)
    BY <1>2, <1>4, <2>1, SchemaFacts DEF Solves, TailId
  <2>. QED
    BY <1>4, <2>1, <2>2 DEF Solves
<1>6. f = Rec(f)
  <2>. HIDE DEF V, G
  <2>1. ASSUME NEW i \in TailId PROVE f[i] = Rec(f)[i]
    <3>1. i \in 0 .. TailCount /\ i # 0 /\ i - 1 \in 0 .. TailCount
      BY SchemaFacts
    <3>2. Rec(f)[i] = f[i - 1] + Tails[i].max * Tails[i].size
                        + (IF Tails[i].opt THEN Tails[i].pfx ELSE 0)
      BY <3>1
    <3>. HIDE DEF Rec
    <3>3. f[i - 1] \in Nat
      BY <1>5, <3>1
    <3>. QED
      BY <1>1, <1>5, <3>2, <3>3 DEF TailCapacity
  <2>2. f[0] = Rec(f)[0]
    BY <1>5, SchemaFacts
  <2>3. Rec(f) = [i \in 0 .. TailCount |-> Rec(f)[i]]
    OBVIOUS
  <2>. HIDE DEF Rec
  <2>4. \A i \in 0 .. TailCount : f[i] = Rec(f)[i]
    BY <2>1, <2>2, SchemaFacts DEF TailId
  <2>. QED
    BY <1>5, <2>3, <2>4
<1>7. Capacity = Rec(Capacity)
  BY <1>6, Zenon DEF Capacity
<1>8. Capacity[0] = HeaderSize
  BY <1>7, SchemaFacts
<1>9. \A i \in TailId : Capacity[i] = Capacity[i - 1] + Tails[i].max * Tails[i].size
                                        + (IF Tails[i].opt THEN Tails[i].pfx ELSE 0)
  BY <1>7, SchemaFacts
<1>. HIDE DEF Rec
<1>10. \A i \in 0 .. TailCount : Capacity[i] \in Nat
  <2>. DEFINE S == {i \in 0 .. TailCount : Capacity[i] \in Nat}
  <2>1. 0 \in S
    BY <1>8, SchemaFacts
  <2>2. ASSUME NEW i \in 1 .. TailCount, i - 1 \in S PROVE i \in S
    BY <1>1, <1>9, <2>2 DEF TailId
  <2>3. \A i \in 0 .. TailCount : i \in S
    <3>. HIDE DEF S
    <3>. QED
      BY <2>1, <2>2, SchemaFacts, RangeInduction
  <2>. QED
    BY <2>3
<1>11. ASSUME NEW i \in TailId PROVE Capacity[i] = Capacity[i - 1] + TailCapacity(i)
  <2>1. Capacity[i - 1] \in Nat
    BY <1>10, SchemaFacts
  <2>. QED
    BY <1>1, <1>9, <2>1 DEF TailCapacity
<1>. QED
  BY <1>1, <1>8, <1>10, <1>11

\* Capacities grow with the tails, up to the largest size, which is a usize.
LEMMA CapacityOrder ==
    ASSUME NEW i \in 0 .. TailCount
    PROVE  /\ Capacity[i] \in Nat
           /\ HeaderSize <= Capacity[i]
           /\ Capacity[i] <= MaxSize
           /\ Capacity[i] <= UsizeMax
           /\ MaxSize \in Nat /\ MaxSize <= UsizeMax
<1>1. \A k \in 0 .. TailCount : Capacity[k] \in Nat
  BY CapacityRuns
<1>2. \A k \in 1 .. TailCount : Capacity[k - 1] <= Capacity[k]
  BY <1>1, CapacityRuns, SchemaFacts DEF TailId
<1>3. HeaderSize <= Capacity[i]
  <2>. DEFINE S == {k \in 0 .. TailCount : HeaderSize <= Capacity[k]}
  <2>1. 0 \in S
    BY CapacityRuns, SchemaFacts
  <2>2. ASSUME NEW k \in 1 .. TailCount, k - 1 \in S PROVE k \in S
    BY <1>1, <1>2, <2>2, SchemaFacts
  <2>3. \A k \in 0 .. TailCount : k \in S
    <3>. HIDE DEF S
    <3>. QED
      BY <2>1, <2>2, SchemaFacts, RangeInduction
  <2>. QED
    BY <2>3
<1>4. Capacity[i] <= Capacity[TailCount]
  <2>. DEFINE S == {k \in 0 .. TailCount : i <= k => Capacity[i] <= Capacity[k]}
  <2>1. 0 \in S
    BY <1>1, SchemaFacts
  <2>2. ASSUME NEW k \in 1 .. TailCount, k - 1 \in S PROVE k \in S
    <3>1. Capacity[k - 1] <= Capacity[k] /\ Capacity[k] \in Nat /\ Capacity[k - 1] \in Nat
          /\ Capacity[i] \in Nat
      <4>1. k - 1 \in 0 .. TailCount /\ k \in 0 .. TailCount
        BY SchemaFacts
      <4>. QED
        BY <1>1, <1>2, <4>1
    <3>2. CASE i <= k - 1
      BY <2>2, <3>1, <3>2
    <3>3. CASE i = k
      BY <3>1, <3>3
    <3>. QED
      BY <3>2, <3>3
  <2>3. \A k \in 0 .. TailCount : k \in S
    <3>. HIDE DEF S
    <3>. QED
      BY <2>1, <2>2, SchemaFacts, RangeInduction
  <2>. QED
    BY <2>3, SchemaFacts
<1>5. MaxSize \in Nat /\ MaxSize <= UsizeMax
  BY <1>1, SchemaFacts, CapacityAssumption DEF MaxSize
<1>6. Capacity[i] <= MaxSize
  BY <1>4 DEF MaxSize
<1>. QED
  BY <1>1, <1>3, <1>5, <1>6, SchemaFacts

\* A tail within its capacity, after tails within theirs, ends at a usize.
LEMMA TailFits ==
    ASSUME NEW i \in TailId, NEW off \in Nat, off <= Capacity[i - 1],
           NEW count \in Nat, count <= Tails[i].max
    PROVE  LET head == IF Tails[i].opt THEN Tails[i].pfx ELSE 0
           IN  /\ head \in Nat
               /\ count * Tails[i].size \in Nat
               /\ off + head + count * Tails[i].size <= Capacity[i]
               /\ off + head + count * Tails[i].size <= UsizeMax
<1>. DEFINE head == IF Tails[i].opt THEN Tails[i].pfx ELSE 0
<1>1. head \in Nat
  BY TailFacts
<1>2. /\ count * Tails[i].size \in Nat
      /\ Tails[i].max * Tails[i].size \in Nat
      /\ count * Tails[i].size <= Tails[i].max * Tails[i].size
  BY TailFacts, ProductsGrow
<1>3. Capacity[i] = Capacity[i - 1] + TailCapacity(i) /\ Capacity[i - 1] \in Nat
  BY CapacityRuns, SchemaFacts
<1>4. TailCapacity(i) = Tails[i].max * Tails[i].size + head
  BY DEF TailCapacity
<1>5. Capacity[i] <= UsizeMax /\ Capacity[i] \in Nat
  BY CapacityOrder, SchemaFacts
<1>. HIDE DEF head
<1>6. off + head + count * Tails[i].size <= Capacity[i]
  BY <1>1, <1>2, <1>3, <1>4
<1>7. off + head + count * Tails[i].size <= UsizeMax
  BY <1>1, <1>2, <1>5, <1>6, SchemaFacts
<1>. QED
  BY <1>1, <1>2, <1>6, <1>7 DEF head

-----------------------------------------------------------------------------
(* The walks, without the arithmetic of machine words.                     *)

Errors ==
    {"none", "InvalidLength", "InvalidTag", "BufferTooSmall"} \cup {Tails[i].error : i \in TailId}

Results == [ok: BOOLEAN, value: Nat, error: Errors]

\* What one- and two-byte prefixes hold fits usize.
LEMMA NarrowPrefixFits ==
    ASSUME NEW n \in Nat, NEW d \in [0 .. (n - 1) -> Byte], NEW off \in Nat,
           NEW pfx \in Width, pfx <= 2, off + pfx <= n
    PROVE  RawPrefix(d, off, pfx) <= UsizeMax
<1>1. Radix \in Nat /\ Radix > 2 /\ Radix * Radix - 1 <= UsizeMax /\ UsizeMax \in Nat
  BY SchemaAssumption, PrefixesAssumption
<1>2. Radix <= Radix * Radix /\ Radix * Radix \in Nat
  BY <1>1
<1>3. CASE pfx = 1
  <2>1. d[off] \in Nat /\ d[off] <= Radix - 1
    BY <1>1, <1>3 DEF Byte
  <2>2. RawPrefix(d, off, pfx) = d[off]
    BY <1>3 DEF RawPrefix
  <2>. QED
    BY <1>1, <1>2, <2>1, <2>2
<1>4. CASE pfx = 2
  <2>1. /\ d[off] \in Nat /\ d[off] <= Radix - 1
        /\ d[off + 1] \in Nat /\ d[off + 1] <= Radix - 1
    BY <1>1, <1>4 DEF Byte
  <2>2. RawPrefix(d, off, pfx) = d[off] + Radix * d[off + 1]
    BY <1>4 DEF RawPrefix, LePair, Weight
  <2>3. Radix * d[off + 1] <= Radix * Radix - Radix /\ Radix * d[off + 1] \in Nat
    <3>1. Radix - 1 \in Nat
      BY <1>1
    <3>2. d[off + 1] * Radix <= (Radix - 1) * Radix
      BY <1>1, <2>1, <3>1, ProductsGrow
    <3>. QED
      BY <1>1, <2>1, <3>2
  <2>. QED
    BY <1>1, <1>2, <2>1, <2>2, <2>3
<1>. QED
  BY <1>3, <1>4 DEF Width

\* A payload of `count` elements of tail i at `from`, in unbounded arithmetic.
PlainPayload(d, n, i, count, from, full) ==
    LET t == Tails[i]
        end == from + count * t.size
    IN  IF count > t.max THEN Err("InvalidLength")
        ELSE IF end > n THEN Err("BufferTooSmall")
        ELSE IF full /\ \E a \in from .. (end - 1) : d[a] \notin t.ok THEN Err(t.error)
        ELSE Ok(end)

\* The element count that tail i stores when it starts at `off`, and where its
\* payload is.
StoredCount(d, i, off) == RawPrefix(d, IF Tails[i].opt THEN off ELSE Slot[i], Tails[i].pfx)
PayloadFrom(i, off) == IF Tails[i].opt THEN off + Tails[i].pfx ELSE off

\* Tail i at `off`, in unbounded arithmetic.
PlainTail(d, n, i, off, full) ==
    LET t == Tails[i]
        count == StoredCount(d, i, off)
    IN  IF t.opt /\ d[Slot[i]] = 0 THEN Ok(off)
        ELSE IF t.opt /\ d[Slot[i]] # 1 THEN Err("InvalidTag")
        ELSE IF t.opt /\ off + t.pfx > n THEN Err("BufferTooSmall")
        ELSE IF count > UsizeMax THEN Err("InvalidLength")
        ELSE PlainPayload(d, n, i, count, PayloadFrom(i, off), full)

\* Within the capacities the arithmetic of a walk over a payload is exact.
LEMMA WalkPayloadIsPlain ==
    ASSUME NEW n \in Nat, NEW d, NEW i \in TailId, NEW count \in Nat, NEW from \in Nat,
           NEW full, count <= Tails[i].max => from + count * Tails[i].size <= UsizeMax
    PROVE  WalkPayload(d, n, i, count, from, full) = PlainPayload(d, n, i, count, from, full)
<1>. DEFINE t == Tails[i]
            byteLen == BoundedMul(t.pfx, count, t.size)
            end == BoundedAdd(t.pfx, from, byteLen.value)
<1>1. t.size \in Nat /\ t.max \in Nat /\ count * t.size \in Nat
  BY TailFacts
<1>2. CASE count > t.max
  BY <1>2 DEF WalkPayload, PlainPayload
<1>3. CASE ~(count > t.max)
  <2>1. from + count * t.size <= UsizeMax /\ count * t.size <= UsizeMax
    BY <1>1, <1>3, SchemaFacts
  <2>2. byteLen = Ok(count * t.size)
    BY <1>1, <2>1, BoundedIsExact
  <2>3. byteLen.ok /\ byteLen.value = count * t.size
    BY <2>2 DEF Ok
  <2>4. end = Ok(from + count * t.size)
    BY <1>1, <2>1, <2>3, BoundedIsExact
  <2>5. end.ok /\ end.value = from + count * t.size
    BY <2>4 DEF Ok
  <2>6. ~(from + count * t.size < from)
    BY <1>1
  <2>7. WalkPayload(d, n, i, count, from, full) =
            IF count > t.max THEN Err("InvalidLength")
            ELSE IF ~byteLen.ok THEN byteLen
            ELSE IF ~end.ok THEN end
            ELSE IF end.value < from \/ end.value > n THEN Err("BufferTooSmall")
            ELSE IF full /\ \E a \in from .. (end.value - 1) : d[a] \notin t.ok
                 THEN Err(t.error)
            ELSE end
    BY DEF WalkPayload
  <2>. HIDE DEF byteLen, end
  <2>. QED
    BY <1>3, <2>3, <2>4, <2>5, <2>6, <2>7 DEF PlainPayload
<1>. QED
  BY <1>2, <1>3

\* The bytes of tail i's slot lie in a buffer that holds a header.
LEMMA SlotByte ==
    ASSUME NEW n \in Nat, HeaderSize <= n, NEW d \in [0 .. (n - 1) -> Byte], NEW i \in TailId
    PROVE  /\ d[Slot[i]] \in Byte /\ d[Slot[i]] \in Nat
           /\ ~Tails[i].opt => /\ Slot[i] + Tails[i].pfx <= n
                               /\ RawPrefix(d, Slot[i], Tails[i].pfx) \in Nat
<1>1. /\ Slot[i] \in Nat /\ Slot[i] < HeaderSize /\ HeaderSize \in Nat
      /\ ~Tails[i].opt => Slot[i] + Tails[i].pfx <= HeaderSize
      /\ Tails[i].pfx \in Nat /\ Tails[i].pfx \in Width
  BY SlotFacts, TailFacts, SchemaFacts
<1>2. Slot[i] \in 0 .. (n - 1)
  BY <1>1
<1>3. d[Slot[i]] \in Byte /\ d[Slot[i]] \in Nat
  BY <1>2, ByteNat
<1>4. ASSUME ~Tails[i].opt
      PROVE  /\ Slot[i] + Tails[i].pfx <= n
             /\ RawPrefix(d, Slot[i], Tails[i].pfx) \in Nat
  <2>1. Slot[i] + Tails[i].pfx <= n
    BY <1>1, <1>4
  <2>. QED
    BY <1>1, <2>1, RawPrefixNat
<1>. QED
  BY <1>3, <1>4

\* The prefix of `pfx` bytes at `off`, in unbounded arithmetic.
PlainRead(d, n, off, pfx) ==
    IF off + pfx > n THEN Err("BufferTooSmall")
    ELSE IF RawPrefix(d, off, pfx) > UsizeMax THEN Err("InvalidLength")
    ELSE Ok(RawPrefix(d, off, pfx))

\* The prefix of a present option is read as in unbounded arithmetic, by either
\* helper.
LEMMA ReadPrefixIsPlain ==
    ASSUME NEW n \in Nat, NEW d \in [0 .. (n - 1) -> Byte], NEW off \in Nat,
           NEW pfx \in Width, off + pfx <= UsizeMax
    PROVE  /\ BoundedReadPrefix(d, n, off, pfx) = PlainRead(d, n, off, pfx)
           /\ ReadPrefix(d, n, off, pfx) = PlainRead(d, n, off, pfx)
<1>1. pfx \in Nat /\ off + pfx \in Nat
  BY DEF Width
<1>2. CheckedAdd(off, pfx) = Ok(off + pfx)
  BY <1>1, BoundedIsExact
<1>3. CheckedAdd(off, pfx).ok /\ CheckedAdd(off, pfx).value = off + pfx
  BY <1>2 DEF Ok
<1>4. ReadPrefix(d, n, off, pfx) = PlainRead(d, n, off, pfx)
  BY <1>3, Zenon DEF ReadPrefix, DecodePrefix, PlainRead
<1>5. CASE pfx > 2
  BY <1>4, <1>5 DEF BoundedReadPrefix
<1>6. CASE ~(pfx > 2)
  <2>1. Wrap(off + pfx) = off + pfx
    BY <1>1, SchemaFacts DEF Wrap
  <2>2. CASE off + pfx > n
    BY <1>4, <1>6, <2>1, <2>2 DEF BoundedReadPrefix, PlainRead
  <2>3. CASE ~(off + pfx > n)
    <3>1. RawPrefix(d, off, pfx) \in Nat /\ RawPrefix(d, off, pfx) <= UsizeMax
      <4>1. off + pfx <= n /\ pfx <= 2
        BY <1>1, <1>6, <2>3
      <4>. QED
        BY <4>1, RawPrefixNat, NarrowPrefixFits
    <3>2. CastPrefix(d, off, pfx) = RawPrefix(d, off, pfx) /\ ~(RawPrefix(d, off, pfx) > UsizeMax)
      BY <3>1, SchemaFacts DEF CastPrefix, Wrap
    <3>. QED
      BY <1>4, <1>6, <2>1, <2>3, <3>2 DEF BoundedReadPrefix, PlainRead
  <2>. QED
    BY <1>4, <2>2, <2>3
<1>. QED
  BY <1>4, <1>5, <1>6

\* Within the capacities the walk over a tail is exact.
LEMMA WalkTailIsPlain ==
    ASSUME NEW n \in Nat, HeaderSize <= n, NEW d \in [0 .. (n - 1) -> Byte], NEW i \in TailId,
           NEW off \in Nat, off <= Capacity[i - 1], NEW full
    PROVE  WalkTail(d, n, i, off, full) = PlainTail(d, n, i, off, full)
<1>. DEFINE t == Tails[i]
<1>1. /\ t.pfx \in Width /\ t.pfx \in Nat /\ t.max \in Nat /\ t.opt \in BOOLEAN
      /\ 0 <= t.max /\ t.size \in Nat
  BY TailFacts
<1>2. CASE ~t.opt
  <2>. DEFINE raw == RawPrefix(d, Slot[i], t.pfx)
  <2>1. raw \in Nat
    BY <1>2, SlotByte
  <2>2. raw <= t.max => off + raw * t.size <= UsizeMax
    <3>. SUFFICES ASSUME raw <= t.max PROVE off + raw * t.size <= UsizeMax
      OBVIOUS
    <3>. HIDE DEF raw
    <3>1. off + 0 + raw * t.size <= UsizeMax /\ raw * t.size \in Nat
      BY <1>2, <2>1, TailFits
    <3>. QED
      BY <3>1
  <2>3. WalkPayload(d, n, i, raw, off, full) = PlainPayload(d, n, i, raw, off, full)
    <3>. HIDE DEF raw
    <3>. QED
      BY <2>1, <2>2, WalkPayloadIsPlain
  <2>4. WalkTail(d, n, i, off, full) =
            AndThen(DecodePrefix(d, Slot[i], t.pfx),
                    LAMBDA count : WalkPayload(d, n, i, count, off, full))
    BY <1>2 DEF WalkTail
  <2>5. CASE raw > UsizeMax
    BY <1>2, <2>4, <2>5 DEF AndThen, DecodePrefix, Err, PlainTail, StoredCount, PayloadFrom
  <2>6. CASE ~(raw > UsizeMax)
    BY <1>2, <2>3, <2>4, <2>6 DEF AndThen, DecodePrefix, Ok, PlainTail, StoredCount, PayloadFrom
  <2>. QED
    BY <2>5, <2>6
<1>3. CASE t.opt
  <2>. DEFINE tag == d[Slot[i]]
              raw == RawPrefix(d, off, t.pfx)
              from == off + t.pfx
  <2>1. /\ from \in Nat /\ from <= UsizeMax
        /\ \A count \in Nat : count <= t.max => from + count * t.size <= UsizeMax
    <3>1. ASSUME NEW count \in Nat, count <= t.max
          PROVE  off + t.pfx + count * t.size <= UsizeMax /\ count * t.size \in Nat
      BY <1>3, <3>1, TailFits
    <3>2. off + t.pfx + 0 * t.size <= UsizeMax /\ 0 * t.size = 0
      BY <1>1, <3>1
    <3>3. from \in Nat /\ from <= UsizeMax
      BY <1>1, <3>2
    <3>. QED
      BY <3>1, <3>3
  <2>2. Wrap(from) = from
    BY SMTT(60), <2>1, SchemaFacts DEF Wrap
  <2>3. /\ from > n => BoundedReadPrefix(d, n, off, t.pfx) = Err("BufferTooSmall")
        /\ ~(from > n) /\ raw > UsizeMax =>
              BoundedReadPrefix(d, n, off, t.pfx) = Err("InvalidLength")
        /\ ~(from > n) /\ ~(raw > UsizeMax) => BoundedReadPrefix(d, n, off, t.pfx) = Ok(raw)
    BY <1>1, <2>1, ReadPrefixIsPlain DEF PlainRead
  <2>4. ~(from > n) => raw \in Nat
    <3>1. ~(from > n) => off + t.pfx <= n
      BY <1>1
    <3>. QED
      BY <1>1, <3>1, RawPrefixNat
  <2>5. WalkTail(d, n, i, off, full) =
            IF tag = 0 THEN Ok(off)
            ELSE IF tag # 1 THEN Err("InvalidTag")
            ELSE AndThen(BoundedReadPrefix(d, n, off, t.pfx),
                         LAMBDA count : WalkPayload(d, n, i, count, Wrap(off + t.pfx), full))
    BY <1>3 DEF WalkTail
  <2>6. CASE tag # 0 /\ tag = 1 /\ from > n
    BY <1>3, <2>3, <2>5, <2>6 DEF AndThen, Err, PlainTail, StoredCount, PayloadFrom
  <2>7. CASE tag # 0 /\ tag = 1 /\ ~(from > n) /\ raw > UsizeMax
    BY <1>3, <2>3, <2>5, <2>7 DEF AndThen, Err, PlainTail, StoredCount, PayloadFrom
  <2>8. CASE tag # 0 /\ tag = 1 /\ ~(from > n) /\ ~(raw > UsizeMax)
    <3>1. WalkPayload(d, n, i, raw, from, full) = PlainPayload(d, n, i, raw, from, full)
      <4>1. raw \in Nat
        BY <2>4, <2>8
      <4>. HIDE DEF raw, from
      <4>. QED
        BY <2>1, <4>1, WalkPayloadIsPlain
    <3>2. WalkTail(d, n, i, off, full) = WalkPayload(d, n, i, raw, from, full)
      BY <2>2, <2>3, <2>5, <2>8 DEF AndThen, Ok
    <3>. QED
      BY <1>3, <2>8, <3>1, <3>2 DEF PlainTail, StoredCount, PayloadFrom
  <2>9. CASE tag = 0 \/ (tag # 0 /\ tag # 1)
    BY <1>3, <2>5, <2>9 DEF PlainTail
  <2>. QED
    BY <2>6, <2>7, <2>8, <2>9
<1>. QED
  BY <1>1, <1>2, <1>3

\* What makes the walk accept tail i at `off`, and where it then ends.
TailAccepted(d, n, i, off, full) ==
    LET t == Tails[i]
        count == StoredCount(d, i, off)
        end == PayloadFrom(i, off) + count * t.size
    IN  \/ t.opt /\ d[Slot[i]] = 0
        \/ /\ t.opt => d[Slot[i]] = 1 /\ off + t.pfx <= n
           /\ count <= UsizeMax
           /\ count <= t.max
           /\ end <= n
           /\ full => \A a \in PayloadFrom(i, off) .. (end - 1) : d[a] \in t.ok

TailEnd(d, i, off) ==
    IF Tails[i].opt /\ d[Slot[i]] = 0 THEN off
    ELSE PayloadFrom(i, off) + StoredCount(d, i, off) * Tails[i].size

\* The count of a tail that is there is a number.
LEMMA StoredCountNat ==
    ASSUME NEW n \in Nat, HeaderSize <= n, NEW d \in [0 .. (n - 1) -> Byte], NEW i \in TailId,
           NEW off \in Nat, Tails[i].opt => off + Tails[i].pfx <= n
    PROVE  /\ StoredCount(d, i, off) \in Nat
           /\ StoredCount(d, i, off) * Tails[i].size \in Nat
           /\ PayloadFrom(i, off) \in Nat /\ off <= PayloadFrom(i, off)
<1>1. StoredCount(d, i, off) \in Nat
  <2>1. CASE Tails[i].opt
    BY <2>1, TailFacts, RawPrefixNat DEF StoredCount
  <2>2. CASE ~Tails[i].opt
    BY <2>2, SlotByte DEF StoredCount
  <2>. QED
    BY <2>1, <2>2
<1>2. PayloadFrom(i, off) \in Nat /\ off <= PayloadFrom(i, off)
  BY TailFacts DEF PayloadFrom
<1>. QED
  BY <1>1, <1>2, TailFacts

\* Errors and successes are results.
LEMMA ResultsOf ==
    /\ \A e \in Errors : Err(e) \in Results /\ ~Err(e).ok
    /\ \A v \in Nat : Ok(v) \in Results /\ Ok(v).ok /\ Ok(v).value = v
    /\ \A r \in Results : r.ok \in BOOLEAN /\ r.value \in Nat
    /\ {"InvalidLength", "InvalidTag", "BufferTooSmall"} \subseteq Errors
    /\ \A i \in TailId : Tails[i].error \in Errors
<1>1. {"none", "InvalidLength", "InvalidTag", "BufferTooSmall"} \subseteq Errors
  BY DEF Errors
<1>2. \A i \in TailId : Tails[i].error \in Errors
  BY DEF Errors
<1>3. ASSUME NEW e \in Errors PROVE Err(e) \in Results /\ ~Err(e).ok
  BY DEF Results, Err
<1>4. ASSUME NEW v \in Nat PROVE Ok(v) \in Results /\ Ok(v).ok /\ Ok(v).value = v
  BY <1>1 DEF Results, Ok
<1>. QED
  BY <1>1, <1>2, <1>3, <1>4 DEF Results

\* The walk accepts a tail exactly under these conditions, and ends at its end.
LEMMA PlainTailResult ==
    ASSUME NEW n \in Nat, HeaderSize <= n, NEW d \in [0 .. (n - 1) -> Byte], NEW i \in TailId,
           NEW off \in Nat, off <= n, NEW full \in BOOLEAN
    PROVE  /\ PlainTail(d, n, i, off, full) \in Results
           /\ PlainTail(d, n, i, off, full).ok <=> TailAccepted(d, n, i, off, full)
           /\ PlainTail(d, n, i, off, full).ok =>
                PlainTail(d, n, i, off, full) = Ok(TailEnd(d, i, off))
<1>. DEFINE t == Tails[i]
            count == StoredCount(d, i, off)
            from == PayloadFrom(i, off)
            end == from + count * t.size
            bad == \E a \in from .. (end - 1) : d[a] \notin t.ok
            r == PlainTail(d, n, i, off, full)
<1>1. /\ t.error \in Errors /\ t.opt \in BOOLEAN
      /\ t.pfx \in Nat /\ t.max \in Nat
  BY TailFacts, ResultsOf
<1>. HIDE DEF r
<1>2. CASE t.opt /\ d[Slot[i]] = 0
  <2>1. r = Ok(off) /\ TailEnd(d, i, off) = off /\ TailAccepted(d, n, i, off, full)
    BY <1>2 DEF r, PlainTail, TailEnd, TailAccepted
  <2>. QED
    BY <2>1, ResultsOf DEF r
<1>3. CASE t.opt /\ d[Slot[i]] # 0 /\ d[Slot[i]] # 1
  <2>1. r = Err("InvalidTag") /\ ~TailAccepted(d, n, i, off, full)
    BY <1>3 DEF r, PlainTail, TailAccepted
  <2>. QED
    BY <2>1, ResultsOf DEF r
<1>4. CASE t.opt /\ d[Slot[i]] = 1 /\ off + t.pfx > n
  <2>1. ~(off + t.pfx <= n)
    BY <1>1, <1>4
  <2>2. r = Err("BufferTooSmall") /\ ~TailAccepted(d, n, i, off, full)
    BY <1>4, <2>1 DEF r, PlainTail, TailAccepted
  <2>. QED
    BY <2>2, ResultsOf DEF r
<1>5. CASE t.opt => d[Slot[i]] = 1 /\ ~(off + t.pfx > n)
  <2>1. /\ count \in Nat /\ from \in Nat /\ end \in Nat
        /\ t.opt => off + t.pfx <= n
    <3>1. t.opt => off + t.pfx <= n
      BY <1>1, <1>5
    <3>2. count \in Nat /\ count * t.size \in Nat /\ from \in Nat
      BY ZenonT(60), <3>1, StoredCountNat
    <3>. DEFINE payload == count * t.size
    <3>3. end = from + payload /\ payload \in Nat
      BY <3>2
    <3>. HIDE DEF count, from, payload, end
    <3>. QED
      BY <3>1, <3>2, <3>3 DEF payload
  <2>2. /\ count > UsizeMax <=> ~(count <= UsizeMax)
        /\ count > t.max <=> ~(count <= t.max)
        /\ end > n <=> ~(end <= n)
    <3>. HIDE DEF count, end
    <3>. QED
      BY SMTT(60), <1>1, <2>1, SchemaFacts
  <2>3. r = IF count > UsizeMax THEN Err("InvalidLength")
            ELSE IF count > t.max THEN Err("InvalidLength")
            ELSE IF end > n THEN Err("BufferTooSmall")
            ELSE IF full /\ bad THEN Err(t.error)
            ELSE Ok(end)
    BY <1>5 DEF r, PlainTail, PlainPayload
  <2>4. TailAccepted(d, n, i, off, full) <=>
            count <= UsizeMax /\ count <= t.max /\ end <= n /\ ~(full /\ bad)
    BY <1>5, <2>1 DEF TailAccepted
  <2>5. TailEnd(d, i, off) = end
    BY <1>5 DEF TailEnd
  <2>. HIDE DEF count, from, end, bad
  <2>. QED
    BY <1>1, <2>1, <2>2, <2>3, <2>4, <2>5, ResultsOf DEF r
<1>. QED
  BY <1>1, <1>2, <1>3, <1>4, <1>5

\* An accepted tail ends inside the buffer and within its capacity, and the
\* unchecked replay gives it the same size.
LEMMA AcceptedTail ==
    ASSUME NEW n \in Nat, HeaderSize <= n, NEW d \in [0 .. (n - 1) -> Byte], NEW i \in TailId,
           NEW off \in Nat, off <= n, off <= Capacity[i - 1], NEW full,
           TailAccepted(d, n, i, off, full)
    PROVE  /\ TailEnd(d, i, off) \in Nat
           /\ off <= TailEnd(d, i, off)
           /\ TailEnd(d, i, off) <= n
           /\ TailEnd(d, i, off) <= Capacity[i]
           /\ TailEnd(d, i, off) <= UsizeMax
           /\ EncodedSize(d, i, off) = TailEnd(d, i, off) - off
<1>. DEFINE t == Tails[i]
            count == StoredCount(d, i, off)
            from == PayloadFrom(i, off)
            end == TailEnd(d, i, off)
<1>1. /\ t.pfx \in Nat /\ t.max \in Nat /\ t.size \in Nat /\ t.opt \in BOOLEAN
      /\ Capacity[i] \in Nat /\ Capacity[i] <= UsizeMax /\ UsizeMax \in Nat
  BY TailFacts, CapacityOrder, SchemaFacts
<1>2. CASE t.opt /\ d[Slot[i]] = 0
  <2>1. end = off /\ EncodedSize(d, i, off) = 0
    BY <1>2 DEF TailEnd, EncodedSize
  <2>2. off <= Capacity[i]
    <3>1. /\ Capacity[i] = Capacity[i - 1] + TailCapacity(i) /\ TailCapacity(i) \in Nat
          /\ Capacity[i - 1] \in Nat
      BY CapacityRuns, SchemaFacts
    <3>. QED
      BY <3>1
  <2>. QED
    BY <1>1, <2>1, <2>2
<1>3. CASE ~(t.opt /\ d[Slot[i]] = 0)
  <2>1. /\ t.opt => d[Slot[i]] = 1 /\ off + t.pfx <= n
        /\ count <= UsizeMax /\ count <= t.max
        /\ end = from + count * t.size
        /\ from + count * t.size <= n
    BY <1>3 DEF TailAccepted, TailEnd
  <2>2. /\ count \in Nat /\ count * t.size \in Nat
        /\ from \in Nat /\ off <= from
    BY <2>1, StoredCountNat
  <2>3. from = off + (IF t.opt THEN t.pfx ELSE 0)
    BY <1>1 DEF PayloadFrom
  <2>4. end <= Capacity[i]
    <3>. HIDE DEF count, end, from
    <3>. QED
      BY <2>1, <2>2, <2>3, TailFits
  <2>5. end \in Nat /\ off <= end /\ end <= n
    BY <2>1, <2>2
  <2>. DEFINE payload == count * t.size
  <2>6. EncodedSize(d, i, off) = end - off
    <3>1. \A v \in Nat : v <= UsizeMax => Wrap(v) = v
      BY <1>1 DEF Wrap
    <3>2. payload \in Nat /\ end = from + payload
      BY <2>1, <2>2
    <3>3. payload <= UsizeMax /\ end - off <= UsizeMax /\ end - off \in Nat
      <4>. HIDE DEF payload, from, end
      <4>. QED
        BY <1>1, <2>2, <2>4, <2>5, <3>2
    <3>4. CASE t.opt
      <4>1. CastPrefix(d, off, t.pfx) = count
        BY <2>1, <2>2, <3>1, <3>4 DEF CastPrefix, StoredCount
      <4>2. EncodedSize(d, i, off) = Wrap(t.pfx + payload)
        BY <1>3, <3>4, <4>1 DEF EncodedSize
      <4>3. from = off + t.pfx
        BY <3>4 DEF PayloadFrom
      <4>4. t.pfx + payload = end - off
        <5>. HIDE DEF payload, from, end
        <5>. QED
          BY SMTT(60), <1>1, <2>2, <3>2, <4>3
      <4>. HIDE DEF payload, end
      <4>. QED
        BY <3>1, <3>3, <4>2, <4>4
    <3>5. CASE ~t.opt
      <4>1. CastPrefix(d, Slot[i], t.pfx) = count
        BY <2>1, <2>2, <3>1, <3>5 DEF CastPrefix, StoredCount
      <4>2. EncodedSize(d, i, off) = Wrap(payload)
        BY <3>5, <4>1 DEF EncodedSize
      <4>3. payload = end - off
        <5>. HIDE DEF payload, from, end
        <5>. QED
          BY <1>1, <2>2, <2>3, <3>2, <3>5
      <4>. HIDE DEF payload, end
      <4>. QED
        BY <3>1, <3>3, <4>2, <4>3
    <3>. QED
      BY <1>1, <3>4, <3>5
  <2>. QED
    BY <1>1, <2>4, <2>5, <2>6
<1>. QED
  BY <1>2, <1>3

\* Where a walk may be after i tails.
Reached(n, i) ==
    {r \in Results : r.ok => HeaderSize <= r.value /\ r.value <= n /\ r.value <= Capacity[i]}

\* One tail of a walk, from where it may be to where it may be next.
LEMMA WalkStep ==
    ASSUME NEW n \in Nat, HeaderSize <= n, NEW d \in [0 .. (n - 1) -> Byte], NEW full \in BOOLEAN,
           NEW i \in TailId, NEW r \in Reached(n, i - 1), r.ok
    PROVE  /\ WalkTail(d, n, i, r.value, full) = PlainTail(d, n, i, r.value, full)
           /\ PlainTail(d, n, i, r.value, full) \in Reached(n, i)
<1>. DEFINE off == r.value
            next == PlainTail(d, n, i, off, full)
<1>1. off \in Nat /\ HeaderSize <= off /\ off <= n /\ off <= Capacity[i - 1] /\ HeaderSize \in Nat
  BY ResultsOf, SchemaFacts DEF Reached
<1>. HIDE DEF off
<1>2. WalkTail(d, n, i, off, full) = next
  BY <1>1, WalkTailIsPlain
<1>3. next \in Results /\ (next.ok => TailAccepted(d, n, i, off, full) /\ next = Ok(TailEnd(d, i, off)))
  BY <1>1, PlainTailResult
<1>4. ASSUME next.ok
      PROVE  HeaderSize <= next.value /\ next.value <= n /\ next.value <= Capacity[i]
  <2>1. /\ TailEnd(d, i, off) \in Nat /\ off <= TailEnd(d, i, off)
        /\ TailEnd(d, i, off) <= n /\ TailEnd(d, i, off) <= Capacity[i]
    BY <1>1, <1>3, <1>4, AcceptedTail
  <2>2. next.value = TailEnd(d, i, off)
    BY <1>3, <1>4, <2>1, ResultsOf
  <2>. HIDE DEF next
  <2>. QED
    BY <1>1, <2>1, <2>2
<1>5. next \in Reached(n, i)
  <2>. HIDE DEF next
  <2>. QED
    BY <1>3, <1>4 DEF Reached
<1>. QED
  BY <1>2, <1>5 DEF off

\* A walk over a buffer that holds a header: it starts behind the header, takes
\* the tails in order, stops at the first error, and never leaves the buffer.
LEMMA WalkRuns ==
    ASSUME NEW n \in Nat, HeaderSize <= n, NEW d \in [0 .. (n - 1) -> Byte], NEW full \in BOOLEAN,
           NEW w, w = WalkTo(d, n, full)
    PROVE  /\ w[0] = Ok(HeaderSize)
           /\ \A i \in TailId :
                w[i] = IF w[i - 1].ok THEN PlainTail(d, n, i, w[i - 1].value, full) ELSE w[i - 1]
           /\ \A i \in 0 .. TailCount : w[i] \in Reached(n, i)
<1>. DEFINE V == [i \in 0 .. TailCount |-> Reached(n, i)]
            Step(i, r) == IF r.ok THEN PlainTail(d, n, i, r.value, full) ELSE r
            G == [p \in TailId \X Results |-> Step(p[1], p[2])]
            Rec(f) == [i \in 0 .. TailCount |->
                          IF i = 0 THEN Ok(HeaderSize)
                          ELSE AndThen(f[i - 1], LAMBDA off : WalkTail(d, n, i, off, full))]
<1>1. ASSUME NEW i \in TailId, NEW r \in Reached(n, i - 1)
      PROVE  Step(i, r) \in Reached(n, i)
  <2>1. CASE r.ok
    BY <2>1, WalkStep
  <2>2. CASE ~r.ok
    BY <2>2 DEF Reached
  <2>. QED
    BY <2>1, <2>2
<1>2. Ok(HeaderSize) \in Reached(n, 0)
  <2>1. Ok(HeaderSize) \in Results /\ Ok(HeaderSize).value = HeaderSize
        /\ HeaderSize \in Nat /\ Capacity[0] = HeaderSize
    BY ResultsOf, SchemaFacts, CapacityRuns
  <2>. QED
    BY <2>1 DEF Reached
<1>3. \A i \in 0 .. TailCount : V[i] = Reached(n, i) /\ Reached(n, i) \subseteq Results
  BY DEF Reached
<1>4. \A i \in TailId : \A r \in Results : G[<<i, r>>] = Step(i, r)
  OBVIOUS
<1>5. Ok(HeaderSize) \in V[0] /\ \A i \in 1 .. TailCount : \A x \in V[i - 1] : G[<<i, x>>] \in V[i]
  <2>. HIDE DEF V, G, Step
  <2>1. Ok(HeaderSize) \in V[0]
    BY <1>2, <1>3, SchemaFacts
  <2>2. ASSUME NEW i \in TailId, NEW x \in V[i - 1] PROVE G[<<i, x>>] \in V[i]
    BY <1>1, <1>3, <1>4, SchemaFacts
  <2>. QED
    BY <2>1, <2>2 DEF TailId
<1>6. PICK f : Solves(TailCount, Ok(HeaderSize), G, V, f)
  <2>. HIDE DEF V, G
  <2>. QED
    BY <1>5, SchemaFacts, TypedRecursion
<1>7. /\ f = [i \in 0 .. TailCount |-> f[i]]
      /\ f[0] = Ok(HeaderSize)
      /\ \A i \in TailId : f[i] = Step(i, f[i - 1])
      /\ \A i \in 0 .. TailCount : f[i] \in Reached(n, i)
  <2>. HIDE DEF V, G, Step
  <2>1. \A i \in 0 .. TailCount : f[i] \in Reached(n, i)
    BY <1>3, <1>6 DEF Solves
  <2>2. \A i \in TailId : f[i] = Step(i, f[i - 1])
    BY <1>3, <1>4, <1>6, <2>1, SchemaFacts DEF Solves, TailId
  <2>. QED
    BY <1>6, <2>1, <2>2 DEF Solves
<1>8. ASSUME NEW h, NEW i \in TailId, h[i - 1] \in Reached(n, i - 1)
      PROVE  Rec(h)[i] = Step(i, h[i - 1])
  <2>1. i \in 0 .. TailCount /\ i # 0
    BY SchemaFacts
  <2>2. Rec(h)[i] = AndThen(h[i - 1], LAMBDA off : WalkTail(d, n, i, off, full))
    BY <2>1
  <2>3. CASE h[i - 1].ok
    BY <1>8, <2>2, <2>3, WalkStep DEF AndThen
  <2>4. CASE ~h[i - 1].ok
    BY <2>2, <2>4 DEF AndThen
  <2>. QED
    BY <2>3, <2>4
<1>9. \A h : Rec(h)[0] = Ok(HeaderSize) /\ Rec(h) = [i \in 0 .. TailCount |-> Rec(h)[i]]
  BY SchemaFacts
<1>10. f = Rec(f)
  <2>. HIDE DEF Rec, Step
  <2>1. ASSUME NEW i \in TailId PROVE f[i] = Rec(f)[i]
    <3>1. f[i - 1] \in Reached(n, i - 1)
      BY <1>7, SchemaFacts
    <3>. QED
      BY <1>7, <1>8, <3>1
  <2>2. f[0] = Rec(f)[0]
    BY <1>7, <1>9
  <2>3. \A i \in 0 .. TailCount : f[i] = Rec(f)[i]
    BY <2>1, <2>2, SchemaFacts DEF TailId
  <2>. QED
    BY <1>7, <1>9, <2>3
<1>11. w = Rec(w)
  BY <1>10, Zenon DEF WalkTo
<1>. HIDE DEF Rec, Step
<1>12. \A i \in 0 .. TailCount : w[i] \in Reached(n, i)
  <2>. DEFINE S == {i \in 0 .. TailCount : w[i] \in Reached(n, i)}
  <2>1. 0 \in S
    BY <1>2, <1>9, <1>11, SchemaFacts
  <2>2. ASSUME NEW i \in 1 .. TailCount, i - 1 \in S PROVE i \in S
    BY <1>1, <1>8, <1>11, <2>2 DEF TailId
  <2>3. \A i \in 0 .. TailCount : i \in S
    <3>. HIDE DEF S
    <3>. QED
      BY <2>1, <2>2, SchemaFacts, RangeInduction
  <2>. QED
    BY <2>3
<1>13. \A i \in TailId : w[i] = Step(i, w[i - 1])
  BY <1>8, <1>11, <1>12, SchemaFacts
<1>. QED
  BY <1>9, <1>11, <1>12, <1>13 DEF Step

-----------------------------------------------------------------------------
(* The replay of the offsets.                                              *)

\* f places every tail where the one before it ends, and the conditions of the
\* walk hold for each.
Places(d, n, full, f) ==
    /\ f[1] = HeaderSize
    /\ \A i \in TailId :
         /\ TailAccepted(d, n, i, f[i], full)
         /\ f[i + 1] = TailEnd(d, i, f[i])

\* Offsets so placed lie inside the buffer and within the capacities.
LEMMA PlacesBounded ==
    ASSUME NEW n \in Nat, HeaderSize <= n, NEW d \in [0 .. (n - 1) -> Byte], NEW full,
           NEW f, Places(d, n, full, f)
    PROVE  \A i \in 1 .. (TailCount + 1) :
              f[i] \in Nat /\ HeaderSize <= f[i] /\ f[i] <= n /\ f[i] <= Capacity[i - 1]
<1>. DEFINE Bounded(i) == /\ f[i + 1] \in Nat /\ HeaderSize <= f[i + 1]
                          /\ f[i + 1] <= n /\ f[i + 1] <= Capacity[i]
            S == {i \in 0 .. TailCount : Bounded(i)}
<1>1. 0 \in S
  <2>1. f[1] = HeaderSize /\ Capacity[0] = HeaderSize
    BY CapacityRuns DEF Places
  <2>2. 0 + 1 = 1
    OBVIOUS
  <2>. QED
    BY <2>1, <2>2, SchemaFacts
<1>2. ASSUME NEW i \in 1 .. TailCount, i - 1 \in S PROVE i \in S
  <2>1. i \in TailId /\ (i - 1) + 1 = i
    BY SchemaFacts DEF TailId
  <2>2. f[i] \in Nat /\ HeaderSize <= f[i] /\ f[i] <= n /\ f[i] <= Capacity[i - 1]
    BY <1>2, <2>1
  <2>3. TailAccepted(d, n, i, f[i], full) /\ f[i + 1] = TailEnd(d, i, f[i])
    BY <2>1 DEF Places
  <2>4. /\ f[i + 1] \in Nat /\ f[i] <= f[i + 1] /\ f[i + 1] <= n /\ f[i + 1] <= Capacity[i]
    BY <2>1, <2>2, <2>3, AcceptedTail
  <2>5. HeaderSize <= f[i + 1]
    BY <2>2, <2>4, SchemaFacts
  <2>. QED
    BY <2>1, <2>4, <2>5, SchemaFacts
<1>3. \A i \in 0 .. TailCount : i \in S
  <2>. HIDE DEF S
  <2>. QED
    BY <1>1, <1>2, SchemaFacts, RangeInduction
<1>4. ASSUME NEW i \in 1 .. (TailCount + 1)
      PROVE  f[i] \in Nat /\ HeaderSize <= f[i] /\ f[i] <= n /\ f[i] <= Capacity[i - 1]
  <2>1. i - 1 \in 0 .. TailCount /\ (i - 1) + 1 = i
    BY SchemaFacts
  <2>2. Bounded(i - 1)
    BY <1>3, <2>1
  <2>. QED
    BY <2>1, <2>2
<1>. QED
  BY <1>4

\* A walk that can place every tail succeeds, at those places.
LEMMA PlacedIsWalked ==
    ASSUME NEW n \in Nat, HeaderSize <= n, NEW d \in [0 .. (n - 1) -> Byte], NEW full \in BOOLEAN,
           NEW f, Places(d, n, full, f)
    PROVE  \A i \in 0 .. TailCount : WalkTo(d, n, full)[i] = Ok(f[i + 1])
<1>. DEFINE w == WalkTo(d, n, full)
            S == {i \in 0 .. TailCount : w[i] = Ok(f[i + 1])}
<1>1. /\ w[0] = Ok(HeaderSize)
      /\ \A i \in TailId :
           w[i] = IF w[i - 1].ok THEN PlainTail(d, n, i, w[i - 1].value, full) ELSE w[i - 1]
  <2>. HIDE DEF w
  <2>. QED
    BY WalkRuns DEF w
<1>. HIDE DEF w
<1>2. 0 \in S
  <2>1. f[1] = HeaderSize /\ 0 + 1 = 1
    BY DEF Places
  <2>. QED
    BY <1>1, <2>1, SchemaFacts
<1>3. ASSUME NEW i \in 1 .. TailCount, i - 1 \in S PROVE i \in S
  <2>1. i \in TailId /\ (i - 1) + 1 = i /\ i \in 1 .. (TailCount + 1)
    BY SchemaFacts DEF TailId
  <2>2. f[i] \in Nat /\ f[i] <= n
    BY <2>1, PlacesBounded
  <2>3. w[i - 1] = Ok(f[i])
    BY <1>3, <2>1
  <2>4. w[i - 1].ok /\ w[i - 1].value = f[i]
    BY <2>2, <2>3, ResultsOf
  <2>5. w[i] = PlainTail(d, n, i, f[i], full)
    BY <1>1, <2>1, <2>4
  <2>6. TailAccepted(d, n, i, f[i], full) /\ f[i + 1] = TailEnd(d, i, f[i])
    BY <2>1 DEF Places
  <2>7. PlainTail(d, n, i, f[i], full) = Ok(f[i + 1])
    BY <2>1, <2>2, <2>6, PlainTailResult
  <2>. QED
    BY <2>5, <2>7
<1>4. \A i \in 0 .. TailCount : i \in S
  <2>. HIDE DEF S
  <2>. QED
    BY <1>2, <1>3, SchemaFacts, RangeInduction
<1>. QED
  BY <1>4 DEF w

\* The unchecked replay of the offsets finds the tails where they are placed,
\* however they are validated.
LEMMA PlacedIsReplayed ==
    ASSUME NEW n \in Nat, HeaderSize <= n, NEW d \in [0 .. (n - 1) -> Byte], NEW full,
           NEW f, Places(d, n, full, f)
    PROVE  \A i \in 1 .. (TailCount + 1) : TailOffset(d)[i] = f[i]
<1>. DEFINE Rec(h) == [i \in 1 .. (TailCount + 1) |->
                          IF i = 1 THEN HeaderSize
                          ELSE Wrap(h[i - 1] + EncodedSize(d, i - 1, h[i - 1]))]
            g == [i \in 1 .. (TailCount + 1) |-> f[i]]
            t == TailOffset(d)
<1>1. \A i \in 1 .. (TailCount + 1) : f[i] \in Nat /\ f[i] <= n /\ f[i] <= Capacity[i - 1]
  BY PlacesBounded
<1>2. ASSUME NEW i \in TailId
      PROVE  Wrap(f[i] + EncodedSize(d, i, f[i])) = f[i + 1]
  <2>1. i \in 1 .. (TailCount + 1)
    BY SchemaFacts
  <2>2. /\ f[i] \in Nat /\ f[i] <= n /\ f[i] <= Capacity[i - 1]
        /\ TailAccepted(d, n, i, f[i], full) /\ f[i + 1] = TailEnd(d, i, f[i])
    BY <1>1, <2>1 DEF Places
  <2>3. /\ f[i + 1] \in Nat /\ f[i + 1] <= UsizeMax
        /\ EncodedSize(d, i, f[i]) = f[i + 1] - f[i]
    BY <2>2, AcceptedTail
  <2>4. f[i] + EncodedSize(d, i, f[i]) = f[i + 1]
    BY <2>2, <2>3
  <2>. QED
    BY SMTT(60), <2>3, <2>4, SchemaFacts DEF Wrap
<1>3. \A h : \A i \in 1 .. (TailCount + 1) :
        Rec(h)[i] = IF i = 1 THEN HeaderSize
                    ELSE Wrap(h[i - 1] + EncodedSize(d, i - 1, h[i - 1]))
  OBVIOUS
<1>4. g = Rec(g)
  <2>1. ASSUME NEW i \in 1 .. (TailCount + 1) PROVE g[i] = Rec(g)[i]
    <3>1. CASE i = 1
      BY <3>1, <1>3 DEF Places
    <3>2. CASE i # 1
      <4>1. i - 1 \in TailId /\ (i - 1) + 1 = i /\ i - 1 \in 1 .. (TailCount + 1)
        BY <3>2, SchemaFacts DEF TailId
      <4>2. g[i - 1] = f[i - 1] /\ g[i] = f[i]
        BY <4>1
      <4>. HIDE DEF g, Rec
      <4>. QED
        BY <1>2, <1>3, <3>2, <4>1, <4>2
    <3>. QED
      BY <3>1, <3>2
  <2>2. Rec(g) = [i \in 1 .. (TailCount + 1) |-> Rec(g)[i]]
    OBVIOUS
  <2>3. g = [i \in 1 .. (TailCount + 1) |-> g[i]]
    OBVIOUS
  <2>. HIDE DEF g, Rec
  <2>. QED
    BY <2>1, <2>2, <2>3
<1>5. t = Rec(t)
  <2>. HIDE DEF g
  <2>. QED
    BY <1>4, Zenon DEF TailOffset
<1>. HIDE DEF g, Rec, t
<1>. DEFINE S == {i \in 0 .. TailCount : t[i + 1] = f[i + 1]}
<1>6. 0 \in S
  <2>1. 1 \in 1 .. (TailCount + 1) /\ 0 + 1 = 1 /\ f[1] = HeaderSize
    BY SchemaFacts DEF Places
  <2>2. t[1] = HeaderSize
    BY <1>3, <1>5, <2>1
  <2>. QED
    BY <2>1, <2>2, SchemaFacts
<1>7. ASSUME NEW i \in 1 .. TailCount, i - 1 \in S PROVE i \in S
  <2>1. i \in TailId /\ (i - 1) + 1 = i /\ i + 1 \in 1 .. (TailCount + 1)
        /\ i + 1 # 1 /\ (i + 1) - 1 = i
    BY SchemaFacts DEF TailId
  <2>2. t[i] = f[i]
    BY <1>7, <2>1
  <2>3. t[i + 1] = Wrap(t[i] + EncodedSize(d, i, t[i]))
    BY <1>3, <1>5, <2>1
  <2>4. t[i + 1] = f[i + 1]
    BY <1>2, <2>1, <2>2, <2>3
  <2>. QED
    BY <2>4
<1>8. \A i \in 0 .. TailCount : i \in S
  <2>. HIDE DEF S
  <2>. QED
    BY <1>6, <1>7, SchemaFacts, RangeInduction
<1>9. ASSUME NEW i \in 1 .. (TailCount + 1) PROVE t[i] = f[i]
  <2>1. i - 1 \in 0 .. TailCount /\ (i - 1) + 1 = i
    BY SchemaFacts
  <2>. QED
    BY <1>8, <2>1
<1>. QED
  BY <1>9 DEF t

\* A walk that succeeds has placed every tail.
LEMMA WalkedIsPlaced ==
    ASSUME NEW n \in Nat, HeaderSize <= n, NEW d \in [0 .. (n - 1) -> Byte], NEW full \in BOOLEAN,
           WalkTails(d, n, full).ok
    PROVE  \E f : Places(d, n, full, f)
<1>. DEFINE w == WalkTo(d, n, full)
            f == [i \in 1 .. (TailCount + 1) |-> w[i - 1].value]
<1>1. /\ w[0] = Ok(HeaderSize)
      /\ \A i \in TailId :
           w[i] = IF w[i - 1].ok THEN PlainTail(d, n, i, w[i - 1].value, full) ELSE w[i - 1]
      /\ \A i \in 0 .. TailCount : w[i] \in Reached(n, i)
  <2>. HIDE DEF w
  <2>. QED
    BY WalkRuns DEF w
<1>2. w[TailCount].ok
  BY DEF WalkTails
<1>. HIDE DEF w
<1>3. ASSUME NEW k \in 0 .. TailCount PROVE w[k].ok
  <2>. SUFFICES ASSUME ~w[k].ok PROVE FALSE
    OBVIOUS
  <2>. DEFINE S == {i \in 0 .. TailCount : k <= i => ~w[i].ok}
  <2>1. 0 \in S
    <3>1. k <= 0 => k = 0
      OBVIOUS
    <3>. QED
      BY <3>1, SchemaFacts
  <2>2. ASSUME NEW i \in 1 .. TailCount, i - 1 \in S PROVE i \in S
    <3>1. CASE k <= i - 1
      BY <1>1, <2>2, <3>1 DEF TailId
    <3>2. CASE ~(k <= i - 1)
      <4>1. k <= i => k = i
        BY <3>2
      <4>. QED
        BY <4>1
    <3>. QED
      BY <3>1, <3>2
  <2>3. \A i \in 0 .. TailCount : i \in S
    <3>. HIDE DEF S
    <3>. QED
      BY <2>1, <2>2, SchemaFacts, RangeInduction
  <2>4. TailCount \in S /\ k <= TailCount
    BY <2>3, SchemaFacts
  <2>. QED
    BY <1>2, <2>4
<1>4. f[1] = HeaderSize
  <2>1. 1 \in 1 .. (TailCount + 1) /\ 1 - 1 = 0
    BY SchemaFacts
  <2>2. Ok(HeaderSize).value = HeaderSize
    BY SchemaFacts, ResultsOf
  <2>. QED
    BY <1>1, <2>1, <2>2
<1>5. ASSUME NEW i \in TailId
      PROVE  TailAccepted(d, n, i, f[i], full) /\ f[i + 1] = TailEnd(d, i, f[i])
  <2>1. /\ i \in 1 .. (TailCount + 1) /\ i + 1 \in 1 .. (TailCount + 1) /\ (i + 1) - 1 = i
        /\ i - 1 \in 0 .. TailCount /\ i \in 0 .. TailCount
    BY SchemaFacts
  <2>2. f[i] = w[i - 1].value /\ f[i + 1] = w[i].value
    BY <2>1
  <2>. HIDE DEF f
  <2>3. f[i] \in Nat /\ f[i] <= n /\ f[i] <= Capacity[i - 1]
    BY <1>1, <1>3, <2>1, <2>2, ResultsOf DEF Reached
  <2>4. w[i] = PlainTail(d, n, i, f[i], full) /\ w[i].ok
    BY <1>1, <1>3, <2>1, <2>2
  <2>5. TailAccepted(d, n, i, f[i], full) /\ w[i] = Ok(TailEnd(d, i, f[i]))
    BY <2>3, <2>4, PlainTailResult
  <2>6. TailEnd(d, i, f[i]) \in Nat
    BY <2>3, <2>5, AcceptedTail
  <2>. QED
    BY <2>2, <2>5, <2>6, ResultsOf
<1>6. Places(d, n, full, f)
  <2>. HIDE DEF f
  <2>. QED
    BY <1>4, <1>5 DEF Places
<1>. QED
  BY <1>6

\* The unchecked replay is licensed by either walk: once it succeeds, the
\* offsets place every tail inside the buffer, and the last of them is where the
\* walk ended (compact.rs:1157-1201, 3063-3084).
THEOREM AcceptedReplay ==
    ASSUME NEW n \in Nat, HeaderSize <= n, NEW d \in [0 .. (n - 1) -> Byte], NEW full \in BOOLEAN,
           WalkTails(d, n, full).ok
    PROVE  /\ Places(d, n, full, TailOffset(d))
           /\ \A i \in 1 .. (TailCount + 1) :
                /\ TailOffset(d)[i] \in Nat /\ HeaderSize <= TailOffset(d)[i]
                /\ TailOffset(d)[i] <= n /\ TailOffset(d)[i] <= Capacity[i - 1]
           /\ WalkTails(d, n, full) = Ok(EncodedLen(d))
<1>1. PICK f : Places(d, n, full, f)
  BY WalkedIsPlaced
<1>2. \A i \in 1 .. (TailCount + 1) : TailOffset(d)[i] = f[i]
  BY <1>1, PlacedIsReplayed
<1>3. Places(d, n, full, TailOffset(d))
  <2>1. \A i \in TailId : i \in 1 .. (TailCount + 1) /\ i + 1 \in 1 .. (TailCount + 1)
    BY SchemaFacts
  <2>2. 1 \in 1 .. (TailCount + 1)
    BY SchemaFacts
  <2>. QED
    BY <1>1, <1>2, <2>1, <2>2 DEF Places
<1>4. WalkTails(d, n, full) = Ok(TailOffset(d)[TailCount + 1])
  BY <1>3, PlacedIsWalked, SchemaFacts DEF WalkTails
<1>. QED
  BY <1>3, <1>4, PlacesBounded DEF EncodedLen

\* An allocation length is at least a header and fits usize.
LEMMA StorageLen ==
    ASSUME NEW n \in Nat, ValidateStorageLen(n).ok
    PROVE  HeaderSize <= n /\ n <= MaxSize /\ n <= UsizeMax
<1>1. ~(n < HeaderSize) /\ ~(n > MaxSize)
  BY DEF ValidateStorageLen, MinSize, Err
<1>2. MaxSize \in Nat /\ MaxSize <= UsizeMax /\ HeaderSize \in Nat /\ UsizeMax \in Nat
  BY CapacityOrder, SchemaFacts
<1>. QED
  BY <1>1, <1>2

\* What the walk of `validate` accepts that of `validate_layout` accepts, ending
\* at the same offset.
LEMMA FullImpliesLayout ==
    ASSUME NEW n \in Nat, HeaderSize <= n, NEW d \in [0 .. (n - 1) -> Byte],
           WalkTails(d, n, TRUE).ok
    PROVE  WalkTails(d, n, FALSE) = WalkTails(d, n, TRUE)
<1>1. Places(d, n, TRUE, TailOffset(d)) /\ WalkTails(d, n, TRUE) = Ok(EncodedLen(d))
  BY AcceptedReplay
<1>2. Places(d, n, FALSE, TailOffset(d))
  BY <1>1 DEF Places, TailAccepted
<1>3. TailCount \in 0 .. TailCount /\ FALSE \in BOOLEAN
  BY SchemaFacts
<1>4. WalkTo(d, n, FALSE)[TailCount] = Ok(TailOffset(d)[TailCount + 1])
  <2>. DEFINE f == TailOffset(d)
  <2>1. Places(d, n, FALSE, f)
    BY <1>2
  <2>. HIDE DEF f
  <2>2. \A i \in 0 .. TailCount : WalkTo(d, n, FALSE)[i] = Ok(f[i + 1])
    BY <1>3, <2>1, PlacedIsWalked
  <2>3. WalkTo(d, n, FALSE)[TailCount] = Ok(f[TailCount + 1])
    BY <1>3, <2>2
  <2>. QED
    BY <2>3 DEF f
<1>. QED
  BY <1>1, <1>4 DEF EncodedLen, WalkTails

\* The two walks are one up to the first payload the semantic walk refuses.
LEMMA FullDiffersInPayloads ==
    ASSUME NEW n \in Nat, HeaderSize <= n, NEW d \in [0 .. (n - 1) -> Byte]
    PROVE  \/ WalkTails(d, n, TRUE) = WalkTails(d, n, FALSE)
           \/ \E i \in TailId : WalkTails(d, n, TRUE) = Err(Tails[i].error)
<1>. DEFINE a == WalkTo(d, n, TRUE)
            b == WalkTo(d, n, FALSE)
            S == {i \in 0 .. TailCount :
                     a[i] = b[i] \/ \E k \in TailId : a[i] = Err(Tails[k].error)}
<1>1. /\ a[0] = b[0]
      /\ \A i \in TailId :
           /\ a[i] = IF a[i - 1].ok THEN PlainTail(d, n, i, a[i - 1].value, TRUE) ELSE a[i - 1]
           /\ b[i] = IF b[i - 1].ok THEN PlainTail(d, n, i, b[i - 1].value, FALSE) ELSE b[i - 1]
  <2>. HIDE DEF a, b
  <2>1. /\ a[0] = Ok(HeaderSize)
        /\ \A i \in TailId :
             a[i] = IF a[i - 1].ok THEN PlainTail(d, n, i, a[i - 1].value, TRUE) ELSE a[i - 1]
    BY WalkRuns DEF a
  <2>2. /\ b[0] = Ok(HeaderSize)
        /\ \A i \in TailId :
             b[i] = IF b[i - 1].ok THEN PlainTail(d, n, i, b[i - 1].value, FALSE) ELSE b[i - 1]
    BY WalkRuns DEF b
  <2>. QED
    BY <2>1, <2>2
<1>. HIDE DEF a, b
<1>2. 0 \in S
  BY <1>1, SchemaFacts
<1>3. ASSUME NEW i \in 1 .. TailCount, i - 1 \in S PROVE i \in S
  <2>1. i \in TailId
    BY DEF TailId
  <2>2. i \in 0 .. TailCount /\ i - 1 \in 0 .. TailCount
    BY SchemaFacts
  <2>3. a[i - 1] = b[i - 1] \/ \E k \in TailId : a[i - 1] = Err(Tails[k].error)
    BY <1>3
  <2>4. a[i] = b[i] \/ \E k \in TailId : a[i] = Err(Tails[k].error)
    <3>1. CASE \E k \in TailId : a[i - 1] = Err(Tails[k].error)
      <4>1. PICK k \in TailId : a[i - 1] = Err(Tails[k].error)
        BY <3>1
      <4>2. ~a[i - 1].ok
        BY <4>1 DEF Err
      <4>3. a[i] = Err(Tails[k].error)
        BY <1>1, <2>1, <4>1, <4>2
      <4>. QED
        BY <4>3
    <3>2. CASE a[i - 1] = b[i - 1] /\ ~a[i - 1].ok
      BY <1>1, <2>1, <3>2
    <3>3. CASE a[i - 1] = b[i - 1] /\ a[i - 1].ok
      <4>. DEFINE off == a[i - 1].value
      <4>1. \/ PlainTail(d, n, i, off, TRUE) = PlainTail(d, n, i, off, FALSE)
            \/ PlainTail(d, n, i, off, TRUE) = Err(Tails[i].error)
        BY DEF PlainTail, PlainPayload
      <4>2. a[i] = PlainTail(d, n, i, off, TRUE) /\ b[i] = PlainTail(d, n, i, off, FALSE)
        BY ZenonT(60), <1>1, <2>1, <3>3
      <4>. QED
        BY <2>1, <4>1, <4>2
    <3>. QED
      BY <2>3, <3>1, <3>2, <3>3
  <2>. QED
    BY <2>2, <2>4
<1>4. \A i \in 0 .. TailCount : i \in S
  <2>. HIDE DEF S
  <2>. QED
    BY <1>2, <1>3, SchemaFacts, RangeInduction
<1>5. TailCount \in S
  BY <1>4, SchemaFacts
<1>. QED
  BY <1>5 DEF WalkTails, a, b

-----------------------------------------------------------------------------
(* The granularity of an allocation.                                       *)

\* d divides a.
Divides(d, a) == \E q \in Nat : a = q * d

\* Every number divides itself and zero.
LEMMA DividesSelf ==
    ASSUME NEW a \in Nat
    PROVE  Divides(a, a) /\ Divides(a, 0) /\ Divides(1, a)
<1>1. a = 1 * a /\ 0 = 0 * a /\ a = a * 1 /\ 1 \in Nat /\ 0 \in Nat
  OBVIOUS
<1>. QED
  BY <1>1 DEF Divides

\* A divisor of two numbers divides their sum, and a divisor of a sum and of one
\* of its terms divides the other.
LEMMA DividesSum ==
    ASSUME NEW c \in Nat, NEW a \in Nat, NEW b \in Nat, Divides(c, a)
    PROVE  /\ Divides(c, b) => Divides(c, a + b)
           /\ Divides(c, a + b) => Divides(c, b)
<1>1. PICK p \in Nat : a = p * c
  BY DEF Divides
<1>2. ASSUME Divides(c, b) PROVE Divides(c, a + b)
  <2>1. PICK q \in Nat : b = q * c
    BY <1>2 DEF Divides
  <2>2. a + b = (p + q) * c /\ p + q \in Nat
    BY <1>1, <2>1
  <2>. QED
    BY <2>2 DEF Divides
<1>3. ASSUME Divides(c, a + b) PROVE Divides(c, b)
  <2>1. PICK q \in Nat : a + b = q * c
    BY <1>3 DEF Divides
  <2>2. CASE q >= p
    <3>1. b = (q - p) * c /\ q - p \in Nat
      BY <1>1, <2>1, <2>2
    <3>. QED
      BY <3>1 DEF Divides
  <2>3. CASE ~(q >= p)
    <3>1. q * c <= p * c
      BY <2>3, ProductsGrow
    <3>2. b = 0
      BY <1>1, <2>1, <3>1
    <3>. QED
      BY <3>2, DividesSelf
  <2>. QED
    BY <2>2, <2>3
<1>. QED
  BY <1>2, <1>3

\* A divisor divides every multiple, and what divides it divides those too.
LEMMA DividesMultiple ==
    ASSUME NEW c \in Nat, NEW a \in Nat, NEW b \in Nat, Divides(c, a)
    PROVE  Divides(c, b * a) /\ (Divides(a, b) => Divides(c, b))
<1>1. PICK p \in Nat : a = p * c
  BY DEF Divides
<1>2. \A q \in Nat : q * a = (q * p) * c /\ q * p \in Nat
  <2>1. \A q \in Nat : q * (p * c) = (q * p) * c /\ q * p \in Nat
    OBVIOUS
  <2>. QED
    BY <1>1, <2>1
<1>3. \A q \in Nat : Divides(c, q * a)
  BY <1>2 DEF Divides
<1>. QED
  BY <1>3 DEF Divides

\* Numbers that divide each other are equal.
LEMMA DividesBoth ==
    ASSUME NEW a \in Nat, NEW b \in Nat, Divides(a, b), Divides(b, a)
    PROVE  a = b
<1>1. PICK p \in Nat : b = p * a
  BY DEF Divides
<1>2. PICK q \in Nat : a = q * b
  BY DEF Divides
<1>3. CASE p = 0 \/ q = 0
  <2>1. 0 * a = 0 /\ 0 * b = 0 /\ p * 0 = 0 /\ q * 0 = 0
    OBVIOUS
  <2>2. CASE p = 0
    <3>1. b = 0
      BY <1>1, <2>1, <2>2
    <3>. QED
      BY <1>2, <2>1, <3>1
  <2>3. CASE q = 0
    <3>1. a = 0
      BY <1>2, <2>1, <2>3
    <3>. QED
      BY <1>1, <2>1, <3>1
  <2>. QED
    BY <1>3, <2>2, <2>3
<1>4. CASE p >= 1 /\ q >= 1
  <2>1. 1 * a <= p * a /\ 1 * b <= q * b /\ 1 * a = a /\ 1 * b = b
    BY <1>4, ProductsGrow
  <2>. QED
    BY <1>1, <1>2, <2>1
<1>. QED
  BY <1>3, <1>4

\* Division with a remainder.
LEMMA Remainder ==
    ASSUME NEW l \in Nat, NEW r \in Nat, r # 0
    PROVE  /\ l % r \in Nat /\ l % r < r
           /\ \E q \in Nat : l = q * r + (l % r)
<1>1. l % r \in Nat /\ l % r < r
  OBVIOUS
<1>2. l = (l \div r) * r + (l % r)
  OBVIOUS
<1>3. l \div r \in Nat
  OBVIOUS
<1>4. \E q \in Nat : l = q * r + (l % r)
  <2>. WITNESS l \div r \in Nat
  <2>. QED
    BY <1>2
<1>. QED
  BY <1>1, <1>4, Zenon

\* A multiple leaves no remainder.
LEMMA NoRemainder ==
    ASSUME NEW d \in Nat, d # 0, NEW a \in Nat, Divides(d, a)
    PROVE  a % d = 0
<1>1. PICK p \in Nat : a = p * d
  BY DEF Divides
<1>2. 0 \in Nat /\ 0 < d /\ a = p * d + 0
  BY <1>1
<1>. QED
  BY <1>2

\* d is the greatest common divisor of l and r.
IsGcd(d, l, r) ==
    /\ Divides(d, l) /\ Divides(d, r)
    /\ \A c \in Nat : Divides(c, l) /\ Divides(c, r) => Divides(c, d)

\* One step of Euclid's loop keeps the common divisors.
LEMMA EuclidStep ==
    ASSUME NEW l \in Nat, NEW r \in Nat, r # 0, NEW d \in Nat
    PROVE  IsGcd(d, l, r) <=> IsGcd(d, r, l % r)
<1>. DEFINE m == l % r
<1>1. m \in Nat /\ \E q \in Nat : l = q * r + m
  BY Remainder
<1>. HIDE DEF m
<1>2. PICK q \in Nat : l = q * r + m
  BY <1>1
<1>3. ASSUME NEW c \in Nat, Divides(c, r)
      PROVE  Divides(c, l) <=> Divides(c, m)
  <2>1. m \in Nat /\ l = q * r + m
    BY <1>1, <1>2
  <2>2. Divides(c, q * r)
    BY <1>3, DividesMultiple
  <2>. DEFINE t == q * r
  <2>3. t \in Nat /\ l = t + m /\ Divides(c, t)
    <3>1. t \in Nat
      OBVIOUS
    <3>. QED
      BY <2>1, <2>2, <3>1
  <2>. HIDE DEF t
  <2>. QED
    BY ZenonT(60), <2>1, <2>3, DividesSum
<1>4. IsGcd(d, l, r) <=> IsGcd(d, r, m)
  BY <1>3 DEF IsGcd
<1>. QED
  BY <1>4 DEF m

\* There is one greatest common divisor.
LEMMA GcdIsUnique ==
    ASSUME NEW l \in Nat, NEW r \in Nat, NEW d \in Nat, NEW e \in Nat, IsGcd(d, l, r), IsGcd(e, l, r)
    PROVE  d = e
  BY DividesBoth DEF IsGcd

\* There is a greatest common divisor: Euclid's loop ends.
LEMMA GcdExists ==
    ASSUME NEW n \in Nat
    PROVE  \A l \in Nat : \E d \in Nat : IsGcd(d, l, n)
<1>. DEFINE S == {m \in 0 .. n : \A r \in 0 .. m : \A l \in Nat : \E d \in Nat : IsGcd(d, l, r)}
<1>1. \A l \in Nat : IsGcd(l, l, 0)
  BY DividesSelf DEF IsGcd
<1>2. 0 \in S
  <2>1. \A r \in 0 .. 0 : r = 0
    OBVIOUS
  <2>. QED
    BY <1>1, <2>1
<1>3. ASSUME NEW m \in 1 .. n, m - 1 \in S PROVE m \in S
  <2>1. ASSUME NEW r \in 0 .. m, NEW l \in Nat PROVE \E d \in Nat : IsGcd(d, l, r)
    <3>1. CASE r = 0
      BY <1>1, <3>1
    <3>2. CASE r # 0
      <4>1. l % r \in Nat /\ l % r < r /\ r \in Nat
        BY <3>2, Remainder
      <4>2. l % r \in 0 .. (m - 1)
        BY <4>1
      <4>3. PICK d \in Nat : IsGcd(d, r, l % r)
        BY <1>3, <4>1, <4>2
      <4>4. IsGcd(d, l, r)
        BY <3>2, <4>1, <4>3, EuclidStep
      <4>. QED
        BY <4>4
    <3>. QED
      BY <3>1, <3>2
  <2>. QED
    BY <2>1
<1>4. \A m \in 0 .. n : m \in S
  <2>. HIDE DEF S
  <2>. QED
    BY <1>2, <1>3, RangeInduction
<1>5. n \in S /\ n \in 0 .. n
  BY <1>4
<1>. QED
  BY <1>5

\* Euclid's loop computes the greatest common divisor.
LEMMA GcdIsGcd ==
    ASSUME NEW l \in Nat, NEW r \in Nat
    PROVE  Gcd[<<l, r>>] \in Nat /\ IsGcd(Gcd[<<l, r>>], l, r)
<1>. DEFINE The(a, b) == CHOOSE d \in Nat : IsGcd(d, a, b)
            f == [pair \in Nat \X Nat |-> The(pair[1], pair[2])]
            Rec(h) == [pair \in Nat \X Nat |->
                          IF pair[2] = 0 THEN pair[1] ELSE h[<<pair[2], pair[1] % pair[2]>>]]
<1>1. \A a, b \in Nat : The(a, b) \in Nat /\ IsGcd(The(a, b), a, b)
  BY GcdExists
<1>. HIDE DEF The
<1>2. \A a \in Nat : The(a, 0) = a
  <2>1. \A a \in Nat : IsGcd(a, a, 0)
    BY DividesSelf DEF IsGcd
  <2>. QED
    BY <1>1, <2>1, GcdIsUnique
<1>3. ASSUME NEW a \in Nat, NEW b \in Nat, b # 0 PROVE The(a, b) = The(b, a % b)
  <2>1. a % b \in Nat
    BY <1>3, Remainder
  <2>2. IsGcd(The(b, a % b), a, b) /\ The(b, a % b) \in Nat
    BY <1>1, <1>3, <2>1, EuclidStep
  <2>. QED
    BY <1>1, <2>2, GcdIsUnique
<1>4. f = Rec(f)
  <2>1. ASSUME NEW pair \in Nat \X Nat
        PROVE  The(pair[1], pair[2]) =
                 IF pair[2] = 0 THEN pair[1] ELSE f[<<pair[2], pair[1] % pair[2]>>]
    <3>. DEFINE a == pair[1]
                b == pair[2]
    <3>1. a \in Nat /\ b \in Nat
      OBVIOUS
    <3>2. CASE b = 0
      BY <1>2, <3>1, <3>2
    <3>3. CASE b # 0
      <4>1. a % b \in Nat
        BY <3>1, <3>3, Remainder
      <4>2. f[<<b, a % b>>] = The(b, a % b)
        BY <3>1, <4>1
      <4>. QED
        BY <1>3, <3>1, <3>3, <4>2
    <3>. QED
      BY <3>2, <3>3
  <2>. QED
    BY <2>1
<1>5. Gcd = Rec(Gcd)
  <2>. HIDE DEF f
  <2>. QED
    BY <1>4, Zenon DEF Gcd
<1>. DEFINE S == {m \in 0 .. r : \A b \in 0 .. m : \A a \in Nat : Gcd[<<a, b>>] = The(a, b)}
<1>6. \A a, b \in Nat : Gcd[<<a, b>>] = IF b = 0 THEN a ELSE Gcd[<<b, a % b>>]
  <2>. DEFINE h == Gcd
  <2>. SUFFICES \A a, b \in Nat : h[<<a, b>>] = IF b = 0 THEN a ELSE h[<<b, a % b>>]
    OBVIOUS
  <2>. HIDE DEF h
  <2>1. h = Rec(h)
    BY <1>5 DEF h
  <2>2. \A a, b \in Nat : Rec(h)[<<a, b>>] = IF b = 0 THEN a ELSE h[<<b, a % b>>]
    OBVIOUS
  <2>. HIDE DEF Rec
  <2>. QED
    BY <2>1, <2>2
<1>7. 0 \in S
  <2>1. \A b \in 0 .. 0 : b = 0
    OBVIOUS
  <2>2. \A a \in Nat : Gcd[<<a, 0>>] = The(a, 0)
    BY <1>2, <1>6
  <2>3. 0 \in 0 .. r
    OBVIOUS
  <2>. QED
    BY <2>1, <2>2, <2>3
<1>8. ASSUME NEW m \in 1 .. r, m - 1 \in S PROVE m \in S
  <2>1. ASSUME NEW b \in 0 .. m, NEW a \in Nat PROVE Gcd[<<a, b>>] = The(a, b)
    <3>1. CASE b = 0
      BY <1>2, <1>6, <3>1
    <3>2. CASE b # 0
      <4>1. a % b \in Nat /\ a % b < b /\ b \in Nat
        BY <3>2, Remainder
      <4>2. a % b \in 0 .. (m - 1)
        BY <4>1
      <4>3. Gcd[<<b, a % b>>] = The(b, a % b)
        BY <1>8, <4>1, <4>2
      <4>. QED
        BY <1>3, <1>6, <3>2, <4>1, <4>3
    <3>. QED
      BY <3>1, <3>2
  <2>. QED
    BY <2>1
<1>9. \A m \in 0 .. r : m \in S
  <2>. HIDE DEF S
  <2>. QED
    BY <1>7, <1>8, RangeInduction
<1>10. r \in S /\ r \in 0 .. r
  BY <1>9
<1>. QED
  BY <1>1, <1>10

\* Granule is what its recursion says, and a number.
LEMMA GranuleRuns ==
    /\ Granule[0] = 0
    /\ \A i \in 0 .. TailCount : Granule[i] \in Nat
    /\ \A i \in TailId :
         Granule[i] = LET withElem == Gcd[<<Granule[i - 1], Tails[i].size>>]
                      IN  IF Tails[i].opt THEN Gcd[<<withElem, Tails[i].pfx>>] ELSE withElem
<1>. DEFINE V == [i \in 0 .. TailCount |-> Nat]
            Step(i, x) == LET withElem == Gcd[<<x, Tails[i].size>>]
                          IN  IF Tails[i].opt THEN Gcd[<<withElem, Tails[i].pfx>>] ELSE withElem
            G == [p \in TailId \X Nat |-> Step(p[1], p[2])]
            Rec(f) == [i \in 0 .. TailCount |->
                         IF i = 0 THEN 0
                         ELSE LET withElem == Gcd[<<f[i - 1], Tails[i].size>>]
                              IN  IF Tails[i].opt THEN Gcd[<<withElem, Tails[i].pfx>>] ELSE withElem]
<1>1. ASSUME NEW i \in TailId, NEW x \in Nat PROVE Step(i, x) \in Nat
  BY GcdIsGcd, TailFacts
<1>2. \A i \in TailId : \A x \in Nat : G[<<i, x>>] = Step(i, x)
  OBVIOUS
<1>3. /\ TailCount \in Nat /\ TailId = 1 .. TailCount
      /\ \A i \in TailId : i \in 0 .. TailCount /\ i - 1 \in 0 .. TailCount /\ i # 0
  BY SchemaFacts DEF TailId
<1>4. PICK f : Solves(TailCount, 0, G, V, f)
  <2>1. \A i \in 0 .. TailCount : V[i] = Nat
    OBVIOUS
  <2>. HIDE DEF V, G, Step
  <2>2. 0 \in V[0] /\ \A i \in 1 .. TailCount : \A x \in V[i - 1] : G[<<i, x>>] \in V[i]
    <3>1. 0 \in V[0]
      BY <1>3, <2>1
    <3>2. ASSUME NEW i \in TailId, NEW x \in V[i - 1] PROVE G[<<i, x>>] \in V[i]
      <4>1. i \in 0 .. TailCount /\ i - 1 \in 0 .. TailCount
        BY <1>3
      <4>2. x \in Nat /\ V[i] = Nat
        BY <2>1, <3>2, <4>1
      <4>3. G[<<i, x>>] = Step(i, x) /\ Step(i, x) \in Nat
        BY <1>1, <1>2, <4>2
      <4>. QED
        BY <4>2, <4>3
    <3>. QED
      BY <1>3, <3>1, <3>2
  <2>. QED
    BY <1>3, <2>2, TypedRecursion
<1>5. /\ f = [i \in 0 .. TailCount |-> f[i]]
      /\ f[0] = 0
      /\ \A i \in 0 .. TailCount : f[i] \in Nat
      /\ \A i \in TailId : f[i] = Step(i, f[i - 1])
  <2>1. \A i \in 0 .. TailCount : V[i] = Nat
    OBVIOUS
  <2>. HIDE DEF V, G, Step
  <2>2. \A i \in 0 .. TailCount : f[i] \in Nat
    BY <1>4, <2>1 DEF Solves
  <2>3. \A i \in TailId : f[i] = Step(i, f[i - 1])
    BY <1>2, <1>3, <1>4, <2>2 DEF Solves
  <2>. QED
    BY <1>4, <2>2, <2>3 DEF Solves
<1>6. \A h : /\ Rec(h)[0] = 0 /\ Rec(h) = [i \in 0 .. TailCount |-> Rec(h)[i]]
             /\ \A i \in TailId : Rec(h)[i] = Step(i, h[i - 1])
  <2>1. \A h : Rec(h)[0] = 0 /\ Rec(h) = [i \in 0 .. TailCount |-> Rec(h)[i]]
    BY <1>3
  <2>2. ASSUME NEW h, NEW i \in TailId PROVE Rec(h)[i] = Step(i, h[i - 1])
    <3>1. i \in 0 .. TailCount /\ i # 0
      BY <1>3
    <3>. QED
      BY <3>1
  <2>. HIDE DEF Rec, Step
  <2>. QED
    BY <2>1, <2>2
<1>7. f = Rec(f)
  <2>. HIDE DEF Rec, Step
  <2>1. \A i \in TailId : f[i] = Rec(f)[i]
    BY <1>5, <1>6
  <2>2. f[0] = Rec(f)[0]
    BY <1>5, <1>6
  <2>3. \A i \in 0 .. TailCount : f[i] = Rec(f)[i]
    BY <1>3, <2>1, <2>2
  <2>. QED
    BY <1>5, <1>6, <2>3
<1>8. Granule = Rec(Granule)
  BY <1>7, Zenon DEF Granule
<1>. DEFINE S == {i \in 0 .. TailCount : Granule[i] \in Nat}
<1>9. \A i \in 0 .. TailCount : i \in S
  <2>. HIDE DEF Rec, Step
  <2>1. 0 \in S
    BY <1>3, <1>6, <1>8
  <2>2. ASSUME NEW i \in 1 .. TailCount, i - 1 \in S PROVE i \in S
    BY <1>1, <1>3, <1>6, <1>8, <2>2
  <2>. HIDE DEF S
  <2>. QED
    BY <1>3, <2>1, <2>2, RangeInduction
<1>. HIDE DEF Rec
<1>. QED
  BY <1>6, <1>8, <1>9

\* The alignment divides every granule a tail can grow by.
LEMMA AlignmentDivides ==
    /\ TailAlignment \in Nat /\ TailAlignment # 0
    /\ \A i \in TailId : /\ Divides(TailAlignment, Tails[i].size)
                         /\ Tails[i].opt => Divides(TailAlignment, Tails[i].pfx)
<1>. DEFINE Whole(k, i) == /\ Divides(Granule[k], Tails[i].size)
                           /\ Tails[i].opt => Divides(Granule[k], Tails[i].pfx)
            S == {m \in 0 .. TailCount : \A i \in 1 .. m : Whole(m, i)}
<1>1. /\ TailCount \in Nat /\ TailId = 1 .. TailCount
      /\ \A i \in TailId : i \in 0 .. TailCount /\ i - 1 \in 0 .. TailCount
  BY SchemaFacts DEF TailId
<1>2. 0 \in S
  <2>1. \A i \in 1 .. 0 : FALSE
    OBVIOUS
  <2>. QED
    BY <1>1, <2>1
<1>3. ASSUME NEW m \in 1 .. TailCount, m - 1 \in S PROVE m \in S
  <2>. DEFINE g == Granule[m - 1]
              e == Gcd[<<g, Tails[m].size>>]
              a == Granule[m]
  <2>1. g \in Nat /\ a \in Nat /\ a = IF Tails[m].opt THEN Gcd[<<e, Tails[m].pfx>>] ELSE e
    BY <1>1, GranuleRuns
  <2>2. Tails[m].size \in Nat /\ Tails[m].pfx \in Nat /\ Tails[m].opt \in BOOLEAN
    BY <1>1, TailFacts
  <2>3. e \in Nat /\ Divides(e, g) /\ Divides(e, Tails[m].size)
    BY <2>1, <2>2, GcdIsGcd DEF IsGcd
  <2>4. Divides(a, e) /\ (Tails[m].opt => Divides(a, Tails[m].pfx))
    <3>. HIDE DEF e, a
    <3>1. CASE Tails[m].opt
      BY <2>1, <2>2, <2>3, <3>1, GcdIsGcd DEF IsGcd
    <3>2. CASE ~Tails[m].opt
      BY <2>1, <2>3, <3>2, DividesSelf
    <3>. QED
      BY <3>1, <3>2
  <2>5. ASSUME NEW b \in Nat, Divides(e, b) PROVE Divides(a, b)
    <3>. HIDE DEF e, a
    <3>. QED
      BY <2>1, <2>3, <2>4, <2>5, DividesMultiple
  <2>6. ASSUME NEW b \in Nat, Divides(g, b) PROVE Divides(a, b)
    <3>1. Divides(e, b)
      <4>. HIDE DEF e, g
      <4>. QED
        BY <2>1, <2>3, <2>6, DividesMultiple
    <3>. QED
      BY <2>5, <3>1
  <2>7. ASSUME NEW i \in 1 .. m PROVE Whole(m, i)
    <3>1. CASE i = m
      BY <2>2, <2>3, <2>4, <2>5, <3>1
    <3>2. CASE i # m
      <4>1. i \in 1 .. (m - 1) /\ i \in TailId
        BY <1>1, <3>2
      <4>2. Whole(m - 1, i)
        BY <1>3, <4>1
      <4>3. Tails[i].size \in Nat /\ Tails[i].pfx \in Nat
        BY <4>1, TailFacts
      <4>4. Divides(a, Tails[i].size)
        <5>. HIDE DEF a
        <5>. QED
          BY <2>6, <4>2, <4>3
      <4>5. Tails[i].opt => Divides(a, Tails[i].pfx)
        <5>. HIDE DEF a
        <5>. QED
          BY <2>6, <4>2, <4>3
      <4>. QED
        BY <4>4, <4>5
    <3>. QED
      BY <3>1, <3>2
  <2>8. m \in 0 .. TailCount
    BY <1>1
  <2>. QED
    BY <2>7, <2>8
<1>4. \A m \in 0 .. TailCount : m \in S
  <2>. HIDE DEF S
  <2>. QED
    BY <1>1, <1>2, <1>3, RangeInduction
<1>5. \A i \in TailId : Whole(TailCount, i)
  <2>1. TailCount \in 0 .. TailCount
    BY <1>1
  <2>. QED
    BY <1>1, <1>4, <2>1
<1>6. Granule[TailCount] \in Nat
  BY <1>1, GranuleRuns
<1>7. CASE Granule[TailCount] = 0
  <2>1. TailAlignment = 1
    BY <1>7 DEF TailAlignment
  <2>. QED
    BY <2>1, TailFacts, DividesSelf
<1>8. CASE Granule[TailCount] # 0
  <2>1. TailAlignment = Granule[TailCount]
    BY <1>8 DEF TailAlignment
  <2>2. ASSUME NEW i \in TailId
        PROVE  /\ Divides(TailAlignment, Tails[i].size)
               /\ Tails[i].opt => Divides(TailAlignment, Tails[i].pfx)
    <3>1. Whole(TailCount, i)
      BY <1>5
    <3>. QED
      BY <2>1, <3>1
  <2>3. TailAlignment \in Nat /\ TailAlignment # 0
    BY <1>6, <1>8, <2>1
  <2>. QED
    BY <2>2, <2>3
<1>. QED
  BY <1>7, <1>8

\* Where the tails are placed is a whole number of granules behind the header.
LEMMA PlacesAreGranular ==
    ASSUME NEW n \in Nat, HeaderSize <= n, NEW d \in [0 .. (n - 1) -> Byte], NEW full,
           NEW f, Places(d, n, full, f)
    PROVE  \A i \in 0 .. TailCount : /\ f[i + 1] - HeaderSize \in Nat
                                     /\ Divides(TailAlignment, f[i + 1] - HeaderSize)
<1>. DEFINE S == {i \in 0 .. TailCount : Divides(TailAlignment, f[i + 1] - HeaderSize)}
<1>1. \A i \in 0 .. TailCount : f[i + 1] \in Nat /\ f[i + 1] - HeaderSize \in Nat /\ f[i + 1] <= n
  <2>1. ASSUME NEW i \in 0 .. TailCount
        PROVE  f[i + 1] \in Nat /\ f[i + 1] - HeaderSize \in Nat /\ f[i + 1] <= n
    <3>1. i + 1 \in 1 .. (TailCount + 1)
      BY SchemaFacts
    <3>2. f[i + 1] \in Nat /\ HeaderSize <= f[i + 1] /\ f[i + 1] <= n
      BY <3>1, PlacesBounded
    <3>. QED
      BY <3>2, SchemaFacts
  <2>. QED
    BY <2>1
<1>2. 0 \in S
  <2>1. f[0 + 1] = HeaderSize /\ HeaderSize - HeaderSize = 0
    BY SchemaFacts DEF Places
  <2>2. Divides(TailAlignment, 0)
    BY AlignmentDivides, DividesSelf
  <2>. QED
    BY <2>1, <2>2, SchemaFacts
<1>3. ASSUME NEW i \in 1 .. TailCount, i - 1 \in S PROVE i \in S
  <2>. DEFINE t == Tails[i]
              count == StoredCount(d, i, f[i])
  <2>1. i \in TailId /\ (i - 1) + 1 = i /\ i - 1 \in 0 .. TailCount /\ i \in 0 .. TailCount
    BY SchemaFacts DEF TailId
  <2>2. /\ f[i] \in Nat /\ f[i] <= n /\ f[i] - HeaderSize \in Nat
        /\ f[i + 1] \in Nat /\ f[i + 1] - HeaderSize \in Nat
        /\ Divides(TailAlignment, f[i] - HeaderSize)
    BY <1>1, <1>3, <2>1
  <2>3. TailAccepted(d, n, i, f[i], full) /\ f[i + 1] = TailEnd(d, i, f[i])
    BY <2>1 DEF Places
  <2>4. /\ t.size \in Nat /\ t.pfx \in Nat /\ TailAlignment \in Nat /\ t.opt \in BOOLEAN
        /\ Divides(TailAlignment, t.size) /\ (t.opt => Divides(TailAlignment, t.pfx))
    BY <2>1, AlignmentDivides, TailFacts
  <2>5. CASE t.opt /\ d[Slot[i]] = 0
    <3>1. f[i + 1] = f[i]
      BY <2>3, <2>5 DEF TailEnd
    <3>. QED
      BY <2>1, <2>2, <3>1
  <2>6. CASE ~(t.opt /\ d[Slot[i]] = 0)
    <3>. DEFINE payload == count * t.size
                head == IF t.opt THEN t.pfx ELSE 0
    <3>1. count \in Nat /\ payload \in Nat /\ Divides(TailAlignment, payload)
      <4>1. t.opt => f[i] + t.pfx <= n
        BY <2>3, <2>6 DEF TailAccepted
      <4>2. count \in Nat /\ payload \in Nat
        BY <2>1, <2>2, <4>1, StoredCountNat
      <4>. HIDE DEF count
      <4>. QED
        BY <2>4, <4>2, DividesMultiple
    <3>2. head \in Nat /\ Divides(TailAlignment, head)
      BY <2>4, DividesSelf
    <3>3. f[i + 1] = f[i] + head + payload
      <4>1. f[i + 1] = PayloadFrom(i, f[i]) + payload
        BY <2>3, <2>6 DEF TailEnd
      <4>2. PayloadFrom(i, f[i]) = f[i] + head
        BY <2>2, <2>4 DEF PayloadFrom
      <4>. QED
        BY <4>1, <4>2
    <3>. HIDE DEF payload, head
    <3>4. f[i + 1] - HeaderSize = ((f[i] - HeaderSize) + head) + payload
      BY SMTT(60), <2>2, <3>1, <3>2, <3>3, SchemaFacts
    <3>5. Divides(TailAlignment, (f[i] - HeaderSize) + head)
      BY <2>2, <2>4, <3>2, DividesSum
    <3>6. Divides(TailAlignment, ((f[i] - HeaderSize) + head) + payload)
      <4>1. (f[i] - HeaderSize) + head \in Nat
        BY <2>2, <3>2
      <4>. QED
        BY <2>4, <3>1, <3>5, <4>1, DividesSum
    <3>. QED
      BY <2>1, <3>4, <3>6
  <2>. QED
    BY <2>5, <2>6
<1>4. \A i \in 0 .. TailCount : i \in S
  <2>. HIDE DEF S
  <2>. QED
    BY <1>2, <1>3, SchemaFacts, RangeInduction
<1>. QED
  BY <1>1, <1>4

\* The end of the last tail is itself an allocation size (compact.rs:2693-2722).
LEMMA PlacedLength ==
    ASSUME NEW n \in Nat, HeaderSize <= n, NEW d \in [0 .. (n - 1) -> Byte], NEW full,
           NEW f, Places(d, n, full, f)
    PROVE  ValidateStorageLen(f[TailCount + 1]).ok
<1>. DEFINE m == f[TailCount + 1]
<1>1. TailCount \in 0 .. TailCount /\ TailCount + 1 \in 1 .. (TailCount + 1) /\ (TailCount + 1) - 1 = TailCount
  BY SchemaFacts
<1>2. /\ m \in Nat /\ HeaderSize <= m /\ m <= Capacity[TailCount]
  BY <1>1, PlacesBounded
<1>3. m - HeaderSize \in Nat /\ Divides(TailAlignment, m - HeaderSize)
  BY <1>1, PlacesAreGranular
<1>4. TailAlignment \in Nat /\ TailAlignment # 0
  BY AlignmentDivides
<1>. HIDE DEF m
<1>5. (m - HeaderSize) % TailAlignment = 0
  BY <1>3, <1>4, NoRemainder
<1>6. MaxSize \in Nat /\ MaxSize = Capacity[TailCount]
  BY <1>1, CapacityOrder DEF MaxSize
<1>7. ~(m < HeaderSize) /\ ~(m > MaxSize)
  BY <1>2, <1>6, SchemaFacts
<1>8. ValidateStorageLen(m) = Ok(m)
  BY <1>4, <1>5, <1>7 DEF ValidateStorageLen, MinSize
<1>9. ValidateStorageLen(m).ok
  BY <1>8 DEF Ok
<1>. QED
  BY <1>9 DEF m

-----------------------------------------------------------------------------
(* Buffers that agree.                                                     *)

\* n bytes of d, from `off` on, are those of e from `to` on.
Alike(d, off, e, to, n) == \A k \in 0 .. (n - 1) : d[off + k] = e[to + k]

\* A prefix is a matter of its own bytes, wherever they are.
LEMMA SamePrefix ==
    ASSUME NEW d, NEW e, NEW off \in Nat, NEW to \in Nat, NEW pfx \in Width,
           Alike(d, off, e, to, pfx)
    PROVE  RawPrefix(d, off, pfx) = RawPrefix(e, to, pfx)
<1>1. pfx \in {1, 2, 4, 8} /\ off + 0 = off /\ to + 0 = to
  BY DEF Width
<1>2. CASE pfx = 1
  <2>1. d[off + 0] = e[to + 0]
    BY <1>2 DEF Alike
  <2>. QED
    BY <1>1, <1>2, <2>1 DEF RawPrefix
<1>3. CASE pfx = 2
  <2>1. d[off + 0] = e[to + 0] /\ d[off + 1] = e[to + 1]
    BY <1>3 DEF Alike
  <2>. QED
    BY <1>1, <1>3, <2>1 DEF RawPrefix, LePair
<1>4. CASE pfx = 4
  <2>1. off + 2 + 1 = off + 3 /\ to + 2 + 1 = to + 3
    OBVIOUS
  <2>2. \A k \in {0, 1, 2, 3} : d[off + k] = e[to + k]
    BY <1>4 DEF Alike
  <2>. QED
    BY <1>1, <1>4, <2>1, <2>2 DEF RawPrefix, LeQuad, LePair
<1>5. CASE pfx = 8
  <2>1. /\ off + 2 + 1 = off + 3
        /\ off + 4 + 1 = off + 5 /\ off + 4 + 2 = off + 6 /\ off + 4 + 2 + 1 = off + 7
        /\ to + 2 + 1 = to + 3
        /\ to + 4 + 1 = to + 5 /\ to + 4 + 2 = to + 6 /\ to + 4 + 2 + 1 = to + 7
    OBVIOUS
  <2>2. \A k \in {0, 1, 2, 3, 4, 5, 6, 7} : d[off + k] = e[to + k]
    BY <1>5 DEF Alike
  <2>3. LeQuad(d, off) = LeQuad(e, to)
    BY <1>1, <2>1, <2>2 DEF LeQuad, LePair
  <2>4. LeQuad(d, off + 4) = LeQuad(e, to + 4)
    BY <2>1, <2>2 DEF LeQuad, LePair
  <2>. QED
    BY <1>5, <2>3, <2>4 DEF RawPrefix
<1>. QED
  BY <1>1, <1>2, <1>3, <1>4, <1>5

\* Tail i is accepted at `off` and takes `len` bytes there.
Holds(d, n, i, off, len, full) ==
    TailAccepted(d, n, i, off, full) /\ TailEnd(d, i, off) = off + len

\* A tail that was accepted has the same count in every buffer that has the same
\* slot and, at whatever offset, the tail's bytes.
LEMMA MovedCount ==
    ASSUME NEW n \in Nat, HeaderSize <= n, NEW d \in [0 .. (n - 1) -> Byte],
           NEW i \in TailId, NEW off \in Nat, off <= n, off <= Capacity[i - 1], NEW full,
           NEW len \in Nat, Holds(d, n, i, off, len, full), NEW e, NEW to \in Nat,
           Alike(d, Slot[i], e, Slot[i], SlotWidth(i)), Alike(d, off, e, to, len)
    PROVE  /\ d[Slot[i]] = e[Slot[i]]
           /\ ~(Tails[i].opt /\ d[Slot[i]] = 0) => StoredCount(e, i, to) = StoredCount(d, i, off)
<1>. DEFINE t == Tails[i]
            count == StoredCount(d, i, off)
            head == IF t.opt THEN t.pfx ELSE 0
            payload == count * t.size
<1>1. /\ t.pfx \in Width /\ t.pfx \in Nat /\ t.opt \in BOOLEAN /\ head \in Nat
      /\ Slot[i] \in Nat /\ SlotWidth(i) \in Nat /\ SlotWidth(i) > 0
      /\ ~t.opt => SlotWidth(i) = t.pfx
  BY TailFacts, SlotOrder, SlotFacts DEF SlotWidth
<1>2. d[Slot[i]] = e[Slot[i]]
  <2>1. 0 \in 0 .. (SlotWidth(i) - 1) /\ Slot[i] + 0 = Slot[i]
    BY <1>1
  <2>. QED
    BY <2>1 DEF Alike
<1>3. CASE ~(t.opt /\ d[Slot[i]] = 0)
  <2>1. /\ t.opt => d[Slot[i]] = 1 /\ off + t.pfx <= n
        /\ count <= UsizeMax /\ count <= t.max
        /\ off + len = PayloadFrom(i, off) + payload
    BY <1>3 DEF Holds, TailAccepted, TailEnd
  <2>2. count \in Nat /\ payload \in Nat
    BY <2>1, StoredCountNat
  <2>3. PayloadFrom(i, off) = off + head /\ PayloadFrom(i, to) = to + head
    BY <1>1 DEF PayloadFrom
  <2>. HIDE DEF count, payload, head
  <2>4. len = head + payload
    BY <1>1, <2>1, <2>2, <2>3
  <2>5. StoredCount(e, i, to) = count
    <3>1. CASE t.opt
      <4>1. head = t.pfx
        BY <3>1 DEF head
      <4>2. \A k \in 0 .. (t.pfx - 1) : k \in 0 .. (len - 1)
        <5>1. t.pfx <= len
          BY <1>1, <2>2, <2>4, <4>1
        <5>. QED
          BY <1>1, <5>1
      <4>3. Alike(d, off, e, to, t.pfx)
        BY <4>2 DEF Alike
      <4>. QED
        BY <1>1, <3>1, <4>3, SamePrefix DEF StoredCount, count
    <3>2. CASE ~t.opt
      BY <1>1, <3>2, SamePrefix DEF StoredCount, count
    <3>. QED
      BY <3>1, <3>2
  <2>. QED
    BY <1>2, <2>5 DEF count
<1>4. CASE t.opt /\ d[Slot[i]] = 0
  BY <1>2, <1>4
<1>. QED
  BY <1>3, <1>4

\* A tail that one buffer accepts is accepted in every buffer that has the
\* same slot and, at whatever offset, the tail's bytes.
LEMMA CopyHolds ==
    ASSUME NEW n \in Nat, HeaderSize <= n, NEW d \in [0 .. (n - 1) -> Byte],
           NEW m \in Nat, HeaderSize <= m, NEW e \in [0 .. (m - 1) -> Byte],
           NEW i \in TailId, NEW off \in Nat, off <= n, off <= Capacity[i - 1], NEW full,
           NEW len \in Nat, Holds(d, n, i, off, len, full),
           NEW to \in Nat, to + len <= m,
           Alike(d, Slot[i], e, Slot[i], SlotWidth(i)), Alike(d, off, e, to, len)
    PROVE  Holds(e, m, i, to, len, full)
<1>0. TailAccepted(d, n, i, off, full) /\ TailEnd(d, i, off) = off + len
  BY DEF Holds
<1>. DEFINE t == Tails[i]
            count == StoredCount(d, i, off)
            head == IF t.opt THEN t.pfx ELSE 0
            payload == count * t.size
<1>1. /\ t.pfx \in Width /\ t.pfx \in Nat /\ t.opt \in BOOLEAN /\ head \in Nat
      /\ Slot[i] \in Nat /\ SlotWidth(i) \in Nat /\ SlotWidth(i) > 0
      /\ ~t.opt => SlotWidth(i) = t.pfx
  BY TailFacts, SlotOrder, SlotFacts DEF SlotWidth
<1>2. /\ d[Slot[i]] = e[Slot[i]]
      /\ ~(t.opt /\ d[Slot[i]] = 0) => StoredCount(e, i, to) = count
  BY SMTT(60), MovedCount
<1>3. CASE t.opt /\ d[Slot[i]] = 0
  <2>1. len = 0
    BY <1>0, <1>3 DEF TailEnd
  <2>. QED
    BY <1>2, <1>3, <2>1 DEF TailAccepted, TailEnd, Holds
<1>4. CASE ~(t.opt /\ d[Slot[i]] = 0)
  <2>1. /\ t.opt => d[Slot[i]] = 1 /\ off + t.pfx <= n
        /\ count <= UsizeMax /\ count <= t.max
        /\ off + len = PayloadFrom(i, off) + payload
    BY <1>0, <1>4 DEF TailAccepted, TailEnd
  <2>2. count \in Nat /\ payload \in Nat
    BY <2>1, StoredCountNat
  <2>3. PayloadFrom(i, off) = off + head /\ PayloadFrom(i, to) = to + head
    BY <1>1 DEF PayloadFrom
  <2>. HIDE DEF count, payload, head
  <2>4. len = head + payload
    BY <1>1, <2>1, <2>2, <2>3
  <2>5. StoredCount(e, i, to) = count
    BY <1>2, <1>4 DEF count
  <2>6. TailEnd(e, i, to) = to + len
    <3>1. TailEnd(e, i, to) = (to + head) + payload
      BY <1>2, <1>4, <2>3, <2>5 DEF TailEnd, payload
    <3>. QED
      BY <1>1, <2>2, <2>4, <3>1
  <2>7. full => \A a \in (to + head) .. ((to + head) + payload - 1) : e[a] \in t.ok
    <3>1. ASSUME full, NEW a \in (to + head) .. ((to + head) + payload - 1)
          PROVE  e[a] \in t.ok
      <4>. DEFINE k == a - to
      <4>1. k \in 0 .. (len - 1) /\ to + k = a /\ off + k \in (off + head) .. ((off + head) + payload - 1)
        BY <1>1, <2>2, <2>4
      <4>2. d[off + k] = e[a]
        BY <4>1 DEF Alike
      <4>3. d[off + k] \in t.ok
        <5>. DEFINE from == PayloadFrom(i, off)
                    end == from + StoredCount(d, i, off) * t.size
        <5>1. \A x \in from .. (end - 1) : d[x] \in t.ok
          BY <1>0, <1>4, <3>1 DEF TailAccepted
        <5>2. from = off + head /\ end = (off + head) + payload
          BY <2>3 DEF payload, count
        <5>. HIDE DEF from, end
        <5>3. off + k \in from .. (end - 1)
          BY <1>1, <2>2, <4>1, <5>2
        <5>. QED
          BY <5>1, <5>3
      <4>. QED
        BY <4>2, <4>3
    <3>. QED
      BY <3>1
  <2>8. t.opt => to + t.pfx <= m
    <3>1. t.opt => head = t.pfx
      BY DEF head
    <3>. QED
      BY <1>1, <2>2, <2>4, <3>1
  <2>9. (to + head) + payload <= m
    BY <1>1, <2>2, <2>4
  <2>10. TailAccepted(e, m, i, to, full)
    <3>. DEFINE from == PayloadFrom(i, to)
                stored == StoredCount(e, i, to)
                end == from + stored * t.size
    <3>1. stored = count /\ end = (to + head) + payload /\ from = to + head
      BY <2>3, <2>5 DEF payload
    <3>2. /\ t.opt => e[Slot[i]] = 1 /\ to + t.pfx <= m
          /\ stored <= UsizeMax
          /\ stored <= t.max
          /\ end <= m
          /\ full => \A a \in from .. (end - 1) : e[a] \in t.ok
      <4>. HIDE DEF from, stored, end
      <4>1. t.opt => e[Slot[i]] = 1 /\ to + t.pfx <= m
        BY <1>2, <2>1, <2>8
      <4>2. stored <= UsizeMax /\ stored <= t.max /\ end <= m
        BY <2>1, <2>9, <3>1
      <4>3. full => \A a \in from .. (end - 1) : e[a] \in t.ok
        <5>1. ASSUME full, NEW a \in from .. (end - 1)
              PROVE  e[a] \in t.ok
          <6>1. a \in (to + head) .. ((to + head) + payload - 1)
            BY <1>1, <2>2, <3>1
          <6>. QED
            BY <2>7, <5>1, <6>1
        <5>. QED
          BY <5>1
      <4>. QED
        BY <4>1, <4>2, <4>3
    <3>. QED
      BY <3>2 DEF TailAccepted
  <2>. QED
    BY <2>6, <2>10 DEF Holds
<1>. QED
  BY <1>3, <1>4

\* A tail that one buffer accepts is accepted, at the same place and with the
\* same count, in every buffer that agrees on the header and on the tail's bytes.
LEMMA SameTail ==
    ASSUME NEW n \in Nat, HeaderSize <= n, NEW d \in [0 .. (n - 1) -> Byte],
           NEW m \in Nat, HeaderSize <= m, NEW e \in [0 .. (m - 1) -> Byte],
           NEW i \in TailId, NEW off \in Nat, off <= n, off <= Capacity[i - 1], NEW full,
           TailAccepted(d, n, i, off, full)
    PROVE  /\ TailEnd(d, i, off) <= m
           /\ \A a \in 0 .. (HeaderSize - 1) : d[a] = e[a]
           /\ \A a \in off .. (TailEnd(d, i, off) - 1) : d[a] = e[a]
           => /\ TailAccepted(e, m, i, off, full)
              /\ TailEnd(e, i, off) = TailEnd(d, i, off)
              /\ ~(Tails[i].opt /\ d[Slot[i]] = 0) => StoredCount(e, i, off) = StoredCount(d, i, off)
<1>0. ASSUME NEW len \in Nat, TailEnd(d, i, off) = off + len, off + len <= m,
             Alike(d, Slot[i], e, Slot[i], SlotWidth(i)), Alike(d, off, e, off, len)
      PROVE  /\ TailAccepted(e, m, i, off, full)
             /\ TailEnd(e, i, off) = off + len
             /\ ~(Tails[i].opt /\ d[Slot[i]] = 0) => StoredCount(e, i, off) = StoredCount(d, i, off)
  <2>1. Holds(d, n, i, off, len, full)
    BY <1>0 DEF Holds
  <2>2. Holds(e, m, i, off, len, full)
    BY <1>0, <2>1, CopyHolds
  <2>3. ~(Tails[i].opt /\ d[Slot[i]] = 0) => StoredCount(e, i, off) = StoredCount(d, i, off)
    BY <1>0, <2>1, MovedCount
  <2>. QED
    BY <2>2, <2>3 DEF Holds
<1>. SUFFICES ASSUME TailEnd(d, i, off) <= m,
                     \A a \in 0 .. (HeaderSize - 1) : d[a] = e[a],
                     \A a \in off .. (TailEnd(d, i, off) - 1) : d[a] = e[a]
              PROVE  /\ TailAccepted(e, m, i, off, full)
                     /\ TailEnd(e, i, off) = TailEnd(d, i, off)
                     /\ ~(Tails[i].opt /\ d[Slot[i]] = 0) => StoredCount(e, i, off) = StoredCount(d, i, off)
  OBVIOUS
<1>. DEFINE len == TailEnd(d, i, off) - off
<1>1. len \in Nat /\ TailEnd(d, i, off) = off + len
  BY AcceptedTail
<1>2. Alike(d, Slot[i], e, Slot[i], SlotWidth(i))
  <2>1. \A k \in 0 .. (SlotWidth(i) - 1) : Slot[i] + k \in 0 .. (HeaderSize - 1)
    <3>1. SlotWidth(i) \in Nat /\ Slot[i] + SlotWidth(i) <= HeaderSize
      BY SlotOrder
    <3>2. Slot[i] \in Nat /\ HeaderSize \in Nat
      BY SlotFacts, SchemaFacts
    <3>. DEFINE w == SlotWidth(i)
                slot == Slot[i]
    <3>3. w \in Nat /\ slot \in Nat /\ slot + w <= HeaderSize
      BY <3>1, <3>2
    <3>. HIDE DEF w, slot
    <3>4. \A k \in 0 .. (w - 1) : slot + k \in 0 .. (HeaderSize - 1)
      BY <3>2, <3>3
    <3>. QED
      BY <3>4 DEF w, slot
  <2>. QED
    BY <2>1 DEF Alike
<1>. HIDE DEF len
<1>3. Alike(d, off, e, off, len)
  <2>1. \A k \in 0 .. (len - 1) : off + k \in off .. (off + len - 1)
    BY <1>1
  <2>. QED
    BY <1>1, <2>1 DEF Alike
<1>4. off + len <= m
  BY <1>1
<1>5. /\ TailAccepted(e, m, i, off, full)
      /\ TailEnd(e, i, off) = off + len
      /\ ~(Tails[i].opt /\ d[Slot[i]] = 0) => StoredCount(e, i, off) = StoredCount(d, i, off)
  BY <1>0, <1>1, <1>2, <1>3, <1>4
<1>. QED
  BY <1>1, <1>5

\* The tails are placed one behind the other.
LEMMA PlacesAreOrdered ==
    ASSUME NEW n \in Nat, HeaderSize <= n, NEW d \in [0 .. (n - 1) -> Byte], NEW full,
           NEW f, Places(d, n, full, f)
    PROVE  /\ \A i \in TailId : f[i] <= f[i + 1]
           /\ \A i \in 1 .. (TailCount + 1) : f[i] <= f[TailCount + 1]
<1>. DEFINE last == f[TailCount + 1]
            fromEnd(k) == TailCount - k
            T == {k \in 0 .. TailCount : f[fromEnd(k) + 1] <= last}
<1>1. /\ TailCount \in Nat /\ TailId = 1 .. TailCount
      /\ \A i \in TailId : /\ i \in 1 .. (TailCount + 1) /\ i + 1 \in 1 .. (TailCount + 1)
                           /\ i - 1 \in 0 .. TailCount /\ i \in 0 .. TailCount
      /\ TailCount + 1 \in 1 .. (TailCount + 1)
  BY SchemaFacts DEF TailId
<1>2. \A i \in 1 .. (TailCount + 1) :
         f[i] \in Nat /\ HeaderSize <= f[i] /\ f[i] <= n /\ f[i] <= Capacity[i - 1]
  BY PlacesBounded
<1>3. \A i \in TailId : /\ TailAccepted(d, n, i, f[i], full) /\ f[i + 1] = TailEnd(d, i, f[i])
                        /\ f[i] <= f[i + 1]
  <2>1. ASSUME NEW i \in TailId
        PROVE  /\ TailAccepted(d, n, i, f[i], full) /\ f[i + 1] = TailEnd(d, i, f[i])
               /\ f[i] <= f[i + 1]
    <3>1. TailAccepted(d, n, i, f[i], full) /\ f[i + 1] = TailEnd(d, i, f[i])
      BY DEF Places
    <3>2. f[i] \in Nat /\ f[i] <= n /\ f[i] <= Capacity[i - 1]
      BY <1>1, <1>2
    <3>. QED
      BY <3>1, <3>2, AcceptedTail
  <2>. QED
    BY <2>1
<1>4. \A i \in 1 .. (TailCount + 1) : f[i] <= last
  <2>1. 0 \in T
    <3>1. fromEnd(0) + 1 = TailCount + 1 /\ last \in Nat
      BY <1>1, <1>2
    <3>. QED
      BY <1>1, <3>1
  <2>2. ASSUME NEW k \in 1 .. TailCount, k - 1 \in T PROVE k \in T
    <3>. DEFINE i == fromEnd(k) + 1
    <3>1. i \in TailId /\ fromEnd(k - 1) + 1 = i + 1 /\ k \in 0 .. TailCount
      BY <1>1
    <3>2. f[i] <= f[i + 1] /\ f[i + 1] <= last /\ f[i] \in Nat /\ f[i + 1] \in Nat /\ last \in Nat
      BY <1>1, <1>2, <1>3, <2>2, <3>1
    <3>. HIDE DEF last, i
    <3>3. f[i] <= last
      BY <3>2
    <3>. QED
      BY <3>1, <3>3 DEF last, i
  <2>3. \A k \in 0 .. TailCount : k \in T
    <3>. HIDE DEF T
    <3>. QED
      BY <1>1, <2>1, <2>2, RangeInduction
  <2>4. ASSUME NEW i \in 1 .. (TailCount + 1) PROVE f[i] <= last
    <3>. DEFINE k == (TailCount + 1) - i
    <3>1. k \in 0 .. TailCount /\ fromEnd(k) + 1 = i
      BY <1>1
    <3>. QED
      BY <2>3, <3>1
  <2>. QED
    BY <2>4
<1>. QED
  BY <1>3, <1>4

\* The tails of a placed buffer are placed alike, and end alike, in every buffer
\* that agrees up to the end of the last.
LEMMA SamePlaces ==
    ASSUME NEW n \in Nat, HeaderSize <= n, NEW d \in [0 .. (n - 1) -> Byte], NEW full,
           NEW f, Places(d, n, full, f),
           NEW m \in Nat, f[TailCount + 1] <= m, NEW e \in [0 .. (m - 1) -> Byte],
           \A a \in 0 .. (f[TailCount + 1] - 1) : d[a] = e[a]
    PROVE  /\ Places(e, m, full, f)
           /\ \A i \in TailId : ~(Tails[i].opt /\ d[Slot[i]] = 0) =>
                  StoredCount(e, i, f[i]) = StoredCount(d, i, f[i])
<1>. DEFINE last == f[TailCount + 1]
<1>1. /\ TailCount \in Nat /\ TailId = 1 .. TailCount
      /\ \A i \in TailId : /\ i \in 1 .. (TailCount + 1) /\ i + 1 \in 1 .. (TailCount + 1)
                           /\ i - 1 \in 0 .. TailCount /\ i \in 0 .. TailCount
      /\ TailCount + 1 \in 1 .. (TailCount + 1)
  BY SchemaFacts DEF TailId
<1>2. \A i \in 1 .. (TailCount + 1) :
         f[i] \in Nat /\ HeaderSize <= f[i] /\ f[i] <= n /\ f[i] <= Capacity[i - 1]
  BY PlacesBounded
<1>3. \A i \in TailId : TailAccepted(d, n, i, f[i], full) /\ f[i + 1] = TailEnd(d, i, f[i])
  BY DEF Places
<1>4. \A i \in 1 .. (TailCount + 1) : f[i] <= last
  BY PlacesAreOrdered
<1>5. HeaderSize <= last /\ last <= m /\ last \in Nat /\ HeaderSize <= m
  BY <1>1, <1>2, SchemaFacts
<1>6. \A a \in 0 .. (last - 1) : d[a] = e[a]
  OBVIOUS
<1>. HIDE DEF last
<1>7. ASSUME NEW i \in TailId
      PROVE  /\ TailAccepted(e, m, i, f[i], full) /\ f[i + 1] = TailEnd(e, i, f[i])
             /\ ~(Tails[i].opt /\ d[Slot[i]] = 0) =>
                    StoredCount(e, i, f[i]) = StoredCount(d, i, f[i])
  <2>1. /\ f[i] \in Nat /\ f[i] <= n /\ f[i] <= Capacity[i - 1]
        /\ TailAccepted(d, n, i, f[i], full)
        /\ TailEnd(d, i, f[i]) = f[i + 1] /\ f[i + 1] \in Nat /\ f[i + 1] <= last
    BY <1>1, <1>2, <1>3, <1>4
  <2>2. /\ TailEnd(d, i, f[i]) <= m
        /\ \A a \in 0 .. (HeaderSize - 1) : d[a] = e[a]
        /\ \A a \in f[i] .. (TailEnd(d, i, f[i]) - 1) : d[a] = e[a]
    <3>1. f[i + 1] <= m
      BY <1>5, <2>1
    <3>2. \A a \in 0 .. (HeaderSize - 1) : a \in 0 .. (last - 1)
      BY <1>5, SchemaFacts
    <3>3. \A a \in f[i] .. (f[i + 1] - 1) : a \in 0 .. (last - 1)
      BY <1>5, <2>1
    <3>. QED
      BY <1>6, <2>1, <3>1, <3>2, <3>3
  <2>3. /\ TailAccepted(e, m, i, f[i], full)
        /\ TailEnd(e, i, f[i]) = TailEnd(d, i, f[i])
        /\ ~(Tails[i].opt /\ d[Slot[i]] = 0) => StoredCount(e, i, f[i]) = StoredCount(d, i, f[i])
    <3>. DEFINE off == f[i]
    <3>1. /\ off \in Nat /\ off <= n /\ off <= Capacity[i - 1] /\ TailAccepted(d, n, i, off, full)
          /\ TailEnd(d, i, off) <= m
          /\ \A a \in off .. (TailEnd(d, i, off) - 1) : d[a] = e[a]
      BY <2>1, <2>2
    <3>2. \A a \in 0 .. (HeaderSize - 1) : d[a] = e[a]
      BY <2>2
    <3>. HIDE DEF off
    <3>3. /\ TailAccepted(e, m, i, off, full)
          /\ TailEnd(e, i, off) = TailEnd(d, i, off)
          /\ ~(Tails[i].opt /\ d[Slot[i]] = 0) => StoredCount(e, i, off) = StoredCount(d, i, off)
      BY SMTT(60), <1>5, <3>1, <3>2, SameTail
    <3>. QED
      BY <3>3 DEF off
  <2>. QED
    BY <2>1, <2>3
<1>8. Places(e, m, full, f)
  BY <1>7 DEF Places
<1>. QED
  BY <1>7, <1>8

\* What the accessor of a placed tail returns.
PlacedBytes(d, i, off) ==
    IF Tails[i].opt /\ d[Slot[i]] = 0
    THEN [present |-> FALSE, bytes |-> << >>]
    ELSE [present |-> TRUE,
          bytes |-> [k \in 1 .. (StoredCount(d, i, off) * Tails[i].size) |->
                        d[PayloadFrom(i, off) + k - 1]]]

\* The unchecked decode of an accessor loses nothing of an accepted tail.
LEMMA AccessorReads ==
    ASSUME NEW n \in Nat, HeaderSize <= n, NEW d \in [0 .. (n - 1) -> Byte], NEW i \in TailId,
           NEW off \in Nat, off = TailOffset(d)[i], NEW full, TailAccepted(d, n, i, off, full)
    PROVE  TailBytes(d, i) = PlacedBytes(d, i, off)
<1>. DEFINE t == Tails[i]
            count == StoredCount(d, i, off)
<1>1. t.opt \in BOOLEAN
  BY TailFacts
<1>2. CASE t.opt /\ d[Slot[i]] = 0
  BY <1>2 DEF TailBytes, PlacedBytes
<1>3. CASE ~(t.opt /\ d[Slot[i]] = 0)
  <2>1. (t.opt => off + t.pfx <= n) /\ count <= UsizeMax
    BY <1>3 DEF TailAccepted
  <2>2. count \in Nat
    BY <2>1, StoredCountNat
  <2>3. Wrap(count) = count
    <3>. HIDE DEF count
    <3>. QED
      BY <2>1, <2>2, SchemaFacts DEF Wrap
  <2>4. (IF t.opt THEN CastPrefix(d, off, t.pfx) ELSE CastPrefix(d, Slot[i], t.pfx)) = count
    BY <1>1, <2>3 DEF CastPrefix, StoredCount
  <2>5. (IF t.opt THEN off + t.pfx ELSE off) = PayloadFrom(i, off)
    BY DEF PayloadFrom
  <2>. HIDE DEF count
  <2>. QED
    BY <1>3, <2>4, <2>5 DEF TailBytes, PlacedBytes, count
<1>. QED
  BY <1>2, <1>3

\* A tail that is copied shows the same bytes.
LEMMA CopyShows ==
    ASSUME NEW n \in Nat, HeaderSize <= n, NEW d \in [0 .. (n - 1) -> Byte],
           NEW i \in TailId, NEW off \in Nat, off <= n, off <= Capacity[i - 1], NEW full,
           NEW len \in Nat, Holds(d, n, i, off, len, full), NEW e, NEW to \in Nat,
           Alike(d, Slot[i], e, Slot[i], SlotWidth(i)), Alike(d, off, e, to, len)
    PROVE  PlacedBytes(e, i, to) = PlacedBytes(d, i, off)
<1>. DEFINE t == Tails[i]
            count == StoredCount(d, i, off)
            head == IF t.opt THEN t.pfx ELSE 0
            payload == count * t.size
<1>0. TailAccepted(d, n, i, off, full) /\ TailEnd(d, i, off) = off + len
  BY DEF Holds
<1>1. t.pfx \in Nat /\ t.opt \in BOOLEAN /\ head \in Nat
  BY TailFacts
<1>2. /\ d[Slot[i]] = e[Slot[i]]
      /\ ~(t.opt /\ d[Slot[i]] = 0) => StoredCount(e, i, to) = count
  BY SMTT(60), MovedCount
<1>3. CASE t.opt /\ d[Slot[i]] = 0
  BY <1>2, <1>3 DEF PlacedBytes
<1>4. CASE ~(t.opt /\ d[Slot[i]] = 0)
  <2>1. /\ t.opt => off + t.pfx <= n
        /\ count <= UsizeMax /\ off + len = PayloadFrom(i, off) + payload
    BY <1>0, <1>4 DEF TailAccepted, TailEnd
  <2>2. count \in Nat /\ payload \in Nat
    BY <2>1, StoredCountNat
  <2>3. PayloadFrom(i, off) = off + head /\ PayloadFrom(i, to) = to + head
    BY <1>1 DEF PayloadFrom
  <2>4. StoredCount(e, i, to) * t.size = payload
    BY <1>2, <1>4
  <2>. HIDE DEF count, payload, head
  <2>5. len = head + payload
    BY <1>1, <2>1, <2>2, <2>3
  <2>6. ASSUME NEW k \in 1 .. payload
        PROVE  e[PayloadFrom(i, to) + k - 1] = d[PayloadFrom(i, off) + k - 1]
    <3>. DEFINE b == head + k - 1
    <3>1. b \in 0 .. (len - 1) /\ PayloadFrom(i, to) + k - 1 = to + b /\ PayloadFrom(i, off) + k - 1 = off + b
      BY <1>1, <2>2, <2>3, <2>5
    <3>. HIDE DEF b
    <3>. QED
      BY <3>1 DEF Alike
  <2>7. PlacedBytes(e, i, to) = [present |-> TRUE, bytes |-> [k \in 1 .. payload |-> e[PayloadFrom(i, to) + k - 1]]]
    BY <1>2, <1>4, <2>4 DEF PlacedBytes
  <2>8. PlacedBytes(d, i, off) = [present |-> TRUE, bytes |-> [k \in 1 .. payload |-> d[PayloadFrom(i, off) + k - 1]]]
    BY <1>4 DEF PlacedBytes, payload, count
  <2>. QED
    BY <2>6, <2>7, <2>8
<1>. QED
  BY <1>3, <1>4

\* Buffers that agree up to the end of the last tail hold the same content, at
\* the same offsets.
LEMMA SameContent ==
    ASSUME NEW n \in Nat, HeaderSize <= n, NEW d \in [0 .. (n - 1) -> Byte], NEW full \in BOOLEAN,
           Places(d, n, full, TailOffset(d)),
           NEW m \in Nat, EncodedLen(d) <= m, NEW e \in [0 .. (m - 1) -> Byte],
           \A a \in 0 .. (EncodedLen(d) - 1) : d[a] = e[a]
    PROVE  /\ Places(e, m, full, TailOffset(d))
           /\ \A i \in 1 .. (TailCount + 1) : TailOffset(e)[i] = TailOffset(d)[i]
           /\ ContentOf(e) = ContentOf(d)
           /\ InlineValid(e) <=> InlineValid(d)
<1>. DEFINE f == TailOffset(d)
            last == EncodedLen(d)
<1>1. Places(d, n, full, f) /\ last = f[TailCount + 1]
  BY DEF EncodedLen
<1>2. \A i \in 1 .. (TailCount + 1) :
         f[i] \in Nat /\ HeaderSize <= f[i] /\ f[i] <= n /\ f[i] <= Capacity[i - 1]
  <2>. HIDE DEF f
  <2>. QED
    BY <1>1, PlacesBounded
<1>3. /\ TailCount + 1 \in 1 .. (TailCount + 1)
      /\ \A i \in TailId : i \in 1 .. (TailCount + 1) /\ i + 1 \in 1 .. (TailCount + 1)
  BY SchemaFacts
<1>4. \A a \in 0 .. (f[TailCount + 1] - 1) : d[a] = e[a]
  BY <1>1
<1>5. f[TailCount + 1] <= m
  BY <1>1
<1>. HIDE DEF f
<1>6. /\ Places(e, m, full, f)
      /\ \A i \in TailId : ~(Tails[i].opt /\ d[Slot[i]] = 0) =>
             StoredCount(e, i, f[i]) = StoredCount(d, i, f[i])
  BY <1>1, <1>4, <1>5, SamePlaces
<1>7. HeaderSize <= m /\ HeaderSize <= last /\ last \in Nat
  BY <1>1, <1>2, <1>3, <1>5, SchemaFacts
<1>8. \A i \in 1 .. (TailCount + 1) : TailOffset(e)[i] = f[i]
  BY <1>6, <1>7, PlacedIsReplayed
<1>9. \A a \in 0 .. (HeaderSize - 1) : d[a] = e[a]
  <2>1. \A a \in 0 .. (HeaderSize - 1) : a \in 0 .. (last - 1)
    BY <1>7, SchemaFacts
  <2>. QED
    BY <2>1
<1>10. ASSUME NEW i \in TailId PROVE TailBytes(e, i) = TailBytes(d, i)
  <2>. DEFINE off == f[i]
              count == StoredCount(d, i, off)
              from == PayloadFrom(i, off)
  <2>1. /\ off \in Nat /\ off <= n /\ TailAccepted(d, n, i, off, full) /\ TailAccepted(e, m, i, off, full)
        /\ TailEnd(d, i, off) = f[i + 1]
    BY <1>1, <1>2, <1>3, <1>6 DEF Places
  <2>2. off = TailOffset(d)[i] /\ off = TailOffset(e)[i]
    BY <1>3, <1>8 DEF f
  <2>. HIDE DEF off
  <2>3. TailBytes(d, i) = PlacedBytes(d, i, off) /\ TailBytes(e, i) = PlacedBytes(e, i, off)
    BY <1>7, <2>1, <2>2, AccessorReads
  <2>4. d[Slot[i]] = e[Slot[i]]
    <3>1. Slot[i] \in 0 .. (HeaderSize - 1)
      BY SlotFacts, SchemaFacts
    <3>. QED
      BY <1>9, <3>1
  <2>5. CASE Tails[i].opt /\ d[Slot[i]] = 0
    BY <2>3, <2>4, <2>5 DEF PlacedBytes
  <2>6. CASE ~(Tails[i].opt /\ d[Slot[i]] = 0)
    <3>1. StoredCount(e, i, off) = count
      BY <1>6, <2>6 DEF off
    <3>2. count * Tails[i].size \in Nat /\ from \in Nat /\ off <= from
      <4>1. Tails[i].opt => off + Tails[i].pfx <= n
        BY <2>1, <2>6 DEF TailAccepted
      <4>. QED
        BY <2>1, <4>1, StoredCountNat
    <3>3. f[i + 1] = from + count * Tails[i].size
      BY <2>1, <2>6 DEF TailEnd
    <3>4. f[i + 1] <= last
      <4>1. f[i + 1] \in Nat /\ last = f[TailCount + 1]
        BY <1>1, <1>2, <1>3
      <4>. QED
        BY <4>1, <1>1, PlacesAreOrdered, <1>3
    <3>. DEFINE payload == count * Tails[i].size
    <3>5. \A k \in 1 .. payload : d[from + k - 1] = e[from + k - 1]
      <4>1. payload \in Nat /\ f[i + 1] = from + payload
        BY <3>2, <3>3
      <4>. HIDE DEF payload, from
      <4>2. \A k \in 1 .. payload : from + k - 1 \in 0 .. (last - 1)
        BY <1>7, <2>1, <3>2, <3>4, <4>1
      <4>. QED
        BY <4>2
    <3>6. [k \in 1 .. payload |-> d[from + k - 1]] = [k \in 1 .. payload |-> e[from + k - 1]]
      <4>. HIDE DEF payload, from
      <4>. QED
        BY <3>5
    <3>7. PlacedBytes(d, i, off) =
            [present |-> TRUE, bytes |-> [k \in 1 .. payload |-> d[from + k - 1]]]
      BY <2>6 DEF PlacedBytes
    <3>8. PlacedBytes(e, i, off) =
            [present |-> TRUE, bytes |-> [k \in 1 .. payload |-> e[from + k - 1]]]
      BY <2>4, <2>6, <3>1 DEF PlacedBytes
    <3>. HIDE DEF from, count, payload
    <3>. QED
      BY <2>3, <3>6, <3>7, <3>8
  <2>. QED
    BY <2>5, <2>6
<1>11. Inline.size \in Nat /\ \A a \in 0 .. (Inline.size - 1) : d[a] = e[a]
  <2>1. Inline.size <= HeaderSize /\ Inline.size \in Nat
    BY SlotOrder, SchemaAssumption, PrefixesAssumption
  <2>2. \A a \in 0 .. (Inline.size - 1) : a \in 0 .. (HeaderSize - 1)
    BY <2>1, SchemaFacts
  <2>. QED
    BY <1>9, <2>1, <2>2
<1>12. ContentOf(e) = ContentOf(d)
  BY <1>10, <1>11 DEF ContentOf
<1>13. InlineValid(e) <=> InlineValid(d)
  BY <1>11 DEF InlineValid
<1>. QED
  BY <1>6, <1>8, <1>12, <1>13 DEF f

-----------------------------------------------------------------------------
(* Validation of a whole account.                                          *)

\* A validated account holds a header, its inline fields are valid, and every
\* tail is where the replay places it.
LEMMA ValidAccount ==
    ASSUME NEW n \in Nat, NEW d \in [0 .. (n - 1) -> Byte], Validate(d, n).ok
    PROVE  /\ HeaderSize <= n /\ n <= UsizeMax /\ ValidateStorageLen(n).ok
           /\ InlineValid(d)
           /\ WalkTails(d, n, TRUE).ok
           /\ Validate(d, n) = Ok(EncodedLen(d))
           /\ Places(d, n, TRUE, TailOffset(d))
           /\ \A i \in 1 .. (TailCount + 1) :
                /\ TailOffset(d)[i] \in Nat /\ HeaderSize <= TailOffset(d)[i]
                /\ TailOffset(d)[i] <= n /\ TailOffset(d)[i] <= Capacity[i - 1]
<1>1. ValidateStorageLen(n).ok /\ InlineValid(d) /\ Validate(d, n) = WalkTails(d, n, TRUE)
  BY DEF Validate, Err
<1>2. HeaderSize <= n /\ n <= UsizeMax
  BY <1>1, StorageLen
<1>3. WalkTails(d, n, TRUE).ok /\ TRUE \in BOOLEAN
  BY <1>1
<1>4. /\ Places(d, n, TRUE, TailOffset(d))
      /\ \A i \in 1 .. (TailCount + 1) :
           /\ TailOffset(d)[i] \in Nat /\ HeaderSize <= TailOffset(d)[i]
           /\ TailOffset(d)[i] <= n /\ TailOffset(d)[i] <= Capacity[i - 1]
      /\ WalkTails(d, n, TRUE) = Ok(EncodedLen(d))
  BY <1>2, <1>3, AcceptedReplay
<1>. QED
  BY <1>1, <1>2, <1>3, <1>4

\* A buffer whose tails can be placed is accepted, and ends where the last of
\* them does.
LEMMA PlacedIsAccepted ==
    ASSUME NEW n \in Nat, NEW d \in [0 .. (n - 1) -> Byte], HeaderSize <= n,
           NEW f, Places(d, n, TRUE, f)
    PROVE  WalkTails(d, n, TRUE).ok /\ EncodedLen(d) = f[TailCount + 1]
<1>1. HeaderSize <= n /\ TRUE \in BOOLEAN
  OBVIOUS
<1>2. TailCount \in 0 .. TailCount /\ TailCount + 1 \in 1 .. (TailCount + 1)
  BY SchemaFacts
<1>3. WalkTo(d, n, TRUE)[TailCount] = Ok(f[TailCount + 1])
  BY <1>1, <1>2, PlacedIsWalked
<1>4. WalkTails(d, n, TRUE).ok
  <2>. DEFINE w == WalkTails(d, n, TRUE)
  <2>1. w = Ok(f[TailCount + 1])
    BY <1>3, Zenon DEF WalkTails
  <2>. HIDE DEF w
  <2>2. w.ok
    BY <2>1 DEF Ok
  <2>. QED
    BY <2>2 DEF w
<1>5. TailOffset(d)[TailCount + 1] = f[TailCount + 1]
  BY <1>1, <1>2, PlacedIsReplayed
<1>. QED
  BY <1>4, <1>5 DEF EncodedLen

\* With valid inline fields, and an allocation size, that is a valid account.
LEMMA AcceptedIsValid ==
    ASSUME NEW n \in Nat, NEW d, ValidateStorageLen(n).ok, WalkTails(d, n, TRUE).ok
    PROVE  /\ InlineValid(d) => Validate(d, n).ok
           /\ ~InlineValid(d) => Validate(d, n) = Err(Inline.error)
  BY DEF Validate

\* So is a buffer whose tails lie where an accepting walk would find them.
LEMMA PlacedIsValid ==
    ASSUME NEW n \in Nat, NEW d \in [0 .. (n - 1) -> Byte],
           ValidateStorageLen(n).ok, InlineValid(d), NEW f, Places(d, n, TRUE, f)
    PROVE  Validate(d, n).ok /\ EncodedLen(d) = f[TailCount + 1]
<1>1. HeaderSize <= n
  BY StorageLen
<1>2. WalkTails(d, n, TRUE).ok /\ EncodedLen(d) = f[TailCount + 1]
  BY <1>1, PlacedIsAccepted
<1>. QED
  BY <1>2, AcceptedIsValid

\* Two buffers whose tails read alike.
TailsAlike(d, e) == ContentOf(e).tails = ContentOf(d).tails

\* The inline fields are no matter to the tails.
LEMMA InlineIsNoMatter ==
    ASSUME NEW n \in Nat, HeaderSize <= n, NEW d \in [0 .. (n - 1) -> Byte],
           NEW e \in [0 .. (n - 1) -> Byte], WalkTails(d, n, TRUE).ok,
           \A a \in 0 .. (n - 1) : a >= Inline.size => e[a] = d[a]
    PROVE  /\ WalkTails(e, n, TRUE).ok
           /\ EncodedLen(e) = EncodedLen(d)
           /\ Places(e, n, TRUE, TailOffset(d))
           /\ TailsAlike(d, e)
<1>. DEFINE f == TailOffset(d)
<1>1. /\ Places(d, n, TRUE, f) /\ EncodedLen(d) = f[TailCount + 1]
      /\ \A i \in 1 .. (TailCount + 1) :
           f[i] \in Nat /\ HeaderSize <= f[i] /\ f[i] <= n /\ f[i] <= Capacity[i - 1]
  <2>1. TRUE \in BOOLEAN
    OBVIOUS
  <2>. QED
    BY <2>1, AcceptedReplay DEF EncodedLen
<1>2. /\ Inline.size \in Nat /\ Inline.size <= HeaderSize /\ HeaderSize \in Nat
      /\ \A i \in TailId : i \in 1 .. (TailCount + 1) /\ i + 1 \in 1 .. (TailCount + 1)
  BY SMTT(60), SlotOrder, SchemaFacts, SchemaAssumption, PrefixesAssumption
<1>. HIDE DEF f
<1>3. \A i \in TailId : f[i] <= f[i + 1]
  BY <1>1, PlacesAreOrdered
<1>4. ASSUME NEW i \in TailId
      PROVE  /\ TailAccepted(e, n, i, f[i], TRUE) /\ f[i + 1] = TailEnd(e, i, f[i])
             /\ PlacedBytes(e, i, f[i]) = PlacedBytes(d, i, f[i])
  <2>. DEFINE off == f[i]
              len == f[i + 1] - f[i]
  <2>1. off \in Nat /\ HeaderSize <= off /\ off <= n /\ off <= Capacity[i - 1]
        /\ len \in Nat /\ off + len = f[i + 1] /\ off + len <= n
    BY <1>1, <1>2, <1>3
  <2>2. Holds(d, n, i, off, len, TRUE)
    BY <1>1, <2>1 DEF Places, Holds
  <2>. HIDE DEF off, len
  <2>3. Alike(d, Slot[i], e, Slot[i], SlotWidth(i))
    <3>1. /\ Slot[i] \in Nat /\ SlotWidth(i) \in Nat
          /\ Inline.size <= Slot[i] /\ Slot[i] + SlotWidth(i) <= HeaderSize
      BY SlotOrder, SlotFacts
    <3>2. \A k \in 0 .. (SlotWidth(i) - 1) : Slot[i] + k \in 0 .. (n - 1) /\ Slot[i] + k >= Inline.size
      BY <1>2, <3>1
    <3>. QED
      BY <3>2 DEF Alike
  <2>4. Alike(d, off, e, off, len)
    <3>1. \A k \in 0 .. (len - 1) : off + k \in 0 .. (n - 1) /\ off + k >= Inline.size
      BY <1>2, <2>1
    <3>. QED
      BY <3>1 DEF Alike
  <2>5. Holds(e, n, i, off, len, TRUE)
    BY <2>1, <2>2, <2>3, <2>4, CopyHolds
  <2>6. PlacedBytes(e, i, off) = PlacedBytes(d, i, off)
    <3>. DEFINE full == TRUE
    <3>1. Holds(d, n, i, off, len, full)
      BY <2>2
    <3>. HIDE DEF full
    <3>. QED
      BY <2>1, <2>3, <2>4, <3>1, CopyShows
  <2>. QED
    BY <2>1, <2>5, <2>6 DEF off, Holds
<1>5. Places(e, n, TRUE, f)
  BY <1>1, <1>4 DEF Places
<1>6. \A i \in 1 .. (TailCount + 1) : TailOffset(e)[i] = f[i]
  <2>. DEFINE full == TRUE
  <2>1. Places(e, n, full, f)
    BY <1>5
  <2>. HIDE DEF full
  <2>. QED
    BY <2>1, PlacedIsReplayed
<1>7. ASSUME NEW i \in TailId PROVE TailBytes(e, i) = TailBytes(d, i)
  <2>. DEFINE off == f[i]
              full == TRUE
  <2>1. /\ off \in Nat /\ off = TailOffset(e)[i] /\ off = TailOffset(d)[i]
        /\ TailAccepted(e, n, i, off, full) /\ TailAccepted(d, n, i, off, full)
    BY <1>1, <1>2, <1>4, <1>6 DEF Places, f
  <2>2. PlacedBytes(e, i, off) = PlacedBytes(d, i, off)
    BY <1>4
  <2>. HIDE DEF off, full
  <2>3. TailBytes(e, i) = PlacedBytes(e, i, off)
    BY <2>1, AccessorReads
  <2>4. TailBytes(d, i) = PlacedBytes(d, i, off)
    BY <2>1, AccessorReads
  <2>. QED
    BY <2>2, <2>3, <2>4
<1>8. TailsAlike(d, e)
  BY <1>7 DEF TailsAlike, ContentOf
<1>. QED
  BY <1>1, <1>5, <1>8, PlacedIsAccepted DEF f

\* They are accepted or not together, and end at the same byte.
LEMMA SameTails ==
    ASSUME NEW n \in Nat, HeaderSize <= n, NEW d \in [0 .. (n - 1) -> Byte],
           NEW e \in [0 .. (n - 1) -> Byte], WalkTails(d, n, TRUE).ok,
           \A a \in 0 .. (n - 1) : a >= Inline.size => e[a] = d[a]
    PROVE  /\ WalkTails(e, n, TRUE).ok
           /\ EncodedLen(e) = EncodedLen(d)
           /\ Places(e, n, TRUE, TailOffset(d))
  BY InlineIsNoMatter

-----------------------------------------------------------------------------
(* Tails as a writer stores them.                                          *)

\* A length its prefix can hold is a usize.
LEMMA PrefixHolds ==
    ASSUME NEW pfx \in Width, NEW value \in Nat, CheckPrefix(value, pfx).ok
    PROVE  value <= PrefixMax(pfx) /\ value <= UsizeMax
<1>1. value <= PrefixMax(pfx)
  BY DEF CheckPrefix, Err
<1>2. /\ UsizeMax \in Nat /\ Radix \in Nat /\ Radix > 2 /\ Radix * Radix \in Nat
      /\ Radix * Radix - 1 <= UsizeMax
  BY SchemaAssumption, PrefixesAssumption
<1>3. Radix <= Radix * Radix
  BY <1>2
<1>4. CASE pfx = 1
  BY <1>1, <1>2, <1>3, <1>4 DEF PrefixMax, Weight
<1>5. CASE pfx = 2
  <2>1. PrefixMax(pfx) = Radix * Radix - 1
    BY <1>5 DEF PrefixMax, Weight
  <2>. QED
    BY <1>1, <1>2, <2>1
<1>6. CASE pfx = 4
  <2>1. PrefixMax(pfx) = IF Weight(4) - 1 <= UsizeMax THEN Weight(4) - 1 ELSE -1
    BY <1>6 DEF PrefixMax
  <2>2. Weight(4) \in Nat
    BY WeightNat
  <2>. QED
    BY <1>1, <1>2, <2>1, <2>2
<1>7. CASE pfx = 8
  BY <1>1, <1>7 DEF PrefixMax
<1>. QED
  BY <1>1, <1>4, <1>5, <1>6, <1>7 DEF Width

\* The bytes of a payload are those of d from `off` on.
Carries(d, off, bytes) == \A k \in 1 .. Len(bytes) : d[off + k - 1] = bytes[k]

\* `bytes` are a payload of `count` elements that tail i can store.
Storable(i, count, bytes) ==
    /\ count <= Tails[i].max
    /\ CheckPrefix(count, Tails[i].pfx).ok
    /\ Len(bytes) = count * Tails[i].size
    /\ \A k \in 1 .. Len(bytes) : bytes[k] \in Tails[i].ok

\* A payload behind its prefix, in the header or in front of it, is a tail.
LEMMA StoredTailHolds ==
    ASSUME NEW n \in Nat, HeaderSize <= n, NEW d \in [0 .. (n - 1) -> Byte], NEW i \in TailId,
           NEW off \in Nat, NEW count \in Nat, NEW bytes \in Seq(Byte), Storable(i, count, bytes),
           Tails[i].opt => d[Slot[i]] = 1 /\ Written(d, off, Tails[i].pfx, count),
           ~Tails[i].opt => Written(d, Slot[i], Tails[i].pfx, count),
           Carries(d, PayloadFrom(i, off), bytes),
           NEW len \in Nat, len = (IF Tails[i].opt THEN Tails[i].pfx ELSE 0) + Len(bytes),
           off + len <= n
    PROVE  Holds(d, n, i, off, len, TRUE)
<1>. DEFINE t == Tails[i]
            head == IF t.opt THEN t.pfx ELSE 0
            payload == count * t.size
<1>1. /\ t.pfx \in Width /\ t.pfx \in Nat /\ t.opt \in BOOLEAN /\ t.size \in Nat /\ head \in Nat
      /\ Slot[i] \in Nat /\ HeaderSize \in Nat
  BY TailFacts, SlotFacts, SchemaFacts
<1>2. count <= PrefixMax(t.pfx) /\ count <= UsizeMax
  BY <1>1, PrefixHolds DEF Storable
<1>3. Len(bytes) \in Nat /\ payload \in Nat /\ Len(bytes) = payload /\ count <= t.max
  BY <1>1 DEF Storable
<1>4. len = head + payload /\ (t.opt => head = t.pfx)
  BY <1>3
<1>5. PayloadFrom(i, off) = off + head
  BY <1>1 DEF PayloadFrom
<1>. HIDE DEF head, payload
<1>6. t.opt => off + t.pfx <= n
  BY SMTT(60), <1>1, <1>3, <1>4
<1>7. ~t.opt => Slot[i] + t.pfx <= n
  BY <1>1, SlotFacts
<1>8. StoredCount(d, i, off) = count
  <2>1. ASSUME t.opt PROVE RawPrefix(d, off, t.pfx) = count
    <3>1. Written(d, off, t.pfx, count) /\ off + t.pfx <= n
      BY <1>6, <2>1
    <3>. QED
      BY <1>1, <1>2, <3>1, WrittenPrefix
  <2>2. ASSUME ~t.opt PROVE RawPrefix(d, Slot[i], t.pfx) = count
    <3>1. Written(d, Slot[i], t.pfx, count) /\ Slot[i] + t.pfx <= n
      BY <1>7, <2>2
    <3>. QED
      BY <1>1, <1>2, <3>1, WrittenPrefix
  <2>. QED
    BY <1>1, <2>1, <2>2 DEF StoredCount
<1>9. t.opt => d[Slot[i]] = 1
  OBVIOUS
<1>. DEFINE from == PayloadFrom(i, off)
            end == from + StoredCount(d, i, off) * t.size
            m == Len(bytes)
<1>10. from \in Nat /\ from + m = off + len /\ end = off + len /\ m \in Nat
  <2>1. from + m = off + len
    BY <1>1, <1>3, <1>4, <1>5
  <2>2. end = from + m
    BY <1>3, <1>8 DEF payload
  <2>. QED
    BY <1>1, <1>3, <1>5, <2>1, <2>2
<1>11. ASSUME NEW a \in from .. (end - 1)
       PROVE  d[a] \in t.ok
  <2>. DEFINE k == a - from + 1
  <2>. HIDE DEF from, end, m
  <2>1. k \in 1 .. m /\ from + k - 1 = a
    BY <1>10
  <2>2. d[a] = bytes[k]
    BY <2>1 DEF Carries, from, m
  <2>. QED
    BY <2>1, <2>2 DEF Storable, m
<1>12. TailAccepted(d, n, i, off, TRUE)
  <2>1. \A a \in from .. (end - 1) : d[a] \in t.ok
    BY <1>11
  <2>2. end <= n
    BY <1>10
  <2>3. StoredCount(d, i, off) <= UsizeMax /\ StoredCount(d, i, off) <= t.max
    BY <1>2, <1>3, <1>8
  <2>. QED
    BY <1>6, <1>9, <2>1, <2>2, <2>3 DEF TailAccepted
<1>13. TailEnd(d, i, off) = off + len
  <2>1. TailEnd(d, i, off) = end
    BY <1>9 DEF TailEnd
  <2>. QED
    BY <1>10, <2>1
<1>. QED
  BY <1>12, <1>13 DEF Holds

\* A tail of d whose accessor returns `bytes`.
Shows(d, n, i, off, len, bytes) ==
    /\ Holds(d, n, i, off, len, TRUE)
    /\ PlacedBytes(d, i, off) = [present |-> TRUE, bytes |-> bytes]

\* A tail that is written shows what was written.
LEMMA StoredTailShows ==
    ASSUME NEW n \in Nat, HeaderSize <= n, NEW d \in [0 .. (n - 1) -> Byte], NEW i \in TailId,
           NEW off \in Nat, NEW count \in Nat, NEW bytes \in Seq(Byte), Storable(i, count, bytes),
           Tails[i].opt => d[Slot[i]] = 1 /\ Written(d, off, Tails[i].pfx, count),
           ~Tails[i].opt => Written(d, Slot[i], Tails[i].pfx, count),
           Carries(d, PayloadFrom(i, off), bytes),
           NEW len \in Nat, len = (IF Tails[i].opt THEN Tails[i].pfx ELSE 0) + Len(bytes),
           off + len <= n
    PROVE  Shows(d, n, i, off, len, bytes)
<1>. DEFINE t == Tails[i]
            head == IF t.opt THEN t.pfx ELSE 0
            from == PayloadFrom(i, off)
            stored == StoredCount(d, i, off)
            m == stored * t.size
<1>1. Holds(d, n, i, off, len, TRUE)
  BY StoredTailHolds
<1>2. TailAccepted(d, n, i, off, TRUE) /\ TailEnd(d, i, off) = off + len
  BY <1>1 DEF Holds
<1>3. /\ t.pfx \in Nat /\ t.opt \in BOOLEAN /\ head \in Nat /\ from = off + head
      /\ ~(t.opt /\ d[Slot[i]] = 0) /\ Len(bytes) \in Nat
  BY TailFacts DEF PayloadFrom
<1>4. stored <= UsizeMax /\ (t.opt => off + t.pfx <= n) /\ off + len = from + m
  BY <1>2, <1>3 DEF TailAccepted, TailEnd
<1>5. m \in Nat
  BY <1>4, StoredCountNat
<1>. HIDE DEF from, stored, m, head
<1>6. m = Len(bytes)
  <2>1. len = head + Len(bytes)
    BY DEF head
  <2>. QED
    BY <1>3, <1>4, <1>5, <2>1
<1>7. PlacedBytes(d, i, off) = [present |-> TRUE, bytes |-> [k \in 1 .. m |-> d[from + k - 1]]]
  BY <1>3 DEF PlacedBytes, from, m, stored
<1>8. bytes = [k \in 1 .. m |-> d[from + k - 1]]
  <2>1. bytes = [k \in 1 .. Len(bytes) |-> bytes[k]]
    OBVIOUS
  <2>2. \A k \in 1 .. m : d[from + k - 1] = bytes[k]
    BY <1>6 DEF Carries, from
  <2>. QED
    BY <1>6, <2>1, <2>2
<1>. QED
  BY <1>1, <1>7, <1>8 DEF Shows

-----------------------------------------------------------------------------
(* A value and its encoding.                                               *)

\* Stretches that follow one another join to one.
LEMMA BytesJoin ==
    ASSUME NEW n \in Nat, NEW d \in [0 .. (n - 1) -> Byte], NEW a \in Nat, NEW b \in Nat,
           NEW c \in Nat, a + b + c <= n
    PROVE  BytesAt(d, a, b) \o BytesAt(d, a + b, c) = BytesAt(d, a, b + c)
<1>. DEFINE p == a + b
            m == b + c
            s == BytesAt(d, a, b)
            t == BytesAt(d, p, c)
            u == BytesAt(d, a, m)
<1>1. /\ p \in Nat /\ m \in Nat /\ a + b <= n /\ p + c <= n /\ a + m <= n /\ p = a + b /\ m = b + c
  OBVIOUS
<1>. HIDE DEF p, m
<1>2. s \in Seq(Byte) /\ Len(s) = b /\ \A k \in 1 .. b : s[k] = d[a + k - 1]
  <2>1. a + b <= n
    BY <1>1
  <2>. QED
    BY <2>1, BytesAtFacts, Zenon
<1>3. t \in Seq(Byte) /\ Len(t) = c /\ \A k \in 1 .. c : t[k] = d[p + k - 1]
  <2>1. p \in Nat /\ p + c <= n
    BY <1>1
  <2>. QED
    BY <2>1, BytesAtFacts, Zenon
<1>4. u \in Seq(Byte) /\ Len(u) = m /\ \A k \in 1 .. m : u[k] = d[a + k - 1]
  <2>1. m \in Nat /\ a + m <= n
    BY <1>1
  <2>. QED
    BY <2>1, BytesAtFacts, Zenon
<1>. HIDE DEF s, t, u
<1>5. s \o t \in Seq(Byte) /\ Len(s \o t) = m
  BY <1>1, <1>2, <1>3, Concatenated
<1>6. ASSUME NEW k \in 1 .. m PROVE (s \o t)[k] = u[k]
  <2>1. CASE k <= b
    BY <1>1, <1>2, <1>3, <1>4, <2>1
  <2>2. CASE ~(k <= b)
    <3>1. k - b \in 1 .. c /\ p + (k - b) - 1 = a + k - 1
      BY <1>1, <2>2
    <3>2. (s \o t)[k] = t[k - b]
      BY <1>1, <1>2, <1>3, <2>2, Concatenated
    <3>. QED
      BY <1>3, <1>4, <3>1, <3>2
  <2>. QED
    BY <2>1, <2>2
<1>7. s \o t = u
  <2>. DEFINE v == s \o t
  <2>1. v \in Seq(Byte) /\ Len(v) = m /\ \A k \in 1 .. m : v[k] = u[k]
    BY <1>5, <1>6
  <2>. HIDE DEF v
  <2>2. v = u
    BY <1>4, <2>1
  <2>. QED
    BY <2>2 DEF v
<1>. QED
  BY <1>7 DEF s, t, u, p, m

\* The semantic walk accepts tail i at `off`.
Decodes(d, n, i, off) == TailAccepted(d, n, i, off, TRUE)

\* What the accessor of an accepted tail returns is a tail its field can hold,
\* whose reference encoding is the bytes of its slot and of its payload.
LEMMA TailEncoded ==
    ASSUME NEW n \in Nat, HeaderSize <= n, NEW d \in [0 .. (n - 1) -> Byte], NEW i \in TailId,
           NEW off \in Nat, off <= n, off <= Capacity[i - 1],
           Decodes(d, n, i, off), NEW tail, tail = PlacedBytes(d, i, off)
    PROVE  /\ Admissible(i, tail)
           /\ SlotBytes(i, tail) = BytesAt(d, Slot[i], SlotWidth(i))
           /\ PayloadBytes(i, tail) = BytesAt(d, off, TailEnd(d, i, off) - off)
           /\ TailLen(i, tail) = TailEnd(d, i, off) - off
<1>. DEFINE t == Tails[i]
            count == StoredCount(d, i, off)
            from == PayloadFrom(i, off)
            payload == count * t.size
<1>1. /\ t.pfx \in Width /\ t.pfx \in Nat /\ t.pfx > 0 /\ t.opt \in BOOLEAN
      /\ t.size \in Nat /\ t.size > 0 /\ t.max \in Nat
      /\ Slot[i] \in Nat /\ Slot[i] < HeaderSize /\ HeaderSize \in Nat
      /\ ~t.opt => Slot[i] + t.pfx <= HeaderSize
  BY TailFacts, SlotFacts, SchemaFacts
<1>2. CASE t.opt /\ d[Slot[i]] = 0
  <2>1. tail.present = FALSE /\ tail.bytes = << >>
    BY <1>2 DEF PlacedBytes
  <2>2. TailEnd(d, i, off) = off /\ off - off = 0
    BY <1>2 DEF TailEnd
  <2>3. Len(tail.bytes) = 0 /\ DOMAIN tail.bytes = {}
    BY <2>1
  <2>4. 0 % t.size = 0 /\ 0 \div t.size = 0
    BY <1>1
  <2>5. Admissible(i, tail)
    BY <1>1, <1>2, <2>1, <2>3, <2>4 DEF Admissible, Count
  <2>6. SlotBytes(i, tail) = BytesAt(d, Slot[i], SlotWidth(i))
    <3>1. SlotBytes(i, tail) = <<0>> /\ SlotWidth(i) = 1
      BY <1>2, <2>1 DEF SlotBytes, SlotWidth
    <3>2. BytesAt(d, Slot[i], 1) = [k \in 1 .. 1 |-> d[Slot[i] + k - 1]]
      BY DEF BytesAt
    <3>3. \A k \in 1 .. 1 : d[Slot[i] + k - 1] = 0
      <4>1. \A k \in 1 .. 1 : Slot[i] + k - 1 = Slot[i]
        BY <1>1
      <4>. QED
        BY <1>2, <4>1
    <3>4. [k \in 1 .. 1 |-> d[Slot[i] + k - 1]] = <<0>>
      BY <3>3
    <3>. QED
      BY <3>1, <3>2, <3>4
  <2>7. PayloadBytes(i, tail) = BytesAt(d, off, 0)
    <3>1. PayloadBytes(i, tail) = << >>
      BY <2>1 DEF PayloadBytes
    <3>2. [k \in 1 .. 0 |-> d[off + k - 1]] = << >>
      OBVIOUS
    <3>. QED
      BY <3>1, <3>2 DEF BytesAt
  <2>8. TailLen(i, tail) = 0
    BY <2>1, <2>3 DEF TailLen
  <2>. QED
    BY <2>2, <2>5, <2>6, <2>7, <2>8
<1>3. CASE ~(t.opt /\ d[Slot[i]] = 0)
  <2>1. /\ t.opt => d[Slot[i]] = 1 /\ off + t.pfx <= n
        /\ count <= UsizeMax /\ count <= t.max
        /\ from + payload <= n
    BY <1>3 DEF TailAccepted, Decodes
  <2>15. \A a \in from .. ((from + payload) - 1) : d[a] \in t.ok
    BY <1>3 DEF TailAccepted, Decodes
  <2>2. count \in Nat /\ payload \in Nat /\ from \in Nat
    BY <2>1, StoredCountNat
  <2>3. tail.present = TRUE /\ tail.bytes = BytesAt(d, from, payload)
    BY <1>3 DEF PlacedBytes, BytesAt
  <2>4. from = off + (IF t.opt THEN t.pfx ELSE 0)
    BY <1>1 DEF PayloadFrom
  <2>5. TailEnd(d, i, off) = from + payload
    BY <1>3 DEF TailEnd
  <2>6. count = RawPrefix(d, IF t.opt THEN off ELSE Slot[i], t.pfx)
    BY DEF StoredCount
  <2>16. payload = count * t.size + 0 /\ 0 < t.size
    BY <1>1, <2>2
  <2>. HIDE DEF payload, from, count
  <2>7. payload \div t.size = count /\ payload % t.size = 0
    BY <1>1, <2>2, <2>16, Quotient
  <2>8. /\ tail.bytes \in Seq(Byte) /\ Len(tail.bytes) = payload
        /\ \A k \in 1 .. payload : tail.bytes[k] = d[from + k - 1]
    <3>1. from + payload <= n
      BY <2>1
    <3>2. /\ BytesAt(d, from, payload) \in Seq(Byte) /\ Len(BytesAt(d, from, payload)) = payload
          /\ \A k \in 1 .. payload : BytesAt(d, from, payload)[k] = d[from + k - 1]
      BY <2>2, <3>1, BytesAtFacts, Zenon
    <3>. QED
      BY <2>3, <3>2
  <2>9. Count(i, tail) = count
    BY <2>7, <2>8 DEF Count
  <2>10. Admissible(i, tail)
    <3>1. ASSUME NEW k \in DOMAIN tail.bytes PROVE tail.bytes[k] \in t.ok
      <4>1. k \in 1 .. payload
        BY <2>8
      <4>2. from + k - 1 \in from .. ((from + payload) - 1)
        BY <2>2, <4>1
      <4>. QED
        BY <2>15, <2>8, <4>1, <4>2
    <3>. QED
      BY <2>1, <2>3, <2>7, <2>8, <2>9, <3>1 DEF Admissible
  <2>11. ASSUME NEW a \in Nat, a + t.pfx <= n, count = RawPrefix(d, a, t.pfx)
         PROVE  PrefixBytes(count, t.pfx) = BytesAt(d, a, t.pfx)
    <3>1. ASSUME NEW k \in 1 .. t.pfx PROVE LeByte(count, k - 1) = d[a + k - 1]
      <4>1. k - 1 \in 0 .. (t.pfx - 1) /\ a + (k - 1) = a + k - 1
        BY <1>1, <2>11
      <4>2. LeByte(RawPrefix(d, a, t.pfx), k - 1) = d[a + (k - 1)]
        BY <1>1, <2>11, <4>1, DecodedDigits
      <4>. QED
        BY <2>11, <4>1, <4>2
    <3>. QED
      BY <3>1 DEF PrefixBytes, BytesAt
  <2>12. SlotBytes(i, tail) = BytesAt(d, Slot[i], SlotWidth(i))
    <3>1. CASE t.opt
      <4>1. SlotBytes(i, tail) = <<1>> /\ SlotWidth(i) = 1
        BY <2>3, <3>1 DEF SlotBytes, SlotWidth
      <4>2. BytesAt(d, Slot[i], 1) = [k \in 1 .. 1 |-> d[Slot[i] + k - 1]]
        BY DEF BytesAt
      <4>3. \A k \in 1 .. 1 : d[Slot[i] + k - 1] = 1
        <5>1. \A k \in 1 .. 1 : Slot[i] + k - 1 = Slot[i]
          BY <1>1
        <5>. QED
          BY <2>1, <3>1, <5>1
      <4>4. [k \in 1 .. 1 |-> d[Slot[i] + k - 1]] = <<1>>
        BY <4>3
      <4>. QED
        BY <4>1, <4>2, <4>4
    <3>2. CASE ~t.opt
      <4>1. SlotBytes(i, tail) = PrefixBytes(count, t.pfx) /\ SlotWidth(i) = t.pfx
        BY <2>9, <3>2 DEF SlotBytes, SlotWidth
      <4>2. Slot[i] + t.pfx <= n /\ count = RawPrefix(d, Slot[i], t.pfx)
        BY <1>1, <2>6, <3>2
      <4>. QED
        BY <1>1, <2>11, <4>1, <4>2
    <3>. QED
      BY <1>1, <3>1, <3>2
  <2>13. PayloadBytes(i, tail) = BytesAt(d, off, TailEnd(d, i, off) - off)
    <3>1. CASE t.opt
      <4>1. PayloadBytes(i, tail) = PrefixBytes(count, t.pfx) \o BytesAt(d, from, payload)
        BY <2>3, <2>9, <3>1 DEF PayloadBytes
      <4>2. PrefixBytes(count, t.pfx) = BytesAt(d, off, t.pfx)
        BY <2>1, <2>6, <2>11, <3>1
      <4>3. from = off + t.pfx /\ off + t.pfx + payload <= n
            /\ TailEnd(d, i, off) - off = t.pfx + payload
        BY <1>1, <2>1, <2>2, <2>4, <2>5, <3>1
      <4>4. BytesAt(d, off, t.pfx) \o BytesAt(d, off + t.pfx, payload) = BytesAt(d, off, t.pfx + payload)
        <5>. DEFINE w == t.pfx
        <5>1. w \in Nat
          BY <1>1
        <5>2. off + w + payload <= n
          BY <4>3
        <5>. HIDE DEF w
        <5>3. BytesAt(d, off, w) \o BytesAt(d, off + w, payload) = BytesAt(d, off, w + payload)
          BY <2>2, <5>1, <5>2, BytesJoin
        <5>. QED
          BY <5>3 DEF w
      <4>. QED
        BY <4>1, <4>2, <4>3, <4>4
    <3>2. CASE ~t.opt
      <4>1. PayloadBytes(i, tail) = BytesAt(d, from, payload)
        BY <2>3, <3>2 DEF PayloadBytes
      <4>2. from = off /\ TailEnd(d, i, off) - off = payload
        BY <1>1, <2>2, <2>4, <2>5, <3>2
      <4>. QED
        BY <4>1, <4>2
    <3>. QED
      BY <1>1, <3>1, <3>2
  <2>14. TailLen(i, tail) = TailEnd(d, i, off) - off
    BY <1>1, <2>2, <2>3, <2>4, <2>5, <2>8 DEF TailLen
  <2>. QED
    BY <2>10, <2>12, <2>13, <2>14
<1>. QED
  BY <1>2, <1>3

\* Two runs over the tails that start alike and take the same steps.
RunAlike(f, g) == f[0] = g[0] /\ \A i \in TailId : f[i - 1] = g[i - 1] => f[i] = g[i]

\* Two runs over the tails that start alike and go on alike are the same.
LEMMA SameRun ==
    ASSUME NEW f, NEW g, RunAlike(f, g)
    PROVE  \A i \in 0 .. TailCount : f[i] = g[i]
<1>. DEFINE S == {i \in 0 .. TailCount : f[i] = g[i]}
<1>1. 0 \in S
  BY SchemaFacts DEF RunAlike
<1>2. ASSUME NEW i \in 1 .. TailCount, i - 1 \in S PROVE i \in S
  BY <1>2 DEF TailId, RunAlike
<1>3. \A i \in 0 .. TailCount : i \in S
  <2>. HIDE DEF S
  <2>. QED
    BY <1>1, <1>2, SchemaFacts, RangeInduction
<1>. QED
  BY <1>3

\* The length of a value adds up over its tails.
LEMMA LengthRuns ==
    ASSUME NEW content, \A i \in TailId : TailLen(i, content.tails[i]) \in Nat
    PROVE  /\ LengthTo(content)[0] = HeaderSize
           /\ \A i \in TailId :
                LengthTo(content)[i] = LengthTo(content)[i - 1] + TailLen(i, content.tails[i])
           /\ \A i \in 0 .. TailCount : LengthTo(content)[i] \in Nat
<1>. DEFINE V == [i \in 0 .. TailCount |-> Nat]
            G == [p \in TailId \X Nat |-> p[2] + TailLen(p[1], content.tails[p[1]])]
            Rec(f) == [i \in 0 .. TailCount |->
                          IF i = 0 THEN HeaderSize
                          ELSE f[i - 1] + TailLen(i, content.tails[i])]
            h == LengthTo(content)
<1>1. ASSUME NEW i \in TailId, NEW x \in Nat
      PROVE  /\ G[<<i, x>>] = x + TailLen(i, content.tails[i])
             /\ x + TailLen(i, content.tails[i]) \in Nat
  OBVIOUS
<1>2. HeaderSize \in V[0] /\ \A i \in 1 .. TailCount : \A x \in V[i - 1] : G[<<i, x>>] \in V[i]
  <2>1. \A i \in 0 .. TailCount : V[i] = Nat
    OBVIOUS
  <2>. HIDE DEF V, G
  <2>. QED
    BY <1>1, <2>1, SchemaFacts DEF TailId
<1>3. PICK f : Solves(TailCount, HeaderSize, G, V, f)
  <2>. HIDE DEF V, G
  <2>. QED
    BY <1>2, SchemaFacts, TypedRecursion
<1>4. \A i \in 0 .. TailCount : f[i] \in Nat
  BY <1>3 DEF Solves
<1>5. /\ f = [i \in 0 .. TailCount |-> f[i]] /\ f[0] = HeaderSize
      /\ \A i \in TailId : f[i] = f[i - 1] + TailLen(i, content.tails[i])
  <2>. HIDE DEF V, G
  <2>. QED
    BY <1>1, <1>3, <1>4, SchemaFacts DEF Solves, TailId
<1>6. \A g : /\ Rec(g) = [i \in 0 .. TailCount |-> Rec(g)[i]]
             /\ Rec(g)[0] = HeaderSize
             /\ \A i \in TailId : Rec(g)[i] = g[i - 1] + TailLen(i, content.tails[i])
  BY SchemaFacts
<1>7. f = Rec(f)
  <2>. HIDE DEF Rec
  <2>1. ASSUME NEW i \in 0 .. TailCount PROVE f[i] = Rec(f)[i]
    <3>1. CASE i = 0
      BY <1>5, <1>6, <3>1
    <3>2. CASE i # 0
      <4>1. i \in TailId
        BY <3>2, SchemaFacts DEF TailId
      <4>. QED
        BY <1>5, <1>6, <4>1, Zenon
    <3>. QED
      BY <3>1, <3>2
  <2>2. Rec(f) = [i \in 0 .. TailCount |-> Rec(f)[i]]
    BY <1>6
  <2>. QED
    BY <1>5, <2>1, <2>2
<1>8. h = Rec(h)
  BY <1>7, Zenon DEF LengthTo
<1>. HIDE DEF Rec, h
<1>9. h[0] = HeaderSize /\ \A i \in TailId : h[i] = h[i - 1] + TailLen(i, content.tails[i])
  BY <1>6, <1>8
<1>10. \A i \in 0 .. TailCount : h[i] = f[i]
  <2>1. RunAlike(h, f)
    BY <1>5, <1>9 DEF RunAlike
  <2>. QED
    BY <2>1, SameRun
<1>. QED
  BY <1>4, <1>9, <1>10 DEF h

\* The slots of a value follow its inline bytes, and its payloads one another.
LEMMA HeaderRuns ==
    ASSUME NEW content, NEW z, z = [k \in 1 .. Inline.size |-> content.inline[k - 1]],
           NEW g, g = [i \in 0 .. TailCount |-> g[i]], g[0] = z,
           \A i \in TailId : g[i] = g[i - 1] \o SlotBytes(i, content.tails[i])
    PROVE  HeaderTo(content)[TailCount] = g[TailCount]
<1>. DEFINE Rec(f) == [i \in 0 .. TailCount |->
                          IF i = 0 THEN [k \in 1 .. Inline.size |-> content.inline[k - 1]]
                          ELSE f[i - 1] \o SlotBytes(i, content.tails[i])]
            h == HeaderTo(content)
<1>1. \A f : /\ Rec(f) = [i \in 0 .. TailCount |-> Rec(f)[i]]
             /\ Rec(f)[0] = z
             /\ \A i \in TailId : Rec(f)[i] = f[i - 1] \o SlotBytes(i, content.tails[i])
  <2>. SUFFICES ASSUME NEW f
                PROVE  /\ Rec(f) = [i \in 0 .. TailCount |-> Rec(f)[i]]
                       /\ Rec(f)[0] = z
                       /\ \A i \in TailId : Rec(f)[i] = f[i - 1] \o SlotBytes(i, content.tails[i])
    OBVIOUS
  <2>1. \A i \in 0 .. TailCount : Rec(f)[i] = IF i = 0 THEN z
                                             ELSE f[i - 1] \o SlotBytes(i, content.tails[i])
    BY Zenon
  <2>2. Rec(f) = [i \in 0 .. TailCount |-> Rec(f)[i]]
    BY Zenon
  <2>. HIDE DEF Rec
  <2>3. 0 \in 0 .. TailCount /\ \A i \in TailId : i # 0 /\ i \in 0 .. TailCount
    BY SchemaFacts
  <2>. QED
    BY <2>1, <2>2, <2>3, Zenon
<1>2. g = Rec(g)
  <2>. HIDE DEF Rec
  <2>1. ASSUME NEW i \in 0 .. TailCount PROVE g[i] = Rec(g)[i]
    <3>1. CASE i = 0
      BY <1>1, <3>1
    <3>2. CASE i # 0
      <4>1. i \in TailId
        BY <3>2, SchemaFacts DEF TailId
      <4>. QED
        BY <1>1, <4>1, Zenon
    <3>. QED
      BY <3>1, <3>2
  <2>2. Rec(g) = [i \in 0 .. TailCount |-> Rec(g)[i]]
    BY <1>1
  <2>. QED
    BY <2>1, <2>2
<1>3. h = Rec(h)
  BY <1>2, Zenon DEF HeaderTo
<1>. HIDE DEF Rec, h
<1>4. h[0] = g[0]
  BY <1>1, <1>3, Zenon
<1>5. ASSUME NEW i \in TailId, h[i - 1] = g[i - 1] PROVE h[i] = g[i]
  <2>1. h[i] = Rec(h)[i] /\ Rec(h)[i] = h[i - 1] \o SlotBytes(i, content.tails[i])
    BY <1>1, <1>3, Zenon
  <2>. QED
    BY <1>5, <2>1, Zenon
<1>6. \A i \in 0 .. TailCount : h[i] = g[i]
  <2>1. RunAlike(h, g)
    BY <1>4, <1>5, Zenon DEF RunAlike
  <2>. QED
    BY <2>1, SameRun, Zenon
<1>7. TailCount \in 0 .. TailCount
  BY SchemaFacts
<1>. QED
  BY <1>6, <1>7, Zenon DEF h

\* The payloads follow one another, each as its tail is encoded.
LEMMA BodyRuns ==
    ASSUME NEW content, NEW g, g = [i \in 0 .. TailCount |-> g[i]],
           g[0] = << >>,
           \A i \in TailId : g[i] = g[i - 1] \o PayloadBytes(i, content.tails[i])
    PROVE  BodyTo(content)[TailCount] = g[TailCount]
<1>. DEFINE Rec(f) == [i \in 0 .. TailCount |->
                          IF i = 0 THEN << >>
                          ELSE f[i - 1] \o PayloadBytes(i, content.tails[i])]
            h == BodyTo(content)
<1>1. \A f : /\ Rec(f) = [i \in 0 .. TailCount |-> Rec(f)[i]]
             /\ Rec(f)[0] = << >>
             /\ \A i \in TailId : Rec(f)[i] = f[i - 1] \o PayloadBytes(i, content.tails[i])
  BY SchemaFacts
<1>2. g = Rec(g)
  <2>. HIDE DEF Rec
  <2>1. ASSUME NEW i \in 0 .. TailCount PROVE g[i] = Rec(g)[i]
    <3>1. CASE i = 0
      BY <1>1, <3>1
    <3>2. CASE i # 0
      <4>1. i \in TailId
        BY <3>2, SchemaFacts DEF TailId
      <4>. QED
        BY <1>1, <4>1, Zenon
    <3>. QED
      BY <3>1, <3>2
  <2>2. Rec(g) = [i \in 0 .. TailCount |-> Rec(g)[i]]
    BY <1>1
  <2>. QED
    BY <2>1, <2>2
<1>3. h = Rec(h)
  BY <1>2, Zenon DEF BodyTo
<1>. HIDE DEF Rec, h
<1>4. h[0] = g[0]
  BY <1>1, <1>3, Zenon
<1>5. ASSUME NEW i \in TailId, h[i - 1] = g[i - 1] PROVE h[i] = g[i]
  <2>1. h[i] = Rec(h)[i] /\ Rec(h)[i] = h[i - 1] \o PayloadBytes(i, content.tails[i])
    BY <1>1, <1>3, Zenon
  <2>. QED
    BY <1>5, <2>1, Zenon
<1>6. \A i \in 0 .. TailCount : h[i] = g[i]
  <2>1. RunAlike(h, g)
    BY <1>4, <1>5, Zenon DEF RunAlike
  <2>. QED
    BY <2>1, SameRun, Zenon
<1>7. TailCount \in 0 .. TailCount
  BY SchemaFacts
<1>. QED
  BY <1>6, <1>7, Zenon DEF h

\* A buffer whose tails are placed is, up to the end of the last of them, the
\* reference encoding of what its accessors return, a value of the schema.
LEMMA ContentEncoded ==
    ASSUME NEW n \in Nat, HeaderSize <= n, NEW d \in [0 .. (n - 1) -> Byte],
           Places(d, n, TRUE, TailOffset(d))
    PROVE  /\ \A i \in TailId :
                /\ Admissible(i, ContentOf(d).tails[i])
                /\ TailLen(i, ContentOf(d).tails[i]) = TailOffset(d)[i + 1] - TailOffset(d)[i]
           /\ ContentLen(ContentOf(d)) = EncodedLen(d)
           /\ EncodedLen(d) \in Nat /\ EncodedLen(d) <= n
           /\ Encode(ContentOf(d)) = BytesAt(d, 0, EncodedLen(d))
<1>. DEFINE f == TailOffset(d)
            content == ContentOf(d)
<1>1. /\ HeaderSize \in Nat /\ TailCount \in Nat /\ TailId = 1 .. TailCount /\ Inline.size \in Nat
      /\ TailCount + 1 \in 1 .. (TailCount + 1) /\ 0 \in 0 .. TailCount /\ TailCount \in 0 .. TailCount
      /\ \A i \in TailId : /\ i \in 1 .. (TailCount + 1) /\ i + 1 \in 1 .. (TailCount + 1) /\ i \in Nat
                           /\ i - 1 \in 0 .. TailCount /\ i \in 0 .. TailCount /\ i # 0
                           /\ (i - 1) + 1 = i
  <2>1. Inline.size \in Nat
    BY SchemaAssumption
  <2>2. HeaderSize \in Nat /\ TailCount \in Nat
    BY SchemaFacts
  <2>. QED
    BY <2>1, <2>2 DEF TailId
<1>2. \A i \in 1 .. (TailCount + 1) :
         f[i] \in Nat /\ HeaderSize <= f[i] /\ f[i] <= n /\ f[i] <= Capacity[i - 1]
  <2>. HIDE DEF f
  <2>. QED
    BY PlacesBounded DEF f
<1>3. \A i \in TailId : f[i] <= f[i + 1]
  <2>. HIDE DEF f
  <2>. QED
    BY PlacesAreOrdered DEF f
<1>4. /\ f[1] = HeaderSize
      /\ \A i \in TailId : TailAccepted(d, n, i, f[i], TRUE) /\ f[i + 1] = TailEnd(d, i, f[i])
  BY DEF Places
<1>5. EncodedLen(d) = f[TailCount + 1]
  BY DEF EncodedLen
<1>6. /\ content.inline = [a \in 0 .. (Inline.size - 1) |-> d[a]]
      /\ \A i \in TailId : content.tails[i] = TailBytes(d, i)
  BY DEF ContentOf
<1>. HIDE DEF content
<1>7. ASSUME NEW i \in TailId
      PROVE  /\ Admissible(i, content.tails[i])
             /\ SlotBytes(i, content.tails[i]) = BytesAt(d, Slot[i], SlotWidth(i))
             /\ PayloadBytes(i, content.tails[i]) = BytesAt(d, f[i], f[i + 1] - f[i])
             /\ TailLen(i, content.tails[i]) = f[i + 1] - f[i]
  <2>. DEFINE off == f[i]
              tail == content.tails[i]
  <2>1. off \in Nat /\ off <= n /\ off <= Capacity[i - 1]
    BY <1>1, <1>2
  <2>2. TailAccepted(d, n, i, off, TRUE) /\ off = TailOffset(d)[i] /\ f[i + 1] = TailEnd(d, i, off)
    BY <1>4
  <2>. HIDE DEF off, f
  <2>3. tail = PlacedBytes(d, i, off)
    BY <1>6, <2>1, <2>2, AccessorReads
  <2>. HIDE DEF tail
  <2>4. /\ Admissible(i, tail)
        /\ SlotBytes(i, tail) = BytesAt(d, Slot[i], SlotWidth(i))
        /\ PayloadBytes(i, tail) = BytesAt(d, off, TailEnd(d, i, off) - off)
        /\ TailLen(i, tail) = TailEnd(d, i, off) - off
    <3>1. off <= n /\ off <= Capacity[i - 1] /\ off \in Nat
      BY <2>1
    <3>2. Decodes(d, n, i, off)
      BY <2>2 DEF Decodes
    <3>. QED
      BY <2>3, <3>1, <3>2, TailEncoded
  <2>. QED
    BY <2>2, <2>4 DEF off, tail
<1>. HIDE DEF f
<1>8. ASSUME NEW i \in TailId PROVE f[i + 1] - f[i] \in Nat /\ f[i] + (f[i + 1] - f[i]) = f[i + 1]
  <2>1. f[i] \in Nat /\ f[i + 1] \in Nat /\ f[i] <= f[i + 1]
    BY <1>1, <1>2, <1>3
  <2>. QED
    BY <2>1
<1>9. ContentLen(content) = f[TailCount + 1]
  <2>. DEFINE h == LengthTo(content)
              g == [i \in 0 .. TailCount |-> f[i + 1]]
  <2>1. h[0] = HeaderSize /\ \A i \in TailId : h[i] = h[i - 1] + TailLen(i, content.tails[i])
    <3>1. \A i \in TailId : TailLen(i, content.tails[i]) \in Nat
      BY <1>7, <1>8
    <3>. HIDE DEF h
    <3>. QED
      BY <3>1, LengthRuns DEF h
  <2>. HIDE DEF h
  <2>2. g[0] = HeaderSize /\ \A i \in TailId : g[i - 1] = f[i] /\ g[i] = f[i + 1]
    BY <1>1, <1>4
  <2>3. g[TailCount] = f[TailCount + 1]
    BY <1>1
  <2>. HIDE DEF g
  <2>4. RunAlike(h, g)
    BY <1>7, <1>8, <2>1, <2>2 DEF RunAlike
  <2>5. h[TailCount] = g[TailCount]
    BY <1>1, <2>4, SameRun
  <2>. QED
    BY <2>3, <2>5 DEF ContentLen, h
<1>10. HeaderTo(content)[TailCount] = BytesAt(d, 0, HeaderSize)
  <2>. DEFINE g == [i \in 0 .. TailCount |-> BytesAt(d, 0, HeaderEnd(i))]
              z == [k \in 1 .. Inline.size |-> content.inline[k - 1]]
  <2>1. z = BytesAt(d, 0, Inline.size)
    <3>1. \A k \in 1 .. Inline.size : content.inline[k - 1] = d[0 + k - 1]
      BY <1>1, <1>6
    <3>. QED
      BY <3>1 DEF BytesAt
  <2>2. g[0] = z
    BY <1>1, <2>1 DEF HeaderEnd
  <2>3. g[TailCount] = BytesAt(d, 0, HeaderSize)
    BY <1>1, SchemaAssumption, PrefixesAssumption
  <2>4. g = [i \in 0 .. TailCount |-> g[i]]
    BY Zenon
  <2>5. ASSUME NEW i \in TailId PROVE g[i] = g[i - 1] \o SlotBytes(i, content.tails[i])
    <3>1. /\ g[i - 1] = BytesAt(d, 0, HeaderEnd(i - 1)) /\ g[i] = BytesAt(d, 0, HeaderEnd(i))
          /\ HeaderEnd(i - 1) = Slot[i] /\ HeaderEnd(i) = Slot[i] + SlotWidth(i)
      BY <1>1, SchemaAssumption, PrefixesAssumption DEF HeaderEnd
    <3>. DEFINE b == Slot[i]
                c == SlotWidth(i)
    <3>2. b \in Nat /\ c \in Nat /\ 0 \in Nat /\ 0 + b + c <= n /\ 0 + b = b
      <4>1. Slot[i] \in Nat /\ SlotWidth(i) \in Nat /\ Slot[i] + SlotWidth(i) <= HeaderSize
        BY SlotOrder, SlotFacts
      <4>. QED
        BY <1>1, <4>1
    <3>3. SlotBytes(i, content.tails[i]) = BytesAt(d, b, c)
      BY <1>7
    <3>. HIDE DEF b, c
    <3>4. BytesAt(d, 0, b) \o BytesAt(d, 0 + b, c) = BytesAt(d, 0, b + c)
      BY <3>2, BytesJoin
    <3>. HIDE DEF g
    <3>. QED
      BY <3>1, <3>2, <3>3, <3>4 DEF b, c
  <2>. HIDE DEF g
  <2>6. HeaderTo(content)[TailCount] = g[TailCount]
    <3>. HIDE DEF z
    <3>1. z = [k \in 1 .. Inline.size |-> content.inline[k - 1]]
      BY DEF z
    <3>. QED
      BY <2>2, <2>4, <2>5, <3>1, HeaderRuns, Zenon
  <2>. QED
    BY <2>3, <2>6
<1>11. BodyTo(content)[TailCount] = BytesAt(d, HeaderSize, f[TailCount + 1] - HeaderSize)
  <2>. DEFINE g == [i \in 0 .. TailCount |-> BytesAt(d, HeaderSize, f[i + 1] - HeaderSize)]
  <2>1. g[0] = << >>
    <3>1. g[0] = BytesAt(d, HeaderSize, 0)
      BY <1>1, <1>4
    <3>2. [k \in 1 .. 0 |-> d[HeaderSize + k - 1]] = << >>
      OBVIOUS
    <3>. QED
      BY <3>1, <3>2 DEF BytesAt
  <2>2. g[TailCount] = BytesAt(d, HeaderSize, f[TailCount + 1] - HeaderSize)
    BY <1>1
  <2>3. g = [i \in 0 .. TailCount |-> g[i]]
    BY Zenon
  <2>4. ASSUME NEW i \in TailId PROVE g[i] = g[i - 1] \o PayloadBytes(i, content.tails[i])
    <3>1. g[i - 1] = BytesAt(d, HeaderSize, f[i] - HeaderSize) /\ g[i] = BytesAt(d, HeaderSize, f[i + 1] - HeaderSize)
      BY <1>1
    <3>. DEFINE b == f[i] - HeaderSize
                c == f[i + 1] - f[i]
    <3>2. /\ b \in Nat /\ c \in Nat /\ HeaderSize + b + c <= n /\ HeaderSize + b = f[i]
          /\ b + c = f[i + 1] - HeaderSize
      <4>1. f[i] \in Nat /\ f[i + 1] \in Nat /\ HeaderSize <= f[i] /\ f[i] <= f[i + 1] /\ f[i + 1] <= n
        BY <1>1, <1>2, <1>3
      <4>. QED
        BY <1>1, <4>1
    <3>3. PayloadBytes(i, content.tails[i]) = BytesAt(d, f[i], c)
      BY <1>7
    <3>4. g[i - 1] = BytesAt(d, HeaderSize, b)
      BY <3>1
    <3>. HIDE DEF g, b, c
    <3>5. BytesAt(d, HeaderSize, b) \o BytesAt(d, HeaderSize + b, c) = BytesAt(d, HeaderSize, b + c)
      BY <1>1, <3>2, BytesJoin
    <3>. QED
      BY <3>1, <3>2, <3>3, <3>4, <3>5
  <2>. HIDE DEF g
  <2>5. BodyTo(content)[TailCount] = g[TailCount]
    BY <2>1, <2>3, <2>4, BodyRuns, Zenon
  <2>. QED
    BY <2>2, <2>5
<1>12. Encode(content) = BytesAt(d, 0, f[TailCount + 1])
  <2>. DEFINE c == f[TailCount + 1] - HeaderSize
  <2>1. c \in Nat /\ 0 + HeaderSize + c <= n /\ 0 + HeaderSize = HeaderSize /\ HeaderSize + c = f[TailCount + 1]
    <3>1. f[TailCount + 1] \in Nat /\ HeaderSize <= f[TailCount + 1] /\ f[TailCount + 1] <= n
      BY <1>1, <1>2
    <3>. QED
      BY <1>1, <3>1
  <2>2. BodyTo(content)[TailCount] = BytesAt(d, HeaderSize, c)
    BY <1>11
  <2>. HIDE DEF c
  <2>3. BytesAt(d, 0, HeaderSize) \o BytesAt(d, 0 + HeaderSize, c) = BytesAt(d, 0, HeaderSize + c)
    BY <1>1, <2>1, BytesJoin
  <2>. QED
    BY <1>10, <2>1, <2>2, <2>3 DEF Encode
<1>. QED
  BY <1>1, <1>2, <1>5, <1>7, <1>9, <1>12 DEF content, f

-----------------------------------------------------------------------------
(* The invariant.                                                          *)

\* The account is bytes, and never changes.
Account == length \in Nat /\ account \in [0 .. (length - 1) -> Byte]

\* What holds between calls: an open view stands on a validated account and
\* knows its encoded length, and a native value came from such a view, was
\* converted without an error and stores what the accessors of the view showed.
ReaderInv ==
    /\ Account
    /\ view.state \in {"none", "open", "refused"}
    /\ view.state = "open" => Validate(account, length).ok /\ view.encodedLen = EncodedLen(account)
    /\ native.state # "none" => /\ Validate(account, length).ok
                                /\ native.state = "ok"
                                /\ Restored(native) = ContentOf(account)

\* A validated account holds a header, its inline fields are valid, and every
\* tail is where the replay places it.
LEMMA Validated ==
    ASSUME Account, Validate(account, length).ok
    PROVE  /\ HeaderSize <= length /\ length <= UsizeMax
           /\ InlineValid(account)
           /\ WalkTails(account, length, TRUE).ok
           /\ Validate(account, length) = Ok(EncodedLen(account))
           /\ Places(account, length, TRUE, TailOffset(account))
           /\ \A i \in 1 .. (TailCount + 1) :
                /\ TailOffset(account)[i] \in Nat /\ HeaderSize <= TailOffset(account)[i]
                /\ TailOffset(account)[i] <= length /\ TailOffset(account)[i] <= Capacity[i - 1]
  BY ValidAccount DEF Account

\* An accessor of a validated account returns an absent option, which has no
\* bytes, or whole elements, as many as the tail stores and within its capacity.
LEMMA AccessorCount ==
    ASSUME Account, Validate(account, length).ok, NEW i \in TailId
    PROVE  LET tail == TailBytes(account, i)
               count == Count(i, tail)
           IN  /\ tail.present \in BOOLEAN
               /\ tail = [present |-> tail.present, bytes |-> tail.bytes]
               /\ ~tail.present => tail.bytes = << >>
               /\ count \in Nat /\ count <= Tails[i].max
               /\ tail.bytes = [k \in 1 .. (count * Tails[i].size) |-> tail.bytes[k]]
               /\ Len(tail.bytes) = count * Tails[i].size
<1>. DEFINE t == Tails[i]
            start == TailOffset(account)[i]
            count == StoredCount(account, i, start)
            tail == TailBytes(account, i)
            n == Count(i, tail)
            Shown == /\ tail.present \in BOOLEAN
                     /\ tail = [present |-> tail.present, bytes |-> tail.bytes]
                     /\ ~tail.present => tail.bytes = << >>
                     /\ n \in Nat /\ n <= t.max
                     /\ tail.bytes = [k \in 1 .. (n * t.size) |-> tail.bytes[k]]
                     /\ Len(tail.bytes) = n * t.size
<1>1. t.size \in Nat /\ t.size > 0 /\ t.max \in Nat /\ t.opt \in BOOLEAN
  BY TailFacts
<1>2. start \in Nat /\ start <= length /\ TailAccepted(account, length, i, start, TRUE)
  <2>1. i \in 1 .. (TailCount + 1)
    BY SchemaFacts
  <2>. QED
    BY <2>1, Validated DEF Places
<1>3. ASSUME t.opt /\ account[Slot[i]] = 0
      PROVE  Shown
  <2>1. tail.bytes = << >>
    BY <1>3 DEF TailBytes
  <2>2. n = Len(tail.bytes) \div t.size
    BY DEF Count
  <2>3. 0 \div t.size = 0
    <3>. HIDE DEF t
    <3>. QED
      BY <1>1
  <2>4. tail = [present |-> FALSE, bytes |-> << >>]
    BY <1>3 DEF TailBytes
  <2>5. Len(<< >>) = 0 /\ 0 * t.size = 0 /\ << >> = [k \in 1 .. 0 |-> << >>[k]]
    BY <1>1
  <2>. HIDE DEF tail, t, n
  <2>6. n = 0
    BY <2>1, <2>2, <2>3, <2>5
  <2>7. tail.present = FALSE /\ tail = [present |-> tail.present, bytes |-> tail.bytes]
    BY <2>4
  <2>8. n * t.size = 0 /\ n \in Nat /\ n <= t.max
    BY <1>1, <2>6
  <2>9. tail.bytes = [k \in 1 .. (n * t.size) |-> tail.bytes[k]]
    BY <2>1, <2>5, <2>8
  <2>. QED
    BY <2>1, <2>5, <2>7, <2>8, <2>9
<1>4. ASSUME ~(t.opt /\ account[Slot[i]] = 0)
      PROVE  Shown
  <2>1. /\ t.opt => start + t.pfx <= length
        /\ count <= UsizeMax /\ count <= t.max
    BY <1>2, <1>4 DEF TailAccepted
  <2>2. count \in Nat /\ count * t.size \in Nat
    BY <1>2, <2>1, Validated, StoredCountNat DEF Account
  <2>3. Wrap(count) = count
    BY <2>1, <2>2, SchemaFacts DEF Wrap
  <2>4. (IF t.opt THEN CastPrefix(account, start, t.pfx) ELSE CastPrefix(account, Slot[i], t.pfx)) = count
    BY <1>1, <2>3 DEF CastPrefix, StoredCount
  <2>. DEFINE from == IF t.opt THEN start + t.pfx ELSE start
  <2>5. tail.bytes = [k \in 1 .. (count * t.size) |-> account[from + k - 1]]
    BY <1>4, <2>4 DEF TailBytes
  <2>6. Len(tail.bytes) = count * t.size
    <3>. DEFINE m == count * t.size
    <3>1. m \in Nat
      BY <2>2
    <3>. HIDE DEF m, from, tail
    <3>2. Len([k \in 1 .. m |-> account[from + k - 1]]) = m
      BY <3>1
    <3>. QED
      BY <2>5, <3>2 DEF m
  <2>7. n = (count * t.size) \div t.size
    BY <2>6 DEF Count
  <2>8. (count * t.size) \div t.size = count
    <3>. HIDE DEF count, t
    <3>. QED
      BY <1>1, <2>2
  <2>9. tail = [present |-> TRUE, bytes |-> tail.bytes]
    BY <1>4 DEF TailBytes
  <2>10. tail.bytes = [k \in 1 .. (count * t.size) |-> tail.bytes[k]]
    <3>. DEFINE m == count * t.size
    <3>. HIDE DEF m, tail, from
    <3>. QED
      BY <2>5
  <2>. HIDE DEF tail, t, count, n
  <2>11. n = count
    BY <2>7, <2>8
  <2>12. tail.present = TRUE /\ tail = [present |-> tail.present, bytes |-> tail.bytes]
    BY <2>9
  <2>. QED
    BY <2>1, <2>2, <2>6, <2>10, <2>11, <2>12
<1>5. Shown
  BY <1>3, <1>4
<1>. QED
  BY <1>5

-----------------------------------------------------------------------------
(* Materialization.                                                        *)

\* A valid inline field converts to itself: validation left a bool 0 or 1 and an
\* enum one of its discriminants.
LEMMA InlineConverts ==
    ASSUME NEW d, InlineValid(d), NEW a \in InlineField
    PROVE  FromZc(a, d[a]) = Ok(d[a])
<1>1. d[a] \in Inline.ok[a]
  BY DEF InlineValid, InlineField
<1>2. Kind[a] = "bool" => d[a] \in {0, 1}
  BY <1>1, KindAssumption
<1>. QED
  BY <1>1, <1>2 DEF FromZc

\* A container takes elements within its capacity, and its own length prefix and
\* slots show them again.
LEMMA ContainerShows ==
    ASSUME NEW i \in TailId, NEW count \in Nat, count <= Tails[i].max, NEW bytes,
           bytes = [k \in 1 .. (count * Tails[i].size) |-> bytes[k]],
           Len(bytes) = count * Tails[i].size
    PROVE  Container(i, bytes).ok /\ ActiveBytes(i, Container(i, bytes).value) = bytes
<1>. DEFINE t == Tails[i]
            m == count * t.size
            whole == t.max * t.size
            zeros == [k \in 0 .. (t.pfx - 1) |-> 0]
            prefix == PutPrefix(zeros, 0, t.pfx, count)
            slots == [k \in 1 .. whole |-> IF k <= Len(bytes) THEN bytes[k] ELSE 0]
            container == [prefix |-> prefix, slots |-> slots]
<1>1. /\ t.size \in Nat /\ t.size > 0 /\ t.max \in Nat /\ t.pfx \in Width /\ t.pfx \in Nat
      /\ t.pfx > 0
  BY TailFacts
<1>2. m \in Nat /\ whole \in Nat /\ m <= whole
  BY <1>1, ProductsGrow
<1>3. Len(bytes) \div t.size = count
  <2>1. Len(bytes) = count * t.size
    OBVIOUS
  <2>. HIDE DEF t
  <2>2. (count * t.size) \div t.size = count
    BY <1>1
  <2>. QED
    BY <2>1, <2>2
<1>4. Container(i, bytes) = Ok(container)
  <2>1. ~(count > t.max)
    BY <1>1
  <2>. QED
    BY <1>3, <2>1 DEF Container
<1>5. RawPrefix(prefix, 0, t.pfx) = count
  <2>1. count <= PrefixMax(t.pfx)
    <3>1. t.max <= PrefixMax(t.pfx) /\ PrefixMax(t.pfx) \in Int
      BY <1>1, CapacityAssumption, WeightNat, PrefixesAssumption DEF PrefixMax
    <3>. QED
      BY <1>1, <3>1
  <2>2. prefix = [a \in 0 .. (t.pfx - 1) |-> LeByte(count, a)]
    <3>1. DOMAIN zeros = 0 .. (t.pfx - 1)
      OBVIOUS
    <3>2. prefix = [a \in 0 .. (t.pfx - 1) |->
                      IF a \in 0 .. (0 + t.pfx - 1) THEN LeByte(count, a - 0) ELSE zeros[a]]
      BY <3>1 DEF PutPrefix
    <3>3. \A a \in 0 .. (t.pfx - 1) : a \in 0 .. (0 + t.pfx - 1) /\ a - 0 = a
      BY <1>1
    <3>. HIDE DEF prefix, zeros, t
    <3>. QED
      BY <3>2, <3>3
  <2>3. prefix \in [0 .. (t.pfx - 1) -> Byte]
    <3>1. \A a \in 0 .. (t.pfx - 1) : a \in 0 .. 7
      <4>1. t.pfx \in Nat /\ t.pfx <= 8
        BY <1>1 DEF Width
      <4>. HIDE DEF t
      <4>. QED
        BY <4>1
    <3>2. \A a \in 0 .. (t.pfx - 1) : LeByte(count, a) \in Byte
      BY <3>1, LeByteIsByte
    <3>. HIDE DEF prefix, t
    <3>. QED
      BY <2>2, <3>2
  <2>4. Written(prefix, 0, t.pfx, count)
    <3>. HIDE DEF prefix, t
    <3>. QED
      BY <1>1, <2>2 DEF Written
  <2>. HIDE DEF prefix, t
  <2>. QED
    BY <1>1, <2>1, <2>3, <2>4, WrittenPrefix
<1>6. ActiveBytes(i, container) = [k \in 1 .. m |-> slots[k]]
  <2>1. (IF count < t.max THEN count ELSE t.max) = count
    BY <1>1
  <2>2. container.prefix = prefix /\ container.slots = slots
    OBVIOUS
  <2>. HIDE DEF container, slots, prefix, t
  <2>. QED
    BY <1>5, <2>1, <2>2 DEF ActiveBytes, m, t
<1>7. \A k \in 1 .. m : slots[k] = bytes[k]
  <2>1. \A k \in 1 .. m : k \in 1 .. whole /\ k <= Len(bytes)
    <3>. HIDE DEF m, whole
    <3>1. Len(bytes) = m
      BY DEF m
    <3>. SUFFICES ASSUME NEW k \in 1 .. m
                  PROVE  k \in 1 .. whole /\ k <= Len(bytes)
      OBVIOUS
    <3>2. k \in 1 .. whole /\ k <= m
      BY <1>2
    <3>. QED
      BY <3>1, <3>2
  <2>. HIDE DEF m, whole
  <2>. QED
    BY <2>1
<1>8. bytes = [k \in 1 .. m |-> bytes[k]]
  OBVIOUS
<1>9. [k \in 1 .. m |-> slots[k]] = bytes
  <2>. HIDE DEF m, slots
  <2>. QED
    BY <1>7, <1>8
<1>10. Container(i, bytes).ok /\ Container(i, bytes).value = container
  <2>. HIDE DEF container
  <2>. QED
    BY <1>4 DEF Ok
<1>. HIDE DEF container, slots, m
<1>. QED
  BY <1>6, <1>9, <1>10

\* The declared field of a tail is what its accessor showed.
LEMMA TailConverts ==
    ASSUME Account, Validate(account, length).ok, NEW i \in TailId
    PROVE  LET tail == TailBytes(account, i)
               field == NativeTail(i, tail)
           IN  /\ field.ok
               /\ (IF field.value = << >> THEN Absent
                   ELSE Present(ActiveBytes(i, field.value[1]))) = tail
<1>. DEFINE tail == TailBytes(account, i)
            count == Count(i, tail)
            made == Container(i, tail.bytes)
<1>1. /\ tail.present \in BOOLEAN
      /\ tail = [present |-> tail.present, bytes |-> tail.bytes]
      /\ ~tail.present => tail.bytes = << >>
      /\ count \in Nat /\ count <= Tails[i].max
      /\ tail.bytes = [k \in 1 .. (count * Tails[i].size) |-> tail.bytes[k]]
      /\ Len(tail.bytes) = count * Tails[i].size
  BY AccessorCount
<1>. HIDE DEF tail, count
<1>2. CASE ~tail.present
  <2>1. NativeTail(i, tail) = Ok(<< >>)
    BY <1>2 DEF NativeTail
  <2>2. tail = Absent
    BY <1>1, <1>2 DEF Absent
  <2>. QED
    BY <2>1, <2>2 DEF Ok, tail
<1>3. CASE tail.present
  <2>1. made.ok /\ ActiveBytes(i, made.value) = tail.bytes
    BY <1>1, ContainerShows
  <2>2. NativeTail(i, tail) = Ok(<<made.value>>)
    BY <1>3, <2>1 DEF NativeTail, AndThen
  <2>3. <<made.value>> # << >> /\ <<made.value>>[1] = made.value
    OBVIOUS
  <2>4. tail = Present(tail.bytes)
    BY <1>1, <1>3 DEF Present
  <2>. HIDE DEF made
  <2>. QED
    BY <2>1, <2>2, <2>3, <2>4 DEF Ok, tail
<1>. QED
  BY <1>1, <1>2, <1>3

-----------------------------------------------------------------------------
(* The invariant is inductive.                                             *)

\* A buffer handed to the program is bytes.
LEMMA ReaderInitEstablishes == ReaderInit => ReaderInv
<1>. SUFFICES ASSUME ReaderInit PROVE ReaderInv
  OBVIOUS
<1>1. PICK head \in Heads, body \in Bodies :
          /\ length = Len(head) + Len(body)
          /\ account = [a \in 0 .. (length - 1) |-> (head \o body)[a + 1]]
  BY DEF ReaderInit
<1>2. head \in Seq(Byte) /\ body \in Seq(Byte)
  BY InputAssumption
<1>3. head \o body \in Seq(Byte) /\ Len(head \o body) = length /\ length \in Nat
  BY <1>1, <1>2
<1>4. ASSUME NEW a \in 0 .. (length - 1) PROVE (head \o body)[a + 1] \in Byte
  <2>1. a + 1 \in 1 .. Len(head \o body)
    BY <1>3
  <2>. DEFINE s == head \o body
  <2>2. s \in Seq(Byte) /\ a + 1 \in 1 .. Len(s)
    BY <1>3, <2>1
  <2>. HIDE DEF s
  <2>3. s[a + 1] \in Byte
    BY <2>2
  <2>. QED
    BY <2>3 DEF s
<1>5. Account
  BY <1>1, <1>3, <1>4 DEF Account
<1>. QED
  BY <1>5 DEF ReaderInit, ReaderInv, NoView, NoNative

\* Every call keeps the invariant.
LEMMA StepKeeps == ReaderInv /\ [ReaderNext]_readerVars => ReaderInv'
<1>. SUFFICES ASSUME ReaderInv, [ReaderNext]_readerVars PROVE ReaderInv'
  OBVIOUS
<1>1. UNCHANGED <<account, length>>
  BY DEF ReaderNext, Open, ToNative, Close, readerVars
<1>2. /\ Account' /\ Validate(account, length)' = Validate(account, length)
      /\ EncodedLen(account)' = EncodedLen(account) /\ ContentOf(account)' = ContentOf(account)
  BY <1>1 DEF ReaderInv, Account
<1>3. CASE Open
  <2>1. /\ view'.state \in {"open", "refused"} /\ native' = native
        /\ view'.state = "open" => Validate(account, length).ok /\ view'.encodedLen = EncodedLen(account)
    BY <1>3 DEF Open
  <2>. QED
    BY <1>2, <2>1 DEF ReaderInv
<1>4. CASE ToNative
  <2>1. view.state = "open" /\ view' = view /\ Validate(account, length).ok
    BY <1>4 DEF ToNative, ReaderInv
  <2>. DEFINE inline == [a \in InlineField |-> FromZc(a, account[a])]
              tails == [i \in TailId |-> NativeTail(i, TailBytes(account, i))]
              made == [state |-> "ok",
                       inline |-> [a \in InlineField |-> inline[a].value],
                       tails |-> [i \in TailId |-> tails[i].value]]
  <2>2. \A a \in InlineField : inline[a].ok /\ inline[a].value = account[a]
    <3>1. InlineValid(account)
      BY <2>1, Validated DEF ReaderInv
    <3>2. \A a \in InlineField : FromZc(a, account[a]) = Ok(account[a])
      BY <3>1, InlineConverts
    <3>3. \A a \in InlineField : Ok(account[a]).ok /\ Ok(account[a]).value = account[a]
      BY DEF Ok
    <3>4. \A a \in InlineField : inline[a] = FromZc(a, account[a])
      OBVIOUS
    <3>. HIDE DEF inline
    <3>. QED
      BY <3>2, <3>3, <3>4
  <2>3. \A i \in TailId :
          /\ tails[i].ok
          /\ (IF tails[i].value = << >> THEN Absent
              ELSE Present(ActiveBytes(i, tails[i].value[1]))) = TailBytes(account, i)
    BY <2>1, TailConverts DEF ReaderInv
  <2>4. native' = made
    <3>. HIDE DEF inline, tails
    <3>. QED
      BY <1>4, <2>2, <2>3 DEF ToNative, inline, tails
  <2>5. Restored(made) = ContentOf(account)
    <3>1. made.inline = [a \in InlineField |-> account[a]]
      BY <2>2
    <3>2. \A i \in TailId :
            (IF made.tails[i] = << >> THEN Absent
             ELSE Present(ActiveBytes(i, made.tails[i][1]))) = TailBytes(account, i)
      BY <2>3
    <3>. HIDE DEF made
    <3>. QED
      BY <3>1, <3>2 DEF Restored, ContentOf, InlineField
  <2>6. native'.state = "ok" /\ Restored(native)' = ContentOf(account)
    <3>1. Restored(native)' = Restored(native')
      BY DEF Restored, ActiveBytes, RawPrefix, LePair, LeQuad, Weight, Present, Absent
    <3>2. made.state = "ok"
      OBVIOUS
    <3>. HIDE DEF made
    <3>. QED
      BY <2>4, <2>5, <3>1, <3>2
  <2>. QED
    BY <1>2, <2>1, <2>6 DEF ReaderInv
<1>5. CASE Close
  BY <1>2, <1>5 DEF Close, ReaderInv, NoView
<1>6. CASE UNCHANGED readerVars
  BY <1>2, <1>6 DEF ReaderInv, readerVars
<1>. QED
  BY <1>3, <1>4, <1>5, <1>6 DEF ReaderNext

\* The invariant holds in every reachable state.
LEMMA ReaderInvariance == ReaderSpec => []ReaderInv
  BY ReaderInitEstablishes, StepKeeps, PTL DEF ReaderSpec

-----------------------------------------------------------------------------
(* The unchecked readers.                                                  *)

\* On an open view the unchecked replay of the offsets ends where the checked
\* walk ended, inside the account, and places every tail inside it
\* (compact.rs:1157-1201, 3063-3084).
THEOREM ReplayInBounds == ReaderSpec => []ReplayStaysInBounds
<1>1. ReaderInv => ReplayStaysInBounds
  <2>. SUFFICES ASSUME ReaderInv, view.state = "open" PROVE ReplayStaysInBounds
    BY DEF ReplayStaysInBounds
  <2>1. Account /\ Validate(account, length).ok /\ view.encodedLen = EncodedLen(account)
    BY DEF ReaderInv
  <2>2. view.encodedLen <= length
    <3>1. TailCount + 1 \in 1 .. (TailCount + 1)
      BY SchemaFacts
    <3>. QED
      BY <2>1, <3>1, Validated DEF EncodedLen
  <2>3. view.encodedLen = ValidateLayout(account, length).value
    <3>1. ValidateStorageLen(length).ok
      BY <2>1 DEF Validate, Err
    <3>2. WalkTails(account, length, FALSE) = Ok(EncodedLen(account))
      BY <2>1, Validated, FullImpliesLayout, AcceptedReplay DEF Account
    <3>3. ValidateLayout(account, length) = Ok(EncodedLen(account))
      BY <3>1, <3>2 DEF ValidateLayout
    <3>. QED
      BY <2>1, <3>3 DEF Ok
  <2>4. ASSUME NEW i \in TailId
        PROVE  /\ TailOffset(account)[i] >= HeaderSize
               /\ TailOffset(account)[i] + EncodedSize(account, i, TailOffset(account)[i]) <= length
    <3>. DEFINE off == TailOffset(account)[i]
    <3>1. i \in 1 .. (TailCount + 1)
      BY SchemaFacts
    <3>2. /\ off \in Nat /\ HeaderSize <= off /\ off <= length /\ off <= Capacity[i - 1]
          /\ TailAccepted(account, length, i, off, TRUE)
      BY <2>1, <3>1, Validated DEF Places
    <3>3. /\ TailEnd(account, i, off) \in Nat /\ TailEnd(account, i, off) <= length
          /\ EncodedSize(account, i, off) = TailEnd(account, i, off) - off
      <4>. HIDE DEF off
      <4>. QED
        BY <2>1, <3>2, Validated, AcceptedTail DEF Account
    <3>. QED
      BY <3>2, <3>3, SchemaFacts
  <2>. QED
    BY <2>2, <2>3, <2>4 DEF ReplayStaysInBounds
<1>. QED
  BY <1>1, ReaderInvariance, PTL

\* Materialization from an open view never fails: validation left every inline
\* bool and enum convertible and every tail within its container's capacity.
\* What it built, stored again, is the account's own bytes, also when the view
\* is gone (compact.rs:856-957, 1219-1225).
THEOREM NativeFaithful == ReaderSpec => []NativeIsTheView
<1>1. ReaderInv => NativeIsTheView
  <2>. SUFFICES ASSUME ReaderInv, native.state # "none" PROVE NativeIsTheView
    BY DEF NativeIsTheView
  <2>1. /\ Account /\ Validate(account, length).ok /\ native.state = "ok"
        /\ Restored(native) = ContentOf(account)
    BY DEF ReaderInv
  <2>2. /\ Encode(ContentOf(account)) = BytesAt(account, 0, EncodedLen(account))
        /\ EncodedLen(account) \in Nat /\ EncodedLen(account) <= length
    BY <2>1, Validated, ContentEncoded DEF Account
  <2>. DEFINE m == EncodedLen(account)
  <2>3. /\ Len(BytesAt(account, 0, m)) = m /\ DOMAIN BytesAt(account, 0, m) = 1 .. m
        /\ \A k \in 1 .. m : BytesAt(account, 0, m)[k] = account[k - 1]
    <3>1. 0 \in Nat /\ m \in Nat /\ 0 + m <= length
      BY <2>1, <2>2 DEF Account
    <3>2. length \in Nat /\ account \in [0 .. (length - 1) -> Byte]
      BY <2>1 DEF Account
    <3>. HIDE DEF m
    <3>3. /\ BytesAt(account, 0, m) \in Seq(Byte) /\ Len(BytesAt(account, 0, m)) = m
          /\ \A k \in 1 .. m : BytesAt(account, 0, m)[k] = account[0 + k - 1]
      BY <3>1, <3>2, BytesAtFacts, Zenon
    <3>. QED
      BY <3>1, <3>3
  <2>. QED
    BY <2>1, <2>2, <2>3 DEF NativeIsTheView
<1>. QED
  BY <1>1, ReaderInvariance, PTL

-----------------------------------------------------------------------------
(* The walk of diagnose.                                                   *)

\* A payload as diagnose walks it, always with checked arithmetic.
LEMMA DiagnosePayloadIsPlain ==
    ASSUME Account, NEW i \in TailId, NEW count \in Nat, NEW from \in Nat,
           count <= Tails[i].max => from + count * Tails[i].size <= UsizeMax
    PROVE  DiagnosePayload(i, count, from) = PlainPayload(account, length, i, count, from, TRUE)
<1>. DEFINE t == Tails[i]
            byteLen == CheckedMul(count, t.size)
            end == CheckedAdd(from, byteLen.value)
<1>1. t.size \in Nat /\ t.max \in Nat /\ count * t.size \in Nat
  BY TailFacts
<1>2. CASE count > t.max
  BY <1>2 DEF DiagnosePayload, PlainPayload
<1>3. CASE ~(count > t.max)
  <2>1. from + count * t.size <= UsizeMax /\ count * t.size <= UsizeMax
    BY <1>1, <1>3, SchemaFacts
  <2>2. byteLen = Ok(count * t.size)
    BY <1>1, <2>1, BoundedIsExact
  <2>3. byteLen.ok /\ byteLen.value = count * t.size
    BY <2>2 DEF Ok
  <2>4. end = Ok(from + count * t.size)
    BY <1>1, <2>1, <2>3, BoundedIsExact
  <2>5. end.ok /\ end.value = from + count * t.size
    BY <2>4 DEF Ok
  <2>6. DiagnosePayload(i, count, from) =
            IF count > t.max THEN Err("InvalidLength")
            ELSE IF ~byteLen.ok THEN byteLen
            ELSE IF ~end.ok THEN end
            ELSE IF end.value > length THEN Err("BufferTooSmall")
            ELSE IF \E a \in from .. (end.value - 1) : account[a] \notin t.ok
                 THEN Err(t.error)
            ELSE end
    BY DEF DiagnosePayload
  <2>. HIDE DEF byteLen, end
  <2>. QED
    BY <1>3, <2>3, <2>4, <2>5, <2>6 DEF PlainPayload
<1>. QED
  BY <1>2, <1>3

\* A tail as diagnose walks it.
LEMMA DiagnoseTailIsPlain ==
    ASSUME Account, HeaderSize <= length, NEW i \in TailId,
           NEW off \in Nat, off <= Capacity[i - 1]
    PROVE  DiagnoseTail(i, off) = PlainTail(account, length, i, off, TRUE)
<1>. DEFINE t == Tails[i]
<1>1. /\ t.pfx \in Width /\ t.pfx \in Nat /\ t.max \in Nat /\ t.opt \in BOOLEAN
      /\ 0 <= t.max /\ t.size \in Nat /\ length \in Nat
  BY TailFacts DEF Account
<1>2. CASE ~t.opt
  <2>. DEFINE raw == RawPrefix(account, Slot[i], t.pfx)
  <2>1. raw \in Nat
    BY <1>2, SlotByte DEF Account
  <2>2. raw <= t.max => off + raw * t.size <= UsizeMax
    <3>. SUFFICES ASSUME raw <= t.max PROVE off + raw * t.size <= UsizeMax
      OBVIOUS
    <3>. HIDE DEF raw
    <3>1. off + 0 + raw * t.size <= UsizeMax /\ raw * t.size \in Nat
      BY <1>2, <2>1, TailFits
    <3>. QED
      BY <3>1
  <2>3. DiagnosePayload(i, raw, off) = PlainPayload(account, length, i, raw, off, TRUE)
    <3>. HIDE DEF raw
    <3>. QED
      BY <2>1, <2>2, DiagnosePayloadIsPlain
  <2>4. DiagnoseTail(i, off) =
            AndThen(DecodePrefix(account, Slot[i], t.pfx),
                    LAMBDA count : DiagnosePayload(i, count, off))
    BY <1>2 DEF DiagnoseTail
  <2>5. CASE raw > UsizeMax
    BY <1>2, <2>4, <2>5 DEF AndThen, DecodePrefix, Err, PlainTail, StoredCount, PayloadFrom
  <2>6. CASE ~(raw > UsizeMax)
    BY <1>2, <2>3, <2>4, <2>6 DEF AndThen, DecodePrefix, Ok, PlainTail, StoredCount, PayloadFrom
  <2>. QED
    BY <2>5, <2>6
<1>3. CASE t.opt
  <2>. DEFINE tag == account[Slot[i]]
              raw == RawPrefix(account, off, t.pfx)
              from == off + t.pfx
  <2>1. /\ from \in Nat /\ from <= UsizeMax
        /\ \A count \in Nat : count <= t.max => from + count * t.size <= UsizeMax
    <3>1. ASSUME NEW count \in Nat, count <= t.max
          PROVE  off + t.pfx + count * t.size <= UsizeMax /\ count * t.size \in Nat
      BY <1>3, <3>1, TailFits
    <3>2. off + t.pfx + 0 * t.size <= UsizeMax /\ 0 * t.size = 0
      BY <1>1, <3>1
    <3>3. from \in Nat /\ from <= UsizeMax
      BY <1>1, <3>2
    <3>. QED
      BY <3>1, <3>3
  <2>2. CheckedAdd(off, t.pfx) = Ok(from)
    BY <1>1, <2>1, BoundedIsExact
  <2>3. /\ from > length => ReadPrefix(account, length, off, t.pfx) = Err("BufferTooSmall")
        /\ ~(from > length) /\ raw > UsizeMax =>
              ReadPrefix(account, length, off, t.pfx) = Err("InvalidLength")
        /\ ~(from > length) /\ ~(raw > UsizeMax) => ReadPrefix(account, length, off, t.pfx) = Ok(raw)
    BY <1>1, <2>1, ReadPrefixIsPlain DEF PlainRead, Account
  <2>4. ~(from > length) => raw \in Nat
    <3>1. ~(from > length) => off + t.pfx <= length
      BY <1>1
    <3>. QED
      BY <1>1, <3>1, RawPrefixNat DEF Account
  <2>5. DiagnoseTail(i, off) =
            IF tag = 0 THEN Ok(off)
            ELSE IF tag # 1 THEN Err("InvalidTag")
            ELSE AndThen(ReadPrefix(account, length, off, t.pfx),
                         LAMBDA count : AndThen(CheckedAdd(off, t.pfx),
                             LAMBDA f : DiagnosePayload(i, count, f)))
    BY <1>3 DEF DiagnoseTail
  <2>6. CASE tag # 0 /\ tag = 1 /\ from > length
    <3>1. ReadPrefix(account, length, off, t.pfx) = Err("BufferTooSmall")
      BY <2>3, <2>6
    <3>2. DiagnoseTail(i, off) = Err("BufferTooSmall")
      BY <2>5, <2>6, <3>1 DEF AndThen, Err
    <3>. QED
      BY <1>3, <2>6, <3>2 DEF PlainTail
  <2>7. CASE tag # 0 /\ tag = 1 /\ ~(from > length) /\ raw > UsizeMax
    BY <1>3, <2>3, <2>5, <2>7 DEF AndThen, Err, PlainTail, StoredCount, PayloadFrom
  <2>8. CASE tag # 0 /\ tag = 1 /\ ~(from > length) /\ ~(raw > UsizeMax)
    <3>1. DiagnosePayload(i, raw, from) = PlainPayload(account, length, i, raw, from, TRUE)
      <4>1. raw \in Nat
        BY <2>4, <2>8
      <4>. HIDE DEF raw, from
      <4>. QED
        BY <2>1, <4>1, DiagnosePayloadIsPlain
    <3>2. DiagnoseTail(i, off) = DiagnosePayload(i, raw, from)
      BY <2>2, <2>3, <2>5, <2>8 DEF AndThen, Ok
    <3>. QED
      BY <1>3, <2>8, <3>1, <3>2 DEF PlainTail, StoredCount, PayloadFrom
  <2>9. CASE tag = 0 \/ (tag # 0 /\ tag # 1)
    BY <1>3, <2>5, <2>9 DEF PlainTail
  <2>. QED
    BY <2>6, <2>7, <2>8, <2>9
<1>. QED
  BY <1>1, <1>2, <1>3

\* A result with the field it is blamed on.
Blames == {Blame(k, r) : k \in 0 .. TailCount, r \in Results}

\* What diagnose knows after each tail is what the walk of `validate` knows,
\* but for the field it names.
LEMMA DiagnoseWalks ==
    ASSUME Account, HeaderSize <= length, NEW i0 \in 0 .. TailCount
    PROVE  /\ DiagnoseTo[i0].ok = WalkTo(account, length, TRUE)[i0].ok
           /\ DiagnoseTo[i0].value = WalkTo(account, length, TRUE)[i0].value
           /\ DiagnoseTo[i0].error = WalkTo(account, length, TRUE)[i0].error
<1>. DEFINE g == DiagnoseTo
            w == WalkTo(account, length, TRUE)
            Same(x, r) == x.ok = r.ok /\ x.value = r.value /\ x.error = r.error
            V == [i \in 0 .. TailCount |-> {x \in Blames : Same(x, w[i])}]
            Step(i, x) == IF ~x.ok THEN x ELSE Blame(i, PlainTail(account, length, i, x.value, TRUE))
            G == [p \in TailId \X Blames |-> Step(p[1], p[2])]
            z == Blame(0, Ok(HeaderSize))
            Rec(f) == [i \in 0 .. TailCount |->
                          IF i = 0 THEN Blame(0, Ok(HeaderSize))
                          ELSE IF ~f[i - 1].ok THEN f[i - 1]
                          ELSE Blame(i, DiagnoseTail(i, f[i - 1].value))]
<1>1. /\ w[0] = Ok(HeaderSize)
      /\ \A i \in TailId :
           w[i] = IF w[i - 1].ok THEN PlainTail(account, length, i, w[i - 1].value, TRUE) ELSE w[i - 1]
      /\ \A i \in 0 .. TailCount : w[i] \in Reached(length, i) /\ w[i] \in Results
  <2>1. /\ w[0] = Ok(HeaderSize)
        /\ \A i \in TailId :
             w[i] = IF w[i - 1].ok THEN PlainTail(account, length, i, w[i - 1].value, TRUE) ELSE w[i - 1]
        /\ \A i \in 0 .. TailCount : w[i] \in Reached(length, i)
    <3>1. length \in Nat /\ account \in [0 .. (length - 1) -> Byte] /\ TRUE \in BOOLEAN
      BY DEF Account
    <3>. HIDE DEF w
    <3>. QED
      BY <3>1, WalkRuns DEF w
  <2>2. \A i \in 0 .. TailCount : w[i] \in Results
    BY <2>1 DEF Reached
  <2>. QED
    BY <2>1, <2>2
<1>. HIDE DEF g, w
<1>2. \A k, r : Same(Blame(k, r), r)
  BY DEF Blame
<1>3. \A i \in TailId : i \in 0 .. TailCount /\ i - 1 \in 0 .. TailCount /\ i # 0
  BY SchemaFacts
<1>4. z \in Blames /\ Same(z, w[0])
  <2>1. 0 \in 0 .. TailCount
    BY SchemaFacts
  <2>2. Ok(HeaderSize) \in Results /\ w[0] = Ok(HeaderSize)
    BY <1>1, <2>1
  <2>3. z \in Blames
    BY <2>1, <2>2 DEF Blames
  <2>. HIDE DEF Same
  <2>. QED
    BY <1>2, <2>2, <2>3
<1>5. ASSUME NEW i \in TailId, NEW x, Same(x, w[i - 1])
      PROVE  /\ ~x.ok => Step(i, x) = x /\ Same(x, w[i])
             /\ x.ok => Step(i, x) = Blame(i, w[i]) /\ Same(Step(i, x), w[i])
  <2>1. CASE ~x.ok
    BY <1>1, <1>5, <2>1
  <2>2. CASE x.ok
    <3>1. w[i - 1].ok /\ x.value = w[i - 1].value
      BY <1>5, <2>2
    <3>2. w[i] = PlainTail(account, length, i, x.value, TRUE)
      BY <1>1, <3>1
    <3>3. Step(i, x) = Blame(i, w[i])
      BY <2>2, <3>2
    <3>4. Same(Blame(i, w[i]), w[i])
      BY <1>2
    <3>. HIDE DEF Step, Same
    <3>. QED
      BY <2>2, <3>3, <3>4
  <2>. QED
    BY <2>1, <2>2
<1>6. ASSUME NEW i \in TailId, NEW x \in Blames, Same(x, w[i - 1])
      PROVE  Step(i, x) \in Blames /\ Same(Step(i, x), w[i])
  <2>1. \A r \in Results : Blame(i, r) \in Blames
    BY <1>3 DEF Blames
  <2>2. x.ok \/ ~x.ok
    OBVIOUS
  <2>. HIDE DEF Same, Step
  <2>. QED
    BY <1>1, <1>3, <1>5, <1>6, <2>1, <2>2
<1>7. z \in V[0] /\ \A i \in 1 .. TailCount : \A x \in V[i - 1] : G[<<i, x>>] \in V[i]
  <2>1. \A i \in 0 .. TailCount : V[i] = {x \in Blames : Same(x, w[i])}
    OBVIOUS
  <2>2. \A i \in TailId : \A x \in Blames : G[<<i, x>>] = Step(i, x)
    OBVIOUS
  <2>3. TailId = 1 .. TailCount /\ 0 \in 0 .. TailCount
    BY SchemaFacts DEF TailId
  <2>. HIDE DEF V, G, Step, Same, z
  <2>4. z \in V[0]
    BY <1>4, <2>1, <2>3
  <2>5. ASSUME NEW i \in TailId, NEW x \in V[i - 1] PROVE G[<<i, x>>] \in V[i]
    <3>1. i \in 0 .. TailCount /\ i - 1 \in 0 .. TailCount
      BY <1>3
    <3>2. x \in Blames /\ Same(x, w[i - 1])
      BY <2>1, <2>5, <3>1
    <3>3. G[<<i, x>>] = Step(i, x) /\ Step(i, x) \in Blames /\ Same(Step(i, x), w[i])
      BY <1>6, <2>2, <3>2
    <3>. QED
      BY <2>1, <3>1, <3>3
  <2>. QED
    BY <2>3, <2>4, <2>5
<1>8. PICK f : Solves(TailCount, z, G, V, f)
  <2>. HIDE DEF V, G, z
  <2>. QED
    BY <1>7, SchemaFacts, TypedRecursion
<1>9. /\ f = [i \in 0 .. TailCount |-> f[i]]
      /\ f[0] = z
      /\ \A i \in TailId : f[i] = Step(i, f[i - 1])
      /\ \A i \in 0 .. TailCount : f[i] \in Blames /\ Same(f[i], w[i])
  <2>1. \A i \in 0 .. TailCount : V[i] = {x \in Blames : Same(x, w[i])}
    OBVIOUS
  <2>2. \A i \in TailId : \A x \in Blames : G[<<i, x>>] = Step(i, x)
    OBVIOUS
  <2>3. TailId = 1 .. TailCount
    BY DEF TailId
  <2>. HIDE DEF V, G, Step, Same, z
  <2>4. \A i \in 0 .. TailCount : f[i] \in Blames /\ Same(f[i], w[i])
    BY <1>8, <2>1 DEF Solves
  <2>5. \A i \in TailId : f[i] = Step(i, f[i - 1])
    BY <1>3, <1>8, <2>2, <2>3, <2>4 DEF Solves
  <2>. QED
    BY <1>8, <2>4, <2>5 DEF Solves
<1>10. ASSUME NEW h, NEW i \in TailId, Same(h[i - 1], w[i - 1])
       PROVE  Rec(h)[i] = Step(i, h[i - 1])
  <2>1. Rec(h)[i] = IF ~h[i - 1].ok THEN h[i - 1]
                    ELSE Blame(i, DiagnoseTail(i, h[i - 1].value))
    BY <1>3
  <2>2. ASSUME h[i - 1].ok
        PROVE  DiagnoseTail(i, h[i - 1].value) = PlainTail(account, length, i, h[i - 1].value, TRUE)
    <3>1. w[i - 1] \in Reached(length, i - 1) /\ w[i - 1].ok /\ h[i - 1].value = w[i - 1].value
      BY <1>1, <1>3, <1>10, <2>2
    <3>2. h[i - 1].value \in Nat /\ h[i - 1].value <= Capacity[i - 1]
      BY <3>1, ResultsOf DEF Reached
    <3>. QED
      BY <3>2, DiagnoseTailIsPlain
  <2>. QED
    BY <2>1, <2>2
<1>11. \A h : Rec(h)[0] = z /\ Rec(h) = [i \in 0 .. TailCount |-> Rec(h)[i]]
  BY SchemaFacts
<1>12. f = Rec(f)
  <2>. HIDE DEF Rec, Step, Same, z
  <2>1. ASSUME NEW i \in TailId PROVE f[i] = Rec(f)[i]
    <3>1. Same(f[i - 1], w[i - 1])
      BY <1>3, <1>9
    <3>. QED
      BY <1>9, <1>10, <3>1
  <2>2. f[0] = Rec(f)[0]
    BY <1>9, <1>11
  <2>3. \A i \in 0 .. TailCount : f[i] = Rec(f)[i]
    BY <2>1, <2>2, SchemaFacts DEF TailId
  <2>. QED
    BY <1>9, <1>11, <2>3
<1>13. g = Rec(g)
  BY <1>12, Zenon DEF DiagnoseTo, g
<1>. DEFINE S == {i \in 0 .. TailCount : Same(g[i], w[i])}
<1>14. \A i \in 0 .. TailCount : i \in S
  <2>1. 0 \in S
    <3>1. g[0] = z /\ Same(z, w[0]) /\ 0 \in 0 .. TailCount
      <4>. HIDE DEF Rec, Same, z
      <4>. QED
        BY <1>4, <1>11, <1>13, SchemaFacts
    <3>2. Same(g[0], w[0])
      <4>. HIDE DEF Same, z
      <4>. QED
        BY <3>1
    <3>. QED
      BY <3>1, <3>2
  <2>2. ASSUME NEW i \in 1 .. TailCount, i - 1 \in S PROVE i \in S
    <3>1. i \in TailId /\ i \in 0 .. TailCount
      BY SchemaFacts DEF TailId
    <3>2. Same(g[i - 1], w[i - 1])
      BY <2>2
    <3>3. g[i] = Step(i, g[i - 1])
      <4>. HIDE DEF Rec, Same, Step
      <4>. QED
        BY <1>10, <1>13, <3>1, <3>2
    <3>4. Same(g[i], w[i])
      <4>. DEFINE x == g[i - 1]
      <4>1. Same(x, w[i - 1]) /\ g[i] = Step(i, x)
        BY <3>2, <3>3
      <4>. HIDE DEF Same, Step, x
      <4>2. x.ok \/ ~x.ok
        OBVIOUS
      <4>3. Same(Step(i, x), w[i])
        BY <1>5, <3>1, <4>1, <4>2
      <4>. QED
        BY <4>1, <4>3
    <3>. QED
      BY <3>1, <3>4
  <2>. HIDE DEF S
  <2>. QED
    BY <2>1, <2>2, SchemaFacts, RangeInduction
<1>. QED
  BY <1>14 DEF g, w

\* The three walks, generated apart, agree on every account: diagnose with the
\* walk of validate, error and all, and validate with the layout walk up to the
\* first payload it refuses (compact.rs:85-87, 564-571).
THEOREM WalksDoNotDrift == ReaderSpec => []WalksAgree
<1>. DEFINE full == Validate(account, length)
            layout == ValidateLayout(account, length)
            sized == ValidateStorageLen(length)
<1>1. ASSUME Account, ~sized.ok PROVE WalksAgree
  <2>1. full = sized /\ layout = sized /\ Diagnose = Blame(0, sized)
    BY <1>1 DEF Validate, ValidateLayout, Diagnose
  <2>2. Diagnose.ok = sized.ok /\ Diagnose.error = sized.error /\ Diagnose.value = sized.value
    BY <2>1 DEF Blame
  <2>. HIDE DEF full, layout, sized
  <2>. QED
    BY <1>1, <2>1, <2>2 DEF WalksAgree, full, layout
<1>2. ASSUME Account, sized.ok, ~InlineValid(account) PROVE WalksAgree
  <2>1. full = Err(Inline.error) /\ Diagnose = Blame(-1, Err(Inline.error))
    BY <1>2 DEF Validate, Diagnose
  <2>2. ~full.ok /\ Diagnose.ok = full.ok /\ Diagnose.error = full.error
    BY <2>1 DEF Blame, Err
  <2>3. ~(length < HeaderSize)
    BY <1>2, StorageLen, SchemaFacts DEF Account
  <2>. HIDE DEF full, layout, sized
  <2>. QED
    BY <1>2, <2>2, <2>3 DEF WalksAgree, full, layout
<1>3. ASSUME Account, sized.ok, InlineValid(account) PROVE WalksAgree
  <2>. DEFINE w == WalkTo(account, length, TRUE)
              g == DiagnoseTo
  <2>1. HeaderSize <= length
    BY <1>3, StorageLen DEF Account
  <2>2. full = WalkTails(account, length, TRUE) /\ layout = WalkTails(account, length, FALSE)
    BY <1>3 DEF Validate, ValidateLayout
  <2>3. Diagnose.ok = full.ok /\ Diagnose.error = full.error /\ Diagnose.value = full.value
    <3>1. Diagnose = g[TailCount] /\ full = w[TailCount]
      BY <1>3, <2>2 DEF Diagnose, WalkTails
    <3>2. TailCount \in 0 .. TailCount
      BY SchemaFacts
    <3>3. \A i \in 0 .. TailCount :
             g[i].ok = w[i].ok /\ g[i].value = w[i].value /\ g[i].error = w[i].error
      <4>. HIDE DEF g, w
      <4>. QED
        BY <1>3, <2>1, DiagnoseWalks DEF g, w
    <3>. HIDE DEF g, w, full
    <3>. QED
      BY <3>1, <3>2, <3>3
  <2>4. full.ok => layout.ok /\ layout.value = full.value
    BY <1>3, <2>1, <2>2, FullImpliesLayout DEF Account
  <2>5. ~layout.ok => \/ full.error = layout.error
                      \/ \E i \in TailId : full.error = Tails[i].error
    <3>1. \/ full = layout
          \/ \E i \in TailId : full = Err(Tails[i].error)
      BY <1>3, <2>1, <2>2, FullDiffersInPayloads DEF Account
    <3>2. \A e : Err(e).error = e
      BY DEF Err
    <3>. HIDE DEF full, layout
    <3>. QED
      BY <3>1, <3>2
  <2>. HIDE DEF full, layout
  <2>. QED
    BY <2>3, <2>4, <2>5 DEF WalksAgree, full, layout
<1>4. ReaderInv => WalksAgree
  BY <1>1, <1>2, <1>3 DEF ReaderInv
<1>. QED
  BY <1>4, ReaderInvariance, PTL

-----------------------------------------------------------------------------
(* Shrinking an account.                                                   *)

\* The encoded length of an open view is an allocation size, and the account
\* truncated to it is accepted with the same content (compact.rs:2693-2722).
THEOREM TrimKeepsAccount == ReaderSpec => []TrimmedAccountIsAccepted
<1>1. ReaderInv => TrimmedAccountIsAccepted
  <2>. SUFFICES ASSUME ReaderInv, view.state = "open" PROVE TrimmedAccountIsAccepted
    BY DEF TrimmedAccountIsAccepted
  <2>. DEFINE n == EncodedLen(account)
              trimmed == [a \in 0 .. (n - 1) |-> account[a]]
              f == TailOffset(account)
  <2>1. /\ Account /\ Validate(account, length).ok /\ view.encodedLen = n
        /\ length \in Nat /\ account \in [0 .. (length - 1) -> Byte]
    BY DEF ReaderInv, Account
  <2>2. /\ HeaderSize <= length /\ InlineValid(account) /\ Places(account, length, TRUE, f)
        /\ TRUE \in BOOLEAN
    BY <2>1, Validated
  <2>3. n \in Nat /\ HeaderSize <= n /\ n <= length /\ n = f[TailCount + 1]
    <3>1. TailCount + 1 \in 1 .. (TailCount + 1)
      BY SchemaFacts
    <3>. QED
      BY <2>1, <3>1, Validated DEF EncodedLen
  <2>4. ValidateStorageLen(n).ok
    <3>. HIDE DEF f, n
    <3>1. ValidateStorageLen(f[TailCount + 1]).ok
      BY <2>1, <2>2, PlacedLength
    <3>. QED
      BY <2>3, <3>1
  <2>. HIDE DEF n
  <2>5. /\ trimmed \in [0 .. (n - 1) -> Byte]
        /\ \A a \in 0 .. (n - 1) : account[a] = trimmed[a]
    <3>1. \A a \in 0 .. (n - 1) : a \in 0 .. (length - 1)
      BY <2>1, <2>3
    <3>. QED
      BY <2>1, <3>1
  <2>. HIDE DEF trimmed
  <2>6. /\ Places(trimmed, n, TRUE, f)
        /\ ContentOf(trimmed) = ContentOf(account)
        /\ InlineValid(trimmed)
    <3>1. /\ EncodedLen(account) <= n
          /\ \A a \in 0 .. (EncodedLen(account) - 1) : account[a] = trimmed[a]
      BY <2>3, <2>5 DEF n
    <3>2. Places(account, length, TRUE, TailOffset(account))
      BY <2>2
    <3>3. /\ Places(trimmed, n, TRUE, TailOffset(account))
          /\ ContentOf(trimmed) = ContentOf(account)
          /\ InlineValid(trimmed) <=> InlineValid(account)
      <4>. HIDE DEF f
      <4>. QED
        BY ZenonT(60), <2>1, <2>2, <2>3, <2>5, <3>1, <3>2, SameContent
    <3>. QED
      BY <2>2, <3>3
  <2>7. WalkTails(trimmed, n, TRUE) = Ok(n)
    <3>1. TailCount \in 0 .. TailCount
      BY SchemaFacts
    <3>. HIDE DEF f
    <3>2. WalkTo(trimmed, n, TRUE)[TailCount] = Ok(f[TailCount + 1])
      BY ZenonT(60), <2>2, <2>3, <2>5, <2>6, <3>1, PlacedIsWalked
    <3>. QED
      BY <2>3, <3>2 DEF WalkTails
  <2>8. Validate(trimmed, n) = Ok(n)
    BY <2>4, <2>6, <2>7 DEF Validate
  <2>9. Validate(trimmed, n).ok
    BY <2>8 DEF Ok
  <2>. QED
    BY <2>1, <2>6, <2>9 DEF TrimmedAccountIsAccepted, trimmed
<1>. QED
  BY <1>1, ReaderInvariance, PTL

-----------------------------------------------------------------------------
(* One encoding for each value.                                            *)

\* The bytes of an open view, up to its encoded length, are the reference
\* encoding of the value its accessors return, and that value is one the schema
\* admits: nothing is accepted that the format does not explain, and views of
\* equal values have equal bytes (compact.rs:1228-1236).
THEOREM OneEncoding == ReaderSpec => []AcceptedBytesAreCanonical
<1>1. ReaderInv => AcceptedBytesAreCanonical
  <2>. SUFFICES ASSUME ReaderInv, view.state = "open" PROVE AcceptedBytesAreCanonical
    BY DEF AcceptedBytesAreCanonical
  <2>. DEFINE content == ContentOf(account)
              m == EncodedLen(account)
  <2>1. /\ Account /\ Validate(account, length).ok /\ view.encodedLen = m
        /\ length \in Nat /\ account \in [0 .. (length - 1) -> Byte]
    BY DEF ReaderInv, Account
  <2>2. HeaderSize <= length /\ InlineValid(account) /\ Places(account, length, TRUE, TailOffset(account))
    BY <2>1, Validated
  <2>3. /\ \A i \in TailId : Admissible(i, ContentOf(account).tails[i])
        /\ ContentLen(ContentOf(account)) = EncodedLen(account)
        /\ EncodedLen(account) \in Nat /\ EncodedLen(account) <= length
        /\ Encode(ContentOf(account)) = BytesAt(account, 0, EncodedLen(account))
    BY <2>1, <2>2, ContentEncoded
  <2>4. AdmissibleContent(content)
    <3>1. content.inline = [a \in 0 .. (Inline.size - 1) |-> account[a]]
      BY DEF ContentOf
    <3>2. \A a \in DOMAIN content.inline : content.inline[a] \in Inline.ok[a]
      BY <2>2, <3>1 DEF InlineValid
    <3>. HIDE DEF content
    <3>. QED
      BY <2>3, <3>2 DEF AdmissibleContent, content
  <2>5. /\ BytesAt(account, 0, m) \in Seq(Byte) /\ Len(BytesAt(account, 0, m)) = m
        /\ \A k \in 1 .. m : BytesAt(account, 0, m)[k] = account[0 + k - 1]
    <3>1. 0 \in Nat /\ m \in Nat /\ 0 + m <= length
      BY <2>1, <2>3
    <3>2. length \in Nat /\ account \in [0 .. (length - 1) -> Byte]
      BY <2>1
    <3>. HIDE DEF m
    <3>. QED
      BY <3>1, <3>2, BytesAtFacts, Zenon
  <2>. HIDE DEF m, content
  <2>6. Encode(content) = BytesAt(account, 0, m)
    BY <2>3 DEF content, m
  <2>7. /\ Len(Encode(content)) = m /\ DOMAIN Encode(content) = 1 .. m
        /\ \A k \in 1 .. m : Encode(content)[k] = account[k - 1]
    <3>1. DOMAIN BytesAt(account, 0, m) = 1 .. m
      BY <2>5
    <3>. QED
      BY <2>5, <2>6, <3>1
  <2>. QED
    BY <2>1, <2>4, <2>7 DEF AcceptedBytesAreCanonical, content
<1>. QED
  BY <1>1, ReaderInvariance, PTL
===============================================================================
