----------------------------- MODULE SchemaProofs -----------------------------
(***************************************************************************)
(* Fixed schemas, for every schema, every account and every sequence of    *)
(* views, assignments, copies and initializations: a view converts to what *)
(* its accessors show, diagnose agrees with the readers, equality is what  *)
(* is shown, a refused conversion drops what it built, and initialize is   *)
(* all or nothing.  And the derive, for every set of declared types: what  *)
(* it lays out is what the struct declares.                                *)
(*                                                                         *)
(* A walk over a pod is a recursion over the types below it, and one over  *)
(* a declaration a recursion over its syntax tree: the functions are first *)
(* shown to exist, then unfolded once per kind of pod or node.             *)
(***************************************************************************)
EXTENDS FixedSchema, SchemaGrammar, SequenceTheorems, FiniteSetTheorems, WellFoundedInduction, TLAPS

-----------------------------------------------------------------------------
(* Induction over the types of a schema, each after those it is made of.   *)

\* A set with 0 that holds the successor, up to n, of what it holds, holds
\* 0 .. n: a least number outside would have its predecessor inside.
LEMMA RangeInduction ==
    ASSUME NEW n \in Nat, NEW S, 0 \in S, \A i \in 1 .. n : i - 1 \in S => i \in S
    PROVE  \A i \in 0 .. n : i \in S
<1>. DEFINE Below == OpToRel(<, Nat)
            T == (0 .. n) \ S
<1>. SUFFICES ASSUME T # {} PROVE FALSE
  OBVIOUS
<1>1. \E x \in T : \A y \in T : ~(<<y, x>> \in Below)
  <2>1. T \subseteq Nat
    OBVIOUS
  <2>. HIDE DEF T, Below
  <2>2. IsWellFoundedOn(Below, Nat)
    BY NatLessThanWellFounded DEF Below
  <2>. QED
    BY <2>1, <2>2, WFMin
<1>2. PICK x \in T : \A y \in T : ~(<<y, x>> \in Below)
  BY <1>1
<1>3. x \in 1 .. n /\ x - 1 \in Nat /\ x \in Nat /\ x - 1 < x /\ x \notin S
  OBVIOUS
<1>4. x - 1 \notin T
  BY <1>2, <1>3 DEF OpToRel
<1>5. x - 1 \in S
  BY <1>3, <1>4
<1>. QED
  BY <1>3, <1>5

\* A type as the derive builds it.
LEMMA TypeFacts ==
    ASSUME NEW t \in TypeId
    PROVE  /\ t \in Nat /\ t > 0 /\ t <= Len(Type) /\ Len(Type) \in Nat
           /\ Type[t] \in TypeSchema /\ Type[t].of \in Seq(Nat \ {0})
           /\ Type[t].n \in Nat
           /\ \A i \in DOMAIN Type[t].of : Type[t].of[i] \in TypeId /\ Type[t].of[i] < t
           /\ Type[t].kind \in {"opt", "vec", "array"} =>
                1 \in DOMAIN Type[t].of /\ Len(Type[t].of) = 1
<1>1. Type \in Seq(TypeSchema) /\ TypeId = 1 .. Len(Type) /\ Len(Type) \in Nat
    BY FixedSchemaAssumption DEF TypeId
<1>2. Type[t] \in TypeSchema
    BY <1>1
<1>3. Type[t].of \in Seq(Nat \ {0}) /\ Type[t].n \in Nat
    BY <1>2 DEF TypeSchema
<1>4. \A i \in DOMAIN Type[t].of : Type[t].of[i] \in Nat \ {0} /\ Type[t].of[i] < t
    BY <1>3, FixedSchemaAssumption
<1>5. Type[t].kind \in {"opt", "vec", "array"} => Len(Type[t].of) = 1
    BY FixedSchemaAssumption
<1>6. t \in Nat /\ t > 0 /\ t <= Len(Type)
    BY <1>1
<1>7. \A i \in DOMAIN Type[t].of : Type[t].of[i] \in TypeId /\ Type[t].of[i] < t
    BY <1>1, <1>4, <1>6
<1>8. Len(Type[t].of) = 1 => 1 \in DOMAIN Type[t].of
    BY <1>3
<1>. QED
    BY <1>1, <1>2, <1>3, <1>5, <1>6, <1>7, <1>8

\* A set that holds a type whenever it holds those before it holds all types.
LEMMA TypeInduction ==
    ASSUME NEW S, \A t \in TypeId : (\A u \in TypeId : u < t => u \in S) => t \in S
    PROVE  \A t \in TypeId : t \in S
<1>. DEFINE R == {n \in 0 .. Len(Type) : \A u \in 1 .. n : u \in S}
<1>1. TypeId = 1 .. Len(Type) /\ Len(Type) \in Nat
    BY FixedSchemaAssumption DEF TypeId
<1>2. 0 \in R
    BY <1>1
<1>3. ASSUME NEW n \in 1 .. Len(Type), n - 1 \in R PROVE n \in R
  <2>1. n \in TypeId /\ \A u \in TypeId : u < n => u \in S
      BY <1>1, <1>3
  <2>2. n \in S
      BY <2>1
  <2>. QED
      BY <1>1, <1>3, <2>2
<1>4. \A n \in 0 .. Len(Type) : n \in R
  <2>. HIDE DEF R
  <2>. QED
      BY <1>1, <1>2, <1>3, RangeInduction
<1>5. Len(Type) \in R
    BY <1>1, <1>4
<1>. QED
    BY <1>1, <1>5

\* A set that holds a pod whenever it holds those of earlier types holds all.
LEMMA PlaceInduction ==
    ASSUME NEW S, \A p \in Place : (\A q \in Place : q.type < p.type => q \in S) => p \in S
    PROVE  \A p \in Place : p \in S
<1>. DEFINE R == {t \in TypeId : \A p \in Place : p.type = t => p \in S}
<1>1. ASSUME NEW t \in TypeId, \A u \in TypeId : u < t => u \in R PROVE t \in R
  <2>1. ASSUME NEW p \in Place, p.type = t PROVE p \in S
    <3>1. ASSUME NEW q \in Place, q.type < t PROVE q \in S
        BY <1>1, <3>1 DEF Place
    <3>. QED
        BY <2>1, <3>1
  <2>. QED
      BY <2>1
<1>2. \A t \in TypeId : t \in R
  <2>. HIDE DEF R
  <2>. QED
      BY <1>1, TypeInduction
<1>. QED
    BY <1>2 DEF Place

-----------------------------------------------------------------------------
(* Sizes and places.                                                       *)

\* A function agrees with another inside some places when it does on each.
LEMMA InsideAgrees ==
    ASSUME NEW f, NEW g, NEW places, \A i \in DOMAIN places : f[places[i]] = g[places[i]]
    PROVE  Inside(f, places) = Inside(g, places)
BY DEF Inside

\* The running sums of a sequence of numbers.
LEMMA SumsFacts ==
    ASSUME NEW n \in Nat, NEW s, DOMAIN s = 1 .. n, Len(s) = n, \A i \in 1 .. n : s[i] \in Nat
    PROVE  /\ Sums(s)[0] = 0
           /\ \A i \in 1 .. n : Sums(s)[i] = Sums(s)[i - 1] + s[i]
           /\ \A i \in 0 .. n : Sums(s)[i] \in Nat
<1>. DEFINE Rec(m, f) == f = [k \in 0 .. m |-> IF k = 0 THEN 0 ELSE f[k - 1] + s[k]]
            R == {m \in 0 .. n : \E f : Rec(m, f) /\ \A k \in 0 .. m : f[k] \in Nat}
<1>1. 0 \in R
  <2>. DEFINE f == [k \in 0 .. 0 |-> 0]
  <2>1. Rec(0, f) /\ \A k \in 0 .. 0 : f[k] \in Nat
      OBVIOUS
  <2>. HIDE DEF f
  <2>. QED
      BY <2>1
<1>2. ASSUME NEW m \in 1 .. n, m - 1 \in R PROVE m \in R
  <2>1. PICK f : Rec(m - 1, f) /\ \A k \in 0 .. (m - 1) : f[k] \in Nat
      BY <1>2
  <2>. DEFINE g == [k \in 0 .. m |-> IF k = m THEN f[m - 1] + s[m] ELSE f[k]]
  <2>2. \A k \in 0 .. (m - 1) : g[k] = f[k] /\ f[k] = IF k = 0 THEN 0 ELSE f[k - 1] + s[k]
      BY <2>1
  <2>3. g[m] = g[m - 1] + s[m]
      BY <2>2
  <2>4. \A k \in 0 .. m : g[k] = IF k = 0 THEN 0 ELSE g[k - 1] + s[k]
    <3>1. ASSUME NEW k \in 0 .. m, k # m
          PROVE  g[k] = IF k = 0 THEN 0 ELSE g[k - 1] + s[k]
      <4>1. k \in 0 .. (m - 1) /\ (k # 0 => k - 1 \in 0 .. (m - 1))
          BY <3>1
      <4>. HIDE DEF g
      <4>. QED
          BY <2>2, <4>1
    <3>. QED
        BY <2>3, <3>1
  <2>5. \A k \in 0 .. m : g[k] \in Nat
    <3>1. s[m] \in Nat /\ f[m - 1] \in Nat
        BY <2>1
    <3>. QED
        BY <2>1, <3>1
  <2>6. Rec(m, g)
    <3>1. g = [k \in 0 .. m |-> g[k]]
        OBVIOUS
    <3>. HIDE DEF g
    <3>. QED
        BY <2>4, <3>1
  <2>. HIDE DEF g, Rec
  <2>. QED
      BY <2>5, <2>6
<1>3. PICK f : Rec(n, f) /\ \A k \in 0 .. n : f[k] \in Nat
  <2>1. \A m \in 0 .. n : m \in R
    <3>. HIDE DEF R
    <3>. QED
        BY <1>1, <1>2, RangeInduction
  <2>. QED
      BY <2>1
<1>4. Rec(n, Sums(s))
    BY <1>3 DEF Sums
<1>5. \A k \in 0 .. n : Sums(s)[k] = f[k]
  <2>. DEFINE Q == {k \in 0 .. n : Sums(s)[k] = f[k]}
  <2>1. 0 \in Q
      BY <1>3, <1>4
  <2>2. ASSUME NEW k \in 1 .. n, k - 1 \in Q PROVE k \in Q
      BY <1>3, <1>4, <2>2
  <2>3. \A k \in 0 .. n : k \in Q
    <3>. HIDE DEF Q
    <3>. QED
        BY <2>1, <2>2, RangeInduction
  <2>. QED
      BY <2>3
<1>6. \A i \in 1 .. n : Sums(s)[i] = Sums(s)[i - 1] + s[i]
    BY <1>4
<1>. QED
    BY <1>3, <1>4, <1>5, <1>6

\* A function on 1 .. n is a sequence of length n.
LEMMA FunctionLen ==
    ASSUME NEW n \in Nat, NEW f, f = [i \in 1 .. n |-> f[i]]
    PROVE  Len(f) = n
<1>1. f \in [1 .. n -> {f[i] : i \in 1 .. n}]
    OBVIOUS
<1>2. f \in Seq({f[i] : i \in 1 .. n})
    BY <1>1
<1>. QED
    BY <1>1, <1>2, LenProperties

\* The recursion of SizeOf has a solution, found type by type.
LEMMA SizesExist == \E f : f = [t \in TypeId |-> Packed(t, Inside(f, Type[t].of))]
<1>. DEFINE Rec(n, f) == f = [t \in 1 .. n |-> Packed(t, Inside(f, Type[t].of))]
            R == {n \in 0 .. Len(Type) : \E f : Rec(n, f)}
<1>1. TypeId = 1 .. Len(Type) /\ Len(Type) \in Nat
    BY FixedSchemaAssumption DEF TypeId
<1>2. 0 \in R
  <2>. DEFINE f == [t \in {} |-> 0]
  <2>1. Rec(0, f)
      OBVIOUS
  <2>2. 0 \in 0 .. Len(Type)
      BY <1>1
  <2>. HIDE DEF f, Rec
  <2>. QED
      BY <2>1, <2>2
<1>3. ASSUME NEW n \in 1 .. Len(Type), n - 1 \in R PROVE n \in R
  <2>1. PICK f : Rec(n - 1, f)
      BY <1>3
  <2>. DEFINE g == [t \in 1 .. n |-> Packed(t, Inside(f, Type[t].of))]
  <2>2. \A t \in 1 .. (n - 1) : g[t] = f[t]
      BY <2>1
  <2>3. ASSUME NEW t \in 1 .. n PROVE Inside(f, Type[t].of) = Inside(g, Type[t].of)
    <3>1. \A i \in DOMAIN Type[t].of : Type[t].of[i] \in 1 .. (n - 1)
        BY <1>1, TypeFacts
    <3>. HIDE DEF g
    <3>. QED
        BY <2>2, <3>1, InsideAgrees
  <2>4. Rec(n, g)
      BY <2>3
  <2>. HIDE DEF g, Rec
  <2>. QED
      BY <1>1, <2>4
<1>4. \A n \in 0 .. Len(Type) : n \in R
  <2>. HIDE DEF R
  <2>. QED
      BY <1>1, <1>2, <1>3, RangeInduction
<1>. QED
    BY <1>1, <1>4

\* SizeOf is what the layout of each type makes of the sizes of its parts.
LEMMA SizeUnfolds ==
    ASSUME NEW t \in TypeId
    PROVE  SizeOf[t] = Packed(t, Inside(SizeOf, Type[t].of))
<1>. DEFINE f == CHOOSE f : f = [u \in TypeId |-> Packed(u, Inside(f, Type[u].of))]
<1>1. f = [u \in TypeId |-> Packed(u, Inside(f, Type[u].of))]
    BY SizesExist
<1>2. SizeOf = [u \in TypeId |-> f[u]]
    BY DEF SizeOf
<1>. HIDE DEF f
<1>3. \A u \in TypeId : SizeOf[u] = f[u]
    BY <1>2
<1>4. Inside(f, Type[t].of) = Inside(SizeOf, Type[t].of)
    BY <1>3, TypeFacts, InsideAgrees
<1>5. f[t] = Packed(t, Inside(f, Type[t].of))
    BY <1>1
<1>. QED
    BY <1>3, <1>4, <1>5

\* A product of numbers is a number, and grows with either.
LEMMA Products ==
    ASSUME NEW a \in Nat, NEW b \in Nat, NEW c \in Nat, a <= b
    PROVE  a * c \in Nat /\ b * c \in Nat /\ a * c <= b * c
<1>1. a * c \in Nat /\ b * c \in Nat /\ (b - a) * c \in Nat
    OBVIOUS
<1>2. b * c = a * c + (b - a) * c
    OBVIOUS
<1>. QED
    BY <1>1, <1>2

\* The sizes a type is laid out from, as numbers.
LEMMA SizeNat == \A t \in TypeId : SizeOf[t] \in Nat
<1>. DEFINE S == {t \in TypeId : SizeOf[t] \in Nat}
<1>1. ASSUME NEW t \in TypeId, \A u \in TypeId : u < t => u \in S PROVE t \in S
  <2>. DEFINE of == Type[t].of
              sizes == Inside(SizeOf, of)
  <2>1. /\ Type[t].n \in Nat /\ of \in Seq(Nat \ {0})
        /\ \A i \in DOMAIN of : SizeOf[of[i]] \in Nat
        /\ Type[t].kind \in {"opt", "vec", "array"} => 1 \in DOMAIN of
      BY <1>1, TypeFacts
  <2>2. DOMAIN of = 1 .. Len(of) /\ Len(of) \in Nat
      BY <2>1
  <2>3. sizes = [i \in 1 .. Len(of) |-> SizeOf[of[i]]]
      BY <2>2 DEF Inside
  <2>4. DOMAIN sizes = 1 .. Len(of) /\ \A i \in 1 .. Len(of) : sizes[i] \in Nat
      BY <2>1, <2>2, <2>3
  <2>5. Len(sizes) = Len(of)
    <3>1. sizes = [i \in 1 .. Len(of) |-> sizes[i]]
        BY <2>3
    <3>. HIDE DEF sizes, of
    <3>. QED
        BY <2>2, <3>1, FunctionLen
  <2>. HIDE DEF sizes
  <2>6. Type[t].kind \in {"opt", "vec", "array"} => Packed(t, sizes) \in Nat
    <3>1. ASSUME Type[t].kind \in {"opt", "vec", "array"}
          PROVE  sizes[1] \in Nat /\ Type[t].n * sizes[1] \in Nat
      <4>1. sizes[1] \in Nat
          BY <2>1, <2>2, <2>4, <3>1
      <4>. HIDE DEF of
      <4>. QED
          BY <2>1, <4>1, Products
    <3>. QED
        BY <3>1 DEF Packed
  <2>7. Type[t].kind = "struct" => Packed(t, sizes) \in Nat
    <3>1. Sums(sizes)[Len(sizes)] \in Nat
        BY <2>2, <2>4, <2>5, SumsFacts
    <3>. QED
        BY <3>1 DEF Packed
  <2>8. Packed(t, sizes) \in Nat
      BY <2>6, <2>7 DEF Packed
  <2>9. SizeOf[t] = Packed(t, sizes)
      BY SizeUnfolds DEF sizes
  <2>. QED
      BY <2>8, <2>9
<1>2. \A t \in TypeId : t \in S
  <2>. HIDE DEF S
  <2>. QED
      BY <1>1, TypeInduction
<1>. QED
    BY <1>2

\* The places of ks, of types before t, lie one after the other in from .. to - 1.
Packs(ks, from, to, t) ==
    /\ Len(ks) \in Nat /\ DOMAIN ks = 1 .. Len(ks)
    /\ \A i \in DOMAIN ks :
         /\ ks[i] \in Place /\ ks[i].type < t
         /\ from <= ks[i].at /\ ks[i].at + SizeOf[ks[i].type] <= to
    /\ \A i, j \in DOMAIN ks : i < j => ks[i].at + SizeOf[ks[i].type] <= ks[j].at

\* Values of one type lie side by side.
LEMMA ElementsPack ==
    ASSUME NEW t \in TypeId, Type[t].kind \in {"opt", "vec", "array"},
           NEW at \in Nat, NEW k \in Nat
    PROVE  /\ Len(Elements(t, at, k)) = k /\ DOMAIN Elements(t, at, k) = 1 .. k
           /\ SizeOf[Type[t].of[1]] \in Nat
           /\ Packs(Elements(t, at, k), at, at + k * SizeOf[Type[t].of[1]], t)
<1>. DEFINE of == Type[t].of[1]
            w == SizeOf[of]
            ks == Elements(t, at, k)
<1>1. of \in TypeId /\ of < t /\ w \in Nat
    BY TypeFacts, SizeNat
<1>2. ks = [i \in 1 .. k |-> [type |-> of, at |-> at + (i - 1) * w]]
    BY DEF Elements
<1>3. ks = [i \in 1 .. k |-> ks[i]] /\ DOMAIN ks = 1 .. k
    BY <1>2
<1>4. Len(ks) = k
  <2>. HIDE DEF ks
  <2>. QED
      BY <1>3, FunctionLen
<1>5. \A i \in 1 .. k : ks[i].type = of /\ ks[i].at = at + (i - 1) * w
    BY <1>2
<1>. HIDE DEF of
<1>6. ASSUME NEW i \in 1 .. k
      PROVE  /\ at + (i - 1) * w \in Nat /\ at <= at + (i - 1) * w
             /\ at + (i - 1) * w + w = at + i * w
             /\ \A j \in i .. k : at + i * w <= at + j * w
  <2>1. (i - 1) * w \in Nat /\ i * w = (i - 1) * w + w /\ i * w \in Nat
      BY <1>1, Products
  <2>2. ASSUME NEW j \in i .. k PROVE i * w <= j * w /\ j * w \in Nat
      BY <1>1, <2>2, Products
  <2>. HIDE DEF w
  <2>. QED
      BY <1>1, <2>1, <2>2
<1>7. ASSUME NEW i \in 1 .. k
      PROVE  /\ ks[i] \in Place /\ ks[i].type < t
             /\ at <= ks[i].at /\ ks[i].at + w <= at + k * w
  <2>1. ks[i] = [type |-> of, at |-> at + (i - 1) * w]
      BY <1>2
  <2>2. ks[i] \in Place
      BY <1>1, <1>6, <2>1 DEF Place
  <2>. HIDE DEF ks, w
  <2>. QED
      BY <1>1, <1>5, <1>6, <2>2
<1>8. ASSUME NEW i \in 1 .. k, NEW j \in 1 .. k, i < j PROVE ks[i].at + w <= ks[j].at
  <2>1. ks[i].at + w = at + i * w
      BY <1>5, <1>6
  <2>2. ks[j].at = at + (j - 1) * w /\ j - 1 \in i .. k
      BY <1>5, <1>8
  <2>. HIDE DEF ks, w
  <2>. QED
      BY <1>6, <2>1, <2>2
<1>9. \A i \in 1 .. k : SizeOf[ks[i].type] = w
    BY <1>5
<1>. HIDE DEF ks, w
<1>10. Packs(ks, at, at + k * w, t)
    BY <1>3, <1>4, <1>7, <1>8, <1>9 DEF Packs
<1>. QED
    BY <1>1, <1>3, <1>4, <1>10 DEF ks, w, of

\* The sums of the sizes of a struct's fields are where they begin and end.
LEMMA FieldOffsets ==
    ASSUME NEW t \in TypeId, Type[t].kind = "struct"
    PROVE  LET of == Type[t].of
           IN  /\ Offsets[t][0] = 0 /\ SizeOf[t] = Offsets[t][Len(of)]
               /\ \A i \in 1 .. Len(of) : Offsets[t][i] = Offsets[t][i - 1] + SizeOf[of[i]]
               /\ \A i \in 0 .. Len(of) : Offsets[t][i] \in Nat
               /\ \A i, j \in 0 .. Len(of) : i <= j => Offsets[t][i] <= Offsets[t][j]
<1>. DEFINE of == Type[t].of
            n == Len(of)
            sizes == Inside(SizeOf, of)
<1>1. n \in Nat /\ DOMAIN of = 1 .. n /\ \A i \in 1 .. n : SizeOf[of[i]] \in Nat
    BY TypeFacts, SizeNat
<1>2. sizes = [i \in 1 .. n |-> SizeOf[of[i]]]
    BY <1>1 DEF Inside
<1>3. DOMAIN sizes = 1 .. n /\ \A i \in 1 .. n : sizes[i] \in Nat /\ sizes[i] = SizeOf[of[i]]
    BY <1>1, <1>2
<1>4. Len(sizes) = n
  <2>1. sizes = [i \in 1 .. n |-> sizes[i]]
      BY <1>2
  <2>. HIDE DEF sizes, n
  <2>. QED
      BY <1>1, <2>1, FunctionLen
<1>5. Offsets[t] = Sums(sizes)
    BY DEF Offsets
<1>. HIDE DEF sizes, n
<1>6. /\ Sums(sizes)[0] = 0
      /\ \A i \in 1 .. n : Sums(sizes)[i] = Sums(sizes)[i - 1] + sizes[i]
      /\ \A i \in 0 .. n : Sums(sizes)[i] \in Nat
    BY <1>1, <1>3, <1>4, SumsFacts
<1>7. SizeOf[t] = Sums(sizes)[n]
    BY <1>4, SizeUnfolds DEF Packed, sizes
<1>. DEFINE o == Offsets[t]
<1>8. /\ o[0] = 0 /\ SizeOf[t] = o[n]
      /\ \A i \in 1 .. n : o[i] = o[i - 1] + SizeOf[of[i]] /\ SizeOf[of[i]] \in Nat
      /\ \A i \in 0 .. n : o[i] \in Nat
    BY <1>1, <1>3, <1>5, <1>6, <1>7
<1>. HIDE DEF o
<1>9. ASSUME NEW i \in 0 .. n, NEW j \in 0 .. n, i <= j PROVE o[i] <= o[j]
  <2>. DEFINE R == {m \in 0 .. n : i <= m => o[i] <= o[m]}
  <2>1. 0 \in R
      BY <1>1, <1>8
  <2>2. ASSUME NEW m \in 1 .. n, m - 1 \in R PROVE m \in R
    <3>1. o[m] = o[m - 1] + SizeOf[of[m]] /\ SizeOf[of[m]] \in Nat
          /\ o[m] \in Nat /\ o[m - 1] \in Nat /\ o[i] \in Nat
        BY <1>1, <1>8
    <3>2. CASE i = m
        BY <1>1, <3>1, <3>2
    <3>3. CASE i # m
        BY <1>1, <2>2, <3>1, <3>3
    <3>. QED
        BY <3>2, <3>3
  <2>3. \A m \in 0 .. n : m \in R
    <3>. HIDE DEF R
    <3>. QED
        BY <1>1, <2>1, <2>2, RangeInduction
  <2>. QED
      BY <1>9, <2>3
<1>. QED
    BY <1>8, <1>9 DEF o, n

\* The fields of a companion and the elements of an array fill it, in order.
LEMMA PartsPack ==
    ASSUME NEW p \in Place, Type[p.type].kind \in {"array", "struct"}
    PROVE  Packs(Parts(p), p.at, p.at + SizeOf[p.type], p.type)
<1>1. p.type \in TypeId /\ p.at \in Nat
    BY DEF Place
<1>. DEFINE t == p.type
            of == Type[t].of
<1>2. CASE Type[t].kind = "array"
  <2>1. Type[t].n \in Nat /\ SizeOf[t] = Type[t].n * Inside(SizeOf, of)[1] /\ 1 \in DOMAIN of
      BY <1>1, <1>2, SizeUnfolds, TypeFacts DEF Packed
  <2>2. SizeOf[t] = Type[t].n * SizeOf[of[1]]
      BY <2>1 DEF Inside
  <2>3. Parts(p) = Elements(t, p.at, Type[t].n)
      BY <1>2 DEF Parts
  <2>4. Packs(Elements(t, p.at, Type[t].n), p.at, p.at + Type[t].n * SizeOf[of[1]], t)
      BY <1>1, <1>2, <2>1, ElementsPack
  <2>. QED
      BY <2>2, <2>3, <2>4
<1>3. CASE Type[t].kind = "struct"
  <2>. DEFINE n == Len(of)
              o == Offsets[t]
              ks == Parts(p)
  <2>1. n \in Nat /\ DOMAIN of = 1 .. n
        /\ \A i \in 1 .. n : of[i] \in TypeId /\ of[i] < t /\ SizeOf[of[i]] \in Nat
      BY <1>1, TypeFacts, SizeNat
  <2>2. /\ SizeOf[t] = o[n] /\ o[0] = 0
        /\ \A i \in 1 .. n : o[i] = o[i - 1] + SizeOf[of[i]]
        /\ \A i \in 0 .. n : o[i] \in Nat
        /\ \A i, j \in 0 .. n : i <= j => o[i] <= o[j]
      BY <1>1, <1>3, FieldOffsets
  <2>3. ks = [i \in 1 .. n |-> [type |-> of[i], at |-> p.at + o[i - 1]]]
      BY <1>3, <2>1 DEF Parts
  <2>4. ks = [i \in 1 .. n |-> ks[i]] /\ DOMAIN ks = 1 .. n
      BY <2>3
  <2>5. Len(ks) = n
    <3>. HIDE DEF ks, n
    <3>. QED
        BY <2>1, <2>4, FunctionLen
  <2>6. \A i \in 1 .. n : ks[i].type = of[i] /\ ks[i].at = p.at + o[i - 1]
      BY <2>3
  <2>. HIDE DEF o, n
  <2>7. ASSUME NEW i \in 1 .. n
        PROVE  /\ ks[i] \in Place /\ ks[i].type < t
               /\ p.at <= ks[i].at /\ ks[i].at + SizeOf[ks[i].type] <= p.at + SizeOf[t]
    <3>1. i - 1 \in 0 .. n /\ i \in 0 .. n /\ n \in 0 .. n /\ i <= n
        BY <2>1
    <3>2. o[i - 1] \in Nat /\ o[i] = o[i - 1] + SizeOf[of[i]] /\ o[i] <= o[n] /\ o[n] \in Nat
        BY <2>2, <3>1
    <3>3. ks[i] = [type |-> of[i], at |-> p.at + o[i - 1]]
        BY <2>3
    <3>4. ks[i] \in Place
        BY <1>1, <2>1, <3>2, <3>3 DEF Place
    <3>. HIDE DEF ks
    <3>5. ks[i].type = of[i] /\ ks[i].at = p.at + o[i - 1] /\ SizeOf[of[i]] \in Nat /\ of[i] < t
        BY <2>1, <2>6
    <3>6. p.at <= p.at + o[i - 1] /\ p.at + o[i - 1] + SizeOf[of[i]] <= p.at + SizeOf[t]
        BY <1>1, <2>2, <3>2, <3>5
    <3>. QED
        BY <3>4, <3>5, <3>6
  <2>8. ASSUME NEW i \in 1 .. n, NEW j \in 1 .. n, i < j
        PROVE  ks[i].at + SizeOf[ks[i].type] <= ks[j].at
    <3>1. i - 1 \in 0 .. n /\ i \in 0 .. n /\ j - 1 \in 0 .. n /\ i <= j - 1
        BY <2>1, <2>8
    <3>2. /\ o[i - 1] \in Nat /\ o[j - 1] \in Nat
          /\ o[i] = o[i - 1] + SizeOf[of[i]] /\ o[i] <= o[j - 1]
        BY <2>2, <3>1
    <3>. HIDE DEF ks
    <3>3. /\ ks[i].type = of[i] /\ ks[i].at = p.at + o[i - 1] /\ ks[j].at = p.at + o[j - 1]
          /\ SizeOf[of[i]] \in Nat
        BY <2>1, <2>6
    <3>4. p.at + o[i - 1] + SizeOf[of[i]] <= p.at + o[j - 1]
        BY <1>1, <3>2, <3>3
    <3>. QED
        BY <3>3, <3>4
  <2>. HIDE DEF ks
  <2>. QED
      BY <2>1, <2>4, <2>5, <2>7, <2>8 DEF Packs, ks
<1>. QED
    BY <1>2, <1>3

\* What a walk over a pod goes into lies inside it, in order, whatever its
\* length and tag are.
LEMMA ActivePacks ==
    ASSUME NEW mem, NEW p \in Place
    PROVE  Packs(Active(mem, p), p.at, p.at + SizeOf[p.type], p.type)
<1>. DEFINE t == p.type
            of == Type[t].of
            w == SizeOf[of[1]]
<1>1. t \in TypeId /\ p.at \in Nat /\ p.at + 1 \in Nat /\ Type[t].n \in Nat /\ SizeOf[t] \in Nat
    BY TypeFacts, SizeNat DEF Place
<1>2. ASSUME NEW k \in Nat, Type[t].kind \in {"opt", "vec"},
             Active(mem, p) = Elements(t, p.at + 1, k), 1 + k * w <= SizeOf[t]
      PROVE  Packs(Active(mem, p), p.at, p.at + SizeOf[t], t)
  <2>. DEFINE ks == Elements(t, p.at + 1, k)
  <2>1. w \in Nat /\ Packs(ks, p.at + 1, p.at + 1 + k * w, t)
      BY <1>1, <1>2, ElementsPack
  <2>2. k * w \in Nat
      BY <2>1, Products
  <2>3. \A i \in DOMAIN ks : ks[i].at \in Nat /\ SizeOf[ks[i].type] \in Nat
      BY <2>1, SizeNat DEF Packs, Place
  <2>. HIDE DEF ks, w
  <2>4. ASSUME NEW i \in DOMAIN ks
        PROVE  p.at <= ks[i].at /\ ks[i].at + SizeOf[ks[i].type] <= p.at + SizeOf[t]
    <3>1. /\ p.at + 1 <= ks[i].at /\ ks[i].at + SizeOf[ks[i].type] <= p.at + 1 + k * w
          /\ ks[i].at \in Nat /\ SizeOf[ks[i].type] \in Nat
        BY <2>1, <2>3 DEF Packs
    <3>. QED
        BY <1>1, <1>2, <2>2, <3>1
  <2>5. Packs(ks, p.at, p.at + SizeOf[t], t)
      BY <2>1, <2>4 DEF Packs
  <2>. QED
      BY <1>2, <2>5 DEF ks
<1>3. CASE Type[t].kind = "opt"
  <2>1. 1 \in DOMAIN of /\ w \in Nat /\ SizeOf[t] = 1 + Inside(SizeOf, of)[1]
      BY <1>1, <1>3, SizeUnfolds, TypeFacts, SizeNat DEF Packed
  <2>2. SizeOf[t] = 1 + w
      BY <2>1 DEF Inside
  <2>3. Active(mem, p) = Elements(t, p.at + 1, IF mem[p.at] = 1 THEN 1 ELSE 0)
      BY <1>3 DEF Active
  <2>4. 1 + 1 * w <= SizeOf[t] /\ 1 + 0 * w <= SizeOf[t]
      BY <2>1, <2>2
  <2>. HIDE DEF w
  <2>. QED
      BY <1>2, <1>3, <2>3, <2>4
<1>4. CASE Type[t].kind = "vec"
  <2>1. 1 \in DOMAIN of /\ w \in Nat /\ SizeOf[t] = 1 + Type[t].n * Inside(SizeOf, of)[1]
      BY <1>1, <1>4, SizeUnfolds, TypeFacts, SizeNat DEF Packed
  <2>2. SizeOf[t] = 1 + Type[t].n * w
      BY <2>1 DEF Inside
  <2>3. Active(mem, p) = Elements(t, p.at + 1, ActiveLen(mem, p))
      BY <1>4 DEF Active
  <2>4. ActiveLen(mem, p) \in Nat /\ ActiveLen(mem, p) <= Type[t].n
      BY <1>1 DEF ActiveLen
  <2>5. 1 + ActiveLen(mem, p) * w <= SizeOf[t]
    <3>. HIDE DEF w
    <3>. QED
        BY <1>1, <2>1, <2>2, <2>4, Products
  <2>. QED
      BY <1>2, <1>4, <2>3, <2>4, <2>5
<1>5. CASE Type[t].kind \in {"array", "struct"}
    BY <1>5, PartsPack DEF Active
<1>6. CASE Type[t].kind \notin {"opt", "vec", "array", "struct"}
  <2>1. Active(mem, p) = << >>
      BY <1>6 DEF Active
  <2>. QED
      BY <2>1 DEF Packs
<1>. QED
    BY <1>3, <1>4, <1>5, <1>6

\* A pod that is not made of its parts alone has a first cell of its own.
LEMMA SizePositive ==
    ASSUME NEW t \in TypeId, Type[t].kind \notin {"array", "struct"}
    PROVE  SizeOf[t] > 0
<1>. DEFINE of == Type[t].of
<1>1. SizeOf[t] = Packed(t, Inside(SizeOf, of))
    BY SizeUnfolds
<1>2. CASE Type[t].kind = "opt"
  <2>1. SizeOf[t] = 1 + SizeOf[of[1]] /\ of[1] \in TypeId
      BY <1>1, <1>2, TypeFacts DEF Packed, Inside
  <2>. QED
      BY <2>1, SizeNat
<1>3. CASE Type[t].kind = "vec"
  <2>1. SizeOf[t] = 1 + Type[t].n * SizeOf[of[1]] /\ of[1] \in TypeId /\ Type[t].n \in Nat
      BY <1>1, <1>3, TypeFacts DEF Packed, Inside
  <2>2. SizeOf[of[1]] \in Nat
      BY <2>1, SizeNat
  <2>3. Type[t].n * SizeOf[of[1]] \in Nat
    <3>. HIDE DEF of
    <3>. QED
        BY <2>1, <2>2, Products
  <2>. QED
      BY <2>1, <2>3
<1>4. CASE Type[t].kind \notin {"opt", "vec"}
    BY <1>1, <1>4 DEF Packed
<1>. QED
    BY <1>2, <1>3, <1>4

-----------------------------------------------------------------------------
(* The walks over a pod: what each makes of the results inside it.         *)

\* The pods of the first n types.
Below(n) == {p \in Place : p.type <= n}

\* All pods are of the types up to the last one.
LEMMA BelowFacts ==
    /\ Len(Type) \in Nat /\ Place = Below(Len(Type)) /\ Below(0) = {}
    /\ \A n \in Nat : Below(n - 1) \subseteq Below(n)
<1>1. Len(Type) \in Nat /\ TypeId = 1 .. Len(Type)
    BY FixedSchemaAssumption DEF TypeId
<1>2. \A p \in Place : p.type \in 1 .. Len(Type)
    BY <1>1 DEF Place
<1>3. Place = Below(Len(Type)) /\ Below(0) = {}
    BY <1>1, <1>2 DEF Below
<1>4. \A n \in Nat : Below(n - 1) \subseteq Below(n)
    BY <1>1, <1>2 DEF Below
<1>. QED
    BY <1>1, <1>3, <1>4

\* Functions that agree on the earlier types agree inside a pod.
LEMMA WalksAgreeInside ==
    ASSUME NEW mem, NEW n \in 1 .. Len(Type), NEW f, NEW g,
           \A q \in Below(n - 1) : f[q] = g[q]
    PROVE  \A p \in Below(n) : Inside(f, Active(mem, p)) = Inside(g, Active(mem, p))
<1>. SUFFICES ASSUME NEW p \in Below(n)
              PROVE  Inside(f, Active(mem, p)) = Inside(g, Active(mem, p))
    OBVIOUS
<1>. DEFINE ks == Active(mem, p)
<1>1. Len(Type) \in Nat /\ n \in Nat /\ TypeId \subseteq Nat
    BY FixedSchemaAssumption DEF TypeId
<1>2. ASSUME NEW i \in DOMAIN ks PROVE ks[i] \in Below(n - 1)
  <2>1. ks[i] \in Place /\ ks[i].type < p.type /\ p.type <= n
      BY ActivePacks DEF Packs, Below
  <2>2. ks[i].type \in Nat /\ p.type \in Nat
      BY <1>1, <2>1 DEF Place, Below
  <2>3. ks[i].type <= n - 1
      BY <1>1, <2>1, <2>2
  <2>. QED
      BY <2>1, <2>3 DEF Below
<1>. HIDE DEF ks
<1>3. Inside(f, ks) = Inside(g, ks)
    BY <1>2, InsideAgrees
<1>. QED
    BY <1>3 DEF ks

\* validate_ref of a pod asks the pods it goes into.
LEMMA VerdictUnfolds ==
    ASSUME NEW mem, NEW p \in Place
    PROVE  Verdict(mem, p) =
             PodVerdict(mem[p.at], p.type,
               [i \in DOMAIN Active(mem, p) |-> Verdict(mem, Active(mem, p)[i])])
<1>. DEFINE Step(f, q) == PodVerdict(mem[q.at], q.type, Inside(f, Active(mem, q)))
            Rec(n, f) == f = [q \in Below(n) |-> Step(f, q)]
            R == {n \in 0 .. Len(Type) : \E f : Rec(n, f)}
<1>1. Len(Type) \in Nat /\ Place = Below(Len(Type)) /\ Below(0) = {}
    BY BelowFacts
<1>2. 0 \in R
  <2>. DEFINE f == [q \in {} |-> 0]
  <2>1. Rec(0, f) /\ 0 \in 0 .. Len(Type)
      BY <1>1
  <2>. HIDE DEF f, Rec
  <2>. QED
      BY <2>1
<1>3. ASSUME NEW n \in 1 .. Len(Type), n - 1 \in R PROVE n \in R
  <2>1. PICK f : Rec(n - 1, f)
      BY <1>3
  <2>. DEFINE g == [q \in Below(n) |-> Step(f, q)]
  <2>2. Below(n - 1) \subseteq Below(n)
      BY <1>1, BelowFacts
  <2>3. \A q \in Below(n - 1) : f[q] = g[q]
    <3>. HIDE DEF Step
    <3>. QED
        BY <2>1, <2>2
  <2>4. \A q \in Below(n) : Inside(f, Active(mem, q)) = Inside(g, Active(mem, q))
    <3>. HIDE DEF g
    <3>. QED
        BY <2>3, WalksAgreeInside
  <2>5. \A q \in Below(n) : Step(f, q) = Step(g, q)
    <3>. HIDE DEF g
    <3>. QED
        BY <2>4
  <2>6. Rec(n, g)
    <3>. HIDE DEF Step
    <3>. QED
        BY <2>5
  <2>. HIDE DEF g, Rec
  <2>. QED
      BY <1>1, <2>6
<1>4. \A n \in 0 .. Len(Type) : n \in R
  <2>. HIDE DEF R
  <2>. QED
      BY <1>1, <1>2, <1>3, RangeInduction
<1>. DEFINE walk == CHOOSE f : f = [q \in Place |-> Step(f, q)]
<1>5. walk = [q \in Place |-> Step(walk, q)]
  <2>1. \E f : f = [q \in Place |-> Step(f, q)]
    <3>. HIDE DEF Step
    <3>. QED
        BY <1>1, <1>4
  <2>. HIDE DEF Step
  <2>. QED
      BY <2>1
<1>6. \A q : Verdict(mem, q) = walk[q]
    BY DEF Verdict
<1>. HIDE DEF walk
<1>7. Verdict(mem, p) = Step(walk, p)
  <2>. HIDE DEF Step
  <2>. QED
      BY <1>5, <1>6
<1>8. Inside(walk, Active(mem, p)) =
        [i \in DOMAIN Active(mem, p) |-> Verdict(mem, Active(mem, p)[i])]
    BY <1>6 DEF Inside
<1>. QED
    BY <1>7, <1>8

\* The accessor of a pod reveals what those of the pods inside do.
LEMMA ShownUnfolds ==
    ASSUME NEW mem, NEW p \in Place
    PROVE  Shown(mem, p) =
             PodShown(mem[p.at], p.type,
               [i \in DOMAIN Active(mem, p) |-> Shown(mem, Active(mem, p)[i])])
<1>. DEFINE Step(f, q) == PodShown(mem[q.at], q.type, Inside(f, Active(mem, q)))
            Rec(n, f) == f = [q \in Below(n) |-> Step(f, q)]
            R == {n \in 0 .. Len(Type) : \E f : Rec(n, f)}
<1>1. Len(Type) \in Nat /\ Place = Below(Len(Type)) /\ Below(0) = {}
    BY BelowFacts
<1>2. 0 \in R
  <2>. DEFINE f == [q \in {} |-> 0]
  <2>1. Rec(0, f) /\ 0 \in 0 .. Len(Type)
      BY <1>1
  <2>. HIDE DEF f, Rec
  <2>. QED
      BY <2>1
<1>3. ASSUME NEW n \in 1 .. Len(Type), n - 1 \in R PROVE n \in R
  <2>1. PICK f : Rec(n - 1, f)
      BY <1>3
  <2>. DEFINE g == [q \in Below(n) |-> Step(f, q)]
  <2>2. Below(n - 1) \subseteq Below(n)
      BY <1>1, BelowFacts
  <2>3. \A q \in Below(n - 1) : f[q] = g[q]
    <3>. HIDE DEF Step
    <3>. QED
        BY <2>1, <2>2
  <2>4. \A q \in Below(n) : Inside(f, Active(mem, q)) = Inside(g, Active(mem, q))
    <3>. HIDE DEF g
    <3>. QED
        BY <2>3, WalksAgreeInside
  <2>5. \A q \in Below(n) : Step(f, q) = Step(g, q)
    <3>. HIDE DEF g
    <3>. QED
        BY <2>4
  <2>6. Rec(n, g)
    <3>. HIDE DEF Step
    <3>. QED
        BY <2>5
  <2>. HIDE DEF g, Rec
  <2>. QED
      BY <1>1, <2>6
<1>4. \A n \in 0 .. Len(Type) : n \in R
  <2>. HIDE DEF R
  <2>. QED
      BY <1>1, <1>2, <1>3, RangeInduction
<1>. DEFINE walk == CHOOSE f : f = [q \in Place |-> Step(f, q)]
<1>5. walk = [q \in Place |-> Step(walk, q)]
  <2>1. \E f : f = [q \in Place |-> Step(f, q)]
    <3>. HIDE DEF Step
    <3>. QED
        BY <1>1, <1>4
  <2>. HIDE DEF Step
  <2>. QED
      BY <2>1
<1>6. \A q : Shown(mem, q) = walk[q]
    BY DEF Shown
<1>. HIDE DEF walk
<1>7. Shown(mem, p) = Step(walk, p)
  <2>. HIDE DEF Step
  <2>. QED
      BY <1>5, <1>6
<1>8. Inside(walk, Active(mem, p)) =
        [i \in DOMAIN Active(mem, p) |-> Shown(mem, Active(mem, p)[i])]
    BY <1>6 DEF Inside
<1>. QED
    BY <1>7, <1>8

\* The conversion of a pod is made of those of the pods inside.
LEMMA ToNativeUnfolds ==
    ASSUME NEW mem, NEW p \in Place
    PROVE  ToNative(mem, p) =
             PodNative(mem, p, [i \in DOMAIN Active(mem, p) |-> ToNative(mem, Active(mem, p)[i])])
<1>. DEFINE Step(f, q) == PodNative(mem, q, Inside(f, Active(mem, q)))
            Rec(n, f) == f = [q \in Below(n) |-> Step(f, q)]
            R == {n \in 0 .. Len(Type) : \E f : Rec(n, f)}
<1>1. Len(Type) \in Nat /\ Place = Below(Len(Type)) /\ Below(0) = {}
    BY BelowFacts
<1>2. 0 \in R
  <2>. DEFINE f == [q \in {} |-> 0]
  <2>1. Rec(0, f) /\ 0 \in 0 .. Len(Type)
      BY <1>1
  <2>. HIDE DEF f, Rec
  <2>. QED
      BY <2>1
<1>3. ASSUME NEW n \in 1 .. Len(Type), n - 1 \in R PROVE n \in R
  <2>1. PICK f : Rec(n - 1, f)
      BY <1>3
  <2>. DEFINE g == [q \in Below(n) |-> Step(f, q)]
  <2>2. Below(n - 1) \subseteq Below(n)
      BY <1>1, BelowFacts
  <2>3. \A q \in Below(n - 1) : f[q] = g[q]
    <3>. HIDE DEF Step
    <3>. QED
        BY <2>1, <2>2
  <2>4. \A q \in Below(n) : Inside(f, Active(mem, q)) = Inside(g, Active(mem, q))
    <3>. HIDE DEF g
    <3>. QED
        BY <2>3, WalksAgreeInside
  <2>5. \A q \in Below(n) : Step(f, q) = Step(g, q)
    <3>. HIDE DEF g
    <3>. QED
        BY <2>4
  <2>6. Rec(n, g)
    <3>. HIDE DEF Step
    <3>. QED
        BY <2>5
  <2>. HIDE DEF g, Rec
  <2>. QED
      BY <1>1, <2>6
<1>4. \A n \in 0 .. Len(Type) : n \in R
  <2>. HIDE DEF R
  <2>. QED
      BY <1>1, <1>2, <1>3, RangeInduction
<1>. DEFINE walk == CHOOSE f : f = [q \in Place |-> Step(f, q)]
<1>5. walk = [q \in Place |-> Step(walk, q)]
  <2>1. \E f : f = [q \in Place |-> Step(f, q)]
    <3>. HIDE DEF Step
    <3>. QED
        BY <1>1, <1>4
  <2>. HIDE DEF Step
  <2>. QED
      BY <2>1
<1>6. \A q : ToNative(mem, q) = walk[q]
    BY DEF ToNative
<1>. HIDE DEF walk
<1>7. ToNative(mem, p) = Step(walk, p)
  <2>. HIDE DEF Step
  <2>. QED
      BY <1>5, <1>6
<1>8. Inside(walk, Active(mem, p)) =
        [i \in DOMAIN Active(mem, p) |-> ToNative(mem, Active(mem, p)[i])]
    BY <1>6 DEF Inside
<1>. QED
    BY <1>7, <1>8

\* Pods are compared by the pods inside.
LEMMA EqualUnfolds ==
    ASSUME NEW mem1, NEW mem2, NEW p \in Place
    PROVE  Equal(mem1, mem2, p) =
             PodEqual(mem1, mem2, p,
               [i \in DOMAIN Active(mem1, p) |-> Equal(mem1, mem2, Active(mem1, p)[i])])
<1>. DEFINE Step(f, q) == PodEqual(mem1, mem2, q, Inside(f, Active(mem1, q)))
            Rec(n, f) == f = [q \in Below(n) |-> Step(f, q)]
            R == {n \in 0 .. Len(Type) : \E f : Rec(n, f)}
<1>1. Len(Type) \in Nat /\ Place = Below(Len(Type)) /\ Below(0) = {}
    BY BelowFacts
<1>2. 0 \in R
  <2>. DEFINE f == [q \in {} |-> 0]
  <2>1. Rec(0, f) /\ 0 \in 0 .. Len(Type)
      BY <1>1
  <2>. HIDE DEF f, Rec
  <2>. QED
      BY <2>1
<1>3. ASSUME NEW n \in 1 .. Len(Type), n - 1 \in R PROVE n \in R
  <2>1. PICK f : Rec(n - 1, f)
      BY <1>3
  <2>. DEFINE g == [q \in Below(n) |-> Step(f, q)]
  <2>2. Below(n - 1) \subseteq Below(n)
      BY <1>1, BelowFacts
  <2>3. \A q \in Below(n - 1) : f[q] = g[q]
    <3>. HIDE DEF Step
    <3>. QED
        BY <2>1, <2>2
  <2>4. \A q \in Below(n) : Inside(f, Active(mem1, q)) = Inside(g, Active(mem1, q))
    <3>. HIDE DEF g
    <3>. QED
        BY <2>3, WalksAgreeInside
  <2>5. \A q \in Below(n) : Step(f, q) = Step(g, q)
    <3>. HIDE DEF g
    <3>. QED
        BY <2>4
  <2>6. Rec(n, g)
    <3>. HIDE DEF Step
    <3>. QED
        BY <2>5
  <2>. HIDE DEF g, Rec
  <2>. QED
      BY <1>1, <2>6
<1>4. \A n \in 0 .. Len(Type) : n \in R
  <2>. HIDE DEF R
  <2>. QED
      BY <1>1, <1>2, <1>3, RangeInduction
<1>. DEFINE walk == CHOOSE f : f = [q \in Place |-> Step(f, q)]
<1>5. walk = [q \in Place |-> Step(walk, q)]
  <2>1. \E f : f = [q \in Place |-> Step(f, q)]
    <3>. HIDE DEF Step
    <3>. QED
        BY <1>1, <1>4
  <2>. HIDE DEF Step
  <2>. QED
      BY <2>1
<1>6. \A q : Equal(mem1, mem2, q) = walk[q]
    BY DEF Equal
<1>. HIDE DEF walk
<1>7. Equal(mem1, mem2, p) = Step(walk, p)
  <2>. HIDE DEF Step
  <2>. QED
      BY <1>5, <1>6
<1>8. Inside(walk, Active(mem1, p)) =
        [i \in DOMAIN Active(mem1, p) |-> Equal(mem1, mem2, Active(mem1, p)[i])]
    BY <1>6 DEF Inside
<1>. QED
    BY <1>7, <1>8

\* A pod feeds the hasher what the pods inside do.
LEMMA HashedUnfolds ==
    ASSUME NEW mem, NEW p \in Place
    PROVE  Hashed(mem, p) =
             PodHashed(mem[p.at], p.type,
               [i \in DOMAIN Active(mem, p) |-> Hashed(mem, Active(mem, p)[i])])
<1>. DEFINE Step(f, q) == PodHashed(mem[q.at], q.type, Inside(f, Active(mem, q)))
            Rec(n, f) == f = [q \in Below(n) |-> Step(f, q)]
            R == {n \in 0 .. Len(Type) : \E f : Rec(n, f)}
<1>1. Len(Type) \in Nat /\ Place = Below(Len(Type)) /\ Below(0) = {}
    BY BelowFacts
<1>2. 0 \in R
  <2>. DEFINE f == [q \in {} |-> 0]
  <2>1. Rec(0, f) /\ 0 \in 0 .. Len(Type)
      BY <1>1
  <2>. HIDE DEF f, Rec
  <2>. QED
      BY <2>1
<1>3. ASSUME NEW n \in 1 .. Len(Type), n - 1 \in R PROVE n \in R
  <2>1. PICK f : Rec(n - 1, f)
      BY <1>3
  <2>. DEFINE g == [q \in Below(n) |-> Step(f, q)]
  <2>2. Below(n - 1) \subseteq Below(n)
      BY <1>1, BelowFacts
  <2>3. \A q \in Below(n - 1) : f[q] = g[q]
    <3>. HIDE DEF Step
    <3>. QED
        BY <2>1, <2>2
  <2>4. \A q \in Below(n) : Inside(f, Active(mem, q)) = Inside(g, Active(mem, q))
    <3>. HIDE DEF g
    <3>. QED
        BY <2>3, WalksAgreeInside
  <2>5. \A q \in Below(n) : Step(f, q) = Step(g, q)
    <3>. HIDE DEF g
    <3>. QED
        BY <2>4
  <2>6. Rec(n, g)
    <3>. HIDE DEF Step
    <3>. QED
        BY <2>5
  <2>. HIDE DEF g, Rec
  <2>. QED
      BY <1>1, <2>6
<1>4. \A n \in 0 .. Len(Type) : n \in R
  <2>. HIDE DEF R
  <2>. QED
      BY <1>1, <1>2, <1>3, RangeInduction
<1>. DEFINE walk == CHOOSE f : f = [q \in Place |-> Step(f, q)]
<1>5. walk = [q \in Place |-> Step(walk, q)]
  <2>1. \E f : f = [q \in Place |-> Step(f, q)]
    <3>. HIDE DEF Step
    <3>. QED
        BY <1>1, <1>4
  <2>. HIDE DEF Step
  <2>. QED
      BY <2>1
<1>6. \A q : Hashed(mem, q) = walk[q]
    BY DEF Hashed
<1>. HIDE DEF walk
<1>7. Hashed(mem, p) = Step(walk, p)
  <2>. HIDE DEF Step
  <2>. QED
      BY <1>5, <1>6
<1>8. Inside(walk, Active(mem, p)) =
        [i \in DOMAIN Active(mem, p) |-> Hashed(mem, Active(mem, p)[i])]
    BY <1>6 DEF Inside
<1>. QED
    BY <1>7, <1>8

\* A set of numbers has a least member.
LEMMA MinFacts ==
    ASSUME NEW S \in SUBSET Nat, S # {}
    PROVE  Min(S) \in S /\ \A x \in S : Min(S) <= x
<1>. DEFINE Less == OpToRel(<, Nat)
<1>1. \E x \in S : \A y \in S : ~(<<y, x>> \in Less)
  <2>. HIDE DEF Less
  <2>1. IsWellFoundedOn(Less, Nat)
      BY NatLessThanWellFounded DEF Less
  <2>. QED
      BY <2>1, WFMin
<1>2. PICK x \in S : \A y \in S : ~(<<y, x>> \in Less)
    BY <1>1
<1>3. \A y \in S : x <= y
  <2>1. \A y \in S : ~(y < x)
      BY <1>2 DEF OpToRel
  <2>. QED
      BY <2>1
<1>4. PICK m : m = CHOOSE a \in S : \A b \in S : a <= b
    OBVIOUS
<1>5. m \in S /\ \A y \in S : m <= y
    BY <1>3, <1>4, Zenon
<1>6. Min(S) = m
    BY <1>4, Zenon DEF Min
<1>. QED
    BY <1>5, <1>6

\* The first failure is there when any is, and no earlier one is.
LEMMA FirstErrorFacts ==
    ASSUME NEW n \in Nat, NEW verdicts, DOMAIN verdicts = 1 .. n
    PROVE  LET bad == {i \in DOMAIN verdicts : verdicts[i] # "ok"}
           IN  /\ bad = {} => FirstError(verdicts) = "ok"
               /\ bad # {} => /\ FirstError(verdicts) = verdicts[Min(bad)]
                              /\ Min(bad) \in 1 .. n /\ verdicts[Min(bad)] # "ok"
                              /\ \A i \in 1 .. (Min(bad) - 1) : verdicts[i] = "ok"
<1>. DEFINE bad == {i \in DOMAIN verdicts : verdicts[i] # "ok"}
<1>1. bad # {} => Min(bad) \in bad /\ \A i \in bad : Min(bad) <= i
  <2>1. bad \in SUBSET Nat
      OBVIOUS
  <2>. HIDE DEF bad
  <2>. QED
      BY <2>1, MinFacts
<1>2. ASSUME bad # {}, NEW i \in 1 .. (Min(bad) - 1) PROVE verdicts[i] = "ok"
  <2>1. Min(bad) \in 1 .. n
      BY <1>1, <1>2
  <2>2. i \in DOMAIN verdicts /\ ~(Min(bad) <= i)
      BY <2>1
  <2>. QED
      BY <1>1, <1>2, <2>2
<1>3. FirstError(verdicts) = IF bad = {} THEN "ok" ELSE verdicts[Min(bad)]
    BY DEF FirstError
<1>. HIDE DEF bad
<1>4. bad # {} => Min(bad) \in 1 .. n /\ verdicts[Min(bad)] # "ok"
    BY <1>1 DEF bad
<1>. QED
    BY <1>2, <1>3, <1>4 DEF bad

\* The account as a whole is a pod with fields.
LEMMA WholeFacts ==
    /\ Whole \in Place /\ Root \in TypeId /\ Type[Root].kind = "struct"
    /\ Size \in Nat /\ Whole.at = 1 /\ Whole.type = Root /\ SizeOf[Whole.type] = Size
    /\ \A mem : Active(mem, Whole) = Parts(Whole)
    /\ Packs(Parts(Whole), 1, 1 + Size, Root)
<1>1. Whole \in Place /\ Root \in TypeId /\ Type[Root].kind = "struct"
    BY FixedSchemaAssumption DEF Whole, Place
<1>2. Whole.at = 1 /\ Whole.type = Root
    BY DEF Whole
<1>3. Size \in Nat
    BY <1>1, SizeNat DEF Size
<1>4. Packs(Parts(Whole), 1, 1 + Size, Root)
    BY <1>1, <1>2, PartsPack DEF Size
<1>. QED
    BY <1>1, <1>2, <1>3, <1>4 DEF Active, Size

\* A companion is accepted field by field.
LEMMA WholeVerdict ==
    ASSUME NEW mem
    PROVE  Verdict(mem, Whole) =
             FirstError([i \in DOMAIN Parts(Whole) |-> Verdict(mem, Parts(Whole)[i])])
<1>1. Verdict(mem, Whole) =
        PodVerdict(mem[1], Root, [i \in DOMAIN Parts(Whole) |-> Verdict(mem, Parts(Whole)[i])])
    BY WholeFacts, VerdictUnfolds
<1>. QED
    BY <1>1, WholeFacts DEF PodVerdict, OwnVerdict

\* diagnose walks the fields by itself and agrees with the readers, on every
\* account, in verdict and error, and names the first field they reject.
LEMMA DiagnoseAgrees == DiagnoseAgreesWithReaders
<1>. DEFINE parts == Parts(Whole)
            verdict == [i \in DOMAIN parts |-> Verdict(data, parts[i])]
            bad == {i \in DOMAIN verdict : verdict[i] # "ok"}
<1>1. Diagnose = IF Len(data) < Size THEN [error |-> "BufferTooSmall", field |-> 0]
                 ELSE IF bad = {} THEN [error |-> "ok", field |-> 0]
                 ELSE [error |-> verdict[Min(bad)], field |-> Min(bad)]
    BY DEF Diagnose, Attributed
<1>2. ValidatePrefix(data) = IF Len(data) < Size THEN "BufferTooSmall" ELSE FirstError(verdict)
    BY WholeVerdict DEF ValidatePrefix
<1>3. Len(parts) \in Nat /\ DOMAIN parts = 1 .. Len(parts) /\ DOMAIN verdict = DOMAIN parts
    BY WholeFacts DEF Packs
<1>4. \A i \in DOMAIN parts : verdict[i] = Verdict(data, parts[i])
    OBVIOUS
<1>. HIDE DEF verdict
<1>5. /\ bad = {} => FirstError(verdict) = "ok"
      /\ bad # {} => /\ FirstError(verdict) = verdict[Min(bad)]
                     /\ Min(bad) \in 1 .. Len(parts) /\ verdict[Min(bad)] # "ok"
                     /\ \A i \in 1 .. (Min(bad) - 1) : verdict[i] = "ok"
    BY <1>3, FirstErrorFacts
<1>. HIDE DEF bad, parts
<1>6. Diagnose.error = ValidatePrefix(data)
    BY <1>1, <1>2, <1>5
<1>7. ASSUME NEW i \in 1 .. Diagnose.field
      PROVE  (Verdict(data, parts[i]) = "ok") = (i < Diagnose.field)
  <2>1. Diagnose.field = Min(bad) /\ bad # {}
      BY <1>1, <1>7
  <2>2. Min(bad) \in 1 .. Len(parts) /\ i \in DOMAIN parts
      BY <1>3, <1>5, <1>7, <2>1
  <2>3. CASE i = Min(bad)
      BY <1>4, <1>5, <2>1, <2>2, <2>3
  <2>4. CASE i # Min(bad)
    <3>1. i < Min(bad) /\ i \in 1 .. (Min(bad) - 1)
        BY <1>7, <2>1, <2>2, <2>4
    <3>. QED
        BY <1>4, <1>5, <2>1, <2>2, <3>1
  <2>. QED
      BY <2>3, <2>4
<1>. QED
    BY <1>6, <1>7 DEF DiagnoseAgreesWithReaders, parts

-----------------------------------------------------------------------------
(* What a conversion constructs and drops.                                 *)

\* The members of a finite set in some order, each once.
LEMMA SetToSeqFacts ==
    ASSUME NEW S, IsFiniteSet(S)
    PROVE  /\ SetToSeq(S) \in Seq(S) /\ Len(SetToSeq(S)) = Cardinality(S)
           /\ ToSet(SetToSeq(S)) = S
<1>. DEFINE n == Cardinality(S)
            f == SetToSeq(S)
<1>1. n \in Nat /\ ExistsBijection(1 .. n, S)
    BY FS_CardinalityType
<1>2. f \in [1 .. n -> S] /\ IsInjective(f)
  <2>1. \E g \in [1 .. n -> S] : IsInjective(g)
      BY <1>1 DEF ExistsBijection, Bijection, Injection
  <2>. QED
      BY <2>1 DEF SetToSeq
<1>. HIDE DEF f, n
<1>3. f \in Seq(S) /\ Len(f) = n /\ DOMAIN f = 1 .. n
    BY <1>1, <1>2
<1>4. ToSet(f) \subseteq S
    BY <1>2, <1>3 DEF ToSet
<1>5. ExistsBijection(1 .. n, ToSet(f))
  <2>1. f \in [1 .. n -> ToSet(f)]
      BY <1>2 DEF ToSet
  <2>2. f \in Bijection(1 .. n, ToSet(f))
      BY <1>2, <1>3, <2>1 DEF Bijection, Injection, Surjection, ToSet
  <2>. QED
      BY <2>2 DEF ExistsBijection
<1>6. Cardinality(ToSet(f)) = Cardinality(S)
    BY <1>1, <1>5, FS_CountingElements DEF n
<1>7. ToSet(f) = S
    BY <1>4, <1>6, FS_Subset
<1>. QED
    BY <1>3, <1>7 DEF f, n

\* The members of two sequences, one after the other.
LEMMA JoinedSet ==
    ASSUME NEW A, NEW B, NEW s \in Seq(A), NEW t \in Seq(B)
    PROVE  /\ ToSet(s \o t) = ToSet(s) \cup ToSet(t)
           /\ Len(s \o t) = Len(s) + Len(t)
           /\ s \o t \in Seq(A \cup B)
<1>1. s \in Seq(A \cup B) /\ t \in Seq(A \cup B)
    OBVIOUS
<1>2. /\ s \o t \in Seq(A \cup B) /\ Len(s \o t) = Len(s) + Len(t)
      /\ Len(s) \in Nat /\ Len(t) \in Nat
      /\ DOMAIN s = 1 .. Len(s) /\ DOMAIN t = 1 .. Len(t)
      /\ DOMAIN (s \o t) = 1 .. (Len(s) + Len(t))
      /\ \A i \in 1 .. (Len(s) + Len(t)) :
            (s \o t)[i] = IF i <= Len(s) THEN s[i] ELSE t[i - Len(s)]
    BY <1>1
<1>3. ASSUME NEW x \in ToSet(s \o t) PROVE x \in ToSet(s) \cup ToSet(t)
  <2>1. PICK i \in 1 .. (Len(s) + Len(t)) : x = (s \o t)[i]
      BY <1>2 DEF ToSet
  <2>2. CASE i <= Len(s)
      BY <1>2, <2>1, <2>2 DEF ToSet
  <2>3. CASE ~(i <= Len(s))
    <3>1. i - Len(s) \in DOMAIN t /\ x = t[i - Len(s)]
        BY <1>2, <2>1, <2>3
    <3>. QED
        BY <3>1 DEF ToSet
  <2>. QED
      BY <2>2, <2>3
<1>4. ASSUME NEW x \in ToSet(s) PROVE x \in ToSet(s \o t)
  <2>1. PICK i \in 1 .. Len(s) : x = s[i]
      BY <1>2 DEF ToSet
  <2>2. i \in DOMAIN (s \o t) /\ (s \o t)[i] = x
      BY <1>2, <2>1
  <2>. QED
      BY <2>2 DEF ToSet
<1>5. ASSUME NEW x \in ToSet(t) PROVE x \in ToSet(s \o t)
  <2>1. PICK i \in 1 .. Len(t) : x = t[i]
      BY <1>2 DEF ToSet
  <2>2. i + Len(s) \in DOMAIN (s \o t) /\ (s \o t)[i + Len(s)] = x
    <3>1. i + Len(s) \in 1 .. (Len(s) + Len(t)) /\ ~(i + Len(s) <= Len(s))
          /\ (i + Len(s)) - Len(s) = i
        BY <1>2
    <3>. QED
        BY <1>2, <2>1, <3>1
  <2>. QED
      BY <2>2 DEF ToSet
<1>. QED
    BY <1>2, <1>3, <1>4, <1>5

\* The cells of a pod.
Cells(p) == p.at .. (p.at + SizeOf[p.type] - 1)

\* A conversion of a pod constructs values from its own cells, and when it is
\* refused it has dropped each of them once.
Tidy(p, r) ==
    /\ r.made \subseteq Cells(p)
    /\ r.error # "ok" => /\ r.freed \in Seq(r.made) /\ ToSet(r.freed) = r.made
                         /\ Len(r.freed) = Cardinality(r.made)

\* Pods that lie one after the other share no cell.
LEMMA PackedApart ==
    ASSUME NEW ks, NEW from \in Nat, NEW to \in Nat, NEW t, Packs(ks, from, to, t)
    PROVE  /\ \A i \in DOMAIN ks : Cells(ks[i]) \subseteq from .. (to - 1)
           /\ \A i, j \in DOMAIN ks : i # j => Cells(ks[i]) \cap Cells(ks[j]) = {}
<1>1. /\ DOMAIN ks = 1 .. Len(ks) /\ Len(ks) \in Nat
      /\ \A i \in DOMAIN ks : ks[i].at \in Nat /\ SizeOf[ks[i].type] \in Nat
    BY SizeNat DEF Packs, Place
<1>2. \A i \in DOMAIN ks : from <= ks[i].at /\ ks[i].at + SizeOf[ks[i].type] <= to
    BY DEF Packs
<1>3. \A i, j \in DOMAIN ks : i < j => ks[i].at + SizeOf[ks[i].type] <= ks[j].at
    BY DEF Packs
<1>4. ASSUME NEW i \in DOMAIN ks PROVE Cells(ks[i]) \subseteq from .. (to - 1)
  <2>. DEFINE a == ks[i].at
              w == SizeOf[ks[i].type]
  <2>1. a \in Nat /\ w \in Nat /\ from <= a /\ a + w <= to
      BY <1>1, <1>2
  <2>. HIDE DEF a, w
  <2>2. a .. (a + w - 1) \subseteq from .. (to - 1)
      BY <2>1
  <2>. QED
      BY <2>2 DEF Cells, a, w
<1>5. ASSUME NEW i \in DOMAIN ks, NEW j \in DOMAIN ks, i < j
      PROVE  Cells(ks[i]) \cap Cells(ks[j]) = {}
  <2>. DEFINE a == ks[i].at
              w == SizeOf[ks[i].type]
              b == ks[j].at
              v == SizeOf[ks[j].type]
  <2>1. a \in Nat /\ w \in Nat /\ b \in Nat /\ v \in Nat /\ a + w <= b
      BY <1>1, <1>3, <1>5
  <2>. HIDE DEF a, w, b, v
  <2>2. (a .. (a + w - 1)) \cap (b .. (b + v - 1)) = {}
      BY <2>1
  <2>. QED
      BY <2>2 DEF Cells, a, w, b, v
<1>6. \A i, j \in DOMAIN ks : i # j => i < j \/ j < i
    BY <1>1
<1>. QED
    BY <1>4, <1>5, <1>6

\* from_zc_array and a struct literal drop what the parts before a failing one
\* hold, and that one has dropped its own.
LEMMA GatheredTidy ==
    ASSUME NEW p \in Place, NEW ks, Packs(ks, p.at, p.at + SizeOf[p.type], p.type),
           NEW parts, DOMAIN parts = DOMAIN ks, \A i \in DOMAIN ks : Tidy(ks[i], parts[i])
    PROVE  Tidy(p, Gathered(parts))
<1>. DEFINE bad == {i \in DOMAIN parts : parts[i].error # "ok"}
            k == Min(bad)
            before == UNION {parts[i].made : i \in 1 .. (k - 1)}
            own == parts[k].made
            r == Gathered(parts)
<1>1. /\ DOMAIN parts = 1 .. Len(ks) /\ Len(ks) \in Nat
      /\ p.at \in Nat /\ SizeOf[p.type] \in Nat /\ p.at + SizeOf[p.type] \in Nat
    BY SizeNat DEF Packs, Place
<1>2. /\ \A i \in DOMAIN parts : Cells(ks[i]) \subseteq Cells(p)
      /\ \A i, j \in DOMAIN parts : i # j => Cells(ks[i]) \cap Cells(ks[j]) = {}
  <2>. DEFINE from == p.at
              to == p.at + SizeOf[p.type]
              t == p.type
  <2>1. from \in Nat /\ to \in Nat /\ Packs(ks, from, to, t)
      BY <1>1
  <2>2. Cells(p) = from .. (to - 1)
      BY <1>1 DEF Cells
  <2>. HIDE DEF from, to, t
  <2>3. /\ \A i \in DOMAIN ks : Cells(ks[i]) \subseteq from .. (to - 1)
        /\ \A i, j \in DOMAIN ks : i # j => Cells(ks[i]) \cap Cells(ks[j]) = {}
      BY <2>1, PackedApart
  <2>. QED
      BY <2>2, <2>3
<1>3. \A i \in DOMAIN parts : parts[i].made \subseteq Cells(ks[i])
    BY DEF Tidy
<1>4. CASE bad = {}
  <2>1. r.error = "ok" /\ r.made = UNION {parts[i].made : i \in DOMAIN parts}
      BY <1>4 DEF Gathered
  <2>2. r.made \subseteq Cells(p)
      BY <1>2, <1>3, <2>1
  <2>. QED
      BY <2>1, <2>2 DEF Tidy
<1>5. CASE bad # {}
  <2>1. k \in bad
    <3>1. bad \in SUBSET Nat /\ bad # {}
        BY <1>1, <1>5
    <3>. HIDE DEF bad
    <3>. QED
        BY <3>1, MinFacts
  <2>2. k \in DOMAIN parts /\ 1 .. k \subseteq DOMAIN parts /\ 1 .. (k - 1) \subseteq DOMAIN parts
        /\ k \notin 1 .. (k - 1) /\ 1 .. k = (1 .. (k - 1)) \cup {k}
    <3>1. k \in 1 .. Len(ks)
        BY <1>1, <2>1
    <3>. HIDE DEF k
    <3>2. 1 .. k \subseteq 1 .. Len(ks) /\ 1 .. (k - 1) \subseteq 1 .. Len(ks)
          /\ k \notin 1 .. (k - 1) /\ 1 .. k = (1 .. (k - 1)) \cup {k}
        BY <1>1, <3>1
    <3>. QED
        BY <1>1, <3>1, <3>2
  <2>3. /\ r.made = UNION {parts[i].made : i \in 1 .. k}
        /\ r.freed = parts[k].freed \o SetToSeq(before)
    <3>1. r = [error |-> parts[k].error, value |-> << >>,
               made |-> UNION {parts[i].made : i \in 1 .. k},
               freed |-> parts[k].freed \o DroppedBefore(parts, k)]
        BY <1>5 DEF Gathered
    <3>2. r.made = UNION {parts[i].made : i \in 1 .. k}
      <4>. HIDE DEF r, k
      <4>. QED
          BY <3>1
    <3>3. r.freed = parts[k].freed \o DroppedBefore(parts, k)
      <4>. HIDE DEF r, k
      <4>. QED
          BY <3>1
    <3>4. DroppedBefore(parts, k) = SetToSeq(before)
        BY DEF DroppedBefore
    <3>. QED
      <4>. HIDE DEF r, k, before
      <4>. QED
          BY <3>2, <3>3, <3>4
  <2>. HIDE DEF r, k
  <2>4. r.made = before \cup own
      BY <2>2, <2>3
  <2>5. own \subseteq Cells(ks[k]) /\ before \subseteq UNION {Cells(ks[i]) : i \in 1 .. (k - 1)}
      BY <1>3, <2>2
  <2>6. own \cap before = {} /\ own \subseteq Cells(p) /\ before \subseteq Cells(p)
      BY <1>2, <2>2, <2>5
  <2>7. IsFiniteSet(Cells(p))
    <3>. DEFINE a == p.at
                b == p.at + SizeOf[p.type] - 1
    <3>1. a \in Int /\ b \in Int
        BY <1>1
    <3>. HIDE DEF a, b
    <3>2. IsFiniteSet(a .. b)
        BY <3>1, FS_Interval
    <3>. QED
        BY <3>2 DEF Cells, a, b
  <2>8. IsFiniteSet(own) /\ IsFiniteSet(before)
      BY <2>6, <2>7, FS_Subset
  <2>9. /\ parts[k].freed \in Seq(own) /\ ToSet(parts[k].freed) = own
        /\ Len(parts[k].freed) = Cardinality(own)
      BY <2>1, <2>2 DEF Tidy
  <2>. HIDE DEF own, before
  <2>10. /\ SetToSeq(before) \in Seq(before) /\ Len(SetToSeq(before)) = Cardinality(before)
         /\ ToSet(SetToSeq(before)) = before
      BY <2>8, SetToSeqFacts
  <2>11. /\ r.freed \in Seq(own \cup before) /\ ToSet(r.freed) = own \cup before
         /\ Len(r.freed) = Cardinality(own) + Cardinality(before)
    <3>. DEFINE first == parts[k].freed
                second == SetToSeq(before)
    <3>1. first \in Seq(own) /\ second \in Seq(before)
          /\ ToSet(first) = own /\ ToSet(second) = before
          /\ Len(first) = Cardinality(own) /\ Len(second) = Cardinality(before)
          /\ r.freed = first \o second
        BY <2>3, <2>9, <2>10
    <3>. HIDE DEF first, second
    <3>2. /\ ToSet(first \o second) = ToSet(first) \cup ToSet(second)
          /\ Len(first \o second) = Len(first) + Len(second)
          /\ first \o second \in Seq(own \cup before)
      <4>. DEFINE A == own
                  B == before
      <4>1. first \in Seq(A) /\ second \in Seq(B)
          BY <3>1
      <4>. HIDE DEF A, B
      <4>2. /\ ToSet(first \o second) = ToSet(first) \cup ToSet(second)
            /\ Len(first \o second) = Len(first) + Len(second)
            /\ first \o second \in Seq(A \cup B)
          BY ONLY <4>1, JoinedSet
      <4>. QED
          BY <4>2 DEF A, B
    <3>. QED
        BY <3>1, <3>2
  <2>12. Cardinality(own \cup before) = Cardinality(own) + Cardinality(before)
    <3>1. Cardinality(own \cap before) = 0
        BY <2>6, FS_EmptySet
    <3>2. Cardinality(own) \in Nat /\ Cardinality(before) \in Nat
        BY <2>8, FS_CardinalityType
    <3>3. Cardinality(own \cup before) =
            Cardinality(own) + Cardinality(before) - Cardinality(own \cap before)
        BY <2>8, FS_Union
    <3>. QED
        BY <3>1, <3>2, <3>3
  <2>13. r.made = own \cup before
      BY <2>4
  <2>. QED
    <3>1. Tidy(p, r)
        BY <2>6, <2>11, <2>12, <2>13 DEF Tidy
    <3>. QED
        BY <3>1 DEF r
<1>. QED
    BY <1>4, <1>5

\* No conversion leaks or drops twice, whatever bytes it meets.
LEMMA ConversionsTidy ==
    ASSUME NEW mem
    PROVE  \A p \in Place : Tidy(p, ToNative(mem, p))
<1>. DEFINE S == {p \in Place : Tidy(p, ToNative(mem, p))}
<1>1. ASSUME NEW p \in Place, \A q \in Place : q.type < p.type => q \in S PROVE p \in S
  <2>. DEFINE ks == Active(mem, p)
              parts == [i \in DOMAIN ks |-> ToNative(mem, ks[i])]
              r == ToNative(mem, p)
              kind == Type[p.type].kind
  <2>1. Packs(ks, p.at, p.at + SizeOf[p.type], p.type)
      BY ActivePacks
  <2>2. \A i \in DOMAIN ks : ks[i] \in S
      BY <1>1, <2>1 DEF Packs
  <2>3. r = PodNative(mem, p, parts)
      BY ToNativeUnfolds
  <2>4. \/ \E value : r = Converted(p.at, value) /\ kind \notin {"array", "struct"}
        \/ r = Refused("InvalidDiscriminant")
        \/ r = Gathered(parts)
      BY <2>3 DEF PodNative
  <2>5. p.at \in Nat /\ SizeOf[p.type] \in Nat
        /\ (kind \notin {"array", "struct"} => SizeOf[p.type] > 0)
    <3>1. p.type \in TypeId /\ p.at \in Nat
        BY DEF Place
    <3>. QED
        BY <3>1, SizeNat, SizePositive
  <2>6. ASSUME NEW value, r = Converted(p.at, value), kind \notin {"array", "struct"}
        PROVE  Tidy(p, r)
    <3>1. r.error = "ok" /\ r.made = {p.at}
        BY <2>6 DEF Converted
    <3>2. p.at \in Cells(p)
        BY <2>5, <2>6 DEF Cells
    <3>. QED
        BY <3>1, <3>2 DEF Tidy
  <2>7. ASSUME r = Refused("InvalidDiscriminant") PROVE Tidy(p, r)
    <3>1. r.made = {} /\ r.freed = << >>
        BY <2>7 DEF Refused
    <3>2. /\ ToSet(r.freed) = {} /\ Len(r.freed) = 0
          /\ r.freed \in Seq(r.made) /\ Cardinality(r.made) = 0
        BY <3>1, FS_EmptySet DEF ToSet
    <3>. QED
        BY <3>1, <3>2 DEF Tidy
  <2>8. ASSUME r = Gathered(parts) PROVE Tidy(p, r)
    <3>1. DOMAIN parts = DOMAIN ks /\ \A i \in DOMAIN ks : Tidy(ks[i], parts[i])
        BY <2>2
    <3>. HIDE DEF parts, ks, r
    <3>2. Tidy(p, Gathered(parts))
        BY <2>1, <3>1, GatheredTidy
    <3>3. r = Gathered(parts)
        BY <2>8
    <3>. QED
        BY <3>2, <3>3
  <2>9. Tidy(p, r)
    <3>. HIDE DEF r
    <3>. QED
        BY <2>4, <2>6, <2>7, <2>8
  <2>. QED
      BY <2>9
<1>2. \A p \in Place : p \in S
  <2>. HIDE DEF S
  <2>. QED
      BY <1>1, PlaceInduction
<1>. QED
    BY <1>2

\* A refused conversion drops each value it has built once, and no other.
LEMMA RefusedDrops == RefusedConversionDropsWhatItBuilt
BY WholeFacts, ConversionsTidy DEF RefusedConversionDropsWhatItBuilt, Tidy


-----------------------------------------------------------------------------
(* What accepted bytes convert to, show and hash.                          *)

\* A pod is accepted when its first cell is and every pod it goes into is.
LEMMA Accepted ==
    ASSUME NEW mem, NEW p \in Place
    PROVE  Verdict(mem, p) = "ok" <=>
             /\ OwnVerdict(mem[p.at], p.type) = "ok"
             /\ \A i \in DOMAIN Active(mem, p) : Verdict(mem, Active(mem, p)[i]) = "ok"
<1>. DEFINE ks == Active(mem, p)
            verdicts == [i \in DOMAIN ks |-> Verdict(mem, ks[i])]
            bad == {i \in DOMAIN verdicts : verdicts[i] # "ok"}
            n == Len(ks)
<1>1. n \in Nat /\ DOMAIN verdicts = 1 .. n
    BY ActivePacks DEF Packs
<1>2. Verdict(mem, p) = PodVerdict(mem[p.at], p.type, verdicts)
    BY VerdictUnfolds
<1>3. bad = {} <=> \A i \in DOMAIN ks : Verdict(mem, ks[i]) = "ok"
    OBVIOUS
<1>4. FirstError(verdicts) = "ok" <=> bad = {}
  <2>. HIDE DEF verdicts, n
  <2>1. /\ bad = {} => FirstError(verdicts) = "ok"
        /\ bad # {} => /\ FirstError(verdicts) = verdicts[Min(bad)]
                       /\ Min(bad) \in 1 .. n /\ verdicts[Min(bad)] # "ok"
                       /\ \A i \in 1 .. (Min(bad) - 1) : verdicts[i] = "ok"
      BY <1>1, FirstErrorFacts
  <2>. HIDE DEF bad
  <2>. QED
      BY <2>1
<1>. HIDE DEF verdicts, bad, ks
<1>5. Verdict(mem, p) = "ok" <=> OwnVerdict(mem[p.at], p.type) = "ok" /\ FirstError(verdicts) = "ok"
    BY <1>2 DEF PodVerdict, ValidateArray
<1>. QED
    BY <1>3, <1>4, <1>5 DEF ks

\* The kinds of pods.
LEMMA Kinds ==
    ASSUME NEW p \in Place
    PROVE  /\ p.type \in TypeId /\ p.at \in Nat
           /\ Type[p.type].kind \in {"int", "bool", "enum", "opt", "vec", "array", "struct"}
<1>1. p.type \in TypeId /\ p.at \in Nat
    BY DEF Place
<1>. QED
    BY <1>1, TypeFacts DEF TypeSchema

\* An option with no value, and a walk into nothing.
LEMMA ActiveOfOption ==
    ASSUME NEW mem, NEW p \in Place, Type[p.type].kind = "opt"
    PROVE  /\ mem[p.at] = 1 => DOMAIN Active(mem, p) = {1}
           /\ mem[p.at] # 1 => DOMAIN Active(mem, p) = {}
<1>1. Active(mem, p) = Elements(p.type, p.at + 1, IF mem[p.at] = 1 THEN 1 ELSE 0)
    BY DEF Active
<1>2. p.type \in TypeId /\ p.at + 1 \in Nat
    BY Kinds
<1>3. ASSUME NEW k \in Nat PROVE DOMAIN Elements(p.type, p.at + 1, k) = 1 .. k
    BY <1>2, ElementsPack
<1>4. ASSUME mem[p.at] = 1 PROVE DOMAIN Active(mem, p) = {1}
  <2>1. Active(mem, p) = Elements(p.type, p.at + 1, 1)
      BY <1>1, <1>4
  <2>2. DOMAIN Elements(p.type, p.at + 1, 1) = 1 .. 1
      BY <1>3
  <2>. QED
      BY <2>1, <2>2
<1>5. ASSUME mem[p.at] # 1 PROVE DOMAIN Active(mem, p) = {}
  <2>1. Active(mem, p) = Elements(p.type, p.at + 1, 0)
      BY <1>1, <1>5
  <2>2. DOMAIN Elements(p.type, p.at + 1, 0) = 1 .. 0
      BY <1>3
  <2>. QED
      BY <2>1, <2>2
<1>. QED
    BY <1>4, <1>5

\* What is accepted converts, to what the accessors show.
LEMMA AcceptedConverts ==
    ASSUME NEW mem
    PROVE  \A p \in Place : Verdict(mem, p) = "ok" =>
             ToNative(mem, p).error = "ok" /\ ToNative(mem, p).value = Shown(mem, p)
<1>. DEFINE S == {p \in Place : Verdict(mem, p) = "ok" =>
                     ToNative(mem, p).error = "ok" /\ ToNative(mem, p).value = Shown(mem, p)}
<1>1. ASSUME NEW p \in Place, \A q \in Place : q.type < p.type => q \in S PROVE p \in S
  <2>. DEFINE ks == Active(mem, p)
              parts == [i \in DOMAIN ks |-> ToNative(mem, ks[i])]
              shown == [i \in DOMAIN ks |-> Shown(mem, ks[i])]
              r == ToNative(mem, p)
              kind == Type[p.type].kind
  <2>. SUFFICES ASSUME Verdict(mem, p) = "ok"
                PROVE  r.error = "ok" /\ r.value = Shown(mem, p)
      OBVIOUS
  <2>1. Packs(ks, p.at, p.at + SizeOf[p.type], p.type)
      BY ActivePacks
  <2>2. \A i \in DOMAIN ks : parts[i].error = "ok" /\ parts[i].value = shown[i]
    <3>1. \A i \in DOMAIN ks : ks[i] \in S /\ Verdict(mem, ks[i]) = "ok"
        BY <1>1, <2>1, Accepted DEF Packs
    <3>. QED
        BY <3>1
  <2>3. r = PodNative(mem, p, parts)
      BY ToNativeUnfolds
  <2>4. Shown(mem, p) = PodShown(mem[p.at], p.type, shown)
      BY ShownUnfolds
  <2>5. OwnVerdict(mem[p.at], p.type) = "ok"
      BY Accepted
  <2>6. DOMAIN parts = DOMAIN ks /\ shown = [i \in DOMAIN ks |-> shown[i]]
      OBVIOUS
  <2>7. kind = "opt" /\ mem[p.at] # 1 => shown = << >>
      BY ActiveOfOption
  <2>8. Gathered(parts).error = "ok" /\ Gathered(parts).value = shown
    <3>. HIDE DEF parts, shown
    <3>1. {i \in DOMAIN parts : parts[i].error # "ok"} = {}
        BY <2>2, <2>6
    <3>2. [i \in DOMAIN parts |-> parts[i].value] = shown
        BY <2>2, <2>6
    <3>. QED
        BY <3>1, <3>2 DEF Gathered
  <2>. HIDE DEF parts, shown, r, ks
  <2>9. CASE kind \in {"int", "bool", "vec"}
      BY <2>3, <2>9 DEF PodNative, Converted
  <2>10. CASE kind = "enum"
    <3>1. mem[p.at] \in Type[p.type].named
        BY <2>5, <2>10 DEF OwnVerdict
    <3>. QED
        BY <2>3, <2>4, <2>10, <3>1 DEF PodNative, PodShown, Converted
  <2>11. CASE kind = "opt" /\ mem[p.at] # 1
      BY <2>3, <2>4, <2>7, <2>11 DEF PodNative, PodShown, Converted
  <2>12. CASE kind \in {"array", "struct"} \/ (kind = "opt" /\ mem[p.at] = 1)
    <3>1. r = Gathered(parts)
        BY <2>3, <2>12 DEF PodNative
    <3>2. Shown(mem, p) = shown
        BY <2>4, <2>12 DEF PodShown
    <3>. QED
        BY <2>8, <3>1, <3>2
  <2>. QED
      BY <2>9, <2>10, <2>11, <2>12, Kinds
<1>2. \A p \in Place : p \in S
  <2>. HIDE DEF S
  <2>. QED
      BY <1>1, PlaceInduction
<1>. QED
    BY <1>2

-----------------------------------------------------------------------------
(* Equality, what is shown and what is hashed.                             *)

\* Results for one walk are those for another of the same length when they
\* are, one by one.
LEMMA SameResults ==
    ASSUME NEW D, NEW s, NEW t, s = [i \in D |-> s[i]], t = [i \in D |-> t[i]]
    PROVE  s = t <=> \A i \in D : s[i] = t[i]
<1>1. ASSUME \A i \in D : s[i] = t[i] PROVE s = t
  <2>1. [i \in D |-> s[i]] = [i \in D |-> t[i]]
      BY <1>1
  <2>. QED
      BY <2>1
<1>. QED
    BY <1>1

\* The walks over two values go into the same pods, except that options may
\* differ in their tag and vectors in their length.
LEMMA ActiveAlike ==
    ASSUME NEW mem1, NEW mem2, NEW p \in Place
    PROVE  LET kind == Type[p.type].kind
           IN  /\ kind = "opt" /\ (mem1[p.at] = 1) = (mem2[p.at] = 1) =>
                    Active(mem1, p) = Active(mem2, p)
               /\ kind = "vec" /\ ActiveLen(mem1, p) = ActiveLen(mem2, p) =>
                    Active(mem1, p) = Active(mem2, p)
               /\ kind = "vec" => /\ DOMAIN Active(mem1, p) = 1 .. ActiveLen(mem1, p)
                                  /\ DOMAIN Active(mem2, p) = 1 .. ActiveLen(mem2, p)
                                  /\ ActiveLen(mem1, p) \in Nat /\ ActiveLen(mem2, p) \in Nat
               /\ kind \notin {"opt", "vec"} => Active(mem1, p) = Active(mem2, p)
<1>. DEFINE kind == Type[p.type].kind
<1>1. p.type \in TypeId /\ p.at + 1 \in Nat
    BY Kinds
<1>2. ASSUME kind = "vec", NEW mem
      PROVE  ActiveLen(mem, p) \in Nat /\ DOMAIN Active(mem, p) = 1 .. ActiveLen(mem, p)
  <2>. DEFINE k == ActiveLen(mem, p)
  <2>1. k \in Nat
      BY <1>1, TypeFacts DEF ActiveLen
  <2>2. Active(mem, p) = Elements(p.type, p.at + 1, k)
      BY <1>2 DEF Active
  <2>. HIDE DEF k
  <2>3. DOMAIN Elements(p.type, p.at + 1, k) = 1 .. k
      BY <1>1, <1>2, <2>1, ElementsPack
  <2>. QED
      BY <2>1, <2>2, <2>3 DEF k
<1>3. kind = "opt" /\ (mem1[p.at] = 1) = (mem2[p.at] = 1) => Active(mem1, p) = Active(mem2, p)
    BY DEF Active
<1>4. kind = "vec" /\ ActiveLen(mem1, p) = ActiveLen(mem2, p) => Active(mem1, p) = Active(mem2, p)
    BY DEF Active
<1>5. kind \notin {"opt", "vec"} => Active(mem1, p) = Active(mem2, p)
    BY DEF Active
<1>. QED
    BY <1>2, <1>3, <1>4, <1>5

\* Two pods are equal exactly when they show the same.
LEMMA EqualShown ==
    ASSUME NEW mem1, NEW mem2
    PROVE  \A p \in Place : Equal(mem1, mem2, p) = (Shown(mem1, p) = Shown(mem2, p))
<1>. DEFINE S == {p \in Place : Equal(mem1, mem2, p) = (Shown(mem1, p) = Shown(mem2, p))}
<1>1. ASSUME NEW p \in Place, \A q \in Place : q.type < p.type => q \in S PROVE p \in S
  <2>. DEFINE ks == Active(mem1, p)
              ks2 == Active(mem2, p)
              inner == [i \in DOMAIN ks |-> Equal(mem1, mem2, ks[i])]
              alike == \A i \in DOMAIN inner : inner[i]
              shown1 == [i \in DOMAIN ks |-> Shown(mem1, ks[i])]
              shown2 == [i \in DOMAIN ks2 |-> Shown(mem2, ks2[i])]
              c1 == mem1[p.at]
              c2 == mem2[p.at]
              kind == Type[p.type].kind
  <2>1. Packs(ks, p.at, p.at + SizeOf[p.type], p.type)
      BY ActivePacks
  <2>2. \A i \in DOMAIN ks :
            Equal(mem1, mem2, ks[i]) = (Shown(mem1, ks[i]) = Shown(mem2, ks[i]))
    <3>1. \A i \in DOMAIN ks : ks[i] \in S
        BY <1>1, <2>1 DEF Packs
    <3>. QED
        BY <3>1
  <2>3. Equal(mem1, mem2, p) = PodEqual(mem1, mem2, p, inner)
      BY EqualUnfolds
  <2>4. /\ Shown(mem1, p) = PodShown(c1, p.type, shown1)
        /\ Shown(mem2, p) = PodShown(c2, p.type, shown2)
      BY ShownUnfolds
  <2>5. alike <=> \A i \in DOMAIN ks : Shown(mem1, ks[i]) = Shown(mem2, ks[i])
      BY <2>2
  <2>6. ASSUME ks = ks2 PROVE alike <=> shown1 = shown2
    <3>. DEFINE D == DOMAIN ks
    <3>1. shown1 = [i \in D |-> shown1[i]] /\ shown2 = [i \in D |-> shown2[i]]
        BY <2>6
    <3>2. \A i \in D : shown1[i] = Shown(mem1, ks[i]) /\ shown2[i] = Shown(mem2, ks[i])
        BY <2>6
    <3>. HIDE DEF shown1, shown2, D
    <3>3. shown1 = shown2 <=> \A i \in D : shown1[i] = shown2[i]
        BY <3>1, SameResults
    <3>. QED
        BY <2>5, <3>2, <3>3 DEF D
  <2>7. DOMAIN ks # DOMAIN ks2 => shown1 # shown2
      OBVIOUS
  <2>8. alike \in BOOLEAN
      OBVIOUS
  <2>. DEFINE eq == Equal(mem1, mem2, p)
  <2>9. /\ kind \in {"int", "enum"} => eq = (c1 = c2)
        /\ kind = "bool" => eq = ((c1 # 0) = (c2 # 0))
        /\ kind = "opt" => eq = ((c1 = 1) = (c2 = 1) /\ (c1 = 1 => alike))
        /\ kind = "vec" => eq = (ActiveLen(mem1, p) = ActiveLen(mem2, p) /\ alike)
        /\ kind \in {"array", "struct"} => eq = alike
      BY <2>3 DEF PodEqual, EqualOptions
  <2>10. /\ kind \in {"int", "enum"} => Shown(mem1, p) = c1 /\ Shown(mem2, p) = c2
         /\ kind = "bool" => Shown(mem1, p) = (c1 # 0) /\ Shown(mem2, p) = (c2 # 0)
         /\ kind \in {"opt", "vec", "array", "struct"} =>
               Shown(mem1, p) = shown1 /\ Shown(mem2, p) = shown2
      BY <2>4 DEF PodShown
  <2>11. /\ kind = "opt" /\ (c1 = 1) = (c2 = 1) => ks = ks2
         /\ kind = "vec" /\ ActiveLen(mem1, p) = ActiveLen(mem2, p) => ks = ks2
         /\ kind = "vec" /\ ActiveLen(mem1, p) # ActiveLen(mem2, p) => DOMAIN ks # DOMAIN ks2
         /\ kind \notin {"opt", "vec"} => ks = ks2
         /\ kind = "opt" /\ (c1 = 1) # (c2 = 1) => DOMAIN ks # DOMAIN ks2
         /\ kind = "opt" /\ c1 # 1 => DOMAIN ks = {}
    <3>1. /\ kind = "opt" /\ (c1 = 1) = (c2 = 1) => ks = ks2
          /\ kind = "vec" /\ ActiveLen(mem1, p) = ActiveLen(mem2, p) => ks = ks2
          /\ kind \notin {"opt", "vec"} => ks = ks2
        BY ActiveAlike
    <3>2. ASSUME kind = "vec", ActiveLen(mem1, p) # ActiveLen(mem2, p)
          PROVE  DOMAIN ks # DOMAIN ks2
      <4>. DEFINE m == ActiveLen(mem1, p)
                  n == ActiveLen(mem2, p)
      <4>1. m \in Nat /\ n \in Nat /\ m # n /\ DOMAIN ks = 1 .. m /\ DOMAIN ks2 = 1 .. n
          BY <3>2, ActiveAlike
      <4>. HIDE DEF m, n
      <4>2. 1 .. m # 1 .. n
          BY <4>1
      <4>. QED
          BY <4>1, <4>2
    <3>3. kind = "opt" =>
            /\ DOMAIN ks = IF c1 = 1 THEN {1} ELSE {}
            /\ DOMAIN ks2 = IF c2 = 1 THEN {1} ELSE {}
        BY ActiveOfOption
    <3>. QED
        BY <3>1, <3>2, <3>3
  <2>. HIDE DEF shown1, shown2, ks, ks2, inner, c1, c2, eq
  <2>12. eq = (Shown(mem1, p) = Shown(mem2, p))
    <3>. HIDE DEF alike
    <3>1. CASE kind \in {"int", "enum", "bool"}
        BY <2>9, <2>10, <3>1
    <3>2. CASE kind \in {"array", "struct"}
        BY <2>6, <2>8, <2>9, <2>10, <2>11, <3>2
    <3>3. CASE kind = "vec"
        BY <2>6, <2>7, <2>8, <2>9, <2>10, <2>11, <3>3
    <3>4. CASE kind = "opt" /\ (c1 = 1) # (c2 = 1)
        BY <2>7, <2>9, <2>10, <2>11, <3>4
    <3>5. CASE kind = "opt" /\ (c1 = 1) = (c2 = 1)
      <4>1. ks = ks2 /\ (alike <=> shown1 = shown2)
          BY <2>6, <2>11, <3>5
      <4>2. c1 # 1 => alike
          BY <2>5, <2>11, <3>5
      <4>. QED
          BY <2>8, <2>9, <2>10, <3>5, <4>1, <4>2
    <3>. QED
        BY <3>1, <3>2, <3>3, <3>4, <3>5, Kinds
  <2>. QED
      BY <2>12 DEF eq
<1>2. \A p \in Place : p \in S
  <2>. HIDE DEF S
  <2>. QED
      BY <1>1, PlaceInduction
<1>. QED
    BY <1>2

\* Accepted pods that are equal hash the same.
LEMMA EqualHashed ==
    ASSUME NEW mem1, NEW mem2
    PROVE  \A p \in Place :
             Verdict(mem1, p) = "ok" /\ Verdict(mem2, p) = "ok" /\ Equal(mem1, mem2, p) =>
               Hashed(mem1, p) = Hashed(mem2, p)
<1>. DEFINE Alike(p) == Verdict(mem1, p) = "ok" /\ Verdict(mem2, p) = "ok" /\ Equal(mem1, mem2, p)
            S == {p \in Place : Alike(p) => Hashed(mem1, p) = Hashed(mem2, p)}
<1>1. ASSUME NEW p \in Place, \A q \in Place : q.type < p.type => q \in S PROVE p \in S
  <2>. DEFINE ks == Active(mem1, p)
              ks2 == Active(mem2, p)
              inner == [i \in DOMAIN ks |-> Equal(mem1, mem2, ks[i])]
              alike == \A i \in DOMAIN inner : inner[i]
              hashed1 == [i \in DOMAIN ks |-> Hashed(mem1, ks[i])]
              hashed2 == [i \in DOMAIN ks2 |-> Hashed(mem2, ks2[i])]
              c1 == mem1[p.at]
              c2 == mem2[p.at]
              kind == Type[p.type].kind
  <2>. SUFFICES ASSUME Alike(p) PROVE Hashed(mem1, p) = Hashed(mem2, p)
      OBVIOUS
  <2>1. Packs(ks, p.at, p.at + SizeOf[p.type], p.type)
      BY ActivePacks
  <2>2. PodEqual(mem1, mem2, p, inner)
      BY EqualUnfolds
  <2>3. /\ Hashed(mem1, p) = PodHashed(c1, p.type, hashed1)
        /\ Hashed(mem2, p) = PodHashed(c2, p.type, hashed2)
      BY HashedUnfolds
  <2>4. /\ \A i \in DOMAIN ks : Verdict(mem1, ks[i]) = "ok"
        /\ \A i \in DOMAIN ks2 : Verdict(mem2, ks2[i]) = "ok"
        /\ OwnVerdict(c1, p.type) = "ok" /\ OwnVerdict(c2, p.type) = "ok"
      BY Accepted
  <2>5. kind = "opt" => c1 \in {0, 1} /\ c2 \in {0, 1}
      BY <2>4 DEF OwnVerdict
  <2>6. alike <=> \A i \in DOMAIN ks : Equal(mem1, mem2, ks[i])
      OBVIOUS
  <2>7. ASSUME ks = ks2, alike PROVE hashed1 = hashed2
    <3>1. \A i \in DOMAIN ks : Alike(ks[i]) /\ ks[i] \in S
        BY <1>1, <2>1, <2>4, <2>6, <2>7 DEF Packs
    <3>2. \A i \in DOMAIN ks : Hashed(mem1, ks[i]) = Hashed(mem2, ks[i])
        BY <3>1
    <3>. QED
        BY <2>7, <3>2
  <2>8. /\ kind \in {"int", "enum"} => c1 = c2
        /\ kind = "bool" => (c1 # 0) = (c2 # 0)
        /\ kind = "opt" => (c1 = 1) = (c2 = 1) /\ (c1 = 1 => alike)
        /\ kind = "vec" => ActiveLen(mem1, p) = ActiveLen(mem2, p) /\ alike
        /\ kind \in {"array", "struct"} => alike
      BY <2>2 DEF PodEqual, EqualOptions
  <2>9. kind \notin {"int", "enum", "bool"} => ks = ks2
      BY <2>8, ActiveAlike, Kinds
  <2>. HIDE DEF alike, hashed1, hashed2, ks, ks2, c1, c2
  <2>10. CASE kind \in {"int", "enum"}
      BY <2>3, <2>8, <2>10 DEF PodHashed
  <2>11. CASE kind = "bool"
      BY <2>3, <2>8, <2>11 DEF PodHashed
  <2>12. CASE kind = "opt" /\ c1 = 0
    <3>1. c2 = 0
        BY <2>5, <2>8, <2>12
    <3>. QED
        BY <2>3, <2>12, <3>1 DEF PodHashed
  <2>13. CASE kind = "opt" /\ c1 = 1
    <3>1. c2 = 1 /\ hashed1 = hashed2
        BY <2>7, <2>8, <2>9, <2>13
    <3>. QED
        BY <2>3, <2>13, <3>1 DEF PodHashed
  <2>14. CASE kind \in {"vec", "array", "struct"}
    <3>1. hashed1 = hashed2
        BY <2>7, <2>8, <2>9, <2>14
    <3>. QED
        BY <2>3, <2>14, <3>1 DEF PodHashed
  <2>. QED
      BY <2>5, <2>10, <2>11, <2>12, <2>13, <2>14, Kinds
<1>2. \A p \in Place : p \in S
  <2>. HIDE DEF S
  <2>. QED
      BY <1>1, PlaceInduction
<1>. QED
    BY <1>2

-----------------------------------------------------------------------------
(* What a pod's verdict depends on.                                        *)

\* Places of the same types, as far from a as the others are from b.
Shifted(ks, ls, a, b) ==
    /\ DOMAIN ls = DOMAIN ks
    /\ \A i \in DOMAIN ks : ks[i].type = ls[i].type /\ ks[i].at - a = ls[i].at - b

\* The pods a walk goes into lie as far into one pod as into another of the same
\* type with the same first cell.
LEMMA ActiveShifted ==
    ASSUME NEW mem1, NEW mem2, NEW p \in Place, NEW q \in Place, p.type = q.type,
           Type[p.type].kind \in {"opt", "vec"} => mem1[p.at] = mem2[q.at]
    PROVE  Shifted(Active(mem1, p), Active(mem2, q), p.at, q.at)
<1>. DEFINE t == p.type
            of == Type[t].of
            w == SizeOf[of[1]]
            kind == Type[t].kind
            ks == Active(mem1, p)
            ls == Active(mem2, q)
<1>1. t \in TypeId /\ p.at \in Nat /\ q.at \in Nat /\ q.type = t
    BY Kinds
<1>2. ASSUME NEW a \in Nat, NEW b \in Nat, NEW k \in Nat, NEW d \in Nat,
             kind \in {"opt", "vec", "array"},
             ks = Elements(t, a + d, k), ls = Elements(t, b + d, k), a = p.at, b = q.at
      PROVE  Shifted(ks, ls, a, b)
  <2>1. DOMAIN ks = 1 .. k /\ DOMAIN ls = 1 .. k /\ w \in Nat
    <3>1. a + d \in Nat /\ b + d \in Nat
        OBVIOUS
    <3>2. ASSUME NEW c \in Nat
          PROVE  DOMAIN Elements(t, c, k) = 1 .. k /\ SizeOf[Type[t].of[1]] \in Nat
        BY <1>1, <1>2, ElementsPack
    <3>. HIDE DEF t
    <3>3. /\ DOMAIN Elements(t, a + d, k) = 1 .. k /\ DOMAIN Elements(t, b + d, k) = 1 .. k
          /\ SizeOf[Type[t].of[1]] \in Nat
        BY <3>1, <3>2
    <3>. QED
        BY <1>2, <3>3
  <2>2. ASSUME NEW i \in 1 .. k
        PROVE  /\ ks[i].type = ls[i].type
               /\ ks[i].at - a = ls[i].at - b
    <3>1. /\ ks[i] = [type |-> of[1], at |-> (a + d) + (i - 1) * w]
          /\ ls[i] = [type |-> of[1], at |-> (b + d) + (i - 1) * w]
        BY <1>2 DEF Elements
    <3>. DEFINE o == (i - 1) * w
    <3>2. o \in Nat
        BY <2>1
    <3>3. ks[i].type = ls[i].type /\ ks[i].at = a + d + o /\ ls[i].at = b + d + o
        BY <3>1
    <3>. HIDE DEF o
    <3>. QED
        BY <3>2, <3>3
  <2>. QED
      BY <2>1, <2>2 DEF Shifted
<1>3. CASE kind = "opt"
  <2>. DEFINE k == IF mem1[p.at] = 1 THEN 1 ELSE 0
  <2>1. k \in Nat /\ ks = Elements(t, p.at + 1, k) /\ ls = Elements(t, q.at + 1, k)
      BY <1>1, <1>3 DEF Active
  <2>. HIDE DEF k, ks, ls
  <2>. QED
      BY <1>1, <1>2, <1>3, <2>1 DEF ks, ls
<1>4. CASE kind = "vec"
  <2>. DEFINE k == ActiveLen(mem1, p)
  <2>1. k \in Nat
      BY <1>1, TypeFacts DEF ActiveLen
  <2>2. ActiveLen(mem2, q) = k
      BY <1>1, <1>4 DEF ActiveLen
  <2>3. ks = Elements(t, p.at + 1, k) /\ ls = Elements(t, q.at + 1, k)
      BY <1>1, <1>4, <2>2 DEF Active
  <2>. HIDE DEF k, ks, ls
  <2>. QED
      BY <1>1, <1>2, <1>4, <2>1, <2>3 DEF ks, ls
<1>5. CASE kind = "array"
  <2>. DEFINE k == Type[t].n
  <2>1. k \in Nat
      BY <1>1, TypeFacts
  <2>2. ks = Elements(t, p.at + 0, k) /\ ls = Elements(t, q.at + 0, k)
      BY <1>1, <1>5 DEF Active, Parts
  <2>. HIDE DEF k, ks, ls
  <2>. QED
      BY <1>1, <1>2, <1>5, <2>1, <2>2 DEF ks, ls
<1>6. CASE kind = "struct"
  <2>1. /\ ks = [i \in DOMAIN of |-> [type |-> of[i], at |-> p.at + Offsets[t][i - 1]]]
        /\ ls = [i \in DOMAIN of |-> [type |-> of[i], at |-> q.at + Offsets[t][i - 1]]]
      BY <1>1, <1>6 DEF Active, Parts
  <2>2. DOMAIN of = 1 .. Len(of) /\ Len(of) \in Nat
      BY <1>1, TypeFacts
  <2>3. ASSUME NEW i \in DOMAIN of
        PROVE  ks[i].type = ls[i].type /\ ks[i].at - p.at = ls[i].at - q.at
    <3>. DEFINE o == Offsets[t][i - 1]
    <3>1. o \in Nat
        BY <1>1, <1>6, <2>2, FieldOffsets
    <3>2. ks[i].type = ls[i].type /\ ks[i].at = p.at + o /\ ls[i].at = q.at + o
        BY <2>1
    <3>. HIDE DEF o, ks, ls
    <3>. QED
        BY <1>1, <3>1, <3>2
  <2>. QED
      BY <2>1, <2>3 DEF Shifted
<1>7. CASE kind \notin {"opt", "vec", "array", "struct"}
    BY <1>1, <1>7 DEF Active, Shifted
<1>. HIDE DEF kind
<1>. QED
    BY <1>3, <1>4, <1>5, <1>6, <1>7

\* A pod asks about its own cells alone: two of the same type with the same
\* cells, wherever they lie, are accepted or refused alike.
LEMMA VerdictIsLocal ==
    ASSUME NEW mem1, NEW mem2
    PROVE  \A p \in Place : \A q \in Place :
             /\ p.type = q.type
             /\ \A j \in 0 .. (SizeOf[p.type] - 1) : mem1[p.at + j] = mem2[q.at + j]
             => Verdict(mem1, p) = Verdict(mem2, q)
<1>. DEFINE Same(p, q) == /\ p.type = q.type
                          /\ \A j \in 0 .. (SizeOf[p.type] - 1) : mem1[p.at + j] = mem2[q.at + j]
            S == {p \in Place : \A q \in Place : Same(p, q) => Verdict(mem1, p) = Verdict(mem2, q)}
<1>1. ASSUME NEW p \in Place, \A q \in Place : q.type < p.type => q \in S PROVE p \in S
  <2>. SUFFICES ASSUME NEW q \in Place, Same(p, q) PROVE Verdict(mem1, p) = Verdict(mem2, q)
      OBVIOUS
  <2>. DEFINE ks == Active(mem1, p)
              ls == Active(mem2, q)
              t == p.type
              a == p.at
              b == q.at
              w == SizeOf[t]
              kind == Type[t].kind
  <2>1. t \in TypeId /\ a \in Nat /\ b \in Nat /\ q.type = t /\ w \in Nat
      BY Kinds, SizeNat
  <2>2. kind \notin {"array", "struct"} => mem1[a] = mem2[b]
    <3>1. ASSUME kind \notin {"array", "struct"} PROVE mem1[a + 0] = mem2[b + 0]
      <4>1. 0 \in 0 .. (w - 1)
          BY <2>1, <3>1, SizePositive
      <4>. QED
          BY <4>1
    <3>. QED
        BY <2>1, <3>1
  <2>3. OwnVerdict(mem1[a], t) = OwnVerdict(mem2[b], t)
    <3>1. CASE kind \in {"array", "struct"}
        BY <3>1 DEF OwnVerdict
    <3>2. CASE kind \notin {"array", "struct"}
      <4>1. mem1[a] = mem2[b]
          BY <2>2, <3>2
      <4>. HIDE DEF a, b, t
      <4>. QED
          BY <4>1
    <3>. QED
        BY <3>1, <3>2
  <2>4. /\ DOMAIN ls = DOMAIN ks
        /\ \A i \in DOMAIN ks : ks[i].type = ls[i].type /\ ks[i].at - a = ls[i].at - b
    <3>1. Shifted(ks, ls, p.at, q.at)
        BY <2>2, ActiveShifted
    <3>. HIDE DEF ks, ls
    <3>. QED
        BY <3>1 DEF Shifted
  <2>5. /\ \A i \in DOMAIN ks : /\ ks[i] \in Place /\ ks[i].type < t
                                /\ a <= ks[i].at /\ ks[i].at + SizeOf[ks[i].type] <= a + w
        /\ \A i \in DOMAIN ls : ls[i] \in Place
      BY <2>1, ActivePacks DEF Packs
  <2>6. ASSUME NEW i \in DOMAIN ks PROVE Verdict(mem1, ks[i]) = Verdict(mem2, ls[i])
    <3>. DEFINE c == ks[i].at
                d == ls[i].at
                v == SizeOf[ks[i].type]
    <3>1. c \in Nat /\ d \in Nat /\ v \in Nat /\ c - a = d - b /\ a <= c /\ c + v <= a + w
        BY <2>4, <2>5, Kinds, SizeNat
    <3>2. ASSUME NEW j \in 0 .. (v - 1) PROVE mem1[c + j] = mem2[d + j]
      <4>. DEFINE o == (c - a) + j
      <4>1. o \in 0 .. (w - 1) /\ a + o = c + j /\ b + o = d + j
        <5>. HIDE DEF a, b, c, d, v, w
        <5>. QED
            BY <2>1, <3>1
      <4>2. mem1[a + o] = mem2[b + o]
        <5>. HIDE DEF o
        <5>. QED
            BY <4>1
      <4>. QED
          BY <4>1, <4>2
    <3>3. Same(ks[i], ls[i])
        BY <2>4, <3>2
    <3>4. ks[i] \in S /\ ls[i] \in Place
        BY <1>1, <2>4, <2>5
    <3>. QED
        BY <3>3, <3>4
  <2>. DEFINE inner == [i \in DOMAIN ks |-> Verdict(mem1, ks[i])]
              inner2 == [i \in DOMAIN ls |-> Verdict(mem2, ls[i])]
  <2>7. inner = inner2
    <3>. HIDE DEF ks, ls
    <3>. QED
        BY <2>4, <2>6
  <2>8. /\ Verdict(mem1, p) = PodVerdict(mem1[a], t, inner)
        /\ Verdict(mem2, q) = PodVerdict(mem2[b], t, inner2)
      BY <2>1, VerdictUnfolds
  <2>. HIDE DEF inner, inner2, a, b, t
  <2>. QED
      BY <2>3, <2>7, <2>8 DEF PodVerdict
<1>2. \A p \in Place : p \in S
  <2>. HIDE DEF S
  <2>. QED
      BY <1>1, PlaceInduction
<1>. QED
    BY <1>2

-----------------------------------------------------------------------------
(* What a program can assign, and where.                                   *)

\* The assignable places of a pod with parts are those of its parts.
LEMMA AssignableUnfolds ==
    ASSUME NEW p \in Place
    PROVE  Assignable(p) =
             IF Type[p.type].kind \in {"array", "struct"}
             THEN UNION {Assignable(Parts(p)[i]) : i \in DOMAIN Parts(p)}
             ELSE {p}
<1>. DEFINE Step(f, q) == IF Type[q.type].kind \in {"array", "struct"}
                          THEN UNION ToSet(Inside(f, Parts(q)))
                          ELSE {q}
            Rec(n, f) == f = [q \in Below(n) |-> Step(f, q)]
            R == {n \in 0 .. Len(Type) : \E f : Rec(n, f)}
<1>1. Len(Type) \in Nat /\ Place = Below(Len(Type)) /\ Below(0) = {}
    BY BelowFacts
<1>2. 0 \in R
  <2>. DEFINE f == [q \in {} |-> 0]
  <2>1. Rec(0, f) /\ 0 \in 0 .. Len(Type)
      BY <1>1
  <2>. HIDE DEF f, Rec
  <2>. QED
      BY <2>1
<1>3. ASSUME NEW n \in 1 .. Len(Type), n - 1 \in R PROVE n \in R
  <2>1. PICK f : Rec(n - 1, f)
      BY <1>3
  <2>. DEFINE g == [q \in Below(n) |-> Step(f, q)]
  <2>2. Below(n - 1) \subseteq Below(n)
      BY <1>1, BelowFacts
  <2>3. \A q \in Below(n - 1) : f[q] = g[q]
    <3>. HIDE DEF Step
    <3>. QED
        BY <2>1, <2>2
  <2>4. \A q \in Below(n) : Inside(f, Active(0, q)) = Inside(g, Active(0, q))
    <3>. HIDE DEF g
    <3>. QED
        BY <2>3, WalksAgreeInside
  <2>5. \A q \in Below(n) : Step(f, q) = Step(g, q)
    <3>. HIDE DEF g
    <3>. QED
        BY <2>4 DEF Active
  <2>6. Rec(n, g)
    <3>. HIDE DEF Step
    <3>. QED
        BY <2>5
  <2>. HIDE DEF g, Rec
  <2>. QED
      BY <1>1, <2>6
<1>4. \A n \in 0 .. Len(Type) : n \in R
  <2>. HIDE DEF R
  <2>. QED
      BY <1>1, <1>2, <1>3, RangeInduction
<1>. DEFINE walk == CHOOSE f : f = [q \in Place |-> Step(f, q)]
<1>5. walk = [q \in Place |-> Step(walk, q)]
  <2>1. \E f : f = [q \in Place |-> Step(f, q)]
    <3>. HIDE DEF Step
    <3>. QED
        BY <1>1, <1>4
  <2>. HIDE DEF Step
  <2>. QED
      BY <2>1
<1>6. \A q : Assignable(q) = walk[q]
    BY DEF Assignable
<1>. HIDE DEF walk
<1>7. Assignable(p) = Step(walk, p)
  <2>. HIDE DEF Step
  <2>. QED
      BY <1>5, <1>6
<1>8. Inside(walk, Parts(p)) = [i \in DOMAIN Parts(p) |-> Assignable(Parts(p)[i])]
    BY <1>6 DEF Inside
<1>9. ToSet(Inside(walk, Parts(p))) = {Assignable(Parts(p)[i]) : i \in DOMAIN Parts(p)}
    BY <1>8 DEF ToSet
<1>. QED
    BY <1>7, <1>9

\* The recursion of Pods has a solution, found type by type.
LEMMA PodsExist == \E f : f = [t \in TypeId |-> PodsFrom(t, Inside(f, Type[t].of))]
<1>. DEFINE Rec(n, f) == f = [t \in 1 .. n |-> PodsFrom(t, Inside(f, Type[t].of))]
            R == {n \in 0 .. Len(Type) : \E f : Rec(n, f)}
<1>1. TypeId = 1 .. Len(Type) /\ Len(Type) \in Nat
    BY FixedSchemaAssumption DEF TypeId
<1>2. 0 \in R
  <2>. DEFINE f == [t \in {} |-> 0]
  <2>1. Rec(0, f)
      OBVIOUS
  <2>2. 0 \in 0 .. Len(Type)
      BY <1>1
  <2>. HIDE DEF f, Rec
  <2>. QED
      BY <2>1, <2>2
<1>3. ASSUME NEW n \in 1 .. Len(Type), n - 1 \in R PROVE n \in R
  <2>1. PICK f : Rec(n - 1, f)
      BY <1>3
  <2>. DEFINE g == [t \in 1 .. n |-> PodsFrom(t, Inside(f, Type[t].of))]
  <2>2. \A t \in 1 .. (n - 1) : g[t] = f[t]
      BY <2>1
  <2>3. ASSUME NEW t \in 1 .. n PROVE Inside(f, Type[t].of) = Inside(g, Type[t].of)
    <3>1. \A i \in DOMAIN Type[t].of : Type[t].of[i] \in 1 .. (n - 1)
        BY <1>1, TypeFacts
    <3>. HIDE DEF g
    <3>. QED
        BY <2>2, <3>1, InsideAgrees
  <2>4. Rec(n, g)
      BY <2>3
  <2>. HIDE DEF g, Rec
  <2>. QED
      BY <1>1, <2>4
<1>4. \A n \in 0 .. Len(Type) : n \in R
  <2>. HIDE DEF R
  <2>. QED
      BY <1>1, <1>2, <1>3, RangeInduction
<1>. QED
    BY <1>1, <1>4

\* Pods is what can be built of each type from the pods of those it is made of.
LEMMA PodsUnfold ==
    ASSUME NEW t \in TypeId
    PROVE  Pods[t] = PodsFrom(t, Inside(Pods, Type[t].of))
<1>. DEFINE f == CHOOSE f : f = [u \in TypeId |-> PodsFrom(u, Inside(f, Type[u].of))]
<1>1. f = [u \in TypeId |-> PodsFrom(u, Inside(f, Type[u].of))]
    BY PodsExist
<1>2. Pods = [u \in TypeId |-> f[u]]
    BY DEF Pods
<1>. HIDE DEF f
<1>3. \A u \in TypeId : Pods[u] = f[u]
    BY <1>2
<1>4. Inside(f, Type[t].of) = Inside(Pods, Type[t].of)
    BY <1>3, TypeFacts, InsideAgrees
<1>5. f[t] = PodsFrom(t, Inside(f, Type[t].of))
    BY <1>1
<1>. QED
    BY <1>3, <1>4, <1>5

\* The n sequences ss of length w over X, one after the other, are s.
Joined(s, X, n, w, ss) ==
    /\ s \in Seq(X) /\ Len(s) = n * w
    /\ \A i \in 1 .. n : \A j \in 1 .. w : s[(i - 1) * w + j] = ss[i][j]

\* FlattenSeq joins sequences of one length.
LEMMA FlattenFacts ==
    ASSUME NEW X, NEW n \in Nat, NEW w \in Nat, NEW ss \in [1 .. n -> Seq(X)],
           \A i \in 1 .. n : Len(ss[i]) = w
    PROVE  Joined(FlattenSeq(ss), X, n, w, ss)
<1>. DEFINE Step(f, k) == IF k = 1 THEN ss[k] ELSE f[k - 1] \o ss[k]
            Rec(m, f) == f = [k \in 1 .. m |-> Step(f, k)]
            R == {m \in 0 .. n : \E f : Rec(m, f)}
            Good(m, s) ==
              /\ s \in Seq(X) /\ Len(s) = m * w
              /\ \A i \in 1 .. m : \A j \in 1 .. w : s[(i - 1) * w + j] = ss[i][j]
<1>1. 0 \in R
  <2>. DEFINE f == [k \in {} |-> 0]
  <2>1. Rec(0, f)
      OBVIOUS
  <2>. HIDE DEF f, Rec
  <2>. QED
      BY <2>1
<1>2. ASSUME NEW m \in 1 .. n, m - 1 \in R PROVE m \in R
  <2>1. PICK f : Rec(m - 1, f)
      BY <1>2
  <2>. DEFINE g == [k \in 1 .. m |-> Step(f, k)]
  <2>2. \A k \in 1 .. (m - 1) : g[k] = f[k]
    <3>. HIDE DEF Step
    <3>. QED
        BY <2>1
  <2>3. \A k \in 1 .. m : Step(f, k) = Step(g, k)
    <3>1. \A k \in 1 .. m : k # 1 => k - 1 \in 1 .. (m - 1)
        OBVIOUS
    <3>. HIDE DEF g
    <3>. QED
        BY <2>2, <3>1
  <2>4. Rec(m, g)
    <3>. HIDE DEF Step
    <3>. QED
        BY <2>3
  <2>. HIDE DEF g, Rec
  <2>. QED
      BY <2>4
<1>3. n \in R
  <2>. HIDE DEF R
  <2>1. \A m \in 0 .. n : m \in R
      BY <1>1, <1>2, RangeInduction
  <2>. QED
      BY <2>1
<1>. DEFINE flatten == CHOOSE f : Rec(n, f)
<1>4. Rec(n, flatten)
  <2>. HIDE DEF Rec
  <2>. QED
      BY <1>3
<1>5. Len(ss) = n
    BY FunctionLen
<1>6. n # 0 => FlattenSeq(ss) = flatten[n]
    BY <1>5 DEF FlattenSeq
<1>. HIDE DEF flatten
<1>7. \A k \in 1 .. n : flatten[k] = IF k = 1 THEN ss[k] ELSE flatten[k - 1] \o ss[k]
    BY <1>4
<1>. DEFINE Q == {m \in 0 .. n : m = 0 \/ Good(m, flatten[m])}
<1>8. 0 \in Q
    OBVIOUS
<1>9. ASSUME NEW m \in 1 .. n, m - 1 \in Q PROVE m \in Q
  <2>1. CASE m = 1
    <3>1. flatten[m] = ss[1] /\ ss[1] \in Seq(X) /\ Len(ss[1]) = w /\ m * w = w /\ 0 * w = 0
        BY <1>7, <2>1
    <3>2. \A i \in 1 .. m : \A j \in 1 .. w : (i - 1) * w + j = j /\ i = 1
        BY <2>1, <3>1
    <3>3. Good(m, flatten[m])
        BY <3>1, <3>2
    <3>. HIDE DEF Good
    <3>. QED
        BY <3>3
  <2>2. CASE m # 1
    <3>. DEFINE s == flatten[m - 1]
                b == (m - 1) * w
    <3>1. Good(m - 1, s) /\ flatten[m] = s \o ss[m]
      <4>1. m - 1 # 0
          BY <2>2
      <4>2. flatten[m] = s \o ss[m]
          BY <1>7, <2>2
      <4>3. m - 1 = 0 \/ Good(m - 1, s)
        <5>. HIDE DEF Good
        <5>. QED
            BY <1>9
      <4>. HIDE DEF Good
      <4>. QED
          BY <4>1, <4>2, <4>3
    <3>2. b \in Nat /\ m * w = b + w
        OBVIOUS
    <3>3. s \in Seq(X) /\ ss[m] \in Seq(X) /\ Len(s) = b /\ Len(ss[m]) = w
        BY <3>1
    <3>4. /\ flatten[m] \in Seq(X) /\ Len(flatten[m]) = b + w
          /\ \A x \in 1 .. (b + w) : flatten[m][x] = IF x <= b THEN s[x] ELSE ss[m][x - b]
      <4>. DEFINE u == ss[m]
      <4>1. /\ flatten[m] = s \o u /\ b \in Nat
            /\ s \in Seq(X) /\ u \in Seq(X) /\ Len(s) = b /\ Len(u) = w /\ w \in Nat
          BY <3>1, <3>2, <3>3
      <4>. HIDE DEF s, b, u
      <4>2. s \in Seq(X) /\ u \in Seq(X)
          BY <4>1
      <4>3. /\ s \o u \in Seq(X) /\ Len(s \o u) = Len(s) + Len(u)
            /\ \A x \in 1 .. (Len(s) + Len(u)) :
                 (s \o u)[x] = IF x <= Len(s) THEN s[x] ELSE u[x - Len(s)]
          BY ONLY <4>2
      <4>. QED
          BY <4>1, <4>3 DEF u
    <3>5. ASSUME NEW i \in 1 .. m, NEW j \in 1 .. w
          PROVE  flatten[m][(i - 1) * w + j] = ss[i][j]
      <4>. DEFINE o == (i - 1) * w
      <4>1. CASE i = m
        <5>1. o = b /\ b + j \in 1 .. (b + w) /\ ~(b + j <= b) /\ (b + j) - b = j
          <6>1. o = b
              BY <4>1
          <6>. HIDE DEF o, b
          <6>. QED
              BY <3>2, <6>1
        <5>2. flatten[m][b + j] = ss[m][j]
          <6>. HIDE DEF b, s
          <6>. QED
              BY <3>4, <5>1
        <5>. QED
            BY <4>1, <5>1, <5>2
      <4>2. CASE i # m
        <5>1. o \in Nat /\ o + w <= b
          <6>. DEFINE c == m - 1 - i
          <6>1. c \in Nat /\ i - 1 \in Nat /\ m - 1 = (i - 1) + 1 + c
              BY <4>2
          <6>2. o \in Nat /\ c * w \in Nat
              BY <6>1
          <6>3. b = o + w + c * w
              BY <6>1
          <6>. HIDE DEF o, b
          <6>. QED
              BY <6>2, <6>3
        <5>2. o + j \in 1 .. (b + w) /\ o + j <= b
          <6>. HIDE DEF o, b
          <6>. QED
              BY <3>2, <5>1
        <5>3. s[o + j] = ss[i][j]
          <6>1. i \in 1 .. (m - 1)
              BY <4>2
          <6>. HIDE DEF s
          <6>. QED
              BY <3>1, <6>1
        <5>4. flatten[m][o + j] = s[o + j]
          <6>. HIDE DEF o, b, s
          <6>. QED
              BY <3>4, <5>2
        <5>. QED
            BY <5>3, <5>4
      <4>. QED
          BY <4>1, <4>2
    <3>6. Good(m, flatten[m])
        BY <3>2, <3>4, <3>5
    <3>. HIDE DEF Good
    <3>. QED
        BY <3>6
  <2>. QED
      BY <2>1, <2>2
<1>10. n \in Q
  <2>. HIDE DEF Q
  <2>1. \A m \in 0 .. n : m \in Q
      BY <1>8, <1>9, RangeInduction
  <2>. QED
      BY <2>1
<1>11. CASE n = 0
  <2>1. ss = << >> /\ FlattenSeq(ss) = << >>
      BY <1>5, <1>11 DEF FlattenSeq
  <2>2. Len(<< >>) = 0 /\ << >> \in Seq(X) /\ n * w = 0 /\ 1 .. n = {}
      BY <1>11
  <2>. QED
      BY <2>1, <2>2 DEF Joined
<1>12. CASE n # 0
    BY <1>6, <1>10, <1>12 DEF Joined
<1>. QED
    BY <1>11, <1>12

\* A pod by itself, beginning at the first cell.
Alone(t) == [type |-> t, at |-> 1]

\* A pod that can be assigned: of the size of its type, and accepted.
Built(t, pod) ==
    pod \in Seq(Cell) /\ Len(pod) = SizeOf[t] /\ Verdict(pod, Alone(t)) = "ok"

\* A pod by itself is a place.
LEMMA AlonePlace ==
    ASSUME NEW t \in TypeId
    PROVE  Alone(t) \in Place /\ Alone(t).type = t /\ Alone(t).at = 1
BY DEF Alone, Place

\* A place is accepted when it holds the cells of an accepted pod.
LEMMA HoldsBuilt ==
    ASSUME NEW mem, NEW p \in Place, NEW pod, Built(p.type, pod),
           \A j \in 1 .. SizeOf[p.type] : mem[p.at + (j - 1)] = pod[j]
    PROVE  Verdict(mem, p) = "ok"
<1>. DEFINE q == Alone(p.type)
            w == SizeOf[p.type]
<1>1. p.type \in TypeId /\ p.at \in Nat /\ w \in Nat
    BY Kinds, SizeNat
<1>2. q \in Place /\ q.type = p.type /\ q.at = 1
    BY <1>1, AlonePlace
<1>3. \A j \in 0 .. (w - 1) : pod[q.at + j] = mem[p.at + j]
  <2>. SUFFICES ASSUME NEW j \in 0 .. (w - 1) PROVE pod[1 + j] = mem[p.at + j]
      BY <1>2
  <2>1. 1 + j \in 1 .. w /\ p.at + ((1 + j) - 1) = p.at + j
    <3>. HIDE DEF w
    <3>. QED
        BY <1>1
  <2>2. mem[p.at + ((1 + j) - 1)] = pod[1 + j]
      BY <2>1
  <2>. QED
      BY <2>1, <2>2
<1>. HIDE DEF q
<1>4. Verdict(pod, q) = Verdict(mem, p)
    BY <1>2, <1>3, VerdictIsLocal
<1>. QED
    BY <1>4 DEF Built, q

\* An option or a vector is accepted with the pods it is built of.
LEMMA BuiltOfElements ==
    ASSUME NEW t \in TypeId, Type[t].kind \in {"opt", "vec"}, NEW pod \in Seq(Cell),
           Len(pod) = SizeOf[t], OwnVerdict(pod[1], t) = "ok",
           NEW n \in Nat, NEW es, Active(pod, Alone(t)) = Elements(t, 2, n),
           \A i \in 1 .. n :
             /\ Built(Type[t].of[1], es[i])
             /\ \A j \in 1 .. SizeOf[Type[t].of[1]] :
                  pod[1 + ((i - 1) * SizeOf[Type[t].of[1]] + j)] = es[i][j]
    PROVE  Built(t, pod)
<1>. DEFINE of == Type[t].of[1]
            w == SizeOf[of]
            p == Alone(t)
            ks == Elements(t, 2, n)
<1>1. p \in Place /\ p.type = t /\ p.at = 1
    BY AlonePlace
<1>2. DOMAIN ks = 1 .. n /\ w \in Nat /\ Packs(ks, 2, 2 + n * w, t)
    BY ElementsPack
<1>3. ASSUME NEW i \in 1 .. n PROVE Verdict(pod, ks[i]) = "ok"
  <2>. DEFINE o == (i - 1) * w
  <2>1. ks[i] \in Place /\ ks[i].type = of /\ ks[i].at = 2 + o
    <3>1. ks[i] \in Place
        BY <1>2 DEF Packs
    <3>2. ks[i] = [type |-> of, at |-> 2 + o]
        BY DEF Elements
    <3>. QED
        BY <3>1, <3>2
  <2>2. o \in Nat
    <3>1. i - 1 \in Nat /\ w \in Nat
        BY <1>2
    <3>. HIDE DEF w
    <3>. QED
        BY <3>1
  <2>3. \A j \in 1 .. w : pod[1 + (o + j)] = es[i][j]
      OBVIOUS
  <2>4. \A j \in 1 .. w : pod[ks[i].at + (j - 1)] = es[i][j]
    <3>. HIDE DEF o, w, ks, of
    <3>1. \A j \in 1 .. w : ks[i].at + (j - 1) = 1 + (o + j)
        BY <1>2, <2>1, <2>2
    <3>. QED
        BY <2>3, <3>1
  <2>5. Built(of, es[i])
      OBVIOUS
  <2>. HIDE DEF ks, of
  <2>6. ks[i] \in Place /\ Built(ks[i].type, es[i])
        /\ \A j \in 1 .. SizeOf[ks[i].type] : pod[ks[i].at + (j - 1)] = es[i][j]
      BY <2>1, <2>4, <2>5
  <2>. QED
      BY <2>6, HoldsBuilt
<1>4. Active(pod, p) = ks
    OBVIOUS
<1>5. OwnVerdict(pod[p.at], p.type) = "ok"
    BY <1>1
<1>. HIDE DEF p, ks
<1>6. Verdict(pod, p) = "ok"
    BY <1>1, <1>2, <1>3, <1>4, <1>5, Accepted
<1>. QED
    BY <1>6 DEF Built, p

\* A scalar is accepted for what it holds.
LEMMA BuiltOfCell ==
    ASSUME NEW t \in TypeId, Type[t].kind \in {"int", "bool", "enum"}, NEW c \in Cell,
           OwnVerdict(c, t) = "ok"
    PROVE  Built(t, <<c>>)
<1>. DEFINE p == Alone(t)
            pod == <<c>>
<1>1. p \in Place /\ p.type = t /\ p.at = 1
    BY AlonePlace
<1>2. SizeOf[t] = 1
    BY SizeUnfolds DEF Packed
<1>3. pod \in Seq(Cell) /\ Len(pod) = 1 /\ pod[1] = c
    OBVIOUS
<1>4. DOMAIN Active(pod, p) = {}
    BY <1>1 DEF Active
<1>. HIDE DEF p, pod
<1>5. Verdict(pod, p) = "ok"
    BY <1>1, <1>3, <1>4, Accepted
<1>. QED
    BY <1>2, <1>3, <1>5 DEF Built, p, pod

\* Zeros are cells.
LEMMA ZerosFacts ==
    ASSUME NEW k \in Nat
    PROVE  Zeros(k) \in Seq(Cell) /\ Len(Zeros(k)) = k
<1>1. Zeros(k) \in [1 .. k -> Cell]
    BY FixedSchemaAssumption DEF Zeros
<1>. QED
    BY <1>1

\* A sequence after one cell.
LEMMA AfterCell ==
    ASSUME NEW c \in Cell, NEW s \in Seq(Cell)
    PROVE  /\ <<c>> \o s \in Seq(Cell) /\ Len(<<c>> \o s) = 1 + Len(s)
           /\ (<<c>> \o s)[1] = c
           /\ \A j \in 1 .. Len(s) : (<<c>> \o s)[1 + j] = s[j]
OBVIOUS

\* From<bool>, From<Enum>, PodOption::some and none, and try_set_from_slice build
\* accepted pods of the size of their type.
LEMMA PodsAreBuilt == \A t \in TypeId : \A pod \in Pods[t] : Built(t, pod)
<1>. DEFINE S == {t \in TypeId : \A pod \in Pods[t] : Built(t, pod)}
<1>1. ASSUME NEW t \in TypeId, \A u \in TypeId : u < t => u \in S PROVE t \in S
  <2>. DEFINE of == Type[t].of[1]
              w == SizeOf[of]
              kind == Type[t].kind
              n == Type[t].n
              inner == Inside(Pods, Type[t].of)
  <2>. SUFFICES ASSUME NEW pod \in Pods[t] PROVE Built(t, pod)
      OBVIOUS
  <2>1. pod \in PodsFrom(t, inner)
      BY PodsUnfold
  <2>2. kind \in {"opt", "vec"} =>
          /\ of \in TypeId /\ of \in S /\ inner[1] = Pods[of] /\ w \in Nat
          /\ n \in Nat /\ Alone(t) \in Place /\ Alone(t).type = t /\ Alone(t).at = 1
    <3>1. kind \in {"opt", "vec"} => 1 \in DOMAIN Type[t].of /\ of \in TypeId /\ of < t
        BY TypeFacts
    <3>2. kind \in {"opt", "vec"} => inner[1] = Pods[of]
        BY <3>1 DEF Inside
    <3>. QED
        BY <1>1, <3>1, <3>2, SizeNat, TypeFacts, AlonePlace
  <2>3. kind = "opt" => SizeOf[t] = 1 + w
    <3>1. Inside(SizeOf, Type[t].of)[1] = w \/ kind # "opt"
        BY TypeFacts DEF Inside
    <3>. QED
        BY <3>1, SizeUnfolds DEF Packed
  <2>4. kind = "vec" => SizeOf[t] = 1 + n * w
    <3>1. Inside(SizeOf, Type[t].of)[1] = w \/ kind # "vec"
        BY TypeFacts DEF Inside
    <3>. QED
        BY <3>1, SizeUnfolds DEF Packed
  <2>5. CASE kind = "int"
    <3>1. PICK c \in Cell : pod = <<c>>
        BY <2>1, <2>5 DEF PodsFrom
    <3>2. OwnVerdict(c, t) = "ok"
        BY <2>5 DEF OwnVerdict
    <3>. QED
        BY <2>5, <3>1, <3>2, BuiltOfCell
  <2>6. CASE kind = "bool"
    <3>1. PICK c \in {0, 1} : pod = <<c>>
        BY <2>1, <2>6 DEF PodsFrom
    <3>2. OwnVerdict(c, t) = "ok" /\ c \in Cell
        BY <2>6, FixedSchemaAssumption DEF OwnVerdict
    <3>. QED
        BY <2>6, <3>1, <3>2, BuiltOfCell
  <2>7. CASE kind = "enum"
    <3>1. PICK c \in Type[t].named : pod = <<c>>
        BY <2>1, <2>7 DEF PodsFrom
    <3>2. OwnVerdict(c, t) = "ok" /\ c \in Cell
        BY <2>7, TypeFacts DEF OwnVerdict, TypeSchema
    <3>. QED
        BY <2>7, <3>1, <3>2, BuiltOfCell
  <2>8. CASE kind = "opt"
    <3>1. pod = << 0 >> \o Zeros(w) \/ \E some \in Pods[of] : pod = << 1 >> \o some
        BY <2>1, <2>2, <2>8 DEF PodsFrom
    <3>2. CASE pod = << 0 >> \o Zeros(w)
      <4>1. pod \in Seq(Cell) /\ Len(pod) = SizeOf[t] /\ pod[1] = 0
        <5>. DEFINE s == Zeros(w)
        <5>1. s \in Seq(Cell) /\ Len(s) = w /\ 0 \in Cell
            BY <2>2, <2>8, ZerosFacts, FixedSchemaAssumption
        <5>. HIDE DEF s
        <5>2. << 0 >> \o s \in Seq(Cell) /\ Len(<< 0 >> \o s) = 1 + Len(s) /\ (<< 0 >> \o s)[1] = 0
            BY <5>1, AfterCell
        <5>. QED
            BY <2>3, <2>8, <3>2, <5>1, <5>2 DEF s
      <4>2. OwnVerdict(pod[1], t) = "ok"
          BY <2>8, <4>1 DEF OwnVerdict
      <4>3. Active(pod, Alone(t)) = Elements(t, 2, 0)
          BY <2>2, <2>8, <4>1 DEF Active
      <4>4. kind \in {"opt", "vec"} /\ 0 \in Nat /\ 1 .. 0 = {}
          BY <2>8
      <4>. HIDE DEF kind
      <4>5. kind = Type[t].kind
          BY DEF kind
      <4>. QED
          BY <4>1, <4>2, <4>3, <4>4, <4>5, BuiltOfElements
    <3>3. ASSUME NEW some \in Pods[of], pod = << 1 >> \o some PROVE Built(t, pod)
      <4>1. Built(of, some)
          BY <2>2, <2>8
      <4>2. /\ pod \in Seq(Cell) /\ Len(pod) = SizeOf[t] /\ pod[1] = 1
            /\ \A j \in 1 .. w : pod[1 + j] = some[j]
        <5>1. some \in Seq(Cell) /\ Len(some) = w /\ 1 \in Cell
            BY <4>1, FixedSchemaAssumption DEF Built
        <5>. HIDE DEF w
        <5>2. /\ << 1 >> \o some \in Seq(Cell) /\ Len(<< 1 >> \o some) = 1 + Len(some)
              /\ (<< 1 >> \o some)[1] = 1
              /\ \A j \in 1 .. Len(some) : (<< 1 >> \o some)[1 + j] = some[j]
            BY <5>1, AfterCell
        <5>. QED
            BY <2>3, <2>8, <3>3, <5>1, <5>2
      <4>3. OwnVerdict(pod[1], t) = "ok"
          BY <2>8, <4>2 DEF OwnVerdict
      <4>4. Active(pod, Alone(t)) = Elements(t, 2, 1)
          BY <2>2, <2>8, <4>2 DEF Active
      <4>. DEFINE es == [i \in 1 .. 1 |-> some]
      <4>5. ASSUME NEW i \in 1 .. 1
            PROVE  /\ Built(of, es[i])
                   /\ \A j \in 1 .. w : pod[1 + ((i - 1) * w + j)] = es[i][j]
        <5>1. i = 1 /\ es[i] = some /\ (i - 1) * w = 0
            BY <2>2, <2>8
        <5>2. \A j \in 1 .. w : (i - 1) * w + j = j
            BY <5>1, <2>2, <2>8
        <5>. QED
            BY <4>1, <4>2, <5>1, <5>2
      <4>. HIDE DEF es
      <4>6. Type[t].kind \in {"opt", "vec"} /\ 1 \in Nat
          BY <2>8
      <4>. QED
          BY <4>2, <4>3, <4>4, <4>5, <4>6, BuiltOfElements
    <3>. QED
        BY <3>1, <3>2, <3>3
  <2>9. CASE kind = "vec"
    <3>0. PICK k \in 0 .. n : \E es \in [1 .. k -> Pods[of]] : pod = Filled(t, es)
        BY <2>1, <2>2, <2>9 DEF PodsFrom
    <3>1. PICK es \in [1 .. k -> Pods[of]] : pod = Filled(t, es)
        BY <3>0
    <3>. DEFINE flat == FlattenSeq(es)
                rest == Zeros((n - k) * w)
    <3>2. w \in Nat /\ n \in Nat /\ k \in Nat /\ k <= n /\ k \in Cell
        BY <2>2, <2>9, FixedSchemaAssumption
    <3>3. \A i \in 1 .. k : Built(of, es[i])
        BY <2>2, <2>9
    <3>4. es \in [1 .. k -> Seq(Cell)] /\ \A i \in 1 .. k : Len(es[i]) = w
        BY <3>3 DEF Built
    <3>5. Len(es) = k
        BY <3>2, FunctionLen
    <3>6. /\ flat \in Seq(Cell) /\ Len(flat) = k * w
          /\ \A i \in 1 .. k : \A j \in 1 .. w : flat[(i - 1) * w + j] = es[i][j]
      <4>. HIDE DEF w, n
      <4>1. /\ k \in Nat /\ w \in Nat /\ es \in [1 .. k -> Seq(Cell)]
            /\ \A i \in 1 .. k : Len(es[i]) = w
          BY <3>2, <3>4
      <4>2. Joined(FlattenSeq(es), Cell, k, w, es)
          BY <4>1, FlattenFacts
      <4>. QED
          BY <4>2 DEF Joined
    <3>7. k * w \in Nat /\ (n - k) * w \in Nat /\ k * w + (n - k) * w = n * w
      <4>1. n - k \in Nat
          BY <3>2
      <4>. HIDE DEF w, n
      <4>. QED
          BY <3>2, <4>1
    <3>8. rest \in Seq(Cell) /\ Len(rest) = (n - k) * w
        BY <3>7, ZerosFacts
    <3>9. pod = <<k>> \o flat \o rest
        BY <3>1, <3>5 DEF Filled
    <3>. HIDE DEF flat, rest, w, n
    <3>10. /\ flat \o rest \in Seq(Cell) /\ Len(flat \o rest) = n * w
           /\ \A j \in 1 .. Len(flat) : (flat \o rest)[j] = flat[j]
      <4>1. /\ flat \o rest \in Seq(Cell) /\ Len(flat \o rest) = Len(flat) + Len(rest)
            /\ \A j \in 1 .. Len(flat) : (flat \o rest)[j] = flat[j]
        <5>1. flat \in Seq(Cell) /\ rest \in Seq(Cell)
            BY <3>6, <3>8
        <5>. QED
            BY ONLY <5>1
      <4>. QED
          BY <3>6, <3>7, <3>8, <4>1
    <3>11. pod = <<k>> \o (flat \o rest)
        BY <3>2, <3>6, <3>8, <3>9
    <3>12. /\ pod \in Seq(Cell) /\ Len(pod) = 1 + n * w /\ pod[1] = k
           /\ \A j \in 1 .. (k * w) : pod[1 + j] = flat[j]
      <4>. DEFINE s == flat \o rest
      <4>1. s \in Seq(Cell) /\ Len(s) = n * w /\ k \in Cell
            /\ (\A j \in 1 .. (k * w) : j \in 1 .. (n * w) /\ s[j] = flat[j])
          BY <3>2, <3>6, <3>7, <3>10
      <4>2. pod = <<k>> \o s
          BY <3>11
      <4>. HIDE DEF s
      <4>3. /\ <<k>> \o s \in Seq(Cell) /\ Len(<<k>> \o s) = 1 + Len(s)
            /\ (<<k>> \o s)[1] = k
            /\ \A j \in 1 .. Len(s) : (<<k>> \o s)[1 + j] = s[j]
          BY <4>1, AfterCell
      <4>. QED
          BY <4>1, <4>2, <4>3
    <3>13. Len(pod) = SizeOf[t]
        BY <2>4, <2>9, <3>12
    <3>14. OwnVerdict(pod[1], t) = "ok"
        BY <2>9, <3>2, <3>12 DEF OwnVerdict, n
    <3>15. Active(pod, Alone(t)) = Elements(t, 2, k)
      <4>1. ActiveLen(pod, Alone(t)) = k
          BY <2>2, <2>9, <3>2, <3>12 DEF ActiveLen, n
      <4>. QED
          BY <2>2, <2>9, <4>1 DEF Active
    <3>16. ASSUME NEW i \in 1 .. k
           PROVE  /\ Built(of, es[i])
                  /\ \A j \in 1 .. w : pod[1 + ((i - 1) * w + j)] = es[i][j]
      <4>1. ASSUME NEW j \in 1 .. w PROVE pod[1 + ((i - 1) * w + j)] = es[i][j]
        <5>. DEFINE o == (i - 1) * w
        <5>1. o \in Nat /\ o + w <= k * w
          <6>1. i - 1 \in Nat /\ k - i \in Nat /\ k = (i - 1) + 1 + (k - i)
              BY <3>2
          <6>. DEFINE c == k - i
          <6>2. o \in Nat /\ c * w \in Nat
              BY <3>2, <6>1
          <6>3. k * w = o + w + c * w
              BY <3>2, <6>1
          <6>. HIDE DEF o, c
          <6>. QED
              BY <3>2, <3>7, <6>2, <6>3
        <5>2. o + j \in 1 .. (k * w)
          <6>. HIDE DEF o
          <6>. QED
              BY <3>2, <3>7, <5>1
        <5>3. flat[o + j] = es[i][j]
            BY <3>6
        <5>. HIDE DEF o
        <5>4. pod[1 + (o + j)] = es[i][j]
            BY <3>12, <5>2, <5>3
        <5>. QED
            BY <5>4 DEF o
      <4>. QED
          BY <3>3, <4>1
    <3>17. /\ Type[t].kind \in {"opt", "vec"} /\ k \in Nat
           /\ pod \in Seq(Cell) /\ Len(pod) = SizeOf[t]
        BY <2>9, <3>2, <3>12, <3>13
    <3>. QED
        BY <3>14, <3>15, <3>16, <3>17, BuiltOfElements DEF w
  <2>10. CASE kind \in {"array", "struct"}
      BY <2>1, <2>10 DEF PodsFrom
  <2>11. kind \in {"int", "bool", "enum", "opt", "vec", "array", "struct"}
      BY TypeFacts DEF TypeSchema
  <2>. QED
      BY <2>5, <2>6, <2>7, <2>8, <2>9, <2>10, <2>11
<1>2. \A t \in TypeId : t \in S
  <2>. HIDE DEF S
  <2>. QED
      BY <1>1, TypeInduction
<1>. QED
    BY <1>2

\* A pod on cells that two memories agree on is accepted in both or in neither.
LEMMA Untouched ==
    ASSUME NEW mem1, NEW mem2, NEW p \in Place, \A c \in Cells(p) : mem1[c] = mem2[c]
    PROVE  Verdict(mem1, p) = Verdict(mem2, p)
<1>. DEFINE w == SizeOf[p.type]
<1>1. p.at \in Nat /\ w \in Nat
    BY Kinds, SizeNat
<1>2. ASSUME NEW j \in 0 .. (w - 1) PROVE mem1[p.at + j] = mem2[p.at + j]
  <2>. DEFINE a == p.at
  <2>1. a + j \in a .. (a + w - 1)
    <3>. HIDE DEF a, w
    <3>. QED
        BY <1>1 DEF a
  <2>2. a + j \in Cells(p)
      BY <2>1 DEF Cells
  <2>. QED
      BY <2>2
<1>. QED
    BY <1>2, VerdictIsLocal

\* Assigning keeps the length of the account, and changes the pod's cells alone.
LEMMA AssignedFacts ==
    ASSUME NEW mem \in Seq(Cell), NEW at, NEW pod \in Seq(Cell), at \in Nat
    PROVE  /\ Assigned(mem, at, pod) \in Seq(Cell) /\ Len(Assigned(mem, at, pod)) = Len(mem)
           /\ \A i \in 1 .. Len(mem) :
                Assigned(mem, at, pod)[i] =
                  IF i \in at .. (at + Len(pod) - 1) THEN pod[i - at + 1] ELSE mem[i]
<1>. DEFINE f == Assigned(mem, at, pod)
            n == Len(mem)
            k == Len(pod)
<1>1. n \in Nat /\ k \in Nat /\ DOMAIN mem = 1 .. n /\ DOMAIN pod = 1 .. k
      /\ (\A i \in 1 .. n : mem[i] \in Cell) /\ (\A i \in 1 .. k : pod[i] \in Cell)
    OBVIOUS
<1>2. f = [i \in 1 .. n |-> IF i \in at .. (at + k - 1) THEN pod[i - at + 1] ELSE mem[i]]
    BY <1>1 DEF Assigned
<1>. HIDE DEF f, n, k
<1>3. \A i \in at .. (at + k - 1) : i - at + 1 \in 1 .. k
    BY <1>1
<1>4. f \in [1 .. n -> Cell]
    BY <1>1, <1>2, <1>3
<1>5. f \in Seq(Cell) /\ Len(f) = n
    BY <1>1, <1>4
<1>6. \A i \in 1 .. n : f[i] = IF i \in at .. (at + k - 1) THEN pod[i - at + 1] ELSE mem[i]
    BY <1>2
<1>. QED
    BY <1>5, <1>6 DEF f, n, k

\* What is assigned to a place is what the place holds, and is accepted there.
LEMMA AssignedHolds ==
    ASSUME NEW mem \in Seq(Cell), NEW p \in Place, NEW pod, Built(p.type, pod),
           Cells(p) \subseteq DOMAIN mem
    PROVE  /\ Verdict(Assigned(mem, p.at, pod), p) = "ok"
           /\ \A c \in DOMAIN mem : c \notin Cells(p) => Assigned(mem, p.at, pod)[c] = mem[c]
<1>. DEFINE f == Assigned(mem, p.at, pod)
            w == SizeOf[p.type]
            a == p.at
<1>1. a \in Nat /\ w \in Nat /\ pod \in Seq(Cell) /\ Len(pod) = w /\ DOMAIN mem = 1 .. Len(mem)
    BY Kinds, SizeNat DEF Built
<1>2. Cells(p) = a .. (a + w - 1)
    BY DEF Cells
<1>3. \A i \in DOMAIN mem : f[i] = IF i \in Cells(p) THEN pod[i - a + 1] ELSE mem[i]
    BY <1>1, <1>2, AssignedFacts
<1>4. ASSUME NEW j \in 1 .. w PROVE f[a + (j - 1)] = pod[j]
  <2>1. a + (j - 1) \in Cells(p) /\ (a + (j - 1)) - a + 1 = j
    <3>. HIDE DEF a, w
    <3>. QED
        BY <1>1, <1>2
  <2>. HIDE DEF a, f
  <2>. QED
      BY <1>3, <2>1
<1>. HIDE DEF f
<1>5. Verdict(f, p) = "ok"
    BY <1>4, HoldsBuilt
<1>. QED
    BY <1>3, <1>5 DEF f

\* An assignment to a field, to one of a nested companion or to an array element
\* leaves the whole pod accepted.
LEMMA AssignableKeeps ==
    \A q \in Place : \A p \in Assignable(q) :
      /\ p \in Place /\ Cells(p) \subseteq Cells(q)
      /\ \A mem \in Seq(Cell) : \A pod :
           Built(p.type, pod) /\ Cells(q) \subseteq DOMAIN mem /\ Verdict(mem, q) = "ok" =>
             Verdict(Assigned(mem, p.at, pod), q) = "ok"
<1>. DEFINE Keeps(p, q) ==
              \A mem \in Seq(Cell) : \A pod :
                Built(p.type, pod) /\ Cells(q) \subseteq DOMAIN mem /\ Verdict(mem, q) = "ok" =>
                  Verdict(Assigned(mem, p.at, pod), q) = "ok"
            Fits(p, q) == p \in Place /\ Cells(p) \subseteq Cells(q) /\ Keeps(p, q)
            S == {q \in Place : \A p \in Assignable(q) : Fits(p, q)}
<1>1. ASSUME NEW q \in Place, \A r \in Place : r.type < q.type => r \in S PROVE q \in S
  <2>. DEFINE kind == Type[q.type].kind
              ks == Parts(q)
  <2>. SUFFICES ASSUME NEW p \in Assignable(q) PROVE Fits(p, q)
      OBVIOUS
  <2>1. CASE kind \notin {"array", "struct"}
    <3>1. p = q
        BY <2>1, AssignableUnfolds
    <3>. QED
        BY <3>1, AssignedHolds
  <2>2. CASE kind \in {"array", "struct"}
    <3>1. PICK i \in DOMAIN ks : p \in Assignable(ks[i])
        BY <2>2, AssignableUnfolds
    <3>2. Packs(ks, q.at, q.at + SizeOf[q.type], q.type)
        BY <2>2, PartsPack
    <3>3. \A j \in DOMAIN ks : ks[j] \in Place /\ ks[j].type < q.type
        BY <3>2 DEF Packs
    <3>4. Fits(p, ks[i])
      <4>1. ks[i] \in S
          BY <1>1, <3>3
      <4>. HIDE DEF Fits
      <4>. QED
          BY <3>1, <4>1
    <3>5. /\ \A j \in DOMAIN ks : Cells(ks[j]) \subseteq Cells(q)
          /\ \A j \in DOMAIN ks : i # j => Cells(ks[i]) \cap Cells(ks[j]) = {}
      <4>. DEFINE from == q.at
                  to == q.at + SizeOf[q.type]
                  t == q.type
      <4>1. from \in Nat /\ to \in Nat /\ Packs(ks, from, to, t)
          BY <3>2, Kinds, SizeNat
      <4>2. Cells(q) = from .. (to - 1)
          BY Kinds, SizeNat DEF Cells
      <4>. HIDE DEF from, to, t, ks
      <4>3. /\ \A j \in DOMAIN ks : Cells(ks[j]) \subseteq from .. (to - 1)
            /\ \A k, j \in DOMAIN ks : k # j => Cells(ks[k]) \cap Cells(ks[j]) = {}
          BY <4>1, PackedApart
      <4>. QED
          BY <4>2, <4>3
    <3>6. ASSUME NEW mem \in Seq(Cell), NEW pod, Built(p.type, pod),
                 Cells(q) \subseteq DOMAIN mem, Verdict(mem, q) = "ok"
          PROVE  Verdict(Assigned(mem, p.at, pod), q) = "ok"
      <4>. DEFINE f == Assigned(mem, p.at, pod)
      <4>1. Active(mem, q) = ks /\ Active(f, q) = ks
          BY <2>2 DEF Active
      <4>2. \A j \in DOMAIN ks : Verdict(mem, ks[j]) = "ok"
        <5>. HIDE DEF ks
        <5>. QED
            BY <3>6, <4>1, Accepted
      <4>3. Verdict(f, ks[i]) = "ok"
          BY <3>4, <3>5, <3>6, <4>2
      <4>4. ASSUME NEW j \in DOMAIN ks, j # i PROVE Verdict(f, ks[j]) = "ok"
        <5>1. Cells(p) \subseteq DOMAIN mem /\ p \in Place
            BY <3>4, <3>5, <3>6
        <5>2. \A c \in DOMAIN mem : c \notin Cells(p) => f[c] = mem[c]
            BY <3>6, <5>1, AssignedHolds
        <5>3. \A c \in Cells(ks[j]) : c \in DOMAIN mem /\ c \notin Cells(p)
            BY <3>4, <3>5, <3>6, <4>4
        <5>. HIDE DEF f, ks
        <5>4. \A c \in Cells(ks[j]) : f[c] = mem[c]
            BY <5>2, <5>3
        <5>5. Verdict(f, ks[j]) = Verdict(mem, ks[j])
            BY <3>3, <5>4, Untouched
        <5>. QED
            BY <4>2, <5>5
      <4>5. OwnVerdict(f[q.at], q.type) = "ok"
          BY <2>2 DEF OwnVerdict
      <4>. HIDE DEF f, ks
      <4>6. Verdict(f, q) = "ok"
          BY <4>1, <4>3, <4>4, <4>5, Accepted
      <4>. QED
          BY <4>6 DEF f
    <3>7. Keeps(p, q)
        BY <3>6
    <3>. HIDE DEF Keeps
    <3>. QED
        BY <3>4, <3>5, <3>7
  <2>. QED
      BY <2>1, <2>2
<1>2. \A q \in Place : q \in S
  <2>. HIDE DEF S
  <2>. QED
      BY <1>1, PlaceInduction
<1>. QED
    BY <1>2

-----------------------------------------------------------------------------
(* The inductive invariant.                                                *)

\* Between Initialize and its end the account is the closure's draft, over the
\* whole of the value; a view that is open, and a companion that was copied out,
\* are accepted.
IInv ==
    /\ data \in Seq(Cell)
    /\ view = "closure" => data = draft /\ Len(data) = Size
    /\ view \in {"shared", "mut"} => Len(data) >= Size /\ Verdict(data, Whole) = "ok"
    /\ copied # << >> => Built(Root, copied)

\* The cells of the value are the first of the account.
LEMMA WholeCells ==
    /\ Cells(Whole) = 1 .. Size
    /\ \A mem \in Seq(Cell) : Len(mem) >= Size => Cells(Whole) \subseteq DOMAIN mem
<1>1. Size \in Nat /\ Whole.at = 1 /\ SizeOf[Whole.type] = Size
    BY WholeFacts
<1>2. Cells(Whole) = 1 .. Size
  <2>. DEFINE n == Size
  <2>1. 1 + n - 1 = n
      BY <1>1
  <2>. HIDE DEF n
  <2>2. SizeOf[Whole.type] = n
      BY <1>1 DEF n
  <2>. QED
      BY <1>1, <2>1, <2>2 DEF Cells, n
<1>3. ASSUME NEW mem \in Seq(Cell), Len(mem) >= Size PROVE 1 .. Size \subseteq DOMAIN mem
    BY <1>1, <1>3
<1>. QED
    BY <1>2, <1>3

\* The account a program is given is a sequence of cells, and nothing is open.
LEMMA InitInv == Init => IInv
BY FixedSchemaAssumption DEF Init, IInv

\* A reader opens a view of what it has validated.
LEMMA OpenStep ==
    ASSUME IInv, ReadExact \/ ReadPrefix \/ ReadExactMut \/ ReadPrefixMut
    PROVE  IInv'
<1>1. Size \in Nat /\ Len(data) \in Nat
    BY WholeFacts DEF IInv
<1>2. PICK verdict \in {ValidateExact(data), ValidatePrefix(data)} :
        \E mode \in {"shared", "mut"} : Open(mode, verdict)
    BY DEF ReadExact, ReadPrefix, ReadExactMut, ReadPrefixMut
<1>3. verdict = "ok" => Len(data) >= Size /\ Verdict(data, Whole) = "ok"
    BY <1>1 DEF ValidateExact, ValidatePrefix
<1>4. /\ data' = data /\ copied' = copied
      /\ view' # "closure" /\ (view' \in {"shared", "mut"} => verdict = "ok")
    BY <1>2 DEF Open
<1>. QED
    BY <1>3, <1>4 DEF IInv

\* A companion that is copied out of a view is accepted where it goes.
LEMMA CopyOutStep ==
    ASSUME IInv, CopyOut
    PROVE  IInv'
<1>. DEFINE pod == SubSeq(data, 1, Size)
<1>1. /\ data \in Seq(Cell) /\ Len(data) \in Nat /\ Size \in Nat /\ Size <= Len(data)
      /\ Verdict(data, Whole) = "ok"
    BY WholeFacts DEF IInv, CopyOut
<1>2. pod \in Seq(Cell) /\ Len(pod) = Size /\ \A i \in 1 .. Size : pod[i] = data[i]
  <2>. DEFINE n == Size
  <2>1. n \in Nat /\ n <= Len(data)
      BY <1>1
  <2>. HIDE DEF n
  <2>2. /\ SubSeq(data, 1, n) \in Seq(Cell) /\ Len(SubSeq(data, 1, n)) = n
        /\ \A i \in 1 .. n : SubSeq(data, 1, n)[i] = data[i]
      BY <1>1, <2>1
  <2>. QED
      BY <2>2 DEF n
<1>. HIDE DEF pod
<1>3. Verdict(pod, Whole) = "ok"
  <2>1. \A c \in Cells(Whole) : pod[c] = data[c]
      BY <1>2, WholeCells
  <2>. QED
      BY <1>1, <2>1, WholeFacts, Untouched
<1>4. Built(Root, pod)
    BY <1>2, <1>3, WholeFacts DEF Built, Alone, Whole, Size
<1>5. data' = data /\ view' = view /\ draft' = draft /\ copied' = pod
    BY DEF CopyOut, pod
<1>. QED
    BY <1>4, <1>5 DEF IInv

\* An assignment writes the account and the draft alike, and leaves a value of
\* the schema in an account that held one.
LEMMA StoreStep ==
    ASSUME IInv, NEW p \in Place, NEW pod, Built(p.type, pod), Store(p.at, pod),
           Cells(p) \subseteq Cells(Whole),
           Cells(Whole) \subseteq DOMAIN data /\ Verdict(data, Whole) = "ok" =>
             Verdict(Assigned(data, p.at, pod), Whole) = "ok"
    PROVE  IInv'
<1>1. p.at \in Nat /\ pod \in Seq(Cell) /\ data \in Seq(Cell)
    BY Kinds DEF IInv, Built
<1>. DEFINE f == Assigned(data, p.at, pod)
<1>2. f \in Seq(Cell) /\ Len(f) = Len(data)
    BY <1>1, AssignedFacts
<1>3. data' = f /\ view' = view /\ copied' = copied /\ draft' = Assigned(draft, p.at, pod)
    BY DEF Store
<1>4. view \in {"shared", "mut"} => Len(f) >= Size /\ Verdict(f, Whole) = "ok"
    BY <1>1, <1>2, WholeCells DEF IInv
<1>5. view = "closure" => f = Assigned(draft, p.at, pod) /\ Len(f) = Size
    BY <1>2 DEF IInv
<1>. HIDE DEF f
<1>. QED
    BY <1>2, <1>3, <1>4, <1>5 DEF IInv

\* `value.field = pod`.
LEMMA AssignStep ==
    ASSUME IInv, Assign
    PROVE  IInv'
<1>1. PICK p \in Places : \E pod \in Pods[p.type] : Store(p.at, pod)
    BY DEF Assign
<1>2. PICK pod \in Pods[p.type] : Store(p.at, pod)
    BY <1>1
<1>3. /\ p \in Place /\ Cells(p) \subseteq Cells(Whole)
      /\ \A mem \in Seq(Cell) : \A q :
           Built(p.type, q) /\ Cells(Whole) \subseteq DOMAIN mem /\ Verdict(mem, Whole) = "ok" =>
             Verdict(Assigned(mem, p.at, q), Whole) = "ok"
    BY <1>1, WholeFacts, AssignableKeeps DEF Places
<1>4. Built(p.type, pod)
    BY <1>2, <1>3, Kinds, PodsAreBuilt
<1>5. data \in Seq(Cell)
    BY DEF IInv
<1>. QED
    BY <1>2, <1>3, <1>4, <1>5, StoreStep

\* `*value = copied`.
LEMMA PasteInStep ==
    ASSUME IInv, PasteIn
    PROVE  IInv'
<1>1. Built(Whole.type, copied) /\ Store(Whole.at, copied)
    BY WholeFacts DEF IInv, PasteIn
<1>2. data \in Seq(Cell) /\ Whole \in Place
    BY WholeFacts DEF IInv
<1>3. Cells(Whole) \subseteq DOMAIN data => Verdict(Assigned(data, Whole.at, copied), Whole) = "ok"
    BY <1>1, <1>2, AssignedHolds
<1>. QED
    BY <1>1, <1>2, <1>3, StoreStep

\* Zeros are written over the whole value when initialize begins.
LEMMA InitializeStep ==
    ASSUME IInv, Initialize
    PROVE  IInv'
<1>1. Zeros(Size) \in Seq(Cell) /\ Len(Zeros(Size)) = Size
    BY WholeFacts, ZerosFacts
<1>. QED
    BY <1>1 DEF IInv, Initialize

\* initialize hands out a view of an accepted value, or none.
LEMMA ClosureEnds ==
    ASSUME IInv, ClosureReturns \/ ClosureFails \/ ClosurePanics
    PROVE  IInv'
<1>1. /\ view = "closure" /\ data \in Seq(Cell) /\ Len(data) = Size /\ Size \in Nat
      /\ Zeros(Size) \in Seq(Cell)
    BY WholeFacts, ZerosFacts DEF IInv, ClosureReturns, ClosureFails, ClosurePanics
<1>2. CASE ClosureReturns /\ Verdict(data, Whole) = "ok"
  <2>1. data' = data /\ view' = "mut" /\ copied' = copied
      BY <1>2 DEF ClosureReturns
  <2>. QED
      BY <1>1, <1>2, <2>1 DEF IInv
<1>3. CASE (ClosureReturns /\ Verdict(data, Whole) # "ok") \/ ClosureFails \/ ClosurePanics
  <2>1. /\ data' = data \/ data' = Zeros(Size)
        /\ view' = "none" /\ copied' = copied
      BY <1>3 DEF ClosureReturns, ClosureFails, ClosurePanics, Erase
  <2>. QED
      BY <1>1, <2>1 DEF IInv
<1>. QED
    BY <1>2, <1>3

\* Every step keeps the invariant.
LEMMA NextInv == IInv /\ [Next]_vars => IInv'
<1>. SUFFICES ASSUME IInv, [Next]_vars PROVE IInv'
    OBVIOUS
<1>1. CASE ReadExact \/ ReadPrefix \/ ReadExactMut \/ ReadPrefixMut
    BY <1>1, OpenStep
<1>2. CASE Release \/ InitializeRefused
    BY <1>2 DEF Release, InitializeRefused, IInv
<1>3. CASE CopyOut
    BY <1>3, CopyOutStep
<1>4. CASE Assign
    BY <1>4, AssignStep
<1>5. CASE PasteIn
    BY <1>5, PasteInStep
<1>6. CASE Initialize
    BY <1>6, InitializeStep
<1>7. CASE ClosureReturns \/ ClosureFails \/ ClosurePanics
    BY <1>7, ClosureEnds
<1>8. CASE UNCHANGED vars
    BY <1>8 DEF vars, IInv
<1>. QED
    BY <1>1, <1>2, <1>3, <1>4, <1>5, <1>6, <1>7, <1>8 DEF Next

\* While the closure of initialize runs, the account is its draft; what a view
\* stands for, and what was copied out of one, is a value of the schema.
THEOREM Invariance == Spec => []IInv
    BY InitInv, NextInv, PTL DEF Spec

-----------------------------------------------------------------------------
(* The properties, of every schema, account and sequence of steps.         *)

\* What a view stands for converts, to what its accessors show.
LEMMA ViewConverts == IInv => OpenViewConverts
BY WholeFacts, AcceptedConverts DEF IInv, OpenViewConverts

\* A view's value stays a value of the schema through any sequence of
\* assignments and of companions copied out and in: to_native never fails on it.
THEOREM OpenViewConvertsAlways == Spec => []OpenViewConverts
    BY Invariance, ViewConverts, PTL

\* Companions that were accepted are equal exactly when they show the same, and
\* then hash the same.
LEMMA AcceptedEqual == IInv => EqualMeansShownAlike
<1>. SUFFICES ASSUME IInv, view \in {"shared", "mut"}, copied # << >>
              PROVE  /\ Equal(data, copied, Whole) = (Shown(data, Whole) = Shown(copied, Whole))
                     /\ Equal(data, copied, Whole) => Hashed(data, Whole) = Hashed(copied, Whole)
    BY DEF EqualMeansShownAlike
<1>1. Whole \in Place /\ Whole = Alone(Root)
    BY WholeFacts DEF Whole, Alone
<1>2. Verdict(data, Whole) = "ok" /\ Verdict(copied, Whole) = "ok"
    BY <1>1 DEF IInv, Built
<1>3. Equal(data, copied, Whole) = (Shown(data, Whole) = Shown(copied, Whole))
    BY <1>1, EqualShown
<1>4. Equal(data, copied, Whole) => Hashed(data, Whole) = Hashed(copied, Whole)
    BY <1>1, <1>2, EqualHashed
<1>. QED
    BY <1>3, <1>4

\* == is what the accessors reveal, and agrees with Hash, for every two values a
\* program can hold.
THEOREM EqualMeansShownAlikeAlways == Spec => []EqualMeansShownAlike
    BY Invariance, AcceptedEqual, PTL

\* diagnose walks the fields by itself and agrees with the readers in verdict and
\* error, and names the first field they reject.
THEOREM DiagnoseAgreesWithReadersAlways == Spec => []DiagnoseAgreesWithReaders
    BY DiagnoseAgrees, PTL

\* A refused conversion drops each value it has built once, and no other, at any
\* depth of options, arrays and nested schemas.
THEOREM RefusedConversionDropsWhatItBuiltAlways == Spec => []RefusedConversionDropsWhatItBuilt
    BY RefusedDrops, PTL

\* One step: initialize ends with the draft, accepted, or with zeros.
LEMMA InitializeStepIsAllOrNothing ==
    ASSUME IInv, Next, view = "closure", view' # "closure", reply' # "panic"
    PROVE  IF reply' = "ok"
           THEN view' = "mut" /\ data' = draft /\ ValidateExact(data') = "ok"
           ELSE view' = "none" /\ data' = Zeros(Size)
<1>1. ClosureReturns \/ ClosureFails
    BY DEF Next, ReadExact, ReadPrefix, ReadExactMut, ReadPrefixMut, Open, Release, CopyOut,
           Assign, PasteIn, Store, InitializeRefused, Initialize, ClosurePanics
<1>2. CASE ClosureFails
    BY <1>2 DEF ClosureFails, Erase
<1>3. CASE ClosureReturns /\ Verdict(data, Whole) # "ok"
    BY <1>3 DEF ClosureReturns, Erase
<1>4. CASE ClosureReturns /\ Verdict(data, Whole) = "ok"
  <2>1. data' = data /\ reply' = "ok" /\ view' = "mut"
      BY <1>4 DEF ClosureReturns
  <2>2. Len(data) = Size /\ data = draft /\ Size \in Nat
      BY WholeFacts DEF IInv
  <2>3. ValidateExact(data) = "ok"
      BY <1>4, <2>2 DEF ValidateExact
  <2>. QED
      BY <2>1, <2>2, <2>3
<1>. QED
    BY <1>1, <1>2, <1>3, <1>4

\* Whatever the account held, an initialize that returns leaves what the
\* closure assigned over zeros, and accepted, or zeros and an error.
THEOREM InitializeIsAllOrNothingAlways == Spec => InitializeIsAllOrNothing
<1>1. IInv /\ [Next]_vars =>
        [view = "closure" /\ view' # "closure" /\ reply' # "panic" =>
            IF reply' = "ok"
            THEN view' = "mut" /\ data' = draft /\ ValidateExact(data') = "ok"
            ELSE view' = "none" /\ data' = Zeros(Size)]_vars
    BY InitializeStepIsAllOrNothing
<1>. QED
    BY <1>1, Invariance, PTL DEF Spec, InitializeIsAllOrNothing

-----------------------------------------------------------------------------
(* The derive's syntax trees: induction on their depth.                    *)

\* The declared types no deeper than n.
UpTo(n) == {ty \in Declarable : ty.depth <= n}

\* What the assumption says of one declared type.
LEMMA NodeFacts ==
    ASSUME NEW ty \in Declarable
    PROVE  /\ ty.depth \in 1 .. MaxDepth
           /\ Len(ty.args) \in Nat /\ DOMAIN ty.args = 1 .. Len(ty.args)
           /\ \A i \in DOMAIN ty.args :
                IsType(ty.args[i]) => ty.args[i] \in Declarable /\ ty.args[i].depth < ty.depth
           /\ Descends(ty) => 1 \in DOMAIN ty.args /\ IsType(ty.args[1])
BY GrammarAssumption DEF Descends

\* The types among the arguments of a type up to a depth are below that depth.
LEMMA ArgumentsAreBelow ==
    ASSUME NEW n \in 1 .. MaxDepth, NEW ty \in UpTo(n),
           NEW i \in DOMAIN ty.args, IsType(ty.args[i])
    PROVE  ty.args[i] \in UpTo(n - 1)
<1>1. MaxDepth \in Nat /\ ty \in Declarable /\ ty.depth <= n /\ ty.depth \in 1 .. MaxDepth
    BY NodeFacts, GrammarAssumption DEF UpTo
<1>2. ty.args[i] \in Declarable /\ ty.args[i].depth < ty.depth
    BY <1>1, NodeFacts
<1>3. ty.args[i].depth \in 1 .. MaxDepth
    BY <1>2, NodeFacts
<1>4. ty.args[i].depth <= n - 1
    BY <1>1, <1>2, <1>3
<1>. QED
    BY <1>2, <1>4 DEF UpTo

\* No type has depth 0, and every type is within the bound.
LEMMA UpToEnds == UpTo(0) = {} /\ UpTo(MaxDepth) = Declarable
<1>1. \A ty \in Declarable : ty.depth \in 1 .. MaxDepth
    BY NodeFacts
<1>2. MaxDepth \in Nat
    BY GrammarAssumption
<1>3. \A ty \in Declarable : ~(ty.depth <= 0) /\ ty.depth <= MaxDepth
    BY <1>1, <1>2
<1>. QED
    BY <1>3 DEF UpTo

\* Types up to a depth are types up to a greater one.
LEMMA UpToGrows ==
    ASSUME NEW n \in 1 .. MaxDepth, NEW ty \in UpTo(n - 1)
    PROVE  ty \in UpTo(n)
<1>1. ty \in Declarable /\ ty.depth <= n - 1 /\ ty.depth \in 1 .. MaxDepth /\ MaxDepth \in Nat
    BY NodeFacts, GrammarAssumption DEF UpTo
<1>2. ty.depth <= n
    BY <1>1
<1>. QED
    BY <1>1, <1>2 DEF UpTo

\* A set that holds a type whenever it holds the types among its arguments
\* holds all types.
LEMMA SyntaxInduction ==
    ASSUME NEW S,
           \A ty \in Declarable :
             (\A i \in DOMAIN ty.args : IsType(ty.args[i]) => ty.args[i] \in S) => ty \in S
    PROVE  \A ty \in Declarable : ty \in S
<1>. DEFINE R == {n \in 0 .. MaxDepth : \A ty \in UpTo(n) : ty \in S}
<1>1. MaxDepth \in Nat
    BY GrammarAssumption
<1>2. 0 \in R
    BY <1>1, UpToEnds
<1>3. ASSUME NEW n \in 1 .. MaxDepth, n - 1 \in R PROVE n \in R
  <2>1. ASSUME NEW ty \in UpTo(n) PROVE ty \in S
    <3>1. \A i \in DOMAIN ty.args : IsType(ty.args[i]) => ty.args[i] \in S
        BY <1>3, <2>1, ArgumentsAreBelow
    <3>. QED
        BY <2>1, <3>1 DEF UpTo
  <2>. QED
      BY <1>1, <2>1
<1>4. \A n \in 0 .. MaxDepth : n \in R
  <2>. HIDE DEF R
  <2>. QED
      BY <1>1, <1>2, <1>3, RangeInduction
<1>5. MaxDepth \in R
    BY <1>1, <1>4
<1>. QED
    BY <1>5, UpToEnds

-----------------------------------------------------------------------------
(* The recursions of the derive and of rustc, one step each.               *)

\* One step of validate_dynamic_prefix_args.
PrefixesValidBy(f, ty) ==
    IF Descends(ty) THEN f[ty.args[1]]
    ELSE ty.form = "path" =>
           /\ LET at == PrefixIndex(ty)
              IN  at \in DOMAIN ty.args => PrefixArg(ty.args[at]) # 0
           /\ \A i \in DOMAIN ty.args : IsType(ty.args[i]) => f[ty.args[i]]

\* One step of the projection.
ProjectionBy(f, ty) ==
    CASE ty.form = "paren" -> f[ty.args[1]]
      [] ty.form = "array" -> PodOf("array", f[ty.args[1]], ty.n, 0)
      [] Recognized(ty) = "String" /\ Complete(ty) ->
           PodOf("PodString", << >>, ty.args[1], DeclaredWidth(ty))
      [] Recognized(ty) = "Vec" /\ Complete(ty) ->
           PodOf("PodVec", f[ty.args[1]], ty.args[2], DeclaredWidth(ty))
      [] Recognized(ty) = "Option" /\ Complete(ty) ->
           PodOf("PodOption", f[ty.args[1]], 0, 1)
      [] OTHER -> PodOf("ZcField", ty, 0, 0)

\* One step of map_to_pod_type.
MapToPodBy(f, ty) ==
    CASE ty.form = "array" -> PodOf("array", f[ty.args[1]], ty.n, 0)
      [] Recognized(ty) = "String" /\ Len(ty.args) >= 1 ->
           PodOf("PodString", << >>, ty.args[1], LaxPrefix(1, ty, 2))
      [] Recognized(ty) = "Vec" /\ Len(ty.args) >= 2 /\ IsType(ty.args[1]) ->
           PodOf("PodVec", f[ty.args[1]], ty.args[2], LaxPrefix(2, ty, 3))
      [] Recognized(ty) = "Option" /\ Len(ty.args) = 1 /\ IsType(ty.args[1]) ->
           PodOf("PodOption", f[ty.args[1]], 0, 1)
      [] OTHER -> Projection[ty]

\* What a container is recognized as.
LEMMA RecognizedFacts ==
    ASSUME NEW ty
    PROVE  /\ Recognized(ty) \in {"String", "Vec", "Option", "none"}
           /\ Recognized(ty) # "none" => ty.form = "path"
           /\ PrefixIndex(ty) = (IF Recognized(ty) = "String" THEN 2
                                 ELSE IF Recognized(ty) = "Vec" THEN 3 ELSE 0)
BY DEF Recognized, Container, PrefixIndex

\* A complete vector or option has a type for its first argument.
LEMMA CompleteFacts ==
    ASSUME NEW ty \in Declarable, Complete(ty)
    PROVE  /\ Recognized(ty) \in {"Vec", "Option"} =>
                1 \in DOMAIN ty.args /\ IsType(ty.args[1])
           /\ Recognized(ty) = "String" => Len(ty.args) >= 1
           /\ Recognized(ty) = "Vec" => Len(ty.args) >= 2
           /\ Recognized(ty) = "Option" => Len(ty.args) = 1
<1>1. Len(ty.args) \in Nat /\ DOMAIN ty.args = 1 .. Len(ty.args)
    BY NodeFacts
<1>. QED
    BY <1>1, RecognizedFacts DEF Complete

\* A step depends on the types among the arguments only.
LEMMA StepsAgree ==
    ASSUME NEW ty \in Declarable, NEW f, NEW g,
           \A i \in DOMAIN ty.args : IsType(ty.args[i]) => f[ty.args[i]] = g[ty.args[i]]
    PROVE  /\ PrefixesValidBy(f, ty) = PrefixesValidBy(g, ty)
           /\ ProjectionBy(f, ty) = ProjectionBy(g, ty)
           /\ MapToPodBy(f, ty) = MapToPodBy(g, ty)
<1>1. Descends(ty) => f[ty.args[1]] = g[ty.args[1]]
    BY NodeFacts
<1>2. Len(ty.args) \in Nat /\ DOMAIN ty.args = 1 .. Len(ty.args)
    BY NodeFacts
<1>3. Len(ty.args) >= 1 /\ IsType(ty.args[1]) => f[ty.args[1]] = g[ty.args[1]]
    BY <1>2
<1>4. PrefixesValidBy(f, ty) = PrefixesValidBy(g, ty)
  <2>1. CASE Descends(ty)
      BY <1>1, <2>1 DEF PrefixesValidBy
  <2>2. CASE ~Descends(ty)
    <3>1. (\A i \in DOMAIN ty.args : IsType(ty.args[i]) => f[ty.args[i]])
            = (\A i \in DOMAIN ty.args : IsType(ty.args[i]) => g[ty.args[i]])
        BY Zenon
    <3>. QED
        BY <2>2, <3>1, Zenon DEF PrefixesValidBy
  <2>. QED
      BY <2>1, <2>2
<1>5. ProjectionBy(f, ty) = ProjectionBy(g, ty)
  <2>1. Complete(ty) /\ Recognized(ty) \in {"Vec", "Option"} => f[ty.args[1]] = g[ty.args[1]]
      BY CompleteFacts
  <2>2. ty.form \in {"paren", "array"} => f[ty.args[1]] = g[ty.args[1]]
      BY <1>1 DEF Descends
  <2>. QED
      BY <2>1, <2>2 DEF ProjectionBy
<1>6. MapToPodBy(f, ty) = MapToPodBy(g, ty)
  <2>1. ty.form = "array" => f[ty.args[1]] = g[ty.args[1]]
      BY <1>1 DEF Descends
  <2>2. Recognized(ty) = "Vec" /\ Len(ty.args) >= 2 /\ IsType(ty.args[1]) =>
            f[ty.args[1]] = g[ty.args[1]]
      BY <1>2, <1>3
  <2>3. Recognized(ty) = "Option" /\ Len(ty.args) = 1 /\ IsType(ty.args[1]) =>
            f[ty.args[1]] = g[ty.args[1]]
      BY <1>2, <1>3
  <2>. QED
      BY <2>1, <2>2, <2>3 DEF MapToPodBy
<1>. QED
    BY <1>4, <1>5, <1>6

\* The recursion of validate_dynamic_prefix_args has a solution, found depth by
\* depth.
LEMMA PrefixesValidExists == \E f : f = [ty \in Declarable |-> PrefixesValidBy(f, ty)]
<1>. DEFINE Rec(n, f) == f = [ty \in UpTo(n) |-> PrefixesValidBy(f, ty)]
            R == {n \in 0 .. MaxDepth : \E f : Rec(n, f)}
<1>1. MaxDepth \in Nat
    BY GrammarAssumption
<1>2. 0 \in R
  <2>. DEFINE f == [ty \in {} |-> 0]
  <2>1. f = [ty \in UpTo(0) |-> PrefixesValidBy(f, ty)]
      BY UpToEnds
  <2>. HIDE DEF f
  <2>. QED
      BY <1>1, <2>1
<1>3. ASSUME NEW n \in 1 .. MaxDepth, n - 1 \in R PROVE n \in R
  <2>1. PICK f : Rec(n - 1, f)
      BY <1>3
  <2>. DEFINE g == [ty \in UpTo(n) |-> PrefixesValidBy(f, ty)]
  <2>2. \A ty \in UpTo(n - 1) : g[ty] = f[ty]
      BY <2>1, UpToGrows
  <2>3. ASSUME NEW ty \in UpTo(n) PROVE PrefixesValidBy(f, ty) = PrefixesValidBy(g, ty)
    <3>1. ty \in Declarable
        BY DEF UpTo
    <3>2. \A i \in DOMAIN ty.args : IsType(ty.args[i]) => f[ty.args[i]] = g[ty.args[i]]
      <4>. HIDE DEF g
      <4>. QED
          BY <2>2, ArgumentsAreBelow
    <3>. HIDE DEF g
    <3>. QED
        BY <3>1, <3>2, StepsAgree
  <2>4. g = [ty \in UpTo(n) |-> PrefixesValidBy(g, ty)]
      BY <2>3
  <2>. HIDE DEF g
  <2>. QED
      BY <1>1, <2>4
<1>4. \A n \in 0 .. MaxDepth : n \in R
  <2>. HIDE DEF R
  <2>. QED
      BY <1>1, <1>2, <1>3, RangeInduction
<1>5. MaxDepth \in R
    BY <1>1, <1>4
<1>. QED
    BY <1>5, UpToEnds

\* PrefixesValid takes one step at each type.
LEMMA PrefixesValidUnfolds ==
    ASSUME NEW ty \in Declarable
    PROVE  PrefixesValid[ty] = PrefixesValidBy(PrefixesValid, ty)
<1>1. PrefixesValid = CHOOSE f : f = [u \in Declarable |-> PrefixesValidBy(f, u)]
    BY DEF PrefixesValid, PrefixesValidBy
<1>2. PrefixesValid = [u \in Declarable |-> PrefixesValidBy(PrefixesValid, u)]
    BY <1>1, PrefixesValidExists
<1>. QED
    BY <1>2

\* So has the recursion of the projection.
LEMMA ProjectionExists == \E f : f = [ty \in Declarable |-> ProjectionBy(f, ty)]
<1>. DEFINE Rec(n, f) == f = [ty \in UpTo(n) |-> ProjectionBy(f, ty)]
            R == {n \in 0 .. MaxDepth : \E f : Rec(n, f)}
<1>1. MaxDepth \in Nat
    BY GrammarAssumption
<1>2. 0 \in R
  <2>. DEFINE f == [ty \in {} |-> 0]
  <2>1. f = [ty \in UpTo(0) |-> ProjectionBy(f, ty)]
      BY UpToEnds
  <2>. HIDE DEF f
  <2>. QED
      BY <1>1, <2>1
<1>3. ASSUME NEW n \in 1 .. MaxDepth, n - 1 \in R PROVE n \in R
  <2>1. PICK f : Rec(n - 1, f)
      BY <1>3
  <2>. DEFINE g == [ty \in UpTo(n) |-> ProjectionBy(f, ty)]
  <2>2. \A ty \in UpTo(n - 1) : g[ty] = f[ty]
      BY <2>1, UpToGrows
  <2>3. ASSUME NEW ty \in UpTo(n) PROVE ProjectionBy(f, ty) = ProjectionBy(g, ty)
    <3>1. ty \in Declarable
        BY DEF UpTo
    <3>2. \A i \in DOMAIN ty.args : IsType(ty.args[i]) => f[ty.args[i]] = g[ty.args[i]]
      <4>. HIDE DEF g
      <4>. QED
          BY <2>2, ArgumentsAreBelow
    <3>. HIDE DEF g
    <3>. QED
        BY <3>1, <3>2, StepsAgree
  <2>4. g = [ty \in UpTo(n) |-> ProjectionBy(g, ty)]
      BY <2>3
  <2>. HIDE DEF g
  <2>. QED
      BY <1>1, <2>4
<1>4. \A n \in 0 .. MaxDepth : n \in R
  <2>. HIDE DEF R
  <2>. QED
      BY <1>1, <1>2, <1>3, RangeInduction
<1>5. MaxDepth \in R
    BY <1>1, <1>4
<1>. QED
    BY <1>5, UpToEnds

\* So does the projection.
LEMMA ProjectionUnfolds ==
    ASSUME NEW ty \in Declarable
    PROVE  Projection[ty] = ProjectionBy(Projection, ty)
<1>1. Projection = CHOOSE f : f = [u \in Declarable |-> ProjectionBy(f, u)]
    BY DEF Projection, ProjectionBy
<1>2. Projection = [u \in Declarable |-> ProjectionBy(Projection, u)]
    BY <1>1, ProjectionExists
<1>. QED
    BY <1>2

\* So has the recursion of map_to_pod_type.
LEMMA MapToPodExists == \E f : f = [ty \in Declarable |-> MapToPodBy(f, ty)]
<1>. DEFINE Rec(n, f) == f = [ty \in UpTo(n) |-> MapToPodBy(f, ty)]
            R == {n \in 0 .. MaxDepth : \E f : Rec(n, f)}
<1>1. MaxDepth \in Nat
    BY GrammarAssumption
<1>2. 0 \in R
  <2>. DEFINE f == [ty \in {} |-> 0]
  <2>1. f = [ty \in UpTo(0) |-> MapToPodBy(f, ty)]
      BY UpToEnds
  <2>. HIDE DEF f
  <2>. QED
      BY <1>1, <2>1
<1>3. ASSUME NEW n \in 1 .. MaxDepth, n - 1 \in R PROVE n \in R
  <2>1. PICK f : Rec(n - 1, f)
      BY <1>3
  <2>. DEFINE g == [ty \in UpTo(n) |-> MapToPodBy(f, ty)]
  <2>2. \A ty \in UpTo(n - 1) : g[ty] = f[ty]
      BY <2>1, UpToGrows
  <2>3. ASSUME NEW ty \in UpTo(n) PROVE MapToPodBy(f, ty) = MapToPodBy(g, ty)
    <3>1. ty \in Declarable
        BY DEF UpTo
    <3>2. \A i \in DOMAIN ty.args : IsType(ty.args[i]) => f[ty.args[i]] = g[ty.args[i]]
      <4>. HIDE DEF g
      <4>. QED
          BY <2>2, ArgumentsAreBelow
    <3>. HIDE DEF g
    <3>. QED
        BY <3>1, <3>2, StepsAgree
  <2>4. g = [ty \in UpTo(n) |-> MapToPodBy(g, ty)]
      BY <2>3
  <2>. HIDE DEF g
  <2>. QED
      BY <1>1, <2>4
<1>4. \A n \in 0 .. MaxDepth : n \in R
  <2>. HIDE DEF R
  <2>. QED
      BY <1>1, <1>2, <1>3, RangeInduction
<1>5. MaxDepth \in R
    BY <1>1, <1>4
<1>. QED
    BY <1>5, UpToEnds

\* So does the mapping.
LEMMA MapToPodUnfolds ==
    ASSUME NEW ty \in Declarable
    PROVE  MapToPod[ty] = MapToPodBy(MapToPod, ty)
<1>1. MapToPod = CHOOSE f : f = [u \in Declarable |-> MapToPodBy(f, u)]
    BY DEF MapToPod, MapToPodBy
<1>2. MapToPod = [u \in Declarable |-> MapToPodBy(MapToPod, u)]
    BY <1>1, MapToPodExists
<1>. QED
    BY <1>2


-----------------------------------------------------------------------------
(* The mapping re-encodes what is declared.                                *)

\* A prefix that is present and valid is decoded as it is declared.
LEMMA DeclaredPrefix ==
    ASSUME NEW ty \in Declarable, PrefixesValid[ty], PrefixIndex(ty) \in {2, 3}
    PROVE  LET at == PrefixIndex(ty)
           IN  /\ LaxPrefix(at - 1, ty, at) = DeclaredWidth(ty)
               /\ PrefixOr(at - 1, ty, at) = DeclaredWidth(ty)
<1>1. ty.form = "path"
    BY RecognizedFacts
<1>2. PrefixIndex(ty) \in DOMAIN ty.args => PrefixArg(ty.args[PrefixIndex(ty)]) # 0
    BY <1>1, PrefixesValidUnfolds DEF PrefixesValidBy, Descends
<1>3. PrefixIndex(ty) \in DOMAIN ty.args =>
          PrefixArg(ty.args[PrefixIndex(ty)]) = ty.args[PrefixIndex(ty)].n
    BY <1>2 DEF PrefixArg
<1>. QED
    BY <1>2, <1>3 DEF LaxPrefix, PrefixOr, DeclaredWidth

\* A valid type has valid types in it.
LEMMA ValidInside ==
    ASSUME NEW ty \in Declarable, PrefixesValid[ty],
           NEW i \in DOMAIN ty.args, IsType(ty.args[i]),
           ty.form = "path" \/ (ty.form = "array" /\ i = 1)
    PROVE  ty.args[i] \in Declarable /\ PrefixesValid[ty.args[i]]
<1>1. ty.args[i] \in Declarable
    BY NodeFacts
<1>2. PrefixesValidBy(PrefixesValid, ty)
    BY PrefixesValidUnfolds
<1>3. ty.form = "path" => PrefixesValid[ty.args[i]]
  <2>1. ty.form = "path" => ~Descends(ty)
      BY DEF Descends
  <2>. QED
      BY <1>2, <2>1, Zenon DEF PrefixesValidBy
<1>4. ty.form = "array" => Descends(ty)
    BY DEF Descends
<1>5. ty.form = "array" /\ i = 1 => PrefixesValid[ty.args[i]]
    BY <1>2, <1>4, Zenon DEF PrefixesValidBy
<1>. QED
    BY <1>1, <1>3, <1>5, Zenon

\* map_to_pod_type yields the projection of every type whose prefixes it checked.
LEMMA MappedIsProjected ==
    \A ty \in Declarable : PrefixesValid[ty] => MapToPod[ty] = Projection[ty]
<1>. DEFINE S == {ty \in Declarable : PrefixesValid[ty] => MapToPod[ty] = Projection[ty]}
<1>1. ASSUME NEW ty \in Declarable, PrefixesValid[ty],
             \A i \in DOMAIN ty.args : IsType(ty.args[i]) => ty.args[i] \in S
      PROVE  MapToPod[ty] = Projection[ty]
  <2>1. /\ MapToPod[ty] = MapToPodBy(MapToPod, ty)
        /\ Projection[ty] = ProjectionBy(Projection, ty)
      BY MapToPodUnfolds, ProjectionUnfolds
  <2>2. Len(ty.args) \in Nat /\ DOMAIN ty.args = 1 .. Len(ty.args)
      BY NodeFacts
  <2>3. 1 \in DOMAIN ty.args /\ IsType(ty.args[1]) /\ ty.form \in {"path", "array"} =>
            MapToPod[ty.args[1]] = Projection[ty.args[1]]
      BY <1>1, ValidInside
  <2>4. CASE Recognized(ty) = "String" /\ Len(ty.args) >= 1
    <3>1. Complete(ty) /\ ty.form = "path"
        BY <2>4, RecognizedFacts DEF Complete
    <3>2. LaxPrefix(1, ty, 2) = DeclaredWidth(ty)
        BY <1>1, <2>4, RecognizedFacts, DeclaredPrefix
    <3>. QED
        BY <2>1, <2>4, <3>1, <3>2, RecognizedFacts DEF MapToPodBy, ProjectionBy
  <2>5. CASE Recognized(ty) = "Vec" /\ Len(ty.args) >= 2 /\ IsType(ty.args[1])
    <3>1. Complete(ty) /\ ty.form = "path"
        BY <2>5, RecognizedFacts DEF Complete
    <3>2. LaxPrefix(2, ty, 3) = DeclaredWidth(ty)
        BY <1>1, <2>5, RecognizedFacts, DeclaredPrefix
    <3>3. MapToPod[ty.args[1]] = Projection[ty.args[1]]
        BY <2>2, <2>3, <2>5, <3>1
    <3>. QED
        BY <2>1, <2>5, <3>1, <3>2, <3>3, RecognizedFacts DEF MapToPodBy, ProjectionBy
  <2>6. CASE Recognized(ty) = "Option" /\ Len(ty.args) = 1 /\ IsType(ty.args[1])
    <3>1. Complete(ty) /\ ty.form = "path"
        BY <2>6, RecognizedFacts DEF Complete
    <3>2. MapToPod[ty.args[1]] = Projection[ty.args[1]]
        BY <2>2, <2>3, <2>6, <3>1
    <3>. QED
        BY <2>1, <2>6, <3>1, <3>2, RecognizedFacts DEF MapToPodBy, ProjectionBy
  <2>7. CASE ty.form = "array"
    <3>1. Recognized(ty) = "none"
        BY <2>7, RecognizedFacts
    <3>2. MapToPod[ty.args[1]] = Projection[ty.args[1]]
        BY <2>3, <2>7, NodeFacts DEF Descends
    <3>. QED
        BY <2>1, <2>7, <3>1, <3>2 DEF MapToPodBy, ProjectionBy
  <2>8. CASE /\ ~(Recognized(ty) = "String" /\ Len(ty.args) >= 1)
             /\ ~(Recognized(ty) = "Vec" /\ Len(ty.args) >= 2 /\ IsType(ty.args[1]))
             /\ ~(Recognized(ty) = "Option" /\ Len(ty.args) = 1 /\ IsType(ty.args[1]))
             /\ ty.form # "array"
      BY <2>1, <2>8 DEF MapToPodBy
  <2>. QED
      BY <2>4, <2>5, <2>6, <2>7, <2>8
<1>2. \A ty \in Declarable :
          (\A i \in DOMAIN ty.args : IsType(ty.args[i]) => ty.args[i] \in S) => ty \in S
    BY <1>1
<1>3. \A ty \in Declarable : ty \in S
  <2>. HIDE DEF S
  <2>. QED
      BY <1>2, SyntaxInduction
<1>. QED
    BY <1>3

-----------------------------------------------------------------------------
(* What a compact tail is decoded to.                                      *)

\* The tail of a string has the capacity and width of its projection.
LEMMA StringIsDeclared ==
    ASSUME NEW ty \in Declarable, PrefixesValid[ty], Recognized(ty) = "String",
           NEW tagged, StringTail(tagged, ty) # Rejected,
           NEW tail, tail = StringTail(tagged, ty)
    PROVE  /\ tail.kind = "tail" /\ tail.tagged = tagged /\ tail.payload # "Vec"
           /\ tail.max = Projection[ty].max /\ tail.pfx = Projection[ty].pfx
<1>1. PrefixIndex(ty) = 2 /\ ty.form = "path"
    BY RecognizedFacts
<1>2. PrefixOr(1, ty, 2) = DeclaredWidth(ty)
    BY <1>1, DeclaredPrefix
<1>3. Len(ty.args) \in 1 .. 2 /\ tail =
        Segment(tagged, "String", NoElement, ty.args[1], DeclaredWidth(ty))
    BY <1>2 DEF StringTail
<1>4. Complete(ty)
    BY <1>1, <1>3 DEF Complete
<1>5. Projection[ty] = PodOf("PodString", << >>, ty.args[1], DeclaredWidth(ty))
    BY <1>1, <1>4, ProjectionUnfolds DEF ProjectionBy
<1>. QED
    BY <1>3, <1>5 DEF Segment, PodOf

\* The tail of a vector has the capacity and width of its projection, and its
\* element is mapped as it is projected.
LEMMA VecIsDeclared ==
    ASSUME NEW ty \in Declarable, PrefixesValid[ty], Recognized(ty) = "Vec",
           NEW tagged, VecTail(tagged, ty) # Rejected,
           NEW tail, tail = VecTail(tagged, ty)
    PROVE  /\ tail.kind = "tail" /\ tail.tagged = tagged
           /\ tail.max = Projection[ty].max /\ tail.pfx = Projection[ty].pfx
           /\ MapToPod[tail.elem] = Projection[ty].of
<1>1. PrefixIndex(ty) = 3 /\ ty.form = "path"
    BY RecognizedFacts
<1>2. PrefixOr(2, ty, 3) = DeclaredWidth(ty)
    BY <1>1, DeclaredPrefix
<1>3. Len(ty.args) \in 2 .. 3 /\ IsType(ty.args[1]) /\ tail =
        Segment(tagged, "Vec", ty.args[1], ty.args[2], DeclaredWidth(ty))
    BY <1>2 DEF VecTail
<1>4. Complete(ty) /\ 1 \in DOMAIN ty.args
    BY <1>1, <1>3, NodeFacts DEF Complete
<1>5. MapToPod[ty.args[1]] = Projection[ty.args[1]]
    BY <1>1, <1>3, <1>4, ValidInside, MappedIsProjected
<1>6. Projection[ty] = PodOf("PodVec", Projection[ty.args[1]], ty.args[2], DeclaredWidth(ty))
    BY <1>1, <1>4, ProjectionUnfolds DEF ProjectionBy
<1>. QED
    BY <1>3, <1>5, <1>6 DEF Segment, PodOf

\* What StoredAsDeclared asks of one tail of a compact struct.
Decoded(ty, kind) ==
    LET stored == Projection[ty]
        tail == IF kind.tagged THEN stored.of ELSE stored
    IN  /\ tail.max = kind.max
        /\ tail.pfx = kind.pfx
        /\ kind.payload = "Vec" => MapToPod[kind.elem] = tail.of

\* A classification of a compact field that is no error is inline, or a tail
\* that is decoded as the field is declared.
LEMMA CompactIsDeclared ==
    ASSUME NEW ty \in Declarable, PrefixesValid[ty],
           NEW kind, kind = ClassifyCompact(ty), kind # Rejected
    PROVE  \/ kind = Inline
           \/ kind.kind = "tail" /\ Decoded(ty, kind)
<1>0. PICK always, tagged : always = FALSE /\ tagged = TRUE
    OBVIOUS
<1>1. CASE Recognized(ty) = "String"
  <2>1. kind = StringTail(always, ty)
      BY <1>0, <1>1 DEF ClassifyCompact
  <2>2. /\ kind.kind = "tail" /\ kind.tagged = always /\ kind.payload # "Vec"
        /\ kind.max = Projection[ty].max /\ kind.pfx = Projection[ty].pfx
      BY <1>1, <2>1, StringIsDeclared
  <2>. QED
      BY <1>0, <2>2, Zenon DEF Decoded
<1>2. CASE Recognized(ty) = "Vec"
  <2>1. kind = VecTail(always, ty)
      BY <1>0, <1>2 DEF ClassifyCompact
  <2>2. /\ kind.kind = "tail" /\ kind.tagged = always
        /\ kind.max = Projection[ty].max /\ kind.pfx = Projection[ty].pfx
        /\ MapToPod[kind.elem] = Projection[ty].of
      BY <1>2, <2>1, VecIsDeclared
  <2>. QED
      BY <1>0, <2>2, Zenon DEF Decoded
<1>3. CASE Recognized(ty) = "Option"
  <2>1. kind = ClassifyOption(ty)
      BY <1>3 DEF ClassifyCompact
  <2>2. Len(ty.args) = 1 /\ IsType(ty.args[1])
      BY <2>1 DEF ClassifyOption
  <2>3. 1 \in DOMAIN ty.args /\ ty.form = "path" /\ Complete(ty)
      BY <1>3, <2>2, NodeFacts, RecognizedFacts DEF Complete
  <2>4. PICK inner : inner = ty.args[1]
      OBVIOUS
  <2>5. inner \in Declarable /\ PrefixesValid[inner]
      BY <2>2, <2>3, <2>4, ValidInside
  <2>6. Projection[ty].of = Projection[inner]
    <3>1. Projection[ty] = PodOf("PodOption", Projection[inner], 0, 1)
        BY <1>3, <2>3, <2>4, ProjectionUnfolds DEF ProjectionBy
    <3>. QED
        BY <3>1 DEF PodOf
  <2>7. CASE Recognized(inner) = "String"
    <3>1. kind = StringTail(tagged, inner)
        BY <1>0, <2>1, <2>2, <2>4, <2>7 DEF ClassifyOption
    <3>2. /\ kind.kind = "tail" /\ kind.tagged = tagged /\ kind.payload # "Vec"
          /\ kind.max = Projection[inner].max /\ kind.pfx = Projection[inner].pfx
        BY <2>5, <2>7, <3>1, StringIsDeclared
    <3>. QED
        BY <1>0, <2>6, <3>2, Zenon DEF Decoded
  <2>8. CASE Recognized(inner) = "Vec"
    <3>1. kind = VecTail(tagged, inner)
        BY <1>0, <2>1, <2>2, <2>4, <2>8 DEF ClassifyOption
    <3>2. /\ kind.kind = "tail" /\ kind.tagged = tagged
          /\ kind.max = Projection[inner].max /\ kind.pfx = Projection[inner].pfx
          /\ MapToPod[kind.elem] = Projection[inner].of
        BY <2>5, <2>8, <3>1, VecIsDeclared
    <3>. QED
        BY <1>0, <2>6, <3>2, Zenon DEF Decoded
  <2>9. CASE Recognized(inner) \notin {"String", "Vec"}
    <3>1. kind = IF ContainsDynamic[inner] THEN Rejected ELSE Inline
        BY <2>1, <2>2, <2>4, <2>9 DEF ClassifyOption
    <3>. QED
        BY <3>1
  <2>. QED
      BY <2>7, <2>8, <2>9
<1>4. CASE Recognized(ty) = "none"
    BY <1>4 DEF ClassifyCompact
<1>. QED
    BY <1>1, <1>2, <1>3, <1>4, RecognizedFacts

-----------------------------------------------------------------------------
(* The struct, field by field.                                             *)

\* What is known of a struct so far: each field it keeps is classified and no
\* error, and a compact struct was accepted only without an inline field after
\* a tail.
GrammarInv ==
    /\ compact \in BOOLEAN
    /\ declared \in Seq(Declarable)
    /\ kinds \in Seq({Classify(ty) : ty \in Declarable})
    /\ Len(kinds) = Len(declared)
    /\ \A i \in DOMAIN declared : kinds[i] = Classify(declared[i]) /\ kinds[i] # Rejected
    /\ compact /\ outcome = "accepted" => \A i \in DOMAIN kinds : ~OutOfOrder(i)

\* An empty struct satisfies it.
LEMMA GrammarInvInit == GrammarInit => GrammarInv
BY DEF GrammarInit, GrammarInv

\* Every field and the end of the struct preserve it.
LEMMA GrammarInvNext ==
    ASSUME GrammarInv, [GrammarNext]_grammarVars
    PROVE  GrammarInv'
<1>1. CASE UNCHANGED grammarVars
  <2>1. \A ty : Classify(ty)' = Classify(ty)
      BY <1>1 DEF grammarVars, Classify
  <2>2. \A i : OutOfOrder(i)' <=> OutOfOrder(i)
      BY <1>1 DEF grammarVars, OutOfOrder
  <2>. QED
      BY <1>1, <2>1, <2>2 DEF GrammarInv, grammarVars
<1>2. CASE Finish
  <2>1. \A ty : Classify(ty)' = Classify(ty)
      BY <1>2 DEF Finish, Classify
  <2>2. \A i : OutOfOrder(i)' <=> OutOfOrder(i)
      BY <1>2 DEF Finish, OutOfOrder
  <2>. QED
      BY <1>2, <2>1, <2>2 DEF GrammarInv, Finish
<1>3. ASSUME NEW ty \in Declarable, Field(ty) PROVE GrammarInv'
  <2>1. \A u : Classify(u)' = Classify(u)
      BY <1>3 DEF Field, Classify
  <2>2. outcome' # "accepted" /\ compact' = compact
      BY <1>3 DEF Field
  <2>3. CASE Classify(ty) = Rejected
      BY <1>3, <2>1, <2>2, <2>3 DEF GrammarInv, Field
  <2>4. CASE Classify(ty) # Rejected
    <3>1. declared' = Append(declared, ty) /\ kinds' = Append(kinds, Classify(ty))
        BY <1>3, <2>4 DEF Field
    <3>. QED
        BY <2>1, <2>2, <2>4, <3>1 DEF GrammarInv
  <2>. QED
      BY <2>3, <2>4
<1>. QED
    BY <1>1, <1>2, <1>3 DEF GrammarNext

\* A field that is no error has valid prefixes and is inline or a tail.
LEMMA FieldKinds ==
    ASSUME NEW ty \in Declarable, Classify(ty) # Rejected
    PROVE  PrefixesValid[ty] /\ Classify(ty).kind \in {"inline", "tail"}
<1>1. PrefixesValid[ty]
    BY DEF Classify
<1>2. Inline.kind = "inline"
    BY DEF Inline
<1>3. CASE compact
  <2>1. Classify(ty) = ClassifyCompact(ty)
      BY <1>1, <1>3 DEF Classify
  <2>. QED
      BY <1>1, <1>2, <2>1, CompactIsDeclared
<1>4. CASE ~compact
  <2>1. Classify(ty) = ClassifyFixed(ty)
      BY <1>1, <1>4 DEF Classify
  <2>2. \A tagged, u : LaxTail(tagged, u).kind \in {"inline", "tail"}
      BY <1>2 DEF LaxTail, Segment
  <2>3. ClassifyFixed(ty).kind \in {"inline", "tail"}
      BY <1>2, <2>2 DEF ClassifyFixed
  <2>. QED
      BY <1>1, <2>1, <2>3
<1>. QED
    BY <1>3, <1>4

\* In an accepted struct every field is stored as it is declared.
LEMMA InvStoresAsDeclared == GrammarInv => StoredAsDeclared
<1>. SUFFICES ASSUME GrammarInv, outcome = "accepted"
              PROVE  /\ compact => \A i, j \in DOMAIN kinds : LaidOutBefore(i, j) <=> i < j
                     /\ \A i \in DOMAIN kinds :
                          IF ~compact \/ kinds[i].kind = "inline"
                          THEN MapToPod[declared[i]] = Projection[declared[i]]
                          ELSE Decoded(declared[i], kinds[i])
  BY DEF StoredAsDeclared, Decoded
<1>1. ASSUME NEW i \in DOMAIN kinds
      PROVE  /\ declared[i] \in Declarable
             /\ kinds[i] = Classify(declared[i]) /\ kinds[i] # Rejected
    BY DEF GrammarInv
<1>2. ASSUME NEW i \in DOMAIN kinds
      PROVE  PrefixesValid[declared[i]] /\ kinds[i].kind \in {"inline", "tail"}
    BY <1>1, FieldKinds
<1>3. ASSUME compact, NEW i \in DOMAIN kinds, NEW j \in DOMAIN kinds
      PROVE  LaidOutBefore(i, j) <=> i < j
  <2>1. i \in Nat /\ j \in Nat /\ i >= 1 /\ j >= 1
      BY DEF GrammarInv
  <2>2. ~(kinds[j].kind = "inline" /\ kinds[i].kind = "tail" /\ i < j)
    <3>1. i < j => i \in 1 .. (j - 1)
        BY <2>1
    <3>2. ~OutOfOrder(j)
        BY <1>3 DEF GrammarInv
    <3>. QED
        BY <3>1, <3>2 DEF OutOfOrder
  <2>3. ~(kinds[i].kind = "inline" /\ kinds[j].kind = "tail" /\ j < i)
    <3>1. j < i => j \in 1 .. (i - 1)
        BY <2>1
    <3>2. ~OutOfOrder(i)
        BY <1>3 DEF GrammarInv
    <3>. QED
        BY <3>1, <3>2 DEF OutOfOrder
  <2>4. kinds[i].kind \in {"inline", "tail"} /\ kinds[j].kind \in {"inline", "tail"}
      BY <1>2
  <2>5. i = j => kinds[i].kind = kinds[j].kind
      OBVIOUS
  <2>. QED
      BY <2>1, <2>2, <2>3, <2>4, <2>5 DEF LaidOutBefore
<1>4. ASSUME NEW i \in DOMAIN kinds
      PROVE  IF ~compact \/ kinds[i].kind = "inline"
             THEN MapToPod[declared[i]] = Projection[declared[i]]
             ELSE Decoded(declared[i], kinds[i])
  <2>1. MapToPod[declared[i]] = Projection[declared[i]]
      BY <1>1, <1>2, <1>4, MappedIsProjected
  <2>2. CASE compact /\ kinds[i].kind # "inline"
    <3>1. kinds[i] = ClassifyCompact(declared[i]) /\ ClassifyCompact(declared[i]) # Rejected
        BY <1>1, <1>2, <2>2 DEF Classify
    <3>2. ClassifyCompact(declared[i]) # Inline
        BY <2>2, <3>1 DEF Inline
    <3>. QED
        BY <1>1, <1>2, <2>2, <3>1, <3>2, CompactIsDeclared
  <2>. QED
      BY <2>1, <2>2
<1>. QED
    BY <1>3, <1>4, Zenon

\* For every set of types, every nesting and any number of fields, an accepted
\* struct is laid out as it is declared (schema.rs:125-187, type_map.rs).
THEOREM StoredAsDeclaredAlways == GrammarSpec => []StoredAsDeclared
<1>1. GrammarInit => GrammarInv
    BY GrammarInvInit
<1>2. GrammarInv /\ [GrammarNext]_grammarVars => GrammarInv'
    BY GrammarInvNext
<1>3. GrammarInv => StoredAsDeclared
    BY InvStoresAsDeclared
<1>. QED
    BY <1>1, <1>2, <1>3, PTL DEF GrammarSpec
=============================================================================
