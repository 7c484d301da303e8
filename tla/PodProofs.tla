-------------------------------- MODULE PodProofs ------------------------------
(***************************************************************************)
(* Proofs about the pods of one value, PodOption and the integers, and     *)
(* about the codec of the containers of optional booleans and of strings.  *)
(***************************************************************************)
EXTENDS PodOption, PodInteger, PodCodec, SequenceTheorems, WellFoundedInduction, TLAPS

-----------------------------------------------------------------------------
(***************************************************************************)
(* PodOption.                                                              *)
(***************************************************************************)

OptionsTyped ==
    /\ tags \in [Cell -> 0 .. TagMax]
    /\ payloads \in [Cell -> Payload]
    /\ written \subseteq Cell

\* A call leaves one of the two tags readers accept; under the other one the
\* account may have had anything.
WrittenTagsAreCanonical == \A c \in written : tags[c] \in {0, 1}

\* What a call leaves absent holds no byte of what it removed.
WrittenAbsentIsScrubbed == \A c \in written : tags[c] = 0 => payloads[c] = 0

OptionInv == OptionsTyped /\ WrittenTagsAreCanonical /\ WrittenAbsentIsScrubbed

-----------------------------------------------------------------------------

\* The cast of encode_tag truncates neither tag, however
\* narrow the prefix.
LEMMA EncodeTagIsExact == EncodeTag(1) = 1
    BY PodOptionAssumption DEF EncodeTag

\* Account bytes of any content satisfy the invariant: nothing is written yet.
LEMMA OptionInitInv == OptionInit => OptionInv
    BY DEF OptionInit, OptionInv, OptionsTyped, WrittenTagsAreCanonical, WrittenAbsentIsScrubbed

\* The assignments of a call keep the invariant when they store an absent
\* option as zeros and a present one under the tag 1.
LEMMA StoreCellInv ==
    ASSUME OptionInv, NEW c \in Cell, NEW tag, NEW payload, StoreCell(c, tag, payload),
           \/ tag = 0 /\ payload = 0
           \/ tag = 1 /\ payload \in Payload
    PROVE  OptionInv'
    BY PodOptionAssumption
       DEF OptionInv, OptionsTyped, WrittenTagsAreCanonical, WrittenAbsentIsScrubbed, StoreCell

\* set, clear, take and replace each keep it, with the bytes each one stores.
LEMMA OptionStepInv == OptionInv /\ [OptionNext]_optionVars => OptionInv'
<1>. SUFFICES ASSUME OptionInv, [OptionNext]_optionVars PROVE OptionInv'
    OBVIOUS
<1>1. ASSUME NEW c \in Cell, NEW v \in Given, SetSome(c, v)
      PROVE  OptionInv'
    BY <1>1, StoreCellInv, EncodeTagIsExact, PodOptionAssumption DEF SetSome
<1>2. ASSUME NEW c \in Cell, NEW v \in Given, Replace(c, v)
      PROVE  OptionInv'
    BY <1>2, StoreCellInv, EncodeTagIsExact, PodOptionAssumption DEF Replace
<1>3. ASSUME NEW c \in Cell, SetNone(c)
      PROVE  OptionInv'
    BY <1>3, StoreCellInv DEF SetNone
<1>4. ASSUME NEW c \in Cell, Clear(c)
      PROVE  OptionInv'
    BY <1>4, StoreCellInv DEF Clear
<1>5. ASSUME NEW c \in Cell, Take(c)
      PROVE  OptionInv'
    BY <1>5, StoreCellInv DEF Take
<1>6. CASE UNCHANGED optionVars
    BY <1>6 DEF optionVars, OptionInv, OptionsTyped, WrittenTagsAreCanonical, WrittenAbsentIsScrubbed
<1>. QED
    BY <1>1, <1>2, <1>3, <1>4, <1>5, <1>6 DEF OptionNext

\* The invariant holds in every state.
LEMMA OptionInvariant == OptionSpec => []OptionInv
    BY OptionInitInv, OptionStepInv, PTL DEF OptionSpec

\* An absent option and a present one differ.
LEMMA AbsentIsNotPresent == \A v : << >> # <<v>>
<1>. SUFFICES ASSUME NEW v PROVE << >> # <<v>>
    OBVIOUS
<1>1. Len(<< >>) = 0 /\ Len(<<v>>) = 1
    OBVIOUS
<1>. QED
    BY <1>1

\* Two written options that show the same value have the same bytes: the tag is
\* canonical, the payload is the value or, of an absent option, zero.
LEMMA SameValueSameBytes ==
    ASSUME OptionInv, NEW c \in written, NEW d \in written, Get(c) = Get(d)
    PROVE  tags[c] = tags[d] /\ payloads[c] = payloads[d]
<1>1. tags[c] \in {0, 1} /\ tags[d] \in {0, 1}
    BY DEF OptionInv, WrittenTagsAreCanonical
<1>2. CASE tags[c] = 0 /\ tags[d] = 0
    BY <1>2 DEF OptionInv, WrittenAbsentIsScrubbed
<1>3. CASE tags[c] = 1 /\ tags[d] = 1
  <2>1. Get(c) = <<payloads[c]>> /\ Get(d) = <<payloads[d]>>
      BY <1>3 DEF Get
  <2>2. <<payloads[c]>>[1] = <<payloads[d]>>[1]
      BY <2>1
  <2>. QED
      BY <1>3, <2>2
<1>4. CASE tags[c] = 1 /\ tags[d] = 0
    BY <1>4, AbsentIsNotPresent DEF Get
<1>5. CASE tags[c] = 0 /\ tags[d] = 1
    BY <1>5, AbsentIsNotPresent DEF Get
<1>. QED
    BY <1>1, <1>2, <1>3, <1>4, <1>5

\* Whatever the bytes were and whichever methods stored the values, options
\* with the same value have the same bytes afterwards.
THEOREM WrittenOptionsAreCanonicalAlways == OptionSpec => []WrittenOptionsAreCanonical
<1>1. OptionInv => WrittenOptionsAreCanonical
    BY SameValueSameBytes DEF WrittenOptionsAreCanonical
<1>. QED
    BY <1>1, OptionInvariant, PTL

\* Two options with the same answer of get hash alike, unless one has a tag
\* that readers refuse and no call has touched it.
LEMMA CanonicalOptionsHashAlike ==
    ASSUME OptionInv, NEW c \in Cell, NEW d \in Cell,
           {c, d} \subseteq written \cup {e \in Cell : Valid(e)}, Equal(c, d)
    PROVE  Hashed(c) = Hashed(d)
<1>1. tags[c] \in {0, 1} /\ tags[d] \in {0, 1}
    BY DEF OptionInv, WrittenTagsAreCanonical, Valid
<1>2. Get(c) = Get(d)
    BY DEF Equal
<1>3. CASE tags[c] = 1 /\ tags[d] = 1
    BY <1>2, <1>3 DEF Hashed
<1>4. CASE tags[c] = 0 /\ tags[d] = 0
    BY <1>4 DEF Hashed
<1>5. CASE tags[c] # tags[d]
  <2>1. (tags[c] = 1 /\ tags[d] = 0) \/ (tags[c] = 0 /\ tags[d] = 1)
      BY <1>1, <1>5
  <2>2. CASE tags[c] = 1 /\ tags[d] = 0
      BY <1>2, <2>2, AbsentIsNotPresent DEF Get
  <2>3. CASE tags[c] = 0 /\ tags[d] = 1
      BY <1>2, <2>3, AbsentIsNotPresent DEF Get
  <2>. QED
      BY <2>1, <2>2, <2>3
<1>. QED
    BY <1>1, <1>3, <1>4, <1>5

\* Eq and Hash agree wherever readers or calls lead, for every payload type.
THEOREM EqualOptionsHashEqualAlways == OptionSpec => []EqualOptionsHashEqual
<1>1. OptionInv => EqualOptionsHashEqual
    BY CanonicalOptionsHashAlike DEF EqualOptionsHashEqual
<1>. QED
    BY <1>1, OptionInvariant, PTL

-----------------------------------------------------------------------------
(* The refinement of OptionalValues.                                       *)

Held == [c \in Cell |-> Get(c)]

\* Any tag and payload show an option: nothing, or one payload.
LEMMA OptionInitRefines == OptionInit => Options!Init
<1>. SUFFICES ASSUME OptionInit PROVE Options!Init
    OBVIOUS
<1>1. ASSUME NEW c \in Cell PROVE Get(c) \in {<< >>} \cup {<<v>> : v \in Payload}
    BY <1>1 DEF OptionInit, Get
<1>. QED
    BY <1>1 DEF OptionInit, Options!Init, NoReply, Options!NoReply

\* The assignments of a call are the abstract Put of what they store.
LEMMA StoreCellPuts ==
    ASSUME OptionInv, NEW c \in Cell, NEW tag, NEW payload, StoreCell(c, tag, payload)
    PROVE  /\ tag = 0 => Options!Put(c, << >>)
           /\ tag = 1 => Options!Put(c, <<payload>>)
<1>. DEFINE option == IF tag = 1 THEN <<payload>> ELSE << >>
<1>1. ASSUME NEW d \in Cell PROVE Get(d)' = IF d = c THEN option ELSE Get(d)
    BY <1>1 DEF OptionInv, OptionsTyped, StoreCell, Get
<1>2. Held' = [Held EXCEPT ![c] = option]
    BY <1>1 DEF Held
<1>3. Options!Put(c, option)
    BY <1>2 DEF Held, Options!Put
<1>4. ASSUME tag = 0 PROVE option = << >>
    BY <1>4
<1>5. ASSUME tag = 1 PROVE option = <<payload>>
    BY <1>5
<1>. QED
  <2>. HIDE DEF option
  <2>. QED
      BY <1>3, <1>4, <1>5

\* What get showed before the call is what the cell held.
LEMMA HeldIsGet ==
    ASSUME NEW c \in Cell
    PROVE  Held[c] = Get(c)
    BY DEF Held

\* set is the abstract set, and returns nothing.
LEMMA SetRefines ==
    ASSUME OptionInv, NEW c \in Cell
    PROVE  /\ \A v \in Given : SetSome(c, v) => Options!Set(c, <<v>>)
           /\ SetNone(c) => Options!Set(c, << >>)
<1>1. ASSUME NEW v \in Given, SetSome(c, v) PROVE Options!Set(c, <<v>>)
    BY <1>1, StoreCellPuts, EncodeTagIsExact DEF SetSome, Options!Set, Reply, Options!Reply
<1>2. ASSUME SetNone(c) PROVE Options!Set(c, << >>)
    BY <1>2, StoreCellPuts DEF SetNone, Options!Set, Reply, Options!Reply
<1>. QED
    BY <1>1, <1>2

\* clear is the abstract clear.
LEMMA ClearRefines ==
    ASSUME OptionInv, NEW c \in Cell, Clear(c)
    PROVE  Options!Clear(c)
    BY StoreCellPuts DEF Clear, Options!Clear, Reply, Options!Reply

\* take removes the value and returns the one that was held.
LEMMA TakeRefines ==
    ASSUME OptionInv, NEW c \in Cell, Take(c)
    PROVE  Options!Take(c)
<1>1. reply' = Options!Reply("take", c, << >>, Held[c])
    BY HeldIsGet DEF Take, Reply, Options!Reply
<1>. QED
    BY <1>1, StoreCellPuts DEF Take, Options!Take, Held

\* replace stores the new value and returns the one that was held.
LEMMA ReplaceRefines ==
    ASSUME OptionInv, NEW c \in Cell, NEW v \in Given, Replace(c, v)
    PROVE  Options!Replace(c, v)
<1>1. reply' = Options!Reply("replace", c, <<v>>, Held[c])
    BY HeldIsGet DEF Replace, Reply, Options!Reply
<1>. QED
    BY <1>1, StoreCellPuts, EncodeTagIsExact DEF Replace, Options!Replace, Held

\* Every method is the abstract operation of its name, its answer included.
LEMMA OptionStepRefines == OptionInv /\ [OptionNext]_optionVars => [Options!Next]_Options!vars
<1>. SUFFICES ASSUME OptionInv, [OptionNext]_optionVars PROVE [Options!Next]_Options!vars
    OBVIOUS
<1>1. ASSUME NEW c \in Cell, NEW v \in Given, SetSome(c, v) \/ Replace(c, v)
      PROVE  Options!Next
  <2>1. Options!Set(c, <<v>>) \/ Options!Replace(c, v)
      BY <1>1, SetRefines, ReplaceRefines
  <2>. QED
      BY <2>1 DEF Options!Next
<1>2. ASSUME NEW c \in Cell, SetNone(c) \/ Clear(c) \/ Take(c)
      PROVE  Options!Next
  <2>1. Options!Set(c, << >>) \/ Options!Clear(c) \/ Options!Take(c)
      BY <1>2, SetRefines, ClearRefines, TakeRefines
  <2>. QED
      BY <2>1 DEF Options!Next
<1>3. CASE UNCHANGED optionVars
    BY <1>3 DEF optionVars, Get, Options!vars
<1>. QED
    BY <1>1, <1>2, <1>3 DEF OptionNext

\* From any account bytes on, PodOption implements an optional value per cell:
\* every step is a set, clear, take or replace of one cell with its argument,
\* and take and replace return the value that cell held.
THEOREM OptionsAreImplemented == OptionSpec => ImplementsOption
<1>1. OptionInit => Options!Init
    BY OptionInitRefines
<1>. QED
    BY <1>1, OptionStepRefines, OptionInvariant, PTL DEF OptionSpec, ImplementsOption, Options!Spec

-----------------------------------------------------------------------------
(***************************************************************************)
(* Integers in an account.                                                 *)
(***************************************************************************)

(* Recursion over a range.                                                 *)

\* A set with 0 that holds the successor, up to n, of what it holds, holds
\* 0 .. n: a least number outside would have its predecessor inside.
LEMMA RangeInduction ==
    ASSUME NEW n \in Nat, NEW S, 0 \in S, \A i \in 1 .. n : i - 1 \in S => i \in S
    PROVE  \A i \in 0 .. n : i \in S
<1>. DEFINE Below == OpToRel(<, Nat)
            T == (0 .. n) \ S
<1>. SUFFICES ASSUME T # {} PROVE FALSE
  OBVIOUS
<1>1. \E x \in T : \A y \in T : ~(<<y, x>> \in Below)
  <2>1. T \subseteq Nat
    OBVIOUS
  <2>. HIDE DEF T, Below
  <2>2. IsWellFoundedOn(Below, Nat)
    BY NatLessThanWellFounded DEF Below
  <2>. QED
    BY <2>1, <2>2, WFMin
<1>2. PICK x \in T : \A y \in T : ~(<<y, x>> \in Below)
  BY <1>1
<1>3. x \in 1 .. n /\ x - 1 \in Nat /\ x \in Nat /\ x - 1 < x /\ x \notin S
  OBVIOUS
<1>4. x - 1 \notin T
  BY <1>2, <1>3 DEF OpToRel
<1>5. x - 1 \in S
  BY <1>3, <1>4
<1>. QED
  BY <1>3, <1>5

\* f is what the recursion from z with the steps of G is over 0 .. n, and its
\* values are in the sets of V.
Solves(n, z, G, V, f) ==
    /\ f = [i \in 0 .. n |-> f[i]]
    /\ f[0] = z
    /\ \A i \in 1 .. n : f[i] = G[<<i, f[i - 1]>>]
    /\ \A i \in 0 .. n : f[i] \in V[i]

\* A recursion over 0 .. n whose step takes values of one set to values of the
\* next has a solution, built one value at a time.
LEMMA TypedRecursion ==
    ASSUME NEW n \in Nat, NEW V, NEW z \in V[0], NEW G,
           \A i \in 1 .. n : \A x \in V[i - 1] : G[<<i, x>>] \in V[i]
    PROVE  \E f : Solves(n, z, G, V, f)
<1>. DEFINE S == {m \in 0 .. n : \E f : Solves(m, z, G, V, f)}
<1>1. 0 \in S
  <2>. DEFINE f == [i \in 0 .. 0 |-> z]
  <2>1. f = [i \in 0 .. 0 |-> f[i]] /\ f[0] = z /\ \A i \in 0 .. 0 : f[i] \in V[i]
    OBVIOUS
  <2>2. Solves(0, z, G, V, f)
    BY <2>1 DEF Solves
  <2>. QED
    BY <2>2
<1>2. ASSUME NEW m \in 1 .. n, m - 1 \in S PROVE m \in S
  <2>1. PICK f : Solves(m - 1, z, G, V, f)
    BY <1>2
  <2>2. /\ f[0] = z
        /\ \A i \in 1 .. (m - 1) : f[i] = G[<<i, f[i - 1]>>]
        /\ \A i \in 0 .. (m - 1) : f[i] \in V[i]
    BY <2>1 DEF Solves
  <2>. DEFINE g == [k \in 0 .. m |-> IF k = m THEN G[<<m, f[m - 1]>>] ELSE f[k]]
  <2>3. m - 1 \in 0 .. m /\ m - 1 # m /\ m - 1 \in 0 .. (m - 1) /\ 0 \in 0 .. m /\ m # 0
    OBVIOUS
  <2>4. g[0] = z /\ g = [i \in 0 .. m |-> g[i]]
    BY <2>2, <2>3
  <2>5. ASSUME NEW i \in 1 .. m PROVE g[i] = G[<<i, g[i - 1]>>]
    <3>1. i \in 0 .. m /\ i - 1 \in 0 .. m /\ i - 1 # m
      OBVIOUS
    <3>2. g[i - 1] = f[i - 1]
      BY <3>1
    <3>3. CASE i = m
      BY <3>1, <3>2, <3>3
    <3>4. CASE i # m
      <4>1. i \in 1 .. (m - 1)
        BY <3>4
      <4>. QED
        BY <2>2, <3>1, <3>2, <3>4, <4>1
    <3>. QED
      BY <3>3, <3>4
  <2>6. ASSUME NEW i \in 0 .. m PROVE g[i] \in V[i]
    <3>1. CASE i = m
      BY <2>2, <2>3, <3>1
    <3>2. CASE i # m
      <4>1. i \in 0 .. (m - 1)
        BY <3>2
      <4>. QED
        BY <2>2, <3>2, <4>1
    <3>. QED
      BY <3>1, <3>2
  <2>. HIDE DEF g
  <2>7. Solves(m, z, G, V, g)
    BY <2>4, <2>5, <2>6 DEF Solves
  <2>8. m \in 0 .. n
    OBVIOUS
  <2>. QED
    BY <2>7, <2>8
<1>3. \A m \in 0 .. n : m \in S
  <2>. HIDE DEF S
  <2>. QED
    BY <1>1, <1>2, RangeInduction
<1>4. n \in S
  BY <1>3
<1>. QED
  BY <1>4

-----------------------------------------------------------------------------
(* Integers and their bytes.                                               *)

\* What is assumed of a pod.
LEMMA PodWidth ==
    /\ Radix \in Nat /\ Radix >= 2
    /\ Width \in Nat /\ Width >= 1 /\ Signed \in BOOLEAN
    BY PodIntegerAssumption

\* The powers of the radix.
LEMMA Powers ==
    /\ \A k \in 0 .. Width : Power[k] \in Nat /\ Power[k] > 0
    /\ Power[0] = 1
    /\ \A k \in 1 .. Width : Power[k] = Power[k - 1] * Radix
<1>. DEFINE Positive == {x \in Nat : x > 0}
            V == [i \in 0 .. Width |-> Positive]
            G == [x \in (1 .. Width) \X Positive |-> x[2] * Radix]
            Recursion(f) == f = [k \in 0 .. Width |-> IF k = 0 THEN 1 ELSE f[k - 1] * Radix]
<1>1. 1 \in V[0]
    BY PodWidth
<1>2. \A x \in Positive : x * Radix \in Positive
    BY PodWidth
<1>3. ASSUME NEW i \in 1 .. Width, NEW x \in V[i - 1] PROVE G[<<i, x>>] \in V[i] /\ G[<<i, x>>] = x * Radix
  <2>1. i - 1 \in 0 .. Width /\ i \in 0 .. Width
      BY PodWidth
  <2>2. x \in Positive /\ V[i] = Positive
      BY <2>1
  <2>. HIDE DEF Positive
  <2>3. G[<<i, x>>] = x * Radix
      BY <2>2
  <2>. QED
      BY <1>2, <2>2, <2>3
<1>. HIDE DEF G, V
<1>4. PICK f : Solves(Width, 1, G, V, f)
    BY <1>1, <1>3, PodWidth, TypedRecursion
<1>5. /\ f = [i \in 0 .. Width |-> f[i]] /\ f[0] = 1
      /\ \A i \in 1 .. Width : f[i] = G[<<i, f[i - 1]>>]
      /\ \A i \in 0 .. Width : f[i] \in V[i]
    BY <1>4 DEF Solves
<1>6. ASSUME NEW k \in 0 .. Width PROVE f[k] = IF k = 0 THEN 1 ELSE f[k - 1] * Radix
  <2>1. CASE k = 0
      BY <1>5, <2>1
  <2>2. CASE k # 0
    <3>1. k \in 1 .. Width /\ k - 1 \in 0 .. Width
        BY PodWidth, <2>2
    <3>2. f[k] = G[<<k, f[k - 1]>>] /\ f[k - 1] \in V[k - 1]
        BY <1>5, <3>1
    <3>3. G[<<k, f[k - 1]>>] = f[k - 1] * Radix
        BY <1>3, <3>1, <3>2
    <3>. QED
        BY <2>2, <3>2, <3>3
  <2>. QED
      BY <2>1, <2>2
<1>7. Recursion(f)
    BY <1>5, <1>6
<1>8. Power = CHOOSE g : Recursion(g)
    BY DEF Power
<1>. HIDE DEF Recursion
<1>9. Recursion(Power)
    BY <1>7, <1>8
<1>10. \A k \in 0 .. Width : Power[k] = IF k = 0 THEN 1 ELSE Power[k - 1] * Radix
    BY <1>9 DEF Recursion
<1>. DEFINE S == {k \in 0 .. Width : Power[k] \in Nat /\ Power[k] > 0}
<1>11. 0 \in S
    BY <1>10, PodWidth
<1>12. ASSUME NEW i \in 1 .. Width, i - 1 \in S PROVE i \in S
  <2>1. i \in 0 .. Width /\ i # 0 /\ Power[i - 1] \in Nat /\ Power[i - 1] > 0
      BY <1>12, PodWidth
  <2>2. Power[i] = Power[i - 1] * Radix
      BY <1>10, <2>1
  <2>3. Power[i - 1] * Radix \in Nat /\ Power[i - 1] * Radix > 0
      BY <2>1, PodWidth
  <2>. QED
      BY <2>1, <2>2, <2>3
<1>. HIDE DEF S
<1>13. \A k \in 0 .. Width : k \in S
    BY <1>11, <1>12, PodWidth, RangeInduction
<1>14. \A k \in 1 .. Width : k \in 0 .. Width /\ k # 0
    OBVIOUS
<1>. QED
    BY <1>10, <1>13, <1>14, PodWidth DEF S

\* Division by a positive number rounds down.
LEMMA DivisionDown ==
    ASSUME NEW v \in Int, NEW w \in Nat, w > 0
    PROVE  /\ v \div w \in Int /\ v % w \in Nat /\ (v % w) < w
           /\ v = (v \div w) * w + (v % w)
<1>1. v \div w \in Int
    OBVIOUS
<1>2. v % w \in Nat /\ (v % w) < w
    OBVIOUS
<1>3. v = (v \div w) * w + (v % w)
    OBVIOUS
<1>. QED
    BY <1>1, <1>2, <1>3

\* There is only one remainder.
LEMMA OneRemainder ==
    ASSUME NEW v \in Int, NEW w \in Nat, w > 0, NEW q \in Int, NEW r \in Nat,
           v = q * w + r, r < w
    PROVE  v % w = r
    OBVIOUS

\* The digit that one more byte adds.
LEMMA DigitStep ==
    ASSUME NEW v \in Int, NEW w \in Nat, w > 0
    PROVE  /\ (v \div w) % Radix \in 0 .. (Radix - 1)
           /\ v % (w * Radix) = (v % w) + ((v \div w) % Radix) * w
<1>. DEFINE q == v \div w
            r == v % w
            d == q % Radix
            u == q \div Radix
            m == w * Radix
<1>1. q \in Int /\ r \in Nat /\ r < w /\ v = q * w + r
    BY DivisionDown
<1>2. u \in Int /\ d \in Nat /\ d < Radix /\ q = u * Radix + d
    BY <1>1, PodWidth, DivisionDown
<1>. HIDE DEF q, r, d, u
<1>3. v = u * m + (r + d * w)
  <2>. DEFINE low == d * w
              high == u * m
  <2>1. q * w = (u * Radix) * w + d * w
      BY <1>2, PodWidth
  <2>2. (u * Radix) * w = u * (w * Radix)
      BY <1>2, PodWidth
  <2>3. low \in Nat /\ high \in Int
      BY <1>1, <1>2, PodWidth
  <2>4. q * w = high + low
      BY <2>1, <2>2
  <2>. HIDE DEF low, high
  <2>5. v = high + (r + low)
      BY <1>1, <2>3, <2>4
  <2>. QED
      BY <2>5 DEF low, high
<1>4. r + d * w \in Nat /\ r + d * w < m
  <2>1. d * w \in Nat /\ d * w + w <= Radix * w
    <3>1. d + 1 <= Radix /\ d + 1 \in Nat
        BY <1>2, PodWidth
    <3>2. (d + 1) * w <= Radix * w
        BY <3>1, PodWidth
    <3>3. (d + 1) * w = d * w + w
        BY <1>2
    <3>. QED
        BY <1>2, <3>2, <3>3
  <2>2. Radix * w = w * Radix /\ Radix * w \in Nat
      BY PodWidth
  <2>. QED
      BY <1>1, <2>1, <2>2
<1>5. m \in Nat /\ m > 0
    BY PodWidth
<1>. HIDE DEF m
<1>6. (v % m) = r + d * w
    BY <1>2, <1>3, <1>4, <1>5, OneRemainder
<1>. QED
    BY <1>2, <1>6, PodWidth DEF m, d, r, q

\* The number that the first k bytes stand for, for each k.
Numbers(p, s) ==
    /\ s[0] = 0
    /\ \A k \in 1 .. Width : s[k] = s[k - 1] + p[k] * Power[k - 1]
    /\ \A k \in 0 .. Width : s[k] \in Nat /\ s[k] < Power[k]

\* The bytes are digits.
LEMMA DecodedNumber ==
    ASSUME NEW p \in Pod
    PROVE  \E s : /\ Numbers(p, s)
                  /\ FromBytes(p) = IF s[Width] > Highest THEN s[Width] - Modulus ELSE s[Width]
<1>. DEFINE V == [i \in 0 .. Width |-> Nat]
            G == [x \in (1 .. Width) \X Nat |-> x[2] + p[x[1]] * Power[x[1] - 1]]
            Recursion(f) ==
                f = [k \in 0 .. Width |-> IF k = 0 THEN 0 ELSE f[k - 1] + p[k] * Power[k - 1]]
            Sum == CHOOSE f : Recursion(f)
<1>1. 0 \in V[0]
    BY PodWidth
<1>2. ASSUME NEW i \in 1 .. Width
      PROVE  p[i] \in Nat /\ p[i] <= Radix - 1 /\ i - 1 \in 0 .. Width /\ i \in 0 .. Width
             /\ Power[i - 1] \in Nat
    BY PodWidth, Powers DEF Pod
<1>3. ASSUME NEW i \in 1 .. Width, NEW x \in V[i - 1]
      PROVE  G[<<i, x>>] \in V[i] /\ G[<<i, x>>] = x + p[i] * Power[i - 1]
  <2>1. x \in Nat /\ V[i] = Nat
      BY <1>2
  <2>2. G[<<i, x>>] = x + p[i] * Power[i - 1]
      BY <2>1
  <2>3. \A a, b, c \in Nat : c + a * b \in Nat
      OBVIOUS
  <2>4. x + p[i] * Power[i - 1] \in Nat
      BY <1>2, <2>1, <2>3
  <2>. QED
      BY <2>1, <2>2, <2>4
<1>. HIDE DEF G, V
<1>4. PICK f : Solves(Width, 0, G, V, f)
    BY <1>1, <1>3, PodWidth, TypedRecursion
<1>5. /\ f = [i \in 0 .. Width |-> f[i]] /\ f[0] = 0
      /\ \A i \in 1 .. Width : f[i] = G[<<i, f[i - 1]>>]
      /\ \A i \in 0 .. Width : f[i] \in V[i]
    BY <1>4 DEF Solves
<1>6. ASSUME NEW k \in 0 .. Width
      PROVE  f[k] = IF k = 0 THEN 0 ELSE f[k - 1] + p[k] * Power[k - 1]
  <2>1. CASE k = 0
      BY <1>5, <2>1
  <2>2. CASE k # 0
    <3>1. k \in 1 .. Width /\ k - 1 \in 0 .. Width
        BY PodWidth, <2>2
    <3>2. f[k] = G[<<k, f[k - 1]>>] /\ f[k - 1] \in V[k - 1]
        BY <1>5, <3>1
    <3>3. G[<<k, f[k - 1]>>] = f[k - 1] + p[k] * Power[k - 1]
        BY <1>3, <3>1, <3>2
    <3>. QED
        BY <2>2, <3>2, <3>3
  <2>. QED
      BY <2>1, <2>2
<1>7. Recursion(f)
    BY <1>5, <1>6
<1>8. FromBytes(p) = IF Sum[Width] > Highest THEN Sum[Width] - Modulus ELSE Sum[Width]
    BY DEF FromBytes
<1>. HIDE DEF Recursion
<1>9. Recursion(Sum)
    BY <1>7
<1>. HIDE DEF Sum
<1>10. \A k \in 0 .. Width : Sum[k] = IF k = 0 THEN 0 ELSE Sum[k - 1] + p[k] * Power[k - 1]
    BY <1>9 DEF Recursion
<1>. DEFINE S == {k \in 0 .. Width : Sum[k] \in Nat /\ Sum[k] < Power[k]}
<1>11. 0 \in S
    BY <1>10, PodWidth, Powers
<1>12. ASSUME NEW i \in 1 .. Width, i - 1 \in S PROVE i \in S
  <2>. DEFINE a == Sum[i - 1]
              w == Power[i - 1]
              d == p[i]
  <2>1. /\ i \in 0 .. Width /\ i # 0 /\ a \in Nat /\ a < w /\ w \in Nat
        /\ d \in Nat /\ d + 1 <= Radix /\ Power[i] = w * Radix
      BY <1>2, <1>12, PodWidth, Powers
  <2>2. Sum[i] = a + d * w
      BY <1>10, <2>1
  <2>. HIDE DEF a, w, d
  <2>3. d * w \in Nat /\ (d + 1) * w = d * w + w
      BY <2>1
  <2>4. (d + 1) * w <= Radix * w /\ Radix * w = w * Radix
      BY <2>1, PodWidth
  <2>5. a + d * w \in Nat /\ a + d * w < w * Radix
      BY <2>1, <2>3, <2>4, PodWidth
  <2>. QED
      BY <2>1, <2>2, <2>5
<1>. HIDE DEF S
<1>13. \A k \in 0 .. Width : k \in S
    BY <1>11, <1>12, PodWidth, RangeInduction
<1>14. \A k \in 0 .. Width : Sum[k] \in Nat /\ Sum[k] < Power[k]
    BY <1>13 DEF S
<1>15. Sum[0] = 0 /\ \A k \in 1 .. Width : Sum[k] = Sum[k - 1] + p[k] * Power[k - 1]
    BY <1>10, PodWidth
<1>16. Numbers(p, Sum)
    BY <1>14, <1>15 DEF Numbers
<1>. QED
    BY <1>8, <1>16

\* The range of the native integer.
LEMMA NativeRange ==
    /\ Modulus \in Nat /\ Modulus > 0 /\ Lowest \in Int /\ Highest \in Int
    /\ Highest = Lowest + Modulus - 1
    /\ Lowest <= 0 /\ Highest >= 0
    /\ \A v : v \in Native <=> v \in Int /\ Lowest <= v /\ v <= Highest
<1>1. Modulus \in Nat /\ Modulus > 0
    BY PodWidth, Powers DEF Modulus
<1>. HIDE DEF Modulus
<1>2. Modulus \div 2 \in Nat /\ Modulus \div 2 <= Modulus - 1
    BY <1>1
<1>3. Lowest \in Int /\ Lowest <= 0 /\ Lowest + Modulus - 1 >= 0
    BY <1>1, <1>2 DEF Lowest
<1>. QED
    BY <1>1, <1>3 DEF Highest, Native

\* Every pod is a native integer, and storing an integer and loading it again
\* changes nothing, whatever the width and the sign.
LEMMA BytesOfIntegers ==
    /\ \A p \in Pod : FromBytes(p) \in Native
    /\ \A v \in Native : ToBytes(v) \in Pod /\ FromBytes(ToBytes(v)) = v
<1>1. ASSUME NEW p \in Pod PROVE FromBytes(p) \in Native
  <2>1. PICK s : /\ Numbers(p, s)
                 /\ FromBytes(p) = IF s[Width] > Highest THEN s[Width] - Modulus ELSE s[Width]
      BY DecodedNumber
  <2>2. s[Width] \in Nat /\ s[Width] < Modulus
      BY <2>1, PodWidth DEF Numbers, Modulus
  <2>. QED
      BY <2>1, <2>2, NativeRange
<1>2. ASSUME NEW v \in Native PROVE ToBytes(v) \in Pod /\ FromBytes(ToBytes(v)) = v
  <2>. DEFINE p == ToBytes(v)
  <2>1. v \in Int /\ Lowest <= v /\ v <= Highest
      BY NativeRange
  <2>2. ASSUME NEW i \in 1 .. Width
        PROVE  /\ p[i] = (v \div Power[i - 1]) % Radix
               /\ (v \div Power[i - 1]) % Radix \in 0 .. (Radix - 1)
               /\ v % Power[i] = (v % Power[i - 1]) + p[i] * Power[i - 1]
    <3>1. i - 1 \in 0 .. Width /\ Power[i - 1] \in Nat /\ Power[i - 1] > 0
          /\ Power[i] = Power[i - 1] * Radix
        BY PodWidth, Powers
    <3>2. p[i] = (v \div Power[i - 1]) % Radix
        BY DEF ToBytes
    <3>. HIDE DEF p
    <3>. QED
        BY <2>1, <3>1, <3>2, DigitStep
  <2>3. p \in Pod
      BY <2>2 DEF ToBytes, Pod
  <2>. HIDE DEF p
  <2>4. PICK s : /\ Numbers(p, s)
                 /\ FromBytes(p) = IF s[Width] > Highest THEN s[Width] - Modulus ELSE s[Width]
      BY <2>3, DecodedNumber
  <2>. DEFINE S == {k \in 0 .. Width : s[k] = v % Power[k]}
  <2>5. 0 \in S
    <3>1. v % 1 = 0
        BY <2>1
    <3>. QED
        BY <2>4, <3>1, PodWidth, Powers DEF Numbers
  <2>6. ASSUME NEW i \in 1 .. Width, i - 1 \in S PROVE i \in S
    <3>1. s[i] = s[i - 1] + p[i] * Power[i - 1] /\ s[i - 1] = v % Power[i - 1]
        BY <2>4, <2>6 DEF Numbers
    <3>2. v % Power[i] = (v % Power[i - 1]) + p[i] * Power[i - 1]
        BY <2>2
    <3>3. i \in 0 .. Width
        BY PodWidth
    <3>. QED
        BY <3>1, <3>2, <3>3
  <2>. HIDE DEF S
  <2>7. \A k \in 0 .. Width : k \in S
      BY <2>5, <2>6, PodWidth, RangeInduction
  <2>8. s[Width] = v % Modulus
      BY <2>7, PodWidth DEF S, Modulus
  <2>9. CASE v >= 0
    <3>1. v = 0 * Modulus + v /\ v \in Nat /\ v < Modulus
        BY <2>1, <2>9, NativeRange
    <3>2. v % Modulus = v
        BY <2>1, <3>1, NativeRange, OneRemainder
    <3>. QED
        BY <2>1, <2>3, <2>4, <2>8, <3>2, NativeRange DEF p
  <2>10. CASE ~(v >= 0)
    <3>1. v = (-1) * Modulus + (v + Modulus) /\ v + Modulus \in Nat /\ v + Modulus < Modulus
        BY <2>1, <2>10, NativeRange
    <3>2. v % Modulus = v + Modulus
        BY <2>1, <3>1, NativeRange, OneRemainder
    <3>3. v + Modulus > Highest /\ v + Modulus - Modulus = v
        BY <2>1, NativeRange
    <3>. QED
        BY <2>1, <2>3, <2>4, <2>8, <3>2, <3>3, NativeRange DEF p
  <2>. QED
      BY <2>9, <2>10
<1>. QED
    BY <1>1, <1>2

\* Every result an update can have is a native integer.
LEMMA ResultsFit ==
    ASSUME NEW a \in Native, NEW x \in Native, NEW r \in Results(a, x), r # << >>
    PROVE  r[1] \in Native
<1>1. a \in Int /\ x \in Int
    BY NativeRange
<1>2. \A e \in Exact(a, x) : e \in Int
  <2>1. a + x \in Int /\ a - x \in Int /\ a * x \in Int
      BY <1>1
  <2>. QED
      BY <2>1 DEF Exact
<1>3. ASSUME NEW e, Checked(e) # << >> PROVE Checked(e)[1] \in Native
    BY <1>3 DEF Checked
<1>4. ASSUME NEW e \in Int PROVE Wrapping(e) \in Native
  <2>1. (e - Lowest) % Modulus \in Nat /\ (e - Lowest) % Modulus < Modulus
    <3>1. e - Lowest \in Int
        BY NativeRange
    <3>. QED
        BY <3>1, NativeRange, DivisionDown
  <2>2. Wrapping(e) = Lowest + ((e - Lowest) % Modulus)
      BY DEF Wrapping
  <2>. QED
      BY <2>1, <2>2, NativeRange
<1>5. ASSUME NEW e \in Int PROVE Saturating(e) \in Native
    BY NativeRange DEF Saturating
<1>6. -a \in Int
    BY <1>1
<1>7. CASE r \in {Checked(exact) : exact \in Exact(a, x)}
    BY <1>3, <1>7
<1>8. CASE r = CheckedDiv(a, x)
    BY <1>3, <1>8 DEF CheckedDiv
<1>9. CASE r \in {<<Wrapping(exact)>> : exact \in Exact(a, x)}
    BY <1>2, <1>4, <1>9
<1>10. CASE r \in {<<Saturating(exact)>> : exact \in Exact(a, x)}
    BY <1>2, <1>5, <1>10
<1>11. CASE r = Checked(-a)
    BY <1>3, <1>11
<1>12. CASE r = <<Wrapping(-a)>>
    BY <1>4, <1>6, <1>12
<1>. QED
    BY <1>7, <1>8, <1>9, <1>10, <1>11, <1>12 DEF Results

-----------------------------------------------------------------------------
(* The account and the optimizer.                                          *)

\* A store is put off only by a plain store of the running program, and the
\* value a load from memory finds, the delayed store seen, is the true one.
IntegerInv ==
    /\ mem \in Pod
    /\ pending = << >> \/ pending \in Pod
    /\ pending # << >> => running = "program" /\ plain
    /\ UpdatesAreNotLost

\* The latest bytes are a pod's.
LEMMA LatestIsPod ==
    ASSUME IntegerInv
    PROVE  Latest \in Pod /\ FromBytes(Latest) \in Native
    BY BytesOfIntegers DEF IntegerInv, Latest

\* Bytes are bytes: no pod is the empty sequence.
LEMMA PodIsStored == \A p \in Pod : p # << >>
<1>1. ASSUME NEW p \in Pod PROVE p # << >>
  <2>1. DOMAIN p = 1 .. Width /\ 1 \in 1 .. Width
      BY PodWidth DEF Pod
  <2>2. DOMAIN << >> = {}
      OBVIOUS
  <2>. QED
      BY <2>1, <2>2
<1>. QED
    BY <1>1

LEMMA IntegerInitInv == IntegerInit => IntegerInv
    BY DEF IntegerInit, IntegerInv, UpdatesAreNotLost, Latest

LEMMA IntegerStepInv == IntegerInv /\ [IntegerNext]_integerVars => IntegerInv'
<1>. SUFFICES ASSUME IntegerInv, [IntegerNext]_integerVars PROVE IntegerInv'
    OBVIOUS
<1>. USE DEF IntegerInv
<1>1. CASE GetPlain
    BY <1>1 DEF GetPlain, UpdatesAreNotLost, Latest
<1>2. CASE GetVolatile
  <2>1. mem' = Latest /\ pending' = << >> /\ total' = total
      BY <1>2 DEF GetVolatile
  <2>. QED
      BY <2>1, LatestIsPod DEF UpdatesAreNotLost, Latest
<1>3. ASSUME NEW v \in Native, Set(v) PROVE IntegerInv'
  <2>1. /\ mem' = mem /\ pending' = ToBytes(v) /\ total' = v /\ plain' = TRUE
        /\ running' = "program"
      BY <1>3 DEF Set
  <2>2. pending' \in Pod /\ pending' # << >> /\ FromBytes(pending') = v
      BY <2>1, BytesOfIntegers, PodIsStored
  <2>. QED
      BY <2>1, <2>2 DEF UpdatesAreNotLost, Latest
<1>4. CASE Update
  <2>0. PICK x \in Native : \E r \in Results(FromBytes(Latest), x) :
            IF r = << >> THEN UNCHANGED <<mem, pending, plain, total>>
            ELSE StoreVolatile(r[1]) /\ total' = total + (r[1] - FromBytes(Latest))
      BY <1>4 DEF Update, VolatileLoad
  <2>1. PICK r \in Results(FromBytes(Latest), x) :
            IF r = << >> THEN UNCHANGED <<mem, pending, plain, total>>
            ELSE StoreVolatile(r[1]) /\ total' = total + (r[1] - FromBytes(Latest))
      BY <2>0
  <2>2. running = "program" /\ running' = running
      BY <1>4 DEF Update
  <2>3. CASE r = << >>
      BY <2>1, <2>2, <2>3 DEF UpdatesAreNotLost, Latest
  <2>4. CASE r # << >>
    <3>. DEFINE v == r[1]
    <3>1. v \in Native /\ FromBytes(Latest) \in Native
        BY <2>4, LatestIsPod, ResultsFit
    <3>2. mem' = ToBytes(v) /\ pending' = << >> /\ total' = total + (v - FromBytes(Latest))
        BY <2>1, <2>4 DEF StoreVolatile
    <3>3. ToBytes(v) \in Pod /\ FromBytes(ToBytes(v)) = v
        BY <3>1, BytesOfIntegers
    <3>4. total = FromBytes(Latest)
        BY DEF UpdatesAreNotLost
    <3>5. total' = v
        BY <3>1, <3>2, <3>4, NativeRange
    <3>. HIDE DEF v
    <3>6. Latest' = ToBytes(v)
        BY <3>2 DEF Latest
    <3>. QED
        BY <3>2, <3>3, <3>5, <3>6 DEF UpdatesAreNotLost
  <2>. QED
      BY <2>3, <2>4
<1>5. CASE Flush
    BY <1>5 DEF Flush, UpdatesAreNotLost, Latest
<1>6. CASE Call
    BY <1>6 DEF Call, UpdatesAreNotLost, Latest
<1>7. CASE CalleeAdds
  <2>1. PICK x \in Native : /\ FromBytes(mem) + x \in Native
                            /\ mem' = ToBytes(FromBytes(mem) + x) /\ total' = total + x
      BY <1>7 DEF CalleeAdds
  <2>2. /\ running = "callee" /\ pending' = pending
      BY <1>7 DEF CalleeAdds
  <2>3. pending = << >>
      BY <2>2
  <2>4. mem' \in Pod /\ FromBytes(mem') = FromBytes(mem) + x
      BY <2>1, BytesOfIntegers
  <2>5. Latest = mem /\ Latest' = mem'
      BY <2>2, <2>3 DEF Latest
  <2>. QED
      BY <2>1, <2>2, <2>3, <2>4, <2>5 DEF UpdatesAreNotLost
<1>8. CASE Return
    BY <1>8 DEF Return, UpdatesAreNotLost, Latest
<1>9. CASE UNCHANGED integerVars
    BY <1>9 DEF integerVars, UpdatesAreNotLost, Latest
<1>. QED
    BY <1>1, <1>2, <1>3, <1>4, <1>5, <1>6, <1>7, <1>8, <1>9 DEF IntegerNext

\* For every width, radix and sign: the value every write of the program and of
\* its callees adds up to is the one the account holds, whatever plain loads the
\* optimizer reuses and whatever plain stores it puts off (numeric.rs:56-100).
THEOREM UpdatesAreNeverLost == IntegerSpec => []UpdatesAreNotLost
<1>1. IntegerInv => UpdatesAreNotLost
    BY DEF IntegerInv
<1>. QED
    BY <1>1, IntegerInitInv, IntegerStepInv, PTL DEF IntegerSpec

-----------------------------------------------------------------------------
(***************************************************************************)
(* The codec.                                                              *)
(***************************************************************************)

(* The one encoding of a value, cell by cell.                              *)

\* What is assumed of the capacities.
LEMMA Capacities ==
    /\ N \in Nat /\ TextCap \in Nat /\ PrefixMax \in Nat /\ UsizeMax \in Nat
    /\ N <= PrefixMax /\ N <= UsizeMax /\ TextCap <= PrefixMax /\ TextCap <= UsizeMax
    /\ 0 \in Byte /\ 1 \in Byte /\ Byte \subseteq Nat
    /\ Chunk \in Nat /\ Chunk > 0
    /\ \A text \in Texts : text \in Seq(Byte) /\ text \in Seq(Nat)
<1>1. ASSUME NEW text \in Seq(Byte), Byte \subseteq Nat PROVE text \in Seq(Nat)
  <2>1. text \in [1 .. Len(text) -> Byte] /\ Len(text) \in Nat
      BY LenProperties
  <2>2. text \in [1 .. Len(text) -> Nat]
      BY <1>1, <2>1
  <2>. QED
      BY <2>1, <2>2
<1>. QED
    BY <1>1, PodCodecAssumption

\* c is a length, a body and zeros.
Frame(c, m, body, n) == c = <<m>> \o body \o Zeros(n)

\* Their cells.
LEMMA Framed ==
    ASSUME NEW m \in Nat, NEW body \in Seq(Nat), NEW n \in Nat, NEW c, Frame(c, m, body, n)
    PROVE  /\ c \in Seq(Nat) /\ Len(c) = 1 + Len(body) + n
           /\ c[1] = m
           /\ \A k \in 1 .. Len(body) : c[1 + k] = body[k]
           /\ \A k \in 2 + Len(body) .. 1 + Len(body) + n : c[k] = 0
<1>. DEFINE head == <<m>>
            zeros == Zeros(n)
            left == head \o body
            w == left \o zeros
<1>1. head \in Seq(Nat) /\ Len(head) = 1 /\ head[1] = m
    OBVIOUS
<1>2. zeros \in Seq(Nat) /\ Len(zeros) = n /\ \A k \in 1 .. n : zeros[k] = 0
    BY DEF Zeros
<1>. HIDE DEF head, zeros
<1>3. /\ left \in Seq(Nat) /\ Len(left) = 1 + Len(body)
      /\ \A k \in 1 .. 1 + Len(body) : left[k] = IF k <= 1 THEN head[k] ELSE body[k - 1]
  <2>1. /\ left \in Seq(Nat) /\ Len(left) = Len(head) + Len(body)
        /\ \A k \in 1 .. Len(head) + Len(body) :
               left[k] = IF k <= Len(head) THEN head[k] ELSE body[k - Len(head)]
      BY <1>1, ConcatProperties
  <2>. HIDE DEF left
  <2>. QED
      BY <1>1, <2>1
<1>. HIDE DEF left
<1>4. /\ w \in Seq(Nat) /\ Len(w) = 1 + Len(body) + n
      /\ \A k \in 1 .. 1 + Len(body) + n :
             w[k] = IF k <= 1 + Len(body) THEN left[k] ELSE zeros[k - (1 + Len(body))]
  <2>1. /\ w \in Seq(Nat) /\ Len(w) = Len(left) + Len(zeros)
        /\ \A k \in 1 .. Len(left) + Len(zeros) :
               w[k] = IF k <= Len(left) THEN left[k] ELSE zeros[k - Len(left)]
      BY <1>2, <1>3, ConcatProperties
  <2>. HIDE DEF w
  <2>. QED
      BY <1>2, <1>3, <2>1
<1>. HIDE DEF w
<1>5. Len(body) \in Nat
    OBVIOUS
<1>6. w[1] = m
    BY <1>1, <1>3, <1>4, <1>5
<1>7. ASSUME NEW k \in 1 .. Len(body) PROVE w[1 + k] = body[k]
  <2>1. 1 + k \in 1 .. 1 + Len(body) /\ 1 + k \in 1 .. 1 + Len(body) + n
        /\ ~(1 + k <= 1) /\ 1 + k <= 1 + Len(body) /\ (1 + k) - 1 = k
      BY <1>5
  <2>. QED
      BY <1>3, <1>4, <2>1
<1>8. ASSUME NEW k \in 2 + Len(body) .. 1 + Len(body) + n PROVE w[k] = 0
  <2>1. /\ k \in 1 .. 1 + Len(body) + n /\ ~(k <= 1 + Len(body))
        /\ k - (1 + Len(body)) \in 1 .. n
      BY <1>5
  <2>. QED
      BY <1>2, <1>4, <2>1
<1>9. c = w
    BY DEF Frame, w, left, zeros, head
<1>. QED
    BY <1>4, <1>6, <1>7, <1>8, <1>9

Elements == {"none", "false", "true"}

\* The two bytes of an optional boolean.
LEMMA ElementBytesFacts ==
    \A e \in Elements :
        /\ ElementBytes(e)[1] \in {0, 1} /\ ElementBytes(e)[2] \in {0, 1}
        /\ ElementBytes(e)[1] = 0 <=> e = "none"
        /\ ElementBytes(e)[2] = 1 <=> e = "true"
    BY DEF Elements, ElementBytes

\* Values of a vector.
LEMMA VecValues ==
    ASSUME codec = "vec"
    PROVE  /\ \A value \in Values : /\ value \in Seq(Elements) /\ Len(value) \in 0 .. N
                                    /\ value \in [1 .. Len(value) -> Elements]
           /\ \A n \in 0 .. N : \A value \in [1 .. n -> Elements] :
                  value \in Values /\ Len(value) = n
           /\ WireSize = 1 + 2 * N
<1>1. Values = UNION {[1 .. n -> Elements] : n \in 0 .. N}
    BY DEF Values, Elements
<1>2. \A n \in 0 .. N : \A value \in [1 .. n -> Elements] :
          value \in Seq(Elements) /\ Len(value) = n
    BY Capacities
<1>3. WireSize = 1 + 2 * N
    BY Capacities DEF WireSize, ElementSize
<1>. QED
    BY <1>1, <1>2, <1>3

\* The encoding of a vector: its length, two cells an element, and zeros.
LEMMA VecEncoding ==
    ASSUME codec = "vec", NEW value \in Values
    PROVE  LET c == Canonical(value)
               n == Len(value)
           IN  /\ c \in Seq(Nat) /\ Len(c) = 1 + 2 * N
               /\ n \in 0 .. N /\ c[1] = n
               /\ \A j \in 1 .. n : c[2 * j] = ElementBytes(value[j])[1]
               /\ \A j \in 1 .. n : c[2 * j + 1] = ElementBytes(value[j])[2]
               /\ \A k \in 2 * n + 2 .. 1 + 2 * N : c[k] = 0
<1>. DEFINE count == Len(value)
            cells == [k \in 1 .. count * 2 |->
                        ElementBytes(value[1 + (k - 1) \div 2])[1 + ((k - 1) % 2)]]
            pad == WireSize - 1 - Len(cells)
            code == Canonical(value)
<1>1. count \in 0 .. N /\ count \in Nat /\ count * 2 \in Nat /\ value \in [1 .. count -> Elements]
    BY VecValues, Capacities
<1>2. ASSUME NEW k \in 1 .. count * 2
      PROVE  1 + (k - 1) \div 2 \in 1 .. count /\ 1 + ((k - 1) % 2) \in {1, 2}
    BY <1>1
<1>3. \A k \in 1 .. count * 2 :
          ElementBytes(value[1 + (k - 1) \div 2])[1 + ((k - 1) % 2)] \in Nat
  <2>. TAKE k \in 1 .. count * 2
  <2>1. value[1 + (k - 1) \div 2] \in Elements
      BY <1>1, <1>2
  <2>. QED
      BY <1>2, <2>1, ElementBytesFacts
<1>4. cells \in Seq(Nat) /\ Len(cells) = 2 * count
    BY <1>1, <1>3
<1>5. ASSUME NEW j \in 1 .. count
      PROVE  /\ cells[2 * j - 1] = ElementBytes(value[j])[1]
             /\ cells[2 * j] = ElementBytes(value[j])[2]
  <2>1. /\ 2 * j - 1 \in 1 .. count * 2 /\ 2 * j \in 1 .. count * 2
        /\ 1 + ((2 * j - 1) - 1) \div 2 = j /\ 1 + (((2 * j - 1) - 1) % 2) = 1
        /\ 1 + (2 * j - 1) \div 2 = j /\ 1 + ((2 * j - 1) % 2) = 2
      BY <1>1
  <2>. QED
      BY <2>1
<1>6. code = <<count>> \o cells \o Zeros(pad)
    BY Zenon DEF Canonical, ElementSize
<1>7. pad = 2 * N - 2 * count /\ pad \in Nat
  <2>. HIDE DEF cells
  <2>. QED
      BY <1>1, <1>4, VecValues, Capacities
<1>. HIDE DEF cells, pad, code
<1>8. /\ code \in Seq(Nat) /\ Len(code) = 1 + 2 * count + pad /\ code[1] = count
      /\ \A k \in 1 .. 2 * count : code[1 + k] = cells[k]
      /\ \A k \in 2 + 2 * count .. 1 + 2 * count + pad : code[k] = 0
  <2>1. count \in Nat /\ cells \in Seq(Nat) /\ pad \in Nat
      BY <1>1, <1>4, <1>7
  <2>. HIDE DEF count
  <2>2. Frame(code, count, cells, pad)
      BY <1>6, Zenon DEF count, Frame
  <2>3. /\ code \in Seq(Nat) /\ Len(code) = 1 + Len(cells) + pad /\ code[1] = count
        /\ \A k \in 1 .. Len(cells) : code[1 + k] = cells[k]
        /\ \A k \in 2 + Len(cells) .. 1 + Len(cells) + pad : code[k] = 0
      BY <2>1, <2>2, Framed
  <2>4. Len(cells) = 2 * count
      BY <1>4 DEF count
  <2>. QED
      BY <2>3, <2>4
<1>9. Len(code) = 1 + 2 * N
    BY <1>1, <1>7, <1>8, Capacities
<1>10. \A j \in 1 .. count : 1 + (2 * j - 1) = 2 * j /\ 1 + 2 * j = 2 * j + 1
                         /\ 2 * j - 1 \in 1 .. 2 * count /\ 2 * j \in 1 .. 2 * count
    BY <1>1
<1>11. ASSUME NEW j \in 1 .. count
       PROVE  code[2 * j] = ElementBytes(value[j])[1] /\ code[2 * j + 1] = ElementBytes(value[j])[2]
  <2>1. code[1 + (2 * j - 1)] = cells[2 * j - 1] /\ code[1 + 2 * j] = cells[2 * j]
      BY <1>8, <1>10
  <2>. QED
      BY <1>5, <1>10, <2>1
<1>12. \A k \in 2 * count + 2 .. 1 + 2 * N : code[k] = 0
    BY <1>1, <1>7, <1>8, Capacities
<1>. QED
    BY <1>1, <1>8, <1>9, <1>11, <1>12 DEF code

\* Two cells of an optional boolean.
PairValid(tag, payload) == (tag = 0 /\ payload = 0) \/ (tag = 1 /\ payload \in {0, 1})

PairElement(tag, payload) ==
    IF tag = 0 THEN "none" ELSE IF payload = 1 THEN "true" ELSE "false"

\* A wire that encodes a vector.
VecWire(w) ==
    /\ Len(w) = 1 + 2 * N
    /\ w[1] \in 0 .. N
    /\ \A j \in 1 .. w[1] : PairValid(w[2 * j], w[2 * j + 1])
    /\ \A k \in 2 * w[1] + 2 .. 1 + 2 * N : w[k] = 0

\* Every cell of a wire is its length, of an element, or zero.
LEMMA CellCases ==
    ASSUME NEW n \in 0 .. N, NEW k \in 1 .. 1 + 2 * N
    PROVE  \/ k = 1
           \/ \E j \in 1 .. n : k = 2 * j \/ k = 2 * j + 1
           \/ k \in 2 * n + 2 .. 1 + 2 * N
<1>1. n \in Nat /\ N \in Nat /\ k \in Nat
    BY Capacities
<1>2. CASE k > 1 /\ k < 2 * n + 2
  <2>. DEFINE j == k \div 2
  <2>1. j \in 1 .. n /\ (k = 2 * j \/ k = 2 * j + 1)
      BY <1>1, <1>2
  <2>. QED
      BY <2>1
<1>. QED
    BY <1>1, <1>2

\* A wire with the cells of a vector is its encoding.
LEMMA VecWireIs ==
    ASSUME codec = "vec", NEW value \in Values, NEW w \in Seq(Nat),
           Len(w) = 1 + 2 * N, w[1] = Len(value),
           \A j \in 1 .. Len(value) : /\ w[2 * j] = ElementBytes(value[j])[1]
                                      /\ w[2 * j + 1] = ElementBytes(value[j])[2],
           \A k \in 2 * Len(value) + 2 .. 1 + 2 * N : w[k] = 0
    PROVE  w = Canonical(value)
<1>. DEFINE code == Canonical(value)
            n == Len(value)
<1>1. /\ code \in Seq(Nat) /\ Len(code) = 1 + 2 * N
      /\ n \in 0 .. N /\ code[1] = n
      /\ \A j \in 1 .. n : code[2 * j] = ElementBytes(value[j])[1]
      /\ \A j \in 1 .. n : code[2 * j + 1] = ElementBytes(value[j])[2]
      /\ \A k \in 2 * n + 2 .. 1 + 2 * N : code[k] = 0
    BY VecEncoding
<1>. HIDE DEF code
<1>2. ASSUME NEW k \in 1 .. 1 + 2 * N PROVE w[k] = code[k]
  <2>1. CASE k = 1
      BY <1>1, <2>1
  <2>2. ASSUME NEW j \in 1 .. n, k = 2 * j \/ k = 2 * j + 1 PROVE w[k] = code[k]
      BY <1>1, <2>2
  <2>3. CASE k \in 2 * n + 2 .. 1 + 2 * N
      BY <1>1, <2>3
  <2>. QED
      BY <1>1, <2>1, <2>2, <2>3, CellCases
<1>3. w = code
    BY <1>1, <1>2, SeqEqual
<1>. QED
    BY <1>3 DEF code

\* The wires of vectors are the encodings of values.
LEMMA VecWires ==
    ASSUME codec = "vec", NEW w \in Seq(Nat)
    PROVE  w \in {Canonical(value) : value \in Values} <=> VecWire(w)
<1>1. ASSUME NEW value \in Values, w = Canonical(value)
      PROVE  VecWire(w)
  <2>. DEFINE n == Len(value)
  <2>1. /\ Len(w) = 1 + 2 * N
        /\ n \in 0 .. N /\ w[1] = n
        /\ \A j \in 1 .. n : w[2 * j] = ElementBytes(value[j])[1]
        /\ \A j \in 1 .. n : w[2 * j + 1] = ElementBytes(value[j])[2]
        /\ \A k \in 2 * n + 2 .. 1 + 2 * N : w[k] = 0
      BY <1>1, VecEncoding
  <2>2. ASSUME NEW j \in 1 .. n PROVE PairValid(w[2 * j], w[2 * j + 1])
    <3>1. value[j] \in Elements
        BY VecValues
    <3>2. /\ ElementBytes(value[j])[1] \in {0, 1} /\ ElementBytes(value[j])[2] \in {0, 1}
          /\ ElementBytes(value[j])[1] = 0 => ElementBytes(value[j])[2] = 0
        BY <3>1 DEF Elements, ElementBytes
    <3>. QED
        BY <2>1, <3>2 DEF PairValid
  <2>. QED
      BY <2>1, <2>2 DEF VecWire
<1>2. ASSUME VecWire(w)
      PROVE  \E value \in Values : w = Canonical(value)
  <2>. DEFINE n == w[1]
              value == [j \in 1 .. n |-> PairElement(w[2 * j], w[2 * j + 1])]
  <2>1. /\ n \in 0 .. N /\ Len(w) = 1 + 2 * N
        /\ \A j \in 1 .. n : PairValid(w[2 * j], w[2 * j + 1])
        /\ \A k \in 2 * n + 2 .. 1 + 2 * N : w[k] = 0
      BY <1>2 DEF VecWire
  <2>2. value \in [1 .. n -> Elements]
      BY DEF PairElement, Elements
  <2>3. ASSUME NEW j \in 1 .. n
        PROVE  /\ w[2 * j] = ElementBytes(value[j])[1]
               /\ w[2 * j + 1] = ElementBytes(value[j])[2]
    <3>1. value[j] = PairElement(w[2 * j], w[2 * j + 1]) /\ PairValid(w[2 * j], w[2 * j + 1])
        BY <2>1
    <3>2. \A a, b : PairValid(a, b) => /\ ElementBytes(PairElement(a, b))[1] = a
                                       /\ ElementBytes(PairElement(a, b))[2] = b
        BY DEF PairValid, PairElement, ElementBytes
    <3>. HIDE DEF value
    <3>. QED
        BY <3>1, <3>2
  <2>. HIDE DEF n, value
  <2>4. value \in Values /\ Len(value) = n
      BY <2>1, <2>2, VecValues
  <2>5. w = Canonical(value)
      BY <2>1, <2>3, <2>4, VecWireIs DEF n
  <2>. QED
      BY <2>4, <2>5
<1>. QED
    BY <1>1, <1>2

\* What the writer of a valid vector has to emit.
LEMMA ValidVec ==
    ASSUME codec = "vec", NEW c \in Container, Storage!Valid(c.len, c.slots)
    PROVE  /\ c.len \in 0 .. N
           /\ \A j \in 0 .. c.len - 1 : /\ c.slots[j] \in Option /\ OptionValid(c.slots[j])
                                        /\ c.slots[j].tag \in {0, 1}
                                        /\ c.slots[j].tag = 1 => c.slots[j].value \in {0, 1}
           /\ Logical(c) \in Values /\ Len(Logical(c)) = c.len
           /\ \A j \in 1 .. c.len :
                  LET o == c.slots[j - 1]
                  IN  /\ ElementBytes(Logical(c)[j])[1] = o.tag
                      /\ ElementBytes(Logical(c)[j])[2] = IF o.tag = 1 THEN o.value ELSE 0
<1>. DEFINE n == c.len
            value == Logical(c)
<1>1. n \in 0 .. N /\ Storage!Clamp(n) = n /\ N \in Nat
    BY Capacities DEF Storage!Valid, Storage!Clamp, Storage!DecodeLen, Container
<1>2. ASSUME NEW j \in 0 .. n - 1
      PROVE  /\ c.slots[j] \in Option /\ OptionValid(c.slots[j])
             /\ c.slots[j].tag \in {0, 1}
             /\ c.slots[j].tag = 1 => c.slots[j].value \in {0, 1}
  <2>1. c.slots[j] \in Option /\ OptionValid(c.slots[j])
      BY DEF Storage!Valid
  <2>2. ASSUME NEW o \in Option, OptionValid(o)
        PROVE  o.tag \in {0, 1} /\ (o.tag = 1 => o.value \in {0, 1})
    <3>1. o.tag \in Nat /\ o.value \in Nat
        BY Capacities DEF Option
    <3>. QED
        BY <2>2, <3>1 DEF OptionValid, BoolValid
  <2>. QED
      BY <2>1, <2>2
<1>3. value = [k \in 1 .. n |->
                  LET option == c.slots[k - 1]
                  IN  IF option.tag # 1 THEN "none" ELSE IF option.value # 0 THEN "true" ELSE "false"]
    BY <1>1 DEF Logical
<1>4. value \in [1 .. n -> Elements]
    BY <1>3 DEF Elements
<1>. HIDE DEF value
<1>5. value \in Values /\ Len(value) = n
    BY <1>1, <1>4, VecValues
<1>6. ASSUME NEW j \in 1 .. n
      PROVE  LET o == c.slots[j - 1]
             IN  /\ ElementBytes(value[j])[1] = o.tag
                 /\ ElementBytes(value[j])[2] = IF o.tag = 1 THEN o.value ELSE 0
  <2>1. j - 1 \in 0 .. n - 1
      BY <1>1
  <2>2. value[j] = IF c.slots[j - 1].tag # 1 THEN "none"
                   ELSE IF c.slots[j - 1].value # 0 THEN "true" ELSE "false"
      BY <1>3
  <2>. QED
      BY <1>2, <2>1, <2>2 DEF ElementBytes
<1>. QED
    BY <1>1, <1>2, <1>5, <1>6 DEF value

\* Values of a string.
LEMMA TextValues ==
    ASSUME codec = "string"
    PROVE  /\ \A value : value \in Values <=> value \in Texts /\ Len(value) <= TextCap
           /\ \A value \in Values : /\ value \in Seq(Byte) /\ value \in Seq(Nat)
                                    /\ Len(value) \in 0 .. TextCap
           /\ WireSize = 1 + TextCap
<1>1. \A value : value \in Values <=> value \in Texts /\ Len(value) <= TextCap
    BY DEF Values
<1>2. \A value \in Seq(Nat) : Len(value) \in Nat
    OBVIOUS
<1>3. WireSize = 1 + TextCap
    BY DEF WireSize
<1>. QED
    BY <1>1, <1>2, <1>3, Capacities

\* The encoding of a string: its length, its bytes, and zeros.
LEMMA TextEncoding ==
    ASSUME codec = "string", NEW value \in Values
    PROVE  LET c == Canonical(value)
               n == Len(value)
           IN  /\ c \in Seq(Nat) /\ Len(c) = 1 + TextCap
               /\ n \in 0 .. TextCap /\ c[1] = n
               /\ \A k \in 1 .. n : c[1 + k] = value[k]
               /\ \A k \in n + 2 .. 1 + TextCap : c[k] = 0
<1>. DEFINE n == Len(value)
            pad == WireSize - 1 - Len(value)
            code == Canonical(value)
<1>1. n \in 0 .. TextCap /\ n \in Nat /\ value \in Seq(Nat) /\ TextCap \in Nat
    BY TextValues, Capacities
<1>2. code = <<n>> \o value \o Zeros(pad)
    BY Zenon DEF Canonical
<1>3. pad = TextCap - n /\ pad \in Nat
    BY <1>1, TextValues
<1>. HIDE DEF pad, code
<1>4. Frame(code, n, value, pad)
    BY <1>2 DEF Frame
<1>5. n = Len(value)
    OBVIOUS
<1>6. n \in Nat /\ value \in Seq(Nat) /\ pad \in Nat
    BY <1>1, <1>3
<1>. HIDE DEF n
<1>7. /\ code \in Seq(Nat) /\ Len(code) = 1 + Len(value) + pad /\ code[1] = n
      /\ \A k \in 1 .. Len(value) : code[1 + k] = value[k]
      /\ \A k \in 2 + Len(value) .. 1 + Len(value) + pad : code[k] = 0
    BY <1>4, <1>6, Framed
<1>8. 1 + n + pad = 1 + TextCap /\ 2 + n = n + 2
    BY <1>1, <1>3
<1>9. /\ code \in Seq(Nat) /\ Len(code) = 1 + n + pad /\ code[1] = n
      /\ \A k \in 1 .. n : code[1 + k] = value[k]
      /\ \A k \in 2 + n .. 1 + n + pad : code[k] = 0
    BY <1>5, <1>7
<1>10. /\ code \in Seq(Nat) /\ Len(code) = 1 + TextCap /\ code[1] = n
       /\ \A k \in 1 .. n : code[1 + k] = value[k]
       /\ \A k \in n + 2 .. 1 + TextCap : code[k] = 0
    BY <1>8, <1>9
<1>. QED
    BY <1>1, <1>10 DEF code, n

\* A wire that encodes a string.
TextWire(w) ==
    /\ Len(w) = 1 + TextCap
    /\ w[1] \in 0 .. TextCap
    /\ [k \in 1 .. w[1] |-> w[1 + k]] \in Texts
    /\ \A k \in w[1] + 2 .. 1 + TextCap : w[k] = 0

\* A wire with the cells of a string is its encoding.
LEMMA TextWireIs ==
    ASSUME codec = "string", NEW value \in Values, NEW w \in Seq(Nat),
           Len(w) = 1 + TextCap, w[1] = Len(value),
           \A k \in 1 .. Len(value) : w[1 + k] = value[k],
           \A k \in Len(value) + 2 .. 1 + TextCap : w[k] = 0
    PROVE  w = Canonical(value)
<1>. DEFINE code == Canonical(value)
            n == Len(value)
<1>1. /\ code \in Seq(Nat) /\ Len(code) = 1 + TextCap
      /\ n \in 0 .. TextCap /\ code[1] = n
      /\ \A k \in 1 .. n : code[1 + k] = value[k]
      /\ \A k \in n + 2 .. 1 + TextCap : code[k] = 0
    BY TextEncoding
<1>. HIDE DEF code
<1>2. ASSUME NEW k \in 1 .. 1 + TextCap PROVE w[k] = code[k]
  <2>1. CASE k = 1
      BY <1>1, <2>1
  <2>2. CASE k \in 2 .. n + 1
    <3>1. k - 1 \in 1 .. n /\ 1 + (k - 1) = k
        BY <1>1, <2>2
    <3>2. w[1 + (k - 1)] = value[k - 1] /\ code[1 + (k - 1)] = value[k - 1]
        BY <1>1, <3>1
    <3>. QED
        BY <3>1, <3>2
  <2>3. CASE k \in n + 2 .. 1 + TextCap
      BY <1>1, <2>3
  <2>4. k = 1 \/ k \in 2 .. n + 1 \/ k \in n + 2 .. 1 + TextCap
      BY <1>1, Capacities
  <2>. QED
      BY <2>1, <2>2, <2>3, <2>4
<1>3. w = code
    BY <1>1, <1>2, SeqEqual
<1>. QED
    BY <1>3 DEF code

\* The wires of strings are the encodings of values.
LEMMA TextWires ==
    ASSUME codec = "string", NEW w \in Seq(Nat)
    PROVE  w \in {Canonical(value) : value \in Values} <=> TextWire(w)
<1>1. ASSUME NEW value \in Values, w = Canonical(value)
      PROVE  TextWire(w)
  <2>. DEFINE n == Len(value)
              body == [k \in 1 .. n |-> w[1 + k]]
  <2>1. /\ Len(w) = 1 + TextCap
        /\ n \in 0 .. TextCap /\ w[1] = n
        /\ \A k \in 1 .. n : w[1 + k] = value[k]
        /\ \A k \in n + 2 .. 1 + TextCap : w[k] = 0
      BY <1>1, TextEncoding
  <2>2. value \in Texts /\ value = [k \in 1 .. n |-> value[k]]
      BY TextValues
  <2>3. body = [k \in 1 .. n |-> value[k]]
      BY <2>1
  <2>4. body \in Texts
      BY <2>2, <2>3
  <2>. QED
      BY <2>1, <2>4 DEF TextWire
<1>2. ASSUME TextWire(w)
      PROVE  \E value \in Values : w = Canonical(value)
  <2>. DEFINE n == w[1]
              value == [k \in 1 .. n |-> w[1 + k]]
  <2>1. /\ n \in 0 .. TextCap /\ Len(w) = 1 + TextCap /\ value \in Texts
        /\ \A k \in n + 2 .. 1 + TextCap : w[k] = 0
      BY <1>2 DEF TextWire
  <2>2. n \in Nat /\ Len(value) = n
      BY <2>1, Capacities
  <2>3. \A k \in 1 .. n : w[1 + k] = value[k]
      OBVIOUS
  <2>. HIDE DEF n, value
  <2>4. value \in Values
      BY <2>1, <2>2, TextValues, Capacities
  <2>5. w = Canonical(value)
      BY <2>1, <2>2, <2>3, <2>4, TextWireIs DEF n
  <2>. QED
      BY <2>4, <2>5
<1>. QED
    BY <1>1, <1>2

\* What the writer of a valid string has to emit.
LEMMA ValidText ==
    ASSUME codec = "string", NEW c \in Stored, TextValid(c)
    PROVE  /\ c.len \in 0 .. TextCap
           /\ Logical(c) = Shown(c) /\ Logical(c) \in Values /\ Len(Shown(c)) = c.len
           /\ Shown(c) = [k \in 1 .. c.len |-> c.slots[k - 1]]
<1>1. c.len \in 0 .. TextCap /\ Text!Clamp(c.len) = c.len /\ TextCap \in Nat /\ c.len \in Nat
    BY Capacities DEF TextValid, Text!Valid, Text!Clamp, Text!DecodeLen, Stored
<1>2. Shown(c) = [k \in 1 .. c.len |-> c.slots[k - 1]]
    BY <1>1 DEF Shown, Text!Active
<1>3. Len(Shown(c)) = c.len
    BY <1>1, <1>2
<1>4. Shown(c) \in Values
    BY <1>1, <1>3, TextValues DEF TextValid
<1>. QED
    BY <1>1, <1>2, <1>3, <1>4 DEF Logical

\* The wires that readers have to accept.
CanonicalWire(w) == IF codec = "vec" THEN VecWire(w) ELSE TextWire(w)

\* They are the encodings of the values.
LEMMA CanonicalWires ==
    ASSUME codec \in {"vec", "string"}, NEW w \in Seq(Nat)
    PROVE  w \in {Canonical(value) : value \in Values} <=> CanonicalWire(w)
    BY VecWires, TextWires DEF CanonicalWire

-----------------------------------------------------------------------------
(* The invariant.                                                          *)

CodecTyped ==
    /\ codec \in {"vec", "string"}
    /\ call = At(call.pc, call.index, call.left, call.at)
    /\ wire \in Seq(Nat) /\ Len(wire) <= WireSize
    /\ call.pc = "idle" => wire = << >>
    /\ call.pc # "read" => target = << >>

\* The cells written so far are the first of the encoding.
Agrees(w, c) == Len(w) <= Len(c) /\ \A k \in 1 .. Len(w) : w[k] = c[k]

\* Where the writer is in the encoding.
WritePosition ==
    /\ call.pc \in {"prefix", "tag", "value"} => codec = "vec"
    /\ call.pc \in {"text_prefix", "text"} => codec = "string"
    /\ call.pc \in {"prefix", "text_prefix"} => wire = << >>
    /\ call.pc \in {"tag", "value"} => call.index \in 0 .. source.len - 1
    /\ call.pc = "tag" => Len(wire) = 1 + 2 * call.index
    /\ call.pc = "value" => Len(wire) = 2 + 2 * call.index
    /\ call.pc = "text" => Len(wire) = 1
    /\ call.pc = "padding" =>
         /\ call.left \in Nat /\ Len(wire) + call.left = WireSize
         /\ Len(wire) >= 1 + (IF codec = "vec" THEN 2 * source.len ELSE source.len)
    /\ call.pc = "written" => Len(wire) = WireSize

WriteInv ==
    Writing =>
        IF ValidSource
        THEN /\ call.pc # "rejected"
             /\ source \in IF codec = "vec" THEN Container ELSE Stored
             /\ Agrees(wire, Canonical(Logical(source)))
             /\ WritePosition
        ELSE call.pc = "rejected" /\ wire = << >>

\* What the reader of a vector has built from the cells it consumed.
Built ==
    LET n == wire[1]
        done == built.len
    IN  /\ call.at \in Nat /\ call.at <= Len(wire)
        /\ n \in 0 .. N /\ done \in 0 .. n
        /\ built \in Container
        /\ \A j \in 1 .. done :
             /\ PairValid(wire[2 * j], wire[2 * j + 1])
             /\ built.slots[j - 1] = [tag |-> wire[2 * j], value |-> wire[2 * j + 1]]
        /\ \A k \in done .. N - 1 : built.slots[k] = NoneOption
        /\ call.pc # "read_padding" =>
             call.index > 0 /\ call.index = n - done /\ call.left = (N - n) * 2
        /\ call.pc = "read_tag" => call.at = 1 + 2 * done
        /\ call.pc \in {"read_value", "read_none"} => call.at = 2 + 2 * done
        /\ call.pc = "read_value" => wire[call.at] = 1
        /\ call.pc = "read_none" => wire[call.at] = 0
        /\ call.pc = "read_padding" =>
             /\ done = n /\ call.left \in Nat /\ call.at + call.left = 1 + 2 * N
             /\ call.at >= 1 + 2 * n
             /\ \A k \in 2 * n + 2 .. call.at : wire[k] = 0

\* What a container read from a wire is.
IsRead(c) ==
    /\ wire = Canonical(Logical(c))
    /\ codec = "vec" => \A k \in Storage!Slot :
           c.slots[k].tag = 0 \/ k >= c.len => c.slots[k] = NoneOption
    /\ codec = "string" => \A k \in Text!Slot : k >= c.len => c.slots[k] = 0

ReadInv ==
    /\ call.pc = "read_prefix" => codec = "vec" /\ call.at = 0
    /\ call.pc = "read_text" => codec = "string" /\ call.at = 0
    /\ call.pc \in {"read_tag", "read_value", "read_none", "read_padding"} =>
         codec = "vec" /\ Built
    /\ call.pc \in {"refused", "eof"} => ~CanonicalWire(wire)
    /\ call.pc = "read" => CanonicalWire(wire) /\ target # << >> /\ IsRead(target[1])

CodecInv == CodecTyped /\ WriteInv /\ ReadInv

\* The source is fit to be written.
Fit(src) == IF codec = "string" THEN TextValid(src) ELSE Storage!Valid(src.len, src.slots)

\* What a step that keeps the codec makes of its source.
LEMMA Kept ==
    ASSUME codec' = codec, NEW src, source' = src
    PROVE  /\ ValidSource' <=> Fit(src)
           /\ Canonical(Logical(source))' = Canonical(Logical(src))
           /\ WireSize' = WireSize
<1>1. ValidSource' <=> Fit(src)
    BY Zenon DEF ValidSource, Fit
<1>2. WireSize' = WireSize
    BY Zenon DEF WireSize
<1>3. Logical(source)' = Logical(src)
    BY Zenon DEF Logical
<1>4. Canonical(Logical(source))' = Canonical(Logical(src))
    BY <1>2, <1>3, Zenon DEF Canonical
<1>. QED
    BY <1>1, <1>2, <1>4

\* A wire is judged by its cells and by the codec.
LEMMA KeptWire ==
    ASSUME codec' = codec, wire' = wire
    PROVE  /\ CanonicalWire(wire)' <=> CanonicalWire(wire)
           /\ WireSize' = WireSize
    BY Zenon DEF CanonicalWire, VecWire, TextWire, PairValid, WireSize

\* The encoding of a value fit to be written fills the wire.
LEMMA EncodingSize ==
    ASSUME codec \in {"vec", "string"}, NEW src, Fit(src),
           src \in IF codec = "vec" THEN Container ELSE Stored
    PROVE  LET c == Canonical(Logical(src))
           IN  /\ c \in Seq(Nat) /\ Len(c) = WireSize
               /\ WireSize \in Nat /\ WireSize >= 1
<1>1. CASE codec = "vec"
  <2>1. Logical(src) \in Values
      BY <1>1, ValidVec DEF Fit
  <2>2. WireSize = 1 + 2 * N
      BY <1>1, VecValues
  <2>. QED
      BY <1>1, <2>1, <2>2, VecEncoding, Capacities
<1>2. CASE codec = "string"
  <2>1. Logical(src) \in Values
      BY <1>2, ValidText DEF Fit
  <2>2. WireSize = 1 + TextCap
      BY <1>2, TextValues
  <2>. QED
      BY <1>2, <2>1, <2>2, TextEncoding, Capacities
<1>. QED
    BY <1>1, <1>2

\* The writer is in a call that it has not given up.
Underway == Writing /\ call.pc # "rejected"

\* What the invariant says of such a call.
LEMMA WriterFacts ==
    ASSUME CodecInv, Underway
    PROVE  /\ codec \in {"vec", "string"} /\ target = << >>
           /\ ValidSource /\ Fit(source)
           /\ source \in IF codec = "vec" THEN Container ELSE Stored
           /\ Agrees(wire, Canonical(Logical(source))) /\ WritePosition
           /\ Canonical(Logical(source)) \in Seq(Nat)
           /\ Len(Canonical(Logical(source))) = WireSize
           /\ WireSize \in Nat /\ WireSize >= 1
           /\ wire \in Seq(Nat) /\ Len(wire) \in Nat
<1>1. /\ codec \in {"vec", "string"} /\ target = << >> /\ wire \in Seq(Nat)
      /\ ValidSource
      /\ source \in IF codec = "vec" THEN Container ELSE Stored
      /\ Agrees(wire, Canonical(Logical(source))) /\ WritePosition
    BY DEF CodecInv, CodecTyped, WriteInv, Underway, Writing, WriteEnds
<1>2. Fit(source)
    BY <1>1 DEF ValidSource, Fit
<1>3. Len(wire) \in Nat
    BY <1>1
<1>. QED
    BY <1>1, <1>2, <1>3, EncodingSize

\* A call that goes on or ends with its wire still the start of the encoding.
LEMMA WriterGoesOn ==
    ASSUME CodecInv, Underway, UNCHANGED <<codec, source, target>>,
           call' = At(call'.pc, call'.index, call'.left, call'.at),
           call'.pc \in {"tag", "value", "text", "padding", "written", "full"},
           wire' \in Seq(Nat), Agrees(wire', Canonical(Logical(source))),
           WritePosition'
    PROVE  CodecInv'
<1>1. /\ ValidSource' <=> Fit(source)
      /\ Canonical(Logical(source))' = Canonical(Logical(source))
      /\ WireSize' = WireSize
    BY Kept
<1>2. Len(wire') <= WireSize
    BY WriterFacts DEF Agrees
<1>3. CodecTyped'
    BY <1>1, <1>2, WriterFacts DEF CodecTyped
<1>4. ValidSource' /\ source' \in IF codec' = "vec" THEN Container ELSE Stored
    BY <1>1, WriterFacts
<1>5. Agrees(wire, Canonical(Logical(source)))'
    BY <1>1 DEF Agrees
<1>6. WriteInv'
    BY <1>4, <1>5 DEF WriteInv
<1>7. ReadInv'
    BY DEF ReadInv
<1>. QED
    BY <1>3, <1>6, <1>7 DEF CodecInv

\* A call of the underlying writer with the cells that come next.
LEMMA Emission ==
    ASSUME CodecInv, Underway, NEW cells \in Seq(Nat), NEW next, Emit(cells, next),
           Len(wire) + Len(cells) <= WireSize,
           \A k \in 1 .. Len(cells) :
               cells[k] = Canonical(Logical(source))[Len(wire) + k],
           next = At(next.pc, next.index, next.left, next.at),
           next.pc \in {"tag", "value", "text", "padding"},
           call' = next /\ Len(wire') = Len(wire) + Len(cells) => WritePosition'
    PROVE  CodecInv'
<1>. DEFINE code == Canonical(Logical(source))
            w == wire \o cells
<1>1. /\ code \in Seq(Nat) /\ Len(code) = WireSize /\ WireSize \in Nat
      /\ wire \in Seq(Nat) /\ Len(wire) \in Nat /\ Len(cells) \in Nat
      /\ Agrees(wire, code)
    BY WriterFacts
<1>2. UNCHANGED <<codec, source, target>>
    BY DEF Emit
<1>3. CASE call' = Ended("full") /\ wire' = wire
  <2>1. WritePosition'
      BY <1>3 DEF WritePosition, Ended, At
  <2>2. call' = At(call'.pc, call'.index, call'.left, call'.at) /\ call'.pc = "full"
      BY <1>3 DEF Ended, At
  <2>. QED
      BY <1>1, <1>2, <1>3, <2>1, <2>2, WriterGoesOn
<1>4. CASE call' = next /\ wire' = w
  <2>1. /\ w \in Seq(Nat) /\ Len(w) = Len(wire) + Len(cells)
        /\ \A k \in 1 .. Len(wire) + Len(cells) :
               w[k] = IF k <= Len(wire) THEN wire[k] ELSE cells[k - Len(wire)]
      BY <1>1, ConcatProperties
  <2>. HIDE DEF w, code
  <2>2. ASSUME NEW k \in 1 .. Len(w) PROVE w[k] = code[k]
    <3>1. CASE k <= Len(wire)
      <4>1. k \in 1 .. Len(wire)
          BY <1>1, <2>1, <3>1
      <4>2. wire[k] = code[k]
          BY <1>1, <4>1 DEF Agrees
      <4>. QED
          BY <1>1, <2>1, <3>1, <4>1, <4>2
    <3>2. CASE ~(k <= Len(wire))
      <4>1. k - Len(wire) \in 1 .. Len(cells) /\ Len(wire) + (k - Len(wire)) = k
          BY <1>1, <2>1, <3>2
      <4>2. cells[k - Len(wire)] = code[Len(wire) + (k - Len(wire))]
          BY <4>1 DEF code
      <4>. QED
          BY <2>1, <3>2, <4>1, <4>2
    <3>. QED
        BY <3>1, <3>2
  <2>3. Agrees(w, code)
      BY <1>1, <2>1, <2>2 DEF Agrees
  <2>4. WritePosition'
      BY <1>4, <2>1
  <2>. QED
      BY <1>2, <1>4, <2>1, <2>3, <2>4, WriterGoesOn DEF code
<1>. QED
    BY <1>3, <1>4 DEF Emit

\* The codec starts idle.
LEMMA CodecInitInv == Init => CodecInv
<1>. SUFFICES ASSUME Init PROVE CodecInv
    OBVIOUS
<1>1. WireSize \in Nat
    BY Capacities DEF Init, WireSize, ElementSize
<1>2. CodecTyped
    BY <1>1 DEF Init, CodecTyped, Ended, At
<1>. QED
    BY <1>2 DEF Init, CodecInv, WriteInv, ReadInv, Ended, At, Writing, WriteEnds

-----------------------------------------------------------------------------
(* The steps of the writers.                                               *)

\* Where a call starts, or ends at once.
Start(src) ==
    CASE Fit(src) /\ codec = "vec" -> "prefix"
      [] Fit(src) /\ codec # "vec" -> "text_prefix"
      [] OTHER -> "rejected"

\* The start of a call.
LEMMA Started ==
    ASSUME CodecInv, call.pc = "idle", UNCHANGED <<codec, wire, target>>,
           NEW src, src \in IF codec = "vec" THEN Container ELSE Stored, source' = src,
           call' = At(Start(src), 0, 0, 0)
    PROVE  CodecInv'
<1>1. /\ ValidSource' <=> Fit(src)
      /\ Canonical(Logical(source))' = Canonical(Logical(src))
      /\ WireSize' = WireSize
    BY Kept
<1>2. /\ codec \in {"vec", "string"} /\ wire = << >> /\ target = << >>
      /\ wire \in Seq(Nat) /\ Len(wire) <= WireSize
    BY DEF CodecInv, CodecTyped
<1>. DEFINE pc == Start(src)
<1>3. /\ Fit(src) /\ codec = "vec" => pc = "prefix"
      /\ Fit(src) /\ codec = "string" => pc = "text_prefix"
      /\ ~Fit(src) => pc = "rejected"
    BY DEF Start
<1>4. call' = At(pc, 0, 0, 0)
    OBVIOUS
<1>. HIDE DEF pc
<1>5. pc \in {"prefix", "text_prefix", "rejected"}
    BY <1>2, <1>3
<1>6. call'.pc = pc /\ call' = At(call'.pc, call'.index, call'.left, call'.at)
  <2>1. call' = [pc |-> pc, index |-> 0, left |-> 0, at |-> 0]
      BY <1>4, Zenon DEF At
  <2>2. call'.pc = pc /\ call'.index = 0 /\ call'.left = 0 /\ call'.at = 0
      BY <2>1
  <2>. QED
      BY <1>4, <2>2
<1>7. CodecTyped'
    BY <1>1, <1>2, <1>5, <1>6 DEF CodecTyped
<1>8. Fit(src) => Agrees(wire, Canonical(Logical(source)))'
  <2>. DEFINE code == Canonical(Logical(src))
  <2>. SUFFICES ASSUME Fit(src) PROVE Agrees(<< >>, code)
      BY <1>1, <1>2 DEF Agrees
  <2>1. code \in Seq(Nat)
      BY <1>2, EncodingSize
  <2>. HIDE DEF code
  <2>2. Len(code) \in Nat
      BY <2>1
  <2>3. Len(<< >>) = 0
      OBVIOUS
  <2>. QED
      BY <2>2, <2>3 DEF Agrees
<1>9. WriteInv'
  <2>1. CASE Fit(src)
    <3>1. (codec = "vec" /\ pc = "prefix") \/ (codec = "string" /\ pc = "text_prefix")
        BY <1>2, <1>3, <2>1
    <3>2. WritePosition'
        BY <1>2, <1>6, <3>1 DEF WritePosition
    <3>. QED
        BY <1>1, <1>2, <1>6, <1>8, <2>1, <3>1, <3>2 DEF WriteInv
  <2>2. CASE ~Fit(src)
      BY <1>1, <1>2, <1>3, <1>6, <2>2 DEF WriteInv
  <2>. QED
      BY <2>1, <2>2
<1>10. ReadInv'
    BY <1>5, <1>6 DEF ReadInv
<1>. QED
    BY <1>7, <1>9, <1>10 DEF CodecInv

\* The up-front checks of the vector's writer are validate_ref.
LEMMA WriteInvariance ==
    ASSUME CodecInv, NEW src \in Container, NEW n, Write(src, n)
    PROVE  CodecInv'
<1>1. Accepts(src) <=> Storage!Valid(src.len, src.slots)
    BY Capacities DEF Accepts, Storage!Valid, Storage!DecodeLen, Container
<1>2. codec = "vec" /\ (Fit(src) <=> Accepts(src))
    BY <1>1 DEF Write, Fit
<1>3. /\ call.pc = "idle" /\ UNCHANGED <<codec, wire, target>> /\ source' = src
      /\ src \in IF codec = "vec" THEN Container ELSE Stored
    BY <1>2 DEF Write
<1>4. CASE Accepts(src)
  <2>1. call' = At("prefix", 0, 0, 0) /\ Start(src) = "prefix"
      BY <1>2, <1>4 DEF Write, Start
  <2>. QED
      BY <1>2, <1>3, <1>4, <2>1, Started
<1>5. CASE ~Accepts(src)
  <2>1. call' = At("rejected", 0, 0, 0) /\ Start(src) = "rejected"
      BY <1>2, <1>5 DEF Write, Ended, Start
  <2>. QED
      BY <1>2, <1>3, <1>5, <2>1, Started
<1>. QED
    BY <1>4, <1>5

LEMMA WriteTextInvariance ==
    ASSUME CodecInv, NEW text \in Stored, NEW n, WriteText(text, n)
    PROVE  CodecInv'
<1>1. TextValid(text) => Text!DecodeLen(text.len) <= TextCap
    BY Capacities DEF TextValid, Text!Valid, Text!DecodeLen, Stored
<1>2. codec = "string" /\ (Fit(text) <=> TextValid(text))
    BY DEF WriteText, Fit
<1>3. /\ call.pc = "idle" /\ UNCHANGED <<codec, wire, target>> /\ source' = text
      /\ text \in IF codec = "vec" THEN Container ELSE Stored
    BY <1>2 DEF WriteText
<1>4. CASE TextValid(text)
  <2>1. call' = At("text_prefix", 0, 0, 0) /\ Start(text) = "text_prefix"
      BY <1>1, <1>2, <1>4 DEF WriteText, Start
  <2>. QED
      BY <1>2, <1>3, <1>4, <2>1, Started
<1>5. CASE ~TextValid(text)
  <2>1. call' = At("rejected", 0, 0, 0) /\ Start(text) = "rejected"
      BY <1>2, <1>5 DEF WriteText, Ended, Start
  <2>. QED
      BY <1>2, <1>3, <1>5, <2>1, Started
<1>. QED
    BY <1>4, <1>5

\* The cells of a valid vector.
LEMMA VecSource ==
    ASSUME CodecInv, Underway, codec = "vec"
    PROVE  LET code == Canonical(Logical(source))
           IN  /\ source.len \in 0 .. N /\ source.len \in Nat /\ WireSize = 1 + 2 * N
               /\ code[1] = source.len
               /\ \A j \in 0 .. source.len - 1 :
                      /\ OptionValid(source.slots[j])
                      /\ source.slots[j].tag \in {0, 1}
                      /\ source.slots[j].tag = 1 => source.slots[j].value \in {0, 1}
                      /\ code[2 * j + 2] = source.slots[j].tag
                      /\ code[2 * j + 3] =
                             IF source.slots[j].tag = 1 THEN source.slots[j].value ELSE 0
               /\ \A k \in 2 * source.len + 2 .. 1 + 2 * N : code[k] = 0
<1>. DEFINE value == Logical(source)
            code == Canonical(value)
<1>1. source \in Container /\ Storage!Valid(source.len, source.slots)
    BY WriterFacts DEF Fit
<1>2. /\ source.len \in 0 .. N
      /\ \A j \in 0 .. source.len - 1 :
             /\ source.slots[j] \in Option /\ OptionValid(source.slots[j])
             /\ source.slots[j].tag \in {0, 1}
             /\ source.slots[j].tag = 1 => source.slots[j].value \in {0, 1}
      /\ value \in Values /\ Len(value) = source.len
      /\ \A j \in 1 .. source.len :
             /\ ElementBytes(value[j])[1] = source.slots[j - 1].tag
             /\ ElementBytes(value[j])[2] =
                    IF source.slots[j - 1].tag = 1 THEN source.slots[j - 1].value ELSE 0
    BY <1>1, ValidVec
<1>. HIDE DEF value
<1>3. /\ code[1] = source.len
      /\ \A j \in 1 .. source.len : code[2 * j] = ElementBytes(value[j])[1]
      /\ \A j \in 1 .. source.len : code[2 * j + 1] = ElementBytes(value[j])[2]
      /\ \A k \in 2 * source.len + 2 .. 1 + 2 * N : code[k] = 0
    BY <1>2, VecEncoding
<1>. HIDE DEF code
<1>4. source.len \in Nat /\ N \in Nat
    BY <1>2, Capacities
<1>5. ASSUME NEW j \in 0 .. source.len - 1
      PROVE  /\ code[2 * j + 2] = source.slots[j].tag
             /\ code[2 * j + 3] = IF source.slots[j].tag = 1 THEN source.slots[j].value ELSE 0
  <2>1. /\ j + 1 \in 1 .. source.len /\ 2 * (j + 1) = 2 * j + 2
        /\ 2 * (j + 1) + 1 = 2 * j + 3 /\ (j + 1) - 1 = j
      BY <1>4
  <2>2. /\ code[2 * (j + 1)] = ElementBytes(value[j + 1])[1]
        /\ code[2 * (j + 1) + 1] = ElementBytes(value[j + 1])[2]
        /\ ElementBytes(value[j + 1])[1] = source.slots[(j + 1) - 1].tag
        /\ ElementBytes(value[j + 1])[2] =
               IF source.slots[(j + 1) - 1].tag = 1 THEN source.slots[(j + 1) - 1].value ELSE 0
      BY <1>2, <1>3, <2>1
  <2>. QED
      BY <2>1, <2>2
<1>6. WireSize = 1 + 2 * N
    BY VecValues
<1>. QED
    BY <1>2, <1>3, <1>4, <1>5, <1>6 DEF code, value

\* Where the writer is before an element, or before the padding.
LEMMA NextElementPosition ==
    ASSUME codec = "vec", source.len \in 0 .. N, NEW i \in 0 .. source.len,
           codec' = codec, source' = source, call' = NextElement(i),
           Len(wire') = 1 + 2 * i
    PROVE  WritePosition'
<1>. DEFINE n == source.len
<1>1. n \in Nat /\ i \in Nat /\ N \in Nat
    BY Capacities
<1>2. WireSize' = 1 + 2 * N
    BY Capacities DEF WireSize, ElementSize
<1>3. CASE i < n
  <2>1. call' = At("tag", i, 0, 0)
      BY <1>3 DEF NextElement
  <2>. QED
      BY <1>1, <1>3, <2>1 DEF WritePosition, At
<1>4. CASE ~(i < n)
  <2>1. i = n /\ call' = At("padding", 0, (N - n) * 2, 0)
      BY <1>1, <1>4 DEF NextElement, ElementSize
  <2>2. call'.pc = "padding" /\ call'.left = 2 * N - 2 * n /\ source'.len = n /\ codec' = "vec"
      BY <1>1, <2>1 DEF At
  <2>3. /\ call'.left \in Nat /\ Len(wire') + call'.left = WireSize'
        /\ Len(wire') >= 1 + 2 * source'.len
    <3>. HIDE DEF n
    <3>1. n <= N
        BY DEF n
    <3>. QED
        BY <1>1, <1>2, <2>1, <2>2, <3>1
  <2>. QED
      BY <2>2, <2>3 DEF WritePosition
<1>. QED
    BY <1>3, <1>4

LEMMA WritePrefixInvariance ==
    ASSUME CodecInv, WritePrefix
    PROVE  CodecInv'
<1>. DEFINE cells == <<source.len>>
            next == NextElement(0)
<1>1. Underway /\ call.pc = "prefix" /\ Emit(cells, next)
    BY DEF WritePrefix, Underway, Writing
<1>2. codec = "vec" /\ wire = << >>
    BY <1>1, WriterFacts DEF WritePosition
<1>3. /\ source.len \in 0 .. N /\ source.len \in Nat
      /\ Canonical(Logical(source))[1] = source.len /\ WireSize >= 1
    BY <1>1, <1>2, VecSource, WriterFacts
<1>4. cells \in Seq(Nat) /\ Len(cells) = 1 /\ cells[1] = source.len
    BY <1>3
<1>5. Len(wire) = 0 /\ \A k \in 1 .. 1 : k = 1 /\ 0 + k = 1
    BY <1>2
<1>6. next = At(next.pc, next.index, next.left, next.at) /\ next.pc \in {"tag", "padding"}
    BY DEF NextElement, At
<1>7. UNCHANGED <<codec, source>>
    BY <1>1 DEF Emit
<1>. HIDE DEF cells
<1>8. call' = next /\ Len(wire') = Len(wire) + Len(cells) => WritePosition'
    BY <1>2, <1>3, <1>4, <1>5, <1>7, NextElementPosition
<1>. HIDE DEF next
<1>9. \A k \in 1 .. Len(cells) : cells[k] = Canonical(Logical(source))[Len(wire) + k]
    BY <1>3, <1>4, <1>5
<1>10. Len(wire) + Len(cells) <= WireSize
    BY <1>1, <1>4, <1>5, WriterFacts
<1>. QED
    BY <1>1, <1>4, <1>6, <1>8, <1>9, <1>10, Emission

LEMMA WriteTagInvariance ==
    ASSUME CodecInv, WriteTag
    PROVE  CodecInv'
<1>. DEFINE i == call.index
            option == source.slots[i]
            cells == <<option.tag>>
            next == [call EXCEPT !.pc = "value"]
<1>1. Underway /\ call.pc = "tag"
    BY DEF WriteTag, Underway, Writing
<1>2. codec = "vec" /\ i \in 0 .. source.len - 1 /\ Len(wire) = 1 + 2 * i
    BY <1>1, WriterFacts DEF WritePosition
<1>3. /\ source.len \in 0 .. N /\ source.len \in Nat /\ WireSize = 1 + 2 * N /\ N \in Nat
      /\ OptionValid(option) /\ option.tag \in {0, 1}
      /\ Canonical(Logical(source))[2 * i + 2] = option.tag
    BY <1>1, <1>2, VecSource, Capacities
<1>4. Emit(cells, next)
    BY <1>3 DEF WriteTag
<1>5. cells \in Seq(Nat) /\ Len(cells) = 1 /\ cells[1] = option.tag
    BY <1>3
<1>6. next = At("value", i, call.left, call.at)
    BY DEF CodecInv, CodecTyped, At
<1>7. UNCHANGED <<codec, source>>
    BY <1>4 DEF Emit
<1>. HIDE DEF cells, next, option, i
<1>8. next.pc = "value" /\ next.index = i /\ next = At(next.pc, next.index, next.left, next.at)
    BY <1>6 DEF At
<1>9. call' = next /\ Len(wire') = Len(wire) + Len(cells) => WritePosition'
  <2>. SUFFICES ASSUME call' = next, Len(wire') = Len(wire) + Len(cells) PROVE WritePosition'
      OBVIOUS
  <2>1. /\ codec' = "vec" /\ call'.pc = "value"
        /\ call'.index \in 0 .. source'.len - 1 /\ Len(wire') = 2 + 2 * call'.index
      BY <1>2, <1>3, <1>5, <1>7, <1>8
  <2>. QED
      BY <2>1 DEF WritePosition
<1>10. \A k \in 1 .. Len(cells) : cells[k] = Canonical(Logical(source))[Len(wire) + k]
  <2>1. \A k \in 1 .. 1 : k = 1 /\ Len(wire) + k = 2 * i + 2
      BY <1>2, <1>3
  <2>. QED
      BY <1>3, <1>5, <2>1
<1>11. Len(wire) + Len(cells) <= WireSize
    BY <1>2, <1>3, <1>5
<1>. QED
    BY <1>1, <1>4, <1>5, <1>8, <1>9, <1>10, <1>11, Emission

LEMMA WriteValueInvariance ==
    ASSUME CodecInv, WriteValue
    PROVE  CodecInv'
<1>. DEFINE i == call.index
            option == source.slots[i]
            byte == IF option.tag = 1 THEN option.value ELSE 0
            cells == <<byte>>
            next == NextElement(i + 1)
<1>1. Underway /\ call.pc = "value"
    BY DEF WriteValue, Underway, Writing
<1>2. codec = "vec" /\ i \in 0 .. source.len - 1 /\ Len(wire) = 2 + 2 * i
    BY <1>1, WriterFacts DEF WritePosition
<1>3. /\ source.len \in 0 .. N /\ source.len \in Nat /\ WireSize = 1 + 2 * N /\ N \in Nat
      /\ OptionValid(option)
      /\ option.tag = 1 => option.value \in {0, 1}
      /\ Canonical(Logical(source))[2 * i + 3] = byte
    BY <1>1, <1>2, VecSource, Capacities
<1>4. Emit(cells, next)
    BY <1>3 DEF WriteValue, BoolValid
<1>5. byte \in Nat
    BY <1>3
<1>. HIDE DEF byte, option
<1>6. cells \in Seq(Nat) /\ Len(cells) = 1 /\ cells[1] = byte
    BY <1>5
<1>7. next = At(next.pc, next.index, next.left, next.at) /\ next.pc \in {"tag", "padding"}
    BY DEF NextElement, At
<1>8. UNCHANGED <<codec, source>>
    BY <1>4 DEF Emit
<1>. HIDE DEF cells, i
<1>9. call' = next /\ Len(wire') = Len(wire) + Len(cells) => WritePosition'
  <2>. SUFFICES ASSUME call' = next, Len(wire') = Len(wire) + Len(cells) PROVE WritePosition'
      OBVIOUS
  <2>1. i + 1 \in 0 .. source.len /\ Len(wire') = 1 + 2 * (i + 1)
      BY <1>2, <1>3, <1>6
  <2>. QED
      BY <1>2, <1>3, <1>8, <2>1, NextElementPosition
<1>. HIDE DEF next
<1>10. \A k \in 1 .. Len(cells) : cells[k] = Canonical(Logical(source))[Len(wire) + k]
  <2>1. \A k \in 1 .. 1 : k = 1 /\ Len(wire) + k = 2 * i + 3
      BY <1>2, <1>3
  <2>. QED
      BY <1>3, <1>6, <2>1
<1>11. Len(wire) + Len(cells) <= WireSize
    BY <1>2, <1>3, <1>6
<1>. QED
    BY <1>1, <1>4, <1>6, <1>7, <1>9, <1>10, <1>11, Emission

\* The cells of a valid string.
LEMMA TextSource ==
    ASSUME CodecInv, Underway, codec = "string"
    PROVE  LET code == Canonical(Logical(source))
           IN  /\ source.len \in 0 .. TextCap /\ source.len \in Nat /\ WireSize = 1 + TextCap
               /\ code[1] = source.len
               /\ Shown(source) \in Seq(Nat) /\ Len(Shown(source)) = source.len
               /\ \A k \in 1 .. source.len : code[1 + k] = Shown(source)[k]
               /\ \A k \in source.len + 2 .. 1 + TextCap : code[k] = 0
<1>1. source \in Stored /\ TextValid(source)
    BY WriterFacts DEF Fit
<1>2. /\ source.len \in 0 .. TextCap /\ Len(Shown(source)) = source.len
      /\ Logical(source) = Shown(source) /\ Shown(source) \in Values
    BY <1>1, ValidText
<1>3. Shown(source) \in Seq(Nat) /\ WireSize = 1 + TextCap
    BY <1>2, TextValues
<1>4. source.len \in Nat
    BY <1>2, Capacities
<1>5. /\ Canonical(Shown(source))[1] = source.len
      /\ \A k \in 1 .. source.len : Canonical(Shown(source))[1 + k] = Shown(source)[k]
      /\ \A k \in source.len + 2 .. 1 + TextCap : Canonical(Shown(source))[k] = 0
    BY <1>2, TextEncoding
<1>. QED
    BY <1>2, <1>3, <1>4, <1>5

LEMMA WriteTextPrefixInvariance ==
    ASSUME CodecInv, WriteTextPrefix
    PROVE  CodecInv'
<1>. DEFINE cells == <<source.len>>
            next == At("text", 0, 0, 0)
<1>1. Underway /\ call.pc = "text_prefix" /\ Emit(cells, next)
    BY DEF WriteTextPrefix, Underway, Writing
<1>2. codec = "string" /\ wire = << >>
    BY <1>1, WriterFacts DEF WritePosition
<1>3. /\ source.len \in Nat /\ Canonical(Logical(source))[1] = source.len /\ WireSize \in Nat /\ WireSize >= 1
    BY <1>1, <1>2, TextSource, WriterFacts
<1>4. cells \in Seq(Nat) /\ Len(cells) = 1 /\ cells[1] = source.len
    BY <1>3
<1>5. Len(wire) = 0 /\ \A k \in 1 .. 1 : k = 1 /\ 0 + k = 1
    BY <1>2
<1>6. next = At(next.pc, next.index, next.left, next.at) /\ next.pc = "text"
    BY DEF At
<1>7. UNCHANGED <<codec, source>>
    BY <1>1 DEF Emit
<1>. HIDE DEF cells, next
<1>8. call' = next /\ Len(wire') = Len(wire) + Len(cells) => WritePosition'
  <2>. SUFFICES ASSUME call' = next, Len(wire') = Len(wire) + Len(cells) PROVE WritePosition'
      OBVIOUS
  <2>1. codec' = "string" /\ call'.pc = "text" /\ Len(wire') = 1
      BY <1>2, <1>4, <1>5, <1>6, <1>7
  <2>. QED
      BY <2>1 DEF WritePosition
<1>9. \A k \in 1 .. Len(cells) : cells[k] = Canonical(Logical(source))[Len(wire) + k]
    BY <1>3, <1>4, <1>5
<1>10. Len(wire) + Len(cells) <= WireSize
    BY <1>3, <1>4, <1>5
<1>. QED
    BY <1>1, <1>4, <1>6, <1>8, <1>9, <1>10, Emission

LEMMA WriteTextBytesInvariance ==
    ASSUME CodecInv, WriteTextBytes
    PROVE  CodecInv'
<1>. DEFINE cells == Shown(source)
            next == At("padding", 0, TextCap - source.len, 0)
            n == source.len
<1>1. Underway /\ call.pc = "text" /\ Emit(cells, next)
    BY DEF WriteTextBytes, Underway, Writing
<1>2. codec = "string" /\ Len(wire) = 1
    BY <1>1, WriterFacts DEF WritePosition
<1>3. /\ n \in 0 .. TextCap /\ n \in Nat /\ WireSize = 1 + TextCap
      /\ cells \in Seq(Nat) /\ Len(cells) = n
      /\ \A k \in 1 .. n : Canonical(Logical(source))[1 + k] = cells[k]
    BY <1>1, <1>2, TextSource
<1>4. /\ next = At(next.pc, next.index, next.left, next.at) /\ next.pc = "padding"
      /\ next.left = TextCap - n
    BY DEF At
<1>5. UNCHANGED <<codec, source>> /\ WireSize' = WireSize /\ source'.len = n
    BY <1>1 DEF Emit, WireSize
<1>. HIDE DEF cells, next, n
<1>6. call' = next /\ Len(wire') = Len(wire) + Len(cells) => WritePosition'
  <2>. SUFFICES ASSUME call' = next, Len(wire') = Len(wire) + Len(cells) PROVE WritePosition'
      OBVIOUS
  <2>1. call'.pc = "padding" /\ call'.left = TextCap - n /\ codec' = "string"
      BY <1>2, <1>4, <1>5
  <2>2. /\ call'.left \in Nat /\ Len(wire') + call'.left = WireSize'
        /\ Len(wire') >= 1 + source'.len
      BY <1>2, <1>3, <1>5, <2>1, Capacities
  <2>. QED
      BY <2>1, <2>2 DEF WritePosition
<1>7. Len(wire) + Len(cells) <= WireSize
    BY <1>2, <1>3, Capacities
<1>8. \A k \in 1 .. Len(cells) : cells[k] = Canonical(Logical(source))[Len(wire) + k]
    BY <1>2, <1>3
<1>. QED
    BY <1>1, <1>3, <1>4, <1>6, <1>7, <1>8, Emission

LEMMA WritePaddingInvariance ==
    ASSUME CodecInv, WritePadding
    PROVE  CodecInv'
<1>. DEFINE count == Least(call.left, Chunk)
            cells == Zeros(count)
            next == [call EXCEPT !.left = @ - count]
            start == 1 + (IF codec = "vec" THEN 2 * source.len ELSE source.len)
            code == Canonical(Logical(source))
<1>1. Underway /\ call.pc = "padding"
    BY DEF WritePadding, Underway, Writing
<1>2. /\ call.left \in Nat /\ Len(wire) + call.left = WireSize /\ Len(wire) >= start
      /\ wire \in Seq(Nat) /\ Len(wire) \in Nat /\ WireSize \in Nat
      /\ Agrees(wire, code) /\ codec \in {"vec", "string"}
    BY <1>1, WriterFacts DEF WritePosition
<1>3. start \in Nat /\ \A k \in start + 1 .. WireSize : code[k] = 0
  <2>. HIDE DEF code
  <2>1. CASE codec = "vec"
    <3>1. /\ source.len \in Nat /\ WireSize = 1 + 2 * N
          /\ \A k \in 2 * source.len + 2 .. 1 + 2 * N : code[k] = 0
        BY <1>1, <2>1, VecSource DEF code
    <3>2. start = 1 + 2 * source.len
        BY <2>1
    <3>. HIDE DEF start
    <3>. QED
        BY <3>1, <3>2
  <2>2. CASE codec = "string"
    <3>1. /\ source.len \in Nat /\ WireSize = 1 + TextCap
          /\ \A k \in source.len + 2 .. 1 + TextCap : code[k] = 0
        BY <1>1, <2>2, TextSource DEF code
    <3>2. start = 1 + source.len
        BY <2>2
    <3>. HIDE DEF start
    <3>. QED
        BY <3>1, <3>2
  <2>. QED
      BY <1>2, <2>1, <2>2
<1>4. CASE call.left = 0
  <2>1. call' = Ended("written") /\ UNCHANGED <<codec, source, wire, target>>
      BY <1>4 DEF WritePadding
  <2>2. call' = At(call'.pc, call'.index, call'.left, call'.at) /\ call'.pc = "written"
      BY <2>1 DEF Ended, At
  <2>3. WireSize' = WireSize /\ Len(wire) = WireSize
      BY <1>2, <1>4, <2>1 DEF WireSize
  <2>4. WritePosition'
      BY <2>1, <2>2, <2>3 DEF WritePosition
  <2>. QED
      BY <1>1, <1>2, <2>1, <2>2, <2>4, WriterGoesOn
<1>5. CASE call.left # 0
  <2>1. Emit(cells, next)
      BY <1>5 DEF WritePadding
  <2>2. count \in Nat /\ count <= call.left
      BY <1>2, Capacities DEF Least
  <2>3. cells \in Seq(Nat) /\ Len(cells) = count /\ \A k \in 1 .. count : cells[k] = 0
      BY <2>2 DEF Zeros
  <2>4. next = At("padding", call.index, call.left - count, call.at)
      BY <1>1 DEF CodecInv, CodecTyped, At
  <2>5. UNCHANGED <<codec, source>> /\ WireSize' = WireSize
      BY <2>1 DEF Emit, WireSize
  <2>. HIDE DEF cells, next, count, code
  <2>6. /\ next.pc = "padding" /\ next.left = call.left - count
        /\ next = At(next.pc, next.index, next.left, next.at)
      BY <2>4 DEF At
  <2>7. call' = next /\ Len(wire') = Len(wire) + Len(cells) => WritePosition'
    <3>. SUFFICES ASSUME call' = next, Len(wire') = Len(wire) + Len(cells) PROVE WritePosition'
        OBVIOUS
    <3>1. start' = start
        BY <2>5
    <3>. HIDE DEF start
    <3>2. call'.pc = "padding" /\ call'.left = call.left - count
        BY <2>6
    <3>3. /\ call'.left \in Nat /\ Len(wire') + call'.left = WireSize' /\ Len(wire') >= start'
        BY <1>2, <1>3, <2>2, <2>3, <2>5, <3>1, <3>2
    <3>. QED
        BY <3>2, <3>3 DEF WritePosition, start
  <2>. HIDE DEF start
  <2>8. Len(wire) + Len(cells) <= WireSize
      BY <1>2, <2>2, <2>3
  <2>9. \A k \in 1 .. Len(cells) : cells[k] = code[Len(wire) + k]
    <3>1. \A k \in 1 .. count : Len(wire) + k \in start + 1 .. WireSize
        BY <1>2, <1>3, <2>2
    <3>. QED
        BY <1>3, <2>3, <3>1
  <2>. QED
      BY <1>1, <2>1, <2>3, <2>6, <2>7, <2>8, <2>9, Emission DEF code
<1>. QED
    BY <1>4, <1>5

-----------------------------------------------------------------------------
(* The steps of the readers.                                               *)

LEMMA ReceiveInvariance ==
    ASSUME CodecInv, NEW prefix \in 0 .. PrefixMax, NEW n \in 0 .. WireSize - 1,
           NEW rest \in [1 .. n -> Byte], Receive(<<prefix>> \o rest)
    PROVE  CodecInv'
<1>. DEFINE cells == <<prefix>> \o rest
            head == <<prefix>>
<1>1. WireSize \in Nat /\ n \in Nat /\ prefix \in Nat
    BY Capacities DEF WireSize, ElementSize
<1>2. rest \in [1 .. n -> Nat]
    BY Capacities
<1>3. rest \in Seq(Nat) /\ Len(rest) = n
    BY <1>1, <1>2
<1>4. head \in Seq(Nat) /\ Len(head) = 1
    BY <1>1
<1>. HIDE DEF head
<1>5. head \o rest \in Seq(Nat) /\ Len(head \o rest) = 1 + n
    BY <1>3, <1>4, ConcatProperties
<1>6. cells \in Seq(Nat) /\ Len(cells) <= WireSize
  <2>1. Len(cells) = 1 + n /\ cells \in Seq(Nat)
      BY <1>5 DEF head
  <2>. HIDE DEF cells
  <2>. QED
      BY <1>1, <2>1
<1>7. /\ call.pc = "idle" /\ wire' = cells /\ call' = Ended("received")
      /\ UNCHANGED <<codec, source, target>>
    BY DEF Receive
<1>. HIDE DEF cells
<1>8. WireSize' = WireSize
    BY <1>7 DEF WireSize
<1>9. call'.pc = "received" /\ call' = At(call'.pc, call'.index, call'.left, call'.at)
    BY <1>7 DEF Ended, At
<1>10. CodecTyped'
    BY <1>6, <1>7, <1>8, <1>9 DEF CodecInv, CodecTyped
<1>. QED
    BY <1>9, <1>10 DEF CodecInv, WriteInv, ReadInv, Writing, WriteEnds

\* A call of a reader is not a call of a writer.
ReaderPlaces == {"read_prefix", "read_text", "read_tag", "read_value", "read_none",
                 "read_padding", "read", "refused", "eof"}

\* What a reader keeps, and what it must establish.
LEMMA ReaderGoesOn ==
    ASSUME CodecInv, UNCHANGED <<codec, wire>>,
           call' = At(call'.pc, call'.index, call'.left, call'.at),
           call'.pc \in ReaderPlaces, call'.pc # "read" => target' = << >>,
           ReadInv'
    PROVE  CodecInv'
<1>1. WireSize' = WireSize
    BY DEF WireSize
<1>2. CodecTyped'
    BY <1>1 DEF CodecInv, CodecTyped, ReaderPlaces
<1>3. WriteInv'
    BY DEF WriteInv, Writing, WriteEnds, ReaderPlaces
<1>. QED
    BY <1>2, <1>3 DEF CodecInv

LEMMA ReadInvariance ==
    ASSUME CodecInv, Read
    PROVE  CodecInv'
<1>1. CASE codec = "vec"
  <2>1. call' = At("read_prefix", 0, 0, 0) /\ UNCHANGED <<codec, wire, target>>
      BY <1>1 DEF Read
  <2>2. /\ call'.pc = "read_prefix" /\ call'.at = 0
        /\ call' = At(call'.pc, call'.index, call'.left, call'.at)
      BY <2>1 DEF At
  <2>3. ReadInv' /\ target = << >>
      BY <1>1, <2>1, <2>2 DEF ReadInv, Read, CodecInv, CodecTyped
  <2>. QED
      BY <2>1, <2>2, <2>3, ReaderGoesOn DEF ReaderPlaces
<1>2. CASE codec = "string"
  <2>1. call' = At("read_text", 0, 0, 0) /\ UNCHANGED <<codec, wire, target>>
      BY <1>2 DEF Read
  <2>2. /\ call'.pc = "read_text" /\ call'.at = 0
        /\ call' = At(call'.pc, call'.index, call'.left, call'.at)
      BY <2>1 DEF At
  <2>3. ReadInv' /\ target = << >>
      BY <1>2, <2>1, <2>2 DEF ReadInv, Read, CodecInv, CodecTyped
  <2>. QED
      BY <2>1, <2>2, <2>3, ReaderGoesOn DEF ReaderPlaces
<1>. QED
    BY <1>1, <1>2 DEF CodecInv, CodecTyped

LEMMA ForgetInvariance ==
    ASSUME CodecInv, Forget
    PROVE  CodecInv'
<1>1. call' = Ended("idle") /\ wire' = << >> /\ target' = << >> /\ codec' = codec
    BY DEF Forget
<1>2. call'.pc = "idle" /\ call' = At(call'.pc, call'.index, call'.left, call'.at)
    BY <1>1 DEF Ended, At
<1>3. WireSize' \in Nat
    BY <1>1, Capacities DEF WireSize, ElementSize
<1>4. wire' \in Seq(Nat) /\ Len(wire') = 0
    BY <1>1
<1>5. CodecTyped'
    BY <1>1, <1>2, <1>3, <1>4 DEF CodecInv, CodecTyped
<1>. QED
    BY <1>2, <1>5 DEF CodecInv, WriteInv, ReadInv, Writing, WriteEnds

\* A reader that gives up has seen that the wire encodes nothing.
LEMMA FailInvariance ==
    ASSUME CodecInv, call.pc \in ReaderPlaces, call.pc # "read",
           NEW error \in {"refused", "eof"}, Fail(error), ~CanonicalWire(wire)
    PROVE  CodecInv'
<1>1. call' = Ended(error) /\ UNCHANGED <<codec, wire, target>>
    BY DEF Fail
<1>2. call'.pc = error /\ call' = At(call'.pc, call'.index, call'.left, call'.at)
    BY <1>1 DEF Ended, At
<1>3. ~CanonicalWire(wire)'
    BY <1>1, KeptWire
<1>4. ReadInv' /\ target = << >>
    BY <1>2, <1>3 DEF ReadInv, CodecInv, CodecTyped
<1>. QED
    BY <1>1, <1>2, <1>4, ReaderGoesOn DEF ReaderPlaces

\* Cells taken from the wire.
LEMMA TakenCells ==
    ASSUME NEW w \in Seq(Nat), NEW at \in Nat, NEW n \in Nat, at + n <= Len(w)
    PROVE  LET cells == SubSeq(w, at + 1, at + n)
           IN  /\ cells \in Seq(Nat) /\ Len(cells) = n
               /\ \A k \in 1 .. n : cells[k] = w[at + k]
<1>. DEFINE cells == SubSeq(w, at + 1, at + n)
<1>1. at + 1 \in 1 .. Len(w) + 1 /\ at + n \in 0 .. Len(w)
    BY LenProperties
<1>2. /\ cells \in Seq(Nat)
      /\ Len(cells) = IF at + 1 <= at + n THEN (at + n) - (at + 1) + 1 ELSE 0
      /\ \A k \in 1 .. (at + n) - (at + 1) + 1 : cells[k] = w[(at + 1) + k - 1]
    BY <1>1, SubSeqProperties
<1>. HIDE DEF cells
<1>3. Len(cells) = n /\ (at + n) - (at + 1) + 1 = n
    BY <1>2
<1>4. \A k \in 1 .. n : (at + 1) + k - 1 = at + k
    OBVIOUS
<1>. QED
    BY <1>2, <1>3, <1>4 DEF cells

\* The reader of a vector is at work.
LEMMA ReaderFacts ==
    ASSUME CodecInv, call.pc \in {"read_tag", "read_value", "read_none", "read_padding"}
    PROVE  /\ codec = "vec" /\ Built /\ target = << >>
           /\ wire \in Seq(Nat) /\ Len(wire) \in Nat /\ Len(wire) <= 1 + 2 * N
           /\ wire[1] \in 0 .. N /\ wire[1] \in Nat /\ N \in Nat
           /\ built.len \in 0 .. wire[1] /\ built.len \in Nat
           /\ call.at \in Nat /\ call.at <= Len(wire)
           /\ call = At(call.pc, call.index, call.left, call.at)
<1>1. /\ codec = "vec" /\ Built /\ target = << >>
      /\ wire \in Seq(Nat) /\ Len(wire) <= WireSize
      /\ call = At(call.pc, call.index, call.left, call.at)
    BY DEF CodecInv, CodecTyped, ReadInv
<1>2. WireSize = 1 + 2 * N
    BY <1>1, VecValues
<1>3. /\ wire[1] \in 0 .. N /\ built.len \in 0 .. wire[1]
      /\ call.at \in Nat /\ call.at <= Len(wire)
    BY <1>1 DEF Built
<1>4. Len(wire) \in Nat /\ N \in Nat
    BY <1>1, Capacities
<1>. QED
    BY <1>1, <1>2, <1>3, <1>4

\* The wire of a vector is long enough for its length.
LEMMA ReadPrefixInvariance ==
    ASSUME CodecInv, ReadPrefix
    PROVE  CodecInv'
<1>. DEFINE cells == SubSeq(wire, call.at + 1, call.at + 1)
            n == cells[1]
<1>1. /\ call.pc = "read_prefix" /\ codec = "vec" /\ call.at = 0
      /\ wire \in Seq(Nat) /\ target = << >>
    BY DEF ReadPrefix, CodecInv, CodecTyped, ReadInv
<1>2. Len(wire) \in Nat /\ N \in Nat
    BY <1>1, Capacities
<1>3. IF call.at + 1 > Len(wire) THEN Fail("eof")
      ELSE IF n > UsizeMax \/ n > N THEN Fail("refused")
      ELSE /\ call' = NextRead(n, (N - n) * ElementSize, 1) /\ built' = Default
           /\ UNCHANGED <<codec, source, room, wire, target>>
    BY DEF ReadPrefix, Consume
<1>4. ASSUME call.at + 1 > Len(wire) PROVE CodecInv'
  <2>1. ~CanonicalWire(wire)
      BY <1>1, <1>2, <1>4 DEF CanonicalWire, VecWire
  <2>. QED
      BY <1>1, <1>3, <1>4, <2>1, FailInvariance DEF ReaderPlaces
<1>5. ASSUME ~(call.at + 1 > Len(wire)) PROVE CodecInv'
  <2>1. n = wire[1] /\ n \in Nat
    <3>1. 0 + 1 <= Len(wire) /\ 0 \in Nat /\ 1 \in Nat /\ 0 + 1 = 1 /\ 1 \in 1 .. 1
        BY <1>1, <1>2, <1>5
    <3>2. Len(cells) = 1 /\ \A k \in 1 .. 1 : cells[k] = wire[0 + k]
        BY <1>1, <3>1, TakenCells
    <3>3. wire[1] \in Nat
        BY <1>1, <1>2, <3>1
    <3>. HIDE DEF cells
    <3>. QED
        BY <3>1, <3>2, <3>3
  <2>. HIDE DEF n
  <2>2. CASE n > UsizeMax \/ n > N
    <3>1. ~CanonicalWire(wire)
        BY <1>1, <1>2, <2>1, <2>2, Capacities DEF CanonicalWire, VecWire
    <3>. QED
        BY <1>1, <1>3, <1>5, <2>2, <3>1, FailInvariance DEF ReaderPlaces
  <2>3. CASE ~(n > UsizeMax \/ n > N)
    <3>1. /\ call' = NextRead(n, (N - n) * ElementSize, 1) /\ built' = Default
          /\ UNCHANGED <<codec, source, room, wire, target>>
        BY <1>3, <1>5, <2>3
    <3>2. n \in 0 .. N
        BY <1>2, <2>1, <2>3
    <3>3. /\ built' \in Container /\ built'.len = 0
          /\ \A k \in 0 .. N - 1 : built'.slots[k] = NoneOption
        BY <3>1, Capacities DEF Default, Container, Option, NoneOption, Storage!Slot
    <3>4. /\ call' = At(call'.pc, call'.index, call'.left, call'.at) /\ call'.at = 1
          /\ call'.left = (N - n) * 2
          /\ n > 0 => call'.pc = "read_tag" /\ call'.index = n
          /\ ~(n > 0) => call'.pc = "read_padding"
        BY <3>1 DEF NextRead, At, ElementSize
    <3>5. /\ \A k \in 2 * n + 2 .. 1 : FALSE
          /\ \A j \in 1 .. 0 : FALSE
          /\ n - 0 = n /\ 0 \in 0 .. n /\ 1 + 2 * 0 = 1
          /\ (N - n) * 2 \in Nat
          /\ ~(n > 0) => n = 0 /\ 1 + (N - n) * 2 = 1 + 2 * N /\ 1 >= 1 + 2 * n
        BY <1>2, <3>2
    <3>10. 1 <= Len(wire)
        BY <1>1, <1>2, <1>5
    <3>6. wire'[1] = n
        BY <2>1, <3>1
    <3>7. Built'
      <4>. HIDE DEF n
      <4>1. /\ wire'[1] = n /\ built'.len = 0 /\ call'.at = 1 /\ call'.at <= Len(wire')
            /\ n \in 0 .. N /\ 0 \in 0 .. n /\ built' \in Container
            /\ \A k \in 0 .. N - 1 : built'.slots[k] = NoneOption
            /\ call'.left = (N - n) * 2
          BY <3>1, <3>2, <3>3, <3>4, <3>5, <3>6, <3>10
      <4>2. CASE n > 0
        <5>1. call'.pc = "read_tag" /\ call'.index = n
            BY <3>4, <4>2
        <5>. QED
            BY <3>5, <4>1, <4>2, <5>1 DEF Built
      <4>3. CASE ~(n > 0)
        <5>1. call'.pc = "read_padding"
            BY <3>4, <4>3
        <5>2. /\ n = 0 /\ call'.left \in Nat /\ call'.at + call'.left = 1 + 2 * N
              /\ call'.at >= 1 + 2 * n
            BY <3>5, <4>1, <4>3
        <5>3. \A k \in 2 * n + 2 .. call'.at : wire'[k] = 0
            BY <3>5, <4>1
        <5>4. call'.at \in Nat /\ \A j \in 1 .. built'.len : FALSE
            BY <3>5, <4>1
        <5>. QED
            BY <4>1, <5>1, <5>2, <5>3, <5>4 DEF Built
      <4>. QED
          BY <4>2, <4>3
    <3>8. ReadInv'
        BY <1>1, <3>1, <3>4, <3>7 DEF ReadInv
    <3>9. call'.pc \in ReaderPlaces
        BY <3>4 DEF ReaderPlaces
    <3>. QED
        BY <1>1, <3>1, <3>4, <3>8, <3>9, ReaderGoesOn
  <2>. QED
      BY <2>2, <2>3
<1>. QED
    BY <1>4, <1>5

LEMMA ReadTagInvariance ==
    ASSUME CodecInv, ReadTag
    PROVE  CodecInv'
<1>. DEFINE at == call.at
            cells == SubSeq(wire, at + 1, at + 1)
            tag == cells[1]
            n == wire[1]
            done == built.len
<1>1. call.pc = "read_tag"
    BY DEF ReadTag
<1>2. /\ codec = "vec" /\ Built /\ target = << >>
      /\ wire \in Seq(Nat) /\ Len(wire) \in Nat /\ Len(wire) <= 1 + 2 * N
      /\ n \in 0 .. N /\ n \in Nat /\ N \in Nat
      /\ done \in 0 .. n /\ done \in Nat /\ at \in Nat /\ at <= Len(wire)
      /\ call = At(call.pc, call.index, call.left, call.at)
    BY <1>1, ReaderFacts
<1>3. call.index > 0 /\ call.index = n - done /\ call.left = (N - n) * 2 /\ at = 1 + 2 * done
    BY <1>1, <1>2 DEF Built
<1>5. IF at + 1 > Len(wire) THEN Fail("eof")
      ELSE IF tag > 1 THEN Fail("refused")
      ELSE /\ call' = [call EXCEPT !.at = @ + 1,
                                   !.pc = IF tag = 1 THEN "read_value" ELSE "read_none"]
           /\ UNCHANGED <<codec, source, room, wire, built, target>>
    BY DEF ReadTag, Consume
<1>. HIDE DEF at, n, done
<1>4. done + 1 \in 1 .. n /\ 2 * (done + 1) = at + 1
    BY <1>2, <1>3
<1>6. ASSUME at + 1 > Len(wire) PROVE CodecInv'
  <2>1. Len(wire) < 1 + 2 * N
      BY <1>2, <1>3, <1>6
  <2>2. ~CanonicalWire(wire)
      BY <1>2, <2>1 DEF CanonicalWire, VecWire
  <2>. QED
      BY <1>1, <1>5, <1>6, <2>2, FailInvariance DEF ReaderPlaces
<1>7. ASSUME ~(at + 1 > Len(wire)) PROVE CodecInv'
  <2>1. tag = wire[at + 1] /\ tag \in Nat
    <3>1. at + 1 <= Len(wire) /\ at + 1 \in 1 .. Len(wire) /\ 1 \in 1 .. 1
        BY <1>2, <1>7
    <3>2. \A k \in 1 .. 1 : cells[k] = wire[at + k]
        BY <1>2, <3>1, TakenCells
    <3>3. wire[at + 1] \in Nat
        BY <1>2, <3>1
    <3>. HIDE DEF cells
    <3>. QED
        BY <3>1, <3>2, <3>3
  <2>. HIDE DEF tag
  <2>2. CASE tag > 1
    <3>1. ~PairValid(wire[2 * (done + 1)], wire[2 * (done + 1) + 1])
        BY <1>4, <2>1, <2>2 DEF PairValid
    <3>2. ~CanonicalWire(wire)
        BY <1>2, <1>4, <3>1 DEF CanonicalWire, VecWire, n
    <3>. QED
        BY <1>1, <1>5, <1>7, <2>2, <3>2, FailInvariance DEF ReaderPlaces
  <2>3. ASSUME ~(tag > 1), NEW pc, pc \in {"read_value", "read_none"},
               pc = "read_value" <=> tag = 1, call' = At(pc, call.index, call.left, at + 1),
               UNCHANGED <<codec, source, room, wire, built, target>>
        PROVE  CodecInv'
    <3>1. /\ call' = At(call'.pc, call'.index, call'.left, call'.at)
          /\ call'.pc = pc /\ call'.index = call.index /\ call'.left = call.left
          /\ call'.at = at + 1
        BY <2>3 DEF At
    <3>2. at + 1 \in Nat /\ at + 1 <= Len(wire) /\ at + 1 = 2 + 2 * done
        BY <1>2, <1>3, <1>7
    <3>3. pc = "read_value" => wire[at + 1] = 1
        BY <2>1, <2>3
    <3>4. pc = "read_none" => wire[at + 1] = 0
        BY <2>1, <2>3
    <3>5. Built'
        BY <1>1, <1>2, <1>3, <2>3, <3>1, <3>2, <3>3, <3>4 DEF Built, at, n, done
    <3>6. ReadInv'
        BY <1>2, <2>3, <3>1, <3>5 DEF ReadInv
    <3>7. call'.pc \in ReaderPlaces /\ target' = << >>
        BY <1>2, <2>3, <3>1 DEF ReaderPlaces
    <3>. QED
        BY <2>3, <3>1, <3>6, <3>7, ReaderGoesOn
  <2>4. CASE tag = 1
    <3>1. /\ call' = [call EXCEPT !.at = @ + 1, !.pc = "read_value"]
          /\ UNCHANGED <<codec, source, room, wire, built, target>>
        BY <1>5, <1>7, <2>4
    <3>2. call' = At("read_value", call.index, call.left, at + 1)
        BY <1>2, <3>1 DEF At, at
    <3>. QED
        BY <2>3, <2>4, <3>1, <3>2
  <2>5. CASE tag = 0
    <3>1. /\ call' = [call EXCEPT !.at = @ + 1, !.pc = "read_none"]
          /\ UNCHANGED <<codec, source, room, wire, built, target>>
        BY <1>5, <1>7, <2>5
    <3>2. call' = At("read_none", call.index, call.left, at + 1)
        BY <1>2, <3>1 DEF At, at
    <3>. QED
        BY <2>3, <2>5, <3>1, <3>2
  <2>. QED
      BY <2>1, <2>2, <2>4, <2>5
<1>. QED
    BY <1>6, <1>7

\* An option whose two cells are those of a value joins the vector.
LEMMA PushInvariance ==
    ASSUME CodecInv, call.pc \in {"read_value", "read_none"}, call.at + 1 <= Len(wire),
           PairValid(wire[call.at], wire[call.at + 1]),
           NEW option, option = [tag |-> wire[call.at], value |-> wire[call.at + 1]],
           Push(option)
    PROVE  CodecInv'
<1>. DEFINE at == call.at
            n == wire[1]
            done == built.len
            slots == Storage!CopyTo(built.slots, done, <<option>>)
<1>1. /\ codec = "vec" /\ Built /\ target = << >>
      /\ wire \in Seq(Nat) /\ Len(wire) \in Nat /\ Len(wire) <= 1 + 2 * N
      /\ n \in 0 .. N /\ n \in Nat /\ N \in Nat
      /\ done \in 0 .. n /\ done \in Nat /\ at \in Nat /\ at <= Len(wire)
    BY ReaderFacts
<1>2. /\ call.index > 0 /\ call.index = n - done /\ call.left = (N - n) * 2 /\ at = 2 + 2 * done
      /\ built \in Container
      /\ \A j \in 1 .. done :
             /\ PairValid(wire[2 * j], wire[2 * j + 1])
             /\ built.slots[j - 1] = [tag |-> wire[2 * j], value |-> wire[2 * j + 1]]
      /\ \A k \in done .. N - 1 : built.slots[k] = NoneOption
    BY <1>1 DEF Built
<1>3. /\ (wire[at] = 0 /\ wire[at + 1] = 0) \/ (wire[at] = 1 /\ wire[at + 1] \in {0, 1})
      /\ option.tag = wire[at] /\ option.value = wire[at + 1]
    BY DEF PairValid
<1>4. option \in Option /\ OptionValid(option)
    BY <1>3, Capacities DEF Option, OptionValid, BoolValid
<1>5. Storage!Clamp(done) = done /\ Storage!EncodeLen(done + 1) = done + 1
      /\ ~(done >= N) /\ done \in 0 .. N - 1
  <2>. HIDE DEF done, n
  <2>1. done < N /\ done <= UsizeMax /\ done \in 0 .. N - 1
      BY <1>1, <1>2, Capacities
  <2>2. done + 1 \in Nat /\ PrefixMax + 1 \in Nat /\ done + 1 < PrefixMax + 1
      BY <1>1, <2>1, Capacities
  <2>3. (done + 1) % (PrefixMax + 1) = done + 1
      BY <2>2
  <2>. QED
      BY <1>1, <2>1, <2>3, Capacities DEF Storage!Clamp, Storage!DecodeLen, Storage!EncodeLen
<1>6. /\ built' = [len |-> done + 1, slots |-> slots]
      /\ call' = NextRead(call.index - 1, call.left, at + 1)
      /\ UNCHANGED <<codec, source, room, wire, target>>
    BY <1>4, <1>5 DEF Push
<1>7. /\ slots \in [Storage!Slot -> Option] /\ slots[done] = option
      /\ \A k \in 0 .. N - 1 : k # done => slots[k] = built.slots[k]
  <2>1. slots = [k \in 0 .. N - 1 |-> IF k = done THEN option ELSE built.slots[k]]
    <3>. DEFINE one == <<option>>
    <3>1. Len(one) = 1 /\ one[1] = option
        OBVIOUS
    <3>. HIDE DEF one
    <3>2. slots = [k \in 0 .. N - 1 |->
                      IF done <= k /\ k < done + Len(one) THEN one[k - done + 1] ELSE built.slots[k]]
        BY DEF Storage!CopyTo, Storage!Slot, one
    <3>3. \A k \in 0 .. N - 1 : (done <= k /\ k < done + 1 <=> k = done) /\ done - done + 1 = 1
        BY <1>1
    <3>. HIDE DEF done, slots
    <3>. QED
        BY <3>1, <3>2, <3>3
  <2>2. built.slots \in [0 .. N - 1 -> Option] /\ done \in 0 .. N - 1
      BY <1>2, <1>5 DEF Container, Storage!Slot
  <2>. HIDE DEF slots
  <2>. QED
      BY <1>4, <2>1, <2>2 DEF Storage!Slot
<1>. HIDE DEF at, n, done, slots
<1>8. /\ done + 1 \in 1 .. n /\ done + 1 \in 0 .. n /\ done + 1 \in 0 .. PrefixMax
      /\ 2 * (done + 1) = at /\ 2 * (done + 1) + 1 = at + 1
      /\ (done + 1) - 1 = done /\ at + 1 = 1 + 2 * (done + 1) /\ at + 1 \in Nat
    BY <1>1, <1>2, Capacities
<1>9. /\ built'.len = done + 1 /\ built'.slots = slots /\ built' \in Container
    BY <1>6, <1>7, <1>8 DEF Container
<1>10. ASSUME NEW j \in 1 .. done + 1
       PROVE  /\ PairValid(wire[2 * j], wire[2 * j + 1])
              /\ slots[j - 1] = [tag |-> wire[2 * j], value |-> wire[2 * j + 1]]
  <2>1. CASE j = done + 1
      BY <1>7, <1>8, <2>1 DEF at
  <2>2. CASE j # done + 1
    <3>1. j \in 1 .. done /\ j - 1 \in 0 .. N - 1 /\ j - 1 # done
        BY <1>1, <2>2
    <3>. QED
        BY <1>2, <1>7, <3>1
  <2>. QED
      BY <2>1, <2>2
<1>11. ASSUME NEW k \in done + 1 .. N - 1 PROVE slots[k] = NoneOption
  <2>1. k \in done .. N - 1 /\ k \in 0 .. N - 1 /\ k # done
      BY <1>1
  <2>. QED
      BY <1>2, <1>7, <2>1
<1>12. /\ wire'[1] = n /\ call'.at = at + 1 /\ call'.left = (N - n) * 2
       /\ call' = At(call'.pc, call'.index, call'.left, call'.at)
       /\ call.index - 1 > 0 => call'.pc = "read_tag" /\ call'.index = call.index - 1
       /\ ~(call.index - 1 > 0) => call'.pc = "read_padding"
    BY <1>2, <1>6 DEF NextRead, At, n
<1>13. call'.at \in Nat /\ call'.at <= Len(wire')
    BY <1>6, <1>8, <1>12 DEF at
<1>14. Built'
  <2>1. /\ n \in 0 .. N /\ built'.len \in 0 .. n
        /\ \A j \in 1 .. built'.len :
               /\ PairValid(wire'[2 * j], wire'[2 * j + 1])
               /\ built'.slots[j - 1] = [tag |-> wire'[2 * j], value |-> wire'[2 * j + 1]]
        /\ \A k \in built'.len .. N - 1 : built'.slots[k] = NoneOption
      BY <1>1, <1>6, <1>8, <1>9, <1>10, <1>11
  <2>2. CASE call.index - 1 > 0
    <3>1. call'.pc = "read_tag" /\ call'.index = call.index - 1
        BY <1>12, <2>2
    <3>2. call'.index > 0 /\ call'.index = n - built'.len /\ call'.at = 1 + 2 * built'.len
        BY <1>1, <1>2, <1>8, <1>9, <1>12, <2>2, <3>1
    <3>. QED
        BY <1>9, <1>12, <1>13, <2>1, <3>1, <3>2 DEF Built, PairValid
  <2>3. CASE ~(call.index - 1 > 0)
    <3>1. call'.pc = "read_padding"
        BY <1>12, <2>3
    <3>2. built'.len = n /\ call'.at = 1 + 2 * n
      <4>1. done + 1 = n
          BY <1>1, <1>2, <2>3
      <4>. QED
          BY <1>8, <1>9, <1>12, <4>1
    <3>3. call'.left \in Nat /\ call'.at + call'.left = 1 + 2 * N /\ call'.at >= 1 + 2 * n
        BY <1>1, <1>12, <3>2
    <3>4. \A k \in 2 * n + 2 .. call'.at : wire'[k] = 0
        BY <1>1, <3>2
    <3>. QED
        BY <1>9, <1>12, <1>13, <2>1, <3>1, <3>2, <3>3, <3>4 DEF Built, PairValid
  <2>. QED
      BY <2>2, <2>3
<1>15. call'.pc \in {"read_tag", "read_padding"}
    BY <1>12
<1>16. ReadInv'
    BY <1>1, <1>6, <1>14, <1>15 DEF ReadInv
<1>. QED
    BY <1>1, <1>6, <1>12, <1>15, <1>16, ReaderGoesOn DEF ReaderPlaces

\* The second cell of an element.
LEMMA SecondCell ==
    ASSUME CodecInv, call.pc \in {"read_value", "read_none"}
    PROVE  LET cells == SubSeq(wire, call.at + 1, call.at + 1)
           IN  /\ call.at + 1 > Len(wire) => ~CanonicalWire(wire)
               /\ ~(call.at + 1 > Len(wire)) => cells[1] = wire[call.at + 1] /\ cells[1] \in Nat
               /\ ~PairValid(wire[call.at], wire[call.at + 1]) => ~CanonicalWire(wire)
<1>. DEFINE at == call.at
            cells == SubSeq(wire, at + 1, at + 1)
            n == wire[1]
            done == built.len
<1>1. /\ codec = "vec" /\ Built /\ target = << >>
      /\ wire \in Seq(Nat) /\ Len(wire) \in Nat /\ Len(wire) <= 1 + 2 * N
      /\ n \in 0 .. N /\ n \in Nat /\ N \in Nat
      /\ done \in 0 .. n /\ done \in Nat /\ at \in Nat /\ at <= Len(wire)
    BY ReaderFacts
<1>2. call.index > 0 /\ call.index = n - done /\ at = 2 + 2 * done
    BY <1>1 DEF Built
<1>. HIDE DEF at, n, done
<1>3. /\ done + 1 \in 1 .. n /\ 2 * (done + 1) = at /\ 2 * (done + 1) + 1 = at + 1
      /\ at + 1 <= 1 + 2 * N
    BY <1>1, <1>2
<1>4. at + 1 > Len(wire) => ~CanonicalWire(wire)
  <2>. SUFFICES ASSUME at + 1 > Len(wire) PROVE ~CanonicalWire(wire)
      OBVIOUS
  <2>1. Len(wire) < 1 + 2 * N
      BY <1>1, <1>3
  <2>. QED
      BY <1>1, <2>1 DEF CanonicalWire, VecWire
<1>5. ASSUME ~(at + 1 > Len(wire)) PROVE cells[1] = wire[at + 1] /\ cells[1] \in Nat
  <2>1. at + 1 <= Len(wire) /\ at + 1 \in 1 .. Len(wire) /\ 1 \in 1 .. 1 /\ 1 \in Nat
      BY <1>1, <1>5
  <2>2. \A k \in 1 .. 1 : cells[k] = wire[at + k]
      BY <1>1, <2>1, TakenCells
  <2>3. wire[at + 1] \in Nat
      BY <1>1, <2>1
  <2>. HIDE DEF cells
  <2>. QED
      BY <2>1, <2>2, <2>3
<1>6. ~PairValid(wire[at], wire[at + 1]) => ~CanonicalWire(wire)
  <2>. SUFFICES ASSUME ~PairValid(wire[at], wire[at + 1]) PROVE ~CanonicalWire(wire)
      OBVIOUS
  <2>1. ~PairValid(wire[2 * (done + 1)], wire[2 * (done + 1) + 1])
      BY <1>3
  <2>. QED
      BY <1>1, <1>3, <2>1 DEF CanonicalWire, VecWire, n
<1>. QED
    BY <1>4, <1>5, <1>6 DEF at

LEMMA ReadValueInvariance ==
    ASSUME CodecInv, ReadValue
    PROVE  CodecInv'
<1>. DEFINE cells == SubSeq(wire, call.at + 1, call.at + 1)
            byte == cells[1]
<1>1. call.pc = "read_value"
    BY DEF ReadValue
<1>2. wire[call.at] = 1
    BY <1>1, ReaderFacts DEF Built
<1>3. IF call.at + 1 > Len(wire) THEN Fail("eof")
      ELSE IF ~BoolValid(byte) THEN Fail("refused")
      ELSE Push([tag |-> 1, value |-> byte])
    BY DEF ReadValue, Consume
<1>4. /\ call.at + 1 > Len(wire) => ~CanonicalWire(wire)
      /\ ~(call.at + 1 > Len(wire)) => byte = wire[call.at + 1] /\ byte \in Nat
      /\ ~PairValid(wire[call.at], wire[call.at + 1]) => ~CanonicalWire(wire)
    BY <1>1, SecondCell
<1>. HIDE DEF byte
<1>5. CASE call.at + 1 > Len(wire)
    BY <1>1, <1>3, <1>4, <1>5, FailInvariance DEF ReaderPlaces
<1>6. CASE ~(call.at + 1 > Len(wire)) /\ ~BoolValid(byte)
  <2>1. ~PairValid(wire[call.at], wire[call.at + 1])
      BY <1>2, <1>4, <1>6 DEF PairValid, BoolValid
  <2>. QED
      BY <1>1, <1>3, <1>4, <1>6, <2>1, FailInvariance DEF ReaderPlaces
<1>7. CASE ~(call.at + 1 > Len(wire)) /\ BoolValid(byte)
  <2>1. PairValid(wire[call.at], wire[call.at + 1])
      BY <1>2, <1>4, <1>7 DEF PairValid, BoolValid
  <2>2. call.at + 1 <= Len(wire)
      BY <1>1, <1>7, ReaderFacts
  <2>3. Push([tag |-> wire[call.at], value |-> wire[call.at + 1]])
      BY <1>2, <1>3, <1>4, <1>7
  <2>. QED
      BY <1>1, <2>1, <2>2, <2>3, PushInvariance
<1>. QED
    BY <1>5, <1>6, <1>7

LEMMA ReadNoneInvariance ==
    ASSUME CodecInv, ReadNone
    PROVE  CodecInv'
<1>. DEFINE cells == SubSeq(wire, call.at + 1, call.at + 1)
            byte == cells[1]
<1>1. call.pc = "read_none"
    BY DEF ReadNone
<1>2. wire[call.at] = 0
    BY <1>1, ReaderFacts DEF Built
<1>3. IF call.at + 1 > Len(wire) THEN Fail("eof")
      ELSE IF byte # 0 THEN Fail("refused")
      ELSE Push(NoneOption)
    BY DEF ReadNone, Consume
<1>4. /\ call.at + 1 > Len(wire) => ~CanonicalWire(wire)
      /\ ~(call.at + 1 > Len(wire)) => byte = wire[call.at + 1] /\ byte \in Nat
      /\ ~PairValid(wire[call.at], wire[call.at + 1]) => ~CanonicalWire(wire)
    BY <1>1, SecondCell
<1>. HIDE DEF byte
<1>5. CASE call.at + 1 > Len(wire)
    BY <1>1, <1>3, <1>4, <1>5, FailInvariance DEF ReaderPlaces
<1>6. CASE ~(call.at + 1 > Len(wire)) /\ byte # 0
  <2>1. ~PairValid(wire[call.at], wire[call.at + 1])
      BY <1>2, <1>4, <1>6 DEF PairValid
  <2>. QED
      BY <1>1, <1>3, <1>4, <1>6, <2>1, FailInvariance DEF ReaderPlaces
<1>7. CASE ~(call.at + 1 > Len(wire)) /\ byte = 0
  <2>1. PairValid(wire[call.at], wire[call.at + 1])
      BY <1>2, <1>4, <1>7 DEF PairValid
  <2>2. call.at + 1 <= Len(wire)
      BY <1>1, <1>7, ReaderFacts
  <2>3. Push([tag |-> wire[call.at], value |-> wire[call.at + 1]])
      BY <1>2, <1>3, <1>4, <1>7 DEF NoneOption
  <2>. QED
      BY <1>1, <2>1, <2>2, <2>3, PushInvariance
<1>. QED
    BY <1>5, <1>6, <1>7

\* What is read is judged by the wire and the codec.
LEMMA SameReading ==
    ASSUME UNCHANGED <<codec, wire>>, NEW c, target'[1] = c
    PROVE  IsRead(c) => IsRead(target[1])'
<1>1. WireSize' = WireSize
    BY Zenon DEF WireSize
<1>2. Logical(target[1])' = Logical(c)
    BY Zenon DEF Logical
<1>3. Canonical(Logical(target[1]))' = Canonical(Logical(c))
    BY <1>1, <1>2, Zenon DEF Canonical
<1>. QED
    BY <1>3 DEF IsRead

LEMMA ReadPaddingInvariance ==
    ASSUME CodecInv, ReadPadding
    PROVE  CodecInv'
<1>. DEFINE at == call.at
            n == wire[1]
            count == Least(call.left, Chunk)
            cells == SubSeq(wire, at + 1, at + count)
<1>1. call.pc = "read_padding" /\ call.left # 0
    BY DEF ReadPadding
<1>2. /\ codec = "vec" /\ Built /\ target = << >>
      /\ wire \in Seq(Nat) /\ Len(wire) \in Nat /\ Len(wire) <= 1 + 2 * N
      /\ n \in 0 .. N /\ n \in Nat /\ N \in Nat /\ at \in Nat /\ at <= Len(wire)
      /\ call = At(call.pc, call.index, call.left, call.at)
    BY <1>1, ReaderFacts
<1>3. /\ call.left \in Nat /\ at + call.left = 1 + 2 * N /\ at >= 1 + 2 * n
      /\ \A k \in 2 * n + 2 .. at : wire[k] = 0
    BY <1>1, <1>2 DEF Built
<1>4. IF at + count > Len(wire) THEN Fail("eof")
      ELSE IF cells # Zeros(count) THEN Fail("refused")
      ELSE /\ call' = [call EXCEPT !.left = @ - count, !.at = @ + count]
           /\ UNCHANGED <<codec, source, room, wire, built, target>>
    BY DEF ReadPadding, Consume
<1>5. count \in Nat /\ count <= call.left
    BY <1>3, Capacities DEF Least
<1>. HIDE DEF at, n, count
<1>6. CASE at + count > Len(wire)
  <2>1. Len(wire) < 1 + 2 * N
      BY <1>2, <1>3, <1>5, <1>6
  <2>2. ~CanonicalWire(wire)
      BY <1>2, <2>1 DEF CanonicalWire, VecWire
  <2>. QED
      BY <1>1, <1>4, <1>6, <2>2, FailInvariance DEF ReaderPlaces
<1>7. CASE ~(at + count > Len(wire))
  <2>1. at + count <= Len(wire)
      BY <1>2, <1>5, <1>7
  <2>2. cells \in Seq(Nat) /\ Len(cells) = count /\ \A k \in 1 .. count : cells[k] = wire[at + k]
      BY <1>2, <1>5, <2>1, TakenCells
  <2>. HIDE DEF cells
  <2>3. CASE cells # Zeros(count)
    <3>1. PICK k \in 1 .. count : cells[k] # 0
      <4>. DEFINE zeros == Zeros(count)
      <4>1. zeros \in Seq(Nat) /\ Len(zeros) = count /\ \A k \in 1 .. count : zeros[k] = 0
          BY <1>5 DEF Zeros
      <4>. HIDE DEF zeros
      <4>2. cells # zeros
          BY <2>3 DEF zeros
      <4>. QED
          BY <2>2, <4>1, <4>2, SeqEqual
    <3>2. at + k \in 2 * n + 2 .. 1 + 2 * N /\ wire[at + k] # 0
        BY <1>2, <1>3, <1>5, <2>2, <3>1
    <3>3. ~CanonicalWire(wire)
        BY <1>2, <3>2 DEF CanonicalWire, VecWire, n
    <3>. QED
        BY <1>1, <1>4, <1>7, <2>3, <3>3, FailInvariance DEF ReaderPlaces
  <2>4. CASE cells = Zeros(count)
    <3>1. /\ call' = [call EXCEPT !.left = @ - count, !.at = @ + count]
          /\ UNCHANGED <<codec, source, room, wire, built, target>>
        BY <1>4, <1>7, <2>4
    <3>2. call' = At("read_padding", call.index, call.left - count, at + count)
        BY <1>1, <1>2, <3>1 DEF At, at
    <3>3. /\ call'.pc = "read_padding" /\ call'.left = call.left - count /\ call'.at = at + count
          /\ call' = At(call'.pc, call'.index, call'.left, call'.at)
        BY <3>2 DEF At
    <3>4. \A k \in 1 .. count : cells[k] = 0
        BY <1>5, <2>4 DEF Zeros
    <3>5. \A k \in 2 * n + 2 .. at + count : wire[k] = 0
      <4>. TAKE k \in 2 * n + 2 .. at + count
      <4>1. CASE k <= at
          BY <1>2, <1>3, <1>5, <4>1
      <4>2. CASE ~(k <= at)
        <5>1. k - at \in 1 .. count /\ at + (k - at) = k
            BY <1>2, <1>5, <4>2
        <5>. QED
            BY <2>2, <3>4, <5>1
      <4>. QED
          BY <4>1, <4>2
    <3>6. /\ call'.left \in Nat /\ call'.at + call'.left = 1 + 2 * N
          /\ call'.at >= 1 + 2 * n /\ call'.at \in Nat /\ call'.at <= Len(wire)
        BY <1>2, <1>3, <1>5, <2>1, <3>3
    <3>7. Built'
        BY <1>1, <1>2, <3>1, <3>3, <3>5, <3>6 DEF Built, n
    <3>8. ReadInv'
        BY <1>2, <3>1, <3>3, <3>7 DEF ReadInv
    <3>. QED
        BY <1>2, <3>1, <3>3, <3>8, ReaderGoesOn DEF ReaderPlaces
  <2>. QED
      BY <2>3, <2>4
<1>. QED
    BY <1>6, <1>7

\* What a read vector shows is the value its wire encodes.
LEMMA FinishReadInvariance ==
    ASSUME CodecInv, FinishRead
    PROVE  CodecInv'
<1>. DEFINE n == wire[1]
            value == Logical(built)
<1>1. call.pc = "read_padding" /\ call.left = 0
    BY DEF FinishRead
<1>2. /\ codec = "vec" /\ Built /\ target = << >>
      /\ wire \in Seq(Nat) /\ Len(wire) \in Nat /\ Len(wire) <= 1 + 2 * N
      /\ n \in 0 .. N /\ n \in Nat /\ N \in Nat
      /\ call.at \in Nat /\ call.at <= Len(wire)
    BY <1>1, ReaderFacts
<1>3. /\ built.len = n /\ built \in Container /\ call.at + call.left = 1 + 2 * N
      /\ \A j \in 1 .. n :
             /\ PairValid(wire[2 * j], wire[2 * j + 1])
             /\ built.slots[j - 1] = [tag |-> wire[2 * j], value |-> wire[2 * j + 1]]
      /\ \A k \in n .. N - 1 : built.slots[k] = NoneOption
      /\ \A k \in 2 * n + 2 .. call.at : wire[k] = 0
    BY <1>1, <1>2 DEF Built
<1>4. call.at = 1 + 2 * N /\ Len(wire) = 1 + 2 * N
    BY <1>1, <1>2, <1>3
<1>5. VecWire(wire)
    BY <1>2, <1>3, <1>4 DEF VecWire
<1>. HIDE DEF n
<1>6. ASSUME NEW j \in 0 .. N - 1
      PROVE  /\ built.slots[j] \in Option
             /\ j < n => OptionValid(built.slots[j])
             /\ built.slots[j].tag = 0 => built.slots[j] = NoneOption
             /\ j >= n => built.slots[j] = NoneOption
  <2>1. CASE j < n
    <3>1. j + 1 \in 1 .. n /\ (j + 1) - 1 = j /\ j \in 0 .. N - 1
        BY <1>2, <2>1
    <3>2. \E a, b : PairValid(a, b) /\ built.slots[j] = [tag |-> a, value |-> b]
        BY <1>3, <3>1
    <3>. QED
        BY <1>2, <2>1, <3>2, Capacities
           DEF PairValid, Option, OptionValid, BoolValid, NoneOption
  <2>2. CASE ~(j < n)
    <3>1. built.slots[j] = NoneOption
        BY <1>2, <1>3, <2>2
    <3>. QED
        BY <1>2, <2>2, <3>1, Capacities DEF NoneOption, Option
  <2>. QED
      BY <2>1, <2>2
<1>7. Storage!Valid(built.len, built.slots)
    BY <1>2, <1>3, <1>6, Capacities DEF Storage!Valid
<1>8. /\ target' = <<built>> /\ call' = Ended("read") /\ UNCHANGED <<codec, wire>>
    BY <1>7 DEF FinishRead
<1>9. /\ value \in Values /\ Len(value) = n
      /\ \A j \in 1 .. n :
             /\ ElementBytes(value[j])[1] = built.slots[j - 1].tag
             /\ ElementBytes(value[j])[2] =
                    IF built.slots[j - 1].tag = 1 THEN built.slots[j - 1].value ELSE 0
    BY <1>2, <1>3, <1>7, ValidVec
<1>. HIDE DEF value
<1>10. ASSUME NEW j \in 1 .. n
       PROVE  wire[2 * j] = ElementBytes(value[j])[1] /\ wire[2 * j + 1] = ElementBytes(value[j])[2]
  <2>. DEFINE option == built.slots[j - 1]
  <2>1. /\ PairValid(wire[2 * j], wire[2 * j + 1])
        /\ option = [tag |-> wire[2 * j], value |-> wire[2 * j + 1]]
      BY <1>3
  <2>2. /\ ElementBytes(value[j])[1] = option.tag
        /\ ElementBytes(value[j])[2] = IF option.tag = 1 THEN option.value ELSE 0
      BY <1>9
  <2>. HIDE DEF option
  <2>3. option.tag = wire[2 * j] /\ option.value = wire[2 * j + 1]
      BY <2>1
  <2>. QED
      BY <2>1, <2>2, <2>3 DEF PairValid
<1>11. wire = Canonical(value)
    BY <1>2, <1>3, <1>4, <1>9, <1>10, VecWireIs DEF n
<1>12. IsRead(built)
    BY <1>2, <1>3, <1>6, <1>11 DEF IsRead, value, Storage!Slot
<1>13. call'.pc = "read" /\ call' = At(call'.pc, call'.index, call'.left, call'.at)
    BY <1>8 DEF Ended, At
<1>14. CanonicalWire(wire)'
    BY <1>2, <1>5, <1>8, KeptWire DEF CanonicalWire
<1>15. target' # << >> /\ target'[1] = built
    BY <1>8
<1>16. IsRead(built) => IsRead(target[1])'
    BY <1>8, <1>15, SameReading
<1>17. ReadInv'
    BY <1>12, <1>13, <1>14, <1>15, <1>16 DEF ReadInv
<1>. QED
    BY <1>8, <1>13, <1>17, ReaderGoesOn DEF ReaderPlaces

\* The same for a string, which is read in one piece.
LEMMA ReadTextInvariance ==
    ASSUME CodecInv, ReadText
    PROVE  CodecInv'
<1>. DEFINE cells == SubSeq(wire, call.at + 1, call.at + (1 + TextCap))
            text == [len |-> cells[1], slots |-> [k \in Text!Slot |-> cells[k + 2]]]
            n == wire[1]
            shown == [k \in 1 .. n |-> wire[1 + k]]
<1>1. /\ call.pc = "read_text" /\ codec = "string" /\ call.at = 0
      /\ wire \in Seq(Nat) /\ Len(wire) <= WireSize /\ target = << >>
    BY DEF ReadText, CodecInv, CodecTyped, ReadInv
<1>2. Len(wire) \in Nat /\ TextCap \in Nat /\ WireSize = 1 + TextCap
    BY <1>1, TextValues, Capacities
<1>3. IF call.at + (1 + TextCap) > Len(wire) THEN Fail("eof")
      ELSE IF ~TextValid(text) \/ \E k \in Text!Slot : k >= text.len /\ text.slots[k] # 0
      THEN Fail("refused")
      ELSE /\ target' = <<text>> /\ call' = Ended("read")
           /\ UNCHANGED <<codec, source, room, wire, built>>
    BY DEF ReadText, Consume
<1>4. CASE call.at + (1 + TextCap) > Len(wire)
  <2>1. ~CanonicalWire(wire)
      BY <1>1, <1>2, <1>4 DEF CanonicalWire, TextWire
  <2>. QED
      BY <1>1, <1>3, <1>4, <2>1, FailInvariance DEF ReaderPlaces
<1>5. CASE ~(call.at + (1 + TextCap) > Len(wire))
  <2>1. Len(wire) = 1 + TextCap /\ 1 + TextCap \in Nat /\ 0 \in Nat /\ 0 + (1 + TextCap) <= Len(wire)
      BY <1>1, <1>2, <1>5
  <2>2. \A k \in 1 .. 1 + TextCap : cells[k] = wire[k]
    <3>1. \A k \in 1 .. 1 + TextCap : cells[k] = wire[0 + k]
        BY <1>1, <2>1, TakenCells
    <3>. HIDE DEF cells
    <3>. QED
        BY <1>2, <3>1
  <2>. HIDE DEF cells
  <2>3. text.len = n /\ \A k \in Text!Slot : text.slots[k] = wire[k + 2]
    <3>1. 1 \in 1 .. 1 + TextCap /\ \A k \in Text!Slot : k + 2 \in 1 .. 1 + TextCap
        BY <1>2 DEF Text!Slot
    <3>. QED
        BY <2>2, <3>1
  <2>4. n \in Nat /\ \A k \in 1 .. 1 + TextCap : wire[k] \in Nat
    <3>1. \A k \in 1 .. 1 + TextCap : wire[k] \in Nat
        BY <1>1, <2>1
    <3>2. 1 \in 1 .. 1 + TextCap
        BY <1>2
    <3>. QED
        BY <3>1, <3>2
  <2>. HIDE DEF text, n
  <2>5. n <= TextCap => Shown(text) = shown
    <3>. SUFFICES ASSUME n <= TextCap PROVE Shown(text) = shown
        OBVIOUS
    <3>1. Text!Clamp(text.len) = n
        BY <1>2, <2>3, <2>4, Capacities DEF Text!Clamp, Text!DecodeLen
    <3>2. Shown(text) = [k \in 1 .. n |-> text.slots[k - 1]]
        BY <3>1 DEF Shown, Text!Active
    <3>3. \A k \in 1 .. n : k - 1 \in Text!Slot /\ (k - 1) + 2 = 1 + k
        BY <1>2, <2>4 DEF Text!Slot
    <3>4. \A k \in 1 .. n : text.slots[k - 1] = wire[1 + k]
        BY <2>3, <3>3
    <3>. QED
        BY <3>2, <3>4
  <2>6. TextValid(text) <=> n <= TextCap /\ shown \in Texts
    <3>1. TextValid(text) => n <= TextCap
        BY <2>3 DEF TextValid, Text!Valid
    <3>2. ASSUME n <= TextCap, shown \in Texts PROVE TextValid(text)
      <4>1. n <= UsizeMax
          BY <1>2, <2>4, <3>2, Capacities
      <4>2. \A k \in 1 .. n : shown[k] \in Byte
        <5>1. Len(shown) = n
            BY <2>4
        <5>. HIDE DEF shown
        <5>2. shown \in Seq(Byte)
            BY <3>2, Capacities
        <5>. QED
            BY <2>4, <5>1, <5>2
      <4>3. \A k \in 0 .. n - 1 : text.slots[k] \in Byte
        <5>. TAKE k \in 0 .. n - 1
        <5>1. k \in Text!Slot /\ k + 1 \in 1 .. n /\ 1 + (k + 1) = k + 2
            BY <1>2, <2>4, <3>2 DEF Text!Slot
        <5>2. shown[k + 1] = wire[k + 2] /\ text.slots[k] = wire[k + 2]
            BY <2>3, <5>1
        <5>. QED
            BY <4>2, <5>1, <5>2
      <4>. QED
          BY <2>3, <2>5, <3>2, <4>1, <4>3 DEF TextValid, Text!Valid
    <3>3. TextValid(text) => shown \in Texts
        BY <2>5, <3>1 DEF TextValid
    <3>. QED
        BY <3>1, <3>2, <3>3
  <2>7. ASSUME n <= TextCap
        PROVE  (\A k \in n + 2 .. 1 + TextCap : wire[k] = 0)
               <=> ~(\E k \in Text!Slot : k >= text.len /\ text.slots[k] # 0)
    <3>1. ASSUME NEW k \in n + 2 .. 1 + TextCap
          PROVE  k - 2 \in Text!Slot /\ k - 2 >= n /\ text.slots[k - 2] = wire[k]
      <4>1. k - 2 \in Text!Slot /\ k - 2 >= n /\ (k - 2) + 2 = k
          BY <1>2, <2>4 DEF Text!Slot
      <4>. QED
          BY <2>3, <4>1
    <3>2. ASSUME NEW k \in Text!Slot, k >= n
          PROVE  k + 2 \in n + 2 .. 1 + TextCap /\ text.slots[k] = wire[k + 2]
        BY <1>2, <2>3, <2>4, <3>2 DEF Text!Slot
    <3>. QED
        BY <2>3, <3>1, <3>2
  <2>8. TextWire(wire) <=>
            TextValid(text) /\ ~(\E k \in Text!Slot : k >= text.len /\ text.slots[k] # 0)
    <3>1. TextWire(wire) <=> /\ n \in 0 .. TextCap /\ shown \in Texts
                             /\ \A k \in n + 2 .. 1 + TextCap : wire[k] = 0
        BY <2>1 DEF TextWire, n
    <3>2. n \in 0 .. TextCap <=> n <= TextCap
        BY <1>2, <2>4
    <3>. HIDE DEF shown
    <3>. QED
        BY <2>6, <2>7, <3>1, <3>2
  <2>9. CASE ~TextWire(wire)
    <3>1. ~CanonicalWire(wire)
        BY <1>1, <2>9 DEF CanonicalWire
    <3>2. Fail("refused")
        BY <1>3, <1>5, <2>8, <2>9
    <3>. QED
        BY <1>1, <3>1, <3>2, FailInvariance DEF ReaderPlaces
  <2>10. CASE TextWire(wire)
    <3>1. target' = <<text>> /\ call' = Ended("read") /\ UNCHANGED <<codec, wire>>
        BY <1>3, <1>5, <2>8, <2>10
    <3>2. /\ n <= TextCap /\ shown \in Texts /\ Shown(text) = shown
          /\ \A k \in Text!Slot : k >= text.len => text.slots[k] = 0
        BY <2>5, <2>6, <2>8, <2>10
    <3>3. Len(shown) = n /\ (\A k \in 1 .. n : wire[1 + k] = shown[k])
        BY <2>4
    <3>. HIDE DEF shown
    <3>4. shown \in Values /\ Logical(text) = shown
        BY <1>1, <3>2, <3>3, TextValues DEF Logical
    <3>5. \A k \in n + 2 .. 1 + TextCap : wire[k] = 0
        BY <2>10 DEF TextWire, n
    <3>6. wire[1] = Len(shown)
        BY <3>3 DEF n
    <3>7. /\ \A k \in 1 .. Len(shown) : wire[1 + k] = shown[k]
          /\ \A k \in Len(shown) + 2 .. 1 + TextCap : wire[k] = 0
        BY <3>3, <3>5
    <3>8. wire = Canonical(shown)
        BY <1>1, <2>1, <3>4, <3>6, <3>7, TextWireIs
    <3>9. IsRead(text)
        BY <1>1, <3>2, <3>4, <3>8 DEF IsRead
    <3>10. call'.pc = "read" /\ call' = At(call'.pc, call'.index, call'.left, call'.at)
        BY <3>1 DEF Ended, At
    <3>11. CanonicalWire(wire)'
        BY <1>1, <2>10, <3>1, KeptWire DEF CanonicalWire
    <3>12. target' # << >> /\ target'[1] = text
        BY <3>1
    <3>13. IsRead(text) => IsRead(target[1])'
        BY <3>1, <3>12, SameReading
    <3>14. ReadInv'
        BY <3>9, <3>10, <3>11, <3>12, <3>13 DEF ReadInv
    <3>. QED
        BY <3>1, <3>10, <3>14, ReaderGoesOn DEF ReaderPlaces
  <2>. QED
      BY <2>9, <2>10
<1>. QED
    BY <1>4, <1>5

-----------------------------------------------------------------------------
(* The theorems.                                                           *)

LEMMA CodecStepInv == CodecInv /\ [Next]_vars => CodecInv'
<1>. SUFFICES ASSUME CodecInv, [Next]_vars PROVE CodecInv'
    OBVIOUS
<1>1. CASE \E src \in Container, n \in 0 .. WireSize : Write(src, n)
    BY <1>1, WriteInvariance
<1>2. CASE \E text \in Stored, n \in 0 .. WireSize : WriteText(text, n)
    BY <1>2, WriteTextInvariance
<1>3. CASE WritePrefix
    BY <1>3, WritePrefixInvariance
<1>4. CASE WriteTag
    BY <1>4, WriteTagInvariance
<1>5. CASE WriteValue
    BY <1>5, WriteValueInvariance
<1>6. CASE WritePadding
    BY <1>6, WritePaddingInvariance
<1>7. CASE WriteTextPrefix
    BY <1>7, WriteTextPrefixInvariance
<1>8. CASE WriteTextBytes
    BY <1>8, WriteTextBytesInvariance
<1>9. CASE \E prefix \in 0 .. PrefixMax, n \in 0 .. WireSize - 1 :
               \E rest \in [1 .. n -> Byte] : Receive(<<prefix>> \o rest)
    BY <1>9, ReceiveInvariance
<1>10. CASE Read
    BY <1>10, ReadInvariance
<1>11. CASE ReadPrefix
    BY <1>11, ReadPrefixInvariance
<1>12. CASE ReadTag
    BY <1>12, ReadTagInvariance
<1>13. CASE ReadValue
    BY <1>13, ReadValueInvariance
<1>14. CASE ReadNone
    BY <1>14, ReadNoneInvariance
<1>15. CASE ReadPadding
    BY <1>15, ReadPaddingInvariance
<1>16. CASE FinishRead
    BY <1>16, FinishReadInvariance
<1>17. CASE ReadText
    BY <1>17, ReadTextInvariance
<1>18. CASE Forget
    BY <1>18, ForgetInvariance
<1>19. CASE UNCHANGED vars
  <2>1. /\ codec' = codec /\ source' = source /\ wire' = wire /\ call' = call
        /\ built' = built /\ target' = target
      BY <1>19 DEF vars
  <2>2. /\ ValidSource' <=> ValidSource
        /\ Canonical(Logical(source))' = Canonical(Logical(source))
        /\ WireSize' = WireSize /\ (CanonicalWire(wire)' <=> CanonicalWire(wire))
      BY <2>1, Kept, KeptWire DEF ValidSource, Fit
  <2>3. CodecTyped'
      BY <2>1, <2>2 DEF CodecInv, CodecTyped
  <2>4. WriteInv'
    <3>1. Writing' <=> Writing
        BY <2>1 DEF Writing
    <3>2. WritePosition' <=> WritePosition
        BY <2>1, <2>2 DEF WritePosition
    <3>3. Agrees(wire, Canonical(Logical(source)))' <=> Agrees(wire, Canonical(Logical(source)))
        BY <2>1, <2>2 DEF Agrees
    <3>. QED
        BY <2>1, <2>2, <3>1, <3>2, <3>3 DEF CodecInv, WriteInv
  <2>5. ReadInv'
    <3>1. Built' <=> Built
        BY <2>1 DEF Built
    <3>2. IsRead(target[1]) => IsRead(target[1])'
        BY <2>1, SameReading
    <3>. QED
        BY <2>1, <2>2, <3>1, <3>2 DEF CodecInv, ReadInv
  <2>. QED
      BY <2>3, <2>4, <2>5 DEF CodecInv
<1>. QED
    BY <1>1, <1>2, <1>3, <1>4, <1>5, <1>6, <1>7, <1>8, <1>9, <1>10, <1>11, <1>12, <1>13,
       <1>14, <1>15, <1>16, <1>17, <1>18, <1>19 DEF Next

LEMMA CodecInvariant == Spec => []CodecInv
    BY CodecInitInv, CodecStepInv, PTL DEF Spec

\* Cells that agree with the encoding are a prefix of it.
LEMMA AgreeingCells ==
    ASSUME NEW w \in Seq(Nat), NEW c \in Seq(Nat), Agrees(w, c)
    PROVE  IsPrefix(w, c)
<1>. DEFINE n == Len(w)
            left == SubSeq(w, 1, n)
            right == SubSeq(c, 1, n)
<1>1. n \in Nat /\ n <= Len(c) /\ 0 + n <= Len(w) /\ 0 + n <= Len(c) /\ 0 + 1 = 1 /\ 0 + n = n
    BY DEF Agrees
<1>2. \A k \in 1 .. n : w[k] = c[k]
    BY DEF Agrees
<1>3. left \in Seq(Nat) /\ Len(left) = n /\ \A k \in 1 .. n : left[k] = w[k]
  <2>1. /\ SubSeq(w, 0 + 1, 0 + n) \in Seq(Nat) /\ Len(SubSeq(w, 0 + 1, 0 + n)) = n
        /\ \A k \in 1 .. n : SubSeq(w, 0 + 1, 0 + n)[k] = w[0 + k]
      BY <1>1, TakenCells
  <2>. HIDE DEF n
  <2>. QED
      BY <1>1, <2>1
<1>4. right \in Seq(Nat) /\ Len(right) = n /\ \A k \in 1 .. n : right[k] = c[k]
  <2>1. /\ SubSeq(c, 0 + 1, 0 + n) \in Seq(Nat) /\ Len(SubSeq(c, 0 + 1, 0 + n)) = n
        /\ \A k \in 1 .. n : SubSeq(c, 0 + 1, 0 + n)[k] = c[0 + k]
      BY <1>1, TakenCells
  <2>. HIDE DEF n
  <2>. QED
      BY <1>1, <2>1
<1>. HIDE DEF left, right
<1>5. left = right
    BY <1>2, <1>3, <1>4, SeqEqual
<1>. QED
    BY <1>1, <1>5 DEF IsPrefix, left, right

\* For every capacity, prefix and chunk of padding: each byte the writers hand
\* to a destination, however little room it has, is the byte of the one
\* encoding of the value, and an invalid container is rejected before the first
\* (wincode.rs:4-7, 369-371).
THEOREM CodecWireIsCanonical == Spec => []WireIsCanonical
<1>1. CodecInv => WireIsCanonical
  <2>. SUFFICES ASSUME CodecInv, Writing PROVE WireIsCanonical
      BY DEF WireIsCanonical
  <2>1. CASE ValidSource
    <3>1. call.pc # "rejected" /\ Underway
        BY <2>1 DEF CodecInv, WriteInv, Underway
    <3>2. /\ wire \in Seq(Nat) /\ Canonical(Logical(source)) \in Seq(Nat)
          /\ Agrees(wire, Canonical(Logical(source))) /\ WritePosition
        BY <3>1, WriterFacts
    <3>3. IsPrefix(wire, Canonical(Logical(source)))
        BY <3>2, AgreeingCells
    <3>4. call.pc = "written" => Len(wire) = WireSize
        BY <3>2 DEF WritePosition
    <3>. QED
        BY <2>1, <3>1, <3>3, <3>4 DEF WireIsCanonical
  <2>2. CASE ~ValidSource
      BY <2>2 DEF CodecInv, WriteInv, WireIsCanonical
  <2>. QED
      BY <2>1, <2>2
<1>. QED
    BY <1>1, CodecInvariant, PTL

\* For every capacity and prefix: the readers accept the canonical encodings and
\* no other bytes, what they build compares equal to the value and stores zeros
\* beyond it, and a reader that refuses leaves its destination uninitialized
\* (wincode.rs:8-9).
THEOREM CodecReadersAcceptCanonicalOnly == Spec => []ReadersAcceptCanonicalOnly
<1>1. CodecInv => ReadersAcceptCanonicalOnly
  <2>. SUFFICES ASSUME CodecInv, call.pc \in ReadEnds PROVE ReadersAcceptCanonicalOnly
      BY DEF ReadersAcceptCanonicalOnly
  <2>1. /\ codec \in {"vec", "string"} /\ wire \in Seq(Nat)
        /\ call.pc # "read" => target = << >>
      BY DEF CodecInv, CodecTyped
  <2>2. wire \in {Canonical(value) : value \in Values} <=> CanonicalWire(wire)
      BY <2>1, CanonicalWires
  <2>3. /\ call.pc \in {"refused", "eof"} => ~CanonicalWire(wire)
        /\ call.pc = "read" => CanonicalWire(wire) /\ target # << >> /\ IsRead(target[1])
      BY DEF CodecInv, ReadInv
  <2>4. call.pc = "read" \/ call.pc \in {"refused", "eof"}
      BY DEF ReadEnds
  <2>5. call.pc = "read" <=> wire \in {Canonical(value) : value \in Values}
      BY <2>2, <2>3, <2>4
  <2>6. target # << >> <=> call.pc = "read"
      BY <2>1, <2>3
  <2>7. call.pc = "read" => IsRead(target[1])
      BY <2>3
  <2>. QED
      BY <2>5, <2>6, <2>7 DEF ReadersAcceptCanonicalOnly, IsRead
<1>. QED
    BY <1>1, CodecInvariant, PTL

=============================================================================
