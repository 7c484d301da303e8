------------------------------ MODULE PodVecProofs -----------------------------
(***************************************************************************)
(* Proofs about PodVec, for every capacity, prefix width, element type and *)
(* every content of the account: its invariants, and that it implements    *)
(* BoundedVec, with closures that panic in retain.                         *)
(***************************************************************************)
EXTENDS PodVec, FiniteSetTheorems, SequenceTheorems, WellFoundedInduction, TLAPS

-----------------------------------------------------------------------------
(* The slots.                                                              *)

\* A length the capacity allows survives the cast to the prefix and the clamp:
\* the cast of encode_len (vec.rs:122) truncates nothing.
LEMMA EncodeLenIsExact ==
    ASSUME NEW n \in 0 .. N
    PROVE  EncodeLen(n) = n /\ Clamp(n) = n
<1>1. n \in 0 .. PrefixMax /\ PrefixMax + 1 \in Nat /\ n < PrefixMax + 1
    BY PodSlotsAssumption
<1>2. n % (PrefixMax + 1) = n
    BY <1>1
<1>3. n <= UsizeMax
    BY PodSlotsAssumption
<1> QED
    BY <1>2, <1>3, PodSlotsAssumption DEF EncodeLen, Clamp, DecodeLen

\* No prefix, whatever the account holds, is read as more than N elements.
LEMMA ClampIsBounded ==
    ASSUME NEW p \in 0 .. PrefixMax
    PROVE  Clamp(p) \in 0 .. N
BY PodSlotsAssumption DEF Clamp, DecodeLen

\* Copying elements into slots yields slots.
LEMMA CopyToType ==
    ASSUME NEW data \in [Slot -> Elem], NEW from \in Nat, NEW values \in Seq(Elem)
    PROVE  CopyTo(data, from, values) \in [Slot -> Elem]
<1> SUFFICES ASSUME NEW k \in Slot, from <= k, k < from + Len(values)
             PROVE  values[k - from + 1] \in Elem
    BY DEF CopyTo
<1>1. k - from + 1 \in 1 .. Len(values)
    BY PodSlotsAssumption DEF Slot
<1> QED
    BY <1>1

\* Copying one element changes one slot.
LEMMA CopyToOne ==
    ASSUME NEW data \in [Slot -> Elem], NEW from \in Nat, NEW v \in Elem
    PROVE  /\ CopyTo(data, from, <<v>>) \in [Slot -> Elem]
           /\ \A k \in Slot :
                  CopyTo(data, from, <<v>>)[k] = IF k = from THEN v ELSE data[k]
<1> DEFINE values == <<v>>
<1>1. values \in Seq(Elem) /\ Len(values) = 1 /\ values[1] = v
    OBVIOUS
<1> HIDE DEF values
<1>2. CopyTo(data, from, values) \in [Slot -> Elem]
    BY <1>1, CopyToType
<1>3. \A k \in Slot : CopyTo(data, from, values)[k] = IF k = from THEN v ELSE data[k]
    BY <1>1, PodSlotsAssumption DEF CopyTo, Slot
<1> QED
    BY <1>2, <1>3 DEF values

\* Zeroing slots yields slots.
LEMMA ZeroRangeType ==
    ASSUME NEW data \in [Slot -> Elem], NEW from \in Nat, NEW to \in Nat
    PROVE  ZeroRange(data, from, to) \in [Slot -> Elem]
BY PodSlotsAssumption DEF ZeroRange

-----------------------------------------------------------------------------
(* Positions.                                                              *)

\* A non-empty set of numbers up to a bound has a largest one: the smallest
\* distance from the bound is well-founded.
LEMMA LargestExists ==
    ASSUME NEW n \in Nat, NEW S, S \subseteq 0 .. n, S # {}
    PROVE  \E b \in S : \A a \in S : a <= b
<1> DEFINE Below == OpToRel(<, Nat)
            T == {n - b : b \in S}
<1>1. T \subseteq Nat /\ T # {}
  <2>1. \A b \in S : n - b \in Nat
      OBVIOUS
  <2>2. PICK b \in S : TRUE
      OBVIOUS
  <2>3. n - b \in T
      OBVIOUS
  <2> QED
      BY <2>1, <2>3
<1>2. \E x \in T : \A y \in T : ~(<<y, x>> \in Below)
  <2> HIDE DEF T, Below
  <2>1. IsWellFoundedOn(Below, Nat)
      BY NatLessThanWellFounded DEF Below
  <2> QED
      BY <1>1, <2>1, WFMin
<1>3. PICK b \in S : \A y \in T : ~(<<y, n - b>> \in Below)
    BY <1>2
<1>4. ASSUME NEW a \in S PROVE a <= b
  <2>1. a \in Nat /\ b \in Nat /\ n - a \in Nat /\ n - b \in Nat /\ n - a \in T
      OBVIOUS
  <2>2. ~(n - a < n - b)
      BY <1>3, <2>1 DEF OpToRel
  <2> QED
      BY <2>1, <2>2
<1> QED
    BY <1>4

-----------------------------------------------------------------------------
(* The inductive invariant.                                                *)

\* While retain runs its two cursors stay in order below the clamped length it
\* read on entry, and the write cursor counts what the closure kept.
RetainInOrder ==
    Running =>
        /\ retain.write <= retain.read /\ retain.read <= retain.cur
        /\ retain.cur = ActiveLen
        /\ Len(before) = retain.cur
        /\ kept \subseteq 1 .. retain.read
        /\ Cardinality(kept) = retain.write

NothingKept == ~Running => kept = {}

IInv == TypeOK /\ RetainInOrder /\ NothingKept /\ VacatedSlotsAreZero /\ RetainLosesNothing

-----------------------------------------------------------------------------

\* A call that stores n elements over `data`, where `data` has zeros in every
\* slot from n on that was active or zero, keeps the invariant.
LEMMA StoreKeepsInvariant ==
    ASSUME IInv, NEW n \in 0 .. N, NEW data \in [Slot -> Elem], NEW answer,
           Store(n, data, answer),
           \A k \in Slot : k >= n /\ (k < ActiveLen \/ slots[k] = Zero) => data[k] = Zero,
           ~Running', kept' = {}, retain' \in [running : BOOLEAN, read : 0 .. N, write : 0 .. N, cur : 0 .. N],
           before' \in Seq(Elem)
    PROVE  IInv'
<1>1. len' = n /\ ActiveLen' = n
    BY EncodeLenIsExact DEF Store, ActiveLen
<1>2. TypeOK'
  <2>1. len' \in 0 .. PrefixMax
      BY <1>1, PodSlotsAssumption
  <2>2. touched' \subseteq Slot
    <3>1. touched' = touched \cup 0 .. n - 1
        BY EncodeLenIsExact DEF Store
    <3> QED
        BY <3>1, PodSlotsAssumption DEF IInv, TypeOK, Slot
  <2> QED
      BY <2>1, <2>2 DEF TypeOK, Store
<1>3. VacatedSlotsAreZero'
  <2> SUFFICES ASSUME NEW k \in touched', k >= n
               PROVE  data[k] = Zero
      BY <1>1 DEF VacatedSlotsAreZero, Store
  <2>1. k \in touched
    <3>1. touched' = touched \cup 0 .. n - 1
        BY EncodeLenIsExact DEF Store
    <3> QED
        BY <3>1
  <2>2. k \in Slot
      BY <2>1 DEF IInv, TypeOK
  <2>3. ActiveLen \in 0 .. N
      BY ClampIsBounded DEF IInv, TypeOK, ActiveLen
  <2>4. k < ActiveLen \/ slots[k] = Zero
      BY <2>1, <2>2, <2>3, PodSlotsAssumption DEF IInv, VacatedSlotsAreZero, Slot
  <2> QED
      BY <2>2, <2>4
<1> QED
    BY <1>2, <1>3 DEF IInv, RetainInOrder, NothingKept, RetainLosesNothing

-----------------------------------------------------------------------------

\* Any bytes an account can hold satisfy the invariant (vec.rs:150-154 clamps).
LEMMA InitInvariant == Init => IInv
<1> SUFFICES ASSUME Init PROVE IInv
    OBVIOUS
<1>1. Clamp(len) \in 0 .. N
    BY ClampIsBounded DEF Init
<1>2. TypeOK
    BY <1>1, PodSlotsAssumption DEF Init, TypeOK, Idle, Slot
<1>3. VacatedSlotsAreZero
    BY <1>1, PodSlotsAssumption DEF Init, VacatedSlotsAreZero, ActiveLen
<1> QED
    BY <1>2, <1>3
    DEF IInv, Init, Idle, Running, RetainInOrder, NothingKept, RetainLosesNothing

\* A call that changes no byte keeps the invariant (vec.rs:246-249).
LEMMA RefusedKeepsInvariant ==
    ASSUME IInv, NEW answer, Call, Refused(answer)
    PROVE  IInv'
BY DEF IInv, Call, Refused, Running, TypeOK, RetainInOrder, NothingKept,
       VacatedSlotsAreZero, RetainLosesNothing, ActiveLen

\* What a finished call that stores n elements over `data` has to show
\* (vec.rs:251-523).
LEMMA CallKeepsInvariant ==
    ASSUME IInv, Call, NEW n \in 0 .. N, NEW data \in [Slot -> Elem], NEW answer,
           Store(n, data, answer),
           \A k \in Slot : k >= n /\ (k < ActiveLen \/ slots[k] = Zero) => data[k] = Zero
    PROVE  IInv'
<1>1. ~Running' /\ kept' = {} /\ before' \in Seq(Elem)
    BY DEF Call, Running, IInv, NothingKept, TypeOK
<1>2. retain' \in [running : BOOLEAN, read : 0 .. N, write : 0 .. N, cur : 0 .. N]
    BY DEF Call, IInv, TypeOK
<1> QED
    BY <1>1, <1>2, StoreKeepsInvariant

\* try_push keeps the invariant (vec.rs:251-261).
LEMMA TryPushKeepsInvariant ==
    ASSUME IInv, NEW v \in Given, TryPush(v)
    PROVE  IInv'
<1> DEFINE data == CopyTo(slots, ActiveLen, <<v>>)
<1>1. ActiveLen \in 0 .. N /\ slots \in [Slot -> Elem] /\ <<v>> \in Seq(Elem)
    BY ClampIsBounded, PodSlotsAssumption, GivenAssumption DEF IInv, TypeOK, ActiveLen
<1>2. CASE ActiveLen >= N
    BY <1>2, RefusedKeepsInvariant DEF TryPush
<1>3. CASE ~(ActiveLen >= N)
  <2>1. ActiveLen + 1 \in 0 .. N
      BY <1>1, <1>3, PodSlotsAssumption
  <2>2. data \in [Slot -> Elem]
      BY <1>1, CopyToOne, PodSlotsAssumption
  <2>3. \A k \in Slot : k >= ActiveLen + 1 /\ (k < ActiveLen \/ slots[k] = Zero) => data[k] = Zero
      BY <1>1, PodSlotsAssumption DEF CopyTo, Slot
  <2> QED
      BY <1>3, <2>1, <2>2, <2>3, CallKeepsInvariant DEF TryPush
<1> QED
    BY <1>2, <1>3

\* try_set keeps the invariant: what the old value held past the new one is
\* zeroed (vec.rs:271-290).
LEMMA TrySetKeepsInvariant ==
    ASSUME IInv, NEW values \in Inputs, TrySet(values)
    PROVE  IInv'
<1> DEFINE copied == CopyTo(slots, 0, values)
           data == IF Len(values) < ActiveLen
                   THEN ZeroRange(copied, Len(values), ActiveLen) ELSE copied
<1>1. ActiveLen \in 0 .. N /\ slots \in [Slot -> Elem]
    BY ClampIsBounded DEF IInv, TypeOK, ActiveLen
<1>2. values \in Seq(Elem) /\ Len(values) \in Nat
    BY PodSlotsAssumption, GivenAssumption DEF Inputs
<1>3. CASE Len(values) > N
    BY <1>3, RefusedKeepsInvariant DEF TrySet
<1>4. CASE ~(Len(values) > N)
  <2>1. Len(values) \in 0 .. N
      BY <1>2, <1>4, PodSlotsAssumption
  <2>2. copied \in [Slot -> Elem]
      BY <1>1, <1>2, CopyToType
  <2>3. data \in [Slot -> Elem]
      BY <1>1, <1>2, <2>2, ZeroRangeType, PodSlotsAssumption
  <2>4. \A k \in Slot : k >= Len(values) => copied[k] = slots[k]
      BY <1>2, PodSlotsAssumption DEF CopyTo, Slot
  <2>5. \A k \in Slot : k >= Len(values) /\ (k < ActiveLen \/ slots[k] = Zero) => data[k] = Zero
      BY <1>1, <1>2, <2>4, PodSlotsAssumption DEF ZeroRange, Slot
  <2>6. Store(Len(values), data, Reply("try_set", values, Done))
      BY <1>4 DEF TrySet
  <2> QED
      BY <2>1, <2>3, <2>5, <2>6, CallKeepsInvariant DEF TrySet
<1> QED
    BY <1>3, <1>4

\* try_extend keeps the invariant (vec.rs:338-353).
LEMMA TryExtendKeepsInvariant ==
    ASSUME IInv, NEW values \in Inputs, TryExtend(values)
    PROVE  IInv'
<1> DEFINE data == CopyTo(slots, ActiveLen, values)
           n == ActiveLen + Len(values)
<1>1. ActiveLen \in 0 .. N /\ slots \in [Slot -> Elem]
    BY ClampIsBounded DEF IInv, TypeOK, ActiveLen
<1>2. values \in Seq(Elem) /\ Len(values) \in Nat
    BY PodSlotsAssumption, GivenAssumption DEF Inputs
<1>3. CASE n > N
    BY <1>3, RefusedKeepsInvariant DEF TryExtend
<1>4. CASE ~(n > N)
  <2>1. n \in 0 .. N
      BY <1>1, <1>2, <1>4, PodSlotsAssumption
  <2>2. data \in [Slot -> Elem]
      BY <1>1, <1>2, CopyToType, PodSlotsAssumption
  <2>3. \A k \in Slot : k >= n /\ (k < ActiveLen \/ slots[k] = Zero) => data[k] = Zero
      BY <1>1, <1>2, PodSlotsAssumption DEF CopyTo, Slot
  <2> QED
      BY <1>4, <2>1, <2>2, <2>3, CallKeepsInvariant DEF TryExtend
<1> QED
    BY <1>3, <1>4

\* A store through as_slice_mut keeps the invariant (vec.rs:213-217).
LEMMA AssignKeepsInvariant ==
    ASSUME IInv, NEW index \in Slot, NEW v \in Given, Assign(index, v)
    PROVE  IInv'
<1>1. ActiveLen \in 0 .. N /\ slots \in [Slot -> Elem] /\ <<v>> \in Seq(Elem)
    BY ClampIsBounded, PodSlotsAssumption, GivenAssumption DEF IInv, TypeOK, ActiveLen
<1>2. slots' \in [Slot -> Elem]
    BY <1>1, CopyToOne, PodSlotsAssumption DEF Assign, Slot
<1>3. \A k \in Slot : k >= ActiveLen => slots'[k] = slots[k]
    BY <1>1, PodSlotsAssumption DEF Assign, CopyTo, Slot
<1>4. VacatedSlotsAreZero'
    BY <1>1, <1>3, PodSlotsAssumption
    DEF Assign, IInv, TypeOK, VacatedSlotsAreZero, ActiveLen, Slot
<1> QED
    BY <1>2, <1>4
    DEF Assign, Call, IInv, TypeOK, Running, RetainInOrder, NothingKept, RetainLosesNothing

\* pop keeps the invariant (vec.rs:391-403).
LEMMA PopKeepsInvariant ==
    ASSUME IInv, Pop
    PROVE  IInv'
<1> DEFINE last == ActiveLen - 1
           data == CopyTo(slots, last, <<Zero>>)
<1>1. ActiveLen \in 0 .. N /\ slots \in [Slot -> Elem] /\ <<Zero>> \in Seq(Elem)
    BY ClampIsBounded, PodSlotsAssumption DEF IInv, TypeOK, ActiveLen
<1>2. CASE ActiveLen = 0
    BY <1>2, RefusedKeepsInvariant DEF Pop
<1>3. CASE ActiveLen # 0
  <2>1. last \in 0 .. N
      BY <1>1, <1>3, PodSlotsAssumption
  <2>2. data \in [Slot -> Elem]
      BY <1>1, <2>1, CopyToOne, PodSlotsAssumption
  <2>3. \A k \in Slot : k >= last /\ (k < ActiveLen \/ slots[k] = Zero) => data[k] = Zero
      BY <1>1, <2>1, PodSlotsAssumption DEF CopyTo, Slot
  <2> QED
      BY <1>3, <2>1, <2>2, <2>3, CallKeepsInvariant DEF Pop
<1> QED
    BY <1>2, <1>3

\* swap_remove keeps the invariant: the slot the last element left is zeroed
\* (vec.rs:416-434).
LEMMA SwapRemoveKeepsInvariant ==
    ASSUME IInv, NEW index \in 0 .. N, SwapRemove(index)
    PROVE  IInv'
<1> DEFINE last == ActiveLen - 1
           filled == CopyTo(slots, index, <<slots[last]>>)
           data == CopyTo(filled, last, <<Zero>>)
<1>1. ActiveLen \in 0 .. N /\ slots \in [Slot -> Elem] /\ <<Zero>> \in Seq(Elem)
    BY ClampIsBounded, PodSlotsAssumption DEF IInv, TypeOK, ActiveLen
<1>2. CASE index >= ActiveLen
    BY <1>2, RefusedKeepsInvariant DEF SwapRemove
<1>3. CASE ~(index >= ActiveLen)
  <2>1. last \in 0 .. N /\ last \in Slot /\ index \in Nat /\ index <= last
      BY <1>1, <1>3, PodSlotsAssumption DEF Slot
  <2>2. filled \in [Slot -> Elem]
    <3>1. <<slots[last]>> \in Seq(Elem)
        BY <1>1, <2>1
    <3> QED
        BY <1>1, <2>1, <3>1, CopyToType
  <2>3. data \in [Slot -> Elem]
    <3>1. last \in Nat
        BY <2>1, PodSlotsAssumption
    <3> HIDE DEF filled, last
    <3> QED
        BY <1>1, <2>2, <3>1, CopyToType
  <2>4. \A k \in Slot : k > last => filled[k] = slots[k]
      BY <2>1, PodSlotsAssumption DEF CopyTo, Slot
  <2>5. \A k \in Slot : data[k] = IF k = last THEN Zero ELSE filled[k]
      BY <2>1, <2>2, PodSlotsAssumption DEF CopyTo, Slot
  <2>6. \A k \in Slot : k >= last /\ (k < ActiveLen \/ slots[k] = Zero) => data[k] = Zero
      BY <1>1, <2>1, <2>4, <2>5, PodSlotsAssumption DEF Slot
  <2> HIDE DEF data, filled
  <2>7. Store(last, data, Reply("swap_remove", <<index>>, Some(slots[index])))
      BY <1>3 DEF SwapRemove, data, filled
  <2> QED
      BY <2>1, <2>3, <2>6, <2>7, CallKeepsInvariant DEF SwapRemove
<1> QED
    BY <1>2, <1>3

\* remove keeps the invariant: the last slot is zeroed after the shift
\* (vec.rs:447-472).
LEMMA RemoveKeepsInvariant ==
    ASSUME IInv, NEW index \in 0 .. N, Remove(index)
    PROVE  IInv'
<1> DEFINE last == ActiveLen - 1
           tail == ActiveLen - index - 1
           shifted == [k \in 1 .. tail |-> slots[index + k]]
           moved == CopyTo(slots, index, shifted)
           data == CopyTo(moved, last, <<Zero>>)
<1>1. ActiveLen \in 0 .. N /\ slots \in [Slot -> Elem] /\ <<Zero>> \in Seq(Elem)
    BY ClampIsBounded, PodSlotsAssumption DEF IInv, TypeOK, ActiveLen
<1>2. CASE index >= ActiveLen
    BY <1>2, RefusedKeepsInvariant DEF Remove
<1>3. CASE ~(index >= ActiveLen)
  <2>1. last \in 0 .. N /\ last \in Slot /\ tail \in Nat /\ index + tail = last
      BY <1>1, <1>3, PodSlotsAssumption DEF Slot
  <2>2. shifted \in Seq(Elem) /\ Len(shifted) = tail
    <3>1. \A k \in 1 .. tail : index + k \in Slot
        BY <1>1, <2>1, PodSlotsAssumption DEF Slot
    <3> QED
        BY <1>1, <2>1, <3>1
  <2> HIDE DEF shifted
  <2>3. moved \in [Slot -> Elem]
      BY <1>1, <2>2, CopyToType
  <2>4. data \in [Slot -> Elem]
    <3>1. last \in Nat
        BY <2>1, PodSlotsAssumption
    <3> HIDE DEF moved, last
    <3> QED
        BY <1>1, <2>3, <3>1, CopyToType
  <2>5. \A k \in Slot : k >= last => moved[k] = slots[k]
      BY <2>1, <2>2, PodSlotsAssumption DEF CopyTo, Slot
  <2> HIDE DEF moved
  <2>6. \A k \in Slot : data[k] = IF k = last THEN Zero ELSE moved[k]
      BY <2>1, <2>3, PodSlotsAssumption DEF CopyTo, Slot
  <2>7. \A k \in Slot : k >= last /\ (k < ActiveLen \/ slots[k] = Zero) => data[k] = Zero
      BY <1>1, <2>1, <2>5, <2>6, PodSlotsAssumption DEF Slot
  <2> HIDE DEF data
  <2>8. Store(last, data, Reply("remove", <<index>>, Some(slots[index])))
      BY <1>3 DEF Remove, data, moved, shifted
  <2> QED
      BY <2>1, <2>4, <2>7, <2>8, CallKeepsInvariant DEF Remove
<1> QED
    BY <1>2, <1>3

\* Zeroing from n to the active length is enough to shorten to n
\* (vec.rs:481-488).
LEMMA ZeroRangeVacates ==
    ASSUME IInv, NEW n \in 0 .. N
    PROVE  /\ ZeroRange(slots, n, ActiveLen) \in [Slot -> Elem]
           /\ \A k \in Slot : k >= n /\ (k < ActiveLen \/ slots[k] = Zero)
                  => ZeroRange(slots, n, ActiveLen)[k] = Zero
<1>1. ActiveLen \in 0 .. N /\ slots \in [Slot -> Elem]
    BY ClampIsBounded DEF IInv, TypeOK, ActiveLen
<1>2. ZeroRange(slots, n, ActiveLen) \in [Slot -> Elem]
    BY <1>1, ZeroRangeType, PodSlotsAssumption
<1> QED
    BY <1>1, <1>2, PodSlotsAssumption DEF ZeroRange, Slot

\* truncate keeps the invariant (vec.rs:481-488).
LEMMA TruncateKeepsInvariant ==
    ASSUME IInv, NEW n \in 0 .. N, Truncate(n)
    PROVE  IInv'
<1>1. CASE n < ActiveLen
    BY <1>1, ZeroRangeVacates, CallKeepsInvariant DEF Truncate
<1>2. CASE ~(n < ActiveLen)
    BY <1>2, RefusedKeepsInvariant DEF Truncate
<1> QED
    BY <1>1, <1>2

\* clear keeps the invariant (vec.rs:520-523).
LEMMA ClearKeepsInvariant ==
    ASSUME IInv, Clear
    PROVE  IInv'
<1>1. 0 \in 0 .. N
    BY PodSlotsAssumption
<1> QED
    BY <1>1, ZeroRangeVacates, CallKeepsInvariant DEF Clear

-----------------------------------------------------------------------------
(* retain.                                                                 *)

\* Before the closure runs, every element is where it was (vec.rs:497-498).
LEMMA RetainKeepsInvariant ==
    ASSUME IInv, Retain
    PROVE  IInv'
<1>1. ActiveLen \in 0 .. N /\ ActiveLen' = ActiveLen
    BY ClampIsBounded DEF IInv, TypeOK, ActiveLen, Retain
<1>2. before' \in Seq(Elem) /\ Len(before') = ActiveLen
  <2>1. \A k \in 1 .. ActiveLen : slots[k - 1] \in Elem
      BY <1>1, PodSlotsAssumption DEF IInv, TypeOK, Slot
  <2> QED
      BY <1>1, <2>1, PodSlotsAssumption DEF Retain, Active, ActiveLen
<1>3. kept' = {} /\ Cardinality({}) = 0
    BY FS_EmptySet DEF Retain, IInv, NothingKept
<1>4. TypeOK'
    BY <1>1, <1>2, PodSlotsAssumption DEF Retain, IInv, TypeOK
<1>5. RetainInOrder' /\ NothingKept'
    BY <1>1, <1>2, <1>3, PodSlotsAssumption DEF Retain, RetainInOrder, NothingKept, Running
<1>6. \A k \in 0 .. ActiveLen - 1 : slots[k] = before'[k + 1]
    BY <1>1, PodSlotsAssumption DEF Retain, Active, ActiveLen
<1>7. RetainLosesNothing'
    BY <1>1, <1>3, <1>6 DEF Retain, RetainLosesNothing, Running
<1> QED
    BY <1>1, <1>4, <1>5, <1>7 DEF IInv, Retain, VacatedSlotsAreZero

\* The closure kept an element: it lands on the next slot in front, which no
\* unexamined element occupies any more (vec.rs:503-506).
LEMMA KeepKeepsInvariant ==
    ASSUME IInv, Keep
    PROVE  IInv'
<1> DEFINE r == retain.read
           w == retain.write
<1>1. /\ Running /\ r \in 0 .. N /\ w \in 0 .. N /\ retain.cur \in 0 .. N
      /\ w <= r /\ r < retain.cur /\ retain.cur = ActiveLen
      /\ ActiveLen' = ActiveLen /\ Running'
    BY DEF Keep, IInv, TypeOK, RetainInOrder, ActiveLen, Running
<1>2. slots \in [Slot -> Elem] /\ r \in Slot /\ w \in Slot
    BY <1>1, PodSlotsAssumption DEF IInv, TypeOK, Slot
<1>3. /\ slots' \in [Slot -> Elem]
      /\ \A k \in Slot : slots'[k] = IF k = w THEN slots[r] ELSE slots[k]
  <2>1. slots[r] \in Elem /\ w \in Nat
      BY <1>2, PodSlotsAssumption DEF Slot
  <2>2. slots' = CopyTo(slots, w, <<slots[r]>>)
      BY DEF Keep
  <2> HIDE DEF r, w
  <2> QED
      BY <1>2, <2>1, <2>2, CopyToOne
<1>4. retain' = [running |-> TRUE, read |-> r + 1, write |-> w + 1, cur |-> retain.cur]
    BY <1>1 DEF Keep, IInv, TypeOK, Running
<1>5. kept' = kept \cup {r + 1} /\ kept \subseteq 1 .. r /\ Cardinality(kept) = w
    BY <1>1 DEF Keep, IInv, RetainInOrder
<1> DEFINE n == retain.cur
<1>6. r \in Nat /\ w \in Nat /\ n \in 0 .. N /\ N \in Nat /\ w <= r /\ r < n /\ n = ActiveLen
    BY <1>1, PodSlotsAssumption
<1> HIDE DEF r, w, n
<1>7. IsFiniteSet(kept) /\ r + 1 \notin kept
  <2>1. IsFiniteSet(1 .. r)
      BY <1>6, FS_Interval
  <2>2. IsFiniteSet(kept)
      BY <1>5, <2>1, FS_Subset
  <2>3. r + 1 \notin 1 .. r
      BY <1>6
  <2> QED
      BY <1>5, <2>2, <2>3
<1>8. Cardinality(kept') = w + 1
    BY <1>5, <1>7, FS_AddElement
<1>9. TypeOK'
  <2>1. retain' \in [running : BOOLEAN, read : 0 .. N, write : 0 .. N, cur : 0 .. N]
      BY <1>4, <1>6 DEF n
  <2>2. kept' \subseteq 1 .. N
      BY <1>6, <1>5
  <2> QED
      BY <1>3, <2>1, <2>2 DEF Keep, IInv, TypeOK
<1>10. RetainInOrder' /\ NothingKept'
  <2>1. Len(before') = retain'.cur
      BY <1>1, <1>4 DEF Keep, IInv, RetainInOrder
  <2>2. kept' \subseteq 1 .. r + 1
      BY <1>6, <1>5
  <2> QED
      BY <1>1, <1>4, <1>8, <1>6, <2>1, <2>2 DEF RetainInOrder, NothingKept, n
<1>11. VacatedSlotsAreZero'
  <2>1. \A k \in Slot : k >= ActiveLen => slots'[k] = slots[k]
      BY <1>6, <1>3 DEF Slot
  <2> QED
      BY <1>1, <2>1 DEF Keep, IInv, TypeOK, VacatedSlotsAreZero
<1>12. RetainLosesNothing'
  <2>1. \A i \in kept : {j \in kept' : j < i} = {j \in kept : j < i}
      BY <1>6, <1>5
  <2>2. {j \in kept' : j < r + 1} = kept
    <3>1. \A j \in kept : j < r + 1
        BY <1>5, <1>6
    <3>2. ~(r + 1 < r + 1)
        BY <1>6
    <3> QED
        BY <1>5, <3>1, <3>2
  <2>3. \A i \in kept : Cardinality({j \in kept : j < i}) \in 0 .. w - 1
    <3> SUFFICES ASSUME NEW i \in kept
                 PROVE  Cardinality({j \in kept : j < i}) \in 0 .. w - 1
        OBVIOUS
    <3> DEFINE S == {j \in kept : j < i}
    <3>1. S \subseteq kept /\ S # kept
        BY <1>6, <1>5
    <3>2. IsFiniteSet(S) /\ Cardinality(S) <= Cardinality(kept)
          /\ (Cardinality(S) = Cardinality(kept) => S = kept)
        BY <1>7, <3>1, FS_Subset
    <3>3. Cardinality(S) \in Nat
        BY <3>2, FS_CardinalityType
    <3> QED
        BY <1>6, <1>5, <3>1, <3>2, <3>3
  <2>4. \A i \in kept' : slots'[Cardinality({j \in kept' : j < i})] = before'[i]
    <3> SUFFICES ASSUME NEW i \in kept'
                 PROVE  slots'[Cardinality({j \in kept' : j < i})] = before'[i]
        OBVIOUS
    <3>1. CASE i = r + 1
      <4>1. slots'[w] = slots[r]
          BY <1>2, <1>3
      <4>2. slots[r] = before[r + 1]
          BY <1>1, <1>6 DEF IInv, RetainLosesNothing, r, n
      <4> QED
          BY <1>5, <2>2, <3>1, <4>1, <4>2 DEF Keep
    <3>2. CASE i \in kept
      <4> DEFINE c == Cardinality({j \in kept : j < i})
      <4>1. c \in Slot /\ c # w
          BY <1>6, <2>3, <3>2 DEF Slot
      <4>2. slots[c] = before[i]
          BY <1>1, <3>2 DEF IInv, RetainLosesNothing
      <4>3. slots'[c] = slots[c]
          BY <1>3, <4>1
      <4> QED
          BY <2>1, <3>2, <4>2, <4>3 DEF Keep
    <3> QED
        BY <1>5, <3>1, <3>2
  <2>5. \A k \in r + 1 .. retain.cur - 1 : slots'[k] = before'[k + 1]
    <3> SUFFICES ASSUME NEW k \in r + 1 .. retain.cur - 1
                 PROVE  slots'[k] = before[k + 1]
        BY DEF Keep, r
    <3>1. k \in Slot /\ k # w /\ k \in r .. retain.cur - 1
        BY <1>6 DEF Slot, n
    <3>2. slots[k] = before[k + 1]
        BY <1>1, <3>1 DEF IInv, RetainLosesNothing, r
    <3> QED
        BY <1>3, <3>1, <3>2
  <2> QED
      BY <1>1, <1>4, <2>4, <2>5 DEF RetainLosesNothing, r
<1> QED
    BY <1>9, <1>10, <1>11, <1>12 DEF IInv

\* The closure dropped an element: nothing moves (vec.rs:500-507).
LEMMA DropKeepsInvariant ==
    ASSUME IInv, Drop
    PROVE  IInv'
<1>1. /\ Running /\ Running' /\ ActiveLen' = ActiveLen
      /\ retain.read \in 0 .. N /\ retain.write \in 0 .. N /\ retain.cur \in 0 .. N
      /\ retain.write <= retain.read /\ retain.read < retain.cur
    BY DEF Drop, IInv, TypeOK, RetainInOrder, Running, ActiveLen
<1>2. retain' = [running |-> TRUE, read |-> retain.read + 1,
                 write |-> retain.write, cur |-> retain.cur]
    BY <1>1 DEF Drop, IInv, TypeOK, Running
<1>3. TypeOK'
    BY <1>1, <1>2, PodSlotsAssumption DEF Drop, IInv, TypeOK
<1>4. RetainInOrder' /\ NothingKept'
  <2>1. kept' \subseteq 1 .. retain.read + 1
      BY <1>1, PodSlotsAssumption DEF Drop, IInv, RetainInOrder
  <2> QED
      BY <1>1, <1>2, <2>1, PodSlotsAssumption DEF Drop, IInv, RetainInOrder, NothingKept
<1>5. RetainLosesNothing'
  <2>1. \A k \in retain.read + 1 .. retain.cur - 1 : k \in retain.read .. retain.cur - 1
      BY <1>1, PodSlotsAssumption
  <2> QED
      BY <1>1, <1>2, <2>1 DEF Drop, IInv, RetainLosesNothing
<1> QED
    BY <1>1, <1>3, <1>4, <1>5 DEF IInv, Drop, VacatedSlotsAreZero

\* A closure that panics leaves the bytes and the old length (vec.rs:503).
LEMMA PanicKeepsInvariant ==
    ASSUME IInv, Panic
    PROVE  IInv'
<1>1. ~Running'
    BY DEF Panic, EndRetain, Idle, Running
<1>2. TypeOK'
    BY PodSlotsAssumption DEF IInv, TypeOK, Panic, EndRetain, Idle
<1> QED
    BY <1>1, <1>2
    DEF IInv, Panic, EndRetain, RetainInOrder, NothingKept, VacatedSlotsAreZero,
        RetainLosesNothing, ActiveLen

\* retain ends: what the kept elements do not fill is zeroed (vec.rs:509-510).
LEMMA FinishRetainKeepsInvariant ==
    ASSUME IInv, FinishRetain
    PROVE  IInv'
<1>1. /\ retain.write \in 0 .. N
      /\ retain.cur = ActiveLen
    BY DEF FinishRetain, IInv, TypeOK, RetainInOrder, Running
<1>2. ~Running' /\ kept' = {} /\ before' \in Seq(Elem)
    BY DEF FinishRetain, EndRetain, Idle, Running
<1>3. retain' \in [running : BOOLEAN, read : 0 .. N, write : 0 .. N, cur : 0 .. N]
    BY PodSlotsAssumption DEF FinishRetain, EndRetain, Idle
<1>4. Store(retain.write, ZeroRange(slots, retain.write, ActiveLen),
               Reply("retain", <<retain.read, kept>>, Done))
    BY <1>1 DEF FinishRetain
<1> HIDE DEF IInv
<1> QED
    BY <1>1, <1>2, <1>3, <1>4, ZeroRangeVacates, StoreKeepsInvariant

-----------------------------------------------------------------------------

\* One step of a call or of a closure keeps the invariant.
LEMMA StepKeepsInvariant ==
    ASSUME IInv, [Next]_vars
    PROVE  IInv'
<1>1. CASE UNCHANGED vars
    BY <1>1 DEF vars, IInv, TypeOK, RetainInOrder, NothingKept, VacatedSlotsAreZero,
                RetainLosesNothing, Running, ActiveLen
<1>2. CASE Next
    BY <1>2, TryPushKeepsInvariant, TrySetKeepsInvariant, TryExtendKeepsInvariant,
       AssignKeepsInvariant, PopKeepsInvariant, SwapRemoveKeepsInvariant,
       RemoveKeepsInvariant, TruncateKeepsInvariant, ClearKeepsInvariant,
       RetainKeepsInvariant, KeepKeepsInvariant, DropKeepsInvariant,
       PanicKeepsInvariant, FinishRetainKeepsInvariant
    DEF Next
<1> QED
    BY <1>1, <1>2

\* The inductive invariant of a container holds whatever bytes it is laid over
\* and whatever calls are made on it (vec.rs:234-523).
THEOREM Invariance == Spec => []IInv
<1>1. Init => IInv
    BY InitInvariant
<1>2. IInv /\ [Next]_vars => IInv'
    BY StepKeepsInvariant
<1> QED
    BY <1>1, <1>2, PTL DEF Spec

\* No call indexes a slot past the capacity or stores a length past it, corrupt
\* prefix or not: the state keeps its type (vec.rs:150-154).
THEOREM TypeCorrect == Spec => []TypeOK
<1>1. IInv => TypeOK
    BY DEF IInv
<1> QED
    BY <1>1, Invariance, PTL

\* A slot an element was removed from is zero until it is written again, for
\* every way to shorten a vector (vec.rs:381-385).
THEOREM VacatedSlotsAreZeroAlways == Spec => []VacatedSlotsAreZero
<1>1. IInv => VacatedSlotsAreZero
    BY DEF IInv
<1> QED
    BY <1>1, Invariance, PTL

\* A closure that panics inside retain costs no element that it kept or had not
\* seen, at any capacity (vec.rs:496-511).
THEOREM RetainLosesNothingAlways == Spec => []RetainLosesNothing
<1>1. IInv => RetainLosesNothing
    BY DEF IInv
<1> QED
    BY <1>1, Invariance, PTL

-----------------------------------------------------------------------------
(* Validity.                                                               *)

\* The prefix of a container the readers accept needs no clamp (traits.rs:187).
LEMMA ValidLen ==
    ASSUME IInv, Valid(len, slots)
    PROVE  /\ ActiveLen = len /\ len \in 0 .. N
           /\ \A k \in Slot : k < ActiveLen => slots[k] \in Legal
<1>1. len \in 0 .. N
    BY PodSlotsAssumption DEF IInv, TypeOK, Valid
<1> QED
    BY <1>1, EncodeLenIsExact, PodSlotsAssumption DEF ActiveLen, Valid, Slot

\* What a finished call that stores n elements over `data` has to show for the
\* readers to accept the result (traits.rs:184-195).
LEMMA StoreKeepsValid ==
    ASSUME NEW n \in 0 .. N, NEW data, NEW answer, Store(n, data, answer),
           \A k \in Slot : k < n => data[k] \in Legal
    PROVE  Valid(len', slots')
<1>1. len' = n /\ slots' = data
    BY EncodeLenIsExact DEF Store
<1> QED
    BY <1>1, PodSlotsAssumption DEF Valid, Slot

\* Calls that grow or replace store valid values next to valid ones
\* (vec.rs:251-381).
LEMMA GrowthKeepsValid ==
    ASSUME IInv, Valid(len, slots),
           \/ \E v \in Given : TryPush(v)
           \/ \E values \in Inputs : TrySet(values) \/ TryExtend(values)
           \/ \E index \in Slot, v \in Given : Assign(index, v)
    PROVE  Valid(len', slots')
<1>1. /\ ActiveLen = len /\ len \in 0 .. N
      /\ \A k \in Slot : k < ActiveLen => slots[k] \in Legal
    BY ValidLen
<1>2. slots \in [Slot -> Elem]
    BY DEF IInv, TypeOK
<1>3. ASSUME NEW answer, Refused(answer) PROVE Valid(len', slots')
    BY <1>3 DEF Refused
<1>4. ASSUME NEW v \in Given, TryPush(v) PROVE Valid(len', slots')
  <2>1. CASE ActiveLen >= N
      BY <1>3, <1>4, <2>1 DEF TryPush
  <2>2. CASE ~(ActiveLen >= N)
    <3> DEFINE data == CopyTo(slots, ActiveLen, <<v>>)
    <3>1. ActiveLen + 1 \in 0 .. N /\ ActiveLen \in Nat
        BY <1>1, <2>2, PodSlotsAssumption
    <3>2. \A k \in Slot : data[k] = IF k = ActiveLen THEN v ELSE slots[k]
        BY <1>2, <1>4, <3>1, CopyToOne, PodSlotsAssumption, GivenAssumption
    <3>3. \A k \in Slot : k < ActiveLen + 1 => data[k] \in Legal
        BY <1>1, <1>4, <3>1, <3>2, PodSlotsAssumption, GivenAssumption DEF Slot
    <3>4. Store(ActiveLen + 1, data, Reply("try_push", <<v>>, Done))
        BY <1>4, <2>2 DEF TryPush
    <3> HIDE DEF data
    <3> QED
        BY <3>1, <3>3, <3>4, StoreKeepsValid
  <2> QED
      BY <2>1, <2>2
<1>5. ASSUME NEW values \in Inputs, TrySet(values) PROVE Valid(len', slots')
  <2>1. CASE Len(values) > N
      BY <1>3, <1>5, <2>1 DEF TrySet
  <2>2. CASE ~(Len(values) > N)
    <3> DEFINE copied == CopyTo(slots, 0, values)
               data == IF Len(values) < ActiveLen
                       THEN ZeroRange(copied, Len(values), ActiveLen) ELSE copied
    <3>1. values \in Seq(Legal) /\ Len(values) \in 0 .. N
        BY <1>5, <2>2, PodSlotsAssumption, GivenAssumption DEF Inputs
    <3>2. \A k \in Slot : k < Len(values) => copied[k] \in Legal
        BY <3>1, PodSlotsAssumption DEF CopyTo, Slot
    <3> HIDE DEF copied
    <3>3. \A k \in Slot : k < Len(values) => data[k] \in Legal
        BY <1>1, <3>1, <3>2, PodSlotsAssumption DEF ZeroRange, Slot
    <3>4. Store(Len(values), data, Reply("try_set", values, Done))
        BY <1>5, <2>2 DEF TrySet, copied
    <3> HIDE DEF data
    <3> QED
        BY <3>1, <3>3, <3>4, StoreKeepsValid
  <2> QED
      BY <2>1, <2>2
<1>6. ASSUME NEW values \in Inputs, TryExtend(values) PROVE Valid(len', slots')
  <2> DEFINE n == ActiveLen + Len(values)
  <2>1. CASE n > N
      BY <1>3, <1>6, <2>1 DEF TryExtend
  <2>2. CASE ~(n > N)
    <3> DEFINE data == CopyTo(slots, ActiveLen, values)
    <3>1. values \in Seq(Legal) /\ Len(values) \in Nat
        BY <1>6, PodSlotsAssumption, GivenAssumption DEF Inputs
    <3>2. n \in 0 .. N
        BY <1>1, <2>2, <3>1, PodSlotsAssumption
    <3>3. \A k \in Slot : k < n => data[k] \in Legal
        BY <1>1, <3>1, PodSlotsAssumption DEF CopyTo, Slot
    <3>4. Store(n, data, Reply("try_extend", values, Done))
        BY <1>6, <2>2 DEF TryExtend
    <3> HIDE DEF data, n
    <3> QED
        BY <3>2, <3>3, <3>4, StoreKeepsValid
  <2> QED
      BY <2>1, <2>2
<1>7. ASSUME NEW index \in Slot, NEW v \in Given, Assign(index, v) PROVE Valid(len', slots')
  <2>1. \A k \in Slot : slots'[k] = IF k = index THEN v ELSE slots[k]
      BY <1>2, <1>7, CopyToOne, PodSlotsAssumption, GivenAssumption DEF Assign, Slot
  <2> QED
      BY <1>1, <1>7, <2>1, PodSlotsAssumption, GivenAssumption DEF Assign, Valid, Slot
<1> QED
    BY <1>4, <1>5, <1>6, <1>7

\* Calls that shorten leave valid elements only (vec.rs:391-523).
LEMMA ShorteningKeepsValid ==
    ASSUME IInv, Valid(len, slots),
           \/ Pop \/ Clear
           \/ \E index \in 0 .. N : SwapRemove(index) \/ Remove(index)
           \/ \E n \in 0 .. N : Truncate(n)
    PROVE  Valid(len', slots')
<1> DEFINE last == ActiveLen - 1
<1>1. /\ ActiveLen = len /\ len \in 0 .. N
      /\ \A k \in Slot : k < ActiveLen => slots[k] \in Legal
    BY ValidLen
<1>2. slots \in [Slot -> Elem]
    BY DEF IInv, TypeOK
<1>3. ASSUME NEW answer, Refused(answer) PROVE Valid(len', slots')
    BY <1>3 DEF Refused
<1>4. ASSUME NEW n \in 0 .. ActiveLen, NEW to, NEW answer,
             Store(n, ZeroRange(slots, n, to), answer)
      PROVE  Valid(len', slots')
  <2>1. \A k \in Slot : k < n => ZeroRange(slots, n, to)[k] \in Legal
      BY <1>1, PodSlotsAssumption DEF ZeroRange, Slot
  <2>2. n \in 0 .. N
      BY <1>1, PodSlotsAssumption
  <2> QED
      BY <1>4, <2>1, <2>2, StoreKeepsValid
<1>5. ASSUME NEW data \in [Slot -> Elem], NEW answer, ActiveLen # 0,
             Store(last, CopyTo(data, last, <<Zero>>), answer),
             \A k \in Slot : k < last => data[k] \in Legal
      PROVE  Valid(len', slots')
  <2>1. last \in 0 .. N /\ last \in Nat
      BY <1>1, <1>5, PodSlotsAssumption
  <2>2. \A k \in Slot : k < last => CopyTo(data, last, <<Zero>>)[k] \in Legal
    <3> HIDE DEF last
    <3>1. \A k \in Slot : k < last => CopyTo(data, last, <<Zero>>)[k] = data[k]
        BY <1>5, <2>1, CopyToOne, PodSlotsAssumption DEF Slot
    <3> QED
        BY <1>5, <3>1
  <2> QED
      BY <1>5, <2>1, <2>2, StoreKeepsValid
<1>6. ASSUME Pop PROVE Valid(len', slots')
  <2>1. CASE ActiveLen = 0
      BY <1>3, <1>6, <2>1 DEF Pop
  <2>2. CASE ActiveLen # 0
    <3>1. \A k \in Slot : k < last => slots[k] \in Legal
        BY <1>1, PodSlotsAssumption DEF Slot
    <3> QED
        BY <1>2, <1>5, <1>6, <2>2, <3>1 DEF Pop
  <2> QED
      BY <2>1, <2>2
<1>7. ASSUME Clear PROVE Valid(len', slots')
    BY <1>1, <1>4, <1>7, PodSlotsAssumption DEF Clear
<1>8. ASSUME NEW index \in 0 .. N, SwapRemove(index) PROVE Valid(len', slots')
  <2> DEFINE filled == CopyTo(slots, index, <<slots[last]>>)
  <2>1. CASE index >= ActiveLen
      BY <1>3, <1>8, <2>1 DEF SwapRemove
  <2>2. CASE ~(index >= ActiveLen)
    <3>1. last \in Slot /\ index \in Nat /\ ActiveLen # 0 /\ last < ActiveLen
        BY <1>1, <1>8, <2>2, PodSlotsAssumption DEF Slot
    <3>2. slots[last] \in Elem /\ slots[last] \in Legal
        BY <1>1, <1>2, <3>1
    <3>3. /\ filled \in [Slot -> Elem]
          /\ \A k \in Slot : filled[k] = IF k = index THEN slots[last] ELSE slots[k]
        BY <1>2, <3>1, <3>2, CopyToOne
    <3>4. \A k \in Slot : k < last => filled[k] \in Legal
        BY SMTT(60), <1>1, <3>2, <3>3, PodSlotsAssumption DEF Slot
    <3>5. Store(last, CopyTo(filled, last, <<Zero>>), 
               Reply("swap_remove", <<index>>, Some(slots[index])))
        BY <1>8, <2>2 DEF SwapRemove
    <3> HIDE DEF filled
    <3> QED
        BY <1>5, <3>1, <3>3, <3>4, <3>5
  <2> QED
      BY <2>1, <2>2
<1>9. ASSUME NEW index \in 0 .. N, Remove(index) PROVE Valid(len', slots')
  <2> DEFINE tail == ActiveLen - index - 1
             shifted == [k \in 1 .. tail |-> slots[index + k]]
             moved == CopyTo(slots, index, shifted)
  <2>1. CASE index >= ActiveLen
      BY <1>3, <1>9, <2>1 DEF Remove
  <2>2. CASE ~(index >= ActiveLen)
    <3>1. tail \in Nat /\ index \in Nat /\ ActiveLen # 0 /\ index + tail = last
        BY <1>1, <1>9, <2>2, PodSlotsAssumption
    <3>2. \A k \in 1 .. tail : index + k \in Slot /\ index + k < ActiveLen
        BY <1>1, <3>1, PodSlotsAssumption DEF Slot
    <3>3. /\ shifted \in Seq(Elem) /\ Len(shifted) = tail
          /\ \A k \in 1 .. tail : shifted[k] \in Legal
        BY <1>1, <1>2, <3>1, <3>2
    <3>4. Store(last, CopyTo(moved, last, <<Zero>>), 
               Reply("remove", <<index>>, Some(slots[index])))
        BY <1>9, <2>2 DEF Remove
    <3> HIDE DEF shifted
    <3>5. moved \in [Slot -> Elem]
        BY <1>2, <3>1, <3>3, CopyToType
    <3>6. \A k \in Slot : k < last => moved[k] \in Legal
        BY <1>1, <3>1, <3>3, PodSlotsAssumption DEF CopyTo, Slot
    <3> HIDE DEF moved
    <3> QED
        BY <1>5, <3>1, <3>4, <3>5, <3>6
  <2> QED
      BY <2>1, <2>2
<1>10. ASSUME NEW n \in 0 .. N, Truncate(n) PROVE Valid(len', slots')
  <2>1. CASE n < ActiveLen
    <3>1. n \in 0 .. ActiveLen
        BY <1>1, <1>10, <2>1, PodSlotsAssumption
    <3> QED
        BY <1>4, <1>10, <2>1, <3>1 DEF Truncate
  <2>2. CASE ~(n < ActiveLen)
      BY <1>3, <1>10, <2>2 DEF Truncate
  <2> QED
      BY <2>1, <2>2
<1> QED
    BY <1>6, <1>7, <1>8, <1>9, <1>10

\* At every point where a closure can unwind, the container is one the readers
\* accept (vec.rs:496-511).
LEMMA RetainKeepsValid ==
    ASSUME IInv, Valid(len, slots), Retain \/ Keep \/ Drop \/ Panic \/ FinishRetain
    PROVE  Valid(len', slots')
<1>1. /\ ActiveLen = len /\ len \in 0 .. N
      /\ \A k \in Slot : k < ActiveLen => slots[k] \in Legal
    BY ValidLen
<1>2. slots \in [Slot -> Elem]
    BY DEF IInv, TypeOK
<1>3. CASE Retain \/ Drop \/ Panic
    BY <1>3 DEF Retain, Drop, Panic
<1>4. CASE Keep
  <2> DEFINE r == retain.read
             w == retain.write
  <2>1. /\ r \in 0 .. N /\ w \in 0 .. N /\ w <= r /\ r < ActiveLen
        /\ slots' = CopyTo(slots, w, <<slots[r]>>)
      BY <1>4 DEF Keep, IInv, TypeOK, RetainInOrder
  <2> HIDE DEF r, w
  <2>2. r \in Slot /\ w \in Nat
      BY <1>1, <2>1, PodSlotsAssumption DEF Slot
  <2>3. slots[r] \in Elem /\ slots[r] \in Legal
      BY <1>1, <1>2, <2>1, <2>2
  <2>4. \A k \in Slot : slots'[k] = IF k = w THEN slots[r] ELSE slots[k]
      BY <1>2, <2>1, <2>2, <2>3, CopyToOne
  <2> QED
      BY <1>1, <1>4, <2>3, <2>4, PodSlotsAssumption DEF Keep, Valid, Slot
<1>5. CASE FinishRetain
  <2> DEFINE w == retain.write
  <2>1. /\ w \in 0 .. N /\ w <= ActiveLen
        /\ Store(w, ZeroRange(slots, w, ActiveLen),
                 Reply("retain", <<retain.read, kept>>, Done))
      BY <1>1, <1>5, PodSlotsAssumption DEF FinishRetain, IInv, TypeOK, RetainInOrder
  <2> HIDE DEF w
  <2>2. \A k \in Slot : k < w => ZeroRange(slots, w, ActiveLen)[k] \in Legal
      BY <1>1, <2>1, PodSlotsAssumption DEF ZeroRange, Slot
  <2> QED
      BY <2>1, <2>2, StoreKeepsValid
<1> QED
    BY <1>3, <1>4, <1>5

\* Valid values in, valid containers out: no sequence of calls makes a container
\* the readers refuse, for any capacity and element type (traits.rs:184-195).
THEOREM ValidStaysValidAlways == Spec => ValidStaysValid
<1>1. IInv /\ [Next]_vars => [Valid(len, slots) => Valid(len', slots')]_vars
  <2> SUFFICES ASSUME IInv, Next, Valid(len, slots)
               PROVE  Valid(len', slots')
      BY DEF vars
  <2> QED
      BY GrowthKeepsValid, ShorteningKeepsValid, RetainKeepsValid DEF Next
<1> QED
    BY <1>1, Invariance, PTL DEF Spec, ValidStaysValid

-----------------------------------------------------------------------------
(* Ranks: the i-th member of a set of positions.                           *)

\* A non-empty set of numbers up to a bound has a smallest one.
LEMMA SmallestExists ==
    ASSUME NEW n \in Nat, NEW S, S \subseteq 0 .. n, S # {}
    PROVE  \E b \in S : \A a \in S : b <= a
<1>. DEFINE T == {n - b : b \in S}
<1>1. T \subseteq 0 .. n /\ T # {}
  <2>1. ASSUME NEW b \in S PROVE n - b \in 0 .. n
    <3>1. b \in 0 .. n
        OBVIOUS
    <3>. QED
        BY <3>1
  <2>2. PICK b \in S : TRUE
      OBVIOUS
  <2>3. n - b \in T
      OBVIOUS
  <2>. QED
      BY <2>1, <2>3
<1>2. \E t \in T : \A u \in T : u <= t
  <2>. HIDE DEF T
  <2>. QED
      BY <1>1, LargestExists
<1>3. PICK b \in S : \A u \in T : u <= n - b
    BY <1>2
<1>4. ASSUME NEW a \in S PROVE b <= a
  <2>1. a \in 0 .. n /\ b \in 0 .. n /\ n - a <= n - b
      BY <1>3
  <2>. QED
      BY <2>1
<1>. QED
    BY <1>4

\* The members of K up to k.
Upto(K, k) == {j \in K : j <= k}

\* The i-th member of K.
Ranked(K, i) == CHOOSE k \in K : Cardinality(Upto(K, k)) = i

\* BoundedVec picks the members of K in order, and counts the same way.
LEMMA PickedIs ==
    ASSUME NEW K, NEW s
    PROVE  /\ Vec!Cardinality(K) = Cardinality(K)
           /\ Vec!Picked(s, K) = [i \in 1 .. Cardinality(K) |-> s[Ranked(K, i)]]
BY DEF Vec!Picked, Vec!Cardinality, Cardinality, Upto, Ranked

\* The members of K up to k are those before it and k.
LEMMA UptoAdds ==
    ASSUME NEW n \in Nat, NEW K, K \subseteq 1 .. n, NEW k \in K
    PROVE  /\ IsFiniteSet({j \in K : j < k})
           /\ Cardinality({j \in K : j < k}) \in Nat
           /\ Cardinality(Upto(K, k)) = Cardinality({j \in K : j < k}) + 1
<1>. DEFINE L == {j \in K : j < k}
<1>1. k \in 1 .. n
    OBVIOUS
<1>2. \A j \in K : j \in 1 .. n
    OBVIOUS
<1>3. L \subseteq 1 .. n /\ k \notin L
  <2>1. ~(k < k)
      BY <1>1
  <2>. QED
      BY <2>1
<1>4. Upto(K, k) = L \cup {k}
  <2>1. \A j \in K : j <= k <=> j < k \/ j = k
      BY <1>1, <1>2
  <2>. QED
      BY <2>1 DEF Upto
<1>5. IsFiniteSet(L)
  <2>1. IsFiniteSet(1 .. n)
      BY FS_Interval
  <2>. HIDE DEF L
  <2>. QED
      BY <1>3, <2>1, FS_Subset
<1>6. Cardinality(L) \in Nat /\ Cardinality(L \cup {k}) = Cardinality(L) + 1
  <2>. HIDE DEF L
  <2>. QED
      BY <1>3, <1>5, FS_CardinalityType, FS_AddElement
<1>. QED
    BY <1>4, <1>5, <1>6

\* Each number up to the cardinality is the rank of a member.
LEMMA RankExists ==
    ASSUME NEW n \in Nat, NEW K, K \subseteq 1 .. n, NEW i \in 1 .. Cardinality(K)
    PROVE  \E k \in K : Cardinality(Upto(K, k)) = i
<1>1. IsFiniteSet(K) /\ Cardinality(K) \in Nat /\ K \subseteq 0 .. n
  <2>1. IsFiniteSet(1 .. n)
      BY FS_Interval
  <2>2. IsFiniteSet(K)
      BY <2>1, FS_Subset
  <2>3. Cardinality(K) \in Nat
      BY <2>2, FS_CardinalityType
  <2>4. K \subseteq 0 .. n
      OBVIOUS
  <2>. QED
      BY <2>2, <2>3, <2>4
<1>. DEFINE S == {k \in K : Cardinality(Upto(K, k)) >= i}
<1>2. K # {}
    BY <1>1, FS_EmptySet
<1>3. PICK m \in K : \A a \in K : a <= m
    BY <1>1, <1>2, LargestExists
<1>4. m \in S
  <2>1. Upto(K, m) = K
      BY <1>3 DEF Upto
  <2>. QED
      BY <1>1, <2>1
<1>5. PICK k \in S : \A a \in S : k <= a
  <2>1. S \subseteq 0 .. n /\ S # {}
      BY <1>1, <1>4
  <2>. HIDE DEF S
  <2>. QED
      BY <2>1, SmallestExists
<1>. DEFINE L == {j \in K : j < k}
            c == Cardinality(L)
<1>6. /\ k \in K /\ IsFiniteSet(L) /\ c \in Nat
      /\ Cardinality(Upto(K, k)) = c + 1 /\ c + 1 >= i
    BY UptoAdds
<1>7. c < i
  <2>. SUFFICES ASSUME c >= i PROVE FALSE
      BY <1>1, <1>6
  <2>1. L # {}
    <3>. HIDE DEF L
    <3>. QED
        BY <1>1, FS_EmptySet
  <2>2. PICK l \in L : \A a \in L : a <= l
    <3>1. L \subseteq 0 .. n
        BY <1>1
    <3>. HIDE DEF L
    <3>. QED
        BY <2>1, <3>1, LargestExists
  <2>3. l \in K /\ l < k /\ l \in 1 .. n /\ k \in 1 .. n
      BY <1>6
  <2>4. Upto(K, l) = L
    <3>1. ASSUME NEW j \in K PROVE j <= l <=> j < k
      <4>1. j \in 1 .. n
          OBVIOUS
      <4>2. j < k => j <= l
          BY <2>2
      <4>. QED
          BY <2>3, <4>1, <4>2
    <3>. QED
        BY <3>1 DEF Upto
  <2>5. l \in S
      BY <2>3, <2>4
  <2>6. k <= l
      BY <1>5, <2>5
  <2>. QED
      BY <2>3, <2>6
<1>. HIDE DEF c
<1>8. Cardinality(Upto(K, k)) = i
    BY <1>1, <1>6, <1>7
<1>. QED
    BY <1>6, <1>8

\* Picked lists the members of s at the ranks of K.
LEMMA PickedAt ==
    ASSUME NEW n \in Nat, NEW K, K \subseteq 1 .. n, NEW s,
           NEW i \in 1 .. Cardinality(K)
    PROVE  \E k \in K : Cardinality(Upto(K, k)) = i /\ Vec!Picked(s, K)[i] = s[k]
<1>. DEFINE IsRank(k) == Cardinality(Upto(K, k)) = i
<1>1. Vec!Picked(s, K)[i] = s[Ranked(K, i)]
  <2>1. Vec!Picked(s, K) = [r \in 1 .. Cardinality(K) |-> s[Ranked(K, r)]]
      BY PickedIs
  <2>. QED
      BY <2>1
<1>2. \E k \in K : IsRank(k)
    BY RankExists
<1>3. Ranked(K, i) \in K /\ IsRank(Ranked(K, i))
    BY <1>2, Zenon DEF Ranked
<1>. QED
    BY <1>1, <1>3

\* All positions but one.
LEMMA PickedAllBut ==
    ASSUME NEW n \in Nat, NEW i \in 1 .. n, NEW s, NEW K, K = (1 .. n) \ {i}
    PROVE  /\ Cardinality(K) = n - 1
           /\ \A p \in 1 .. (n - 1) :
                  Vec!Picked(s, K)[p] = IF p < i THEN s[p] ELSE s[p + 1]
<1>1. IsFiniteSet(1 .. n) /\ Cardinality(1 .. n) = n
    BY FS_Interval
<1>2. Cardinality(K) = n - 1
    BY <1>1, FS_RemoveElement
<1>3. ASSUME NEW p \in 1 .. (n - 1)
      PROVE  Vec!Picked(s, K)[p] = IF p < i THEN s[p] ELSE s[p + 1]
  <2>1. PICK k \in K : Cardinality(Upto(K, k)) = p /\ Vec!Picked(s, K)[p] = s[k]
    <3>1. p \in 1 .. Cardinality(K) /\ K \subseteq 1 .. n
        BY <1>2
    <3>. QED
        BY <3>1, PickedAt
  <2>2. k \in 1 .. n /\ k # i /\ k \in Nat /\ i \in Nat /\ n \in Nat
      OBVIOUS
  <2>3. IsFiniteSet(1 .. k) /\ Cardinality(1 .. k) = k
      BY <2>2, FS_Interval
  <2>4. CASE k < i
    <3>1. Upto(K, k) = 1 .. k
        BY <2>2, <2>4 DEF Upto
    <3>. QED
        BY <2>1, <2>2, <2>3, <2>4, <3>1
  <2>5. CASE i < k
    <3>1. Upto(K, k) = (1 .. k) \ {i}
        BY <2>2, <2>5 DEF Upto
    <3>2. Cardinality((1 .. k) \ {i}) = k - 1
      <4>1. i \in 1 .. k
          BY <2>2, <2>5
      <4>. QED
          BY <2>3, <4>1, FS_RemoveElement
    <3>3. p = k - 1
        BY <2>1, <3>1, <3>2
    <3>. QED
        BY <2>1, <2>2, <2>5, <3>3
  <2>. QED
      BY <2>2, <2>4, <2>5
<1>. QED
    BY <1>2, <1>3

-----------------------------------------------------------------------------
(* The sequence a container shows, and what BoundedVec allows it to become. *)

\* While retain runs, the program has not got its vector back.
Shown == IF Running THEN before ELSE Active(len, slots)

\* A concatenation, element by element.
LEMMA ConcatIs ==
    ASSUME NEW S, NEW s \in Seq(S), NEW t \in Seq(S)
    PROVE  s \o t = [k \in 1 .. Len(s) + Len(t) |->
                        IF k <= Len(s) THEN s[k] ELSE t[k - Len(s)]]
<1>. DEFINE u == s \o t
<1>1. /\ u \in Seq(S) /\ Len(u) = Len(s) + Len(t)
      /\ \A k \in 1 .. Len(s) + Len(t) :
             u[k] = IF k <= Len(s) THEN s[k] ELSE t[k - Len(s)]
    BY ConcatProperties
<1>. HIDE DEF u
<1>2. u = [k \in 1 .. Len(s) + Len(t) |-> u[k]]
    BY <1>1
<1>. QED
    BY <1>1, <1>2 DEF u

\* A subsequence, element by element.
LEMMA SubSeqIs ==
    ASSUME NEW S, NEW s \in Seq(S), NEW m \in 1 .. Len(s) + 1, NEW n \in 0 .. Len(s)
    PROVE  SubSeq(s, m, n) = [k \in 1 .. n - m + 1 |-> s[k + m - 1]]
OBVIOUS

\* The answers of the two modules are the same tuples.
LEMMA SameAnswers ==
    /\ \A method, given, result : Vec!Reply(method, given, result) = Reply(method, given, result)
    /\ Vec!None = None /\ Vec!Done = Done /\ Vec!Overflow = Overflow
    /\ Vec!Panicked = Panicked /\ Vec!Pending = Pending /\ Vec!NoReply = NoReply
    /\ \A v : Vec!Some(v) = Some(v)
BY DEF Vec!Reply, Reply, Vec!None, None, Vec!Done, Done, Vec!Overflow, Overflow, Vec!Panicked,
       Panicked, Vec!Pending, Pending, Vec!NoReply, NoReply, Vec!Some, Some

\* No answer of a call is the one that says retain runs.
LEMMA AnswersAreNotPending ==
    /\ \A method, given, result : Reply(method, given, result) # Pending
    /\ NoReply # Pending
<1>1. ASSUME NEW method, NEW given, NEW result PROVE Reply(method, given, result) # Pending
  <2>1. Len(<<method, given, result>>) = 3 /\ Len(<<"retain runs">>) = 1
      OBVIOUS
  <2>. QED
      BY <2>1 DEF Reply, Pending
<1>2. NoReply # Pending
  <2>1. <<"no call">>[1] = "no call" /\ <<"retain runs">>[1] = "retain runs"
      OBVIOUS
  <2>. QED
      BY <2>1 DEF NoReply, Pending
<1>. QED
    BY <1>1, <1>2

\* The last answer says that retain runs exactly while it does.
PendingIsRunning == (reply = Pending) <=> Running

\* No retain runs on fresh account bytes.
LEMMA PendingInit == Init => PendingIsRunning
BY AnswersAreNotPending DEF Init, Idle, PendingIsRunning, Running

\* Every call answers with its own name once it ends; retain says it runs.
LEMMA PendingStep ==
    ASSUME IInv, PendingIsRunning, [Next]_vars
    PROVE  PendingIsRunning'
<1>1. ASSUME ~Running', reply' # Pending PROVE PendingIsRunning'
    BY <1>1 DEF PendingIsRunning
<1>2. CASE UNCHANGED vars
    BY <1>2 DEF vars, PendingIsRunning, Running
<1>3. ASSUME NEW method, NEW given, NEW result, reply' = Reply(method, given, result), ~Running'
      PROVE  PendingIsRunning'
    BY <1>1, <1>3, AnswersAreNotPending
<1>4. ASSUME NEW v \in Given, TryPush(v) PROVE PendingIsRunning'
    BY <1>3, <1>4 DEF TryPush, Call, Refused, Store, Running
<1>5. ASSUME NEW values \in Inputs, TrySet(values) PROVE PendingIsRunning'
    BY <1>3, <1>5 DEF TrySet, Call, Refused, Store, Running
<1>6. ASSUME NEW values \in Inputs, TryExtend(values) PROVE PendingIsRunning'
    BY <1>3, <1>6 DEF TryExtend, Call, Refused, Store, Running
<1>7. ASSUME NEW index \in Slot, NEW v \in Given, Assign(index, v) PROVE PendingIsRunning'
    BY <1>3, <1>7 DEF Assign, Call, Running
<1>8. CASE Pop
    BY <1>3, <1>8 DEF Pop, Call, Refused, Store, Running
<1>9. ASSUME NEW index \in 0 .. N, SwapRemove(index) PROVE PendingIsRunning'
    BY <1>3, <1>9 DEF SwapRemove, Call, Refused, Store, Running
<1>10. ASSUME NEW index \in 0 .. N, Remove(index) PROVE PendingIsRunning'
    BY <1>3, <1>10 DEF Remove, Call, Refused, Store, Running
<1>11. ASSUME NEW n \in 0 .. N, Truncate(n) PROVE PendingIsRunning'
    BY <1>3, <1>11 DEF Truncate, Call, Refused, Store, Running
<1>12. CASE Clear
    BY <1>3, <1>12 DEF Clear, Call, Store, Running
<1>13. CASE Retain
    BY <1>13 DEF Retain, PendingIsRunning, Running
<1>14. CASE Keep \/ Drop
  <2>1. Running /\ Running' /\ reply' = reply
      BY <1>14 DEF Keep, Drop, IInv, TypeOK, Running
  <2>. QED
      BY <2>1 DEF PendingIsRunning
<1>15. CASE Panic
    BY <1>3, <1>15 DEF Panic, EndRetain, Idle, Running
<1>16. CASE FinishRetain
    BY <1>3, <1>16 DEF FinishRetain, EndRetain, Idle, Store, Running
<1>. QED
    BY <1>2, <1>4, <1>5, <1>6, <1>7, <1>8, <1>9, <1>10, <1>11, <1>12, <1>13, <1>14, <1>15, <1>16
    DEF Next

\* A call of the program finds no filter pending.
LEMMA CallIsIdle ==
    ASSUME PendingIsRunning, ~Running
    PROVE  ~Vec!Filtering
BY SameAnswers DEF PendingIsRunning, Vec!Filtering

\* What a bounded sequence returns, in terms of what the container shows.
LEMMA ReturnsIs ==
    ASSUME NEW s, NEW answer, Shown' = s, reply' = answer
    PROVE  Vec!Returns(s, answer)
BY DEF Vec!Returns, Shown

\* A write that fits, or is refused.
LEMMA Writes ==
    ASSUME PendingIsRunning, ~Running, NEW method, NEW given, NEW s, Len(s) \in Int,
           \/ Len(s) <= N /\ Shown' = s /\ reply' = Reply(method, given, Done)
           \/ ~(Len(s) <= N) /\ Shown' = Shown /\ reply' = Reply(method, given, Overflow)
    PROVE  Vec!Write(method, given, s)
<1>1. CASE Len(s) <= N
    BY <1>1, CallIsIdle, ReturnsIs, SameAnswers DEF Vec!Write
<1>2. CASE ~(Len(s) <= N)
  <2>1. Vec!Returns(Shown, Vec!Reply(method, given, Vec!Overflow))
      BY <1>2, ReturnsIs, SameAnswers
  <2>. QED
      BY <1>2, <2>1, CallIsIdle DEF Vec!Write, Shown
<1>. QED
    BY <1>1, <1>2

\* A removal, or none where there is no element.
LEMMA Withdraws ==
    ASSUME PendingIsRunning, ~Running, NEW method, NEW given, NEW index, NEW rest,
           \/ /\ index \in 0 .. Len(Shown) - 1 /\ Shown' = rest
              /\ reply' = Reply(method, given, Some(Shown[index + 1]))
           \/ /\ index \notin 0 .. Len(Shown) - 1 /\ Shown' = Shown
              /\ reply' = Reply(method, given, None)
    PROVE  Vec!Withdraw(method, given, index, rest)
<1>1. CASE index \in 0 .. Len(Shown) - 1
  <2>1. Vec!Returns(rest, Vec!Reply(method, given, Vec!Some(Shown[index + 1])))
      BY <1>1, ReturnsIs, SameAnswers
  <2>. QED
      BY <1>1, <2>1, CallIsIdle DEF Vec!Withdraw, Shown
<1>2. CASE index \notin 0 .. Len(Shown) - 1
  <2>1. Vec!Returns(Shown, Vec!Reply(method, given, Vec!None))
      BY <1>2, ReturnsIs, SameAnswers
  <2>. QED
      BY <1>2, <2>1, CallIsIdle DEF Vec!Withdraw, Shown
<1>. QED
    BY <1>1, <1>2

\* Between calls the program sees the slots below the clamped length.
LEMMA IdleShows ==
    ASSUME IInv, ~Running
    PROVE  /\ Shown = [k \in 1 .. ActiveLen |-> slots[k - 1]]
           /\ ActiveLen \in 0 .. N /\ Shown \in Seq(Elem)
           /\ Len(Shown) = ActiveLen /\ DOMAIN Shown = 1 .. ActiveLen
<1>1. Shown = [k \in 1 .. ActiveLen |-> slots[k - 1]]
    BY DEF Shown, Active, ActiveLen
<1>2. ActiveLen \in 0 .. N /\ slots \in [Slot -> Elem] /\ N \in Nat
    BY ClampIsBounded, PodSlotsAssumption DEF IInv, TypeOK, ActiveLen
<1>3. \A k \in 1 .. ActiveLen : slots[k - 1] \in Elem
    BY <1>2 DEF Slot
<1>. HIDE DEF Shown
<1>. QED
    BY <1>1, <1>2, <1>3

\* A call that stores n elements shows the first n slots it stored.
LEMMA StoreShows ==
    ASSUME NEW n \in 0 .. N, NEW data, NEW answer, Store(n, data, answer), ~Running'
    PROVE  /\ Shown' = [k \in 1 .. n |-> data[k - 1]]
           /\ reply' = answer
<1>1. len' = n /\ slots' = data /\ Clamp(len') = n
    BY EncodeLenIsExact DEF Store
<1>. QED
    BY <1>1 DEF Store, Shown, Active

\* A call that changes no byte shows what was there.
LEMMA RefusedShows ==
    ASSUME Call, NEW answer, Refused(answer)
    PROVE  Shown' = Shown /\ reply' = answer
BY DEF Call, Refused, Shown, Running, Active

-----------------------------------------------------------------------------
(* One method, one action of BoundedVec.                                   *)

\* Both modules take the same slices.
LEMMA SameInputs ==
    /\ Vec!Inputs = Inputs
    /\ \A values \in Inputs : values \in Seq(Given) /\ values \in Seq(Elem) /\ Len(values) \in Nat
<1>1. Vec!Inputs = Inputs
    BY DEF Vec!Inputs, Inputs
<1>2. ASSUME NEW values \in Inputs
      PROVE  values \in Seq(Given) /\ values \in Seq(Elem) /\ Len(values) \in Nat
  <2>1. PICK n \in 0 .. MaxInput : values \in [1 .. n -> Given]
      BY DEF Inputs
  <2>2. Given \subseteq Elem
      BY PodSlotsAssumption, GivenAssumption
  <2>. QED
      BY <2>1, <2>2, GivenAssumption
<1>. QED
    BY <1>1, <1>2

\* A call that appends (vec.rs:251-261, 338-353).
LEMMA AppendShows ==
    ASSUME IInv, Call, NEW values \in Seq(Given), ActiveLen + Len(values) <= N, NEW answer,
           Store(ActiveLen + Len(values), CopyTo(slots, ActiveLen, values), answer)
    PROVE  Shown' = Shown \o values /\ reply' = answer
<1>. DEFINE n == ActiveLen + Len(values)
            data == CopyTo(slots, ActiveLen, values)
<1>1. ~Running /\ ~Running'
    BY DEF Call, Running
<1>2. /\ Shown = [k \in 1 .. ActiveLen |-> slots[k - 1]]
      /\ ActiveLen \in 0 .. N /\ Shown \in Seq(Elem) /\ Len(Shown) = ActiveLen
    BY <1>1, IdleShows
<1>3. values \in Seq(Elem) /\ Len(values) \in Nat /\ n \in 0 .. N /\ N \in Nat
    BY <1>2, PodSlotsAssumption, GivenAssumption
<1>4. Shown' = [k \in 1 .. n |-> data[k - 1]] /\ reply' = answer
    BY <1>1, <1>3, StoreShows
<1>5. Shown \o values
        = [k \in 1 .. n |-> IF k <= ActiveLen THEN Shown[k] ELSE values[k - ActiveLen]]
    BY <1>2, <1>3, ConcatIs
<1>6. ASSUME NEW k \in 1 .. n
      PROVE  data[k - 1] = IF k <= ActiveLen THEN Shown[k] ELSE values[k - ActiveLen]
  <2>1. k - 1 \in Slot
      BY <1>3 DEF Slot
  <2>2. data[k - 1] = IF ActiveLen <= k - 1 /\ k - 1 < n
                      THEN values[k - 1 - ActiveLen + 1] ELSE slots[k - 1]
      BY <2>1 DEF CopyTo
  <2>3. CASE k <= ActiveLen
      BY <1>2, <1>3, <2>2, <2>3
  <2>4. CASE ~(k <= ActiveLen)
    <3>1. ActiveLen <= k - 1 /\ k - 1 < n /\ k - 1 - ActiveLen + 1 = k - ActiveLen
        BY <1>2, <1>3, <2>4
    <3>. HIDE DEF n, data
    <3>. QED
        BY <2>2, <2>4, <3>1
  <2>. QED
      BY <2>3, <2>4
<1>. HIDE DEF n, data
<1>. QED
    BY <1>4, <1>5, <1>6

\* A call that appends or refuses is a write of the longer sequence.
LEMMA AppendWrites ==
    ASSUME IInv, PendingIsRunning, Call, NEW method, NEW given, NEW values \in Seq(Given),
           IF ActiveLen + Len(values) > N
           THEN Refused(Reply(method, given, Overflow))
           ELSE Store(ActiveLen + Len(values), CopyTo(slots, ActiveLen, values),
                      Reply(method, given, Done))
    PROVE  Vec!Write(method, given, Shown \o values)
<1>1. /\ ~Running /\ ActiveLen \in 0 .. N /\ N \in Nat
      /\ Shown \in Seq(Elem) /\ Len(Shown) = ActiveLen
    BY IdleShows, PodSlotsAssumption DEF Call
<1>2. values \in Seq(Elem) /\ Len(values) \in Nat
    BY PodSlotsAssumption, GivenAssumption
<1>. HIDE DEF Shown
<1>3. Len(Shown \o values) = ActiveLen + Len(values)
    BY <1>1, <1>2, ConcatProperties
<1>4. CASE ActiveLen + Len(values) > N
  <2>1. Shown' = Shown /\ reply' = Reply(method, given, Overflow)
      BY <1>4, RefusedShows
  <2>2. ~(Len(Shown \o values) <= N) /\ Len(Shown \o values) \in Int
      BY <1>1, <1>2, <1>3, <1>4
  <2>. QED
      BY <1>1, <2>1, <2>2, Writes
<1>5. CASE ~(ActiveLen + Len(values) > N)
  <2>1. ActiveLen + Len(values) <= N
      BY <1>1, <1>2, <1>5
  <2>2. Shown' = Shown \o values /\ reply' = Reply(method, given, Done)
      BY <1>5, <2>1, AppendShows
  <2>3. Len(Shown \o values) <= N /\ Len(Shown \o values) \in Int
      BY <1>1, <1>2, <1>3, <2>1
  <2>. QED
      BY <1>1, <2>2, <2>3, Writes
<1>. QED
    BY <1>4, <1>5

\* try_push appends, and refuses only when the container is full (vec.rs:251-261).
LEMMA TryPushImplements ==
    ASSUME IInv, PendingIsRunning, NEW v \in Given, TryPush(v)
    PROVE  Vec!TryPush(v)
<1>. DEFINE values == <<v>>
<1>1. values \in Seq(Given) /\ Len(values) = 1
    OBVIOUS
<1>2. ActiveLen \in 0 .. N /\ N \in Nat /\ v \in Elem
    BY ClampIsBounded, PodSlotsAssumption, GivenAssumption DEF IInv, TypeOK, ActiveLen
<1>3. ~Running /\ Call
    BY DEF TryPush, Call
<1>4. Shown \in Seq(Elem)
    BY <1>3, IdleShows
<1>5. ActiveLen >= N <=> ActiveLen + Len(values) > N
    BY <1>1, <1>2
<1>6. IF ActiveLen + Len(values) > N
      THEN Refused(Reply("try_push", values, Overflow))
      ELSE Store(ActiveLen + Len(values), CopyTo(slots, ActiveLen, values),
                 Reply("try_push", values, Done))
    BY <1>1, <1>5 DEF TryPush
<1>. HIDE DEF Shown
<1>7. Append(Shown, v) = Shown \o values
    BY <1>2, <1>4, AppendIsConcat
<1>8. Vec!Write("try_push", values, Shown \o values)
  <2>. HIDE DEF values
  <2>. QED
      BY <1>1, <1>3, <1>6, AppendWrites
<1>. QED
    BY <1>7, <1>8 DEF Vec!TryPush, Shown

\* try_extend appends everything, or refuses what does not fit (vec.rs:338-353).
LEMMA TryExtendImplements ==
    ASSUME IInv, PendingIsRunning, NEW values \in Inputs, TryExtend(values)
    PROVE  Vec!TryExtend(values)
<1>1. values \in Seq(Given)
    BY SameInputs
<1>2. Call
    BY DEF TryExtend
<1>3. IF ActiveLen + Len(values) > N
      THEN Refused(Reply("try_extend", values, Overflow))
      ELSE Store(ActiveLen + Len(values), CopyTo(slots, ActiveLen, values),
                 Reply("try_extend", values, Done))
    BY DEF TryExtend
<1>. QED
    BY <1>1, <1>2, <1>3, AppendWrites DEF Vec!TryExtend, Shown

\* try_set shows the new value; what the old one held past it is zeroed and not
\* shown (vec.rs:271-290).
LEMMA TrySetImplements ==
    ASSUME IInv, PendingIsRunning, NEW values \in Inputs, TrySet(values)
    PROVE  Vec!TrySet(values)
<1>. DEFINE copied == CopyTo(slots, 0, values)
            data == IF Len(values) < ActiveLen
                    THEN ZeroRange(copied, Len(values), ActiveLen) ELSE copied
<1>1. ActiveLen \in 0 .. N /\ N \in Nat
    BY ClampIsBounded, PodSlotsAssumption DEF IInv, TypeOK, ActiveLen
<1>2. values \in Seq(Given) /\ Len(values) \in Nat
    BY SameInputs
<1>3. CASE Len(values) > N
  <2>1. Call /\ ~Running /\ Refused(Reply("try_set", values, Overflow))
      BY <1>3 DEF TrySet, Call
  <2>2. Shown' = Shown /\ reply' = Reply("try_set", values, Overflow)
      BY <2>1, RefusedShows
  <2>3. ~(Len(values) <= N) /\ Len(values) \in Int
      BY <1>1, <1>2, <1>3
  <2>. QED
      BY <2>1, <2>2, <2>3, Writes DEF Vec!TrySet
<1>4. CASE ~(Len(values) > N)
  <2>1. Call /\ Store(Len(values), data, Reply("try_set", values, Done)) /\ ~Running /\ ~Running'
      BY <1>4 DEF TrySet, Call, Running
  <2>2. Len(values) \in 0 .. N
      BY <1>1, <1>2, <1>4
  <2>3. ASSUME NEW k \in 1 .. Len(values) PROVE data[k - 1] = values[k]
    <3>1. k - 1 \in Slot /\ 0 <= k - 1 /\ k - 1 < 0 + Len(values) /\ k - 1 - 0 + 1 = k
        BY <1>1, <2>2 DEF Slot
    <3>2. copied[k - 1] = values[k - 1 - 0 + 1]
        BY <3>1 DEF CopyTo
    <3>3. copied[k - 1] = values[k]
        BY <3>1, <3>2
    <3>. HIDE DEF copied
    <3>4. ZeroRange(copied, Len(values), ActiveLen)[k - 1] = copied[k - 1]
        BY <1>1, <2>2, <3>1 DEF ZeroRange
    <3>. QED
        BY <3>3, <3>4
  <2>. HIDE DEF data
  <2>4. Shown' = [k \in 1 .. Len(values) |-> data[k - 1]] /\ reply' = Reply("try_set", values, Done)
      BY <2>1, <2>2, StoreShows
  <2>5. values = [k \in 1 .. Len(values) |-> values[k]]
      BY <1>2
  <2>6. Shown' = values
      BY <2>3, <2>4, <2>5
  <2>. QED
      BY <2>1, <2>2, <2>4, <2>6, Writes DEF Vec!TrySet
<1>. QED
    BY <1>3, <1>4

\* A store through the borrow of as_slice_mut (vec.rs:213-217).
LEMMA AssignImplements ==
    ASSUME IInv, PendingIsRunning, NEW index \in Slot, NEW v \in Given, Assign(index, v)
    PROVE  Vec!Assign(index, v)
<1>1. ~Running /\ ~Running' /\ ActiveLen' = ActiveLen
      /\ reply' = Reply("assign", <<index, v>>, Done)
    BY DEF Assign, Call, Running, ActiveLen
<1>2. /\ Shown = [k \in 1 .. ActiveLen |-> slots[k - 1]]
      /\ ActiveLen \in 0 .. N /\ DOMAIN Shown = 1 .. ActiveLen
    BY <1>1, IdleShows
<1>3. Shown' = [k \in 1 .. ActiveLen |-> slots'[k - 1]]
    BY <1>1 DEF Shown, Active, ActiveLen
<1>4. slots \in [Slot -> Elem] /\ N \in Nat /\ index \in Nat /\ v \in Elem /\ index < ActiveLen
    BY PodSlotsAssumption, GivenAssumption DEF IInv, TypeOK, Slot, Assign
<1>5. \A k \in Slot : slots'[k] = IF k = index THEN v ELSE slots[k]
    BY <1>4, CopyToOne DEF Assign
<1>6. ASSUME NEW k \in 1 .. ActiveLen
      PROVE  slots'[k - 1] = [Shown EXCEPT ![index + 1] = v][k]
  <2>1. k - 1 \in Slot /\ (k - 1 = index <=> k = index + 1)
      BY <1>2, <1>4 DEF Slot
  <2>. QED
      BY <1>2, <1>5, <2>1
<1>7. [Shown EXCEPT ![index + 1] = v]
        = [k \in 1 .. ActiveLen |-> [Shown EXCEPT ![index + 1] = v][k]]
    BY <1>2
<1>8. Shown' = [Shown EXCEPT ![index + 1] = v]
    BY <1>3, <1>6, <1>7
<1>9. index < Len(Shown)
    BY <1>1, <1>4, IdleShows
<1>10. Vec!Returns([Shown EXCEPT ![index + 1] = v],
                   Vec!Reply("assign", <<index, v>>, Vec!Done))
    BY <1>1, <1>8, ReturnsIs, SameAnswers
<1>. QED
    BY <1>1, <1>9, <1>10, CallIsIdle DEF Vec!Assign, Shown

\* One element less: `data` shows, in front, the others.
LEMMA RemovedShows ==
    ASSUME IInv, Call, NEW i \in 1 .. ActiveLen, NEW data, NEW answer,
           Store(ActiveLen - 1, data, answer),
           \A k \in 1 .. ActiveLen - 1 :
               data[k - 1] = IF k < i THEN slots[k - 1] ELSE slots[k]
    PROVE  /\ Shown' = Vec!Picked(Shown, DOMAIN Shown \ {i})
           /\ reply' = answer /\ Shown[i] = slots[i - 1]
<1>1. ~Running /\ ~Running'
    BY DEF Call, Running
<1>2. /\ Shown = [k \in 1 .. ActiveLen |-> slots[k - 1]]
      /\ ActiveLen \in 0 .. N /\ DOMAIN Shown = 1 .. ActiveLen
    BY <1>1, IdleShows
<1>3. ActiveLen - 1 \in 0 .. N /\ N \in Nat /\ ActiveLen \in Nat /\ i \in DOMAIN Shown
    BY <1>2, PodSlotsAssumption
<1>4. /\ Shown' = [k \in 1 .. (ActiveLen - 1) |-> data[k - 1]]
      /\ reply' = answer
    BY <1>1, <1>3, StoreShows
<1>. DEFINE K == DOMAIN Shown \ {i}
            picked == Vec!Picked(Shown, K)
<1>5. /\ picked = [k \in 1 .. (ActiveLen - 1) |-> picked[k]]
      /\ \A k \in 1 .. (ActiveLen - 1) :
             picked[k] = IF k < i THEN Shown[k] ELSE Shown[k + 1]
  <2>1. K = (1 .. ActiveLen) \ {i} /\ i \in 1 .. ActiveLen /\ ActiveLen \in Nat
      BY <1>2, <1>3
  <2>. HIDE DEF K, Shown
  <2>2. picked = [k \in 1 .. Cardinality(K) |-> Shown[Ranked(K, k)]]
      BY PickedIs
  <2>. HIDE DEF picked
  <2>3. picked = [k \in 1 .. Cardinality(K) |-> picked[k]]
      BY <2>2
  <2>4. Cardinality(K) = ActiveLen - 1
      BY <2>1, PickedAllBut
  <2>5. \A k \in 1 .. (ActiveLen - 1) :
            picked[k] = IF k < i THEN Shown[k] ELSE Shown[k + 1]
      BY <2>1, PickedAllBut DEF picked
  <2>. QED
      BY <2>3, <2>4, <2>5
<1>6. ASSUME NEW k \in 1 .. (ActiveLen - 1)
      PROVE  data[k - 1] = IF k < i THEN Shown[k] ELSE Shown[k + 1]
  <2>1. /\ k \in 1 .. ActiveLen /\ k + 1 \in 1 .. ActiveLen /\ k + 1 - 1 = k
      BY <1>3
  <2>2. Shown[k] = slots[k - 1] /\ Shown[k + 1] = slots[k]
      BY <1>2, <2>1
  <2>. QED
      BY <2>2
<1>7. Shown[i] = slots[i - 1]
    BY <1>2
<1>. HIDE DEF Shown, picked
<1>8. Shown' = picked
    BY <1>4, <1>5, <1>6
<1>. QED
    BY <1>4, <1>7, <1>8 DEF picked

\* pop removes the last element, if any (vec.rs:391-403).
LEMMA PopImplements ==
    ASSUME IInv, PendingIsRunning, Pop
    PROVE  Vec!Pop
<1>1. /\ ActiveLen \in 0 .. N /\ N \in Nat /\ ~Running /\ ~Running'
      /\ Shown = [k \in 1 .. ActiveLen |-> slots[k - 1]]
      /\ Shown \in Seq(Elem) /\ Len(Shown) = ActiveLen
    BY IdleShows, PodSlotsAssumption DEF Pop, Call, Running
<1>2. CASE ActiveLen = 0
  <2>1. Shown' = Shown /\ reply' = Reply("pop", << >>, None)
      BY <1>2, RefusedShows DEF Pop
  <2>2. Len(Shown) - 1 \notin 0 .. Len(Shown) - 1
      BY <1>1, <1>2
  <2>. HIDE DEF Shown
  <2>. QED
      BY <1>1, <2>1, <2>2, Withdraws DEF Vec!Pop, Shown
<1>3. CASE ActiveLen # 0
  <2>. DEFINE data == CopyTo(slots, ActiveLen - 1, <<Zero>>)
              answer == Reply("pop", << >>, Some(slots[ActiveLen - 1]))
  <2>1. Call /\ Store(ActiveLen - 1, data, answer)
      BY <1>3 DEF Pop
  <2>2. ASSUME NEW k \in 1 .. ActiveLen - 1 PROVE data[k - 1] = Shown[k]
    <3>1. k - 1 \in Slot /\ k \in 1 .. ActiveLen /\ ~(ActiveLen - 1 <= k - 1)
        BY <1>1 DEF Slot
    <3>2. data[k - 1] = slots[k - 1]
        BY <3>1 DEF CopyTo
    <3>3. Shown[k] = slots[k - 1]
        BY <1>1, <3>1
    <3>. QED
        BY <3>2, <3>3
  <2>3. ActiveLen - 1 \in 0 .. N /\ ActiveLen \in 1 .. ActiveLen
      BY <1>1, <1>3
  <2>. HIDE DEF data, answer
  <2>4. Shown' = [k \in 1 .. ActiveLen - 1 |-> data[k - 1]] /\ reply' = answer
      BY <1>1, <2>1, <2>3, StoreShows
  <2>5. SubSeq(Shown, 1, Len(Shown) - 1) = [k \in 1 .. ActiveLen - 1 |-> Shown[k]]
    <3>1. /\ 1 \in 1 .. Len(Shown) + 1 /\ Len(Shown) - 1 \in 0 .. Len(Shown)
          /\ Len(Shown) - 1 - 1 + 1 = ActiveLen - 1
          /\ \A k \in 1 .. ActiveLen - 1 : k + 1 - 1 = k
        BY <1>1, <2>3
    <3>2. SubSeq(Shown, 1, Len(Shown) - 1)
            = [k \in 1 .. Len(Shown) - 1 - 1 + 1 |-> Shown[k + 1 - 1]]
        BY <1>1, <3>1, SubSeqIs
    <3>. QED
        BY <3>1, <3>2
  <2>6. Shown' = SubSeq(Shown, 1, Len(Shown) - 1)
      BY <2>2, <2>4, <2>5
  <2>7. Len(Shown) - 1 \in 0 .. Len(Shown) - 1 /\ Len(Shown) - 1 + 1 = ActiveLen
      BY <1>1, <2>3
  <2>8. Shown[ActiveLen] = slots[ActiveLen - 1]
      BY <1>1, <2>3
  <2>. HIDE DEF Shown
  <2>9. reply' = Reply("pop", << >>, Some(Shown[Len(Shown) - 1 + 1]))
      BY <2>4, <2>7, <2>8 DEF answer
  <2>. QED
      BY <1>1, <2>6, <2>7, <2>9, Withdraws DEF Vec!Pop, Shown
<1>. QED
    BY <1>2, <1>3

\* remove keeps the order of the others (vec.rs:447-472).
LEMMA RemoveImplements ==
    ASSUME IInv, PendingIsRunning, NEW index \in 0 .. N, Remove(index)
    PROVE  Vec!Remove(index)
<1>1. /\ ActiveLen \in 0 .. N /\ N \in Nat /\ index \in Nat
      /\ slots \in [Slot -> Elem] /\ ~Running /\ Len(Shown) = ActiveLen
    BY ClampIsBounded, PodSlotsAssumption, IdleShows
    DEF IInv, TypeOK, ActiveLen, Remove, Call
<1>2. CASE index >= ActiveLen
  <2>1. Shown' = Shown /\ reply' = Reply("remove", <<index>>, None)
      BY <1>2, RefusedShows DEF Remove
  <2>2. index \notin 0 .. Len(Shown) - 1
      BY <1>1, <1>2
  <2>. HIDE DEF Shown
  <2>. QED
      BY <1>1, <2>1, <2>2, Withdraws DEF Vec!Remove, Shown
<1>3. CASE ~(index >= ActiveLen)
  <2>. DEFINE tail == ActiveLen - index - 1
              shifted == [k \in 1 .. tail |-> slots[index + k]]
              moved == CopyTo(slots, index, shifted)
              data == CopyTo(moved, ActiveLen - 1, <<Zero>>)
              answer == Reply("remove", <<index>>, Some(slots[index]))
  <2>1. Call /\ Store(ActiveLen - 1, data, answer)
      BY <1>3 DEF Remove
  <2>2. tail \in Nat /\ Len(shifted) = tail
      BY <1>1, <1>3
  <2>3. ASSUME NEW k \in 1 .. ActiveLen - 1
        PROVE  data[k - 1] = IF k < index + 1 THEN slots[k - 1] ELSE slots[k]
    <3>1. k - 1 \in Slot /\ ~(ActiveLen - 1 <= k - 1)
        BY <1>1 DEF Slot
    <3>2. data[k - 1] = moved[k - 1]
        BY <3>1 DEF CopyTo
    <3>3. CASE k < index + 1
      <4>1. ~(index <= k - 1)
          BY <1>1, <3>3
      <4>2. moved[k - 1] = slots[k - 1]
          BY <3>1, <4>1 DEF CopyTo
      <4>. HIDE DEF data, moved
      <4>. QED
          BY <3>2, <3>3, <4>2
    <3>4. CASE ~(k < index + 1)
      <4>. HIDE DEF data
      <4>1. /\ index <= k - 1 /\ k - 1 < index + tail
            /\ k - 1 - index + 1 \in 1 .. tail /\ index + (k - 1 - index + 1) = k
          BY <1>1, <1>3, <3>4
      <4>2. shifted[k - 1 - index + 1] = slots[k]
          BY <4>1
      <4>. HIDE DEF shifted, tail
      <4>3. moved[k - 1] = slots[k]
          BY <2>2, <3>1, <4>1, <4>2 DEF CopyTo
      <4>. QED
          BY <3>2, <3>4, <4>3
    <3>. QED
        BY <3>3, <3>4
  <2>. HIDE DEF data
  <2>4. index + 1 \in 1 .. ActiveLen /\ index + 1 - 1 = index
      BY <1>1, <1>3
  <2>5. /\ Shown' = Vec!Picked(Shown, DOMAIN Shown \ {index + 1})
        /\ reply' = answer /\ Shown[index + 1] = slots[index]
    <3>. DEFINE i == index + 1
    <3>1. /\ i \in 1 .. ActiveLen /\ slots[i - 1] = slots[index]
          /\ \A k \in 1 .. ActiveLen - 1 :
                 data[k - 1] = IF k < i THEN slots[k - 1] ELSE slots[k]
        BY <2>3, <2>4
    <3>. HIDE DEF answer, Shown, i
    <3>2. /\ Shown' = Vec!Picked(Shown, DOMAIN Shown \ {i})
          /\ reply' = answer /\ Shown[i] = slots[i - 1]
        BY <2>1, <3>1, RemovedShows
    <3>. QED
        BY <3>1, <3>2 DEF i
  <2>6. index \in 0 .. Len(Shown) - 1
      BY <1>1, <1>3
  <2>. HIDE DEF Shown
  <2>. QED
      BY <1>1, <2>5, <2>6, Withdraws DEF Vec!Remove, Shown
<1>. QED
    BY <1>2, <1>3

\* swap_remove moves the last element (vec.rs:416-434).
LEMMA SwapRemoveImplements ==
    ASSUME IInv, PendingIsRunning, NEW index \in 0 .. N, SwapRemove(index)
    PROVE  Vec!SwapRemove(index)
<1>1. /\ ActiveLen \in 0 .. N /\ N \in Nat /\ index \in Nat
      /\ slots \in [Slot -> Elem] /\ ~Running /\ ~Running'
    BY ClampIsBounded, PodSlotsAssumption
    DEF IInv, TypeOK, ActiveLen, SwapRemove, Call, Running
<1>2. CASE index >= ActiveLen
  <2>1. Shown' = Shown /\ reply' = Reply("swap_remove", <<index>>, None)
      BY <1>2, RefusedShows DEF SwapRemove
  <2>2. index \notin 0 .. Len(Shown) - 1
      BY <1>1, <1>2, IdleShows
  <2>. HIDE DEF Shown
  <2>. QED
      BY <1>1, <2>1, <2>2, Withdraws DEF Vec!SwapRemove, Shown
<1>3. CASE ~(index >= ActiveLen)
  <2>. DEFINE last == ActiveLen - 1
              filled == CopyTo(slots, index, <<slots[last]>>)
              data == CopyTo(filled, last, <<Zero>>)
              answer == Reply("swap_remove", <<index>>, Some(slots[index]))
  <2>1. Store(last, data, answer)
      BY <1>3 DEF SwapRemove
  <2>2. last \in Slot /\ last \in 0 .. N /\ slots[last] \in Elem
      BY <1>1, <1>3 DEF Slot
  <2>3. /\ Shown = [k \in 1 .. ActiveLen |-> slots[k - 1]]
        /\ DOMAIN Shown = 1 .. ActiveLen /\ Len(Shown) = ActiveLen
      BY <1>1, IdleShows
  <2>4. Shown' = [k \in 1 .. last |-> data[k - 1]] /\ reply' = answer
      BY <1>1, <2>1, <2>2, StoreShows
  <2>5. \A k \in Slot : filled[k] = IF k = index THEN slots[last] ELSE slots[k]
      BY <1>1, <2>2, CopyToOne
  <2>6. ASSUME NEW k \in 1 .. last
        PROVE  data[k - 1] = IF k = index + 1 THEN Shown[ActiveLen] ELSE Shown[k]
    <3>1. k - 1 \in Slot /\ ~(last <= k - 1) /\ (k - 1 = index <=> k = index + 1)
        BY <1>1 DEF Slot
    <3>2. data[k - 1] = filled[k - 1]
        BY <3>1 DEF CopyTo
    <3>3. Shown[ActiveLen] = slots[last] /\ Shown[k] = slots[k - 1]
        BY <1>1, <1>3, <2>3
    <3>. HIDE DEF data, filled, last
    <3>. QED
        BY <2>5, <3>1, <3>2, <3>3
  <2>7. index \in 0 .. Len(Shown) - 1 /\ Shown[index + 1] = slots[index]
      BY <1>1, <1>3, <2>3
  <2>. HIDE DEF data, Shown
  <2>8. Shown' = [k \in 1 .. Len(Shown) - 1 |->
                     IF k = index + 1 THEN Shown[Len(Shown)] ELSE Shown[k]]
      BY <2>3, <2>4, <2>6
  <2>. QED
      BY <1>1, <2>4, <2>7, <2>8, Withdraws DEF Vec!SwapRemove, Shown
<1>. QED
    BY <1>2, <1>3

\* The first n elements stay (vec.rs:481-488, 520-523).
LEMMA ShortenedShows ==
    ASSUME IInv, Call, NEW n \in 0 .. N, n <= ActiveLen, NEW answer,
           Store(n, ZeroRange(slots, n, ActiveLen), answer)
    PROVE  Shown' = SubSeq(Shown, 1, n) /\ reply' = answer /\ Len(Shown) = ActiveLen
<1>. DEFINE data == ZeroRange(slots, n, ActiveLen)
<1>1. ~Running /\ ~Running'
    BY DEF Call, Running
<1>2. /\ Shown = [k \in 1 .. ActiveLen |-> slots[k - 1]] /\ N \in Nat
      /\ ActiveLen \in 0 .. N /\ Shown \in Seq(Elem) /\ Len(Shown) = ActiveLen
    BY <1>1, IdleShows, PodSlotsAssumption
<1>3. Shown' = [k \in 1 .. n |-> data[k - 1]] /\ reply' = answer
    BY <1>1, StoreShows
<1>4. SubSeq(Shown, 1, n) = [k \in 1 .. n |-> Shown[k]]
  <2>1. 1 \in 1 .. Len(Shown) + 1 /\ n \in 0 .. Len(Shown) /\ n - 1 + 1 = n
        /\ \A k \in 1 .. n : k + 1 - 1 = k
      BY <1>2
  <2>2. SubSeq(Shown, 1, n) = [k \in 1 .. n - 1 + 1 |-> Shown[k + 1 - 1]]
      BY <1>2, <2>1, SubSeqIs
  <2>. QED
      BY <2>1, <2>2
<1>5. ASSUME NEW k \in 1 .. n PROVE data[k - 1] = Shown[k]
  <2>1. k - 1 \in Slot /\ ~(n <= k - 1) /\ k \in 1 .. ActiveLen
      BY <1>2 DEF Slot
  <2>. QED
      BY <1>2, <2>1 DEF ZeroRange
<1>. HIDE DEF data, Shown
<1>. QED
    BY <1>2, <1>3, <1>4, <1>5

\* truncate shortens, or does nothing (vec.rs:481-488).
LEMMA TruncateImplements ==
    ASSUME IInv, PendingIsRunning, NEW n \in 0 .. N, Truncate(n)
    PROVE  Vec!Truncate(n)
<1>. DEFINE stay == IF n < Len(Shown) THEN n ELSE Len(Shown)
<1>1. ActiveLen \in 0 .. N /\ N \in Nat /\ ~Running
    BY ClampIsBounded, PodSlotsAssumption DEF IInv, TypeOK, ActiveLen, Truncate, Call
<1>2. Len(Shown) = ActiveLen /\ Shown \in Seq(Elem)
    BY <1>1, IdleShows
<1>3. Shown' = SubSeq(Shown, 1, stay) /\ reply' = Reply("truncate", <<n>>, Done)
  <2>1. CASE n < ActiveLen
    <3>1. n <= ActiveLen /\ stay = n
        BY <1>1, <1>2, <2>1
    <3>2. Call /\ Store(n, ZeroRange(slots, n, ActiveLen), Reply("truncate", <<n>>, Done))
        BY <2>1 DEF Truncate
    <3>. QED
        BY <3>1, <3>2, ShortenedShows
  <2>2. CASE ~(n < ActiveLen)
    <3>1. Shown' = Shown /\ reply' = Reply("truncate", <<n>>, Done)
        BY <2>2, RefusedShows DEF Truncate
    <3>2. SubSeq(Shown, 1, Len(Shown)) = Shown
        BY <1>2
    <3>3. stay = Len(Shown)
        BY <1>2, <2>2
    <3>. QED
        BY <3>1, <3>2, <3>3
  <2>. QED
      BY <2>1, <2>2
<1>4. Vec!Returns(SubSeq(Shown, 1, stay), Vec!Reply("truncate", <<n>>, Vec!Done))
    BY <1>3, ReturnsIs, SameAnswers
<1>. QED
    BY <1>1, <1>4, CallIsIdle DEF Vec!Truncate, Shown

\* clear shortens to nothing (vec.rs:520-523).
LEMMA ClearImplements ==
    ASSUME IInv, PendingIsRunning, Clear
    PROVE  Vec!Clear
<1>1. 0 \in 0 .. N /\ 0 <= ActiveLen /\ ~Running
    BY ClampIsBounded, PodSlotsAssumption DEF IInv, TypeOK, ActiveLen, Clear, Call
<1>2. Shown' = SubSeq(Shown, 1, 0) /\ reply' = Reply("clear", << >>, Done)
    BY <1>1, ShortenedShows DEF Clear
<1>3. SubSeq(Shown, 1, 0) = << >>
    BY <1>1, IdleShows
<1>4. Vec!Returns(<< >>, Vec!Reply("clear", << >>, Vec!Done))
    BY <1>2, <1>3, ReturnsIs, SameAnswers
<1>. QED
    BY <1>1, <1>4, CallIsIdle DEF Vec!Clear

-----------------------------------------------------------------------------
(* retain.                                                                 *)

\* While retain runs, no slot from the write cursor on has been written: what
\* it would take to lose an element to a panic.
NothingMoved ==
    Running => \A k \in retain.write .. retain.cur - 1 : slots[k] = before[k + 1]

\* No retain runs on fresh account bytes.
LEMMA NothingMovedInit == Init => NothingMoved
BY DEF Init, Idle, NothingMoved, Running

\* The closure moves elements in front of the write cursor only (vec.rs:503-506).
LEMMA NothingMovedStep ==
    ASSUME IInv, NothingMoved, [Next]_vars
    PROVE  NothingMoved'
<1>1. ASSUME ~Running' PROVE NothingMoved'
    BY <1>1 DEF NothingMoved
<1>2. CASE UNCHANGED vars
    BY <1>2 DEF vars, NothingMoved, Running
<1>3. CASE Call
    BY <1>1, <1>3 DEF Call, Running
<1>4. CASE Panic \/ FinishRetain
    BY <1>1, <1>4 DEF Panic, FinishRetain, EndRetain, Idle, Running
<1>5. CASE Retain
  <2>1. ActiveLen \in Nat
      BY ClampIsBounded DEF IInv, TypeOK, ActiveLen
  <2>2. retain'.write = 0 /\ retain'.cur = ActiveLen
        /\ before' = [k \in 1 .. ActiveLen |-> slots[k - 1]] /\ slots' = slots
      BY <1>5 DEF Retain, Active, ActiveLen
  <2>3. ASSUME NEW k \in 0 .. ActiveLen - 1 PROVE slots'[k] = before'[k + 1]
    <3>1. k + 1 \in 1 .. ActiveLen /\ k + 1 - 1 = k
        BY <2>1
    <3>. QED
        BY <2>2, <3>1
  <2>. QED
      BY <2>2, <2>3 DEF NothingMoved
<1>6. CASE Keep
  <2>. DEFINE r == retain.read
              w == retain.write
              n == retain.cur
  <2>1. /\ Running /\ r \in 0 .. N /\ w \in 0 .. N /\ n \in 0 .. N
        /\ w <= r /\ r < n /\ N \in Nat /\ slots \in [Slot -> Elem]
      BY <1>6, PodSlotsAssumption DEF Keep, IInv, TypeOK, RetainInOrder
  <2>2. retain'.write = w + 1 /\ retain'.cur = n /\ before' = before
      BY <1>6 DEF Keep, IInv, TypeOK
  <2>3. slots' = CopyTo(slots, w, <<slots[r]>>)
      BY <1>6 DEF Keep
  <2>4. \A k \in w .. n - 1 : slots[k] = before[k + 1]
      BY <2>1 DEF NothingMoved
  <2>. HIDE DEF r, w, n
  <2>5. slots[r] \in Elem /\ w \in Nat
      BY <2>1 DEF Slot
  <2>6. \A k \in Slot : slots'[k] = IF k = w THEN slots[r] ELSE slots[k]
      BY <2>1, <2>3, <2>5, CopyToOne
  <2>7. ASSUME NEW k \in w + 1 .. n - 1 PROVE slots'[k] = before[k + 1]
    <3>1. k \in Slot /\ k # w /\ k \in w .. n - 1
        BY <2>1 DEF Slot
    <3>. QED
        BY <2>4, <2>6, <3>1
  <2>. QED
      BY <2>2, <2>7 DEF NothingMoved
<1>7. CASE Drop
  <2>1. Running /\ slots' = slots /\ before' = before
        /\ retain'.write = retain.write /\ retain'.cur = retain.cur
      BY <1>7 DEF Drop, IInv, TypeOK
  <2>. QED
      BY <2>1 DEF NothingMoved
<1>. QED
    BY <1>2, <1>3, <1>4, <1>5, <1>6, <1>7
    DEF Next, TryPush, TrySet, TryExtend, Assign, Pop, SwapRemove, Remove, Truncate, Clear

\* What the closure kept so far is what Picked lists, in the slots in front.
LEMMA KeptIsInFront ==
    ASSUME IInv, Running
    PROVE  /\ kept \subseteq 1 .. retain.read /\ Cardinality(kept) = retain.write
           /\ retain.write \in 0 .. N /\ retain.write <= retain.read
           /\ retain.read \in 0 .. N /\ retain.read <= retain.cur
           /\ retain.cur = ActiveLen /\ ActiveLen \in 0 .. N /\ N \in Nat
           /\ before \in Seq(Elem) /\ Len(before) = ActiveLen
           /\ Vec!Picked(before, kept) = [p \in 1 .. retain.write |-> slots[p - 1]]
<1>1. /\ kept \subseteq 1 .. retain.read /\ Cardinality(kept) = retain.write
      /\ retain.write \in 0 .. N /\ retain.write <= retain.read
      /\ retain.read \in 0 .. N /\ retain.read <= retain.cur
      /\ retain.cur = ActiveLen /\ N \in Nat
      /\ before \in Seq(Elem) /\ Len(before) = ActiveLen
    BY PodSlotsAssumption DEF IInv, TypeOK, RetainInOrder
<1>2. ActiveLen \in 0 .. N
    BY ClampIsBounded DEF IInv, TypeOK, ActiveLen
<1>. DEFINE w == retain.write
            r == retain.read
<1>. HIDE DEF w, r
<1>3. ASSUME NEW p \in 1 .. w PROVE Vec!Picked(before, kept)[p] = slots[p - 1]
  <2>1. /\ r \in Nat /\ kept \subseteq 1 .. r
        /\ p \in 1 .. Cardinality(kept)
      BY <1>1 DEF w, r
  <2>2. PICK k \in kept : /\ Cardinality(Upto(kept, k)) = p
                          /\ Vec!Picked(before, kept)[p] = before[k]
      BY <2>1, PickedAt
  <2>3. /\ Cardinality({j \in kept : j < k}) \in Nat
        /\ Cardinality(Upto(kept, k)) = Cardinality({j \in kept : j < k}) + 1
      BY <2>1, UptoAdds
  <2>4. Cardinality({j \in kept : j < k}) = p - 1
      BY <2>2, <2>3
  <2>5. slots[Cardinality({j \in kept : j < k})] = before[k]
      BY DEF IInv, RetainLosesNothing
  <2>. QED
      BY <2>2, <2>4, <2>5
<1>4. Vec!Picked(before, kept) = [p \in 1 .. w |-> Vec!Picked(before, kept)[p]]
  <2>1. Vec!Picked(before, kept) = [p \in 1 .. Cardinality(kept) |-> before[Ranked(kept, p)]]
      BY PickedIs
  <2>2. Cardinality(kept) = w
      BY <1>1 DEF w
  <2>. QED
      BY <2>1, <2>2
<1>5. Vec!Picked(before, kept) = [p \in 1 .. w |-> slots[p - 1]]
    BY <1>3, <1>4
<1>. QED
    BY <1>1, <1>2, <1>5 DEF w

\* Entering retain shows nothing new (vec.rs:496-499).
LEMMA RetainImplements ==
    ASSUME IInv, PendingIsRunning, Retain
    PROVE  Vec!Retain
<1>1. Shown' = Shown /\ reply' = Pending /\ ~Running
    BY DEF Retain, Shown, Running
<1>2. Vec!Returns(Shown, Vec!Pending)
    BY <1>1, ReturnsIs, SameAnswers
<1>. QED
    BY <1>1, <1>2, CallIsIdle DEF Vec!Retain, Shown

\* The program sees nothing of the elements that move (vec.rs:500-507).
LEMMA ClosureStutters ==
    ASSUME IInv, Keep \/ Drop
    PROVE  UNCHANGED Vec!vars
<1>1. Running /\ Running' /\ before' = before /\ reply' = reply
    BY DEF Keep, Drop, IInv, TypeOK, Running
<1>. QED
    BY <1>1 DEF Vec!vars

\* A panic leaves the kept elements in front of a vector that is otherwise as it
\* was (vec.rs:503).
LEMMA PanicImplements ==
    ASSUME IInv, PendingIsRunning, NothingMoved, Panic
    PROVE  Vec!Unwind(retain.read, kept) /\ retain.read \in 0 .. Len(Shown) - 1
           /\ kept \in SUBSET (1 .. retain.read)
<1>. DEFINE w == retain.write
            n == ActiveLen
            head == Vec!Picked(before, kept)
            tail == SubSeq(before, w + 1, n)
<1>1. Running /\ ~Running' /\ Active(len', slots') = Active(len, slots)
      /\ reply' = Reply("retain", <<retain.read, kept>>, Panicked)
    BY DEF Panic, EndRetain, Idle, Running
<1>2. /\ kept \subseteq 1 .. retain.read /\ Cardinality(kept) = w
      /\ w \in 0 .. N /\ w <= retain.read /\ retain.read \in 0 .. N
      /\ retain.cur = n /\ n \in 0 .. N /\ N \in Nat
      /\ before \in Seq(Elem) /\ Len(before) = n
      /\ head = [p \in 1 .. w |-> slots[p - 1]]
    BY <1>1, KeptIsInFront
<1>3. retain.read < n
    BY <1>2 DEF Panic
<1>4. Shown = before /\ Shown' = [p \in 1 .. n |-> slots[p - 1]]
    BY <1>1 DEF Shown, Active, ActiveLen
<1>5. \A k \in w .. n - 1 : slots[k] = before[k + 1]
    BY <1>1, <1>2 DEF NothingMoved
<1>6. slots \in [Slot -> Elem]
    BY DEF IInv, TypeOK
<1>7. w + 1 \in 1 .. n + 1 /\ w + 1 <= n
    BY <1>2, <1>3
<1>. HIDE DEF w, n
<1>8. head \in Seq(Elem) /\ Len(head) = w
  <2>1. \A p \in 1 .. w : slots[p - 1] \in Elem
      BY <1>2, <1>6 DEF Slot
  <2>. HIDE DEF head
  <2>. QED
      BY <1>2, <2>1
<1>9. /\ tail = [k \in 1 .. n - (w + 1) + 1 |-> before[k + (w + 1) - 1]]
      /\ tail \in Seq(Elem) /\ Len(tail) = n - w
  <2>1. tail = [k \in 1 .. n - (w + 1) + 1 |-> before[k + (w + 1) - 1]]
      BY <1>2, <1>7, SubSeqIs
  <2>2. n - (w + 1) + 1 = n - w /\ n - w \in Nat
      BY <1>2, <1>7
  <2>3. \A k \in 1 .. n - w : before[k + (w + 1) - 1] \in Elem
    <3>1. \A k \in 1 .. n - w : k + (w + 1) - 1 \in 1 .. n
        BY <1>2
    <3>. QED
        BY <1>2, <3>1
  <2>. HIDE DEF tail
  <2>. QED
      BY <2>1, <2>2, <2>3
<1>10. head \o tail
         = [k \in 1 .. n |-> IF k <= w THEN head[k] ELSE tail[k - w]]
  <2>. HIDE DEF head, tail
  <2>1. n \in Int /\ w \in Int
      BY <1>2
  <2>2. /\ head \in Seq(Elem) /\ tail \in Seq(Elem)
        /\ Len(head) = w /\ Len(tail) = n - w
      BY <1>8, <1>9
  <2>3. w + (n - w) = n
      BY <2>1
  <2>4. head \o tail = [k \in 1 .. Len(head) + Len(tail) |->
                           IF k <= Len(head) THEN head[k] ELSE tail[k - Len(head)]]
      BY <2>2, ConcatIs
  <2>. QED
      BY <2>2, <2>3, <2>4
<1>. HIDE DEF head, tail
<1>11. ASSUME NEW k \in 1 .. n
       PROVE  slots[k - 1] = IF k <= w THEN head[k] ELSE tail[k - w]
  <2>1. CASE k <= w
    <3>1. k \in 1 .. w
        BY <1>2, <2>1
    <3>. QED
        BY <1>2, <2>1, <3>1
  <2>2. CASE ~(k <= w)
    <3>1. k - w \in 1 .. n - (w + 1) + 1 /\ k - w + (w + 1) - 1 = k
          /\ k - 1 \in w .. n - 1 /\ k - 1 + 1 = k
        BY <1>2, <2>2
    <3>2. tail[k - w] = before[k]
        BY <1>9, <3>1
    <3>3. slots[k - 1] = before[k]
        BY <1>5, <3>1
    <3>. QED
        BY <2>2, <3>2, <3>3
  <2>. QED
      BY <2>1, <2>2
<1>12. Shown' = head \o tail
    BY <1>4, <1>10, <1>11
<1>13. retain.read \in 0 .. Len(Shown) - 1 /\ kept \in SUBSET (1 .. retain.read)
    BY <1>2, <1>3, <1>4
<1>14. Shown' = Vec!Picked(Shown, kept)
                  \o SubSeq(Shown, Cardinality(kept) + 1, Len(Shown))
    BY <1>2, <1>4, <1>12 DEF head, tail
<1>. QED
  <2>1. Vec!Returns(Vec!Picked(Shown, kept) \o SubSeq(Shown, Cardinality(kept) + 1, Len(Shown)),
                    Vec!Reply("retain", <<retain.read, kept>>, Vec!Panicked))
      BY <1>1, <1>14, ReturnsIs, SameAnswers
  <2>2. Vec!Filtering
      BY <1>1, SameAnswers DEF PendingIsRunning, Vec!Filtering
  <2>3. Vec!Cardinality(kept) = Cardinality(kept)
      BY PickedIs
  <2>. QED
      BY <1>13, <2>1, <2>2, <2>3 DEF Vec!Unwind, Shown

\* retain filters (vec.rs:509-510).
LEMMA FinishRetainImplements ==
    ASSUME IInv, PendingIsRunning, FinishRetain
    PROVE  Vec!Filter(kept) /\ kept \in SUBSET DOMAIN Shown
<1>. DEFINE w == retain.write
            data == ZeroRange(slots, w, retain.cur)
            answer == Reply("retain", <<retain.read, kept>>, Done)
<1>1. Running /\ ~Running' /\ Store(w, data, answer)
    BY DEF FinishRetain, EndRetain, Idle, Running
<1>2. /\ kept \subseteq 1 .. retain.read /\ w \in 0 .. N /\ N \in Nat
      /\ retain.read = ActiveLen /\ ActiveLen \in 0 .. N
      /\ before \in Seq(Elem) /\ Len(before) = ActiveLen /\ w <= ActiveLen
      /\ Vec!Picked(before, kept) = [p \in 1 .. w |-> slots[p - 1]]
    BY <1>1, KeptIsInFront DEF FinishRetain
<1>3. Shown' = [p \in 1 .. w |-> data[p - 1]] /\ reply' = answer
    BY <1>1, <1>2, StoreShows
<1>4. Shown = before
    BY <1>1 DEF Shown
<1>5. ASSUME NEW p \in 1 .. w PROVE data[p - 1] = slots[p - 1]
  <2>1. p - 1 \in Slot /\ ~(w <= p - 1)
      BY <1>2 DEF Slot
  <2>. QED
      BY <2>1 DEF ZeroRange
<1>. HIDE DEF data, w
<1>6. Shown' = Vec!Picked(Shown, kept)
    BY <1>2, <1>3, <1>4, <1>5
<1>7. kept \in SUBSET DOMAIN Shown
    BY <1>2, <1>4
<1>8. Vec!Returns(Vec!Picked(Shown, kept), Vec!Reply("retain", <<Len(Shown), kept>>, Vec!Done))
    BY <1>2, <1>3, <1>4, <1>6, ReturnsIs, SameAnswers
<1>9. Vec!Filtering
    BY <1>1, SameAnswers DEF PendingIsRunning, Vec!Filtering
<1>. QED
    BY <1>7, <1>8, <1>9 DEF Vec!Filter, Shown

-----------------------------------------------------------------------------

\* The bytes of an account show at most N elements (vec.rs:150-154).
LEMMA InitImplements ==
    ASSUME Init
    PROVE  Vec!Init
<1>1. IInv /\ ~Running
    BY InitInvariant DEF Init, Idle, Running
<1>2. /\ Shown = [k \in 1 .. ActiveLen |-> slots[k - 1]]
      /\ ActiveLen \in 0 .. N /\ Shown \in Seq(Elem) /\ Len(Shown) = ActiveLen
    BY <1>1, IdleShows
<1>. HIDE DEF Shown
<1>3. Shown \in [1 .. ActiveLen -> Elem]
    BY <1>2
<1>4. Shown \in UNION {[1 .. n -> Elem] : n \in 0 .. N}
    BY <1>2, <1>3
<1>. QED
    BY <1>4, SameAnswers DEF Vec!Init, Init, Shown

\* Each step is the call of the same name of BoundedVec, or one the program does
\* not see.
LEMMA StepImplements ==
    ASSUME IInv, PendingIsRunning, NothingMoved, [Next]_vars
    PROVE  [Vec!Next]_Vec!vars
<1>1. CASE UNCHANGED vars
    BY <1>1 DEF vars, Vec!vars, Running, Active
<1>2. CASE Keep \/ Drop
    BY <1>2, ClosureStutters
<1>3. ASSUME NEW v \in Given, TryPush(v) PROVE Vec!Next
    BY <1>3, TryPushImplements DEF Vec!Next
<1>4. ASSUME NEW values \in Inputs, TryExtend(values) \/ TrySet(values) PROVE Vec!Next
  <2>1. values \in Vec!Inputs /\ (Vec!TryExtend(values) \/ Vec!TrySet(values))
      BY <1>4, SameInputs, TryExtendImplements, TrySetImplements
  <2>. QED
      BY <2>1 DEF Vec!Next
<1>5. ASSUME NEW index \in Slot, NEW v \in Given, Assign(index, v) PROVE Vec!Next
    BY <1>5, AssignImplements DEF Vec!Next, Slot
<1>6. CASE Pop
    BY <1>6, PopImplements DEF Vec!Next
<1>7. ASSUME NEW index \in 0 .. N, Remove(index) \/ SwapRemove(index) PROVE Vec!Next
    BY <1>7, RemoveImplements, SwapRemoveImplements DEF Vec!Next
<1>8. ASSUME NEW n \in 0 .. N, Truncate(n) PROVE Vec!Next
    BY <1>8, TruncateImplements DEF Vec!Next
<1>9. CASE Clear
    BY <1>9, ClearImplements DEF Vec!Next
<1>10. CASE Retain
    BY <1>10, RetainImplements DEF Vec!Next
<1>11. CASE Panic
  <2>1. /\ Vec!Unwind(retain.read, kept) /\ retain.read \in 0 .. Len(Shown) - 1
        /\ kept \in SUBSET (1 .. retain.read)
      BY <1>11, PanicImplements
  <2>. QED
      BY <2>1 DEF Vec!Next, Shown
<1>12. CASE FinishRetain
  <2>1. Vec!Filter(kept) /\ kept \in SUBSET DOMAIN Shown
      BY <1>12, FinishRetainImplements
  <2>. QED
      BY <2>1 DEF Vec!Next, Shown
<1>. QED
    BY <1>1, <1>2, <1>3, <1>4, <1>5, <1>6, <1>7, <1>8, <1>9, <1>10, <1>11, <1>12 DEF Next

\* Every call on a PodVecRepr is the call of the same name, with the same
\* arguments, on the bounded sequence it shows, and returns the same, whatever
\* the bytes it was laid over and wherever a closure panicked (vec.rs:234-523):
\* no write that fits is refused, and no removal answers None where there is an
\* element.
THEOREM VecIsImplemented == Spec => ImplementsBoundedVec
<1>1. Init => Vec!Init
    BY InitImplements
<1>2. IInv /\ PendingIsRunning /\ NothingMoved /\ [Next]_vars => [Vec!Next]_Vec!vars
    BY StepImplements
<1>3. Init => NothingMoved
    BY NothingMovedInit
<1>4. IInv /\ NothingMoved /\ [Next]_vars => NothingMoved'
    BY NothingMovedStep
<1>5. Init => PendingIsRunning
    BY PendingInit
<1>6. IInv /\ PendingIsRunning /\ [Next]_vars => PendingIsRunning'
    BY PendingStep
<1>. QED
    BY <1>1, <1>2, <1>3, <1>4, <1>5, <1>6, Invariance, PTL
    DEF Spec, ImplementsBoundedVec, Vec!Spec
================================================================================
