-------------------------------- MODULE PodSlots -------------------------------
(***************************************************************************)
(* The storage of PodVecRepr<T, N, PFX> (pinapod/src/pod/vec.rs): a        *)
(* little-endian element count of PFX bytes and N element slots, laid over *)
(* account bytes that may hold anything.  An element is one member of      *)
(* Elem, the bit patterns of a slot; Legal are those T::validate_ref       *)
(* accepts.                                                                *)
(***************************************************************************)
EXTENDS Integers, Sequences

CONSTANTS
    N,          \* capacity in elements
    PrefixMax,  \* largest value of the PFX-byte prefix
    UsizeMax,   \* usize::MAX of the target
    Elem,       \* bit patterns of one slot
    Zero,       \* the slot of zero bytes
    Legal       \* slots that hold a valid T

\* _CAP_CHECK, and an object that fits in memory.
ASSUME PodSlotsAssumption ==
    /\ N \in Nat /\ PrefixMax \in Nat /\ UsizeMax \in Nat
    /\ N <= PrefixMax /\ N <= UsizeMax
    /\ Zero \in Elem
    /\ Legal \subseteq Elem

Slot == 0 .. N - 1

\* usize::MAX stands for a prefix wider than usize.
DecodeLen(prefix) == IF prefix > UsizeMax THEN UsizeMax ELSE prefix

Clamp(prefix) == IF DecodeLen(prefix) < N THEN DecodeLen(prefix) ELSE N

\* `n as uN`, in little-endian bytes.
EncodeLen(n) == n % (PrefixMax + 1)

\* The active elements as a sequence.
Active(prefix, data) == [k \in 1 .. Clamp(prefix) |-> data[k - 1]]

ZeroRange(data, from, to) ==
    [k \in Slot |-> IF from <= k /\ k < to THEN Zero ELSE data[k]]

\* Copies `values` to the slots from `from` on.
CopyTo(data, from, values) ==
    [k \in Slot |->
        IF from <= k /\ k < from + Len(values) THEN values[k - from + 1] ELSE data[k]]

\* validate_ref and try_as_slice: the raw prefix and every active element.
Valid(prefix, data) ==
    /\ prefix <= UsizeMax
    /\ prefix <= N
    /\ \A k \in 0 .. prefix - 1 : data[k] \in Legal
=============================================================================
