------------------------------- MODULE VariantCell -----------------------------
(***************************************************************************)
(* What an account of a compact enum promises: it holds one admissible     *)
(* variant, or bytes nobody can read, in some capacity.                    *)
(***************************************************************************)
EXTENDS Integers

CONSTANTS
    Patches,        \* the variants the program writes
    Allocation,     \* the capacities an account of the schema may have
    Unreadable,     \* no variant
    Admissible(_),  \* variants the schema admits
    Size(_),        \* the bytes of an admissible one
    Zeroed(_)       \* what zero bytes of a capacity read as

VARIABLES value, capacity, answer

vars == <<value, capacity, answer>>

Readable == value # Unreadable
Fits(v, n) == Admissible(v) /\ Size(v) <= n /\ n \in Allocation

Init ==
    /\ Readable => Fits(value, capacity)
    /\ answer.op = "none"

Answers(op, v, ok) ==
    answer' = [op |-> op, patch |-> v, ok |-> ok, len |-> IF ok THEN Size(v) ELSE 0]

UpdatedLen(v) ==
    /\ Answers("updated_len", v, Readable /\ Admissible(v))
    /\ UNCHANGED <<value, capacity>>

Update(v) ==
    LET ok == Readable /\ Fits(v, capacity)
    IN  /\ Answers("update", v, ok)
        /\ value' = IF ok THEN v ELSE value
        /\ UNCHANGED capacity

Initialize(v) ==
    LET ok == Fits(v, capacity)
    IN  /\ Answers("initialize", v, ok)
        /\ value' = IF ok THEN v ELSE Zeroed(capacity)
        /\ UNCHANGED capacity

\* Only to a length a call has just returned.
Resize ==
    /\ answer.ok
    /\ capacity' = answer.len
    /\ Fits(value, capacity')
    /\ UNCHANGED <<value, answer>>

Next ==
    \/ \E v \in Patches : UpdatedLen(v) \/ Update(v) \/ Initialize(v)
    \/ Resize

Spec == Init /\ [][Next]_vars
=============================================================================
