-------------------------------- MODULE PodString ------------------------------
(***************************************************************************)
(* PodString<N, PFX> (pinapod/src/pod/string.rs): a PodVec-like store of   *)
(* bytes whose active part is UTF-8.  Accessors trust that it is           *)
(* (from_utf8_unchecked), so every call has to leave it so.  A character   *)
(* is the sequence of its bytes, and bytes are told apart by their role in *)
(* a character only.                                                       *)
(***************************************************************************)
EXTENDS PodSlots, SequencesExt

CONSTANTS
    Chars,         \* the characters
    Continuation,  \* bytes that no character begins with
    Offered        \* the texts the program passes in

VARIABLES
    len,     \* the stored prefix
    slots,   \* the stored bytes
    reply,   \* what the last call was asked and answered
    touched  \* history: bytes that were active at any time

vars == <<len, slots, reply, touched>>

Done == <<"ok">>
Overflow == <<"Overflow">>
Truncated(n) == <<"truncated", n>>

ActiveLen == Clamp(len)
Text == Active(len, slots)

\* The &str values the program passes in, as bytes.
Inputs == {FlattenSeq(s) : s \in Offered}

\* core::str::from_utf8: the bytes are cut into characters at B.
IsUtf8(bytes) ==
    \E B \in SUBSET (0 .. Len(bytes)) :
        /\ {0, Len(bytes)} \subseteq B
        /\ \A i \in B \ {Len(bytes)} :
               \E c \in Chars :
                   /\ i + Len(c) \in B
                   /\ \A j \in B : j <= i \/ j >= i + Len(c)
                   /\ SubSeq(bytes, i + 1, i + Len(c)) = c

ASSUME CharsAssumption ==
    /\ \A c \in Chars : c \in Seq(Elem) /\ Len(c) >= 1 /\ c[1] \notin Continuation
    /\ \A c \in Chars : \A i \in 2 .. Len(c) : c[i] \in Continuation

\* What the type &str promises: a text is a sequence of characters.
ASSUME OfferedAssumption == Offered \subseteq Seq(Chars)

-----------------------------------------------------------------------------

\* Account bytes whose active part is UTF-8, as every accessor asks for; the
\* prefix may be corrupt and the inactive bytes anything.
Init ==
    /\ len \in 0 .. PrefixMax
    /\ slots \in [Slot -> Elem]
    /\ IsUtf8(Text)
    /\ reply = Done
    /\ touched = 0 .. ActiveLen - 1

Store(n, data, answer) ==
    /\ slots' = data
    /\ len' = EncodeLen(n)
    /\ reply' = answer
    /\ touched' = touched \cup 0 .. Clamp(EncodeLen(n)) - 1

Unchanged(answer) ==
    /\ reply' = answer
    /\ UNCHANGED <<len, slots, touched>>

\* Mutant: the rest of a longer old value stays.
TrySetWithoutZeroing(value) ==
    IF Len(value) > N
    THEN Unchanged(Overflow)
    ELSE Store(Len(value), CopyTo(slots, 0, value), Done)

TrySet(value) ==
    LET copied == CopyTo(slots, 0, value)
    IN  IF Len(value) > N
        THEN Unchanged(Overflow)
        ELSE Store(Len(value),
                   IF Len(value) < ActiveLen
                   THEN ZeroRange(copied, Len(value), ActiveLen)
                   ELSE copied,
                   Done)

TryPushStr(value) ==
    LET n == ActiveLen + Len(value)
    IN  IF n > N
        THEN Unchanged(Overflow)
        ELSE Store(n, CopyTo(slots, ActiveLen, value), Done)

\* str::is_char_boundary.
IsCharBoundary(b) == b = 0 \/ b = ActiveLen \/ slots[b] \notin Continuation

\* Where the walk down from n stops.
Boundary(n) ==
    CHOOSE b \in 0 .. n :
        /\ IsCharBoundary(b)
        /\ \A a \in b + 1 .. n : ~IsCharBoundary(a)

\* Mutant: there is no walk.
TruncateAnywhere(n) ==
    IF n >= ActiveLen
    THEN Unchanged(Truncated(n))
    ELSE Store(n, ZeroRange(slots, n, ActiveLen), Truncated(n))

\* Mutant: the walk goes up to the next boundary.
TruncateUp(n) ==
    LET b == CHOOSE b \in n .. ActiveLen :
                 IsCharBoundary(b) /\ \A a \in n .. b - 1 : ~IsCharBoundary(a)
    IN  IF n >= ActiveLen
        THEN Unchanged(Truncated(n))
        ELSE Store(b, ZeroRange(slots, b, ActiveLen), Truncated(n))

Truncate(n) ==
    IF n >= ActiveLen
    THEN Unchanged(Truncated(n))
    ELSE Store(Boundary(n), ZeroRange(slots, Boundary(n), ActiveLen), Truncated(n))

Clear == Store(0, ZeroRange(slots, 0, ActiveLen), Truncated(0))

Next ==
    \/ \E value \in Inputs : TrySet(value)
    \/ \E value \in Inputs : TryPushStr(value)
    \/ \E n \in 0 .. N : Truncate(n)
    \/ Clear

Spec == Init /\ [][Next]_vars

-----------------------------------------------------------------------------

\* The bytes every accessor hands out unchecked as &str are UTF-8 after any
\* sequence of calls, also under a corrupt prefix (string.rs:168-190): no call
\* leaves part of a character.
StaysUtf8 == IsUtf8(Text)

\* A byte that was ever active and is not any more is zero, the bytes of a
\* character that truncation gave up included (string.rs:308-310).
VacatedBytesAreZero ==
    \A k \in touched : k >= ActiveLen => slots[k] = Zero

\* The characters a text is made of, which its bytes determine.
Characters(bytes) ==
    CHOOSE s \in BoundedSeq(Chars, Len(bytes)) : FlattenSeq(s) = bytes

Abstract == INSTANCE BoundedText WITH
    text <- Characters(Text),
    answer <- reply

\* Calls act on whole characters: a value is stored or appended completely or
\* refused, and truncation keeps the longest text of whole characters that fits
\* (string.rs:301-331).
ImplementsBoundedText == Abstract!Spec
=============================================================================
