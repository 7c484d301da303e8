------------------------------- MODULE BoundedText -----------------------------
(***************************************************************************)
(* What a PodString promises, without bytes of its own: a sequence of      *)
(* characters, each the sequence of its bytes, of at most N bytes in all.  *)
(***************************************************************************)
EXTENDS Integers, Sequences, SequencesExt

CONSTANTS
    N,       \* capacity in bytes
    Offered \* the texts a caller stores or appends

VARIABLES
    text,   \* the characters
    answer  \* what the last call was asked and answered

vars == <<text, answer>>

Done == <<"ok">>
Overflow == <<"Overflow">>
Truncated(n) == <<"truncated", n>>

\* str::len.
Size(s) == Len(FlattenSeq(s))

Init == Size(text) <= N /\ answer = Done

Replace(s) ==
    /\ Size(s) <= N
    /\ text' = s /\ answer' = Done

Extend(s) ==
    /\ Size(text) + Size(s) <= N
    /\ text' = text \o s /\ answer' = Done

Refuse(s) ==
    /\ Size(s) > N \/ Size(text) + Size(s) > N
    /\ answer' = Overflow
    /\ UNCHANGED text

\* The longest run of whole characters that fits in n bytes.
Shorten(n) ==
    LET Fits(k) == Size(SubSeq(text, 1, k)) <= n
    IN  \E k \in 0 .. Len(text) :
            /\ Fits(k) /\ (k < Len(text) => ~Fits(k + 1))
            /\ text' = SubSeq(text, 1, k)
            /\ answer' = Truncated(n)

Next ==
    \/ \E s \in Offered : Replace(s) \/ Extend(s) \/ Refuse(s)
    \/ \E n \in 0 .. N : Shorten(n)

Spec == Init /\ [][Next]_vars
=============================================================================
