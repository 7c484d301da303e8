--------------------------- MODULE MCCompactReader ---------------------------
(***************************************************************************)
(* A bool, an integer and an enum with no discriminant of zero; a vector   *)
(* tail whose eight-byte prefix is wider than usize, and an optional       *)
(* vector tail with a two-byte prefix, over a three-valued byte.  The byte *)
(* 2 stands for an invalid tag, bool and element byte.                     *)
(* The buffers are every byte string of the lengths below, but for the     *)
(* wide prefix, which takes the values that decide something: within and   *)
(* beyond the capacity, and beyond usize with and without low digits.      *)
(***************************************************************************)
EXTENDS CompactReader

CONSTANTS MaxBody   \* bytes after the header that take every value

MCRadix == 3
MCUsizeMax == 80    \* four digits of radix 3: the shape of a 32-bit target

MCKind == [a \in 0 .. 2 |-> <<"bool", "copied", "enum">>[a + 1]]
MCInline ==
    [size |-> 3, ok |-> [a \in 0 .. 2 |-> <<{0, 1}, 0 .. 2, {1, 2}>>[a + 1]],
     error |-> "InvalidInline"]

MCTails ==
    << [opt |-> FALSE, max |-> 1, pfx |-> 8, size |-> 4, ok |-> {0, 1}, error |-> "InvalidUtf8"],
       [opt |-> TRUE,  max |-> 1, pfx |-> 2, size |-> 4, ok |-> {0, 1}, error |-> "InvalidBool"] >>

MCSlot == <<3, 11>>
MCHeaderSize == 12

\* Every bool and enum byte, valid or refused, around an integer.
InlineBytes == {<<bool, 2, enum>> : bool \in 0 .. 2, enum \in 0 .. 2}

WidePrefixes ==
    {<<0, 0, 0, 0, 0, 0, 0, 0>>, <<1, 0, 0, 0, 0, 0, 0, 0>>, <<2, 0, 0, 0, 0, 0, 0, 0>>,
     <<0, 0, 0, 0, 1, 0, 0, 0>>, <<1, 0, 0, 0, 1, 0, 0, 0>>, <<1, 0, 0, 0, 0, 0, 0, 2>>}

MCHeads ==
    {inline \o wide \o <<tag>> :
        inline \in InlineBytes, wide \in WidePrefixes, tag \in 0 .. 2}
    \cup {[k \in 1 .. n |-> 0] : n \in 0 .. (MCHeaderSize - 1)}

\* Every body of at most MaxBody bytes, and those of well-formed bytes long
\* enough for one element more than the first tail admits.
MCBodies == UNION {[1 .. n -> 0 .. 2] : n \in 0 .. MaxBody} \cup [1 .. 8 -> 0 .. 1]
=============================================================================
