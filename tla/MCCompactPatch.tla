---------------------------- MODULE MCCompactPatch ----------------------------
(***************************************************************************)
(* A vector of four-byte elements, and an optional one with a two-byte     *)
(* prefix, so that an allocation grows in steps of two bytes.  The inline  *)
(* field has no valid zero, like an enum counted from one.                 *)
(***************************************************************************)
EXTENDS CompactPatch

MCRadix == 256
MCUsizeMax == 65535

MCInline == [size |-> 1, ok |-> [a \in {0} |-> {1, 2}], error |-> "InvalidTag"]
MCInlineValues == {}

MCTails ==
    << [opt |-> FALSE, max |-> 2, pfx |-> 1, size |-> 4, ok |-> 10 .. 19, error |-> "InvalidBool"],
       [opt |-> TRUE,  max |-> 1, pfx |-> 2, size |-> 4, ok |-> 20 .. 29, error |-> "InvalidBool"] >>

MCSlot == <<1, 2>>
MCHeaderSize == 3

One == <<10, 11, 12, 13>>
Two == <<14, 15, 16, 17, 18, 19, 10, 11>>
Other == <<20, 21, 22, 23>>

\* Spare bytes are not the schema's: the last one is not zero.
Padded(bytes, n) ==
    [k \in 1 .. n |-> IF k <= Len(bytes) THEN bytes[k] ELSE IF k = n THEN 7 ELSE 0]

\* Stored values in allocations that fit them exactly, loosely or to the full;
\* and zeroed storage, one of a size no schema allocation has.
MCAccounts ==
    LET stored(one, two) == Encode([inline |-> [a \in {0} |-> 1], tails |-> <<one, two>>])
        values == {stored(one, two) : one \in {Present(<< >>), Present(Two)},
                                      two \in {Absent, Present(Other)}}
    IN  values
        \cup {Padded(bytes, 17) : bytes \in values}
        \cup {[k \in 1 .. n |-> 0] : n \in {2, 3, 8, 9}}

Vector(bytes) ==
    [staged |-> TRUE, present |-> TRUE, count |-> Len(bytes) \div 4, bytes |-> bytes]
None == [staged |-> TRUE, present |-> FALSE, count |-> 0, bytes |-> << >>]

\* Replacements of every size, one too long and one with an invalid element.
MCOffers ==
    << {Vector(<< >>), Vector(One), Vector(Two), Vector(Two \o One), Vector(<<10, 11, 12, 9>>)},
       {None, Vector(<< >>), Vector(Other), Vector(Other \o Other)} >>

MCPatch(inline, one, two) ==
    [setsInline |-> inline # 0, inline |-> [a \in {0} |-> inline], tails |-> <<one, two>>]

MCPatches ==
    {MCPatch(inline, one, two) :
        inline \in {0, 2},
        one \in {Keep, Vector(<< >>), Vector(One), Vector(Two)},
        two \in {Keep, None, Vector(<< >>), Vector(Other)}}
    \cup {MCPatch(3, Vector(One), Keep),
          MCPatch(2, Vector(Two \o One), Keep),
          MCPatch(2, Vector(<<10, 11, 12, 9>>), None),
          MCPatch(2, Vector(One), Vector(Other \o Other))}

MCPlanned == {MCPatch(0, Keep, Vector(<< >>)), MCPatch(2, Vector(Two), Vector(Other))}
=============================================================================
