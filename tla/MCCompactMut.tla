----------------------------- MODULE MCCompactMut -----------------------------
(***************************************************************************)
(* A string, an optional vector of two-byte elements, and a string whose   *)
(* prefix is two bytes wide.  Every payload byte names the tail and the    *)
(* value it belongs to, so that a byte out of place shows.                 *)
(***************************************************************************)
EXTENDS CompactMutValue

CONSTANTS
    Sizes,   \* account sizes
    Spare    \* fills the bytes an account does not use

MCRadix == 256
MCUsizeMax == 65535

MCInline == [size |-> 1, ok |-> [a \in {0} |-> {1, 2}], error |-> "InvalidBool"]
MCInlineValues == {[a \in {0} |-> 2]}

MCTails ==
    << [opt |-> FALSE, max |-> 2, pfx |-> 1, size |-> 1, ok |-> 10 .. 19, error |-> "InvalidUtf8"],
       [opt |-> TRUE,  max |-> 2, pfx |-> 1, size |-> 2, ok |-> 20 .. 29, error |-> "InvalidBool"],
       [opt |-> FALSE, max |-> 3, pfx |-> 2, size |-> 1, ok |-> 30 .. 39, error |-> "InvalidUtf8"] >>

MCSlot == <<1, 2, 3>>
MCHeaderSize == 5

Stores ==
    << {Present(<< >>), Present(<<10>>), Present(<<11, 12>>)},
       {Absent, Present(<< >>), Present(<<20, 21>>), Present(<<22, 23, 24, 25>>)},
       {Present(<< >>), Present(<<30>>), Present(<<31, 32, 33>>)} >>

StoredBytes(tails) == Encode([inline |-> [a \in {0} |-> 1], tails |-> tails])

\* A value, and the bytes that fill the rest of an account of n bytes.
Padded(bytes, n) == [k \in 1 .. n |-> IF k <= Len(bytes) THEN bytes[k] ELSE Spare]

\* Every stored value, in an account of each size it fits in.
MCAccounts ==
    UNION {{Padded(StoredBytes(<<one, two, three>>), n) :
               n \in {m \in Sizes : m >= Len(StoredBytes(<<one, two, three>>))}} :
           one \in Stores[1], two \in Stores[2], three \in Stores[3]}

Staged(present, count, bytes) ==
    [staged |-> TRUE, present |-> present, count |-> count, bytes |-> bytes]

\* Replacements that shrink and grow each tail, and one too long to accept.
MCOffers ==
    << {Staged(TRUE, 0, << >>), Staged(TRUE, 2, <<11, 12>>), Staged(TRUE, 3, <<13, 14, 15>>)},
       {Staged(FALSE, 0, << >>), Staged(TRUE, 0, << >>), Staged(TRUE, 2, <<22, 23, 24, 25>>)},
       {Staged(TRUE, 0, << >>), Staged(TRUE, 3, <<31, 32, 33>>)} >>
=============================================================================
