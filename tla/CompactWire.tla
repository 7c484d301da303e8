----------------------------- MODULE CompactWire -----------------------------
(***************************************************************************)
(* The reference codec of a compact schema: what a value is, which values  *)
(* the schema admits, and the one byte string that stands for each.  It is *)
(* written from the wire format, not from the walks of CompactLayout, so   *)
(* that the walks and the writer can be compared with it.                  *)
(***************************************************************************)
EXTENDS CompactLayout

\* One stored tail: an absent option, or a payload of whole elements.
Absent == [present |-> FALSE, bytes |-> << >>]
Present(bytes) == [present |-> TRUE, bytes |-> bytes]

\* Elements in a stored tail.
Count(i, tail) == Len(tail.bytes) \div Tails[i].size

\* The tail is one its field can hold.
Admissible(i, tail) ==
    /\ tail.present \/ Tails[i].opt
    /\ tail.present \/ tail.bytes = << >>
    /\ Len(tail.bytes) % Tails[i].size = 0
    /\ Count(i, tail) <= Tails[i].max
    /\ \A k \in DOMAIN tail.bytes : tail.bytes[k] \in Tails[i].ok

AdmissibleContent(content) ==
    /\ \A a \in DOMAIN content.inline : content.inline[a] \in Inline.ok[a]
    /\ \A i \in TailId : Admissible(i, content.tails[i])

\* Bytes a tail takes after the header.
TailLen(i, tail) ==
    Len(tail.bytes) + (IF Tails[i].opt /\ tail.present THEN Tails[i].pfx ELSE 0)

\* LengthTo(content)[i]: where the first i tails end.
LengthTo(content) ==
    LET upTo[i \in 0 .. TailCount] ==
            IF i = 0 THEN HeaderSize ELSE upTo[i - 1] + TailLen(i, content.tails[i])
    IN  upTo

ContentLen(content) == LengthTo(content)[TailCount]

PrefixBytes(value, pfx) == [k \in 1 .. pfx |-> LeByte(value, k - 1)]

\* Tail i's slot in the header, and what follows the header for it.
SlotBytes(i, tail) ==
    IF ~Tails[i].opt THEN PrefixBytes(Count(i, tail), Tails[i].pfx)
    ELSE IF tail.present THEN <<1>> ELSE <<0>>

PayloadBytes(i, tail) ==
    IF Tails[i].opt /\ tail.present
    THEN PrefixBytes(Count(i, tail), Tails[i].pfx) \o tail.bytes
    ELSE tail.bytes

\* The inline bytes and the slots of the first i tails; the payloads of the
\* first i tails.
HeaderTo(content) ==
    LET header[i \in 0 .. TailCount] ==
            IF i = 0 THEN [k \in 1 .. Inline.size |-> content.inline[k - 1]]
            ELSE header[i - 1] \o SlotBytes(i, content.tails[i])
    IN  header

BodyTo(content) ==
    LET body[i \in 0 .. TailCount] ==
            IF i = 0 THEN << >> ELSE body[i - 1] \o PayloadBytes(i, content.tails[i])
    IN  body

\* The encoding of a value, as a sequence of bytes.
Encode(content) == HeaderTo(content)[TailCount] \o BodyTo(content)[TailCount]

\* The buffer d once the value is stored over its own: the encoding, zeros to
\* the end of what was there, and the spare bytes beyond as they were.
StoredOver(content, d) ==
    LET bytes == Encode(content)
    IN  [a \in DOMAIN d |-> IF a < ContentLen(content) THEN bytes[a + 1]
                            ELSE IF a < EncodedLen(d) THEN 0
                            ELSE d[a]]
=============================================================================
