---------------------------- MODULE CompactLayout ----------------------------
(***************************************************************************)
(* The wire layout of one compact schema, as the derive generates it       *)
(* (pinapod-derive/src/compact.rs): a fixed header (inline pods, then one  *)
(* length prefix or option tag per tail) followed by the tails, packed     *)
(* without gaps.  The module holds the constants that describe a schema    *)
(* and the pure walks over bytes: the two validation depths, and the       *)
(* unchecked offset replay the readers use once a buffer is validated.     *)
(***************************************************************************)
EXTENDS Prefixes, Sequences

CONSTANTS
    Inline,      \* the inline pods, a byte each: [size, ok, error]; ok[a] are
                 \* the values validate_ref accepts at offset a
    Tails,       \* the tails in field order, each a member of TailSchema
    HeaderSize,  \* size_of::<Header>()
    Slot         \* Slot[i]: offset of tail i's prefix or tag in the header

\* One tail field.  opt: OptionTag or Always presence; max: capacity in
\* elements; pfx: prefix width; size: size_of an element (1 for a string);
\* ok, error: the payload bytes the semantic walk accepts and what it says of
\* the others (InvalidUtf8 for a string, the element's error for a vector).
TailSchema ==
    [opt: BOOLEAN, max: Nat, pfx: Width, size: Nat \ {0},
     ok: SUBSET Byte, error: STRING]

TailCount == Len(Tails)
TailId == 1 .. TailCount

\* Bytes of tail i's slot in the header: a tag, or a prefix.
SlotWidth(i) == IF Tails[i].opt THEN 1 ELSE Tails[i].pfx

\* Where the slots of the first i tails end.
HeaderEnd(i) == IF i = 0 THEN Inline.size ELSE Slot[i] + SlotWidth(i)

\* The schema is one the derive compiles, the header fields are laid out one
\* after the other as repr(C) lays out alignment-one fields, and a usize holds
\* every u16, as on every target of the language.
ASSUME SchemaAssumption ==
    /\ Radix * Radix - 1 <= UsizeMax
    /\ Inline.size \in Nat
    /\ Inline.ok \in [0 .. (Inline.size - 1) -> SUBSET Byte]
    /\ Tails \in Seq(TailSchema)
    /\ HeaderSize \in Nat
    /\ Slot \in [TailId -> Nat]
    /\ \A i \in TailId : Slot[i] = HeaderEnd(i - 1)
    /\ HeaderSize = HeaderEnd(TailCount)

-----------------------------------------------------------------------------
(* Allocation sizes.                                                       *)

\* Euclid's loop: Gcd[<<left, right>>].
Gcd[pair \in Nat \X Nat] ==
    IF pair[2] = 0 THEN pair[1] ELSE Gcd[<<pair[2], pair[1] % pair[2]>>]

MinSize == HeaderSize

\* compact_max_size: the header and every tail at its capacity.
Capacity[i \in 0 .. TailCount] ==
    IF i = 0 THEN HeaderSize
    ELSE Capacity[i - 1] + Tails[i].max * Tails[i].size
           + (IF Tails[i].opt THEN Tails[i].pfx ELSE 0)

MaxSize == Capacity[TailCount]

\* Mutant: the granule of an optional tail's prefix is forgotten.
TailAlignmentOfElements ==
    LET upTo[i \in 0 .. TailCount] ==
            IF i = 0 THEN 0 ELSE Gcd[<<upTo[i - 1], Tails[i].size>>]
    IN  IF upTo[TailCount] = 0 THEN 1 ELSE upTo[TailCount]

\* compact_tail_alignment: the gcd of every granule a tail can grow by.
Granule[i \in 0 .. TailCount] ==
    IF i = 0 THEN 0
    ELSE LET withElem == Gcd[<<Granule[i - 1], Tails[i].size>>]
         IN  IF Tails[i].opt THEN Gcd[<<withElem, Tails[i].pfx>>] ELSE withElem

TailAlignment == IF Granule[TailCount] = 0 THEN 1 ELSE Granule[TailCount]

ValidateStorageLen(n) ==
    IF \/ TailAlignment = 0
       \/ n < MinSize
       \/ n > MaxSize
       \/ (n - MinSize) % TailAlignment # 0
    THEN Err("InvalidLength")
    ELSE Ok(n)

\* What the derive refuses to compile: a capacity its prefix or isize cannot
\* hold, and a maximum size beyond usize.
ASSUME CapacityAssumption ==
    /\ MaxSize <= UsizeMax
    /\ \A i \in TailId :
         /\ Tails[i].max <= PrefixMax(Tails[i].pfx)
         /\ Tails[i].pfx <= 2 => Tails[i].max <= IsizeMax \div Tails[i].size

-----------------------------------------------------------------------------
(* The validation walks.  `full` selects the semantic walk of `validate`;  *)
(* without it the walk is that of `validate_layout`.  A success carries    *)
(* the offset the walk ended at.                                           *)

\* Mutant: the capacity is off by one.
WalkPayloadOneOver(d, n, i, count, from, full) ==
    LET t == Tails[i]
        end == from + count * t.size
    IN  IF count > t.max + 1 THEN Err("InvalidLength")
        ELSE IF end > n THEN Err("BufferTooSmall")
        ELSE IF full /\ \E a \in from .. (end - 1) : d[a] \notin t.ok THEN Err(t.error)
        ELSE Ok(end)

\* A payload of `count` elements of tail i at offset `from`.
WalkPayload(d, n, i, count, from, full) ==
    LET t == Tails[i]
        byteLen == BoundedMul(t.pfx, count, t.size)
        end == BoundedAdd(t.pfx, from, byteLen.value)
    IN  IF count > t.max THEN Err("InvalidLength")
        ELSE IF ~byteLen.ok THEN byteLen
        ELSE IF ~end.ok THEN end
        ELSE IF end.value < from \/ end.value > n THEN Err("BufferTooSmall")
        ELSE IF full /\ \E a \in from .. (end.value - 1) : d[a] \notin t.ok
             THEN Err(t.error)
        ELSE end

\* Tail i starting at offset `off`.
WalkTail(d, n, i, off, full) ==
    LET t == Tails[i]
        tag == d[Slot[i]]
    IN  IF ~t.opt
        THEN AndThen(DecodePrefix(d, Slot[i], t.pfx),
                     LAMBDA count : WalkPayload(d, n, i, count, off, full))
        ELSE IF tag = 0 THEN Ok(off)
        ELSE IF tag # 1 THEN Err("InvalidTag")
        ELSE AndThen(BoundedReadPrefix(d, n, off, t.pfx),
                     LAMBDA count : WalkPayload(d, n, i, count, Wrap(off + t.pfx), full))

\* WalkTo(d, n, full)[i]: what the walk knows after its first i tails.
WalkTo(d, n, full) ==
    LET upTo[i \in 0 .. TailCount] ==
            IF i = 0 THEN Ok(HeaderSize)
            ELSE AndThen(upTo[i - 1], LAMBDA off : WalkTail(d, n, i, off, full))
    IN  upTo

WalkTails(d, n, full) == WalkTo(d, n, full)[TailCount]

\* Mutant: the last inline field is not checked.
InlineValidButLast(d) == \A a \in 0 .. (Inline.size - 2) : d[a] \in Inline.ok[a]

InlineValid(d) == \A a \in 0 .. (Inline.size - 1) : d[a] \in Inline.ok[a]

\* Mutant: the full walk leaves the allocation size to the layout walk.
ValidateAnyAllocation(d, n) ==
    IF n < HeaderSize THEN Err("InvalidLength")
    ELSE IF ~InlineValid(d) THEN Err(Inline.error)
    ELSE WalkTails(d, n, TRUE)

Validate(d, n) ==
    IF ~ValidateStorageLen(n).ok THEN ValidateStorageLen(n)
    ELSE IF ~InlineValid(d) THEN Err(Inline.error)
    ELSE WalkTails(d, n, TRUE)

ValidateLayout(d, n) ==
    IF ~ValidateStorageLen(n).ok THEN ValidateStorageLen(n)
    ELSE WalkTails(d, n, FALSE)

-----------------------------------------------------------------------------
(* The offset replay of the readers and writers: plain arithmetic, and any *)
(* nonzero tag counts as present.                                          *)

\* Mutant: the replay forgets that an optional tail carries its own prefix.
EncodedSizeWithoutPrefix(d, i, off) ==
    LET t == Tails[i]
    IN  IF ~t.opt THEN Wrap(CastPrefix(d, Slot[i], t.pfx) * t.size)
        ELSE IF d[Slot[i]] = 0 THEN 0
        ELSE Wrap(CastPrefix(d, off, t.pfx) * t.size)

\* Encoded size of tail i when it starts at `off`.
EncodedSize(d, i, off) ==
    LET t == Tails[i]
    IN  IF ~t.opt THEN Wrap(CastPrefix(d, Slot[i], t.pfx) * t.size)
        ELSE IF d[Slot[i]] = 0 THEN 0
        ELSE Wrap(t.pfx + CastPrefix(d, off, t.pfx) * t.size)

\* TailOffset(d)[i]: start of tail i; the last entry is the encoded length.
TailOffset(d) ==
    LET start[i \in 1 .. (TailCount + 1)] ==
            IF i = 1 THEN HeaderSize
            ELSE Wrap(start[i - 1] + EncodedSize(d, i - 1, start[i - 1]))
    IN  start

\* current_encoded_len.
EncodedLen(d) == TailOffset(d)[TailCount + 1]

\* What the accessor of tail i returns: the active payload bytes, or the None
\* of an option.
TailBytes(d, i) ==
    LET t == Tails[i]
        start == TailOffset(d)[i]
        from == IF t.opt THEN start + t.pfx ELSE start
        count == IF t.opt THEN CastPrefix(d, start, t.pfx)
                 ELSE CastPrefix(d, Slot[i], t.pfx)
    IN  IF t.opt /\ d[Slot[i]] = 0
        THEN [present |-> FALSE, bytes |-> << >>]
        ELSE [present |-> TRUE,
              bytes |-> [k \in 1 .. (count * t.size) |-> d[from + k - 1]]]

\* The value a validated buffer stores: its inline bytes and its tails.
ContentOf(d) ==
    [inline |-> [a \in 0 .. (Inline.size - 1) |-> d[a]],
     tails |-> [i \in TailId |-> TailBytes(d, i)]]
=============================================================================
