------------------------------- MODULE CompactEnum -----------------------------
(***************************************************************************)
(* One compact enum, as the derive generates it                            *)
(* (pinapod-derive/src/compact_enum.rs): a little-endian discriminant, and *)
(* after it the payload of the variant it names.  A patch is a whole new   *)
(* variant: update and initialize preflight it, then rewrite tag and       *)
(* payload in place.  Each is one step, for nothing in them hands control  *)
(* back; between them the account framework may grow and trim the account. *)
(***************************************************************************)
EXTENDS Prefixes, Sequences

CONSTANTS
    TagSize,    \* bytes of the discriminant
    Variants,   \* maps each discriminant to a member of VariantSchema
    Accounts,   \* the bytes an account starts with
    Patches     \* the variants the program writes: [tag, bytes]

\* One variant.  dynamic: a String or a Vec, of at most max elements after a
\* pfx-byte count; otherwise one fixed value of `size` bytes, and a unit
\* variant is one of size 0.  ok, error: the payload bytes the semantic walk
\* accepts, and what it says of others.
VariantSchema ==
    [dynamic: BOOLEAN, max: Nat, pfx: Width, size: Nat, ok: SUBSET Byte, error: STRING]

\* Where the payload of a variant starts, and the most and fewest bytes of it.
PayloadOffset(v) == TagSize + (IF v.dynamic THEN v.pfx ELSE 0)
SmallestSize(v) == PayloadOffset(v) + (IF v.dynamic THEN 0 ELSE v.size)
LargestSize(v) == PayloadOffset(v) + (IF v.dynamic THEN v.max * v.size ELSE v.size)

\* What the derive compiles.
ASSUME EnumAssumption ==
    /\ TagSize \in Width
    /\ DOMAIN Variants # {} /\ DOMAIN Variants \subseteq Nat
    /\ \A tag \in DOMAIN Variants :
         LET v == Variants[tag]
         IN  /\ tag < Weight(TagSize - 1) * Radix
             /\ v \in VariantSchema
             /\ v.dynamic => v.size # 0 /\ v.max <= PrefixMax(v.pfx)
             /\ LargestSize(v) <= UsizeMax

ASSUME EnumPatchAssumption ==
    /\ Accounts \subseteq Seq(Byte)
    /\ Patches \subseteq [tag: DOMAIN Variants, bytes: Seq(Byte)]
    /\ \A p \in Patches :
        IF Variants[p.tag].dynamic
        THEN Len(p.bytes) % Variants[p.tag].size = 0
        ELSE Len(p.bytes) = Variants[p.tag].size

VARIABLES
    data, size,  \* the account
    reply,       \* what the last call was asked and answered
    used         \* history: bytes from 0 that were part of a value at any time

vars == <<data, size, reply, used>>

-----------------------------------------------------------------------------
(* Validation and the views.                                               *)

MinSize == CHOOSE n \in {SmallestSize(Variants[t]) : t \in DOMAIN Variants} :
               \A t \in DOMAIN Variants : n <= SmallestSize(Variants[t])
MaxSize == CHOOSE n \in {LargestSize(Variants[t]) : t \in DOMAIN Variants} :
               \A t \in DOMAIN Variants : n >= LargestSize(Variants[t])

\* An allocation; the granule of an enum is 1.
ValidateStorageLen(n) ==
    IF n < MinSize \/ n > MaxSize THEN Err("InvalidLength") ELSE Ok(n)

ReadTag(d) == RawPrefix(d, 0, TagSize)

\* The bounds of a payload: a success carries the offset it ends at.
Bounds(d, n, v) ==
    LET Within(end) == IF end > n THEN Err("BufferTooSmall") ELSE Ok(end)
        Counted(count) ==
            IF count > v.max THEN Err("InvalidLength")
            ELSE AndThen(CheckedMul(count, v.size),
                     LAMBDA len : AndThen(CheckedAdd(PayloadOffset(v), len), Within))
    IN  IF v.dynamic
        THEN AndThen(ReadPrefix(d, n, TagSize, v.pfx), Counted)
        ELSE AndThen(CheckedAdd(TagSize, v.size), Within)

\* The semantic half of the walk.
PayloadValid(d, v, end) == \A a \in PayloadOffset(v) .. end - 1 : d[a] \in v.ok

Validate(d, n) ==
    LET v == Variants[ReadTag(d)]
    IN  IF ~ValidateStorageLen(n).ok THEN ValidateStorageLen(n)
        ELSE IF ReadTag(d) \notin DOMAIN Variants THEN Err("InvalidDiscriminant")
        ELSE AndThen(Bounds(d, n, v),
                 LAMBDA end : IF PayloadValid(d, v, end) THEN Ok(end) ELSE Err(v.error))

\* The view of a validated buffer, with plain arithmetic and no bounds check.
View(d) ==
    LET v == Variants[ReadTag(d)]
        len == IF v.dynamic THEN Wrap(CastPrefix(d, TagSize, v.pfx) * v.size) ELSE v.size
    IN  [tag |-> ReadTag(d), bytes |-> [k \in 1 .. len |-> d[PayloadOffset(v) + k - 1]]]

\* Mutant: the stored count is taken for a byte length.
CurrentLenInElements(d, n) ==
    LET v == Variants[ReadTag(d)]
    IN  IF v.dynamic
        THEN AndThen(ReadPrefix(d, n, TagSize, v.pfx),
                 LAMBDA count : CheckedAdd(PayloadOffset(v), count))
        ELSE CheckedAdd(TagSize, v.size)

\* current_encoded_len: a walk of its own.
CurrentLen(d, n) ==
    LET v == Variants[ReadTag(d)]
        Counted(count) == AndThen(CheckedMul(count, v.size),
                              LAMBDA len : CheckedAdd(PayloadOffset(v), len))
    IN  IF ReadTag(d) \notin DOMAIN Variants THEN Err("InvalidDiscriminant")
        ELSE IF v.dynamic THEN AndThen(ReadPrefix(d, n, TagSize, v.pfx), Counted)
        ELSE CheckedAdd(TagSize, v.size)

-----------------------------------------------------------------------------
(* Patches.                                                                *)

Elements(p) == Len(p.bytes) \div Variants[p.tag].size
BytesValid(p) == \A k \in DOMAIN p.bytes : p.bytes[k] \in Variants[p.tag].ok

\* Mutant: the elements of a new payload are taken as they are.
EncodedLenOfAnyElements(p) ==
    LET v == Variants[p.tag]
    IN  IF v.dynamic /\ Elements(p) > v.max THEN Err("Overflow")
        ELSE CheckedAdd(PayloadOffset(v), Len(p.bytes))

\* encoded_len: the input checks of a patch and the size it takes.  A &str is
\* valid by its type.
EncodedLen(p) ==
    LET v == Variants[p.tag]
    IN  IF ~v.dynamic
        THEN IF BytesValid(p) THEN CheckedAdd(TagSize, v.size) ELSE Err(v.error)
        ELSE IF Elements(p) > v.max THEN Err("Overflow")
        ELSE IF ~CheckPrefix(Elements(p), v.pfx).ok THEN CheckPrefix(Elements(p), v.pfx)
        ELSE IF ~BytesValid(p) THEN Err(v.error)
        ELSE AndThen(CheckedMul(Elements(p), v.size),
                 LAMBDA len : CheckedAdd(PayloadOffset(v), len))

\* write: the tag, the count of a dynamic payload, the payload.
Write(d, p) ==
    LET v == Variants[p.tag]
        from == PayloadOffset(v)
        tagged == PutPrefix(d, 0, TagSize, p.tag)
        counted == IF v.dynamic THEN PutPrefix(tagged, TagSize, v.pfx, Elements(p)) ELSE tagged
    IN  [a \in DOMAIN d |->
            IF from <= a /\ a < from + Len(p.bytes) THEN p.bytes[a - from + 1] ELSE counted[a]]

ZeroRange(d, from, to) == [a \in DOMAIN d |-> IF from <= a /\ a < to THEN 0 ELSE d[a]]

Room(encoded) ==
    AndThen(encoded, LAMBDA len : IF len > size THEN Err("BufferTooSmall") ELSE Ok(len))

-----------------------------------------------------------------------------

\* Bytes of a value, none when no reader accepts the account.
InUse(d, n) == IF Validate(d, n).ok THEN Validate(d, n).value ELSE 0

Slice(bytes) == [a \in 0 .. Len(bytes) - 1 |-> bytes[a + 1]]

NoPatch == [tag |-> 0, bytes |-> << >>]
Answer(op, p, result) == [op |-> op, patch |-> p, result |-> result]

Init ==
    /\ \E bytes \in Accounts : size = Len(bytes) /\ data = Slice(bytes)
    /\ reply = Answer("none", NoPatch, Err("none"))
    /\ used = InUse(data, size)

\* A call ends with `d` in the account.
Return(d, answer) ==
    /\ data' = d
    /\ reply' = answer
    /\ used' = IF InUse(d, size) > used THEN InUse(d, size) ELSE used
    /\ UNCHANGED size

UpdatedLen(p) ==
    Return(data,
           Answer("updated_len", p,
                  AndThen(Validate(data, size), LAMBDA end : EncodedLen(p))))

\* What update checks before its first write.
Preflight(p) ==
    AndThen(Validate(data, size),
        LAMBDA end : AndThen(CurrentLen(data, size), LAMBDA old : Room(EncodedLen(p))))

\* Mutant: a smaller variant leaves the rest of the larger one behind.
UpdateWithoutZeroing(p) ==
    Return(IF Preflight(p).ok THEN Write(data, p) ELSE data,
           Answer("update", p, Preflight(p)))

Update(p) ==
    LET len == Preflight(p)
        old == CurrentLen(data, size).value
    IN  Return(IF len.ok THEN ZeroRange(Write(data, p), len.value, old) ELSE data,
               Answer("update", p, len))

\* fill, try_initialize, and fill again when that failed.
Initialize(p) ==
    LET blank == ZeroRange(data, 0, size)
        len == AndThen(ValidateStorageLen(size), LAMBDA n : Room(EncodedLen(p)))
        result == AndThen(len,
                      LAMBDA n : AndThen(Validate(Write(blank, p), size), LAMBDA end : len))
    IN  Return(IF result.ok THEN Write(blank, p) ELSE blank,
               Answer("initialize", p, result))

\* The account framework grows the allocation to a length just announced, with
\* zero bytes.
Grow ==
    /\ reply.op = "updated_len" /\ reply.result.ok
    /\ reply.result.value > size
    /\ size' = reply.result.value
    /\ data' = [a \in 0 .. size' - 1 |-> IF a < size THEN data[a] ELSE 0]
    /\ UNCHANGED <<reply, used>>

\* It shrinks the allocation to the length a call returned.
Trim ==
    /\ reply.op \in {"update", "initialize"} /\ reply.result.ok
    /\ reply.result.value < size
    /\ size' = reply.result.value
    /\ data' = [a \in 0 .. size' - 1 |-> data[a]]
    /\ UNCHANGED <<reply, used>>

Next ==
    \/ \E p \in Patches : UpdatedLen(p)
    \/ \E p \in Patches : Update(p)
    \/ \E p \in Patches : Initialize(p)
    \/ Grow
    \/ Trim

Spec == Init /\ [][Next]_vars

-----------------------------------------------------------------------------
(* The reference codec: what a value is, and its bytes.                    *)

Admissible(value) ==
    LET v == Variants[value.tag]
    IN  /\ value.tag \in DOMAIN Variants
        /\ \A k \in DOMAIN value.bytes : value.bytes[k] \in v.ok
        /\ IF v.dynamic
           THEN Len(value.bytes) \in {count * v.size : count \in 0 .. v.max}
           ELSE Len(value.bytes) = v.size

LittleEndian(n, width) == [k \in 1 .. width |-> LeByte(n, k - 1)]

Encode(value) ==
    LET v == Variants[value.tag]
    IN  LittleEndian(value.tag, TagSize)
        \o (IF v.dynamic THEN LittleEndian(Len(value.bytes) \div v.size, v.pfx) ELSE << >>)
        \o value.bytes

Size(value) == Len(Encode(value))

-----------------------------------------------------------------------------
(* Properties.                                                             *)

\* Whatever the bytes, those that validate accepts are the encoding of the
\* value that the unchecked view returns, and the second length walk, which
\* decides how much an update zeroes, ends where the encoding does
\* (compact_enum.rs:300-307 and 692-699).
AcceptedBytesAreCanonical ==
    Validate(data, size).ok =>
        LET value == View(data)
        IN  /\ Admissible(value)
            /\ Size(value) <= size
            /\ \A k \in 1 .. Size(value) : data[k - 1] = Encode(value)[k]
            /\ Validate(data, size) = Ok(Size(value))
            /\ CurrentLen(data, size) = Ok(Size(value))

\* After any sequence of variant switches, failed calls, growths and trims, no
\* byte behind the current value still shows an earlier one
\* (compact_enum.rs:726-728).
VacatedBytesAreZeroed ==
    \A a \in DOMAIN data : InUse(data, size) <= a /\ a < used => data[a] = 0

Unreadable == [tag |-> -1, bytes |-> << >>]
ValueOf(d, n) == IF Validate(d, n).ok THEN View(d) ELSE Unreadable
Zeroed(n) == ValueOf([a \in 0 .. n - 1 |-> 0], n)

Cell == INSTANCE VariantCell WITH
    Allocation <- MinSize .. MaxSize,
    value <- ValueOf(data, size),
    capacity <- size,
    answer <- [op |-> reply.op, patch |-> reply.patch,
               ok |-> reply.result.ok, len |-> reply.result.value]

\* The account is a cell that holds one variant: an update replaces it wholly
\* or not at all, succeeds for every admissible variant that fits and for no
\* other, returns what updated_len announces, and a failed initialize leaves
\* the reading of zeros (compact_enum.rs:675-679).
ImplementsVariantCell == Cell!Spec
=============================================================================
