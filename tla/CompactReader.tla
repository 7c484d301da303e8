---------------------------- MODULE CompactReader ----------------------------
(***************************************************************************)
(* The read side of one compact schema: a program is handed `len` bytes it *)
(* knows nothing of, opens a view over them (Ref::new), reads fields and   *)
(* materializes the declared struct (to_native) from the view, and drops   *)
(* it.  Every accessor of an open view replays the offsets with unchecked  *)
(* arithmetic and unchecked reads; validation is what licenses them.       *)
(***************************************************************************)
EXTENDS CompactWire

CONSTANTS
    Kind,    \* Kind[a]: the declared type of inline field a
    Heads,   \* the byte strings a slice handed to the program may begin with
    Bodies   \* ... and those that may follow a complete header

\* The program is handed bytes.
ASSUME InputAssumption == Heads \subseteq Seq(Byte) /\ Bodies \subseteq Seq(Byte)

InlineField == 0 .. (Inline.size - 1)

\* "copied" are the integers, addresses and pods that convert as they are.  The
\* discriminants that an enum declares are the ones its validate_ref accepts:
\* both are generated from the same match arms.
ASSUME KindAssumption ==
    /\ Kind \in [InlineField -> {"copied", "bool", "enum"}]
    /\ \A a \in InlineField : Kind[a] = "bool" => Inline.ok[a] = {0, 1}

VARIABLES
    account, \* the account bytes
    length,  \* data.len()
    view,    \* the Ref: not built, refused, or open with its encoded_len
    native   \* the declared struct materialized last, or "none"

readerVars == <<account, length, view, native>>

NoView == [state |-> "none", encodedLen |-> 0, error |-> "none"]
NoNative == [state |-> "none"]

ReaderTypeOK ==
    /\ length \in Nat
    /\ account \in [0 .. (length - 1) -> Byte]
    /\ view \in [state: {"none", "open", "refused"}, encodedLen: Nat, error: STRING]
    /\ native.state \in {"none", "ok", "error"}

-----------------------------------------------------------------------------
(* diagnose: the field-attributing walk.  It is a second walk, checked     *)
(* throughout, that the generator keeps beside the one of `validate`.      *)
(* `field` is the tail, 0 for the schema's own name and -1 for the inline  *)
(* header fields.                                                          *)

Blame(field, r) == [ok |-> r.ok, value |-> r.value, error |-> r.error, field |-> field]

DiagnosePayload(i, count, from) ==
    LET t == Tails[i]
        byteLen == CheckedMul(count, t.size)
        end == CheckedAdd(from, byteLen.value)
    IN  IF count > t.max THEN Err("InvalidLength")
        ELSE IF ~byteLen.ok THEN byteLen
        ELSE IF ~end.ok THEN end
        ELSE IF end.value > length THEN Err("BufferTooSmall")
        ELSE IF \E a \in from .. (end.value - 1) : account[a] \notin t.ok
             THEN Err(t.error)
        ELSE end

\* A walk that takes any nonzero tag for a present option, as the unchecked
\* readers do.
DiagnoseTailAnyTag(i, off) ==
    LET t == Tails[i]
    IN  IF ~t.opt
        THEN AndThen(DecodePrefix(account, Slot[i], t.pfx),
                     LAMBDA count : DiagnosePayload(i, count, off))
        ELSE IF account[Slot[i]] = 0 THEN Ok(off)
        ELSE AndThen(ReadPrefix(account, length, off, t.pfx),
                     LAMBDA count : AndThen(CheckedAdd(off, t.pfx),
                         LAMBDA from : DiagnosePayload(i, count, from)))

DiagnoseTail(i, off) ==
    LET t == Tails[i]
        tag == account[Slot[i]]
    IN  IF ~t.opt
        THEN AndThen(DecodePrefix(account, Slot[i], t.pfx),
                     LAMBDA count : DiagnosePayload(i, count, off))
        ELSE IF tag = 0 THEN Ok(off)
        ELSE IF tag # 1 THEN Err("InvalidTag")
        ELSE AndThen(ReadPrefix(account, length, off, t.pfx),
                     LAMBDA count : AndThen(CheckedAdd(off, t.pfx),
                         LAMBDA from : DiagnosePayload(i, count, from)))

\* DiagnoseTo[i]: what the walk knows after its first i tails.
DiagnoseTo ==
    LET upTo[i \in 0 .. TailCount] ==
            IF i = 0 THEN Blame(0, Ok(HeaderSize))
            ELSE IF ~upTo[i - 1].ok THEN upTo[i - 1]
            ELSE Blame(i, DiagnoseTail(i, upTo[i - 1].value))
    IN  upTo

Diagnose ==
    IF ~ValidateStorageLen(length).ok THEN Blame(0, ValidateStorageLen(length))
    ELSE IF ~InlineValid(account) THEN Blame(-1, Err(Inline.error))
    ELSE DiagnoseTo[TailCount]

-----------------------------------------------------------------------------

ReaderInit ==
    /\ \E head \in Heads, body \in Bodies :
         /\ Len(head) < HeaderSize => body = << >>
         /\ length = Len(head) + Len(body)
         /\ account = [a \in 0 .. (length - 1) |-> (head \o body)[a + 1]]
    /\ view = NoView
    /\ native = NoNative

\* Ref::new: validate, then replay the offsets for encoded_len.
Open ==
    /\ view.state # "open"
    /\ LET checked == Validate(account, length)
       IN  view' = IF checked.ok
                   THEN [state |-> "open", encodedLen |-> EncodedLen(account), error |-> "none"]
                   ELSE [state |-> "refused", encodedLen |-> 0, error |-> checked.error]
    /\ UNCHANGED <<account, length, native>>

\* FromZc of an inline pod with the byte b: a bool is 0 or 1, whatever the byte
\* that says true, and an enum must be one of its discriminants.
FromZc(a, b) ==
    IF Kind[a] = "bool" THEN Ok(IF b = 0 THEN 0 ELSE 1)
    ELSE IF Kind[a] = "enum" /\ b \notin Inline.ok[a] THEN Err("InvalidDiscriminant")
    ELSE Ok(b)

\* try_set, try_set_from_slice on a default container of the declared type: all
\* zero bytes, a prefix of its own and room for the whole capacity.
Container(i, bytes) ==
    LET t == Tails[i]
        count == Len(bytes) \div t.size
    IN  IF count > t.max THEN Err("Overflow")
        ELSE Ok([prefix |-> PutPrefix([k \in 0 .. (t.pfx - 1) |-> 0], 0, t.pfx, count),
                 slots |-> [k \in 1 .. (t.max * t.size) |->
                               IF k <= Len(bytes) THEN bytes[k] ELSE 0]])

\* A tail's declared field, as << >> or <<container>>.
NativeTail(i, tail) ==
    IF ~tail.present THEN Ok(<< >>)
    ELSE AndThen(Container(i, tail.bytes), LAMBDA container : Ok(<<container>>))

\* to_native: every inline field is converted first, then every tail, and the
\* first error ends it.
ToNative ==
    /\ view.state = "open"
    /\ LET inline == [a \in InlineField |-> FromZc(a, account[a])]
           tails == [i \in TailId |-> NativeTail(i, TailBytes(account, i))]
       IN  native' =
             IF \E a \in InlineField : ~inline[a].ok
             THEN [state |-> "error", error |-> "InvalidDiscriminant"]
             ELSE IF \E i \in TailId : ~tails[i].ok
             THEN [state |-> "error", error |-> "Overflow"]
             ELSE [state |-> "ok",
                   inline |-> [a \in InlineField |-> inline[a].value],
                   tails |-> [i \in TailId |-> tails[i].value]]
    /\ UNCHANGED <<account, length, view>>

\* The view goes out of scope; a native value outlives it.
Close ==
    /\ view.state # "none"
    /\ view' = NoView
    /\ UNCHANGED <<account, length, native>>

ReaderNext == Open \/ ToNative \/ Close

ReaderSpec == ReaderInit /\ [][ReaderNext]_readerVars

-----------------------------------------------------------------------------
(* Properties.                                                             *)

\* The unchecked replay is licensed: on an open view it ends where the
\* checked walk ended, every tail it places lies inside the account, and
\* spare_capacity does not underflow (compact.rs:1157-1201, 3063-3084).
ReplayStaysInBounds ==
    view.state = "open" =>
        /\ view.encodedLen <= length
        /\ view.encodedLen = ValidateLayout(account, length).value
        /\ \A i \in TailId :
             /\ TailOffset(account)[i] >= HeaderSize
             /\ TailOffset(account)[i] + EncodedSize(account, i, TailOffset(account)[i]) <= length

\* The three walks, generated apart, cannot drift: diagnose accepts and rejects
\* exactly what validate does, with the same error (compact.rs:85-87); what
\* validate accepts the layout walk accepts, ending at the same offset, and
\* where the layout walk rejects, validate rejects too (compact.rs:564-571).
WalksAgree ==
    LET full == Validate(account, length)
        layout == ValidateLayout(account, length)
    IN  /\ Diagnose.ok = full.ok /\ Diagnose.error = full.error
        /\ full.ok => Diagnose.value = full.value
        /\ full.ok => layout.ok /\ layout.value = full.value
        /\ ~layout.ok /\ (length < HeaderSize \/ InlineValid(account)) =>
             \/ full.error = layout.error
             \/ \E i \in TailId : full.error = Tails[i].error

\* A value has one encoding: an accepted buffer is, up to its encoded length,
\* the reference encoding of the value its accessors return, so that equal
\* views (compact.rs:1228-1236) have equal bytes and nothing the format does
\* not explain is accepted.
AcceptedBytesAreCanonical ==
    view.state = "open" =>
        /\ AdmissibleContent(ContentOf(account))
        /\ Len(Encode(ContentOf(account))) = view.encodedLen
        /\ \A k \in DOMAIN Encode(ContentOf(account)) : Encode(ContentOf(account))[k] = account[k - 1]

\* Shrinking an account to what its view says it needs leaves an account: the
\* encoded length is an allocation size validate_storage_len admits, and the
\* truncated bytes are accepted with the same content (compact.rs:2693-2722,
\* compact-accounts.md: "the account framework can shrink the allocation to
\* encoded_len").
TrimmedAccountIsAccepted ==
    view.state = "open" =>
        LET n == view.encodedLen
            trimmed == [a \in 0 .. (n - 1) |-> account[a]]
        IN  Validate(trimmed, n).ok /\ ContentOf(trimmed) = ContentOf(account)

\* The active bytes of a materialized container: its clamped length's worth.
ActiveBytes(i, container) ==
    LET t == Tails[i]
        count == RawPrefix(container.prefix, 0, t.pfx)
        clamped == IF count < t.max THEN count ELSE t.max
    IN  [k \in 1 .. (clamped * t.size) |-> container.slots[k]]

\* The value that storing the materialized struct again stores.
Restored(value) ==
    [inline |-> value.inline,
     tails |-> [i \in TailId |->
         IF value.tails[i] = << >> THEN Absent
         ELSE Present(ActiveBytes(i, value.tails[i][1]))]]

\* Materialization from an open view never fails, though inline enums and tail
\* containers can refuse what they are given: "a value that reached the caller
\* through a validating reader materializes without error" (traits.rs:711-713).
\* And it loses nothing: the struct, stored again, is byte for byte the account
\* it came from, no bool, length prefix or tail having changed on the way
\* through its containers (compact.rs:856-957, 1219-1225).
NativeIsTheView ==
    native.state # "none" =>
        /\ native.state = "ok"
        /\ LET bytes == Encode(Restored(native))
           IN  /\ Len(bytes) = EncodedLen(account)
               /\ \A k \in DOMAIN bytes : bytes[k] = account[k - 1]
=============================================================================
