-------------------------------- MODULE PodCodec -------------------------------
(***************************************************************************)
(* The wincode codec (pinapod/src/pod/wincode.rs) of a vector of optional  *)
(* booleans, PodVec<PodOption<PodBool>, N, PFX>, and of a string,          *)
(* PodString<TextCap, PFX>: the writer of one container calls the writer   *)
(* of the one inside it, and so do the readers.  Destinations can run out  *)
(* of room and sources out of bytes at every call of the underlying writer *)
(* or reader.  A wire is a sequence of cells: the count prefix is one      *)
(* cell, every later byte another.                                         *)
(***************************************************************************)
EXTENDS Integers, Sequences, SequencesExt

CONSTANTS
    N,          \* capacity of the vector
    TextCap,    \* capacity of the string, in bytes
    Texts,      \* the byte sequences that are UTF-8
    PrefixMax,  \* largest value of a prefix
    UsizeMax,   \* usize::MAX of the target
    Byte,       \* values of a byte: 0, 1 and what is no bool and no tag
    Chunk       \* bytes of padding per call of the writer: 64 in the code

\* The _CAP_CHECK of either container, and objects that fit in memory.
ASSUME PodCodecAssumption ==
    /\ N \in Nat /\ TextCap \in Nat /\ PrefixMax \in Nat /\ UsizeMax \in Nat
    /\ N <= PrefixMax /\ N <= UsizeMax /\ TextCap <= PrefixMax /\ TextCap <= UsizeMax
    /\ {0, 1} \subseteq Byte /\ Byte \subseteq Nat
    /\ Texts \subseteq Seq(Byte)
    /\ Chunk \in Nat \ {0}

VARIABLES
    codec,    \* "vec" or "string": whose codec runs
    source,   \* the container being written, any bytes
    room,     \* cells the destination takes
    wire,     \* cells written, or received
    call,     \* the codec's control state
    built,    \* the reader's local container
    target    \* the reader's destination: << >> while uninitialized

vars == <<codec, source, room, wire, call, built, target>>

Option == [tag : Byte, value : Byte]
NoneOption == [tag |-> 0, value |-> 0]

BoolValid(byte) == byte <= 1

OptionValid(o) == o.tag = 0 \/ (o.tag = 1 /\ BoolValid(o.value))

Storage == INSTANCE PodSlots WITH
    Elem <- Option, Zero <- NoneOption, Legal <- {o \in Option : OptionValid(o)}

Container == [len : 0 .. PrefixMax, slots : [Storage!Slot -> Option]]

Default == [len |-> 0, slots |-> [k \in Storage!Slot |-> NoneOption]]

Text == INSTANCE PodSlots WITH N <- TextCap, Elem <- Byte, Zero <- 0, Legal <- Byte

Stored == [len : 0 .. PrefixMax, slots : [Text!Slot -> Byte]]

\* as_bytes
Shown(text) == Text!Active(text.len, text.slots)

\* validate_ref of a PodString.
TextValid(text) == Text!Valid(text.len, text.slots) /\ Shown(text) \in Texts

ElementSize == 2

WireSize == 1 + (IF codec = "vec" THEN N * ElementSize ELSE TextCap)

Zeros(n) == [k \in 1 .. n |-> 0]
Least(m, n) == IF m < n THEN m ELSE n

\* pc: where the call is; index: the element it is at; left: padding cells to
\* go; at: cells the reader has consumed.
At(pc, index, left, at) == [pc |-> pc, index |-> index, left |-> left, at |-> at]
Ended(pc) == At(pc, 0, 0, 0)

WriteEnds == {"written", "rejected", "full"}
ReadEnds == {"read", "refused", "eof"}

Init ==
    /\ codec \in {"vec", "string"}
    /\ source = Default
    /\ room = 0
    /\ wire = << >>
    /\ call = Ended("idle")
    /\ built = Default
    /\ target = << >>

-----------------------------------------------------------------------------
(* Writing.                                                                *)

\* Mutant: only the prefix is checked up front.
AcceptsPrefix(src) == Storage!DecodeLen(src.len) <= N

\* The two checks before the first byte.
Accepts(src) ==
    /\ Storage!DecodeLen(src.len) <= N
    /\ Storage!Valid(src.len, src.slots)

Write(src, n) ==
    /\ call.pc = "idle" /\ codec = "vec"
    /\ source' = src
    /\ room' = n
    /\ call' = IF Accepts(src) THEN At("prefix", 0, 0, 0) ELSE Ended("rejected")
    /\ UNCHANGED <<codec, wire, built, target>>

\* The element at `index`, or the padding after the last one.
NextElement(index) ==
    IF index < source.len
    THEN At("tag", index, 0, 0)
    ELSE At("padding", 0, (N - source.len) * ElementSize, 0)

\* writer.write(cells)?: all of them or none.
Emit(cells, next) ==
    /\ IF Len(wire) + Len(cells) > room
       THEN call' = Ended("full") /\ UNCHANGED wire
       ELSE call' = next /\ wire' = wire \o cells
    /\ UNCHANGED <<codec, source, room, built, target>>

WritePrefix ==
    /\ call.pc = "prefix"
    /\ Emit(<<source.len>>, NextElement(0))

Reject ==
    /\ call' = Ended("rejected")
    /\ UNCHANGED <<codec, source, room, wire, built, target>>

\* PodOption::write up to its tag, which repeats the checks for one element.
WriteTag ==
    LET option == source.slots[call.index]
    IN  /\ call.pc = "tag"
        /\ IF ~OptionValid(option)
           THEN Reject
           ELSE Emit(<<option.tag>>, [call EXCEPT !.pc = "value"])

\* Mutant: the payload is emitted as it is stored.
WriteValueAsStored ==
    LET option == source.slots[call.index]
    IN  /\ call.pc = "value"
        /\ Emit(<<option.value>>, NextElement(call.index + 1))

\* PodBool::write, or a padding byte for an absent payload.
WriteValue ==
    LET option == source.slots[call.index]
    IN  /\ call.pc = "value"
        /\ IF option.tag = 1 /\ ~BoolValid(option.value)
           THEN Reject
           ELSE Emit(<<IF option.tag = 1 THEN option.value ELSE 0>>,
                     NextElement(call.index + 1))

\* PodString::write, up to its checks of the prefix and of the content.
WriteText(text, n) ==
    /\ call.pc = "idle" /\ codec = "string"
    /\ source' = text
    /\ room' = n
    /\ call' = IF Text!DecodeLen(text.len) <= TextCap /\ TextValid(text)
               THEN At("text_prefix", 0, 0, 0) ELSE Ended("rejected")
    /\ UNCHANGED <<codec, wire, built, target>>

WriteTextPrefix ==
    /\ call.pc = "text_prefix"
    /\ Emit(<<source.len>>, At("text", 0, 0, 0))

\* Mutant of WriteTextBytes: the whole capacity is written, not as_bytes.
WriteTextStorage ==
    /\ call.pc = "text"
    /\ Emit([k \in 1 .. TextCap |-> source.slots[k - 1]], At("padding", 0, 0, 0))

WriteTextBytes ==
    /\ call.pc = "text"
    /\ Emit(Shown(source), At("padding", 0, TextCap - source.len, 0))

WritePadding ==
    LET count == Least(call.left, Chunk)
    IN  /\ call.pc = "padding"
        /\ IF call.left # 0
           THEN Emit(Zeros(count), [call EXCEPT !.left = @ - count])
           ELSE call' = Ended("written") /\ UNCHANGED <<codec, source, room, wire, built, target>>

-----------------------------------------------------------------------------
(* Reading.                                                                *)

\* Bytes from elsewhere.
Receive(cells) ==
    /\ call.pc = "idle"
    /\ wire' = cells
    /\ call' = Ended("received")
    /\ UNCHANGED <<codec, source, room, built, target>>

Read ==
    /\ call.pc \in {"written", "full", "received"}
    /\ call' = At(IF codec = "vec" THEN "read_prefix" ELSE "read_text", 0, 0, 0)
    /\ UNCHANGED <<codec, source, room, wire, built, target>>

Fail(error) ==
    /\ call' = Ended(error)
    /\ UNCHANGED <<codec, source, room, wire, built, target>>

\* reader.copy_into_slice of n cells: then F takes them, unless they ran out.
Consume(n, F(_)) ==
    IF call.at + n > Len(wire)
    THEN Fail("eof")
    ELSE F(SubSeq(wire, call.at + 1, call.at + n))

\* The element to read next; `index` counts down to the padding.
NextRead(index, left, at) ==
    IF index > 0 THEN At("read_tag", index, left, at) ELSE At("read_padding", 0, left, at)

ReadPrefix ==
    LET Count(cells) ==
            IF cells[1] > UsizeMax \/ cells[1] > N
            THEN Fail("refused")
            ELSE /\ call' = NextRead(cells[1], (N - cells[1]) * ElementSize, 1)
                 /\ built' = Default
                 /\ UNCHANGED <<codec, source, room, wire, target>>
    IN  call.pc = "read_prefix" /\ Consume(1, Count)

\* PodOption::read: the tag decides what follows.
ReadTag ==
    LET Tag(cells) ==
            IF cells[1] > 1
            THEN Fail("refused")
            ELSE /\ call' = [call EXCEPT !.at = @ + 1,
                                         !.pc = IF cells[1] = 1 THEN "read_value" ELSE "read_none"]
                 /\ UNCHANGED <<codec, source, room, wire, built, target>>
    IN  call.pc = "read_tag" /\ Consume(1, Tag)

\* try_push of the option just read, which was validated.
Push(option) ==
    LET n == Storage!Clamp(built.len)
    IN  IF n >= N \/ ~OptionValid(option)
        THEN Fail("refused")
        ELSE /\ built' = [len |-> Storage!EncodeLen(n + 1),
                          slots |-> Storage!CopyTo(built.slots, n, <<option>>)]
             /\ call' = NextRead(call.index - 1, call.left, call.at + 1)
             /\ UNCHANGED <<codec, source, room, wire, target>>

\* PodBool::read.
ReadValue ==
    LET Value(cells) ==
            IF ~BoolValid(cells[1])
            THEN Fail("refused")
            ELSE Push([tag |-> 1, value |-> cells[1]])
    IN  call.pc = "read_value" /\ Consume(1, Value)

\* Mutant: the payload of an absent option is skipped.
ReadNoneUnchecked ==
    LET Padding(cells) == Push(NoneOption)
    IN  call.pc = "read_none" /\ Consume(1, Padding)

ReadNone ==
    LET Padding(cells) == IF cells[1] # 0 THEN Fail("refused") ELSE Push(NoneOption)
    IN  call.pc = "read_none" /\ Consume(1, Padding)

ReadPadding ==
    LET count == Least(call.left, Chunk)
        Padding(cells) ==
            IF cells # Zeros(count)
            THEN Fail("refused")
            ELSE /\ call' = [call EXCEPT !.left = @ - count, !.at = @ + count]
                 /\ UNCHANGED <<codec, source, room, wire, built, target>>
    IN  /\ call.pc = "read_padding" /\ call.left # 0
        /\ Consume(count, Padding)

\* Mutant of ReadText: the inactive bytes are not looked at.
ReadTextUnpadded ==
    LET Value(cells) ==
            LET text == [len |-> cells[1], slots |-> [k \in Text!Slot |-> cells[k + 2]]]
            IN  IF ~TextValid(text) THEN Fail("refused")
                ELSE /\ target' = <<text>>
                     /\ call' = Ended("read")
                     /\ UNCHANGED <<codec, source, room, wire, built>>
    IN  call.pc = "read_text" /\ Consume(1 + TextCap, Value)

\* PodString::read: the whole value at once, validated, then its inactive bytes.
ReadText ==
    LET Value(cells) ==
            LET text == [len |-> cells[1], slots |-> [k \in Text!Slot |-> cells[k + 2]]]
            IN  IF ~TextValid(text) \/ \E k \in Text!Slot : k >= text.len /\ text.slots[k] # 0
                THEN Fail("refused")
                ELSE /\ target' = <<text>>
                     /\ call' = Ended("read")
                     /\ UNCHANGED <<codec, source, room, wire, built>>
    IN  call.pc = "read_text" /\ Consume(1 + TextCap, Value)

\* The last check, and the only write to the destination.
FinishRead ==
    /\ call.pc = "read_padding" /\ call.left = 0
    /\ IF Storage!Valid(built.len, built.slots)
       THEN /\ target' = <<built>>
            /\ call' = Ended("read")
            /\ UNCHANGED <<codec, source, room, wire, built>>
       ELSE Fail("refused")

\* The values go out of scope.
Forget ==
    /\ call.pc \in WriteEnds \cup ReadEnds
    /\ source' = Default /\ room' = 0 /\ wire' = << >>
    /\ call' = Ended("idle")
    /\ built' = Default /\ target' = << >>
    /\ UNCHANGED codec

-----------------------------------------------------------------------------

Next ==
    \/ \E src \in Container, n \in 0 .. WireSize : Write(src, n)
    \/ \E text \in Stored, n \in 0 .. WireSize : WriteText(text, n)
    \/ WritePrefix \/ WriteTag \/ WriteValue \/ WritePadding
    \/ WriteTextPrefix \/ WriteTextBytes
    \/ \E prefix \in 0 .. PrefixMax, n \in 0 .. WireSize - 1 :
           \E rest \in [1 .. n -> Byte] : Receive(<<prefix>> \o rest)
    \/ Read
    \/ ReadPrefix \/ ReadTag \/ ReadValue \/ ReadNone \/ ReadPadding \/ FinishRead \/ ReadText
    \/ Forget

Spec == Init /\ [][Next]_vars

-----------------------------------------------------------------------------

\* What PartialEq compares: PodOption::get of each active element, or the
\* active bytes.
Logical(container) ==
    IF codec = "string" THEN Shown(container)
    ELSE [k \in 1 .. Storage!Clamp(container.len) |->
            LET option == container.slots[k - 1]
            IN  IF option.tag # 1 THEN "none" ELSE IF option.value # 0 THEN "true" ELSE "false"]

Values ==
    IF codec = "string" THEN {text \in Texts : Len(text) <= TextCap}
    ELSE UNION {[1 .. n -> {"none", "false", "true"}] : n \in 0 .. N}

ElementBytes(element) ==
    CASE element = "none" -> <<0, 0>>
      [] element = "false" -> <<1, 0>>
      [] OTHER -> <<1, 1>>

\* The one encoding of a value.
Canonical(value) ==
    LET body == IF codec = "string" THEN value
                ELSE [k \in 1 .. Len(value) * ElementSize |->
                         ElementBytes(value[1 + (k - 1) \div ElementSize])[1 + ((k - 1) % ElementSize)]]
    IN  <<Len(value)>> \o body \o Zeros(WireSize - 1 - Len(body))

Writing == call.pc \in {"prefix", "tag", "value", "text_prefix", "text", "padding"} \cup WriteEnds

ValidSource ==
    IF codec = "string" THEN TextValid(source) ELSE Storage!Valid(source.len, source.slots)

\* Every byte that leaves the program is a byte of the one encoding of the
\* value: nothing a container or an option inside it still stores beyond its
\* active part is disclosed, not even by a writer that runs out of room, and
\* values that compare equal encode identically (wincode.rs:4-7).  A value a
\* reader would refuse is rejected before the first byte, although the writers
\* of its elements could still reject each of theirs (wincode.rs:369-371).
WireIsCanonical ==
    /\ Writing /\ ValidSource =>
         /\ call.pc # "rejected"
         /\ IsPrefix(wire, Canonical(Logical(source)))
         /\ call.pc = "written" => Len(wire) = WireSize
    /\ Writing /\ ~ValidSource => call.pc = "rejected" /\ wire = << >>

\* The readers accept the canonical encoding of each value and no other bytes,
\* the padding inside nested options included; what they build compares equal
\* to the value and stores zeros beyond it, and on any other input the
\* destination stays uninitialized (wincode.rs:8-9).
ReadersAcceptCanonicalOnly ==
    call.pc \in ReadEnds =>
        /\ call.pc = "read" <=> wire \in {Canonical(value) : value \in Values}
        /\ target # << >> <=> call.pc = "read"
        /\ call.pc = "read" =>
               /\ wire = Canonical(Logical(target[1]))
               /\ codec = "vec" => \A k \in Storage!Slot :
                      target[1].slots[k].tag = 0 \/ k >= target[1].len =>
                          target[1].slots[k] = NoneOption
               /\ codec = "string" => \A k \in Text!Slot :
                      k >= target[1].len => target[1].slots[k] = 0
=============================================================================
