# Pinapod: TLA+ models, checks and proofs

Pinapod stores Rust values in byte buffers (Solana accounts) without a
serialization pass. A derive macro (`pinapod-derive`) generates, for one schema,
the code that validates a buffer, reads it through a view, and edits it in
place; a runtime crate (`pinapod`) holds the alignment-one pods and containers
the generated code is made of.

This directory holds models of that code, the TLC configurations that check
them on small instances, and TLAPS proofs for every instance of the parts that
matter most. Paths below are relative to the repository root; `compact.rs` is
`pinapod-derive/src/compact.rs`.

    tlc -workers 2 -config MCCompactMut.cfg MCCompactMut
    tlapm CompactWriterProofs.tla

## 1. Inventory

Everything runs on one thread and takes `&[u8]` or `&mut [u8]`, so there are no
concurrent actors inside a call of a view or a container. What makes the code
hard is elsewhere: several writes that must look like one, raw copies whose
order matters, the same layout computed by several independently generated
walks, arithmetic that is unchecked because another walk has checked it,
closures of the program that stop half-way, lifecycles in which the account is
resized by a framework between two calls, and account bytes that a
cross-program invocation writes while the optimizer believes it knows them.

| Component | State | Operations | What makes it correct |
|---|---|---|---|
| Compact layout, `compact.rs` 357-822, 2648-3253, `traits.rs` 504-622 | none (pure) | `validate`, `validate_layout`, `validate_storage_len`, prefix reads and writes, offset replay | the walks agree with each other and with the wire format; replay stays in bounds |
| Compact view, `compact.rs` 85-353, 840-1250 | borrowed bytes, cached `encoded_len` | `Ref::new`, accessors, `to_native`, `==`, `diagnose` | an accepted buffer has one meaning; materializing cannot fail; `diagnose` accepts what `validate` accepts |
| Staged writer, `compact.rs` 1255-1610, 2170-2643 | borrowed bytes, `total_len`, one edit per tail | `Mut::new`, inline accessors, setters, `commit`, `projected_size` | commit is all or nothing; overlapping moves lose no byte; vacated bytes are zeroed; the writer stays consistent over many commits |
| Patch, `compact.rs` 1620-2165, `traits.rs` 624-666 | none between calls; the account | `updated_len`, `update`, `initialize` | preflight is exact; a rejected call changes nothing (or leaves zeros); resize planning works |
| Compact enums, `compact_enum.rs` | borrowed bytes | validate, variant views, `update`, `initialize` | a variant switch is atomic; payload bounds follow the variant |
| Fixed schemas, `fixed.rs`, `traits.rs` 370-500, 660-850 | borrowed bytes, copies of the companion | the four readers, `initialize` with a closure, field assignment, `diagnose`, `to_native`, `==`, `Hash` | validation covers every field and stays true under assignments; `initialize` is all or nothing; `diagnose` agrees; a refused conversion drops what it built |
| `PodVec`, `PodString`, `PodOption`, `pod/*.rs` | length prefix or tag, raw slots | push, set, extend, pop, remove, truncate, retain, take, replace | they implement a bounded sequence, string, option; a refused write is a no-op; vacated slots are zero |
| wincode codec, `pod/wincode.rs` | stream position | read, write, size | canonical padding; round trip |
| Numeric, bool and float pods, `pod/numeric.rs`, `bool.rs`, `float.rs` | bytes | `get`, `set`, their volatile forms, arithmetic, conversions | no update of a callee is lost across a cross-program invocation |
| Schema parsing and type mapping, `schema.rs`, `type_map.rs`, `lib.rs` | syntax trees | check prefixes, classify, order, map to pods | the generated layout is the declared one, or the struct is refused |

The components meet in the account bytes. A program opens a view (`Ref`) and
reads, or builds a patch from borrowed values and calls `update`, which
validates, builds a private `Mut` with `new_unchecked`, stages its edits and
commits. A framework around the program calls `updated_len` first, grows the
allocation, calls `update`, and may shrink the allocation to the length that
comes back (`docs/src/compact-accounts.md`).

`PROJECT.json` lists the places where this can go wrong (`hazards`), each at its
line with the properties that would catch it.

## 2. Modules

| Module | Models |
|---|---|
| `Prefixes` | what the derive emits into every compact schema: results, checked arithmetic, length prefixes |
| `CompactLayout` | the schema of a struct as constants, the allocation sizes, the validation walks at both depths, the unchecked replay |
| `CompactWire` | reference codec: what a value is, which are admissible, the byte string of each. Written from the wire format, used by properties, refinements and proofs only |
| `CompactReader` | `Ref::new`, `to_native` with the conversion of every inline field and tail, dropping the view, and the second walk of `diagnose` |
| `CompactMut` | the staged writer; `commit` one copy or write at a time; the fairness of a call |
| `CompactValue` | abstract specification of a staged writer: a value, staged replacements, a capacity, commit or refuse |
| `CompactMutValue` | `CompactMut` implements `CompactValue` |
| `PrefixesProofs` | what the helpers of `Prefixes` return and that a written prefix is read back, with the recursion and induction lemmas the compact proofs share |
| `CompactReaderProofs` | what the walks, the replay and the sizes of `CompactLayout` compute, and that what they accept is the encoding of `CompactWire`, for every schema and buffer; then the properties of the read view |
| `CompactWriterProofs` | the two inductive invariants of `CompactMut` (where the bytes are; which bytes they are), their consequences and the refinement of `CompactValue`; then the preflight sums, the commit they let through, the inductive invariant of the account's life, and the value a call stores |
| `CompactPatch` | `updated_len`, `update`, `initialize` and the external framework that grows and trims the account |
| `CompactEnum` | a compact enum: validation, view, `updated_len`, `update`, `initialize`, and the framework that resizes the account |
| `VariantCell` | abstract specification: a cell that holds one variant |
| `CompactEnumProofs` | what the walk of an enum accepts, the inductive invariant of its account, and the refinement of `VariantCell` |
| `PodSlots` | the store of `PodVecRepr`: prefix, clamped length, slots, zeroing |
| `PodVec` | every method of `PodVecRepr`; `retain` takes a step per closure call |
| `BoundedVec` | abstract specification: a sequence of at most `N` elements, with each call, its arguments and its answer |
| `PodVecProofs` | lemmas about the store, the inductive invariant of `PodVec` and its consequences, and the refinement of `BoundedVec` |
| `PodString` | every method of `PodString`, over the same store |
| `BoundedText` | abstract specification: a sequence of characters of bounded size |
| `PodOption` | every method of `PodOption`, its equality and its hash |
| `OptionalValues` | abstract specification: an optional value per cell, with each call, its argument and its answer |
| `PodStringProofs` | UTF-8 and zeroing of strings, and the refinement of `BoundedText` |
| `PodCodec` | the wincode writers and readers of `PodVec<PodOption<PodBool>>` and of `PodString`, over streams that end |
| `FixedSchema` | a fixed schema with nested companions: readers, `initialize` around a closure, assignment, materialization, comparison |
| `PodInteger` | an integer pod shared by a program and its callees, under an optimizer |
| `SchemaGrammar` | what the derive does with the fields of a struct before it generates code |
| `PodProofs` | options and their refinement of `OptionalValues`; the arithmetic of integer pods and that no update is lost; the invariant of the codec |
| `SchemaProofs` | fixed schemas: what validation licenses, `diagnose`, equality and hashing, refused conversions and `initialize`, for any nesting of types; the derive: what is laid out is what is declared |
| `MC*` | constants for TLC |

### How bytes and schemas are represented

A slice is a function from `0..n-1` to `Byte`, with its length beside it. A
schema is the constants of `CompactLayout`: the inline pods as one block of
`Inline.size` bytes, with the byte values accepted at each, the tails as a
sequence of records (always present or option-tagged, capacity, prefix width,
element size, the payload bytes the semantic check accepts, and the error it
reports otherwise), and the header offsets. UTF-8 validity and element validity
are abstracted to "every byte is in `ok`": the walks only ask whether a payload
passes. `SchemaAssumption` and `CapacityAssumption` state what the derive
refuses to compile.

`CompactReader` also knows the declared type of each inline byte (`Kind`), because
`to_native` converts it: integers and addresses as they are, a bool to 0 or 1, an
enum by a match that can refuse it (`FromZc`). A tail goes into a container of its
own (`Container`: a length prefix and zeroed slots), which can refuse it too.
Inline options and arrays, whose conversions recurse, are modelled in
`FixedSchema`; `CompactReader` has the types of one byte. That the match of an
enum's `from_zc` and of its validation have the same arms is taken from the
generator, which emits both from one list.

`Radix` and `UsizeMax` are constants because prefix widths against the width of
`usize` decide several branches. With radix 3 and four digits of `usize`, an
eight-byte prefix is wider than `usize` exactly as on a 32-bit target, and every
short buffer can be enumerated.

`Err("panic")` stands for a slice index that would panic; a property excludes it.

### The writer

`CompactMut` keeps `data`, `size`, `total_len` and `edits` as the struct does,
and the locals of `commit` per tail. The phases of `commit` are values of `pc`,
and `cur` is the tail a phase is at:

| pc | code | action |
|---|---|---|
| `idle` | outside commit | `SetInline`, `Set(i)`, `Commit` (entry validation) |
| `setup` | positions, 2197-2333 | `Setup` |
| `check` | range checks, 2338-2357 | `Check` |
| `back` | phase 1a: tails that move down, in field order | `MoveBack` |
| `forth` | phase 1b: tails that move up, in reverse | `MoveForth` |
| `write` | phase 2: edited payloads | `Write` |
| `slots` | header lengths and tags | `WriteSlot` |
| `finish` | zero the suffix, `total_len`, clear the edits | `Finish` |

`entry` is a history variable: the bytes when the commit began. Every error exit
of the code is an exit of the model, with the bytes as they are at that point.
In the code all tails are set up before any is range-checked, and all checked
before any is moved; the model keeps that order.

The commit of a schema without tails only runs the entry validation and is left
out (`WriterAssumption`: at least one tail).

### The patch and the account

`CompactPatch` extends the writer: a call goes through `preflight`, `commit`,
`committing`, `after` and `done`, and the writer's actions run inside
`committing`. Between calls the framework may plan (`Plan`), grow (`Grow`) or
trim (`Trim`); these are external code, modelled from the documented resize
lifecycle. `call.before` and `plan.fresh` are history. A `skip_patch` field is a
field that every patch of `Patches` keeps.

### The enum

`CompactEnum` takes the variants as a constant: for each discriminant whether
the payload is counted (a `String` or a `Vec`) or of one fixed size, its
capacity and the bytes it accepts. The generator has a match arm per kind; the
arms of a unit and of an empty fixed payload do the same, and so do those of a
`String` and of a `Vec` of one-byte elements except for the semantic check.
A call is one step, since it calls nothing that could stop half-way: its fallible
checks are the guards of `Preflight`, in the code's order. `Grow` and `Trim` are
the framework, as in `CompactPatch`. `used` is history. `Encode` and
`Admissible` are written from the wire format and used by properties only.

### The containers

A container starts as account bytes of any content, since accessors are reached
through casts as well: the prefix ranges over all its values, above the capacity
and beyond `usize` included, and inactive slots hold anything. An element is one
bit pattern of its slot; `Legal` are the patterns its validation accepts, `Given`
those the program passes in. A method is one action, because the program cannot
run in between, except `retain`: it calls the program's closure, which may keep,
drop or panic, so `Keep`, `Drop` and `Panic` are steps, and what an unwinding
program finds is the state after any of them. `PodVec` calls `reply` what the
last method answered; `before`, `kept` and `touched` are history.

`PodString` uses the same store operators (`string.rs` repeats them line by
line). Its elements are bytes told apart by their role in a character, so that a
string is UTF-8 when its bytes can be cut into members of `Chars`. `Init` asks
for UTF-8 because `as_str` does; `BoundedText` never sees bytes.

`PodOption` keeps several options to compare them. A tag other than 0 and 1
equals an absent value and hashes differently, as the comment in `hash` says;
readers refuse it, and `EqualOptionsHashEqual` is about what they accept.

### The codec

`PodCodec` nests three codecs: the vector's, the option's and the boolean's. A
call of the underlying stream (`Emit`, `Consume`) writes or reads all its cells or
fails, so `wire` shows what a failed serialization has left in the destination.
`built` is the reader's local value and `target` its destination, written last.
The prefix is one cell, because its bytes are copied verbatim; the padding is
written in pieces of `Chunk` as the code does with its 64-byte buffer. A string
is written in three calls and read in one (`take_scoped`); which byte sequences
are UTF-8 is the constant `Texts`.

### Fixed schemas

`FixedSchema` takes the types of a schema as a constant: integers, booleans,
enums, options, vectors, arrays and structs, each after those it is made of. A
scalar, a tag and a length prefix are one cell each: `PodInteger` is about bytes.
`Verdict`, `Shown`, `ToNative`, `Equal` and `Hashed` are the walks the derive and
the pods compose: each is one function over places (a type and the cell it
begins at), made of a step per kind of pod (`PodVerdict`, `PodShown`, ...) over
the results at the places inside, which `Active` gives. `ToNative` records the values it constructs and drops, because `from_zc_array`
fills uninitialized memory and has to drop exactly what it has filled.

The steps are what a program can do: open a view with one of the four readers,
assign a field, copy the companion out of a view or back in, end the borrow, and
`initialize`, whose closure is a sequence of assignments that returns, fails or
panics at any point. An assignment is external code, but what can be assigned is
the code's: `Pods` are the pods its safe constructors build. Companions are
copied out of validated views only, as the safe readers are the way to one.
`draft` is history: what the closure assigned, over zeros.

### The integer pod

`get` and `set` are plain accesses, which the optimizer may answer from an
earlier load or move behind an opaque call; `get_volatile` and `set_volatile`
are performed where they stand. `PodInteger` makes the optimizer an actor:
`loaded` is what it may reuse, `pending` a store it has put off (`Flush`). The
callee of a cross-program invocation (`Call`, `CalleeAdds`, `Return`) writes the
same bytes. The program keeps the documented rule, that what a callee is to see
is stored with `set_volatile`: that is the guard of `Call`. `Update` is a
read-modify-write with any of the arithmetic methods, over two's complement
bytes of `Width` digits. `total` is history.

### The derive

`SchemaGrammar` takes syntax trees as records: the form of a node, its path,
name, number, arguments and depth (a tree is finite, so a node is deeper than
the types in it). A struct grows by one field per step (`Field`), each
checked and classified as the code does, and `Finish` applies the rule that
tails come last. Two mappings produce the stored type: `Projection` is what the
`ZcField` impls make of the declaration, written from `traits.rs`, and `MapToPod`
what the macro re-encodes for a vector's elements; `StoredAsDeclared` compares
them. Whether `syn` parses an argument as a type is external, and so is what
`rustc` makes of const generics; a container without the arguments its type
needs (`Complete`) has no projection but itself, because `rustc` refuses it.

## 3. Runs

| Run | Question | Instance |
|---|---|---|
| `compact_reader` | does validation license everything a view does? | radix 3; an inline bool, integer and enum without a zero, with every valid and invalid byte of the bool and enum; an always-present vector with an eight-byte prefix and an option vector with a two-byte prefix; every body up to 6 bytes, every 0/1 body of 8 bytes, headers short and whole, prefixes below, above capacity and beyond `usize` |
| `compact_mut` | is commit all-or-nothing over any sequence of edits and commits? | three tails (string, option vector of two-byte elements, string with a two-byte prefix), every stored value of the sets, three account sizes from exact to roomy, spare bytes 99, replacements that shrink, grow, clear, and exceed; built with `compact-commit-full-validation` |
| `compact_patch` | is every call atomic and every plan good over the life of an account? | two tails (vector and option vector of four-byte elements, granule 2), an inline field without a valid zero, 36 patches of which four are invalid, two planned ones, accounts exact, roomy and zeroed, one of an impossible size; the default build, whose commit checks the layout only, so that `initialize` can fail after it has written |
| `compact_commit` | does a commit that begins return, and return Ok when there is room? | the writer of `compact_mut` with accounts of 8 and 11 bytes, under `FairSpec` |
| `compact_enum` | is a variant switch atomic, and does it leave nothing behind? | a unit, a vector with a two-byte prefix that can exceed `usize`, a fixed value and a string; zero is no discriminant; radix 5; every account of up to three bytes, vectors of one element with any 0, 1, 4 and larger accounts with bytes behind the value; eleven patches, four of them invalid |
| `pod_vec` | is a vector a bounded sequence, from any bytes and with closures that panic? | capacity 3, prefixes to 6 with `usize` to 5, slots zero, one more valid value and an invalid one, inputs of the valid ones to one element more than the capacity |
| `pod_string` | does a string stay UTF-8, and what does truncation keep? | capacity 4, characters of one, two and three bytes, prefixes to 6; inputs from empty to too long |
| `pod_option` | is an option an `Option`, does it forget what is taken, and do Eq and Hash agree? | two options, tags to 3, a zero, a valid and an invalid payload |
| `pod_codec` | is there one encoding per value, written in full or rejected before the first byte? | a vector of capacity 2 and a string of capacity 3, prefixes to 5 with `usize` to 4, every stored content, every room of the destination, every wire up to the full size over bytes 0, 1, 2; texts with a character of two bytes |
| `fixed_schema` | what does validation license, and what do reads, assignments and initializations leave? | a struct with a nested struct, an array of enums without a zero, a bool and an optional vector; every head and array with seven notes, accounts too short and with a byte behind the value |
| `pod_integer` | is an update lost between a program and its callees? | a signed integer of two digits of radix 4, so that products overflow both ways; any sequence of accesses and calls |
| `schema_grammar` | is the generated layout the declared one? | structs of up to two fields of 437 types: containers nested three deep, in arrays and parentheses, under every accepted and one foreign path, with prefixes absent, literal, wrong and not literal; depth 5 |

Properties of the compact account:

* `ReplayStaysInBounds`: on an open view the unchecked replay ends where the
  checked walk did and every tail lies in the account.
* `WalksAgree`: `diagnose` accepts what `validate` accepts, and what the full
  walk accepts the layout walk accepts with the same length.
* `AcceptedBytesAreCanonical`: an accepted buffer is the reference encoding of
  what its accessors return.
* `TrimmedAccountIsAccepted`: shrinking to `encoded_len` leaves an account.
* `NativeIsTheView`: materializing never fails on an open view, though every
  inline enum and every tail is converted by code that can refuse it; and the
  struct it builds, stored again, is byte for byte the account.
* `KeptTailsSurvive`: at every step of a commit, each unedited tail holds its
  bytes at the place it is at.
* `CopiesStayInBounds`, `FailureLeavesBytes`, `VacatedBytesAreZeroed`.
* `WriterStaysConsistent`: after any sequence, the bytes validate and
  `total_len` is their encoded length.
* `ProjectionIsTheCommittedSize`: two independent sums agree.
* `ImplementsValue`: the refinement of `CompactValue`. While a commit runs, the
  abstract value is the one at its start; its last step is the abstract commit.
* `CommitCompletes`: under fairness, a commit that begins comes back, and a
  commit whose projected size fits the account comes back with `Ok`.
* `FailedCallLeavesNoTrace`: a rejected `update` leaves the bytes, a failed
  `initialize` zeros.
* `PreflightIsExact`: a commit let through by its preflight neither fails for
  space nor returns another length.
* `SuccessfulCallStoresValue`: the account is exactly the encoding of the new
  value, zeros to the end of the old one, then the spare bytes as the call found
  them (zeros after an `initialize`). One spare byte of the instance is not zero.
* `PlannedUpdateSucceeds`: with a fresh plan and the planned size, update works.
* `AccountStaysReadable`: between calls the account validates or is zero.

Properties of the enum:

* `AcceptedBytesAreCanonical`: what `validate` accepts is the reference encoding
  of what the unchecked view returns, and `current_encoded_len`, a separate
  walk, ends where it does.
* `VacatedBytesAreZeroed` (of `CompactEnum`): no byte behind the current variant
  shows an earlier one, after any calls and resizes.
* `ImplementsVariantCell`: the refinement of `VariantCell`: an update replaces
  the variant wholly or not at all, succeeds for every admissible variant that
  fits and for no other, and returns what `updated_len` announces.

Properties of the containers:

* `VacatedSlotsAreZero`, `VacatedBytesAreZero`: what was active and is not any
  more holds zero bytes.
* `WrittenOptionsAreCanonical`: options that calls left with the same value have
  the same bytes, whichever methods left them so. `set(None)`, `take` and `clear`
  each scrub for themselves; a scrub missing from one leaves a payload that one of
  the others would have zeroed.
* `RetainLosesNothing`: wherever the closure panics, every element it kept or
  had not seen is among the active ones.
* `ValidStaysValid`: no step leads from a container readers accept to one they
  refuse.
* `StaysUtf8`: the bytes handed out unchecked as `&str` are UTF-8.
* `EqualOptionsHashEqual`: `Eq` and `Hash` agree where readers or calls lead.
* `ImplementsBoundedVec`, `ImplementsBoundedText`, `ImplementsOption`: the
  refinements. The abstract specifications of the first and the last record each
  call with its arguments, so the effect and the answer are those of that call: a
  write is refused only when it does not fit, a removal answers `None` only where
  there is no element, `take` and `replace` return what the cell held. During
  `retain` the abstract sequence is the one at its start; its end filters, a panic
  rearranges, and the positions the closure kept are part of the reply.
* `WireIsCanonical`, `ReadersAcceptCanonicalOnly`: the promises at the head of
  `wincode.rs`: one encoding per value, rejection before the first byte.

Properties of fixed schemas, integers and the derive:

* `OpenViewConverts`: what a view stands for stays a value of the schema through
  any assignments, so `to_native` never fails on it and yields what the accessors
  show.
* `DiagnoseAgreesWithReaders`: `diagnose` reports the readers' error and blames
  the first field they reject.
* `EqualMeansShownAlike`: two companions are equal exactly when they show the
  same, whatever their inactive bytes, and then hash the same.
* `RefusedConversionDropsWhatItBuilt`: once each, and nothing else.
* `InitializeIsAllOrNothing`: the closure's draft, accepted, or zeros.
* `UpdatesAreNotLost`: the account holds the value all writes add up to.
* `StoredAsDeclared`: an accepted struct is laid out with the widths, capacities,
  elements and order of its declaration.

Each property has a mutant in `PROJECT.json`, a plausible slip in the code the
property is about, that TLC refutes; a property that relates several pieces of
code has one for each.

Bounds. Three tails is the smallest number at which one commit can have a tail
moving down, one moving up and one edited between them; two overlapping upward
moves already need two unedited tails after an edited one. Payloads up to four
bytes make ranges overlap partly, wholly and not at all. Account sizes include
one that fits the stored value and not the replacement. Three slots are the
least in which `retain` can drop, keep and drop again, and `remove` moves more
than one element; a capacity of four bytes holds a three-byte character after
another one, so that a truncation can fall on each of its bytes; `MaxInput` (4)
is one above the capacity. Two elements let the codec fail after a whole element
has gone through. State is finite without
any counter bound, because a writer or an account may be used without end.

`FixedSchema` is finite because a field takes one of the pods of `Pods`; an array
of two elements is the least in which a conversion can fail with an element
already built. Two digits let an integer's arithmetic carry and overflow.

Fairness. `FairSpec` of `CompactMut` assumes weak fairness of `Commits`, the
steps of a commit that has begun: `commit` is an ordinary function, called
synchronously, without a lock or a callback, so nothing but its own next step
can come next. Nothing obliges the program to call it, so no fairness is assumed
of `Set`, `SetInline` or `Commit`, and an account that never grows leaves a large
replacement staged for ever. The other components are checked for safety only:
their calls are single steps, or wait for a closure or a stream of the program
that owes no progress. The runs check deadlock, which here means that no call
gets stuck, except `schema_grammar`, where a struct that is accepted or refused
is the end.

## 4. Proofs

### The compact core

The modules of the compact core are proved about for every schema that satisfies
`SchemaAssumption` and `CapacityAssumption`: any number of tails, any prefix
widths, any `usize` wide enough for two prefix bytes and not wider than an
eight-byte prefix, and header fields laid out without gaps in the order the
derive gives them.

**The walks** (`PrefixesProofs`, `CompactReaderProofs`). The code computes where a tail starts in
three ways: the checked walks of `validate_layout` and `validate` (`WalkTo`),
the unchecked replay of `new_unchecked`, which uses wrapping arithmetic
(`TailOffset`), and the capacity sums of `compact_max_size` (`Capacity`). Each is
a recursive function over the number of tails. `Places(d, n, full, f)` says of a
table of offsets `f` that it starts at the header, that each tail is accepted at
its offset, and that it ends where the next begins. The proofs show that an
accepting walk yields such a table (`WalkedIsPlaced`), that a buffer with such a
table is accepted and ends there (`PlacedIsWalked`, `PlacedIsAccepted`), that the
replay computes the same table (`PlacedIsReplayed`), and that the table stays
within the capacities (`PlacesBounded`). `AcceptedReplay` puts these together:
what was validated is replayed exactly, and no wrap occurs. Existence and
uniqueness of the recursive functions are proved from typed recursion over
`0 .. TailCount`, so the facts are available for a function and not for one
fixed number of tails. Beside them: an encoded length is itself an admitted
allocation size (`PlacedLength`, from `PlacesAreGranular`: every tail takes a
multiple of the alignment granule), a buffer's content does not depend on the
bytes past its encoded length (`SameContent`) nor its tails on the inline bytes
(`InlineIsNoMatter`, `SameTails`), and a written length prefix decodes to what was written
(`WrittenPrefix`, for every radix and width).

A section of its own relates the walks to the reference codec.
`LengthTo`, `HeaderTo` and `BodyTo` of `CompactWire` build a value's length,
header and payloads tail by tail; `LengthRuns`, `HeaderRuns` and `BodyRuns` show
that on the value the accessors return they run as the table of offsets does,
since two runs that start alike and take the same steps are the same
(`SameRun`). The bytes of adjacent stretches join (`BytesJoin`), so a buffer with
a table of offsets is, up to its encoded length, the encoding of its own content
(`ContentEncoded`).

**The read view** (`CompactReaderProofs`): `ReplayInBounds`, `WalksDoNotDrift`
(`diagnose` walks a second time and agrees with `validate` in verdict, error and
end), `TrimKeepsAccount`, `NativeFaithful`, and `OneEncoding`, which states
`AcceptedBytesAreCanonical` from `ContentEncoded`: what an open view shows has no
other accepted encoding. `NativeFaithful` needs that no conversion of `to_native`
fails and none changes a byte: an inline byte passed `InlineValid`, so it is 0 or 1
where the type is bool (`KindAssumption`) and a discriminant where it is an enum
(`InlineConverts`); a tail has at most its capacity of whole elements
(`AccessorCount`), so its container takes it, and the container's own length prefix
is read back as the number written (`ContainerShows`, `TailConverts`). The
invariant `ReaderInv` says so of the last value built, which outlives its view.
`InputAssumption` says that the buffers offered are byte strings.

**The staged writer** (`CompactWriterProofs`), for every account and every sequence
of edits and commits:

* `Invariance`: `Spec => []IInv`, and `TypeCorrect`;
* `KeptTailsSurviveAlways`, `CopiesStayInBoundsAlways`,
  `FailureLeavesBytesAlways`, `VacatedBytesAreZeroedAlways`;
* `CommitInvariance`: `Spec => []CommitInv`, and from it
  `WriterStaysConsistentAlways` and `ProjectionIsTheCommittedSizeAlways`.

`KeptTailsSurvive` is not inductive: that a copy does not clobber a tail still
in place follows from where all tails are. `IInv` adds

* `AccountFits`: the header and `total_len` lie in the account;
* `EditsAccepted`: a staged edit went through a setter;
* `TailsAreOrdered`: the tails set up so far are laid out one after the other,
  before and after;
* `LengthsArePlanned`: the planned length of an edited tail is what phase 2
  will write, and an unedited tail keeps its length;
* `RangesFit`: the ranges checked so far end inside the account;
* `BytesUntilMoving`: nothing is written before all checks have passed;
* `SpareUntouched`: bytes beyond both values are as they were.

The argument for the copies: a tail moving down, in field order, writes below
its own old end, and every later tail starts at or after that end; every earlier
unedited tail that moved down ends at or before the new start; an earlier tail
that will move up ends at or before the new start as well, because new offsets
are ordered. The case of upward moves is the mirror image, and payloads are
written when every unedited tail is at its new offset, which is disjoint from
theirs. `WriteStep` and `WriteSlotStep` show that the fallible calls in the last
phases cannot fail, which is why `FailureLeavesBytes` holds.

That what a commit leaves is an account again needs to know which bytes lie
there, and `CommitInv` says so while the commit is under way:

* `EntryStands`: the account the commit started from has accepted tails, and
  `total_len` is its encoded length. The inline bytes are left out on purpose:
  `initialize` writes them before its commit and only the entry check of the
  feature `compact-commit-full-validation` reads them;
* `EditsFit`: what is staged fits its field and passes its check;
* `SourcesAreReplayed`: the old offsets are those of the replay of the entry;
* `DestinationsArePacked`: the new ones follow each other without gaps;
* `HeaderIsKept`, `SlotsAreWritten`, `PayloadsAreWritten`: the slots and payloads
  done so far hold what the value read back will need, and those to come are as
  they were.

At the end the new offsets are a table `Places` accepts, so the result validates
(`FinishStores`).

`WriterImplementsValue` is the refinement: `Spec => ImplementsValue`, for every
schema. Its invariant `ValueInv` is both invariants and that the inline bytes of
`entry` read back. The value the mapping shows is then that of `entry` at every
point of a commit (`HeldIsEntry`), so the copies and writes in between stutter
(`StepIsSilent`), and two steps are left to account for:

* a commit that is refused (`CheckIsRefusal`): the range checks are the only
  fallible step that can fail, they fail exactly when the planned end exceeds the
  account (`PlannedLengths`, `CheckAnswers`), and that end is the length of the
  value with the staged edits applied (`AppliedLength`), which is what
  `CompactValue` compares with the capacity;
* a commit that returns (`FinishIsCommit`): the tails at the new offsets read as
  the staged edits or as the tails of `entry` (`FinishedContent`), which is
  `AppliedTo`, and what a setter let through keeps a value admissible
  (`EditsAreFit`, `EditIsAdmissible`).

**The account's life** (also in `CompactWriterProofs`). `update` preflights with
`updated_len`, which subtracts and adds per edit; `initialize` with
`initialized_len`, which adds per tail; the commit lays tails out one after the
other. `UpdatedLenExact` and `InitializedLenExact` show that both sums are
`NextLen`, the end of the tails to be stored when they are packed behind the
header, and that the checked arithmetic on the way never fails
(`CapacityRemains` bounds each partial sum). `CheckSucceeds` shows, with
`SetupSucceeds` and `LaterSucceeds` of the writer, that a commit with that much
room (`Roomy`) fails nowhere, and `FinishAnnounces` that it returns that length. The inductive
invariant `PInv` (`PatchInvariance`) says for each stage of a call what is known:
before the commit an update has changed nothing and an initialize has zeroed
(`Preflighted`); during it both invariants of the writer hold, it has room, and
the length announced is `NextLen` (`Underway`); after it the account has accepted
tails of that length (`Committed`); and what the call returns is a valid account
of the length it reports, or nothing stored (`Concluded`). `PlanHolds` carries a
fresh plan across the calls in between: growing, trimming and storing the same
bytes keep `NextLen` (`AccountResized`, `SameNextLen`). The theorems are
`FailedCallLeavesNoTraceAlways`, `PreflightIsExactAlways`,
`PlannedUpdateSucceedsAlways` and `AccountStaysReadableAlways`. `PatchInit`
states that the program starts from an account or from zero storage, and
`PatchAssumption` that a patch has an edit per tail.

`SuccessfulCallStoresValueAlways` needs one more invariant, `Storing`, on top of
`PInv`: the commit of a call starts from what the call found, or for an
`initialize` from zeros with the inline fields written (`Opened`), and when it has
returned the account holds the tails of that with the patch applied, and behind
them zeros and the spare bytes as they were (`Landed`, from `FinishedContent` and
`FinishZeroes`). An `update` writes its inline fields after the commit and an
`initialize` before it; `InlineIsPatched` and `PatchedIsBoth` show that either
order gives the patched value, because the tails do not depend on the inline
bytes. `StoredInFull` turns the value and the bytes behind it into the bytes of
the whole account, by `ContentEncoded`.

**Enums** (`CompactEnumProofs`), for every set of variants, discriminant width,
account and patch that `EnumAssumption` and `EnumPatchAssumption` allow. A
buffer is accepted exactly when it begins with the encoding of an admissible
value: an accepted buffer holds the value its unchecked view returns
(`AcceptedValue`), what it holds is that value's encoding (`HoldsIsEncoded`), and
a buffer that begins with an encoding is accepted (`EncodedIsAccepted`).
`PreflightExact` says that the fallible checks before a write pass exactly for
the admissible patches that fit, and that the announced length is the one
written. The invariant `EnumInv` adds to `VacatedBytesAreZeroed` what a reply
promises: `Announced`, that a length just announced is that of an admissible
patch on a readable account, and `Stored`, that after a successful write the
account shows the patch and the call returned its length. `VacatedZeroed` and
`EnumCanonical` are the two invariants of the runs. `EnumImplementsCell` is the
refinement: a write that is let through changes the shown variant to that of the
patch, everything refused leaves the bytes, and growing or trimming an account
does not change what it shows, since its bytes in use are a prefix that both
keep (`InUseFacts`).

### The pods

`PodVecProofs` proves, for every capacity, prefix width, `usize` width, element
type and set of inputs that satisfies `PodSlotsAssumption` and
`GivenAssumption`: `TypeCorrect`, `VacatedSlotsAreZeroAlways`,
`RetainLosesNothingAlways` and `ValidStaysValidAlways`. `RetainLosesNothing`
speaks of cardinalities of `kept`; to be inductive it needs `RetainInOrder`
(`write` is the number of kept elements and not above `read`, which is not above
the clamped length) and `NothingKept` (nothing is kept outside `retain`). A kept
element goes to slot `write`, which is at or below `read`, so it overwrites an
element already examined and no kept one; that is the whole argument, and the
lemmas on cardinality are there to say it. `VacatedSlotsAreZero` rests on
`Clamp(EncodeLen(n)) = n` for `n <= N`, from the capacity assumption.

The module also proves the refinement, `VecIsImplemented`, from the same
assumptions. The mapping shows `before` while `retain` runs and the active
elements otherwise, so the closure calls that keep or drop stutter and the end
of `retain` is one `Filter`. Each method has a lemma that computes the shown
sequence from the slots it stores (`AppendShows`, `RemovedShows`,
`ShortenedShows`), and shows that it is the action of `BoundedVec` for the same
call, with the same arguments and the same answer (`Writes` for what can be
refused, `Withdraws` for what returns an element). `BoundedVec` knows a running
`retain` by the reply alone, so the proof carries `PendingIsRunning`: the reply is
pending exactly while `retain` runs. Two more facts carry the rest. `PickedAt`: the i-th element of a
filtered sequence is the one at the member of `K` with rank i, which exists
because every number up to the cardinality of a bounded set is the rank of one
of its members (`RankExists`). `NothingMoved`: while `retain` runs no slot from
the write cursor on has changed. With `RetainLosesNothing` it says what a
panicking closure leaves, the kept elements in front of a vector that is
otherwise as it was, which is `Unwind`.

`PodStringProofs` proves `StaysUtf8Always`, `VacatedBytesAreZeroAlways` and the
refinement `TextIsImplemented`, for every capacity and prefix width and for every
encoding in which a byte that begins a character continues none
(`CharsAssumption`), given that the texts offered are sequences of characters
(`OfferedAssumption`, which is what the type `&str` promises; `InputsAreUtf8`
derives that their bytes are UTF-8). `Cuts` names the ends of the characters of a
text. `BoundaryIsCut` is the heart: a position with no continuation byte is one
of them, since otherwise the character that begins at the last cut before it
would contain it as a continuation byte. So a prefix up to a boundary is a text
(`PrefixIsUtf8`), and two texts in a row are one (`ConcatenationIsUtf8`). The walk
of `truncate` ends because position 0 is a boundary (`BoundaryExists`, from
`LargestExists`).

The refinement maps bytes to the characters they are made of, and needs that
there is only one way to cut them (`CharactersDetermined`): the cuts are the
boundaries, whoever makes them. `FlattenSeq` of the community modules is a fold;
`JoinedIsFlatten` replaces it by what it computes, a table of offsets at which
the characters begin (`Joined`), and no later proof looks at the fold. Each
method has a lemma that says what the shown text becomes: `TrySetRefines`,
`TryPushStrRefines` (the characters of two texts in a row are those of both,
`ConcatJoined`), `ClearRefines`, and `TruncateRefines`, in which the largest
boundary not above the requested length is the end of the longest whole prefix
of characters that fits (`ShortensTo`).

`PodProofs` holds the pods of one value and the codec.

* **Options**: `WrittenOptionsAreCanonicalAlways`, `EqualOptionsHashEqualAlways`
  and the refinement `OptionsAreImplemented`, for every payload type, tag width and
  number of options. The invariant says that a written option has one of the two
  canonical tags, and a zero payload if it is the absent one, one step per method.
  A corrupt tag equals an absent one and hashes differently; only account bytes
  nobody has written can have it.
* **Integers**: `UpdatesAreNeverLost`, for every width, even radix and both
  signednesses. The arithmetic is that of two's complement: bytes and numbers
  are in bijection (`BytesOfIntegers`, from `Powers` and `DecodedNumber`), so a
  read-modify-write stores what its operation yields. `IntegerInv` adds that a
  store is put off only by a plain store of the program while it runs, which is
  why a callee, called after a volatile store, cannot miss one.
* **The codec**: `CodecWireIsCanonical` and `CodecReadersAcceptCanonicalOnly`, for
  every capacity, every content a container can have, every size of the padding's
  pieces and every wire. `CodecInv` says where a writer is in the one encoding of
  its value (`WritePosition`: what it has written is the encoding's beginning),
  and what a reader has built from the cells it has consumed (`Built`). A refusal
  and an end of stream then happen only on wires no value is written as, and a
  value is returned only from the wire it is written as (`IsRead`).

### Schemas

`SchemaProofs` proves the five properties of `FixedSchema` for every schema,
every account and every sequence of steps. The assumption on the constants is
`FixedSchemaAssumption`: a type is made of earlier ones (a Rust type is finite),
and a vector's prefix can hold its capacity (`_CAP_CHECK`).

The types nest, so everything rests on induction over them. A set that contains
every place whose earlier types it contains is all of `Place`
(`PlaceInduction`), and a recursive function over places exists, since it does
for the first `n` types by induction on `n`; `VerdictUnfolds`, `ShownUnfolds`,
`ToNativeUnfolds`, `EqualUnfolds`, `HashedUnfolds`, `AssignableUnfolds` and
`PodsUnfold` then give one step of each walk, and no later proof looks at the
recursion. The pods inside a pod lie one after the other within its cells
(`ActivePacks`), which rests on the running sums of sizes (`FieldOffsets`).

* `DiagnoseAgreesWithReadersAlways` needs no invariant: both walks take the
  first failure of the same verdicts.
* `RefusedConversionDropsWhatItBuiltAlways` needs none either. A conversion of
  any bytes constructs values from its own cells only (`Tidy`), and parts share no
  cell, so what the parts before a failing one hold and what that one has dropped
  are disjoint, and each value is dropped once (`GatheredTidy`).
* `OpenViewConvertsAlways`: accepted bytes convert, to what the accessors show
  (`AcceptedConverts`). That a view's bytes stay accepted is the invariant `IInv`,
  and its hard step is `Assign`: a verdict depends on the pod's own cells alone,
  wherever they lie (`VerdictIsLocal`), the safe constructors build accepted pods
  (`PodsAreBuilt`), and an assignment to a field of a field leaves every other
  part untouched (`AssignableKeeps`).
* `EqualMeansShownAlikeAlways`: equality is what is shown on any bytes
  (`EqualShown`), but equal bytes hash the same only when both are accepted
  (`EqualHashed`), since a corrupt tag equals an absent one; so it needs the
  invariant for the view and for what was copied out of one.
* `InitializeIsAllOrNothingAlways`: while the closure runs the account is its
  draft, over the whole size.

The derive is proved about in the same module: `StoredAsDeclaredAlways`, for every
set of declared types closed under the types in them, nested to any depth, and
any number of fields. `GrammarAssumption` says that what `syn` parses is a tree
whose nodes are deeper than the types among their arguments, and that an array or
a parenthesis is around one. `SyntaxInduction` is induction on the depth;
`PrefixesValidUnfolds`, `ProjectionUnfolds` and `MapToPodUnfolds` give one step of
each recursion. `MappedIsProjected` is the point of the prefix rule: a type whose
prefixes were checked, wherever they are in it, is mapped to what `rustc` makes of
it, because the mapping's fallback to a default is never taken for a prefix that is
there (`DeclaredPrefix`). `CompactIsDeclared` says it of the tails a compact struct
decodes. The invariant `GrammarInv` keeps each field's classification; a compact
struct is accepted only without an inline field behind a tail, so gathering the
inline fields in the header reorders nothing.

### What stays with TLC

`CommitCompletes` is a liveness property under fairness, which the proof system
does not reach. Every other property of the runs is stated by a theorem.

## 5. Not modelled

* A compact schema without tails: its `commit` runs the entry validation and
  returns, and its views have no offsets.
* Field attributes and layout options (`schema.rs` 192-301) and the entry points
  of `lib.rs`: they select which impls are generated and change no layout.
* The capacity checks the derive emits as constant assertions: they do not
  compile otherwise, and enter as `CapacityAssumption`, `PodSlotsAssumption` and
  the types of `FixedSchema`.
* Float pods beyond their bytes: rounding and the order of NaN are the
  hardware's, and the pods delegate to it. The logical operators of `PodBool`.
* Companions copied out of the closure of `initialize` before they validate:
  `FixedSchema` copies out of validated views only.
* `Debug`, `Display`, iterators and the other read-only adapters; the `Hash` and
  `Eq` impls that delegate to the slice.
* The Kani and fuzz harnesses (`generated_proofs.rs`, `fuzz/`), which check the
  code and are no part of it; the benchmarks and examples.
