----------------------------- MODULE FixedSchema -----------------------------
(***************************************************************************)
(* A fixed schema (pinapod-derive/src/fixed.rs and PinaPodFixed): account  *)
(* bytes are cast to the generated companion `Zc`, whose fields are pods   *)
(* in declaration order.  A program opens a shared or mutable view of an   *)
(* account, or initializes it with a closure that may stop half-way,       *)
(* assigns fields, copies the companion out (it is Copy), and materializes *)
(* the declared struct.                                                    *)
(*                                                                         *)
(* A cell is one scalar, tag or length prefix; 0 is the one of zero bytes. *)
(***************************************************************************)
EXTENDS Integers, Sequences, SequencesExt, FiniteSetsExt

CONSTANTS
    Type,      \* the types in use, each after those it is made of
    Root,      \* the index of the schema's struct in Type
    Cell,      \* what a cell can hold
    Accounts   \* the byte strings an account can begin as

TypeId == DOMAIN Type

\* kind, what it is made of, the capacity of a vec or the length of an array,
\* and the discriminants an enum names.
TypeSchema ==
    [kind: {"int", "bool", "enum", "opt", "vec", "array", "struct"},
     of: Seq(Nat \ {0}), n: Nat, named: SUBSET Cell]

ASSUME FixedSchemaAssumption ==
    /\ Cell \subseteq Nat /\ 0 \in Cell /\ 1 \in Cell
    /\ Type \in Seq(TypeSchema)
    /\ \A t \in TypeId :
         /\ \A i \in DOMAIN Type[t].of : Type[t].of[i] < t
         /\ Type[t].kind \in {"opt", "vec", "array"} => Len(Type[t].of) = 1
         /\ Type[t].kind = "vec" => 0 .. Type[t].n \subseteq Cell
    /\ Root \in TypeId /\ Type[Root].kind = "struct"
    /\ Accounts \subseteq Seq(Cell)

VARIABLES
    data,    \* the account's cells, a sequence
    view,    \* the borrow that is out: "none", "shared", "mut" or "closure"
    reply,   \* what the last reader or initialize returned
    copied,  \* a companion copied out of a view, or << >>
    draft    \* history: what the closure assigned, over zeros

vars == <<data, view, reply, copied, draft>>

-----------------------------------------------------------------------------
(* Layout: #[repr(C)] over alignment-one pods, so fields follow one        *)
(* another without padding.                                                *)

Zeros(k) == [i \in 1 .. k |-> 0]

\* The sums of the first numbers of a sequence: of none, of one, and so on.
Sums(s) ==
    LET sum[k \in 0 .. Len(s)] == IF k = 0 THEN 0 ELSE sum[k - 1] + s[k]
    IN  sum

\* What a walk finds in the places it goes into.
Inside(f, places) == [i \in DOMAIN places |-> f[places[i]]]

\* The size of a t from those of the types it is made of.
Packed(t, sizes) ==
    CASE Type[t].kind = "opt" -> 1 + sizes[1]
      [] Type[t].kind = "vec" -> 1 + Type[t].n * sizes[1]
      [] Type[t].kind = "array" -> Type[t].n * sizes[1]
      [] Type[t].kind = "struct" -> Sums(sizes)[Len(sizes)]
      [] OTHER -> 1

SizeOf ==
    LET size[t \in TypeId] == Packed(t, Inside(size, Type[t].of))
    IN  [t \in TypeId |-> size[t]]

Size == SizeOf[Root]

\* How far into the companion of a struct its fields begin and end.
Offsets == [t \in TypeId |-> Sums(Inside(SizeOf, Type[t].of))]

\* A pod: a type and the cell it begins at.
Place == [type: TypeId, at: Nat]
Whole == [type |-> Root, at |-> 1]

\* k values of what a t is made of, one after the other.
Elements(t, at, k) ==
    LET of == Type[t].of[1]
    IN  [i \in 1 .. k |-> [type |-> of, at |-> at + (i - 1) * SizeOf[of]]]

\* The elements of an array, the fields of a companion.
Parts(p) ==
    LET t == Type[p.type]
    IN  IF t.kind = "array" THEN Elements(p.type, p.at, t.n)
        ELSE [i \in DOMAIN t.of |-> [type |-> t.of[i], at |-> p.at + Offsets[p.type][i - 1]]]

\* The active length of a PodVec: as_slice clamps a corrupt prefix.
ActiveLen(mem, p) ==
    IF mem[p.at] \in 0 .. Type[p.type].n THEN mem[p.at] ELSE Type[p.type].n

\* The pods a walk over the pod p goes into: get_ref, as_slice, the elements,
\* the fields.
Active(mem, p) ==
    LET kind == Type[p.type].kind
    IN  CASE kind = "opt" -> Elements(p.type, p.at + 1, IF mem[p.at] = 1 THEN 1 ELSE 0)
          [] kind = "vec" -> Elements(p.type, p.at + 1, ActiveLen(mem, p))
          [] kind \in {"array", "struct"} -> Parts(p)
          [] OTHER -> << >>

-----------------------------------------------------------------------------
(* validate_ref, pod by pod: the first failure in declaration order.       *)

FirstError(verdicts) ==
    LET bad == {i \in DOMAIN verdicts : verdicts[i] # "ok"}
    IN  IF bad = {} THEN "ok" ELSE verdicts[Min(bad)]

\* Mutant of ValidateArray: the no-op override of trivially valid elements is
\* taken for every element type.
ValidateArrayNothing(verdicts) == "ok"

\* validate_array and validate_slice: the walk over the elements.
ValidateArray(verdicts) == FirstError(verdicts)

\* What a pod asks of its own first cell.
OwnVerdict(cell, t) ==
    CASE Type[t].kind = "bool" /\ cell > 1 -> "InvalidBool"
      [] Type[t].kind = "enum" /\ cell \notin Type[t].named -> "InvalidDiscriminant"
      [] Type[t].kind = "opt" /\ cell \notin {0, 1} -> "InvalidTag"
      [] Type[t].kind = "vec" /\ cell > Type[t].n -> "InvalidLength"
      [] OTHER -> "ok"

PodVerdict(cell, t, verdicts) ==
    IF OwnVerdict(cell, t) # "ok" THEN OwnVerdict(cell, t)
    ELSE IF Type[t].kind \in {"vec", "array"} THEN ValidateArray(verdicts)
    ELSE FirstError(verdicts)

Verdict(mem, place) ==
    LET v[p \in Place] == PodVerdict(mem[p.at], p.type, Inside(v, Active(mem, p)))
    IN  v[place]

ValidatePrefix(mem) ==
    IF Len(mem) < Size THEN "BufferTooSmall" ELSE Verdict(mem, Whole)

ValidateExact(mem) ==
    IF Len(mem) < Size THEN "BufferTooSmall"
    ELSE IF Len(mem) > Size THEN "InvalidLength"
    ELSE Verdict(mem, Whole)

\* Mutant of Attributed: the walk keeps the last failure it meets.
AttributedLast(bad) == Max(bad)

\* The field a failed walk names.
Attributed(bad) == Min(bad)

\* diagnose; field 0 stands for the name of the schema itself.
Diagnose ==
    LET verdict == [i \in DOMAIN Parts(Whole) |-> Verdict(data, Parts(Whole)[i])]
        bad == {i \in DOMAIN verdict : verdict[i] # "ok"}
    IN  IF Len(data) < Size THEN [error |-> "BufferTooSmall", field |-> 0]
        ELSE IF bad = {} THEN [error |-> "ok", field |-> 0]
        ELSE [error |-> verdict[Attributed(bad)], field |-> Attributed(bad)]

-----------------------------------------------------------------------------
(* Reading: accessors, to_native, == and Hash.                             *)

\* What the generated accessor of a field reveals, with the pods it borrows
\* decoded by their own get.
PodShown(cell, t, inner) ==
    CASE Type[t].kind \in {"int", "enum"} -> cell
      [] Type[t].kind = "bool" -> cell # 0
      [] OTHER -> inner

Shown(mem, place) ==
    LET s[p \in Place] == PodShown(mem[p.at], p.type, Inside(s, Active(mem, p)))
    IN  s[place]

\* A conversion: its value or error, the leaf values it constructed (by the
\* place they come from) and those it dropped, in order.
Converted(at, value) == [error |-> "ok", value |-> value, made |-> {at}, freed |-> << >>]

Refused(error) == [error |-> error, value |-> << >>, made |-> {}, freed |-> << >>]

\* Mutant of DroppedBefore: the failing slot is dropped as well.
DroppedThrough(parts, k) == SetToSeq(UNION {parts[i].made : i \in 1 .. k})
                              \o (IF parts[k].made = {} THEN <<0>> ELSE << >>)

\* What is dropped when part k fails: everything the parts before it hold.
DroppedBefore(parts, k) == SetToSeq(UNION {parts[i].made : i \in 1 .. (k - 1)})

\* from_zc_array, and the temporaries of a struct literal whose later field
\* fails.
Gathered(parts) ==
    LET bad == {i \in DOMAIN parts : parts[i].error # "ok"}
        k == Min(bad)
    IN  IF bad = {}
        THEN [error |-> "ok", value |-> [i \in DOMAIN parts |-> parts[i].value],
              made |-> UNION {parts[i].made : i \in DOMAIN parts}, freed |-> << >>]
        ELSE [error |-> parts[k].error, value |-> << >>,
              made |-> UNION {parts[i].made : i \in 1 .. k},
              freed |-> parts[k].freed \o DroppedBefore(parts, k)]

\* to_native and from_zc: containers are copied as they are, so their elements
\* are not looked at.
PodNative(mem, p, inner) ==
    LET kind == Type[p.type].kind
    IN  CASE kind \in {"int", "bool", "vec"} -> Converted(p.at, Shown(mem, p))
          [] kind = "enum" ->
               IF mem[p.at] \in Type[p.type].named THEN Converted(p.at, mem[p.at])
               ELSE Refused("InvalidDiscriminant")
          [] kind = "opt" /\ mem[p.at] # 1 -> Converted(p.at, << >>)
          [] OTHER -> Gathered(inner)

ToNative(mem, place) ==
    LET c[p \in Place] == PodNative(mem, p, Inside(c, Active(mem, p)))
    IN  c[place]

\* Mutant of EqualOptions: an absent value equals every other.
EqualOptionPayloads(tag1, tag2, payloads) == tag1 = 1 => payloads

\* PodOption's ==: every tag but 1 counts as absent.
EqualOptions(tag1, tag2, payloads) ==
    (tag1 = 1) = (tag2 = 1) /\ (tag1 = 1 => payloads)

\* == of two companions, field by field over the pods' own ==; slices of
\* different lengths differ.
PodEqual(mem1, mem2, p, inner) ==
    LET kind == Type[p.type].kind
        alike == \A i \in DOMAIN inner : inner[i]
    IN  CASE kind \in {"int", "enum"} -> mem1[p.at] = mem2[p.at]
          [] kind = "bool" -> (mem1[p.at] # 0) = (mem2[p.at] # 0)
          [] kind = "opt" -> EqualOptions(mem1[p.at], mem2[p.at], alike)
          [] kind = "vec" -> ActiveLen(mem1, p) = ActiveLen(mem2, p) /\ alike
          [] OTHER -> alike

Equal(mem1, mem2, place) ==
    LET e[p \in Place] == PodEqual(mem1, mem2, p, Inside(e, Active(mem1, p)))
    IN  e[place]

\* What Hash feeds the hasher, field by field.
PodHashed(cell, t, inner) ==
    CASE Type[t].kind \in {"int", "enum"} -> cell
      [] Type[t].kind = "bool" -> cell # 0
      [] Type[t].kind = "opt" -> IF cell = 0 THEN <<0>> ELSE <<1, inner>>
      [] OTHER -> inner

Hashed(mem, place) ==
    LET h[p \in Place] == PodHashed(mem[p.at], p.type, Inside(h, Active(mem, p)))
    IN  h[place]

-----------------------------------------------------------------------------
(* What a program can put into a field.                                    *)

\* A vector of the elements, zeros behind them.
Filled(t, elements) ==
    <<Len(elements)>> \o FlattenSeq(elements)
        \o Zeros((Type[t].n - Len(elements)) * SizeOf[Type[t].of[1]])

\* The pods that From<bool>, From<Enum>, PodOption::some and none, and
\* try_set_from_slice of an empty PodVec build.
PodsFrom(t, inner) ==
    CASE Type[t].kind = "int" -> {<<c>> : c \in Cell}
      [] Type[t].kind = "bool" -> {<<0>>, <<1>>}
      [] Type[t].kind = "enum" -> {<<c>> : c \in Type[t].named}
      [] Type[t].kind = "opt" ->
           {<<0>> \o Zeros(SizeOf[Type[t].of[1]])} \cup {<<1>> \o pod : pod \in inner[1]}
      [] Type[t].kind = "vec" ->
           UNION {{Filled(t, elements) : elements \in [1 .. k -> inner[1]]} : k \in 0 .. Type[t].n}
      [] OTHER -> {}

Pods ==
    LET pods[t \in TypeId] == PodsFrom(t, Inside(pods, Type[t].of))
    IN  [t \in TypeId |-> pods[t]]

\* The places a program can assign: fields, those of nested companions, and
\* array elements.
Assignable(place) ==
    LET places[p \in Place] ==
        IF Type[p.type].kind \in {"array", "struct"}
        THEN UNION ToSet(Inside(places, Parts(p)))
        ELSE {p}
    IN  places[place]

Places == Assignable(Whole)

Assigned(mem, at, pod) ==
    [i \in DOMAIN mem |-> IF i \in at .. (at + Len(pod) - 1) THEN pod[i - at + 1] ELSE mem[i]]

-----------------------------------------------------------------------------

Init ==
    /\ data \in Accounts
    /\ view = "none"
    /\ reply = "ok"
    /\ copied = << >>
    /\ draft = << >>

Open(mode, verdict) ==
    /\ view = "none"
    /\ reply' = verdict
    /\ view' = IF verdict = "ok" THEN mode ELSE "none"
    /\ UNCHANGED <<data, copied, draft>>

ReadExact == Open("shared", ValidateExact(data))

ReadPrefix == Open("shared", ValidatePrefix(data))

ReadExactMut == Open("mut", ValidateExact(data))

ReadPrefixMut == Open("mut", ValidatePrefix(data))

\* The borrow ends.
Release ==
    /\ view \in {"shared", "mut"}
    /\ view' = "none"
    /\ UNCHANGED <<data, reply, copied, draft>>

\* `*value`, while the view stands for validated bytes.
CopyOut ==
    /\ view \in {"shared", "mut"}
    /\ copied' = SubSeq(data, 1, Size)
    /\ UNCHANGED <<data, view, reply, draft>>

Store(at, pod) ==
    /\ view \in {"mut", "closure"}
    /\ data' = Assigned(data, at, pod)
    /\ draft' = Assigned(draft, at, pod)
    /\ UNCHANGED <<view, reply, copied>>

\* `value.field = pod`, in a mutable view or in the closure of initialize.
Assign == \E place \in Places : \E pod \in Pods[place.type] : Store(place.at, pod)

\* `*value = copied`.
PasteIn == copied # << >> /\ Store(1, copied)

InitializeRefused ==
    /\ view = "none"
    /\ Len(data) # Size
    /\ reply' = IF Len(data) < Size THEN "BufferTooSmall" ELSE "InvalidLength"
    /\ UNCHANGED <<data, view, copied, draft>>

\* Mutant of Initialize: the account is not zeroed first.
InitializeOverOld ==
    /\ view = "none"
    /\ Len(data) = Size
    /\ view' = "closure"
    /\ draft' = Zeros(Size)
    /\ UNCHANGED <<data, reply, copied>>

\* initialize, up to the call of the closure.
Initialize ==
    /\ view = "none"
    /\ Len(data) = Size
    /\ data' = Zeros(Size)
    /\ view' = "closure"
    /\ draft' = Zeros(Size)
    /\ UNCHANGED <<reply, copied>>

\* An error of the closure or of validate_ref erases the value.
Erase(error) ==
    /\ reply' = error
    /\ data' = Zeros(Size)
    /\ view' = "none"

\* The closure returns Ok.
ClosureReturns ==
    /\ view = "closure"
    /\ LET verdict == Verdict(data, Whole)
       IN  IF verdict = "ok"
           THEN reply' = "ok" /\ view' = "mut" /\ UNCHANGED data
           ELSE Erase(verdict)
    /\ draft' = << >>
    /\ UNCHANGED copied

\* The closure returns an error of its own.
ClosureFails ==
    /\ view = "closure"
    /\ Erase("Closure")
    /\ draft' = << >>
    /\ UNCHANGED copied

\* The closure panics: an unwinding program finds what it has assigned so far.
ClosurePanics ==
    /\ view = "closure"
    /\ view' = "none"
    /\ reply' = "panic"
    /\ draft' = << >>
    /\ UNCHANGED <<data, copied>>

Next ==
    \/ ReadExact \/ ReadPrefix \/ ReadExactMut \/ ReadPrefixMut
    \/ Release \/ CopyOut
    \/ Assign \/ PasteIn
    \/ InitializeRefused \/ Initialize
    \/ ClosureReturns \/ ClosureFails \/ ClosurePanics

Spec == Init /\ [][Next]_vars

-----------------------------------------------------------------------------
(* Properties.                                                             *)

\* What a view stands for stays a value of the schema through any sequence of
\* assignments: to_native never fails on it, and yields what the accessors
\* show (fixed.rs:240-246: "for a value that reached the caller through a
\* validating reader this always succeeds").
OpenViewConverts ==
    view \in {"shared", "mut"} =>
        /\ ToNative(data, Whole).error = "ok"
        /\ ToNative(data, Whole).value = Shown(data, Whole)

\* diagnose accepts exactly what validate_prefix accepts, with the same error,
\* and names the first field the readers reject (fixed.rs:271-282).
DiagnoseAgreesWithReaders ==
    /\ Diagnose.error = ValidatePrefix(data)
    /\ \A i \in 1 .. Diagnose.field :
         (Verdict(data, Parts(Whole)[i]) = "ok") = (i < Diagnose.field)

\* Two companions are equal exactly when they show the same, whatever their
\* inactive capacity holds, and equal ones hash the same (fixed.rs:191-194).
EqualMeansShownAlike ==
    view \in {"shared", "mut"} /\ copied # << >> =>
        /\ Equal(data, copied, Whole) = (Shown(data, Whole) = Shown(copied, Whole))
        /\ Equal(data, copied, Whole) => Hashed(data, Whole) = Hashed(copied, Whole)

\* A refused conversion drops every value it has built, and no other, once:
\* also on the unvalidated bytes of a closure, where it can be refused.
RefusedConversionDropsWhatItBuilt ==
    view # "none" =>
        LET result == ToNative(data, Whole)
        IN  result.error # "ok" =>
              /\ ToSet(result.freed) = result.made
              /\ Len(result.freed) = Cardinality(result.made)

\* initialize leaves what the closure assigned over zeros, and accepted, or
\* nothing but zeros; whatever the account held is gone (traits.rs:450-458).
InitializeIsAllOrNothing ==
    [][view = "closure" /\ view' # "closure" /\ reply' # "panic" =>
         IF reply' = "ok"
         THEN view' = "mut" /\ data' = draft /\ ValidateExact(data') = "ok"
         ELSE view' = "none" /\ data' = Zeros(Size)]_vars
=============================================================================
