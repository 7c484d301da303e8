----------------------------- MODULE SchemaGrammar -----------------------------
(***************************************************************************)
(* What the derive does with a struct before it generates code             *)
(* (pinapod-derive/src/schema.rs and type_map.rs): field by field it       *)
(* checks the declared prefixes and classifies the type as inline or as a  *)
(* compact tail, and at the end it orders inline fields before tails.      *)
(*                                                                         *)
(* A declared type is a syntax tree: a node has a form ("path", "array",   *)
(* "paren", and among the arguments of a path "lit" and "expr"), the path  *)
(* before its name, a number (a literal, an array length, the value of a   *)
(* const expression), arguments, and the depth of the tree below it.       *)
(***************************************************************************)
EXTENDS Integers, Sequences, SequencesExt

CONSTANTS
    Declarable,  \* the types fields are declared with, and those they are made of
    MaxDepth,    \* bound on the nesting of a type
    MaxFields    \* bound on the fields of a struct

VARIABLES
    compact,   \* #[pinapod(compact)]
    declared,  \* the types of the fields so far
    kinds,     \* what each was classified as
    outcome    \* "parsing", "accepted" or "rejected"

grammarVars == <<compact, declared, kinds, outcome>>

Widths == {1, 2, 4, 8}

IsType(arg) == arg.form \in {"path", "array", "paren"}

\* What syn parses is a tree: a node is deeper than the types among its
\* arguments, and an array or a parenthesis is around a type.
ASSUME GrammarAssumption ==
    /\ MaxDepth \in Nat
    /\ \A ty \in Declarable :
         /\ ty.depth \in 1 .. MaxDepth
         /\ Len(ty.args) \in Nat /\ DOMAIN ty.args = 1 .. Len(ty.args)
         /\ \A i \in DOMAIN ty.args :
              IsType(ty.args[i]) => ty.args[i] \in Declarable /\ ty.args[i].depth < ty.depth
         /\ ty.form \in {"array", "paren"} => Len(ty.args) = 1 /\ IsType(ty.args[1])

-----------------------------------------------------------------------------
(* Which spellings are containers.                                         *)

StandardOption(ty) ==
    ty.path \in {<<"core", "option">>, <<"std", "option">>} /\ ty.name = "Option"

Container(name) ==
    CASE name \in {"String", "PodString"} -> "String"
      [] name \in {"Vec", "PodVec"} -> "Vec"
      [] name = "Option" -> "Option"
      [] OTHER -> "none"

\* recognized_dynamic_name
Recognized(ty) ==
    IF /\ ty.form = "path"
       /\ \/ ty.path \in {<< >>, <<"pina">>}
          \/ IsSuffix(<<"pinapod">>, ty.path)
          \/ IsSuffix(<<"pinapod", "pod">>, ty.path)
          \/ StandardOption(ty)
    THEN Container(ty.name) ELSE "none"

\* parse_prefix_arg; 0 stands for None.
PrefixArg(arg) == IF arg.form = "lit" /\ arg.n \in Widths THEN arg.n ELSE 0

\* extract_const_expr: a const generic that is a single name parses as a type.
IsConst(arg) ==
    arg.form \in {"lit", "expr"} \/ (arg.form = "path" /\ arg.path = << >>)

\* Where a container's prefix is declared, if it is.
PrefixIndex(ty) ==
    CASE Recognized(ty) = "String" -> 2
      [] Recognized(ty) = "Vec" -> 3
      [] OTHER -> 0

\* Mutant of Descends: array elements are not looked into.
DescendsNotArrays(ty) == ty.form = "paren"

Descends(ty) == ty.form \in {"array", "paren"}

\* validate_dynamic_prefix_args
PrefixesValid[ty \in Declarable] ==
    IF Descends(ty) THEN PrefixesValid[ty.args[1]]
    ELSE ty.form = "path" =>
           /\ LET at == PrefixIndex(ty)
              IN  at \in DOMAIN ty.args => PrefixArg(ty.args[at]) # 0
           /\ \A i \in DOMAIN ty.args : IsType(ty.args[i]) => PrefixesValid[ty.args[i]]

-----------------------------------------------------------------------------
(* Classification.                                                         *)

Inline == [kind |-> "inline"]

Rejected == [kind |-> "error"]

Segment(tagged, payload, elem, max, pfx) ==
    [kind |-> "tail", tagged |-> tagged, payload |-> payload,
     elem |-> elem, max |-> max, pfx |-> pfx]

NoElement == << >>

\* contains_dynamic_type
ContainsDynamic[ty \in Declarable] ==
    /\ ty.form = "path"
    /\ \/ Recognized(ty) \in {"String", "Vec"}
       \/ ty.name = "Option" /\ ty.args # << >>
            /\ IsType(ty.args[1]) /\ ContainsDynamic[ty.args[1]]

\* The prefix of a container that may leave it out; 0 is an error.
PrefixOr(default, ty, at) ==
    IF at \in DOMAIN ty.args THEN PrefixArg(ty.args[at]) ELSE default

StringTail(tagged, ty) ==
    LET pfx == PrefixOr(1, ty, 2)
    IN  IF Len(ty.args) \in 1 .. 2 /\ IsConst(ty.args[1]) /\ pfx # 0
        THEN Segment(tagged, "String", NoElement, ty.args[1], pfx) ELSE Rejected

VecTail(tagged, ty) ==
    LET pfx == PrefixOr(2, ty, 3)
        elem == ty.args[1]
    IN  IF /\ Len(ty.args) \in 2 .. 3
           /\ IsType(elem) /\ IsConst(ty.args[2]) /\ pfx # 0
           /\ IF Recognized(elem) = "String"
              THEN StringTail(FALSE, elem) # Rejected ELSE ~ContainsDynamic[elem]
        THEN Segment(tagged, "Vec", elem, ty.args[2], pfx) ELSE Rejected

ClassifyOption(ty) ==
    IF Len(ty.args) # 1 \/ ~IsType(ty.args[1]) THEN Rejected
    ELSE LET inner == ty.args[1]
         IN  CASE Recognized(inner) = "String" -> StringTail(TRUE, inner)
               [] Recognized(inner) = "Vec" ->
                    IF inner.args # << >> /\ Recognized(inner.args[1]) = "String"
                    THEN Rejected ELSE VecTail(TRUE, inner)
               [] OTHER -> IF ContainsDynamic[inner] THEN Rejected ELSE Inline

\* classify_compact_field
ClassifyCompact(ty) ==
    CASE Recognized(ty) = "String" -> StringTail(FALSE, ty)
      [] Recognized(ty) = "Vec" -> VecTail(FALSE, ty)
      [] Recognized(ty) = "Option" -> ClassifyOption(ty)
      [] OTHER -> Inline

\* The prefix of a container where one that is not valid is taken for none.
LaxPrefix(default, ty, at) ==
    IF at \in DOMAIN ty.args /\ PrefixArg(ty.args[at]) # 0
    THEN PrefixArg(ty.args[at]) ELSE default

\* classify_string and classify_vec: what is not well-formed is no tail.
LaxTail(tagged, ty) ==
    LET at == PrefixIndex(ty)
        default == IF at = 2 THEN 1 ELSE 2
    IN  IF at = 0 \/ Len(ty.args) < at - 1 \/ ~IsConst(ty.args[at - 1])
             \/ (at = 3 /\ ~IsType(ty.args[1]))
        THEN Inline
        ELSE Segment(tagged, Recognized(ty), IF at = 3 THEN ty.args[1] ELSE NoElement,
                  ty.args[at - 1], LaxPrefix(default, ty, at))

\* classify_field, the classification of fixed layouts.
ClassifyFixed(ty) ==
    IF Recognized(ty) = "Option"
    THEN IF ty.args # << >> /\ IsType(ty.args[1]) THEN LaxTail(TRUE, ty.args[1]) ELSE Inline
    ELSE LaxTail(FALSE, ty)

-----------------------------------------------------------------------------
(* The stored type.                                                        *)

\* A pod type: a container with its capacity and prefix, or whatever ZcField
\* says of a type the derive knows nothing of.
PodOf(pod, of, max, pfx) == [pod |-> pod, of |-> of, max |-> max, pfx |-> pfx]

\* A container with the arguments its Rust type needs.
Complete(ty) ==
    /\ Recognized(ty) = "Option" => Len(ty.args) = 1
    /\ PrefixIndex(ty) # 0 => Len(ty.args) >= PrefixIndex(ty) - 1
    /\ Recognized(ty) \in {"Vec", "Option"} => IsType(ty.args[1])

\* The prefix rustc reads from a container, or the one its alias has.
DeclaredWidth(ty) ==
    IF PrefixIndex(ty) \in DOMAIN ty.args THEN ty.args[PrefixIndex(ty)].n
    ELSE PrefixIndex(ty) - 1

\* What rustc makes of <T as ZcField>::Pod, with the const arguments as they
\* are declared: String and Vec are aliases of PodString<N, 1> and
\* PodVec<T, N, 2>, an array maps element by element, an Option to a PodOption
\* with a one-byte tag.  A container that is not complete it refuses.
Projection[ty \in Declarable] ==
    CASE ty.form = "paren" -> Projection[ty.args[1]]
      [] ty.form = "array" -> PodOf("array", Projection[ty.args[1]], ty.n, 0)
      [] Recognized(ty) = "String" /\ Complete(ty) ->
           PodOf("PodString", << >>, ty.args[1], DeclaredWidth(ty))
      [] Recognized(ty) = "Vec" /\ Complete(ty) ->
           PodOf("PodVec", Projection[ty.args[1]], ty.args[2], DeclaredWidth(ty))
      [] Recognized(ty) = "Option" /\ Complete(ty) ->
           PodOf("PodOption", Projection[ty.args[1]], 0, 1)
      [] OTHER -> PodOf("ZcField", ty, 0, 0)

\* map_to_pod_type
MapToPod[ty \in Declarable] ==
    CASE ty.form = "array" -> PodOf("array", MapToPod[ty.args[1]], ty.n, 0)
      [] Recognized(ty) = "String" /\ Len(ty.args) >= 1 ->
           PodOf("PodString", << >>, ty.args[1], LaxPrefix(1, ty, 2))
      [] Recognized(ty) = "Vec" /\ Len(ty.args) >= 2 /\ IsType(ty.args[1]) ->
           PodOf("PodVec", MapToPod[ty.args[1]], ty.args[2], LaxPrefix(2, ty, 3))
      [] Recognized(ty) = "Option" /\ Len(ty.args) = 1 /\ IsType(ty.args[1]) ->
           PodOf("PodOption", MapToPod[ty.args[1]], 0, 1)
      [] OTHER -> Projection[ty]

-----------------------------------------------------------------------------

GrammarInit ==
    /\ compact \in BOOLEAN
    /\ declared = << >>
    /\ kinds = << >>
    /\ outcome = "parsing"

Classify(ty) ==
    IF ~PrefixesValid[ty] THEN Rejected
    ELSE IF compact THEN ClassifyCompact(ty) ELSE ClassifyFixed(ty)

\* parse_with_options, the closure over the fields: the first error ends it.
Field(ty) ==
    /\ outcome = "parsing"
    /\ Len(declared) < MaxFields
    /\ IF Classify(ty) = Rejected
       THEN outcome' = "rejected" /\ UNCHANGED <<declared, kinds>>
       ELSE /\ declared' = Append(declared, ty)
            /\ kinds' = Append(kinds, Classify(ty))
            /\ UNCHANGED outcome
    /\ UNCHANGED compact

\* Mutant of OutOfOrder: an optional tail is taken for an inline field.
OutOfOrderUntagged(i) ==
    /\ kinds[i].kind = "inline"
    /\ \E j \in 1 .. (i - 1) : kinds[j].kind = "tail" /\ ~kinds[j].tagged

\* An inline field after a tail.
OutOfOrder(i) ==
    /\ kinds[i].kind = "inline"
    /\ \E j \in 1 .. (i - 1) : kinds[j].kind = "tail"

\* parse_with_options, the suffix-only rule.
Finish ==
    /\ outcome = "parsing"
    /\ outcome' = IF compact /\ \E i \in DOMAIN kinds : OutOfOrder(i)
                  THEN "rejected" ELSE "accepted"
    /\ UNCHANGED <<compact, declared, kinds>>

GrammarNext == Finish \/ \E ty \in Declarable : Field(ty)

GrammarSpec == GrammarInit /\ [][GrammarNext]_grammarVars

-----------------------------------------------------------------------------
(* Properties.                                                             *)

\* Schema::inline_fields and tail_fields: compact.rs lays out the inline fields
\* in the header and the tails behind it, each in the order they are declared.
LaidOutBefore(i, j) ==
    IF kinds[i].kind = kinds[j].kind THEN i < j ELSE kinds[i].kind = "inline"

\* The layout the derive generates is the one the struct declares: the fields
\* in their order, although inline fields are gathered in the header and tails
\* behind it, each with the capacities and prefix widths rustc reads from its
\* type.  For a tail type_map.rs decodes them from the syntax; for a container
\* anywhere inside an inline type, an element or a fixed schema it re-encodes
\* the type (type_map.rs:148-155: without the descent a nested declaration
\* would get a one-byte prefix).
StoredAsDeclared ==
    outcome = "accepted" =>
        /\ compact => \A i, j \in DOMAIN kinds : LaidOutBefore(i, j) <=> i < j
        /\ \A i \in DOMAIN kinds :
            LET stored == Projection[declared[i]]
                tail == IF kinds[i].tagged THEN stored.of ELSE stored
            IN  IF ~compact \/ kinds[i].kind = "inline"
                THEN MapToPod[declared[i]] = stored
                ELSE /\ tail.max = kinds[i].max
                     /\ tail.pfx = kinds[i].pfx
                     /\ kinds[i].payload = "Vec" => MapToPod[kinds[i].elem] = tail.of
=============================================================================
