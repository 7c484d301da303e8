---------------------------- MODULE CompactMutValue ----------------------------
(***************************************************************************)
(* The staged writer implements CompactValue.  Until a commit returns, the *)
(* value is the one the account had when it began.                         *)
(***************************************************************************)
EXTENDS CompactMut, CompactWire

\* The value the writer stands for, and the replacements staged in it.
HeldContent == IF pc = "idle" THEN ContentOf(data) ELSE ContentOf(entry)

Replacement(i) == [present |-> edits[i].present, bytes |-> edits[i].bytes]

Replacements == [i \in TailId |-> [staged |-> edits[i].staged, tail |-> Replacement(i)]]

Value == INSTANCE CompactValue WITH
    content <- HeldContent, staged <- Replacements, capacity <- size, outcome <- result

\* Every commit is all or nothing: it applies exactly the staged edits, keeps
\* every other tail and the inline fields, returns the length of the value it
\* stored, and otherwise changes neither the value nor the edits
\* (compact.rs:2588-2642).  A retry after a refused commit starts from the
\* same staged edits.
ImplementsValue == Value!Spec
=============================================================================
