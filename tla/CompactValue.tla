----------------------------- MODULE CompactValue -----------------------------
(***************************************************************************)
(* What a staged writer promises, without bytes: the account stores one    *)
(* value of its schema, replacements are staged aside, and a commit either *)
(* applies all of them at once or, when the result does not fit the        *)
(* allocation, none.                                                       *)
(***************************************************************************)
EXTENDS CompactWire

VARIABLES
    content,    \* the stored value
    staged,     \* staged[i]: whether tail i has a replacement, and which
    capacity,   \* bytes of the allocation
    outcome     \* Result of the last commit

vars == <<content, staged, capacity, outcome>>

Unstaged == [staged |-> FALSE, tail |-> Absent]

Nothing == [i \in TailId |-> Unstaged]

\* The value with every replacement made.
Applied ==
    [content EXCEPT !.tails =
        [i \in TailId |-> IF staged[i].staged THEN staged[i].tail ELSE @[i]]]

Init ==
    /\ capacity \in Nat
    /\ AdmissibleContent(content)
    /\ ContentLen(content) <= capacity
    /\ staged = Nothing
    /\ outcome = Err("none")

\* Inline fields change at once and cost no space.
StoreInline ==
    /\ content' = [content EXCEPT !.inline = content'.inline]
    /\ AdmissibleContent(content')
    /\ UNCHANGED <<staged, capacity, outcome>>

\* Only a value the tail can hold is staged.
Stage(i) ==
    /\ \A j \in TailId \ {i} : staged'[j] = staged[j]
    /\ staged'[i].staged
    /\ Admissible(i, staged'[i].tail)
    /\ UNCHANGED <<content, capacity, outcome>>

Commit ==
    /\ ContentLen(Applied) <= capacity
    /\ content' = Applied
    /\ staged' = Nothing
    /\ outcome' = Ok(ContentLen(Applied))
    /\ UNCHANGED capacity

\* The caller may grow the allocation and stage again, or drop the writer.
Refuse ==
    /\ ContentLen(Applied) > capacity
    /\ outcome' = Err("BufferTooSmall")
    /\ UNCHANGED <<content, staged, capacity>>

Next ==
    \/ StoreInline
    \/ \E i \in TailId : Stage(i)
    \/ Commit
    \/ Refuse

Spec == Init /\ [][Next]_vars
=============================================================================
