--------------------------------- MODULE PodVec --------------------------------
(***************************************************************************)
(* The methods of PodVecRepr<T, N, PFX> (pinapod/src/pod/vec.rs), called   *)
(* in any order on account bytes of any content.  One action per method,   *)
(* except `retain`, which hands control to the program's closure before    *)
(* every element and takes a step for each.                                *)
(***************************************************************************)
EXTENDS PodSlots, FiniteSets

CONSTANTS
    Given,     \* values the program passes in: valid ones
    MaxInput   \* bound: elements of an input slice

VARIABLES
    len,      \* the stored prefix
    slots,    \* the stored elements
    reply,    \* the last call, and what it returned
    retain,   \* locals of `retain`, while it runs
    before,   \* history: the active elements when `retain` was entered
    kept,     \* history: positions of `before` the closure kept
    touched   \* history: slots that were active at any time

vars == <<len, slots, reply, retain, before, kept, touched>>

ASSUME GivenAssumption == Given \subseteq Legal /\ MaxInput \in Nat

None == <<"none">>
Done == <<"ok">>
Some(v) == <<"some", v>>
Overflow == <<"Overflow">>
Panicked == <<"panicked">>

\* A call of `method` with the arguments `given` returned `result`.
Reply(method, given, result) == <<method, given, result>>

NoReply == <<"no call">>
Pending == <<"retain runs">>

Idle == [running |-> FALSE, read |-> 0, write |-> 0, cur |-> 0]
Running == retain.running

Inputs == UNION {[1 .. n -> Given] : n \in 0 .. MaxInput}

ActiveLen == Clamp(len)

-----------------------------------------------------------------------------
(* The bytes of an account; Default, all zero, is one of them.             *)

Init ==
    /\ len \in 0 .. PrefixMax
    /\ slots \in [Slot -> Elem]
    /\ reply = NoReply
    /\ retain = Idle
    /\ before = << >>
    /\ kept = {}
    /\ touched = 0 .. Clamp(len) - 1

\* What every call that stores `data` and the length n leaves.
Store(n, data, answer) ==
    /\ slots' = data
    /\ len' = EncodeLen(n)
    /\ reply' = answer
    /\ touched' = touched \cup 0 .. Clamp(EncodeLen(n)) - 1

Refused(answer) ==
    /\ reply' = answer
    /\ UNCHANGED <<len, slots, touched>>

\* The program holds the only reference while a closure runs.
Call == ~Running /\ UNCHANGED <<retain, before, kept>>

-----------------------------------------------------------------------------
(* Growing and replacing.                                                  *)

\* Mutant: a full container takes one more.
TryPushPastCapacity(v) ==
    /\ Call
    /\ IF ActiveLen > N
       THEN Refused(Reply("try_push", <<v>>, Overflow))
       ELSE Store(ActiveLen + 1, CopyTo(slots, ActiveLen, <<v>>),
                  Reply("try_push", <<v>>, Done))

TryPush(v) ==
    /\ Call
    /\ IF ActiveLen >= N
       THEN Refused(Reply("try_push", <<v>>, Overflow))
       ELSE Store(ActiveLen + 1, CopyTo(slots, ActiveLen, <<v>>),
                  Reply("try_push", <<v>>, Done))

\* Mutant: a shorter value leaves the rest of the old one behind.
TrySetWithoutZeroing(values) ==
    /\ Call
    /\ IF Len(values) > N
       THEN Refused(Reply("try_set", values, Overflow))
       ELSE Store(Len(values), CopyTo(slots, 0, values), Reply("try_set", values, Done))

\* try_set_from_slice, and try_set with its conversion to T.
TrySet(values) ==
    LET copied == CopyTo(slots, 0, values)
    IN  /\ Call
        /\ IF Len(values) > N
           THEN Refused(Reply("try_set", values, Overflow))
           ELSE Store(Len(values),
                      IF Len(values) < ActiveLen
                      THEN ZeroRange(copied, Len(values), ActiveLen)
                      ELSE copied,
                      Reply("try_set", values, Done))

\* try_extend_from_slice, and try_extend with its conversion to T.
TryExtend(values) ==
    LET n == ActiveLen + Len(values)
    IN  /\ Call
        /\ IF n > N
           THEN Refused(Reply("try_extend", values, Overflow))
           ELSE Store(n, CopyTo(slots, ActiveLen, values),
                      Reply("try_extend", values, Done))

\* as_slice_mut, get_mut, iter_mut: one store through the borrow.
Assign(index, v) ==
    /\ Call
    /\ index < ActiveLen
    /\ slots' = CopyTo(slots, index, <<v>>)
    /\ reply' = Reply("assign", <<index, v>>, Done)
    /\ UNCHANGED <<len, touched>>

-----------------------------------------------------------------------------
(* Shortening.                                                             *)

Pop ==
    /\ Call
    /\ IF ActiveLen = 0
       THEN Refused(Reply("pop", << >>, None))
       ELSE Store(ActiveLen - 1,
                  CopyTo(slots, ActiveLen - 1, <<Zero>>),
                  Reply("pop", << >>, Some(slots[ActiveLen - 1])))

\* Mutant of SwapRemove: the answer is read after the last element has moved.
SwapRemoveAnswersLast(index) ==
    LET last == ActiveLen - 1
        filled == CopyTo(slots, index, <<slots[last]>>)
    IN  /\ Call
        /\ IF index >= ActiveLen
           THEN Refused(Reply("swap_remove", <<index>>, None))
           ELSE Store(last, CopyTo(filled, last, <<Zero>>),
                      Reply("swap_remove", <<index>>, Some(filled[index])))

SwapRemove(index) ==
    LET last == ActiveLen - 1
        filled == CopyTo(slots, index, <<slots[last]>>)
    IN  /\ Call
        /\ IF index >= ActiveLen
           THEN Refused(Reply("swap_remove", <<index>>, None))
           ELSE Store(last, CopyTo(filled, last, <<Zero>>),
                      Reply("swap_remove", <<index>>, Some(slots[index])))

\* The elements after `index` move down by one.
Remove(index) ==
    LET tail == ActiveLen - index - 1
        moved == CopyTo(slots, index, [k \in 1 .. tail |-> slots[index + k]])
    IN  /\ Call
        /\ IF index >= ActiveLen
           THEN Refused(Reply("remove", <<index>>, None))
           ELSE Store(ActiveLen - 1,
                      CopyTo(moved, ActiveLen - 1, <<Zero>>),
                      Reply("remove", <<index>>, Some(slots[index])))

Truncate(n) ==
    /\ Call
    /\ IF n < ActiveLen
       THEN Store(n, ZeroRange(slots, n, ActiveLen), Reply("truncate", <<n>>, Done))
       ELSE Refused(Reply("truncate", <<n>>, Done))

Clear ==
    /\ Call
    /\ Store(0, ZeroRange(slots, 0, ActiveLen), Reply("clear", << >>, Done))

-----------------------------------------------------------------------------
(* retain: compaction in place around the program's closure.               *)

\* No answer yet.
Retain ==
    /\ ~Running
    /\ retain' = [running |-> TRUE, read |-> 0, write |-> 0, cur |-> ActiveLen]
    /\ before' = Active(len, slots)
    /\ reply' = Pending
    /\ UNCHANGED <<len, slots, kept, touched>>

\* Mutant: the element is moved to the slot after its place.
KeepShifted ==
    /\ Running /\ retain.read < retain.cur
    /\ slots' = CopyTo(slots, retain.write + 1, <<slots[retain.read]>>)
    /\ retain' = [retain EXCEPT !.read = @ + 1, !.write = @ + 1]
    /\ kept' = kept \cup {retain.read + 1}
    /\ UNCHANGED <<len, reply, before, touched>>

\* f(&val) is true.
Keep ==
    /\ Running /\ retain.read < retain.cur
    /\ slots' = CopyTo(slots, retain.write, <<slots[retain.read]>>)
    /\ retain' = [retain EXCEPT !.read = @ + 1, !.write = @ + 1]
    /\ kept' = kept \cup {retain.read + 1}
    /\ UNCHANGED <<len, reply, before, touched>>

\* Mutant: a dropped element is scrubbed at once.
DropAndScrub ==
    /\ Running /\ retain.read < retain.cur
    /\ slots' = CopyTo(slots, retain.read, <<Zero>>)
    /\ retain' = [retain EXCEPT !.read = @ + 1]
    /\ UNCHANGED <<len, reply, before, kept, touched>>

\* f(&val) is false.
Drop ==
    /\ Running /\ retain.read < retain.cur
    /\ retain' = [retain EXCEPT !.read = @ + 1]
    /\ UNCHANGED <<len, slots, reply, before, kept, touched>>

EndRetain ==
    /\ retain' = Idle
    /\ before' = << >>
    /\ kept' = {}

\* f panics: the unwinding leaves the slots as they are.
Panic ==
    /\ Running /\ retain.read < retain.cur
    /\ EndRetain
    /\ reply' = Reply("retain", <<retain.read, kept>>, Panicked)
    /\ UNCHANGED <<len, slots, touched>>

FinishRetain ==
    /\ Running /\ retain.read = retain.cur
    /\ Store(retain.write, ZeroRange(slots, retain.write, retain.cur),
             Reply("retain", <<retain.read, kept>>, Done))
    /\ EndRetain

-----------------------------------------------------------------------------

Next ==
    \/ \E v \in Given : TryPush(v)
    \/ \E values \in Inputs : TrySet(values)
    \/ \E values \in Inputs : TryExtend(values)
    \/ \E index \in Slot, v \in Given : Assign(index, v)
    \/ Pop
    \/ \E index \in 0 .. N : SwapRemove(index)
    \/ \E index \in 0 .. N : Remove(index)
    \/ \E n \in 0 .. N : Truncate(n)
    \/ Clear
    \/ Retain
    \/ Keep
    \/ Drop
    \/ Panic
    \/ FinishRetain

Spec == Init /\ [][Next]_vars

-----------------------------------------------------------------------------

TypeOK ==
    /\ len \in 0 .. PrefixMax
    /\ slots \in [Slot -> Elem]
    /\ retain \in [running : BOOLEAN, read : 0 .. N, write : 0 .. N, cur : 0 .. N]
    /\ before \in Seq(Elem)
    /\ kept \subseteq 1 .. N
    /\ touched \subseteq Slot

\* A slot that was ever active and is not any more holds zero bytes, however
\* the container was shortened, with a corrupt prefix and after a closure that
\* panicked too (vec.rs:381-385): a raw read shows no element that was removed.
VacatedSlotsAreZero ==
    \A k \in touched : k >= ActiveLen => slots[k] = Zero

\* While retain runs, and so also when its closure panics, every element that
\* was kept or not yet examined is still among the active slots, the kept ones
\* in front (vec.rs:496-511): unwinding can repeat elements, not lose them.
RetainLosesNothing ==
    Running =>
        /\ retain.cur = ActiveLen
        /\ \A i \in kept :
               slots[Cardinality({j \in kept : j < i})] = before[i]
        /\ \A k \in retain.read .. retain.cur - 1 : slots[k] = before[k + 1]

\* A container the readers accept is never turned into one they refuse by any
\* sequence of calls with valid values (traits.rs:184-195), and also at every
\* point where a closure may unwind.
ValidStaysValid ==
    [][Valid(len, slots) => Valid(len', slots')]_vars

-----------------------------------------------------------------------------
(* The sequence a container holds.                                         *)

Vec == INSTANCE BoundedVec WITH
    seq <- IF Running THEN before ELSE Active(len, slots)

\* Every call does to the sequence the container shows what the bounded sequence
\* does on the same call with the same arguments, and returns the same: a write
\* is refused only when it does not fit, a removal answers None only where there
\* is no element, the clamped length of a corrupt prefix counting as the length.
ImplementsBoundedVec == Vec!Spec
=============================================================================
