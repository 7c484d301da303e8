------------------------------ MODULE CompactMut ------------------------------
(***************************************************************************)
(* The staged writer of one compact schema (the generated Mut type): a     *)
(* view over an account that was validated once, inline fields written in  *)
(* place, tail replacements staged by the setters, and commit, which moves *)
(* every tail to its new offset inside the same buffer.                    *)
(*                                                                         *)
(* commit is modelled one raw copy or one slice write at a time, because   *)
(* its correctness is the order of the overlapping copies: first the       *)
(* unedited tails that move down, in field order, then those that move up, *)
(* in reverse, then the edited payloads, then the header, then the zeroing *)
(* of what the account no longer uses.                                     *)
(***************************************************************************)
EXTENDS CompactLayout

CONSTANTS
    Accounts,        \* the byte strings a writer is built over
    InlineValues,    \* the inline bytes a program stores through a mut accessor
    Offers,          \* Offers[i]: the values offered to the setter of tail i
    FullValidation   \* the feature compact-commit-full-validation

\* A staged replacement: the pointer (null for an option's None), the element
\* count, and the bytes behind the pointer.
Edit == [staged: BOOLEAN, present: BOOLEAN, count: Nat, bytes: Seq(Byte)]

Keep == [staged |-> FALSE, present |-> FALSE, count |-> 0, bytes |-> << >>]

\* The program's inputs are byte strings and slices of whole elements, and the
\* derive expands this commit only for a schema with a tail.
ASSUME WriterAssumption ==
    /\ TailCount > 0
    /\ Accounts \subseteq Seq(Byte)
    /\ \A value \in InlineValues :
         /\ DOMAIN value = 0 .. (Inline.size - 1)
         /\ \A a \in DOMAIN value : value[a] \in Inline.ok[a]
    /\ Offers \in [TailId -> SUBSET Edit]
    /\ \A i \in TailId : \A e \in Offers[i] :
         /\ e.staged
         /\ e.present \/ Tails[i].opt
         /\ Len(e.bytes) = e.count * Tails[i].size
         /\ ~e.present => e.count = 0
    /\ FullValidation \in BOOLEAN

VARIABLES
    data,      \* self.data
    size,      \* self.data.len()
    totalLen,  \* self.total_len
    edits,     \* edits[i]: self.__<tail i>_edit
    pc,        \* where commit is; "idle" outside
    cur,       \* the tail the phase is at
    oldOff, oldLen, newOff, newLen,   \* commit's locals, per tail
    result,    \* what the last commit returned
    entry      \* history: the bytes when the commit began

locals == <<oldOff, oldLen, newOff, newLen>>
vars == <<data, size, totalLen, edits, pc, cur, locals, result, entry>>

Phase == {"idle", "setup", "check", "back", "forth", "write", "slots", "finish"}

TypeOK ==
    /\ size \in Nat
    /\ data \in [0 .. (size - 1) -> Byte]
    /\ entry \in [0 .. (size - 1) -> Byte]
    /\ totalLen \in Nat
    /\ edits \in [TailId -> Edit]
    /\ pc \in Phase
    /\ cur \in TailId
    /\ oldOff \in [TailId -> Nat] /\ oldLen \in [TailId -> Nat]
    /\ newOff \in [TailId -> Nat] /\ newLen \in [TailId -> Nat]
    /\ IsResult(result)

\* The bytes of a sequence, as a zero-based slice.
Slice(s) == [a \in 0 .. (Len(s) - 1) |-> s[a + 1]]

Zeros == [i \in TailId |-> 0]
NoEdits == [i \in TailId |-> Keep]

-----------------------------------------------------------------------------
(* The writer outside commit.                                              *)

\* Mut::new over an account it accepts.
Init ==
    /\ \E bytes \in Accounts :
         /\ size = Len(bytes)
         /\ data = Slice(bytes)
    /\ Validate(data, size).ok
    /\ totalLen = EncodedLen(data)
    /\ edits = NoEdits
    /\ pc = "idle" /\ cur = 1
    /\ oldOff = Zeros /\ oldLen = Zeros /\ newOff = Zeros /\ newLen = Zeros
    /\ result = Err("none")
    /\ entry = data

\* Inline fields are written through the header, at once.
SetInline ==
    /\ pc = "idle"
    /\ \E value \in InlineValues :
         data' = [a \in DOMAIN data |-> IF a < Inline.size THEN value[a] ELSE data[a]]
    /\ entry' = data'
    /\ UNCHANGED <<size, totalLen, edits, pc, cur, locals, result>>

\* Mutant: the setter leaves the capacity to commit.
AcceptedOfAnyLength(i, e) == \A k \in DOMAIN e.bytes : e.bytes[k] \in Tails[i].ok

\* What a setter accepts.
Accepted(i, e) ==
    /\ e.count <= Tails[i].max
    /\ CheckPrefix(e.count, Tails[i].pfx).ok
    /\ \A k \in DOMAIN e.bytes : e.bytes[k] \in Tails[i].ok

\* set_<tail i>: stage a replacement, over an earlier one too.  A rejected
\* value leaves what was staged.
Set(i) ==
    /\ pc = "idle"
    /\ \E e \in Offers[i] : Accepted(i, e) /\ edits' = [edits EXCEPT ![i] = e]
    /\ UNCHANGED <<data, size, totalLen, pc, cur, locals, result, entry>>

-----------------------------------------------------------------------------
(* commit.                                                                 *)

\* An early return: the locals are gone, the edits stay staged.
Fail(error) ==
    /\ result' = Err(error)
    /\ pc' = "idle" /\ cur' = 1
    /\ oldOff' = Zeros /\ oldLen' = Zeros /\ newOff' = Zeros /\ newLen' = Zeros

\* To the next tail in field order, or past the last one to the next phase.
Ascend(next) ==
    IF cur < TailCount THEN pc' = pc /\ cur' = cur + 1 ELSE pc' = next /\ cur' = 1

\* commit_entry_validate.
Commit ==
    LET check == IF FullValidation THEN Validate(data, size) ELSE ValidateLayout(data, size)
    IN  /\ pc = "idle"
        /\ entry' = data
        /\ IF check.ok
           THEN pc' = "setup" /\ cur' = 1 /\ UNCHANGED <<locals, result>>
           ELSE Fail(check.error)
        /\ UNCHANGED <<data, size, totalLen, edits>>

\* Encoded size of tail i in the bytes that are there.
OldLen(i, off) ==
    LET t == Tails[i]
        tag == data[Slot[i]]
        count == ReadPrefix(data, size, off, t.pfx)
        payload == CheckedMul(count.value, t.size)
        whole == CheckedAdd(t.pfx, payload.value)
        end == CheckedAdd(off, whole.value)
    IN  IF ~t.opt THEN CheckedMul(CastPrefix(data, Slot[i], t.pfx), t.size)
        ELSE IF tag = 0 THEN Ok(0)
        ELSE IF tag # 1 THEN Err("InvalidTag")
        ELSE IF ~count.ok THEN count
        ELSE IF ~payload.ok THEN payload
        ELSE IF ~whole.ok THEN whole
        ELSE IF ~end.ok THEN end
        ELSE IF end.value > totalLen THEN Err("BufferTooSmall")
        ELSE whole

\* Encoded size of tail i after the commit.
NewLen(i, old) ==
    LET t == Tails[i]
        payload == CheckedMul(edits[i].count, t.size)
    IN  IF ~edits[i].staged THEN Ok(old)
        ELSE IF ~t.opt THEN payload
        ELSE IF ~edits[i].present THEN Ok(0)
        ELSE IF ~payload.ok THEN payload
        ELSE CheckedAdd(t.pfx, payload.value)

\* Where tail i starts, given where the tail before it does.
Start(i, off, len) == IF i = 1 THEN Ok(HeaderSize) ELSE CheckedAdd(off[i - 1], len[i - 1])

\* Offsets and lengths of the next tail, before and after.
Setup ==
    LET i == cur
        oldStart == Start(i, oldOff, oldLen)
        newStart == Start(i, newOff, newLen)
        old == OldLen(i, oldStart.value)
        new == NewLen(i, old.value)
        outcome == IF ~oldStart.ok THEN oldStart
                   ELSE IF ~newStart.ok THEN newStart
                   ELSE IF ~old.ok THEN old
                   ELSE new
    IN  /\ pc = "setup"
        /\ IF outcome.ok
           THEN /\ oldOff' = [oldOff EXCEPT ![i] = oldStart.value]
                /\ newOff' = [newOff EXCEPT ![i] = newStart.value]
                /\ oldLen' = [oldLen EXCEPT ![i] = old.value]
                /\ newLen' = [newLen EXCEPT ![i] = new.value]
                /\ Ascend("check")
                /\ UNCHANGED result
           ELSE Fail(outcome.error)
        /\ UNCHANGED <<data, size, totalLen, edits, entry>>

\* Mutant: only the bytes that are there are checked, not those to come.
RangeCheckOfSources(i) ==
    AndThen(CheckedAdd(oldOff[i], oldLen[i]),
            LAMBDA end : IF end > totalLen THEN Err("BufferTooSmall") ELSE Ok(end))

\* Mutant of RangeCheck: the last byte of the account is not used.
RangeCheckExclusive(i) ==
    LET oldEnd == CheckedAdd(oldOff[i], oldLen[i])
        newEnd == CheckedAdd(newOff[i], newLen[i])
    IN  IF ~oldEnd.ok THEN oldEnd
        ELSE IF oldEnd.value > totalLen THEN Err("BufferTooSmall")
        ELSE IF ~newEnd.ok THEN newEnd
        ELSE IF newEnd.value >= size THEN Err("BufferTooSmall")
        ELSE newEnd

\* Both ranges of tail i, before any byte moves.  The range after the commit
\* of the last tail is also the final total, which the code checks once more.
RangeCheck(i) ==
    LET oldEnd == CheckedAdd(oldOff[i], oldLen[i])
        newEnd == CheckedAdd(newOff[i], newLen[i])
    IN  IF ~oldEnd.ok THEN oldEnd
        ELSE IF oldEnd.value > totalLen THEN Err("BufferTooSmall")
        ELSE IF ~newEnd.ok THEN newEnd
        ELSE IF newEnd.value > size THEN Err("BufferTooSmall")
        ELSE newEnd

Check ==
    /\ pc = "check"
    /\ IF RangeCheck(cur).ok
       THEN Ascend("back") /\ UNCHANGED <<locals, result>>
       ELSE Fail(RangeCheck(cur).error)
    /\ UNCHANGED <<data, size, totalLen, edits, entry>>

FinalTotal == newOff[TailCount] + newLen[TailCount]

\* ptr::copy of n bytes: the ranges may overlap.
Copied(d, from, to, n) ==
    [a \in DOMAIN d |-> IF to <= a /\ a < to + n THEN d[from + (a - to)] ELSE d[a]]

Moved(i) == Copied(data, oldOff[i], newOff[i], oldLen[i])

\* The unedited tails that move to a lower, and to a higher, offset.
MovesBack(i) == ~edits[i].staged /\ newOff[i] < oldOff[i] /\ oldLen[i] > 0
MovesForth(i) == ~edits[i].staged /\ newOff[i] > oldOff[i] /\ oldLen[i] > 0

\* Phase 1a, in field order.
MoveBack ==
    /\ pc = "back"
    /\ data' = IF MovesBack(cur) THEN Moved(cur) ELSE data
    /\ IF cur < TailCount THEN pc' = pc /\ cur' = cur + 1 ELSE pc' = "forth" /\ cur' = cur
    /\ UNCHANGED <<size, totalLen, edits, locals, result, entry>>

\* Mutant: phase 1b runs in field order as well.
MoveForthAscending ==
    /\ pc = "forth"
    /\ LET i == TailCount + 1 - cur
       IN  data' = IF MovesForth(i) THEN Moved(i) ELSE data
    /\ IF cur > 1 THEN pc' = pc /\ cur' = cur - 1 ELSE pc' = "write" /\ cur' = cur
    /\ UNCHANGED <<size, totalLen, edits, locals, result, entry>>

\* Phase 1b, in reverse.
MoveForth ==
    /\ pc = "forth"
    /\ data' = IF MovesForth(cur) THEN Moved(cur) ELSE data
    /\ IF cur > 1 THEN pc' = pc /\ cur' = cur - 1 ELSE pc' = "write" /\ cur' = cur
    /\ UNCHANGED <<size, totalLen, edits, locals, result, entry>>

\* __pinapod_write_prefix into data.
WritePrefix(off, pfx, value) ==
    LET end == CheckedAdd(off, pfx)
    IN  IF ~CheckPrefix(value, pfx).ok THEN CheckPrefix(value, pfx)
        ELSE IF ~end.ok THEN end
        ELSE IF end.value > size THEN Err("BufferTooSmall")
        ELSE Ok(end.value)

\* copy_from_slice of a payload that is not empty: a range beyond data panics.
WritePayload(off, bytes) ==
    LET end == CheckedAdd(off, Len(bytes))
    IN  IF bytes = << >> THEN Ok(off)
        ELSE IF ~end.ok THEN end
        ELSE IF end.value > size THEN Err("panic")
        ELSE end

Overwritten(d, off, bytes) ==
    [a \in DOMAIN d |-> IF off <= a /\ a < off + Len(bytes) THEN bytes[a - off + 1] ELSE d[a]]

\* Phase 2: the edited tails, in field order.  A present option carries its
\* prefix in the tail region.  An error here returns after bytes have moved.
Write ==
    LET i == cur
        t == Tails[i]
        e == edits[i]
        payloadOff == IF t.opt THEN newOff[i] + t.pfx ELSE newOff[i]
        prefix == IF t.opt THEN WritePrefix(newOff[i], t.pfx, e.count) ELSE Ok(newOff[i])
        payload == WritePayload(payloadOff, e.bytes)
        prefixed == IF t.opt THEN PutPrefix(data, newOff[i], t.pfx, e.count) ELSE data
    IN  /\ pc = "write"
        /\ IF ~e.staged \/ ~e.present
           THEN data' = data /\ Ascend("slots") /\ UNCHANGED <<locals, result>>
           ELSE IF ~prefix.ok
           THEN data' = data /\ Fail(prefix.error)
           ELSE IF ~payload.ok
           THEN data' = prefixed /\ Fail(payload.error)
           ELSE /\ data' = Overwritten(prefixed, payloadOff, e.bytes)
                /\ Ascend("slots")
                /\ UNCHANGED <<locals, result>>
        /\ UNCHANGED <<size, totalLen, edits, entry>>

\* The header prefix or tag of an edited tail.
WriteSlot ==
    LET i == cur
        t == Tails[i]
        e == edits[i]
        prefix == CheckPrefix(e.count, t.pfx)
    IN  /\ pc = "slots"
        /\ IF ~e.staged
           THEN data' = data /\ Ascend("finish") /\ UNCHANGED <<locals, result>>
           ELSE IF t.opt
           THEN /\ data' = [data EXCEPT ![Slot[i]] = IF e.present THEN 1 ELSE 0]
                /\ Ascend("finish")
                /\ UNCHANGED <<locals, result>>
           ELSE IF ~prefix.ok
           THEN data' = data /\ Fail(prefix.error)
           ELSE /\ data' = PutPrefix(data, Slot[i], t.pfx, e.count)
                /\ Ascend("finish")
                /\ UNCHANGED <<locals, result>>
        /\ UNCHANGED <<size, totalLen, edits, entry>>

\* A return with what the commit has done.
Return ==
    /\ result' = Ok(FinalTotal)
    /\ pc' = "idle" /\ cur' = 1
    /\ oldOff' = Zeros /\ oldLen' = Zeros /\ newOff' = Zeros /\ newLen' = Zeros
    /\ entry' = data'
    /\ UNCHANGED size

\* Mutants: the vacated bytes keep the old payload; total_len is not stored;
\* the edits stay staged.
FinishWithoutZeroing ==
    /\ pc = "finish"
    /\ data' = data
    /\ totalLen' = FinalTotal
    /\ edits' = NoEdits
    /\ Return

FinishForgetsTotal ==
    /\ pc = "finish"
    /\ data' = [a \in DOMAIN data |-> IF FinalTotal <= a /\ a < totalLen THEN 0 ELSE data[a]]
    /\ totalLen' = totalLen
    /\ edits' = NoEdits
    /\ Return

FinishKeepsEdits ==
    /\ pc = "finish"
    /\ data' = [a \in DOMAIN data |-> IF FinalTotal <= a /\ a < totalLen THEN 0 ELSE data[a]]
    /\ totalLen' = FinalTotal
    /\ edits' = edits
    /\ Return

\* Zero what the account no longer uses, remember the new length, drop the
\* edits.
Finish ==
    /\ pc = "finish"
    /\ data' = [a \in DOMAIN data |-> IF FinalTotal <= a /\ a < totalLen THEN 0 ELSE data[a]]
    /\ totalLen' = FinalTotal
    /\ edits' = NoEdits
    /\ Return

-----------------------------------------------------------------------------

Next ==
    \/ SetInline
    \/ \E i \in TailId : Set(i)
    \/ Commit
    \/ Setup
    \/ Check
    \/ MoveBack
    \/ MoveForth
    \/ Write
    \/ WriteSlot
    \/ Finish

Spec == Init /\ [][Next]_vars

\* commit is a synchronous call without a loop but those over the tails: once
\* begun, the thread that makes it runs it to its return.  Nothing obliges the
\* program to stage or to commit.
Commits == Setup \/ Check \/ MoveBack \/ MoveForth \/ Write \/ WriteSlot \/ Finish

FairSpec == Spec /\ WF_vars(Commits)

-----------------------------------------------------------------------------
(* try_projected_size: what a commit of the staged edits will need, from   *)
(* the bytes d.  It adds and subtracts per edit instead of laying tails out.*)

\* Mutant: the prefix an option brings or takes away is not counted.
ProjectedWithoutPrefixes(d, total) ==
    LET after[i \in 0 .. TailCount] ==
            IF i = 0 THEN total
            ELSE IF ~edits[i].staged THEN after[i - 1]
            ELSE after[i - 1] - EncodedSize(d, i, TailOffset(d)[i])
                   + edits[i].count * Tails[i].size
    IN  after[TailCount]

\* ProjectedAfter(d, total)[i]: the size once the edits up to tail i are made.
ProjectedAfter(d, total) ==
    LET after[i \in 0 .. TailCount] ==
            IF i = 0 THEN total
            ELSE IF ~edits[i].staged THEN after[i - 1]
            ELSE after[i - 1] - EncodedSize(d, i, TailOffset(d)[i])
                   + edits[i].count * Tails[i].size
                   + (IF Tails[i].opt /\ edits[i].present THEN Tails[i].pfx ELSE 0)
    IN  after

Projected(d, total) == ProjectedAfter(d, total)[TailCount]

-----------------------------------------------------------------------------
(* Properties.                                                             *)

\* The phases after the range checks, in which bytes move.
Moving == pc \in {"back", "forth", "write", "slots", "finish"}

HasMovedBack(i) == MovesBack(i) /\ (pc = "back" => i < cur)
HasMovedForth(i) == MovesForth(i) /\ pc # "back" /\ (pc = "forth" => i > cur)

\* Where the bytes of an unedited tail are.
Place(i) == IF HasMovedBack(i) \/ HasMovedForth(i) THEN newOff[i] ELSE oldOff[i]

\* No copy clobbers bytes a later copy still has to read, whatever mix of
\* tails grows and shrinks, and no payload lands on an unedited tail: at every
\* step each unedited tail holds, at the place it is at, the bytes it had when
\* the commit began (compact.rs:2359-2409, "source bytes are never read after
\* being overwritten").
KeptTailsSurvive ==
    Moving => \A i \in TailId : ~edits[i].staged =>
        \A b \in 0 .. (oldLen[i] - 1) : data[Place(i) + b] = entry[oldOff[i] + b]

\* The raw copies read and write inside the account (compact.rs:2363-2409 run
\* pointer arithmetic no slice checks).
CopiesStayInBounds ==
    Moving => \A i \in TailId :
        /\ oldOff[i] + oldLen[i] <= size
        /\ newOff[i] + newLen[i] <= size
        /\ ~edits[i].staged => newLen[i] = oldLen[i]

\* A commit that returns an error has changed no byte, although the writes of
\* its later phases can fail too (compact.rs:2411-2524): after any return the
\* account holds what it held before a failed commit.
FailureLeavesBytes == pc = "idle" => data = entry

\* Between commits the writer's idea of the account is the account: total_len
\* is the encoded length, and the bytes validate at full depth, after any
\* sequence of commits, failures and inline writes (compact.rs:1551-1561,
\* 2637).
WriterStaysConsistent ==
    pc = "idle" => Validate(data, size).ok /\ totalLen = EncodedLen(data)

\* The bytes between the new and the old encoded length are zeroed and the
\* bytes beyond both are not touched (compact.rs:2633-2635, compact-accounts.md
\* 100-117).
VacatedBytesAreZeroed ==
    [][pc # "idle" /\ pc' = "idle" /\ result'.ok =>
        \A a \in DOMAIN data : a >= totalLen' =>
            data'[a] = IF a < totalLen THEN 0 ELSE entry[a]]_vars

\* The projected size is the size a commit will produce: a caller that grows
\* its account to it does not see BufferTooSmall (compact.rs:1596-1606).
ProjectionIsTheCommittedSize ==
    Moving => FinalTotal = Projected(entry, totalLen)

\* A commit that begins comes to an end, and one whose projected size the
\* account can hold ends in success: the space a caller has made is enough, to
\* the byte (compact.rs:1596-1606).
CommitCompletes ==
    /\ pc # "idle" ~> pc = "idle"
    /\ (pc # "idle" /\ Projected(entry, totalLen) <= size) ~> (pc = "idle" /\ result.ok)
=============================================================================
