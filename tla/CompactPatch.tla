----------------------------- MODULE CompactPatch -----------------------------
(***************************************************************************)
(* The atomic updates of one compact schema (the generated Patch type) and *)
(* the life of the account they are applied to: initialize writes a value  *)
(* into fresh storage, update preflights a patch and applies it through a  *)
(* private staged writer, updated_len plans an update so that the program  *)
(* can have the account grown before it and trimmed after it.              *)
(*                                                                         *)
(* The writer is CompactMut, step by step; a call is in progress while     *)
(* call.stage is not "none", and the account is borrowed all that time.    *)
(***************************************************************************)
EXTENDS CompactMut, CompactWire

CONSTANTS
    Patches,   \* the patches the program applies
    Planned    \* ... and those it plans with updated_len first

VARIABLES
    call,      \* the call in progress
    plan       \* the last result of updated_len the program holds

patchVars == <<vars, call, plan>>

\* The patch that keeps every field.
NoPatch == [setsInline |-> FALSE, inline |-> [a \in 0 .. (Inline.size - 1) |-> 0],
            tails |-> NoEdits]

\* stage: where the call is.  expected: expected_len of the preflight.
\* before: history, the account when the call began.
NoCall == [stage |-> "none", op |-> "none", patch |-> NoPatch, expected |-> 0,
           outcome |-> Err("none"), before |-> << >>]

\* fresh: history, whether the account's value is still the planned one.
NoPlan == [held |-> FALSE, patch |-> NoPatch, len |-> 0, fresh |-> FALSE]

\* A patch: inline bytes or keep, and per tail an edit or keep.
ASSUME PatchAssumption ==
    /\ Planned \subseteq Patches
    /\ \A p \in Patches :
         /\ p.setsInline \in BOOLEAN
         /\ p.inline \in [0 .. (Inline.size - 1) -> Byte]
         /\ p.tails \in [TailId -> Edit]
         /\ \A i \in TailId : p.tails[i] \in Offers[i] \cup {Keep}

Idle == call.stage = "none"

-----------------------------------------------------------------------------
(* Preflight.                                                              *)

\* Mutant: the elements of a replacement are taken as they are.
TailInputOfAnyElements(i, e) ==
    IF ~e.staged \/ ~e.present THEN Ok(0)
    ELSE IF e.count > Tails[i].max THEN Err("Overflow")
    ELSE CheckPrefix(e.count, Tails[i].pfx)

\* What validate_inputs says of one tail's new value.
TailInput(i, e) ==
    LET t == Tails[i]
    IN  IF ~e.staged \/ ~e.present THEN Ok(0)
        ELSE IF e.count > t.max THEN Err("Overflow")
        ELSE IF ~CheckPrefix(e.count, t.pfx).ok THEN CheckPrefix(e.count, t.pfx)
        ELSE IF \E k \in DOMAIN e.bytes : e.bytes[k] \notin t.ok THEN Err(t.error)
        ELSE Ok(0)

\* InputsTo(p)[i]: what there is to say of the inline inputs, which come first,
\* and of the first i tails'.
InputsTo(p) ==
    LET upTo[i \in 0 .. TailCount] ==
            IF i = 0
            THEN IF p.setsInline /\ ~InlineValid(p.inline) THEN Err(Inline.error) ELSE Ok(0)
            ELSE AndThen(upTo[i - 1], LAMBDA v : TailInput(i, p.tails[i]))
    IN  upTo

ValidateInputs(p) == InputsTo(p)[TailCount]

\* Mutant: a present option is counted without its prefix.
InputLenWithoutPrefix(i, e) == IF ~e.present THEN 0 ELSE e.count * Tails[i].size

\* Bytes a new value of tail i takes.  The inputs are within capacity by now
\* and MaxSize fits usize, so the checked product and sum of the code are exact.
InputLen(i, e) ==
    IF ~e.present THEN 0
    ELSE e.count * Tails[i].size + (IF Tails[i].opt THEN Tails[i].pfx ELSE 0)

\* Mutant: the new length is summed from the new values alone.
ResizedWithoutOld(sum, old, new) == CheckedAdd(sum, new)

\* One step of the preflight sum: the old size leaves before the new enters.
Resized(sum, old, new) ==
    IF sum < old THEN Err("Overflow") ELSE CheckedAdd(sum - old, new)

\* The preflight walk: the encoded size of each stored tail.
StoredLen(i) == EncodedSize(data, i, TailOffset(data)[i])

\* UpdatedTo(p)[i]: the length once the first i tails of p are stored.
UpdatedTo(p) ==
    LET after[i \in 0 .. TailCount] ==
            IF i = 0 THEN Ok(EncodedLen(data))
            ELSE IF ~p.tails[i].staged THEN after[i - 1]
            ELSE AndThen(after[i - 1],
                     LAMBDA sum : Resized(sum, StoredLen(i), InputLen(i, p.tails[i])))
    IN  after

\* updated_len: the inputs, the stored value at full depth, and one walk.
UpdatedLen(p) ==
    IF ~ValidateInputs(p).ok THEN ValidateInputs(p)
    ELSE IF ~Validate(data, size).ok THEN Validate(data, size)
    ELSE UpdatedTo(p)[TailCount]

\* InitializedTo(p)[i]: the length of a value whose first i tails are p's.
InitializedTo(p) ==
    LET upTo[i \in 0 .. TailCount] ==
            IF i = 0 THEN Ok(HeaderSize)
            ELSE AndThen(upTo[i - 1],
                     LAMBDA sum : CheckedAdd(sum,
                         IF p.tails[i].staged THEN InputLen(i, p.tails[i]) ELSE 0))
    IN  upTo

\* initialized_len.
InitializedLen(p) ==
    IF ~ValidateInputs(p).ok THEN ValidateInputs(p) ELSE InitializedTo(p)[TailCount]

-----------------------------------------------------------------------------

Filled(d) == [a \in DOMAIN d |-> 0]

\* The program starts from an account, or from storage that is zero.
PatchInit ==
    /\ \E bytes \in Accounts : size = Len(bytes) /\ data = Slice(bytes)
    /\ Validate(data, size).ok \/ data = Filled(data)
    /\ totalLen = 0
    /\ edits = NoEdits
    /\ pc = "idle" /\ cur = 1
    /\ oldOff = Zeros /\ oldLen = Zeros /\ newOff = Zeros /\ newLen = Zeros
    /\ result = Err("none")
    /\ entry = data
    /\ call = NoCall
    /\ plan = NoPlan

\* The call returns, and its writer is gone.
Done(outcome, bytes) ==
    /\ call' = [call EXCEPT !.stage = "done", !.outcome = outcome]
    /\ data' = bytes
    /\ entry' = bytes
    /\ edits' = NoEdits /\ totalLen' = 0 /\ result' = Err("none")
    /\ UNCHANGED <<size, pc, cur, locals>>

\* Mutant: the zeroing of initialize is left to its caller.
DoneAsIs(outcome) == Done(outcome, data)

\* initialize zeroes again what a failure leaves; update leaves what is there.
DoneWith(outcome) ==
    Done(outcome, IF call.op = "initialize" /\ ~outcome.ok THEN Filled(data) ELSE data)

StoredInline(d, p) ==
    [a \in DOMAIN d |-> IF p.setsInline /\ a < Inline.size THEN p.inline[a] ELSE d[a]]

\* Mutant: initialize trusts its storage to be zero.
BeginOverOldBytes(op) ==
    /\ Idle
    /\ \E p \in Patches :
         call' = [stage |-> "preflight", op |-> op, patch |-> p, expected |-> 0,
                  outcome |-> Err("none"), before |-> data]
    /\ UNCHANGED <<vars, plan>>

\* A call begins, and borrows the account to its end; initialize zeroes it.
Begin(op) ==
    /\ Idle
    /\ \E p \in Patches :
         call' = [stage |-> "preflight", op |-> op, patch |-> p, expected |-> 0,
                  outcome |-> Err("none"), before |-> data]
    /\ data' = IF op = "initialize" THEN Filled(data) ELSE data
    /\ entry' = data'
    /\ UNCHANGED <<size, totalLen, edits, pc, cur, locals, result, plan>>

Update == Begin("update")
Initialize == Begin("initialize")

\* A preflight of update, and what it stages.  new_unchecked replays the
\* offsets of the bytes updated_len has just validated.
PreflightUpdate ==
    LET expected == UpdatedLen(call.patch)
    IN  /\ call.stage = "preflight" /\ call.op = "update"
        /\ IF ~expected.ok THEN DoneWith(expected)
           ELSE IF expected.value > size THEN DoneWith(Err("BufferTooSmall"))
           ELSE /\ call' = [call EXCEPT !.stage = "commit", !.expected = expected.value]
                /\ edits' = call.patch.tails
                /\ totalLen' = EncodedLen(data)
                /\ UNCHANGED <<data, size, pc, cur, locals, result, entry>>
        /\ UNCHANGED plan

\* The preflight of initialize needs no stored value: the bytes are zero.  Its
\* inline fields are written before the commit, whose entry check reads them.
PreflightInitialize ==
    LET expected == InitializedLen(call.patch)
    IN  /\ call.stage = "preflight" /\ call.op = "initialize"
        /\ IF ~ValidateStorageLen(size).ok THEN DoneWith(ValidateStorageLen(size))
           ELSE IF ~expected.ok THEN DoneWith(expected)
           ELSE IF expected.value > size THEN DoneWith(Err("BufferTooSmall"))
           ELSE /\ call' = [call EXCEPT !.stage = "commit", !.expected = expected.value]
                /\ edits' = call.patch.tails
                /\ totalLen' = EncodedLen(data)
                /\ data' = StoredInline(data, call.patch)
                /\ entry' = data'
                /\ UNCHANGED <<size, pc, cur, locals, result>>
        /\ UNCHANGED plan

\* The writer's commit runs.
StartCommit ==
    /\ call.stage = "commit"
    /\ Commit
    /\ call' = [call EXCEPT !.stage = IF pc' = "idle" THEN "after" ELSE "committing"]
    /\ UNCHANGED plan

StepCommit ==
    /\ call.stage = "committing"
    /\ Setup \/ Check \/ MoveBack \/ MoveForth \/ Write \/ WriteSlot \/ Finish
    /\ call' = [call EXCEPT !.stage = IF pc' = "idle" THEN "after" ELSE @]
    /\ UNCHANGED plan

\* The lengths of the preflight and of the commit must agree.
Agreed(len) == IF len # call.expected THEN Err("InvalidLength") ELSE Ok(len)

\* Mutant: update commits the tails and forgets the inline fields.
FinishUpdateOfTails ==
    /\ call.stage = "after" /\ call.op = "update"
    /\ IF ~result.ok THEN DoneWith(result) ELSE Done(Agreed(result.value), data)
    /\ UNCHANGED plan

\* After the commit, update writes the inline fields.
FinishUpdate ==
    /\ call.stage = "after" /\ call.op = "update"
    /\ IF ~result.ok THEN DoneWith(result)
       ELSE Done(Agreed(result.value), StoredInline(data, call.patch))
    /\ UNCHANGED plan

\* initialize validates the bytes in use instead.
FinishInitialize ==
    /\ call.stage = "after" /\ call.op = "initialize"
    /\ IF ~result.ok THEN DoneWith(result)
       ELSE LET used == [a \in 0 .. (result.value - 1) |-> data[a]]
                checked == Validate(used, result.value)
            IN  DoneWith(IF checked.ok THEN Agreed(result.value) ELSE checked)
    /\ UNCHANGED plan

-----------------------------------------------------------------------------
(* Between calls.                                                          *)

\* The borrow of a call ends.  A plan is spent by the update it was made for,
\* and stale once another call has changed the account.
Release ==
    /\ call.stage = "done"
    /\ call' = NoCall
    /\ plan' = IF plan.held /\ call.op = "update" /\ call.patch = plan.patch
               THEN NoPlan
               ELSE [plan EXCEPT !.fresh = @ /\ data = call.before]

Keeps == Release /\ UNCHANGED vars

\* The account framework shrinks the allocation to the length the call returned.
Trim ==
    /\ Release
    /\ call.outcome.ok
    /\ call.outcome.value < size
    /\ size' = call.outcome.value
    /\ data' = [a \in 0 .. (size' - 1) |-> data[a]]
    /\ entry' = data'
    /\ UNCHANGED <<totalLen, edits, pc, cur, locals, result>>

\* updated_len, ahead of the update and without a borrow kept.
Plan ==
    /\ Idle /\ ~plan.held
    /\ \E p \in Planned :
         /\ UpdatedLen(p).ok
         /\ plan' = [held |-> TRUE, patch |-> p, len |-> UpdatedLen(p).value, fresh |-> TRUE]
    /\ UNCHANGED <<vars, call>>

\* The account framework grows the allocation to the planned length; the new
\* bytes are zero.
Grow ==
    /\ Idle /\ plan.held
    /\ plan.len > size
    /\ size' = plan.len
    /\ data' = [a \in 0 .. (size' - 1) |-> IF a < size THEN data[a] ELSE 0]
    /\ entry' = data'
    /\ UNCHANGED <<totalLen, edits, pc, cur, locals, result, call, plan>>

PatchNext ==
    \/ Update
    \/ Initialize
    \/ PreflightUpdate
    \/ PreflightInitialize
    \/ StartCommit
    \/ StepCommit
    \/ FinishUpdate
    \/ FinishInitialize
    \/ Keeps
    \/ Trim
    \/ Plan
    \/ Grow

PatchSpec == PatchInit /\ [][PatchNext]_patchVars

-----------------------------------------------------------------------------
(* Properties.                                                             *)

Returned(op) == call.stage = "done" /\ call.op = op

\* A value with the patch's fields replaced.
Patched(content, p) ==
    [inline |-> IF p.setsInline THEN p.inline ELSE content.inline,
     tails |-> [i \in TailId |->
                   IF p.tails[i].staged
                   THEN [present |-> p.tails[i].present, bytes |-> p.tails[i].bytes]
                   ELSE content.tails[i]]]

\* What initialize starts from: zero inline bytes and empty tails.
Blank ==
    [inline |-> NoPatch.inline,
     tails |-> [i \in TailId |-> IF Tails[i].opt THEN Absent ELSE Present(<< >>)]]

\* A call that returns an error, wherever it failed, has changed no byte if it
\* is an update, although its edits are applied in several steps that can each
\* fail (traits.rs:643-644, "a rejected patch leaves data untouched"), and
\* leaves zeros if it is an initialize (traits.rs:662-664).
FailedCallLeavesNoTrace ==
    /\ Returned("update") /\ ~call.outcome.ok => data = call.before
    /\ Returned("initialize") /\ ~call.outcome.ok => data = Filled(data)

\* The preflight is exact: no commit it let through fails for want of space,
\* and the length it returns is the one announced.  Two independent sums, one
\* per edit and one per tail, have to agree (compact.rs:2056-2063).
PreflightIsExact ==
    call.stage = "after" =>
        /\ ~result.ok => call.op = "initialize" /\ result.error = Inline.error
        /\ result.ok => result.value = call.expected

\* A successful call leaves exactly the encoding of the patched value, over the
\* old value for an update, whose unnamed fields are kept and of which nothing
\* else remains, and over a blank one for an initialize, whatever the storage
\* held.  Spare bytes beyond both values are zero then, or as the update found
\* them (compact.rs:2040-2121).
SuccessfulCallStoresValue ==
    (Returned("update") \/ Returned("initialize")) /\ call.outcome.ok =>
        LET found == IF Returned("update") THEN call.before ELSE Filled(call.before)
            base == IF Returned("update") THEN ContentOf(found) ELSE Blank
            after == Patched(base, call.patch)
        IN  /\ AdmissibleContent(after)
            /\ data = StoredOver(after, found)
            /\ call.outcome.value = ContentLen(after)

\* An update whose plan is fresh succeeds once the allocation has the planned
\* length, grown or not, and needs exactly that length (compact-accounts.md
\* 100-117).
PlannedUpdateSucceeds ==
    /\ Returned("update")
    /\ plan.held /\ plan.fresh /\ plan.patch = call.patch
    /\ plan.len <= size
    => call.outcome = Ok(plan.len)

\* Between calls the account is an account or zero: no order of calls, errors,
\* growths and trims leaves bytes that no reader accepts.
AccountStaysReadable ==
    Idle => Validate(data, size).ok \/ data = Filled(data)
=============================================================================
