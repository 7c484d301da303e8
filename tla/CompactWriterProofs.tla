------------------------- MODULE CompactWriterProofs -------------------------
(***************************************************************************)
(* Proofs about the write side of a compact schema, for every schema,      *)
(* account, edit and patch: first the staged writer, then the life of an   *)
(* account under initialize, update, growing and trimming.                 *)
(*                                                                         *)
(* The two preflight sums of a patch, updated_len per edit and             *)
(* initialized_len per tail, are both the length at which the tails that   *)
(* the call is going to store end when they are packed behind the header.  *)
(* So a commit the preflight let through finds the room it needs, fails    *)
(* nowhere, and ends at the announced length.                              *)
(***************************************************************************)
EXTENDS CompactPatch, CompactMutValue, CompactReaderProofs

\* The length commit reads for a stored tail is a usize, or an error.
LEMMA OldLenResult ==
    ASSUME TypeOK, HeaderSize <= size, NEW i \in TailId, NEW off \in Nat
    PROVE  IsResult(OldLen(i, off))
<1> DEFINE t == Tails[i]
           count == ReadPrefix(data, size, off, t.pfx)
           payload == CheckedMul(count.value, t.size)
           whole == CheckedAdd(t.pfx, payload.value)
           end == CheckedAdd(off, whole.value)
<1>1. CASE ~t.opt
  <2>1. Slot[i] + t.pfx <= size
    <3>1. Slot[i] \in Nat /\ t.pfx \in Nat /\ Slot[i] + t.pfx <= HeaderSize
      BY <1>1, SlotFacts, TailFacts
    <3>2. HeaderSize \in Nat /\ size \in Nat
      BY SchemaAssumption, PrefixesAssumption DEF TypeOK
    <3> QED
      BY <3>1, <3>2
  <2>2. CastPrefix(data, Slot[i], t.pfx) \in Nat
    BY <2>1, SlotFacts, TailFacts, CastPrefixNat DEF TypeOK
  <2>3. IsResult(CheckedMul(CastPrefix(data, Slot[i], t.pfx), t.size))
    BY <2>2, TailFacts, CheckedMulResult
  <2> QED
    BY <1>1, <2>3 DEF OldLen
<1>2. CASE t.opt
  <2>1. IsResult(count)
    BY TailFacts, ReadPrefixResult DEF TypeOK
  <2>2. IsResult(payload)
    BY <2>1, TailFacts, CheckedMulResult DEF IsResult
  <2>3. IsResult(whole)
    BY <2>2, TailFacts, CheckedAddResult DEF IsResult
  <2>4. IsResult(end)
    BY <2>3, CheckedAddResult DEF IsResult
  <2>5. IsResult(Ok(0)) /\ IsResult(Err("InvalidTag")) /\ IsResult(Err("BufferTooSmall"))
    BY OkResult, ErrResult
  <2> HIDE DEF count, payload, whole, end
  <2>6. OldLen(i, off) \in {Ok(0), Err("InvalidTag"), Err("BufferTooSmall"), count, payload, whole, end}
    BY <1>2 DEF OldLen, count, payload, whole, end
  <2> QED
    BY <2>1, <2>2, <2>3, <2>4, <2>5, <2>6
<1> QED
  BY <1>1, <1>2

\* What a tail takes once its edit is made.
EditLen(i) ==
    IF ~edits[i].present THEN 0
    ELSE (IF Tails[i].opt THEN Tails[i].pfx ELSE 0) + Len(edits[i].bytes)

\* The length commit plans for a tail: its edit's, or the one it has.
LEMMA NewLenResult ==
    ASSUME TypeOK, NEW i \in TailId, NEW old \in Nat,
           edits[i].staged => Len(edits[i].bytes) = edits[i].count * Tails[i].size,
           edits[i].staged => edits[i].present \/ Tails[i].opt
    PROVE  /\ IsResult(NewLen(i, old))
           /\ NewLen(i, old).ok =>
                NewLen(i, old).value = IF edits[i].staged THEN EditLen(i) ELSE old
<1> DEFINE payload == CheckedMul(edits[i].count, Tails[i].size)
<1>1. edits[i].count \in Nat /\ edits[i].staged \in BOOLEAN /\ edits[i].present \in BOOLEAN
  BY DEF TypeOK, Edit
<1>2. IsResult(payload) /\ (payload.ok => payload.value = edits[i].count * Tails[i].size)
  BY <1>1, TailFacts, CheckedMulResult
<1> HIDE DEF payload
<1>3. CASE ~edits[i].staged
  BY <1>3, OkResult DEF NewLen
<1>4. CASE edits[i].staged /\ ~Tails[i].opt
  <2>1. NewLen(i, old) = payload
    BY <1>4 DEF NewLen, payload
  <2> QED
    BY <1>4, <1>2, <2>1, TailFacts DEF EditLen, TypeOK, Edit
<1>5. CASE edits[i].staged /\ Tails[i].opt /\ ~edits[i].present
  BY <1>5, OkResult DEF NewLen, EditLen
<1>6. CASE edits[i].staged /\ Tails[i].opt /\ edits[i].present /\ ~payload.ok
  BY <1>6, <1>2 DEF NewLen, payload
<1>7. CASE edits[i].staged /\ Tails[i].opt /\ edits[i].present /\ payload.ok
  <2>1. NewLen(i, old) = CheckedAdd(Tails[i].pfx, payload.value)
    BY <1>7 DEF NewLen, payload
  <2>2. payload.value \in Nat /\ payload.value = Len(edits[i].bytes)
    BY <1>7, <1>2 DEF IsResult
  <2> QED
    BY <1>7, <2>1, <2>2, TailFacts, CheckedAddResult DEF EditLen
<1> QED
  BY <1>1, <1>2, <1>3, <1>4, <1>5, <1>6, <1>7, TailFacts DEF IsResult

-----------------------------------------------------------------------------
(* The inductive invariant.                                                *)

\* Tail i's offsets and lengths are computed; its ranges are checked.
Prepared(i) == pc # "idle" /\ (pc = "setup" => i < cur)
Checked(i) == Moving \/ (pc = "check" /\ i < cur)

\* The account is at least a header, and its used part lies inside it.
AccountFits == HeaderSize <= size /\ totalLen <= size

\* What is staged went through a setter.
EditsAccepted ==
    \A i \in TailId : edits[i].staged =>
        /\ edits[i].present \/ Tails[i].opt
        /\ Len(edits[i].bytes) = edits[i].count * Tails[i].size
        /\ CheckPrefix(edits[i].count, Tails[i].pfx).ok

\* Before and after the commit, the tails lie one after the other.
TailsAreOrdered ==
    \A i \in TailId : Prepared(i) =>
        /\ HeaderSize <= oldOff[i]
        /\ HeaderSize <= newOff[i]
        /\ \A j \in TailId : j < i =>
             /\ oldOff[j] + oldLen[j] <= oldOff[i]
             /\ newOff[j] + newLen[j] <= newOff[i]

LengthsArePlanned ==
    \A i \in TailId : Prepared(i) =>
        newLen[i] = IF edits[i].staged THEN EditLen(i) ELSE oldLen[i]

RangesFit ==
    \A i \in TailId : Checked(i) =>
        /\ oldOff[i] + oldLen[i] <= totalLen
        /\ newOff[i] + newLen[i] <= size
        /\ ~(newOff[i] + newLen[i] > UsizeMax)

\* Nothing is written before every check has passed.
BytesUntilMoving == pc \in {"idle", "setup", "check"} => data = entry

\* Nothing beyond both encoded lengths is written.
SpareUntouched ==
    Moving => \A a \in 0 .. (size - 1) :
        a >= totalLen /\ a >= FinalTotal => data[a] = entry[a]

IInv ==
    /\ TypeOK
    /\ AccountFits
    /\ EditsAccepted
    /\ TailsAreOrdered
    /\ LengthsArePlanned
    /\ RangesFit
    /\ BytesUntilMoving
    /\ KeptTailsSurvive
    /\ SpareUntouched

\* Facts about the constants the steps use.
LEMMA Constants ==
    /\ HeaderSize \in Nat /\ UsizeMax \in Nat /\ Radix \in Nat /\ Radix > 2
    /\ TailCount \in Nat /\ TailCount > 0
    /\ 1 \in TailId /\ TailCount \in TailId
    /\ \A i \in TailId : i \in Nat /\ 1 <= i /\ i <= TailCount
<1>1. TailCount \in Nat
  BY SchemaAssumption, PrefixesAssumption DEF TailCount
<1> QED
  BY <1>1, SchemaAssumption, PrefixesAssumption, WriterAssumption DEF TailId

\* The writer that new builds.
LEMMA InitEstablishes == Init => IInv
<1> SUFFICES ASSUME Init
             PROVE  IInv
  OBVIOUS
<1>1. PICK bytes \in Accounts : size = Len(bytes) /\ data = Slice(bytes)
  BY DEF Init
<1>2. bytes \in Seq(Byte)
  BY <1>1, WriterAssumption
<1>3. size \in Nat /\ data \in [0 .. (size - 1) -> Byte]
  BY <1>1, <1>2 DEF Slice
<1>4. HeaderSize <= size /\ totalLen \in Nat /\ totalLen <= size
  <2>1. Validate(data, size).ok /\ totalLen = TailOffset(data)[TailCount + 1]
    BY DEF Init, EncodedLen
  <2>2. TailCount + 1 \in 1 .. (TailCount + 1)
    BY Constants
  <2> QED
    BY <1>3, <2>1, <2>2, ValidAccount
<1>5. NoEdits \in [TailId -> Edit]
  <2>1. Keep \in Edit
    BY DEF Keep, Edit
  <2> QED
    BY <2>1 DEF NoEdits
<1>6. TypeOK
  BY <1>3, <1>4, <1>5, Constants, ErrResult DEF Init, TypeOK, Phase, Zeros
<1>7. \A i \in TailId : ~edits[i].staged
  BY DEF Init, NoEdits, Keep
<1> QED
  BY <1>3, <1>4, <1>6, <1>7
  DEF Init, IInv, AccountFits, EditsAccepted, TailsAreOrdered, LengthsArePlanned, RangesFit,
      BytesUntilMoving, KeptTailsSurvive, SpareUntouched, Prepared, Checked, Moving

\* Every return leaves the idle writer in order.
LEMMA FailKeeps ==
    ASSUME IInv, NEW e, Fail(e), UNCHANGED <<size, totalLen, edits>>,
           data' \in [0 .. (size - 1) -> Byte], entry' = data'
    PROVE  IInv'
<1>1. TypeOK'
  BY ErrResult, Constants DEF IInv, TypeOK, Fail, Phase, Zeros
<1> QED
  BY <1>1
  DEF Fail, IInv, AccountFits, EditsAccepted, TailsAreOrdered, LengthsArePlanned, RangesFit,
      BytesUntilMoving, KeptTailsSurvive, SpareUntouched, Prepared, Checked, Moving

\* An inline write keeps the invariant: no commit is in progress.
LEMMA SetInlineStep == IInv /\ SetInline => IInv'
<1> SUFFICES ASSUME IInv, SetInline
             PROVE  IInv'
  OBVIOUS
<1>1. PICK value \in InlineValues :
        data' = [a \in DOMAIN data |-> IF a < Inline.size THEN value[a] ELSE data[a]]
  BY DEF SetInline
<1>2. \A a \in 0 .. (Inline.size - 1) : value[a] \in Byte
  BY WriterAssumption, SchemaAssumption, PrefixesAssumption
<1>3. data' \in [0 .. (size - 1) -> Byte]
  BY <1>1, <1>2, SchemaAssumption, PrefixesAssumption DEF IInv, TypeOK
<1>4. TypeOK'
  BY <1>3 DEF SetInline, locals, IInv, TypeOK
<1> QED
  BY <1>4
  DEF SetInline, locals, IInv, AccountFits, EditsAccepted, TailsAreOrdered, LengthsArePlanned,
      RangesFit, BytesUntilMoving, KeptTailsSurvive, SpareUntouched, Prepared, Checked, Moving

\* A setter keeps the invariant: it stages only what it accepts.
LEMMA SetStep == ASSUME NEW i \in TailId PROVE IInv /\ Set(i) => IInv'
<1> SUFFICES ASSUME IInv, Set(i)
             PROVE  IInv'
  OBVIOUS
<1>1. PICK e \in Offers[i] : Accepted(i, e) /\ edits' = [edits EXCEPT ![i] = e]
  BY DEF Set
<1>2. e \in Edit
  BY WriterAssumption
<1>3. TypeOK'
  BY <1>1, <1>2 DEF Set, locals, IInv, TypeOK
<1>4. EditsAccepted'
  <2>1. e.present \/ Tails[i].opt
    BY WriterAssumption
  <2>2. Len(e.bytes) = e.count * Tails[i].size
    BY WriterAssumption
  <2>3. CheckPrefix(e.count, Tails[i].pfx).ok
    BY <1>1 DEF Accepted
  <2>4. edits \in [TailId -> Edit]
    BY DEF IInv, TypeOK
  <2> QED
    BY <1>1, <2>1, <2>2, <2>3, <2>4 DEF IInv, EditsAccepted
<1> QED
  BY <1>3, <1>4
  DEF Set, locals, IInv, AccountFits, TailsAreOrdered, LengthsArePlanned,
      RangesFit, BytesUntilMoving, KeptTailsSurvive, SpareUntouched, Prepared, Checked, Moving

\* The entry of commit keeps the invariant.
LEMMA CommitStep == IInv /\ Commit => IInv'
<1> SUFFICES ASSUME IInv, Commit
             PROVE  IInv'
  OBVIOUS
<1>1. entry' = data' /\ data' = data /\ UNCHANGED <<size, totalLen, edits>>
  BY DEF Commit
<1>2. CASE \E e : Fail(e)
  BY <1>1, <1>2, FailKeeps DEF IInv, TypeOK
<1>3. CASE pc' = "setup" /\ cur' = 1 /\ UNCHANGED <<locals, result>>
  <2>1. TypeOK'
    BY <1>1, <1>3, Constants DEF locals, IInv, TypeOK, Phase
  <2> QED
    BY <1>1, <1>3, <2>1, Constants
    DEF locals, IInv, AccountFits, EditsAccepted, TailsAreOrdered, LengthsArePlanned,
        RangesFit, BytesUntilMoving, KeptTailsSurvive, SpareUntouched, Prepared, Checked, Moving
<1> QED
  BY <1>2, <1>3 DEF Commit

\* The loops stay on the tails.
LEMMA AscendStays ==
    ASSUME cur \in TailId, NEW next, Ascend(next)
    PROVE  cur' \in TailId /\ pc' \in {pc, next}
<1>1. cur \in 1 .. TailCount /\ TailCount \in Nat
  BY Constants DEF TailId
<1>2. CASE cur < TailCount
  BY <1>1, <1>2 DEF Ascend, TailId
<1>3. CASE ~(cur < TailCount)
  BY <1>3, Constants DEF Ascend
<1> QED
  BY <1>2, <1>3

\* Where a tail may start: at the header's end, or where its neighbour ends.
LEMMA StartResult ==
    ASSUME NEW i \in TailId, NEW off \in [TailId -> Nat], NEW len \in [TailId -> Nat]
    PROVE  /\ IsResult(Start(i, off, len))
           /\ Start(i, off, len).ok =>
                Start(i, off, len).value = IF i = 1 THEN HeaderSize ELSE off[i - 1] + len[i - 1]
<1>1. CASE i = 1
  BY <1>1, Constants, OkResult DEF Start
<1>2. CASE i # 1
  <2>1. i - 1 \in TailId
    BY <1>2, Constants DEF TailId
  <2>2. off[i - 1] \in Nat /\ len[i - 1] \in Nat
    BY <2>1
  <2> QED
    BY <1>2, <2>2, CheckedAddResult DEF Start
<1> QED
  BY <1>1, <1>2

\* Laying a tail after its neighbour keeps it after all earlier tails.
LEMMA ChainExtends ==
    ASSUME NEW i \in TailId, NEW off \in [TailId -> Nat], NEW len \in [TailId -> Nat],
           NEW start \in Nat,
           start = IF i = 1 THEN HeaderSize ELSE off[i - 1] + len[i - 1],
           \A k \in TailId : k < i =>
               HeaderSize <= off[k] /\ \A j \in TailId : j < k => off[j] + len[j] <= off[k]
    PROVE  /\ HeaderSize <= start
           /\ \A j \in TailId : j < i => off[j] + len[j] <= start
<1>1. CASE i = 1
  BY <1>1, Constants
<1>2. CASE i # 1
  <2>1. i - 1 \in TailId /\ i - 1 < i
    BY <1>2, Constants DEF TailId
  <2>2. start = off[i - 1] + len[i - 1] /\ HeaderSize <= off[i - 1]
    BY <1>2, <2>1
  <2>3. HeaderSize <= start
    BY <2>1, <2>2, Constants
  <2>4. ASSUME NEW j \in TailId, j < i
        PROVE  off[j] + len[j] <= start
    <3>1. CASE j = i - 1
      BY <3>1, <2>2, <2>1
    <3>2. CASE j # i - 1
      <4>1. j < i - 1
        BY <3>2, <2>4, Constants
      <4>2. off[j] + len[j] <= off[i - 1]
        BY <4>1, <2>1
      <4> QED
        BY <4>2, <2>1, <2>2
    <3> QED
      BY <3>1, <3>2
  <2> QED
    BY <2>3, <2>4
<1> QED
  BY <1>1, <1>2

\* Laying out one more tail keeps the invariant, or commit returns with
\* nothing moved.
LEMMA SetupStep == IInv /\ Setup => IInv'
<1> SUFFICES ASSUME IInv, Setup
             PROVE  IInv'
  OBVIOUS
<1> DEFINE oldStart == Start(cur, oldOff, oldLen)
           newStart == Start(cur, newOff, newLen)
           old == OldLen(cur, oldStart.value)
           new == NewLen(cur, old.value)
<1>1. pc = "setup" /\ cur \in TailId /\ UNCHANGED <<data, size, totalLen, edits, entry>>
  BY DEF Setup, IInv, TypeOK
<1>2. data' = entry'
  BY <1>1 DEF IInv, BytesUntilMoving
<1>3. CASE \E e : Fail(e)
  BY <1>1, <1>2, <1>3, FailKeeps DEF IInv, TypeOK
<1>4. CASE /\ oldStart.ok /\ newStart.ok /\ old.ok /\ new.ok
           /\ oldOff' = [oldOff EXCEPT ![cur] = oldStart.value]
           /\ newOff' = [newOff EXCEPT ![cur] = newStart.value]
           /\ oldLen' = [oldLen EXCEPT ![cur] = old.value]
           /\ newLen' = [newLen EXCEPT ![cur] = new.value]
           /\ Ascend("check")
           /\ UNCHANGED result
  <2>1. /\ oldOff \in [TailId -> Nat] /\ oldLen \in [TailId -> Nat]
        /\ newOff \in [TailId -> Nat] /\ newLen \in [TailId -> Nat]
    BY DEF IInv, TypeOK
  <2>2. /\ oldStart.value \in Nat /\ newStart.value \in Nat
        /\ oldStart.value = IF cur = 1 THEN HeaderSize ELSE oldOff[cur - 1] + oldLen[cur - 1]
        /\ newStart.value = IF cur = 1 THEN HeaderSize ELSE newOff[cur - 1] + newLen[cur - 1]
    BY <1>1, <1>4, <2>1, StartResult DEF IsResult
  <2>3. old.value \in Nat
    BY <1>1, <2>2, OldLenResult DEF IInv, AccountFits, IsResult
  <2>4. new.value \in Nat /\ new.value = IF edits[cur].staged THEN EditLen(cur) ELSE old.value
    BY <1>1, <1>4, <2>3, NewLenResult DEF IInv, EditsAccepted, IsResult
  <2> HIDE DEF oldStart, newStart, old, new
  <2>5. TypeOK'
    <3>1. cur' \in TailId /\ pc' \in {"setup", "check"}
      BY <1>1, <1>4, AscendStays
    <3> QED
      BY <1>1, <1>4, <2>2, <2>3, <2>4, <3>1 DEF IInv, TypeOK, Phase
  <2>6. /\ HeaderSize <= oldStart.value
        /\ \A j \in TailId : j < cur => oldOff[j] + oldLen[j] <= oldStart.value
    BY <1>1, <2>1, <2>2, ChainExtends DEF IInv, TailsAreOrdered, Prepared
  <2>7. /\ HeaderSize <= newStart.value
        /\ \A j \in TailId : j < cur => newOff[j] + newLen[j] <= newStart.value
    BY <1>1, <2>1, <2>2, ChainExtends DEF IInv, TailsAreOrdered, Prepared
  <2>8. \A i \in TailId : Prepared(i)' => i = cur \/ (i < cur /\ Prepared(i))
    BY <1>1, <1>4, Constants DEF Prepared, Ascend
  <2>9. TailsAreOrdered'
    BY <1>1, <1>4, <2>1, <2>6, <2>7, <2>8, Constants DEF IInv, TailsAreOrdered
  <2>10. LengthsArePlanned'
    <3>1. \A i \in TailId : EditLen(i)' = EditLen(i)
      BY <1>1 DEF EditLen
    <3> QED
      BY <1>1, <1>4, <2>1, <2>4, <2>8, <3>1 DEF IInv, LengthsArePlanned
  <2>11. pc' \in {"setup", "check"} /\ (pc' = "check" => cur' = 1)
    BY <1>1, <1>4 DEF Ascend
  <2> QED
    BY <1>1, <1>2, <2>5, <2>9, <2>10, <2>11, Constants
    DEF IInv, AccountFits, EditsAccepted, RangesFit, BytesUntilMoving, KeptTailsSurvive,
        SpareUntouched, Checked, Moving
<1> QED
  BY <1>3, <1>4 DEF Setup

\* A passed range check.
LEMMA RangeCheckResult ==
    ASSUME TypeOK, NEW i \in TailId, RangeCheck(i).ok
    PROVE  /\ oldOff[i] + oldLen[i] <= totalLen
           /\ newOff[i] + newLen[i] <= size
           /\ ~(newOff[i] + newLen[i] > UsizeMax)
<1> DEFINE oldEnd == CheckedAdd(oldOff[i], oldLen[i])
           newEnd == CheckedAdd(newOff[i], newLen[i])
<1>1. oldOff[i] \in Nat /\ oldLen[i] \in Nat /\ newOff[i] \in Nat /\ newLen[i] \in Nat
  BY DEF TypeOK
<1>2. oldEnd.ok => oldEnd.value = oldOff[i] + oldLen[i]
  BY <1>1, CheckedAddResult
<1>3. newEnd.ok => newEnd.value = newOff[i] + newLen[i] /\ ~(newOff[i] + newLen[i] > UsizeMax)
  BY <1>1, CheckedAddResult
<1> HIDE DEF oldEnd, newEnd
<1>4. oldEnd.ok /\ ~(oldEnd.value > totalLen) /\ newEnd.ok /\ ~(newEnd.value > size)
  BY ErrResult DEF RangeCheck, oldEnd, newEnd
<1> QED
  BY <1>1, <1>2, <1>3, <1>4 DEF TypeOK

\* Checking one more range keeps the invariant, or commit returns with nothing
\* moved; past the last one the plan is sound.
LEMMA CheckStep == IInv /\ Check => IInv'
<1> SUFFICES ASSUME IInv, Check
             PROVE  IInv'
  OBVIOUS
<1>1. pc = "check" /\ cur \in TailId /\ UNCHANGED <<data, size, totalLen, edits, entry>>
  BY DEF Check, IInv, TypeOK
<1>2. data' = entry'
  BY <1>1 DEF IInv, BytesUntilMoving
<1>3. CASE \E e : Fail(e)
  BY <1>1, <1>2, <1>3, FailKeeps DEF IInv, TypeOK
<1>4. CASE RangeCheck(cur).ok /\ Ascend("back") /\ UNCHANGED <<locals, result>>
  <2>1. TypeOK'
    <3>1. cur' \in TailId /\ pc' \in {"check", "back"}
      BY <1>1, <1>4, AscendStays
    <3> QED
      BY <1>1, <1>4, <3>1 DEF IInv, TypeOK, Phase, locals
  <2>2. /\ oldOff[cur] + oldLen[cur] <= totalLen
        /\ newOff[cur] + newLen[cur] <= size
        /\ ~(newOff[cur] + newLen[cur] > UsizeMax)
    BY <1>1, <1>4, RangeCheckResult DEF IInv
  <2>3. \A i \in TailId : Checked(i)' => i = cur \/ Checked(i)
    BY <1>1, <1>4, Constants DEF Checked, Moving, Ascend
  <2>4. RangesFit'
    BY <1>1, <1>4, <2>2, <2>3 DEF IInv, RangesFit, locals
  <2>5. pc' \in {"check", "back"} /\ (pc' = "back" => cur' = 1)
    BY <1>1, <1>4 DEF Ascend
  <2>6. TailsAreOrdered' /\ LengthsArePlanned'
    BY <1>1, <1>4, <2>5
    DEF IInv, TailsAreOrdered, LengthsArePlanned, Prepared, EditLen, locals
  <2>7. \A i \in TailId : pc' = "back" => Place(i)' = oldOff'[i]
    BY <2>5, Constants DEF Place, HasMovedBack, HasMovedForth
  <2>8. KeptTailsSurvive'
    BY <1>2, <2>5, <2>7 DEF KeptTailsSurvive, Moving
  <2>9. SpareUntouched'
    BY <1>2 DEF SpareUntouched
  <2> QED
    BY <1>1, <1>2, <2>1, <2>4, <2>6, <2>8, <2>9
    DEF IInv, AccountFits, EditsAccepted, BytesUntilMoving
<1> QED
  BY <1>3, <1>4 DEF Check

-----------------------------------------------------------------------------
(* Moving bytes.                                                           *)

\* A copy inside the account writes its destination and nothing else.
LEMMA CopiedBytes ==
    ASSUME size \in Nat, data \in [0 .. (size - 1) -> Byte],
           NEW from \in Nat, NEW to \in Nat, NEW len \in Nat,
           from + len <= size, to + len <= size
    PROVE  /\ Copied(data, from, to, len) \in [0 .. (size - 1) -> Byte]
           /\ \A a \in 0 .. (size - 1) :
                a < to \/ a >= to + len => Copied(data, from, to, len)[a] = data[a]
           /\ \A b \in 0 .. (len - 1) : Copied(data, from, to, len)[to + b] = data[from + b]
<1>1. \A a \in 0 .. (size - 1) : to <= a /\ a < to + len => from + (a - to) \in 0 .. (size - 1)
  OBVIOUS
<1>2. \A b \in 0 .. (len - 1) : to + b \in 0 .. (size - 1) /\ from + ((to + b) - to) = from + b
  OBVIOUS
<1> QED
  BY <1>1, <1>2 DEF Copied

\* The numbers of a commit that moves bytes.
LEMMA MovingFacts ==
    ASSUME IInv, Moving
    PROVE  /\ size \in Nat /\ totalLen \in Nat /\ totalLen <= size /\ cur \in TailId
           /\ data \in [0 .. (size - 1) -> Byte]
           /\ \A i \in TailId :
                /\ i \in Nat
                /\ oldOff[i] \in Nat /\ oldLen[i] \in Nat
                /\ newOff[i] \in Nat /\ newLen[i] \in Nat
                /\ HeaderSize <= newOff[i]
                /\ oldOff[i] + oldLen[i] <= totalLen
                /\ newOff[i] + newLen[i] <= size
                /\ ~edits[i].staged => newLen[i] = oldLen[i]
                /\ edits[i].staged \in BOOLEAN
                /\ \A j \in TailId : j < i =>
                     /\ oldOff[j] + oldLen[j] <= oldOff[i]
                     /\ newOff[j] + newLen[j] <= newOff[i]
<1>1. \A i \in TailId : Prepared(i) /\ Checked(i)
  BY DEF Moving, Prepared, Checked
<1>2. \A i \in TailId : edits[i].staged \in BOOLEAN
  BY DEF IInv, TypeOK, Edit
<1> QED
  BY <1>1, <1>2, Constants
  DEF IInv, TypeOK, AccountFits, TailsAreOrdered, LengthsArePlanned, RangesFit

\* No tail ends beyond the final total after the commit.
LEMMA FinalTotalBounds ==
    ASSUME IInv, Moving
    PROVE  /\ FinalTotal \in Nat /\ FinalTotal <= size /\ HeaderSize <= FinalTotal
           /\ \A i \in TailId : newOff[i] + newLen[i] <= FinalTotal
<1>1. TailCount \in TailId /\ HeaderSize \in Nat
  BY Constants
<1>2. FinalTotal \in Nat /\ FinalTotal <= size /\ HeaderSize <= FinalTotal
  BY <1>1, MovingFacts DEF FinalTotal
<1>3. ASSUME NEW i \in TailId
      PROVE  newOff[i] + newLen[i] <= FinalTotal
  <2>1. CASE i = TailCount
    BY <1>1, <2>1, MovingFacts DEF FinalTotal
  <2>2. CASE i < TailCount
    BY <1>1, <2>2, MovingFacts DEF FinalTotal
  <2> QED
    BY <2>1, <2>2, Constants
<1> QED
  BY <1>2, <1>3

\* The parts of the invariant a move cannot disturb.
LEMMA MoveFrame ==
    ASSUME IInv, Moving, Moving', cur' \in TailId, data' \in [0 .. (size - 1) -> Byte],
           UNCHANGED <<size, totalLen, edits, locals, result, entry>>,
           KeptTailsSurvive', SpareUntouched'
    PROVE  IInv'
<1>1. TypeOK'
  BY DEF IInv, TypeOK, locals, Moving, Phase
<1>2. \A i \in TailId : Prepared(i) /\ Checked(i)
  BY DEF Moving, Prepared, Checked
<1>3. TailsAreOrdered' /\ LengthsArePlanned'
  BY <1>2 DEF IInv, TailsAreOrdered, LengthsArePlanned, locals, EditLen
<1>4. RangesFit'
  BY <1>2 DEF IInv, RangesFit, locals
<1>5. BytesUntilMoving'
  BY DEF BytesUntilMoving, Moving
<1> QED
  BY <1>1, <1>3, <1>4, <1>5 DEF IInv, AccountFits, EditsAccepted

\* Phase 1a: a tail that moves down lands below every tail still to be read
\* and above every tail already in place.
LEMMA BackSparesOthers ==
    ASSUME IInv, pc = "back", MovesBack(cur),
           NEW k \in TailId, k # cur, ~edits[k].staged, oldLen[k] > 0
    PROVE  \/ Place(k) + oldLen[k] <= newOff[cur]
           \/ newOff[cur] + oldLen[cur] <= Place(k)
<1>1. Moving
  BY DEF Moving
<1>2. newOff[cur] < oldOff[cur] /\ cur \in TailId /\ newLen[cur] = oldLen[cur]
  BY <1>1, MovingFacts DEF MovesBack
<1>3. CASE k < cur
  <2>1. newOff[k] + oldLen[k] <= newOff[cur]
    BY <1>1, <1>2, <1>3, MovingFacts
  <2>2. Place(k) <= newOff[k]
    BY <1>1, <1>3, MovingFacts DEF Place, HasMovedBack, HasMovedForth, MovesBack
  <2>3. Place(k) \in Nat
    BY <1>1, MovingFacts DEF Place
  <2> QED
    BY SMTT(60), <1>1, <1>2, <2>1, <2>2, <2>3, MovingFacts
<1>4. CASE cur < k
  <2>1. Place(k) = oldOff[k]
    BY <1>1, <1>2, <1>4, MovingFacts DEF Place, HasMovedBack, HasMovedForth
  <2>2. oldOff[cur] + oldLen[cur] <= oldOff[k]
    BY <1>1, <1>2, <1>4, MovingFacts
  <2> QED
    BY <1>1, <1>2, <2>1, <2>2, MovingFacts
<1> QED
  BY <1>1, <1>2, <1>3, <1>4, MovingFacts

\* A step that copies an unedited tail to its new offset, sparing the others,
\* keeps them all.
LEMMA MoveKeepsTails ==
    ASSUME IInv, Moving, Moving', NEW i \in TailId,
           ~edits[i].staged, Place(i) = oldOff[i], data' = Moved(i),
           UNCHANGED <<size, totalLen, edits, locals, result, entry>>,
           \A k \in TailId : Place(k)' = IF k = i THEN newOff[k] ELSE Place(k),
           \A k \in TailId : k # i /\ ~edits[k].staged /\ oldLen[k] > 0 =>
               \/ Place(k) + oldLen[k] <= newOff[i]
               \/ newOff[i] + oldLen[i] <= Place(k)
    PROVE  data' \in [0 .. (size - 1) -> Byte] /\ KeptTailsSurvive' /\ SpareUntouched'
<1>1. /\ oldOff[i] + oldLen[i] <= size /\ newOff[i] + oldLen[i] <= size
      /\ oldOff[i] \in Nat /\ newOff[i] \in Nat /\ oldLen[i] \in Nat /\ size \in Nat
      /\ newOff[i] + oldLen[i] <= FinalTotal /\ FinalTotal \in Nat
  BY MovingFacts, FinalTotalBounds
<1>2. /\ data' \in [0 .. (size - 1) -> Byte]
      /\ \A a \in 0 .. (size - 1) :
           a < newOff[i] \/ a >= newOff[i] + oldLen[i] => data'[a] = data[a]
      /\ \A b \in 0 .. (oldLen[i] - 1) : data'[newOff[i] + b] = data[oldOff[i] + b]
  <2>1. data \in [0 .. (size - 1) -> Byte]
    BY MovingFacts
  <2>2. data' = Copied(data, oldOff[i], newOff[i], oldLen[i])
    BY DEF Moved
  <2> DEFINE copy == Copied(data, oldOff[i], newOff[i], oldLen[i])
  <2>3. /\ copy \in [0 .. (size - 1) -> Byte]
        /\ \A a \in 0 .. (size - 1) : a < newOff[i] \/ a >= newOff[i] + oldLen[i] => copy[a] = data[a]
        /\ \A b \in 0 .. (oldLen[i] - 1) : copy[newOff[i] + b] = data[oldOff[i] + b]
    BY <1>1, <2>1, CopiedBytes
  <2> HIDE DEF copy
  <2>4. data' = copy
    BY <2>2 DEF copy
  <2> QED
    BY <2>3, <2>4
<1>3. ASSUME NEW k \in TailId, ~edits[k].staged, NEW b \in 0 .. (oldLen[k] - 1)
      PROVE  data'[Place(k)' + b] = entry[oldOff[k] + b]
  <2>1. data[Place(k) + b] = entry[oldOff[k] + b]
    BY <1>3 DEF IInv, KeptTailsSurvive
  <2>2. CASE k = i
    BY <1>2, <1>3, <2>1, <2>2
  <2>3. CASE k # i
    <3>1. Place(k)' = Place(k)
      BY <2>3
    <3>2. Place(k) \in Nat /\ Place(k) + oldLen[k] <= size /\ oldLen[k] \in Nat
      BY SMTT(60), <1>3, MovingFacts DEF Place
    <3>3. \/ Place(k) + oldLen[k] <= newOff[i]
          \/ newOff[i] + oldLen[i] <= Place(k)
      BY <1>3, <2>3, <3>2
    <3>4. Place(k) + b \in 0 .. (size - 1)
      BY <1>1, <1>3, <3>2
    <3>5. Place(k) + b < newOff[i] \/ Place(k) + b >= newOff[i] + oldLen[i]
      BY <1>1, <1>3, <3>2, <3>3
    <3> QED
      BY <1>2, <2>1, <3>1, <3>4, <3>5
  <2> QED
    BY <2>2, <2>3
<1>4. KeptTailsSurvive'
  BY <1>3 DEF KeptTailsSurvive, locals
<1>5. SpareUntouched'
  <2>1. FinalTotal' = FinalTotal
    BY DEF FinalTotal, locals
  <2>2. ASSUME NEW a \in 0 .. (size - 1), a >= totalLen, a >= FinalTotal
        PROVE  data'[a] = entry[a]
    <3>1. a >= newOff[i] + oldLen[i]
      BY <1>1, <2>2
    <3>2. data[a] = entry[a]
      BY <2>2 DEF IInv, SpareUntouched
    <3> QED
      BY <1>2, <3>1, <3>2
  <2> QED
    BY <2>1, <2>2 DEF SpareUntouched
<1> QED
  BY <1>2, <1>4, <1>5

\* Nothing moves: every tail stays where it is.
LEMMA StandStill ==
    ASSUME IInv, Moving, Moving', data' = data,
           UNCHANGED <<size, totalLen, edits, locals, result, entry>>,
           \A k \in TailId : ~edits[k].staged /\ oldLen[k] > 0 => Place(k)' = Place(k)
    PROVE  data' \in [0 .. (size - 1) -> Byte] /\ KeptTailsSurvive' /\ SpareUntouched'
<1>1. data' \in [0 .. (size - 1) -> Byte]
  BY MovingFacts
<1>2. KeptTailsSurvive'
  <2>1. ASSUME NEW k \in TailId, ~edits[k].staged, NEW b \in 0 .. (oldLen[k] - 1)
        PROVE  data'[Place(k)' + b] = entry[oldOff[k] + b]
    <3>1. oldLen[k] > 0
      BY <2>1, MovingFacts
    <3> QED
      BY <2>1, <3>1 DEF IInv, KeptTailsSurvive
  <2> QED
    BY <2>1 DEF KeptTailsSurvive, locals
<1>3. SpareUntouched'
  BY DEF IInv, SpareUntouched, FinalTotal, locals
<1> QED
  BY <1>1, <1>2, <1>3

\* A copy downwards keeps the invariant: it clobbers no unedited tail that is
\* still where it was, nor one that has moved already.
LEMMA MoveBackStep == IInv /\ MoveBack => IInv'
<1> SUFFICES ASSUME IInv, MoveBack
             PROVE  IInv'
  OBVIOUS
<1>1. pc = "back" /\ Moving /\ UNCHANGED <<size, totalLen, edits, locals, result, entry>>
  BY DEF MoveBack, Moving
<1>2. cur \in TailId /\ TailCount \in TailId /\ \A k \in TailId : k \in Nat /\ k <= TailCount
  BY <1>1, MovingFacts, Constants
<1>3. Moving' /\ cur' \in TailId
  BY <1>1, <1>2 DEF MoveBack, Moving, TailId
<1>4. \A k \in TailId : Place(k)' = IF k = cur /\ MovesBack(cur) THEN newOff[k] ELSE Place(k)
  <2>1. \A k \in TailId : (MovesBack(k)' <=> MovesBack(k)) /\ ~HasMovedForth(k)
    BY <1>1 DEF MovesBack, HasMovedForth, locals
  <2>2. CASE cur < TailCount
    <3>1. pc' = "back" /\ cur' = cur + 1
      BY <1>1, <2>2 DEF MoveBack
    <3> QED
      BY <1>1, <1>2, <2>1, <3>1 DEF Place, HasMovedBack, HasMovedForth, locals
  <2>3. CASE ~(cur < TailCount)
    <3>1. pc' = "forth" /\ cur' = TailCount /\ cur = TailCount
      BY <1>1, <1>2, <2>3 DEF MoveBack
    <3> QED
      BY <1>1, <1>2, <2>1, <3>1 DEF Place, HasMovedBack, HasMovedForth, locals
  <2> QED
    BY <2>2, <2>3
<1>5. CASE MovesBack(cur)
  <2>1. ~edits[cur].staged /\ Place(cur) = oldOff[cur] /\ data' = Moved(cur)
    BY <1>1, <1>2, <1>5 DEF MoveBack, MovesBack, Place, HasMovedBack, HasMovedForth
  <2>2. \A k \in TailId : k # cur /\ ~edits[k].staged /\ oldLen[k] > 0 =>
               \/ Place(k) + oldLen[k] <= newOff[cur]
               \/ newOff[cur] + oldLen[cur] <= Place(k)
    BY <1>1, <1>5, BackSparesOthers
  <2>3. \A k \in TailId : Place(k)' = IF k = cur THEN newOff[k] ELSE Place(k)
    BY <1>4, <1>5
  <2> QED
    BY <1>1, <1>2, <1>3, <2>1, <2>2, <2>3, MoveKeepsTails, MoveFrame
<1>6. CASE ~MovesBack(cur)
  <2>1. data' = data
    BY <1>6 DEF MoveBack
  <2>2. \A k \in TailId : Place(k)' = Place(k)
    BY <1>4, <1>6
  <2> QED
    BY <1>1, <1>3, <2>1, <2>2, StandStill, MoveFrame
<1> QED
  BY <1>5, <1>6

\* Phase 1b: a tail that moves up lands above every tail still to be read and
\* below every tail already in place.
LEMMA ForthSparesOthers ==
    ASSUME IInv, pc = "forth", MovesForth(cur),
           NEW k \in TailId, k # cur, ~edits[k].staged, oldLen[k] > 0
    PROVE  \/ Place(k) + oldLen[k] <= newOff[cur]
           \/ newOff[cur] + oldLen[cur] <= Place(k)
<1>1. Moving
  BY DEF Moving
<1>2. newOff[cur] > oldOff[cur] /\ cur \in TailId /\ newLen[cur] = oldLen[cur]
  BY <1>1, MovingFacts DEF MovesForth
<1>3. CASE k < cur
  <2>1. newOff[k] + oldLen[k] <= newOff[cur] /\ oldOff[k] + oldLen[k] <= oldOff[cur]
    BY <1>1, <1>2, <1>3, MovingFacts
  <2>2. Place(k) = newOff[k] \/ Place(k) = oldOff[k]
    BY DEF Place
  <2>3. oldOff[k] + oldLen[k] <= newOff[cur]
    BY <1>1, <1>2, <2>1, MovingFacts
  <2> QED
    BY <2>1, <2>2, <2>3
<1>4. CASE cur < k
  <2>1. newOff[cur] + oldLen[cur] <= newOff[k]
    BY <1>1, <1>2, <1>4, MovingFacts
  <2>2. Place(k) = newOff[k]
    BY <1>1, <1>4, MovingFacts
    DEF Place, HasMovedBack, HasMovedForth, MovesBack, MovesForth
  <2> QED
    BY <2>1, <2>2
<1> QED
  BY <1>1, <1>2, <1>3, <1>4, MovingFacts

\* A copy upwards, in reverse order, keeps the invariant.
LEMMA MoveForthStep == IInv /\ MoveForth => IInv'
<1> SUFFICES ASSUME IInv, MoveForth
             PROVE  IInv'
  OBVIOUS
<1>1. pc = "forth" /\ Moving /\ UNCHANGED <<size, totalLen, edits, locals, result, entry>>
  BY DEF MoveForth, Moving
<1>2. cur \in TailId /\ \A k \in TailId : k \in Nat /\ 1 <= k
  BY <1>1, MovingFacts, Constants
<1>3. Moving' /\ cur' \in TailId
  BY <1>1, <1>2, Constants DEF MoveForth, Moving, TailId
<1>4. \A k \in TailId : Place(k)' = IF k = cur /\ MovesForth(cur) THEN newOff[k] ELSE Place(k)
  <2>1. \A k \in TailId : /\ MovesBack(k)' <=> MovesBack(k)
                          /\ MovesForth(k)' <=> MovesForth(k)
    BY <1>1 DEF MovesBack, MovesForth, locals
  <2>2. CASE cur > 1
    <3>1. pc' = "forth" /\ cur' = cur - 1
      BY <1>1, <2>2 DEF MoveForth
    <3> QED
      BY <1>1, <1>2, <2>1, <3>1 DEF Place, HasMovedBack, HasMovedForth, locals
  <2>3. CASE ~(cur > 1)
    <3>1. pc' = "write" /\ cur = 1
      BY <1>1, <1>2, <2>3 DEF MoveForth
    <3> QED
      BY <1>1, <1>2, <2>1, <3>1 DEF Place, HasMovedBack, HasMovedForth, locals
  <2> QED
    BY <2>2, <2>3
<1>5. CASE MovesForth(cur)
  <2>1. ~edits[cur].staged /\ data' = Moved(cur)
    BY <1>1, <1>5 DEF MoveForth, MovesForth
  <2>2. Place(cur) = oldOff[cur]
    BY <1>1, <1>2, <1>5, MovingFacts
    DEF MovesForth, MovesBack, Place, HasMovedBack, HasMovedForth
  <2>3. \A k \in TailId : k # cur /\ ~edits[k].staged /\ oldLen[k] > 0 =>
               \/ Place(k) + oldLen[k] <= newOff[cur]
               \/ newOff[cur] + oldLen[cur] <= Place(k)
    BY <1>1, <1>5, ForthSparesOthers
  <2>4. \A k \in TailId : Place(k)' = IF k = cur THEN newOff[k] ELSE Place(k)
    BY <1>4, <1>5
  <2> QED
    BY <1>1, <1>2, <1>3, <2>1, <2>2, <2>3, <2>4, MoveKeepsTails, MoveFrame
<1>6. CASE ~MovesForth(cur)
  <2>1. data' = data
    BY <1>6 DEF MoveForth
  <2>2. \A k \in TailId : Place(k)' = Place(k)
    BY <1>4, <1>6
  <2> QED
    BY <1>1, <1>3, <2>1, <2>2, StandStill, MoveFrame
<1> QED
  BY <1>5, <1>6

-----------------------------------------------------------------------------
(* Writing the edits.                                                      *)

\* After both phases of copies, every unedited tail is at its new offset.
LEMMA KeptTailsArrived ==
    ASSUME IInv, pc \in {"write", "slots", "finish"},
           NEW k \in TailId, ~edits[k].staged, oldLen[k] > 0
    PROVE  Place(k) = newOff[k]
<1>1. Moving
  BY DEF Moving
<1> QED
  BY <1>1, MovingFacts DEF Place, HasMovedBack, HasMovedForth, MovesBack, MovesForth

\* A write into bytes of no unedited tail keeps them all.
LEMMA WriteKeepsTails ==
    ASSUME IInv, pc \in {"write", "slots"}, pc' \in {"write", "slots", "finish"},
           UNCHANGED <<size, totalLen, edits, locals, entry>>,
           data' \in [0 .. (size - 1) -> Byte],
           NEW lo \in Nat, NEW hi \in Nat, hi <= FinalTotal,
           \A a \in 0 .. (size - 1) : a < lo \/ a >= hi => data'[a] = data[a],
           \A k \in TailId : ~edits[k].staged /\ oldLen[k] > 0 =>
               newOff[k] + oldLen[k] <= lo \/ hi <= newOff[k]
    PROVE  KeptTailsSurvive' /\ SpareUntouched'
<1>1. Moving
  BY DEF Moving
<1>2. ASSUME NEW k \in TailId, ~edits[k].staged, NEW b \in 0 .. (oldLen[k] - 1)
      PROVE  data'[Place(k)' + b] = entry[oldOff[k] + b]
  <2>1. oldLen[k] \in Nat /\ oldLen[k] > 0 /\ newOff[k] \in Nat /\ size \in Nat
        /\ newOff[k] + oldLen[k] <= size
    BY <1>1, <1>2, MovingFacts
  <2>2. Place(k) = newOff[k]
    BY <1>2, <2>1, KeptTailsArrived
  <2>3. Place(k)' = Place(k)
    BY DEF Place, HasMovedBack, HasMovedForth, MovesBack, MovesForth, locals
  <2>4. data[newOff[k] + b] = entry[oldOff[k] + b]
    BY <1>1, <1>2, <2>2 DEF IInv, KeptTailsSurvive
  <2>5. newOff[k] + oldLen[k] <= lo \/ hi <= newOff[k]
    BY <1>2, <2>1
  <2>6. newOff[k] + b \in 0 .. (size - 1) /\ (newOff[k] + b < lo \/ newOff[k] + b >= hi)
    BY <1>2, <2>1, <2>5
  <2> QED
    BY <2>2, <2>3, <2>4, <2>6
<1>3. KeptTailsSurvive'
  BY <1>2 DEF KeptTailsSurvive, locals
<1>4. SpareUntouched'
  <2>1. FinalTotal' = FinalTotal /\ FinalTotal \in Nat
    BY <1>1, FinalTotalBounds DEF FinalTotal, locals
  <2>2. ASSUME NEW a \in 0 .. (size - 1), a >= totalLen, a >= FinalTotal
        PROVE  data'[a] = entry[a]
    <3>1. a >= hi
      BY <1>1, <2>1, <2>2, MovingFacts
    <3>2. data[a] = entry[a]
      BY <1>1, <2>2 DEF IInv, SpareUntouched
    <3> QED
      BY <3>1, <3>2
  <2> QED
    BY <2>1, <2>2 DEF SpareUntouched
<1> QED
  BY <1>3, <1>4

\* A prefix is written at its place and nowhere else.
LEMMA PutPrefixBytes ==
    ASSUME size \in Nat, data \in [0 .. (size - 1) -> Byte],
           NEW off \in Nat, NEW pfx \in Width, NEW value \in Nat
    PROVE  /\ PutPrefix(data, off, pfx, value) \in [0 .. (size - 1) -> Byte]
           /\ \A a \in 0 .. (size - 1) :
                a < off \/ a >= off + pfx => PutPrefix(data, off, pfx, value)[a] = data[a]
<1>1. pfx \in Nat /\ pfx <= 8
  BY DEF Width
<1>2. ASSUME NEW a \in 0 .. (size - 1), a \in off .. (off + pfx - 1)
      PROVE  LeByte(value, a - off) \in Byte
  <2>1. a - off \in 0 .. 7
    BY <1>1, <1>2
  <2> QED
    BY <2>1, LeByteIsByte
<1> QED
  BY <1>1, <1>2 DEF PutPrefix

\* A payload is written at its place and nowhere else.
LEMMA OverwrittenBytes ==
    ASSUME size \in Nat, NEW d \in [0 .. (size - 1) -> Byte], NEW off \in Nat,
           NEW bytes \in Seq(Byte)
    PROVE  /\ Overwritten(d, off, bytes) \in [0 .. (size - 1) -> Byte]
           /\ \A a \in 0 .. (size - 1) :
                a < off \/ a >= off + Len(bytes) => Overwritten(d, off, bytes)[a] = d[a]
<1>1. Len(bytes) \in Nat /\ \A k \in 1 .. Len(bytes) : bytes[k] \in Byte
  OBVIOUS
<1>2. ASSUME NEW a \in 0 .. (size - 1), off <= a, a < off + Len(bytes)
      PROVE  bytes[a - off + 1] \in Byte
  <2>1. a - off + 1 \in 1 .. Len(bytes)
    BY <1>1, <1>2
  <2> QED
    BY <1>1, <2>1
<1> QED
  BY <1>1, <1>2 DEF Overwritten

\* The digits of a prefix are where they are put.
LEMMA PutPrefixDigits ==
    ASSUME size \in Nat, data \in [0 .. (size - 1) -> Byte],
           NEW off \in Nat, NEW pfx \in Width, NEW value \in Nat, off + pfx <= size
    PROVE  Written(PutPrefix(data, off, pfx, value), off, pfx, value)
<1>1. pfx \in Nat
  BY DEF Width
<1>2. ASSUME NEW k \in 0 .. (pfx - 1)
      PROVE  PutPrefix(data, off, pfx, value)[off + k] = LeByte(value, k)
  <2>1. off + k \in 0 .. (size - 1) /\ off + k \in off .. (off + pfx - 1) /\ (off + k) - off = k
    BY <1>1
  <2> QED
    BY <2>1 DEF PutPrefix
<1> QED
  BY <1>2 DEF Written

\* The bytes of a payload are where they are put.
LEMMA OverwrittenValue ==
    ASSUME size \in Nat, NEW d \in [0 .. (size - 1) -> Byte], NEW off \in Nat,
           NEW bytes \in Seq(Byte), off + Len(bytes) <= size
    PROVE  \A k \in 1 .. Len(bytes) : Overwritten(d, off, bytes)[off + k - 1] = bytes[k]
<1>1. Len(bytes) \in Nat
  OBVIOUS
<1>2. ASSUME NEW k \in 1 .. Len(bytes)
      PROVE  Overwritten(d, off, bytes)[off + k - 1] = bytes[k]
  <2>1. /\ off + k - 1 \in 0 .. (size - 1) /\ off <= off + k - 1 /\ off + k - 1 < off + Len(bytes)
        /\ (off + k - 1) - off + 1 = k
    BY <1>1
  <2> QED
    BY <2>1 DEF Overwritten
<1> QED
  BY <1>2

\* The bytes an edited tail takes, apart from every other tail.
LEMMA EditedTailIsApart ==
    ASSUME IInv, Moving, NEW i \in TailId, edits[i].staged,
           NEW k \in TailId, ~edits[k].staged
    PROVE  newOff[k] + oldLen[k] <= newOff[i] \/ newOff[i] + newLen[i] <= newOff[k]
<1>1. k # i
  OBVIOUS
<1>2. CASE k < i
  BY <1>2, MovingFacts
<1>3. CASE i < k
  BY <1>3, MovingFacts
<1> QED
  BY <1>1, <1>2, <1>3, MovingFacts

\* What phase 2 knows of a present edit: the checks of its writes pass.
LEMMA PresentEdit ==
    ASSUME IInv, pc = "write", edits[cur].staged, edits[cur].present
    PROVE  LET t == Tails[cur]
               e == edits[cur]
               payloadOff == IF t.opt THEN newOff[cur] + t.pfx ELSE newOff[cur]
           IN  /\ t.opt => WritePrefix(newOff[cur], t.pfx, e.count).ok
               /\ WritePayload(payloadOff, e.bytes).ok
               /\ payloadOff \in Nat /\ newOff[cur] <= payloadOff
               /\ payloadOff + Len(e.bytes) = newOff[cur] + newLen[cur]
               /\ t.opt => newOff[cur] + t.pfx <= newOff[cur] + newLen[cur]
               /\ e.bytes \in Seq(Byte) /\ e.count \in Nat
<1> DEFINE t == Tails[cur]
           e == edits[cur]
           payloadOff == IF t.opt THEN newOff[cur] + t.pfx ELSE newOff[cur]
<1>1. Moving /\ cur \in TailId
  BY DEF Moving, IInv, TypeOK
<1>2. /\ newOff[cur] \in Nat /\ newLen[cur] \in Nat /\ size \in Nat
      /\ newOff[cur] + newLen[cur] <= size
  BY <1>1, MovingFacts
<1>3. ~(newOff[cur] + newLen[cur] > UsizeMax) /\ UsizeMax \in Nat
  BY <1>1, Constants DEF IInv, RangesFit, Checked
<1>4. e.bytes \in Seq(Byte) /\ e.count \in Nat /\ Len(e.bytes) \in Nat
  BY <1>1 DEF IInv, TypeOK, Edit
<1>5. t.opt \in BOOLEAN /\ t.pfx \in Nat /\ t.pfx > 0
  BY <1>1, TailFacts
<1>6. newLen[cur] = (IF t.opt THEN t.pfx ELSE 0) + Len(e.bytes)
  BY <1>1 DEF IInv, LengthsArePlanned, Prepared, Moving, EditLen
<1>7. CheckPrefix(e.count, t.pfx).ok
  BY <1>1 DEF IInv, EditsAccepted
<1>8. payloadOff \in Nat /\ newOff[cur] <= payloadOff
      /\ payloadOff + Len(e.bytes) = newOff[cur] + newLen[cur]
  <2>1. CASE t.opt
    <3>1. payloadOff = newOff[cur] + t.pfx /\ newLen[cur] = t.pfx + Len(e.bytes)
      BY <1>6, <2>1
    <3> HIDE DEF payloadOff
    <3> QED
      BY <1>2, <1>4, <1>5, <3>1
  <2>2. CASE ~t.opt
    <3>1. payloadOff = newOff[cur] /\ newLen[cur] = Len(e.bytes)
      BY <1>4, <1>6, <2>2
    <3> HIDE DEF payloadOff
    <3> QED
      BY <1>2, <1>4, <3>1
  <2> QED
    BY <1>5, <2>1, <2>2
<1>9. t.opt => newOff[cur] + t.pfx <= newOff[cur] + newLen[cur]
  BY <1>2, <1>4, <1>5, <1>6
<1>10. ASSUME t.opt
       PROVE  WritePrefix(newOff[cur], t.pfx, e.count).ok
  <2>1. newOff[cur] + t.pfx <= size /\ ~(newOff[cur] + t.pfx > UsizeMax)
    BY <1>2, <1>3, <1>5, <1>9, <1>10
  <2>2. CheckedAdd(newOff[cur], t.pfx).ok /\ CheckedAdd(newOff[cur], t.pfx).value = newOff[cur] + t.pfx
    BY <1>2, <1>5, <2>1, CheckedAddResult
  <2>3. ~(CheckedAdd(newOff[cur], t.pfx).value > size)
    BY <1>2, <1>5, <2>1, <2>2
  <2> QED
    BY <1>2, <1>5, <1>7, <2>2, <2>3, OkResult DEF WritePrefix
<1>11. WritePayload(payloadOff, e.bytes).ok
  <2>1. ~(payloadOff + Len(e.bytes) > size) /\ ~(payloadOff + Len(e.bytes) > UsizeMax)
    BY <1>2, <1>3, <1>8
  <2> HIDE DEF payloadOff
  <2>2. /\ CheckedAdd(payloadOff, Len(e.bytes)).ok
        /\ CheckedAdd(payloadOff, Len(e.bytes)).value = payloadOff + Len(e.bytes)
    BY <1>4, <1>8, <2>1, CheckedAddResult
  <2>3. ~(CheckedAdd(payloadOff, Len(e.bytes)).value > size)
    BY <2>1, <2>2
  <2> QED
    BY <1>8, <2>2, <2>3, OkResult DEF WritePayload
<1> QED
  BY <1>4, <1>8, <1>9, <1>10, <1>11

\* What phase 2 does with a present edit: no branch fails, its prefix and its
\* payload are in the range that is its own, and nothing else is written.
LEMMA EditIsWritten ==
    ASSUME IInv, Write, edits[cur].staged, edits[cur].present
    PROVE  /\ data' \in [0 .. (size - 1) -> Byte]
           /\ \A a \in 0 .. (size - 1) :
                a < newOff[cur] \/ a >= newOff[cur] + newLen[cur] => data'[a] = data[a]
           /\ Tails[cur].opt => Written(data', newOff[cur], Tails[cur].pfx, edits[cur].count)
           /\ \A k \in 1 .. Len(edits[cur].bytes) :
                data'[PayloadFrom(cur, newOff[cur]) + k - 1] = edits[cur].bytes[k]
           /\ Ascend("slots") /\ UNCHANGED <<locals, result>>
<1> DEFINE t == Tails[cur]
           e == edits[cur]
           payloadOff == IF t.opt THEN newOff[cur] + t.pfx ELSE newOff[cur]
           prefixed == IF t.opt THEN PutPrefix(data, newOff[cur], t.pfx, e.count) ELSE data
<1>1. pc = "write" /\ Moving
  BY DEF Write, Moving
<1>2. cur \in TailId /\ size \in Nat /\ data \in [0 .. (size - 1) -> Byte]
      /\ newOff[cur] \in Nat /\ newLen[cur] \in Nat /\ newOff[cur] + newLen[cur] <= size
  BY <1>1, MovingFacts
<1>3. /\ t.opt => WritePrefix(newOff[cur], t.pfx, e.count).ok
      /\ WritePayload(payloadOff, e.bytes).ok
      /\ payloadOff \in Nat /\ newOff[cur] <= payloadOff
      /\ payloadOff + Len(e.bytes) = newOff[cur] + newLen[cur]
      /\ t.opt => newOff[cur] + t.pfx <= newOff[cur] + newLen[cur]
      /\ e.bytes \in Seq(Byte) /\ e.count \in Nat
  BY <1>1, PresentEdit
<1>4. /\ data' = Overwritten(prefixed, payloadOff, e.bytes)
      /\ Ascend("slots")
      /\ UNCHANGED <<locals, result>>
  BY <1>3, OkResult DEF Write
<1>5. t.pfx \in Width /\ t.pfx \in Nat /\ t.opt \in BOOLEAN
  BY <1>2, TailFacts
<1>6. /\ prefixed \in [0 .. (size - 1) -> Byte]
      /\ \A a \in 0 .. (size - 1) :
           a < newOff[cur] \/ a >= newOff[cur] + newLen[cur] => prefixed[a] = data[a]
      /\ t.opt => Written(prefixed, newOff[cur], t.pfx, e.count)
  <2>1. CASE t.opt
    <3>1. prefixed = PutPrefix(data, newOff[cur], t.pfx, e.count)
      BY <2>1
    <3>2. /\ PutPrefix(data, newOff[cur], t.pfx, e.count) \in [0 .. (size - 1) -> Byte]
          /\ \A a \in 0 .. (size - 1) : a < newOff[cur] \/ a >= newOff[cur] + t.pfx =>
               PutPrefix(data, newOff[cur], t.pfx, e.count)[a] = data[a]
      BY SMTT(60), <1>2, <1>3, <1>5, PutPrefixBytes
    <3>3. newOff[cur] + t.pfx <= size
      BY <1>2, <1>3, <1>5, <2>1
    <3>4. Written(PutPrefix(data, newOff[cur], t.pfx, e.count), newOff[cur], t.pfx, e.count)
      BY <1>2, <1>3, <1>5, <3>3, PutPrefixDigits
    <3> HIDE DEF prefixed
    <3> QED
      BY <1>2, <1>3, <1>5, <2>1, <3>1, <3>2, <3>4
  <2>2. CASE ~t.opt
    BY <1>2, <2>2
  <2> QED
    BY <1>5, <2>1, <2>2
<1>7. payloadOff = PayloadFrom(cur, newOff[cur]) /\ (t.opt => payloadOff = newOff[cur] + t.pfx)
  BY DEF PayloadFrom
<1> HIDE DEF prefixed, payloadOff
<1>8. /\ data' \in [0 .. (size - 1) -> Byte]
      /\ \A a \in 0 .. (size - 1) :
           a < payloadOff \/ a >= payloadOff + Len(e.bytes) => data'[a] = prefixed[a]
  BY ZenonT(60), <1>2, <1>3, <1>4, <1>6, OverwrittenBytes
<1>9. \A k \in 1 .. Len(e.bytes) : data'[payloadOff + k - 1] = e.bytes[k]
  BY SMTT(60), <1>2, <1>3, <1>4, <1>6, OverwrittenValue
<1>10. ASSUME NEW a \in 0 .. (size - 1), a < newOff[cur] \/ a >= newOff[cur] + newLen[cur]
       PROVE  data'[a] = data[a]
  <2>1. Len(e.bytes) \in Nat
    BY <1>3
  <2>2. a < payloadOff \/ a >= payloadOff + Len(e.bytes)
    BY <1>2, <1>3, <1>10, <2>1
  <2>3. data'[a] = prefixed[a]
    BY <1>8, <2>2
  <2> QED
    BY <1>6, <1>10, <2>3
<1>11. ASSUME t.opt
       PROVE  Written(data', newOff[cur], t.pfx, e.count)
  <2> DEFINE d == data'
  <2>1. \A k \in 0 .. (t.pfx - 1) : newOff[cur] + k \in 0 .. (size - 1) /\ newOff[cur] + k < payloadOff
    <3> DEFINE pfx == t.pfx
    <3>1. /\ pfx \in Nat /\ payloadOff = newOff[cur] + pfx
          /\ newOff[cur] + pfx <= newOff[cur] + newLen[cur]
      BY <1>3, <1>5, <1>7, <1>11
    <3> HIDE DEF pfx
    <3>2. \A k \in 0 .. (pfx - 1) : newOff[cur] + k \in 0 .. (size - 1) /\ newOff[cur] + k < payloadOff
      BY <1>2, <3>1
    <3> QED
      BY <3>2 DEF pfx
  <2>2. \A k \in 0 .. (t.pfx - 1) : d[newOff[cur] + k] = prefixed[newOff[cur] + k]
    BY <1>8, <2>1
  <2>3. Written(prefixed, newOff[cur], t.pfx, e.count)
    BY <1>6, <1>11
  <2> HIDE DEF d
  <2>4. Written(d, newOff[cur], t.pfx, e.count)
    BY <2>2, <2>3 DEF Written
  <2> QED
    BY <2>4 DEF d
<1>12. t.opt => Written(data', newOff[cur], t.pfx, e.count)
  BY <1>11
<1>13. \A a \in 0 .. (size - 1) :
         a < newOff[cur] \/ a >= newOff[cur] + newLen[cur] => data'[a] = data[a]
  BY <1>10
<1>14. \A k \in 1 .. Len(e.bytes) : data'[PayloadFrom(cur, newOff[cur]) + k - 1] = e.bytes[k]
  BY <1>7, <1>9
<1> QED
  BY <1>4, <1>8, <1>12, <1>13, <1>14, Zenon

\* Writing an edited payload keeps the invariant, and cannot fail: this is
\* where a failure would leave a half-written account.
LEMMA WriteStep == IInv /\ Write => IInv'
<1> SUFFICES ASSUME IInv, Write
             PROVE  IInv'
  OBVIOUS
<1> DEFINE e == edits[cur]
<1>1. pc = "write" /\ Moving /\ UNCHANGED <<size, totalLen, edits, entry>>
  BY DEF Write, Moving
<1>2. cur \in TailId /\ size \in Nat /\ data \in [0 .. (size - 1) -> Byte]
      /\ newOff[cur] \in Nat /\ newLen[cur] \in Nat
  BY <1>1, MovingFacts
<1>3. CASE ~e.staged \/ ~e.present
  <2>1. data' = data /\ Ascend("slots") /\ UNCHANGED <<locals, result>>
    BY <1>3 DEF Write
  <2>2. cur' \in TailId /\ pc' \in {"write", "slots"}
    BY <1>1, <1>2, <2>1, AscendStays
  <2>3. Moving'
    BY <2>2 DEF Moving
  <2>4. \A k \in TailId : Place(k)' = Place(k)
    BY <1>1, <2>1, <2>2 DEF Place, HasMovedBack, HasMovedForth, MovesBack, MovesForth, locals
  <2> QED
    BY <1>1, <2>1, <2>2, <2>3, <2>4, StandStill, MoveFrame
<1>4. CASE e.staged /\ e.present
  <2> DEFINE lo == newOff[cur]
             hi == newOff[cur] + newLen[cur]
  <2>1. /\ data' \in [0 .. (size - 1) -> Byte]
        /\ \A a \in 0 .. (size - 1) : a < lo \/ a >= hi => data'[a] = data[a]
        /\ Ascend("slots") /\ UNCHANGED <<locals, result>>
    BY <1>4, EditIsWritten
  <2>2. lo \in Nat /\ hi \in Nat /\ hi <= FinalTotal
    BY <1>1, <1>2, FinalTotalBounds
  <2>3. \A k \in TailId : ~edits[k].staged /\ oldLen[k] > 0 =>
            newOff[k] + oldLen[k] <= lo \/ hi <= newOff[k]
    BY <1>1, <1>2, <1>4, EditedTailIsApart
  <2>4. cur' \in TailId /\ pc' \in {"write", "slots"}
    BY <1>1, <1>2, <2>1, AscendStays
  <2>5. Moving'
    BY <2>4 DEF Moving
  <2> HIDE DEF lo, hi
  <2>6. KeptTailsSurvive' /\ SpareUntouched'
    BY <1>1, <2>1, <2>2, <2>3, <2>4, WriteKeepsTails
  <2> QED
    BY <1>1, <2>1, <2>4, <2>5, <2>6, MoveFrame
<1>5. e.staged \in BOOLEAN /\ e.present \in BOOLEAN
  BY <1>2 DEF IInv, TypeOK, Edit
<1> QED
  BY <1>3, <1>4, <1>5

\* What the header loop does with one tail: no branch fails, and an edited
\* tail's slot, alone, says what the edit does.
LEMMA SlotIsWritten ==
    ASSUME IInv, WriteSlot
    PROVE  /\ data' \in [0 .. (size - 1) -> Byte]
           /\ \A a \in 0 .. (size - 1) :
                a < Slot[cur] \/ a >= Slot[cur] + SlotWidth(cur) => data'[a] = data[a]
           /\ ~edits[cur].staged => data' = data
           /\ edits[cur].staged =>
                IF Tails[cur].opt THEN data'[Slot[cur]] = IF edits[cur].present THEN 1 ELSE 0
                ELSE Written(data', Slot[cur], Tails[cur].pfx, edits[cur].count)
           /\ Ascend("finish") /\ UNCHANGED <<locals, result>>
<1> DEFINE t == Tails[cur]
           e == edits[cur]
<1>1. pc = "slots" /\ Moving
  BY DEF WriteSlot, Moving
<1>2. cur \in TailId /\ size \in Nat /\ data \in [0 .. (size - 1) -> Byte]
      /\ t.opt \in BOOLEAN /\ t.pfx \in Width /\ t.pfx \in Nat
      /\ e.staged \in BOOLEAN /\ e.present \in BOOLEAN /\ e.count \in Nat
  BY <1>1, MovingFacts, TailFacts DEF IInv, TypeOK, Edit
<1>3. e.staged => CheckPrefix(e.count, t.pfx).ok
  BY <1>2 DEF IInv, EditsAccepted
<1>4. Ascend("finish") /\ UNCHANGED <<locals, result>>
  BY <1>3 DEF WriteSlot
<1>5. /\ Slot[cur] \in Nat /\ SlotWidth(cur) \in Nat /\ SlotWidth(cur) > 0
      /\ Slot[cur] + SlotWidth(cur) <= size
  <2>1. HeaderSize \in Nat /\ HeaderSize <= size
    BY Constants DEF IInv, AccountFits
  <2> QED
    BY <1>2, <2>1, SlotOrder, SlotFacts
<1>6. CASE ~e.staged
  BY <1>2, <1>4, <1>6 DEF WriteSlot
<1>7. CASE e.staged /\ t.opt
  <2>1. data' = [data EXCEPT ![Slot[cur]] = IF e.present THEN 1 ELSE 0]
    BY <1>7 DEF WriteSlot
  <2>2. (IF e.present THEN 1 ELSE 0) \in Byte
    BY Constants DEF Byte
  <2>3. data' \in [0 .. (size - 1) -> Byte]
    BY <1>2, <2>1, <2>2
  <2>4. ASSUME NEW a \in 0 .. (size - 1), a < Slot[cur] \/ a >= Slot[cur] + SlotWidth(cur)
        PROVE  data'[a] = data[a]
    <3>1. a # Slot[cur]
      BY <1>5, <2>4
    <3> QED
      BY <1>2, <2>1, <3>1
  <2>5. data'[Slot[cur]] = IF e.present THEN 1 ELSE 0
    <3>1. Slot[cur] \in 0 .. (size - 1)
      BY <1>2, <1>5
    <3> QED
      BY <1>2, <2>1, <3>1
  <2> QED
    BY <1>4, <1>7, <2>3, <2>4, <2>5
<1>8. CASE e.staged /\ ~t.opt
  <2>1. data' = PutPrefix(data, Slot[cur], t.pfx, e.count)
    BY <1>3, <1>8 DEF WriteSlot
  <2>2. SlotWidth(cur) = t.pfx
    BY <1>8 DEF SlotWidth
  <2>3. /\ PutPrefix(data, Slot[cur], t.pfx, e.count) \in [0 .. (size - 1) -> Byte]
        /\ \A a \in 0 .. (size - 1) : a < Slot[cur] \/ a >= Slot[cur] + t.pfx =>
             PutPrefix(data, Slot[cur], t.pfx, e.count)[a] = data[a]
    BY <1>2, <1>5, PutPrefixBytes
  <2>4. Written(PutPrefix(data, Slot[cur], t.pfx, e.count), Slot[cur], t.pfx, e.count)
    BY <1>2, <1>5, <2>2, PutPrefixDigits
  <2> QED
    BY <1>4, <1>8, <2>1, <2>2, <2>3, <2>4
<1> QED
  BY <1>2, <1>6, <1>7, <1>8

\* Writing the header prefix or tag of an edited tail keeps the invariant, and
\* cannot fail.
LEMMA WriteSlotStep == IInv /\ WriteSlot => IInv'
<1> SUFFICES ASSUME IInv, WriteSlot
             PROVE  IInv'
  OBVIOUS
<1>1. pc = "slots" /\ Moving /\ UNCHANGED <<size, totalLen, edits, entry>>
  BY DEF WriteSlot, Moving
<1>2. cur \in TailId /\ size \in Nat
  BY <1>1, MovingFacts
<1>3. /\ data' \in [0 .. (size - 1) -> Byte]
      /\ \A a \in 0 .. (size - 1) :
           a < Slot[cur] \/ a >= Slot[cur] + SlotWidth(cur) => data'[a] = data[a]
      /\ Ascend("finish") /\ UNCHANGED <<locals, result>>
  BY SlotIsWritten
<1>4. cur' \in TailId /\ pc' \in {"slots", "finish"}
  BY <1>1, <1>2, <1>3, AscendStays
<1>5. Moving'
  BY <1>4 DEF Moving
<1>6. \A a \in 0 .. (size - 1) : a < 0 \/ a >= HeaderSize => data'[a] = data[a]
  <2>1. /\ Slot[cur] \in Nat /\ SlotWidth(cur) \in Nat /\ HeaderSize \in Nat
        /\ Slot[cur] + SlotWidth(cur) <= HeaderSize
    BY <1>2, SlotOrder, SlotFacts, Constants
  <2> QED
    BY <1>2, <1>3, <2>1
<1>7. HeaderSize \in Nat /\ HeaderSize <= FinalTotal /\ \A k \in TailId : HeaderSize <= newOff[k]
  BY <1>1, Constants, FinalTotalBounds, MovingFacts
<1>8. KeptTailsSurvive' /\ SpareUntouched'
  BY <1>1, <1>3, <1>4, <1>6, <1>7, WriteKeepsTails
<1> QED
  BY <1>1, <1>3, <1>4, <1>5, <1>8, MoveFrame

\* The return of a successful commit keeps the invariant.
LEMMA FinishStep == IInv /\ Finish => IInv'
<1> SUFFICES ASSUME IInv, Finish
             PROVE  IInv'
  OBVIOUS
<1>1. pc = "finish" /\ Moving
  BY DEF Finish, Moving
<1>2. FinalTotal \in Nat /\ FinalTotal <= size /\ size \in Nat
      /\ data \in [0 .. (size - 1) -> Byte]
  BY <1>1, FinalTotalBounds, MovingFacts
<1>3. data' \in [0 .. (size - 1) -> Byte]
  <2>1. 0 \in Byte
    BY Constants DEF Byte
  <2> QED
    BY <1>2, <2>1 DEF Finish
<1>4. NoEdits \in [TailId -> Edit]
  <2>1. Keep \in Edit
    BY DEF Keep, Edit
  <2> QED
    BY <2>1 DEF NoEdits
<1>5. TypeOK'
  BY <1>2, <1>3, <1>4, Constants, OkResult DEF Finish, Return, IInv, TypeOK, Phase, Zeros
<1>6. \A i \in TailId : ~(edits'[i].staged)
  BY DEF Finish, NoEdits, Keep
<1> QED
  BY <1>2, <1>5, <1>6
  DEF Finish, Return, IInv, AccountFits, EditsAccepted, TailsAreOrdered, LengthsArePlanned,
      RangesFit, BytesUntilMoving, KeptTailsSurvive, SpareUntouched, Prepared, Checked, Moving

\* A stuttering step keeps the invariant.
LEMMA StutterStep == IInv /\ UNCHANGED vars => IInv'
  BY DEF IInv, TypeOK, AccountFits, EditsAccepted, TailsAreOrdered, LengthsArePlanned, RangesFit,
         BytesUntilMoving, KeptTailsSurvive, SpareUntouched, Prepared, Checked, Moving, EditLen,
         Place, HasMovedBack, HasMovedForth, MovesBack, MovesForth, FinalTotal, vars, locals

-----------------------------------------------------------------------------
(* The theorems.                                                           *)

\* The invariant holds of every writer: the proof that each step keeps it is
\* the argument for the order of the copies in compact.rs:2359-2409.
THEOREM Invariance == Spec => []IInv
<1>1. Init => IInv
  BY InitEstablishes
<1>2. IInv /\ [Next]_vars => IInv'
  <2> SUFFICES ASSUME IInv, [Next]_vars
               PROVE  IInv'
    OBVIOUS
  <2>1. CASE SetInline
    BY <2>1, SetInlineStep
  <2>2. CASE \E i \in TailId : Set(i)
    BY <2>2, SetStep
  <2>3. CASE Commit
    BY <2>3, CommitStep
  <2>4. CASE Setup
    BY <2>4, SetupStep
  <2>5. CASE Check
    BY <2>5, CheckStep
  <2>6. CASE MoveBack
    BY <2>6, MoveBackStep
  <2>7. CASE MoveForth
    BY <2>7, MoveForthStep
  <2>8. CASE Write
    BY <2>8, WriteStep
  <2>9. CASE WriteSlot
    BY <2>9, WriteSlotStep
  <2>10. CASE Finish
    BY <2>10, FinishStep
  <2>11. CASE UNCHANGED vars
    BY <2>11, StutterStep
  <2> QED
    BY <2>1, <2>2, <2>3, <2>4, <2>5, <2>6, <2>7, <2>8, <2>9, <2>10, <2>11 DEF Next
<1> QED
  BY <1>1, <1>2, PTL DEF Spec

\* Types: the account keeps its size and holds bytes, offsets and lengths are
\* natural numbers, the loops stay on the tails.
THEOREM TypeCorrect == Spec => []TypeOK
<1>1. IInv => TypeOK
  BY DEF IInv
<1> QED
  BY <1>1, Invariance, PTL

\* For every schema, account and mix of edits, no copy of commit destroys a
\* byte of an unedited tail: at every step the tail is whole, where it was or
\* where it goes.
THEOREM KeptTailsSurviveAlways == Spec => []KeptTailsSurvive
<1>1. IInv => KeptTailsSurvive
  BY DEF IInv
<1> QED
  BY <1>1, Invariance, PTL

\* For every schema, account and mix of edits, the unchecked pointer
\* arithmetic of commit stays inside the account.
THEOREM CopiesStayInBoundsAlways == Spec => []CopiesStayInBounds
<1>1. IInv => CopiesStayInBounds
  <2> SUFFICES ASSUME IInv, Moving, NEW i \in TailId
               PROVE  /\ oldOff[i] + oldLen[i] <= size
                      /\ newOff[i] + newLen[i] <= size
                      /\ ~edits[i].staged => newLen[i] = oldLen[i]
    BY DEF CopiesStayInBounds
  <2> QED
    BY MovingFacts
<1> QED
  BY <1>1, Invariance, PTL

\* A commit that fails has written nothing: no error return is reachable once
\* bytes move, although phase 2 has several.
THEOREM FailureLeavesBytesAlways == Spec => []FailureLeavesBytes
<1>1. IInv => FailureLeavesBytes
  BY DEF IInv, BytesUntilMoving, FailureLeavesBytes
<1> QED
  BY <1>1, Invariance, PTL

\* The last step of a commit, behind the value it stores.
LEMMA FinishZeroes ==
    ASSUME IInv, Finish
    PROVE  /\ DOMAIN data = 0 .. (size - 1)
           /\ \A a \in 0 .. (size - 1) : a >= FinalTotal =>
                data'[a] = IF a < totalLen THEN 0 ELSE entry[a]
<1>1. Moving
  BY DEF Finish, Moving
<1>2. data \in [0 .. (size - 1) -> Byte] /\ FinalTotal \in Nat /\ size \in Nat /\ totalLen \in Nat
  BY <1>1, MovingFacts, FinalTotalBounds
<1>3. ASSUME NEW a \in 0 .. (size - 1), a >= FinalTotal
      PROVE  data'[a] = IF a < totalLen THEN 0 ELSE entry[a]
  <2>1. data'[a] = IF a < totalLen THEN 0 ELSE data[a]
    BY <1>2, <1>3 DEF Finish
  <2>2. ~(a < totalLen) => data[a] = entry[a]
    BY <1>1, <1>2, <1>3 DEF IInv, SpareUntouched
  <2> QED
    BY <2>1, <2>2
<1> QED
  BY <1>2, <1>3

\* A commit that succeeds zeroes what it vacates and leaves the rest of the
\* spare bytes as they were.
THEOREM VacatedBytesAreZeroedAlways == Spec => VacatedBytesAreZeroed
<1> DEFINE A == pc # "idle" /\ pc' = "idle" /\ result'.ok =>
        \A a \in DOMAIN data : a >= totalLen' =>
            data'[a] = IF a < totalLen THEN 0 ELSE entry[a]
<1>1. IInv /\ [Next]_vars => [A]_vars
  <2> SUFFICES ASSUME IInv, Next, pc # "idle", pc' = "idle", result'.ok
               PROVE  \A a \in DOMAIN data : a >= totalLen' =>
                          data'[a] = IF a < totalLen THEN 0 ELSE entry[a]
    OBVIOUS
  <2>1. Finish
    <3>1. \A x : ~Fail(x)
      BY ErrResult DEF Fail
    <3>2. ~SetInline /\ ~(\E i \in TailId : Set(i)) /\ ~Commit
      BY DEF SetInline, Set, Commit
    <3>3. \A next \in {"check", "back", "slots", "finish"} : ~Ascend(next)
      BY DEF Ascend
    <3>4. ~Setup /\ ~Check /\ ~Write /\ ~WriteSlot
      BY <3>1, <3>3 DEF Setup, Check, Write, WriteSlot
    <3>5. ~MoveBack /\ ~MoveForth
      BY DEF MoveBack, MoveForth
    <3> QED
      BY <3>2, <3>4, <3>5 DEF Next
  <2> QED
    BY <2>1, FinishZeroes DEF Finish
<1> QED
  BY <1>1, Invariance, PTL DEF Spec, VacatedBytesAreZeroed

-----------------------------------------------------------------------------
(* What a commit stores.                                                   *)
(*                                                                         *)
(* IInv says where bytes may go.  That the result validates again needs    *)
(* what they are: which offsets the plan computes, and that the bytes of   *)
(* the header, of the kept tails and of the edits are what those offsets   *)
(* promise.                                                                *)

\* Tail i's prefix or tag is stored; its payload is.
SlotDone(i) == edits[i].staged /\ (pc = "finish" \/ (pc = "slots" /\ i < cur))
PayloadDone(i) ==
    /\ edits[i].staged /\ edits[i].present
    /\ pc \in {"slots", "finish"} \/ (pc = "write" /\ i < cur)

\* The bytes a commit started from hold tails that the full walk accepts, and
\* total_len is their encoded length.
EntryStands ==
    /\ ValidateStorageLen(size).ok
    /\ WalkTails(entry, size, TRUE).ok
    /\ totalLen = EncodedLen(entry)

\* What is staged fits its field.
EditsFit ==
    \A i \in TailId : edits[i].staged =>
        /\ edits[i].count <= Tails[i].max
        /\ ~edits[i].present => edits[i].count = 0
        /\ \A k \in 1 .. Len(edits[i].bytes) : edits[i].bytes[k] \in Tails[i].ok

\* The old offsets are those of the replay.
SourcesAreReplayed ==
    \A i \in TailId : Prepared(i) =>
        /\ oldOff[i] = TailOffset(entry)[i]
        /\ oldOff[i] + oldLen[i] = TailOffset(entry)[i + 1]

\* The new offsets leave no gap.
DestinationsArePacked ==
    \A i \in TailId : Prepared(i) =>
        newOff[i] = IF i = 1 THEN HeaderSize ELSE newOff[i - 1] + newLen[i - 1]

\* The inline bytes, and the slots not yet written, are those of the entry.
HeaderIsKept ==
    Moving =>
        /\ \A a \in 0 .. (Inline.size - 1) : data[a] = entry[a]
        /\ \A i \in TailId : ~SlotDone(i) => Alike(entry, Slot[i], data, Slot[i], SlotWidth(i))

\* A slot that is written says what the edit does.
SlotsAreWritten ==
    \A i \in TailId : SlotDone(i) =>
        IF Tails[i].opt THEN data[Slot[i]] = IF edits[i].present THEN 1 ELSE 0
        ELSE Written(data, Slot[i], Tails[i].pfx, edits[i].count)

\* So does a payload.
PayloadsAreWritten ==
    \A i \in TailId : PayloadDone(i) =>
        /\ Tails[i].opt => Written(data, newOff[i], Tails[i].pfx, edits[i].count)
        /\ \A k \in 1 .. Len(edits[i].bytes) :
             data[PayloadFrom(i, newOff[i]) + k - 1] = edits[i].bytes[k]

CommitInv ==
    /\ EntryStands
    /\ EditsFit
    /\ SourcesAreReplayed
    /\ DestinationsArePacked
    /\ HeaderIsKept
    /\ SlotsAreWritten
    /\ PayloadsAreWritten

\* Outside the phases that lay out and write, only the entry and the edits
\* have to be kept.
LEMMA IdleKeeps ==
    ASSUME EntryStands', EditsFit', pc' = "idle"
    PROVE  CommitInv'
  BY DEF CommitInv, SourcesAreReplayed, DestinationsArePacked, HeaderIsKept, SlotsAreWritten,
         PayloadsAreWritten, Prepared, Moving, SlotDone, PayloadDone

\* A failed call keeps both.
LEMMA FailKeepsEntry ==
    ASSUME CommitInv, NEW e, Fail(e), UNCHANGED <<size, totalLen, edits, entry>>
    PROVE  CommitInv'
<1>1. EntryStands' /\ EditsFit' /\ pc' = "idle"
  BY DEF CommitInv, EntryStands, EditsFit, Fail
<1> QED
  BY <1>1, IdleKeeps

\* A validated account is one a commit can start from.
LEMMA EstablishedEntry ==
    ASSUME Validate(data, size).ok, entry = data, totalLen = EncodedLen(data)
    PROVE  EntryStands
<1>1. ValidateStorageLen(size).ok
  BY DEF Validate
<1>2. InlineValid(data)
  BY <1>1, ErrResult DEF Validate
<1> QED
  BY <1>1, <1>2 DEF Validate, EntryStands

\* A new writer stands on a validated account.
LEMMA CommitInit == Init => CommitInv
<1> SUFFICES ASSUME Init
             PROVE  CommitInv
  OBVIOUS
<1>1. EntryStands
  BY EstablishedEntry DEF Init
<1>2. \A i \in TailId : ~edits[i].staged
  BY DEF Init, NoEdits, Keep
<1> QED
  BY <1>1, <1>2
  DEF Init, CommitInv, EditsFit, SourcesAreReplayed, DestinationsArePacked, HeaderIsKept,
      SlotsAreWritten, PayloadsAreWritten, Prepared, Moving, SlotDone, PayloadDone

\* The account a commit starts from, tail by tail.
LEMMA EntryFacts ==
    ASSUME TypeOK, EntryStands
    PROVE  /\ size \in Nat /\ entry \in [0 .. (size - 1) -> Byte]
           /\ HeaderSize <= size /\ size <= UsizeMax /\ ValidateStorageLen(size).ok
           /\ Places(entry, size, TRUE, TailOffset(entry))
           /\ \A i \in 1 .. (TailCount + 1) :
                /\ TailOffset(entry)[i] \in Nat /\ HeaderSize <= TailOffset(entry)[i]
                /\ TailOffset(entry)[i] <= size /\ TailOffset(entry)[i] <= Capacity[i - 1]
                /\ TailOffset(entry)[i] <= totalLen
           /\ \A i \in TailId : TailOffset(entry)[i] <= TailOffset(entry)[i + 1]
           /\ totalLen = TailOffset(entry)[TailCount + 1]
<1> DEFINE f == TailOffset(entry)
<1>1. /\ size \in Nat /\ entry \in [0 .. (size - 1) -> Byte]
      /\ ValidateStorageLen(size).ok /\ WalkTails(entry, size, TRUE).ok /\ TRUE \in BOOLEAN
      /\ HeaderSize <= size /\ size <= UsizeMax
  BY StorageLen DEF TypeOK, EntryStands
<1>2. /\ Places(entry, size, TRUE, f)
      /\ \A i \in 1 .. (TailCount + 1) :
           /\ f[i] \in Nat /\ HeaderSize <= f[i] /\ f[i] <= size /\ f[i] <= Capacity[i - 1]
  BY <1>1, AcceptedReplay
<1>3. totalLen = f[TailCount + 1]
  BY DEF EntryStands, EncodedLen
<1> HIDE DEF f
<1>4. /\ \A i \in TailId : f[i] <= f[i + 1]
      /\ \A i \in 1 .. (TailCount + 1) : f[i] <= f[TailCount + 1]
  BY <1>1, <1>2, PlacesAreOrdered
<1> QED
  BY <1>1, <1>2, <1>3, <1>4 DEF f

\* An inline write does not touch the tails.
LEMMA SetInlineStores == IInv /\ CommitInv /\ SetInline => CommitInv'
<1> SUFFICES ASSUME IInv, CommitInv, SetInline
             PROVE  CommitInv'
  OBVIOUS
<1>1. PICK value \in InlineValues :
        data' = [a \in DOMAIN data |-> IF a < Inline.size THEN value[a] ELSE data[a]]
  BY DEF SetInline
<1>2. /\ pc = "idle" /\ pc' = "idle" /\ entry' = data' /\ data = entry
      /\ UNCHANGED <<size, totalLen, edits>>
  BY DEF SetInline, IInv, BytesUntilMoving
<1>3. /\ \A a \in 0 .. (Inline.size - 1) : value[a] \in Byte
      /\ Inline.size \in Nat
  BY WriterAssumption, SchemaAssumption, PrefixesAssumption
<1> DEFINE d == data'
<1>4. /\ size \in Nat /\ entry \in [0 .. (size - 1) -> Byte] /\ HeaderSize <= size
      /\ ValidateStorageLen(size).ok /\ WalkTails(entry, size, TRUE).ok
      /\ totalLen = EncodedLen(entry)
  BY EntryFacts DEF IInv, CommitInv, EntryStands
<1>5. /\ d \in [0 .. (size - 1) -> Byte]
      /\ \A a \in 0 .. (size - 1) : a >= Inline.size => d[a] = entry[a]
  BY <1>1, <1>2, <1>3, <1>4
<1> HIDE DEF d
<1>6. WalkTails(d, size, TRUE).ok /\ EncodedLen(d) = EncodedLen(entry)
  BY <1>4, <1>5, SameTails
<1>11. EntryStands'
  BY <1>2, <1>4, <1>6 DEF EntryStands, d
<1>12. EditsFit'
  BY <1>2 DEF CommitInv, EditsFit
<1> QED
  BY <1>2, <1>11, <1>12, IdleKeeps

\* A setter stages only what fits.
LEMMA SetStores == ASSUME NEW i \in TailId PROVE IInv /\ CommitInv /\ Set(i) => CommitInv'
<1> SUFFICES ASSUME IInv, CommitInv, Set(i)
             PROVE  CommitInv'
  OBVIOUS
<1>1. PICK e \in Offers[i] : Accepted(i, e) /\ edits' = [edits EXCEPT ![i] = e]
  BY DEF Set
<1>2. pc' = "idle" /\ UNCHANGED <<size, totalLen, entry>>
  BY DEF Set
<1>3. EntryStands'
  BY <1>2 DEF CommitInv, EntryStands
<1>4. e \in Edit /\ edits \in [TailId -> Edit]
  BY WriterAssumption DEF IInv, TypeOK
<1>5. /\ e.count <= Tails[i].max /\ (~e.present => e.count = 0)
      /\ \A k \in 1 .. Len(e.bytes) : e.bytes[k] \in Tails[i].ok
  <2>1. e.bytes \in Seq(Byte)
    BY <1>4 DEF Edit
  <2>2. DOMAIN e.bytes = 1 .. Len(e.bytes)
    BY <2>1
  <2>3. e.count <= Tails[i].max
    BY <1>1 DEF Accepted
  <2>4. \A k \in DOMAIN e.bytes : e.bytes[k] \in Tails[i].ok
    BY <1>1 DEF Accepted
  <2>5. ~e.present => e.count = 0
    BY WriterAssumption
  <2> QED
    BY <2>2, <2>3, <2>4, <2>5
<1>6. EditsFit'
  BY <1>1, <1>4, <1>5 DEF CommitInv, EditsFit
<1> QED
  BY <1>2, <1>3, <1>6, IdleKeeps

\* A commit starts from the account as it is.
LEMMA CommitStores == IInv /\ CommitInv /\ Commit => CommitInv'
<1> SUFFICES ASSUME IInv, CommitInv, Commit
             PROVE  CommitInv'
  OBVIOUS
<1>1. entry' = entry /\ data' = data /\ UNCHANGED <<size, totalLen, edits>>
  BY DEF Commit, IInv, BytesUntilMoving
<1>2. CASE \E e : Fail(e)
  BY <1>1, <1>2, FailKeepsEntry
<1>3. CASE pc' = "setup" /\ cur' = 1 /\ UNCHANGED <<locals, result>>
  <2>1. \A i \in TailId : ~(i < 1)
    BY Constants
  <2> QED
    BY <1>1, <1>3, <2>1
    DEF CommitInv, EntryStands, EditsFit, SourcesAreReplayed, DestinationsArePacked,
        HeaderIsKept, SlotsAreWritten, PayloadsAreWritten, Prepared, Moving, SlotDone, PayloadDone
<1> QED
  BY <1>2, <1>3 DEF Commit

\* The length commit reads for a stored tail is the one it has.
LEMMA OldLenExact ==
    ASSUME TypeOK, HeaderSize <= size, NEW i \in TailId, NEW off \in Nat, off <= size,
           off <= Capacity[i - 1], TailAccepted(data, size, i, off, TRUE), OldLen(i, off).ok
    PROVE  off + OldLen(i, off).value = TailEnd(data, i, off)
<1> DEFINE t == Tails[i]
           raw == StoredCount(data, i, off)
           payload == raw * t.size
           count == ReadPrefix(data, size, off, t.pfx)
<1>0. /\ size \in Nat /\ data \in [0 .. (size - 1) -> Byte]
      /\ t.opt \in BOOLEAN /\ t.pfx \in Width /\ t.pfx \in Nat /\ t.size \in Nat /\ UsizeMax \in Nat
  BY TailFacts, SchemaFacts DEF TypeOK
<1>1. CASE t.opt /\ data[Slot[i]] = 0
  BY <1>1, OkResult DEF OldLen, TailEnd
<1>2. CASE ~t.opt
  <2>0. payload \in Nat
    BY <1>0, <1>2, StoredCountNat
  <2>1. raw \in Nat /\ raw <= UsizeMax
    BY <1>0, <1>2, StoredCountNat DEF TailAccepted
  <2>2. CastPrefix(data, Slot[i], t.pfx) = raw
    <3>1. CastPrefix(data, Slot[i], t.pfx) = Wrap(raw)
      BY <1>2 DEF CastPrefix, StoredCount
    <3> HIDE DEF raw
    <3> QED
      BY <2>1, <3>1, SchemaFacts DEF Wrap
  <2>3. OldLen(i, off) = CheckedMul(raw, t.size)
    BY <1>2, <2>2 DEF OldLen
  <2>4. TailEnd(data, i, off) = off + payload
    BY <1>2 DEF TailEnd, PayloadFrom
  <2> HIDE DEF raw
  <2>5. OldLen(i, off).value = raw * t.size
    BY <1>0, <2>1, <2>3, CheckedMulResult
  <2> QED
    BY <2>0, <2>4, <2>5
<1>3. CASE t.opt /\ data[Slot[i]] # 0
  <2>1. data[Slot[i]] = 1 /\ off + t.pfx <= size /\ raw <= UsizeMax
    BY <1>3 DEF TailAccepted
  <2>2. raw \in Nat /\ payload \in Nat
    BY <1>0, <2>1, StoredCountNat
  <2>3. raw = RawPrefix(data, off, t.pfx) /\ PayloadFrom(i, off) = off + t.pfx
    BY <1>3 DEF StoredCount, PayloadFrom
  <2>4. count.ok => count.value = raw
    <3>2. CASE ~CheckedAdd(off, t.pfx).ok
      BY <3>2 DEF ReadPrefix
    <3>3. CASE CheckedAdd(off, t.pfx).ok /\ CheckedAdd(off, t.pfx).value > size
      BY <3>3, ErrResult DEF ReadPrefix
    <3>4. CASE CheckedAdd(off, t.pfx).ok /\ ~(CheckedAdd(off, t.pfx).value > size)
      <4>1. count = DecodePrefix(data, off, t.pfx)
        BY <3>4 DEF ReadPrefix
      <4>2. DecodePrefix(data, off, t.pfx) = Ok(raw)
        <5> HIDE DEF raw
        <5>1. ~(raw > UsizeMax)
          BY <1>0, <2>1, <2>2
        <5> QED
          BY <2>3, <5>1 DEF DecodePrefix
      <4> QED
        BY <4>1, <4>2 DEF Ok
    <3> QED
      BY <3>2, <3>3, <3>4
  <2> DEFINE product == CheckedMul(count.value, t.size)
             whole == CheckedAdd(t.pfx, product.value)
             end == CheckedAdd(off, whole.value)
  <2>5. OldLen(i, off) = IF ~count.ok THEN count
                         ELSE IF ~product.ok THEN product
                         ELSE IF ~whole.ok THEN whole
                         ELSE IF ~end.ok THEN end
                         ELSE IF end.value > totalLen THEN Err("BufferTooSmall")
                         ELSE whole
    BY <1>3, <2>1 DEF OldLen
  <2> HIDE DEF count
  <2>6. count.ok => (product.ok => product.value = raw * t.size)
    <3> HIDE DEF raw
    <3> QED
      BY <1>0, <2>2, <2>4, CheckedMulResult
  <2> HIDE DEF product
  <2>7. count.ok /\ product.ok /\ whole.ok => whole.value = t.pfx + payload
    <3>1. SUFFICES ASSUME count.ok, product.ok, whole.ok PROVE whole.value = t.pfx + payload
      OBVIOUS
    <3>2. product.value = payload
      BY <2>6, <3>1
    <3> HIDE DEF payload
    <3> QED
      BY <1>0, <2>2, <3>1, <3>2, CheckedAddResult
  <2> HIDE DEF whole, end
  <2>8. OldLen(i, off).value = t.pfx + payload
    BY <2>5, <2>7, ErrResult
  <2>9. TailEnd(data, i, off) = (off + t.pfx) + payload
    BY <1>3, <2>3 DEF TailEnd
  <2> HIDE DEF payload
  <2> QED
    BY <1>0, <2>2, <2>8, <2>9
<1> QED
  BY <1>0, <1>1, <1>2, <1>3

\* Laying out one more tail: the old offset is the replay's, the new one is
\* where the tail before ends.
LEMMA SetupStores == IInv /\ CommitInv /\ Setup => CommitInv'
<1> SUFFICES ASSUME IInv, CommitInv, Setup
             PROVE  CommitInv'
  OBVIOUS
<1> DEFINE oldStart == Start(cur, oldOff, oldLen)
           newStart == Start(cur, newOff, newLen)
           old == OldLen(cur, oldStart.value)
           new == NewLen(cur, old.value)
           f == TailOffset(entry)
<1>1. pc = "setup" /\ cur \in TailId /\ data = entry /\ UNCHANGED <<data, size, totalLen, edits, entry>>
  BY DEF Setup, IInv, TypeOK, BytesUntilMoving
<1>2. CASE \E e : Fail(e)
  BY <1>1, <1>2, FailKeepsEntry
<1>3. CASE /\ oldStart.ok /\ newStart.ok /\ old.ok /\ new.ok
           /\ oldOff' = [oldOff EXCEPT ![cur] = oldStart.value]
           /\ newOff' = [newOff EXCEPT ![cur] = newStart.value]
           /\ oldLen' = [oldLen EXCEPT ![cur] = old.value]
           /\ newLen' = [newLen EXCEPT ![cur] = new.value]
           /\ Ascend("check")
           /\ UNCHANGED result
  <2>1. /\ oldOff \in [TailId -> Nat] /\ oldLen \in [TailId -> Nat]
        /\ newOff \in [TailId -> Nat] /\ newLen \in [TailId -> Nat]
        /\ size \in Nat
    BY DEF IInv, TypeOK
  <2>2. /\ oldStart.value \in Nat /\ newStart.value \in Nat
        /\ oldStart.value = IF cur = 1 THEN HeaderSize ELSE oldOff[cur - 1] + oldLen[cur - 1]
        /\ newStart.value = IF cur = 1 THEN HeaderSize ELSE newOff[cur - 1] + newLen[cur - 1]
    BY <1>1, <1>3, <2>1, StartResult DEF IsResult
  <2>3. cur # 1 => cur - 1 \in TailId /\ cur - 1 < cur /\ cur - 1 # cur /\ (cur - 1) + 1 = cur
    BY <1>1, Constants DEF TailId
  <2>4. /\ HeaderSize <= size /\ Places(entry, size, TRUE, f)
        /\ \A i \in 1 .. (TailCount + 1) :
             f[i] \in Nat /\ HeaderSize <= f[i] /\ f[i] <= size /\ f[i] <= Capacity[i - 1]
    BY EntryFacts DEF IInv, CommitInv
  <2>5. cur \in 1 .. (TailCount + 1)
    BY <1>1, SchemaFacts
  <2> HIDE DEF f
  <2>6. oldStart.value = f[cur]
    <3>1. CASE cur = 1
      BY <2>2, <2>4, <3>1 DEF Places
    <3>2. CASE cur # 1
      <4>1. Prepared(cur - 1)
        BY <1>1, <2>3, <3>2 DEF Prepared
      <4>2. oldOff[cur - 1] + oldLen[cur - 1] = f[(cur - 1) + 1]
        BY <2>3, <3>2, <4>1 DEF CommitInv, SourcesAreReplayed, f
      <4> QED
        BY <2>2, <2>3, <3>2, <4>2
    <3> QED
      BY <3>1, <3>2
  <2> HIDE DEF oldStart, newStart
  <2>7. old.value \in Nat /\ oldStart.value + old.value = f[cur + 1]
    <3> DEFINE off == oldStart.value
    <3>1. off \in Nat /\ off <= size /\ off <= Capacity[cur - 1]
      BY <2>2, <2>4, <2>5, <2>6
    <3>2. TailAccepted(data, size, cur, off, TRUE) /\ TailEnd(data, cur, off) = f[cur + 1]
      BY <1>1, <2>4, <2>6 DEF Places
    <3>3. OldLen(cur, off).ok
      BY <1>3
    <3> HIDE DEF off
    <3>4. OldLen(cur, off).value \in Nat
      BY <1>1, <2>4, <3>1, OldLenResult DEF IInv, IsResult
    <3>5. off + OldLen(cur, off).value = TailEnd(data, cur, off)
      BY <1>1, <2>4, <3>1, <3>2, <3>3, OldLenExact DEF IInv
    <3> QED
      BY <3>2, <3>4, <3>5 DEF off
  <2> HIDE DEF old, new
  <2>8. \A i \in TailId : Prepared(i)' => i = cur \/ (i < cur /\ i # cur /\ Prepared(i))
    BY <1>1, <1>3, Constants DEF Prepared, Ascend
  <2>9. SourcesAreReplayed'
    <3>1. ASSUME NEW i \in TailId, Prepared(i)'
          PROVE  oldOff'[i] = f[i] /\ oldOff'[i] + oldLen'[i] = f[i + 1]
      <4>1. CASE i = cur
        BY <1>1, <1>3, <2>1, <2>6, <2>7, <4>1
      <4>2. CASE i # cur
        <5>1. Prepared(i)
          BY <2>8, <3>1, <4>2
        <5>2. oldOff'[i] = oldOff[i] /\ oldLen'[i] = oldLen[i]
          BY <1>3, <2>1, <4>2
        <5> QED
          BY <5>1, <5>2 DEF CommitInv, SourcesAreReplayed, f
      <4> QED
        BY <4>1, <4>2
    <3> QED
      BY <1>1, <3>1 DEF SourcesAreReplayed, f
  <2>10. DestinationsArePacked'
    <3>1. ASSUME NEW i \in TailId, Prepared(i)'
          PROVE  newOff'[i] = IF i = 1 THEN HeaderSize ELSE newOff'[i - 1] + newLen'[i - 1]
      <4>1. i # 1 => i - 1 \in TailId
        BY Constants DEF TailId
      <4>2. i # 1 => i - 1 # cur
        BY <1>1, <2>8, <3>1, Constants
      <4>3. i # 1 => newOff'[i - 1] = newOff[i - 1] /\ newLen'[i - 1] = newLen[i - 1]
        BY <1>3, <2>1, <4>1, <4>2
      <4>4. CASE i = cur
        BY <1>1, <1>3, <2>1, <2>2, <4>3, <4>4
      <4>5. CASE i # cur
        <5>1. Prepared(i) /\ newOff'[i] = newOff[i]
          BY <1>3, <2>1, <2>8, <3>1, <4>5
        <5>2. newOff[i] = IF i = 1 THEN HeaderSize ELSE newOff[i - 1] + newLen[i - 1]
          BY <5>1 DEF CommitInv, DestinationsArePacked
        <5> QED
          BY <4>3, <5>1, <5>2
      <4> QED
        BY <4>4, <4>5
    <3> QED
      BY <3>1 DEF DestinationsArePacked
  <2>11. pc' \in {"setup", "check"}
    BY <1>1, <1>3 DEF Ascend
  <2> QED
    BY <1>1, <2>9, <2>10, <2>11
    DEF CommitInv, EntryStands, EditsFit, HeaderIsKept, SlotsAreWritten, PayloadsAreWritten,
        Moving, SlotDone, PayloadDone
<1> QED
  BY <1>2, <1>3 DEF Setup

\* Checking a range changes no byte and no offset.
LEMMA CheckStores == IInv /\ CommitInv /\ Check => CommitInv'
<1> SUFFICES ASSUME IInv, CommitInv, Check
             PROVE  CommitInv'
  OBVIOUS
<1>1. pc = "check" /\ data = entry /\ UNCHANGED <<data, size, totalLen, edits, entry>>
  BY DEF Check, IInv, BytesUntilMoving
<1>2. CASE \E e : Fail(e)
  BY <1>1, <1>2, FailKeepsEntry
<1>3. CASE Ascend("back") /\ UNCHANGED <<locals, result>>
  <2>1. pc' \in {"check", "back"}
    BY <1>1, <1>3 DEF Ascend
  <2>2. EntryStands' /\ EditsFit'
    BY <1>1 DEF CommitInv, EntryStands, EditsFit
  <2>3. SourcesAreReplayed' /\ DestinationsArePacked'
    BY <1>1, <1>3, <2>1 DEF CommitInv, SourcesAreReplayed, DestinationsArePacked, Prepared, locals
  <2>4. HeaderIsKept'
    BY <1>1 DEF HeaderIsKept, Alike
  <2> QED
    BY <2>1, <2>2, <2>3, <2>4 DEF CommitInv, SlotsAreWritten, PayloadsAreWritten, SlotDone, PayloadDone
<1> QED
  BY <1>2, <1>3 DEF Check

\* While bytes move, the plan stands.
LEMMA PlanStands ==
    ASSUME CommitInv, Moving, Moving', UNCHANGED <<size, totalLen, edits, locals, entry>>,
           HeaderIsKept', SlotsAreWritten', PayloadsAreWritten'
    PROVE  CommitInv'
<1>1. \A i \in TailId : Prepared(i)
  BY DEF Moving, Prepared
<1>2. EntryStands' /\ EditsFit' /\ SourcesAreReplayed' /\ DestinationsArePacked'
  BY <1>1 DEF CommitInv, EntryStands, EditsFit, SourcesAreReplayed, DestinationsArePacked, locals
<1> QED
  BY <1>2 DEF CommitInv

\* A step that writes behind the header and finishes no slot keeps the header.
LEMMA HeaderStands ==
    ASSUME CommitInv, Moving, UNCHANGED <<edits, entry>>,
           \A a \in 0 .. (HeaderSize - 1) : data'[a] = data[a],
           \A i \in TailId : SlotDone(i)' <=> SlotDone(i)
    PROVE  HeaderIsKept' /\ SlotsAreWritten'
<1> DEFINE d == data'
<1>1. \A a \in 0 .. (HeaderSize - 1) : d[a] = data[a]
  OBVIOUS
<1>2. HeaderSize \in Nat /\ Inline.size \in Nat /\ Inline.size <= HeaderSize
  BY Constants, SlotOrder, SchemaAssumption, PrefixesAssumption
<1>3. \A i \in TailId : \A k \in 0 .. (SlotWidth(i) - 1) : d[Slot[i] + k] = data[Slot[i] + k]
  <2>1. ASSUME NEW i \in TailId, NEW k \in 0 .. (SlotWidth(i) - 1)
        PROVE  Slot[i] + k \in 0 .. (HeaderSize - 1)
    <3>1. /\ Slot[i] \in Nat /\ SlotWidth(i) \in Nat /\ Slot[i] + SlotWidth(i) <= HeaderSize
      BY SlotOrder, SlotFacts
    <3> QED
      BY <1>2, <2>1, <3>1
  <2> QED
    BY <1>1, <2>1
<1> HIDE DEF d
<1>4. HeaderIsKept /\ SlotsAreWritten
  BY DEF CommitInv
<1>5. \A a \in 0 .. (Inline.size - 1) : d[a] = entry[a]
  BY <1>1, <1>2, <1>4 DEF HeaderIsKept
<1>6. ASSUME NEW i \in TailId, ~SlotDone(i)
      PROVE  Alike(entry, Slot[i], d, Slot[i], SlotWidth(i))
  BY <1>3, <1>4, <1>6 DEF HeaderIsKept, Alike
<1>7. ASSUME NEW i \in TailId, SlotDone(i)
      PROVE  IF Tails[i].opt THEN d[Slot[i]] = IF edits[i].present THEN 1 ELSE 0
             ELSE Written(d, Slot[i], Tails[i].pfx, edits[i].count)
  <2>1. IF Tails[i].opt THEN data[Slot[i]] = IF edits[i].present THEN 1 ELSE 0
        ELSE Written(data, Slot[i], Tails[i].pfx, edits[i].count)
    BY <1>4, <1>7 DEF SlotsAreWritten
  <2>2. CASE Tails[i].opt
    <3>1. 0 \in 0 .. (SlotWidth(i) - 1) /\ Slot[i] + 0 = Slot[i]
      BY SlotOrder, SlotFacts
    <3> QED
      BY <1>3, <2>1, <2>2, <3>1
  <2>3. CASE ~Tails[i].opt
    <3>1. SlotWidth(i) = Tails[i].pfx
      BY <2>3 DEF SlotWidth
    <3> QED
      BY <1>3, <2>1, <2>3, <3>1 DEF Written
  <2> QED
    BY <2>2, <2>3
<1>8. HeaderIsKept'
  BY <1>5, <1>6 DEF HeaderIsKept, d
<1>9. SlotsAreWritten'
  BY <1>7 DEF SlotsAreWritten, d
<1> QED
  BY <1>8, <1>9

\* The copies of both phases leave the header alone.
LEMMA MoveStores == IInv /\ CommitInv /\ (MoveBack \/ MoveForth) => CommitInv'
<1> SUFFICES ASSUME IInv, CommitInv, MoveBack \/ MoveForth
             PROVE  CommitInv'
  OBVIOUS
<1>1. /\ pc \in {"back", "forth"} /\ Moving /\ Moving'
      /\ pc' \in {"back", "forth", "write"} /\ (pc' = "write" => cur' = cur /\ ~(cur > 1))
      /\ data' \in {data, Moved(cur)}
      /\ UNCHANGED <<size, totalLen, edits, locals, entry>>
  BY DEF MoveBack, MoveForth, Moving
<1>2. /\ size \in Nat /\ data \in [0 .. (size - 1) -> Byte] /\ cur \in TailId /\ HeaderSize \in Nat
      /\ HeaderSize <= size /\ totalLen \in Nat /\ totalLen <= size
  BY <1>1, MovingFacts, Constants DEF IInv, AccountFits
<1>3. \A a \in 0 .. (HeaderSize - 1) : data'[a] = data[a]
  <2>1. CASE data' = Moved(cur) /\ ~edits[cur].staged
    <3>1. /\ oldOff[cur] \in Nat /\ oldLen[cur] \in Nat /\ newOff[cur] \in Nat
          /\ oldOff[cur] + oldLen[cur] <= size /\ newOff[cur] + oldLen[cur] <= size
          /\ HeaderSize <= newOff[cur]
      BY <1>1, <1>2, <2>1, MovingFacts
    <3>2. \A a \in 0 .. (size - 1) : a < newOff[cur] \/ a >= newOff[cur] + oldLen[cur] => Moved(cur)[a] = data[a]
      BY <1>2, <3>1, CopiedBytes DEF Moved
    <3> QED
      BY <1>2, <2>1, <3>1, <3>2
  <2>2. CASE data' = data
    BY <2>2
  <2> QED
    BY <2>1, <2>2 DEF MoveBack, MoveForth, MovesBack, MovesForth
<1>4. \A i \in TailId : ~SlotDone(i) /\ ~SlotDone(i)'
  BY <1>1 DEF SlotDone
<1>5. HeaderIsKept' /\ SlotsAreWritten'
  BY <1>1, <1>3, <1>4, HeaderStands
<1>6. \A i \in TailId : ~PayloadDone(i)'
  BY <1>1, <1>2, Constants DEF PayloadDone
<1>7. PayloadsAreWritten'
  BY <1>6 DEF PayloadsAreWritten
<1> QED
  BY <1>1, <1>5, <1>7, PlanStands

\* Bytes a step leaves alone keep a payload.
LEMMA PayloadStands ==
    ASSUME IInv, CommitInv, Moving, NEW i \in TailId, PayloadDone(i),
           NEW d, Alike(d, newOff[i], data, newOff[i], newLen[i])
    PROVE  /\ Tails[i].opt => Written(d, newOff[i], Tails[i].pfx, edits[i].count)
           /\ \A k \in 1 .. Len(edits[i].bytes) :
                d[PayloadFrom(i, newOff[i]) + k - 1] = edits[i].bytes[k]
<1> DEFINE pfx == Tails[i].pfx
           bytes == edits[i].bytes
           to == newOff[i]
           end == newOff[i] + newLen[i]
<1>1. /\ Tails[i].opt => Written(data, to, pfx, edits[i].count)
      /\ \A k \in 1 .. Len(bytes) : data[PayloadFrom(i, to) + k - 1] = bytes[k]
  BY DEF CommitInv, PayloadsAreWritten
<1>2. /\ pfx \in Nat /\ to \in Nat /\ Len(bytes) \in Nat
      /\ newLen[i] \in Nat
  <2>1. bytes \in Seq(Byte)
    BY DEF IInv, TypeOK, Edit
  <2> QED
    BY <2>1, MovingFacts, TailFacts
<1>3. newLen[i] = (IF Tails[i].opt THEN pfx ELSE 0) + Len(bytes)
  BY DEF IInv, LengthsArePlanned, Prepared, Moving, EditLen, PayloadDone
<1>4. /\ PayloadFrom(i, to) \in Nat /\ to <= PayloadFrom(i, to)
      /\ PayloadFrom(i, to) + Len(bytes) = end
      /\ Tails[i].opt => PayloadFrom(i, to) = to + pfx
  <2>1. CASE Tails[i].opt
    <3>1. PayloadFrom(i, to) = to + pfx /\ newLen[i] = pfx + Len(bytes)
      BY <1>3, <2>1 DEF PayloadFrom
    <3> HIDE DEF pfx, bytes
    <3> QED
      BY <1>2, <3>1
  <2>2. CASE ~Tails[i].opt
    <3>1. PayloadFrom(i, to) = to /\ newLen[i] = Len(bytes)
      BY <1>2, <1>3, <2>2 DEF PayloadFrom
    <3> HIDE DEF bytes
    <3> QED
      BY <1>2, <2>2, <3>1
  <2> QED
    BY <2>1, <2>2
<1>5. \A a \in to .. (end - 1) : d[a] = data[a]
  <2>1. \A a \in to .. (end - 1) : a - to \in 0 .. (newLen[i] - 1) /\ to + (a - to) = a
    BY <1>2
  <2> QED
    BY <2>1 DEF Alike
<1> HIDE DEF pfx, bytes, to, end
<1>6. Tails[i].opt => Written(d, to, pfx, edits[i].count)
  <2>1. Tails[i].opt => \A k \in 0 .. (pfx - 1) : to + k \in to .. (end - 1)
    BY <1>2, <1>4
  <2> QED
    BY <1>1, <1>5, <2>1 DEF Written
<1>7. \A k \in 1 .. Len(bytes) : d[PayloadFrom(i, to) + k - 1] = bytes[k]
  <2>1. \A k \in 1 .. Len(bytes) : PayloadFrom(i, to) + k - 1 \in to .. (end - 1)
    BY <1>2, <1>4
  <2> QED
    BY <1>1, <1>5, <2>1
<1> QED
  BY <1>6, <1>7 DEF pfx, bytes, to

\* Phase 2 stores one payload and spares those before it.
LEMMA WriteStores == IInv /\ CommitInv /\ Write => CommitInv'
<1> SUFFICES ASSUME IInv, CommitInv, Write
             PROVE  CommitInv'
  OBVIOUS
<1> DEFINE e == edits[cur]
           d == data'
<1>1. pc = "write" /\ Moving /\ UNCHANGED <<size, totalLen, edits, entry>>
  BY DEF Write, Moving
<1>2. /\ cur \in TailId /\ size \in Nat /\ data \in [0 .. (size - 1) -> Byte]
      /\ newOff[cur] \in Nat /\ newLen[cur] \in Nat /\ HeaderSize <= newOff[cur]
      /\ HeaderSize \in Nat /\ HeaderSize <= size
      /\ e.staged \in BOOLEAN /\ e.present \in BOOLEAN
  BY <1>1, MovingFacts, Constants DEF IInv, TypeOK, Edit, AccountFits
<1>3. /\ \A a \in 0 .. (size - 1) :
           a < newOff[cur] \/ a >= newOff[cur] + newLen[cur] => d[a] = data[a]
      /\ e.staged /\ e.present =>
           /\ Tails[cur].opt => Written(d, newOff[cur], Tails[cur].pfx, e.count)
           /\ \A k \in 1 .. Len(e.bytes) : d[PayloadFrom(cur, newOff[cur]) + k - 1] = e.bytes[k]
      /\ Ascend("slots") /\ UNCHANGED <<locals, result>>
  <2>1. CASE ~e.staged \/ ~e.present
    BY <2>1 DEF Write
  <2>2. CASE e.staged /\ e.present
    BY <2>2, EditIsWritten
  <2> QED
    BY <1>2, <2>1, <2>2
<1>4. /\ pc' \in {"write", "slots"} /\ Moving' /\ (pc' = "slots" => cur' = 1 /\ ~(cur < TailCount))
      /\ pc' = "write" => cur' = cur + 1
  BY <1>1, <1>3 DEF Ascend, Moving
<1> HIDE DEF d
<1>5. \A a \in 0 .. (HeaderSize - 1) : d[a] = data[a]
  BY <1>2, <1>3
<1>6. \A i \in TailId : SlotDone(i)' <=> SlotDone(i)
  BY <1>1, <1>4, Constants DEF SlotDone
<1>7. HeaderIsKept' /\ SlotsAreWritten'
  <2>1. \A a \in 0 .. (HeaderSize - 1) : data'[a] = data[a]
    BY <1>5 DEF d
  <2>2. UNCHANGED <<edits, entry>>
    BY <1>1
  <2> QED
    BY <1>1, <1>6, <2>1, <2>2, HeaderStands
<1>8. \A i \in TailId : PayloadDone(i)' => edits[i].staged /\ edits[i].present /\ (i = cur \/ i < cur)
  <2>1. ASSUME NEW i \in TailId, PayloadDone(i)'
        PROVE  edits[i].staged /\ edits[i].present
    BY <1>1, <2>1 DEF PayloadDone
  <2>2. ASSUME NEW i \in TailId, PayloadDone(i)'
        PROVE  i = cur \/ i < cur
    <3>1. pc' = "slots" \/ (pc' = "write" /\ i < cur')
      BY <1>4, <2>2 DEF PayloadDone
    <3> QED
      BY <1>2, <1>4, <3>1, Constants
  <2> QED
    BY <2>1, <2>2
<1>9. ASSUME NEW i \in TailId, PayloadDone(i)'
      PROVE  /\ Tails[i].opt => Written(d, newOff[i], Tails[i].pfx, edits[i].count)
             /\ \A k \in 1 .. Len(edits[i].bytes) :
                  d[PayloadFrom(i, newOff[i]) + k - 1] = edits[i].bytes[k]
  <2>1. CASE i = cur
    BY <1>3, <1>8, <1>9, <2>1
  <2>2. CASE i < cur
    <3>1. PayloadDone(i)
      BY <1>1, <1>8, <1>9, <2>2 DEF PayloadDone
    <3>2. /\ newOff[i] \in Nat /\ newLen[i] \in Nat /\ newOff[i] + newLen[i] <= newOff[cur]
          /\ newOff[i] + newLen[i] <= size
      BY <1>1, <1>2, <2>2, MovingFacts
    <3>3. Alike(d, newOff[i], data, newOff[i], newLen[i])
      <4>1. \A k \in 0 .. (newLen[i] - 1) : newOff[i] + k \in 0 .. (size - 1) /\ newOff[i] + k < newOff[cur]
        BY <1>2, <3>2
      <4> QED
        BY <1>3, <4>1 DEF Alike
    <3> QED
      BY <1>1, <3>1, <3>3, PayloadStands
  <2> QED
    BY <1>8, <1>9, <2>1, <2>2
<1>10. PayloadsAreWritten'
  BY <1>1, <1>3, <1>9 DEF PayloadsAreWritten, locals, d
<1> QED
  BY <1>1, <1>3, <1>4, <1>7, <1>10, PlanStands

\* The header loop stores one slot and spares the others and the payloads.
LEMMA WriteSlotStores == IInv /\ CommitInv /\ WriteSlot => CommitInv'
<1> SUFFICES ASSUME IInv, CommitInv, WriteSlot
             PROVE  CommitInv'
  OBVIOUS
<1> DEFINE d == data'
           lo == Slot[cur]
           hi == Slot[cur] + SlotWidth(cur)
<1>1. pc = "slots" /\ Moving /\ UNCHANGED <<size, totalLen, edits, entry>>
  BY DEF WriteSlot, Moving
<1>2. /\ cur \in TailId /\ size \in Nat /\ HeaderSize \in Nat /\ HeaderSize <= size
      /\ \A i \in TailId : edits[i].staged \in BOOLEAN
  BY <1>1, MovingFacts, Constants DEF IInv, AccountFits
<1>3. /\ \A a \in 0 .. (size - 1) : a < lo \/ a >= hi => d[a] = data[a]
      /\ ~edits[cur].staged => d = data
      /\ edits[cur].staged =>
           IF Tails[cur].opt THEN d[lo] = IF edits[cur].present THEN 1 ELSE 0
           ELSE Written(d, lo, Tails[cur].pfx, edits[cur].count)
      /\ Ascend("finish") /\ UNCHANGED <<locals, result>>
  BY SlotIsWritten
<1>4. /\ pc' \in {"slots", "finish"} /\ Moving' /\ (pc' = "finish" => ~(cur < TailCount))
      /\ pc' = "slots" => cur' = cur + 1
  BY <1>1, <1>3 DEF Ascend, Moving
<1>5. /\ \A i \in TailId :
           /\ Slot[i] \in Nat /\ SlotWidth(i) \in Nat /\ SlotWidth(i) > 0
           /\ Slot[i] + SlotWidth(i) <= HeaderSize /\ Inline.size <= Slot[i]
           /\ i < cur => Slot[i] + SlotWidth(i) <= lo
           /\ cur < i => hi <= Slot[i]
      /\ Inline.size \in Nat
  BY <1>2, SlotOrder, SlotFacts, SchemaAssumption, PrefixesAssumption
<1>6. \A i \in TailId : i = cur \/ i < cur \/ cur < i
  BY <1>2, Constants
<1>7. \A i \in TailId : SlotDone(i)' <=> edits[i].staged /\ (i = cur \/ i < cur)
  <2>1. CASE pc' = "slots"
    <3>1. \A i \in TailId : i < cur + 1 <=> i = cur \/ i < cur
      BY <1>2, Constants
    <3>. QED
      BY <1>1, <1>4, <2>1, <3>1 DEF SlotDone
  <2>2. CASE pc' = "finish"
    <3>1. \A i \in TailId : i = cur \/ i < cur
      BY <1>2, <1>4, <2>2, Constants
    <3>. QED
      BY <1>1, <2>2, <3>1 DEF SlotDone
  <2>. QED
    BY <1>4, <2>1, <2>2
<1>8. \A i \in TailId : SlotDone(i) <=> edits[i].staged /\ i < cur
  BY <1>1 DEF SlotDone
<1> HIDE DEF d
\* The slot of another tail is not touched.
<1>9. ASSUME NEW i \in TailId, i # cur, NEW k \in 0 .. (SlotWidth(i) - 1)
      PROVE  d[Slot[i] + k] = data[Slot[i] + k]
  <2>1. CASE i < cur
    <3>1. Slot[i] + k \in 0 .. (size - 1) /\ Slot[i] + k < lo
      BY <1>2, <1>5, <1>9, <2>1
    <3> QED
      BY <1>3, <3>1
  <2>2. CASE cur < i
    <3>1. Slot[i] + k \in 0 .. (size - 1) /\ Slot[i] + k >= hi
      BY <1>2, <1>5, <1>9, <2>2
    <3> QED
      BY <1>3, <3>1
  <2> QED
    BY <1>6, <1>9, <2>1, <2>2
<1>10. HeaderIsKept /\ SlotsAreWritten
  BY DEF CommitInv
<1>11. \A a \in 0 .. (Inline.size - 1) : d[a] = entry[a]
  <2>1. \A a \in 0 .. (Inline.size - 1) : a \in 0 .. (size - 1) /\ a < lo
    BY <1>2, <1>5
  <2> QED
    BY <1>1, <1>3, <1>10, <2>1 DEF HeaderIsKept
<1>12. ASSUME NEW i \in TailId, ~SlotDone(i)'
       PROVE  Alike(entry, Slot[i], d, Slot[i], SlotWidth(i))
  <2>1. ~SlotDone(i)
    BY <1>7, <1>8, <1>12
  <2>2. Alike(entry, Slot[i], data, Slot[i], SlotWidth(i))
    BY <1>1, <1>10, <2>1 DEF HeaderIsKept
  <2>3. CASE i = cur
    <3>1. d = data
      BY <1>3, <1>7, <1>12, <2>3
    <3> QED
      BY <2>2, <3>1
  <2>4. CASE i # cur
    BY <1>9, <2>2, <2>4 DEF Alike
  <2> QED
    BY <2>3, <2>4
<1>13. ASSUME NEW i \in TailId, SlotDone(i)'
       PROVE  IF Tails[i].opt THEN d[Slot[i]] = IF edits[i].present THEN 1 ELSE 0
              ELSE Written(d, Slot[i], Tails[i].pfx, edits[i].count)
  <2>1. CASE i = cur
    BY <1>3, <1>7, <1>13, <2>1
  <2>2. CASE i # cur
    <3>1. SlotDone(i)
      BY <1>7, <1>8, <1>13, <2>2
    <3>2. IF Tails[i].opt THEN data[Slot[i]] = IF edits[i].present THEN 1 ELSE 0
          ELSE Written(data, Slot[i], Tails[i].pfx, edits[i].count)
      BY <1>10, <3>1 DEF SlotsAreWritten
    <3>3. CASE Tails[i].opt
      <4>1. 0 \in 0 .. (SlotWidth(i) - 1) /\ Slot[i] + 0 = Slot[i]
        BY <1>5
      <4> QED
        BY <1>9, <2>2, <3>2, <3>3, <4>1
    <3>4. CASE ~Tails[i].opt
      <4>1. SlotWidth(i) = Tails[i].pfx
        BY <3>4 DEF SlotWidth
      <4> QED
        BY <1>9, <2>2, <3>2, <3>4, <4>1 DEF Written
    <3> QED
      BY <3>3, <3>4
  <2> QED
    BY <2>1, <2>2
<1>14. HeaderIsKept'
  BY <1>1, <1>11, <1>12 DEF HeaderIsKept, d
<1>15. SlotsAreWritten'
  BY <1>1, <1>13 DEF SlotsAreWritten, d
<1>16. ASSUME NEW i \in TailId, PayloadDone(i)'
       PROVE  /\ Tails[i].opt => Written(d, newOff[i], Tails[i].pfx, edits[i].count)
              /\ \A k \in 1 .. Len(edits[i].bytes) :
                   d[PayloadFrom(i, newOff[i]) + k - 1] = edits[i].bytes[k]
  <2>1. PayloadDone(i)
    BY <1>1, <1>16 DEF PayloadDone
  <2>2. /\ newOff[i] \in Nat /\ newLen[i] \in Nat /\ HeaderSize <= newOff[i]
        /\ newOff[i] + newLen[i] <= size
    BY <1>1, <1>2, MovingFacts
  <2>3. Alike(d, newOff[i], data, newOff[i], newLen[i])
    <3>1. \A k \in 0 .. (newLen[i] - 1) : newOff[i] + k \in 0 .. (size - 1) /\ newOff[i] + k >= hi
      BY <1>2, <1>5, <2>2
    <3> QED
      BY <1>3, <3>1 DEF Alike
  <2> QED
    BY <1>1, <2>1, <2>3, PayloadStands
<1>17. PayloadsAreWritten'
  BY <1>1, <1>3, <1>16 DEF PayloadsAreWritten, locals, d
<1> QED
  BY <1>1, <1>3, <1>4, <1>14, <1>15, <1>17, PlanStands

\* What the account holds when a commit is done, tail by tail.
LEMMA FinishedTail ==
    ASSUME IInv, CommitInv, pc = "finish", NEW i \in TailId,
           NEW d \in [0 .. (size - 1) -> Byte], Alike(d, 0, data, 0, FinalTotal)
    PROVE  /\ Holds(d, size, i, newOff[i], newLen[i], TRUE)
           /\ PlacedBytes(d, i, newOff[i]) =
                IF edits[i].staged THEN Replacement(i) ELSE PlacedBytes(entry, i, oldOff[i])
<1> DEFINE e == edits[i]
           t == Tails[i]
           to == newOff[i]
           len == newLen[i]
           off == oldOff[i]
<1>1. Moving /\ Prepared(i)
  BY DEF Moving, Prepared
<1>2. /\ size \in Nat /\ to \in Nat /\ len \in Nat /\ off \in Nat /\ HeaderSize \in Nat
      /\ HeaderSize <= size /\ data \in [0 .. (size - 1) -> Byte]
      /\ HeaderSize <= FinalTotal /\ to + len <= FinalTotal /\ FinalTotal <= size /\ FinalTotal \in Nat
      /\ to + len <= size /\ HeaderSize <= to
      /\ t.opt \in BOOLEAN /\ e.staged \in BOOLEAN /\ e.present \in BOOLEAN
      /\ t.pfx \in Nat
  BY <1>1, MovingFacts, FinalTotalBounds, Constants, TailFacts DEF IInv, AccountFits, TypeOK, Edit
<1>3. \A a \in 0 .. (FinalTotal - 1) : d[a] = data[a]
  BY <1>2 DEF Alike
<1>4. /\ Slot[i] \in Nat /\ SlotWidth(i) \in Nat /\ SlotWidth(i) > 0
      /\ Slot[i] + SlotWidth(i) <= HeaderSize
      /\ \A k \in 0 .. (SlotWidth(i) - 1) : Slot[i] + k \in 0 .. (FinalTotal - 1)
  BY SMTT(60), <1>2, SlotOrder, SlotFacts
<1>5. CASE ~e.staged
  <2>1. len = oldLen[i]
    BY <1>1, <1>5, MovingFacts
  <2>2. /\ entry \in [0 .. (size - 1) -> Byte]
        /\ off \in Nat /\ off <= size /\ off <= Capacity[i - 1]
        /\ Holds(entry, size, i, off, len, TRUE)
    <3> DEFINE f == TailOffset(entry)
    <3>1. /\ entry \in [0 .. (size - 1) -> Byte] /\ Places(entry, size, TRUE, f)
          /\ \A j \in 1 .. (TailCount + 1) : f[j] \in Nat /\ f[j] <= size /\ f[j] <= Capacity[j - 1]
      BY EntryFacts DEF IInv, CommitInv
    <3>2. off = f[i] /\ off + oldLen[i] = f[i + 1]
      BY <1>1 DEF CommitInv, SourcesAreReplayed
    <3>3. i \in 1 .. (TailCount + 1)
      BY SchemaFacts
    <3> HIDE DEF f
    <3>4. TailAccepted(entry, size, i, off, TRUE) /\ TailEnd(entry, i, off) = off + len
      BY <2>1, <3>1, <3>2 DEF Places
    <3> QED
      BY <3>1, <3>2, <3>3, <3>4 DEF Holds
  <2>3. Alike(entry, Slot[i], d, Slot[i], SlotWidth(i))
    <3>1. Alike(entry, Slot[i], data, Slot[i], SlotWidth(i))
      BY <1>1, <1>5 DEF CommitInv, HeaderIsKept, SlotDone
    <3> QED
      BY <1>3, <1>4, <3>1 DEF Alike
  <2>4. Alike(entry, off, d, to, len)
    <3>1. ASSUME NEW b \in 0 .. (len - 1)
          PROVE  entry[off + b] = d[to + b]
      <4>1. oldLen[i] > 0
        BY <1>2, <2>1, <3>1
      <4>2. Place(i) = to
        BY <1>5, <4>1, KeptTailsArrived
      <4>3. data[to + b] = entry[off + b]
        BY <1>1, <1>5, <2>1, <4>2 DEF IInv, KeptTailsSurvive
      <4>4. to + b \in 0 .. (FinalTotal - 1)
        BY SMTT(60), <1>2
      <4> QED
        BY <1>3, <4>3, <4>4
    <3> QED
      BY <3>1 DEF Alike
  <2> HIDE DEF to, len, off
  <2>5. Holds(d, size, i, to, len, TRUE)
    BY <1>2, <2>2, <2>3, <2>4, CopyHolds
  <2>6. PlacedBytes(d, i, to) = PlacedBytes(entry, i, off)
    <3> DEFINE full == TRUE
    <3>1. Holds(entry, size, i, off, len, full)
      BY <2>2
    <3>2. /\ size \in Nat /\ HeaderSize <= size /\ entry \in [0 .. (size - 1) -> Byte]
          /\ off \in Nat /\ off <= size /\ off <= Capacity[i - 1]
          /\ len \in Nat /\ to \in Nat
      BY <1>2, <2>2
    <3> HIDE DEF full
    <3> QED
      BY SMTT(60), <2>3, <2>4, <3>1, <3>2, CopyShows
  <2> QED
    BY <1>5, <2>5, <2>6 DEF to, len, off
<1>6. CASE e.staged
  <2>1. /\ SlotDone(i)
        /\ len = IF ~e.present THEN 0 ELSE (IF t.opt THEN t.pfx ELSE 0) + Len(e.bytes)
        /\ e.present \/ t.opt
    BY <1>1, <1>6 DEF SlotDone, IInv, LengthsArePlanned, EditLen, EditsAccepted
  <2>2. IF t.opt THEN data[Slot[i]] = IF e.present THEN 1 ELSE 0
        ELSE Written(data, Slot[i], t.pfx, e.count)
    BY <2>1 DEF CommitInv, SlotsAreWritten
  <2>3. t.opt => d[Slot[i]] = IF e.present THEN 1 ELSE 0
    <3>1. Slot[i] \in 0 .. (FinalTotal - 1)
      BY <1>2, <1>4
    <3> QED
      BY <1>3, <2>2, <3>1
  <2>4. CASE ~e.present
    <3>1. t.opt /\ d[Slot[i]] = 0 /\ len = 0
      BY <2>1, <2>3, <2>4
    <3>2. TailAccepted(d, size, i, to, TRUE)
      BY <3>1 DEF TailAccepted
    <3>3. TailEnd(d, i, to) = to
      BY <3>1 DEF TailEnd
    <3>4. to = to + len
      BY <1>2, <3>1
    <3>5. TailEnd(d, i, to) = to + len
      BY <3>3, <3>4
    <3>6. e.bytes = << >>
      <4>1. e.count = 0 /\ Len(e.bytes) = e.count * t.size /\ t.size \in Nat /\ e.bytes \in Seq(Byte)
        BY <1>6, <2>4, TailFacts DEF CommitInv, EditsFit, IInv, EditsAccepted, TypeOK, Edit
      <4>2. Len(e.bytes) = 0
        BY <4>1
      <4> QED
        BY <4>1, <4>2
    <3>7. PlacedBytes(d, i, to) = Replacement(i)
      <4>1. edits[i].present = FALSE
        BY <1>2, <2>4
      <4>2. Replacement(i) = [present |-> FALSE, bytes |-> << >>]
        BY <3>6, <4>1 DEF Replacement
      <4> QED
        BY <3>1, <4>2 DEF PlacedBytes
    <3> QED
      BY <1>6, <3>2, <3>5, <3>7 DEF Holds
  <2>5. CASE e.present
    <3> DEFINE count == e.count
               bytes == e.bytes
    <3>1. count \in Nat /\ bytes \in Seq(Byte)
      BY DEF IInv, TypeOK, Edit
    <3>2. Storable(i, count, bytes)
      BY <1>6 DEF CommitInv, EditsFit, IInv, EditsAccepted, Storable
    <3>3. /\ t.opt => Written(data, to, t.pfx, count)
          /\ \A k \in 1 .. Len(bytes) : data[PayloadFrom(i, to) + k - 1] = bytes[k]
      BY <1>6, <2>5 DEF CommitInv, PayloadsAreWritten, PayloadDone
    <3>4. len = (IF t.opt THEN t.pfx ELSE 0) + Len(bytes) /\ Len(bytes) \in Nat
      BY <2>1, <2>5, <3>1
    <3> HIDE DEF count, bytes
    <3>5. t.opt => d[Slot[i]] = 1 /\ Written(d, to, t.pfx, count)
      <4>1. ASSUME t.opt, NEW k \in 0 .. (t.pfx - 1)
            PROVE  to + k \in 0 .. (FinalTotal - 1)
        <5> DEFINE m == Len(bytes)
                   p == t.pfx
        <5>1. len = p + m /\ m \in Nat /\ p \in Nat /\ k \in 0 .. (p - 1)
          BY <1>2, <3>4, <4>1
        <5>2. to \in Nat /\ FinalTotal \in Nat /\ to + len <= FinalTotal
          BY <1>2
        <5> HIDE DEF m, p, to, len, t
        <5> QED
          BY <5>1, <5>2
      <4> QED
        BY <1>3, <2>3, <2>5, <3>3, <4>1 DEF Written
    <3>6. ~t.opt => Written(d, Slot[i], t.pfx, count)
      <4>1. ~t.opt => SlotWidth(i) = t.pfx
        BY DEF SlotWidth
      <4> QED
        BY <1>3, <1>4, <2>2, <4>1 DEF Written, count
    <3>7. Carries(d, PayloadFrom(i, to), bytes)
      <4> DEFINE from == PayloadFrom(i, to)
                 m == Len(bytes)
      <4>1. from \in Nat /\ from + m = to + len /\ m \in Nat
        <5>1. CASE t.opt
          <6>1. from = to + t.pfx /\ len = t.pfx + m
            BY <3>4, <5>1 DEF PayloadFrom
          <6>2. m \in Nat
            BY <3>4
          <6> HIDE DEF m, from, to, len, t
          <6> QED
            BY <1>2, <6>1, <6>2
        <5>2. CASE ~t.opt
          <6>1. from = to /\ len = 0 + m
            BY <3>4, <5>2 DEF PayloadFrom
          <6>2. m \in Nat
            BY <3>4
          <6> HIDE DEF m, from, to, len, t
          <6> QED
            BY <1>2, <6>1, <6>2
        <5> QED
          BY <5>1, <5>2
      <4> HIDE DEF from, m
      <4>2. \A k \in 1 .. m : from + k - 1 \in 0 .. (FinalTotal - 1)
        BY <1>2, <4>1
      <4> QED
        BY <1>3, <3>3, <4>2 DEF Carries, from, m
    <3> HIDE DEF to, len
    <3>8. Shows(d, size, i, to, len, bytes)
      BY <1>2, <3>1, <3>2, <3>4, <3>5, <3>6, <3>7, StoredTailShows
    <3>9. Replacement(i) = [present |-> TRUE, bytes |-> bytes]
      <4>1. edits[i].present = TRUE
        BY <2>5
      <4> QED
        BY <4>1 DEF bytes, Replacement
    <3>10. PlacedBytes(d, i, to) = Replacement(i)
      BY <3>8, <3>9 DEF Shows
    <3> QED
      BY <1>6, <3>8, <3>10 DEF to, len, Shows
  <2> QED
    BY <1>2, <2>4, <2>5
<1> QED
  BY <1>2, <1>5, <1>6

\* Where the tails are after a commit, and where they end.
Destinations == [i \in 1 .. (TailCount + 1) |-> IF i = TailCount + 1 THEN FinalTotal ELSE newOff[i]]

\* The return of a commit leaves its tails at their new offsets.
LEMMA FinishedPlaces ==
    ASSUME IInv, CommitInv, Finish
    PROVE  /\ data' \in [0 .. (size - 1) -> Byte]
           /\ Alike(data', 0, data, 0, FinalTotal)
           /\ Places(data', size, TRUE, Destinations)
           /\ \A i \in TailId : i \in 1 .. (TailCount + 1) /\ Destinations[i] = newOff[i]
           /\ Destinations[TailCount + 1] = FinalTotal
<1> DEFINE d == data'
           f == Destinations
<1>1. pc = "finish" /\ Moving /\ pc' = "idle" /\ entry' = data' /\ size' = size /\ totalLen' = FinalTotal
      /\ edits' = NoEdits
  BY DEF Finish, Return, Moving
<1>2. /\ size \in Nat /\ FinalTotal \in Nat /\ FinalTotal <= size /\ HeaderSize <= FinalTotal
      /\ data \in [0 .. (size - 1) -> Byte] /\ HeaderSize \in Nat
  BY <1>1, FinalTotalBounds, MovingFacts, Constants
<1>3. d \in [0 .. (size - 1) -> Byte] /\ Alike(d, 0, data, 0, FinalTotal)
  <2>1. 0 \in Byte
    BY Constants DEF Byte
  <2>2. d = [a \in DOMAIN data |-> IF FinalTotal <= a /\ a < totalLen THEN 0 ELSE data[a]]
    BY DEF Finish
  <2>3. d \in [0 .. (size - 1) -> Byte]
    BY <1>2, <2>1, <2>2
  <2>4. \A a \in 0 .. (FinalTotal - 1) : d[0 + a] = data[0 + a]
    BY <1>2, <2>2
  <2> QED
    BY <2>3, <2>4 DEF Alike
<1> HIDE DEF d
<1>f. f = [i \in 1 .. (TailCount + 1) |-> IF i = TailCount + 1 THEN FinalTotal ELSE newOff[i]]
  BY DEF Destinations
<1> HIDE DEF f
<1>4. ASSUME NEW i \in TailId
      PROVE  TailAccepted(d, size, i, f[i], TRUE) /\ f[i + 1] = TailEnd(d, i, f[i])
  <2>1. i \in 1 .. (TailCount + 1) /\ i + 1 \in 1 .. (TailCount + 1) /\ i # TailCount + 1
        /\ (i + 1) - 1 = i /\ i + 1 # 1 /\ i \in Nat
    BY SchemaFacts
  <2>2. f[i] = newOff[i]
    BY <1>f, <2>1
  <2>3. f[i + 1] = newOff[i] + newLen[i]
    <3>1. CASE i = TailCount
      BY <1>f, <2>1, <3>1 DEF FinalTotal
    <3>2. CASE i # TailCount
      <4>1. i + 1 \in TailId /\ i + 1 # TailCount + 1
        BY <2>1, <3>2, Constants DEF TailId
      <4>2. Prepared(i + 1)
        BY <1>1 DEF Prepared
      <4>3. newOff[i + 1] = newOff[i] + newLen[i]
        BY <2>1, <4>1, <4>2 DEF CommitInv, DestinationsArePacked
      <4> QED
        BY <1>f, <2>1, <4>1, <4>3
    <3> QED
      BY <3>1, <3>2
  <2>4. Holds(d, size, i, newOff[i], newLen[i], TRUE)
    BY <1>1, <1>3, FinishedTail
  <2> QED
    BY <2>2, <2>3, <2>4 DEF Holds
<1>5. f[1] = HeaderSize /\ f[TailCount + 1] = FinalTotal
  <2>1. 1 \in TailId /\ 1 # TailCount + 1 /\ 1 \in 1 .. (TailCount + 1) /\ TailCount + 1 \in 1 .. (TailCount + 1)
    BY Constants, SchemaFacts
  <2>2. newOff[1] = HeaderSize
    BY <1>1, <2>1 DEF CommitInv, DestinationsArePacked, Prepared
  <2> QED
    BY <1>f, <2>1, <2>2
<1>6. Places(d, size, TRUE, f)
  BY <1>4, <1>5 DEF Places
<1>7. \A i \in TailId : i \in 1 .. (TailCount + 1) /\ f[i] = newOff[i]
  <2>1. ASSUME NEW i \in TailId PROVE i \in 1 .. (TailCount + 1) /\ i # TailCount + 1
    BY SchemaFacts
  <2> QED
    BY <1>f, <2>1
<1> QED
  BY <1>3, <1>5, <1>6, <1>7 DEF d, f

\* The return of a commit leaves tails of the length it reports.
LEMMA FinishStores == IInv /\ CommitInv /\ Finish => CommitInv'
<1> SUFFICES ASSUME IInv, CommitInv, Finish
             PROVE  CommitInv'
  OBVIOUS
<1> DEFINE d == data'
           f == Destinations
<1>1. entry' = data' /\ size' = size /\ totalLen' = FinalTotal /\ edits' = NoEdits /\ pc' = "idle"
  BY DEF Finish, Return
<1>2. size \in Nat
  BY DEF IInv, TypeOK
<1>3. d \in [0 .. (size - 1) -> Byte] /\ Places(d, size, TRUE, f) /\ f[TailCount + 1] = FinalTotal
  BY FinishedPlaces
<1> HIDE DEF d, f
<1>4. ValidateStorageLen(size).ok
  BY EntryFacts DEF IInv, CommitInv
<1>5. WalkTails(d, size, TRUE).ok /\ EncodedLen(d) = f[TailCount + 1]
  <2>1. HeaderSize <= size
    BY <1>4, StorageLen, <1>2
  <2> QED
    BY <1>2, <1>3, <2>1, PlacedIsAccepted
<1>6. EntryStands'
  <2>1. totalLen' = EncodedLen(entry')
    BY <1>1, <1>3, <1>5 DEF d
  <2>2. WalkTails(entry', size', TRUE).ok
    BY <1>1, <1>5 DEF d
  <2>3. ValidateStorageLen(size').ok
    BY <1>1, <1>4
  <2> QED
    BY <2>1, <2>2, <2>3 DEF EntryStands
<1>7. EditsFit'
  BY <1>1 DEF EditsFit, NoEdits, Keep
<1> QED
  BY <1>1, <1>6, <1>7, IdleKeeps

\* A stuttering step changes nothing.
LEMMA StutterStores == CommitInv /\ UNCHANGED vars => CommitInv'
<1> SUFFICES ASSUME CommitInv, UNCHANGED vars
             PROVE  CommitInv'
  OBVIOUS
<1>1. EntryStands'
  BY DEF CommitInv, EntryStands, vars
<1>2. EditsFit' /\ SourcesAreReplayed' /\ DestinationsArePacked'
  BY DEF CommitInv, EditsFit, SourcesAreReplayed, DestinationsArePacked, Prepared, vars, locals
<1>3. HeaderIsKept' /\ SlotsAreWritten' /\ PayloadsAreWritten'
  BY DEF CommitInv, HeaderIsKept, SlotsAreWritten, PayloadsAreWritten, Moving, SlotDone, PayloadDone,
         vars, locals
<1> QED
  BY <1>1, <1>2, <1>3 DEF CommitInv

\* What a commit stores, at every step of every writer: the second invariant,
\* which is inductive next to the first.
THEOREM CommitInvariance == Spec => []CommitInv
<1>1. IInv /\ CommitInv /\ [Next]_vars => CommitInv'
  <2> SUFFICES ASSUME IInv, CommitInv, [Next]_vars
               PROVE  CommitInv'
    OBVIOUS
  <2>1. CASE SetInline
    BY <2>1, SetInlineStores
  <2>2. CASE \E i \in TailId : Set(i)
    BY <2>2, SetStores
  <2>3. CASE Commit
    BY <2>3, CommitStores
  <2>4. CASE Setup
    BY <2>4, SetupStores
  <2>5. CASE Check
    BY <2>5, CheckStores
  <2>6. CASE MoveBack \/ MoveForth
    BY <2>6, MoveStores
  <2>7. CASE Write
    BY <2>7, WriteStores
  <2>8. CASE WriteSlot
    BY <2>8, WriteSlotStores
  <2>9. CASE Finish
    BY <2>9, FinishStores
  <2>10. CASE UNCHANGED vars
    BY <2>10, StutterStores
  <2> QED
    BY <2>1, <2>2, <2>3, <2>4, <2>5, <2>6, <2>7, <2>8, <2>9, <2>10 DEF Next
<1> QED
  BY <1>1, CommitInit, Invariance, PTL DEF Spec

\* A commit leaves the inline fields it finds.
LEMMA FinishKeepsInline ==
    ASSUME IInv, CommitInv, Finish
    PROVE  \A a \in 0 .. (Inline.size - 1) : entry'[a] = entry[a]
<1>1. pc = "finish" /\ Moving /\ entry' = data'
  BY DEF Finish, Return, Moving
<1>2. /\ size \in Nat /\ FinalTotal \in Nat /\ FinalTotal <= size /\ HeaderSize <= FinalTotal
      /\ data \in [0 .. (size - 1) -> Byte] /\ HeaderSize \in Nat
      /\ Inline.size \in Nat /\ Inline.size <= HeaderSize
  BY <1>1, FinalTotalBounds, MovingFacts, Constants, SlotOrder, SchemaAssumption, PrefixesAssumption
<1>3. ASSUME NEW a \in 0 .. (Inline.size - 1)
      PROVE  data'[a] = entry[a]
  <2>1. a \in 0 .. (size - 1) /\ ~(FinalTotal <= a)
    BY <1>2
  <2>2. data' = [b \in DOMAIN data |-> IF FinalTotal <= b /\ b < totalLen THEN 0 ELSE data[b]]
    BY DEF Finish
  <2>3. data'[a] = data[a]
    BY <1>2, <2>1, <2>2
  <2>4. data[a] = entry[a]
    BY <1>1 DEF CommitInv, HeaderIsKept
  <2> QED
    BY <2>3, <2>4
<1> QED
  BY <1>1, <1>3

\* The inline fields of a writer's account are valid: what a program stores
\* into them is.
LEMMA InlineStands ==
    ASSUME IInv, CommitInv, InlineValid(entry), [Next]_vars
    PROVE  InlineValid(entry)'
<1>1. CASE SetInline
  <2>1. PICK value \in InlineValues :
          data' = [a \in DOMAIN data |-> IF a < Inline.size THEN value[a] ELSE data[a]]
    BY <1>1 DEF SetInline
  <2>2. /\ \A a \in 0 .. (Inline.size - 1) : value[a] \in Inline.ok[a]
        /\ Inline.size \in Nat /\ Inline.size <= HeaderSize /\ HeaderSize <= size
        /\ size \in Nat /\ HeaderSize \in Nat /\ data \in [0 .. (size - 1) -> Byte]
    BY WriterAssumption, SchemaAssumption, PrefixesAssumption, SlotOrder DEF IInv, AccountFits, TypeOK
  <2>3. \A a \in 0 .. (Inline.size - 1) : data'[a] = value[a]
    BY <2>1, <2>2
  <2>4. entry' = data'
    BY <1>1 DEF SetInline
  <2> QED
    BY <2>2, <2>3, <2>4 DEF InlineValid
<1>2. CASE Finish
  BY <1>2, FinishKeepsInline DEF InlineValid
<1>3. CASE Commit
  <2>1. entry' = entry
    BY <1>3 DEF Commit, IInv, BytesUntilMoving
  <2> QED
    BY <2>1 DEF InlineValid
<1>4. CASE ~SetInline /\ ~Finish /\ ~Commit
  <2>1. entry' = entry
    BY <1>4 DEF Next, Set, Setup, Check, MoveBack, MoveForth, Write, WriteSlot, vars
  <2> QED
    BY <2>1 DEF InlineValid
<1> QED
  BY <1>1, <1>2, <1>3, <1>4

\* After any sequence of inline writes, staged edits, commits and failures the
\* account an idle writer stands on validates at full depth and total_len is
\* its encoded length, whatever the schema: a commit never stores bytes that
\* its own crate would refuse.
THEOREM WriterStaysConsistentAlways == Spec => []WriterStaysConsistent
<1>1. Init => InlineValid(entry)
  BY ErrResult DEF Init, Validate
<1>2. IInv /\ CommitInv /\ InlineValid(entry) => WriterStaysConsistent
  <2> SUFFICES ASSUME IInv, CommitInv, InlineValid(entry), pc = "idle"
               PROVE  Validate(data, size).ok /\ totalLen = EncodedLen(data)
    BY DEF WriterStaysConsistent
  <2>1. data = entry /\ size \in Nat
    BY DEF IInv, BytesUntilMoving, TypeOK
  <2> QED
    BY <2>1, AcceptedIsValid DEF CommitInv, EntryStands
<1>3. IInv /\ CommitInv /\ InlineValid(entry) /\ [Next]_vars => InlineValid(entry)'
  BY InlineStands
<1> QED
  BY <1>1, <1>2, <1>3, Invariance, CommitInvariance, PTL DEF Spec

-----------------------------------------------------------------------------
(* What try_projected_size computes.                                       *)

\* What an edit adds to the projected size is what the plan makes of its tail.
LEMMA EditIsProjected ==
    ASSUME IInv, CommitInv, Moving, NEW i \in TailId, NEW x \in Int
    PROVE  (IF ~edits[i].staged THEN x
            ELSE x - EncodedSize(entry, i, TailOffset(entry)[i])
                   + edits[i].count * Tails[i].size
                   + (IF Tails[i].opt /\ edits[i].present THEN Tails[i].pfx ELSE 0))
           = x - oldLen[i] + newLen[i]
<1> DEFINE t == Tails[i]
           e == edits[i]
           f == TailOffset(entry)
           size0 == EncodedSize(entry, i, f[i])
           payload == e.count * t.size
           head == IF t.opt /\ e.present THEN t.pfx ELSE 0
<1>1. /\ Prepared(i) /\ oldLen[i] \in Nat /\ newLen[i] \in Nat
      /\ e.staged \in BOOLEAN /\ e.present \in BOOLEAN /\ t.opt \in BOOLEAN
      /\ t.pfx \in Nat
  BY MovingFacts, TailFacts DEF IInv, TypeOK, Edit, Moving, Prepared
<1>2. CASE ~e.staged
  BY <1>1, <1>2, MovingFacts
<1>3. CASE e.staged
  <2>1. size0 = oldLen[i]
    <3>1. /\ size \in Nat /\ HeaderSize <= size /\ entry \in [0 .. (size - 1) -> Byte]
          /\ Places(entry, size, TRUE, f)
          /\ \A j \in 1 .. (TailCount + 1) : f[j] \in Nat /\ f[j] <= size /\ f[j] <= Capacity[j - 1]
      BY EntryFacts DEF IInv, CommitInv
    <3>2. f[i] = oldOff[i] /\ f[i + 1] = oldOff[i] + oldLen[i] /\ oldOff[i] \in Nat
      BY <1>1 DEF CommitInv, SourcesAreReplayed, IInv, TypeOK
    <3>3. i \in 1 .. (TailCount + 1)
      BY SchemaFacts
    <3> HIDE DEF f
    <3>4. TailAccepted(entry, size, i, f[i], TRUE) /\ f[i + 1] = TailEnd(entry, i, f[i])
      BY <3>1 DEF Places
    <3>5. f[i] \in Nat /\ f[i] <= size /\ f[i] <= Capacity[i - 1]
      BY <3>1, <3>3
    <3>6. EncodedSize(entry, i, f[i]) = TailEnd(entry, i, f[i]) - f[i]
      BY <3>1, <3>4, <3>5, AcceptedTail
    <3> QED
      BY <1>1, <3>2, <3>4, <3>6
  <2>2. newLen[i] = payload + head /\ payload \in Nat
    <3>1. /\ newLen[i] = EditLen(i) /\ Len(e.bytes) = payload
          /\ (~e.present => e.count = 0)
      BY <1>1, <1>3 DEF IInv, LengthsArePlanned, EditsAccepted, CommitInv, EditsFit
    <3>2. Len(e.bytes) \in Nat /\ t.size \in Nat
      BY TailFacts DEF IInv, TypeOK, Edit
    <3>3. CASE ~e.present
      <4>1. newLen[i] = 0 /\ head = 0 /\ e.count = 0
        BY <3>1, <3>3 DEF EditLen
      <4>2. payload = 0
        BY <3>2, <4>1
      <4> QED
        BY <4>1, <4>2
    <3>4. CASE e.present
      <4>1. newLen[i] = (IF t.opt THEN t.pfx ELSE 0) + payload
        BY <3>1, <3>4 DEF EditLen
      <4>2. head = IF t.opt THEN t.pfx ELSE 0
        BY <3>4
      <4>3. payload \in Nat
        BY <3>1, <3>2
      <4>4. head \in Nat
        BY <1>1
      <4> HIDE DEF payload, head
      <4> QED
        BY <4>1, <4>2, <4>3, <4>4
    <3> QED
      BY <1>1, <3>3, <3>4
  <2>3. head \in Nat
    BY <1>1
  <2>4. (IF ~edits[i].staged THEN x ELSE x - size0 + payload + head) = x - size0 + payload + head
    BY <1>3
  <2> HIDE DEF size0, payload, head
  <2>5. x - size0 + payload + head = x - oldLen[i] + newLen[i]
    BY <1>1, <2>1, <2>2, <2>3
  <2> QED
    BY <2>4, <2>5 DEF size0, payload, head
<1> QED
  BY <1>1, <1>2, <1>3

\* While bytes move, the projection follows the plan: up to tail i it is the
\* old total with the tails up to i as long as they will be.
LEMMA ProjectionFollowsPlan ==
    ASSUME IInv, CommitInv, Moving
    PROVE  Projected(entry, totalLen) = FinalTotal
<1> DEFINE f == TailOffset(entry)
           Step(i, x) == IF ~edits[i].staged THEN x
                         ELSE x - EncodedSize(entry, i, TailOffset(entry)[i])
                                + edits[i].count * Tails[i].size
                                + (IF Tails[i].opt /\ edits[i].present THEN Tails[i].pfx ELSE 0)
           Rec(h) == [i \in 0 .. TailCount |->
                        IF i = 0 THEN totalLen
                        ELSE IF ~edits[i].staged THEN h[i - 1]
                        ELSE h[i - 1] - EncodedSize(entry, i, TailOffset(entry)[i])
                               + edits[i].count * Tails[i].size
                               + (IF Tails[i].opt /\ edits[i].present THEN Tails[i].pfx ELSE 0)]
           g == [i \in 0 .. TailCount |->
                   IF i = 0 THEN totalLen ELSE totalLen - f[i + 1] + (newOff[i] + newLen[i])]
           after == ProjectedAfter(entry, totalLen)
<1>1. /\ TailCount \in Nat /\ TailId = 1 .. TailCount /\ TailCount \in TailId /\ TailCount # 0
      /\ \A i \in TailId : i \in 0 .. TailCount /\ i - 1 \in 0 .. TailCount /\ i # 0
  BY Constants DEF TailId
<1>2. ASSUME NEW i \in TailId, NEW x \in Int
      PROVE  Step(i, x) = x - oldLen[i] + newLen[i]
  BY EditIsProjected
<1>3. \A h : /\ Rec(h)[0] = totalLen /\ Rec(h) = [i \in 0 .. TailCount |-> Rec(h)[i]]
             /\ \A i \in TailId : Rec(h)[i] = Step(i, h[i - 1])
  <2>1. \A h : Rec(h)[0] = totalLen /\ Rec(h) = [i \in 0 .. TailCount |-> Rec(h)[i]]
    BY <1>1
  <2>2. ASSUME NEW h, NEW i \in TailId PROVE Rec(h)[i] = Step(i, h[i - 1])
    <3>1. i \in 0 .. TailCount /\ i # 0
      BY <1>1
    <3> QED
      BY <3>1
  <2> HIDE DEF Rec, Step
  <2> QED
    BY <2>1, <2>2
<1>4. /\ totalLen \in Nat
      /\ f[1] = HeaderSize /\ totalLen = f[TailCount + 1] /\ HeaderSize \in Nat
      /\ \A i \in TailId : f[i + 1] \in Nat /\ f[i] \in Nat
  <2>1. /\ Places(entry, size, TRUE, f) /\ totalLen = f[TailCount + 1]
        /\ \A i \in 1 .. (TailCount + 1) : f[i] \in Nat
    BY EntryFacts DEF IInv, CommitInv
  <2>2. \A i \in TailId : i \in 1 .. (TailCount + 1) /\ i + 1 \in 1 .. (TailCount + 1)
    BY <1>1
  <2> HIDE DEF f
  <2> QED
    BY <2>1, <2>2, Constants, MovingFacts DEF Places
<1>5. \A i \in TailId :
        /\ f[i] = oldOff[i] /\ f[i + 1] = oldOff[i] + oldLen[i]
        /\ newOff[i] = IF i = 1 THEN HeaderSize ELSE newOff[i - 1] + newLen[i - 1]
        /\ oldOff[i] \in Nat /\ oldLen[i] \in Nat /\ newOff[i] \in Nat /\ newLen[i] \in Nat
  <2>1. \A i \in TailId : Prepared(i)
    BY DEF Moving, Prepared
  <2> QED
    BY <2>1, MovingFacts DEF CommitInv, SourcesAreReplayed, DestinationsArePacked
<1>6. \A i \in 0 .. TailCount : g[i] \in Int
  <2> HIDE DEF f
  <2> QED
    BY SMTT(60), <1>1, <1>4, <1>5
<1>7. ASSUME NEW i \in TailId PROVE g[i] = g[i - 1] - oldLen[i] + newLen[i]
  <2> HIDE DEF f
  <2>1. g[i] = totalLen - f[i + 1] + (newOff[i] + newLen[i])
    BY <1>1
  <2>2. CASE i = 1
    <3>1. g[i - 1] = totalLen
      BY <1>1, <2>2
    <3>2. f[i] = HeaderSize /\ newOff[i] = HeaderSize
      BY <1>4, <1>5, <2>2
    <3> HIDE DEF g
    <3> QED
      BY <1>4, <1>5, <2>1, <3>1, <3>2
  <2>3. CASE i # 1
    <3>1. i - 1 \in TailId /\ (i - 1) + 1 = i /\ i - 1 # 0 /\ i - 1 \in 0 .. TailCount
      BY <1>1, <2>3
    <3>2. g[i - 1] = totalLen - f[i] + (newOff[i - 1] + newLen[i - 1])
      BY <3>1
    <3>3. newOff[i] = newOff[i - 1] + newLen[i - 1] /\ newOff[i - 1] \in Nat /\ newLen[i - 1] \in Nat
      BY <1>5, <2>3, <3>1
    <3> HIDE DEF g
    <3> QED
      BY <1>4, <1>5, <2>1, <3>2, <3>3
  <2> QED
    BY <2>2, <2>3
<1>8. g = Rec(g)
  <2>1. g[0] = totalLen /\ g = [i \in 0 .. TailCount |-> g[i]]
    BY <1>1
  <2> HIDE DEF Rec, Step, g
  <2>2. \A i \in TailId : g[i] = Rec(g)[i]
    BY <1>1, <1>2, <1>3, <1>6, <1>7
  <2>3. \A i \in 0 .. TailCount : g[i] = Rec(g)[i]
    BY <1>1, <1>3, <2>1, <2>2
  <2> QED
    BY <1>3, <2>1, <2>3
<1>9. after = Rec(after)
  BY <1>8, Zenon DEF ProjectedAfter
<1>10. \A i \in 0 .. TailCount : after[i] = g[i]
  <2> DEFINE S == {i \in 0 .. TailCount : after[i] = g[i]}
  <2>1. g[0] = totalLen
    BY <1>1
  <2> HIDE DEF Rec, Step, g, after
  <2>2. 0 \in S
    BY <1>1, <1>3, <1>9, <2>1
  <2>3. ASSUME NEW i \in 1 .. TailCount, i - 1 \in S PROVE i \in S
    <3>1. after[i] = Step(i, after[i - 1]) /\ g[i] = Step(i, g[i - 1])
      BY <1>1, <1>3, <1>8, <1>9
    <3> QED
      BY <1>1, <2>3, <3>1
  <2> HIDE DEF S
  <2>4. \A i \in 0 .. TailCount : i \in S
    BY <1>1, <2>2, <2>3, RangeInduction
  <2> QED
    BY <2>4 DEF S
<1>11. g[TailCount] = FinalTotal
  <2>1. g[TailCount] = totalLen - f[TailCount + 1] + (newOff[TailCount] + newLen[TailCount])
    BY <1>1
  <2> HIDE DEF g, f
  <2> QED
    BY <1>1, <1>4, <1>5, <2>1 DEF FinalTotal
<1>12. after[TailCount] = FinalTotal
  <2> HIDE DEF g, after
  <2> QED
    BY <1>1, <1>10, <1>11
<1> QED
  BY <1>12 DEF Projected

\* The size a caller grows the account to is the size the commit produces, for
\* every schema, account and mix of edits: the per-edit sums of
\* try_projected_size and the layout of commit agree.
THEOREM ProjectionIsTheCommittedSizeAlways == Spec => []ProjectionIsTheCommittedSize
<1>1. IInv /\ CommitInv => ProjectionIsTheCommittedSize
  BY ProjectionFollowsPlan DEF ProjectionIsTheCommittedSize
<1> QED
  BY <1>1, Invariance, CommitInvariance, PTL
-----------------------------------------------------------------------------
(* Tails packed behind the header.                                         *)

\* PackedEnds(len)[i]: where tail i ends when tail k takes len[k] bytes.
PackedEnds(len) ==
    LET end[i \in 0 .. TailCount] == IF i = 0 THEN HeaderSize ELSE end[i - 1] + len[i]
    IN  end

\* PackedEnds is what its recursion says.
LEMMA PackedRuns ==
    ASSUME NEW len \in [TailId -> Nat]
    PROVE  /\ PackedEnds(len)[0] = HeaderSize
           /\ \A i \in TailId : PackedEnds(len)[i] = PackedEnds(len)[i - 1] + len[i]
           /\ \A i \in 0 .. TailCount : PackedEnds(len)[i] \in Nat
<1> DEFINE V == [i \in 0 .. TailCount |-> Nat]
           G == [p \in TailId \X Nat |-> p[2] + len[p[1]]]
           Rec(f) == [i \in 0 .. TailCount |-> IF i = 0 THEN HeaderSize ELSE f[i - 1] + len[i]]
           ends == PackedEnds(len)
<1>1. /\ TailCount \in Nat /\ TailId = 1 .. TailCount /\ HeaderSize \in Nat
      /\ \A i \in TailId : i \in 0 .. TailCount /\ i - 1 \in 0 .. TailCount /\ i # 0
  BY Constants DEF TailId
<1>2. \A i \in TailId : \A x \in Nat : G[<<i, x>>] = x + len[i] /\ G[<<i, x>>] \in Nat
  OBVIOUS
<1>3. HeaderSize \in V[0] /\ \A i \in 1 .. TailCount : \A x \in V[i - 1] : G[<<i, x>>] \in V[i]
  <2>1. \A i \in 0 .. TailCount : V[i] = Nat
    OBVIOUS
  <2> HIDE DEF V, G
  <2> QED
    BY <1>1, <1>2, <2>1
<1>4. PICK f : Solves(TailCount, HeaderSize, G, V, f)
  <2> HIDE DEF V, G
  <2> QED
    BY <1>1, <1>3, TypedRecursion
<1>5. /\ f = [i \in 0 .. TailCount |-> f[i]]
      /\ f[0] = HeaderSize
      /\ \A i \in TailId : f[i] = f[i - 1] + len[i]
  <2>1. \A i \in 0 .. TailCount : f[i] \in Nat
    BY <1>4 DEF Solves
  <2> HIDE DEF G
  <2>2. \A i \in TailId : f[i] = f[i - 1] + len[i]
    BY <1>1, <1>2, <1>4, <2>1 DEF Solves
  <2> QED
    BY <1>4, <2>2 DEF Solves
<1>6. \A h : /\ Rec(h)[0] = HeaderSize /\ Rec(h) = [i \in 0 .. TailCount |-> Rec(h)[i]]
             /\ \A i \in TailId : Rec(h)[i] = h[i - 1] + len[i]
  <2>1. \A h : Rec(h)[0] = HeaderSize /\ Rec(h) = [i \in 0 .. TailCount |-> Rec(h)[i]]
    BY <1>1
  <2>2. ASSUME NEW h, NEW i \in TailId PROVE Rec(h)[i] = h[i - 1] + len[i]
    <3>1. i \in 0 .. TailCount /\ i # 0
      BY <1>1
    <3> QED
      BY <3>1
  <2> HIDE DEF Rec
  <2> QED
    BY <2>1, <2>2
<1>7. f = Rec(f)
  <2> HIDE DEF V, G, Rec
  <2>1. /\ Rec(f)[0] = HeaderSize /\ Rec(f) = [i \in 0 .. TailCount |-> Rec(f)[i]]
        /\ \A i \in TailId : Rec(f)[i] = f[i - 1] + len[i]
    BY <1>6
  <2>2. \A i \in TailId : f[i] = Rec(f)[i]
    BY <1>5, <2>1
  <2>3. \A i \in 0 .. TailCount : i = 0 \/ i \in TailId
    BY <1>1
  <2>4. \A i \in 0 .. TailCount : f[i] = Rec(f)[i]
    BY <1>5, <2>1, <2>2, <2>3
  <2> QED
    BY <1>5, <2>1, <2>4
<1>8. ends = Rec(ends)
  BY <1>7, Zenon DEF PackedEnds
<1> HIDE DEF Rec, ends
<1>9. ends[0] = HeaderSize /\ \A i \in TailId : ends[i] = ends[i - 1] + len[i]
  BY <1>6, <1>8
<1>10. \A i \in 0 .. TailCount : ends[i] \in Nat
  <2> DEFINE S == {i \in 0 .. TailCount : ends[i] \in Nat}
  <2>1. 0 \in S
    BY <1>1, <1>9
  <2>2. ASSUME NEW i \in 1 .. TailCount, i - 1 \in S PROVE i \in S
    BY <1>1, <1>9, <2>2
  <2> HIDE DEF S
  <2>3. \A i \in 0 .. TailCount : i \in S
    BY <1>1, <2>1, <2>2, RangeInduction
  <2> QED
    BY <2>3 DEF S
<1> QED
  BY <1>9, <1>10 DEF ends

\* No value of a sequence that does not decrease is beyond the last one.
LEMMA LastIsLargest ==
    ASSUME NEW n \in Nat, NEW h, \A i \in 0 .. n : h[i] \in Int,
           \A i \in 1 .. n : h[i - 1] <= h[i]
    PROVE  \A i \in 0 .. n : h[i] <= h[n]
<1> DEFINE S == {k \in 0 .. n : \A j \in 0 .. k : h[j] <= h[k]}
<1>1. 0 \in S
  OBVIOUS
<1>2. ASSUME NEW k \in 1 .. n, k - 1 \in S PROVE k \in S
  <2>1. ASSUME NEW j \in 0 .. k PROVE h[j] <= h[k]
    <3>1. k \in 0 .. n /\ k - 1 \in 0 .. n /\ j \in 0 .. n
      OBVIOUS
    <3>2. CASE j = k
      BY <3>1, <3>2
    <3>3. CASE j # k
      <4>1. j \in 0 .. (k - 1)
        BY <3>3
      <4>2. h[j] <= h[k - 1] /\ h[k - 1] <= h[k]
        BY <1>2, <4>1
      <4> QED
        BY <3>1, <4>2
    <3> QED
      BY <3>2, <3>3
  <2> QED
    BY <2>1
<1>3. \A k \in 0 .. n : k \in S
  <2> HIDE DEF S
  <2> QED
    BY <1>1, <1>2, RangeInduction
<1>4. n \in S
  BY <1>3
<1> QED
  BY <1>4

\* A length tail i can have: within its capacity, and whole granules.
Takes(i, len) == len \in Nat /\ len <= TailCapacity(i) /\ Divides(TailAlignment, len)

\* Nothing, and elements within the capacity behind an option's prefix, are
\* such lengths.
LEMMA CountTakes ==
    ASSUME NEW i \in TailId, NEW count \in Nat, count <= Tails[i].max
    PROVE  /\ Takes(i, count * Tails[i].size + (IF Tails[i].opt THEN Tails[i].pfx ELSE 0))
           /\ Takes(i, 0)
<1> DEFINE head == IF Tails[i].opt THEN Tails[i].pfx ELSE 0
           payload == count * Tails[i].size
           off == Capacity[i - 1]
<1>1. i - 1 \in 0 .. TailCount /\ i \in 0 .. TailCount
  BY SchemaFacts
<1>2. /\ off \in Nat /\ TailCapacity(i) \in Nat /\ Capacity[i] = off + TailCapacity(i)
  BY <1>1, CapacityRuns
<1>3. /\ Tails[i].size \in Nat /\ Tails[i].pfx \in Nat /\ Tails[i].opt \in BOOLEAN
      /\ TailAlignment \in Nat /\ Divides(TailAlignment, Tails[i].size)
      /\ Tails[i].opt => Divides(TailAlignment, Tails[i].pfx)
  BY AlignmentDivides, TailFacts
<1>4. off <= Capacity[i - 1]
  BY <1>2
<1>5. head \in Nat /\ payload \in Nat /\ off + head + payload <= Capacity[i]
  <2> HIDE DEF off
  <2> QED
    BY <1>2, <1>4, TailFits
<1>6. Divides(TailAlignment, head) /\ Divides(TailAlignment, 0)
  BY <1>3, DividesSelf
<1>7. Divides(TailAlignment, payload)
  BY <1>3, DividesMultiple
<1> HIDE DEF head, payload, off
<1>8. Divides(TailAlignment, payload + head)
  BY <1>3, <1>5, <1>6, <1>7, DividesSum
<1>9. payload + head \in Nat /\ payload + head <= TailCapacity(i)
  BY <1>2, <1>5
<1>10. Takes(i, payload + head) /\ Takes(i, 0)
  BY <1>2, <1>6, <1>8, <1>9 DEF Takes
<1> QED
  BY <1>10 DEF payload, head

\* Tails that each take a length they can have end within the capacity, in
\* order, and at an allocation size.
LEMMA PackedFits ==
    ASSUME NEW len \in [TailId -> Nat], \A i \in TailId : Takes(i, len[i])
    PROVE  /\ \A i \in 0 .. TailCount :
                /\ PackedEnds(len)[i] \in Nat /\ HeaderSize <= PackedEnds(len)[i]
                /\ PackedEnds(len)[i] <= Capacity[i] /\ PackedEnds(len)[i] <= UsizeMax
                /\ PackedEnds(len)[i] <= PackedEnds(len)[TailCount]
           /\ ValidateStorageLen(PackedEnds(len)[TailCount]).ok
<1> DEFINE ends == PackedEnds(len)
           S == {i \in 0 .. TailCount : /\ HeaderSize <= ends[i] /\ ends[i] <= Capacity[i]
                                        /\ Divides(TailAlignment, ends[i] - HeaderSize)}
<1>1. /\ ends[0] = HeaderSize
      /\ \A i \in TailId : ends[i] = ends[i - 1] + len[i]
      /\ \A i \in 0 .. TailCount : ends[i] \in Nat
  BY PackedRuns
<1>2. /\ TailCount \in Nat /\ TailId = 1 .. TailCount /\ HeaderSize \in Nat /\ UsizeMax \in Nat
      /\ TailCount \in 0 .. TailCount
      /\ \A i \in TailId : i \in 0 .. TailCount /\ i - 1 \in 0 .. TailCount
  BY Constants DEF TailId
<1>3. /\ Capacity[0] = HeaderSize
      /\ \A i \in TailId : Capacity[i] = Capacity[i - 1] + TailCapacity(i) /\ TailCapacity(i) \in Nat
      /\ \A i \in 0 .. TailCount : Capacity[i] \in Nat
  BY CapacityRuns
<1>4. TailAlignment \in Nat /\ TailAlignment # 0 /\ Divides(TailAlignment, 0)
  BY AlignmentDivides, DividesSelf
<1> HIDE DEF ends
<1>5. 0 \in S
  <2>1. HeaderSize - HeaderSize = 0
    BY <1>2
  <2> QED
    BY <1>1, <1>2, <1>3, <1>4, <2>1
<1>6. ASSUME NEW i \in 1 .. TailCount, i - 1 \in S PROVE i \in S
  <2>1. i \in TailId /\ i \in 0 .. TailCount /\ i - 1 \in 0 .. TailCount
    BY <1>2
  <2>2. len[i] \in Nat /\ len[i] <= TailCapacity(i) /\ Divides(TailAlignment, len[i])
    BY <2>1 DEF Takes
  <2>3. /\ HeaderSize <= ends[i - 1] /\ ends[i - 1] <= Capacity[i - 1] /\ ends[i - 1] \in Nat
        /\ Divides(TailAlignment, ends[i - 1] - HeaderSize)
    BY <1>1, <1>6, <2>1
  <2>4. /\ ends[i] = ends[i - 1] + len[i] /\ Capacity[i] = Capacity[i - 1] + TailCapacity(i)
        /\ Capacity[i - 1] \in Nat /\ TailCapacity(i) \in Nat
    BY <1>1, <1>3, <2>1
  <2>5. HeaderSize <= ends[i] /\ ends[i] <= Capacity[i]
    BY <1>2, <2>2, <2>3, <2>4
  <2>6. ends[i - 1] - HeaderSize \in Nat /\ ends[i] - HeaderSize = (ends[i - 1] - HeaderSize) + len[i]
    BY <1>2, <2>2, <2>3, <2>4
  <2>7. Divides(TailAlignment, ends[i] - HeaderSize)
    BY <1>4, <2>2, <2>3, <2>6, DividesSum
  <2> QED
    BY <2>1, <2>5, <2>7
<1>7. \A i \in 0 .. TailCount : i \in S
  <2> HIDE DEF S
  <2> QED
    BY <1>2, <1>5, <1>6, RangeInduction
<1>8. \A i \in 0 .. TailCount : Capacity[i] <= UsizeMax
  BY CapacityOrder
<1>9. \A i \in 0 .. TailCount : ends[i] <= ends[TailCount]
  <2>1. \A i \in 1 .. TailCount : ends[i - 1] <= ends[i]
    BY <1>1, <1>2
  <2>2. \A i \in 0 .. TailCount : ends[i] \in Int
    BY <1>1
  <2> HIDE DEF S
  <2> QED
    BY <1>2, <2>1, <2>2, LastIsLargest
<1>10. \A i \in 0 .. TailCount : HeaderSize <= ends[i] /\ ends[i] <= Capacity[i] /\ ends[i] <= UsizeMax
  BY <1>1, <1>2, <1>3, <1>7, <1>8
<1>11. ValidateStorageLen(ends[TailCount]).ok
  <2> DEFINE m == ends[TailCount]
  <2>1. m \in Nat /\ HeaderSize <= m /\ m <= Capacity[TailCount] /\ Divides(TailAlignment, m - HeaderSize)
    BY <1>1, <1>2, <1>7
  <2>2. MaxSize = Capacity[TailCount] /\ MaxSize \in Nat
    BY <1>2, <1>3 DEF MaxSize
  <2> HIDE DEF m
  <2>3. m - HeaderSize \in Nat
    BY <1>2, <2>1
  <2>4. (m - HeaderSize) % TailAlignment = 0
    BY <1>4, <2>1, <2>3, NoRemainder
  <2>5. ~(m < HeaderSize) /\ ~(m > MaxSize)
    BY <1>2, <2>1, <2>2
  <2>6. ValidateStorageLen(m) = Ok(m)
    BY <1>4, <2>4, <2>5 DEF ValidateStorageLen, MinSize
  <2>7. ValidateStorageLen(m).ok
    BY <2>6 DEF Ok
  <2> QED
    BY <2>7 DEF m
<1> QED
  BY <1>1, <1>9, <1>10, <1>11 DEF ends

-----------------------------------------------------------------------------
(* The length a set of edits leads to.                                      *)

\* The edit is one tail i can store.
FitEdit(i, e) ==
    /\ e \in Edit
    /\ e.staged =>
         /\ e.present \/ Tails[i].opt
         /\ Len(e.bytes) = e.count * Tails[i].size
         /\ CheckPrefix(e.count, Tails[i].pfx).ok
         /\ e.count <= Tails[i].max
         /\ ~e.present => e.count = 0
         /\ \A k \in 1 .. Len(e.bytes) : e.bytes[k] \in Tails[i].ok

Fit(es) == es \in [TailId -> Edit] /\ \A i \in TailId : FitEdit(i, es[i])

\* What tail i takes when it stores the edit e.
LenOf(i, e) ==
    IF ~e.present THEN 0 ELSE (IF Tails[i].opt THEN Tails[i].pfx ELSE 0) + Len(e.bytes)

\* Bytes tail i takes once the edits es are made in the account d.
NextLens(d, es) ==
    [i \in TailId |-> IF es[i].staged THEN LenOf(i, es[i])
                      ELSE TailOffset(d)[i + 1] - TailOffset(d)[i]]

\* The length of the account d with the edits es.
NextLen(d, es) == PackedEnds(NextLens(d, es))[TailCount]

\* A new value takes a length its tail can have.
LEMMA EditTakes ==
    ASSUME NEW i \in TailId, NEW e, FitEdit(i, e), e.staged
    PROVE  /\ Takes(i, LenOf(i, e)) /\ LenOf(i, e) \in Nat
           /\ LenOf(i, e) = IF ~e.present THEN 0
                            ELSE e.count * Tails[i].size + (IF Tails[i].opt THEN Tails[i].pfx ELSE 0)
<1> DEFINE payload == e.count * Tails[i].size
           head == IF Tails[i].opt THEN Tails[i].pfx ELSE 0
<1>1. e.count \in Nat /\ e.count <= Tails[i].max /\ Len(e.bytes) = payload /\ e.present \in BOOLEAN
  BY DEF FitEdit, Edit
<1>2. Takes(i, payload + head) /\ Takes(i, 0)
  <2>1. Takes(i, e.count * Tails[i].size + (IF Tails[i].opt THEN Tails[i].pfx ELSE 0)) /\ Takes(i, 0)
    BY <1>1, CountTakes
  <2> QED
    BY <2>1
<1>3. payload \in Nat /\ head \in Nat
  BY <1>1, TailFacts
<1>4. LenOf(i, e) = IF ~e.present THEN 0 ELSE payload + head
  <2>1. LenOf(i, e) = IF ~e.present THEN 0 ELSE head + payload
    BY <1>1 DEF LenOf
  <2> HIDE DEF payload, head
  <2>2. head + payload = payload + head
    BY <1>3
  <2> QED
    BY <2>1, <2>2
<1> QED
  BY <1>2, <1>4 DEF Takes

\* A stored tail takes a length its field can have, and the preflight walk
\* reads that length.
LEMMA StoredTakes ==
    ASSUME NEW n \in Nat, HeaderSize <= n, NEW d \in [0 .. (n - 1) -> Byte],
           WalkTails(d, n, TRUE).ok, NEW i \in TailId
    PROVE  /\ TailOffset(d)[i] \in Nat /\ TailOffset(d)[i + 1] \in Nat
           /\ TailOffset(d)[i] <= TailOffset(d)[i + 1]
           /\ Takes(i, TailOffset(d)[i + 1] - TailOffset(d)[i])
           /\ EncodedSize(d, i, TailOffset(d)[i]) = TailOffset(d)[i + 1] - TailOffset(d)[i]
<1> DEFINE f == TailOffset(d)
           t == Tails[i]
           count == StoredCount(d, i, f[i])
           payload == count * t.size
           head == IF t.opt THEN t.pfx ELSE 0
<1>1. /\ Places(d, n, TRUE, f)
      /\ \A k \in 1 .. (TailCount + 1) : f[k] \in Nat /\ f[k] <= n /\ f[k] <= Capacity[k - 1]
  BY AcceptedReplay
<1>2. i \in 1 .. (TailCount + 1) /\ i + 1 \in 1 .. (TailCount + 1)
  BY SchemaFacts
<1>3. f[i] \in Nat /\ f[i] <= n /\ f[i] <= Capacity[i - 1] /\ f[i + 1] \in Nat
  BY <1>1, <1>2
<1>4. TailAccepted(d, n, i, f[i], TRUE) /\ f[i + 1] = TailEnd(d, i, f[i])
  BY <1>1 DEF Places
<1> HIDE DEF f
<1>5. f[i] <= f[i + 1] /\ EncodedSize(d, i, f[i]) = f[i + 1] - f[i]
  <2> DEFINE off == f[i]
             full == TRUE
  <2>1. off \in Nat /\ off <= n /\ off <= Capacity[i - 1] /\ TailAccepted(d, n, i, off, full)
    BY <1>3, <1>4
  <2> HIDE DEF off, full
  <2>2. off <= TailEnd(d, i, off) /\ EncodedSize(d, i, off) = TailEnd(d, i, off) - off
    BY <2>1, AcceptedTail
  <2> QED
    BY <1>4, <2>2 DEF off
<1>6. Takes(i, f[i + 1] - f[i])
  <2>1. CASE t.opt /\ d[Slot[i]] = 0
    <3>1. f[i + 1] - f[i] = 0
      BY <1>3, <1>4, <2>1 DEF TailEnd
    <3>2. 0 \in Nat /\ 0 <= t.max
      BY TailFacts
    <3> QED
      BY <3>1, <3>2, CountTakes
  <2>2. CASE ~(t.opt /\ d[Slot[i]] = 0)
    <3>1. (t.opt => f[i] + t.pfx <= n) /\ count <= t.max
      BY <1>4, <2>2 DEF TailAccepted
    <3>2. count \in Nat /\ payload \in Nat
      BY <1>3, <3>1, StoredCountNat
    <3>3. head \in Nat /\ PayloadFrom(i, f[i]) = f[i] + head
      BY <1>3, TailFacts DEF PayloadFrom
    <3>4. f[i + 1] = f[i] + head + payload
      BY <1>4, <2>2, <3>3 DEF TailEnd
    <3>5. Takes(i, payload + head)
      <4> HIDE DEF count
      <4>1. Takes(i, count * Tails[i].size + (IF Tails[i].opt THEN Tails[i].pfx ELSE 0))
        BY <3>1, <3>2, CountTakes
      <4> QED
        BY <4>1
    <3> HIDE DEF payload, head
    <3>6. f[i + 1] - f[i] = payload + head
      BY <1>3, <3>2, <3>3, <3>4
    <3> QED
      BY <3>5, <3>6
  <2> QED
    BY <2>1, <2>2
<1> QED
  BY <1>3, <1>5, <1>6 DEF f

\* The lengths an accepted account and storable edits lead to.
LEMMA NextTakes ==
    ASSUME NEW n \in Nat, HeaderSize <= n, NEW d \in [0 .. (n - 1) -> Byte],
           WalkTails(d, n, TRUE).ok, NEW es, Fit(es)
    PROVE  /\ NextLens(d, es) \in [TailId -> Nat]
           /\ \A i \in TailId : Takes(i, NextLens(d, es)[i])
<1>1. ASSUME NEW i \in TailId
      PROVE  NextLens(d, es)[i] \in Nat /\ Takes(i, NextLens(d, es)[i])
  <2>1. CASE es[i].staged
    <3>1. NextLens(d, es)[i] = LenOf(i, es[i]) /\ FitEdit(i, es[i])
      BY <2>1 DEF NextLens, Fit
    <3> QED
      BY <2>1, <3>1, EditTakes
  <2>2. CASE ~es[i].staged
    <3>1. NextLens(d, es)[i] = TailOffset(d)[i + 1] - TailOffset(d)[i]
      BY <2>2 DEF NextLens
    <3>2. Takes(i, TailOffset(d)[i + 1] - TailOffset(d)[i])
      BY StoredTakes
    <3> QED
      BY <3>1, <3>2 DEF Takes
  <2> QED
    BY <2>1, <2>2
<1>2. NextLens(d, es) = [i \in TailId |-> NextLens(d, es)[i]]
  BY DEF NextLens
<1> QED
  BY <1>1, <1>2

\* The length is an allocation size.
LEMMA NextLenIsAdmitted ==
    ASSUME NEW n \in Nat, HeaderSize <= n, NEW d \in [0 .. (n - 1) -> Byte],
           WalkTails(d, n, TRUE).ok, NEW es, Fit(es)
    PROVE  NextLen(d, es) \in Nat /\ ValidateStorageLen(NextLen(d, es)).ok
<1>1. TailCount \in 0 .. TailCount
  BY SchemaFacts
<1>2. /\ NextLens(d, es) \in [TailId -> Nat]
      /\ \A i \in TailId : Takes(i, NextLens(d, es)[i])
  BY NextTakes
<1> QED
  BY <1>1, <1>2, PackedFits DEF NextLen

\* Accounts with their tails at the same offsets lead to the same length.
LEMMA SameNextLen ==
    ASSUME NEW d, NEW e, NEW es,
           \A i \in 1 .. (TailCount + 1) : TailOffset(e)[i] = TailOffset(d)[i]
    PROVE  NextLens(e, es) = NextLens(d, es) /\ NextLen(e, es) = NextLen(d, es)
<1>1. \A i \in TailId : i \in 1 .. (TailCount + 1) /\ i + 1 \in 1 .. (TailCount + 1)
  BY SchemaFacts
<1>2. NextLens(e, es) = NextLens(d, es)
  BY <1>1 DEF NextLens
<1> QED
  BY <1>2 DEF NextLen

-----------------------------------------------------------------------------
(* A commit of edits that fit their tails.                                 *)

\* What EntryStands says of the account, and the lengths it leads to.
LEMMA PlannedLengths ==
    ASSUME TypeOK, EntryStands, Fit(edits)
    PROVE  LET len == NextLens(entry, edits)
               ends == PackedEnds(len)
           IN  /\ len \in [TailId -> Nat]
               /\ ends[0] = HeaderSize
               /\ \A i \in TailId : ends[i] = ends[i - 1] + len[i]
               /\ \A i \in 0 .. TailCount :
                    ends[i] \in Nat /\ ends[i] <= UsizeMax /\ ends[i] <= ends[TailCount]
               /\ NextLen(entry, edits) = ends[TailCount]
<1> DEFINE len == NextLens(entry, edits)
           ends == PackedEnds(len)
<1>1. size \in Nat /\ entry \in [0 .. (size - 1) -> Byte] /\ HeaderSize <= size
  BY EntryFacts
<1>2. len \in [TailId -> Nat] /\ \A i \in TailId : Takes(i, len[i])
  BY <1>1, NextTakes DEF EntryStands
<1>3. NextLen(entry, edits) = ends[TailCount]
  BY DEF NextLen
<1> HIDE DEF len
<1>4. /\ ends[0] = HeaderSize
      /\ \A i \in TailId : ends[i] = ends[i - 1] + len[i]
      /\ \A i \in 0 .. TailCount : /\ ends[i] \in Nat /\ ends[i] <= UsizeMax
                                   /\ ends[i] <= ends[TailCount]
  BY <1>2, PackedRuns, PackedFits
<1> QED
  BY <1>2, <1>3, <1>4 DEF ends, len

\* The commit lays the tails out where the preflight packed them.
LEMMA LaidOutAsPlanned ==
    ASSUME IInv, CommitInv, Fit(edits), NEW i \in TailId, Prepared(i)
    PROVE  newOff[i] + newLen[i] = PackedEnds(NextLens(entry, edits))[i]
<1> DEFINE len == NextLens(entry, edits)
           ends == PackedEnds(len)
           S == {k \in 0 .. TailCount : k \in TailId /\ Prepared(k) => newOff[k] + newLen[k] = ends[k]}
<1>1. /\ TailCount \in Nat /\ TailId = 1 .. TailCount
      /\ \A k \in TailId : k \in 0 .. TailCount /\ k - 1 \in 0 .. TailCount /\ k \in Nat
  BY Constants DEF TailId
<1>2. /\ len \in [TailId -> Nat] /\ ends[0] = HeaderSize
      /\ \A k \in TailId : ends[k] = ends[k - 1] + len[k]
  BY PlannedLengths DEF IInv, CommitInv
<1>3. /\ newOff \in [TailId -> Nat] /\ newLen \in [TailId -> Nat]
      /\ oldOff \in [TailId -> Nat] /\ oldLen \in [TailId -> Nat] /\ cur \in Nat
  BY <1>1 DEF IInv, TypeOK
<1>4. ASSUME NEW k \in TailId, Prepared(k)
      PROVE  newLen[k] = len[k]
  <2>1. newLen[k] = IF edits[k].staged THEN EditLen(k) ELSE oldLen[k]
    BY <1>4 DEF IInv, LengthsArePlanned
  <2>2. CASE edits[k].staged
    <3>2. LenOf(k, edits[k]) = EditLen(k)
      BY DEF EditLen, LenOf
    <3>3. len[k] = LenOf(k, edits[k])
      BY <2>2 DEF NextLens
    <3> QED
      BY <2>1, <2>2, <3>2, <3>3
  <2>3. CASE ~edits[k].staged
    <3>1. len[k] = TailOffset(entry)[k + 1] - TailOffset(entry)[k]
      BY <2>3 DEF NextLens
    <3>2. /\ oldOff[k] = TailOffset(entry)[k]
          /\ oldOff[k] + oldLen[k] = TailOffset(entry)[k + 1]
      BY <1>4 DEF CommitInv, SourcesAreReplayed
    <3>3. oldOff[k] \in Nat /\ oldLen[k] \in Nat
      BY <1>3
    <3> HIDE DEF len
    <3> QED
      BY <2>1, <2>3, <3>1, <3>2, <3>3
  <2> QED
    BY <2>2, <2>3
<1> HIDE DEF len, ends
<1>5. 0 \in S
  BY <1>1
<1>6. ASSUME NEW k \in 1 .. TailCount, k - 1 \in S PROVE k \in S
  <2> SUFFICES ASSUME Prepared(k) PROVE newOff[k] + newLen[k] = ends[k]
    BY <1>1
  <2>1. k \in TailId /\ newLen[k] = len[k] /\ ends[k] = ends[k - 1] + len[k]
    BY <1>1, <1>2, <1>4
  <2>2. newOff[k] = IF k = 1 THEN HeaderSize ELSE newOff[k - 1] + newLen[k - 1]
    BY <2>1 DEF CommitInv, DestinationsArePacked
  <2>3. CASE k = 1
    BY <1>2, <2>1, <2>2, <2>3
  <2>4. CASE k # 1
    <3>1. k - 1 \in TailId /\ Prepared(k - 1)
      BY <1>1, <1>3, <2>4 DEF Prepared
    <3>2. newOff[k - 1] + newLen[k - 1] = ends[k - 1]
      BY <1>6, <3>1
    <3> QED
      BY <2>1, <2>2, <2>4, <3>2
  <2> QED
    BY <2>3, <2>4
<1>7. \A k \in 0 .. TailCount : k \in S
  <2> HIDE DEF S
  <2> QED
    BY <1>1, <1>5, <1>6, RangeInduction
<1> QED
  BY <1>1, <1>7 DEF ends, len

\* Reading a stored tail does not fail where the account is accepted.
LEMMA OldLenSucceeds ==
    ASSUME TypeOK, HeaderSize <= size, size <= UsizeMax, NEW i \in TailId, NEW off \in Nat,
           off <= size, off <= Capacity[i - 1], TailAccepted(data, size, i, off, TRUE),
           TailEnd(data, i, off) <= totalLen
    PROVE  OldLen(i, off).ok
<1> DEFINE t == Tails[i]
           raw == StoredCount(data, i, off)
           payload == raw * t.size
           end == TailEnd(data, i, off)
           full == TRUE
<1>0. /\ size \in Nat /\ data \in [0 .. (size - 1) -> Byte] /\ totalLen \in Nat
      /\ t.opt \in BOOLEAN /\ t.pfx \in Width /\ t.pfx \in Nat /\ t.size \in Nat /\ UsizeMax \in Nat
  BY TailFacts, SchemaFacts DEF TypeOK
<1>1. end \in Nat /\ end <= UsizeMax /\ end <= totalLen
  <2>1. TailAccepted(data, size, i, off, full)
    OBVIOUS
  <2> HIDE DEF full, end
  <2>2. TailEnd(data, i, off) \in Nat /\ TailEnd(data, i, off) <= UsizeMax
    BY <1>0, <2>1, AcceptedTail
  <2> QED
    BY <2>2 DEF end
<1>2. CASE t.opt /\ data[Slot[i]] = 0
  BY <1>2, OkResult DEF OldLen
<1>3. CASE ~t.opt
  <2>1. raw \in Nat /\ payload \in Nat /\ raw <= UsizeMax
    BY <1>0, <1>3, StoredCountNat DEF TailAccepted
  <2>2. CastPrefix(data, Slot[i], t.pfx) = raw
    <3>1. CastPrefix(data, Slot[i], t.pfx) = Wrap(raw)
      BY <1>3 DEF CastPrefix, StoredCount
    <3> HIDE DEF raw
    <3> QED
      BY <2>1, <3>1, SchemaFacts DEF Wrap
  <2>3. end = off + payload
    BY <1>3 DEF TailEnd, PayloadFrom
  <2>4. OldLen(i, off) = CheckedMul(raw, t.size)
    BY <1>3, <2>2 DEF OldLen
  <2>5. payload <= UsizeMax
    <3> HIDE DEF payload, end
    <3> QED
      BY <1>0, <1>1, <2>1, <2>3
  <2> HIDE DEF raw
  <2>6. CheckedMul(raw, t.size) = Ok(raw * t.size)
    BY <1>0, <2>1, <2>5, BoundedIsExact
  <2> QED
    BY <2>1, <2>4, <2>6, OkResult
<1>4. CASE t.opt /\ data[Slot[i]] # 0
  <2>1. data[Slot[i]] = 1 /\ off + t.pfx <= size /\ raw <= UsizeMax
    BY <1>4 DEF TailAccepted
  <2>2. raw \in Nat /\ payload \in Nat
    BY <1>0, <2>1, StoredCountNat
  <2>3. raw = RawPrefix(data, off, t.pfx) /\ end = (off + t.pfx) + payload
    BY <1>4 DEF StoredCount, TailEnd, PayloadFrom
  <2>4. ReadPrefix(data, size, off, t.pfx) = Ok(raw)
    <3>1. off + t.pfx <= UsizeMax /\ ~(off + t.pfx > size)
      BY <1>0, <2>1
    <3>2. ReadPrefix(data, size, off, t.pfx) = PlainRead(data, size, off, t.pfx)
      BY <1>0, <3>1, ReadPrefixIsPlain
    <3> HIDE DEF raw
    <3>3. ~(raw > UsizeMax)
      BY <1>0, <2>1, <2>2
    <3> QED
      BY <2>3, <3>1, <3>2, <3>3 DEF PlainRead
  <2>5. Ok(raw).ok /\ Ok(raw).value = raw
    BY <2>2, OkResult
  <2>6. payload <= UsizeMax /\ t.pfx + payload \in Nat /\ t.pfx + payload <= UsizeMax
        /\ off + (t.pfx + payload) <= UsizeMax /\ off + (t.pfx + payload) = end
    <3> DEFINE w == t.pfx
    <3>1. w \in Nat /\ payload \in Nat /\ end = (off + w) + payload /\ end <= UsizeMax
      BY <1>0, <1>1, <2>2, <2>3
    <3> HIDE DEF payload, end, w
    <3>2. payload <= UsizeMax /\ w + payload \in Nat /\ w + payload <= UsizeMax
          /\ off + (w + payload) = end
      BY <1>0, <3>1
    <3> QED
      BY <3>1, <3>2 DEF w
  <2> DEFINE product == CheckedMul(raw, t.size)
             whole == CheckedAdd(t.pfx, product.value)
             last == CheckedAdd(off, whole.value)
  <2>7. product = Ok(payload) /\ product.ok /\ product.value = payload
    <3> HIDE DEF raw
    <3>1. product = Ok(raw * t.size)
      BY <1>0, <2>2, <2>6, BoundedIsExact
    <3> QED
      BY <2>2, <3>1, OkResult
  <2>8. whole = Ok(t.pfx + payload) /\ whole.ok /\ whole.value = t.pfx + payload
    <3> HIDE DEF product, payload
    <3>1. ~(t.pfx + payload > UsizeMax)
      BY <1>0, <2>6
    <3>2. whole = Ok(t.pfx + payload)
      BY <2>7, <3>1 DEF CheckedAdd
    <3> QED
      BY <2>6, <3>2, OkResult
  <2>9. last = Ok(end) /\ last.ok /\ last.value = end
    <3> HIDE DEF whole, payload, end
    <3>1. off + whole.value = end /\ ~(end > UsizeMax)
      BY <1>0, <1>1, <2>6, <2>8
    <3>2. last = Ok(end)
      BY <3>1 DEF CheckedAdd
    <3> QED
      BY <1>1, <3>2, OkResult
  <2>10. OldLen(i, off) = IF ~product.ok THEN product
                          ELSE IF ~whole.ok THEN whole
                          ELSE IF ~last.ok THEN last
                          ELSE IF last.value > totalLen THEN Err("BufferTooSmall")
                          ELSE whole
    BY <1>4, <2>1, <2>4, <2>5 DEF OldLen
  <2> HIDE DEF product, whole, last, end
  <2>11. ~(last.value > totalLen)
    BY <1>0, <1>1, <2>9
  <2> QED
    BY <2>7, <2>8, <2>9, <2>10, <2>11
<1> QED
  BY <1>0, <1>2, <1>3, <1>4

\* No tail fails to be laid out.
LEMMA SetupSucceeds ==
    ASSUME IInv, CommitInv, Fit(edits), Setup
    PROVE  pc' # "idle" /\ UNCHANGED <<size, entry, edits>>
<1> DEFINE oldStart == Start(cur, oldOff, oldLen)
           newStart == Start(cur, newOff, newLen)
           old == OldLen(cur, oldStart.value)
           new == NewLen(cur, old.value)
           f == TailOffset(entry)
           ends == PackedEnds(NextLens(entry, edits))
           outcome == IF ~oldStart.ok THEN oldStart
                      ELSE IF ~newStart.ok THEN newStart
                      ELSE IF ~old.ok THEN old
                      ELSE new
<1>1. /\ pc = "setup" /\ cur \in TailId /\ data = entry
      /\ UNCHANGED <<size, edits, entry>>
      /\ oldOff \in [TailId -> Nat] /\ oldLen \in [TailId -> Nat]
      /\ newOff \in [TailId -> Nat] /\ newLen \in [TailId -> Nat]
      /\ size \in Nat /\ UsizeMax \in Nat /\ HeaderSize \in Nat
  BY SchemaFacts DEF Setup, IInv, TypeOK, BytesUntilMoving
<1>2. /\ HeaderSize <= size /\ size <= UsizeMax /\ Places(entry, size, TRUE, f)
      /\ \A i \in 1 .. (TailCount + 1) :
           f[i] \in Nat /\ f[i] <= size /\ f[i] <= Capacity[i - 1] /\ f[i] <= totalLen
  BY EntryFacts DEF IInv, CommitInv
<1>3. /\ cur \in 1 .. (TailCount + 1) /\ cur + 1 \in 1 .. (TailCount + 1)
      /\ cur # 1 => cur - 1 \in TailId /\ cur - 1 < cur /\ (cur - 1) + 1 = cur
                    /\ cur - 1 \in 0 .. TailCount
  BY <1>1, Constants DEF TailId
<1>4. cur # 1 => Prepared(cur - 1)
  BY <1>1, <1>3 DEF Prepared
<1> HIDE DEF f
<1>5. oldStart = Ok(f[cur])
  <2>1. CASE cur = 1
    BY <1>2, <2>1 DEF Start, Places
  <2>2. CASE cur # 1
    <3>1. oldOff[cur - 1] + oldLen[cur - 1] = f[cur]
      BY <1>3, <1>4, <2>2 DEF CommitInv, SourcesAreReplayed, f
    <3>2. f[cur] \in Nat /\ f[cur] <= size
      BY <1>2, <1>3
    <3>3. ~(f[cur] > UsizeMax)
      BY <1>1, <1>2, <3>2
    <3> QED
      BY <2>2, <3>1, <3>3 DEF Start, CheckedAdd
  <2> QED
    BY <2>1, <2>2
<1>6. newStart.ok
  <2>1. CASE cur = 1
    BY <1>1, <2>1, OkResult DEF Start
  <2>2. CASE cur # 1
    <3>1. newOff[cur - 1] + newLen[cur - 1] = ends[cur - 1]
      BY <1>3, <1>4, <2>2, LaidOutAsPlanned
    <3>2. ends[cur - 1] \in Nat /\ ends[cur - 1] <= UsizeMax
      BY <1>3, <2>2, PlannedLengths DEF IInv, CommitInv
    <3> HIDE DEF ends
    <3>3. ~(ends[cur - 1] > UsizeMax)
      BY <1>1, <3>2
    <3>4. newStart = Ok(ends[cur - 1])
      BY <2>2, <3>1, <3>3 DEF Start, CheckedAdd
    <3> HIDE DEF newStart
    <3> QED
      BY <3>2, <3>4, OkResult
  <2> QED
    BY <2>1, <2>2
<1>7. old.ok /\ old.value \in Nat
  <2> DEFINE off == f[cur]
  <2>1. off \in Nat /\ off <= size /\ off <= Capacity[cur - 1]
    BY <1>2, <1>3
  <2>2. oldStart.value = off
    BY <1>5, <2>1, OkResult
  <2>3. /\ TailAccepted(data, size, cur, off, TRUE)
        /\ TailEnd(data, cur, off) = f[cur + 1] /\ f[cur + 1] <= totalLen
    BY <1>1, <1>2, <1>3 DEF Places
  <2>4. TailEnd(data, cur, off) <= totalLen
    BY <2>3
  <2> HIDE DEF off, oldStart
  <2>5. OldLen(cur, off).ok
    BY <1>1, <1>2, <2>1, <2>3, <2>4, OldLenSucceeds DEF IInv
  <2>6. OldLen(cur, off).value \in Nat
    BY <1>1, <1>2, <2>1, OldLenResult DEF IInv, IsResult
  <2> QED
    BY <2>2, <2>5, <2>6
<1>8. new.ok
  <2> DEFINE e == edits[cur]
             t == Tails[cur]
             payload == e.count * t.size
  <2>1. CASE ~e.staged
    BY <1>7, <2>1, OkResult DEF NewLen
  <2>2. CASE e.staged
    <3>1. FitEdit(cur, e) /\ e.count \in Nat /\ e.present \in BOOLEAN
      BY <1>1 DEF Fit, FitEdit, Edit
    <3>2. /\ t.opt \in BOOLEAN /\ t.pfx \in Nat /\ t.size \in Nat
          /\ Capacity[cur - 1] \in Nat
      BY <1>1, TailFacts, CapacityRuns, SchemaFacts
    <3>3. e.count <= t.max
      BY <2>2, <3>1 DEF FitEdit
    <3>4. payload \in Nat /\ (IF t.opt THEN t.pfx ELSE 0) + payload <= UsizeMax
      <4> DEFINE head == IF t.opt THEN t.pfx ELSE 0
      <4>1. Capacity[cur - 1] <= Capacity[cur - 1]
        BY <3>2
      <4>2. /\ payload \in Nat /\ head \in Nat
            /\ Capacity[cur - 1] + head + payload <= UsizeMax
        BY <1>1, <3>1, <3>2, <3>3, <4>1, TailFits
      <4> HIDE DEF payload, head
      <4>3. head + payload <= UsizeMax
        BY <1>1, <3>2, <4>2
      <4> QED
        BY <4>2, <4>3 DEF head
    <3> HIDE DEF payload
    <3>5. ~(payload > UsizeMax) /\ (t.opt => ~(t.pfx + payload > UsizeMax))
      BY <1>1, <3>2, <3>4
    <3>6. CheckedMul(e.count, t.size) = Ok(payload) /\ Ok(payload).ok /\ Ok(payload).value = payload
      BY <3>4, <3>5, OkResult DEF CheckedMul, payload
    <3>7. t.opt => CheckedAdd(t.pfx, payload).ok
      BY <3>5 DEF CheckedAdd, Ok
    <3>8. Ok(0).ok
      BY OkResult
    <3> HIDE DEF old
    <3> QED
      BY <2>2, <3>6, <3>7, <3>8 DEF NewLen
  <2> QED
    BY <2>1, <2>2
<1>9. oldStart.ok
  BY <1>2, <1>3, <1>5, OkResult
<1> HIDE DEF oldStart, newStart, old, new
<1>10. outcome.ok
  BY <1>6, <1>7, <1>8, <1>9
<1>11. Ascend("check")
  BY <1>10 DEF Setup, oldStart, newStart, old, new
<1>12. pc' \in {"setup", "check"}
  BY <1>1, <1>11 DEF Ascend
<1> QED
  BY <1>1, <1>12

\* A range is refused exactly when its tail would end beyond the account.
LEMMA CheckAnswers ==
    ASSUME IInv, CommitInv, Fit(edits), Check
    PROVE  LET end == PackedEnds(NextLens(entry, edits))[cur]
           IN  /\ UNCHANGED <<data, size, entry, edits>>
               /\ end <= size => pc' # "idle" /\ result' = result
               /\ end > size => pc' = "idle" /\ result' = Err("BufferTooSmall")
<1> DEFINE f == TailOffset(entry)
           ends == PackedEnds(NextLens(entry, edits))
<1>1. /\ pc = "check" /\ cur \in TailId
      /\ UNCHANGED <<data, size, edits, entry>>
      /\ oldOff \in [TailId -> Nat] /\ oldLen \in [TailId -> Nat]
      /\ newOff \in [TailId -> Nat] /\ newLen \in [TailId -> Nat]
      /\ size \in Nat /\ UsizeMax \in Nat /\ totalLen \in Nat
  BY SchemaFacts DEF Check, IInv, TypeOK
<1>2. /\ size <= UsizeMax
      /\ \A i \in 1 .. (TailCount + 1) : f[i] \in Nat /\ f[i] <= size /\ f[i] <= totalLen
  BY EntryFacts DEF IInv, CommitInv
<1>3. cur + 1 \in 1 .. (TailCount + 1) /\ cur \in 0 .. TailCount
  BY <1>1, Constants DEF TailId
<1>4. Prepared(cur)
  BY <1>1 DEF Prepared
<1>5. oldOff[cur] + oldLen[cur] = f[cur + 1]
  BY <1>1, <1>4 DEF CommitInv, SourcesAreReplayed
<1>6. newOff[cur] + newLen[cur] = ends[cur]
  BY <1>1, <1>4, LaidOutAsPlanned
<1>7. ends[cur] \in Nat /\ ends[cur] <= UsizeMax
  BY <1>3, PlannedLengths DEF IInv, CommitInv
<1> HIDE DEF f, ends
<1>8. /\ ~(f[cur + 1] > UsizeMax) /\ ~(f[cur + 1] > totalLen) /\ f[cur + 1] \in Nat
      /\ ~(ends[cur] > UsizeMax)
  BY <1>1, <1>2, <1>3, <1>7
<1>9. /\ CheckedAdd(oldOff[cur], oldLen[cur]) = Ok(f[cur + 1])
      /\ CheckedAdd(newOff[cur], newLen[cur]) = Ok(ends[cur])
  BY <1>5, <1>6, <1>8 DEF CheckedAdd
<1>10. /\ Ok(f[cur + 1]).ok /\ Ok(f[cur + 1]).value = f[cur + 1]
       /\ Ok(ends[cur]).ok /\ Ok(ends[cur]).value = ends[cur]
  BY <1>7, <1>8, OkResult
<1>11. RangeCheck(cur) = IF ends[cur] > size THEN Err("BufferTooSmall") ELSE Ok(ends[cur])
  BY <1>8, <1>9, <1>10 DEF RangeCheck
<1>12. ASSUME ends[cur] <= size PROVE pc' \in {"check", "back"} /\ result' = result
  <2>1. ~(ends[cur] > size)
    BY <1>1, <1>7, <1>12
  <2>2. RangeCheck(cur).ok
    BY <1>10, <1>11, <2>1
  <2> QED
    BY <1>1, <2>2 DEF Check, Ascend
<1>13. ASSUME ends[cur] > size PROVE pc' = "idle" /\ result' = Err("BufferTooSmall")
  <2>1. ~RangeCheck(cur).ok /\ RangeCheck(cur).error = "BufferTooSmall"
    BY <1>11, <1>13 DEF Err
  <2> QED
    BY <2>1 DEF Check, Fail
<1> QED
  BY <1>1, <1>12, <1>13 DEF ends

\* The later steps of a commit never fail, roomy or not.
LEMMA LaterSucceeds ==
    ASSUME IInv, MoveBack \/ MoveForth \/ Write \/ WriteSlot
    PROVE  pc' # "idle" /\ UNCHANGED <<size, entry, edits>>
<1>1. CASE MoveBack
  BY <1>1 DEF MoveBack
<1>2. CASE MoveForth
  BY <1>2 DEF MoveForth
<1>3. CASE Write
  <2>1. pc = "write" /\ UNCHANGED <<size, entry, edits>> /\ edits[cur].staged \in BOOLEAN
        /\ edits[cur].present \in BOOLEAN
    BY <1>3 DEF Write, IInv, TypeOK, Edit
  <2>2. Ascend("slots")
    <3>1. CASE edits[cur].staged /\ edits[cur].present
      BY <1>3, <3>1, EditIsWritten
    <3>2. CASE ~edits[cur].staged \/ ~edits[cur].present
      BY <1>3, <3>2 DEF Write
    <3> QED
      BY <2>1, <3>1, <3>2
  <2> QED
    BY <2>1, <2>2 DEF Ascend
<1>4. CASE WriteSlot
  <2>1. pc = "slots" /\ UNCHANGED <<size, entry, edits>>
    BY <1>4 DEF WriteSlot
  <2>2. Ascend("finish")
    BY <1>4, SlotIsWritten
  <2> QED
    BY <2>1, <2>2 DEF Ascend
<1> QED
  BY <1>1, <1>2, <1>3, <1>4

\* A commit that ends returns the planned length, and is the account then.
LEMMA FinishAnnounces ==
    ASSUME IInv, CommitInv, Fit(edits), Finish
    PROVE  /\ pc' = "idle" /\ result'.ok /\ result'.value = NextLen(entry, edits)
           /\ totalLen' = NextLen(entry, edits) /\ entry' = data' /\ UNCHANGED size
<1>1. pc = "finish" /\ Moving /\ TailCount \in TailId
  BY Constants DEF Finish, Moving
<1>2. Prepared(TailCount)
  BY <1>1 DEF Prepared
<1>3. FinalTotal = NextLen(entry, edits)
  BY <1>1, <1>2, LaidOutAsPlanned DEF FinalTotal, NextLen
<1>4. FinalTotal \in Nat
  BY <1>1, FinalTotalBounds
<1>5. pc' = "idle" /\ result' = Ok(FinalTotal) /\ totalLen' = FinalTotal /\ entry' = data' /\ UNCHANGED size
  BY DEF Finish, Return
<1> HIDE DEF FinalTotal
<1> QED
  BY <1>3, <1>4, <1>5, OkResult

\* The check a commit begins with passes, but for inline bytes that the feature
\* compact-commit-full-validation reads.
LEMMA EntryCheck ==
    ASSUME IInv, CommitInv, Commit
    PROVE  /\ UNCHANGED <<data, size, totalLen, edits>> /\ entry' = data
           /\ \/ pc' = "setup"
              \/ pc' = "idle" /\ result' = Err(Inline.error) /\ ~InlineValid(entry)
<1> DEFINE check == IF FullValidation THEN Validate(data, size) ELSE ValidateLayout(data, size)
           w == WalkTails(data, size, TRUE)
<1>1. /\ pc = "idle" /\ data = entry /\ UNCHANGED <<data, size, totalLen, edits>> /\ entry' = data
      /\ size \in Nat /\ data \in [0 .. (size - 1) -> Byte]
  BY DEF Commit, IInv, TypeOK, BytesUntilMoving
<1>2. HeaderSize <= size /\ ValidateStorageLen(size).ok /\ w.ok
  BY <1>1, EntryFacts DEF IInv, CommitInv, EntryStands
<1>3. WalkTails(data, size, FALSE) = w
  BY <1>1, <1>2, FullImpliesLayout
<1>4. ValidateLayout(data, size) = w
  <2> HIDE DEF w
  <2> QED
    BY <1>2, <1>3 DEF ValidateLayout
<1>5. /\ InlineValid(data) => Validate(data, size).ok
      /\ ~InlineValid(data) => Validate(data, size) = Err(Inline.error)
  BY <1>1, <1>2, AcceptedIsValid
<1> HIDE DEF w
<1>6. check.ok \/ (~InlineValid(data) /\ check = Err(Inline.error))
  BY <1>2, <1>4, <1>5, WriterAssumption
<1>7. IF check.ok THEN pc' = "setup" ELSE pc' = "idle" /\ result' = Err(check.error)
  BY DEF Commit, Fail
<1> HIDE DEF check
<1>8. Err(Inline.error).error = Inline.error
  BY DEF Err
<1> QED
  BY <1>1, <1>6, <1>7, <1>8

-----------------------------------------------------------------------------
(* The value a commit stores.                                              *)

\* What went through a setter fits its tail.
LEMMA EditsAreFit == IInv /\ CommitInv => Fit(edits)
<1> SUFFICES ASSUME IInv, CommitInv, NEW i \in TailId
             PROVE  edits \in [TailId -> Edit] /\ FitEdit(i, edits[i])
  BY DEF Fit, IInv, TypeOK
<1>1. edits \in [TailId -> Edit] /\ edits[i] \in Edit
  BY DEF IInv, TypeOK
<1>2. edits[i].staged =>
        /\ edits[i].present \/ Tails[i].opt
        /\ Len(edits[i].bytes) = edits[i].count * Tails[i].size
        /\ CheckPrefix(edits[i].count, Tails[i].pfx).ok
  BY DEF IInv, EditsAccepted
<1>3. edits[i].staged =>
        /\ edits[i].count <= Tails[i].max
        /\ ~edits[i].present => edits[i].count = 0
        /\ \A k \in 1 .. Len(edits[i].bytes) : edits[i].bytes[k] \in Tails[i].ok
  BY DEF CommitInv, EditsFit
<1> QED
  BY <1>1, <1>2, <1>3 DEF FitEdit

\* An edit that fits is a value the schema admits, of the length planned for it.
LEMMA EditIsAdmissible ==
    ASSUME NEW i \in TailId, NEW e, FitEdit(i, e), e.staged
    PROVE  LET tail == [present |-> e.present, bytes |-> e.bytes]
           IN  Admissible(i, tail) /\ TailLen(i, tail) = LenOf(i, e)
<1> DEFINE tail == [present |-> e.present, bytes |-> e.bytes]
           t == Tails[i]
<1>1. /\ e.present \in BOOLEAN /\ e.count \in Nat /\ e.bytes \in Seq(Byte)
      /\ e.present \/ t.opt
      /\ Len(e.bytes) = e.count * t.size
      /\ e.count <= t.max
      /\ ~e.present => e.count = 0
      /\ \A k \in 1 .. Len(e.bytes) : e.bytes[k] \in t.ok
      /\ t.size \in Nat /\ t.size > 0 /\ t.opt \in BOOLEAN /\ t.pfx \in Nat
      /\ Len(e.bytes) \in Nat
  BY TailFacts DEF FitEdit, Edit
<1>2. tail.present = e.present /\ tail.bytes = e.bytes /\ DOMAIN e.bytes = 1 .. Len(e.bytes)
  BY <1>1
<1>3. ~e.present => e.bytes = << >>
  <2> SUFFICES ASSUME ~e.present PROVE e.bytes = << >>
    OBVIOUS
  <2>1. e.count = 0
    BY <1>1
  <2>2. Len(e.bytes) = 0
    BY <1>1, <2>1
  <2> QED
    BY <1>1, <2>2
<1>4. Len(e.bytes) % t.size = 0 /\ Len(e.bytes) \div t.size = e.count
  <2> DEFINE c == e.count
             z == t.size
             m == Len(e.bytes)
  <2>1. c \in Nat /\ z \in Nat /\ 0 < z /\ m \in Nat /\ m = c * z + 0
    BY <1>1
  <2> HIDE DEF c, z, m
  <2>2. m % z = 0 /\ m \div z = c
    BY <2>1, Quotient
  <2> QED
    BY <2>2 DEF c, z, m
<1> HIDE DEF tail
<1>5. Count(i, tail) = e.count
  BY <1>2, <1>4 DEF Count
<1>6. Admissible(i, tail)
  BY <1>1, <1>2, <1>3, <1>4, <1>5 DEF Admissible
<1>7. TailLen(i, tail) = LenOf(i, e)
  <2>1. CASE ~e.present
    <3>1. Len(e.bytes) = 0
      BY <1>3, <2>1
    <3> QED
      BY <1>2, <2>1, <3>1 DEF TailLen, LenOf
  <2>2. CASE e.present
    <3> DEFINE m == Len(e.bytes)
    <3>1. m \in Nat
      BY <1>1
    <3>2. TailLen(i, tail) = m + (IF t.opt THEN t.pfx ELSE 0) /\ LenOf(i, e) = (IF t.opt THEN t.pfx ELSE 0) + m
      BY <1>2, <2>2 DEF TailLen, LenOf
    <3> HIDE DEF m
    <3> QED
      BY <1>1, <3>1, <3>2
  <2> QED
    BY <2>1, <2>2
<1> QED
  BY <1>6, <1>7 DEF tail

\* A value with the replacements of es made.
AppliedTo(content, es) ==
    [inline |-> content.inline,
     tails |-> [i \in TailId |-> IF es[i].staged
                                 THEN [present |-> es[i].present, bytes |-> es[i].bytes]
                                 ELSE content.tails[i]]]

\* It is a value of the schema as far as its tails go, and its length is the one
\* the commit plans.
LEMMA AppliedLength ==
    ASSUME NEW n \in Nat, HeaderSize <= n, NEW d \in [0 .. (n - 1) -> Byte],
           WalkTails(d, n, TRUE).ok, NEW es, Fit(es)
    PROVE  LET after == AppliedTo(ContentOf(d), es)
           IN  /\ \A i \in TailId : Admissible(i, after.tails[i])
               /\ ContentLen(after) = NextLen(d, es)
<1> DEFINE after == AppliedTo(ContentOf(d), es)
           len == NextLens(d, es)
           f == LengthTo(after)
           g == PackedEnds(len)
<1>1. Places(d, n, TRUE, TailOffset(d))
  BY AcceptedReplay
<1>2. \A i \in TailId :
        /\ Admissible(i, ContentOf(d).tails[i])
        /\ TailLen(i, ContentOf(d).tails[i]) = TailOffset(d)[i + 1] - TailOffset(d)[i]
  BY <1>1, ContentEncoded
<1>3. len \in [TailId -> Nat]
  BY NextTakes
<1>4. ASSUME NEW i \in TailId
      PROVE  Admissible(i, after.tails[i]) /\ TailLen(i, after.tails[i]) = len[i]
  <2>1. CASE es[i].staged
    <3>1. FitEdit(i, es[i])
      BY DEF Fit
    <3>2. after.tails[i] = [present |-> es[i].present, bytes |-> es[i].bytes]
      BY <2>1 DEF AppliedTo
    <3>3. len[i] = LenOf(i, es[i])
      BY <2>1 DEF NextLens
    <3> HIDE DEF after, len
    <3> QED
      BY <2>1, <3>1, <3>2, <3>3, EditIsAdmissible
  <2>2. CASE ~es[i].staged
    <3>1. after.tails[i] = ContentOf(d).tails[i]
      BY <2>2 DEF AppliedTo
    <3>2. len[i] = TailOffset(d)[i + 1] - TailOffset(d)[i]
      BY <2>2 DEF NextLens
    <3> HIDE DEF after, len
    <3> QED
      BY <1>2, <3>1, <3>2
  <2> QED
    BY <2>1, <2>2
<1> HIDE DEF after, len
<1>5. f[0] = HeaderSize /\ \A i \in TailId : f[i] = f[i - 1] + TailLen(i, after.tails[i])
  <2>1. \A i \in TailId : TailLen(i, after.tails[i]) \in Nat
    BY <1>3, <1>4
  <2> QED
    BY <2>1, LengthRuns
<1>6. g[0] = HeaderSize /\ \A i \in TailId : g[i] = g[i - 1] + len[i]
  BY <1>3, PackedRuns
<1> HIDE DEF f, g
<1>7. RunAlike(f, g)
  BY <1>4, <1>5, <1>6 DEF RunAlike
<1>8. f[TailCount] = g[TailCount]
  <2>1. TailCount \in 0 .. TailCount
    BY SchemaFacts
  <2> QED
    BY <1>7, <2>1, SameRun
<1> QED
  BY <1>4, <1>8 DEF ContentLen, NextLen, after, len, f, g

\* A commit that ends has applied its edits to the value it found, and the
\* account ends where that value does.
LEMMA FinishedContent ==
    ASSUME IInv, CommitInv, Finish
    PROVE  /\ ContentOf(data') = AppliedTo(ContentOf(entry), edits)
           /\ Places(data', size, TRUE, TailOffset(data'))
           /\ EncodedLen(data') = FinalTotal
<1> DEFINE d == data'
           f == Destinations
<1>1. /\ d \in [0 .. (size - 1) -> Byte] /\ Alike(d, 0, data, 0, FinalTotal)
      /\ Places(d, size, TRUE, f)
      /\ \A i \in TailId : i \in 1 .. (TailCount + 1) /\ f[i] = newOff[i]
      /\ f[TailCount + 1] = FinalTotal
  BY FinishedPlaces
<1>2. /\ size \in Nat /\ HeaderSize <= size /\ entry \in [0 .. (size - 1) -> Byte]
      /\ Places(entry, size, TRUE, TailOffset(entry))
  BY EntryFacts DEF IInv, CommitInv
<1>3. pc = "finish"
  BY DEF Finish
<1>i. \A a \in 0 .. (Inline.size - 1) : d[a] = entry[a]
  <2>1. entry' = data'
    BY DEF Finish, Return
  <2> QED
    BY <2>1, FinishKeepsInline
<1> HIDE DEF d, f
<1>4. \A i \in 1 .. (TailCount + 1) : TailOffset(d)[i] = f[i]
  <2> DEFINE full == TRUE
  <2>1. Places(d, size, full, f)
    BY <1>1
  <2> HIDE DEF full
  <2> QED
    BY <1>1, <1>2, <2>1, PlacedIsReplayed
<1>5. WalkTails(d, size, TRUE).ok /\ EncodedLen(d) = FinalTotal
  BY <1>1, <1>2, PlacedIsAccepted
<1>6. Places(d, size, TRUE, TailOffset(d))
  BY <1>1, <1>2, <1>5, AcceptedReplay
<1>7. ASSUME NEW i \in TailId
      PROVE  TailBytes(d, i) = IF edits[i].staged THEN Replacement(i) ELSE TailBytes(entry, i)
  <2> DEFINE to == newOff[i]
             off == oldOff[i]
             full == TRUE
  <2>1. /\ Holds(d, size, i, to, newLen[i], full)
        /\ PlacedBytes(d, i, to) = IF edits[i].staged THEN Replacement(i) ELSE PlacedBytes(entry, i, off)
    BY <1>1, <1>3, FinishedTail
  <2>2. to = TailOffset(d)[i]
    BY <1>1, <1>4
  <2>3. Prepared(i) /\ to \in Nat /\ off \in Nat
    BY <1>3 DEF Prepared, IInv, TypeOK
  <2>4. off = TailOffset(entry)[i]
    BY <2>3 DEF CommitInv, SourcesAreReplayed
  <2>5. TailAccepted(entry, size, i, off, full)
    BY <1>2, <2>4 DEF Places
  <2> HIDE DEF to, off, full
  <2>6. TailBytes(d, i) = PlacedBytes(d, i, to)
    <3>1. TailAccepted(d, size, i, to, full)
      BY <2>1 DEF Holds
    <3> QED
      BY <1>1, <1>2, <2>2, <2>3, <3>1, AccessorReads
  <2>7. TailBytes(entry, i) = PlacedBytes(entry, i, off)
    BY <1>2, <2>3, <2>4, <2>5, AccessorReads
  <2> QED
    BY <2>1, <2>6, <2>7
<1>8. ContentOf(d) = AppliedTo(ContentOf(entry), edits)
  <2>1. ContentOf(d).tails = AppliedTo(ContentOf(entry), edits).tails
    BY <1>7 DEF ContentOf, AppliedTo, Replacement
  <2>2. ContentOf(d).inline = AppliedTo(ContentOf(entry), edits).inline
    BY <1>i DEF ContentOf, AppliedTo
  <2> QED
    BY <2>1, <2>2 DEF ContentOf, AppliedTo
<1> QED
  BY <1>5, <1>6, <1>8 DEF d

-----------------------------------------------------------------------------
(* The writer implements CompactValue.                                     *)

\* The wire format means the same on both sides of the refinement.
LEMMA SameMeasure ==
    /\ \A content : Value!ContentLen(content) = ContentLen(content)
    /\ \A i, tail : Value!Admissible(i, tail) = Admissible(i, tail)
    /\ \A content : Value!AdmissibleContent(content) = AdmissibleContent(content)
    /\ Value!TailId = TailId
    /\ \A v : Value!Ok(v) = Ok(v) /\ Value!Err(v) = Err(v)
<1>1. \A content : Value!ContentLen(content) = ContentLen(content)
  BY Zenon DEF Value!ContentLen, ContentLen, Value!LengthTo, LengthTo, Value!TailLen, TailLen,
               Value!TailCount, TailCount
<1>2. \A i, tail : Value!Admissible(i, tail) = Admissible(i, tail)
  BY Zenon DEF Value!Admissible, Admissible, Value!Count, Count
<1>3. Value!TailId = TailId
  BY Zenon DEF Value!TailId, TailId, Value!TailCount, TailCount
<1>4. \A content : Value!AdmissibleContent(content) = AdmissibleContent(content)
  BY <1>2, <1>3, Zenon DEF Value!AdmissibleContent, AdmissibleContent
<1>5. \A v : Value!Ok(v) = Ok(v) /\ Value!Err(v) = Err(v)
  BY Zenon DEF Value!Ok, Ok, Value!Err, Err
<1> QED
  BY <1>1, <1>2, <1>3, <1>4, <1>5

\* Both invariants, and inline bytes that read back.
ValueInv == IInv /\ CommitInv /\ InlineValid(entry)

\* Whatever a commit is doing to the bytes, the writer stands for the value the
\* entry stores: between commits the entry is the account.
LEMMA HeldIsEntry == ValueInv => HeldContent = ContentOf(entry)
<1> SUFFICES ASSUME ValueInv PROVE HeldContent = ContentOf(entry)
  OBVIOUS
<1>1. CASE pc = "idle"
  <2>1. data = entry
    BY <1>1 DEF ValueInv, IInv, BytesUntilMoving
  <2> QED
    BY <1>1, <2>1 DEF HeldContent
<1>2. CASE pc # "idle"
  BY <1>2 DEF HeldContent
<1> QED
  BY <1>1, <1>2

\* That value is one the schema admits and the account has room for.
LEMMA HeldIsAdmissible ==
    ValueInv => /\ AdmissibleContent(HeldContent)
                /\ ContentLen(HeldContent) <= size
<1> SUFFICES ASSUME ValueInv
             PROVE  AdmissibleContent(HeldContent) /\ ContentLen(HeldContent) <= size
  OBVIOUS
<1> DEFINE content == ContentOf(entry)
<1>1. HeldContent = content
  BY HeldIsEntry
<1>2. /\ size \in Nat /\ HeaderSize <= size /\ entry \in [0 .. (size - 1) -> Byte]
      /\ Places(entry, size, TRUE, TailOffset(entry))
  BY EntryFacts DEF ValueInv, IInv, CommitInv
<1>3. /\ \A i \in TailId : Admissible(i, content.tails[i])
      /\ ContentLen(content) = EncodedLen(entry) /\ EncodedLen(entry) <= size
  BY <1>2, ContentEncoded
<1>4. \A a \in DOMAIN content.inline : content.inline[a] \in Inline.ok[a]
  BY DEF ValueInv, InlineValid, ContentOf
<1> HIDE DEF content
<1> QED
  BY <1>1, <1>3, <1>4 DEF AdmissibleContent

\* The replacements are the staged edits.
LEMMA AppliedIsStaged == ValueInv => Value!Applied = AppliedTo(ContentOf(entry), edits)
<1> SUFFICES ASSUME ValueInv
             PROVE  Value!Applied = AppliedTo(ContentOf(entry), edits)
  OBVIOUS
<1> DEFINE content == ContentOf(entry)
<1>1. HeldContent = content
  BY HeldIsEntry
<1>2. \A i \in TailId : /\ Replacements[i].staged = edits[i].staged
                        /\ Replacements[i].tail = [present |-> edits[i].present, bytes |-> edits[i].bytes]
  BY DEF Replacements, Replacement
<1>3. content = [inline |-> content.inline, tails |-> content.tails]
  BY DEF ContentOf
<1> HIDE DEF content
<1>4. [content EXCEPT !.tails =
        [i \in TailId |-> IF Replacements[i].staged THEN Replacements[i].tail ELSE @[i]]]
      = [inline |-> content.inline,
         tails |-> [i \in TailId |-> IF Replacements[i].staged THEN Replacements[i].tail
                                     ELSE content.tails[i]]]
  BY <1>3
<1>5. [i \in TailId |-> IF Replacements[i].staged THEN Replacements[i].tail ELSE content.tails[i]]
      = [i \in TailId |-> IF edits[i].staged
                          THEN [present |-> edits[i].present, bytes |-> edits[i].bytes]
                          ELSE content.tails[i]]
  BY <1>2
<1> QED
  BY <1>1, <1>4, <1>5, SameMeasure DEF Value!Applied, AppliedTo, content

\* What the value needs once the edits are made.
LEMMA AppliedNeeds ==
    ValueInv => /\ ContentLen(AppliedTo(ContentOf(entry), edits)) = NextLen(entry, edits)
                /\ NextLen(entry, edits) \in Nat
<1> SUFFICES ASSUME ValueInv
             PROVE  /\ ContentLen(AppliedTo(ContentOf(entry), edits)) = NextLen(entry, edits)
                    /\ NextLen(entry, edits) \in Nat
  OBVIOUS
<1>1. /\ size \in Nat /\ HeaderSize <= size /\ entry \in [0 .. (size - 1) -> Byte]
      /\ WalkTails(entry, size, TRUE).ok /\ TypeOK /\ EntryStands /\ Fit(edits)
  BY EntryFacts, EditsAreFit DEF ValueInv, IInv, CommitInv, EntryStands
<1>2. TailCount \in 0 .. TailCount
  BY SchemaFacts
<1> QED
  BY <1>1, <1>2, AppliedLength, PlannedLengths

\* After a step as before it.
LEMMA HeldNext ==
    /\ ValueInv' => (HeldContent = ContentOf(entry))'
    /\ ValueInv' => (AdmissibleContent(HeldContent) /\ ContentLen(HeldContent) <= size)'
    /\ ValueInv' => Fit(edits)'
<1>1. ValueInv' => (HeldContent = ContentOf(entry))'
  BY HeldIsEntry, PTL
<1>2. ValueInv' => (AdmissibleContent(HeldContent) /\ ContentLen(HeldContent) <= size)'
  BY HeldIsAdmissible, PTL
<1>3. ValueInv' => Fit(edits)'
  <2>1. ValueInv => Fit(edits)
    BY EditsAreFit DEF ValueInv
  <2> QED
    BY <2>1, PTL
<1> QED
  BY <1>1, <1>2, <1>3

\* A step that leaves the entry, the edits, the room and the result alone says
\* nothing about the value.
LEMMA StepIsSilent ==
    ASSUME ValueInv, ValueInv', UNCHANGED <<entry, edits, size, result>>
    PROVE  UNCHANGED Value!vars
<1>1. HeldContent' = HeldContent
  <2>1. HeldContent' = ContentOf(entry') /\ HeldContent = ContentOf(entry) /\ entry' = entry
    BY HeldIsEntry, HeldNext
  <2> QED
    BY <2>1
<1>2. Replacements' = Replacements
  BY DEF Replacements, Replacement
<1> QED
  BY <1>1, <1>2 DEF Value!vars

\* A writer opens on an admissible value.
LEMMA OpensOnValue == Init /\ ValueInv => Value!Init
<1> SUFFICES ASSUME Init, ValueInv PROVE Value!Init
  OBVIOUS
<1>1. size \in Nat /\ AdmissibleContent(HeldContent) /\ ContentLen(HeldContent) <= size
  BY HeldIsAdmissible DEF ValueInv, IInv, TypeOK
<1>2. Replacements = Value!Nothing
  <2>1. \A i \in TailId : edits[i] = Keep
    BY DEF Init, NoEdits
  <2> DEFINE none == [staged |-> FALSE, tail |-> [present |-> FALSE, bytes |-> << >>]]
  <2>2. ASSUME NEW i \in TailId
        PROVE  [staged |-> edits[i].staged,
                tail |-> [present |-> edits[i].present, bytes |-> edits[i].bytes]] = none
    <3>1. edits[i] = [staged |-> FALSE, present |-> FALSE, count |-> 0, bytes |-> << >>]
      BY <2>1 DEF Keep
    <3>2. edits[i].staged = FALSE /\ edits[i].present = FALSE /\ edits[i].bytes = << >>
      BY <3>1
    <3> QED
      BY <3>2, Zenon
  <2>3. Value!Nothing = [i \in TailId |-> none]
    BY SameMeasure DEF Value!Nothing, Value!Unstaged, Value!Absent
  <2> HIDE DEF none
  <2> QED
    BY <2>2, <2>3, Zenon DEF Replacements, Replacement
<1>3. result = Err("none")
  BY DEF Init
<1> QED
  BY <1>1, <1>2, <1>3, SameMeasure DEF Value!Init

\* Inline bytes are the value's at once.
LEMMA InlineIsStored ==
    ASSUME ValueInv, ValueInv', SetInline
    PROVE  Value!StoreInline
<1> DEFINE before == ContentOf(entry)
           after == ContentOf(entry')
<1>1. /\ data = entry /\ entry' = data' /\ UNCHANGED <<size, edits, result>>
  BY DEF SetInline, ValueInv, IInv, BytesUntilMoving
<1>2. /\ size \in Nat /\ HeaderSize <= size /\ entry \in [0 .. (size - 1) -> Byte]
      /\ WalkTails(entry, size, TRUE).ok
  BY EntryFacts DEF ValueInv, IInv, CommitInv, EntryStands
<1>3. entry' \in [0 .. (size - 1) -> Byte]
  <2>1. TypeOK'
    BY DEF ValueInv, IInv
  <2> QED
    BY <1>1, <2>1 DEF TypeOK
<1>4. \A a \in 0 .. (size - 1) : a >= Inline.size => entry'[a] = entry[a]
  <2>1. PICK value \in InlineValues :
          data' = [a \in DOMAIN data |-> IF a < Inline.size THEN value[a] ELSE data[a]]
    BY DEF SetInline
  <2>2. Inline.size \in Nat
    BY SchemaAssumption, PrefixesAssumption
  <2> QED
    BY <1>1, <1>2, <2>1, <2>2
<1>5. after.tails = before.tails
  <2> DEFINE e == entry'
  <2>1. e \in [0 .. (size - 1) -> Byte] /\ \A a \in 0 .. (size - 1) : a >= Inline.size => e[a] = entry[a]
    BY <1>3, <1>4
  <2> HIDE DEF e
  <2>2. TailsAlike(entry, e)
    BY <1>2, <2>1, InlineIsNoMatter
  <2> QED
    BY <2>2 DEF e, TailsAlike
<1>6. HeldContent = before /\ HeldContent' = after
  BY HeldIsEntry, HeldNext
<1>7. AdmissibleContent(HeldContent')
  BY HeldNext
<1>8. /\ before = [inline |-> before.inline, tails |-> before.tails]
      /\ after = [inline |-> after.inline, tails |-> after.tails]
  BY DEF ContentOf
<1> HIDE DEF before, after
<1>9. after = [before EXCEPT !.inline = after.inline]
  BY <1>5, <1>8
<1>10. Replacements' = Replacements
  BY <1>1 DEF Replacements, Replacement
<1> QED
  BY <1>1, <1>6, <1>7, <1>9, <1>10, SameMeasure DEF Value!StoreInline

\* A setter stages a value its tail can hold, and no other.
LEMMA SetIsStaged ==
    ASSUME ValueInv, ValueInv', NEW i \in TailId, Set(i)
    PROVE  Value!Stage(i)
<1>1. PICK e \in Offers[i] : edits' = [edits EXCEPT ![i] = e]
  BY DEF Set
<1>2. /\ edits \in [TailId -> Edit] /\ UNCHANGED <<entry, size, result>>
      /\ Offers[i] \subseteq Edit /\ e.staged
  BY WriterAssumption DEF Set, ValueInv, IInv, TypeOK
<1>3. edits'[i] = e /\ \A j \in TailId \ {i} : edits'[j] = edits[j]
  BY <1>1, <1>2
<1>4. Fit(edits')
  BY HeldNext
<1>5. FitEdit(i, e)
  BY <1>3, <1>4 DEF Fit
<1>6. Admissible(i, [present |-> e.present, bytes |-> e.bytes])
  BY <1>2, <1>5, EditIsAdmissible
<1>7. /\ Replacements'[i].staged = e.staged
      /\ Replacements'[i].tail = [present |-> e.present, bytes |-> e.bytes]
      /\ \A j \in TailId \ {i} : Replacements'[j] = Replacements[j]
  BY <1>3 DEF Replacements, Replacement
<1>8. HeldContent' = HeldContent
  <2>1. HeldContent' = ContentOf(entry') /\ HeldContent = ContentOf(entry) /\ entry' = entry
    BY <1>2, HeldIsEntry, HeldNext
  <2> QED
    BY <2>1
<1> QED
  BY <1>2, <1>6, <1>7, <1>8, SameMeasure DEF Value!Stage

\* A range that does not fit refuses the commit, and then the value as a whole
\* does not: no other check fails.
LEMMA CheckIsRefusal ==
    ASSUME ValueInv, ValueInv', Check
    PROVE  UNCHANGED Value!vars \/ Value!Refuse
<1> DEFINE ends == PackedEnds(NextLens(entry, edits))
<1>1. IInv /\ CommitInv /\ Fit(edits) /\ TypeOK /\ EntryStands
  BY EditsAreFit DEF ValueInv, IInv, CommitInv
<1>2. /\ UNCHANGED <<size, entry, edits>>
      /\ ends[cur] <= size => result' = result
      /\ ends[cur] > size => result' = Err("BufferTooSmall")
  BY <1>1, CheckAnswers
<1>3. cur \in 0 .. TailCount /\ size \in Nat
  BY <1>1, Constants DEF TypeOK, TailId
<1>4. ends[cur] \in Nat /\ ends[cur] <= NextLen(entry, edits)
  BY <1>1, <1>3, PlannedLengths
<1> HIDE DEF ends
<1>5. CASE ends[cur] <= size
  BY <1>2, <1>5, StepIsSilent
<1>6. CASE ends[cur] > size
  <2>1. NextLen(entry, edits) \in Nat /\ ContentLen(Value!Applied) = NextLen(entry, edits)
    BY AppliedNeeds, AppliedIsStaged
  <2>2. ContentLen(Value!Applied) > size
    BY <1>3, <1>4, <1>6, <2>1
  <2>3. HeldContent' = HeldContent
    <3>1. HeldContent' = ContentOf(entry') /\ HeldContent = ContentOf(entry) /\ entry' = entry
      BY <1>2, HeldIsEntry, HeldNext
    <3> QED
      BY <3>1
  <2>4. Replacements' = Replacements
    BY <1>2 DEF Replacements, Replacement
  <2> QED
    BY <1>2, <1>6, <2>2, <2>3, <2>4, SameMeasure DEF Value!Refuse
<1> QED
  BY <1>3, <1>4, <1>5, <1>6

\* A commit that ends stores the value with its replacements, in that many bytes.
LEMMA FinishIsCommit ==
    ASSUME ValueInv, ValueInv', Finish
    PROVE  Value!Commit
<1>1. IInv /\ CommitInv /\ Fit(edits) /\ TypeOK
  BY EditsAreFit DEF ValueInv, IInv
<1>2. /\ entry' = data' /\ UNCHANGED size /\ result' = Ok(FinalTotal) /\ edits' = NoEdits
      /\ pc = "finish"
  BY DEF Finish, Return
<1>3. FinalTotal = NextLen(entry, edits)
  <2>1. Moving /\ TailCount \in TailId
    BY <1>2, Constants DEF Moving
  <2>2. Prepared(TailCount)
    BY <1>2 DEF Prepared
  <2> QED
    BY <1>1, <2>1, <2>2, LaidOutAsPlanned DEF FinalTotal, NextLen
<1>4. FinalTotal <= size
  BY <1>1, <1>2, FinalTotalBounds DEF Moving
<1>5. ContentOf(data') = AppliedTo(ContentOf(entry), edits)
  BY <1>1, FinishedContent
<1>6. HeldContent' = Value!Applied
  <2>1. HeldContent' = ContentOf(entry')
    BY HeldNext
  <2> QED
    BY <1>2, <1>5, <2>1, AppliedIsStaged
<1>7. ContentLen(Value!Applied) = FinalTotal
  BY <1>3, AppliedNeeds, AppliedIsStaged
<1>8. Replacements' = Value!Nothing
  <2>1. \A i \in TailId : edits'[i] = Keep
    BY <1>2 DEF NoEdits
  <2> DEFINE none == [staged |-> FALSE, tail |-> [present |-> FALSE, bytes |-> << >>]]
  <2>2. ASSUME NEW i \in TailId
        PROVE  [staged |-> edits'[i].staged,
                tail |-> [present |-> edits'[i].present, bytes |-> edits'[i].bytes]] = none
    <3>1. edits'[i] = [staged |-> FALSE, present |-> FALSE, count |-> 0, bytes |-> << >>]
      BY <2>1 DEF Keep
    <3>2. edits'[i].staged = FALSE /\ edits'[i].present = FALSE /\ edits'[i].bytes = << >>
      BY <3>1
    <3> QED
      BY <3>2, Zenon
  <2>3. Value!Nothing = [i \in TailId |-> none]
    BY SameMeasure DEF Value!Nothing, Value!Unstaged, Value!Absent
  <2> HIDE DEF none
  <2> QED
    BY <2>2, <2>3, Zenon DEF Replacements, Replacement
<1> QED
  BY <1>2, <1>4, <1>6, <1>7, <1>8, SameMeasure DEF Value!Commit

\* The staged writer implements the value: a step changes inline bytes, stages
\* a replacement, stores the value with all of them at once, refuses because
\* that value is longer than the account, or says nothing.
THEOREM WriterImplementsValue == Spec => ImplementsValue
<1>1. Spec => []ValueInv
  <2>1. Init => InlineValid(entry)
    BY ErrResult DEF Init, Validate
  <2>2. IInv /\ CommitInv /\ InlineValid(entry) /\ [Next]_vars => InlineValid(entry)'
    BY InlineStands
  <2> QED
    BY <2>1, <2>2, Invariance, CommitInvariance, PTL DEF Spec, ValueInv
<1>2. Init /\ ValueInv => Value!Init
  BY OpensOnValue
<1>3. ValueInv /\ ValueInv' /\ [Next]_vars => [Value!Next]_(Value!vars)
  <2> SUFFICES ASSUME ValueInv, ValueInv', [Next]_vars
               PROVE  Value!Next \/ UNCHANGED Value!vars
    OBVIOUS
  <2>f. IInv /\ CommitInv /\ Fit(edits)
    BY EditsAreFit DEF ValueInv
  <2>1. CASE SetInline
    BY <2>1, InlineIsStored DEF Value!Next
  <2>2. CASE \E i \in TailId : Set(i)
    BY <2>2, SetIsStaged, SameMeasure DEF Value!Next
  <2>3. CASE Commit
    <3>1. UNCHANGED <<size, edits>> /\ entry' = data /\ pc' = "setup" /\ data = entry
      BY <2>3, <2>f, EntryCheck DEF ValueInv, Commit, IInv, BytesUntilMoving
    <3>2. result' = result
      BY <2>3, <3>1 DEF Commit, Fail
    <3> QED
      BY <3>1, <3>2, StepIsSilent
  <2>4. CASE Setup
    <3>1. pc' # "idle" /\ UNCHANGED <<size, entry, edits>>
      BY <2>4, <2>f, SetupSucceeds
    <3>2. result' = result
      BY <2>4, <3>1 DEF Setup, Fail
    <3> QED
      BY <3>1, <3>2, StepIsSilent
  <2>5. CASE Check
    BY <2>5, CheckIsRefusal DEF Value!Next
  <2>6. CASE MoveBack \/ MoveForth \/ Write \/ WriteSlot
    <3>1. pc' # "idle" /\ UNCHANGED <<size, entry, edits>>
      BY <2>6, <2>f, LaterSucceeds
    <3>2. result' = result
      BY <2>6, <3>1 DEF MoveBack, MoveForth, Write, WriteSlot, Fail
    <3> QED
      BY <3>1, <3>2, StepIsSilent
  <2>7. CASE Finish
    BY <2>7, FinishIsCommit DEF Value!Next
  <2>8. CASE UNCHANGED vars
    BY <2>8, StepIsSilent DEF vars
  <2> QED
    BY <2>1, <2>2, <2>3, <2>4, <2>5, <2>6, <2>7, <2>8 DEF Next
<1> QED
  BY <1>1, <1>2, <1>3, PTL DEF Spec, ImplementsValue, Value!Spec

-----------------------------------------------------------------------------
(* What the inputs of a call that passes validate_inputs are.              *)

\* What a check of the inputs can say.
InputResults ==
    {Ok(0), Err("Overflow"), Err(Inline.error)} \cup {Err(Tails[i].error) : i \in TailId}

\* One tail's check says one of these, and passes an edit the tail can store.
LEMMA TailInputPasses ==
    ASSUME NEW i \in TailId, NEW e \in Offers[i] \cup {Keep}
    PROVE  /\ TailInput(i, e) \in InputResults
           /\ TailInput(i, e).ok => FitEdit(i, e)
<1> DEFINE t == Tails[i]
<1>1. /\ \A x : ~Err(x).ok /\ Ok(0).ok
      /\ Ok(0) \in InputResults /\ Err("Overflow") \in InputResults /\ Err(t.error) \in InputResults
  BY DEF InputResults, Ok, Err
<1>2. e \in Edit
  <2>1. << >> \in Seq(Byte)
    OBVIOUS
  <2>2. Keep \in Edit
    BY <2>1 DEF Keep, Edit
  <2>3. Offers[i] \subseteq Edit
    BY WriterAssumption
  <2> QED
    BY <2>2, <2>3
<1>3. e.bytes \in Seq(Byte) /\ DOMAIN e.bytes = 1 .. Len(e.bytes) /\ e.count \in Nat
      /\ e.staged \in BOOLEAN /\ e.present \in BOOLEAN
  BY <1>2 DEF Edit
<1>4. CASE ~e.staged
  <2>1. TailInput(i, e) = Ok(0)
    BY <1>4 DEF TailInput
  <2>2. FitEdit(i, e)
    BY <1>2, <1>4 DEF FitEdit
  <2> QED
    BY <1>1, <2>1, <2>2
<1>5. CASE e.staged
  <2>1. e \in Offers[i]
    BY <1>5 DEF Keep
  <2>2. /\ e.present \/ t.opt
        /\ Len(e.bytes) = e.count * t.size
        /\ ~e.present => e.count = 0
    BY <2>1, WriterAssumption
  <2>3. CASE ~e.present
    <3>1. TailInput(i, e) = Ok(0)
      BY <2>3 DEF TailInput
    <3>2. e.count = 0 /\ t.opt
      BY <2>2, <2>3
    <3>3. t.max \in Nat /\ t.max <= PrefixMax(t.pfx) /\ t.pfx \in Width /\ t.size \in Nat
      BY CapacityAssumption, TailFacts
    <3>4. 0 <= PrefixMax(t.pfx) /\ e.count <= t.max
      <4>1. PrefixMax(t.pfx) \in Int
        BY <3>3, SchemaFacts, WeightNat DEF PrefixMax, Width
      <4> QED
        BY <3>2, <3>3, <4>1
    <3>5. CheckPrefix(e.count, t.pfx).ok
      BY <3>2, <3>4 DEF CheckPrefix, Ok
    <3>6. Len(e.bytes) = 0
      BY <2>2, <3>2, <3>3
    <3>7. FitEdit(i, e)
      BY <1>2, <2>2, <2>3, <3>2, <3>4, <3>5, <3>6 DEF FitEdit
    <3> QED
      BY <1>1, <3>1, <3>7
  <2>4. CASE e.present
    <3>1. TailInput(i, e) =
            IF e.count > t.max THEN Err("Overflow")
            ELSE IF ~CheckPrefix(e.count, t.pfx).ok THEN CheckPrefix(e.count, t.pfx)
            ELSE IF \E k \in DOMAIN e.bytes : e.bytes[k] \notin t.ok THEN Err(t.error)
            ELSE Ok(0)
      BY <1>5, <2>4 DEF TailInput
    <3>2. CheckPrefix(e.count, t.pfx).ok \/ CheckPrefix(e.count, t.pfx) = Err("Overflow")
      BY DEF CheckPrefix, Ok, Err
    <3>3. TailInput(i, e) \in InputResults
      BY <1>1, <3>1, <3>2
    <3>4. ASSUME TailInput(i, e).ok PROVE FitEdit(i, e)
      <4>1. ~(e.count > t.max)
        BY <1>1, <3>1, <3>4
      <4>2. CheckPrefix(e.count, t.pfx).ok
        BY <1>1, <3>1, <3>2, <3>4
      <4>3. \A k \in DOMAIN e.bytes : e.bytes[k] \in t.ok
        BY <1>1, <3>1, <3>4, <4>1, <4>2
      <4>4. e.count <= t.max
        BY <1>3, <4>1, TailFacts
      <4> QED
        BY <1>2, <1>3, <2>2, <2>4, <4>2, <4>3, <4>4 DEF FitEdit
    <3> QED
      BY <3>3, <3>4
  <2> QED
    BY <1>3, <2>3, <2>4
<1> QED
  BY <1>3, <1>4, <1>5

\* Inputs that pass are values the tails can store, behind valid inline bytes.
LEMMA InputsPass ==
    ASSUME NEW p \in Patches, ValidateInputs(p).ok
    PROVE  Fit(p.tails) /\ (p.setsInline => InlineValid(p.inline))
<1> DEFINE z == IF p.setsInline /\ ~InlineValid(p.inline) THEN Err(Inline.error) ELSE Ok(0)
           Step(i, r) == IF r.ok THEN TailInput(i, p.tails[i]) ELSE r
           V == [i \in 0 .. TailCount |-> InputResults]
           G == [q \in TailId \X InputResults |-> Step(q[1], q[2])]
           Rec(h) == [i \in 0 .. TailCount |->
                        IF i = 0
                        THEN IF p.setsInline /\ ~InlineValid(p.inline)
                             THEN Err(Inline.error) ELSE Ok(0)
                        ELSE AndThen(h[i - 1], LAMBDA v : TailInput(i, p.tails[i]))]
           w == InputsTo(p)
<1>1. /\ TailCount \in Nat /\ TailId = 1 .. TailCount /\ TailCount \in 0 .. TailCount
      /\ \A i \in TailId : i \in 0 .. TailCount /\ i - 1 \in 0 .. TailCount /\ i # 0
      /\ \A i \in 0 .. TailCount : i = 0 \/ i \in TailId
  BY Constants DEF TailId
<1>2. /\ p.tails \in [TailId -> Edit]
      /\ \A i \in TailId : p.tails[i] \in Offers[i] \cup {Keep}
  BY PatchAssumption
<1>3. \A i \in TailId : /\ TailInput(i, p.tails[i]) \in InputResults
                        /\ TailInput(i, p.tails[i]).ok => FitEdit(i, p.tails[i])
  BY <1>2, TailInputPasses
<1>4. z \in InputResults /\ ~Err(Inline.error).ok
  BY DEF InputResults, Ok, Err
<1>5. \A i \in TailId : \A r \in InputResults : Step(i, r) \in InputResults
  BY <1>3
<1>6. \A h : /\ Rec(h)[0] = z /\ Rec(h) = [i \in 0 .. TailCount |-> Rec(h)[i]]
             /\ \A i \in TailId : Rec(h)[i] = Step(i, h[i - 1])
  <2>1. \A h : Rec(h)[0] = z /\ Rec(h) = [i \in 0 .. TailCount |-> Rec(h)[i]]
    BY <1>1
  <2>2. ASSUME NEW h, NEW i \in TailId PROVE Rec(h)[i] = Step(i, h[i - 1])
    <3>1. i \in 0 .. TailCount /\ i # 0
      BY <1>1
    <3>2. Rec(h)[i] = AndThen(h[i - 1], LAMBDA v : TailInput(i, p.tails[i]))
      BY <3>1
    <3> QED
      BY <3>2 DEF AndThen
  <2> HIDE DEF Rec, Step, z
  <2> QED
    BY <2>1, <2>2
<1>7. z \in V[0] /\ \A i \in 1 .. TailCount : \A x \in V[i - 1] : G[<<i, x>>] \in V[i]
  <2>1. \A i \in 0 .. TailCount : V[i] = InputResults
    OBVIOUS
  <2>2. \A i \in TailId : \A x \in InputResults : G[<<i, x>>] = Step(i, x)
    OBVIOUS
  <2> HIDE DEF V, G, Step, z
  <2> QED
    BY <1>1, <1>4, <1>5, <2>1, <2>2
<1>8. PICK f : Solves(TailCount, z, G, V, f)
  <2> HIDE DEF V, G, z
  <2> QED
    BY <1>1, <1>7, TypedRecursion
<1>9. /\ f = [i \in 0 .. TailCount |-> f[i]]
      /\ f[0] = z
      /\ \A i \in TailId : f[i] = Step(i, f[i - 1])
  <2>1. \A i \in 0 .. TailCount : f[i] \in InputResults
    BY <1>8 DEF Solves
  <2>2. \A i \in TailId : \A x \in InputResults : G[<<i, x>>] = Step(i, x)
    OBVIOUS
  <2> HIDE DEF G, Step, z
  <2>3. \A i \in TailId : f[i] = Step(i, f[i - 1])
    BY <1>1, <1>8, <2>1, <2>2 DEF Solves
  <2> QED
    BY <1>8, <2>3 DEF Solves
<1>10. f = Rec(f)
  <2> HIDE DEF V, G, Rec, Step, z
  <2>1. /\ Rec(f)[0] = z /\ Rec(f) = [i \in 0 .. TailCount |-> Rec(f)[i]]
        /\ \A i \in TailId : Rec(f)[i] = Step(i, f[i - 1])
    BY <1>6
  <2>2. \A i \in TailId : f[i] = Rec(f)[i]
    BY <1>9, <2>1
  <2>3. \A i \in 0 .. TailCount : f[i] = Rec(f)[i]
    BY <1>1, <1>9, <2>1, <2>2
  <2> QED
    BY <1>9, <2>1, <2>3
<1>11. w = Rec(w)
  BY <1>10, Zenon DEF InputsTo
<1>12. w[0] = z /\ \A i \in TailId : w[i] = Step(i, w[i - 1])
  <2> HIDE DEF Rec, Step, z, w
  <2> QED
    BY <1>6, <1>11
<1>13. w[TailCount].ok
  BY DEF ValidateInputs
<1> HIDE DEF Rec, z, w
<1>14. \A i \in TailId : w[i].ok => w[i - 1].ok /\ TailInput(i, p.tails[i]).ok
  BY <1>12
<1> HIDE DEF Step
<1>15. \A i \in 0 .. TailCount : w[TailCount - i].ok
  <2> DEFINE S == {i \in 0 .. TailCount : w[TailCount - i].ok}
  <2>1. 0 \in S
    <3>1. TailCount - 0 = TailCount
      BY <1>1
    <3> QED
      BY <1>1, <1>13, <3>1
  <2>2. ASSUME NEW i \in 1 .. TailCount, i - 1 \in S PROVE i \in S
    <3>1. TailCount - (i - 1) \in TailId /\ (TailCount - (i - 1)) - 1 = TailCount - i
      BY <1>1
    <3>2. w[TailCount - (i - 1)].ok
      BY <2>2
    <3> QED
      BY <1>1, <1>14, <3>1, <3>2
  <2> HIDE DEF S
  <2>3. \A i \in 0 .. TailCount : i \in S
    BY <1>1, <2>1, <2>2, RangeInduction
  <2> QED
    BY <2>3 DEF S
<1>16. \A i \in 0 .. TailCount : w[i].ok
  <2>1. ASSUME NEW i \in 0 .. TailCount PROVE w[i].ok
    <3>1. TailCount - i \in 0 .. TailCount /\ TailCount - (TailCount - i) = i
      BY <1>1
    <3> QED
      BY <1>15, <3>1
  <2> QED
    BY <2>1
<1>17. \A i \in TailId : FitEdit(i, p.tails[i])
  BY <1>1, <1>3, <1>14, <1>16
<1>18. z.ok
  BY <1>1, <1>12, <1>16
<1>19. p.setsInline => InlineValid(p.inline)
  BY <1>4, <1>18 DEF z
<1> QED
  BY <1>2, <1>17, <1>19 DEF Fit

-----------------------------------------------------------------------------
(* The two preflight sums.                                                 *)

\* The preflight counts a new value as it is stored.
LEMMA InputIsCounted ==
    ASSUME NEW i \in TailId, NEW e, FitEdit(i, e), e.staged
    PROVE  InputLen(i, e) = LenOf(i, e)
  BY EditTakes DEF InputLen

\* What remains to be stored never exceeds the capacity that remains.
LEMMA CapacityRemains ==
    ASSUME NEW n \in Nat, HeaderSize <= n, NEW d \in [0 .. (n - 1) -> Byte],
           WalkTails(d, n, TRUE).ok, NEW i \in 0 .. TailCount
    PROVE  /\ TailOffset(d)[i + 1] \in Nat /\ EncodedLen(d) \in Nat
           /\ TailOffset(d)[i + 1] <= EncodedLen(d)
           /\ EncodedLen(d) - TailOffset(d)[i + 1] + Capacity[i] <= UsizeMax
<1> DEFINE f == TailOffset(d)
           room == [k \in 0 .. TailCount |-> Capacity[k] - f[k + 1]]
<1>1. /\ TailCount \in Nat /\ TailId = 1 .. TailCount /\ TailCount \in 0 .. TailCount
      /\ UsizeMax \in Nat
      /\ \A k \in 0 .. TailCount : k + 1 \in 1 .. (TailCount + 1)
      /\ \A k \in TailId : k \in 0 .. TailCount /\ k - 1 \in 0 .. TailCount /\ (k - 1) + 1 = k
  BY Constants DEF TailId
<1>2. Places(d, n, TRUE, f) /\ \A k \in 1 .. (TailCount + 1) : f[k] \in Nat
  BY AcceptedReplay
<1>3. \A k \in 1 .. (TailCount + 1) : f[k] <= f[TailCount + 1]
  <2> HIDE DEF f
  <2> QED
    BY <1>2, PlacesAreOrdered
<1>4. /\ \A k \in TailId : /\ Capacity[k] = Capacity[k - 1] + TailCapacity(k)
                           /\ TailCapacity(k) \in Nat
      /\ \A k \in 0 .. TailCount : Capacity[k] \in Nat /\ Capacity[k] <= UsizeMax
  BY CapacityRuns, CapacityOrder
<1>5. ASSUME NEW k \in TailId PROVE room[k - 1] <= room[k]
  <2>1. room[k - 1] = Capacity[k - 1] - f[k] /\ room[k] = Capacity[k] - f[k + 1]
    BY <1>1
  <2>2. f[k] \in Nat /\ f[k + 1] \in Nat
    BY <1>1, <1>2
  <2>3. f[k + 1] - f[k] <= TailCapacity(k)
    BY StoredTakes DEF Takes
  <2>4. /\ Capacity[k] = Capacity[k - 1] + TailCapacity(k) /\ TailCapacity(k) \in Nat
        /\ Capacity[k - 1] \in Nat
    BY <1>1, <1>4
  <2> HIDE DEF room, f
  <2> QED
    BY <2>1, <2>2, <2>3, <2>4
<1>6. \A k \in 0 .. TailCount : room[k] \in Int
  BY <1>1, <1>2, <1>4
<1>7. \A k \in 0 .. TailCount : room[k] <= room[TailCount]
  <2> HIDE DEF room
  <2> QED
    BY <1>1, <1>5, <1>6, LastIsLargest
<1>8. /\ room[i] = Capacity[i] - f[i + 1]
      /\ room[TailCount] = Capacity[TailCount] - f[TailCount + 1]
  BY <1>1
<1>9. /\ f[i + 1] \in Nat /\ f[TailCount + 1] \in Nat /\ f[i + 1] <= f[TailCount + 1]
      /\ Capacity[i] \in Nat /\ Capacity[TailCount] \in Nat /\ Capacity[TailCount] <= UsizeMax
      /\ room[i] <= room[TailCount]
  BY <1>1, <1>2, <1>3, <1>4, <1>7
<1>10. EncodedLen(d) = f[TailCount + 1]
  BY DEF EncodedLen
<1> HIDE DEF room, f
<1>11. f[TailCount + 1] - f[i + 1] + Capacity[i] <= UsizeMax
  BY SMTT(60), <1>1, <1>8, <1>9
<1> QED
  BY <1>9, <1>10, <1>11 DEF f

\* A sum of what is stored from y on, up to m, and of e bytes before it, within
\* what the capacity allows.
LEMMA SumBound ==
    ASSUME NEW m \in Nat, NEW y \in Nat, NEW e \in Nat, NEW c \in Nat, NEW u \in Nat,
           y <= m, e <= c, m - y + c <= u
    PROVE  m - y + e \in Nat /\ m - y + e <= u
  OBVIOUS

\* updated_len sums, per edit, the old size out and the new size in, and never
\* overflows: its sum is the length at which the packed tails end.
LEMMA UpdatedSum ==
    ASSUME size \in Nat, HeaderSize <= size, data \in [0 .. (size - 1) -> Byte],
           WalkTails(data, size, TRUE).ok, NEW p \in Patches, Fit(p.tails)
    PROVE  UpdatedTo(p)[TailCount] = Ok(NextLen(data, p.tails))
<1> DEFINE es == p.tails
           f == TailOffset(data)
           m == EncodedLen(data)
           len == NextLens(data, es)
           ends == PackedEnds(len)
           Step(i, r) == IF ~es[i].staged THEN r
                         ELSE IF r.ok THEN Resized(r.value, StoredLen(i), InputLen(i, es[i]))
                         ELSE r
           Rec(h) == [i \in 0 .. TailCount |->
                        IF i = 0 THEN Ok(EncodedLen(data))
                        ELSE IF ~p.tails[i].staged THEN h[i - 1]
                        ELSE AndThen(h[i - 1],
                                 LAMBDA sum : Resized(sum, StoredLen(i), InputLen(i, p.tails[i])))]
           sum == [i \in 0 .. TailCount |-> m - f[i + 1] + ends[i]]
           g == [i \in 0 .. TailCount |-> Ok(sum[i])]
           after == UpdatedTo(p)
<1>1. /\ TailCount \in Nat /\ TailId = 1 .. TailCount /\ TailCount \in 0 .. TailCount
      /\ UsizeMax \in Nat /\ HeaderSize \in Nat
      /\ \A i \in TailId : /\ i \in 0 .. TailCount /\ i - 1 \in 0 .. TailCount /\ i # 0
                           /\ (i - 1) + 1 = i
      /\ \A i \in 0 .. TailCount : i = 0 \/ i \in TailId
  BY Constants DEF TailId
<1>2. /\ len \in [TailId -> Nat]
      /\ \A i \in TailId : Takes(i, len[i])
  BY NextTakes
<1>3. /\ ends[0] = HeaderSize
      /\ \A i \in TailId : ends[i] = ends[i - 1] + len[i]
      /\ \A i \in 0 .. TailCount : ends[i] \in Nat /\ ends[i] <= Capacity[i] /\ Capacity[i] \in Nat
  <2> HIDE DEF len
  <2> QED
    BY <1>2, PackedRuns, PackedFits, CapacityRuns
<1>4. \A i \in 0 .. TailCount :
        /\ f[i + 1] \in Nat /\ m \in Nat /\ f[i + 1] <= m
        /\ m - f[i + 1] + Capacity[i] <= UsizeMax
  BY CapacityRemains
<1>5. f[1] = HeaderSize /\ f[TailCount + 1] = m
  <2>1. Places(data, size, TRUE, f)
    BY AcceptedReplay
  <2> QED
    BY <2>1 DEF Places, EncodedLen
<1>6. \A i \in 0 .. TailCount : sum[i] = m - f[i + 1] + ends[i] /\ g[i] = Ok(sum[i])
  OBVIOUS
<1>7. \A i \in 0 .. TailCount : sum[i] \in Nat /\ sum[i] <= UsizeMax
  <2>1. ASSUME NEW i \in 0 .. TailCount PROVE sum[i] \in Nat /\ sum[i] <= UsizeMax
    <3> HIDE DEF sum, ends, f, m, len
    <3>1. m - f[i + 1] + ends[i] \in Nat /\ m - f[i + 1] + ends[i] <= UsizeMax
      BY <1>1, <1>3, <1>4, SumBound
    <3> QED
      BY <1>6, <3>1
  <2> QED
    BY <2>1
<1>8. ASSUME NEW i \in TailId PROVE Step(i, g[i - 1]) = g[i]
  <2>1. i \in 0 .. TailCount /\ i - 1 \in 0 .. TailCount /\ (i - 1) + 1 = i
    BY <1>1
  <2>2. /\ f[i] \in Nat /\ f[i + 1] \in Nat /\ f[i] <= f[i + 1] /\ f[i + 1] <= m /\ m \in Nat
        /\ StoredLen(i) = f[i + 1] - f[i]
    BY <1>4, <2>1, StoredTakes DEF StoredLen
  <2>3. len[i] \in Nat /\ len[i] = IF es[i].staged THEN InputLen(i, es[i]) ELSE f[i + 1] - f[i]
    <3>1. len[i] \in Nat /\ len[i] = IF es[i].staged THEN LenOf(i, es[i]) ELSE f[i + 1] - f[i]
      BY <1>2 DEF NextLens
    <3>2. es[i].staged => InputLen(i, es[i]) = LenOf(i, es[i])
      BY InputIsCounted DEF Fit
    <3> HIDE DEF len, f
    <3> QED
      BY <3>1, <3>2
  <2>4. /\ ends[i - 1] \in Nat /\ ends[i] = ends[i - 1] + len[i]
        /\ sum[i - 1] = m - f[i] + ends[i - 1] /\ sum[i] = m - f[i + 1] + ends[i]
        /\ sum[i - 1] \in Nat /\ sum[i] \in Nat /\ sum[i] <= UsizeMax
        /\ g[i - 1] = Ok(sum[i - 1]) /\ g[i] = Ok(sum[i])
    <3> HIDE DEF sum, ends, f, m, len, g
    <3> QED
      BY <1>3, <1>6, <1>7, <2>1
  <2> HIDE DEF sum, ends, f, m, len
  <2>0. /\ ~(sum[i - 1] < f[i + 1] - f[i])
        /\ sum[i - 1] - (f[i + 1] - f[i]) \in Nat
        /\ (sum[i - 1] - (f[i + 1] - f[i])) + len[i] = sum[i]
        /\ len[i] = f[i + 1] - f[i] => sum[i] = sum[i - 1]
    <3> DEFINE x == f[i]
               y == f[i + 1]
               e == ends[i - 1]
               l == len[i]
               s == sum[i - 1]
               t == sum[i]
    <3>1. /\ m \in Nat /\ x \in Nat /\ y \in Nat /\ e \in Nat /\ l \in Nat /\ s \in Nat /\ t \in Nat
          /\ x <= y /\ y <= m /\ s = m - x + e /\ t = m - y + (e + l)
      BY <2>2, <2>3, <2>4
    <3> HIDE DEF x, y, e, l, s, t
    <3>2. /\ ~(s < y - x) /\ s - (y - x) \in Nat /\ (s - (y - x)) + l = t
          /\ l = y - x => t = s
      BY <3>1
    <3> QED
      BY <3>2 DEF x, y, l, s, t
  <2>5. CASE ~es[i].staged
    <3>1. sum[i] = sum[i - 1]
      BY <2>0, <2>3, <2>5
    <3>2. g[i] = g[i - 1]
      BY <2>4, <3>1
    <3> HIDE DEF g
    <3> QED
      BY <2>5, <3>2
  <2>6. CASE es[i].staged
    <3>1. ~(sum[i - 1] < StoredLen(i))
      BY <2>0, <2>2
    <3>2. /\ sum[i - 1] - StoredLen(i) \in Nat /\ len[i] = InputLen(i, es[i])
          /\ (sum[i - 1] - StoredLen(i)) + len[i] = sum[i]
      BY <2>0, <2>2, <2>3, <2>6
    <3>3. CheckedAdd(sum[i - 1] - StoredLen(i), len[i]) = Ok(sum[i])
      <4> DEFINE rest == sum[i - 1] - StoredLen(i)
      <4>1. rest \in Nat /\ len[i] \in Nat /\ rest + len[i] = sum[i] /\ sum[i] <= UsizeMax
        BY <2>3, <2>4, <3>2
      <4> HIDE DEF rest
      <4>2. CheckedAdd(rest, len[i]) = Ok(rest + len[i])
        BY <4>1, BoundedIsExact
      <4> QED
        BY <4>1, <4>2 DEF rest
    <3>4. Resized(sum[i - 1], StoredLen(i), InputLen(i, es[i])) = g[i]
      BY <2>4, <3>1, <3>2, <3>3 DEF Resized
    <3>5. g[i - 1].ok /\ g[i - 1].value = sum[i - 1]
      BY <2>4, OkResult
    <3> HIDE DEF g
    <3> QED
      BY <2>6, <3>4, <3>5
  <2> QED
    BY <2>5, <2>6
<1>9. \A h : /\ Rec(h)[0] = Ok(m) /\ Rec(h) = [i \in 0 .. TailCount |-> Rec(h)[i]]
             /\ \A i \in TailId : Rec(h)[i] = Step(i, h[i - 1])
  <2>1. \A h : Rec(h)[0] = Ok(m) /\ Rec(h) = [i \in 0 .. TailCount |-> Rec(h)[i]]
    BY <1>1
  <2>2. ASSUME NEW h, NEW i \in TailId PROVE Rec(h)[i] = Step(i, h[i - 1])
    <3>1. i \in 0 .. TailCount /\ i # 0
      BY <1>1
    <3>2. Rec(h)[i] = IF ~es[i].staged THEN h[i - 1]
                      ELSE AndThen(h[i - 1],
                               LAMBDA v : Resized(v, StoredLen(i), InputLen(i, es[i])))
      BY <3>1
    <3> QED
      BY <3>2 DEF AndThen
  <2> HIDE DEF Rec, Step, m
  <2> QED
    BY <2>1, <2>2
<1>10. g[0] = Ok(m) /\ g = [i \in 0 .. TailCount |-> g[i]]
  <2>1. sum[0] = m
    <3>1. 0 \in 0 .. TailCount /\ 0 + 1 = 1
      BY <1>1
    <3> HIDE DEF sum, ends, f, m, len
    <3>2. m \in Nat /\ sum[0] = m - f[1] + ends[0]
      BY <1>4, <1>6, <3>1
    <3>3. sum[0] = m - HeaderSize + HeaderSize
      BY <1>3, <1>5, <3>2
    <3> QED
      BY <1>1, <3>2, <3>3
  <2> HIDE DEF sum
  <2> QED
    BY <1>1, <2>1
<1>11. g = Rec(g)
  <2> HIDE DEF g, Rec, Step, m
  <2>1. /\ Rec(g)[0] = Ok(m) /\ Rec(g) = [i \in 0 .. TailCount |-> Rec(g)[i]]
        /\ \A i \in TailId : Rec(g)[i] = Step(i, g[i - 1])
    BY <1>9
  <2>2. \A i \in TailId : g[i] = Rec(g)[i]
    BY <1>8, <2>1
  <2>3. \A i \in 0 .. TailCount : g[i] = Rec(g)[i]
    BY <1>1, <1>10, <2>1, <2>2
  <2> QED
    BY <1>10, <2>1, <2>3
<1>12. after = Rec(after)
  BY <1>11, Zenon DEF UpdatedTo
<1>13. after[0] = Ok(m) /\ \A i \in TailId : after[i] = Step(i, after[i - 1])
  <2> HIDE DEF after, Rec, Step, m
  <2> QED
    BY <1>9, <1>12
<1>14. \A i \in 0 .. TailCount : after[i] = g[i]
  <2> DEFINE S == {i \in 0 .. TailCount : after[i] = g[i]}
  <2> HIDE DEF after, Rec, Step, m, g
  <2>1. 0 \in S
    BY <1>1, <1>10, <1>13
  <2>2. ASSUME NEW i \in 1 .. TailCount, i - 1 \in S PROVE i \in S
    BY <1>1, <1>8, <1>13, <2>2
  <2> HIDE DEF S
  <2>3. \A i \in 0 .. TailCount : i \in S
    BY <1>1, <2>1, <2>2, RangeInduction
  <2> QED
    BY <2>3 DEF S
<1>15. sum[TailCount] = ends[TailCount]
  <2> HIDE DEF sum, ends, f, m, len
  <2> QED
    BY <1>1, <1>3, <1>4, <1>5, <1>6
<1>16. after[TailCount] = Ok(ends[TailCount])
  <2> HIDE DEF sum, ends, after
  <2> QED
    BY <1>1, <1>6, <1>14, <1>15
<1> QED
  BY <1>16 DEF NextLen

\* So an update of a valid account with storable inputs is planned exactly.
LEMMA UpdatedLenExact ==
    ASSUME size \in Nat, data \in [0 .. (size - 1) -> Byte], Validate(data, size).ok,
           NEW p \in Patches, ValidateInputs(p).ok
    PROVE  UpdatedLen(p) = Ok(NextLen(data, p.tails))
<1>1. HeaderSize <= size /\ WalkTails(data, size, TRUE).ok
  BY ValidAccount
<1>2. Fit(p.tails)
  BY InputsPass
<1>3. UpdatedTo(p)[TailCount] = Ok(NextLen(data, p.tails))
  BY <1>1, <1>2, UpdatedSum
<1> QED
  BY <1>3 DEF UpdatedLen

\* Zeroed storage is an account with empty tails, whatever its inline bytes.
LEMMA ZeroStands ==
    ASSUME NEW n \in Nat, HeaderSize <= n, NEW d \in [0 .. (n - 1) -> Byte],
           \A a \in 0 .. (n - 1) : d[a] = 0
    PROVE  /\ WalkTails(d, n, TRUE).ok
           /\ \A i \in 1 .. (TailCount + 1) : TailOffset(d)[i] = HeaderSize
           /\ EncodedLen(d) = HeaderSize
<1> DEFINE f == [i \in 1 .. (TailCount + 1) |-> HeaderSize]
<1>1. /\ HeaderSize \in Nat /\ UsizeMax \in Nat /\ TailCount \in Nat /\ Radix \in Nat
      /\ TailCount + 1 \in 1 .. (TailCount + 1) /\ 1 \in 1 .. (TailCount + 1)
      /\ \A i \in TailId : i \in 1 .. (TailCount + 1) /\ i + 1 \in 1 .. (TailCount + 1)
  BY SchemaFacts
<1>2. ASSUME NEW i \in TailId
      PROVE  TailAccepted(d, n, i, HeaderSize, TRUE) /\ TailEnd(d, i, HeaderSize) = HeaderSize
  <2>1. Slot[i] \in 0 .. (n - 1) /\ d[Slot[i]] = 0
    BY <1>1, SlotFacts
  <2>2. CASE Tails[i].opt
    BY <2>1, <2>2 DEF TailAccepted, TailEnd
  <2>3. CASE ~Tails[i].opt
    <3> DEFINE count == StoredCount(d, i, HeaderSize)
    <3>1. Slot[i] + Tails[i].pfx <= n /\ Slot[i] \in Nat /\ Tails[i].pfx \in Width
      BY <1>1, <2>3, SlotFacts, SlotByte, TailFacts
    <3>2. \A k \in 0 .. (Tails[i].pfx - 1) : d[Slot[i] + k] = 0
      BY <1>1, <3>1, TailFacts
    <3>3. RawPrefix(d, Slot[i], Tails[i].pfx) = 0
      <4>1. \A k \in 0 .. 7 : LeByte(0, k) = 0
        <5>1. \A k \in 0 .. 7 : Weight(k) \in Nat /\ Weight(k) > 0
          BY WeightPositive
        <5>2. ASSUME NEW w \in Nat, w > 0 PROVE 0 \div w = 0
          BY <5>2, Quotient
        <5>3. 0 % Radix = 0
          BY SchemaFacts
        <5> QED
          BY <5>1, <5>2, <5>3 DEF LeByte
      <4>2. \A k \in 0 .. (Tails[i].pfx - 1) : k \in 0 .. 7
        BY <3>1 DEF Width
      <4>3. Written(d, Slot[i], Tails[i].pfx, 0)
        BY <3>2, <4>1, <4>2 DEF Written
      <4>4. 0 <= PrefixMax(Tails[i].pfx)
        <5>1. Tails[i].max <= PrefixMax(Tails[i].pfx) /\ Tails[i].max \in Nat
          BY CapacityAssumption, TailFacts
        <5>2. PrefixMax(Tails[i].pfx) \in Int
          BY SMTT(60), <3>1, SchemaFacts, WeightNat DEF PrefixMax, Width
        <5> QED
          BY <5>1, <5>2
      <4> QED
        BY <3>1, <4>3, <4>4, WrittenPrefix
    <3>4. count = 0 /\ PayloadFrom(i, HeaderSize) = HeaderSize
      BY <2>3, <3>3 DEF StoredCount, PayloadFrom
    <3>5. Tails[i].size \in Nat /\ Tails[i].max \in Nat
      BY TailFacts
    <3>6. HeaderSize + 0 * Tails[i].size = HeaderSize
      BY <1>1, <3>5
    <3> QED
      BY <1>1, <2>3, <3>4, <3>5, <3>6 DEF TailAccepted, TailEnd
  <2> QED
    BY <2>2, <2>3
<1>3. \A i \in 1 .. (TailCount + 1) : f[i] = HeaderSize
  OBVIOUS
<1> HIDE DEF f
<1>4. Places(d, n, TRUE, f)
  BY <1>1, <1>2, <1>3 DEF Places
<1>5. WalkTails(d, n, TRUE).ok /\ EncodedLen(d) = f[TailCount + 1]
  BY <1>4, PlacedIsAccepted
<1>6. \A i \in 1 .. (TailCount + 1) : TailOffset(d)[i] = f[i]
  BY <1>4, PlacedIsReplayed
<1> QED
  BY <1>1, <1>3, <1>5, <1>6

\* initialized_len sums the new tails alone, and ends where they do when they
\* are packed: over storage without a stored tail, the same length.
LEMMA InitializedLenExact ==
    ASSUME NEW n \in Nat, HeaderSize <= n, NEW d \in [0 .. (n - 1) -> Byte],
           WalkTails(d, n, TRUE).ok,
           \A i \in 1 .. (TailCount + 1) : TailOffset(d)[i] = HeaderSize,
           NEW p \in Patches, ValidateInputs(p).ok
    PROVE  InitializedLen(p) = Ok(NextLen(d, p.tails))
<1> DEFINE es == p.tails
           len == NextLens(d, es)
           ends == PackedEnds(len)
           New(i) == IF es[i].staged THEN InputLen(i, es[i]) ELSE 0
           Step(i, r) == IF r.ok THEN CheckedAdd(r.value, New(i)) ELSE r
           Rec(h) == [i \in 0 .. TailCount |->
                        IF i = 0 THEN Ok(HeaderSize)
                        ELSE AndThen(h[i - 1],
                                 LAMBDA sum : CheckedAdd(sum,
                                     IF p.tails[i].staged THEN InputLen(i, p.tails[i]) ELSE 0))]
           g == [i \in 0 .. TailCount |-> Ok(ends[i])]
           after == InitializedTo(p)
<1>1. /\ TailCount \in Nat /\ TailId = 1 .. TailCount /\ TailCount \in 0 .. TailCount
      /\ HeaderSize \in Nat
      /\ \A i \in TailId : i \in 0 .. TailCount /\ i - 1 \in 0 .. TailCount /\ i # 0
      /\ \A i \in TailId : i \in 1 .. (TailCount + 1) /\ i + 1 \in 1 .. (TailCount + 1)
      /\ \A i \in 0 .. TailCount : i = 0 \/ i \in TailId
  BY Constants DEF TailId
<1>2. Fit(es)
  BY InputsPass
<1>3. len \in [TailId -> Nat] /\ \A i \in TailId : Takes(i, len[i])
  BY <1>2, NextTakes
<1>4. \A i \in TailId : len[i] = New(i)
  <2>1. \A i \in TailId : es[i].staged => InputLen(i, es[i]) = LenOf(i, es[i])
    BY <1>2, InputIsCounted DEF Fit
  <2> QED
    BY <1>1, <2>1 DEF NextLens
<1>5. /\ ends[0] = HeaderSize
      /\ \A i \in TailId : ends[i] = ends[i - 1] + len[i]
      /\ \A i \in 0 .. TailCount : ends[i] \in Nat /\ ends[i] <= UsizeMax
  <2> HIDE DEF len
  <2> QED
    BY <1>3, PackedRuns, PackedFits
<1>6. ASSUME NEW i \in TailId PROVE Step(i, g[i - 1]) = g[i]
  <2>1. g[i - 1] = Ok(ends[i - 1]) /\ g[i] = Ok(ends[i])
    BY <1>1
  <2>2. /\ ends[i - 1] \in Nat /\ len[i] \in Nat
        /\ ends[i - 1] + len[i] = ends[i] /\ ends[i] <= UsizeMax
    <3> HIDE DEF ends, len
    <3> QED
      BY <1>1, <1>3, <1>5
  <2> HIDE DEF ends, len
  <2>3. CheckedAdd(ends[i - 1], len[i]) = Ok(ends[i])
    BY <2>2, BoundedIsExact
  <2>4. g[i - 1].ok /\ g[i - 1].value = ends[i - 1]
    BY <2>1, <2>2, OkResult
  <2> HIDE DEF g, New
  <2> QED
    BY <1>4, <2>1, <2>3, <2>4
<1>7. \A h : /\ Rec(h)[0] = Ok(HeaderSize) /\ Rec(h) = [i \in 0 .. TailCount |-> Rec(h)[i]]
             /\ \A i \in TailId : Rec(h)[i] = Step(i, h[i - 1])
  <2>1. \A h : Rec(h)[0] = Ok(HeaderSize) /\ Rec(h) = [i \in 0 .. TailCount |-> Rec(h)[i]]
    BY <1>1
  <2>2. ASSUME NEW h, NEW i \in TailId PROVE Rec(h)[i] = Step(i, h[i - 1])
    <3>1. i \in 0 .. TailCount /\ i # 0
      BY <1>1
    <3>2. Rec(h)[i] = AndThen(h[i - 1], LAMBDA v : CheckedAdd(v, New(i)))
      BY <3>1
    <3> QED
      BY <3>2 DEF AndThen
  <2> HIDE DEF Rec, Step
  <2> QED
    BY <2>1, <2>2
<1>8. g[0] = Ok(HeaderSize) /\ g = [i \in 0 .. TailCount |-> g[i]]
  <2> HIDE DEF ends
  <2> QED
    BY <1>1, <1>5
<1>9. g = Rec(g)
  <2> HIDE DEF g, Rec, Step
  <2>1. /\ Rec(g)[0] = Ok(HeaderSize) /\ Rec(g) = [i \in 0 .. TailCount |-> Rec(g)[i]]
        /\ \A i \in TailId : Rec(g)[i] = Step(i, g[i - 1])
    BY <1>7
  <2>2. \A i \in TailId : g[i] = Rec(g)[i]
    BY <1>6, <2>1
  <2>3. \A i \in 0 .. TailCount : g[i] = Rec(g)[i]
    BY <1>1, <1>8, <2>1, <2>2
  <2> QED
    BY <1>8, <2>1, <2>3
<1>10. after = Rec(after)
  BY <1>9, Zenon DEF InitializedTo
<1>11. after[0] = Ok(HeaderSize) /\ \A i \in TailId : after[i] = Step(i, after[i - 1])
  <2> HIDE DEF after, Rec, Step
  <2> QED
    BY <1>7, <1>10
<1>12. \A i \in 0 .. TailCount : after[i] = g[i]
  <2> DEFINE S == {i \in 0 .. TailCount : after[i] = g[i]}
  <2> HIDE DEF after, Rec, Step, g
  <2>1. 0 \in S
    BY <1>1, <1>8, <1>11
  <2>2. ASSUME NEW i \in 1 .. TailCount, i - 1 \in S PROVE i \in S
    BY <1>1, <1>6, <1>11, <2>2
  <2> HIDE DEF S
  <2>3. \A i \in 0 .. TailCount : i \in S
    BY <1>1, <2>1, <2>2, RangeInduction
  <2> QED
    BY <2>3 DEF S
<1>13. after[TailCount] = Ok(ends[TailCount])
  <2> HIDE DEF ends, after
  <2> QED
    BY <1>1, <1>12
<1> QED
  BY <1>13 DEF NextLen, InitializedLen

-----------------------------------------------------------------------------
(* A commit with room for its result.                                      *)

\* The commit is of storable edits, and the account has the room they need.
Roomy == Fit(edits) /\ NextLen(entry, edits) <= size

\* No range of such a commit is refused.
LEMMA CheckSucceeds ==
    ASSUME IInv, CommitInv, Roomy, Check
    PROVE  pc' # "idle" /\ UNCHANGED <<size, entry, edits>>
<1> DEFINE ends == PackedEnds(NextLens(entry, edits))
<1>1. /\ UNCHANGED <<size, entry, edits>>
      /\ ends[cur] <= size => pc' # "idle"
  BY CheckAnswers DEF Roomy
<1>2. /\ ends[cur] \in Nat /\ ends[cur] <= ends[TailCount]
      /\ ends[TailCount] \in Nat /\ NextLen(entry, edits) = ends[TailCount]
  <2>1. cur \in 0 .. TailCount /\ TailCount \in 0 .. TailCount
    BY Constants DEF TailId, IInv, TypeOK
  <2> QED
    BY <2>1, PlannedLengths DEF IInv, CommitInv, Roomy
<1> HIDE DEF ends
<1>3. size \in Nat
  BY DEF IInv, TypeOK
<1> QED
  BY <1>1, <1>2, <1>3 DEF Roomy

-----------------------------------------------------------------------------
(* The inductive invariant of the account's life.                          *)

\* What a call carries, whatever its stage.
CallTyped ==
    /\ call = [stage |-> call.stage, op |-> call.op, patch |-> call.patch,
               expected |-> call.expected, outcome |-> call.outcome, before |-> call.before]
    /\ call.stage \in {"none", "preflight", "commit", "committing", "after", "done"}
    /\ call.stage # "none" =>
         /\ call.op \in {"update", "initialize"}
         /\ call.patch \in Patches
         /\ call.before \in [0 .. (size - 1) -> Byte]

\* A plan names a length the account framework may grow the account to.
PlanTyped ==
    /\ plan = [held |-> plan.held, patch |-> plan.patch, len |-> plan.len, fresh |-> plan.fresh]
    /\ plan.held \in BOOLEAN /\ plan.fresh \in BOOLEAN
    /\ plan.held => plan.patch \in Patches /\ plan.len \in Nat /\ ValidateStorageLen(plan.len).ok

\* The value the plan is held against: the account as the call in progress
\* found it.
Base == IF Idle THEN data ELSE call.before

\* A fresh plan says how long that value gets.
PlanHolds ==
    plan.held /\ plan.fresh =>
        /\ Validate(Base, size).ok
        /\ ValidateInputs(plan.patch).ok
        /\ plan.len = NextLen(Base, plan.patch.tails)

\* The writer works only while a commit is under way.
AtRest ==
    IF call.stage = "committing" THEN pc # "idle" ELSE pc = "idle" /\ data = entry

Readable == Validate(data, size).ok \/ data = Filled(data)

\* Before its commit an update has changed nothing and an initialize has zeroed.
Preflighted ==
    call.stage = "preflight" =>
        IF call.op = "update" THEN data = call.before /\ Readable ELSE data = Filled(data)

\* The commit is the one the preflight announced, and has room.
Underway ==
    call.stage \in {"commit", "committing"} =>
        /\ IInv /\ CommitInv /\ Roomy
        /\ call.expected = NextLen(entry, edits)
        /\ edits = call.patch.tails
        /\ ValidateInputs(call.patch).ok
        /\ call.op = "update" => entry = call.before /\ InlineValid(entry)

\* It returned the announced length over accepted tails, or an initialize was
\* refused for its inline bytes.
Committed ==
    call.stage = "after" =>
        /\ ValidateInputs(call.patch).ok
        /\ call.op = "update" =>
             result.ok /\ InlineValid(data) /\ call.expected = NextLen(call.before, call.patch.tails)
        /\ result.ok => EntryStands /\ result.value = call.expected /\ totalLen = call.expected
        /\ ~result.ok => call.op = "initialize" /\ result.error = Inline.error

PlanApplies == plan.held /\ plan.fresh /\ plan.patch = call.patch /\ plan.len <= size

\* The call has stored a valid account of the length it returns, or nothing.
Concluded ==
    call.stage = "done" =>
        /\ call.outcome.ok => Validate(data, size).ok /\ call.outcome.value = EncodedLen(data)
        /\ ~call.outcome.ok =>
             IF call.op = "update" THEN data = call.before /\ Readable ELSE data = Filled(data)
        /\ call.op = "update" /\ PlanApplies => call.outcome = Ok(plan.len)

PInv ==
    /\ TypeOK
    /\ CallTyped
    /\ PlanTyped
    /\ PlanHolds
    /\ AtRest
    /\ AccountStaysReadable
    /\ Preflighted
    /\ Underway
    /\ Committed
    /\ Concluded

\* Zeros are zeros.
LEMMA FilledBytes ==
    ASSUME NEW n \in Nat, NEW d \in [0 .. (n - 1) -> Byte]
    PROVE  /\ Filled(d) \in [0 .. (n - 1) -> Byte]
           /\ Filled(Filled(d)) = Filled(d)
           /\ \A a \in 0 .. (n - 1) : Filled(d)[a] = 0
<1>1. 0 \in Byte
  BY SchemaFacts DEF Byte
<1> QED
  BY <1>1 DEF Filled

\* The writer between two commits, over an account that has stood its checks.
ReadyToCommit == TypeOK /\ pc = "idle" /\ data = entry /\ EntryStands /\ Fit(edits)

\* The writer's invariants ask no more of the states between two commits.
LEMMA IdleInv == ReadyToCommit => IInv /\ CommitInv
<1> SUFFICES ASSUME ReadyToCommit PROVE IInv /\ CommitInv
  OBVIOUS
<1>0. TypeOK /\ pc = "idle" /\ data = entry /\ EntryStands /\ Fit(edits)
  BY DEF ReadyToCommit
<1>1. AccountFits
  <2>1. TailCount + 1 \in 1 .. (TailCount + 1)
    BY SchemaFacts
  <2> QED
    BY <1>0, <2>1, EntryFacts DEF AccountFits
<1>2. \A i \in TailId : FitEdit(i, edits[i])
  BY <1>0 DEF Fit
<1>3. EditsAccepted /\ EditsFit
  BY <1>2 DEF EditsAccepted, EditsFit, FitEdit
<1>4. TailsAreOrdered /\ LengthsArePlanned /\ RangesFit /\ BytesUntilMoving /\ KeptTailsSurvive
      /\ SpareUntouched
  BY <1>0 DEF TailsAreOrdered, LengthsArePlanned, RangesFit, BytesUntilMoving, KeptTailsSurvive,
         SpareUntouched, Prepared, Checked, Moving
<1>5. SourcesAreReplayed /\ DestinationsArePacked /\ HeaderIsKept /\ SlotsAreWritten
      /\ PayloadsAreWritten
  BY <1>0 DEF SourcesAreReplayed, DestinationsArePacked, HeaderIsKept, SlotsAreWritten,
         PayloadsAreWritten, Prepared, Moving, SlotDone, PayloadDone
<1> QED
  BY <1>0, <1>1, <1>3, <1>4, <1>5 DEF IInv, CommitInv

\* ... nor of the state a step leads to.
LEMMA IdleInvNext == ReadyToCommit' => IInv' /\ CommitInv'
  BY IdleInv, PTL

\* A call that returns.
LEMMA CallReturns ==
    ASSUME PInv, call.stage # "none", pc = "idle",
           NEW outcome, NEW bytes \in [0 .. (size - 1) -> Byte],
           Done(outcome, bytes), UNCHANGED plan,
           outcome.ok => Validate(bytes, size).ok /\ outcome.value = EncodedLen(bytes),
           ~outcome.ok => IF call.op = "update"
                          THEN bytes = call.before /\ (Validate(bytes, size).ok \/ bytes = Filled(bytes))
                          ELSE bytes = Filled(bytes),
           call.op = "update" /\ PlanApplies => outcome = Ok(plan.len)
    PROVE  PInv'
<1>1. /\ call' = [stage |-> "done", op |-> call.op, patch |-> call.patch,
                  expected |-> call.expected, outcome |-> outcome, before |-> call.before]
      /\ data' = bytes /\ entry' = bytes /\ edits' = NoEdits /\ totalLen' = 0
      /\ result' = Err("none") /\ UNCHANGED <<size, pc, cur, locals, plan>>
  BY DEF Done, PInv, CallTyped
<1>2. TypeOK'
  <2>1. << >> \in Seq(Byte)
    OBVIOUS
  <2>2. NoEdits \in [TailId -> Edit]
    BY <2>1 DEF NoEdits, Keep, Edit
  <2>3. IsResult(Err("none"))
    BY ErrResult
  <2> QED
    BY <1>1, <2>2, <2>3 DEF PInv, TypeOK, locals
<1>3. CallTyped' /\ PlanTyped'
  BY <1>1 DEF PInv, CallTyped, PlanTyped
<1>4. PlanHolds'
  BY <1>1 DEF PInv, PlanHolds, Base, Idle
<1>5. AtRest' /\ AccountStaysReadable' /\ Preflighted' /\ Underway' /\ Committed'
  <2>1. call'.stage = "done" /\ pc' = "idle" /\ data' = entry'
    BY <1>1
  <2> QED
    BY <2>1 DEF AtRest, AccountStaysReadable, Idle, Preflighted, Underway, Committed
<1>6. Concluded'
  BY <1>1 DEF Concluded, Readable, PlanApplies
<1> QED
  BY <1>2, <1>3, <1>4, <1>5, <1>6 DEF PInv

-----------------------------------------------------------------------------
(* The steps of a call.                                                    *)

\* The program starts between calls.
LEMMA PatchInitEstablishes == PatchInit => PInv
<1> SUFFICES ASSUME PatchInit PROVE PInv
  OBVIOUS
<1>1. /\ call = NoCall /\ plan = NoPlan /\ pc = "idle" /\ data = entry /\ edits = NoEdits
      /\ Validate(data, size).ok \/ data = Filled(data)
  BY DEF PatchInit
<1>2. TypeOK
  <2>1. PICK bytes \in Accounts : size = Len(bytes) /\ data = Slice(bytes)
    BY DEF PatchInit
  <2>2. bytes \in Seq(Byte)
    BY <2>1, WriterAssumption
  <2>3. size \in Nat /\ data \in [0 .. (size - 1) -> Byte]
    BY <2>1, <2>2 DEF Slice
  <2>4. << >> \in Seq(Byte)
    OBVIOUS
  <2>5. NoEdits \in [TailId -> Edit]
    BY <2>4 DEF NoEdits, Keep, Edit
  <2>6. IsResult(Err("none"))
    BY ErrResult
  <2>7. cur \in TailId /\ pc \in Phase
    BY Constants DEF PatchInit, Phase
  <2> QED
    BY <1>1, <2>3, <2>5, <2>6, <2>7 DEF PatchInit, TypeOK, Zeros
<1>3. CallTyped /\ PlanTyped /\ PlanHolds
  BY <1>1 DEF CallTyped, PlanTyped, PlanHolds, NoCall, NoPlan
<1>4. AtRest /\ AccountStaysReadable /\ Preflighted /\ Underway /\ Committed /\ Concluded
  BY <1>1 DEF AtRest, AccountStaysReadable, Preflighted, Underway, Committed, Concluded, NoCall
<1> QED
  BY <1>2, <1>3, <1>4 DEF PInv

\* A call begins.
LEMMA BeginStep ==
    ASSUME NEW op \in {"update", "initialize"}
    PROVE  PInv /\ Begin(op) => PInv'
<1> SUFFICES ASSUME PInv, Begin(op) PROVE PInv'
  OBVIOUS
<1>1. PICK p \in Patches :
        call' = [stage |-> "preflight", op |-> op, patch |-> p, expected |-> 0,
                 outcome |-> Err("none"), before |-> data]
  BY DEF Begin
<1>2. /\ call.stage = "none" /\ pc = "idle" /\ data = entry
      /\ size \in Nat /\ data \in [0 .. (size - 1) -> Byte]
      /\ Validate(data, size).ok \/ data = Filled(data)
  BY DEF PInv, Begin, Idle, AtRest, AccountStaysReadable, TypeOK
<1>3. /\ data' = IF op = "initialize" THEN Filled(data) ELSE data
      /\ entry' = data' /\ UNCHANGED <<size, totalLen, edits, pc, cur, locals, result, plan>>
  BY DEF Begin
<1>4. Filled(data) \in [0 .. (size - 1) -> Byte] /\ Filled(Filled(data)) = Filled(data)
  BY <1>2, FilledBytes
<1>5. data' \in [0 .. (size - 1) -> Byte]
  BY <1>2, <1>3, <1>4
<1>6. TypeOK'
  BY <1>2, <1>3, <1>5 DEF PInv, TypeOK, locals
<1>7. CallTyped' /\ PlanTyped'
  BY <1>1, <1>2, <1>3 DEF PInv, CallTyped, PlanTyped
<1>8. PlanHolds'
  <2>1. Base' = data /\ Base = data
    BY <1>1, <1>2 DEF Base, Idle
  <2> QED
    BY <1>3, <2>1 DEF PInv, PlanHolds
<1>9. Preflighted'
  <2>1. CASE op = "update"
    BY <1>1, <1>2, <1>3, <2>1 DEF Preflighted, Readable
  <2>2. CASE op = "initialize"
    <3>1. data' = Filled(data) /\ Filled(data)' = Filled(data')
      BY <1>3, <2>2
    <3>2. data' = Filled(data')
      BY <1>4, <3>1
    <3> QED
      BY <1>1, <2>2, <3>2 DEF Preflighted, Filled
  <2> QED
    BY <2>1, <2>2
<1>10. AtRest' /\ AccountStaysReadable' /\ Underway' /\ Committed' /\ Concluded'
  BY <1>1, <1>2, <1>3 DEF AtRest, AccountStaysReadable, Idle, Underway, Committed, Concluded
<1> QED
  BY <1>6, <1>7, <1>8, <1>9, <1>10 DEF PInv

\* An update is refused before it has changed a byte, or its commit is prepared.
LEMMA PreflightUpdateStep == PInv /\ PreflightUpdate => PInv'
<1> SUFFICES ASSUME PInv, PreflightUpdate PROVE PInv'
  OBVIOUS
<1> DEFINE expected == UpdatedLen(call.patch)
           p == call.patch
<1>1. /\ call.stage = "preflight" /\ call.op = "update" /\ pc = "idle" /\ data = entry
      /\ data = call.before /\ Readable /\ p \in Patches
      /\ size \in Nat /\ data \in [0 .. (size - 1) -> Byte] /\ UNCHANGED plan
  BY DEF PInv, PreflightUpdate, AtRest, Preflighted, TypeOK, CallTyped
<1>2. expected.ok => Validate(data, size).ok /\ ValidateInputs(p).ok
  BY DEF UpdatedLen
<1>3. Validate(data, size).ok /\ ValidateInputs(p).ok => expected = Ok(NextLen(data, p.tails))
  <2> SUFFICES ASSUME Validate(data, size).ok, ValidateInputs(p).ok
               PROVE  expected = Ok(NextLen(data, p.tails))
    OBVIOUS
  <2>1. data \in [0 .. (size - 1) -> Byte] /\ size \in Nat /\ p \in Patches
    BY <1>1
  <2> HIDE DEF p
  <2>2. UpdatedLen(p) = Ok(NextLen(data, p.tails))
    BY <2>1, UpdatedLenExact
  <2> QED
    BY <2>2 DEF p
<1>4. Validate(data, size).ok /\ ValidateInputs(p).ok =>
        /\ HeaderSize <= size /\ WalkTails(data, size, TRUE).ok /\ Fit(p.tails)
        /\ InlineValid(data)
        /\ NextLen(data, p.tails) \in Nat
  <2> SUFFICES ASSUME Validate(data, size).ok, ValidateInputs(p).ok
               PROVE  /\ HeaderSize <= size /\ WalkTails(data, size, TRUE).ok /\ Fit(p.tails)
                      /\ InlineValid(data)
                      /\ NextLen(data, p.tails) \in Nat
    OBVIOUS
  <2>1. HeaderSize <= size /\ WalkTails(data, size, TRUE).ok /\ InlineValid(data)
    BY <1>1, ValidAccount
  <2>2. Fit(p.tails)
    BY <1>1, InputsPass
  <2>3. NextLen(data, p.tails) \in Nat
    BY <1>1, <2>1, <2>2, NextLenIsAdmitted
  <2> QED
    BY <2>1, <2>2, <2>3
<1>5. PlanApplies => expected = Ok(plan.len) /\ expected.ok /\ expected.value <= size
  <2> SUFFICES ASSUME PlanApplies
               PROVE  expected = Ok(plan.len) /\ expected.ok /\ expected.value <= size
    OBVIOUS
  <2>1. /\ plan.held /\ plan.fresh /\ plan.patch = p /\ plan.len <= size /\ plan.len \in Nat
        /\ Base = data
    BY <1>1 DEF PlanApplies, PInv, PlanTyped, Base, Idle
  <2>2. /\ Validate(data, size).ok /\ ValidateInputs(p).ok
        /\ plan.len = NextLen(data, p.tails)
    BY <2>1 DEF PInv, PlanHolds
  <2> HIDE DEF expected
  <2> QED
    BY <1>3, <2>1, <2>2, OkResult
<1>6. CASE ~expected.ok
  <2>1. Done(expected, data)
    BY <1>1, <1>6 DEF PreflightUpdate, DoneWith
  <2> HIDE DEF expected, p
  <2> QED
    BY <1>1, <1>5, <1>6, <2>1, CallReturns DEF Readable
<1>7. CASE expected.ok /\ expected.value > size
  <2> DEFINE refusal == Err("BufferTooSmall")
  <2>1. ~refusal.ok
    BY ErrResult
  <2>2. Done(refusal, data)
    BY <1>1, <1>7, <2>1 DEF PreflightUpdate, DoneWith
  <2>3. ~PlanApplies
    <3>1. expected.value \in Nat
      <4> HIDE DEF expected
      <4> QED
        BY <1>2, <1>3, <1>4, <1>7, OkResult
    <3> HIDE DEF expected
    <3> QED
      BY <1>1, <1>5, <1>7, <3>1
  <2> HIDE DEF refusal, p
  <2> QED
    BY <1>1, <2>1, <2>2, <2>3, CallReturns DEF Readable
<1>8. CASE expected.ok /\ ~(expected.value > size)
  <2>1. /\ call' = [call EXCEPT !.stage = "commit", !.expected = expected.value]
        /\ edits' = p.tails /\ totalLen' = EncodedLen(data)
        /\ UNCHANGED <<data, size, pc, cur, locals, result, entry, plan>>
    BY <1>8 DEF PreflightUpdate
  <2>2. /\ call' = [stage |-> "commit", op |-> call.op, patch |-> call.patch,
                    expected |-> expected.value, outcome |-> call.outcome, before |-> call.before]
    <3> HIDE DEF expected
    <3> QED
      BY <2>1 DEF PInv, CallTyped
  <2>3. /\ Validate(data, size).ok /\ ValidateInputs(p).ok /\ HeaderSize <= size
        /\ WalkTails(data, size, TRUE).ok /\ Fit(p.tails) /\ InlineValid(data)
        /\ NextLen(data, p.tails) \in Nat /\ expected.value = NextLen(data, p.tails)
    <3> HIDE DEF expected, p
    <3> QED
      BY <1>2, <1>3, <1>4, <1>8, OkResult
  <2>4. NextLen(data, p.tails) <= size
    <3> HIDE DEF expected, p
    <3> QED
      BY <1>1, <1>8, <2>3
  <2>5. EncodedLen(data) \in Nat /\ ValidateStorageLen(size).ok
    <3>1. TailCount + 1 \in 1 .. (TailCount + 1)
      BY SchemaFacts
    <3> QED
      BY <1>1, <2>3, <3>1, ValidAccount DEF EncodedLen
  <2> HIDE DEF expected
  <2>6. TypeOK'
    <3>1. p.tails \in [TailId -> Edit]
      BY <1>1, PatchAssumption
    <3> QED
      BY <1>1, <2>1, <2>5, <3>1 DEF PInv, TypeOK, locals
  <2>7. pc' = "idle" /\ data' = entry'
    BY <1>1, <2>1
  <2>8. size' = size /\ data' = data /\ entry' = data /\ edits' = p.tails
    BY <1>1, <2>1
  <2>9. EntryStands'
    BY <2>1, <2>3, <2>5, <2>8 DEF EntryStands
  <2>10. Fit(edits)' /\ Roomy'
    <3>1. Fit(edits')
      BY <2>3, <2>8
    <3>2. NextLen(entry', edits') <= size'
      BY <2>4, <2>8
    <3> QED
      BY <3>1, <3>2 DEF Roomy
  <2>11. IInv' /\ CommitInv'
    BY <2>6, <2>7, <2>9, <2>10, IdleInvNext DEF ReadyToCommit
  <2>12. Underway'
    <3>1. call'.expected = NextLen(entry', edits')
      BY <2>2, <2>3, <2>8
    <3>2. edits' = call'.patch.tails /\ ValidateInputs(call'.patch).ok
      BY <2>2, <2>3, <2>8
    <3>3. entry' = call'.before /\ InlineValid(entry')
      BY <1>1, <2>2, <2>3, <2>8
    <3> QED
      BY <2>10, <2>11, <3>1, <3>2, <3>3 DEF Underway
  <2>13. CallTyped'
    BY <1>1, <2>2, <2>8 DEF PInv, CallTyped
  <2>14. PlanTyped' /\ PlanHolds'
    <3>1. Base = data /\ Base' = data
      BY <1>1, <2>2 DEF Base, Idle
    <3> QED
      BY <2>1, <2>8, <3>1 DEF PInv, PlanTyped, PlanHolds
  <2>15. AtRest' /\ AccountStaysReadable' /\ Preflighted' /\ Committed' /\ Concluded'
    BY <2>2, <2>7 DEF AtRest, AccountStaysReadable, Idle, Preflighted, Committed, Concluded
  <2> QED
    BY <2>6, <2>12, <2>13, <2>14, <2>15 DEF PInv
<1> QED
  BY <1>6, <1>7, <1>8

\* The offsets of the tails do not depend on the inline bytes.
LEMMA SameOffsets ==
    ASSUME NEW n \in Nat, HeaderSize <= n, NEW d \in [0 .. (n - 1) -> Byte],
           NEW e \in [0 .. (n - 1) -> Byte], WalkTails(d, n, TRUE).ok,
           \A a \in 0 .. (n - 1) : a >= Inline.size => e[a] = d[a]
    PROVE  /\ WalkTails(e, n, TRUE).ok /\ EncodedLen(e) = EncodedLen(d)
           /\ \A i \in 1 .. (TailCount + 1) : TailOffset(e)[i] = TailOffset(d)[i]
<1>1. /\ WalkTails(e, n, TRUE).ok /\ EncodedLen(e) = EncodedLen(d)
      /\ Places(e, n, TRUE, TailOffset(d))
  BY SameTails
<1> DEFINE f == TailOffset(d)
           full == TRUE
<1>2. \A i \in 1 .. (TailCount + 1) : TailOffset(e)[i] = f[i]
  <2>1. Places(e, n, full, f)
    BY <1>1
  <2> HIDE DEF f, full
  <2> QED
    BY <2>1, PlacedIsReplayed
<1> QED
  BY <1>1, <1>2

\* Writing the inline fields changes no other byte.
LEMMA InlineStored ==
    ASSUME NEW n \in Nat, HeaderSize <= n, NEW d \in [0 .. (n - 1) -> Byte], NEW p \in Patches
    PROVE  LET e == StoredInline(d, p)
           IN  /\ e \in [0 .. (n - 1) -> Byte]
               /\ \A a \in 0 .. (n - 1) : a >= Inline.size => e[a] = d[a]
               /\ ~p.setsInline => e = d
               /\ p.setsInline => \A a \in 0 .. (Inline.size - 1) : e[a] = p.inline[a]
<1>1. /\ Inline.size \in Nat /\ HeaderSize \in Nat /\ Inline.size <= HeaderSize
      /\ p.setsInline \in BOOLEAN /\ p.inline \in [0 .. (Inline.size - 1) -> Byte]
  BY SlotOrder, SchemaFacts, SchemaAssumption, PrefixesAssumption, PatchAssumption
<1>2. DOMAIN d = 0 .. (n - 1) /\ \A a \in 0 .. (n - 1) : a < Inline.size => a \in 0 .. (Inline.size - 1)
  BY <1>1
<1>3. \A a \in 0 .. (Inline.size - 1) : a \in 0 .. (n - 1) /\ a < Inline.size
  BY <1>1
<1> QED
  BY <1>1, <1>2, <1>3 DEF StoredInline

\* An initialize is refused over storage that stays zero, or its commit is
\* prepared.
LEMMA PreflightInitializeStep == PInv /\ PreflightInitialize => PInv'
<1> SUFFICES ASSUME PInv, PreflightInitialize PROVE PInv'
  OBVIOUS
<1> DEFINE expected == InitializedLen(call.patch)
           storage == ValidateStorageLen(size)
           p == call.patch
           bytes == StoredInline(data, p)
<1>1. /\ call.stage = "preflight" /\ call.op = "initialize" /\ pc = "idle" /\ data = entry
      /\ data = Filled(data) /\ p \in Patches /\ call.before \in [0 .. (size - 1) -> Byte]
      /\ size \in Nat /\ data \in [0 .. (size - 1) -> Byte] /\ UNCHANGED plan
  BY DEF PInv, PreflightInitialize, AtRest, Preflighted, TypeOK, CallTyped
<1>2. ASSUME NEW refusal, ~refusal.ok, DoneWith(refusal) PROVE PInv'
  <2>1. Done(refusal, data)
    BY <1>1, <1>2 DEF DoneWith
  <2> QED
    BY <1>1, <1>2, <2>1, CallReturns
<1>3. CASE ~storage.ok
  BY <1>1, <1>2, <1>3 DEF PreflightInitialize
<1>4. CASE storage.ok /\ ~expected.ok
  BY <1>1, <1>2, <1>4 DEF PreflightInitialize
<1>5. CASE storage.ok /\ expected.ok /\ expected.value > size
  <2>1. ~Err("BufferTooSmall").ok
    BY ErrResult
  <2>2. DoneWith(Err("BufferTooSmall"))
    BY <1>1, <1>5 DEF PreflightInitialize
  <2> QED
    BY <1>2, <2>1, <2>2
<1>6. CASE storage.ok /\ expected.ok /\ ~(expected.value > size)
  <2>1. /\ call' = [call EXCEPT !.stage = "commit", !.expected = expected.value]
        /\ edits' = p.tails /\ totalLen' = EncodedLen(data)
        /\ data' = bytes /\ entry' = bytes
        /\ UNCHANGED <<size, pc, cur, locals, result, plan>>
    BY <1>6 DEF PreflightInitialize
  <2>2. /\ call' = [stage |-> "commit", op |-> call.op, patch |-> call.patch,
                    expected |-> expected.value, outcome |-> call.outcome, before |-> call.before]
    <3> HIDE DEF expected
    <3> QED
      BY <2>1 DEF PInv, CallTyped
  <2>3. ValidateInputs(p).ok
    BY <1>6 DEF InitializedLen
  <2>4. HeaderSize <= size
    BY <1>1, <1>6, StorageLen
  <2>5. \A a \in 0 .. (size - 1) : data[a] = 0
    BY <1>1, FilledBytes
  <2>6. /\ WalkTails(data, size, TRUE).ok /\ EncodedLen(data) = HeaderSize
        /\ \A i \in 1 .. (TailCount + 1) : TailOffset(data)[i] = HeaderSize
    BY <1>1, <2>4, <2>5, ZeroStands
  <2>7. /\ bytes \in [0 .. (size - 1) -> Byte]
        /\ \A a \in 0 .. (size - 1) : a >= Inline.size => bytes[a] = data[a]
    BY <1>1, <2>4, InlineStored
  <2> HIDE DEF expected, bytes, p, storage
  <2>8. /\ WalkTails(bytes, size, TRUE).ok /\ EncodedLen(bytes) = EncodedLen(data)
        /\ \A i \in 1 .. (TailCount + 1) : TailOffset(bytes)[i] = TailOffset(data)[i]
    BY <1>1, <2>4, <2>6, <2>7, SameOffsets
  <2>9. \A i \in 1 .. (TailCount + 1) : TailOffset(bytes)[i] = HeaderSize
    BY <2>6, <2>8
  <2>10. expected = Ok(NextLen(bytes, p.tails))
    <3>1. InitializedLen(p) = Ok(NextLen(bytes, p.tails))
      BY <1>1, <2>3, <2>4, <2>7, <2>8, <2>9, InitializedLenExact
    <3> QED
      BY <3>1 DEF expected, p
  <2>11. Fit(p.tails)
    BY <1>1, <2>3, InputsPass
  <2>12. /\ NextLen(bytes, p.tails) \in Nat
    BY <1>1, <2>4, <2>7, <2>8, <2>11, NextLenIsAdmitted
  <2>13. expected.value = NextLen(bytes, p.tails) /\ NextLen(bytes, p.tails) <= size
    BY <1>1, <1>6, <2>10, <2>12, OkResult
  <2>14. HeaderSize \in Nat
    BY SchemaFacts
  <2>15. TypeOK'
    <3>1. p.tails \in [TailId -> Edit]
      BY <1>1, PatchAssumption
    <3> QED
      BY <1>1, <2>1, <2>6, <2>7, <2>14, <3>1 DEF PInv, TypeOK, locals
  <2>16. /\ size' = size /\ data' = bytes /\ entry' = bytes /\ edits' = p.tails /\ pc' = "idle"
         /\ totalLen' = EncodedLen(bytes)
    BY <1>1, <2>1, <2>8
  <2>17. EntryStands'
    BY <1>6, <2>8, <2>16 DEF EntryStands, storage
  <2>18. Fit(edits)' /\ Roomy'
    <3>1. Fit(edits')
      BY <2>11, <2>16
    <3>2. NextLen(entry', edits') <= size'
      BY <2>13, <2>16
    <3> QED
      BY <3>1, <3>2 DEF Roomy
  <2>19. IInv' /\ CommitInv'
    BY <2>15, <2>16, <2>17, <2>18, IdleInvNext DEF ReadyToCommit
  <2>20. Underway'
    <3>1. call'.expected = NextLen(entry', edits')
      BY <2>2, <2>13, <2>16
    <3>2. edits' = call'.patch.tails /\ ValidateInputs(call'.patch).ok
      BY <2>2, <2>3, <2>16 DEF p
    <3>3. call'.op = "initialize"
      BY <1>1, <2>2
    <3> QED
      BY <2>18, <2>19, <3>1, <3>2, <3>3 DEF Underway
  <2>21. CallTyped'
    BY <1>1, <2>2, <2>16 DEF PInv, CallTyped, p
  <2>22. PlanTyped' /\ PlanHolds'
    <3>1. Base = call.before /\ Base' = call.before
      BY <1>1, <2>2 DEF Base, Idle
    <3> QED
      BY <2>1, <2>16, <3>1 DEF PInv, PlanTyped, PlanHolds
  <2>23. AtRest' /\ AccountStaysReadable' /\ Preflighted' /\ Committed' /\ Concluded'
    BY <2>2, <2>16 DEF AtRest, AccountStaysReadable, Idle, Preflighted, Committed, Concluded
  <2> QED
    BY <2>15, <2>20, <2>21, <2>22, <2>23 DEF PInv
<1> QED
  BY <1>3, <1>4, <1>5, <1>6

\* A commit starts; only an initialize can be refused at its entry, for the
\* inline bytes it is given.
LEMMA StartCommitStep == PInv /\ StartCommit => PInv'
<1> SUFFICES ASSUME PInv, StartCommit PROVE PInv'
  OBVIOUS
<1>1. /\ call.stage = "commit" /\ pc = "idle" /\ data = entry /\ Commit /\ UNCHANGED plan
      /\ IInv /\ CommitInv /\ Roomy /\ call.expected = NextLen(entry, edits)
      /\ edits = call.patch.tails /\ ValidateInputs(call.patch).ok
      /\ call.op = "update" => entry = call.before /\ InlineValid(entry)
      /\ call.op \in {"update", "initialize"}
  BY DEF PInv, StartCommit, AtRest, Underway, CallTyped
<1>2. /\ UNCHANGED <<data, size, totalLen, edits>> /\ entry' = entry
      /\ \/ pc' = "setup"
         \/ pc' = "idle" /\ result' = Err(Inline.error) /\ ~InlineValid(entry)
  BY <1>1, EntryCheck
<1>3. call' = [stage |-> IF pc' = "idle" THEN "after" ELSE "committing", op |-> call.op,
               patch |-> call.patch, expected |-> call.expected, outcome |-> call.outcome,
               before |-> call.before]
  BY DEF StartCommit, PInv, CallTyped
<1>4. IInv' /\ CommitInv' /\ TypeOK'
  <2>1. IInv' /\ CommitInv'
    BY <1>1, CommitStep, CommitStores
  <2> QED
    BY <2>1 DEF IInv
<1>5. CallTyped'
  BY <1>1, <1>2, <1>3 DEF PInv, CallTyped
<1>6. PlanTyped' /\ PlanHolds'
  <2>1. Base = call.before /\ Base' = call.before
    BY <1>1, <1>3 DEF Base, Idle
  <2> QED
    BY <1>1, <1>2, <2>1 DEF PInv, PlanTyped, PlanHolds
<1>7. AtRest'
  BY <1>1, <1>2, <1>3 DEF AtRest
<1>8. AccountStaysReadable' /\ Preflighted' /\ Concluded'
  BY <1>3 DEF AccountStaysReadable, Idle, Preflighted, Concluded
<1>9. Underway'
  <2>1. Roomy'
    <3>1. Fit(edits') /\ NextLen(entry', edits') <= size'
      BY <1>1, <1>2 DEF Roomy
    <3> QED
      BY <3>1 DEF Roomy
  <2>2. call'.expected = NextLen(entry', edits')
    BY <1>1, <1>2, <1>3
  <2>3. edits' = call'.patch.tails /\ ValidateInputs(call'.patch).ok
    BY <1>1, <1>2, <1>3
  <2>4. call'.op = "update" => entry' = call'.before /\ InlineValid(entry')
    BY <1>1, <1>2, <1>3
  <2> QED
    BY <1>4, <2>1, <2>2, <2>3, <2>4 DEF Underway
<1>10. Committed'
  <2>1. CASE pc' = "setup"
    BY <1>3, <2>1 DEF Committed
  <2>2. CASE pc' = "idle" /\ result' = Err(Inline.error) /\ ~InlineValid(entry)
    <3>1. ~result'.ok /\ result'.error = Inline.error
      BY <2>2 DEF Err
    <3>2. call.op = "initialize"
      BY <1>1, <2>2
    <3> QED
      BY <1>1, <1>3, <3>1, <3>2 DEF Committed
  <2> QED
    BY <1>2, <2>1, <2>2
<1> QED
  BY <1>4, <1>5, <1>6, <1>7, <1>8, <1>9, <1>10 DEF PInv

\* The commit advances and stays the one that was announced.
LEMMA AdvanceStep ==
    ASSUME PInv, call.stage = "committing", UNCHANGED plan, IInv', CommitInv', pc' # "idle",
           UNCHANGED <<size, entry, edits>>,
           call' = [call EXCEPT !.stage = IF pc' = "idle" THEN "after" ELSE @]
    PROVE  PInv'
<1>1. /\ IInv /\ CommitInv /\ Roomy /\ call.expected = NextLen(entry, edits)
      /\ edits = call.patch.tails /\ ValidateInputs(call.patch).ok
      /\ call.op = "update" => entry = call.before /\ InlineValid(entry)
  BY DEF PInv, Underway
<1>2. call' = call
  BY DEF PInv, CallTyped
<1>3. TypeOK'
  BY DEF IInv
<1>4. CallTyped' /\ PlanTyped' /\ PlanHolds'
  <2>1. CallTyped'
    BY <1>2 DEF PInv, CallTyped
  <2>2. Base = call.before /\ Base' = call.before
    BY <1>2 DEF Base, Idle
  <2> QED
    BY <2>1, <2>2 DEF PInv, PlanTyped, PlanHolds
<1>5. AtRest' /\ AccountStaysReadable' /\ Preflighted' /\ Committed' /\ Concluded'
  BY <1>2 DEF AtRest, AccountStaysReadable, Idle, Preflighted, Committed, Concluded
<1>6. Underway'
  <2>1. Fit(edits') /\ NextLen(entry', edits') <= size'
    BY <1>1 DEF Roomy
  <2>2. Roomy'
    BY <2>1 DEF Roomy
  <2>3. call'.expected = NextLen(entry', edits')
    BY <1>1, <1>2
  <2>4. edits' = call'.patch.tails /\ ValidateInputs(call'.patch).ok
    BY <1>1, <1>2
  <2>5. call'.op = "update" => entry' = call'.before /\ InlineValid(entry')
    BY <1>1, <1>2
  <2> QED
    BY <2>2, <2>3, <2>4, <2>5 DEF Underway
<1> QED
  BY <1>3, <1>4, <1>5, <1>6 DEF PInv

\* The commit advances, or ends at the announced length.
LEMMA StepCommitStep == PInv /\ StepCommit => PInv'
<1> SUFFICES ASSUME PInv, StepCommit PROVE PInv'
  OBVIOUS
<1>1. /\ call.stage = "committing" /\ UNCHANGED plan
      /\ call' = [call EXCEPT !.stage = IF pc' = "idle" THEN "after" ELSE @]
      /\ Setup \/ Check \/ MoveBack \/ MoveForth \/ Write \/ WriteSlot \/ Finish
  BY DEF StepCommit
<1>2. /\ IInv /\ CommitInv /\ Roomy /\ call.expected = NextLen(entry, edits)
      /\ edits = call.patch.tails /\ ValidateInputs(call.patch).ok
      /\ call.op = "update" => entry = call.before /\ InlineValid(entry)
      /\ call.op \in {"update", "initialize"} /\ call.patch \in Patches
      /\ call.before \in [0 .. (size - 1) -> Byte]
  BY <1>1 DEF PInv, Underway, CallTyped
<1>3. CASE Setup
  BY <1>1, <1>2, <1>3, SetupSucceeds, SetupStep, SetupStores, AdvanceStep DEF Roomy
<1>4. CASE Check
  BY <1>1, <1>2, <1>4, CheckSucceeds, CheckStep, CheckStores, AdvanceStep
<1>5. CASE MoveBack \/ MoveForth \/ Write \/ WriteSlot
  <2>1. IInv'
    BY <1>2, <1>5, MoveBackStep, MoveForthStep, WriteStep, WriteSlotStep
  <2>2. CommitInv'
    BY <1>2, <1>5, MoveStores, WriteStores, WriteSlotStores
  <2> QED
    BY <1>1, <1>2, <1>5, <2>1, <2>2, LaterSucceeds, AdvanceStep
<1>6. CASE Finish
  <2>1. /\ pc' = "idle" /\ result'.ok /\ result'.value = NextLen(entry, edits)
        /\ totalLen' = NextLen(entry, edits) /\ entry' = data' /\ size' = size
    BY <1>2, <1>6, FinishAnnounces DEF Roomy
  <2>2. IInv' /\ CommitInv'
    BY <1>2, <1>6, FinishStep, FinishStores
  <2>3. TypeOK' /\ EntryStands'
    BY <2>2 DEF IInv, CommitInv
  <2>4. call' = [stage |-> "after", op |-> call.op, patch |-> call.patch,
                 expected |-> call.expected, outcome |-> call.outcome, before |-> call.before]
    BY <1>1, <2>1 DEF PInv, CallTyped
  <2>5. CallTyped'
    BY <1>2, <2>1, <2>4 DEF CallTyped
  <2>6. PlanTyped' /\ PlanHolds'
    <3>1. Base = call.before /\ Base' = call.before
      BY <1>1, <2>4 DEF Base, Idle
    <3> QED
      BY <1>1, <2>1, <3>1 DEF PInv, PlanTyped, PlanHolds
  <2>7. AtRest' /\ AccountStaysReadable' /\ Preflighted' /\ Underway' /\ Concluded'
    BY <2>1, <2>4 DEF AtRest, AccountStaysReadable, Idle, Preflighted, Underway, Concluded
  <2>8. call.op = "update" => InlineValid(data')
    <3>1. \A a \in 0 .. (Inline.size - 1) : entry'[a] = entry[a]
      BY <1>2, <1>6, FinishKeepsInline
    <3>2. InlineValid(entry) => InlineValid(entry')
      BY <3>1 DEF InlineValid
    <3> QED
      BY <1>2, <2>1, <3>2
  <2>9. Committed'
    <3>1. call'.op = "update" =>
             result'.ok /\ InlineValid(data') /\ call'.expected = NextLen(call'.before, call'.patch.tails)
      BY <1>2, <2>1, <2>4, <2>8
    <3>2. result'.value = call'.expected /\ totalLen' = call'.expected /\ ValidateInputs(call'.patch).ok
      BY <1>2, <2>1, <2>4
    <3> QED
      BY <2>1, <2>3, <3>1, <3>2 DEF Committed
  <2> QED
    BY <2>3, <2>5, <2>6, <2>7, <2>9 DEF PInv
<1> QED
  BY <1>1, <1>3, <1>4, <1>5, <1>6

-----------------------------------------------------------------------------
(* The end of a call, and what the account framework does between calls.   *)

\* An allocation may have the length that an accepted account is encoded in.
LEMMA EncodedLenAdmitted ==
    ASSUME NEW n \in Nat, HeaderSize <= n, NEW d \in [0 .. (n - 1) -> Byte],
           WalkTails(d, n, TRUE).ok
    PROVE  /\ EncodedLen(d) \in Nat /\ EncodedLen(d) <= n
           /\ ValidateStorageLen(EncodedLen(d)).ok
           /\ Places(d, n, TRUE, TailOffset(d))
<1> DEFINE f == TailOffset(d)
           full == TRUE
<1>1. TailCount + 1 \in 1 .. (TailCount + 1) /\ full \in BOOLEAN
  BY SchemaFacts
<1>2. WalkTails(d, n, full).ok
  OBVIOUS
<1> HIDE DEF full
<1>3. /\ Places(d, n, full, TailOffset(d))
      /\ \A i \in 1 .. (TailCount + 1) : TailOffset(d)[i] \in Nat /\ TailOffset(d)[i] <= n
  BY <1>1, <1>2, AcceptedReplay
<1>4. ValidateStorageLen(f[TailCount + 1]).ok
  <2>1. Places(d, n, full, f)
    BY <1>3
  <2> HIDE DEF f
  <2> QED
    BY <2>1, PlacedLength
<1> QED
  BY <1>1, <1>3, <1>4 DEF EncodedLen, full

\* An accepted account is the same one in any allocation that has room for it.
LEMMA AccountResized ==
    ASSUME NEW n \in Nat, HeaderSize <= n, NEW d \in [0 .. (n - 1) -> Byte],
           WalkTails(d, n, TRUE).ok,
           NEW m \in Nat, EncodedLen(d) <= m, ValidateStorageLen(m).ok,
           NEW e \in [0 .. (m - 1) -> Byte],
           \A a \in 0 .. (EncodedLen(d) - 1) : d[a] = e[a]
    PROVE  /\ WalkTails(e, m, TRUE).ok /\ EncodedLen(e) = EncodedLen(d)
           /\ \A i \in 1 .. (TailCount + 1) : TailOffset(e)[i] = TailOffset(d)[i]
           /\ InlineValid(d) => Validate(e, m).ok
           /\ ~InlineValid(d) => Validate(e, m) = Err(Inline.error)
<1> DEFINE f == TailOffset(d)
           full == TRUE
<1>1. full \in BOOLEAN /\ Places(d, n, full, TailOffset(d)) /\ HeaderSize <= m
  BY EncodedLenAdmitted, StorageLen
<1>2. /\ Places(e, m, full, TailOffset(d))
      /\ \A i \in 1 .. (TailCount + 1) : TailOffset(e)[i] = TailOffset(d)[i]
      /\ InlineValid(e) <=> InlineValid(d)
  <2> HIDE DEF full
  <2> QED
    BY <1>1, SameContent
<1>3. WalkTails(e, m, TRUE).ok /\ EncodedLen(e) = f[TailCount + 1]
  <2>1. Places(e, m, TRUE, f)
    BY <1>2
  <2> HIDE DEF f
  <2> QED
    BY <1>1, <2>1, PlacedIsAccepted
<1>4. EncodedLen(e) = EncodedLen(d)
  BY <1>3 DEF EncodedLen
<1> QED
  BY <1>2, <1>3, <1>4, AcceptedIsValid

\* An update ends: its inline fields go into a valid account, and stay valid.
LEMMA FinishUpdateStep == PInv /\ FinishUpdate => PInv'
<1> SUFFICES ASSUME PInv, FinishUpdate PROVE PInv'
  OBVIOUS
<1> DEFINE p == call.patch
           len == NextLen(call.before, p.tails)
           bytes == StoredInline(data, p)
<1>1. /\ call.stage = "after" /\ call.op = "update" /\ pc = "idle" /\ data = entry /\ UNCHANGED plan
      /\ p \in Patches /\ ValidateInputs(p).ok /\ result.ok /\ InlineValid(data)
      /\ call.expected = len /\ EntryStands /\ result.value = len /\ totalLen = len
      /\ size \in Nat /\ data \in [0 .. (size - 1) -> Byte] /\ TypeOK
  BY DEF PInv, FinishUpdate, AtRest, Committed, CallTyped, TypeOK
<1>2. Done(Ok(len), bytes)
  BY <1>1 DEF FinishUpdate, Agreed
<1>3. /\ HeaderSize <= size /\ ValidateStorageLen(size).ok /\ WalkTails(data, size, TRUE).ok
      /\ EncodedLen(data) = len
  BY <1>1, StorageLen DEF EntryStands
<1>4. /\ bytes \in [0 .. (size - 1) -> Byte]
      /\ \A a \in 0 .. (size - 1) : a >= Inline.size => bytes[a] = data[a]
      /\ ~p.setsInline => bytes = data
      /\ p.setsInline => \A a \in 0 .. (Inline.size - 1) : bytes[a] = p.inline[a]
  BY <1>1, <1>3, InlineStored
<1>5. p.setsInline => InlineValid(p.inline)
  BY <1>1, InputsPass
<1>6. PlanApplies => Ok(len) = Ok(plan.len)
  <2>1. Base = call.before
    BY <1>1 DEF Base, Idle
  <2> QED
    BY <2>1 DEF PInv, PlanHolds, PlanApplies
<1> HIDE DEF p, len, bytes
<1>7. WalkTails(bytes, size, TRUE).ok /\ EncodedLen(bytes) = len
  <2>1. /\ WalkTails(bytes, size, TRUE).ok /\ EncodedLen(bytes) = EncodedLen(data)
        /\ \A i \in 1 .. (TailCount + 1) : TailOffset(bytes)[i] = TailOffset(data)[i]
    BY <1>1, <1>3, <1>4, SameOffsets
  <2> QED
    BY <1>3, <2>1
<1>8. InlineValid(bytes)
  BY <1>1, <1>4, <1>5 DEF InlineValid
<1>9. Validate(bytes, size).ok
  BY <1>1, <1>3, <1>7, <1>8, AcceptedIsValid
<1>10. Ok(len).ok /\ Ok(len).value = len
  BY DEF Ok
<1> DEFINE outcome == Ok(len)
<1>11. outcome.ok /\ outcome.value = EncodedLen(bytes) /\ Done(outcome, bytes)
       /\ (PlanApplies => outcome = Ok(plan.len))
  BY <1>2, <1>6, <1>7, <1>10
<1> HIDE DEF outcome
<1> QED
  BY <1>1, <1>4, <1>9, <1>11, CallReturns

\* An initialize ends with the account it has stored, or with zeros.
LEMMA FinishInitializeStep == PInv /\ FinishInitialize => PInv'
<1> SUFFICES ASSUME PInv, FinishInitialize PROVE PInv'
  OBVIOUS
<1>1. /\ call.stage = "after" /\ call.op = "initialize" /\ pc = "idle" /\ data = entry /\ UNCHANGED plan
      /\ size \in Nat /\ data \in [0 .. (size - 1) -> Byte] /\ TypeOK
      /\ result.ok => EntryStands /\ result.value = call.expected /\ totalLen = call.expected
  BY DEF PInv, FinishInitialize, AtRest, Committed, TypeOK
<1>2. ASSUME NEW refusal, ~refusal.ok, DoneWith(refusal) PROVE PInv'
  <2>1. Done(refusal, Filled(data))
    BY <1>1, <1>2 DEF DoneWith
  <2>2. Filled(data) \in [0 .. (size - 1) -> Byte] /\ Filled(Filled(data)) = Filled(data)
    BY <1>1, FilledBytes
  <2> QED
    BY <1>1, <1>2, <2>1, <2>2, CallReturns
<1>3. CASE ~result.ok
  BY <1>1, <1>2, <1>3 DEF FinishInitialize
<1>4. CASE result.ok
  <2> DEFINE len == result.value
             used == [a \in 0 .. (len - 1) |-> data[a]]
             checked == Validate(used, len)
             outcome == IF checked.ok THEN Ok(len) ELSE checked
  <2>1. DoneWith(outcome)
    BY <1>1, <1>4 DEF FinishInitialize, Agreed
  <2>2. /\ HeaderSize <= size /\ ValidateStorageLen(size).ok /\ WalkTails(data, size, TRUE).ok
        /\ len = EncodedLen(data)
    BY <1>1, <1>4, StorageLen DEF EntryStands
  <2>3. /\ len \in Nat /\ len <= size /\ ValidateStorageLen(len).ok
    BY <1>1, <2>2, EncodedLenAdmitted
  <2>4. used \in [0 .. (len - 1) -> Byte] /\ \A a \in 0 .. (len - 1) : data[a] = used[a]
    BY <1>1, <2>3
  <2> HIDE DEF used, len
  <2>5. /\ InlineValid(data) => checked.ok
        /\ ~InlineValid(data) => checked = Err(Inline.error)
    <3>1. /\ size \in Nat /\ data \in [0 .. (size - 1) -> Byte] /\ HeaderSize <= size
          /\ WalkTails(data, size, TRUE).ok
      BY <1>1, <2>2
    <3>2. /\ EncodedLen(data) <= len /\ \A a \in 0 .. (EncodedLen(data) - 1) : data[a] = used[a]
          /\ len \in Nat /\ ValidateStorageLen(len).ok /\ used \in [0 .. (len - 1) -> Byte]
      BY <2>2, <2>3, <2>4
    <3>3. /\ WalkTails(used, len, TRUE).ok /\ EncodedLen(used) = EncodedLen(data)
          /\ \A i \in 1 .. (TailCount + 1) : TailOffset(used)[i] = TailOffset(data)[i]
          /\ InlineValid(data) => Validate(used, len).ok
          /\ ~InlineValid(data) => Validate(used, len) = Err(Inline.error)
      BY ZenonT(60), <3>1, <3>2, AccountResized
    <3> QED
      BY <3>3
  <2>6. Ok(len).ok /\ Ok(len).value = len /\ ~Err(Inline.error).ok
    BY DEF Ok, Err
  <2> HIDE DEF checked
  <2>7. CASE InlineValid(data)
    <3>1. outcome.ok /\ outcome.value = EncodedLen(data)
      BY <2>2, <2>5, <2>6, <2>7
    <3>2. Validate(data, size).ok
      BY <1>1, <2>2, <2>7, AcceptedIsValid
    <3>3. Done(outcome, data)
      BY <2>1, <3>1 DEF DoneWith
    <3> HIDE DEF outcome
    <3> QED
      BY <1>1, <3>1, <3>2, <3>3, CallReturns
  <2>8. CASE ~InlineValid(data)
    <3>1. ~outcome.ok
      BY <2>5, <2>6, <2>8
    <3> HIDE DEF outcome
    <3> QED
      BY <1>2, <2>1, <3>1
  <2> QED
    BY <2>7, <2>8
<1> QED
  BY <1>3, <1>4

\* A call that has returned leaves an account, or zeros.
LEMMA ReturnedReadable ==
    ASSUME PInv, call.stage = "done"
    PROVE  Readable
  BY DEF PInv, Concluded, Readable, CallTyped

\* The borrow of a call ends over an account of the size it had.
LEMMA KeepsStep == PInv /\ Keeps => PInv'
<1> SUFFICES ASSUME PInv, Keeps PROVE PInv'
  OBVIOUS
<1>1. /\ call.stage = "done" /\ call' = NoCall /\ UNCHANGED vars /\ UNCHANGED <<data, size, entry, pc>>
      /\ pc = "idle" /\ data = entry /\ Readable
  BY ReturnedReadable DEF Keeps, Release, PInv, AtRest, vars
<1>2. plan' = IF plan.held /\ call.op = "update" /\ call.patch = plan.patch
              THEN NoPlan
              ELSE [held |-> plan.held, patch |-> plan.patch, len |-> plan.len,
                    fresh |-> plan.fresh /\ data = call.before]
  BY DEF Keeps, Release, PInv, PlanTyped
<1>3. TypeOK'
  BY <1>1 DEF PInv, TypeOK, vars, locals
<1>4. CallTyped'
  BY <1>1 DEF CallTyped, NoCall
<1>5. PlanTyped'
  BY <1>2 DEF PInv, PlanTyped, NoPlan
<1>6. PlanHolds'
  <2>1. Base = call.before /\ Base' = data
    BY <1>1 DEF Base, Idle, NoCall
  <2>2. CASE plan' = NoPlan
    BY <2>2 DEF PlanHolds, NoPlan
  <2>3. CASE plan' = [held |-> plan.held, patch |-> plan.patch, len |-> plan.len,
                      fresh |-> plan.fresh /\ data = call.before]
    BY <1>1, <2>1, <2>3 DEF PInv, PlanHolds
  <2> QED
    BY <1>2, <2>2, <2>3
<1>7. AccountStaysReadable'
  <2>1. Validate(data', size').ok \/ data' = Filled(data')
    BY <1>1 DEF Readable
  <2> QED
    BY <2>1 DEF AccountStaysReadable
<1>8. AtRest' /\ Preflighted' /\ Underway' /\ Committed' /\ Concluded'
  BY <1>1 DEF AtRest, Preflighted, Underway, Committed, Concluded, NoCall
<1> QED
  BY <1>3, <1>4, <1>5, <1>6, <1>7, <1>8 DEF PInv

\* The account shrinks to the bytes in use.
LEMMA TrimStep == PInv /\ Trim => PInv'
<1> SUFFICES ASSUME PInv, Trim PROVE PInv'
  OBVIOUS
<1> DEFINE m == EncodedLen(data)
           e == [a \in 0 .. (m - 1) |-> data[a]]
<1>1. /\ call.stage = "done" /\ call' = NoCall /\ pc = "idle" /\ call.outcome.ok
      /\ Validate(data, size).ok /\ call.outcome.value = m
      /\ size \in Nat /\ data \in [0 .. (size - 1) -> Byte]
  BY DEF Trim, Release, PInv, AtRest, Concluded, TypeOK
<1>2. /\ size' = m /\ data' = e /\ entry' = e
      /\ UNCHANGED <<totalLen, edits, pc, cur, locals, result>>
  BY <1>1 DEF Trim
<1>3. plan' = IF plan.held /\ call.op = "update" /\ call.patch = plan.patch
              THEN NoPlan
              ELSE [held |-> plan.held, patch |-> plan.patch, len |-> plan.len,
                    fresh |-> plan.fresh /\ data = call.before]
  BY DEF Trim, Release, PInv, PlanTyped
<1>4. HeaderSize <= size /\ WalkTails(data, size, TRUE).ok /\ InlineValid(data)
  BY <1>1, ValidAccount
<1>5. m \in Nat /\ m <= size /\ ValidateStorageLen(m).ok
  BY <1>1, <1>4, EncodedLenAdmitted
<1>6. e \in [0 .. (m - 1) -> Byte] /\ EncodedLen(data) <= m
      /\ \A a \in 0 .. (EncodedLen(data) - 1) : data[a] = e[a]
  BY <1>1, <1>5
<1> HIDE DEF e, m
<1>7. /\ WalkTails(e, m, TRUE).ok /\ EncodedLen(e) = EncodedLen(data)
      /\ \A i \in 1 .. (TailCount + 1) : TailOffset(e)[i] = TailOffset(data)[i]
      /\ InlineValid(data) => Validate(e, m).ok
      /\ ~InlineValid(data) => Validate(e, m) = Err(Inline.error)
  <2>1. /\ size \in Nat /\ data \in [0 .. (size - 1) -> Byte] /\ HeaderSize <= size
        /\ WalkTails(data, size, TRUE).ok
    BY <1>1, <1>4
  <2>2. m \in Nat /\ ValidateStorageLen(m).ok
    BY <1>5
  <2> QED
    BY ZenonT(60), <2>1, <2>2, <1>6, AccountResized
<1>8. Validate(e, m).ok
  BY <1>4, <1>7
<1>9. TypeOK'
  BY <1>1, <1>2, <1>5, <1>6 DEF PInv, TypeOK, locals
<1>10. CallTyped'
  BY <1>1 DEF CallTyped, NoCall
<1>11. PlanTyped'
  BY <1>3 DEF PInv, PlanTyped, NoPlan
<1>12. PlanHolds'
  <2>1. Base = call.before /\ Base' = e
    BY <1>1, <1>2 DEF Base, Idle, NoCall
  <2>2. CASE plan' = NoPlan
    BY <2>2 DEF PlanHolds, NoPlan
  <2>3. CASE plan' = [held |-> plan.held, patch |-> plan.patch, len |-> plan.len,
                      fresh |-> plan.fresh /\ data = call.before]
    <3> DEFINE es == plan.patch.tails
    <3> HIDE DEF es
    <3>1. NextLens(e, es) = NextLens(data, es) /\ NextLen(e, es) = NextLen(data, es)
      BY <1>7, SameNextLen
    <3>2. NextLen(e, plan.patch.tails) = NextLen(data, plan.patch.tails)
      BY <3>1 DEF es
    <3> QED
      BY <1>2, <1>8, <2>1, <2>3, <3>2 DEF PInv, PlanHolds
  <2> QED
    BY <1>3, <2>2, <2>3
<1>13. AccountStaysReadable'
  <2>1. Validate(data', size').ok
    BY <1>2, <1>8
  <2> QED
    BY <2>1 DEF AccountStaysReadable
<1>14. AtRest' /\ Preflighted' /\ Underway' /\ Committed' /\ Concluded'
  BY <1>1, <1>2 DEF AtRest, Preflighted, Underway, Committed, Concluded, NoCall
<1> QED
  BY <1>9, <1>10, <1>11, <1>12, <1>13, <1>14 DEF PInv

\* A plan is made: the length it names is the one the update will need.
LEMMA PlanStep == PInv /\ Plan => PInv'
<1> SUFFICES ASSUME PInv, Plan PROVE PInv'
  OBVIOUS
<1>1. PICK p \in Planned :
        /\ UpdatedLen(p).ok
        /\ plan' = [held |-> TRUE, patch |-> p, len |-> UpdatedLen(p).value, fresh |-> TRUE]
  BY DEF Plan
<1>2. /\ call.stage = "none" /\ UNCHANGED vars /\ call' = call /\ p \in Patches
      /\ UNCHANGED <<data, size, totalLen, edits, pc, cur, locals, result, entry>>
      /\ size \in Nat /\ data \in [0 .. (size - 1) -> Byte]
  BY PatchAssumption DEF Plan, Idle, PInv, TypeOK, vars
<1> DEFINE len == NextLen(data, p.tails)
<1>3. Validate(data, size).ok /\ ValidateInputs(p).ok
  BY <1>1 DEF UpdatedLen
<1>4. HeaderSize <= size /\ WalkTails(data, size, TRUE).ok
  BY <1>2, <1>3, ValidAccount
<1>5. Fit(p.tails)
  BY <1>2, <1>3, InputsPass
<1>6. len \in Nat /\ ValidateStorageLen(len).ok
  BY <1>2, <1>4, <1>5, NextLenIsAdmitted
<1>7. UpdatedLen(p) = Ok(len)
  BY <1>2, <1>3, UpdatedLenExact
<1>8. UpdatedLen(p).value = len
  BY <1>7 DEF Ok
<1> HIDE DEF len
<1>9. PlanTyped'
  BY <1>1, <1>2, <1>6, <1>8 DEF PlanTyped
<1>10. PlanHolds'
  <2>1. Base' = data
    BY <1>2 DEF Base, Idle
  <2> QED
    BY <1>1, <1>2, <1>3, <1>8, <2>1 DEF PlanHolds, len
<1>11. TypeOK' /\ CallTyped'
  BY <1>2 DEF PInv, TypeOK, CallTyped, locals
<1>12. AccountStaysReadable'
  <2>1. Validate(data', size').ok
    BY <1>2, <1>3
  <2> QED
    BY <2>1 DEF AccountStaysReadable
<1>13. AtRest' /\ Preflighted' /\ Underway' /\ Committed' /\ Concluded'
  BY <1>2 DEF PInv, AtRest, Preflighted, Underway, Committed, Concluded
<1> QED
  BY <1>9, <1>10, <1>11, <1>12, <1>13 DEF PInv

\* The account grows to the planned length by zero bytes.
LEMMA GrowStep == PInv /\ Grow => PInv'
<1> SUFFICES ASSUME PInv, Grow PROVE PInv'
  OBVIOUS
<1> DEFINE m == plan.len
           e == [a \in 0 .. (m - 1) |-> IF a < size THEN data[a] ELSE 0]
<1>1. /\ call.stage = "none" /\ pc = "idle" /\ plan.held /\ m > size /\ m \in Nat
      /\ ValidateStorageLen(m).ok /\ Readable
      /\ size \in Nat /\ data \in [0 .. (size - 1) -> Byte]
  BY DEF Grow, Idle, PInv, AtRest, TypeOK, PlanTyped, AccountStaysReadable, Readable
<1>2. /\ size' = m /\ data' = e /\ entry' = e
      /\ UNCHANGED <<totalLen, edits, pc, cur, locals, result, call, plan>>
  BY DEF Grow
<1>3. 0 \in Byte
  BY SchemaFacts DEF Byte
<1>4. e \in [0 .. (m - 1) -> Byte] /\ \A a \in 0 .. (size - 1) : e[a] = data[a]
  BY <1>1, <1>3
<1>5. data = Filled(data) => e = Filled(e)
  <2> SUFFICES ASSUME data = Filled(data) PROVE e = Filled(e)
    OBVIOUS
  <2>1. \A a \in 0 .. (size - 1) : data[a] = 0
    BY <1>1, FilledBytes
  <2>2. ASSUME NEW a \in 0 .. (m - 1) PROVE e[a] = 0
    BY <1>1, <2>1, <2>2
  <2>3. Filled(e) = [a \in 0 .. (m - 1) |-> 0]
    BY <1>4 DEF Filled
  <2> QED
    BY <1>4, <2>2, <2>3
<1> HIDE DEF e, m
<1>6. ASSUME Validate(data, size).ok
      PROVE  /\ Validate(e, m).ok
             /\ \A i \in 1 .. (TailCount + 1) : TailOffset(e)[i] = TailOffset(data)[i]
  <2>1. HeaderSize <= size /\ WalkTails(data, size, TRUE).ok /\ InlineValid(data)
    BY <1>1, <1>6, ValidAccount
  <2>2. EncodedLen(data) \in Nat /\ EncodedLen(data) <= size
    BY <1>1, <2>1, EncodedLenAdmitted
  <2>3. EncodedLen(data) <= m /\ \A a \in 0 .. (EncodedLen(data) - 1) : data[a] = e[a]
    BY <1>1, <1>4, <2>2
  <2>4. /\ WalkTails(e, m, TRUE).ok /\ EncodedLen(e) = EncodedLen(data)
        /\ \A i \in 1 .. (TailCount + 1) : TailOffset(e)[i] = TailOffset(data)[i]
        /\ InlineValid(data) => Validate(e, m).ok
        /\ ~InlineValid(data) => Validate(e, m) = Err(Inline.error)
    BY <1>1, <1>4, <2>1, <2>3, AccountResized
  <2> QED
    BY <2>1, <2>4
<1>7. TypeOK'
  BY <1>1, <1>2, <1>4 DEF PInv, TypeOK, locals
<1>8. CallTyped' /\ PlanTyped'
  BY <1>1, <1>2 DEF PInv, CallTyped, PlanTyped
<1>9. PlanHolds'
  <2>1. Base = data /\ Base' = e
    BY <1>1, <1>2 DEF Base, Idle
  <2> SUFFICES ASSUME plan.held, plan.fresh
               PROVE  /\ Validate(Base', size').ok
                      /\ ValidateInputs(plan.patch).ok
                      /\ plan.len = NextLen(Base', plan.patch.tails)
    BY <1>2 DEF PlanHolds
  <2>2. /\ Validate(data, size).ok /\ ValidateInputs(plan.patch).ok
        /\ plan.len = NextLen(data, plan.patch.tails)
    BY <2>1 DEF PInv, PlanHolds
  <2> DEFINE es == plan.patch.tails
  <2> HIDE DEF es
  <2>3. NextLens(e, es) = NextLens(data, es) /\ NextLen(e, es) = NextLen(data, es)
    BY <1>6, <2>2, SameNextLen
  <2>4. NextLen(e, plan.patch.tails) = NextLen(data, plan.patch.tails)
    BY <2>3 DEF es
  <2> QED
    BY <1>2, <1>6, <2>1, <2>2, <2>4
<1>10. AccountStaysReadable'
  <2>1. CASE Validate(data, size).ok
    <3>1. Validate(data', size').ok
      BY <1>2, <1>6, <2>1
    <3> QED
      BY <3>1 DEF AccountStaysReadable
  <2>2. CASE data = Filled(data)
    <3>1. data' = Filled(data')
      BY <1>2, <1>5, <2>2
    <3> QED
      BY <3>1 DEF AccountStaysReadable, Filled
  <2> QED
    BY <1>1, <2>1, <2>2 DEF Readable
<1>11. AtRest' /\ Preflighted' /\ Underway' /\ Committed' /\ Concluded'
  BY <1>1, <1>2 DEF AtRest, Preflighted, Underway, Committed, Concluded
<1> QED
  BY <1>7, <1>8, <1>9, <1>10, <1>11 DEF PInv

\* A stuttering step keeps the invariant.
LEMMA PatchStutterStep == PInv /\ UNCHANGED patchVars => PInv'
<1> SUFFICES ASSUME PInv, UNCHANGED patchVars PROVE PInv'
  OBVIOUS
<1>1. /\ data' = data /\ size' = size /\ totalLen' = totalLen /\ edits' = edits /\ pc' = pc
      /\ result' = result /\ entry' = entry /\ call' = call /\ plan' = plan
      /\ UNCHANGED vars
  BY DEF patchVars, vars
<1>2. TypeOK'
  BY <1>1 DEF PInv, TypeOK, vars, locals
<1>3. CallTyped' /\ PlanTyped' /\ PlanHolds' /\ AtRest'
  BY <1>1 DEF PInv, CallTyped, PlanTyped, PlanHolds, Base, Idle, AtRest
<1>4. AccountStaysReadable' /\ Preflighted'
  <2>1. Filled(data)' = Filled(data) /\ Validate(data, size)' = Validate(data, size)
    BY <1>1
  <2> QED
    BY <1>1, <2>1 DEF PInv, AccountStaysReadable, Idle, Preflighted, Readable
<1>5. Underway'
  <2> SUFFICES ASSUME call.stage \in {"commit", "committing"} PROVE Underway'
    BY <1>1 DEF Underway
  <2>1. IInv' /\ CommitInv'
    BY <1>1, StutterStep, StutterStores DEF PInv, Underway
  <2>2. Fit(edits)' /\ NextLen(entry, edits)' = NextLen(entry, edits)
    BY <1>1 DEF PInv, Underway, Roomy
  <2>3. Roomy'
    BY <1>1, <2>2 DEF PInv, Underway, Roomy
  <2> QED
    BY <1>1, <2>1, <2>2, <2>3 DEF PInv, Underway
<1>6. Committed'
  <2>1. EntryStands => EntryStands'
    BY <1>1 DEF EntryStands
  <2> QED
    BY <1>1, <2>1 DEF PInv, Committed
<1>7. Concluded'
  BY <1>1 DEF PInv, Concluded, Readable, PlanApplies
<1> QED
  BY <1>2, <1>3, <1>4, <1>5, <1>6, <1>7 DEF PInv

-----------------------------------------------------------------------------
(* Theorems.                                                               *)

\* What a call in progress, a held plan and the account have to do with each
\* other, at every step of every history of calls, plans, growths and trims.
THEOREM PatchInvariance == PatchSpec => []PInv
<1>1. PatchInit => PInv
  BY PatchInitEstablishes
<1>2. PInv /\ [PatchNext]_patchVars => PInv'
  <2> SUFFICES ASSUME PInv, [PatchNext]_patchVars PROVE PInv'
    OBVIOUS
  <2>1. CASE Update
    BY <2>1, BeginStep DEF Update
  <2>2. CASE Initialize
    BY <2>2, BeginStep DEF Initialize
  <2>3. CASE PreflightUpdate
    BY <2>3, PreflightUpdateStep
  <2>4. CASE PreflightInitialize
    BY <2>4, PreflightInitializeStep
  <2>5. CASE StartCommit
    BY <2>5, StartCommitStep
  <2>6. CASE StepCommit
    BY <2>6, StepCommitStep
  <2>7. CASE FinishUpdate
    BY <2>7, FinishUpdateStep
  <2>8. CASE FinishInitialize
    BY <2>8, FinishInitializeStep
  <2>9. CASE Keeps
    BY <2>9, KeepsStep
  <2>10. CASE Trim
    BY <2>10, TrimStep
  <2>11. CASE Plan
    BY <2>11, PlanStep
  <2>12. CASE Grow
    BY <2>12, GrowStep
  <2>13. CASE UNCHANGED patchVars
    BY <2>13, PatchStutterStep
  <2> QED
    BY <2>1, <2>2, <2>3, <2>4, <2>5, <2>6, <2>7, <2>8, <2>9, <2>10, <2>11, <2>12, <2>13
       DEF PatchNext
<1> QED
  BY <1>1, <1>2, PTL DEF PatchSpec

\* An update that returns an error, wherever it failed, has changed no byte,
\* and an initialize that does leaves zeros (traits.rs:643-664), whatever the
\* schema, the patch and the account: past its preflight an update meets no
\* check that can refuse it, and initialize zeroes what it has written.
THEOREM FailedCallLeavesNoTraceAlways == PatchSpec => []FailedCallLeavesNoTrace
<1>1. PInv => FailedCallLeavesNoTrace
  BY DEF PInv, Concluded, FailedCallLeavesNoTrace, Returned
<1> QED
  BY <1>1, PatchInvariance, PTL

\* No commit that the preflight let through fails for want of space, and its
\* length is the one announced: the preflight's sum of edits, the preflight's
\* sum of tails and the offsets of the commit agree for every schema
\* (compact.rs:2056-2063).
THEOREM PreflightIsExactAlways == PatchSpec => []PreflightIsExact
<1>1. PInv => PreflightIsExact
  BY DEF PInv, Committed, PreflightIsExact
<1> QED
  BY <1>1, PatchInvariance, PTL

\* The length that updated_len plans is the one the update needs and returns,
\* however the account was grown, trimmed or called upon since, as long as its
\* value is still the planned one (compact-accounts.md 100-117).
THEOREM PlannedUpdateSucceedsAlways == PatchSpec => []PlannedUpdateSucceeds
<1>1. PInv => PlannedUpdateSucceeds
  BY DEF PInv, Concluded, PlannedUpdateSucceeds, Returned, PlanApplies
<1> QED
  BY <1>1, PatchInvariance, PTL

\* Between calls the account validates at full depth or is zero: no order of
\* calls, errors, growths and trims leaves bytes that no reader accepts.
THEOREM AccountStaysReadableAlways == PatchSpec => []AccountStaysReadable
<1>1. PInv => AccountStaysReadable
  BY DEF PInv
<1> QED
  BY <1>1, PatchInvariance, PTL

-----------------------------------------------------------------------------
(* The value a call stores.                                                *)

\* Accepted bytes are the encoding of a value, and their spare is whatever it is.
LEMMA AcceptedContent ==
    ASSUME NEW n \in Nat, HeaderSize <= n, NEW d \in [0 .. (n - 1) -> Byte],
           WalkTails(d, n, TRUE).ok
    PROVE  /\ \A i \in TailId :
                /\ Admissible(i, ContentOf(d).tails[i])
                /\ TailLen(i, ContentOf(d).tails[i]) = TailOffset(d)[i + 1] - TailOffset(d)[i]
           /\ InlineValid(d) => AdmissibleContent(ContentOf(d))
           /\ ContentLen(ContentOf(d)) = EncodedLen(d)
           /\ EncodedLen(d) \in Nat /\ EncodedLen(d) <= n
           /\ \A a \in 0 .. (EncodedLen(d) - 1) : Encode(ContentOf(d))[a + 1] = d[a]
<1> DEFINE content == ContentOf(d)
<1>1. Places(d, n, TRUE, TailOffset(d))
  BY AcceptedReplay
<1>2. /\ \A i \in TailId :
           /\ Admissible(i, content.tails[i])
           /\ TailLen(i, content.tails[i]) = TailOffset(d)[i + 1] - TailOffset(d)[i]
      /\ ContentLen(content) = EncodedLen(d)
      /\ EncodedLen(d) \in Nat /\ EncodedLen(d) <= n
      /\ Encode(content) = BytesAt(d, 0, EncodedLen(d))
  BY <1>1, ContentEncoded
<1>3. InlineValid(d) => \A a \in DOMAIN content.inline : content.inline[a] \in Inline.ok[a]
  BY DEF InlineValid, ContentOf
<1> HIDE DEF content
<1>4. InlineValid(d) => AdmissibleContent(content)
  BY <1>2, <1>3 DEF AdmissibleContent
<1>5. ASSUME NEW a \in 0 .. (EncodedLen(d) - 1)
      PROVE  Encode(content)[a + 1] = d[a]
  <2>1. a + 1 \in 1 .. EncodedLen(d) /\ 0 + (a + 1) - 1 = a
    BY <1>2
  <2> QED
    BY <1>2, <2>1 DEF BytesAt
<1> QED
  BY <1>2, <1>4, <1>5 DEF content

\* Zeroed storage reads as zero inline bytes and empty tails.
LEMMA ZeroIsBlank ==
    ASSUME NEW n \in Nat, HeaderSize <= n, NEW d \in [0 .. (n - 1) -> Byte],
           \A a \in 0 .. (n - 1) : d[a] = 0
    PROVE  ContentOf(d) = Blank
<1>1. /\ WalkTails(d, n, TRUE).ok
      /\ \A i \in 1 .. (TailCount + 1) : TailOffset(d)[i] = HeaderSize
  BY ZeroStands
<1>2. \A i \in TailId :
        TailLen(i, ContentOf(d).tails[i]) = TailOffset(d)[i + 1] - TailOffset(d)[i]
  BY <1>1, AcceptedContent
<1>3. ASSUME NEW i \in TailId
      PROVE  TailBytes(d, i) = IF Tails[i].opt THEN Absent ELSE Present(<< >>)
  <2>1. /\ i \in 1 .. (TailCount + 1) /\ i + 1 \in 1 .. (TailCount + 1) /\ HeaderSize \in Nat
        /\ Tails[i].opt \in BOOLEAN /\ Tails[i].size \in Nat /\ Tails[i].pfx \in Width
        /\ Slot[i] \in Nat /\ Slot[i] \in 0 .. (n - 1) /\ d[Slot[i]] = 0
        /\ (~Tails[i].opt => Slot[i] + Tails[i].pfx <= n)
    <3>1. /\ Slot[i] \in Nat /\ Slot[i] < HeaderSize /\ HeaderSize \in Nat
          /\ (~Tails[i].opt => Slot[i] + Tails[i].pfx <= HeaderSize)
          /\ Tails[i].opt \in BOOLEAN /\ Tails[i].size \in Nat
          /\ Tails[i].pfx \in Width /\ Tails[i].pfx \in Nat
      BY SchemaFacts, SlotFacts, TailFacts
    <3>2. i \in 1 .. (TailCount + 1) /\ i + 1 \in 1 .. (TailCount + 1)
      BY SchemaFacts
    <3>3. Slot[i] \in 0 .. (n - 1) /\ (~Tails[i].opt => Slot[i] + Tails[i].pfx <= n)
      BY <3>1
    <3> QED
      BY <3>1, <3>2, <3>3
  <2>2. CASE Tails[i].opt
    BY <2>1, <2>2 DEF TailBytes, Absent
  <2>3. CASE ~Tails[i].opt
    <3> DEFINE count == CastPrefix(d, Slot[i], Tails[i].pfx)
               m == count * Tails[i].size
               bytes == [k \in 1 .. m |-> d[TailOffset(d)[i] + k - 1]]
    <3>1. count \in Nat
      BY <2>1, <2>3, CastPrefixNat
    <3>2. m \in Nat
      BY <2>1, <3>1
    <3>3. TailBytes(d, i) = Present(bytes)
      BY <2>3 DEF TailBytes, Present
    <3> HIDE DEF m
    <3>4. Len(bytes) = m
      BY <3>2
    <3>5. TailLen(i, TailBytes(d, i)) = 0
      <4>1. TailOffset(d)[i + 1] - TailOffset(d)[i] = 0
        BY <1>1, <2>1
      <4>2. ContentOf(d).tails[i] = TailBytes(d, i)
        BY DEF ContentOf
      <4> QED
        BY <1>2, <4>1, <4>2
    <3>6. m = 0
      BY <2>3, <3>2, <3>3, <3>4, <3>5 DEF TailLen, Present
    <3>7. bytes = << >>
      BY <3>6
    <3> QED
      BY <2>3, <3>3, <3>7
  <2> QED
    BY <2>2, <2>3
<1>4. ASSUME NEW a \in 0 .. (Inline.size - 1) PROVE d[a] = 0
  <2>1. Inline.size \in Nat /\ Inline.size <= HeaderSize /\ HeaderSize \in Nat
    BY SlotOrder, SchemaFacts, SchemaAssumption, PrefixesAssumption
  <2> QED
    BY <2>1
<1>5. ContentOf(d).inline = Blank.inline
  BY <1>4 DEF ContentOf, Blank, NoPatch
<1>6. ContentOf(d).tails = Blank.tails
  BY <1>3 DEF ContentOf, Blank
<1> QED
  BY <1>5, <1>6 DEF ContentOf, Blank

\* A buffer with spare bytes as a call leaves them is the value stored over
\* what was there.
LEMMA StoredInFull ==
    ASSUME NEW n \in Nat, HeaderSize <= n, NEW d \in [0 .. (n - 1) -> Byte],
           WalkTails(d, n, TRUE).ok, InlineValid(d),
           NEW old \in [0 .. (n - 1) -> Byte],
           \A a \in 0 .. (n - 1) :
               a >= EncodedLen(d) => d[a] = IF a < EncodedLen(old) THEN 0 ELSE old[a]
    PROVE  /\ AdmissibleContent(ContentOf(d))
           /\ EncodedLen(d) = ContentLen(ContentOf(d))
           /\ d = StoredOver(ContentOf(d), old)
<1> DEFINE content == ContentOf(d)
           len == EncodedLen(d)
           bytes == Encode(content)
<1>1. /\ AdmissibleContent(content) /\ ContentLen(content) = len
      /\ len \in Nat /\ len <= n
      /\ \A a \in 0 .. (len - 1) : bytes[a + 1] = d[a]
  BY AcceptedContent
<1> HIDE DEF content, len, bytes
<1>2. ASSUME NEW a \in 0 .. (n - 1)
      PROVE  d[a] = IF a < len THEN bytes[a + 1] ELSE IF a < EncodedLen(old) THEN 0 ELSE old[a]
  <2>1. CASE a < len
    <3>1. a \in 0 .. (len - 1)
      BY <1>1, <2>1
    <3> QED
      BY <1>1, <2>1, <3>1
  <2>2. CASE ~(a < len)
    <3>1. a >= EncodedLen(d)
      BY <1>1, <2>2 DEF len
    <3> QED
      BY <2>2, <3>1
  <2> QED
    BY <2>1, <2>2
<1>3. StoredOver(content, old) =
        [a \in 0 .. (n - 1) |-> IF a < len THEN bytes[a + 1]
                                ELSE IF a < EncodedLen(old) THEN 0 ELSE old[a]]
  BY <1>1 DEF StoredOver, bytes
<1>4. d = StoredOver(content, old)
  BY <1>2, <1>3
<1> QED
  BY <1>1, <1>4 DEF content, len

\* The account a commit of the call starts from.
Opened ==
    IF call.op = "update" THEN call.before ELSE StoredInline(Filled(call.before), call.patch)

\* The edits es, stored over the account `old` of n bytes.
Landed(n, old, es, d) ==
    /\ ContentOf(d) = AppliedTo(ContentOf(old), es)
    /\ \A a \in 0 .. (n - 1) :
         a >= EncodedLen(d) => d[a] = IF a < EncodedLen(old) THEN 0 ELSE old[a]

\* What a call has stored, from its preflight to its return.
Storing ==
    /\ call.stage \in {"commit", "committing"} => entry = Opened
    /\ call.stage = "after" /\ result.ok => Landed(size, Opened, call.patch.tails, data)
    /\ SuccessfulCallStoresValue

\* A call that is refused stores nothing.
LEMMA RefusedStoresNothing ==
    ASSUME NEW outcome, NEW bytes, PInv, Done(outcome, bytes), ~outcome.ok
    PROVE  Storing'
<1>1. call'.stage = "done" /\ call'.outcome = outcome
  BY DEF Done, PInv, CallTyped
<1> QED
  BY <1>1 DEF Storing, SuccessfulCallStoresValue, Returned

\* An update's commit starts from the account the call found ...
LEMMA PreflightUpdateOpens == PInv /\ PreflightUpdate => Storing'
<1> SUFFICES ASSUME PInv, PreflightUpdate PROVE Storing'
  OBVIOUS
<1> DEFINE expected == UpdatedLen(call.patch)
<1>1. call.stage = "preflight" /\ call.op = "update" /\ data = entry /\ data = call.before
  BY DEF PInv, PreflightUpdate, AtRest, Preflighted
<1>2. \/ \E outcome, bytes : Done(outcome, bytes) /\ ~outcome.ok
      \/ /\ call' = [call EXCEPT !.stage = "commit", !.expected = expected.value]
         /\ entry' = entry
  <2>1. ~Err("BufferTooSmall").ok
    BY ErrResult
  <2> HIDE DEF expected
  <2> QED
    BY <2>1 DEF PreflightUpdate, DoneWith, expected
<1>3. CASE \E outcome, bytes : Done(outcome, bytes) /\ ~outcome.ok
  BY <1>3, RefusedStoresNothing
<1>4. CASE call' = [call EXCEPT !.stage = "commit", !.expected = expected.value] /\ entry' = entry
  <2> HIDE DEF expected
  <2>1. call'.stage = "commit" /\ call'.op = call.op /\ call'.before = call.before
    BY <1>4 DEF PInv, CallTyped
  <2> QED
    BY <1>1, <1>4, <2>1 DEF Storing, Opened, SuccessfulCallStoresValue, Returned
<1> QED
  BY <1>2, <1>3, <1>4

\* ... and an initialize's from zeros and its inline fields.
LEMMA PreflightInitializeOpens == PInv /\ PreflightInitialize => Storing'
<1> SUFFICES ASSUME PInv, PreflightInitialize PROVE Storing'
  OBVIOUS
<1> DEFINE expected == InitializedLen(call.patch)
           storage == ValidateStorageLen(size)
<1>1. /\ call.stage = "preflight" /\ call.op = "initialize" /\ data = Filled(data)
      /\ size \in Nat /\ data \in [0 .. (size - 1) -> Byte]
      /\ call.before \in [0 .. (size - 1) -> Byte]
  BY DEF PInv, PreflightInitialize, Preflighted, TypeOK, CallTyped
<1>2. data = Filled(call.before)
  BY <1>1 DEF Filled
<1>3. \/ \E outcome, bytes : Done(outcome, bytes) /\ ~outcome.ok
      \/ /\ call' = [call EXCEPT !.stage = "commit", !.expected = expected.value]
         /\ entry' = StoredInline(data, call.patch)
  <2>1. ~Err("BufferTooSmall").ok
    BY ErrResult
  <2>2. CASE ~storage.ok
    BY <2>2 DEF PreflightInitialize, DoneWith
  <2>3. CASE storage.ok /\ ~expected.ok
    BY <2>3 DEF PreflightInitialize, DoneWith
  <2>4. CASE storage.ok /\ expected.ok
    <3> HIDE DEF expected, storage
    <3> QED
      BY <2>1, <2>4 DEF PreflightInitialize, DoneWith, expected, storage
  <2> QED
    BY <2>2, <2>3, <2>4
<1>4. CASE \E outcome, bytes : Done(outcome, bytes) /\ ~outcome.ok
  BY <1>4, RefusedStoresNothing
<1>5. CASE /\ call' = [call EXCEPT !.stage = "commit", !.expected = expected.value]
           /\ entry' = StoredInline(data, call.patch)
  <2> HIDE DEF expected
  <2>1. /\ call'.stage = "commit" /\ call'.op = call.op /\ call'.before = call.before
        /\ call'.patch = call.patch
    BY <1>5 DEF PInv, CallTyped
  <2> QED
    BY <1>1, <1>2, <1>5, <2>1 DEF Storing, Opened, SuccessfulCallStoresValue, Returned
<1> QED
  BY <1>3, <1>4, <1>5

\* A commit that starts leaves its entry.
LEMMA StartCommitKeeps == PInv /\ Storing /\ StartCommit => Storing'
<1> SUFFICES ASSUME PInv, Storing, StartCommit PROVE Storing'
  OBVIOUS
<1>1. /\ call.stage = "commit" /\ Commit /\ IInv /\ CommitInv
  BY DEF PInv, StartCommit, Underway
<1>2. /\ entry' = data /\ data = entry
      /\ pc' = "setup" \/ (pc' = "idle" /\ result' = Err(Inline.error))
  BY <1>1, EntryCheck DEF PInv, AtRest
<1>3. /\ call'.stage = IF pc' = "idle" THEN "after" ELSE "committing"
      /\ call'.op = call.op /\ call'.patch = call.patch /\ call'.before = call.before
  BY DEF StartCommit, PInv, CallTyped
<1>4. ~Err(Inline.error).ok
  BY DEF Err
<1>5. Opened' = Opened
  BY <1>3 DEF Opened
<1> QED
  BY <1>1, <1>2, <1>3, <1>4, <1>5 DEF Storing, SuccessfulCallStoresValue, Returned

\* The commit leaves its entry until it ends with the edits stored over it.
LEMMA StepCommitLands == PInv /\ Storing /\ StepCommit => Storing'
<1> SUFFICES ASSUME PInv, Storing, StepCommit PROVE Storing'
  OBVIOUS
<1>1. /\ call.stage = "committing" /\ IInv /\ CommitInv /\ Roomy /\ Fit(edits)
      /\ edits = call.patch.tails /\ entry = Opened
  BY DEF PInv, StepCommit, Underway, Roomy, Storing
<1>2. /\ call'.stage = IF pc' = "idle" THEN "after" ELSE "committing"
      /\ call'.op = call.op /\ call'.patch = call.patch /\ call'.before = call.before
  BY DEF StepCommit, PInv, CallTyped
<1>3. Opened' = Opened
  BY <1>2 DEF Opened
<1>4. CASE Setup \/ Check \/ MoveBack \/ MoveForth \/ Write \/ WriteSlot
  <2>1. pc' # "idle" /\ entry' = entry
    BY <1>1, <1>4, SetupSucceeds, CheckSucceeds, LaterSucceeds
  <2> QED
    BY <1>1, <1>2, <1>3, <2>1 DEF Storing, SuccessfulCallStoresValue, Returned
<1>5. CASE Finish
  <2>1. pc' = "idle" /\ UNCHANGED size
    BY <1>5 DEF Finish, Return
  <2>2. ContentOf(data') = AppliedTo(ContentOf(entry), edits) /\ EncodedLen(data') = FinalTotal
    BY <1>1, <1>5, FinishedContent
  <2>3. \A a \in 0 .. (size - 1) : a >= FinalTotal =>
          data'[a] = IF a < totalLen THEN 0 ELSE entry[a]
    BY <1>1, <1>5, FinishZeroes
  <2>4. totalLen = EncodedLen(entry)
    BY <1>1 DEF CommitInv, EntryStands
  <2> DEFINE d == data'
  <2>5. /\ ContentOf(d) = AppliedTo(ContentOf(Opened), call.patch.tails)
        /\ \A a \in 0 .. (size - 1) :
             a >= EncodedLen(d) => d[a] = IF a < EncodedLen(Opened) THEN 0 ELSE Opened[a]
    BY <1>1, <2>2, <2>3, <2>4
  <2> HIDE DEF d
  <2>6. Landed(size, Opened, call.patch.tails, d)
    BY <2>5 DEF Landed
  <2>7. Landed(size', Opened', call'.patch.tails, data')
    BY <1>2, <1>3, <2>1, <2>6 DEF d
  <2>8. call'.stage = "after"
    BY <1>2, <2>1
  <2> QED
    BY <2>7, <2>8 DEF Storing, SuccessfulCallStoresValue, Returned
<1> QED
  BY <1>4, <1>5 DEF StepCommit

\* A value with the inline bytes of p, if p has some.
Inlined(content, p) ==
    [inline |-> IF p.setsInline THEN p.inline ELSE content.inline, tails |-> content.tails]

\* Before the tails or after them, inline bytes are stored on their own.
LEMMA InlineIsPatched ==
    ASSUME NEW n \in Nat, HeaderSize <= n, NEW d \in [0 .. (n - 1) -> Byte],
           WalkTails(d, n, TRUE).ok, NEW p \in Patches
    PROVE  LET e == StoredInline(d, p)
           IN  /\ ContentOf(e) = Inlined(ContentOf(d), p)
               /\ EncodedLen(e) = EncodedLen(d)
               /\ e \in [0 .. (n - 1) -> Byte]
               /\ \A a \in 0 .. (n - 1) : a >= Inline.size => e[a] = d[a]
<1> DEFINE e == StoredInline(d, p)
<1>1. /\ e \in [0 .. (n - 1) -> Byte]
      /\ \A a \in 0 .. (n - 1) : a >= Inline.size => e[a] = d[a]
      /\ ~p.setsInline => e = d
      /\ p.setsInline => \A a \in 0 .. (Inline.size - 1) : e[a] = p.inline[a]
  BY InlineStored
<1>2. p.inline \in [0 .. (Inline.size - 1) -> Byte]
  BY PatchAssumption
<1> HIDE DEF e
<1>3. TailsAlike(d, e)
  BY <1>1, InlineIsNoMatter
<1>4. EncodedLen(e) = EncodedLen(d)
  <2>1. WalkTails(e, n, TRUE).ok /\ EncodedLen(e) = EncodedLen(d)
    BY <1>1, SameOffsets
  <2> QED
    BY <2>1
<1>5. ContentOf(e).inline = IF p.setsInline THEN p.inline ELSE ContentOf(d).inline
  <2>1. CASE p.setsInline
    BY <1>1, <1>2, <2>1 DEF ContentOf
  <2>2. CASE ~p.setsInline
    BY <1>1, <2>2
  <2> QED
    BY <2>1, <2>2
<1>6. ContentOf(e) = [inline |-> ContentOf(e).inline, tails |-> ContentOf(e).tails]
  BY DEF ContentOf
<1>7. ContentOf(e).tails = ContentOf(d).tails
  BY <1>3 DEF TailsAlike
<1>8. ContentOf(e) = Inlined(ContentOf(d), p)
  BY <1>5, <1>6, <1>7 DEF Inlined
<1> QED
  BY <1>1, <1>4, <1>8 DEF e

\* A patch is its inline bytes and its edits, in either order.
LEMMA PatchedIsBoth ==
    ASSUME NEW content, NEW p
    PROVE  /\ Inlined(AppliedTo(content, p.tails), p) = Patched(content, p)
           /\ AppliedTo(Inlined(content, p), p.tails) = Patched(content, p)
  BY DEF Inlined, AppliedTo, Patched

\* A call that returns the value it was to store.
LEMMA ReturnsStored ==
    ASSUME PInv, PInv', call.stage # "none", NEW outcome, NEW bytes, Done(outcome, bytes), outcome.ok,
           NEW found, found = (IF call.op = "update" THEN call.before ELSE Filled(call.before)),
           NEW base, base = (IF call.op = "update" THEN ContentOf(found) ELSE Blank),
           ContentOf(bytes) = Patched(base, call.patch),
           \A a \in 0 .. (size - 1) :
               a >= EncodedLen(bytes) => bytes[a] = IF a < EncodedLen(found) THEN 0 ELSE found[a]
    PROVE  Storing'
<1>1. /\ call' = [stage |-> "done", op |-> call.op, patch |-> call.patch,
                  expected |-> call.expected, outcome |-> outcome, before |-> call.before]
      /\ data' = bytes /\ UNCHANGED size
  BY DEF Done, PInv, CallTyped
<1>2. Validate(bytes, size).ok /\ outcome.value = EncodedLen(bytes)
  <2>1. Concluded' /\ call'.stage = "done" /\ call'.outcome = outcome
    BY <1>1 DEF PInv
  <2>2. Validate(data', size').ok /\ call'.outcome.value = EncodedLen(data')
    BY <2>1 DEF Concluded
  <2> QED
    BY <1>1, <2>2
<1>3. size \in Nat /\ bytes \in [0 .. (size - 1) -> Byte]
  <2>1. TypeOK'
    BY DEF PInv
  <2> QED
    BY <1>1, <2>1 DEF TypeOK
<1>4. HeaderSize <= size /\ InlineValid(bytes) /\ WalkTails(bytes, size, TRUE).ok
  BY <1>2, <1>3, ValidAccount
<1>5. found \in [0 .. (size - 1) -> Byte] /\ call.op \in {"update", "initialize"}
  <2>1. call.before \in [0 .. (size - 1) -> Byte] /\ call.op \in {"update", "initialize"}
    BY DEF PInv, CallTyped
  <2> QED
    BY <1>3, <2>1, FilledBytes
<1>6. /\ AdmissibleContent(ContentOf(bytes))
      /\ EncodedLen(bytes) = ContentLen(ContentOf(bytes))
      /\ bytes = StoredOver(ContentOf(bytes), found)
  BY <1>3, <1>4, <1>5, StoredInFull
<1> DEFINE after == Patched(base, call.patch)
<1>7. /\ AdmissibleContent(after) /\ bytes = StoredOver(after, found)
      /\ outcome.value = ContentLen(after)
  BY <1>2, <1>6
<1>8. /\ call'.stage = "done" /\ call'.outcome = outcome /\ call'.patch = call.patch
      /\ call'.op = call.op /\ call'.before = call.before
  BY <1>1
<1>9. SuccessfulCallStoresValue'
  <2>1. CASE call.op = "update"
    <3>1. found = call'.before /\ base = ContentOf(found)
      BY <1>8, <2>1
    <3> QED
      BY <1>1, <1>7, <1>8, <2>1, <3>1 DEF SuccessfulCallStoresValue, Returned
  <2>2. CASE call.op = "initialize"
    <3>1. found = Filled(call'.before) /\ base = Blank
      BY <1>8, <2>2
    <3> QED
      BY <1>1, <1>7, <1>8, <2>2, <3>1 DEF SuccessfulCallStoresValue, Returned
  <2> QED
    BY <1>5, <2>1, <2>2
<1> QED
  BY <1>8, <1>9 DEF Storing

\* The spare bytes of an account lie behind its inline bytes.
LEMMA SpareIsBehindInline ==
    ASSUME NEW n \in Nat, HeaderSize <= n, NEW d \in [0 .. (n - 1) -> Byte],
           WalkTails(d, n, TRUE).ok, NEW a \in Nat, a >= EncodedLen(d)
    PROVE  a >= Inline.size
<1> DEFINE f == TailOffset(d)
           full == TRUE
<1>1. TailCount + 1 \in 1 .. (TailCount + 1) /\ full \in BOOLEAN
  BY SchemaFacts
<1>2. WalkTails(d, n, full).ok
  OBVIOUS
<1> HIDE DEF full
<1>3. \A i \in 1 .. (TailCount + 1) : TailOffset(d)[i] \in Nat /\ HeaderSize <= TailOffset(d)[i]
  BY <1>1, <1>2, AcceptedReplay
<1>4. HeaderSize <= EncodedLen(d) /\ EncodedLen(d) \in Nat
  BY <1>1, <1>3 DEF EncodedLen
<1>5. Inline.size \in Nat /\ HeaderSize \in Nat /\ Inline.size <= HeaderSize
  BY SlotOrder, SchemaFacts, SchemaAssumption, PrefixesAssumption
<1> QED
  BY <1>4, <1>5

\* An update stores its inline bytes into what its commit stored.
LEMMA FinishUpdateStores == PInv /\ PInv' /\ Storing /\ FinishUpdate => Storing'
<1> SUFFICES ASSUME PInv, PInv', Storing, FinishUpdate PROVE Storing'
  OBVIOUS
<1> DEFINE p == call.patch
           found == call.before
           bytes == StoredInline(data, p)
           outcome == Ok(result.value)
           base == ContentOf(found)
<1>1. /\ call.stage = "after" /\ call.op = "update" /\ data = entry
      /\ p \in Patches /\ result.ok /\ EntryStands
      /\ size \in Nat /\ data \in [0 .. (size - 1) -> Byte] /\ TypeOK
      /\ call.expected = result.value
  BY DEF PInv, FinishUpdate, AtRest, Committed, CallTyped, TypeOK
<1>2. Done(outcome, bytes) /\ outcome.ok
  BY <1>1 DEF FinishUpdate, Agreed, Ok
<1>3. HeaderSize <= size /\ WalkTails(data, size, TRUE).ok
  BY <1>1, StorageLen DEF EntryStands
<1>4. /\ ContentOf(data) = AppliedTo(base, p.tails)
      /\ \A a \in 0 .. (size - 1) :
           a >= EncodedLen(data) => data[a] = IF a < EncodedLen(found) THEN 0 ELSE found[a]
  BY <1>1 DEF Storing, Landed, Opened
<1> HIDE DEF p, bytes, outcome, base, found
<1>5. /\ ContentOf(bytes) = Inlined(ContentOf(data), p)
      /\ EncodedLen(bytes) = EncodedLen(data)
      /\ \A a \in 0 .. (size - 1) : a >= Inline.size => bytes[a] = data[a]
  BY <1>1, <1>3, InlineIsPatched DEF bytes
<1>6. ContentOf(bytes) = Patched(base, p)
  BY <1>4, <1>5, PatchedIsBoth
<1>7. ASSUME NEW a \in 0 .. (size - 1), a >= EncodedLen(bytes)
      PROVE  bytes[a] = IF a < EncodedLen(found) THEN 0 ELSE found[a]
  <2>1. a >= EncodedLen(data) /\ a \in Nat
    BY <1>5, <1>7
  <2>2. a >= Inline.size
    BY <1>1, <1>3, <2>1, SpareIsBehindInline
  <2> QED
    BY <1>4, <1>5, <2>1, <2>2
<1>8. /\ found = (IF call.op = "update" THEN call.before ELSE Filled(call.before))
      /\ base = (IF call.op = "update" THEN ContentOf(found) ELSE Blank)
  BY <1>1 DEF found, base
<1>9. ContentOf(bytes) = Patched(base, call.patch) /\ call.stage # "none"
  BY <1>1, <1>6 DEF p
<1> QED
  BY <1>2, <1>7, <1>8, <1>9, ReturnsStored

\* An initialize that returns a length leaves what its commit stored.
LEMMA FinishInitializeStores == PInv /\ PInv' /\ Storing /\ FinishInitialize => Storing'
<1> SUFFICES ASSUME PInv, PInv', Storing, FinishInitialize PROVE Storing'
  OBVIOUS
<1> DEFINE p == call.patch
           found == Filled(call.before)
           opened == StoredInline(found, p)
           used == [a \in 0 .. (result.value - 1) |-> data[a]]
           checked == Validate(used, result.value)
           outcome == IF checked.ok THEN Agreed(result.value) ELSE checked
<1>1. /\ call.stage = "after" /\ call.op = "initialize" /\ data = entry
      /\ p \in Patches /\ TypeOK /\ call.before \in [0 .. (size - 1) -> Byte]
      /\ size \in Nat /\ data \in [0 .. (size - 1) -> Byte]
      /\ result.ok => EntryStands
  BY DEF PInv, FinishInitialize, AtRest, Committed, CallTyped, TypeOK
<1>2. CASE ~result.ok
  <2>1. Done(result, Filled(data))
    BY <1>1, <1>2 DEF FinishInitialize, DoneWith
  <2> QED
    BY <1>2, <2>1, RefusedStoresNothing
<1>3. CASE result.ok
  <2>1. DoneWith(outcome)
    BY <1>1, <1>3 DEF FinishInitialize
  <2> HIDE DEF outcome
  <2>2. CASE ~outcome.ok
    <3>1. Done(outcome, Filled(data))
      BY <1>1, <2>1, <2>2 DEF DoneWith
    <3> QED
      BY <2>2, <3>1, RefusedStoresNothing
  <2>3. CASE outcome.ok
    <3>1. Done(outcome, data)
      BY <2>1, <2>3 DEF DoneWith
    <3>2. HeaderSize <= size /\ WalkTails(data, size, TRUE).ok
      BY <1>1, <1>3, StorageLen DEF EntryStands
    <3>3. /\ ContentOf(data) = AppliedTo(ContentOf(opened), p.tails)
          /\ \A a \in 0 .. (size - 1) :
               a >= EncodedLen(data) => data[a] = IF a < EncodedLen(opened) THEN 0 ELSE opened[a]
      BY <1>1, <1>3 DEF Storing, Landed, Opened
    <3>4. /\ found \in [0 .. (size - 1) -> Byte]
          /\ \A a \in 0 .. (size - 1) : found[a] = 0
      BY <1>1, FilledBytes
    <3> HIDE DEF p, found, opened
    <3>5. WalkTails(found, size, TRUE).ok /\ ContentOf(found) = Blank
      BY <1>1, <3>2, <3>4, ZeroStands, ZeroIsBlank
    <3>6. /\ ContentOf(opened) = Inlined(ContentOf(found), p)
          /\ EncodedLen(opened) = EncodedLen(found)
          /\ \A a \in 0 .. (size - 1) : a >= Inline.size => opened[a] = found[a]
      BY <1>1, <3>2, <3>4, <3>5, InlineIsPatched DEF opened
    <3>7. ContentOf(data) = Patched(Blank, p)
      BY <3>3, <3>5, <3>6, PatchedIsBoth
    <3>8. ASSUME NEW a \in 0 .. (size - 1), a >= EncodedLen(data)
          PROVE  data[a] = IF a < EncodedLen(found) THEN 0 ELSE found[a]
      <4>1. a \in Nat
        BY <3>8
      <4>2. a >= Inline.size
        BY <1>1, <3>2, <3>8, <4>1, SpareIsBehindInline
      <4> QED
        BY <3>3, <3>6, <3>8, <4>2
    <3> DEFINE base == Blank
    <3>9. /\ found = (IF call.op = "update" THEN call.before ELSE Filled(call.before))
          /\ base = (IF call.op = "update" THEN ContentOf(found) ELSE Blank)
      BY <1>1 DEF found
    <3>10. ContentOf(data) = Patched(base, call.patch) /\ call.stage # "none"
      BY <1>1, <3>7 DEF p
    <3> HIDE DEF base
    <3> QED
      BY <2>3, <3>1, <3>8, <3>9, <3>10, ReturnsStored
  <2> QED
    BY <2>2, <2>3
<1> QED
  BY <1>2, <1>3

\* A call that succeeds has stored the patched value, and that value only: the
\* account reads back as the old value (a blank one, for initialize) with the
\* patch's fields in place, in the bytes of its one encoding, over zeros to the
\* end of what was there (compact.rs:2040-2121).
THEOREM SuccessfulCallStoresValueAlways == PatchSpec => []SuccessfulCallStoresValue
<1>1. PatchInit => Storing
  BY DEF PatchInit, NoCall, Storing, SuccessfulCallStoresValue, Returned
<1>2. PInv /\ PInv' /\ Storing /\ [PatchNext]_patchVars => Storing'
  <2> SUFFICES ASSUME PInv, PInv', Storing, [PatchNext]_patchVars PROVE Storing'
    OBVIOUS
  <2>1. CASE Update \/ Initialize
    <3>1. call'.stage = "preflight"
      BY <2>1 DEF Update, Initialize, Begin
    <3> QED
      BY <3>1 DEF Storing, SuccessfulCallStoresValue, Returned
  <2>2. CASE PreflightUpdate
    BY <2>2, PreflightUpdateOpens
  <2>3. CASE PreflightInitialize
    BY <2>3, PreflightInitializeOpens
  <2>4. CASE StartCommit
    BY <2>4, StartCommitKeeps
  <2>5. CASE StepCommit
    BY <2>5, StepCommitLands
  <2>6. CASE FinishUpdate
    BY <2>6, FinishUpdateStores
  <2>7. CASE FinishInitialize
    BY <2>7, FinishInitializeStores
  <2>8. CASE Keeps \/ Trim \/ Plan \/ Grow
    <3>1. call'.stage = "none"
      BY <2>8 DEF Keeps, Trim, Release, Plan, Grow, Idle, NoCall
    <3> QED
      BY <3>1 DEF Storing, SuccessfulCallStoresValue, Returned
  <2>9. CASE UNCHANGED patchVars
    <3>1. UNCHANGED <<call, entry, result, size, data>>
      BY <2>9 DEF patchVars, vars
    <3>2. Opened' = Opened
      BY <3>1 DEF Opened
    <3> QED
      BY <3>1, <3>2 DEF Storing, SuccessfulCallStoresValue, Returned
  <2> QED
    BY <2>1, <2>2, <2>3, <2>4, <2>5, <2>6, <2>7, <2>8, <2>9 DEF PatchNext
<1>3. Storing => SuccessfulCallStoresValue
  BY DEF Storing
<1> QED
  BY <1>1, <1>2, <1>3, PatchInvariance, PTL DEF PatchSpec
===============================================================================
