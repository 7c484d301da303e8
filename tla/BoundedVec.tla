------------------------------- MODULE BoundedVec ------------------------------
(***************************************************************************)
(* What a PodVec promises, without a prefix or slots: a sequence of at     *)
(* most N elements.  A write is refused when it does not fit, and only     *)
(* then, and changes nothing; a removal returns the element it removes,    *)
(* and none only where there is none; a filter whose predicate panics      *)
(* loses no element it was not told to drop.  `reply` says which call that *)
(* was and with what, so that its effect and its answer can be judged.     *)
(***************************************************************************)
EXTENDS Integers, Sequences, FiniteSets

CONSTANTS
    N,        \* capacity
    Elem,     \* what the container may start with
    Given,    \* what is passed in
    MaxInput  \* elements of an input slice

VARIABLES
    seq,   \* the active elements
    reply  \* the last call, and what it returned

vars == <<seq, reply>>

None == <<"none">>
Done == <<"ok">>
Some(v) == <<"some", v>>
Overflow == <<"Overflow">>
Panicked == <<"panicked">>

\* A call of `method` with the arguments `given` returned `result`.
Reply(method, given, result) == <<method, given, result>>

NoReply == <<"no call">>
Pending == <<"retain runs">>
Filtering == reply = Pending

\* The elements of s at the positions K, in order.
Picked(s, K) ==
    [i \in 1 .. Cardinality(K) |->
        s[CHOOSE k \in K : Cardinality({j \in K : j <= k}) = i]]

Init ==
    /\ seq \in UNION {[1 .. n -> Elem] : n \in 0 .. N}
    /\ reply = NoReply

Returns(s, answer) == seq' = s /\ reply' = answer

-----------------------------------------------------------------------------

\* `s` is stored if it fits.
Write(method, given, s) ==
    /\ ~Filtering
    /\ IF Len(s) <= N
       THEN Returns(s, Reply(method, given, Done))
       ELSE Returns(seq, Reply(method, given, Overflow))

TryPush(v) == Write("try_push", <<v>>, Append(seq, v))
TryExtend(values) == Write("try_extend", values, seq \o values)
TrySet(values) == Write("try_set", values, values)

\* Indexes count from 0.
Assign(index, v) ==
    /\ ~Filtering
    /\ index < Len(seq)
    /\ Returns([seq EXCEPT ![index + 1] = v], Reply("assign", <<index, v>>, Done))

\* `rest` is what is left without the element at `index`, if there is one.
Withdraw(method, given, index, rest) ==
    /\ ~Filtering
    /\ IF index \in 0 .. Len(seq) - 1
       THEN Returns(rest, Reply(method, given, Some(seq[index + 1])))
       ELSE Returns(seq, Reply(method, given, None))

Pop ==
    Withdraw("pop", << >>, Len(seq) - 1, SubSeq(seq, 1, Len(seq) - 1))

\* The others stay in order.
Remove(index) ==
    Withdraw("remove", <<index>>, index, Picked(seq, DOMAIN seq \ {index + 1}))

\* The last element takes the place of the removed one.
SwapRemove(index) ==
    Withdraw("swap_remove", <<index>>, index,
             [k \in 1 .. Len(seq) - 1 |->
                 IF k = index + 1 THEN seq[Len(seq)] ELSE seq[k]])

Truncate(n) ==
    /\ ~Filtering
    /\ Returns(SubSeq(seq, 1, IF n < Len(seq) THEN n ELSE Len(seq)),
               Reply("truncate", <<n>>, Done))

Clear ==
    /\ ~Filtering
    /\ Returns(<< >>, Reply("clear", << >>, Done))

-----------------------------------------------------------------------------
(* A filter: the program's predicate runs while the call is pending.       *)

Retain ==
    /\ ~Filtering
    /\ Returns(seq, Pending)

\* The predicate kept the positions K and dropped all the others.
Filter(K) ==
    /\ Filtering
    /\ Returns(Picked(seq, K), Reply("retain", <<Len(seq), K>>, Done))

\* The predicate kept K and dropped the others of the first j elements, then
\* panicked: the kept ones come first, and from there on nothing has moved.
Unwind(j, K) ==
    /\ Filtering
    /\ Returns(Picked(seq, K) \o SubSeq(seq, Cardinality(K) + 1, Len(seq)),
               Reply("retain", <<j, K>>, Panicked))

-----------------------------------------------------------------------------

Inputs == UNION {[1 .. n -> Given] : n \in 0 .. MaxInput}

Next ==
    \/ \E v \in Given : TryPush(v)
    \/ \E values \in Inputs : TryExtend(values) \/ TrySet(values)
    \/ \E index \in 0 .. N - 1, v \in Given : Assign(index, v)
    \/ Pop
    \/ \E index \in 0 .. N : Remove(index) \/ SwapRemove(index)
    \/ \E n \in 0 .. N : Truncate(n)
    \/ Clear
    \/ Retain
    \/ \E K \in SUBSET DOMAIN seq : Filter(K)
    \/ \E j \in 0 .. Len(seq) - 1 : \E K \in SUBSET (1 .. j) : Unwind(j, K)

Spec == Init /\ [][Next]_vars
=============================================================================
