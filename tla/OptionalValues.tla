------------------------------ MODULE OptionalValues ---------------------------
(***************************************************************************)
(* What PodOptions promise: each cell holds one value or none, and every   *)
(* call changes one cell as its method says and answers what the method    *)
(* returns.  `reply` says which call that was, so that an answer can be    *)
(* judged against what was asked.                                          *)
(***************************************************************************)
CONSTANTS Cell, Value, Given   \* cells, what they may start with, what is passed in

VARIABLES
    held,   \* held[c]: << >>, or <<v>>
    reply   \* the last call, and what it returned

vars == <<held, reply>>

\* A call of `method` on the option c with the argument `given` (an option)
\* returned `result`: an option, and << >> from a method that returns nothing.
Reply(method, c, given, result) ==
    [method |-> method, cell |-> c, given |-> given, result |-> result]

NoReply == [method |-> "none"]

Init ==
    /\ held \in [Cell -> {<< >>} \cup {<<v>> : v \in Value}]
    /\ reply = NoReply

Put(c, option) == held' = [held EXCEPT ![c] = option]

Set(c, option) == Put(c, option) /\ reply' = Reply("set", c, option, << >>)

Clear(c) == Put(c, << >>) /\ reply' = Reply("clear", c, << >>, << >>)

\* take and replace return what the cell held.
Take(c) == Put(c, << >>) /\ reply' = Reply("take", c, << >>, held[c])

Replace(c, v) == Put(c, <<v>>) /\ reply' = Reply("replace", c, <<v>>, held[c])

Next ==
    \E c \in Cell :
        \/ \E option \in {<< >>} \cup {<<v>> : v \in Given} : Set(c, option)
        \/ \E v \in Given : Replace(c, v)
        \/ Clear(c)
        \/ Take(c)

Spec == Init /\ [][Next]_vars
=============================================================================
