--------------------------- MODULE MCFixedSchema ---------------------------
(***************************************************************************)
(* struct S { head: Head, pair: [Mode; 2], note: Option<Vec<u8, 1>> } with *)
(* struct Head { mode: Mode, on: bool } and an enum Mode whose variants    *)
(* are 1 and 2, so that zero bytes are no S.  Accounts: every head and     *)
(* pair with each of seven notes, one too short, and ones with a byte      *)
(* behind the value.                                                       *)
(***************************************************************************)
EXTENDS FixedSchema

MCCell == 0 .. 2
Of(kind, of, n, named) == [kind |-> kind, of |-> of, n |-> n, named |-> named]
MCType == <<
    Of("int", << >>, 0, {}),
    Of("bool", << >>, 0, {}),
    Of("enum", << >>, 0, {1, 2}),
    Of("vec", <<1>>, 1, {}),
    Of("opt", <<4>>, 0, {}),
    Of("array", <<3>>, 2, {}),
    Of("struct", <<3, 2>>, 0, {}),
    Of("struct", <<7, 6, 5>>, 0, {}) >>
\* A note: absent with and without old payload bytes, empty with and without
\* old bytes, full, with a corrupt tag, and with a count above the capacity.
MCNotes == {<<0, 0, 0>>, <<0, 1, 2>>, <<1, 0, 0>>, <<1, 0, 2>>,
            <<1, 1, 0>>, <<2, 1, 1>>, <<1, 2, 0>>}
MCAccounts ==
    {<<m, b, p, q>> \o note : m, b, p, q \in MCCell, note \in MCNotes}
      \cup {[i \in 1 .. 6 |-> 1]}
      \cup {<<m, b, 1, p, t, 1, v, 1>> : m, b, p, t, v \in MCCell}
=============================================================================
