------------------------------ MODULE MCCompactEnum ----------------------------
(***************************************************************************)
(* A unit variant, a vector of two-byte elements whose count can exceed    *)
(* usize, a fixed value and a string; zero is no discriminant.             *)
(***************************************************************************)
EXTENDS CompactEnum

Fixed(n) == [dynamic |-> FALSE, max |-> 0, pfx |-> 1, size |-> n,
             ok |-> {1, 2}, error |-> "InvalidBool"]

MCVariants ==
    << Fixed(0),
       [dynamic |-> TRUE, max |-> 2, pfx |-> 2, size |-> 2, ok |-> {0, 1, 2},
        error |-> "InvalidTag"],
       Fixed(2),
       [dynamic |-> TRUE, max |-> 2, pfx |-> 1, size |-> 1, ok |-> {1, 2, 3},
        error |-> "InvalidUtf8"] >>

\* Every content of up to three bytes and vectors of up to one element; the
\* longest value, an overlong count and values with bytes after them in accounts
\* up to one byte too large.
MCAccounts ==
    UNION {[1 .. n -> Byte] : n \in 0 .. 3}
    \cup {<<2>> \o rest : rest \in [1 .. 4 -> {0, 1, 4}]}
    \cup {<<2, 2, 0, 1, 2, 1, 2>>, <<2, 4, 4, 1, 2, 1, 2>>, <<3, 1, 2, 4, 4, 4, 4>>,
          <<4, 2, 0, 1, 3, 3, 0>>, <<1, 4, 0, 0, 0, 0, 4>>, <<2, 2, 0, 1, 2, 1, 2, 0>>}

\* Every variant at its smallest and largest; a vector and a string one element
\* too long, and payloads with an invalid byte.
MCPatches ==
    {[tag |-> 1, bytes |-> << >>],
     [tag |-> 2, bytes |-> << >>],
     [tag |-> 2, bytes |-> <<1, 1>>],
     [tag |-> 2, bytes |-> <<2, 0, 2, 1>>],
     [tag |-> 2, bytes |-> <<1, 1, 1, 1, 1, 1>>],
     [tag |-> 2, bytes |-> <<1, 4>>],
     [tag |-> 3, bytes |-> <<2, 1>>],
     [tag |-> 3, bytes |-> <<2, 0>>],
     [tag |-> 4, bytes |-> << >>],
     [tag |-> 4, bytes |-> <<3, 1>>],
     [tag |-> 4, bytes |-> <<1, 1, 1>>]}
=============================================================================
