------------------------------- MODULE MCPodCodec ------------------------------
(***************************************************************************)
(* Two elements, a byte that is no bool and no tag, prefixes above the     *)
(* capacity and above usize, and padding of more than one chunk.  In texts *)
(* the bytes 0 and 1 are characters, and two bytes 2 are one.              *)
(***************************************************************************)
EXTENDS PodCodec

MCTexts == UNION {[1 .. n -> {0, 1}] : n \in 0 .. 3} \cup {<<2, 2>>, <<2, 2, 0>>, <<2, 2, 1>>, <<0, 2, 2>>, <<1, 2, 2>>}
=============================================================================
