-------------------------------- MODULE MCPodVec -------------------------------
(***************************************************************************)
(* Three slots of a type with two valid bit patterns, zero among them, and *)
(* an invalid one; a prefix that can exceed the capacity and even usize;   *)
(* input slices up to one element longer than the container.               *)
(***************************************************************************)
EXTENDS PodVec
=============================================================================
