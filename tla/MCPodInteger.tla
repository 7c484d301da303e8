---------------------------- MODULE MCPodInteger ----------------------------
(***************************************************************************)
(* A signed pod of two bytes of four values: -8 to 7.                      *)
(***************************************************************************)
EXTENDS PodInteger
=============================================================================
