------------------------------ MODULE MCPodOption ------------------------------
(***************************************************************************)
(* PodOption on two options over arbitrary bytes: tags 0 and 1 and two     *)
(* corrupt ones, payloads zero, valid and invalid.                         *)
(***************************************************************************)
EXTENDS PodOption

CONSTANTS a, b

MCCell == {a, b}
MCPayload == 0 .. 2
MCLegal == {0, 1}
=============================================================================
