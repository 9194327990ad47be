-------------------------- MODULE MCBlockDownload --------------------------
(***************************************************************************)
(* A chain of three blocks and an invalid block with a child beside it; a  *)
(* punctual outbound peer with the chain and an outbound peer that offers  *)
(* both branches and may keep back what it promised.                       *)
(***************************************************************************)
EXTENDS BlockDownload

CONSTANTS A1, A2, A3, B1, B2, Good, Slow

MCBlocks == {A1, A2, A3, B1, B2}
MCParent == [b \in Blocks |-> CASE b = A2 -> A1 [] b = A3 -> A2 [] b = B2 -> B1 [] OTHER -> Genesis]
MCOffers == [p \in Peers |-> IF p = Good THEN {A3} ELSE {A1, B2}]
=============================================================================
