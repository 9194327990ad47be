---------------------------- MODULE MCChainstate ----------------------------
(***************************************************************************)
(* Two branches from the genesis block, A1-A2-A3 and B1-B2, so that there  *)
(* are ties at two heights and a longer branch; the long tree has one more *)
(* block A4, so that a header can arrive two blocks above an invalid one.  *)
(* The third tree has two branches from A1.                                *)
(***************************************************************************)
EXTENDS Chainstate

CONSTANTS A1, A2, A3, A4, B1, B2

MCBlocks == {A1, A2, A3, B1, B2}
MCLongBlocks == {A1, A2, A3, A4, B1, B2}
MCParent == [b \in Blocks |-> CASE b = A2 -> A1 [] b = A3 -> A2 [] b = A4 -> A3 [] b = B2 -> B1
                                [] OTHER -> Genesis]
MCForkBlocks == {A1, A2, B2}
MCForkParent == [b \in Blocks |-> IF b = A1 THEN Genesis ELSE A1]
MCAddr == [b \in Tree |-> CASE b = Genesis -> 0 [] b = A1 -> 1 [] b = A2 -> 2 [] b = A3 -> 3
                             [] b = B1 -> 4 [] b = B2 -> 5 [] b = A4 -> 6]
=============================================================================
