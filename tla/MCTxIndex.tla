------------------------------ MODULE MCTxIndex ------------------------------
(***************************************************************************)
(* Two branches on the genesis block, the second one longer, so that       *)
(* reorganisations connect several blocks in one step.                     *)
(***************************************************************************)
EXTENDS TxIndex

CONSTANTS g, a1, a2, b1, b2

MCParent == [x \in Blocks |-> CASE x = a2 -> a1 [] x = b2 -> b1 [] OTHER -> g]
MCHeight == [x \in Blocks |-> CASE x = g -> 0 [] x \in {a1, b1} -> 1 [] OTHER -> 2]
MCAncestors == [x \in Blocks |-> {g, MCParent[x], x}]
=============================================================================
