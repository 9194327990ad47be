---------------------------- MODULE MCChainFlush ----------------------------
(***************************************************************************)
(* A tree with a common block C and two branches A1 and B1-B2.  The        *)
(* transaction spending p into r is in A1 and again in B2, one block       *)
(* higher, where r is spent in the same block.                             *)
(***************************************************************************)
EXTENDS ChainFlush

CONSTANTS C, A1, B1, B2, p, q, r, s

Tx(ins, outs) == [ins |-> ins, outs |-> outs]

MCBlocks == {C, A1, B1, B2}
MCOutPoints == {p, q, r, s}
MCParent == [b \in MCBlocks |-> CASE b = C -> Genesis [] b = B2 -> B1 [] OTHER -> C]
MCVtx == [b \in MCBlocks |->
  CASE b = C  -> <<Tx({}, {p, q})>>
    [] b = A1 -> <<Tx({}, {}), Tx({p}, {r})>>
    [] b = B1 -> <<Tx({}, {s}), Tx({q}, {})>>
    [] b = B2 -> <<Tx({}, {}), Tx({p}, {r}), Tx({r, s}, {})>>]
=============================================================================
