----------------------------- MODULE MCMempool -----------------------------
(***************************************************************************)
(* The root block confirms f.  p and u spend the same output of f, q and r *)
(* the same output of p, s and w outputs of q (s also one of p), i the     *)
(* coinbase of A1, z outputs of p and of n, which policy keeps out of the  *)
(* pool.  A1 confirms p and n, A2 q and w, B1 p as well, B2 r, C2 u.       *)
(***************************************************************************)
EXTENDS Mempool, TLC

CONSTANTS f, p, q, r, s, u, w, i, n, z, ca, A1, A2, B1, B2, C1, C2, C3

MCTxs == {f, p, q, r, s, u, w, i, n, z, ca}
MCCoinbases == {ca}
MCVin == (f :> {}) @@ (ca :> {}) @@ (p :> {<<f, 0>>}) @@ (u :> {<<f, 0>>}) @@ (q :> {<<p, 0>>})
         @@ (r :> {<<p, 0>>}) @@ (s :> {<<q, 0>>, <<p, 1>>}) @@ (w :> {<<q, 1>>}) @@ (i :> {<<ca, 0>>})
         @@ (n :> {<<f, 1>>}) @@ (z :> {<<n, 0>>, <<p, 2>>})
MCOutPoints == UNION {MCVin[t] : t \in MCTxs}
MCCreator == [o \in MCOutPoints |-> o[1]]
MCSize == [t \in MCTxs |-> IF t = s THEN 2 ELSE 1]
MCFee == [t \in MCTxs |-> CASE t = p -> 2 [] t = q -> 1 [] t = r -> 5 [] t = s -> 1 [] t = u -> 6 [] t = w -> 4 [] OTHER -> 3]
MCLockTime == [t \in MCTxs |-> IF t = s THEN 1 ELSE 0]
MCRelLock == [t \in MCTxs |-> CASE t = q -> 0 [] t = r -> 1 [] OTHER -> Disabled]
MCDeltas == {1, -2}
MCBlocks == {A1, A2, B1, B2, C1, C2, C3}
MCParent == (A1 :> Genesis) @@ (A2 :> A1) @@ (B1 :> Genesis) @@ (B2 :> B1) @@ (C1 :> Genesis) @@ (C2 :> C1) @@ (C3 :> C2)
MCBlockTxs == (Genesis :> <<f>>) @@ (A1 :> <<ca, p, n>>) @@ (A2 :> <<q, w>>) @@ (B1 :> <<p>>) @@ (B2 :> <<r>>)
              @@ (C1 :> <<>>) @@ (C2 :> <<u>>) @@ (C3 :> <<>>)
=============================================================================
