---------------------------- MODULE MCCoinsCache ----------------------------
(***************************************************************************)
(* Two outpoints, so that one entry can be flushed, uncached or spent      *)
(* while the other is in any other state; two spendable coins, so that a   *)
(* stale value differs from the current one; one unspendable coin; two     *)
(* block hashes, so that a stale best block differs from the current one.  *)
(***************************************************************************)
EXTENDS CoinsCache
=============================================================================
