----------------------------- MODULE CoinsView -----------------------------
(***************************************************************************)
(* What a stack of coin views promises, with no cache in sight: three      *)
(* plain maps from outpoints to coins (the chainstate database, pcoinsTip  *)
(* and the scratch view of one block), each with the hash of the block it  *)
(* stands for.  CoinsCache is shown to implement this specification.       *)
(***************************************************************************)

CONSTANTS OutPoints,   \* the outpoints (txid, index)
          Coins,       \* unspent coins
          Spent,       \* the coin an outpoint has when it is not unspent
          Blocks,      \* block hashes
          NullHash     \* uint256() : no best block yet

VARIABLES dbCoins, dbBest,      \* CCoinsViewDB
          tipCoins, tipBest,    \* pcoinsTip
          viewCoins, viewBest   \* the view of the block being (dis)connected

viewsVars == <<dbCoins, dbBest, tipCoins, tipBest, viewCoins, viewBest>>

Init ==
    /\ dbCoins = [o \in OutPoints |-> Spent]
    /\ tipCoins = dbCoins
    /\ viewCoins = dbCoins
    /\ dbBest = NullHash
    /\ tipBest = NullHash
    /\ viewBest = NullHash

\* Write one outpoint of the scratch view: c = Spent spends it.
Put(o, c) ==
    /\ viewCoins' = [viewCoins EXCEPT ![o] = c]
    /\ UNCHANGED <<dbCoins, dbBest, tipCoins, tipBest, viewBest>>

SetBest(b) ==
    /\ viewBest' = b
    /\ UNCHANGED <<dbCoins, dbBest, tipCoins, tipBest, viewCoins>>

\* The scratch view becomes the tip, coins and best block together.
Commit ==
    /\ tipCoins' = viewCoins
    /\ tipBest' = viewBest
    /\ UNCHANGED <<dbCoins, dbBest, viewCoins, viewBest>>

\* The scratch view is dropped: the next one starts from the tip.
Abandon ==
    /\ viewCoins' = tipCoins
    /\ viewBest' = tipBest
    /\ UNCHANGED <<dbCoins, dbBest, tipCoins, tipBest>>

\* The tip reaches the database, coins and best block together.
Persist ==
    /\ dbCoins' = tipCoins
    /\ dbBest' = tipBest
    /\ UNCHANGED <<tipCoins, tipBest, viewCoins, viewBest>>

Next ==
    \/ \E o \in OutPoints, c \in Coins \cup {Spent} : Put(o, c)
    \/ \E b \in Blocks : SetBest(b)
    \/ Commit
    \/ Abandon
    \/ Persist

Spec == Init /\ [][Next]_viewsVars
=============================================================================
