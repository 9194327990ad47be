------------------------------ MODULE Mempool ------------------------------
(***************************************************************************)
(* CTxMemPool and what ActivateBestChainStep, InvalidateBlock and          *)
(* AcceptToMemoryPool do with it.  Every entry carries the count, size and *)
(* fees of its in-pool ancestors and descendants, kept incrementally       *)
(* through links between entries.  During a reorganisation the pool is     *)
(* inconsistent on purpose: a transaction comes back from a block without  *)
(* being linked to the children it already has in the pool.                *)
(*                                                                         *)
(* cs_main is held from the first to the last step of a reorganisation,    *)
(* pool.cs only within a step, so that the thread that loads the saved     *)
(* pool, which prioritises transactions without cs_main, can get between   *)
(* two steps.  A loop that holds pool.cs throughout is a sequence of steps *)
(* between which it cannot.                                                *)
(***************************************************************************)
EXTENDS Integers, Sequences, FiniteSets, FiniteSetsExt

CONSTANTS
  Txs, Coinbases,
  OutPoints,
  Creator,          \* the transaction an outpoint is an output of
  Vin,              \* the outpoints a transaction spends
  Size, Fee,
  LockTime,         \* nLockTime, a height
  RelLock,          \* the relative lock of all inputs in blocks, or Disabled
  Disabled,
  Replaceable,      \* an input signals BIP 125
  NonStandard,      \* rejected by the policy or script checks
  Genesis, Blocks, Parent,
  BlockTxs,         \* the transactions of a block, coinbase first
  BadConnect,       \* blocks ConnectBlock rejects
  Maturity,         \* COINBASE_MATURITY
  LimitAncestors, LimitAncestorSize,      \* -limitancestorcount, -limitancestorsize
  LimitDescendants, LimitDescendantSize,  \* -limitdescendantcount, -limitdescendantsize
  MaxReplaced,      \* maxDescendantsToVisit
  RelayRate,        \* incrementalRelayFee
  MaxSize,          \* -maxmempool
  MaxDisconnected,  \* MAX_DISCONNECTED_TX_POOL_SIZE
  Deltas,           \* fee deltas prioritisetransaction is called with
  MaxCalls,         \* how many times it is
  None

Tree == Blocks \cup {Genesis}

ASSUME Shape ==
  /\ Genesis \notin Blocks /\ Parent \in [Blocks -> Tree]
  /\ Coinbases \subseteq Txs /\ None \notin Txs
  /\ Creator \in [OutPoints -> Txs] /\ Vin \in [Txs -> SUBSET OutPoints]
  /\ BlockTxs \in [Tree -> Seq(Txs)]
  /\ LockTime \in [Txs -> Int] /\ RelLock \in [Txs -> Nat \cup {Disabled}] /\ Maturity \in Int
  /\ Deltas \subseteq Int /\ MaxDisconnected \in Nat

HeightOf[b \in Tree] == IF b = Genesis THEN 0 ELSE HeightOf[Parent[b]] + 1
Height == [b \in Tree |-> HeightOf[b]]

ChainOf[b \in Tree] == {b} \cup IF b = Genesis THEN {} ELSE ChainOf[Parent[b]]
Chain == [b \in Tree |-> ChainOf[b]]

\* What the two recursive definitions give on a tree rooted at Genesis.
ASSUME Chains ==
  /\ Height[Genesis] = 0 /\ Chain[Genesis] = {Genesis}
  /\ \A b \in Blocks : Height[b] = Height[Parent[b]] + 1 /\ Chain[b] = {b} \cup Chain[Parent[b]]
  /\ \A b \in Tree : Height[b] \in Nat /\ {b, Genesis} \subseteq Chain[b] /\ Chain[b] \subseteq Tree
  /\ \A b \in Tree : \A x \in Chain[b] : Chain[x] \subseteq Chain[b] /\ Height[x] <= Height[b]
  /\ \A b \in Tree : \A x, y \in Chain[b] : Height[x] <= Height[y] => x \in Chain[y]
  /\ \A b \in Tree : \A x \in Chain[b] \ {b} : \E y \in Chain[b] : Height[y] = Height[x] + 1

\* The chain with tip b: its transactions, its unspent outputs, and the height of
\* a transaction.
Confirmed == [b \in Tree |-> UNION {Range(BlockTxs[x]) : x \in Chain[b]}]
Coins == [b \in Tree |-> {o \in OutPoints : Creator[o] \in Confirmed[b] /\
                            \A t \in Confirmed[b] : o \notin Vin[t]}]
TxHeight == [b \in Tree |-> [t \in Confirmed[b] |->
               Height[CHOOSE x \in Chain[b] : t \in Range(BlockTxs[x])]]]

\* ConnectBlock: on a chain it accepts no transaction comes twice, the inputs are
\* outputs of transactions of the chain, and none is spent twice.
ASSUME ValidChains ==
  /\ Genesis \notin BadConnect
  /\ \A b \in Tree : Chain[b] \cap BadConnect = {} =>
       /\ \A x, y \in Chain[b] : \A j \in DOMAIN BlockTxs[x], k \in DOMAIN BlockTxs[y] :
            BlockTxs[x][j] = BlockTxs[y][k] => x = y /\ j = k
       /\ \A t \in Confirmed[b] : \A o \in Vin[t] : Creator[o] \in Confirmed[b]
       /\ \A t, u \in Confirmed[b] : t # u => Vin[t] \cap Vin[u] = {}

\* CheckTransaction: only a coinbase has no inputs.
ASSUME Ordinary == \A t \in Txs \ (Coinbases \cup NonStandard) : Vin[t] # {}

VARIABLES
  pool,        \* mapTx, mapLinks and mapNextTx
  mapDeltas,
  tip,
  phase,       \* what the thread that holds cs_main does next
  move,        \* its variables while it moves the tip
  calls        \* how often PrioritiseTransaction was called

vars == <<pool, mapDeltas, tip, phase, move, calls>>

(***************************************************************************)
(* Entries and their packages.                                             *)
(***************************************************************************)
Package == [count : Int, size : Int, fees : Int]
Zero == [count |-> 0, size |-> 0, fees |-> 0]
Plus(a, b) == [count |-> a.count + b.count, size |-> a.size + b.size, fees |-> a.fees + b.fees]
Minus(a, b) == [count |-> a.count - b.count, size |-> a.size - b.size, fees |-> a.fees - b.fees]

LockPoints == [height : Int, maxInputBlock : Tree]
NoLock == [height |-> -1, maxInputBlock |-> Genesis]

\* mapTx with the entries' fields, mapLinks and mapNextTx.
Pool == [txs : SUBSET Txs, next : [OutPoints -> Txs \cup {None}],
         parents : [Txs -> SUBSET Txs], children : [Txs -> SUBSET Txs],
         feeDelta : [Txs -> Int], desc : [Txs -> Package], anc : [Txs -> Package],
         lock : [Txs -> LockPoints]]

EmptyPool ==
  [txs |-> {}, next |-> [o \in OutPoints |-> None],
   parents |-> [t \in Txs |-> {}], children |-> [t \in Txs |-> {}],
   feeDelta |-> [t \in Txs |-> 0], desc |-> [t \in Txs |-> Zero], anc |-> [t \in Txs |-> Zero],
   lock |-> [t \in Txs |-> NoLock]]

GetModifiedFee(P, t) == Fee[t] + P.feeDelta[t]

\* What the entries of S add up to.
Total(P, S) ==
  [count |-> Cardinality(S),
   size |-> MapThenSumSet(LAMBDA t : Size[t], S),
   fees |-> MapThenSumSet(LAMBDA t : GetModifiedFee(P, t), S)]

\* What the loops over links collect: the entries of U reached from S.
Reachable(U, S, links) ==
  {x \in U : \A T \in SUBSET U : S \subseteq T /\ (\A y \in T : links[y] \subseteq T) => x \in T}

CalculateDescendants(P, S) == Reachable(P.txs, S, P.children)

LinkedAncestors(P, t) == Reachable(P.txs, P.parents[t], P.parents)

\* CalculateMemPoolAncestors of a transaction that is not in the pool.
MemPoolParents(P, t) == {p \in P.txs : \E o \in Vin[t] : Creator[o] = p}
CalculateMemPoolAncestors(P, t) == Reachable(P.txs, MemPoolParents(P, t), P.parents)

\* ... and its limits.
WithinLimits(P, t, ancestors) ==
  /\ Cardinality(ancestors) + 1 <= LimitAncestors
  /\ ancestors # {} => Size[t] + Total(P, ancestors).size <= LimitAncestorSize
  /\ \A a \in ancestors : /\ P.desc[a].count + 1 <= LimitDescendants
                          /\ P.desc[a].size + Size[t] <= LimitDescendantSize

\* addUnchecked: the new entry is linked to its parents and not to children, and
\* what it adds is added to its ancestors.
addUnchecked(P, t, ancestors, lp) ==
  LET own == [count |-> 1, size |-> Size[t], fees |-> Fee[t] + mapDeltas[t]]
      parents == MemPoolParents(P, t)
  IN [txs |-> P.txs \cup {t},
      next |-> [o \in OutPoints |-> IF o \in Vin[t] /\ P.next[o] = None THEN t ELSE P.next[o]],
      parents |-> [P.parents EXCEPT ![t] = parents],
      children |-> [x \in Txs |-> IF x \in parents THEN P.children[x] \cup {t} ELSE P.children[x]],
      feeDelta |-> [P.feeDelta EXCEPT ![t] = mapDeltas[t]],
      desc |-> [x \in Txs |-> IF x = t THEN own
                              ELSE IF x \in ancestors THEN Plus(P.desc[x], own) ELSE P.desc[x]],
      anc |-> [P.anc EXCEPT ![t] = Plus(own, Total(P, ancestors))],
      lock |-> [P.lock EXCEPT ![t] = lp]]

\* Mutant: the ancestors are searched through the inputs.
AncestorsSearched(P, r) == CalculateMemPoolAncestors(P, r)

\* The entries whose descendant totals UpdateForRemoveFromMempool reduces.
AncestorsToUpdate(P, r) == LinkedAncestors(P, r)

\* RemoveStaged: UpdateForRemoveFromMempool, then removeUnchecked of every entry
\* of S.  The ancestors and descendants to update are those the links reach.
RemoveStaged(P, S, updateDescendants) ==
  LET keep == P.txs \ S
      below == [x \in keep |-> {r \in S : x \in AncestorsToUpdate(P, r)}]
      above == [x \in keep |-> {r \in S : updateDescendants /\ x \in CalculateDescendants(P, {r})}]
  IN [txs |-> keep,
      next |-> [o \in OutPoints |-> IF \E t \in S : o \in Vin[t] THEN None ELSE P.next[o]],
      parents |-> [x \in Txs |-> IF x \in keep
                                 THEN P.parents[x] \ {r \in S : x \in P.children[r]} ELSE {}],
      children |-> [x \in Txs |-> IF x \in keep
                                  THEN P.children[x] \ {r \in S : x \in P.parents[r]} ELSE {}],
      feeDelta |-> [x \in Txs |-> IF x \in keep THEN P.feeDelta[x] ELSE 0],
      desc |-> [x \in Txs |-> IF x \in keep THEN Minus(P.desc[x], Total(P, below[x])) ELSE Zero],
      anc |-> [x \in Txs |-> IF x \in keep THEN Minus(P.anc[x], Total(P, above[x])) ELSE Zero],
      lock |-> [x \in Txs |-> IF x \in keep THEN P.lock[x] ELSE NoLock]]

\* removeRecursive: if t is not in the pool, its children there are removed, which
\* mapNextTx knows also when they are not linked.
removeRecursive(P, t) ==
  LET roots == IF t \in P.txs THEN {t} ELSE {P.next[o] : o \in {o \in OutPoints : Creator[o] = t}} \ {None}
  IN RemoveStaged(P, CalculateDescendants(P, roots), FALSE)

(***************************************************************************)
(* What a transaction needs of the chain.                                  *)
(***************************************************************************)
NextHeight == Height[tip] + 1

\* CheckFinalTx
Final(t) == LockTime[t] < NextHeight

\* CCoinsViewMemPool::GetCoin
HaveCoin(P, o) == Creator[o] \in P.txs \/ o \in Coins[tip]

\* CalculateSequenceLocks and the lock points CheckSequenceLocks stores.
CalculateLockPoints(P, t) ==
  LET confirmed == {o \in Vin[t] : Creator[o] \notin P.txs}
      heights == {TxHeight[tip][Creator[o]] : o \in confirmed}
      prev == heights \cup (IF confirmed # Vin[t] THEN {NextHeight} ELSE {})
  IN IF RelLock[t] = Disabled THEN NoLock
     ELSE [height |-> Max(prev) + RelLock[t] - 1,
           maxInputBlock |-> CHOOSE b \in Chain[tip] : Height[b] = Max(heights \cup {0})]

EvaluateSequenceLocks(lp) == lp.height < NextHeight

TestLockPointValidity(lp) == lp.maxInputBlock \in Chain[tip]

Mature(o) == Creator[o] \in Coinbases => NextHeight - TxHeight[tip][Creator[o]] >= Maturity

SpendsCoinbase(t) == \E o \in Vin[t] : Creator[o] \in Coinbases

(***************************************************************************)
(* AcceptToMemoryPool.                                                     *)
(***************************************************************************)
FeePerK(fee, size) == (fee * 1000) \div size
GetFee(rate, size) == IF (rate * size) \div 1000 = 0 /\ rate > 0 THEN 1 ELSE (rate * size) \div 1000

Conflicts(P, t) == {P.next[o] : o \in Vin[t]} \ {None}

\* Mutant: descendants are not counted.
ConflictingFeesDirect(P, C) == Total(P, C).fees

\* nConflictingFees
ConflictingFees(P, C) == Total(P, CalculateDescendants(P, C)).fees

\* The rules for the replacement of the transactions in C by t.
MayReplace(P, t, C) ==
  LET fees == Fee[t] + mapDeltas[t]
      conflictsParents == {Creator[o] : o \in UNION {Vin[c] : c \in C}}
  IN /\ C \subseteq Replaceable
     /\ \A c \in C : FeePerK(fees, Size[t]) > FeePerK(GetModifiedFee(P, c), Size[c])
     /\ MapThenSumSet(LAMBDA c : P.desc[c].count, C) <= MaxReplaced
     /\ \A o \in Vin[t] : Creator[o] \in P.txs => Creator[o] \in conflictsParents
     /\ fees - ConflictingFees(P, C) >= GetFee(RelayRate, Size[t])

Acceptable(P, t) ==
  /\ t \notin Coinbases /\ t \notin NonStandard
  /\ Final(t)
  /\ t \notin P.txs
  /\ \A o \in Vin[t] : HaveCoin(P, o)
  /\ EvaluateSequenceLocks(CalculateLockPoints(P, t))
  /\ \A o \in Vin[t] : Creator[o] \notin P.txs => Mature(o)
  /\ WithinLimits(P, t, CalculateMemPoolAncestors(P, t))
  /\ CalculateMemPoolAncestors(P, t) \cap Conflicts(P, t) = {}
  /\ Conflicts(P, t) # {} => MayReplace(P, t, Conflicts(P, t))

Accepted(P, t) ==
  addUnchecked(RemoveStaged(P, CalculateDescendants(P, Conflicts(P, t)), FALSE), t,
               CalculateMemPoolAncestors(P, t), CalculateLockPoints(P, t))

\* A transaction from a peer, the wallet, an RPC call or the saved pool.  The
\* size is limited before pool.cs is released.
AcceptToMemoryPool(t) ==
  /\ phase = "rest"
  /\ Acceptable(pool, t)
  /\ pool' = Accepted(pool, t)
  /\ phase' = "accepted"
  /\ UNCHANGED <<mapDeltas, tip, move, calls>>

\* LimitMempoolSize: Expire takes any entries, since entry times come from the
\* clock or from the saved pool; then TrimToSize.
Expire ==
  /\ phase \in {"accepted", "reorganised"}
  /\ \E old \in SUBSET pool.txs :
       pool' = RemoveStaged(pool, CalculateDescendants(pool, old), FALSE)
  /\ phase' = IF phase = "accepted" THEN "trim" ELSE "expired"
  /\ UNCHANGED <<mapDeltas, tip, move, calls>>

Usage(P) == MapThenSumSet(LAMBDA t : Size[t], P.txs)

\* CompareTxMemPoolEntryByDescendantScore::GetModFeeAndSize
DescendantScore(P, t) ==
  IF P.desc[t].fees * Size[t] > GetModifiedFee(P, t) * P.desc[t].size
  THEN [fee |-> P.desc[t].fees, size |-> P.desc[t].size]
  ELSE [fee |-> GetModifiedFee(P, t), size |-> Size[t]]

\* The entries that may come first in the index by descendant score.
Worst(P) ==
  {t \in P.txs : \A u \in P.txs :
     DescendantScore(P, t).fee * DescendantScore(P, u).size
       <= DescendantScore(P, u).fee * DescendantScore(P, t).size}

\* One round of the loop of TrimToSize.
TrimToSize ==
  /\ phase \in {"trim", "expired"} /\ Usage(pool) > MaxSize
  /\ \E t \in Worst(pool) : pool' = RemoveStaged(pool, CalculateDescendants(pool, {t}), FALSE)
  /\ phase' = "trim"
  /\ UNCHANGED <<mapDeltas, tip, move, calls>>

Trimmed ==
  /\ phase \in {"trim", "expired"} /\ Usage(pool) <= MaxSize
  /\ phase' = "rest"
  /\ UNCHANGED <<pool, mapDeltas, tip, move, calls>>

\* pool.cs is free at the beginning of these steps.
Unlocked == phase \in {"rest", "move", "spill", "readd", "relinked", "reorganised", "expired"}

\* PrioritiseTransaction, called by an RPC thread or while the saved pool is loaded.
PrioritiseTransaction(t, delta) ==
  /\ Unlocked /\ calls < MaxCalls
  /\ mapDeltas' = [mapDeltas EXCEPT ![t] = @ + delta]
  /\ calls' = calls + 1
  /\ pool' =
       IF t \notin pool.txs THEN pool
       ELSE LET gain == [x \in Txs |-> [Zero EXCEPT !.fees =
                           IF x = t THEN mapDeltas[t] + delta - pool.feeDelta[t] ELSE delta]]
                up == {t} \cup LinkedAncestors(pool, t)
                down == CalculateDescendants(pool, {t})
            IN [pool EXCEPT !.feeDelta[t] = mapDeltas[t] + delta,
                            !.desc = [x \in Txs |-> IF x \in up THEN Plus(@[x], gain[x]) ELSE @[x]],
                            !.anc = [x \in Txs |-> IF x \in down THEN Plus(@[x], gain[x]) ELSE @[x]]]
  /\ UNCHANGED <<tip, phase, move>>

(***************************************************************************)
(* Moving the tip.                                                         *)
(***************************************************************************)
Last(s) == s[Len(s)]
Front(s) == SubSeq(s, 1, Len(s) - 1)
Reverse(s) == [k \in 1..Len(s) |-> s[Len(s) + 1 - k]]

\* The one sequence that has the members of s outside S, in the same order.
Without(s, S) ==
  LET kept == {k \in DOMAIN s : s[k] \notin S}
  IN {[k \in DOMAIN f |-> s[f[k]]] : f \in {f \in UNION {Bijection(1..n, kept) : n \in 0..Len(s)} :
                                           \A j, k \in DOMAIN f : j < k => f[j] < f[k]}}

\* The block to move to, the height of the old tip, fBlocksDisconnected, the
\* queuedTx of disconnectpool in insertion order, fAddToMempool, what is left of
\* the loop over a block or over vHashesToUpdate, and vHashUpdate.
NoMove == [target |-> None, oldHeight |-> 0, disconnected |-> FALSE, queuedTx |-> <<>>,
           fAddToMempool |-> FALSE, work |-> <<>>, vHashUpdate |-> <<>>]

Begin(b, update) ==
  /\ phase = "rest" /\ phase' = "move"
  /\ move' = [NoMove EXCEPT !.target = b, !.oldHeight = Height[tip], !.disconnected = update]
  /\ UNCHANGED <<pool, mapDeltas, tip, calls>>

\* A target at the height of the tip is one preciousblock preferred.
ActivateBestChainStep(b) == b \notin Chain[tip] /\ Height[b] >= Height[tip] /\ Begin(b, FALSE)

\* InvalidateBlock updates the pool also when it disconnects nothing.
InvalidateBlock(b) == Begin(IF b \in Chain[tip] THEN Parent[b] ELSE tip, TRUE)

ToDisconnect == phase = "move" /\ tip \notin Chain[move.target]
ToConnect == phase = "move" /\ tip \in Chain[move.target] \ {move.target}

Spill(queue) == phase' = IF Len(queue) > MaxDisconnected THEN "spill" ELSE "move"

\* DisconnectTip: the transactions are kept in the order opposite to the block's.
DisconnectTip ==
  /\ ToDisconnect
  /\ LET queue == move.queuedTx \o Reverse(BlockTxs[tip])
     IN Spill(queue) /\ move' = [move EXCEPT !.queuedTx = queue, !.disconnected = TRUE]
  /\ tip' = Parent[tip]
  /\ UNCHANGED <<pool, mapDeltas, calls>>

\* One round of its loop that bounds the memory: the transaction kept longest is
\* dropped, and what depends on it leaves the pool.
DropEarliest ==
  /\ phase = "spill"
  /\ pool' = removeRecursive(pool, Head(move.queuedTx))
  /\ move' = [move EXCEPT !.queuedTx = Tail(@)]
  /\ Spill(Tail(move.queuedTx))
  /\ UNCHANGED <<mapDeltas, tip, calls>>

\* UpdateMempoolForReorg begins.
Reorganise(add) == phase' = "readd" /\ move' = [move EXCEPT !.fAddToMempool = add]

\* The end of ActivateBestChainStep, or of the loop of InvalidateBlock.
Stop == IF move.disconnected THEN Reorganise(TRUE) ELSE phase' = "rest" /\ move' = NoMove

\* DisconnectTip cannot read the block or apply its undo data, or ConnectTip meets
\* a system error.
MoveFails ==
  /\ ToDisconnect \/ ToConnect
  /\ Reorganise(FALSE)
  /\ UNCHANGED <<pool, mapDeltas, tip, calls>>

NextBlock == CHOOSE b \in Chain[move.target] : Height[b] = Height[tip] + 1

\* Mutant: disconnectpool keeps the transactions of the new block.
ConnectTipKeeping ==
  /\ ToConnect /\ NextBlock \notin BadConnect
  /\ tip' = NextBlock
  /\ move' = [move EXCEPT !.work = BlockTxs[NextBlock]]
  /\ phase' = "block"
  /\ UNCHANGED <<pool, mapDeltas, calls>>

\* ConnectTip; the loop of removeForBlock follows.
ConnectTip ==
  /\ ToConnect /\ NextBlock \notin BadConnect
  /\ tip' = NextBlock
  /\ \E left \in Without(move.queuedTx, Range(BlockTxs[NextBlock])) :
       move' = [move EXCEPT !.work = BlockTxs[NextBlock], !.queuedTx = left]
  /\ phase' = "block"
  /\ UNCHANGED <<pool, mapDeltas, calls>>

\* The block is invalid, or there is nothing to connect.
ConnectNothing ==
  /\ \/ ToConnect /\ NextBlock \in BadConnect
     \/ phase = "move" /\ tip = move.target
  /\ Stop
  /\ UNCHANGED <<pool, mapDeltas, tip, calls>>

\* One round of the loop of removeForBlock: the transaction leaves the pool, its
\* descendants stay; what conflicts with it leaves with its descendants.  A conflict
\* that left as a descendant of another one is not met, and keeps its delta.
removeForBlock ==
  /\ phase = "block" /\ move.work # <<>>
  /\ LET t == Head(move.work)
         P == RemoveStaged(pool, {t} \cap pool.txs, TRUE)
         conflicts == Conflicts(P, t)
     IN /\ pool' = RemoveStaged(P, CalculateDescendants(P, conflicts), FALSE)
        /\ \E met \in SUBSET conflicts :
             /\ conflicts \subseteq CalculateDescendants(P, met)
             /\ mapDeltas' = [x \in Txs |-> IF x \in met \cup {t} THEN 0 ELSE mapDeltas[x]]
  /\ move' = [move EXCEPT !.work = Tail(@)]
  /\ UNCHANGED <<tip, phase, calls>>

\* ConnectTip returns.  With a tip higher than the old one the step is over.
Connected ==
  /\ phase = "block" /\ move.work = <<>>
  /\ IF tip = move.target \/ Height[tip] > move.oldHeight THEN Stop
     ELSE phase' = "move" /\ UNCHANGED move
  /\ UNCHANGED <<pool, mapDeltas, tip, calls>>

(***************************************************************************)
(* UpdateMempoolForReorg.                                                  *)
(***************************************************************************)
\* One transaction of disconnectpool, the earliest in the chain first.
AddBack ==
  /\ phase = "readd" /\ move.queuedTx # <<>>
  /\ \E t \in Txs :
       LET rest == [move EXCEPT !.queuedTx = Front(@)]
       IN /\ t = Last(move.queuedTx)
          /\ IF move.fAddToMempool /\ Acceptable(pool, t)
             THEN pool' = Accepted(pool, t) /\ move' = [rest EXCEPT !.vHashUpdate = Append(@, t)]
             ELSE pool' = removeRecursive(pool, t) /\ move' = rest
  /\ UNCHANGED <<mapDeltas, tip, phase, calls>>

AddedBack ==
  /\ phase = "readd" /\ move.queuedTx = <<>>
  /\ phase' = "relink"
  /\ move' = [move EXCEPT !.work = move.vHashUpdate]
  /\ UNCHANGED <<pool, mapDeltas, tip, calls>>

\* Mutant: only one side of a link is stored.
LinkChildrenOneWay(P, t, included) ==
  [P EXCEPT !.children[t] =
     @ \cup ({P.next[o] : o \in {o \in OutPoints : Creator[o] = t}} \ ({None} \cup included))]

\* The children mapNextTx knows of that are not in the block are linked.
LinkChildren(P, t, included) ==
  LET new == {P.next[o] : o \in {o \in OutPoints : Creator[o] = t}} \ ({None} \cup included)
  IN [P EXCEPT !.children[t] = @ \cup new,
               !.parents = [x \in Txs |-> IF x \in new THEN @[x] \cup {t} ELSE @[x]]]

\* UpdateForDescendants; the cache of descendants only saves time.
UpdateForDescendants(P, t, included) ==
  LET all == Reachable(P.txs, P.children[t], P.children) \ included
      own == Total(P, {t})
  IN [P EXCEPT !.desc[t] = Plus(@, Total(P, all)),
               !.anc = [x \in Txs |-> IF x \in all THEN Plus(@[x], own) ELSE @[x]]]

\* One round of the loop of UpdateTransactionsFromBlock, from the last to the first.
UpdateTransactionsFromBlock ==
  /\ phase = "relink" /\ move.work # <<>>
  /\ LET t == Last(move.work)
         included == Range(move.vHashUpdate)
     IN pool' = IF t \in pool.txs
                THEN UpdateForDescendants(LinkChildren(pool, t, included), t, included) ELSE pool
  /\ move' = [move EXCEPT !.work = Front(@)]
  /\ UNCHANGED <<mapDeltas, tip, phase, calls>>

Relinked ==
  /\ phase = "relink" /\ move.work = <<>>
  /\ phase' = "relinked"
  /\ UNCHANGED <<pool, mapDeltas, tip, move, calls>>

\* Mutant: the stored lock points are always used.
StoredLockPoints(t) == pool.lock[t]

\* The lock points removeForReorg uses: those stored, unless their block is gone.
CurrentLockPoints(t) ==
  IF TestLockPointValidity(pool.lock[t]) THEN pool.lock[t] ELSE CalculateLockPoints(pool, t)

\* What stays in the pool when the chain has changed.
StillMinable(t) ==
  /\ Final(t)
  /\ TestLockPointValidity(pool.lock[t]) \/ \A o \in Vin[t] : HaveCoin(pool, o)
  /\ EvaluateSequenceLocks(CurrentLockPoints(t))
  /\ SpendsCoinbase(t) =>
       \A o \in Vin[t] : Creator[o] \notin pool.txs => o \in Coins[tip] /\ Mature(o)

removeForReorg ==
  /\ phase = "relinked"
  /\ LET gone == {t \in pool.txs : ~StillMinable(t)}
         kept == [pool EXCEPT !.lock = [t \in Txs |-> IF t \in pool.txs \ gone
                                                      THEN CurrentLockPoints(t) ELSE NoLock]]
     IN pool' = RemoveStaged(kept, CalculateDescendants(kept, gone), FALSE)
  /\ phase' = "reorganised" /\ move' = NoMove
  /\ UNCHANGED <<mapDeltas, tip, calls>>

(***************************************************************************)
(* The specification.                                                      *)
(***************************************************************************)
Init ==
  /\ pool = EmptyPool
  /\ mapDeltas = [t \in Txs |-> 0]
  /\ tip = Genesis
  /\ phase = "rest" /\ move = NoMove
  /\ calls = 0

Next ==
  \/ \E t \in Txs : AcceptToMemoryPool(t)
  \/ Expire \/ TrimToSize \/ Trimmed
  \/ \E t \in Txs \ Coinbases : \E d \in Deltas : PrioritiseTransaction(t, d)
  \/ \E b \in Blocks : ActivateBestChainStep(b) \/ InvalidateBlock(b)
  \/ DisconnectTip \/ DropEarliest \/ MoveFails
  \/ ConnectTip \/ ConnectNothing \/ removeForBlock \/ Connected
  \/ AddBack \/ AddedBack
  \/ UpdateTransactionsFromBlock \/ Relinked \/ removeForReorg

Spec == Init /\ [][Next]_vars

(***************************************************************************)
(* Properties.                                                             *)
(***************************************************************************)
\* The comment in UpdateForRemoveFromMempool: also in the middle of a
\* reorganisation, except inside UpdateTransactionsFromBlock, the package totals of
\* an entry are those of exactly the entries its links reach, with the fees
\* PrioritiseTransaction asked for.
TotalsMatchLinks ==
  phase # "relink" => \A t \in pool.txs :
    /\ pool.feeDelta[t] = mapDeltas[t]
    /\ pool.anc[t] = Total(pool, {t} \cup LinkedAncestors(pool, t))
    /\ pool.desc[t] = Total(pool, CalculateDescendants(pool, {t}))

\* mempool.check: at rest the links are the spends between entries, and all entries
\* could be mined in the next block, parents first.
ConsistentAtRest ==
  phase = "rest" => \A t \in pool.txs :
    /\ pool.parents[t] = MemPoolParents(pool, t)
    /\ Final(t)
    /\ \A o \in Vin[t] : HaveCoin(pool, o) /\ (Creator[o] \notin pool.txs => Mature(o))
    /\ EvaluateSequenceLocks(CalculateLockPoints(pool, t))

\* The assumption stated at UpdateMempoolForReorg: the transactions of
\* disconnectpool are neither in the pool nor in the chain.
DisconnectedApart ==
  \A t \in Range(move.queuedTx) : t \notin pool.txs /\ (phase # "block" => t \notin Confirmed[tip])

\* mapNextTx maps exactly the inputs of the entries, so that no two entries spend the
\* same output; parents and children are inverse and join a transaction to one it
\* spends from.
Indexed(P) ==
  /\ \A o \in OutPoints, t \in Txs : P.next[o] = t <=> t \in P.txs /\ o \in Vin[t]
  /\ \A a, c \in Txs : c \in P.children[a] <=> a \in P.parents[c]
  /\ \A c \in Txs : P.parents[c] # {} => c \in P.txs /\ P.parents[c] \subseteq MemPoolParents(P, c)

\* The indexes agree at every point, also in the middle of a reorganisation, where
\* the links are incomplete, and while pool.cs is released between its steps.
IndexesAgree == Indexed(pool)

\* A replacement pays more than everything it takes out of the pool: what it conflicts
\* with and all that spends from it, whatever the links say.
ReplacementPays ==
  [][\A t \in Txs : phase = "rest" /\ t \in pool'.txs \ pool.txs =>
       LET C == {c \in pool.txs : Vin[c] \cap Vin[t] # {}}
           spenders == [x \in Txs |-> {c \in pool.txs : \E o \in Vin[c] : Creator[o] = x}]
       IN C # {} => pool'.desc[t].fees > Total(pool, Reachable(pool.txs, C, spenders)).fees]_vars
=============================================================================
