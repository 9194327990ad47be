--------------------------- MODULE MempoolProofs ---------------------------
(***************************************************************************)
(* For all transactions, block trees and limits: the indexes of the memory *)
(* pool agree, disconnectpool, the pool and the chain have no transaction  *)
(* in common, and at rest every entry could be mined in the next block.    *)
(* What the package totals are does not matter here.                       *)
(***************************************************************************)
EXTENDS Mempool, TLAPS

\* The pool is a record with the fields of Pool, and those that hold transactions
\* hold transactions.
Shaped(P) ==
  /\ P = [txs |-> P.txs, next |-> P.next, parents |-> P.parents, children |-> P.children,
          feeDelta |-> P.feeDelta, desc |-> P.desc, anc |-> P.anc, lock |-> P.lock]
  /\ P.txs \subseteq Txs
  /\ P.next \in [OutPoints -> Txs \cup {None}]
  /\ P.parents \in [Txs -> SUBSET Txs]
  /\ P.children \in [Txs -> SUBSET Txs]

Good(P) == Shaped(P) /\ Indexed(P)

\* The inductive invariant.
IInv == Good(pool)

\* Two pools with the same entries, mapNextTx and links are good or bad together.
LEMMA SameIndexes ==
  ASSUME NEW P, NEW Q, Good(P),
         Q = [txs |-> P.txs, next |-> P.next, parents |-> P.parents, children |-> P.children,
              feeDelta |-> Q.feeDelta, desc |-> Q.desc, anc |-> Q.anc, lock |-> Q.lock]
  PROVE  Good(Q)
<1> Q.txs = P.txs /\ Q.next = P.next /\ Q.parents = P.parents /\ Q.children = P.children
  OBVIOUS
<1>2. Shaped(Q)
  BY DEF Good, Shaped
<1>3. Indexed(Q)
  BY DEF Good, Indexed, MemPoolParents
<1> QED BY <1>2, <1>3 DEF Good

\* The transactions the loops start from are among those they collect, and all of
\* those are entries.
LEMMA ReachableHas ==
  ASSUME NEW U, NEW S, NEW links
  PROVE  Reachable(U, S, links) \subseteq U /\ S \cap U \subseteq Reachable(U, S, links)
BY DEF Reachable

\* Removing entries, with or without their descendants, keeps the indexes right.
LEMMA RemoveStagedGood ==
  ASSUME NEW P, NEW S, NEW d, Good(P), S \subseteq P.txs
  PROVE  Good(RemoveStaged(P, S, d))
<1> DEFINE Q == RemoveStaged(P, S, d)
           keep == P.txs \ S
<1>1. /\ Q = [txs |-> Q.txs, next |-> Q.next, parents |-> Q.parents, children |-> Q.children,
              feeDelta |-> Q.feeDelta, desc |-> Q.desc, anc |-> Q.anc, lock |-> Q.lock]
      /\ Q.txs = keep
      /\ Q.next = [o \in OutPoints |-> IF \E t \in S : o \in Vin[t] THEN None ELSE P.next[o]]
      /\ Q.parents = [x \in Txs |-> IF x \in keep
                                    THEN P.parents[x] \ {r \in S : x \in P.children[r]} ELSE {}]
      /\ Q.children = [x \in Txs |-> IF x \in keep
                                     THEN P.children[x] \ {r \in S : x \in P.parents[r]} ELSE {}]
  BY Zenon DEF RemoveStaged
<1> HIDE DEF Q
<1>2. Shaped(P) /\ Indexed(P)
  BY DEF Good
<1>3. S \subseteq Txs /\ None \notin Txs
  BY <1>2, Shape DEF Shaped
<1>4. Shaped(Q)
  BY <1>1, <1>2, <1>3 DEF Shaped
<1>5. \A o \in OutPoints, t \in Txs : Q.next[o] = t <=> t \in Q.txs /\ o \in Vin[t]
  BY <1>1, <1>2, <1>3 DEF Indexed
<1>6. \A a, c \in Txs : c \in P.children[a] <=> a \in P.parents[c]
  BY <1>2 DEF Indexed
<1>7. \A a, c \in Txs : a \in P.parents[c] => a \in P.txs /\ c \in P.txs /\ \E o \in Vin[c] : Creator[o] = a
  BY <1>2 DEF Indexed, MemPoolParents
<1>8. \A c \in Txs : Q.parents[c] = IF c \in keep THEN P.parents[c] \ S ELSE {}
  <2> TAKE c \in Txs
  <2>1. P.parents[c] \ {r \in S : c \in P.children[r]} = P.parents[c] \ S
    BY <1>3, <1>6
  <2> QED BY <1>1, <2>1, Zenon
<1>9. \A a \in Txs : Q.children[a] = IF a \in keep THEN P.children[a] \ S ELSE {}
  <2> TAKE a \in Txs
  <2>1. P.children[a] \ {r \in S : a \in P.parents[r]} = P.children[a] \ S
    BY <1>3, <1>6
  <2> QED BY <1>1, <2>1, ZenonT(30)
<1>10. \A a, c \in Txs : c \in Q.children[a] <=> a \in Q.parents[c]
  <2> TAKE a, c \in Txs
  <2>1. c \in Q.children[a] <=> a \in keep /\ c \in P.children[a] /\ c \notin S
    BY <1>9, Zenon
  <2>2. a \in Q.parents[c] <=> c \in keep /\ a \in P.parents[c] /\ a \notin S
    BY <1>8, ZenonT(30)
  <2> QED BY <1>6, <1>7, <2>1, <2>2
<1>11. \A c \in Txs : Q.parents[c] # {} => c \in Q.txs /\ Q.parents[c] \subseteq MemPoolParents(Q, c)
  <2> SUFFICES ASSUME NEW c \in Txs, NEW a \in Q.parents[c]
               PROVE  c \in Q.txs /\ a \in MemPoolParents(Q, c)
    OBVIOUS
  <2> c \in keep /\ a \in P.parents[c] \ S
    BY <1>8, ZenonT(30)
  <2>2. a \in P.txs /\ \E o \in Vin[c] : Creator[o] = a
    BY <1>2, <1>7 DEF Shaped
  <2> QED BY <2>2, <1>1 DEF MemPoolParents
<1>12. Indexed(Q)
  BY <1>5, <1>10, <1>11 DEF Indexed
<1> QED BY <1>4, <1>12 DEF Good, Q

\* Removing transactions with their descendants.
LEMMA RemoveDescendantsGood ==
  ASSUME NEW P, NEW S, NEW d, Good(P)
  PROVE  Good(RemoveStaged(P, CalculateDescendants(P, S), d))
<1>1. CalculateDescendants(P, S) \subseteq P.txs
  BY ReachableHas DEF CalculateDescendants
<1> QED BY <1>1, RemoveStagedGood

\* PrioritiseTransaction changes fees only.
LEMMA PrioritiseFields ==
  ASSUME NEW t, NEW delta, Good(pool), PrioritiseTransaction(t, delta)
  PROVE  pool' = [txs |-> pool.txs, next |-> pool.next, parents |-> pool.parents, children |-> pool.children,
                  feeDelta |-> pool'.feeDelta, desc |-> pool'.desc, anc |-> pool'.anc, lock |-> pool.lock]
<1>   pool = [txs |-> pool.txs, next |-> pool.next, parents |-> pool.parents, children |-> pool.children,
              feeDelta |-> pool.feeDelta, desc |-> pool.desc, anc |-> pool.anc, lock |-> pool.lock]
  BY DEF Good, Shaped
<1>2. pool' = pool \/ \E e, d, a : pool' = [pool EXCEPT !.feeDelta = e, !.desc = d, !.anc = a]
  BY Zenon DEF PrioritiseTransaction
<1> QED BY <1>2, ZenonT(30)

\* Every step keeps the indexes right.
LEMMA GoodStep ==
  Good(pool) /\ [Next]_vars =>
    Good(pool')
\* removeRecursive, also of a transaction that is not an entry.
<1>RemoveRecursiveGood. ASSUME NEW P, NEW t, Good(P)
                        PROVE  Good(removeRecursive(P, t))
  BY <1>RemoveRecursiveGood, RemoveDescendantsGood, Zenon DEF removeRecursive
\* A transaction none of whose inputs is spent by an entry can be added.
<1>AddGood. ASSUME NEW P, NEW t \in Txs, NEW ancestors, NEW lp, Good(P), t \notin P.txs,
                   \A o \in Vin[t] : P.next[o] = None
            PROVE  Good(addUnchecked(P, t, ancestors, lp))
  <2> USE <1>AddGood
  <2> DEFINE Q == addUnchecked(P, t, ancestors, lp)
             parents == MemPoolParents(P, t)
  <2>   /\ Q = [txs |-> Q.txs, next |-> Q.next, parents |-> Q.parents, children |-> Q.children,
                feeDelta |-> Q.feeDelta, desc |-> Q.desc, anc |-> Q.anc, lock |-> Q.lock]
        /\ Q.txs = P.txs \cup {t}
        /\ Q.next = [o \in OutPoints |-> IF o \in Vin[t] /\ P.next[o] = None THEN t ELSE P.next[o]]
        /\ Q.parents = [P.parents EXCEPT ![t] = parents]
        /\ Q.children = [x \in Txs |-> IF x \in parents THEN P.children[x] \cup {t} ELSE P.children[x]]
    BY ZenonT(30) DEF addUnchecked
  <2> HIDE DEF Q
  <2> Shaped(P) /\ Indexed(P)
    BY DEF Good
  <2>3. parents \subseteq P.txs /\ parents \subseteq Txs /\ None \notin Txs /\ Vin[t] \subseteq OutPoints
    BY Shape DEF Shaped, MemPoolParents
  <2>4. Shaped(Q)
    BY <2>3 DEF Shaped
  <2>5. \A o \in OutPoints, x \in Txs : Q.next[o] = x <=> x \in Q.txs /\ o \in Vin[x]
    BY <2>3 DEF Indexed
  <2>   /\ \A a, c \in Txs : c \in P.children[a] <=> a \in P.parents[c]
        /\ P.parents[t] = {}
        /\ \A c \in Txs : c # t => Q.parents[c] = P.parents[c]
        /\ Q.parents[t] = parents
    BY DEF Indexed, Shaped
  <2>7. \A a, c \in Txs : c \in Q.children[a] <=> a \in Q.parents[c]
    BY <2>3
  <2>8. \A c \in Txs : MemPoolParents(P, c) \subseteq MemPoolParents(Q, c)
    BY DEF MemPoolParents
  <2>9. \A c \in Txs : Q.parents[c] # {} => c \in Q.txs /\ Q.parents[c] \subseteq MemPoolParents(Q, c)
    BY <2>8 DEF Indexed
  <2>10. Indexed(Q)
    BY <2>5, <2>7, <2>9 DEF Indexed
  <2> QED BY <2>4, <2>10 DEF Good, Q
\* An accepted transaction takes the place of what it conflicts with.
<1>AcceptedGood. ASSUME NEW P, NEW t \in Txs, Good(P), Acceptable(P, t)
                 PROVE  Good(Accepted(P, t))
  <2> USE <1>AcceptedGood
  <2> DEFINE S == CalculateDescendants(P, Conflicts(P, t))
             Q == RemoveStaged(P, S, FALSE)
  <2>1. Good(Q)
    BY RemoveDescendantsGood, ZenonT(30)
  <2>2. t \notin P.txs
    BY DEF Acceptable
  <2>3. Q.txs \subseteq P.txs /\ Q.next = [o \in OutPoints |-> IF \E x \in S : o \in Vin[x] THEN None ELSE P.next[o]]
    BY DEF RemoveStaged
  <2>4. ASSUME NEW o \in Vin[t] PROVE Q.next[o] = None
    <3> o \in OutPoints
      BY <2>4, Shape
    <3>2. CASE P.next[o] = None
      BY <2>3, <3>2, Zenon
    <3>3. CASE P.next[o] # None
      <4> USE <3>3
      <4> P.next[o] \in P.txs /\ o \in Vin[P.next[o]]
        BY DEF Good, Shaped, Indexed
      <4>2. P.next[o] \in Conflicts(P, t)
        BY DEF Conflicts
      <4>3. P.next[o] \in S
        BY <4>2, ReachableHas DEF CalculateDescendants
      <4> QED BY <2>3, <4>3, ZenonT(30)
    <3> QED BY <3>2, <3>3, Zenon
  <2> HIDE DEF Q
  <2>5. Good(addUnchecked(Q, t, CalculateMemPoolAncestors(P, t), CalculateLockPoints(P, t)))
    BY <2>1, <2>2, <2>3, <2>4, <1>AddGood
  <2> QED BY <2>5, Zenon DEF Accepted, Q
\* Linking an entry that came back to the children it has in the pool.
<1>LinkGood. ASSUME NEW P, NEW t \in P.txs, NEW included, Good(P)
             PROVE  Good(LinkChildren(P, t, included))
  <2> USE <1>LinkGood
  <2> DEFINE Q == LinkChildren(P, t, included)
             new == {P.next[o] : o \in {o \in OutPoints : Creator[o] = t}} \ ({None} \cup included)
  <2> Shaped(P) /\ Indexed(P) /\ t \in Txs
    BY DEF Good, Shaped
  <2>   /\ Q = [txs |-> P.txs, next |-> P.next, parents |-> Q.parents, children |-> Q.children,
                feeDelta |-> P.feeDelta, desc |-> P.desc, anc |-> P.anc, lock |-> P.lock]
        /\ Q.parents = [x \in Txs |-> IF x \in new THEN P.parents[x] \cup {t} ELSE P.parents[x]]
        /\ Q.children = [P.children EXCEPT ![t] = @ \cup new]
    <3>1. Q = [P EXCEPT !.children[t] = @ \cup new,
                        !.parents = [x \in Txs |-> IF x \in new THEN @[x] \cup {t} ELSE @[x]]]
      BY DEF LinkChildren
    <3>2. P = [txs |-> P.txs, next |-> P.next, parents |-> P.parents, children |-> P.children,
               feeDelta |-> P.feeDelta, desc |-> P.desc, anc |-> P.anc, lock |-> P.lock]
      BY DEF Shaped
    <3> HIDE DEF Q, new
    <3> QED BY <3>1, <3>2, ZenonT(30)
  <2>3. \A c \in new : c \in P.txs /\ c \in Txs /\ \E o \in Vin[c] : Creator[o] = t
    BY DEF Shaped, Indexed
  <2> HIDE DEF Q, new
  <2> Q.txs = P.txs /\ Q.next = P.next /\ Q.feeDelta = P.feeDelta /\ Q.desc = P.desc /\ Q.anc = P.anc /\ Q.lock = P.lock
    OBVIOUS
  <2>5. Shaped(Q)
    BY <2>3 DEF Shaped
  <2>6. \A a, c \in Txs : c \in P.children[a] <=> a \in P.parents[c]
    BY DEF Indexed
  <2>7. \A a \in Txs : Q.children[a] = IF a = t THEN P.children[a] \cup new ELSE P.children[a]
    BY Zenon DEF Shaped
  <2>8. \A a, c \in Txs : c \in Q.children[a] <=> a \in Q.parents[c]
    BY <2>6, <2>7
  <2>9. \A c \in Txs : Q.parents[c] # {} => c \in Q.txs /\ Q.parents[c] \subseteq MemPoolParents(Q, c)
    <3> SUFFICES ASSUME NEW c \in Txs, NEW a \in Q.parents[c]
                 PROVE  c \in Q.txs /\ a \in MemPoolParents(Q, c)
      OBVIOUS
    <3>1. CASE c \in new /\ a = t
      BY <2>3, <3>1 DEF MemPoolParents
    <3>2. CASE a \in P.parents[c]
      BY <3>2 DEF Indexed, MemPoolParents
    <3> QED BY <3>1, <3>2
  <2>10. Indexed(Q)
    BY <2>8, <2>9 DEF Indexed
  <2> QED BY <2>5, <2>10 DEF Good, Q
\* The totals of an entry are brought up to date without touching the indexes.
<1>UpdateForDescendantsGood. ASSUME NEW P, NEW t, NEW included, Good(P)
                             PROVE  Good(UpdateForDescendants(P, t, included))
  <2> USE <1>UpdateForDescendantsGood
  <2> DEFINE Q == UpdateForDescendants(P, t, included)
  <2>   P = [txs |-> P.txs, next |-> P.next, parents |-> P.parents, children |-> P.children,
             feeDelta |-> P.feeDelta, desc |-> P.desc, anc |-> P.anc, lock |-> P.lock]
    BY DEF Good, Shaped
  <2>2. \E d, a : Q = [P EXCEPT !.desc = d, !.anc = a]
    BY Zenon DEF UpdateForDescendants
  <2> HIDE DEF Q
  <2>3. Q = [txs |-> P.txs, next |-> P.next, parents |-> P.parents, children |-> P.children,
             feeDelta |-> Q.feeDelta, desc |-> Q.desc, anc |-> Q.anc, lock |-> Q.lock]
    BY <2>2, ZenonT(30)
  <2>4. Good(Q)
    BY <2>3, SameIndexes
  <2> QED BY <2>4 DEF Q
<1>PrioritiseGood. ASSUME NEW t, NEW delta, Good(pool), PrioritiseTransaction(t, delta)
                   PROVE  Good(pool')
  <2> USE <1>PrioritiseGood
  <2>1. pool' = [txs |-> pool.txs, next |-> pool.next, parents |-> pool.parents, children |-> pool.children,
                 feeDelta |-> pool'.feeDelta, desc |-> pool'.desc, anc |-> pool'.anc, lock |-> pool'.lock]
    BY PrioritiseFields
  <2> QED BY <2>1, SameIndexes
<1> SUFFICES ASSUME Good(pool), [Next]_vars
             PROVE  Good(pool')
  BY Zenon
<1>1. ASSUME NEW t \in Txs, AcceptToMemoryPool(t) PROVE Good(pool')
  BY <1>1, <1>AcceptedGood DEF AcceptToMemoryPool
<1>2. CASE Expire \/ TrimToSize
  BY <1>2, RemoveDescendantsGood, ZenonT(30) DEF Expire, TrimToSize
<1>3. ASSUME NEW t \in Txs, NEW d \in Deltas, PrioritiseTransaction(t, d) PROVE Good(pool')
  BY <1>3, <1>PrioritiseGood
<1>4. CASE DropEarliest
  BY <1>4, <1>RemoveRecursiveGood DEF DropEarliest
<1>5. CASE removeForBlock
  <2> DEFINE t == Head(move.work)
             P == RemoveStaged(pool, {t} \cap pool.txs, TRUE)
  <2>1. Good(P)
    BY RemoveStagedGood, ZenonT(30)
  <2>2. pool' = RemoveStaged(P, CalculateDescendants(P, Conflicts(P, t)), FALSE)
    BY <1>5 DEF removeForBlock
  <2> HIDE DEF P, t
  <2> QED BY <2>1, <2>2, RemoveDescendantsGood, Zenon
<1>6. CASE AddBack
  <2>1. PICK t \in Txs : \/ Acceptable(pool, t) /\ pool' = Accepted(pool, t)
                         \/ pool' = removeRecursive(pool, t)
    BY <1>6 DEF AddBack
  <2> QED BY <2>1, <1>AcceptedGood, <1>RemoveRecursiveGood
<1>7. CASE UpdateTransactionsFromBlock
  <2> USE <1>7
  <2> DEFINE t == Last(move.work)
             included == Range(move.vHashUpdate)
             L == LinkChildren(pool, t, included)
  <2>1. CASE t \notin pool.txs
    BY <2>1 DEF UpdateTransactionsFromBlock
  <2>2. CASE t \in pool.txs
    <3> USE <2>2
    <3>1. pool' = UpdateForDescendants(L, t, included)
      BY DEF UpdateTransactionsFromBlock
    <3> HIDE DEF t, included
    <3>2. Good(L)
      BY <1>LinkGood
    <3> HIDE DEF L
    <3> QED BY <3>1, <3>2, <1>UpdateForDescendantsGood
  <2> QED BY <2>1, <2>2
<1>8. CASE removeForReorg
  <2>1. PICK gone, l : LET kept == [pool EXCEPT !.lock = l]
                       IN pool' = RemoveStaged(kept, CalculateDescendants(kept, gone), FALSE)
    BY <1>8, ZenonT(30) DEF removeForReorg
  <2> DEFINE kept == [pool EXCEPT !.lock = l]
  <2>2. pool = [txs |-> pool.txs, next |-> pool.next, parents |-> pool.parents,
                children |-> pool.children, feeDelta |-> pool.feeDelta, desc |-> pool.desc,
                anc |-> pool.anc, lock |-> pool.lock]
    BY DEF Good, Shaped
  <2>3. kept = [txs |-> pool.txs, next |-> pool.next, parents |-> pool.parents,
                children |-> pool.children, feeDelta |-> kept.feeDelta, desc |-> kept.desc,
                anc |-> kept.anc, lock |-> kept.lock]
    BY <2>2
  <2>4. pool' = RemoveStaged(kept, CalculateDescendants(kept, gone), FALSE)
    BY <2>1
  <2> HIDE DEF kept
  <2>5. Good(kept)
    BY <2>3, SameIndexes
  <2> QED BY <2>4, <2>5, RemoveDescendantsGood, Zenon
<1>9. CASE UNCHANGED pool
  BY <1>9
<1> USE <1>9
<1>10. CASE Trimmed \/ DisconnectTip \/ MoveFails \/ ConnectTip \/ ConnectNothing \/ Connected
            \/ AddedBack \/ Relinked
  <2>1. CASE Trimmed \/ DisconnectTip \/ MoveFails
    BY <2>1, ZenonT(30) DEF Trimmed, DisconnectTip, MoveFails
  <2>2. CASE ConnectTip \/ ConnectNothing \/ Connected
    BY <2>2, Zenon DEF ConnectTip, ConnectNothing, Connected
  <2>3. CASE AddedBack \/ Relinked
    BY <2>3 DEF AddedBack, Relinked
  <2> QED BY <1>10, <2>1, <2>2, <2>3
<1>11. ASSUME NEW b \in Blocks, ActivateBestChainStep(b) \/ InvalidateBlock(b) PROVE Good(pool')
  BY <1>11 DEF ActivateBestChainStep, InvalidateBlock, Begin
<1>12. CASE UNCHANGED vars
  BY <1>12 DEF vars
<1> QED
  BY <1>1, <1>2, <1>3, <1>4, <1>5, <1>6, <1>7, <1>8, <1>10, <1>11, <1>12 DEF Next

\* The empty pool.
LEMMA EmptyGood == Good(EmptyPool)
<1>1. None \notin Txs
  BY Shape, ZenonT(30)
<1>2. Shaped(EmptyPool)
  BY Zenon DEF Shaped, EmptyPool
<1>3. Indexed(EmptyPool)
  BY <1>1, Zenon DEF Indexed, EmptyPool
<1> QED BY <1>2, <1>3 DEF Good

\* The three indexes agree in every reachable state, for every set of transactions,
\* every block tree and all limits, whatever is dropped, expired or replaced.
THEOREM IndexesAlwaysAgree == Spec => []IndexesAgree
<1>1. Init => IInv
  BY EmptyGood DEF Init, IInv
<1>2. IInv /\ [Next]_vars => IInv'
  BY GoodStep DEF IInv
<1>3. IInv => IndexesAgree
  BY DEF IInv, Good, IndexesAgree
<1> QED BY <1>1, <1>2, <1>3, PTL DEF Spec

(***************************************************************************)
(* Sequences.                                                              *)
(***************************************************************************)
\* What taking one end off a sequence leaves.
LEMMA Ends ==
  ASSUME NEW T, NEW s \in Seq(T), s # <<>>
  PROVE  /\ Head(s) \in T /\ Tail(s) \in Seq(T) /\ Range(s) = {Head(s)} \cup Range(Tail(s))
         /\ Last(s) \in T /\ Front(s) \in Seq(T) /\ Range(s) = {Last(s)} \cup Range(Front(s))
         /\ IsInjective(s) => /\ Head(s) \notin Range(Tail(s)) /\ IsInjective(Tail(s))
                              /\ Last(s) \notin Range(Front(s)) /\ IsInjective(Front(s))
<1> DEFINE n == Len(s)
<1> n \in Nat /\ n >= 1 /\ DOMAIN s = 1..n /\ \A k \in 1..n : s[k] \in T
  OBVIOUS
<1>2. Head(s) = s[1] /\ Tail(s) \in Seq(T) /\ DOMAIN Tail(s) = 1..(n - 1) /\ \A k \in 1..(n - 1) : Tail(s)[k] = s[k + 1]
  OBVIOUS
<1>3. Last(s) = s[n] /\ Front(s) \in Seq(T) /\ DOMAIN Front(s) = 1..(n - 1) /\ \A k \in 1..(n - 1) : Front(s)[k] = s[k]
  BY DEF Last, Front
<1> HIDE DEF n
<1>4. Range(s) = {Head(s)} \cup Range(Tail(s))
  <2>1. ASSUME NEW k \in 1..n PROVE s[k] \in {Head(s)} \cup Range(Tail(s))
    <3>1. CASE k = 1
      BY <1>2, <3>1
    <3>2. CASE k # 1
      <4>1. k - 1 \in 1..(n - 1) /\ (k - 1) + 1 = k
        BY <3>2
      <4> QED BY <1>2, <4>1, ZenonT(30) DEF Range
    <3> QED BY <3>1, <3>2
  <2>2. Head(s) \in Range(s)
    <3>1. 1 \in 1..n  OBVIOUS
    <3> QED BY <1>2, <3>1, Zenon DEF Range
  <2>3. ASSUME NEW k \in 1..(n - 1) PROVE Tail(s)[k] \in Range(s)
    <3>1. k + 1 \in 1..n  OBVIOUS
    <3> QED BY <1>2, <3>1, Zenon DEF Range
  <2> QED BY <1>2, <2>1, <2>2, <2>3 DEF Range
<1>5. Range(s) = {Last(s)} \cup Range(Front(s))
  <2>1. ASSUME NEW k \in 1..n PROVE s[k] \in {Last(s)} \cup Range(Front(s))
    <3>1. CASE k = n
      BY <1>3, <3>1
    <3>2. CASE k # n
      <4>1. k \in 1..(n - 1)
        BY <3>2
      <4> QED BY <1>3, <4>1 DEF Range
    <3> QED BY <3>1, <3>2
  <2>2. Last(s) \in Range(s)
    <3>1. n \in 1..n  OBVIOUS
    <3> QED BY <1>3, <3>1, Zenon DEF Range
  <2>3. ASSUME NEW k \in 1..(n - 1) PROVE Front(s)[k] \in Range(s)
    <3>1. k \in 1..n  OBVIOUS
    <3> QED BY <1>3, <3>1, Zenon DEF Range
  <2> QED BY <1>3, <2>1, <2>2, <2>3 DEF Range
<1>6. ASSUME IsInjective(s)
      PROVE  /\ Head(s) \notin Range(Tail(s)) /\ IsInjective(Tail(s))
             /\ Last(s) \notin Range(Front(s)) /\ IsInjective(Front(s))
  <2> \A j, k \in 1..n : s[j] = s[k] => j = k
    BY <1>6, Zenon DEF IsInjective
  <2>1. ASSUME NEW j \in 1..(n - 1), NEW k \in 1..(n - 1) PROVE Tail(s)[j] = Tail(s)[k] => j = k
    <3>1. j + 1 \in 1..n /\ k + 1 \in 1..n /\ (j + 1 = k + 1 => j = k)  OBVIOUS
    <3> QED BY <1>2, <3>1, Zenon
  <2>2. ASSUME NEW k \in 1..(n - 1) PROVE Tail(s)[k] # Head(s)
    <3>1. 1 \in 1..n /\ k + 1 \in 1..n /\ k + 1 # 1  OBVIOUS
    <3> QED BY <1>2, <3>1, Zenon
  <2>3. ASSUME NEW j \in 1..(n - 1), NEW k \in 1..(n - 1) PROVE Front(s)[j] = Front(s)[k] => j = k
    <3>1. j \in 1..n /\ k \in 1..n  OBVIOUS
    <3> QED BY <1>3, <3>1, Zenon
  <2>4. ASSUME NEW k \in 1..(n - 1) PROVE Front(s)[k] # Last(s)
    <3>1. n \in 1..n /\ k \in 1..n /\ k # n  OBVIOUS
    <3> QED BY <1>3, <3>1, Zenon
  <2> QED BY <1>2, <1>3, <2>1, <2>2, <2>3, <2>4, Zenon DEF Range, IsInjective
<1>7. Head(s) \in T /\ Last(s) \in T
  BY <1>2, <1>3
<1> QED BY <1>2, <1>3, <1>4, <1>5, <1>6, <1>7, Zenon

LEMMA EmptyRange ==
  /\ Range(<<>>) = {}
  /\ \A T : \A s \in Seq(T) : Range(s) = {} => s = <<>>
<1>1. Range(<<>>) = {}
  BY DEF Range
<1>2. ASSUME NEW T, NEW s \in Seq(T), s # <<>> PROVE Range(s) # {}
  BY <1>2, Ends
<1> QED BY <1>1, <1>2, Zenon

(***************************************************************************)
(* Chains.                                                                 *)
(***************************************************************************)
\* A block adds its transactions to those of its parent's chain.
LEMMA ChainGrows ==
  ASSUME NEW b \in Blocks
  PROVE  /\ b \in Tree /\ Parent[b] \in Tree /\ b \notin Chain[Parent[b]]
         /\ Chain[b] = {b} \cup Chain[Parent[b]] /\ Height[b] = Height[Parent[b]] + 1
         /\ Confirmed[b] = Confirmed[Parent[b]] \cup Range(BlockTxs[b])
<1> b \in Tree /\ Parent[b] \in Tree
  BY Shape DEF Tree
<1> Chain[b] = {b} \cup Chain[Parent[b]] /\ Height[b] = Height[Parent[b]] + 1
  BY Chains, Zenon
<1>3. b \notin Chain[Parent[b]]
  <2>1. Height[Parent[b]] \in Nat /\ \A x \in Chain[Parent[b]] : Height[x] <= Height[Parent[b]]
    BY Chains, Zenon
  <2> QED BY <2>1
<1>4. /\ Confirmed[b] = UNION {Range(BlockTxs[x]) : x \in Chain[b]}
      /\ Confirmed[Parent[b]] = UNION {Range(BlockTxs[x]) : x \in Chain[Parent[b]]}
  BY DEF Confirmed
<1>5. Confirmed[b] = Confirmed[Parent[b]] \cup Range(BlockTxs[b])
  BY <1>4
<1> QED BY <1>3, <1>5, Zenon

LEMMA ConfirmedIn ==
  ASSUME NEW b \in Tree, NEW t
  PROVE  t \in Confirmed[b] <=> \E x \in Chain[b] : t \in Range(BlockTxs[x])
BY DEF Confirmed

\* ConnectBlock's rules for a chain it accepted.
LEMMA Valid ==
  ASSUME NEW b \in Tree, Chain[b] \cap BadConnect = {}
  PROVE  /\ \A x, y \in Chain[b] : \A t : t \in Range(BlockTxs[x]) /\ t \in Range(BlockTxs[y]) => x = y
         /\ \A x \in Chain[b] : x \in Tree /\ IsInjective(BlockTxs[x])
         /\ \A t \in Confirmed[b] : \A o \in Vin[t] : Creator[o] \in Confirmed[b]
         /\ \A t, u \in Confirmed[b] : t # u => Vin[t] \cap Vin[u] = {}
<1>1. \A x, y \in Chain[b] : \A j \in DOMAIN BlockTxs[x], k \in DOMAIN BlockTxs[y] :
        BlockTxs[x][j] = BlockTxs[y][k] => x = y /\ j = k
  BY ValidChains, Zenon
<1>2. \A x \in Chain[b] : x \in Tree
  BY Chains, Zenon
<1>3. /\ \A t \in Confirmed[b] : \A o \in Vin[t] : Creator[o] \in Confirmed[b]
      /\ \A t, u \in Confirmed[b] : t # u => Vin[t] \cap Vin[u] = {}
  BY ValidChains, Zenon
<1>4. \A x \in Chain[b] : IsInjective(BlockTxs[x])
  BY <1>1, Zenon DEF IsInjective
<1>5. ASSUME NEW x \in Chain[b], NEW y \in Chain[b], NEW t, t \in Range(BlockTxs[x]), t \in Range(BlockTxs[y])
      PROVE  x = y
  <2> USE <1>5
  <2>1. PICK j \in DOMAIN BlockTxs[x] : t = BlockTxs[x][j]
    BY Zenon DEF Range
  <2>2. PICK k \in DOMAIN BlockTxs[y] : t = BlockTxs[y][k]
    BY Zenon DEF Range
  <2>3. BlockTxs[x][j] = BlockTxs[y][k]
    BY <2>1, <2>2, Zenon
  <2> QED BY <1>1, <2>3, Zenon
<1> QED BY <1>2, <1>3, <1>4, <1>5, Zenon

\* A block and the chain it extends have no transaction in common.
LEMMA BlockApart ==
  ASSUME NEW b \in Blocks, Chain[b] \cap BadConnect = {}
  PROVE  /\ Chain[Parent[b]] \cap BadConnect = {}
         /\ BlockTxs[b] \in Seq(Txs) /\ IsInjective(BlockTxs[b])
         /\ Range(BlockTxs[b]) \cap Confirmed[Parent[b]] = {}
<1>   /\ b \in Tree /\ Parent[b] \in Tree /\ b \notin Chain[Parent[b]]
      /\ Chain[b] = {b} \cup Chain[Parent[b]]
  BY ChainGrows
<1>2. BlockTxs[b] \in Seq(Txs)
  BY Shape
<1>3. IsInjective(BlockTxs[b])
  BY Valid, Zenon
<1>4. \A x \in Chain[Parent[b]] : \A t : ~(t \in Range(BlockTxs[b]) /\ t \in Range(BlockTxs[x]))
  BY Valid, Zenon
<1>5. \A t \in Confirmed[Parent[b]] : t \notin Range(BlockTxs[b])
  BY <1>4, ConfirmedIn, Zenon
<1> QED BY <1>2, <1>3, <1>5

(***************************************************************************)
(* disconnectpool, the pool and the chain have no transaction in common.   *)
(***************************************************************************)
Resting == {"rest", "accepted", "trim", "expired", "reorganised"}
Moving == {"move", "spill", "block"}
Reorganising == {"readd", "relink", "relinked"}

MoveType == [target : Tree \cup {None}, oldHeight : Int, disconnected : BOOLEAN, queuedTx : Seq(Txs),
             fAddToMempool : BOOLEAN, work : Seq(Txs), vHashUpdate : Seq(Txs)]

Mined == Confirmed[tip]
Queued == Range(move.queuedTx)
Returned == Range(move.vHashUpdate)

\* What removeForBlock has yet to take out of the pool.
Unprocessed == IF phase = "block" THEN Range(move.work) ELSE {}

\* Where the thread is and what its variables hold there.
MoveInv ==
  /\ tip \in Tree /\ Chain[tip] \cap BadConnect = {}
  /\ phase \in Resting \cup Moving \cup Reorganising
  /\ move \in MoveType /\ IsInjective(move.queuedTx)
  /\ phase \in Resting => move = NoMove
  /\ phase \in Moving => move.target \in Tree /\ move.vHashUpdate = <<>>
  /\ phase = "spill" => move.queuedTx # <<>>
  /\ phase \in Moving /\ ~move.disconnected => move.queuedTx = <<>>
  /\ phase = "block" => tip \in Chain[move.target] /\ Range(move.work) \subseteq Mined
  /\ phase \in {"relink", "relinked"} => move.queuedTx = <<>>
  /\ phase = "relink" => Range(move.work) \subseteq Returned

\* No transaction of the chain spends what an entry spends, so no entry is in the
\* chain, and the transactions of disconnectpool are in neither.
ApartInv ==
  /\ \A c \in pool.txs : c \in Txs /\ c \notin Coinbases /\ Vin[c] # {}
  /\ \A c \in pool.txs : \A t \in Mined \ Unprocessed : Vin[c] \cap Vin[t] = {}
  /\ \A t \in Queued : t \notin pool.txs /\ t \notin Mined

\* Entries may leave the pool at any time.
LEMMA FewerApart ==
  ASSUME ApartInv, pool'.txs \subseteq pool.txs, tip' = tip, Unprocessed' = Unprocessed, Queued' \subseteq Queued
  PROVE  ApartInv'
<1>1. Mined' = Mined
  BY DEF Mined
<1> QED BY <1>1, Zenon DEF ApartInv

LEMMA RemovedTxs ==
  ASSUME NEW P, NEW S, NEW d
  PROVE  RemoveStaged(P, S, d).txs = P.txs \ S
BY DEF RemoveStaged

LEMMA RecursiveTxs ==
  ASSUME NEW P, NEW t
  PROVE  removeRecursive(P, t).txs \subseteq P.txs
<1>1. \E S : removeRecursive(P, t) = RemoveStaged(P, S, FALSE)
  BY Zenon DEF removeRecursive
<1>2. PICK S : removeRecursive(P, t) = RemoveStaged(P, S, FALSE)
  BY <1>1, Zenon
<1>3. RemoveStaged(P, S, FALSE).txs = P.txs \ S
  BY RemovedTxs, Zenon
<1> QED BY <1>2, <1>3, Zenon

LEMMA AcceptedTxs ==
  ASSUME NEW P, NEW t
  PROVE  Accepted(P, t).txs = (P.txs \ CalculateDescendants(P, Conflicts(P, t))) \cup {t}
<1> DEFINE Q == RemoveStaged(P, CalculateDescendants(P, Conflicts(P, t)), FALSE)
<1>1. Q.txs = P.txs \ CalculateDescendants(P, Conflicts(P, t))
  BY RemovedTxs, Zenon
<1> HIDE DEF Q
<1>2. \A a, l : addUnchecked(Q, t, a, l).txs = Q.txs \cup {t}
  BY DEF addUnchecked
<1> QED BY <1>1, <1>2, Zenon DEF Accepted, Q

\* Nothing the chain spends is spent by a transaction AcceptToMemoryPool accepts:
\* an input is unspent, or it is an output of an entry, which is not in the chain.
LEMMA AcceptableApart ==
  ASSUME MoveInv, ApartInv, Unprocessed = {}, NEW t \in Txs, Acceptable(pool, t)
  PROVE  /\ t \notin Coinbases /\ Vin[t] # {}
         /\ \A u \in Mined : Vin[t] \cap Vin[u] = {}
<1>1. t \notin Coinbases /\ t \notin NonStandard /\ \A o \in Vin[t] : Creator[o] \in pool.txs \/ o \in Coins[tip]
  BY Zenon DEF Acceptable, HaveCoin
<1>2. Vin[t] # {}
  BY <1>1, Ordinary, Zenon
<1>3. tip \in Tree /\ Chain[tip] \cap BadConnect = {}
  BY Zenon DEF MoveInv
<1>4. ASSUME NEW u \in Mined, NEW o \in Vin[t], o \in Vin[u] PROVE FALSE
  <2>1. CASE o \in Coins[tip]
    <3>1. \A x \in Confirmed[tip] : o \notin Vin[x]
      BY <1>3, <2>1 DEF Coins
    <3> QED BY <1>4, <3>1, Zenon DEF Mined
  <2>2. CASE Creator[o] \in pool.txs
    <3>1. Creator[o] \in Mined
      BY <1>3, <1>4, Valid, Zenon DEF Mined
    <3>2. Vin[Creator[o]] # {} /\ Vin[Creator[o]] \cap Vin[Creator[o]] = {}
      BY <2>2, <3>1, Zenon DEF ApartInv
    <3> QED BY <3>2, Zenon
  <2> QED BY <1>1, <2>1, <2>2, Zenon
<1> QED BY <1>1, <1>2, <1>4, Zenon

\* The steps outside a move.
LEMMA RestingApart ==
  ASSUME MoveInv, ApartInv,
         Expire \/ TrimToSize \/ Trimmed \/ (\E t \in Txs : AcceptToMemoryPool(t))
  PROVE  MoveInv' /\ ApartInv' /\ phase \in Resting /\ phase' \in Resting
<1> phase \in Resting /\ phase' \in Resting /\ tip' = tip /\ move' = move
  BY Zenon DEF Expire, TrimToSize, Trimmed, AcceptToMemoryPool, Resting
<1>2. phase # "block" /\ phase' # "block" /\ phase' \notin Moving /\ phase' \notin Reorganising
  BY DEF Resting, Moving, Reorganising
<1>3. move = NoMove
  BY Zenon DEF MoveInv
<1>4. MoveInv'
  BY <1>2, Zenon DEF MoveInv, Reorganising, Moving, Resting, Mined, Returned
<1>5. Queued' = Queued /\ Queued = {} /\ Unprocessed' = {} /\ Unprocessed = {} /\ Mined' = Mined
  BY <1>2, <1>3 DEF Queued, NoMove, Unprocessed, Mined, Range
<1>6. CASE Expire \/ TrimToSize
  <2>1. pool'.txs \subseteq pool.txs
    <3>1. PICK S : pool' = RemoveStaged(pool, S, FALSE)
      BY <1>6, Zenon DEF Expire, TrimToSize
    <3>2. pool'.txs = pool.txs \ S
      BY <3>1, RemovedTxs, Zenon
    <3> QED BY <3>2
  <2> QED BY <1>2, <1>4, <1>5, <2>1, FewerApart, Zenon
<1>7. CASE Trimmed
  <2>1. pool' = pool
    BY <1>7, Zenon DEF Trimmed
  <2> QED BY <1>2, <1>4, <1>5, <2>1, FewerApart, Zenon
<1>8. ASSUME NEW t \in Txs, AcceptToMemoryPool(t) PROVE ApartInv'
  <2> Acceptable(pool, t) /\ pool' = Accepted(pool, t)
    BY <1>8, Zenon DEF AcceptToMemoryPool
  <2>2. \A c \in pool'.txs : c \in pool.txs \/ c = t
    BY AcceptedTxs
  <2>3. /\ t \notin Coinbases /\ Vin[t] # {}
        /\ \A u \in Mined : Vin[t] \cap Vin[u] = {}
    BY <1>5, AcceptableApart, Zenon
  <2> QED BY <1>5, <2>2, <2>3, Zenon DEF ApartInv
<1> QED BY <1>4, <1>6, <1>7, <1>8, Zenon

LEMMA BeginApart ==
  ASSUME MoveInv, ApartInv, NEW b \in Blocks, ActivateBestChainStep(b) \/ InvalidateBlock(b)
  PROVE  /\ MoveInv' /\ ApartInv' /\ phase \in Resting /\ phase' = "move" /\ pool' = pool /\ tip' = tip
         /\ Queued' = {} /\ Returned' = {} /\ move'.oldHeight = Height[tip]
<1>1. PICK a \in Tree, u \in BOOLEAN : Begin(a, u)
  <2>1. b \in Tree /\ Parent[b] \in Tree /\ tip \in Tree
    BY Shape DEF Tree, MoveInv
  <2> QED BY <2>1, Zenon DEF ActivateBestChainStep, InvalidateBlock
<1>2. /\ phase = "rest" /\ phase' = "move" /\ tip' = tip /\ pool' = pool
      /\ move' = [NoMove EXCEPT !.target = a, !.oldHeight = Height[tip], !.disconnected = u]
  BY <1>1, Zenon DEF Begin
<1>3. tip \in Tree /\ Height[tip] \in Int
  BY Chains DEF MoveInv
<1>4. /\ move' \in MoveType /\ move'.target = a /\ move'.queuedTx = <<>> /\ move'.vHashUpdate = <<>>
      /\ move'.oldHeight = Height[tip]
  <2>1. move' = [target |-> a, oldHeight |-> Height[tip], disconnected |-> u, queuedTx |-> <<>>,
                 fAddToMempool |-> FALSE, work |-> <<>>, vHashUpdate |-> <<>>]
    BY <1>2, Zenon DEF NoMove
  <2>2. <<>> \in Seq(Txs)
    OBVIOUS
  <2>3. move' \in MoveType
    BY <1>3, <2>1, <2>2 DEF MoveType
  <2> QED BY <2>1, <2>3
<1>5. IsInjective(move'.queuedTx) /\ Queued' = {} /\ Returned' = {}
  BY <1>4 DEF IsInjective, Queued, Returned, Range
<1>6. MoveInv'
  BY <1>2, <1>4, <1>5 DEF MoveInv, Moving, Resting
<1>7. Unprocessed = {} /\ Unprocessed' = {} /\ Mined' = Mined
  BY <1>2 DEF Unprocessed, Mined
<1> QED BY <1>2, <1>4, <1>5, <1>6, <1>7, FewerApart, Zenon DEF Resting

LEMMA EmptyFits ==
  ASSUME NEW q, q = <<>>
  PROVE  ~(Len(q) > MaxDisconnected)
<1>1. MaxDisconnected \in Nat
  BY Shape, Zenon
<1> QED BY <1>1

\* A disconnected block's transactions were in the chain, so they are not in the
\* pool, and no longer in the chain.
LEMMA DisconnectApart ==
  MoveInv /\ ApartInv /\ DisconnectTip =>
    /\ MoveInv' /\ ApartInv' /\ tip \in Blocks /\ tip' = Parent[tip] /\ pool' = pool
    /\ phase = "move" /\ phase' \in {"move", "spill"} /\ move'.disconnected
    /\ move'.target = move.target /\ Returned = {} /\ Returned' = {}
    /\ Queued' = Queued \cup Range(BlockTxs[tip]) /\ Queued \cap Mined = {}
    /\ Range(BlockTxs[tip]) \cap pool.txs = {}
\* What a disconnected block adds to disconnectpool.
<1>Joined. ASSUME NEW T, NEW s \in Seq(T), NEW u \in Seq(T)
           PROVE  /\ s \o Reverse(u) \in Seq(T) /\ Range(s \o Reverse(u)) = Range(s) \cup Range(u)
                  /\ IsInjective(s) /\ IsInjective(u) /\ Range(s) \cap Range(u) = {} => IsInjective(s \o Reverse(u))
  <2> USE <1>Joined
  <2> DEFINE n == Len(s)
             m == Len(u)
             v == Reverse(u)
             j == s \o v
  <2>   /\ n \in Nat /\ DOMAIN s = 1..n /\ \A k \in 1..n : s[k] \in T
        /\ m \in Nat /\ DOMAIN u = 1..m /\ \A k \in 1..m : u[k] \in T
    OBVIOUS
  <2>2. v \in Seq(T) /\ Len(v) = m /\ \A k \in 1..m : v[k] = u[m + 1 - k]
    <3>1. \A k \in 1..m : m + 1 - k \in 1..m
      OBVIOUS
    <3> QED BY <3>1 DEF Reverse
  <2> HIDE DEF v
  <2>   /\ j \in Seq(T) /\ DOMAIN j = 1..(n + m)
        /\ \A k \in 1..n : j[k] = s[k]
        /\ \A k \in 1..m : j[n + k] = u[m + 1 - k]
    <3>0. v \in Seq(T) /\ Len(v) = m
      BY <2>2
    <3>1. j \in Seq(T) /\ Len(j) = n + m
      BY <3>0
    <3> \A k \in 1..(n + m) : j[k] = IF k <= n THEN s[k] ELSE v[k - n]
      BY <2>2
    <3> HIDE DEF n, m, j
    <3>3. \A k \in 1..n : k \in 1..(n + m) /\ k <= n
      OBVIOUS
    <3>4. \A k \in 1..m : n + k \in 1..(n + m) /\ ~(n + k <= n) /\ (n + k) - n = k
      OBVIOUS
    <3>5. \A k \in 1..m : j[n + k] = u[m + 1 - k]
      BY <2>2, <3>4
    <3> QED BY <3>1, <3>3, <3>5
  <2> HIDE DEF n, m, j
  <2>4. ASSUME NEW k \in 1..(n + m) PROVE k \in 1..n \/ \E i \in 1..m : k = n + i /\ m + 1 - i \in 1..m
    <3>1. CASE k <= n
      BY <3>1
    <3>2. CASE ~(k <= n)
      <4>1. k - n \in 1..m /\ k = n + (k - n) /\ m + 1 - (k - n) \in 1..m
        BY <3>2
      <4> QED BY <4>1, Zenon
    <3> QED BY <3>1, <3>2, Zenon
  <2>5. Range(j) = Range(s) \cup Range(u)
    <3>1. ASSUME NEW k \in 1..(n + m) PROVE j[k] \in Range(s) \cup Range(u)
      <4>1. CASE k \in 1..n
        BY <4>1, Zenon DEF Range
      <4>2. ASSUME NEW i \in 1..m, k = n + i, m + 1 - i \in 1..m PROVE j[k] \in Range(u)
        BY <4>2, Zenon DEF Range
      <4> QED BY <2>4, <4>1, <4>2, Zenon
    <3>2. ASSUME NEW k \in 1..n PROVE s[k] \in Range(j)
      <4>1. k \in 1..(n + m)  OBVIOUS
      <4> QED BY <4>1, Zenon DEF Range
    <3>3. ASSUME NEW k \in 1..m PROVE u[k] \in Range(j)
      <4> m + 1 - k \in 1..m /\ m + 1 - (m + 1 - k) = k /\ n + (m + 1 - k) \in 1..(n + m)  OBVIOUS
      <4>2. j[n + (m + 1 - k)] = u[k]
        BY Zenon
      <4> QED BY <4>2, Zenon DEF Range
    <3> QED BY <3>1, <3>2, <3>3, Zenon DEF Range
  <2>6. ASSUME IsInjective(s), IsInjective(u), Range(s) \cap Range(u) = {} PROVE IsInjective(j)
    <3>1. /\ \A a, b \in 1..n : s[a] = s[b] => a = b
          /\ \A a, b \in 1..m : u[a] = u[b] => a = b
          /\ \A a \in 1..n, b \in 1..m : s[a] # u[b]
      <4> HIDE DEF j, v
      <4>1. \A a \in 1..n, b \in 1..m : s[a] \in Range(s) /\ u[b] \in Range(u)
        BY Zenon DEF Range
      <4> QED BY <2>6, <4>1, Zenon DEF IsInjective
    <3>2. ASSUME NEW a \in 1..(n + m), NEW b \in 1..(n + m), j[a] = j[b] PROVE a = b
      <4>1. CASE a \in 1..n /\ b \in 1..n
        BY <3>1, <3>2, <4>1, Zenon
      <4>2. CASE a \notin 1..n /\ b \notin 1..n
        <5> USE <4>2
        <5> PICK x \in 1..m : a = n + x /\ m + 1 - x \in 1..m
          BY <2>4, Zenon
        <5> PICK y \in 1..m : b = n + y /\ m + 1 - y \in 1..m
          BY <2>4, Zenon
        <5>3. j[a] = u[m + 1 - x] /\ j[b] = u[m + 1 - y]
          BY Zenon
        <5>4. m + 1 - x = m + 1 - y
          BY <3>1, <3>2, <5>3, Zenon
        <5> QED BY <5>4
      <4>3. ASSUME NEW x \in 1..n, NEW y \in 1..(n + m), y \notin 1..n, j[x] = j[y] PROVE FALSE
        <5> USE <4>3
        <5> PICK z \in 1..m : y = n + z /\ m + 1 - z \in 1..m
          BY <2>4, Zenon
        <5>2. j[x] = s[x] /\ j[y] = u[m + 1 - z]
          BY Zenon
        <5> QED BY <3>1, <5>2, Zenon
      <4> QED BY <3>2, <4>1, <4>2, <4>3, Zenon
    <3> QED BY <3>2, Zenon DEF IsInjective
  <2> QED BY <2>5, <2>6, Zenon DEF j, v
<1> SUFFICES ASSUME MoveInv, ApartInv, DisconnectTip
             PROVE  /\ MoveInv' /\ ApartInv' /\ tip \in Blocks /\ tip' = Parent[tip] /\ pool' = pool
                    /\ phase = "move" /\ phase' \in {"move", "spill"} /\ move'.disconnected
                    /\ move'.target = move.target /\ Returned = {} /\ Returned' = {}
                    /\ Queued' = Queued \cup Range(BlockTxs[tip]) /\ Queued \cap Mined = {}
                    /\ Range(BlockTxs[tip]) \cap pool.txs = {}
  BY Zenon
<1> DEFINE queue == move.queuedTx \o Reverse(BlockTxs[tip])
<1>1. /\ phase = "move" /\ tip \notin Chain[move.target] /\ tip' = Parent[tip] /\ pool' = pool
      /\ move' = [move EXCEPT !.queuedTx = queue, !.disconnected = TRUE]
      /\ phase' = IF Len(queue) > MaxDisconnected THEN "spill" ELSE "move"
  BY DEF DisconnectTip, ToDisconnect, Spill
<1>2. /\ tip \in Tree /\ Chain[tip] \cap BadConnect = {} /\ move \in MoveType /\ IsInjective(move.queuedTx)
      /\ move.target \in Tree /\ move.vHashUpdate = <<>>
  BY <1>1, Zenon DEF MoveInv, Moving
<1>3. tip \in Blocks
  <2>1. Genesis \in Chain[move.target]
    BY <1>2, Chains
  <2> QED BY <1>1, <1>2, <2>1 DEF Tree
<1>4. /\ Chain[Parent[tip]] \cap BadConnect = {} /\ Parent[tip] \in Tree
      /\ BlockTxs[tip] \in Seq(Txs) /\ IsInjective(BlockTxs[tip])
      /\ Range(BlockTxs[tip]) \cap Confirmed[Parent[tip]] = {}
      /\ Mined = Confirmed[Parent[tip]] \cup Range(BlockTxs[tip])
  BY <1>2, <1>3, BlockApart, ChainGrows, Zenon DEF Mined
<1>5. Range(move.queuedTx) \cap Range(BlockTxs[tip]) = {}
  BY <1>4, Zenon DEF ApartInv, Queued
<1>6. move.queuedTx \in Seq(Txs)
  BY <1>2 DEF MoveType
<1>7. queue \in Seq(Txs) /\ IsInjective(queue) /\ Range(queue) = Range(move.queuedTx) \cup Range(BlockTxs[tip])
  <2>0. BlockTxs[tip] \in Seq(Txs)
    BY <1>4
  <2>1. queue \in Seq(Txs) /\ Range(queue) = Range(move.queuedTx) \cup Range(BlockTxs[tip])
    BY <1>6, <2>0, <1>Joined
  <2>2. IsInjective(queue)
    BY <1>2, <1>4, <1>5, <1>6, <1>Joined, Zenon
  <2> QED BY <2>1, <2>2, Zenon
<1>8. phase' = "spill" => queue # <<>>
  BY <1>1, EmptyFits, Zenon
<1> HIDE DEF queue
<1>   /\ move' \in MoveType /\ move'.queuedTx = queue /\ move'.vHashUpdate = <<>>
      /\ move'.target = move.target /\ move'.disconnected
  BY <1>1, <1>2, <1>7, Zenon DEF MoveType
<1>10. phase' \in {"move", "spill"} /\ phase' \in Moving /\ phase' \notin Resting /\ phase' \notin {"block", "relink", "relinked"}
  BY <1>1 DEF Moving, Resting
<1>11. MoveInv'
  <2>1. IsInjective(move.queuedTx)'
    BY <1>7
  <2> QED BY <1>1, <1>2, <1>4, <1>8, <1>10, <2>1, Zenon DEF MoveInv
<1>12. Queued' = Queued \cup Range(BlockTxs[tip]) /\ Mined' = Confirmed[Parent[tip]] /\ Unprocessed = {} /\ Unprocessed' = {}
  BY <1>1, <1>7, <1>10 DEF Queued, Mined, Unprocessed
<1> \A c \in pool.txs : c \notin Mined
  <2> SUFFICES ASSUME NEW c \in pool.txs, c \in Mined PROVE FALSE
    OBVIOUS
  <2>1. Vin[c] # {} /\ Vin[c] \cap Vin[c] = {}
    BY <1>12, Zenon DEF ApartInv
  <2> QED BY <2>1
<1>14. ApartInv'
  BY <1>1, <1>4, <1>12, Zenon DEF ApartInv
<1>15. Returned = {} /\ Returned' = {}
  BY <1>2 DEF Returned, Range
<1>16. Queued \cap Mined = {}
  BY Zenon DEF ApartInv
<1>17. Range(BlockTxs[tip]) \cap pool.txs = {}
  BY <1>4, Zenon
<1> QED BY <1>1, <1>3, <1>10, <1>11, <1>12, <1>14, <1>15, <1>16, <1>17, Zenon

LEMMA DropApart ==
  ASSUME MoveInv, ApartInv, DropEarliest
  PROVE  /\ MoveInv' /\ ApartInv' /\ phase = "spill" /\ phase' \in {"move", "spill"} /\ tip' = tip
         /\ move'.target = move.target /\ move'.disconnected = move.disconnected
         /\ Returned = {} /\ Returned' = {}
         /\ Head(move.queuedTx) \in Queued /\ Queued' = Queued \ {Head(move.queuedTx)}
         /\ pool' = removeRecursive(pool, Head(move.queuedTx))
<1> DEFINE t == Head(move.queuedTx)
           queue == Tail(move.queuedTx)
<1>   /\ phase = "spill" /\ tip' = tip /\ pool' = removeRecursive(pool, t)
      /\ move' = [move EXCEPT !.queuedTx = queue]
      /\ phase' = IF Len(queue) > MaxDisconnected THEN "spill" ELSE "move"
  BY DEF DropEarliest, Spill
<1>   /\ tip \in Tree /\ Chain[tip] \cap BadConnect = {} /\ move \in MoveType /\ IsInjective(move.queuedTx)
      /\ move.target \in Tree /\ move.vHashUpdate = <<>> /\ move.queuedTx # <<>> /\ (~move.disconnected => move.queuedTx = <<>>)
  BY Zenon DEF MoveInv, Moving
<1>3. move.queuedTx \in Seq(Txs)
  BY DEF MoveType
<1>4. queue \in Seq(Txs) /\ IsInjective(queue) /\ Range(move.queuedTx) = {t} \cup Range(queue) /\ t \notin Range(queue)
  BY <1>3, Ends, Zenon
<1>5. phase' = "spill" => queue # <<>>
  BY EmptyFits, Zenon
<1> HIDE DEF queue, t
<1>   /\ move' \in MoveType /\ move'.queuedTx = queue /\ move'.vHashUpdate = <<>>
      /\ move'.target = move.target /\ move'.disconnected = move.disconnected
  BY <1>4, Zenon DEF MoveType
<1> phase' \in {"move", "spill"} /\ phase' \in Moving /\ phase' \notin Resting /\ phase' \notin {"block", "relink", "relinked"}
  BY DEF Moving, Resting
<1>8. MoveInv'
  <2>1. IsInjective(move.queuedTx)'
    BY <1>4
  <2> QED BY <1>5, <2>1, Zenon DEF MoveInv
<1> Queued' = Queued \ {t} /\ t \in Queued /\ Unprocessed = {} /\ Unprocessed' = {}
  BY <1>4 DEF Queued, Unprocessed
<1>10. pool'.txs \subseteq pool.txs
  BY RecursiveTxs
<1>11. ApartInv'
  BY <1>10, FewerApart
<1>12. Returned = {} /\ Returned' = {}
  BY DEF Returned, Range
<1> QED BY <1>8, <1>11, <1>12, Zenon DEF t

\* The transactions of a connected block leave disconnectpool at once, the pool
\* one by one.
LEMMA ConnectApart ==
  MoveInv /\ ApartInv /\ ConnectTip =>
    /\ MoveInv' /\ ApartInv' /\ phase = "move" /\ phase' = "block" /\ pool' = pool
    /\ tip' \in Blocks /\ Parent[tip'] = tip /\ Mined' = Mined \cup Unprocessed'
    /\ move'.target = move.target /\ move'.disconnected = move.disconnected
    /\ Returned = {} /\ Returned' = {}
    /\ Unprocessed' = Range(BlockTxs[tip']) /\ Queued' = Queued \ Unprocessed'
\* What removing transactions from disconnectpool leaves.
<1>Left. ASSUME NEW T, NEW s \in Seq(T), NEW S, NEW r \in Without(s, S)
         PROVE  /\ r \in Seq(T) /\ Range(r) = Range(s) \ S
                /\ IsInjective(s) => IsInjective(r)
  <2> USE <1>Left
  <2> DEFINE kept == {k \in DOMAIN s : s[k] \notin S}
  <2>1. PICK f \in UNION {Bijection(1..n, kept) : n \in 0..Len(s)} : r = [k \in DOMAIN f |-> s[f[k]]]
    BY Zenon DEF Without
  <2>2. PICK n \in 0..Len(s) : f \in Bijection(1..n, kept)
    BY Zenon
  <2>3. /\ f \in [1..n -> kept] /\ \A j, k \in 1..n : f[j] = f[k] => j = k
        /\ \A k \in kept : \E j \in 1..n : f[j] = k
    BY <2>2, Zenon DEF Bijection, Injection, Surjection, IsInjective
  <2>4. n \in Nat /\ r = [k \in 1..n |-> s[f[k]]]
    BY <2>1, <2>3
  <2>5. \A k \in kept : k \in DOMAIN s /\ s[k] \in T /\ s[k] \notin S
    OBVIOUS
  <2>6. r \in Seq(T) /\ DOMAIN r = 1..n
    <3>1. \A k \in 1..n : s[f[k]] \in T
      BY <2>3, <2>5
    <3> QED BY <2>4, <3>1
  <2>7. Range(r) = Range(s) \ S
    <3>1. \A x \in DOMAIN s : s[x] \notin S => x \in kept
      OBVIOUS
    <3> HIDE DEF kept
    <3>2. ASSUME NEW k \in 1..n PROVE r[k] \in Range(s) \ S
      <4>1. r[k] = s[f[k]] /\ f[k] \in kept
        BY <2>3, <2>4
      <4> QED BY <2>5, <4>1, Zenon DEF Range
    <3>3. ASSUME NEW x \in DOMAIN s, s[x] \notin S PROVE s[x] \in Range(r)
      <4> PICK k \in 1..n : f[k] = x
        BY <2>3, <3>1, <3>3, Zenon
      <4>2. r[k] = s[x]
        BY <2>4
      <4> QED BY <2>6, <4>2, Zenon DEF Range
    <3> QED BY <2>6, <3>2, <3>3, Zenon DEF Range
  <2>8. IsInjective(s) => IsInjective(r)
    <3> HIDE DEF kept
    <3> SUFFICES ASSUME IsInjective(s), NEW j \in 1..n, NEW k \in 1..n, r[j] = r[k] PROVE j = k
      BY <2>6, Zenon DEF IsInjective
    <3>1. r[j] = s[f[j]] /\ r[k] = s[f[k]] /\ f[j] \in kept /\ f[k] \in kept
      BY <2>3, <2>4
    <3>2. f[j] = f[k]
      BY <2>5, <3>1, Zenon DEF IsInjective
    <3> QED BY <2>3, <3>2, Zenon
  <2> QED BY <2>6, <2>7, <2>8, Zenon
\* The block above the tip on the way to the target.
<1>NextFacts. ASSUME tip \in Tree, move.target \in Tree, tip \in Chain[move.target], tip # move.target
              PROVE  NextBlock \in Blocks /\ NextBlock \in Chain[move.target] /\ Parent[NextBlock] = tip
  <2> USE <1>NextFacts
  <2> DEFINE b == move.target
             n == NextBlock
  <2>1. \E y \in Chain[b] : Height[y] = Height[tip] + 1
    BY Chains, Zenon
  <2> n \in Chain[b] /\ Height[n] = Height[tip] + 1
    BY <2>1 DEF NextBlock
  <2> HIDE DEF n
  <2> n \in Tree /\ Height[tip] \in Nat /\ Height[n] \in Nat
    BY Chains
  <2>4. n # Genesis
    BY Chains
  <2>5. n \in Blocks
    BY <2>4 DEF Tree
  <2>6. tip \in Chain[n] /\ tip # n
    <3>1. Height[tip] <= Height[n]
      OBVIOUS
    <3> QED BY <3>1, Chains
  <2> tip \in Chain[Parent[n]] /\ Parent[n] \in Tree /\ Height[Parent[n]] = Height[tip]
    <3>1. Height[Parent[n]] \in Nat /\ Height[n] = Height[Parent[n]] + 1 /\ Parent[n] \in Tree /\ Chain[n] = {n} \cup Chain[Parent[n]]
      BY <2>5, ChainGrows, Chains, Zenon
    <3> QED BY <2>6, <3>1
  <2>8. CASE Parent[n] \in Blocks /\ tip # Parent[n]
    <3> USE <2>8
    <3> DEFINE q == Parent[n]
    <3> Chain[q] = {q} \cup Chain[Parent[q]] /\ Parent[q] \in Tree /\ Height[q] = Height[Parent[q]] + 1 /\ Height[Parent[q]] \in Nat
      BY ChainGrows, Chains
    <3>2. tip \in Chain[Parent[q]]
      OBVIOUS
    <3>3. Height[tip] <= Height[Parent[q]]
      BY <3>2, Chains, Zenon
    <3> QED BY <3>3
  <2>9. CASE Parent[n] = Genesis
    <3>1. Chain[Genesis] = {Genesis}
      BY Chains, Zenon
    <3>2. Parent[n] = tip
      BY <2>9, <3>1
    <3> QED BY <2>5, <3>2 DEF n
  <2> QED BY <2>5, <2>8, <2>9 DEF Tree, n
<1> SUFFICES ASSUME MoveInv, ApartInv, ConnectTip
             PROVE  /\ MoveInv' /\ ApartInv' /\ phase = "move" /\ phase' = "block" /\ pool' = pool
                    /\ tip' \in Blocks /\ Parent[tip'] = tip /\ Mined' = Mined \cup Unprocessed'
                    /\ move'.target = move.target /\ move'.disconnected = move.disconnected
                    /\ Returned = {} /\ Returned' = {}
                    /\ Unprocessed' = Range(BlockTxs[tip']) /\ Queued' = Queued \ Unprocessed'
  BY Zenon
<1> DEFINE b == NextBlock
<1>   PICK left \in Without(move.queuedTx, Range(BlockTxs[b])) :
        /\ phase = "move" /\ tip \in Chain[move.target] /\ tip # move.target /\ b \notin BadConnect
        /\ tip' = b /\ phase' = "block" /\ pool' = pool
        /\ move' = [move EXCEPT !.work = BlockTxs[b], !.queuedTx = left]
  BY Zenon DEF ConnectTip, ToConnect
<1>2. /\ tip \in Tree /\ Chain[tip] \cap BadConnect = {} /\ move \in MoveType /\ IsInjective(move.queuedTx)
      /\ move.target \in Tree /\ move.vHashUpdate = <<>> /\ (~move.disconnected => move.queuedTx = <<>>)
  BY Zenon DEF MoveInv, Moving
<1>3. b \in Blocks /\ b \in Chain[move.target] /\ Parent[b] = tip
  BY <1>2, <1>NextFacts, Zenon
<1> HIDE DEF b
<1>4. b \in Tree /\ Chain[b] = {b} \cup Chain[tip] /\ Confirmed[b] = Confirmed[tip] \cup Range(BlockTxs[b])
  BY <1>3, ChainGrows, Zenon
<1>5. Chain[b] \cap BadConnect = {}
  BY <1>2, <1>4
<1>6. move.queuedTx \in Seq(Txs) /\ BlockTxs[b] \in Seq(Txs)
  BY <1>2, <1>4, Shape DEF MoveType
<1>7. left \in Seq(Txs) /\ IsInjective(left) /\ Range(left) = Range(move.queuedTx) \ Range(BlockTxs[b])
  BY <1>2, <1>6, <1>Left, Zenon
<1>8. move.queuedTx = <<>> => left = <<>>
  <2> SUFFICES ASSUME move.queuedTx = <<>> PROVE left = <<>>
    OBVIOUS
  <2>1. Range(left) = {}
    BY <1>7, EmptyRange
  <2> QED BY <1>7, <2>1, EmptyRange, Zenon
<1>   /\ move' \in MoveType /\ move'.queuedTx = left /\ move'.vHashUpdate = <<>> /\ move'.work = BlockTxs[b]
      /\ move'.target = move.target /\ move'.disconnected = move.disconnected
  BY <1>2, <1>6, <1>7, Zenon DEF MoveType
<1>    /\ Mined' = Mined \cup Unprocessed' /\ Unprocessed' = Range(BlockTxs[b]) /\ Unprocessed = {}
       /\ Queued' = Queued \ Unprocessed' /\ Returned = {} /\ Returned' = {}
  <2> Unprocessed' = Range(BlockTxs[b]) /\ Unprocessed = {}
    BY DEF Unprocessed
  <2>2. Mined' = Mined \cup Unprocessed'
    BY <1>4, Zenon DEF Mined
  <2>3. Queued' = Queued \ Unprocessed'
    BY <1>7, Zenon DEF Queued
  <2>4. Returned = {} /\ Returned' = {}
    BY <1>2, EmptyRange, Zenon DEF Returned
  <2> QED BY <2>2, <2>3, <2>4, Zenon
<1>11. phase' \in Moving /\ phase' \notin Resting /\ phase' # "spill" /\ phase' \notin {"relink", "relinked"}
  BY DEF Moving, Resting
<1>12. MoveInv'
  <2>1. IsInjective(move.queuedTx)' /\ Range(move.work)' \subseteq Mined' /\ tip' \in Chain[move.target]'
    BY <1>3, <1>7
  <2>2. tip' \in Tree /\ Chain[tip'] \cap BadConnect = {}
    BY <1>4, <1>5
  <2> QED BY <1>2, <1>8, <1>11, <2>1, <2>2, Zenon DEF MoveInv
<1>13. ApartInv'
  BY Zenon DEF ApartInv
<1> QED BY <1>3, <1>12, <1>13, Zenon

\* What conflicts with a transaction of the block leaves the pool.
LEMMA BlockLoopApart ==
  ASSUME Good(pool), MoveInv, ApartInv, removeForBlock
  PROVE  /\ MoveInv' /\ ApartInv' /\ phase = "block" /\ phase' = "block" /\ tip' = tip
         /\ move'.target = move.target /\ move'.disconnected = move.disconnected
         /\ Queued' = Queued /\ Returned = {} /\ Returned' = {}
         /\ Head(move.work) \in Mined /\ Unprocessed = {Head(move.work)} \cup Unprocessed'
         /\ pool'.txs \subseteq pool.txs \ {Head(move.work)}
<1> DEFINE t == Head(move.work)
           P == RemoveStaged(pool, {t} \cap pool.txs, TRUE)
           S == CalculateDescendants(P, Conflicts(P, t))
<1>1. /\ phase = "block" /\ phase' = "block" /\ tip' = tip /\ move.work # <<>>
      /\ move' = [move EXCEPT !.work = Tail(@)] /\ pool' = RemoveStaged(P, S, FALSE)
  BY DEF removeForBlock
<1>2. Good(P) /\ P.txs = pool.txs \ {t}
  <2>1. {t} \cap pool.txs \subseteq pool.txs
    BY Zenon
  <2>2. P.txs = pool.txs \ ({t} \cap pool.txs)
    BY RemovedTxs, Zenon
  <2> QED BY <2>1, <2>2, RemoveStagedGood, Zenon
<1>3. pool'.txs = P.txs \ S
  BY <1>1, RemovedTxs, Zenon
<1> HIDE DEF P
<1>4. /\ move \in MoveType /\ IsInjective(move.queuedTx) /\ tip \in Chain[move.target] /\ Range(move.work) \subseteq Mined
      /\ move.target \in Tree /\ move.vHashUpdate = <<>> /\ (~move.disconnected => move.queuedTx = <<>>)
      /\ tip \in Tree /\ Chain[tip] \cap BadConnect = {}
  BY <1>1, Zenon DEF MoveInv, Moving
<1>5. move.work \in Seq(Txs)
  BY <1>4 DEF MoveType
<1>6. t \in Txs /\ Tail(move.work) \in Seq(Txs) /\ Range(move.work) = {t} \cup Range(Tail(move.work))
  BY <1>1, <1>5, Ends, Zenon
<1> HIDE DEF t
<1>7. /\ move' \in MoveType /\ move'.queuedTx = move.queuedTx /\ move'.vHashUpdate = <<>> /\ move'.work = Tail(move.work)
      /\ move'.target = move.target /\ move'.disconnected = move.disconnected
  BY <1>1, <1>4, <1>6, ZenonT(30) DEF MoveType
<1>8. /\ Mined' = Mined /\ Unprocessed = {t} \cup Unprocessed' /\ Queued' = Queued /\ Returned = {} /\ Returned' = {}
  <2>1. Mined' = Mined /\ Queued' = Queued
    BY <1>1, <1>7, Zenon DEF Mined, Queued
  <2>2. Unprocessed = {t} \cup Unprocessed'
    BY <1>1, <1>6, <1>7, Zenon DEF Unprocessed
  <2>3. Returned = {} /\ Returned' = {}
    BY <1>4, <1>7, EmptyRange, Zenon DEF Returned
  <2> QED BY <2>1, <2>2, <2>3, Zenon
<1>9. phase' \in Moving /\ phase' \notin Resting /\ phase' # "spill" /\ phase' \notin {"relink", "relinked"}
  BY <1>1 DEF Moving, Resting
<1>10. MoveInv'
  <2>1. IsInjective(move.queuedTx)' /\ Range(move.work)' \subseteq Mined' /\ tip' \in Chain[move.target]'
    BY <1>1, <1>4, <1>6, <1>7, <1>8
  <2> QED BY <1>1, <1>4, <1>7, <1>9, <2>1, Zenon DEF MoveInv
<1>11. ASSUME NEW c \in pool'.txs PROVE Vin[c] \cap Vin[t] = {}
  <2> SUFFICES ASSUME NEW o \in Vin[c], o \in Vin[t] PROVE FALSE
    OBVIOUS
  <2> c \in P.txs /\ c \notin S /\ c \in Txs
    BY <1>2, <1>3, <1>11 DEF Good, Shaped
  <2>2. o \in OutPoints
    BY <1>6, Shape, Zenon
  <2>3. P.next[o] = c /\ c # None
    BY <1>2, <2>2, Shape DEF Good, Indexed
  <2>4. c \in Conflicts(P, t)
    BY <2>3 DEF Conflicts
  <2>5. c \in S
    BY <2>4, ReachableHas DEF CalculateDescendants
  <2> QED BY <2>5
<1> pool'.txs \subseteq pool.txs \ {t}
  BY <1>2, <1>3
<1>13. ApartInv'
  <2>1. \A c \in pool'.txs : \A x \in Mined \ Unprocessed' : Vin[c] \cap Vin[x] = {}
    BY <1>8, <1>11, Zenon DEF ApartInv
  <2> QED BY <1>8, <2>1, Zenon DEF ApartInv
<1>14. t \in Mined
  BY <1>4, <1>6
<1> QED BY <1>1, <1>7, <1>8, <1>10, <1>13, <1>14, Zenon DEF t

\* The end of a move, or of the connection of a block on the way.
LEMMA StopApart ==
  ASSUME MoveInv, ApartInv, MoveFails \/ ConnectNothing \/ Connected
  PROVE  /\ MoveInv' /\ ApartInv' /\ phase \in {"move", "block"} /\ Unprocessed = {} /\ pool' = pool /\ tip' = tip
         /\ Returned = {} /\ Returned' = {} /\ Queued' = Queued
         /\ \/ phase' = "rest" /\ ~move.disconnected /\ Queued = {}
            \/ phase' = "readd"
            \/ phase = "block" /\ phase' = "move" /\ move' = move /\ tip \in Chain[move.target]
<1>   /\ phase = "move" \/ (phase = "block" /\ move.work = <<>>)
      /\ pool' = pool /\ tip' = tip
      /\ \/ phase' = "readd" /\ \E add \in BOOLEAN : move' = [move EXCEPT !.fAddToMempool = add]
         \/ phase' = "rest" /\ ~move.disconnected /\ move' = NoMove
         \/ phase = "block" /\ phase' = "move" /\ move' = move
  <2>1. CASE MoveFails
    BY <2>1, Zenon DEF MoveFails, ToConnect, ToDisconnect, Reorganise
  <2>2. CASE ConnectNothing
    BY <2>2, Zenon DEF ConnectNothing, ToConnect, Reorganise, Stop
  <2>3. CASE Connected
    BY <2>3, Zenon DEF Connected, Reorganise, Stop
  <2> QED BY <2>1, <2>2, <2>3, Zenon
<1>2. phase \in {"move", "block"} /\ phase \in Moving /\ Unprocessed = {}
  BY EmptyRange DEF Moving, Unprocessed
<1>3. /\ tip \in Tree /\ Chain[tip] \cap BadConnect = {} /\ move \in MoveType /\ IsInjective(move.queuedTx)
      /\ move.target \in Tree /\ move.vHashUpdate = <<>> /\ (~move.disconnected => move.queuedTx = <<>>)
      /\ (phase = "block" => tip \in Chain[move.target])
  BY <1>2, Zenon DEF MoveInv, Moving
<1>4. Returned = {}
  BY <1>3, EmptyRange, Zenon DEF Returned
<1>5. CASE phase' = "readd" /\ \E add \in BOOLEAN : move' = [move EXCEPT !.fAddToMempool = add]
  <2>0. PICK add \in BOOLEAN : move' = [move EXCEPT !.fAddToMempool = add]
    BY <1>5, Zenon
  <2>1. move' \in MoveType /\ move'.queuedTx = move.queuedTx /\ move'.vHashUpdate = <<>>
    BY <1>3, <2>0, Zenon DEF MoveType
  <2> phase' \notin Moving /\ phase' \notin Resting /\ phase' \in Reorganising /\ phase' \notin {"spill", "block", "relink", "relinked"}
    BY <1>5 DEF Moving, Resting, Reorganising
  <2>3. MoveInv'
    BY <1>3, <2>1, Zenon DEF MoveInv
  <2>4. Unprocessed' = {}
    BY DEF Unprocessed
  <2> Queued' = Queued /\ Returned' = {}
    BY <2>1, EmptyRange, Zenon DEF Queued, Returned
  <2>6. ApartInv'
    BY <1>2, <2>4, FewerApart, Zenon
  <2> QED BY <1>2, <1>4, <1>5, <2>3, <2>6, Zenon
<1>6. CASE phase' = "rest" /\ ~move.disconnected /\ move' = NoMove
  <2> USE <1>6
  <2> move' \in MoveType /\ move'.queuedTx = <<>> /\ move'.vHashUpdate = <<>>
    BY DEF MoveType, NoMove
  <2>2. phase' \notin Moving /\ phase' \in Resting /\ phase' \notin Reorganising /\ phase' \notin {"spill", "block", "relink", "relinked"}
    BY DEF Moving, Resting, Reorganising
  <2>3. MoveInv'
    <3>1. IsInjective(move.queuedTx)'
      BY DEF IsInjective
    <3> QED BY <1>3, <2>2, <3>1, Zenon DEF MoveInv
  <2>4. Unprocessed' = {}
    BY <2>2 DEF Unprocessed
  <2> Queued' = {} /\ Returned' = {} /\ Queued = {}
    BY <1>3, EmptyRange, Zenon DEF Queued, Returned
  <2>6. ApartInv'
    BY <1>2, <2>4, FewerApart, Zenon
  <2> QED BY <1>2, <1>4, <2>3, <2>6, Zenon
<1>7. CASE phase = "block" /\ phase' = "move" /\ move' = move
  <2> USE <1>7
  <2> phase' \in Moving /\ phase' \notin Resting /\ phase' \notin {"spill", "block", "relink", "relinked"}
    BY DEF Moving, Resting
  <2>2. MoveInv'
    BY <1>3, Zenon DEF MoveInv
  <2>3. Unprocessed' = {}
    BY DEF Unprocessed
  <2> Queued' = Queued /\ Returned' = {}
    BY <1>4, Zenon DEF Queued, Returned
  <2>5. ApartInv'
    BY <1>2, <2>3, FewerApart, Zenon
  <2> QED BY <1>2, <1>3, <1>4, <2>2, <2>5, Zenon
<1> QED BY <1>5, <1>6, <1>7, Zenon

\* A transaction of disconnectpool goes back into the pool or is forgotten.
LEMMA AddBackApart ==
  MoveInv /\ ApartInv /\ AddBack =>
    /\ MoveInv' /\ ApartInv' /\ phase = "readd" /\ phase' = "readd" /\ tip' = tip
    /\ Last(move.queuedTx) \in Queued /\ Queued' = Queued \ {Last(move.queuedTx)}
    /\ Last(move.queuedTx) \in Txs
    /\ \/ /\ Acceptable(pool, Last(move.queuedTx)) /\ pool' = Accepted(pool, Last(move.queuedTx))
          /\ Returned' = Returned \cup {Last(move.queuedTx)}
       \/ pool' = removeRecursive(pool, Last(move.queuedTx)) /\ Returned' = Returned
<1>Appended. ASSUME NEW T, NEW s \in Seq(T), NEW t \in T
             PROVE  Append(s, t) \in Seq(T) /\ Range(Append(s, t)) = Range(s) \cup {t}
  <2> USE <1>Appended
  <2> DEFINE n == Len(s)
             j == Append(s, t)
  <2> n \in Nat /\ DOMAIN s = 1..n /\ j \in Seq(T) /\ DOMAIN j = 1..(n + 1) /\ j[n + 1] = t /\ \A k \in 1..n : j[k] = s[k]
    OBVIOUS
  <2> HIDE DEF n, j
  <2>2. n + 1 \in 1..(n + 1) /\ \A k \in 1..(n + 1) : k = n + 1 \/ k \in 1..n
    OBVIOUS
  <2>3. \A k \in 1..n : k \in 1..(n + 1)
    OBVIOUS
  <2> QED BY <2>2, <2>3, Zenon DEF Range, j
<1> SUFFICES ASSUME MoveInv, ApartInv, AddBack
             PROVE  /\ MoveInv' /\ ApartInv' /\ phase = "readd" /\ phase' = "readd" /\ tip' = tip
                    /\ Last(move.queuedTx) \in Queued /\ Queued' = Queued \ {Last(move.queuedTx)}
                    /\ Last(move.queuedTx) \in Txs
                    /\ \/ /\ Acceptable(pool, Last(move.queuedTx)) /\ pool' = Accepted(pool, Last(move.queuedTx))
                          /\ Returned' = Returned \cup {Last(move.queuedTx)}
                       \/ pool' = removeRecursive(pool, Last(move.queuedTx)) /\ Returned' = Returned
  BY Zenon
<1> DEFINE t == Last(move.queuedTx)
           queue == Front(move.queuedTx)
<1>   /\ phase = "readd" /\ phase' = "readd" /\ tip' = tip /\ move.queuedTx # <<>>
      /\ \/ /\ Acceptable(pool, t) /\ pool' = Accepted(pool, t)
            /\ move' = [[move EXCEPT !.queuedTx = queue] EXCEPT !.vHashUpdate = Append(@, t)]
         \/ pool' = removeRecursive(pool, t) /\ move' = [move EXCEPT !.queuedTx = queue]
  BY Zenon DEF AddBack
<1>2. tip \in Tree /\ Chain[tip] \cap BadConnect = {} /\ move \in MoveType /\ IsInjective(move.queuedTx)
  BY Zenon DEF MoveInv
<1>3. move.queuedTx \in Seq(Txs) /\ move.vHashUpdate \in Seq(Txs)
  BY <1>2 DEF MoveType
<1>   /\ t \in Txs /\ queue \in Seq(Txs) /\ IsInjective(queue) /\ t \notin Range(queue)
      /\ Range(move.queuedTx) = {t} \cup Range(queue)
  BY <1>2, <1>3, Ends, Zenon
<1> HIDE DEF t, queue
<1>5. Append(move.vHashUpdate, t) \in Seq(Txs) /\ Range(Append(move.vHashUpdate, t)) = Returned \cup {t}
  <2>1. t \in Txs
    OBVIOUS
  <2> QED BY <1>3, <2>1, <1>Appended DEF Returned
<1>6. phase' \notin Moving /\ phase' \notin Resting /\ phase' \in Reorganising /\ phase' \notin {"spill", "block", "relink", "relinked"}
  BY DEF Moving, Resting, Reorganising
<1>7. ASSUME move' \in MoveType, move'.queuedTx = queue PROVE MoveInv'
  BY <1>2, <1>6, <1>7, Zenon DEF MoveInv
<1>8. ASSUME move'.queuedTx = queue
      PROVE  t \in Queued /\ Queued' = Queued \ {t} /\ Unprocessed = {} /\ Unprocessed' = {} /\ Mined' = Mined
  BY <1>8 DEF Queued, Unprocessed, Mined
<1> USE <1>8
<1>9. CASE /\ Acceptable(pool, t) /\ pool' = Accepted(pool, t)
           /\ move' = [[move EXCEPT !.queuedTx = queue] EXCEPT !.vHashUpdate = Append(@, t)]
  <2> USE <1>9
  <2> move' \in MoveType /\ move'.queuedTx = queue /\ move'.vHashUpdate = Append(move.vHashUpdate, t)
    BY <1>2, <1>5, Zenon DEF MoveType
  <2>2. \A c \in pool'.txs : c \in pool.txs \/ c = t
    BY AcceptedTxs
  <2>3. t \notin Coinbases /\ Vin[t] # {} /\ \A u \in Mined : Vin[t] \cap Vin[u] = {}
    BY AcceptableApart, Zenon
  <2>4. ApartInv'
    BY <2>2, <2>3, Zenon DEF ApartInv
  <2>5. Returned' = Returned \cup {t}
    BY <1>5 DEF Returned
  <2> QED BY <1>7, <2>4, <2>5, Zenon DEF t
<1>10. CASE pool' = removeRecursive(pool, t) /\ move' = [move EXCEPT !.queuedTx = queue]
  <2> USE <1>10
  <2> move' \in MoveType /\ move'.queuedTx = queue /\ move'.vHashUpdate = move.vHashUpdate
    BY <1>2, Zenon DEF MoveType
  <2>2. pool'.txs \subseteq pool.txs
    BY RecursiveTxs
  <2>3. ApartInv'
    BY <2>2, FewerApart, ZenonT(30)
  <2>4. Returned' = Returned
    BY DEF Returned
  <2> QED BY <1>7, <2>3, <2>4, Zenon DEF t
<1> QED BY <1>9, <1>10, Zenon DEF t, queue

\* The second half of UpdateMempoolForReorg: links are completed, and what cannot
\* be mined any more is removed.
LEMMA ReorgApart ==
  ASSUME MoveInv, ApartInv, AddedBack \/ UpdateTransactionsFromBlock \/ Relinked \/ removeForReorg
  PROVE  /\ MoveInv' /\ ApartInv' /\ phase \in Reorganising /\ phase' \in {"relink", "relinked", "reorganised"}
         /\ tip' = tip /\ Queued = {} /\ Queued' = {} /\ pool'.txs \subseteq pool.txs
         /\ AddedBack => phase = "readd" /\ phase' = "relink" /\ Returned' = Returned /\ Range(move'.work) = Returned
         /\ UpdateTransactionsFromBlock =>
              /\ phase = "relink" /\ phase' = "relink" /\ Returned' = Returned /\ pool'.txs = pool.txs
              /\ Range(move.work) = {Last(move.work)} \cup Range(move'.work)
              /\ Last(move.work) \in Returned
         /\ Relinked => phase = "relink" /\ phase' = "relinked" /\ Returned' = Returned /\ Range(move.work) = {}
         /\ removeForReorg => phase = "relinked" /\ phase' = "reorganised" /\ Returned' = {}
<1>1. /\ tip \in Tree /\ Chain[tip] \cap BadConnect = {} /\ move \in MoveType /\ IsInjective(move.queuedTx)
      /\ move.queuedTx \in Seq(Txs) /\ move.work \in Seq(Txs) /\ move.vHashUpdate \in Seq(Txs)
  BY DEF MoveInv, MoveType
<1> DEFINE Goal == /\ MoveInv' /\ ApartInv' /\ tip' = tip /\ Queued = {} /\ Queued' = {} /\ pool'.txs \subseteq pool.txs
<1>2. ASSUME phase \in Reorganising, phase' \in {"relink", "relinked", "reorganised"}, tip' = tip,
             move.queuedTx = <<>>, move' \in MoveType, move'.queuedTx = <<>>, pool'.txs \subseteq pool.txs,
             phase' = "reorganised" => move' = NoMove,
             phase' = "relink" => Range(move'.work) \subseteq Range(move'.vHashUpdate)
      PROVE  Goal
  <2> USE <1>2
  <2>1. /\ phase' \notin Moving /\ phase' \notin {"spill", "block"} /\ phase # "block"
        /\ phase' \in Resting \cup Moving \cup Reorganising /\ (phase' \in Resting => phase' = "reorganised")
    BY DEF Moving, Resting, Reorganising
  <2>2. MoveInv'
    <3>1. (phase = "relink" => Range(move.work) \subseteq Returned)'
      BY Zenon DEF Returned
    <3>2. IsInjective(move.queuedTx)'
      BY DEF IsInjective
    <3> QED BY <1>1, <2>1, <3>1, <3>2, Zenon DEF MoveInv
  <2> Queued = {} /\ Queued' = {}
    BY EmptyRange, Zenon DEF Queued
  <2>4. Unprocessed = {} /\ Unprocessed' = {}
    BY <2>1 DEF Unprocessed
  <2>5. ApartInv'
    BY <2>4, FewerApart, Zenon
  <2> QED BY <2>2, <2>5, Zenon
<1> HIDE DEF Goal
<1>3. CASE AddedBack
  <2>   /\ phase = "readd" /\ phase' = "relink" /\ tip' = tip /\ pool' = pool /\ move.queuedTx = <<>>
        /\ move' = [move EXCEPT !.work = move.vHashUpdate]
    BY <1>3, Zenon DEF AddedBack
  <2> move' \in MoveType /\ move'.queuedTx = <<>> /\ move'.work = move.vHashUpdate /\ move'.vHashUpdate = move.vHashUpdate
    BY <1>1, Zenon DEF MoveType
  <2>   /\ phase \in Reorganising /\ phase' \in {"relink", "relinked", "reorganised"} /\ phase # "relinked" /\ phase # "relink"
        /\ phase' # "reorganised"
    BY DEF Reorganising
  <2>4. Goal
    BY <1>2, Zenon
  <2>5. Returned' = Returned /\ Range(move'.work) = Returned
    BY Zenon DEF Returned
  <2>6. ~UpdateTransactionsFromBlock /\ ~Relinked /\ ~removeForReorg
    BY Zenon DEF UpdateTransactionsFromBlock, Relinked, removeForReorg
  <2> QED BY <2>4, <2>5, <2>6, Zenon DEF Goal
<1>4. CASE UpdateTransactionsFromBlock
  <2> DEFINE t == Last(move.work)
             included == Range(move.vHashUpdate)
  <2>   /\ phase = "relink" /\ phase' = "relink" /\ tip' = tip /\ move.work # <<>>
        /\ move' = [move EXCEPT !.work = Front(move.work)]
        /\ \/ pool' = pool
           \/ pool' = UpdateForDescendants(LinkChildren(pool, t, included), t, included)
    BY <1>4, Zenon DEF UpdateTransactionsFromBlock
  <2>2. pool'.txs = pool.txs
    <3>1. LinkChildren(pool, t, included).txs = pool.txs
      BY DEF LinkChildren
    <3>2. \A P : UpdateForDescendants(P, t, included).txs = P.txs
      BY DEF UpdateForDescendants
    <3> QED BY <3>1, <3>2, Zenon
  <2> move.queuedTx = <<>> /\ Range(move.work) \subseteq Returned
    BY Zenon DEF MoveInv
  <2>4. Front(move.work) \in Seq(Txs) /\ Range(move.work) = {t} \cup Range(Front(move.work))
    BY <1>1, Ends, Zenon
  <2> HIDE DEF t
  <2> move' \in MoveType /\ move'.queuedTx = <<>> /\ move'.work = Front(move.work) /\ move'.vHashUpdate = move.vHashUpdate
    BY <1>1, <2>4, Zenon DEF MoveType
  <2> phase \in Reorganising /\ phase' \in {"relink", "relinked", "reorganised"} /\ phase # "relinked" /\ phase # "readd" /\ phase' # "reorganised"
    BY DEF Reorganising
  <2>   Returned' = Returned /\ Range(move.work) = {t} \cup Range(move'.work) /\ t \in Returned
        /\ Range(move'.work) \subseteq Range(move'.vHashUpdate)
    BY <2>4, Zenon DEF Returned
  <2>8. Goal
    BY <1>2, <2>2, Zenon
  <2>9. ~AddedBack /\ ~Relinked /\ ~removeForReorg
    BY Zenon DEF AddedBack, Relinked, removeForReorg
  <2> QED BY <2>2, <2>8, <2>9, Zenon DEF Goal, t
<1>5. CASE Relinked
  <2> phase = "relink" /\ phase' = "relinked" /\ tip' = tip /\ pool' = pool /\ move.work = <<>> /\ move' = move
    BY <1>5, Zenon DEF Relinked
  <2>   phase \in Reorganising /\ phase' \in {"relink", "relinked", "reorganised"} /\ phase # "relinked" /\ phase # "readd"
        /\ phase' # "reorganised" /\ phase' # "relink"
    BY DEF Reorganising
  <2> move.queuedTx = <<>> /\ Range(move.work) = {}
    BY EmptyRange, Zenon DEF MoveInv
  <2>4. Goal
    BY <1>1, <1>2, Zenon
  <2>5. Returned' = Returned
    BY Zenon DEF Returned
  <2>6. ~AddedBack /\ ~UpdateTransactionsFromBlock /\ ~removeForReorg
    BY Zenon DEF AddedBack, UpdateTransactionsFromBlock, removeForReorg
  <2> QED BY <2>4, <2>5, <2>6, Zenon DEF Goal
<1>6. CASE removeForReorg
  <2> phase = "relinked" /\ phase' = "reorganised" /\ tip' = tip /\ move' = NoMove
    BY <1>6, Zenon DEF removeForReorg
  <2>2. PICK l, S : pool' = RemoveStaged([pool EXCEPT !.lock = l], S, FALSE)
    BY <1>6, Zenon DEF removeForReorg
  <2>3. pool'.txs \subseteq pool.txs
    <3>1. pool'.txs = [pool EXCEPT !.lock = l].txs \ S
      BY <2>2, RemovedTxs, Zenon
    <3> QED BY <3>1
  <2> phase \in Reorganising /\ phase' \in {"relink", "relinked", "reorganised"} /\ phase # "relink" /\ phase # "readd" /\ phase' # "relink"
    BY DEF Reorganising
  <2>5. move.queuedTx = <<>>
    BY Zenon DEF MoveInv
  <2> move' \in MoveType /\ move'.queuedTx = <<>> /\ move'.vHashUpdate = <<>>
    BY DEF MoveType, NoMove
  <2>7. Goal
    BY <1>2, <2>3, <2>5, Zenon
  <2>8. Returned' = {}
    BY EmptyRange, Zenon DEF Returned
  <2>9. ~AddedBack /\ ~UpdateTransactionsFromBlock /\ ~Relinked
    BY Zenon DEF AddedBack, UpdateTransactionsFromBlock, Relinked
  <2> QED BY <2>7, <2>8, <2>9, Zenon DEF Goal
<1> QED BY <1>3, <1>4, <1>5, <1>6, Zenon

\* The initial state, and all steps together.
LEMMA InitialApart ==
  ASSUME Init
  PROVE  Good(pool) /\ MoveInv /\ ApartInv
<1> pool = EmptyPool /\ tip = Genesis /\ phase = "rest" /\ move = NoMove
  BY DEF Init
<1>2. Good(pool)
  BY EmptyGood
<1>3. phase \in Resting /\ phase \notin Moving /\ phase \notin {"spill", "block", "relink", "relinked"}
  BY Zenon DEF Resting, Moving
<1> move \in MoveType /\ move.queuedTx = <<>>
  BY DEF MoveType, NoMove
<1>5. tip \in Tree /\ Chain[tip] \cap BadConnect = {}
  <2>1. Chain[Genesis] = {Genesis} /\ Genesis \notin BadConnect
    BY Chains, ValidChains, Zenon
  <2> QED BY <2>1 DEF Tree
<1>6. MoveInv
  <2>1. IsInjective(move.queuedTx)
    BY DEF IsInjective
  <2> QED BY <1>3, <1>5, <2>1, Zenon DEF MoveInv
<1>7. pool.txs = {} /\ Queued = {}
  BY EmptyRange DEF Queued, EmptyPool
<1>8. ApartInv
  BY <1>7, Zenon DEF ApartInv
<1> QED BY <1>2, <1>6, <1>8

LEMMA ApartStep ==
  Good(pool) /\ MoveInv /\ ApartInv /\ [Next]_vars =>
    MoveInv' /\ ApartInv'
<1>PrioritiseApart. ASSUME Good(pool), MoveInv, ApartInv, NEW t, NEW d, PrioritiseTransaction(t, d)
                    PROVE  MoveInv' /\ ApartInv' /\ pool'.txs = pool.txs
  <2> USE <1>PrioritiseApart
  <2> tip' = tip /\ move' = move /\ phase' = phase
    BY Zenon DEF PrioritiseTransaction
  <2> pool'.txs = pool.txs
    BY PrioritiseFields
  <2> Queued' = Queued /\ Unprocessed' = Unprocessed /\ Mined' = Mined /\ Returned' = Returned
    BY DEF Queued, Unprocessed, Mined, Returned
  <2>4. MoveInv'
    BY Zenon DEF MoveInv, Resting, Moving, Reorganising
  <2>5. ApartInv'
    BY FewerApart, Zenon
  <2> QED BY <2>4, <2>5
<1> SUFFICES ASSUME Good(pool), MoveInv, ApartInv, [Next]_vars
             PROVE  MoveInv' /\ ApartInv'
  BY Zenon
<1>1. CASE Expire \/ TrimToSize \/ Trimmed \/ (\E t \in Txs : AcceptToMemoryPool(t))
  BY <1>1, RestingApart, Zenon
<1>2. ASSUME NEW t, NEW d, PrioritiseTransaction(t, d) PROVE MoveInv' /\ ApartInv'
  BY <1>2, <1>PrioritiseApart, Zenon
<1>3. ASSUME NEW b \in Blocks, ActivateBestChainStep(b) \/ InvalidateBlock(b) PROVE MoveInv' /\ ApartInv'
  BY <1>3, BeginApart, Zenon
<1>4. CASE DisconnectTip
  BY <1>4, DisconnectApart, Zenon
<1>5. CASE DropEarliest
  BY <1>5, DropApart, Zenon
<1>6. CASE ConnectTip
  BY <1>6, ConnectApart, Zenon
<1>7. CASE removeForBlock
  BY <1>7, BlockLoopApart, Zenon
<1>8. CASE MoveFails \/ ConnectNothing \/ Connected
  BY <1>8, StopApart, Zenon
<1>9. CASE AddBack
  BY <1>9, AddBackApart, Zenon
<1>10. CASE AddedBack \/ UpdateTransactionsFromBlock \/ Relinked \/ removeForReorg
  BY <1>10, ReorgApart, Zenon
<1>11. CASE UNCHANGED vars
  <2> tip' = tip /\ move' = move /\ phase' = phase /\ pool' = pool
    BY <1>11, Zenon DEF vars
  <2> Queued' = Queued /\ Unprocessed' = Unprocessed /\ Mined' = Mined /\ Returned' = Returned
    BY DEF Queued, Unprocessed, Mined, Returned
  <2>3. MoveInv'
    BY Zenon DEF MoveInv, Resting, Moving, Reorganising
  <2> QED BY <2>3, FewerApart, Zenon
<1> QED BY <1>1, <1>2, <1>3, <1>4, <1>5, <1>6, <1>7, <1>8, <1>9, <1>10, <1>11, Zenon DEF Next

\* What UpdateMempoolForReorg is told to assume holds, for every block tree whose
\* connected blocks obey ConnectBlock's rules, and wherever the move stops or fails.
THEOREM DisconnectedAlwaysApart == Spec => []DisconnectedApart
<1> DEFINE Inv == Good(pool) /\ MoveInv /\ ApartInv
<1>1. Init => Inv
  BY InitialApart
<1>2. Inv /\ [Next]_vars => Inv'
  BY GoodStep, ApartStep, Zenon
<1>3. Inv => DisconnectedApart
  BY Zenon DEF ApartInv, Queued, Mined, DisconnectedApart
<1> QED BY <1>1, <1>2, <1>3, PTL DEF Spec

(***************************************************************************)
(* The links between entries.                                              *)
(***************************************************************************)
\* What the loops over links collect is closed under the links.
LEMMA ReachableClosed ==
  ASSUME NEW U, NEW S, NEW links, \A y \in U : links[y] \subseteq U
  PROVE  \A y \in Reachable(U, S, links) : links[y] \subseteq Reachable(U, S, links)
<1> SUFFICES ASSUME NEW y \in Reachable(U, S, links), NEW x \in links[y],
                    NEW T \in SUBSET U, S \subseteq T, \A z \in T : links[z] \subseteq T
             PROVE  x \in U /\ x \in T
  BY DEF Reachable
<1>1. y \in U /\ y \in T
  BY DEF Reachable
<1> QED BY <1>1

\* ... and the least such set.
LEMMA ReachableLeast ==
  ASSUME NEW U, NEW S, NEW links, NEW T \in SUBSET U, S \subseteq T, \A y \in T : links[y] \subseteq T
  PROVE  Reachable(U, S, links) \subseteq T
BY DEF Reachable

\* The children an entry is linked to leave with it.
LEMMA DescendantsClosed ==
  ASSUME NEW P, Good(P), NEW X
  PROVE  /\ CalculateDescendants(P, X) \subseteq P.txs
         /\ \A y \in P.txs : P.children[y] \subseteq P.txs /\ P.parents[y] \subseteq P.txs
         /\ \A y \in CalculateDescendants(P, X) : P.children[y] \subseteq CalculateDescendants(P, X)
         /\ \A c \in P.txs : \A y \in CalculateDescendants(P, X) : y \in P.parents[c] => c \in CalculateDescendants(P, X)
<1>1. P.txs \subseteq Txs /\ P.children \in [Txs -> SUBSET Txs] /\ P.parents \in [Txs -> SUBSET Txs]
  BY Zenon DEF Good, Shaped
<1>2. \A a, c \in Txs : c \in P.children[a] <=> a \in P.parents[c]
  BY Zenon DEF Good, Indexed
<1>3. \A c \in Txs : \A a \in P.parents[c] : c \in P.txs /\ a \in P.txs
  BY DEF Good, Indexed, MemPoolParents
<1>4. \A y \in P.txs : P.children[y] \subseteq P.txs
  <2> SUFFICES ASSUME NEW y \in P.txs, NEW x \in P.children[y] PROVE x \in P.txs
    OBVIOUS
  <2>1. y \in Txs /\ x \in Txs
    BY <1>1
  <2> QED BY <1>2, <1>3, <2>1, Zenon
<1>5. \A y \in P.txs : P.parents[y] \subseteq P.txs
  BY <1>1, <1>3
<1> CalculateDescendants(P, X) \subseteq P.txs
  BY ReachableHas, Zenon DEF CalculateDescendants
<1> \A y \in CalculateDescendants(P, X) : P.children[y] \subseteq CalculateDescendants(P, X)
  BY <1>4, ReachableClosed, Zenon DEF CalculateDescendants
<1>8. ASSUME NEW c \in P.txs, NEW y \in CalculateDescendants(P, X), y \in P.parents[c]
      PROVE  c \in CalculateDescendants(P, X)
  <2>1. c \in Txs /\ y \in Txs
    BY <1>1
  <2>2. c \in P.children[y]
    BY <1>2, <1>8, <2>1, Zenon
  <2> QED BY <2>2, Zenon
<1> QED BY <1>4, <1>5, <1>8, Zenon

\* Q is P without the entries of S and the links to them.
Reduced(P, S, Q) ==
  /\ Q.txs = P.txs \ S
  /\ \A c \in P.txs \ S : /\ Q.parents[c] = P.parents[c] \ S
                          /\ Q.lock[c] = P.lock[c]
                          /\ MemPoolParents(Q, c) = MemPoolParents(P, c) \ S

LEMMA RemovedFields ==
  ASSUME NEW P, NEW S, NEW d, Good(P), S \subseteq P.txs
  PROVE  Reduced(P, S, RemoveStaged(P, S, d))
<1> DEFINE Q == RemoveStaged(P, S, d)
           keep == P.txs \ S
<1>   /\ Q.txs = keep
      /\ Q.parents = [x \in Txs |-> IF x \in keep
                                    THEN P.parents[x] \ {r \in S : x \in P.children[r]} ELSE {}]
      /\ Q.lock = [x \in Txs |-> IF x \in keep THEN P.lock[x] ELSE NoLock]
  BY Zenon DEF RemoveStaged
<1> HIDE DEF Q
<1> P.txs \subseteq Txs /\ \A a, c \in Txs : c \in P.children[a] <=> a \in P.parents[c]
  BY Zenon DEF Good, Shaped, Indexed
<1>3. ASSUME NEW c \in keep PROVE Q.parents[c] = P.parents[c] \ S
  <2> c \in Txs /\ S \subseteq Txs
    OBVIOUS
  <2>2. P.parents[c] \ {r \in S : c \in P.children[r]} = P.parents[c] \ S
    OBVIOUS
  <2> QED BY <2>2, Zenon
<1>4. \A c \in keep : Q.lock[c] = P.lock[c]
  OBVIOUS
<1>5. \A c : MemPoolParents(Q, c) = MemPoolParents(P, c) \ S
  BY DEF MemPoolParents
<1> QED BY <1>3, <1>4, <1>5, Zenon DEF Q, Reduced

\* The links of P are complete, but for those between a transaction of pend and a
\* child that did not come back with it.
Linked(P, pend, ret) ==
  \A c \in P.txs : \A p \in MemPoolParents(P, c) : p \in P.parents[c] \/ (p \in pend /\ c \notin ret)

\* What conflicts with an accepted transaction are entries, and its parents are not
\* among their descendants.
LEMMA ParentsStay ==
  ASSUME NEW P, NEW t \in Txs, Good(P), Acceptable(P, t)
  PROVE  MemPoolParents(P, t) \cap CalculateDescendants(P, Conflicts(P, t)) = {}
<1> DEFINE A == CalculateMemPoolAncestors(P, t)
           T == P.txs \ A
<1>1. A \cap Conflicts(P, t) = {}
  BY Zenon DEF Acceptable
<1>2. Conflicts(P, t) \subseteq P.txs
  BY Shape DEF Conflicts, Good, Shaped, Indexed
<1>3. MemPoolParents(P, t) \subseteq A
  <2>1. MemPoolParents(P, t) \subseteq P.txs
    BY DEF MemPoolParents
  <2> QED BY <2>1, ReachableHas DEF CalculateMemPoolAncestors
<1>4. P.txs \subseteq Txs /\ \A a, c \in Txs : c \in P.children[a] <=> a \in P.parents[c]
  BY Zenon DEF Good, Shaped, Indexed
<1>5. \A y \in P.txs : P.children[y] \subseteq P.txs /\ P.parents[y] \subseteq P.txs
  BY DescendantsClosed, Zenon
<1>6. \A y \in A : P.parents[y] \subseteq A
  BY <1>5, ReachableClosed, Zenon DEF CalculateMemPoolAncestors
<1>7. \A y \in T : P.children[y] \subseteq T
  <2> SUFFICES ASSUME NEW y \in T, NEW x \in P.children[y] PROVE x \in T
    OBVIOUS
  <2> x \in P.txs /\ x \in Txs /\ y \in Txs
    BY <1>4, <1>5
  <2>2. y \in P.parents[x]
    BY <1>4, Zenon
  <2> QED BY <1>6, <2>2
<1> HIDE DEF A
<1>8. Conflicts(P, t) \subseteq T /\ T \in SUBSET P.txs
  BY <1>1, <1>2
<1> HIDE DEF T
<1>9. CalculateDescendants(P, Conflicts(P, t)) \subseteq T
  BY <1>7, <1>8, ReachableLeast DEF CalculateDescendants
<1> QED BY <1>3, <1>9 DEF T

\* A is P without the entries of S and with the new entry t.
Extended(P, S, t, A) ==
  /\ A.txs = (P.txs \ S) \cup {t}
  /\ MemPoolParents(A, t) = MemPoolParents(P, t) /\ A.parents[t] = MemPoolParents(P, t)
  /\ MemPoolParents(P, t) \cap S = {}
  /\ A.lock[t] = CalculateLockPoints(P, t)
  /\ \A c \in P.txs \ S : /\ A.parents[c] = P.parents[c] \ S
                          /\ A.lock[c] = P.lock[c]
                          /\ MemPoolParents(A, c) \subseteq (MemPoolParents(P, c) \ S) \cup {t}

LEMMA AcceptedFields ==
  ASSUME NEW P, NEW t \in Txs, Good(P), Acceptable(P, t), \A o \in Vin[t] : Creator[o] # t,
         NEW S, S = CalculateDescendants(P, Conflicts(P, t))
  PROVE  Extended(P, S, t, Accepted(P, t))
<1> DEFINE Q == RemoveStaged(P, S, FALSE)
           ancestors == CalculateMemPoolAncestors(P, t)
           lp == CalculateLockPoints(P, t)
           A == addUnchecked(Q, t, ancestors, lp)
<1>1. A = Accepted(P, t)
  BY Zenon DEF Accepted
<1>2. S \subseteq P.txs
  BY DescendantsClosed, Zenon
<1>3. Reduced(P, S, Q)
  BY <1>2, RemovedFields, Zenon
<1>4. Good(Q)
  BY <1>2, RemoveStagedGood, Zenon
<1>5. Q.parents \in [Txs -> SUBSET Txs] /\ Q.txs \subseteq Txs
  BY <1>4, Zenon DEF Good, Shaped
<1>6. Q.lock = [x \in Txs |-> IF x \in P.txs \ S THEN P.lock[x] ELSE NoLock]
  BY Zenon DEF RemoveStaged
<1> HIDE DEF Q, ancestors, lp
<1>   /\ A.txs = Q.txs \cup {t}
      /\ A.parents = [Q.parents EXCEPT ![t] = MemPoolParents(Q, t)]
      /\ A.lock = [Q.lock EXCEPT ![t] = lp]
  BY ZenonT(30) DEF addUnchecked
<1> HIDE DEF A
<1>8. t \notin P.txs
  BY ZenonT(30) DEF Acceptable
<1>9. MemPoolParents(Q, t) = MemPoolParents(P, t) /\ MemPoolParents(P, t) \cap S = {}
  <2>1. MemPoolParents(P, t) \cap S = {}
    BY ParentsStay, Zenon
  <2> QED BY <1>3, <2>1 DEF MemPoolParents, Reduced
<1>10. MemPoolParents(A, t) = MemPoolParents(Q, t)
  BY DEF MemPoolParents
<1>11. A.parents[t] = MemPoolParents(P, t) /\ A.lock[t] = lp
  BY <1>5, <1>6, <1>9
<1>12. ASSUME NEW c \in P.txs \ S
       PROVE  A.parents[c] = P.parents[c] \ S /\ A.lock[c] = P.lock[c] /\ MemPoolParents(A, c) \subseteq (MemPoolParents(P, c) \ S) \cup {t}
  <2>1. c \in Txs /\ c # t
    BY <1>3, <1>5, <1>8, Zenon DEF Reduced
  <2>2. A.parents[c] = Q.parents[c] /\ A.lock[c] = Q.lock[c]
    BY <1>5, <1>6, <2>1
  <2>3. MemPoolParents(A, c) \subseteq MemPoolParents(Q, c) \cup {t}
    BY DEF MemPoolParents
  <2>4. Q.parents[c] = P.parents[c] \ S /\ Q.lock[c] = P.lock[c] /\ MemPoolParents(Q, c) = MemPoolParents(P, c) \ S
    BY <1>3, Zenon DEF Reduced
  <2> QED BY <2>2, <2>3, <2>4, Zenon
<1> QED BY <1>1, <1>3, <1>9, <1>10, <1>11, <1>12, Zenon DEF lp, Reduced, Extended

(***************************************************************************)
(* What comes back from a block.                                           *)
(***************************************************************************)
\* The entries that were in the pool before the transactions of disconnectpool
\* came back.
Old == pool.txs \ Returned

\* The transactions that have come back and may have unlinked children.
Pending == IF phase = "readd" THEN Returned ELSE IF phase = "relink" THEN Range(move.work) ELSE {}

\* The transactions that were in blocks spend different outputs, and neither spend
\* what an older entry spends nor an output of one.
ReturnInv ==
  /\ \A t, u \in Queued \cup Returned : t # u => Vin[t] \cap Vin[u] = {}
  /\ \A t \in Queued \cup Returned : \A c \in Old : Vin[t] \cap Vin[c] = {} /\ \A o \in Vin[t] : Creator[o] # c
  /\ phase \in {"move", "spill"} /\ tip \notin Chain[move.target] =>
       \A t \in Queued, u \in Mined : Vin[t] \cap Vin[u] = {}

\* Every input of an entry is an output of another entry, of a transaction of the
\* chain or of one of disconnectpool.
Sourced(P) == \A c \in P.txs : \A o \in Vin[c] : Creator[o] \in P.txs \cup Mined \cup Queued

\* ... but what came back spends from none that is still to come, and all links are
\* there that should be.
LinkInv ==
  /\ Sourced(pool)
  /\ \A c \in pool.txs \cap Returned : \A o \in Vin[c] : Creator[o] \notin Queued
  /\ Linked(pool, Pending, Returned)

LEMMA NothingReturned ==
  ASSUME Queued' = {}, Returned' = {}
  PROVE  ReturnInv'
BY Zenon DEF ReturnInv

LEMMA NothingKept == Range(NoMove.queuedTx) = {} /\ Range(NoMove.vHashUpdate) = {}
<1>1. NoMove.queuedTx = <<>> /\ NoMove.vHashUpdate = <<>>
  BY DEF NoMove
<1> QED BY <1>1, EmptyRange

\* The inputs of a transaction AcceptToMemoryPool accepts are outputs of entries or of
\* transactions of the chain.
LEMMA AcceptableSources ==
  ASSUME MoveInv, ApartInv, Unprocessed = {}, NEW t \in Txs, Acceptable(pool, t)
  PROVE  t \notin pool.txs /\ t \notin Mined /\ \A o \in Vin[t] : Creator[o] \in pool.txs \cup Mined /\ Creator[o] # t
<1>1. Vin[t] # {} /\ \A u \in Mined : Vin[t] \cap Vin[u] = {}
  BY AcceptableApart, Zenon
<1>2. t \notin Mined
  BY <1>1, Zenon
<1>3. t \notin pool.txs /\ \A o \in Vin[t] : Creator[o] \in pool.txs \/ o \in Coins[tip]
  BY Zenon DEF Acceptable, HaveCoin
<1>4. \A o \in Coins[tip] : Creator[o] \in Mined
  BY DEF Coins, Mined, MoveInv
<1> QED BY <1>2, <1>3, <1>4, Zenon

\* At rest nothing is kept from a block.
LEMMA KeepsNothing ==
  ASSUME MoveInv, phase \in Resting
  PROVE  Queued = {} /\ Returned = {} /\ Unprocessed = {} /\ Pending = {}
<1>1. move = NoMove /\ phase \notin {"block", "readd", "relink"}
  BY DEF MoveInv, Resting
<1> QED BY <1>1, NothingKept DEF Queued, Returned, Unprocessed, Pending

\* UpdateTransactionsFromBlock adds the missing links, and only those.
LEMMA RelinkFields ==
  ASSUME Good(pool), NEW t \in pool.txs, NEW included, NEW Q,
         Q = UpdateForDescendants(LinkChildren(pool, t, included), t, included)
  PROVE  /\ Q.txs = pool.txs /\ Q.lock = pool.lock
         /\ \A c \in pool.txs : pool.parents[c] \subseteq Q.parents[c]
         /\ \A c \in pool.txs : c \notin included /\ t \in MemPoolParents(pool, c) => t \in Q.parents[c]
<1> DEFINE new == {pool.next[o] : o \in {o \in OutPoints : Creator[o] = t}} \ ({None} \cup included)
           L == LinkChildren(pool, t, included)
<1>1. pool = [txs |-> pool.txs, next |-> pool.next, parents |-> pool.parents, children |-> pool.children,
              feeDelta |-> pool.feeDelta, desc |-> pool.desc, anc |-> pool.anc, lock |-> pool.lock]
  BY Zenon DEF Good, Shaped
<1>2. L = [pool EXCEPT !.children[t] = @ \cup new,
                       !.parents = [x \in Txs |-> IF x \in new THEN @[x] \cup {t} ELSE @[x]]]
  BY DEF LinkChildren
<1>3. ASSUME NEW c \in pool.txs, c \notin included, t \in MemPoolParents(pool, c) PROVE c \in new
  <2> USE <1>3
  <2>1. PICK o \in Vin[c] : Creator[o] = t
    BY Zenon DEF MemPoolParents
  <2> c \in Txs /\ o \in OutPoints
    BY Shape DEF Good, Shaped
  <2>3. pool.next[o] = c /\ c # None
    BY Shape DEF Good, Indexed
  <2> QED BY <2>1, <2>3
<1> HIDE DEF new, L
<1>4. /\ L.txs = pool.txs /\ L.lock = pool.lock
      /\ L.parents = [x \in Txs |-> IF x \in new THEN pool.parents[x] \cup {t} ELSE pool.parents[x]]
  BY <1>1, <1>2
<1>5. \E d, a : Q = [L EXCEPT !.desc = d, !.anc = a]
  BY Zenon DEF UpdateForDescendants, L
<1>6. L = [txs |-> pool.txs, next |-> pool.next, parents |-> L.parents, children |-> L.children,
           feeDelta |-> pool.feeDelta, desc |-> pool.desc, anc |-> pool.anc, lock |-> pool.lock]
  BY <1>1, <1>2, ZenonT(30)
<1>7. Q.txs = L.txs /\ Q.lock = L.lock /\ Q.parents = L.parents
  BY <1>5, <1>6
<1>8. pool.txs \subseteq Txs
  BY Zenon DEF Good, Shaped
<1> QED BY <1>3, <1>4, <1>7, <1>8

LEMMA LinkStep ==
  Good(pool) /\ MoveInv /\ ApartInv /\ ReturnInv /\ LinkInv /\ [Next]_vars =>
    ReturnInv' /\ LinkInv'
<1>NothingReached. ASSUME NEW U, NEW links
                   PROVE  Reachable(U, {}, links) = {}
  <2> USE <1>NothingReached
  <2> PICK T : T = {}
    BY Zenon
  <2>1. T \in SUBSET U /\ T \subseteq T /\ \A y \in T : links[y] \subseteq T
    OBVIOUS
  <2>2. Reachable(U, T, links) \subseteq T
    BY <2>1, ReachableLeast, Zenon
  <2> QED BY <2>2, Zenon
\* An entry that stays spends from none that leave with their descendants.
<1>Severed. ASSUME NEW P, NEW X, NEW pend, NEW ret, Good(P), Linked(P, pend, ret),
                   CalculateDescendants(P, X) \cap pend = {},
                   NEW c \in P.txs \ CalculateDescendants(P, X)
            PROVE  MemPoolParents(P, c) \cap CalculateDescendants(P, X) = {}
  <2> USE <1>Severed
  <2> SUFFICES ASSUME NEW p \in MemPoolParents(P, c), p \in CalculateDescendants(P, X) PROVE FALSE
    OBVIOUS
  <2>1. p \in P.parents[c]
    BY Zenon DEF Linked
  <2>2. c \in CalculateDescendants(P, X)
    BY <2>1, DescendantsClosed, Zenon
  <2> QED BY <2>2, Zenon
<1>RemoveLinked. ASSUME NEW P, NEW S, NEW d, NEW pend, NEW ret, Good(P), S \subseteq P.txs, Linked(P, pend, ret)
                 PROVE  Linked(RemoveStaged(P, S, d), pend, ret)
  <2> USE <1>RemoveLinked
  <2> DEFINE Q == RemoveStaged(P, S, d)
  <2>1. Reduced(P, S, Q)
    BY RemovedFields, Zenon
  <2> HIDE DEF Q
  <2>2. Linked(Q, pend, ret)
    BY <2>1, Zenon DEF Linked, Reduced
  <2> QED BY <2>2 DEF Q
\* Entries leave with the descendants their links give.
<1>RemoveLink. ASSUME LinkInv, NEW P, NEW X, Good(P), Sourced(P), Linked(P, Pending, Returned), P.txs \subseteq pool.txs,
                      CalculateDescendants(P, X) \cap Pending = {},
                      pool' = RemoveStaged(P, CalculateDescendants(P, X), FALSE),
                      tip' = tip, Queued' \subseteq Queued,
                      \A c \in P.txs \ CalculateDescendants(P, X) : \A o \in Vin[c] : Creator[o] \in Queued => Creator[o] \in Queued',
                      (Returned' = Returned /\ Pending' = Pending) \/ (Returned' = {} /\ Pending = {})
               PROVE  LinkInv'
  <2> USE <1>RemoveLink
  <2> DEFINE S == CalculateDescendants(P, X)
  <2>1. S \subseteq P.txs
    BY DescendantsClosed, Zenon
  <2>2. Linked(pool', Pending, Returned) /\ Reduced(P, S, pool')
    BY <2>1, <1>RemoveLinked, RemovedFields, Zenon
  <2>3. ASSUME NEW c \in P.txs \ S PROVE MemPoolParents(P, c) \cap S = {}
    BY <2>3, <1>Severed, Zenon
  <2> HIDE DEF S
  <2>4. pool'.txs = P.txs \ S /\ Mined' = Mined
    BY <2>2, Zenon DEF Reduced, Mined
  <2>5. Sourced(pool)'
    <3> SUFFICES ASSUME NEW c \in P.txs \ S, NEW o \in Vin[c]
                 PROVE  Creator[o] \in pool'.txs \cup Mined' \cup Queued'
      BY <2>4, Zenon DEF Sourced
    <3>1. Creator[o] \in P.txs => Creator[o] \notin S
      <4> SUFFICES ASSUME Creator[o] \in P.txs PROVE Creator[o] \notin S
        OBVIOUS
      <4>1. Creator[o] \in MemPoolParents(P, c)
        BY Zenon DEF MemPoolParents
      <4> QED BY <2>3, <4>1, Zenon
    <3>2. Creator[o] \in P.txs \cup Mined \cup Queued
      BY Zenon DEF Sourced
    <3>3. Creator[o] \in Queued => Creator[o] \in Queued'
      BY Zenon DEF S
    <3> QED BY <2>4, <3>1, <3>2, <3>3, Zenon
  <2>6. (\A c \in pool.txs \cap Returned : \A o \in Vin[c] : Creator[o] \notin Queued)'
    BY <2>4, Zenon DEF LinkInv
  <2>7. Linked(pool, Pending, Returned)'
    BY <2>2, Zenon DEF Linked
  <2> QED BY <2>5, <2>6, <2>7, Zenon DEF LinkInv
<1>AcceptLink. ASSUME Good(pool), MoveInv, ApartInv, LinkInv, Unprocessed = {}, NEW t \in Txs, Acceptable(pool, t),
                      CalculateDescendants(pool, Conflicts(pool, t)) \cap Pending = {},
                      pool' = Accepted(pool, t), tip' = tip, Queued' = Queued \ {t},
                      \/ t \notin Queued /\ Returned' = Returned /\ Pending' = Pending
                      \/ t \in Queued /\ Returned' = Returned \cup {t} /\ Pending' = Pending \cup {t}
               PROVE  LinkInv'
  <2> USE <1>AcceptLink
  <2> DEFINE S == CalculateDescendants(pool, Conflicts(pool, t))
  <2>1. t \notin pool.txs /\ t \notin Mined /\ \A o \in Vin[t] : Creator[o] \in pool.txs \cup Mined /\ Creator[o] # t
    BY AcceptableSources, Zenon
  <2>2. Extended(pool, S, t, pool')
    BY <2>1, AcceptedFields, Zenon
  <2>3. Sourced(pool) /\ Linked(pool, Pending, Returned) /\ \A c \in pool.txs \cap Returned : \A o \in Vin[c] : Creator[o] \notin Queued
    BY Zenon DEF LinkInv
  <2>4. ASSUME NEW c \in pool.txs \ S PROVE MemPoolParents(pool, c) \cap S = {}
    BY <2>3, <2>4, <1>Severed, Zenon
  <2> HIDE DEF S
  <2>5. pool'.txs = (pool.txs \ S) \cup {t} /\ Mined' = Mined
    BY <2>2, Zenon DEF Extended, Mined
  <2>6. \A x : \A o \in Vin[x] : Creator[o] \in pool.txs => Creator[o] \in MemPoolParents(pool, x)
    BY Zenon DEF MemPoolParents
  <2>7. \A q \in Queued : q \notin pool.txs /\ q \notin Mined
    BY Zenon DEF ApartInv
  <2>8. Sourced(pool)'
    <3> SUFFICES ASSUME NEW c \in pool'.txs, NEW o \in Vin[c]
                 PROVE  Creator[o] \in pool'.txs \cup Mined' \cup Queued'
      BY Zenon DEF Sourced
    <3>1. CASE c = t
      <4> USE <3>1
      <4>1. Creator[o] \in pool.txs => Creator[o] \notin S
        BY <2>2, <2>6, Zenon DEF Extended
      <4> QED BY <2>1, <2>5, <4>1, Zenon
    <3>2. CASE c \in pool.txs \ S
      <4> USE <3>2
      <4>1. Creator[o] \in pool.txs => Creator[o] \notin S
        BY <2>4, <2>6
      <4>2. Creator[o] \in pool.txs \cup Mined \cup Queued
        BY <2>3, Zenon DEF Sourced
      <4> QED BY <2>5, <4>1, <4>2, Zenon
    <3> QED BY <2>5, <3>1, <3>2
  <2>9. (\A c \in pool.txs \cap Returned : \A o \in Vin[c] : Creator[o] \notin Queued)'
    <3> SUFFICES ASSUME NEW c \in pool'.txs, c \in Returned', NEW o \in Vin[c], Creator[o] \in Queued PROVE FALSE
      OBVIOUS
    <3>1. CASE c = t
      BY <2>1, <2>7, <3>1, Zenon
    <3>2. CASE c # t
      BY <2>3, <2>5, <3>2, Zenon
    <3> QED BY <3>1, <3>2
  <2>10. Linked(pool, Pending, Returned)'
    <3> SUFFICES ASSUME NEW c \in pool'.txs, NEW p \in MemPoolParents(pool', c)
                 PROVE  p \in pool'.parents[c] \/ (p \in Pending' /\ c \notin Returned')
      BY Zenon DEF Linked
    <3>1. CASE c = t
      BY <2>2, <3>1, Zenon DEF Extended
    <3>2. CASE c # t
      <4> c \in pool.txs \ S
        BY <2>5, <3>2, Zenon
      <4>2. pool'.parents[c] = pool.parents[c] \ S /\ (p \in MemPoolParents(pool, c) \ S \/ p = t)
        BY <2>2, Zenon DEF Extended
      <4>3. CASE p = t
        <5> USE <4>3
        <5> PICK o \in Vin[c] : Creator[o] = t
          BY Zenon DEF MemPoolParents
        <5> t \in Queued
          BY <2>1, <2>3, Zenon DEF Sourced
        <5>3. c \notin Returned
          BY <2>3, Zenon
        <5> QED BY <3>2, <5>3, Zenon
      <4>4. CASE p \in MemPoolParents(pool, c) \ S
        <5> USE <4>4
        <5>1. p \in pool.parents[c] \/ (p \in Pending /\ c \notin Returned)
          BY <2>3, Zenon DEF Linked
        <5> QED BY <3>2, <4>2, <5>1, Zenon
      <4> QED BY <4>2, <4>3, <4>4, Zenon
    <3> QED BY <3>1, <3>2, Zenon
  <2> QED BY <2>8, <2>9, <2>10, Zenon DEF LinkInv
<1>FewerReturn. ASSUME ReturnInv, Queued' \cup Returned' \subseteq Queued \cup Returned, Old' \subseteq Old,
                       \/ phase' \notin {"move", "spill"}
                       \/ tip' \in Chain[move'.target]
                       \/ phase \in {"move", "spill"} /\ tip' = tip /\ move'.target = move.target /\ Queued' \subseteq Queued
                PROVE  ReturnInv'
  <2> USE <1>FewerReturn
  <2>1. (\A t, u \in Queued \cup Returned : t # u => Vin[t] \cap Vin[u] = {})'
    BY Zenon DEF ReturnInv
  <2>2. (\A t \in Queued \cup Returned : \A c \in Old : Vin[t] \cap Vin[c] = {} /\ \A o \in Vin[t] : Creator[o] # c)'
    BY Zenon DEF ReturnInv
  <2>3. (phase \in {"move", "spill"} /\ tip \notin Chain[move.target] => \A t \in Queued, u \in Mined : Vin[t] \cap Vin[u] = {})'
    BY Zenon DEF ReturnInv, Mined
  <2> QED BY <2>1, <2>2, <2>3, Zenon DEF ReturnInv
<1>SameLink. ASSUME LinkInv, pool'.txs = pool.txs, pool'.parents = pool.parents,
                    Mined \cup Queued \subseteq Mined' \cup Queued', Queued' \subseteq Queued \/ Returned' = {},
                    Returned' = Returned, Pending \subseteq Pending'
             PROVE  LinkInv'
  <2> USE <1>SameLink
  <2>1. \A c : MemPoolParents(pool', c) = MemPoolParents(pool, c)
    BY DEF MemPoolParents
  <2>2. Linked(pool, Pending, Returned)'
    BY <2>1, Zenon DEF LinkInv, Linked
  <2>3. Sourced(pool)'
    BY Zenon DEF LinkInv, Sourced
  <2>4. (\A c \in pool.txs \cap Returned : \A o \in Vin[c] : Creator[o] \notin Queued)'
    BY Zenon DEF LinkInv
  <2> QED BY <2>2, <2>3, <2>4, Zenon DEF LinkInv
<1>KeepsNothingNext. ASSUME MoveInv', phase' \in Resting
                     PROVE  Queued' = {} /\ Returned' = {} /\ Unprocessed' = {} /\ Pending' = {}
  <2> USE <1>KeepsNothingNext
  <2>1. move' = NoMove /\ phase' \notin {"block", "readd", "relink"}
    BY DEF MoveInv, Resting
  <2> QED BY <2>1, NothingKept DEF Queued, Returned, Unprocessed, Pending
<1>RestingLink. ASSUME Good(pool), MoveInv, ApartInv, LinkInv,
                       Expire \/ TrimToSize \/ Trimmed \/ (\E t \in Txs : AcceptToMemoryPool(t))
                PROVE  ReturnInv' /\ LinkInv'
  <2> USE <1>RestingLink
  <2>1. MoveInv' /\ phase \in Resting /\ phase' \in Resting
    BY RestingApart, Zenon
  <2>2. Queued = {} /\ Returned = {} /\ Unprocessed = {} /\ Pending = {} /\ Queued' = {} /\ Returned' = {} /\ Pending' = {}
    BY <2>1, KeepsNothing, <1>KeepsNothingNext, Zenon
  <2>3. ReturnInv'
    BY <2>2, NothingReturned, Zenon
  <2>4. tip' = tip /\ Mined' = Mined
    BY Zenon DEF Expire, TrimToSize, Trimmed, AcceptToMemoryPool, Mined
  <2>5. CASE Expire \/ TrimToSize
    <3>1. PICK X : pool' = RemoveStaged(pool, CalculateDescendants(pool, X), FALSE)
      BY <2>5, Zenon DEF Expire, TrimToSize
    <3>2. Sourced(pool) /\ Linked(pool, Pending, Returned)
      BY Zenon DEF LinkInv
    <3>3. LinkInv'
      BY <2>2, <2>4, <3>1, <3>2, <1>RemoveLink, Zenon
    <3> QED BY <2>3, <3>3
  <2>6. CASE Trimmed
    <3>1. pool' = pool
      BY <2>6, Zenon DEF Trimmed
    <3> QED BY <2>2, <2>3, <2>4, <3>1, <1>SameLink, Zenon
  <2>7. ASSUME NEW t \in Txs, AcceptToMemoryPool(t) PROVE LinkInv'
    <3>1. Acceptable(pool, t) /\ pool' = Accepted(pool, t)
      BY <2>7, Zenon DEF AcceptToMemoryPool
    <3> QED BY <2>2, <2>4, <3>1, <1>AcceptLink, Zenon
  <2> QED BY <2>3, <2>5, <2>6, <2>7, Zenon
\* A transaction of disconnectpool is given up, and its descendants in the pool with
\* it.  None of those came back from a block.
<1>RecursiveLink. ASSUME Good(pool), ApartInv, ReturnInv, LinkInv, NEW t \in Queued, pool' = removeRecursive(pool, t),
                         tip' = tip, Queued' = Queued \ {t}, Returned' = Returned, Pending' = Pending, Pending \subseteq Returned
                  PROVE  LinkInv'
  <2> USE <1>RecursiveLink
  <2> DEFINE X == {pool.next[o] : o \in {o \in OutPoints : Creator[o] = t}} \ {None}
  <2>1. t \notin pool.txs
    BY Zenon DEF ApartInv
  <2>2. pool' = RemoveStaged(pool, CalculateDescendants(pool, X), FALSE)
    BY <2>1 DEF removeRecursive
  <2>3. /\ Shaped(pool) /\ pool.txs \subseteq Txs /\ pool.next \in [OutPoints -> Txs \cup {None}] /\ None \notin Txs
        /\ \A o \in OutPoints, x \in Txs : pool.next[o] = x <=> x \in pool.txs /\ o \in Vin[x]
        /\ \A a, c \in Txs : c \in pool.children[a] <=> a \in pool.parents[c]
        /\ \A c \in Txs : \A a \in pool.parents[c] : a \in MemPoolParents(pool, c)
    <3> Shaped(pool) /\ Indexed(pool)
      BY Zenon DEF Good
    <3>2. pool.txs \subseteq Txs /\ pool.next \in [OutPoints -> Txs \cup {None}] /\ None \notin Txs
      BY Shape, Zenon DEF Shaped
    <3> QED BY <3>2, Zenon DEF Indexed
  <2>4. \A x \in X : x \in pool.txs /\ \E o \in Vin[x] : Creator[o] = t
    <3> SUFFICES ASSUME NEW o \in OutPoints, Creator[o] = t, pool.next[o] # None
                 PROVE  pool.next[o] \in pool.txs /\ o \in Vin[pool.next[o]]
      OBVIOUS
    <3> QED BY <2>3
  <2>5. ASSUME NEW c \in pool.txs, NEW o \in Vin[c], Creator[o] = t PROVE c \in X
    <3> USE <2>5
    <3> c \in Txs /\ o \in OutPoints
      BY <2>3, Shape, Zenon
    <3>2. pool.next[o] = c /\ c # None
      BY <2>3
    <3> QED BY <3>2, Zenon
  <2> HIDE DEF X
  <2>6. Sourced(pool) /\ Linked(pool, Pending, Returned) /\ \A c \in pool.txs \cap Returned : \A o \in Vin[c] : Creator[o] \notin Queued
    BY Zenon DEF LinkInv
  <2>7. X \subseteq Old
    BY <2>4, <2>6, Zenon DEF Old
  <2>8. \A y \in pool.txs : pool.children[y] \subseteq pool.txs
    BY DescendantsClosed, Zenon
  <2>9. \A y \in Old : pool.children[y] \subseteq Old
    <3> SUFFICES ASSUME NEW y \in Old, NEW x \in pool.children[y], x \in Returned PROVE FALSE
      BY <2>8, Zenon DEF Old
    <3> y \in pool.txs /\ x \in pool.txs /\ y \in Txs /\ x \in Txs
      BY <2>3, <2>8 DEF Old
    <3>2. y \in pool.parents[x]
      BY <2>3, Zenon
    <3>3. y \in MemPoolParents(pool, x)
      BY <2>3, <3>2, Zenon
    <3>4. PICK o \in Vin[x] : Creator[o] = y
      BY <3>3, Zenon DEF MemPoolParents
    <3> QED BY <3>4, Zenon DEF ReturnInv
  <2>10. CalculateDescendants(pool, X) \subseteq Old
    <3>1. Old \in SUBSET pool.txs
      BY DEF Old
    <3> QED BY <2>7, <2>9, <3>1, ReachableLeast, Zenon DEF CalculateDescendants
  <2>11. CalculateDescendants(pool, X) \cap Pending = {}
    BY <2>10, ZenonT(30) DEF Old
  <2>12. X \subseteq CalculateDescendants(pool, X)
    <3>1. X \subseteq pool.txs
      BY <2>4
    <3> QED BY <3>1, ReachableHas, Zenon DEF CalculateDescendants
  <2>13. \A c \in pool.txs \ CalculateDescendants(pool, X) : \A o \in Vin[c] : Creator[o] \in Queued => Creator[o] \in Queued'
    BY <2>5, <2>12, Zenon
  <2>14. Queued' \subseteq Queued /\ pool.txs \subseteq pool.txs
    BY Zenon
  <2> QED BY <2>2, <2>6, <2>11, <2>13, <2>14, <1>RemoveLink, Zenon
\* A disconnected block's transactions are those of a valid chain.
<1>DisconnectReturn. ASSUME MoveInv, ApartInv, ReturnInv, DisconnectTip
                     PROVE  ReturnInv'
  <2> USE <1>DisconnectReturn
  <2> DEFINE B == Range(BlockTxs[tip])
             M == Confirmed[Parent[tip]]
  <2>1. /\ tip \in Blocks /\ tip' = Parent[tip] /\ pool' = pool /\ phase = "move" /\ Returned = {} /\ Returned' = {}
        /\ Queued' = Queued \cup B /\ B \cap pool.txs = {}
    BY DisconnectApart, Zenon
  <2>2. tip \notin Chain[move.target] /\ tip \in Tree /\ Chain[tip] \cap BadConnect = {} /\ Unprocessed = {}
    BY <2>1 DEF DisconnectTip, ToDisconnect, MoveInv, Unprocessed
  <2>3. Mined = M \cup B /\ B \cap M = {}
    BY <2>1, <2>2, BlockApart, ChainGrows, Zenon DEF Mined
  <2>4. /\ \A t \in Mined : \A o \in Vin[t] : Creator[o] \in Mined
        /\ \A t, u \in Mined : t # u => Vin[t] \cap Vin[u] = {}
    BY <2>2, Valid, Zenon DEF Mined
  <2>5. \A t \in Queued, u \in Mined : Vin[t] \cap Vin[u] = {}
    BY <2>1, <2>2, Zenon DEF ReturnInv
  <2>6. \A c \in pool.txs : Vin[c] # {} /\ \A t \in Mined : Vin[c] \cap Vin[t] = {}
    BY <2>2, Zenon DEF ApartInv
  <2>7. Old = pool.txs /\ Old' = pool.txs /\ Mined' = M
    BY <2>1 DEF Old, Mined
  <2> HIDE DEF B, M
  <2>8. \A t, u \in Queued \cup B : t # u => Vin[t] \cap Vin[u] = {}
    <3> SUFFICES ASSUME NEW t \in Queued \cup B, NEW u \in Queued \cup B, t # u PROVE Vin[t] \cap Vin[u] = {}
      OBVIOUS
    <3>1. CASE t \in Queued /\ u \in Queued
      BY <3>1, Zenon DEF ReturnInv
    <3>2. CASE t \in Queued /\ u \in B
      BY <2>3, <2>5, <3>2, Zenon
    <3>3. CASE t \in B /\ u \in Queued
      BY <2>3, <2>5, <3>3, Zenon
    <3>4. CASE t \in B /\ u \in B
      BY <2>3, <2>4, <3>4, Zenon
    <3> QED BY <3>1, <3>2, <3>3, <3>4, Zenon
  <2>9. ASSUME NEW t \in Queued \cup B, NEW c \in pool.txs PROVE Vin[t] \cap Vin[c] = {} /\ \A o \in Vin[t] : Creator[o] # c
    <3>1. CASE t \in Queued
      BY <2>7, <3>1, Zenon DEF ReturnInv
    <3>2. CASE t \in B
      <4> t \in Mined
        BY <2>3, <3>2, Zenon
      <4>2. Vin[c] \cap Vin[t] = {}
        BY <2>6, Zenon
      <4>3. c \notin Mined
        BY <2>6, Zenon
      <4> QED BY <2>4, <4>2, <4>3, Zenon
    <3> QED BY <3>1, <3>2, Zenon
  <2>10. \A t \in Queued \cup B, u \in M : Vin[t] \cap Vin[u] = {}
    BY <2>3, <2>4, <2>5, Zenon
  <2> QED BY <2>1, <2>7, <2>8, <2>9, <2>10, Zenon DEF ReturnInv
\* The steps that move the tip.
<1>MovingLink. ASSUME Good(pool), MoveInv, ApartInv, ReturnInv, LinkInv,
                      DisconnectTip \/ DropEarliest \/ ConnectTip \/ removeForBlock
               PROVE  ReturnInv' /\ LinkInv'
  <2> USE <1>MovingLink
  <2>1. CASE DisconnectTip
    <3>   /\ tip \in Blocks /\ tip' = Parent[tip] /\ pool' = pool /\ phase = "move" /\ Returned = {} /\ Returned' = {}
          /\ Queued' = Queued \cup Range(BlockTxs[tip]) /\ phase' \in {"move", "spill"}
      BY <2>1, DisconnectApart, Zenon
    <3>2. Pending = {}
      BY DEF Pending
    <3>3. Mined \cup Queued \subseteq Mined' \cup Queued'
      <4>1. Mined = Mined' \cup Range(BlockTxs[tip])
        BY ChainGrows, Zenon DEF Mined
      <4> QED BY <4>1, Zenon
    <3>4. LinkInv'
      BY <3>2, <3>3, <1>SameLink, Zenon
    <3> QED BY <2>1, <3>4, <1>DisconnectReturn, Zenon
  <2>2. CASE DropEarliest
    <3> DEFINE t == Head(move.queuedTx)
    <3>   /\ phase = "spill" /\ phase' \in {"move", "spill"} /\ tip' = tip /\ move'.target = move.target
          /\ Returned = {} /\ Returned' = {} /\ t \in Queued /\ Queued' = Queued \ {t} /\ pool' = removeRecursive(pool, t)
      BY <2>2, DropApart, Zenon
    <3>2. Pending = {} /\ Pending' = {}
      BY DEF Pending
    <3>3. LinkInv'
      BY <3>2, <1>RecursiveLink, Zenon
    <3>4. Old' \subseteq Old
      BY RecursiveTxs DEF Old
    <3>5. Queued' \cup Returned' \subseteq Queued \cup Returned /\ phase \in {"move", "spill"} /\ Queued' \subseteq Queued
      OBVIOUS
    <3> QED BY <3>3, <3>4, <3>5, <1>FewerReturn, Zenon
  <2>3. CASE ConnectTip
    <3>   /\ phase' = "block" /\ phase = "move" /\ pool' = pool /\ Mined' = Mined \cup Unprocessed'
          /\ Returned = {} /\ Returned' = {} /\ Queued' = Queued \ Unprocessed'
      BY <2>3, ConnectApart, Zenon
    <3> Pending = {} /\ phase' \notin {"move", "spill"}
      BY DEF Pending
    <3> Mined \cup Queued \subseteq Mined' \cup Queued' /\ Queued' \subseteq Queued
      BY Zenon
    <3>4. LinkInv'
      BY <1>SameLink, Zenon
    <3>5. Queued' \cup Returned' \subseteq Queued \cup Returned /\ Old' \subseteq Old
      BY Zenon DEF Old
    <3> QED BY <3>4, <3>5, <1>FewerReturn, Zenon
  <2>4. CASE removeForBlock
    <3> DEFINE t == Head(move.work)
               S == {t} \cap pool.txs
               P == RemoveStaged(pool, S, TRUE)
               X == Conflicts(P, t)
    <3>   /\ phase = "block" /\ phase' = "block" /\ tip' = tip /\ Queued' = Queued /\ Returned = {} /\ Returned' = {}
          /\ t \in Mined /\ pool'.txs \subseteq pool.txs \ {t}
      BY <2>4, BlockLoopApart, Zenon
    <3>2. pool' = RemoveStaged(P, CalculateDescendants(P, X), FALSE)
      BY <2>4 DEF removeForBlock
    <3>3. Pending = {} /\ Pending' = {} /\ phase' \notin {"move", "spill"}
      BY DEF Pending
    <3>4. S \subseteq pool.txs
      BY Zenon
    <3>5. Sourced(pool) /\ Linked(pool, Pending, Returned)
      BY Zenon DEF LinkInv
    <3> Good(P) /\ Reduced(pool, S, P) /\ Linked(P, Pending, Returned)
      BY <3>4, <3>5, RemoveStagedGood, RemovedFields, <1>RemoveLinked, Zenon
    <3> HIDE DEF P, X, t
    <3> P.txs = pool.txs \ S
      BY Zenon DEF Reduced
    <3>8. Sourced(P)
      BY <3>5, Zenon DEF Sourced
    <3>9. LinkInv'
      BY <3>2, <3>3, <3>8, <1>RemoveLink, Zenon
    <3>10. Queued' \cup Returned' \subseteq Queued \cup Returned /\ Old' \subseteq Old
      BY Zenon DEF Old
    <3> QED BY <3>3, <3>9, <3>10, <1>FewerReturn, Zenon
  <2> QED BY <2>1, <2>2, <2>3, <2>4, Zenon
<1>StopLink. ASSUME MoveInv, ApartInv, ReturnInv, LinkInv, MoveFails \/ ConnectNothing \/ Connected
             PROVE  ReturnInv' /\ LinkInv'
  <2> USE <1>StopLink
  <2>   /\ phase \in {"move", "block"} /\ pool' = pool /\ tip' = tip /\ Returned = {} /\ Returned' = {} /\ Queued' = Queued
        /\ \/ phase' = "rest" \/ phase' = "readd"
           \/ phase = "block" /\ phase' = "move" /\ move' = move /\ tip \in Chain[move.target]
    BY StopApart, Zenon
  <2>2. Pending = {}
    BY DEF Pending
  <2>3. LinkInv'
    BY <2>2, <1>SameLink, Zenon DEF Mined
  <2>4. Queued' \cup Returned' \subseteq Queued \cup Returned /\ Old' \subseteq Old
    BY Zenon DEF Old
  <2>5. phase' \notin {"move", "spill"} \/ tip' \in Chain[move'.target]
    OBVIOUS
  <2> QED BY <2>3, <2>4, <2>5, <1>FewerReturn, Zenon
\* AcceptToMemoryPool finds no conflicts with a transaction that comes back.
<1>AddBackLink. ASSUME Good(pool), MoveInv, ApartInv, ReturnInv, LinkInv, AddBack
                PROVE  ReturnInv' /\ LinkInv'
  <2> USE <1>AddBackLink
  <2> DEFINE t == Last(move.queuedTx)
  <2>   /\ phase = "readd" /\ phase' = "readd" /\ tip' = tip /\ t \in Queued /\ Queued' = Queued \ {t} /\ t \in Txs
        /\ \/ Acceptable(pool, t) /\ pool' = Accepted(pool, t) /\ Returned' = Returned \cup {t}
           \/ pool' = removeRecursive(pool, t) /\ Returned' = Returned
    BY AddBackApart, Zenon
  <2> HIDE DEF t
  <2>2. Pending = Returned /\ Pending' = Returned' /\ phase' \notin {"move", "spill"} /\ Unprocessed = {}
    BY DEF Pending, Unprocessed
  <2>3. CASE Acceptable(pool, t) /\ pool' = Accepted(pool, t) /\ Returned' = Returned \cup {t}
    <3>1. Conflicts(pool, t) = {}
      <4> SUFFICES ASSUME NEW o \in Vin[t], pool.next[o] # None PROVE FALSE
        BY Zenon DEF Conflicts
      <4> DEFINE c == pool.next[o]
      <4> c \in pool.txs /\ o \in Vin[c]
        BY Shape DEF Good, Shaped, Indexed
      <4> HIDE DEF c
      <4>2. t \notin pool.txs
        BY Zenon DEF ApartInv
      <4>3. CASE c \in Old
        BY <4>3, Zenon DEF ReturnInv
      <4>4. CASE c \notin Old
        <5>1. c \in Returned /\ c # t
          BY <4>2, <4>4, Zenon DEF Old
        <5> QED BY <5>1, Zenon DEF ReturnInv
      <4> QED BY <4>3, <4>4, Zenon
    <3>2. CalculateDescendants(pool, {}) = {}
      BY <1>NothingReached, Zenon DEF CalculateDescendants
    <3>3. CalculateDescendants(pool, Conflicts(pool, t)) \cap Pending = {}
      BY <3>1, <3>2, Zenon
    <3>4. LinkInv'
      BY <2>2, <2>3, <3>3, <1>AcceptLink, Zenon
    <3>5. Old' \subseteq Old
      <4>1. pool'.txs \subseteq pool.txs \cup {t}
        BY <2>3, AcceptedTxs
      <4> QED BY <2>3, <4>1, Zenon DEF Old
    <3>6. Queued' \cup Returned' \subseteq Queued \cup Returned
      BY <2>3, Zenon
    <3> QED BY <2>2, <3>4, <3>5, <3>6, <1>FewerReturn, Zenon
  <2>4. CASE pool' = removeRecursive(pool, t) /\ Returned' = Returned
    <3> USE <2>4
    <3>1. LinkInv'
      BY <2>2, <1>RecursiveLink, Zenon
    <3>2. Old' \subseteq Old
      BY RecursiveTxs DEF Old
    <3>3. Queued' \cup Returned' \subseteq Queued \cup Returned
      BY Zenon
    <3> QED BY <2>2, <3>1, <3>2, <3>3, <1>FewerReturn, Zenon
  <2> QED BY <2>3, <2>4, Zenon
<1>ReorgLink. ASSUME Good(pool), MoveInv, ApartInv, ReturnInv, LinkInv,
                     AddedBack \/ UpdateTransactionsFromBlock \/ Relinked \/ removeForReorg
              PROVE  ReturnInv' /\ LinkInv'
  <2> USE <1>ReorgLink
  <2>1. /\ phase \in Reorganising /\ phase' \in {"relink", "relinked", "reorganised"} /\ tip' = tip /\ Mined' = Mined
        /\ Queued = {} /\ Queued' = {} /\ pool'.txs \subseteq pool.txs
    BY ReorgApart, Zenon DEF Mined
  <2>2. Sourced(pool) /\ Linked(pool, Pending, Returned)
    BY Zenon DEF LinkInv
  <2>3. ASSUME Returned' = Returned PROVE ReturnInv'
    <3>1. Queued' \cup Returned' \subseteq Queued \cup Returned /\ Old' \subseteq Old /\ phase' \notin {"move", "spill"}
      BY <2>1, <2>3 DEF Old
    <3> QED BY <3>1, <1>FewerReturn, Zenon
  <2>4. CASE AddedBack
    <3> USE <2>4
    <3> phase = "readd" /\ phase' = "relink" /\ Returned' = Returned /\ Range(move'.work) = Returned
      BY ReorgApart, Zenon
    <3>2. pool' = pool
      BY Zenon DEF AddedBack
    <3>3. Pending = Returned /\ Pending' = Returned
      BY DEF Pending
    <3> QED BY <2>1, <2>3, <3>2, <3>3, <1>SameLink, Zenon
  <2>5. CASE Relinked
    <3> USE <2>5
    <3> phase = "relink" /\ phase' = "relinked" /\ Returned' = Returned /\ Range(move.work) = {}
      BY ReorgApart, Zenon
    <3>2. pool' = pool
      BY Zenon DEF Relinked
    <3>3. Pending = {}
      BY DEF Pending
    <3> QED BY <2>1, <2>3, <3>2, <3>3, <1>SameLink, Zenon
  <2>6. CASE UpdateTransactionsFromBlock
    <3> DEFINE t == Last(move.work)
               included == Range(move.vHashUpdate)
    <3>   /\ phase = "relink" /\ phase' = "relink" /\ Returned' = Returned /\ pool'.txs = pool.txs
          /\ Range(move.work) = {t} \cup Range(move'.work)
      BY <2>6, ReorgApart, Zenon
    <3>2. \/ t \notin pool.txs /\ pool' = pool
          \/ t \in pool.txs /\ pool' = UpdateForDescendants(LinkChildren(pool, t, included), t, included)
      BY <2>6, Zenon DEF UpdateTransactionsFromBlock
    <3>3. Pending = {t} \cup Pending' /\ included = Returned
      BY DEF Pending, Returned
    <3> HIDE DEF t, included
    <3>4. /\ \A c \in pool.txs : pool.parents[c] \subseteq pool'.parents[c]
          /\ \A c \in pool.txs : c \notin included /\ t \in MemPoolParents(pool, c) => t \in pool'.parents[c]
      <4>1. CASE t \notin pool.txs /\ pool' = pool
        BY <4>1 DEF MemPoolParents
      <4>2. CASE t \in pool.txs /\ pool' = UpdateForDescendants(LinkChildren(pool, t, included), t, included)
        BY <4>2, RelinkFields, Zenon
      <4> QED BY <3>2, <4>1, <4>2, Zenon
    <3>5. \A c : MemPoolParents(pool', c) = MemPoolParents(pool, c)
      BY DEF MemPoolParents
    <3>6. Linked(pool, Pending, Returned)'
      <4> SUFFICES ASSUME NEW c \in pool.txs, NEW p \in MemPoolParents(pool, c)
                   PROVE  p \in pool'.parents[c] \/ (p \in Pending' /\ c \notin Returned)
        BY <3>5, Zenon DEF Linked
      <4>1. p \in pool.parents[c] \/ (p \in Pending /\ c \notin Returned)
        BY <2>2, Zenon DEF Linked
      <4> QED BY <3>3, <3>4, <4>1, Zenon
    <3>7. Sourced(pool)'
      BY <2>1, <2>2, Zenon DEF Sourced
    <3>8. LinkInv'
      BY <2>1, <3>6, <3>7, Zenon DEF LinkInv
    <3> QED BY <2>3, <3>8, Zenon
  <2>7. CASE removeForReorg
    <3>1. phase = "relinked" /\ phase' = "reorganised" /\ Returned' = {}
      BY <2>7, ReorgApart, Zenon
    <3>2. PICK X, l : pool' = RemoveStaged([pool EXCEPT !.lock = l], CalculateDescendants([pool EXCEPT !.lock = l], X), FALSE)
      BY <2>7, Zenon DEF removeForReorg
    <3> DEFINE P == [pool EXCEPT !.lock = l]
    <3>3. pool = [txs |-> pool.txs, next |-> pool.next, parents |-> pool.parents, children |-> pool.children,
                  feeDelta |-> pool.feeDelta, desc |-> pool.desc, anc |-> pool.anc, lock |-> pool.lock]
      BY Zenon DEF Good, Shaped
    <3>   /\ P = [txs |-> pool.txs, next |-> pool.next, parents |-> pool.parents, children |-> pool.children,
                  feeDelta |-> P.feeDelta, desc |-> P.desc, anc |-> P.anc, lock |-> P.lock]
          /\ P.txs = pool.txs /\ P.parents = pool.parents
      BY <3>3
    <3> HIDE DEF P
    <3>5. Good(P)
      BY SameIndexes
    <3>6. \A c : MemPoolParents(P, c) = MemPoolParents(pool, c)
      BY DEF MemPoolParents
    <3>7. Sourced(P) /\ Linked(P, Pending, Returned)
      BY <2>2, <3>6, Zenon DEF Sourced, Linked
    <3>8. Pending = {}
      BY <3>1 DEF Pending
    <3>9. pool' = RemoveStaged(P, CalculateDescendants(P, X), FALSE) /\ P.txs \subseteq pool.txs
      BY <3>2, Zenon DEF P
    <3>10. LinkInv'
      BY <2>1, <3>1, <3>5, <3>7, <3>8, <3>9, <1>RemoveLink, Zenon
    <3> QED BY <2>1, <3>1, <3>10, NothingReturned, Zenon
  <2> QED BY <2>4, <2>5, <2>6, <2>7, Zenon
<1> SUFFICES ASSUME Good(pool), MoveInv, ApartInv, ReturnInv, LinkInv, [Next]_vars
             PROVE  ReturnInv' /\ LinkInv'
  BY Zenon
<1>1. CASE Expire \/ TrimToSize \/ Trimmed \/ (\E t \in Txs : AcceptToMemoryPool(t))
  BY <1>1, <1>RestingLink, Zenon
<1>2. ASSUME pool'.txs = pool.txs, pool'.parents = pool.parents, UNCHANGED <<tip, phase, move>>
      PROVE  ReturnInv' /\ LinkInv'
  <2> USE <1>2
  <2> tip' = tip /\ phase' = phase /\ move' = move
    OBVIOUS
  <2> Queued' = Queued /\ Returned' = Returned /\ Mined' = Mined /\ Pending' = Pending
    BY DEF Queued, Returned, Mined, Pending
  <2>3. LinkInv'
    BY <1>SameLink, Zenon
  <2>4. ReturnInv'
    BY Zenon DEF ReturnInv, Old
  <2> QED BY <2>3, <2>4
<1>3. ASSUME NEW t, NEW d, PrioritiseTransaction(t, d) PROVE ReturnInv' /\ LinkInv'
  <2> USE <1>3
  <2>1. pool'.txs = pool.txs /\ pool'.parents = pool.parents
    BY PrioritiseFields
  <2>2. UNCHANGED <<tip, phase, move>>
    BY Zenon DEF PrioritiseTransaction
  <2> QED BY <1>2, <2>1, <2>2, Zenon
<1>4. ASSUME NEW b \in Blocks, ActivateBestChainStep(b) \/ InvalidateBlock(b) PROVE ReturnInv' /\ LinkInv'
  <2> phase \in Resting /\ phase' = "move" /\ pool' = pool /\ tip' = tip /\ Queued' = {} /\ Returned' = {}
    BY <1>4, BeginApart, Zenon
  <2>2. Queued = {} /\ Returned = {} /\ Pending = {}
    BY KeepsNothing, Zenon
  <2> QED BY <2>2, <1>SameLink, NothingReturned, Zenon DEF Mined
<1>5. CASE DisconnectTip \/ DropEarliest \/ ConnectTip \/ removeForBlock
  BY <1>5, <1>MovingLink, Zenon
<1>6. CASE MoveFails \/ ConnectNothing \/ Connected
  BY <1>6, <1>StopLink, Zenon
<1>7. CASE AddBack
  BY <1>7, <1>AddBackLink, Zenon
<1>8. CASE AddedBack \/ UpdateTransactionsFromBlock \/ Relinked \/ removeForReorg
  BY <1>8, <1>ReorgLink, Zenon
<1>9. CASE UNCHANGED vars
  <2>1. pool' = pool /\ UNCHANGED <<tip, phase, move>>
    BY <1>9, Zenon DEF vars
  <2> QED BY <1>2, <2>1, Zenon
<1> QED BY <1>1, <1>3, <1>4, <1>5, <1>6, <1>7, <1>8, <1>9, Zenon DEF Next

INSTANCE FiniteSetTheorems

(***************************************************************************)
(* Lock times, lock points and the maturity of coinbases.                  *)
(***************************************************************************)
LEMMA MinimalSet ==
  ASSUME NEW S, IsFiniteSet(S), NEW F, F \subseteq SUBSET S, F # {}
  PROVE  \E A \in F : \A B \in F : ~(B \subseteq A /\ B # A)
<1>1. IsWellFoundedOn(StrictSubsetOrdering(S), FiniteSubsetsOf(S))
  BY FS_StrictSubsetOrderingWellFounded, Zenon
<1>2. F \subseteq FiniteSubsetsOf(S)
  BY FS_Subset DEF FiniteSubsetsOf
<1>3. \E A \in F : \A B \in F : ~(<<B, A>> \in StrictSubsetOrdering(S))
  BY <1>1, <1>2, WFMin, Zenon
<1> QED BY <1>3, Zenon DEF StrictSubsetOrdering

\* A set of heights has a greatest one.
LEMMA Greatest ==
  ASSUME NEW n \in Nat, NEW S, S \subseteq 0..n, S # {}
  PROVE  Max(S) \in S /\ \A y \in S : y <= Max(S)
<1> DEFINE F == {m..n : m \in S}
<1>0. PICK U : U = 0..n
  BY Zenon
<1>1. IsFiniteSet(U)
  BY <1>0, FS_Interval
<1>2. F \subseteq SUBSET U
  <2> SUFFICES ASSUME NEW m \in S PROVE m..n \subseteq 0..n
    BY <1>0
  <2>1. m \in 0..n
    OBVIOUS
  <2> QED BY <2>1
<1>3. F # {}
  BY Zenon
<1> HIDE DEF F
<1>4. PICK A \in F : \A B \in F : ~(B \subseteq A /\ B # A)
  BY <1>1, <1>2, <1>3, MinimalSet
<1> PICK m \in S : A = m..n
  BY DEF F
<1>6. ASSUME NEW y \in S, ~(m >= y) PROVE FALSE
  <2>1. m \in 0..n /\ y \in 0..n /\ m < y
    BY <1>6
  <2>2. y..n \in F
    BY DEF F
  <2>3. m \in m..n /\ m \notin y..n /\ y..n \subseteq m..n
    BY <2>1
  <2> QED BY <1>4, <2>2, <2>3
<1>7. Max(S) \in S /\ \A y \in S : Max(S) >= y
  BY <1>6, Zenon DEF Max
<1> QED BY <1>7

\* The height of a transaction of a valid chain is that of the block it is in ...
Dated(b, x, t) ==
  /\ t \in Confirmed[b] /\ TxHeight[b][t] = Height[x]
  /\ Height[x] \in Nat /\ Height[x] <= Height[b] /\ Height[b] \in Nat

LEMMA HeightIn ==
  ASSUME NEW b \in Tree, Chain[b] \cap BadConnect = {}, NEW x \in Chain[b], NEW t, t \in Range(BlockTxs[x])
  PROVE  Dated(b, x, t)
<1>1. t \in Confirmed[b]
  BY ConfirmedIn, Zenon
<1>2. TxHeight[b][t] = Height[CHOOSE y \in Chain[b] : t \in Range(BlockTxs[y])]
  BY <1>1 DEF TxHeight
<1>3. \A y \in Chain[b] : t \in Range(BlockTxs[y]) => y = x
  BY Valid, Zenon
<1>4. (CHOOSE y \in Chain[b] : t \in Range(BlockTxs[y])) = x
  BY <1>3, Zenon
<1> x \in Tree /\ Height[x] <= Height[b]
  BY Chains, Zenon
<1>6. Height[x] \in Nat /\ Height[b] \in Nat
  BY Chains, Zenon
<1> QED BY <1>1, <1>2, <1>4, <1>6, Zenon DEF Dated

\* ... and the same on every longer chain.
Kept(b, m, t) ==
  /\ m \in Tree /\ t \in Confirmed[b] /\ TxHeight[m][t] = TxHeight[b][t]
  /\ TxHeight[b][t] \in Nat /\ TxHeight[b][t] <= Height[b]

LEMMA HeightKept ==
  ASSUME NEW b \in Tree, Chain[b] \cap BadConnect = {}, NEW m \in Chain[b], NEW t \in Confirmed[m]
  PROVE  Kept(b, m, t)
<1> m \in Tree /\ Chain[m] \subseteq Chain[b]
  BY Chains, Zenon
<1>2. Chain[m] \cap BadConnect = {}
  BY Zenon
<1> PICK x \in Chain[m] : t \in Range(BlockTxs[x])
  BY ConfirmedIn, Zenon
<1>4. TxHeight[m][t] = Height[x]
  BY <1>2, HeightIn, Zenon DEF Dated
<1>5. x \in Chain[b]
  BY Zenon
<1>6. t \in Confirmed[b] /\ TxHeight[b][t] = Height[x] /\ Height[x] \in Nat /\ Height[x] <= Height[b]
  BY <1>5, HeightIn, Zenon DEF Dated
<1> QED BY <1>4, <1>6, Zenon DEF Kept

\* The inputs of an entry with a relative lock were confirmed in the block its lock
\* points name or below, and its lock height covers them all.
Stored(c, lp) ==
  RelLock[c] \notin {Disabled, 0} =>
    /\ lp.height \in Int /\ lp.maxInputBlock \in Tree
    /\ \A o \in Vin[c] : /\ Creator[o] \in Confirmed[lp.maxInputBlock]
                         /\ TxHeight[lp.maxInputBlock][Creator[o]] + RelLock[c] - 1 <= lp.height

\* The locks of a transaction are open at the next height.
Open(P, c) ==
  RelLock[c] \notin {Disabled, 0} =>
    \A o \in Vin[c] : /\ Creator[o] \in Mined /\ Creator[o] \notin P.txs
                      /\ TxHeight[tip][Creator[o]] + RelLock[c] <= NextHeight

\* CheckSequenceLocks lets a transaction pass only if none of its relative locks
\* counts from an entry of the pool, and stores what it needs to know later.
LEMMA LocksChecked ==
  ASSUME MoveInv, NEW P, NEW t \in Txs, Vin[t] # {}, \A o \in Vin[t] : Creator[o] \notin P.txs => Creator[o] \in Mined,
         EvaluateSequenceLocks(CalculateLockPoints(P, t))
  PROVE  Open(P, t) /\ Stored(t, CalculateLockPoints(P, t))
<1> SUFFICES ASSUME RelLock[t] # Disabled, RelLock[t] # 0
             PROVE  Open(P, t) /\ Stored(t, CalculateLockPoints(P, t))
  BY Zenon DEF Open, Stored
<1> DEFINE confirmed == {o \in Vin[t] : Creator[o] \notin P.txs}
           heights == {TxHeight[tip][Creator[o]] : o \in confirmed}
           prev == heights \cup (IF confirmed # Vin[t] THEN {NextHeight} ELSE {})
           n == RelLock[t]
           m == CHOOSE b \in Chain[tip] : Height[b] = Max(heights \cup {0})
           lp == CalculateLockPoints(P, t)
<1>1. n \in Nat /\ n >= 1
  BY Shape
<1>2. tip \in Tree /\ Chain[tip] \cap BadConnect = {} /\ Height[tip] \in Nat /\ NextHeight = Height[tip] + 1
  <2>1. tip \in Tree /\ Chain[tip] \cap BadConnect = {}
    BY ZenonT(30) DEF MoveInv
  <2> QED BY <2>1, Chains, Zenon DEF NextHeight
<1>3. lp = [height |-> Max(prev) + n - 1, maxInputBlock |-> m]
  BY DEF CalculateLockPoints
<1>4. lp.height < NextHeight
  BY Zenon DEF EvaluateSequenceLocks
<1>5. ASSUME NEW o \in confirmed
      PROVE  /\ Creator[o] \in Confirmed[tip] /\ TxHeight[tip][Creator[o]] \in Nat /\ TxHeight[tip][Creator[o]] <= Height[tip]
             /\ \E x \in Chain[tip] : Creator[o] \in Range(BlockTxs[x]) /\ TxHeight[tip][Creator[o]] = Height[x]
  <2> Creator[o] \in Confirmed[tip]
    BY DEF Mined
  <2> PICK x \in Chain[tip] : Creator[o] \in Range(BlockTxs[x])
    BY <1>2, ConfirmedIn, Zenon
  <2>3. TxHeight[tip][Creator[o]] = Height[x] /\ Height[x] \in Nat /\ Height[x] <= Height[tip]
    <3>1. Dated(tip, x, Creator[o])
      BY <1>2, HeightIn, Zenon
    <3> QED BY <3>1, Zenon DEF Dated
  <2> QED BY <2>3, Zenon
<1>6. \A o \in Vin[t] : Creator[o] \notin P.txs => o \in confirmed
  BY Zenon
<1>7. \A o \in confirmed : o \in Vin[t] /\ Creator[o] \notin P.txs /\ TxHeight[tip][Creator[o]] \in heights
  BY Zenon
<1>8. \A h \in heights : h \in 0..Height[tip] /\ \E x \in Chain[tip] : h = Height[x]
  BY <1>2, <1>5
<1>9. prev # {} /\ heights \subseteq prev /\ (confirmed # Vin[t] => NextHeight \in prev) /\ prev \subseteq heights \cup {NextHeight}
  <2>1. confirmed = Vin[t] => heights # {}
    BY Zenon
  <2> HIDE DEF heights, confirmed
  <2> QED BY <2>1, Zenon
<1> HIDE DEF heights, confirmed, prev, m, lp, n
<1>0. lp.height = Max(prev) + n - 1 /\ lp.maxInputBlock = m
  BY <1>3
<1>10. prev \subseteq 0..NextHeight /\ NextHeight \in Nat
  <2>1. NextHeight \in Nat /\ NextHeight \in 0..NextHeight /\ 0..Height[tip] \subseteq 0..NextHeight
    BY <1>2
  <2> QED BY <1>8, <1>9, <2>1, Zenon
<1>11. Max(prev) \in prev /\ \A y \in prev : y <= Max(prev)
  BY <1>9, <1>10, Greatest, Zenon
<1>12. Max(prev) \in Nat /\ Max(prev) < NextHeight
  <2>1. Max(prev) \in 0..NextHeight
    BY <1>10, <1>11, Zenon
  <2>2. Max(prev) \in Nat
    BY <1>10, <2>1
  <2> QED BY <1>0, <1>1, <1>4, <1>10, <2>2
<1>13. confirmed = Vin[t]
  BY <1>9, <1>10, <1>11, <1>12
<1>14. ASSUME NEW o \in Vin[t]
       PROVE  TxHeight[tip][Creator[o]] + n <= NextHeight /\ TxHeight[tip][Creator[o]] + n - 1 <= lp.height
  <2>1. TxHeight[tip][Creator[o]] \in heights /\ TxHeight[tip][Creator[o]] \in Nat
    BY <1>5, <1>7, <1>13, Zenon
  <2>2. TxHeight[tip][Creator[o]] <= Max(prev)
    BY <1>9, <1>11, <2>1, Zenon
  <2>0. lp.height \in Int
    BY <1>0, <1>1, <1>12
  <2>   PICK h \in Nat, M \in Nat, N \in Nat, k \in Int :
          h = TxHeight[tip][Creator[o]] /\ M = Max(prev) /\ N = NextHeight /\ k = lp.height
    BY <1>10, <1>12, <2>0, <2>1, Zenon
  <2>4. h <= M /\ k = M + n - 1 /\ k < N
    BY <1>0, <1>4, <2>2, Zenon
  <2>5. h + n <= N /\ h + n - 1 <= k
    BY <1>1, <2>4
  <2> QED BY <2>5, Zenon
<1>15. Open(P, t)
  BY <1>7, <1>13, <1>14, Zenon DEF Open, n
<1> m \in Chain[tip] /\ \A h \in heights : h <= Height[m]
  <2>1. heights \cup {0} \subseteq 0..Height[tip] /\ heights \cup {0} # {}
    BY <1>2, <1>8
  <2> Max(heights \cup {0}) \in heights \cup {0} /\ \A y \in heights \cup {0} : y <= Max(heights \cup {0})
    BY <1>2, <2>1, Greatest, ZenonT(30)
  <2>3. Genesis \in Chain[tip] /\ Height[Genesis] = 0
    BY <1>2, Chains
  <2>4. \E b \in Chain[tip] : Height[b] = Max(heights \cup {0})
    BY <1>8, <2>3, Zenon
  <2>5. m \in Chain[tip] /\ Height[m] = Max(heights \cup {0})
    BY <2>4, Zenon DEF m
  <2> QED BY <2>5
<1>17. m \in Tree
  BY <1>2, Chains, Zenon
<1>18. ASSUME NEW o \in Vin[t] PROVE Creator[o] \in Confirmed[m] /\ TxHeight[m][Creator[o]] = TxHeight[tip][Creator[o]]
  <2> PICK x \in Chain[tip] : Creator[o] \in Range(BlockTxs[x]) /\ TxHeight[tip][Creator[o]] = Height[x]
    BY <1>5, <1>13, Zenon
  <2>2. Height[x] <= Height[m]
    BY <1>7, <1>13, Zenon
  <2>3. x \in Chain[m]
    BY <1>2, <2>2, Chains, Zenon
  <2>4. Creator[o] \in Confirmed[m]
    BY <1>17, <2>3, ConfirmedIn, Zenon
  <2> QED BY <1>2, <2>4, HeightKept, Zenon DEF Kept
<1>19. lp.height \in Int
  BY <1>0, <1>1, <1>12
<1>20. Stored(t, lp)
  BY <1>0, <1>14, <1>17, <1>18, <1>19, Zenon DEF Stored, n
<1> QED BY <1>15, <1>20 DEF lp

\* c could be in the next block once the entries it spends from are.
Aged(P, c) ==
  /\ Final(c)
  /\ \A o \in Vin[c] : Creator[o] \notin P.txs => Mature(o)
  /\ Open(P, c)

\* While no block has been disconnected, all entries could be mined; afterwards the
\* lock points removeForReorg relies on are right wherever their block is in the chain.
Timed == phase \in Resting \/ (phase \in Moving /\ ~move.disconnected)

TimeInv ==
  /\ \A c \in pool.txs : Stored(c, pool.lock[c])
  /\ Timed => \A c \in pool.txs : Aged(pool, c)

\* An entry stays so when others leave: a transaction of the pool is no coinbase.
LEMMA AgeKept ==
  ASSUME ApartInv, NEW c, Aged(pool, c), tip' = tip, \A x \in pool'.txs \ pool.txs : x \notin Mined
  PROVE  Aged(pool, c)'
<1>1. NextHeight' = NextHeight /\ Mined' = Mined /\ \A o : Mature(o)' <=> Mature(o)
  BY DEF NextHeight, Mined, Mature
<1>2. Final(c)'
  BY <1>1 DEF Aged, Final
<1>3. ASSUME NEW o \in Vin[c], Creator[o] \notin pool'.txs PROVE Mature(o)
  <2>1. CASE Creator[o] \in pool.txs
    <3>1. Creator[o] \notin Coinbases
      BY <2>1, Zenon DEF ApartInv
    <3> QED BY <3>1, Zenon DEF Mature
  <2>2. CASE Creator[o] \notin pool.txs
    BY <2>2, Zenon DEF Aged
  <2> QED BY <2>1, <2>2, Zenon
<1>4. Open(pool, c)'
  <2> SUFFICES ASSUME RelLock[c] \notin {Disabled, 0}, NEW o \in Vin[c]
               PROVE  Creator[o] \in Mined' /\ Creator[o] \notin pool'.txs /\ TxHeight[tip'][Creator[o]] + RelLock[c] <= NextHeight'
    BY Zenon DEF Open
  <2>1. Creator[o] \in Mined /\ Creator[o] \notin pool.txs /\ TxHeight[tip][Creator[o]] + RelLock[c] <= NextHeight
    BY Zenon DEF Aged, Open
  <2> QED BY <1>1, <2>1, Zenon
<1> QED BY <1>1, <1>2, <1>3, <1>4, Zenon DEF Aged

\* ... and when a block is added to the chain.
LEMMA AgeGrows ==
  ASSUME MoveInv, MoveInv', LinkInv, Queued = {}, tip' \in Blocks, Parent[tip'] = tip, pool' = pool,
         NEW c \in pool.txs, c \in Txs, Aged(pool, c)
  PROVE  Aged(pool, c)'
<1>1. /\ tip \in Tree /\ tip' \in Tree /\ Chain[tip'] \cap BadConnect = {} /\ Chain[tip'] = {tip'} \cup Chain[tip]
      /\ Height[tip'] = Height[tip] + 1
  BY ChainGrows, Zenon DEF MoveInv
<1>2. tip \in Chain[tip] /\ Height[tip] \in Nat
  BY <1>1, Chains, Zenon
<1>3. NextHeight = Height[tip] + 1 /\ NextHeight' = Height[tip] + 2 /\ NextHeight \in Nat /\ NextHeight' \in Nat /\ NextHeight <= NextHeight'
  BY <1>1, <1>2 DEF NextHeight
<1>4. ASSUME NEW x \in Mined
      PROVE  /\ x \in Mined' /\ TxHeight[tip'][x] = TxHeight[tip][x] /\ TxHeight[tip][x] \in Nat
  <2>1. tip \in Chain[tip']
    BY <1>1, <1>2, Zenon
  <2>2. x \in Confirmed[tip']  /\ TxHeight[tip][x] = TxHeight[tip'][x] /\ TxHeight[tip'][x] \in Nat
    <3>1. x \in Confirmed[tip] /\ Chain[tip'] \cap BadConnect = {} /\ tip' \in Tree
      BY <1>1, <1>4, Zenon DEF Mined
    <3>2. Kept(tip', tip, x)
      BY <2>1, <3>1, HeightKept, ZenonT(30)
    <3> QED BY <3>2, Zenon DEF Kept
  <2> QED BY <2>2, Zenon DEF Mined
<1>5. Final(c)'
  BY <1>3, Shape DEF Aged, Final
<1>6. ASSUME NEW o \in Vin[c], Creator[o] \notin pool.txs PROVE Mature(o)'
  <2> SUFFICES ASSUME Creator[o] \in Coinbases PROVE NextHeight' - TxHeight[tip'][Creator[o]] >= Maturity
    BY DEF Mature
  <2>1. Creator[o] \in Mined
    BY <1>6, Zenon DEF LinkInv, Sourced
  <2> NextHeight - TxHeight[tip][Creator[o]] >= Maturity /\ Maturity \in Int
    BY <1>6, Shape, Zenon DEF Aged, Mature
  <2> PICK h \in Nat : h = TxHeight[tip'][Creator[o]] /\ h = TxHeight[tip][Creator[o]]
    BY <1>4, <2>1, Zenon
  <2>4. NextHeight - h >= Maturity
    BY Zenon
  <2>5. NextHeight' - h >= Maturity
    BY <1>3, <2>4
  <2> QED BY <2>5, Zenon
<1>7. Open(pool, c)'
  <2> SUFFICES ASSUME RelLock[c] \notin {Disabled, 0}, NEW o \in Vin[c]
               PROVE  Creator[o] \in Mined' /\ Creator[o] \notin pool'.txs /\ TxHeight[tip'][Creator[o]] + RelLock[c] <= NextHeight'
    BY Zenon DEF Open
  <2> Creator[o] \in Mined /\ Creator[o] \notin pool.txs /\ TxHeight[tip][Creator[o]] + RelLock[c] <= NextHeight
    BY Zenon DEF Aged, Open
  <2> PICK h \in Nat : h = TxHeight[tip'][Creator[o]] /\ h = TxHeight[tip][Creator[o]]
    BY <1>4, ZenonT(30)
  <2>3. h + RelLock[c] <= NextHeight /\ RelLock[c] \in Nat
    BY Shape, Zenon
  <2>4. h + RelLock[c] <= NextHeight'
    BY <1>3, <2>3
  <2> QED BY <1>4, <2>4, Zenon
<1> QED BY <1>5, <1>6, <1>7, Zenon DEF Aged

\* Steps that neither move the tip nor add entries.
LEMMA TimeKept ==
  ASSUME ApartInv, TimeInv, tip' = tip, pool'.txs \subseteq pool.txs, \A c \in pool'.txs : pool'.lock[c] = pool.lock[c],
         Timed' => Timed
  PROVE  TimeInv'
<1>1. \A c \in pool'.txs : Stored(c, pool'.lock[c])
  BY Zenon DEF TimeInv
<1>2. ASSUME Timed', NEW c \in pool'.txs PROVE Aged(pool, c)'
  <2>1. Aged(pool, c)
    BY <1>2, Zenon DEF TimeInv
  <2> QED BY <2>1, AgeKept, Zenon
<1> QED BY <1>1, <1>2, Zenon DEF TimeInv

\* A transaction AcceptToMemoryPool accepts can be mined, and has right lock points.
LEMMA AcceptTime ==
  ASSUME Good(pool), MoveInv, ApartInv, TimeInv, Unprocessed = {}, NEW t \in Txs, Acceptable(pool, t),
         pool' = Accepted(pool, t), tip' = tip, Timed' => Timed
  PROVE  TimeInv'
<1> DEFINE S == CalculateDescendants(pool, Conflicts(pool, t))
<1>1. t \notin pool.txs /\ t \notin Mined /\ \A o \in Vin[t] : Creator[o] \in pool.txs \cup Mined /\ Creator[o] # t
  BY AcceptableSources, Zenon
<1>2. Extended(pool, S, t, pool')
  BY <1>1, AcceptedFields, Zenon
<1> HIDE DEF S
<1>3. Vin[t] # {}
  BY AcceptableApart, Zenon
<1>4. Final(t) /\ EvaluateSequenceLocks(CalculateLockPoints(pool, t)) /\ \A o \in Vin[t] : Creator[o] \notin pool.txs => Mature(o)
  BY Zenon DEF Acceptable
<1>5. \A o \in Vin[t] : Creator[o] \notin pool.txs => Creator[o] \in Mined
  BY <1>1, Zenon
<1>6. Open(pool, t) /\ Stored(t, CalculateLockPoints(pool, t))
  BY <1>3, <1>4, <1>5, LocksChecked, Zenon
<1>7. Aged(pool, t)
  BY <1>4, <1>6, Zenon DEF Aged
<1> pool'.txs = (pool.txs \ S) \cup {t}
  BY <1>2, Zenon DEF Extended
<1>9. \A c \in pool'.txs : Stored(c, pool'.lock[c])
  BY <1>2, <1>6, Zenon DEF TimeInv, Extended
<1>10. ASSUME Timed', NEW c \in pool'.txs PROVE Aged(pool, c)'
  <2>1. Aged(pool, c)
    BY <1>7, <1>10, Zenon DEF TimeInv
  <2>2. \A x \in pool'.txs \ pool.txs : x \notin Mined
    BY <1>1, Zenon
  <2> QED BY <2>1, <2>2, AgeKept, Zenon
<1> QED BY <1>9, <1>10, Zenon DEF TimeInv

\* removeForReorg leaves only what can be mined.
LEMMA ReorgTime ==
  ASSUME Good(pool), MoveInv, ApartInv, LinkInv, TimeInv, removeForReorg
  PROVE  TimeInv'
<1>0. \A h, n \in Nat : \A k, w \in Int : h + n - 1 <= k /\ k < w => h + n <= w
  OBVIOUS
<1> DEFINE gone == {t \in pool.txs : ~StillMinable(t)}
           kept == [pool EXCEPT !.lock = [t \in Txs |-> IF t \in pool.txs \ gone THEN CurrentLockPoints(t) ELSE NoLock]]
           S == CalculateDescendants(kept, gone)
<1>1. phase = "relinked" /\ tip' = tip /\ pool' = RemoveStaged(kept, S, FALSE) /\ Unprocessed = {}
  BY DEF removeForReorg, Unprocessed
<1>2. pool = [txs |-> pool.txs, next |-> pool.next, parents |-> pool.parents, children |-> pool.children,
              feeDelta |-> pool.feeDelta, desc |-> pool.desc, anc |-> pool.anc, lock |-> pool.lock]
  BY Zenon DEF Good, Shaped
<1>3. /\ kept = [txs |-> pool.txs, next |-> pool.next, parents |-> pool.parents, children |-> pool.children,
                 feeDelta |-> kept.feeDelta, desc |-> kept.desc, anc |-> kept.anc, lock |-> kept.lock]
      /\ kept.txs = pool.txs
      /\ kept.lock = [t \in Txs |-> IF t \in pool.txs \ gone THEN CurrentLockPoints(t) ELSE NoLock]
  BY <1>2
<1>4. \A c \in pool.txs : c \notin gone => StillMinable(c)
  BY Zenon
<1>5. gone \subseteq pool.txs
  BY Zenon
<1> HIDE DEF kept, gone
<1>6. Good(kept)
  BY <1>3, SameIndexes
<1>7. S \subseteq pool.txs /\ gone \subseteq S
  BY <1>3, <1>5, <1>6, DescendantsClosed, ReachableHas, Zenon DEF CalculateDescendants
<1>8. Reduced(kept, S, pool')
  BY <1>1, <1>3, <1>6, <1>7, RemovedFields, Zenon
<1> HIDE DEF S
<1>9. ASSUME NEW c \in pool'.txs
      PROVE  c \in pool.txs /\ c \in Txs /\ StillMinable(c) /\ pool'.lock[c] = CurrentLockPoints(c)
  <2> c \in pool.txs /\ c \notin S /\ pool'.lock[c] = kept.lock[c]
    BY <1>3, <1>8, <1>9, Zenon DEF Reduced
  <2> c \in Txs
    BY Zenon DEF ApartInv
  <2> c \notin gone
    BY <1>7, Zenon
  <2>4. kept.lock[c] = CurrentLockPoints(c)
    BY <1>3, Zenon
  <2> QED BY <1>4, <2>4, Zenon
<1>10. \A c \in pool.txs : c \notin Mined
  BY <1>1, ZenonT(30) DEF ApartInv
<1>11. tip \in Tree /\ Chain[tip] \cap BadConnect = {} /\ Height[tip] \in Nat /\ NextHeight \in Int
  <2>1. tip \in Tree /\ Chain[tip] \cap BadConnect = {} /\ Height[tip] \in Nat /\ NextHeight = Height[tip] + 1
    BY Chains, Zenon DEF MoveInv, NextHeight
  <2> QED BY <2>1
<1>12. ASSUME NEW c \in pool'.txs PROVE Open(pool, c) /\ Stored(c, pool'.lock[c])
  <2>1. c \in pool.txs /\ c \in Txs /\ StillMinable(c) /\ pool'.lock[c] = CurrentLockPoints(c)
    BY <1>9, <1>12, Zenon
  <2>2. EvaluateSequenceLocks(CurrentLockPoints(c)) /\ (TestLockPointValidity(pool.lock[c]) \/ \A o \in Vin[c] : HaveCoin(pool, o))
    BY <2>1, Zenon DEF StillMinable
  <2>3. CASE TestLockPointValidity(pool.lock[c])
    <3> DEFINE m == pool.lock[c].maxInputBlock
    <3>1. CurrentLockPoints(c) = pool.lock[c] /\ m \in Chain[tip]
      BY <2>3, Zenon DEF CurrentLockPoints, TestLockPointValidity
    <3>2. Stored(c, pool.lock[c]) /\ pool.lock[c].height < NextHeight
      BY <2>1, <2>2, <3>1, Zenon DEF TimeInv, EvaluateSequenceLocks
    <3>3. ASSUME RelLock[c] \notin {Disabled, 0}, NEW o \in Vin[c]
          PROVE  Creator[o] \in Mined /\ Creator[o] \notin pool.txs /\ TxHeight[tip][Creator[o]] + RelLock[c] <= NextHeight
      <4>1. Creator[o] \in Confirmed[m] /\ TxHeight[m][Creator[o]] + RelLock[c] - 1 <= pool.lock[c].height /\ pool.lock[c].height \in Int
        BY <3>2, <3>3, Zenon DEF Stored
      <4> HIDE DEF m
      <4> Creator[o] \in Confirmed[tip] /\ TxHeight[m][Creator[o]] = TxHeight[tip][Creator[o]] /\ TxHeight[tip][Creator[o]] \in Nat
        BY <1>11, <3>1, <4>1, HeightKept, Zenon DEF Kept
      <4>3. RelLock[c] \in Nat
        BY <2>1, <3>3, Shape
      <4> PICK h \in Nat, n \in Nat, k \in Int : h = TxHeight[tip][Creator[o]] /\ n = RelLock[c] /\ k = pool.lock[c].height
        BY <4>1, <4>3, Zenon
      <4>5. h + n - 1 <= k /\ k < NextHeight
        BY <3>2, <4>1, Zenon
      <4>6. h + n <= NextHeight
        <5> PICK w \in Int : w = NextHeight
          BY <1>11, Zenon
        <5>1. h + n - 1 <= k /\ k < w
          BY <4>5, Zenon
        <5>2. h + n <= w
          BY <1>0, <5>1, ZenonT(30)
        <5> QED BY <5>2, Zenon
      <4>7. TxHeight[tip][Creator[o]] + RelLock[c] <= NextHeight
        BY <4>6, Zenon
      <4>8. Creator[o] \in Mined
        BY Zenon DEF Mined
      <4> QED BY <1>10, <4>7, <4>8, Zenon
    <3> QED BY <2>1, <3>1, <3>2, <3>3, Zenon DEF Open
  <2>4. CASE ~TestLockPointValidity(pool.lock[c])
    <3> USE <2>4
    <3>1. CurrentLockPoints(c) = CalculateLockPoints(pool, c)
      BY ZenonT(30) DEF CurrentLockPoints
    <3>2. \A o \in Coins[tip] : Creator[o] \in Mined
      BY <1>11, Zenon DEF Coins, Mined
    <3>3. \A o \in Vin[c] : Creator[o] \notin pool.txs => Creator[o] \in Mined
      BY <2>2, <3>2, Zenon DEF HaveCoin
    <3>4. Vin[c] # {}
      BY <2>1, Zenon DEF ApartInv
    <3> QED BY <2>1, <2>2, <3>1, <3>3, <3>4, LocksChecked, Zenon
  <2> QED BY <2>3, <2>4, Zenon
<1>13. ASSUME NEW c \in pool'.txs PROVE Aged(pool, c)
  <2> c \in pool.txs /\ StillMinable(c) /\ Open(pool, c)
    BY <1>9, <1>12, <1>13, Zenon
  <2>2. ASSUME NEW o \in Vin[c], Creator[o] \notin pool.txs PROVE Mature(o)
    BY <2>2, Zenon DEF StillMinable, SpendsCoinbase, Mature
  <2> QED BY <2>2, Zenon DEF Aged, StillMinable
<1>14. \A x \in pool'.txs \ pool.txs : x \notin Mined
  BY <1>9, Zenon
<1>15. ASSUME NEW c \in pool'.txs PROVE Aged(pool, c)'
  BY <1>1, <1>13, <1>14, <1>15, AgeKept, Zenon
<1> QED BY <1>12, <1>15, Zenon DEF TimeInv

LEMMA RecursiveReduced ==
  ASSUME NEW P, NEW t, Good(P)
  PROVE  \E S : Reduced(P, S, removeRecursive(P, t))
<1>1. PICK X : removeRecursive(P, t) = RemoveStaged(P, CalculateDescendants(P, X), FALSE)
  BY Zenon DEF removeRecursive
<1>2. CalculateDescendants(P, X) \subseteq P.txs
  BY DescendantsClosed, Zenon
<1> QED BY <1>1, <1>2, RemovedFields, Zenon

\* Entries leave.
LEMMA ReducedTime ==
  ASSUME ApartInv, TimeInv, tip' = tip, NEW S, Reduced(pool, S, pool'), Timed' => Timed
  PROVE  TimeInv'
<1>1. pool'.txs \subseteq pool.txs /\ \A c \in pool'.txs : pool'.lock[c] = pool.lock[c]
  BY Zenon DEF Reduced
<1> QED BY <1>1, TimeKept, Zenon

LEMMA MovingTime ==
  ASSUME Good(pool), MoveInv, ApartInv, LinkInv, TimeInv,
         DisconnectTip \/ DropEarliest \/ ConnectTip \/ removeForBlock
  PROVE  TimeInv'
<1>1. CASE DisconnectTip
  <2> pool' = pool /\ phase' \in {"move", "spill"} /\ move'.disconnected
    BY <1>1, DisconnectApart, Zenon
  <2>2. ~Timed'
    BY DEF Timed, Resting
  <2> QED BY <2>2, Zenon DEF TimeInv
<1>2. CASE DropEarliest
  <2>   /\ phase = "spill" /\ phase' \in {"move", "spill"} /\ tip' = tip /\ move'.disconnected = move.disconnected
        /\ pool' = removeRecursive(pool, Head(move.queuedTx))
    BY <1>2, DropApart, Zenon
  <2>2. Timed' => Timed
    BY DEF Timed, Resting, Moving
  <2>3. PICK S : Reduced(pool, S, pool')
    BY RecursiveReduced, Zenon
  <2> QED BY <2>2, <2>3, ReducedTime, Zenon
<1>3. CASE ConnectTip
  <2>   /\ MoveInv' /\ phase = "move" /\ phase' = "block" /\ pool' = pool /\ tip' \in Blocks /\ Parent[tip'] = tip
        /\ move'.disconnected = move.disconnected
    BY <1>3, ConnectApart, Zenon
  <2>2. ASSUME Timed', NEW c \in pool.txs PROVE Aged(pool, c)'
    <3> ~move.disconnected /\ Timed
      BY <2>2 DEF Timed, Resting, Moving
    <3>2. Queued = {}
      <4>1. move.queuedTx = <<>>
        BY DEF MoveInv, Moving
      <4> QED BY <4>1, EmptyRange, Zenon DEF Queued
    <3>3. Aged(pool, c) /\ c \in Txs
      BY Zenon DEF TimeInv, ApartInv
    <3> QED BY <3>2, <3>3, AgeGrows, Zenon
  <2> QED BY <2>2, Zenon DEF TimeInv
<1>4. CASE removeForBlock
  <2> DEFINE t == Head(move.work)
             S == {t} \cap pool.txs
             P == RemoveStaged(pool, S, TRUE)
             D == CalculateDescendants(P, Conflicts(P, t))
  <2>1. /\ phase = "block" /\ phase' = "block" /\ tip' = tip /\ move'.disconnected = move.disconnected
    BY <1>4, BlockLoopApart, Zenon
  <2>2. pool' = RemoveStaged(P, D, FALSE)
    BY <1>4 DEF removeForBlock
  <2>3. S \subseteq pool.txs
    BY Zenon
  <2> Good(P) /\ Reduced(pool, S, P)
    BY <2>3, RemoveStagedGood, RemovedFields, Zenon
  <2> HIDE DEF P, t, S
  <2>5. D \subseteq P.txs
    BY DescendantsClosed, Zenon
  <2>6. Reduced(P, D, pool')
    BY <2>2, <2>5, RemovedFields, Zenon
  <2>7. pool'.txs \subseteq pool.txs /\ \A c \in pool'.txs : pool'.lock[c] = pool.lock[c]
    BY <2>6, Zenon DEF Reduced
  <2>8. Timed' => Timed
    BY <2>1 DEF Timed, Resting
  <2> QED BY <2>1, <2>7, <2>8, TimeKept, Zenon
<1> QED BY <1>1, <1>2, <1>3, <1>4, Zenon

LEMMA RestingTime ==
  ASSUME Good(pool), MoveInv, ApartInv, TimeInv,
         Expire \/ TrimToSize \/ Trimmed \/ (\E t \in Txs : AcceptToMemoryPool(t))
  PROVE  TimeInv'
<1> phase \in Resting /\ tip' = tip
  BY RestingApart, Zenon DEF Expire, TrimToSize, Trimmed, AcceptToMemoryPool
<1>2. Timed /\ Unprocessed = {}
  BY KeepsNothing, Zenon DEF Timed
<1>3. CASE Expire \/ TrimToSize
  <2>1. PICK X : pool' = RemoveStaged(pool, CalculateDescendants(pool, X), FALSE)
    BY <1>3, Zenon DEF Expire, TrimToSize
  <2>2. CalculateDescendants(pool, X) \subseteq pool.txs
    BY DescendantsClosed, Zenon
  <2>3. Reduced(pool, CalculateDescendants(pool, X), pool')
    BY <2>1, <2>2, RemovedFields, Zenon
  <2> QED BY <1>2, <2>3, ReducedTime, Zenon
<1>4. CASE Trimmed
  <2>1. pool' = pool
    BY <1>4, Zenon DEF Trimmed
  <2> QED BY <1>2, <2>1, TimeKept, Zenon
<1>5. ASSUME NEW t \in Txs, AcceptToMemoryPool(t) PROVE TimeInv'
  <2>1. Acceptable(pool, t) /\ pool' = Accepted(pool, t)
    BY <1>5, Zenon DEF AcceptToMemoryPool
  <2> QED BY <1>2, <2>1, AcceptTime, Zenon
<1> QED BY <1>3, <1>4, <1>5, Zenon

LEMMA TimeStep ==
  ASSUME Good(pool), MoveInv, ApartInv, LinkInv, TimeInv, [Next]_vars
  PROVE  TimeInv'
<1>1. CASE Expire \/ TrimToSize \/ Trimmed \/ (\E t \in Txs : AcceptToMemoryPool(t))
  BY <1>1, RestingTime, Zenon
<1>2. ASSUME pool'.txs = pool.txs, pool'.lock = pool.lock, UNCHANGED <<tip, phase, move>> PROVE TimeInv'
  <2> USE <1>2
  <2>1. tip' = tip /\ (Timed' => Timed)
    BY DEF Timed
  <2> QED BY <2>1, TimeKept, Zenon
<1>3. ASSUME NEW t, NEW d, PrioritiseTransaction(t, d) PROVE TimeInv'
  <2> USE <1>3
  <2>1. pool'.txs = pool.txs /\ pool'.lock = pool.lock
    BY PrioritiseFields
  <2>2. UNCHANGED <<tip, phase, move>>
    BY Zenon DEF PrioritiseTransaction
  <2> QED BY <1>2, <2>1, <2>2, Zenon
<1>4. ASSUME NEW b \in Blocks, ActivateBestChainStep(b) \/ InvalidateBlock(b) PROVE TimeInv'
  <2> phase \in Resting /\ pool' = pool /\ tip' = tip
    BY <1>4, BeginApart, Zenon
  <2>2. Timed
    BY Zenon DEF Timed
  <2> QED BY <2>2, TimeKept, Zenon
<1>5. CASE DisconnectTip \/ DropEarliest \/ ConnectTip \/ removeForBlock
  BY <1>5, MovingTime, Zenon
<1>6. CASE MoveFails \/ ConnectNothing \/ Connected
  <2>   /\ phase \in {"move", "block"} /\ pool' = pool /\ tip' = tip
        /\ \/ phase' = "rest" /\ ~move.disconnected
           \/ phase' = "readd"
           \/ phase = "block" /\ phase' = "move" /\ move' = move
    BY <1>6, StopApart, Zenon
  <2>2. Timed' => Timed
    BY DEF Timed, Resting, Moving
  <2> QED BY <2>2, TimeKept, Zenon
<1>7. CASE AddBack
  <2> DEFINE t == Last(move.queuedTx)
  <2>   /\ phase = "readd" /\ phase' = "readd" /\ tip' = tip /\ t \in Txs
        /\ (Acceptable(pool, t) /\ pool' = Accepted(pool, t)) \/ pool' = removeRecursive(pool, t)
    BY <1>7, AddBackApart, Zenon
  <2> ~Timed' /\ Unprocessed = {}
    BY DEF Timed, Resting, Moving, Unprocessed
  <2> HIDE DEF t
  <2>3. CASE Acceptable(pool, t) /\ pool' = Accepted(pool, t)
    BY <2>3, AcceptTime, Zenon
  <2>4. CASE pool' = removeRecursive(pool, t)
    <3>1. PICK S : Reduced(pool, S, pool')
      BY <2>4, RecursiveReduced, Zenon
    <3> QED BY <3>1, ReducedTime, Zenon
  <2> QED BY <2>3, <2>4, Zenon
<1>8. CASE AddedBack \/ UpdateTransactionsFromBlock \/ Relinked
  <2>1. tip' = tip /\ phase' \in {"relink", "relinked"}
    BY <1>8, Zenon DEF AddedBack, UpdateTransactionsFromBlock, Relinked
  <2>2. ~Timed'
    BY <2>1 DEF Timed, Resting, Moving
  <2>3. pool'.txs = pool.txs /\ pool'.lock = pool.lock
    <3>1. CASE pool' = pool
      BY <3>1
    <3>2. CASE UpdateTransactionsFromBlock
      <4> DEFINE t == Last(move.work)
                 included == Range(move.vHashUpdate)
      <4>1. pool' = pool \/ (t \in pool.txs /\ pool' = UpdateForDescendants(LinkChildren(pool, t, included), t, included))
        BY <3>2, Zenon DEF UpdateTransactionsFromBlock
      <4> HIDE DEF t, included
      <4> QED BY <3>1, <4>1, RelinkFields, Zenon
    <3>3. CASE AddedBack \/ Relinked
      BY <3>1, <3>3, Zenon DEF AddedBack, Relinked
    <3> QED BY <1>8, <3>2, <3>3, Zenon
  <2>4. pool'.txs \subseteq pool.txs /\ \A c \in pool'.txs : pool'.lock[c] = pool.lock[c]
    BY <2>3, Zenon
  <2> QED BY <2>1, <2>2, <2>4, TimeKept, Zenon
<1>9. CASE removeForReorg
  BY <1>9, ReorgTime, Zenon
<1>10. CASE UNCHANGED vars
  <2>1. pool' = pool /\ UNCHANGED <<tip, phase, move>>
    BY <1>10, Zenon DEF vars
  <2> QED BY <1>2, <2>1, Zenon
<1> QED BY <1>1, <1>3, <1>4, <1>5, <1>6, <1>7, <1>8, <1>9, <1>10, Zenon DEF Next

(***************************************************************************)
(* The pool at rest.                                                       *)
(***************************************************************************)

\* CheckSequenceLocks would let an entry with open locks pass again.
LEMMA LocksOpen ==
  ASSUME MoveInv, NEW P, NEW t \in Txs, Vin[t] # {}, \A o \in Vin[t] : Creator[o] \notin P.txs => Creator[o] \in Mined,
         Open(P, t)
  PROVE  EvaluateSequenceLocks(CalculateLockPoints(P, t))
<1> DEFINE confirmed == {o \in Vin[t] : Creator[o] \notin P.txs}
           heights == {TxHeight[tip][Creator[o]] : o \in confirmed}
           prev == heights \cup (IF confirmed # Vin[t] THEN {NextHeight} ELSE {})
           lp == CalculateLockPoints(P, t)
<1>1. tip \in Tree /\ Height[tip] \in Nat /\ NextHeight = Height[tip] + 1
  BY Chains, Zenon DEF MoveInv, NextHeight
<1>2. CASE RelLock[t] = Disabled
  <2>1. lp = NoLock
    BY <1>2, Zenon DEF CalculateLockPoints
  <2>2. lp.height = -1
    BY <2>1 DEF NoLock
  <2>3. lp.height < NextHeight
    BY <1>1, <2>2
  <2> QED BY <2>3, Zenon DEF EvaluateSequenceLocks
<1>3. CASE RelLock[t] # Disabled
  <2> DEFINE n == RelLock[t]
  <2>1. n \in Nat
    BY <1>3, Shape, Zenon
  <2>2. lp.height = Max(prev) + n - 1
    BY <1>3, Zenon DEF CalculateLockPoints
  <2>3. ASSUME NEW o \in confirmed
        PROVE  TxHeight[tip][Creator[o]] \in Nat /\ TxHeight[tip][Creator[o]] <= Height[tip]
    <3>1. Creator[o] \in Confirmed[tip]
      BY DEF Mined
    <3>2. PICK x \in Chain[tip] : Creator[o] \in Range(BlockTxs[x])
      BY <1>1, <3>1, ConfirmedIn, Zenon
    <3>3. Chain[tip] \cap BadConnect = {}
      BY Zenon DEF MoveInv
    <3>4. TxHeight[tip][Creator[o]] = Height[x] /\ Height[x] \in Nat /\ Height[x] <= Height[tip]
      <4>1. Dated(tip, x, Creator[o])
        BY <1>1, <3>2, <3>3, HeightIn, ZenonT(30)
      <4> QED BY <4>1, Zenon DEF Dated
    <3> QED BY <3>4, Zenon
  <2>4. prev # {} /\ prev \subseteq heights \cup {NextHeight} /\ (confirmed = Vin[t] => prev = heights)
    <3>1. confirmed = Vin[t] => heights # {}
      BY Zenon
    <3> HIDE DEF heights, confirmed
    <3> QED BY <3>1, Zenon
  <2>5. \A h \in heights : h \in 0..Height[tip] /\ \E o \in confirmed : h = TxHeight[tip][Creator[o]]
    BY <1>1, <2>3
  <2>6. n > 0 => confirmed = Vin[t] /\ \A o \in confirmed : TxHeight[tip][Creator[o]] + n <= NextHeight
    BY <1>3, <2>1 DEF Open
  <2> HIDE DEF heights, confirmed, prev, lp, n
  <2> prev \subseteq 0..NextHeight /\ NextHeight \in Nat
    <3>1. NextHeight \in Nat /\ NextHeight \in 0..NextHeight /\ 0..Height[tip] \subseteq 0..NextHeight
      BY <1>1
    <3> QED BY <2>4, <2>5, <3>1, Zenon
  <2> Max(prev) \in prev
    BY <2>4, Greatest, Zenon
  <2> PICK M \in 0..NextHeight : M = Max(prev)
    BY Zenon
  <2>10. n > 0 => M + n <= NextHeight
    BY <2>4, <2>5, <2>6, ZenonT(30)
  <2>11. M + n - 1 < NextHeight
    BY <2>1, <2>10
  <2>12. lp.height < NextHeight
    BY <2>2, <2>11, Zenon
  <2> QED BY <2>12, ZenonT(30) DEF EvaluateSequenceLocks, lp
<1> QED BY <1>2, <1>3, ZenonT(30)

LEMMA InitialLink ==
  ASSUME Init
  PROVE  ReturnInv /\ LinkInv /\ TimeInv
<1> MoveInv /\ phase \in Resting /\ pool = EmptyPool
  BY InitialApart DEF Init, Resting
<1>2. Queued = {} /\ Returned = {}
  BY KeepsNothing, Zenon
<1>3. pool.txs = {}
  BY DEF EmptyPool
<1> QED BY <1>2, <1>3, Zenon DEF ReturnInv, LinkInv, Sourced, Linked, TimeInv

\* An input that the chain created and no entry creates is unspent there.
LEMMA UnspentSource ==
  ASSUME MoveInv, ApartInv, LinkInv, phase \in Resting, NEW c \in pool.txs, NEW o \in Vin[c]
  PROVE  HaveCoin(pool, o) /\ (Creator[o] \notin pool.txs => Creator[o] \in Mined)
<1>1. Queued = {} /\ Unprocessed = {}
  BY KeepsNothing, Zenon
<1>2. Creator[o] \in pool.txs \cup Mined
  BY <1>1, Zenon DEF LinkInv, Sourced
<1>3. CASE Creator[o] \in pool.txs
  BY <1>3, Zenon DEF HaveCoin
<1>4. CASE Creator[o] \in Mined
  <2> USE <1>4
  <2>1. o \in OutPoints
    BY Shape DEF ApartInv
  <2>2. \A t \in Mined : o \notin Vin[t]
    BY <1>1, Zenon DEF ApartInv
  <2>3. tip \in Tree
    BY Zenon DEF MoveInv
  <2>4. o \in Coins[tip]
    BY <2>1, <2>2, <2>3, Zenon DEF Mined, Coins
  <2> QED BY <2>4, ZenonT(30) DEF HaveCoin
<1> QED BY <1>2, <1>3, <1>4, Zenon

\* Whenever cs_main is free the links are exactly the spends between entries and every
\* entry could be mined in the next block, for every set of transactions, every block
\* tree and every reorganisation, failed ones and overflows of disconnectpool included.
THEOREM AlwaysConsistentAtRest == Spec => []ConsistentAtRest
<1> DEFINE Inv == Good(pool) /\ MoveInv /\ ApartInv /\ ReturnInv /\ LinkInv /\ TimeInv
<1>1. Init => Inv
  BY InitialApart, InitialLink, Zenon
<1>2. Inv /\ [Next]_vars => Inv'
  <2> SUFFICES ASSUME Inv, [Next]_vars PROVE Inv'
    BY Zenon
  <2>1. Good(pool') /\ MoveInv' /\ ApartInv'
    BY GoodStep, ApartStep, Zenon
  <2>2. ReturnInv' /\ LinkInv'
    BY LinkStep, Zenon
  <2>3. TimeInv'
    BY TimeStep, Zenon
  <2> QED BY <2>1, <2>2, <2>3, Zenon
<1>3. Inv => ConsistentAtRest
  <2> SUFFICES ASSUME Inv, phase = "rest", NEW c \in pool.txs
               PROVE  /\ pool.parents[c] = MemPoolParents(pool, c)
                      /\ Final(c)
                      /\ \A o \in Vin[c] : HaveCoin(pool, o) /\ (Creator[o] \notin pool.txs => Mature(o))
                      /\ EvaluateSequenceLocks(CalculateLockPoints(pool, c))
    BY Zenon DEF ConsistentAtRest
  <2>1. phase \in Resting
    BY Zenon DEF Resting
  <2>2. Pending = {}
    BY <2>1, KeepsNothing, Zenon
  <2>3. c \in Txs /\ Vin[c] # {}
    BY Zenon DEF ApartInv
  <2>4. pool.parents[c] \subseteq MemPoolParents(pool, c)
    BY <2>3, Zenon DEF Good, Indexed
  <2>5. MemPoolParents(pool, c) \subseteq pool.parents[c]
    BY <2>2, Zenon DEF LinkInv, Linked
  <2> Aged(pool, c)
    BY <2>1, Zenon DEF TimeInv, Timed
  <2> \A o \in Vin[c] : HaveCoin(pool, o) /\ (Creator[o] \notin pool.txs => Creator[o] \in Mined)
    BY <2>1, UnspentSource, Zenon
  <2>8. EvaluateSequenceLocks(CalculateLockPoints(pool, c))
    <3>1. Open(pool, c) /\ MoveInv
      BY Zenon DEF Aged
    <3> QED BY <2>3, <3>1, LocksOpen, Zenon
  <2>9. pool.parents[c] = MemPoolParents(pool, c)
    BY <2>4, <2>5, Zenon
  <2> QED BY <2>8, <2>9, Zenon DEF Aged
<1> QED BY <1>1, <1>2, <1>3, PTL DEF Spec
=============================================================================
