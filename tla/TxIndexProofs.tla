---------------------------- MODULE TxIndexProofs ----------------------------
(***************************************************************************)
(* For every block tree, backlog and number of restarts: the only blocks   *)
(* missing from the index below its best block or its locator are those    *)
(* whose locator was written before them when the process died; and once   *)
(* synced the index follows the tip, however far its callbacks lag behind. *)
(***************************************************************************)
EXTENDS TxIndex, SequenceTheorems, TLAPS

\* The sync thread has everything up to its position, but for the block it is at.
Behind ==
  /\ pc = "next" => ~synced /\ Ancestors[pindex] \subseteq Accounted
  /\ pc \in {"announce", "write"} => ~synced /\ Ancestors[Parent[pindex]] \subseteq Accounted
  /\ pc = "done" => synced

IInv == TypeOK /\ BestIsIndexed /\ LocatorIsIndexed /\ Behind

\* The last common block of two chains.
LEMMA Fork ==
  ASSUME NEW a \in Blocks, NEW b \in Blocks
  PROVE  /\ FindFork(a, b) \in Blocks
         /\ Ancestors[FindFork(a, b)] = Ancestors[a] \cap Ancestors[b]
         /\ FindFork(a, b) \in Ancestors[a] /\ FindFork(a, b) \in Ancestors[b]
<1>1. \E x \in Blocks : Ancestors[x] = Ancestors[a] \cap Ancestors[b]
  BY BlockTree, Zenon
<1>2. FindFork(a, b) \in Blocks /\ Ancestors[FindFork(a, b)] = Ancestors[a] \cap Ancestors[b]
  BY <1>1, Zenon DEF FindFork
<1> QED BY <1>2, BlockTree, Zenon

\* An ancestor of a block.
LEMMA AncestorOf ==
  ASSUME NEW b \in Blocks, NEW a \in Ancestors[b]
  PROVE  a \in Blocks /\ Ancestors[a] \subseteq Ancestors[b] /\ Height[a] \in Nat /\ Height[a] <= Height[b]
BY BlockTree, Zenon

\* GetAncestor finds the block at a height.
LEMMA AncestorAt ==
  ASSUME NEW b \in Blocks, NEW h \in Nat, h <= Height[b]
  PROVE  GetAncestor(b, h) \in Ancestors[b] /\ Height[GetAncestor(b, h)] = h
<1>1. Height[b] \in Nat
  BY BlockTree, Zenon
<1>2. h \in 0..Height[b]
  BY <1>1
<1>3. \E a \in Ancestors[b] : Height[a] = h
  BY <1>2, BlockTree, ZenonT(30)
<1> QED BY <1>3, Zenon DEF GetAncestor

\* The blocks of a path are blocks, and the genesis block is never connected.
LEMMA PathType ==
  ASSUME NEW a \in Blocks, NEW b \in Blocks
  PROVE  /\ Connected(a, b) \in Seq(Blocks)
         /\ \A i \in DOMAIN Connected(a, b) : Connected(a, b)[i] # Genesis
<1> DEFINE fork == Height[FindFork(a, b)]
           n == Height[b] - fork
<1>0. Height[b] \in Nat /\ Height[Genesis] = 0
  BY BlockTree, Zenon
<1>1. fork \in Nat /\ fork <= Height[b] /\ n \in Nat
  <2>1. FindFork(a, b) \in Ancestors[b]
    BY Fork, Zenon
  <2>2. fork \in Nat /\ fork <= Height[b]
    BY <2>1, AncestorOf, Zenon
  <2> QED BY <1>0, <2>2
<1>3. Connected(a, b) = [i \in 1..n |-> GetAncestor(b, fork + i)]
  BY Zenon DEF Connected
<1> HIDE DEF fork
<1>2. ASSUME NEW i \in 1..n PROVE GetAncestor(b, fork + i) \in Blocks /\ GetAncestor(b, fork + i) # Genesis
  <2>1. fork + i \in Nat /\ fork + i > 0 /\ fork + i <= Height[b]
    BY <1>0, <1>1
  <2>2. GetAncestor(b, fork + i) \in Ancestors[b] /\ Height[GetAncestor(b, fork + i)] = fork + i
    BY <2>1, AncestorAt, Zenon
  <2>3. GetAncestor(b, fork + i) \in Blocks
    BY <2>2, AncestorOf, Zenon
  <2> QED BY <1>0, <2>1, <2>2, <2>3
<1> HIDE DEF n
<1>4. Connected(a, b) \in [1..n -> Blocks] /\ \A i \in 1..n : Connected(a, b)[i] # Genesis
  BY <1>2, <1>3, Zenon
<1> QED BY <1>1, <1>4

\* What the chain puts into the queue has the type of an event.
LEMMA EventTypes ==
  ASSUME NEW a \in Blocks, NEW b \in Blocks, NEW p \in Seq(Events), NEW c \in Blocks,
         \A i \in DOMAIN p : p[i].kind = "BlockConnected" => p[i].block # Genesis
  PROVE  LET q == BlockConnectedEvents(Connected(a, b))
             r == ChainStateFlushedEvent(c)
             Good(s) == /\ s \in Seq(Events)
                        /\ \A i \in DOMAIN s : s[i].kind = "BlockConnected" => s[i].block # Genesis
         IN Good(p \o q) /\ Good(p \o r) /\ Good(p \o r \o q)
<1> DEFINE path == Connected(a, b)
           q == BlockConnectedEvents(path)
           r == ChainStateFlushedEvent(c)
           Good(s) == /\ s \in Seq(Events)
                      /\ \A i \in DOMAIN s : s[i].kind = "BlockConnected" => s[i].block # Genesis
<1>1. path \in Seq(Blocks) /\ \A i \in DOMAIN path : path[i] # Genesis
  BY PathType, Zenon
<1> HIDE DEF path
<1>2. \A i \in DOMAIN path : [kind |-> "BlockConnected", block |-> path[i]] \in Events
  BY <1>1 DEF Events
<1>3. q \in Seq(Events) /\ DOMAIN q = DOMAIN path
  BY <1>1, <1>2 DEF BlockConnectedEvents
<1>4. Good(q)
  BY <1>1, <1>3, Zenon DEF BlockConnectedEvents
<1>5. Good(r)
  <2>1. [kind |-> "ChainStateFlushed", block |-> c] \in Events
    BY Zenon DEF Events
  <2> QED BY <2>1 DEF ChainStateFlushedEvent
<1>6. ASSUME NEW s, NEW t, Good(s), Good(t) PROVE Good(s \o t)
  <2>1. s \in Seq(Events) /\ t \in Seq(Events) /\ s \o t \in Seq(Events)
    BY <1>6
  <2>2. ASSUME NEW i \in DOMAIN (s \o t), (s \o t)[i].kind = "BlockConnected"
        PROVE  (s \o t)[i].block # Genesis
    <3>1. i \in 1..(Len(s) + Len(t))
      BY <2>1
    <3>2. CASE i <= Len(s)
      <4>1. (s \o t)[i] = s[i] /\ i \in DOMAIN s
        BY <2>1, <3>1, <3>2
      <4> QED BY <1>6, <2>2, <4>1, Zenon
    <3>3. CASE i > Len(s)
      <4>1. (s \o t)[i] = t[i - Len(s)] /\ i - Len(s) \in DOMAIN t
        BY <2>1, <3>1, <3>3
      <4> QED BY <1>6, <2>2, <4>1, Zenon
    <3> QED BY <2>1, <3>1, <3>2, <3>3
  <2> QED BY <2>1, <2>2, Zenon
<1>7. Good(p)
  BY Zenon
<1>8. Good(p \o q) /\ Good(p \o r)
  BY <1>4, <1>5, <1>6, <1>7, Zenon
<1>9. Good(p \o r \o q)
  BY <1>4, <1>6, <1>8, Zenon
<1> QED BY <1>8, <1>9, Zenon DEF path

\* The initial state satisfies the inductive invariant.
LEMMA InitIInv == Init => IInv
<1> SUFFICES ASSUME Init PROVE IInv  BY Zenon
<1>1. Genesis \in Blocks /\ Ancestors[Genesis] = {Genesis}
  <2>1. Genesis \in Blocks /\ Genesis \in Ancestors[Genesis] /\ Height[Genesis] = 0
    BY BlockTree, Zenon
  <2>2. ASSUME NEW a \in Ancestors[Genesis] PROVE a = Genesis
    <3>1. a \in Blocks /\ Height[a] = 0
      BY <2>1, AncestorOf
    <3> QED BY <3>1, BlockTree, Zenon
  <2> QED BY <2>1, <2>2, Zenon
<1>2. pending \in Seq(Events) /\ DOMAIN pending = {}
  BY DEF Init
<1>3. TypeOK
  BY <1>1, <1>2, Zenon DEF Init, TypeOK
<1>4. BestIsIndexed /\ LocatorIsIndexed /\ Behind
  BY <1>1, Zenon DEF Init, BestIsIndexed, LocatorIsIndexed, Behind, Accounted
<1> QED BY <1>3, <1>4, Zenon DEF IInv

\* Steps of the chain and of callers do not touch the index.
LEMMA ChainIInv ==
  ASSUME IInv, UNCHANGED <<synced, best, thread, disk>>, TypeOK'
  PROVE  IInv'
BY Zenon DEF IInv, BestIsIndexed, LocatorIsIndexed, Behind, Accounted, thread, disk

\* The chain's steps keep the types.
LEMMA ChainTypes ==
  ASSUME TypeOK, \/ \E b \in Blocks : ActivateBestChainStep(b)
                 \/ InvalidateBlock \/ FlushStateToDisk
  PROVE  TypeOK'
<1>1. /\ tip \in Blocks /\ pending \in Seq(Events) /\ diskTip \in Blocks
      /\ \A i \in DOMAIN pending : pending[i].kind = "BlockConnected" => pending[i].block # Genesis
  BY Zenon DEF TypeOK
<1>2. ASSUME tip' \in Blocks, diskTip' \in Blocks, pending' \in Seq(Events),
             \A i \in DOMAIN pending' : pending'[i].kind = "BlockConnected" => pending'[i].block # Genesis,
             UNCHANGED <<synced, best, thread, disk, call>>
      PROVE  TypeOK'
  BY <1>2, Zenon DEF TypeOK, thread, disk, call
<1>3. ASSUME NEW b \in Blocks, ActivateBestChainStep(b) PROVE TypeOK'
  <2> DEFINE path == Connected(tip, b)
             q == BlockConnectedEvents(path)
             fork == FindFork(tip, b)
  <2>1. tip' = b /\ UNCHANGED <<synced, best, thread, disk, call>>
    BY <1>3, Zenon DEF ActivateBestChainStep
  <2>2. path \in Seq(Blocks) /\ fork \in Blocks
    BY <1>1, PathType, Fork, Zenon
  <2>3. \/ pending' = pending \o q /\ diskTip' = diskTip
        \/ \E c \in Blocks : pending' = pending \o ChainStateFlushedEvent(c) \o q /\ diskTip' \in Blocks
    <3>1. ASSUME NEW d \in Ancestors[tip] \ Ancestors[fork], diskTip' = Parent[d],
                 pending' = pending \o ChainStateFlushedEvent(d) \o q
          PROVE  \E c \in Blocks : pending' = pending \o ChainStateFlushedEvent(c) \o q /\ diskTip' \in Blocks
      <4>1. d \in Blocks
        BY <1>1, AncestorOf, Zenon
      <4>2. Parent[d] \in Blocks
        BY <4>1, BlockTree, ZenonT(30)
      <4> QED BY <3>1, <4>1, <4>2, Zenon
    <3>2. ASSUME NEW i \in DOMAIN path, diskTip' = path[i],
                 pending' = pending \o ChainStateFlushedEvent(IF i = 1 THEN fork ELSE path[i - 1]) \o q
          PROVE  \E c \in Blocks : pending' = pending \o ChainStateFlushedEvent(c) \o q /\ diskTip' \in Blocks
      <4> HIDE DEF path, fork, q
      <4>1. path[i] \in Blocks /\ (IF i = 1 THEN fork ELSE path[i - 1]) \in Blocks
        BY <2>2
      <4> QED BY <3>2, <4>1, Zenon
    <3> QED BY <1>3, <3>1, <3>2, Zenon DEF ActivateBestChainStep
  <2>4. /\ pending' \in Seq(Events)
        /\ \A i \in DOMAIN pending' : pending'[i].kind = "BlockConnected" => pending'[i].block # Genesis
    <3> DEFINE Good(s) == /\ s \in Seq(Events)
                          /\ \A i \in DOMAIN s : s[i].kind = "BlockConnected" => s[i].block # Genesis
    <3>0. \A c \in Blocks : Good(pending \o q) /\ Good(pending \o ChainStateFlushedEvent(c) \o q)
      BY <1>1, EventTypes, ZenonT(30)
    <3> HIDE DEF q, Good
    <3>1. CASE pending' = pending \o q
      <4>1. Good(pending')
        BY <1>1, <3>0, <3>1, Zenon
      <4> QED BY <4>1, Zenon DEF Good
    <3>2. CASE \E c \in Blocks : pending' = pending \o ChainStateFlushedEvent(c) \o q
      <4>1. Good(pending')
        BY <3>0, <3>2, Zenon
      <4> QED BY <4>1, Zenon DEF Good
    <3> QED BY <2>3, <3>1, <3>2, Zenon
  <2>5. diskTip' \in Blocks
    BY <1>1, <2>3, Zenon
  <2> QED BY <1>2, <2>1, <2>4, <2>5, Zenon
<1>4. ASSUME NEW c \in Blocks, pending' = pending \o ChainStateFlushedEvent(c)
      PROVE  /\ pending' \in Seq(Events)
             /\ \A i \in DOMAIN pending' : pending'[i].kind = "BlockConnected" => pending'[i].block # Genesis
  BY <1>1, <1>4, EventTypes, ZenonT(30)
<1>5. CASE InvalidateBlock
  <2>1. Parent[tip] \in Blocks
    BY <1>1, BlockTree, Zenon
  <2>2. tip' = Parent[tip] /\ UNCHANGED <<synced, best, thread, disk, call>>
    BY <1>5, Zenon DEF InvalidateBlock
  <2>3. \/ diskTip' = diskTip /\ pending' = pending
        \/ diskTip' = Parent[tip] /\ pending' = pending \o ChainStateFlushedEvent(tip)
    BY <1>5, Zenon DEF InvalidateBlock
  <2> QED BY <1>1, <1>2, <1>4, <2>1, <2>2, <2>3, Zenon
<1>6. CASE FlushStateToDisk
  <2>1. /\ tip' = tip /\ diskTip' = tip /\ pending' = pending \o ChainStateFlushedEvent(tip)
        /\ UNCHANGED <<synced, best, thread, disk, call>>
    BY <1>6, Zenon DEF FlushStateToDisk
  <2> QED BY <1>1, <1>2, <1>4, <2>1, Zenon
<1> QED BY <1>3, <1>5, <1>6, Zenon

\* The next block of the sync thread extends something it already has.
LEMMA NextSync ==
  ASSUME NEW b \in Blocks, tip \in Blocks, NEW n \in NextSyncBlock(b)
  PROVE  n \in Blocks /\ n # Genesis /\ Ancestors[Parent[n]] \subseteq Ancestors[b]
<1>1. CASE b \in Ancestors[tip]
  <2>1. n \in Ancestors[tip] /\ n # Genesis /\ Parent[n] = b
    BY <1>1, Zenon DEF NextSyncBlock, ChainNext
  <2>2. n \in Blocks
    BY <2>1, AncestorOf, Zenon
  <2> QED BY <2>1, <2>2, Zenon
<1>2. CASE b \notin Ancestors[tip]
  <2>1. n \in Ancestors[tip] /\ n # Genesis /\ Parent[n] = FindFork(b, tip)
    BY <1>2, Zenon DEF NextSyncBlock, ChainNext
  <2>2. n \in Blocks
    BY <2>1, AncestorOf, Zenon
  <2>3. Ancestors[FindFork(b, tip)] \subseteq Ancestors[b]
    BY Fork, Zenon
  <2> QED BY <2>1, <2>2, <2>3, Zenon
<1> QED BY <1>1, <1>2, Zenon

\* A block and its ancestors.
LEMMA WithParent ==
  ASSUME NEW b \in Blocks, b # Genesis
  PROVE  Ancestors[b] = Ancestors[Parent[b]] \cup {b}
BY BlockTree, Zenon

\* The steps of ThreadSync.
LEMMA SyncIInv == IInv /\ Sync => IInv'
<1> SUFFICES ASSUME IInv, Sync PROVE IInv'  BY Zenon
<1>t. TypeOK /\ BestIsIndexed /\ LocatorIsIndexed /\ Behind
  BY Zenon DEF IInv
<1>b. pindex \in Blocks /\ tip \in Blocks /\ best \in Blocks /\ locator \in Blocks
  BY <1>t, Zenon DEF TypeOK
<1>1. CASE SyncNext
  <2>1. PICK n \in NextSyncBlock(pindex) : pindex' = n
    BY <1>1, Zenon DEF SyncNext
  <2>2. n \in Blocks /\ n # Genesis /\ Ancestors[Parent[n]] \subseteq Ancestors[pindex]
    BY <1>b, NextSync, Zenon
  <2>3. /\ pc = "next" /\ ~synced /\ pc' = "announce"
        /\ UNCHANGED <<tip, diskTip, pending, synced, best, announced, indexed, locator, skipped, caller, asked, ahead>>
    BY <1>1, Zenon DEF SyncNext, chain, disk, call
  <2>4. TypeOK'
    BY <1>t, <2>1, <2>2, <2>3, Zenon DEF TypeOK
  <2>5. Behind'
    BY <1>t, <2>1, <2>2, <2>3, Zenon DEF Behind, Accounted
  <2> QED BY <1>t, <2>3, <2>4, <2>5, Zenon DEF IInv, BestIsIndexed, LocatorIsIndexed, Accounted
<1>2. CASE SyncDone
  <2>1. /\ pc = "next" /\ ~synced /\ locator' = pindex /\ best' = pindex /\ synced' = TRUE /\ pc' = "done"
        /\ UNCHANGED <<tip, diskTip, pending, pindex, announced, indexed, skipped, caller, asked, ahead>>
    BY <1>2, Zenon DEF SyncDone, chain, call
  <2>2. TypeOK'
    BY <1>t, <2>1, Zenon DEF TypeOK
  <2> QED BY <1>t, <2>1, <2>2, Zenon DEF IInv, Behind, BestIsIndexed, LocatorIsIndexed, Accounted
<1>3. CASE SyncWriteBestBlock
  <2>1. /\ pc = "announce" /\ pc' = "write" /\ locator' \in {pindex, locator} /\ announced' \in BOOLEAN
        /\ UNCHANGED <<tip, diskTip, pending, synced, best, pindex, indexed, skipped, caller, asked, ahead>>
    BY <1>3, <1>t, Zenon DEF SyncWriteBestBlock, chain, call, TypeOK
  <2>2. TypeOK'
    BY <1>t, <2>1, Zenon DEF TypeOK
  <2>3. Ancestors[pindex] = Ancestors[Parent[pindex]] \cup {pindex}
    BY <1>t, <1>b, <2>1, WithParent, Zenon DEF TypeOK
  <2> QED BY <1>t, <2>1, <2>2, <2>3, Zenon DEF IInv, Behind, BestIsIndexed, LocatorIsIndexed, Accounted
<1>4. CASE SyncWriteBlock
  <2>1. /\ pc = "write" /\ pc' = "next" /\ indexed' = indexed \cup {pindex}
        /\ UNCHANGED <<tip, diskTip, pending, synced, best, pindex, announced, locator, skipped, caller, asked, ahead>>
    BY <1>4, Zenon DEF SyncWriteBlock, chain, call
  <2>2. TypeOK'
    BY <1>t, <2>1, Zenon DEF TypeOK
  <2>3. Ancestors[pindex] = Ancestors[Parent[pindex]] \cup {pindex}
    BY <1>t, <1>b, <2>1, WithParent, Zenon DEF TypeOK
  <2> QED BY <1>t, <2>1, <2>2, <2>3, Zenon DEF IInv, Behind, BestIsIndexed, LocatorIsIndexed, Accounted
<1> QED BY <1>1, <1>2, <1>3, <1>4, Zenon DEF Sync

\* The callbacks.
LEMMA CallbackIInv == IInv /\ RunCallback => IInv'
<1> SUFFICES ASSUME IInv, RunCallback PROVE IInv'  BY Zenon
<1>t. TypeOK /\ BestIsIndexed /\ LocatorIsIndexed /\ Behind
  BY Zenon DEF IInv
<1> DEFINE e == Head(pending)
<1>1. /\ pending # <<>> /\ pending \in Seq(Events) /\ pending' = Tail(pending)
      /\ UNCHANGED <<tip, diskTip, synced, pc, pindex, announced, skipped, caller, asked>>
      /\ ahead' = IF ahead > 0 THEN ahead - 1 ELSE 0
  BY <1>t, Zenon DEF RunCallback, TypeOK, thread
<1>2. /\ e \in Events /\ e.block \in Blocks /\ (e.kind = "BlockConnected" => e.block # Genesis)
      /\ pending' \in Seq(Events)
  <2>1. e = pending[1] /\ 1 \in DOMAIN pending /\ pending' \in Seq(Events) /\ e \in Events
    BY <1>1, HeadTailProperties
  <2> QED BY <1>t, <2>1, Zenon DEF TypeOK, Events
<1>3. \A i \in DOMAIN pending' : pending'[i].kind = "BlockConnected" => pending'[i].block # Genesis
  <2>1. ASSUME NEW i \in DOMAIN pending' PROVE i + 1 \in DOMAIN pending /\ pending'[i] = pending[i + 1]
    BY <1>1
  <2> QED BY <1>t, <2>1, Zenon DEF TypeOK
<1>4. ASSUME best' \in Blocks, indexed' \subseteq Blocks, locator' \in Blocks PROVE TypeOK'
  BY <1>t, <1>1, <1>2, <1>3, <1>4 DEF TypeOK
<1>b. best \in Blocks /\ locator \in Blocks /\ indexed \subseteq Blocks
  BY <1>t, Zenon DEF TypeOK
<1>5. CASE UNCHANGED <<best, indexed, locator>>
  BY <1>t, <1>1, <1>4, <1>5, <1>b, Zenon DEF IInv, Behind, BestIsIndexed, LocatorIsIndexed, Accounted
<1>6. CASE e.kind = "BlockConnected" /\ synced /\ Parent[e.block] \in Ancestors[best]
           /\ best' = e.block /\ indexed' = indexed \cup {e.block} /\ locator' = locator
  <2> DEFINE b == e.block
  <2>1. Ancestors[b] = Ancestors[Parent[b]] \cup {b}
    BY <1>2, <1>6, WithParent, Zenon
  <2>2. Ancestors[Parent[b]] \subseteq Ancestors[best]
    BY <1>6, <1>b, AncestorOf, Zenon
  <2>3. TypeOK'
    BY <1>2, <1>4, <1>6, <1>b, Zenon
  <2> HIDE DEF b
  <2>4. best' = b /\ indexed' = indexed \cup {b} /\ locator' = locator /\ synced
    BY <1>6, Zenon DEF b
  <2> QED BY <1>t, <1>1, <2>1, <2>2, <2>3, <2>4, Zenon DEF IInv, Behind, BestIsIndexed, LocatorIsIndexed, Accounted
<1>7. CASE synced /\ e.block \in Ancestors[best] /\ locator' = e.block /\ UNCHANGED <<best, indexed>>
  <2> DEFINE b == e.block
  <2>1. Ancestors[b] \subseteq Ancestors[best]
    BY <1>7, <1>b, AncestorOf, Zenon
  <2>2. TypeOK'
    BY <1>2, <1>4, <1>7, <1>b, Zenon
  <2> HIDE DEF b
  <2>3. locator' = b /\ best' = best /\ indexed' = indexed /\ synced
    BY <1>7, Zenon DEF b
  <2> QED BY <1>t, <1>1, <2>1, <2>2, <2>3, Zenon DEF IInv, Behind, BestIsIndexed, LocatorIsIndexed, Accounted
<1> QED BY <1>5, <1>6, <1>7, Zenon DEF RunCallback, BlockConnected, ChainStateFlushed

\* Starting again from what is on disk.
LEMMA StartIInv ==
  ASSUME IInv, NEW t \in Blocks, NEW loc \in Blocks, StartFrom(t, loc),
         locator' = loc, indexed' = indexed, skipped' \subseteq Blocks,
         Ancestors[loc] \subseteq Accounted'
  PROVE  IInv'
<1>t. TypeOK
  BY Zenon DEF IInv
<1>1. /\ best' = FindFork(loc, t) /\ tip' = t /\ diskTip' = t /\ pending' = <<>> /\ pindex' = best'
      /\ synced' = (best' = t) /\ pc' = (IF synced' THEN "done" ELSE "next") /\ announced' = FALSE
      /\ caller' = "idle" /\ ahead' = 0 /\ asked' = asked
  BY Zenon DEF StartFrom
<1>2. best' \in Blocks /\ Ancestors[best'] \subseteq Ancestors[loc]
  BY <1>1, Fork, Zenon
<1>e. pending' \in Seq(Events) /\ DOMAIN pending' = {}
  BY <1>1
<1>3. TypeOK'
  BY <1>t, <1>e, <1>1, <1>2, Zenon DEF TypeOK
<1>4. BestIsIndexed' /\ Behind'
  BY <1>1, <1>2, Zenon DEF BestIsIndexed, Behind
<1>5. LocatorIsIndexed'
  BY <1>1, Zenon DEF LocatorIsIndexed
<1> QED BY <1>3, <1>4, <1>5, Zenon DEF IInv

\* The inductive invariant holds in every reachable state.
THEOREM Invariant == Spec => []IInv
<1>1. IInv /\ [Next]_vars => IInv'
  <2> SUFFICES ASSUME IInv, [Next]_vars PROVE IInv'  BY Zenon
  <2>t. TypeOK /\ BestIsIndexed /\ LocatorIsIndexed /\ Behind
    BY Zenon DEF IInv
  <2>1. CASE (\E b \in Blocks : ActivateBestChainStep(b)) \/ InvalidateBlock \/ FlushStateToDisk
    <3>1. UNCHANGED <<synced, best, thread, disk>>
      BY <2>1, Zenon DEF ActivateBestChainStep, InvalidateBlock, FlushStateToDisk
    <3> QED BY <2>t, <2>1, <3>1, ChainTypes, ChainIInv, Zenon
  <2>2. CASE BlockUntilSynced \/ QueueDrained
    <3>1. UNCHANGED <<chain, synced, best, thread, disk>>
      BY <2>2, Zenon DEF BlockUntilSynced, QueueDrained
    <3>2. caller' \in {"idle", "waiting", "true"} /\ asked' \in Blocks /\ ahead' \in Nat
      BY <2>2, <2>t DEF BlockUntilSynced, QueueDrained, TypeOK
    <3>3. TypeOK'
      BY <2>t, <3>1, <3>2, Zenon DEF TypeOK, chain, thread, disk
    <3> QED BY <3>1, <3>3, ChainIInv, Zenon
  <2>3. CASE Crash
    <3>1. /\ StartFrom(diskTip, locator) /\ indexed' = indexed /\ locator' = locator
          /\ skipped' = skipped \cup ({locator} \ indexed)
      BY <2>3, Zenon DEF Crash
    <3>2. diskTip \in Blocks /\ locator \in Blocks /\ skipped \subseteq Blocks
      BY <2>t, Zenon DEF TypeOK
    <3>3. Ancestors[locator] \subseteq Accounted'
      <4>1. CASE pc # "write"
        BY <2>t, <3>1, <4>1, Zenon DEF LocatorIsIndexed, Accounted
      <4>2. CASE pc = "write" /\ locator = pindex
        BY <2>t, <3>1, <4>2, Zenon DEF LocatorIsIndexed, Accounted
      <4>3. CASE pc = "write" /\ locator # pindex
        BY <2>t, <3>1, <4>3, Zenon DEF LocatorIsIndexed, Accounted
      <4> QED BY <4>1, <4>2, <4>3, Zenon
    <3> QED BY <3>1, <3>2, <3>3, StartIInv, Zenon
  <2>4. CASE Shutdown
    <3>1. /\ pc \in {"next", "done"} /\ locator' = (IF pc = "next" THEN pindex ELSE locator)
          /\ StartFrom(tip, locator') /\ indexed' = indexed /\ skipped' = skipped
      BY <2>4, Zenon DEF Shutdown
    <3>2. tip \in Blocks /\ locator' \in Blocks /\ skipped \subseteq Blocks
      BY <2>t, <3>1, Zenon DEF TypeOK
    <3>3. Ancestors[locator'] \subseteq Accounted'
      BY <2>t, <3>1, Zenon DEF LocatorIsIndexed, Behind, Accounted
    <3> QED BY <3>1, <3>2, <3>3, StartIInv, Zenon
  <2>5. CASE UNCHANGED vars
    <3>1. UNCHANGED <<synced, best, thread, disk>> /\ TypeOK'
      BY <2>t, <2>5, Zenon DEF TypeOK, vars, chain, thread, disk, call
    <3> QED BY <3>1, ChainIInv, Zenon
  <2> QED BY <2>1, <2>2, <2>3, <2>4, <2>5, SyncIInv, CallbackIInv, Zenon DEF Next
<1> QED BY InitIInv, <1>1, PTL DEF Spec

\* Below the best block of a synced index nothing is missing but blocks that
\* were announced and not written when the process died.
THEOREM BestBlockIndexed == Spec => []BestIsIndexed
<1>1. IInv => BestIsIndexed
  BY Zenon DEF IInv
<1> QED BY Invariant, <1>1, PTL

\* The locator on disk is ahead of the index by at most the block being written.
THEOREM LocatorIndexed == Spec => []LocatorIsIndexed
<1>1. IInv => LocatorIsIndexed
  BY Zenon DEF IInv
<1> QED BY Invariant, <1>1, PTL

(***************************************************************************)
(* The backlog.  A BlockConnected event that is taken is followed by one   *)
(* that continues it or by none, so that a synced index which has not      *)
(* reached the tip meets an event that leads it there.                     *)
(***************************************************************************)
Connects(e) == e.kind = "BlockConnected"

\* One of the events after the i-th, up to the n-th, connects a block.
Some(q, i, n) == \E j \in (i + 1)..n : Connects(q[j])

\* One of them connects a block to an ancestor of b.
Leads(q, i, n, b) == \E j \in (i + 1)..n : Connects(q[j]) /\ Parent[q[j].block] \in Ancestors[b]

Linked(q) ==
  \A i \in 1..Len(q) : \A n \in 1..Len(q) : Connects(q[i]) /\ Some(q, i, n) => Leads(q, i, n, q[i].block)

\* The last block that the first n events connect has b below it.
EndsAt(q, n, b) == \A i \in 1..n : Connects(q[i]) /\ ~Some(q, i, n) => b \in Ancestors[q[i].block]

\* What is pending brings a synced index to the tip.
Backlog ==
  /\ Linked(pending) /\ EndsAt(pending, Len(pending), tip)
  /\ synced => tip \in Ancestors[best] \/ Leads(pending, 0, Len(pending), best)

\* What is ahead of a caller brings the index to the block it asked for.
Waiting ==
  /\ caller # "idle" => synced
  /\ CaughtUp
  /\ caller = "waiting" =>
       /\ ahead <= Len(pending) /\ EndsAt(pending, ahead, asked)
       /\ Ancestors[asked] \subseteq Accounted \/ Leads(pending, 0, ahead, best)

\* The event after the first one is the first one of the rest.
LEMMA Shift ==
  ASSUME NEW q \in Seq(Events), q # <<>>, NEW n \in 1..Len(q), NEW i \in 0..n, NEW b
  PROVE  /\ Some(Tail(q), i, n - 1) <=> Some(q, i + 1, n)
         /\ Leads(Tail(q), i, n - 1, b) <=> Leads(q, i + 1, n, b)
<1> DEFINE t == Tail(q)
<1>0. Len(q) \in Nat /\ n \in Nat /\ i \in Nat
  BY LenProperties
<1>1. \A j \in (i + 1)..(n - 1) : j + 1 \in (i + 2)..n /\ t[j] = q[j + 1]
  BY <1>0
<1>2. \A j \in (i + 2)..n : j - 1 \in (i + 1)..(n - 1) /\ t[j - 1] = q[j]
  BY <1>0
<1> HIDE DEF t
<1>3. Some(t, i, n - 1) <=> Some(q, i + 1, n)
  <2>1. (i + 1) + 1 = i + 2
    BY <1>0
  <2> QED BY <1>1, <1>2, <2>1, Zenon DEF Some
<1>4. Leads(t, i, n - 1, b) <=> Leads(q, i + 1, n, b)
  <2>1. (i + 1) + 1 = i + 2
    BY <1>0
  <2> QED BY <1>1, <1>2, <2>1, Zenon DEF Leads
<1> QED BY <1>3, <1>4, Zenon DEF t

\* Running the first event keeps what is said of the others.
LEMMA TailBacklog ==
  ASSUME NEW q \in Seq(Events), q # <<>>, NEW n \in 1..Len(q), NEW x
  PROVE  /\ Linked(q) => Linked(Tail(q))
         /\ EndsAt(q, n, x) => EndsAt(Tail(q), n - 1, x)
<1> DEFINE t == Tail(q)
<1>0. Len(q) \in Nat /\ Len(t) = Len(q) - 1 /\ \A i \in 1..Len(t) : t[i] = q[i + 1] /\ i + 1 \in 1..Len(q)
  BY LenProperties
<1>1. ASSUME Linked(q), NEW i \in 1..Len(t), NEW m \in 1..Len(t), Connects(t[i]), Some(t, i, m)
      PROVE  Leads(t, i, m, t[i].block)
  <2>1. m + 1 \in 1..Len(q) /\ i + 1 \in 1..Len(q) /\ t[i] = q[i + 1] /\ (m + 1) - 1 = m /\ m \in Nat /\ i \in Nat
    BY <1>0
  <2>2. i <= m
    BY <1>1, <2>1 DEF Some
  <2>3. i \in 0..(m + 1)
    BY <2>1, <2>2
  <2>4. Some(q, i + 1, m + 1)
    BY <1>1, <2>1, <2>3, Shift, Zenon
  <2>5. Leads(q, i + 1, m + 1, q[i + 1].block)
    BY <1>1, <2>1, <2>4, Zenon DEF Linked
  <2> QED BY <2>1, <2>3, <2>5, Shift, Zenon
<1>2. ASSUME EndsAt(q, n, x), NEW i \in 1..(n - 1), Connects(t[i]), ~Some(t, i, n - 1)
      PROVE  x \in Ancestors[t[i].block]
  <2>1. n \in Nat /\ i \in 0..n /\ i + 1 \in 1..n /\ i \in 1..Len(t)
    BY <1>0
  <2>2. ~Some(q, i + 1, n)
    BY <1>2, <2>1, Shift, Zenon
  <2> QED BY <1>0, <1>2, <2>1, <2>2, Zenon DEF EndsAt
<1> QED BY <1>1, <1>2, Zenon DEF Linked, EndsAt

\* The first n events of a longer backlog.
LEMMA PrefixBacklog ==
  ASSUME NEW q \in Seq(Events), NEW r \in Seq(Events), NEW n \in 0..Len(q), NEW x
  PROVE  /\ \A i \in 0..n : Some(q \o r, i, n) <=> Some(q, i, n)
         /\ \A i \in 0..n : \A b : Leads(q \o r, i, n, b) <=> Leads(q, i, n, b)
         /\ EndsAt(q \o r, n, x) <=> EndsAt(q, n, x)
<1> DEFINE s == q \o r
<1>0. Len(q) \in Nat /\ n \in Nat
  BY LenProperties
<1>1. \A j \in 1..n : s[j] = q[j]
  BY <1>0
<1> HIDE DEF s
<1>2. \A i \in 0..n : \A j \in (i + 1)..n : j \in 1..n
  BY <1>0
<1>3. \A i \in 0..n : Some(s, i, n) <=> Some(q, i, n)
  BY <1>1, <1>2, Zenon DEF Some
<1>4. \A i \in 0..n : \A b : Leads(s, i, n, b) <=> Leads(q, i, n, b)
  BY <1>1, <1>2, Zenon DEF Leads
<1>5. EndsAt(s, n, x) <=> EndsAt(q, n, x)
  <2>1. \A i \in 1..n : i \in 0..n
    BY <1>0
  <2> QED BY <1>1, <1>3, <2>1, Zenon DEF EndsAt
<1> QED BY <1>3, <1>4, <1>5, Zenon DEF s

\* A flush is announced.
LEMMA AppendFlush ==
  ASSUME NEW q \in Seq(Events), NEW c \in Blocks, NEW x, Linked(q), EndsAt(q, Len(q), x)
  PROVE  LET s == q \o ChainStateFlushedEvent(c)
         IN /\ s \in Seq(Events) /\ Len(s) = Len(q) + 1
            /\ Linked(s) /\ EndsAt(s, Len(s), x)
            /\ \A b : Leads(q, 0, Len(q), b) => Leads(s, 0, Len(s), b)
<1> DEFINE f == [kind |-> "ChainStateFlushed", block |-> c]
           s == q \o <<f>>
           k == Len(q)
<1>0. k \in Nat
  BY LenProperties, Zenon
<1>s. f \in Events /\ <<f>> \in Seq(Events) /\ s = q \o ChainStateFlushedEvent(c)
  BY DEF Events, ChainStateFlushedEvent
<1>1. s \in Seq(Events) /\ Len(s) = k + 1 /\ s[k + 1] = f /\ \A j \in 1..k : s[j] = q[j]
  BY <1>0, <1>s
<1>2. ~Connects(s[k + 1])
  BY <1>1 DEF Connects
<1> HIDE DEF s, f, k
<1>r. \A i \in 0..(k + 1) : \A j : j \in (i + 1)..k \/ (i # k + 1 /\ j = k + 1) <=> j \in (i + 1)..(k + 1)
  BY <1>0
<1>3. \A i \in 0..(k + 1) : Some(s, i, k + 1) <=> Some(s, i, k)
  BY <1>r, <1>2, Zenon DEF Some
<1>4. \A i \in 0..(k + 1) : \A b : Leads(s, i, k + 1, b) <=> Leads(s, i, k, b)
  BY <1>r, <1>2, Zenon DEF Leads
<1>5. /\ \A n \in 0..k : \A i \in 0..n : Some(s, i, n) <=> Some(q, i, n)
      /\ \A n \in 0..k : \A i \in 0..n : \A b : Leads(s, i, n, b) <=> Leads(q, i, n, b)
  BY <1>s, PrefixBacklog, ZenonT(30) DEF s, k
<1>6. Linked(s)
  <2> SUFFICES ASSUME NEW i \in 1..(k + 1), NEW n \in 1..(k + 1), Connects(s[i]), Some(s, i, n)
               PROVE  Leads(s, i, n, s[i].block)
    BY <1>1, Zenon DEF Linked
  <2>0. \A a, d \in 1..k : Connects(q[a]) /\ Some(q, a, d) => Leads(q, a, d, q[a].block)
    BY Zenon DEF Linked, k
  <2>1. PICK j \in (i + 1)..n : Connects(s[j])
    BY Zenon DEF Some
  <2>2. i \in 1..k /\ s[i] = q[i] /\ j # k + 1
    <3>1. j # k + 1
      BY <1>2, <2>1, Zenon
    <3>2. i \in 1..k
      BY <1>0, <2>1, <3>1
    <3> QED BY <1>1, <3>1, <3>2, Zenon
  <2>3. CASE n \in 1..k
    <3>1. i \in 0..n
      BY <1>0, <2>1, <2>2
    <3>2. Some(q, i, n)
      BY <1>0, <1>5, <2>3, <3>1
    <3>3. Leads(q, i, n, q[i].block)
      BY <2>0, <2>2, <2>3, <3>2, Zenon
    <3> QED BY <1>0, <1>5, <2>2, <2>3, <3>1, <3>3
  <2>4. CASE n = k + 1
    <3>1. k \in 1..k /\ i \in 0..k
      BY <1>0, <2>2
    <3>2. Some(q, i, k)
      BY <1>0, <1>3, <1>5, <2>4, <3>1
    <3>3. Leads(q, i, k, q[i].block)
      BY <2>0, <2>2, <3>1, <3>2, Zenon
    <3> QED BY <1>0, <1>4, <1>5, <2>2, <2>4, <3>1, <3>3
  <2> QED BY <1>0, <2>3, <2>4
<1>7. EndsAt(s, k + 1, x)
  <2> SUFFICES ASSUME NEW i \in 1..(k + 1), Connects(s[i]), ~Some(s, i, k + 1)
               PROVE  x \in Ancestors[s[i].block]
    BY Zenon DEF EndsAt
  <2>1. i \in 1..k /\ i \in 0..k /\ s[i] = q[i]
    <3>1. i # k + 1
      BY <1>2, Zenon
    <3>2. i \in 1..k /\ i \in 0..k
      BY <1>0, <3>1
    <3> QED BY <1>1, <3>2, Zenon
  <2>2. ~Some(q, i, k)
    BY <1>0, <1>3, <1>5, <2>1
  <2> QED BY <2>1, <2>2, Zenon DEF EndsAt, k
<1>8. ASSUME NEW b, Leads(q, 0, k, b) PROVE Leads(s, 0, k + 1, b)
  BY <1>0, <1>4, <1>5, <1>8
<1> QED BY <1>s, <1>1, <1>6, <1>7, <1>8, Zenon DEF k

\* A path is connected whose first block continues an ancestor of x.
LEMMA AppendPath ==
  ASSUME NEW q \in Seq(Events), NEW path \in Seq(Blocks), path # <<>>,
         NEW x \in Blocks, NEW y,
         Parent[path[1]] \in Ancestors[x],
         \A i \in 1..(Len(path) - 1) : Parent[path[i + 1]] \in Ancestors[path[i]],
         y \in Ancestors[path[Len(path)]],
         Linked(q), EndsAt(q, Len(q), x),
         \A i \in 1..Len(q) : q[i].block \in Blocks
  PROVE  LET s == q \o BlockConnectedEvents(path)
         IN /\ Linked(s) /\ EndsAt(s, Len(s), y)
            /\ \A b \in Blocks : Leads(q, 0, Len(q), b) \/ x \in Ancestors[b] => Leads(s, 0, Len(s), b)
<1> DEFINE r == BlockConnectedEvents(path)
           s == q \o r
           k == Len(q)
           m == Len(path)
<1>0. k \in Nat /\ m \in Nat /\ m > 0
  BY LenProperties, EmptySeq
<1>1. /\ r \in Seq(Events) /\ Len(r) = m
      /\ \A i \in 1..m : Connects(r[i]) /\ r[i].block = path[i]
  <2>1. \A i \in 1..m : [kind |-> "BlockConnected", block |-> path[i]] \in Events
    BY DEF Events
  <2>2. DOMAIN path = 1..m
    BY LenProperties, Zenon
  <2>3. r = [i \in 1..m |-> [kind |-> "BlockConnected", block |-> path[i]]]
    BY <2>2, Zenon DEF BlockConnectedEvents
  <2> QED BY <1>0, <2>1, <2>3 DEF Connects
<1> HIDE DEF r
<1>2. /\ Len(s) = k + m /\ \A j \in 1..k : s[j] = q[j]
      /\ \A j \in (k + 1)..(k + m) : j - k \in 1..m /\ s[j] = r[j - k]
  <2>1. Len(s) = k + m /\ \A j \in 1..(k + m) : s[j] = IF j <= k THEN q[j] ELSE r[j - k]
    <3>1. r \in Seq(Events) /\ Len(r) = m
      BY <1>1, Zenon
    <3>2. /\ Len(q \o r) = Len(q) + Len(r)
          /\ \A j \in 1..Len(q) + Len(r) : (q \o r)[j] = IF j <= Len(q) THEN q[j] ELSE r[j - Len(q)]
      BY <3>1, ConcatProperties, ZenonT(30)
    <3> HIDE DEF m
    <3> QED BY <3>1, <3>2, Zenon
  <2>2. \A j \in 1..k : j \in 1..(k + m) /\ j <= k
    BY <1>0
  <2>3. \A j \in (k + 1)..(k + m) : j \in 1..(k + m) /\ ~(j <= k) /\ j - k \in 1..m
    BY <1>0
  <2> HIDE DEF k, m, s
  <2> QED BY <2>1, <2>2, <2>3, Zenon
<1>3. \A j \in (k + 1)..(k + m) : Connects(s[j]) /\ s[j].block = path[j - k]
  BY <1>1, <1>2, Zenon
<1>4. /\ \A n \in 0..k : \A i \in 0..n : Some(s, i, n) <=> Some(q, i, n)
      /\ \A n \in 0..k : \A i \in 0..n : \A b : Leads(s, i, n, b) <=> Leads(q, i, n, b)
  BY <1>1, PrefixBacklog, Zenon
<1>l. /\ \A a, c \in 1..k : Connects(q[a]) /\ Some(q, a, c) => Leads(q, a, c, q[a].block)
      /\ \A a \in 1..k : Connects(q[a]) /\ ~Some(q, a, k) => x \in Ancestors[q[a].block] /\ q[a].block \in Blocks
      /\ \A a \in 1..(m - 1) : Parent[path[a + 1]] \in Ancestors[path[a]]
      /\ y \in Ancestors[path[m]]
  BY Zenon DEF Linked, EndsAt
<1> HIDE DEF s, k, m
<1>5. ASSUME NEW b \in Blocks, x \in Ancestors[b], NEW i \in 0..k, NEW n \in (k + 1)..(k + m)
      PROVE  Leads(s, i, n, b)
  <2>1. k + 1 \in (i + 1)..n /\ k + 1 \in (k + 1)..(k + m) /\ (k + 1) - k = 1
    BY <1>0
  <2>2. Connects(s[k + 1]) /\ s[k + 1].block = path[1]
    BY <1>3, <2>1, Zenon
  <2>3. Parent[path[1]] \in Ancestors[b]
    BY <1>5, AncestorOf, Zenon
  <2> QED BY <2>1, <2>2, <2>3, Zenon DEF Leads
<1>6. ASSUME NEW b, NEW i \in 0..k, NEW n \in k..(k + m), Leads(q, i, k, b)
      PROVE  Leads(s, i, n, b)
  <2>1. Leads(s, i, k, b)
    BY <1>0, <1>4, <1>6
  <2> QED BY <1>0, <2>1 DEF Leads
<1>7. Linked(s)
  <2> SUFFICES ASSUME NEW i \in 1..(k + m), NEW n \in 1..(k + m), Connects(s[i]), Some(s, i, n)
               PROVE  Leads(s, i, n, s[i].block)
    BY <1>2, Zenon DEF Linked
  <2>1. i < n
    BY <1>0 DEF Some
  <2>2. CASE n <= k
    <3>1. i \in 1..k /\ n \in 1..k /\ n \in 0..k /\ i \in 0..n /\ s[i] = q[i]
      BY <1>0, <1>2, <2>1, <2>2
    <3>2. Some(q, i, n)
      BY <1>4, <3>1, Zenon
    <3>3. Leads(q, i, n, q[i].block)
      BY <1>l, <3>1, <3>2, Zenon
    <3> QED BY <1>4, <3>1, <3>3, Zenon
  <2>3. CASE i <= k /\ n > k
    <3>1. i \in 1..k /\ i \in 0..k /\ k \in 1..k /\ n \in (k + 1)..(k + m) /\ n \in k..(k + m) /\ s[i] = q[i]
      BY <1>0, <1>2, <2>3
    <3>2. CASE Some(q, i, k)
      <4>1. Leads(q, i, k, q[i].block)
        BY <1>l, <3>1, <3>2, Zenon
      <4> QED BY <1>6, <3>1, <4>1, Zenon
    <3>3. CASE ~Some(q, i, k)
      <4>1. x \in Ancestors[q[i].block] /\ q[i].block \in Blocks
        BY <1>l, <3>1, <3>3, Zenon
      <4> QED BY <1>5, <3>1, <4>1, Zenon
    <3> QED BY <3>2, <3>3, Zenon
  <2>4. CASE i > k
    <3>1. i \in (k + 1)..(k + m) /\ i + 1 \in (k + 1)..(k + m) /\ i + 1 \in (i + 1)..n
      BY <1>0, <2>1, <2>4, SMTT(30)
    <3>2. i - k \in 1..(m - 1) /\ (i + 1) - k = (i - k) + 1
      BY <1>0, <3>1
    <3>3. Connects(s[i + 1]) /\ s[i + 1].block = path[(i - k) + 1] /\ s[i].block = path[i - k]
      BY <1>3, <3>1, <3>2, Zenon
    <3>4. Parent[s[i + 1].block] \in Ancestors[s[i].block]
      BY <1>l, <3>2, <3>3, ZenonT(30)
    <3> QED BY <3>1, <3>3, <3>4, Zenon DEF Leads
  <2> QED BY <1>0, <2>2, <2>3, <2>4
<1>8. EndsAt(s, k + m, y)
  <2> SUFFICES ASSUME NEW i \in 1..(k + m), Connects(s[i]), ~Some(s, i, k + m)
               PROVE  y \in Ancestors[s[i].block]
    BY Zenon DEF EndsAt
  <2>1. i = k + m
    <3>1. SUFFICES ASSUME i # k + m PROVE FALSE  BY Zenon
    <3>2. k + m \in (i + 1)..(k + m) /\ k + m \in (k + 1)..(k + m)
      BY <1>0, <3>1
    <3> QED BY <1>3, <3>2, Zenon DEF Some
  <2>2. i \in (k + 1)..(k + m) /\ i - k = m
    BY <1>0, <2>1
  <2> QED BY <1>3, <1>l, <2>2, Zenon
<1>9. ASSUME NEW b \in Blocks, Leads(q, 0, k, b) \/ x \in Ancestors[b] PROVE Leads(s, 0, k + m, b)
  <2>1. 0 \in 0..k /\ k + m \in (k + 1)..(k + m) /\ k + m \in k..(k + m)
    BY <1>0
  <2> QED BY <1>5, <1>6, <1>9, <2>1, Zenon
<1> QED BY <1>2, <1>7, <1>8, <1>9, Zenon DEF r, s, k, m

\* Two ancestors of one block at one height are the same; the one below is the parent.
LEMMA SameHeight ==
  ASSUME NEW b \in Blocks, NEW a \in Ancestors[b], NEW c \in Ancestors[b], Height[a] = Height[c]
  PROVE  a = c
BY BlockTree, Zenon

LEMMA ParentBelow ==
  ASSUME NEW b \in Blocks, NEW a \in Ancestors[b], a # Genesis
  PROVE  Parent[a] \in Ancestors[a] /\ Parent[a] \in Ancestors[b] /\ Height[a] = Height[Parent[a]] + 1
<1>1. a \in Blocks /\ Ancestors[a] \subseteq Ancestors[b]
  BY AncestorOf, Zenon
<1>2. /\ Parent[a] \in Blocks /\ Ancestors[a] = Ancestors[Parent[a]] \cup {a}
      /\ Height[a] = Height[Parent[a]] + 1 /\ Parent[a] \in Ancestors[Parent[a]]
  BY <1>1, BlockTree, Zenon
<1> QED BY <1>1, <1>2, Zenon

\* The blocks connected on the way from a to b: each is the parent of the next,
\* from a child of an ancestor of a up to b.
LEMMA PathLinks ==
  ASSUME NEW a \in Blocks, NEW b \in Blocks, b \notin Ancestors[a]
  PROVE  LET path == Connected(a, b)
         IN /\ path \in Seq(Blocks) /\ path # <<>>
            /\ Parent[path[1]] \in Ancestors[a]
            /\ \A i \in 1..(Len(path) - 1) : Parent[path[i + 1]] \in Ancestors[path[i]]
            /\ b \in Ancestors[path[Len(path)]]
<1> DEFINE f == FindFork(a, b)
           h == Height[f]
           n == Height[b] - h
           path == Connected(a, b)
<1>1. f \in Blocks /\ f \in Ancestors[a] /\ f \in Ancestors[b] /\ b \in Ancestors[b]
  BY Fork, BlockTree, Zenon
<1>2. h \in Nat /\ Height[b] \in Nat /\ h <= Height[b] /\ Height[Genesis] = 0
  BY <1>1, AncestorOf, BlockTree, Zenon
<1>3. h # Height[b]
  <2>1. f # b
    BY <1>1, Zenon
  <2> QED BY <1>1, <2>1, SameHeight, Zenon
<1>4. n \in Nat /\ n > 0
  BY <1>2, <1>3
<1>5. path = [i \in 1..n |-> GetAncestor(b, h + i)]
  BY Zenon DEF Connected
<1>6. path \in Seq(Blocks)
  BY PathType, Zenon
<1> HIDE DEF f, n, path
<1>7. ASSUME NEW i \in 1..n
      PROVE  path[i] \in Ancestors[b] /\ path[i] \in Blocks /\ Height[path[i]] = h + i /\ path[i] # Genesis
  <2>1. h + i \in Nat /\ h + i <= Height[b] /\ h + i # 0
    BY <1>2 DEF n
  <2>2. path[i] = GetAncestor(b, h + i)
    BY <1>5, Zenon
  <2>3. path[i] \in Ancestors[b] /\ Height[path[i]] = h + i
    BY <2>1, <2>2, AncestorAt, Zenon
  <2> QED BY <1>2, <2>1, <2>3, AncestorOf, Zenon
<1>8. Len(path) = n
  BY <1>4, <1>5
<1>9. path # <<>> /\ 1 \in 1..n /\ n \in 1..n
  BY <1>4, <1>6, <1>8
<1>10. Parent[path[1]] = f
  <2>1. Parent[path[1]] \in Ancestors[b] /\ Height[path[1]] = Height[Parent[path[1]]] + 1
    BY <1>7, <1>9, ParentBelow, Zenon
  <2>2. Height[Parent[path[1]]] \in Nat /\ Height[path[1]] = h + 1
    BY <1>7, <1>9, <2>1, AncestorOf, Zenon
  <2>3. Height[Parent[path[1]]] = h
    BY <1>2, <2>1, <2>2
  <2> QED BY <1>1, <2>1, <2>3, SameHeight, Zenon
<1>11. ASSUME NEW i \in 1..(n - 1) PROVE Parent[path[i + 1]] \in Ancestors[path[i]]
  <2>1. i \in 1..n /\ i + 1 \in 1..n
    BY <1>4, SMTT(30)
  <2>2. Parent[path[i + 1]] \in Ancestors[b] /\ Height[path[i + 1]] = Height[Parent[path[i + 1]]] + 1
    BY <1>7, <2>1, ParentBelow, ZenonT(30)
  <2>3. Height[Parent[path[i + 1]]] \in Nat /\ Height[path[i + 1]] = h + (i + 1) /\ Height[path[i]] = h + i
    BY <1>7, <2>1, <2>2, AncestorOf, Zenon
  <2>4. Height[Parent[path[i + 1]]] = Height[path[i]]
    BY <1>2, <2>2, <2>3
  <2>5. Parent[path[i + 1]] = path[i]
    BY <1>7, <2>1, <2>2, <2>4, SameHeight, Zenon
  <2> QED BY <1>7, <2>1, <2>5, BlockTree, Zenon
<1>12. path[n] = b
  <2>1. Height[path[n]] = Height[b]
    BY <1>2, <1>4, <1>7, <1>9 DEF n
  <2> QED BY <1>1, <1>7, <1>9, <2>1, SameHeight, Zenon
<1> QED BY <1>1, <1>6, <1>8, <1>9, <1>10, <1>11, <1>12, Zenon DEF path

\* Where the sync thread finds no next block it has the whole chain.
LEMMA NoNextBlock ==
  ASSUME NEW b \in Blocks, tip \in Blocks, NextSyncBlock(b) = {}
  PROVE  tip \in Ancestors[b]
<1>0. tip \in Ancestors[tip] /\ b \in Ancestors[b]
  BY BlockTree, Zenon
<1>1. ASSUME NEW x \in Ancestors[tip], ChainNext(x) = {} PROVE x = tip
  <2>1. Height[x] \in Nat /\ Height[x] <= Height[tip] /\ Height[tip] \in Nat
    BY AncestorOf, BlockTree, Zenon
  <2>2. SUFFICES ASSUME x # tip PROVE FALSE
    BY Zenon
  <2>3. Height[x] # Height[tip]
    BY <1>0, <2>2, SameHeight, Zenon
  <2> DEFINE n == GetAncestor(tip, Height[x] + 1)
  <2>4. n \in Ancestors[tip] /\ Height[n] = Height[x] + 1
    BY <2>1, <2>3, AncestorAt
  <2> HIDE DEF n
  <2>5. n # Genesis
    <3>1. Height[Genesis] = 0
      BY BlockTree, Zenon
    <3> QED BY <2>1, <2>4, <3>1
  <2>6. Parent[n] \in Ancestors[tip] /\ Height[n] = Height[Parent[n]] + 1
    BY <2>4, <2>5, ParentBelow, Zenon
  <2>7. Height[Parent[n]] = Height[x]
    BY <2>1, <2>4, <2>6, AncestorOf
  <2>8. Parent[n] = x
    BY <2>6, <2>7, SameHeight, Zenon
  <2> QED BY <1>1, <2>4, <2>5, <2>8, Zenon DEF ChainNext
<1>2. CASE b \in Ancestors[tip]
  BY <1>0, <1>1, <1>2, Zenon DEF NextSyncBlock
<1>3. CASE b \notin Ancestors[tip]
  <2>1. FindFork(b, tip) \in Ancestors[tip] /\ FindFork(b, tip) \in Ancestors[b]
    BY Fork, Zenon
  <2>2. FindFork(b, tip) = tip
    BY <1>1, <1>3, <2>1, Zenon DEF NextSyncBlock
  <2> QED BY <2>1, <2>2, Zenon
<1> QED BY <1>2, <1>3, Zenon

\* The blocks of the backlog.
LEMMA EventBlocks ==
  ASSUME NEW q \in Seq(Events)
  PROVE  \A i \in 1..Len(q) : q[i].block \in Blocks
<1>1. \A i \in 1..Len(q) : q[i] \in Events
  OBVIOUS
<1>2. \A e \in Events : e.block \in Blocks
  BY Zenon DEF Events
<1> QED BY <1>1, <1>2, Zenon

LEMMA PendingBlocks ==
  ASSUME TypeOK
  PROVE  pending \in Seq(Events) /\ \A i \in 1..Len(pending) : pending[i].block \in Blocks
BY EventBlocks, Zenon DEF TypeOK

\* What is queued behind a caller's promise is nothing to the caller.
LEMMA WaitingGrows ==
  ASSUME TypeOK, Waiting, NEW r \in Seq(Events), pending' = pending \o r,
         UNCHANGED <<synced, best, disk, call>>
  PROVE  Waiting'
<1>u. UNCHANGED <<synced, best, indexed, skipped, caller, asked, ahead>>
  BY Zenon DEF disk, call
<1>1. (caller' # "idle" => synced') /\ CaughtUp'
  BY <1>u DEF Waiting, CaughtUp, Accounted
<1>2. ASSUME caller = "waiting"
      PROVE  /\ ahead <= Len(pending') /\ EndsAt(pending', ahead, asked)
             /\ Ancestors[asked] \subseteq Accounted \/ Leads(pending', 0, ahead, best)
  <2>1. pending \in Seq(Events) /\ ahead \in Nat
    BY Zenon DEF TypeOK
  <2>2. Len(pending) \in Nat /\ Len(r) \in Nat /\ Len(pending') = Len(pending) + Len(r)
    BY <2>1
  <2>3. /\ ahead <= Len(pending) /\ EndsAt(pending, ahead, asked)
        /\ Ancestors[asked] \subseteq Accounted \/ Leads(pending, 0, ahead, best)
    BY <1>2, Zenon DEF Waiting
  <2>4. ahead \in 0..Len(pending) /\ 0 \in 0..ahead /\ ahead <= Len(pending')
    BY <2>1, <2>2, <2>3
  <2>5. /\ Leads(pending', 0, ahead, best) <=> Leads(pending, 0, ahead, best)
        /\ EndsAt(pending', ahead, asked) <=> EndsAt(pending, ahead, asked)
    BY <2>1, <2>4, PrefixBacklog, Zenon
  <2> QED BY <2>3, <2>4, <2>5, Zenon
<1> QED BY <1>u, <1>1, <1>2, Zenon DEF Waiting, Accounted

\* A step of the active chain that queues a flush, or nothing, and goes to an
\* ancestor of the tip.
LEMMA BacklogFlush ==
  ASSUME TypeOK, Backlog, UNCHANGED <<synced, best>>, tip' \in Ancestors[tip],
         \/ pending' = pending
         \/ \E c \in Blocks : pending' = pending \o ChainStateFlushedEvent(c)
  PROVE  Backlog'
<1>1. /\ Linked(pending) /\ EndsAt(pending, Len(pending), tip)
      /\ synced => tip \in Ancestors[best] \/ Leads(pending, 0, Len(pending), best)
  BY Zenon DEF Backlog
<1>2. tip \in Blocks /\ best \in Blocks
  BY Zenon DEF TypeOK
<1>3. EndsAt(pending, Len(pending), tip')
  <2>1. \A i \in 1..Len(pending) : tip \in Ancestors[pending[i].block] => tip' \in Ancestors[pending[i].block]
    BY <1>2, PendingBlocks, AncestorOf, Zenon
  <2> QED BY <1>1, <2>1, Zenon DEF EndsAt
<1>4. tip \in Ancestors[best] => tip' \in Ancestors[best]
  BY <1>2, AncestorOf, Zenon
<1>5. CASE pending' = pending
  BY <1>1, <1>3, <1>4, <1>5, Zenon DEF Backlog
<1>6. ASSUME NEW c \in Blocks, pending' = pending \o ChainStateFlushedEvent(c) PROVE Backlog'
  <2>1. /\ Linked(pending') /\ EndsAt(pending', Len(pending'), tip')
        /\ \A b : Leads(pending, 0, Len(pending), b) => Leads(pending', 0, Len(pending'), b)
    BY <1>1, <1>3, <1>6, PendingBlocks, AppendFlush, ZenonT(30)
  <2> QED BY <1>1, <1>4, <2>1, Zenon DEF Backlog
<1> QED BY <1>5, <1>6, Zenon

\* A step of ActivateBestChain, with or without a flush on the way.
LEMMA BacklogPath ==
  ASSUME TypeOK, Backlog, UNCHANGED <<synced, best>>, tip' \in Blocks, tip' \notin Ancestors[tip],
         \/ pending' = pending \o BlockConnectedEvents(Connected(tip, tip'))
         \/ \E c \in Blocks : pending' = pending \o ChainStateFlushedEvent(c)
                                                 \o BlockConnectedEvents(Connected(tip, tip'))
  PROVE  Backlog'
<1> DEFINE path == Connected(tip, tip')
<1>1. /\ Linked(pending) /\ EndsAt(pending, Len(pending), tip)
      /\ synced => tip \in Ancestors[best] \/ Leads(pending, 0, Len(pending), best)
  BY Zenon DEF Backlog
<1>2. tip \in Blocks /\ best \in Blocks
  BY Zenon DEF TypeOK
<1>3. /\ path \in Seq(Blocks) /\ path # <<>> /\ Parent[path[1]] \in Ancestors[tip]
      /\ \A i \in 1..(Len(path) - 1) : Parent[path[i + 1]] \in Ancestors[path[i]]
      /\ tip' \in Ancestors[path[Len(path)]]
  BY <1>2, PathLinks, Zenon
<1> HIDE DEF path
<1>4. ASSUME NEW q \in Seq(Events), Linked(q), EndsAt(q, Len(q), tip),
             \A i \in 1..Len(q) : q[i].block \in Blocks,
             Leads(pending, 0, Len(pending), best) => Leads(q, 0, Len(q), best),
             pending' = q \o BlockConnectedEvents(path)
      PROVE  Backlog'
  <2>1. /\ Linked(pending') /\ EndsAt(pending', Len(pending'), tip')
        /\ \A b \in Blocks : Leads(q, 0, Len(q), b) \/ tip \in Ancestors[b] => Leads(pending', 0, Len(pending'), b)
    BY <1>2, <1>3, <1>4, AppendPath, Zenon
  <2> QED BY <1>1, <1>2, <1>4, <2>1, Zenon DEF Backlog
<1>5. CASE pending' = pending \o BlockConnectedEvents(path)
  BY <1>1, <1>4, <1>5, PendingBlocks, Zenon
<1>6. ASSUME NEW c \in Blocks, pending' = pending \o ChainStateFlushedEvent(c) \o BlockConnectedEvents(path)
      PROVE  Backlog'
  <2> DEFINE q == pending \o ChainStateFlushedEvent(c)
  <2>1. /\ q \in Seq(Events) /\ Linked(q) /\ EndsAt(q, Len(q), tip)
        /\ \A b : Leads(pending, 0, Len(pending), b) => Leads(q, 0, Len(q), b)
    BY <1>1, PendingBlocks, AppendFlush, Zenon
  <2> HIDE DEF q
  <2>2. \A i \in 1..Len(q) : q[i].block \in Blocks
    BY <2>1, EventBlocks, Zenon
  <2> QED BY <1>4, <1>6, <2>1, <2>2, Zenon DEF q
<1> QED BY <1>5, <1>6, Zenon DEF path

\* A callback brings the index nearer to the end x of the first n events.
LEMMA CallbackLeads ==
  ASSUME IInv, RunCallback, synced, Linked(pending), NEW n \in 1..Len(pending), NEW x,
         EndsAt(pending, n, x),
         x \in Ancestors[best] \/ Leads(pending, 0, n, best)
  PROVE  x \in Ancestors[best'] \/ Leads(pending', 0, n - 1, best')
<1> DEFINE e == Head(pending)
<1>1. pending \in Seq(Events) /\ pending # <<>> /\ pending' = Tail(pending)
  BY Zenon DEF IInv, TypeOK, RunCallback
<1>2. n \in Nat /\ n >= 1 /\ 1 \in 1..n /\ 0 \in 0..n /\ 1 \in 1..Len(pending) /\ e = pending[1] /\ 0 + 1 = 1
  BY <1>1
<1>3. \A b : Leads(pending', 0, n - 1, b) <=> Leads(pending, 1, n, b)
  <2>1. \A b : Leads(Tail(pending), 0, n - 1, b) <=> Leads(pending, 0 + 1, n, b)
    BY <1>1, <1>2, Shift, Zenon
  <2> QED BY <1>1, <1>2, <2>1, Zenon
<1> HIDE DEF e
<1>4. CASE Connects(e) /\ best' = e.block
  <2>1. CASE Some(pending, 1, n)
    BY <1>2, <1>3, <1>4, <2>1, Zenon DEF Linked
  <2>2. CASE ~Some(pending, 1, n)
    BY <1>2, <1>4, <2>2, Zenon DEF EndsAt
  <2> QED BY <2>1, <2>2, Zenon
<1>5. CASE best' = best /\ ~(Connects(e) /\ Parent[e.block] \in Ancestors[best])
  <2>1. ASSUME Leads(pending, 0, n, best) PROVE Leads(pending, 1, n, best)
    <3>1. PICK j \in 1..n : Connects(pending[j]) /\ Parent[pending[j].block] \in Ancestors[best]
      BY <1>2, <2>1, Zenon DEF Leads
    <3>2. j # 1
      BY <1>2, <1>5, <3>1, Zenon
    <3>3. j \in (1 + 1)..n
      BY <1>2, <3>1, <3>2
    <3> QED BY <3>1, <3>3, Zenon DEF Leads
  <2> QED BY <1>3, <1>5, <2>1, Zenon
<1> QED BY <1>4, <1>5, Zenon DEF RunCallback, BlockConnected, Connects, e

\* The callbacks keep the backlog and the caller's part of it.
LEMMA CallbackBacklog ==
  ASSUME IInv, IInv', Backlog, Waiting, RunCallback
  PROVE  Backlog' /\ Waiting'
<1>1. /\ pending \in Seq(Events) /\ pending # <<>> /\ pending' = Tail(pending)
      /\ UNCHANGED <<tip, synced, caller, asked, skipped>>
      /\ ahead \in Nat /\ ahead' = IF ahead > 0 THEN ahead - 1 ELSE 0
      /\ indexed \subseteq indexed' /\ best' \in Blocks
  BY Zenon DEF IInv, TypeOK, RunCallback, BlockConnected
<1>2. Len(pending) \in Nat /\ Len(pending) > 0 /\ Len(pending') = Len(pending) - 1 /\ Len(pending) \in 1..Len(pending)
  BY <1>1
<1>3. Accounted \subseteq Accounted'
  BY <1>1, Zenon DEF Accounted
<1>4. Backlog'
  <2>1. /\ Linked(pending) /\ EndsAt(pending, Len(pending), tip)
        /\ synced => tip \in Ancestors[best] \/ Leads(pending, 0, Len(pending), best)
    BY Zenon DEF Backlog
  <2>2. Linked(pending') /\ EndsAt(pending', Len(pending'), tip)
    BY <1>1, <1>2, <2>1, TailBacklog, Zenon
  <2>3. synced => tip \in Ancestors[best'] \/ Leads(pending', 0, Len(pending'), best')
    BY <1>1, <1>2, <2>1, CallbackLeads, Zenon
  <2> QED BY <1>1, <2>2, <2>3, Zenon DEF Backlog
<1>5. (caller' # "idle" => synced') /\ CaughtUp'
  BY <1>1, <1>3, Zenon DEF Waiting, CaughtUp
<1>6. ASSUME caller = "waiting"
      PROVE  /\ ahead' <= Len(pending') /\ EndsAt(pending', ahead', asked)
             /\ Ancestors[asked] \subseteq Accounted' \/ Leads(pending', 0, ahead', best')
  <2>1. /\ ahead <= Len(pending) /\ EndsAt(pending, ahead, asked) /\ synced
        /\ Ancestors[asked] \subseteq Accounted \/ Leads(pending, 0, ahead, best)
    BY <1>6, Zenon DEF Waiting
  <2>2. CASE ahead = 0
    <3>1. ahead' = 0 /\ ahead' <= Len(pending')
      BY <1>1, <1>2, <2>2
    <3>2. EndsAt(pending', 0, asked) /\ ~Leads(pending, 0, 0, best)
      BY DEF EndsAt, Leads
    <3> QED BY <1>3, <2>1, <2>2, <3>1, <3>2, Zenon
  <2>3. CASE ahead > 0
    <3>1. ahead \in 1..Len(pending) /\ ahead' = ahead - 1 /\ ahead' <= Len(pending')
      BY <1>1, <1>2, <2>1, <2>3
    <3>2. EndsAt(pending', ahead', asked)
      BY <1>1, <2>1, <3>1, TailBacklog, Zenon
    <3>3. CASE Ancestors[asked] \subseteq Accounted
      BY <1>3, <3>1, <3>2, <3>3, Zenon
    <3>4. CASE Leads(pending, 0, ahead, best)
      <4>1. asked \in Ancestors[best'] \/ Leads(pending', 0, ahead', best')
        BY <2>1, <3>1, <3>4, CallbackLeads, Zenon DEF Backlog
      <4>2. ASSUME asked \in Ancestors[best'] PROVE Ancestors[asked] \subseteq Accounted'
        BY <1>1, <2>1, <4>2, AncestorOf, Zenon DEF IInv, BestIsIndexed
      <4> QED BY <3>1, <3>2, <4>1, <4>2, Zenon
    <3> QED BY <2>1, <3>3, <3>4, Zenon
  <2> QED BY <1>1, <2>2, <2>3
<1>7. Waiting'
  BY <1>1, <1>5, <1>6, Zenon DEF Waiting
<1> QED BY <1>4, <1>7, Zenon

\* The steps of ThreadSync: where it finds no next block, it is at the tip.
LEMMA SyncBacklog ==
  ASSUME IInv, Backlog, Waiting, Sync
  PROVE  Backlog' /\ Waiting'
<1>1. /\ ~synced /\ caller = "idle" /\ UNCHANGED <<tip, pending, caller>>
      /\ synced' => best' = pindex /\ NextSyncBlock(pindex) = {}
  BY DEF Sync, SyncNext, SyncDone, SyncWriteBestBlock, SyncWriteBlock, chain, call, IInv, Behind, Waiting
<1>2. pindex \in Blocks /\ tip \in Blocks
  BY Zenon DEF IInv, TypeOK
<1>3. synced' => tip \in Ancestors[best']
  BY <1>1, <1>2, NoNextBlock, Zenon
<1> QED BY <1>1, <1>3, ZenonT(30) DEF Backlog, Waiting, CaughtUp

\* A node starts with nothing queued.
LEMMA StartBacklog ==
  ASSUME NEW t \in Blocks, NEW loc, StartFrom(t, loc)
  PROVE  Backlog' /\ Waiting'
<1>1. /\ tip' = t /\ pending' = <<>> /\ Len(pending') = 0 /\ caller' = "idle"
      /\ synced' => best' = t
  BY ZenonT(30) DEF StartFrom
<1>2. Linked(pending') /\ EndsAt(pending', 0, t)
  BY <1>1 DEF Linked, EndsAt
<1>3. t \in Ancestors[t]
  BY BlockTree, Zenon
<1> QED BY <1>1, <1>2, <1>3, Zenon DEF Backlog, Waiting, CaughtUp

\* The steps of the active chain.
LEMMA ChainBacklog ==
  ASSUME TypeOK, Backlog, Waiting,
         \/ \E b \in Blocks : ActivateBestChainStep(b)
         \/ InvalidateBlock \/ FlushStateToDisk
  PROVE  Backlog' /\ Waiting'
<1>0. tip \in Blocks /\ tip \in Ancestors[tip]
  BY BlockTree, Zenon DEF TypeOK
<1>f. \A c \in Blocks : ChainStateFlushedEvent(c) \in Seq(Events)
  <2>1. \A c \in Blocks : [kind |-> "ChainStateFlushed", block |-> c] \in Events
    BY Zenon DEF Events
  <2>2. \A e \in Events : <<e>> \in Seq(Events)
    BY SMTT(30)
  <2> QED BY <2>1, <2>2, ZenonT(30) DEF ChainStateFlushedEvent
<1>1. ASSUME NEW b \in Blocks, ActivateBestChainStep(b) PROVE Backlog' /\ Waiting'
  <2> DEFINE path == Connected(tip, b)
             q == BlockConnectedEvents(path)
             fork == FindFork(tip, b)
  <2>1. tip' = b /\ b \notin Ancestors[tip] /\ UNCHANGED <<synced, best, disk, call>>
    BY <1>1, ZenonT(30) DEF ActivateBestChainStep
  <2>2. path \in Seq(Blocks) /\ fork \in Blocks
    BY <1>0, PathType, Fork, Zenon
  <2>3. \/ pending' = pending \o q
        \/ \E c \in Blocks : pending' = pending \o ChainStateFlushedEvent(c) \o q
    <3>1. ASSUME NEW d \in Ancestors[tip] \ Ancestors[fork],
                 pending' = pending \o ChainStateFlushedEvent(d) \o q
          PROVE  \E c \in Blocks : pending' = pending \o ChainStateFlushedEvent(c) \o q
      BY <1>0, <3>1, AncestorOf, Zenon
    <3>2. ASSUME NEW i \in DOMAIN path,
                 pending' = pending \o ChainStateFlushedEvent(IF i = 1 THEN fork ELSE path[i - 1]) \o q
          PROVE  \E c \in Blocks : pending' = pending \o ChainStateFlushedEvent(c) \o q
      <4> HIDE DEF path, fork, q
      <4>1. (IF i = 1 THEN fork ELSE path[i - 1]) \in Blocks
        BY <2>2
      <4> QED BY <3>2, <4>1, Zenon
    <3> QED BY <1>1, <3>1, <3>2, Zenon DEF ActivateBestChainStep
  <2>4. Backlog'
    BY <2>1, <2>3, BacklogPath, Zenon
  <2>5. \E r \in Seq(Events) : pending' = pending \o r
    <3>1. q \in Seq(Events)
      <4>1. \A x \in Blocks : [kind |-> "BlockConnected", block |-> x] \in Events
        BY Zenon DEF Events
      <4> HIDE DEF path
      <4> QED BY <2>2, <4>1 DEF BlockConnectedEvents
    <3>2. pending \in Seq(Events)
      BY Zenon DEF TypeOK
    <3> HIDE DEF q
    <3>3. \A c \in Blocks : /\ ChainStateFlushedEvent(c) \o q \in Seq(Events)
                            /\ pending \o ChainStateFlushedEvent(c) \o q = pending \o (ChainStateFlushedEvent(c) \o q)
      <4> TAKE c \in Blocks
      <4>1. ChainStateFlushedEvent(c) \in Seq(Events)
        BY <1>f, Zenon
      <4> QED BY <3>1, <3>2, <4>1, ConcatAssociative, ConcatProperties, SMTT(30)
    <3> QED BY <2>3, <3>1, <3>3, Zenon
  <2> QED BY <2>1, <2>4, <2>5, WaitingGrows, Zenon
<1>2. CASE InvalidateBlock \/ FlushStateToDisk
  <2>1. Parent[tip] \in Ancestors[tip] \/ tip = Genesis
    BY <1>0, ParentBelow, Zenon
  <2>2. tip' \in Ancestors[tip] /\ UNCHANGED <<synced, best, disk, call>>
    BY <1>0, <1>2, <2>1, Zenon DEF InvalidateBlock, FlushStateToDisk
  <2>3. \/ pending' = pending
        \/ \E c \in Blocks : pending' = pending \o ChainStateFlushedEvent(c)
    BY <1>0, <1>2, Zenon DEF InvalidateBlock, FlushStateToDisk
  <2>4. Backlog'
    BY <2>2, <2>3, BacklogFlush, Zenon
  <2>5. Waiting'
    <3>1. CASE pending' = pending
      BY <2>2, <3>1, Zenon DEF Waiting, CaughtUp, Accounted, disk, call
    <3> QED BY <1>f, <2>2, <2>3, <3>1, WaitingGrows, Zenon
  <2> QED BY <2>4, <2>5, Zenon
<1> QED BY <1>1, <1>2, Zenon

\* BlockUntilSyncedToCurrentChain and the promise it queues.
LEMMA CallerBacklog ==
  ASSUME IInv, Backlog, Waiting, BlockUntilSynced \/ QueueDrained
  PROVE  Backlog' /\ Waiting'
<1>1. UNCHANGED <<tip, pending, synced, best, indexed, skipped>> /\ best \in Blocks
  BY Zenon DEF BlockUntilSynced, QueueDrained, chain, disk, IInv, TypeOK
<1>2. Backlog'
  BY <1>1, Zenon DEF Backlog
<1>3. CASE BlockUntilSynced /\ tip \in Ancestors[best]
  <2>1. synced /\ asked' = tip /\ caller' = "true"
    BY <1>3, Zenon DEF BlockUntilSynced
  <2>2. Ancestors[tip] \subseteq Accounted
    BY <1>1, <1>3, <2>1, AncestorOf, Zenon DEF IInv, BestIsIndexed
  <2> QED BY <1>1, <1>2, <2>1, <2>2, ZenonT(30) DEF Waiting, CaughtUp, Accounted
<1>4. CASE BlockUntilSynced /\ tip \notin Ancestors[best]
  <2>1. synced /\ asked' = tip /\ caller' = "waiting" /\ ahead' = Len(pending)
    BY <1>4, Zenon DEF BlockUntilSynced
  <2>2. EndsAt(pending, Len(pending), tip) /\ Leads(pending, 0, Len(pending), best)
    BY <1>4, <2>1, Zenon DEF Backlog
  <2>3. Len(pending) <= Len(pending)
    BY DEF IInv, TypeOK
  <2> QED BY <1>1, <1>2, <2>1, <2>2, <2>3, Zenon DEF Waiting, CaughtUp
<1>5. CASE QueueDrained
  <2>1. caller = "waiting" /\ ahead = 0 /\ caller' = "true" /\ asked' = asked
    BY <1>5, Zenon DEF QueueDrained
  <2>2. ~Leads(pending, 0, 0, best)
    BY DEF Leads
  <2>3. Ancestors[asked] \subseteq Accounted /\ synced
    BY <2>1, <2>2, Zenon DEF Waiting
  <2> QED BY <1>1, <1>2, <2>1, <2>3, Zenon DEF Waiting, CaughtUp, Accounted
<1> QED BY <1>3, <1>4, <1>5, Zenon

\* Every reachable backlog leads a synced index to the tip.
THEOREM BacklogInvariant == Spec => [](Backlog /\ Waiting)
<1>1. Init => Backlog /\ Waiting
  <2> SUFFICES ASSUME Init PROVE Backlog /\ Waiting  BY Zenon
  <2>1. /\ tip \in Blocks /\ pending = <<>> /\ Len(pending) = 0 /\ caller = "idle"
        /\ synced => best = tip
    BY Zenon DEF Init
  <2>2. Linked(pending) /\ EndsAt(pending, 0, tip)
    BY <2>1 DEF Linked, EndsAt
  <2>3. tip \in Ancestors[tip]
    BY <2>1, BlockTree, Zenon
  <2> QED BY <2>1, <2>2, <2>3, Zenon DEF Backlog, Waiting, CaughtUp
<1>2. IInv /\ IInv' /\ (Backlog /\ Waiting) /\ [Next]_vars => (Backlog /\ Waiting)'
  <2> SUFFICES ASSUME IInv, IInv', Backlog, Waiting, [Next]_vars PROVE Backlog' /\ Waiting'  BY Zenon
  <2>t. TypeOK /\ tip \in Blocks /\ diskTip \in Blocks
    BY Zenon DEF IInv, TypeOK
  <2>1. CASE Crash \/ Shutdown
    BY <2>t, <2>1, StartBacklog, Zenon DEF Crash, Shutdown
  <2>2. CASE UNCHANGED vars
    BY <2>2, Zenon DEF Backlog, Waiting, CaughtUp, Accounted, vars, chain, disk, call
  <2> QED BY <2>t, <2>1, <2>2, ChainBacklog, CallerBacklog, CallbackBacklog, SyncBacklog, Zenon DEF Next
<1> QED BY Invariant, <1>1, <1>2, PTL DEF Spec

\* Whatever reorganisations, invalidations and stale callbacks are in the
\* backlog, a synced index has the tip below its best block when it is worked off.
THEOREM SyncedFollowsTip == Spec => []FollowsTip
<1>1. Backlog => FollowsTip
  <2> SUFFICES ASSUME Backlog, synced, pending = <<>> PROVE tip \in Ancestors[best]
    BY Zenon DEF FollowsTip
  <2>1. ~Leads(pending, 0, Len(pending), best)
    BY DEF Leads
  <2> QED BY <2>1, Zenon DEF Backlog
<1> QED BY BacklogInvariant, <1>1, PTL

\* BlockUntilSyncedToCurrentChain returns true only when the chain that was
\* active at the call is accounted for in the index.
THEOREM CallerCaughtUp == Spec => []CaughtUp
<1>1. Waiting => CaughtUp
  BY Zenon DEF Waiting
<1> QED BY BacklogInvariant, <1>1, PTL
=============================================================================
