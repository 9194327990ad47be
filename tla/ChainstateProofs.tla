-------------------------- MODULE ChainstateProofs --------------------------
(***************************************************************************)
(* What CheckBlockIndex asserts, for every tree of blocks.                 *)
(*                                                                         *)
(*   - m_failed_blocks holds only blocks marked BLOCK_FAILED_VALID, in     *)
(*     every history;                                                      *)
(*   - marks have a cause, in histories without reconsiderblock;           *)
(*   - data is linked or waits, in histories without invalidateblock and   *)
(*     reconsiderblock;                                                    *)
(*   - the candidates are exact, and the assertion of                      *)
(*     PruneBlockIndexCandidates holds, if besides preciousblock is called *)
(*     at most once.                                                       *)
(*                                                                         *)
(* Each result rests on the ones before it.                                *)
(***************************************************************************)
EXTENDS Chainstate, TLAPS

\* The property with the types of the two variables it relates.
FailedInv ==
  /\ failed \in [Tree -> SUBSET {"valid", "child"}]
  /\ failedBlocks \subseteq Tree
  /\ FailedBlocksAreFailed

\* A step that only adds flags and inserts no block keeps the invariant.
LEMMA AddingFlags ==
  ASSUME FailedInv,
         failed' \in [Tree -> SUBSET {"valid", "child"}],
         \A x \in Tree : failed[x] \subseteq failed'[x],
         failedBlocks' = failedBlocks
  PROVE  FailedInv'
  BY Zenon DEF FailedInv, FailedBlocksAreFailed

\* AcceptBlockHeader marks the blocks between a failed one and a new header.
LEMMA RejectHeaderStep ==
  ASSUME FailedInv, NEW b \in Blocks, RejectHeader(b)
  PROVE  FailedInv'
  <1>1. PICK f \in FailedAncestors(Parent[b]) :
          failed' = [x \in Tree |-> IF x \in Ancestors[Parent[b]] \ Ancestors[f]
                                    THEN failed[x] \cup {"child"} ELSE failed[x]]
    BY Zenon DEF RejectHeader
  <1>2. failedBlocks' = failedBlocks
    BY Zenon DEF RejectHeader, sets
  <1>3. failed' \in [Tree -> SUBSET {"valid", "child"}] /\ \A x \in Tree : failed[x] \subseteq failed'[x]
    BY <1>1, Zenon DEF FailedInv
  <1> QED
    BY <1>2, <1>3, AddingFlags, Zenon

\* AcceptBlock marks a block whose contents are invalid, without inserting it.
LEMMA AcceptBadBlockStep ==
  ASSUME FailedInv, NEW b \in Blocks, AcceptBadBlock(b)
  PROVE  FailedInv'
  <1>1. failed' = [failed EXCEPT ![b] = @ \cup {"valid"}] /\ failedBlocks' = failedBlocks
    BY Zenon DEF AcceptBadBlock, sets
  <1>2. failed' \in [Tree -> SUBSET {"valid", "child"}] /\ \A x \in Tree : failed[x] \subseteq failed'[x]
    BY <1>1, Zenon DEF FailedInv, Tree
  <1> QED
    BY <1>1, <1>2, AddingFlags, Zenon

\* FindMostWorkChain marks what lies above a failed block.
LEMMA ChooseTargetStep ==
  ASSUME FailedInv, ChooseTarget
  PROVE  FailedInv'
  <1>1. PICK mw : /\ failed' = IF mostWork = Null
                               THEN [x \in Tree |-> IF x \in Condemned(mw) THEN failed[x] \cup {"child"}
                                                    ELSE failed[x]]
                               ELSE failed
                  /\ failedBlocks' = failedBlocks
    BY Zenon DEF ChooseTarget
  <1>2. failed' \in [Tree -> SUBSET {"valid", "child"}] /\ \A x \in Tree : failed[x] \subseteq failed'[x]
    BY <1>1, Zenon DEF FailedInv
  <1> QED
    BY <1>1, <1>2, AddingFlags, Zenon

\* InvalidBlockFound marks and inserts the same block.
LEMMA ConnectTipFailsStep ==
  ASSUME FailedInv, NEW b \in Blocks, ConnectTipFails(b)
  PROVE  FailedInv'
  <1>1. /\ failed' = [failed EXCEPT ![b] = @ \cup {"valid"}]
        /\ failedBlocks' = failedBlocks \cup {b}
        /\ b \in Tree
    BY Zenon DEF ConnectTipFails, Tree
  <1> QED
    BY <1>1, Zenon DEF FailedInv, FailedBlocksAreFailed

\* InvalidateBlock marks and inserts the same block.
LEMMA InvalidateStep ==
  ASSUME FailedInv, NEW b \in Blocks, InvalidateBlock(b)
  PROVE  FailedInv'
  <1> DEFINE walked == IF b \in ActiveChain THEN ActiveChain \ Ancestors[b] ELSE {}
  <1>1. /\ failed' = [x \in Tree |-> IF x = b THEN failed[x] \cup {"valid"}
                                     ELSE IF x \in walked THEN failed[x] \cup {"child"}
                                     ELSE failed[x]]
        /\ failedBlocks' = failedBlocks \cup {b}
        /\ b \in Tree
    BY Zenon DEF InvalidateBlock, Tree
  <1> HIDE DEF walked
  <1> QED
    BY <1>1, Zenon DEF FailedInv, FailedBlocksAreFailed

\* ResetBlockFailureFlags erases from m_failed_blocks every block it unmarks.
LEMMA ReconsiderStep ==
  ASSUME FailedInv, NEW b \in Blocks, ReconsiderBlock(b)
  PROVE  FailedInv'
  <1> DEFINE cleared == ResetBelow(b) \cup ResetAbove(b)
  <1>1. /\ failed' = [x \in Tree |-> IF x \in cleared THEN {} ELSE failed[x]]
        /\ failedBlocks' = failedBlocks \ cleared
    BY Zenon DEF ReconsiderBlock
  <1> HIDE DEF cleared
  <1> QED
    BY <1>1, Zenon DEF FailedInv, FailedBlocksAreFailed

\* A start empties m_failed_blocks.
LEMMA RestartStep ==
  ASSUME FailedInv, Restart
  PROVE  FailedInv'
  <1>1. failedBlocks' = {}
    BY Zenon DEF Restart
  <1>2. failed' = [b \in Tree |->
          IF b \in index /\ failed[b] = {} /\ \E x \in Ancestors[b] : failed[x] # {}
          THEN {"child"} ELSE failed[b]]
    BY Zenon DEF Restart
  <1>3. failed' \in [Tree -> SUBSET {"valid", "child"}]
    BY <1>2, Zenon DEF FailedInv
  <1> QED
    BY <1>1, <1>3, Zenon DEF FailedInv, FailedBlocksAreFailed

\* The other actions change no flag and no member of m_failed_blocks.
LEMMA OtherSteps ==
  ASSUME FailedInv,
         \/ ActivateBestChain \/ TakeMain \/ DisconnectTip
         \/ \E b \in Blocks : \/ ConnectTip(b) \/ ProcessNewHeader(b) \/ ProcessNotedBlock(b)
                              \/ AcceptBlock(b) \/ PreciousBlock(b)
         \/ UNCHANGED vars
  PROVE  FailedInv'
  <1>1. UNCHANGED <<failed, failedBlocks>>
    BY Zenon DEF ActivateBestChain, TakeMain, DisconnectTip, ConnectTip, ProcessNewHeader,
           ProcessNotedBlock, AcceptBlock,
           PreciousBlock, vars, blockIndex, sets
  <1> QED
    BY <1>1, Zenon DEF FailedInv, FailedBlocksAreFailed

\* The invariant holds in every history.
LEMMA MarksTyped == Spec => []FailedInv
  <1>1. Init => FailedInv
    BY Zenon DEF Init, FailedInv, FailedBlocksAreFailed
  <1>2. FailedInv /\ [Next]_vars => FailedInv'
    <2> SUFFICES ASSUME FailedInv, [Next]_vars PROVE FailedInv'
      BY Zenon
    <2> QED
      BY RejectHeaderStep, AcceptBadBlockStep, ChooseTargetStep, ConnectTipFailsStep,
         InvalidateStep, ReconsiderStep, RestartStep, OtherSteps, Zenon
      DEF Next, Activate
  <1> QED
    BY <1>1, <1>2, PTL DEF Spec

\* The assertion (*it)->nStatus & BLOCK_FAILED_VALID of AcceptBlockHeader cannot
\* fail, whatever the tree and whatever is called in whatever order.
THEOREM FailedBlocksMarked == Spec => []FailedBlocksAreFailed
  <1>1. FailedInv => FailedBlocksAreFailed
    BY Zenon DEF FailedInv
  <1> QED
    BY <1>1, MarksTyped, PTL

(***************************************************************************)
(* Types, for every history.                                               *)
(***************************************************************************)
Types ==
  /\ index \subseteq Tree /\ haveData \subseteq index /\ linked \subseteq index
  /\ unlinked \subseteq haveData /\ candidates \subseteq linked
  /\ tip \in Tree /\ mostWork \in Tree \cup {Null}
  /\ pc \in {"disconnect", "connect"} => mostWork # Null

\* What the parts of ActivateBestChain leave in pc and in mostWork.
LEMMA ReleaseTargets ==
  ASSUME NEW t, NEW mw \in Tree \cup {Null}, ReleaseMain(t, mw) \/ Return \/ StepDone(t, mw)
  PROVE  pc' \in {"idle", "released", "choose"} /\ mostWork' \in {mw, Null}
  BY Zenon DEF ReleaseMain, Return, StepDone

LEMMA BlockTypes ==
  ASSUME Types, NEW b \in Blocks,
         \/ ProcessNewHeader(b) \/ ProcessNotedBlock(b) \/ RejectHeader(b)
         \/ AcceptBlock(b) \/ AcceptBadBlock(b)
  PROVE  Types'
  <1>1. b \in Tree
    BY Zenon DEF Tree
  <1>2. UNCHANGED <<tip, mostWork, pc>>
    BY Zenon DEF ProcessNewHeader, ProcessNotedBlock, RejectHeader, AcceptBlock, AcceptBadBlock, abc
  <1>3. CASE AcceptBlock(b)
    <2>1. CASE Parent[b] \in linked
      <3>1. /\ index' = index \cup {b} /\ haveData' = haveData \cup {b}
            /\ linked' = linked \cup NewlyLinked(b) /\ unlinked' = unlinked \ NewlyLinked(b)
            /\ candidates' = candidates \cup NewCandidates(NewlyLinked(b), seqId')
        BY <1>3, <2>1, Zenon DEF AcceptBlock, ReceivedBlockTransactions
      <3>2. NewlyLinked(b) \subseteq {b} \cup unlinked
        BY Zenon DEF NewlyLinked
      <3>3. NewCandidates(NewlyLinked(b), seqId') \subseteq NewlyLinked(b)
        BY Zenon DEF NewCandidates
      <3> QED
        BY <1>1, <1>2, <3>1, <3>2, <3>3, Zenon DEF Types
    <2>2. CASE Parent[b] \notin linked
      <3>1. /\ index' = index \cup {b} /\ haveData' = haveData \cup {b}
            /\ unlinked' \subseteq unlinked \cup {b}
            /\ UNCHANGED <<linked, candidates>>
        BY <1>3, <2>2, Zenon DEF AcceptBlock, ReceivedBlockTransactions
      <3> QED
        BY <1>1, <1>2, <3>1, Zenon DEF Types
    <2> QED
      BY <2>1, <2>2, Zenon
  <1>4. CASE ~AcceptBlock(b)
    <2>1. /\ index' \in {index, index \cup {b}}
          /\ UNCHANGED <<haveData, linked, unlinked, candidates>>
      BY <1>4, Zenon DEF ProcessNewHeader, ProcessNotedBlock, RejectHeader, AcceptBadBlock, sets
    <2> QED
      BY <1>1, <1>2, <2>1, Zenon DEF Types
  <1> QED
    BY <1>3, <1>4, Zenon

LEMMA ActivateTypes ==
  ASSUME Types, Activate
  PROVE  Types'
  <1>1. /\ UNCHANGED <<index, haveData, linked, unlinked>>
        /\ candidates' \subseteq candidates
    BY Zenon DEF Activate, ActivateBestChain, TakeMain, ChooseTarget, DisconnectTip, ConnectTip,
           ConnectTipFails, blockIndex, sets, PruneBlockIndexCandidates
  <1>2. CASE ActivateBestChain \/ TakeMain
    BY <1>1, <1>2, Zenon DEF ActivateBestChain, TakeMain, Types
  <1>3. CASE ChooseTarget
    <2>1. PICK mw \in candidates \cup {mostWork} :
            /\ IF mw \in {Null, tip}
               THEN IF connected THEN ReleaseMain(tip, mw) ELSE Return
               ELSE pc' = "disconnect" /\ mostWork' = mw
            /\ tip' = tip
      BY <1>3, Zenon DEF ChooseTarget
    <2>2. mw \in Tree \cup {Null}
      BY <2>1, Zenon DEF Types
    <2>3. mostWork' \in {mw, Null} /\ (pc' \in {"disconnect", "connect"} => mostWork' # Null)
      BY <2>1, <2>2, ReleaseTargets, Zenon
    <2> QED
      BY <1>1, <2>1, <2>2, <2>3, Zenon DEF Types
  <1>4. CASE DisconnectTip
    <2>1. mostWork \in Tree
      BY <1>4, Zenon DEF DisconnectTip, Types
    <2>2. tip # Genesis => Parent[tip] \in Tree
      BY TreeShape, Zenon DEF Types, Tree
    <2>3. tip' \in Tree /\ mostWork' = mostWork
      BY <1>4, <2>1, <2>2, ChainsNest, Zenon DEF DisconnectTip, Types
    <2> QED
      BY <1>1, <2>1, <2>3, TreeShape, Zenon DEF Types
  <1>5. CASE \E b \in Blocks : ConnectTip(b)
    <2>1. PICK b \in Blocks : ConnectTip(b)
      BY <1>5, Zenon
    <2>2. tip' \in Tree
      BY <2>1, Zenon DEF ConnectTip, Tree
    <2>3. mostWork \in Tree /\ mostWork # Null
      BY <2>1, Zenon DEF ConnectTip, Types
    <2>4. Abort \/ StepDone(b, mostWork) \/ UNCHANGED abc
      BY <2>1, Zenon DEF ConnectTip
    <2>5. mostWork' \in {mostWork, Null} /\ (pc' \in {"disconnect", "connect"} => mostWork' # Null)
      BY <2>3, <2>4, ReleaseTargets, Zenon DEF Abort, abc
    <2> QED
      BY <1>1, <2>2, <2>3, <2>5, Zenon DEF Types
  <1>6. CASE \E b \in Blocks : ConnectTipFails(b)
    <2>1. StepDone(tip, Null) /\ tip' = tip
      BY <1>6, Zenon DEF ConnectTipFails
    <2>2. pc' \in {"idle", "released", "choose"} /\ mostWork' = Null
      BY <2>1, ReleaseTargets, Zenon
    <2> QED
      BY <1>1, <2>1, <2>2, Zenon DEF Types
  <1> QED
    BY <1>2, <1>3, <1>4, <1>5, <1>6, Zenon DEF Activate

LEMMA CallTypes ==
  ASSUME Types, NEW b \in Blocks, InvalidateBlock(b) \/ ReconsiderBlock(b) \/ PreciousBlock(b)
  PROVE  Types'
  <1>1. /\ UNCHANGED <<index, haveData, linked, unlinked, mostWork>>
        /\ pc' \in {pc, "aborted"}
    BY Zenon DEF InvalidateBlock, ReconsiderBlock, PreciousBlock, Abort, abc
  <1>2. tip' \in Tree
    BY TreeShape, ZenonT(30) DEF InvalidateBlock, ReconsiderBlock, PreciousBlock, Types
  <1>3. candidates' \subseteq linked
    <2>1. CASE InvalidateBlock(b)
      BY <2>1, Zenon DEF InvalidateBlock, Types
    <2>2. CASE ReconsiderBlock(b)
      BY <2>2, Zenon DEF ReconsiderBlock, Types
    <2>3. CASE PreciousBlock(b)
      BY <2>3, Zenon DEF PreciousBlock, PreciousCandidates, PruneBlockIndexCandidates, Types
    <2> QED
      BY <2>1, <2>2, <2>3, Zenon
  <1> QED
    BY <1>1, <1>2, <1>3, Zenon DEF Types

THEOREM AlwaysTyped == Spec => []Types
  <1>1. Init => Types
    BY Zenon DEF Init, Types, Tree
  <1>2. Types /\ [Next]_vars => Types'
    <2> SUFFICES ASSUME Types, [Next]_vars PROVE Types'
      BY Zenon
    <2>1. CASE Restart
      <3>1. /\ linked' \subseteq index /\ unlinked' \subseteq haveData /\ candidates' \subseteq linked'
            /\ UNCHANGED <<index, haveData, tip, mostWork>> /\ pc' \in {pc, "aborted"}
        BY <2>1, Zenon DEF Restart, Abort, abc
      <3> QED
        BY <3>1, Zenon DEF Types
    <2>2. CASE UNCHANGED vars
      BY <2>2, Zenon DEF Types, vars, blockIndex, sets, abc
    <2> QED
      BY <2>1, <2>2, BlockTypes, ActivateTypes, CallTypes, Zenon DEF Next
  <1> QED
    BY <1>1, <1>2, PTL DEF Spec

(***************************************************************************)
(* The failure marks, without reconsiderblock.                             *)
(***************************************************************************)
\* The chain of an ancestor is part of the block's own, and lower.
LEMMA AncestorFacts ==
  ASSUME NEW b \in Tree, NEW x \in Ancestors[b]
  PROVE  /\ x \in Tree /\ Ancestors[x] \subseteq Ancestors[b]
         /\ x = b \/ Height[x] < Height[b]
         /\ Height[x] \in Nat /\ Height[b] \in Nat /\ Height[x] <= Height[b]
  <1>1. x \in Tree /\ Ancestors[x] \subseteq Ancestors[b] /\ (x = b \/ Height[x] < Height[b])
    BY ChainsNest, Zenon
  <1> QED
    BY <1>1, ChainsGrow

\* Of two blocks of a chain one is on the other's.
LEMMA OneAbove ==
  ASSUME NEW b \in Tree, NEW x \in Ancestors[b], NEW y \in Ancestors[b]
  PROVE  x \in Ancestors[y] \/ y \in Ancestors[x]
  BY ChainsDoNotFork, Zenon

\* Of two blocks of a chain the higher one is above the other.
LEMMA HigherIsAbove ==
  ASSUME NEW b \in Tree, NEW x \in Ancestors[b], NEW y \in Ancestors[b], Height[y] < Height[x]
  PROVE  y \in Ancestors[x]
  <1>1. x \in Tree /\ y \in Tree
    BY AncestorFacts, Zenon
  <1>2. x \notin Ancestors[y]
    BY <1>1, AncestorFacts
  <1> QED
    BY <1>2, OneAbove, Zenon

\* Whatever is marked has a block found invalid at or below it.
CauseInv == \A b \in Tree : failed[b] # {} => \E z \in Ancestors[b] : "valid" \in failed[z]

\* A step that keeps the marks and adds ones above marked blocks keeps it.
LEMMA MarksAbove ==
  ASSUME CauseInv, FailedInv, FailedInv',
         \A x \in Tree : failed[x] \subseteq failed'[x],
         \A x \in Tree : failed'[x] # {} => \E y \in Ancestors[x] : failed[y] # {} \/ "valid" \in failed'[y]
  PROVE  CauseInv'
  <1> SUFFICES ASSUME NEW x \in Tree, failed'[x] # {}
               PROVE  \E z \in Ancestors[x] : "valid" \in failed'[z]
    BY Zenon DEF CauseInv
  <1>1. PICK y \in Ancestors[x] : failed[y] # {} \/ "valid" \in failed'[y]
    BY Zenon
  <1>2. y \in Tree /\ Ancestors[y] \subseteq Ancestors[x] /\ Ancestors[x] \subseteq Tree
    BY AncestorFacts, Zenon
  <1>3. CASE failed[y] # {}
    BY <1>2, <1>3, Zenon DEF CauseInv
  <1> QED
    BY <1>1, <1>3, Zenon

LEMMA CauseStep ==
  ASSUME Types, FailedInv, FailedInv', CauseInv, [Next]_vars, "reconsider" \notin Rpc
  PROVE  CauseInv'
  <1>0. \A x \in Tree : x \in Ancestors[x] /\ Ancestors[x] \subseteq Tree
    BY ChainsNest, Zenon
  <1>1. ASSUME NEW b \in Blocks, RejectHeader(b) PROVE CauseInv'
    <2>1. PICK f \in FailedAncestors(Parent[b]) :
            failed' = [x \in Tree |-> IF x \in Ancestors[Parent[b]] \ Ancestors[f]
                                      THEN failed[x] \cup {"child"} ELSE failed[x]]
      BY <1>1, Zenon DEF RejectHeader
    <2>2. f \in Ancestors[Parent[b]] /\ failed[f] # {} /\ Parent[b] \in Tree
      BY <2>1, TreeShape, Zenon DEF FailedAncestors, FailedInv, FailedBlocksAreFailed
    <2>3. \A x \in Ancestors[Parent[b]] \ Ancestors[f] : f \in Ancestors[x]
      BY <2>2, ChainsDoNotFork, Zenon
    <2>4. \A x \in Tree : failed[x] \subseteq failed'[x]
      BY <2>1, Zenon
    <2>5. \A x \in Tree : failed'[x] # {} => \E y \in Ancestors[x] : failed[y] # {}
      BY <1>0, <2>1, <2>2, <2>3, Zenon
    <2> QED
      BY <2>4, <2>5, MarksAbove, Zenon
  <1>2. ASSUME NEW b \in Blocks, AcceptBadBlock(b) \/ ConnectTipFails(b) PROVE CauseInv'
    <2>1. failed' = [failed EXCEPT ![b] = @ \cup {"valid"}] /\ b \in Tree
      BY <1>2, Zenon DEF AcceptBadBlock, ConnectTipFails, Tree
    <2>2. \A x \in Tree : failed[x] \subseteq failed'[x] /\ (x # b => failed'[x] = failed[x])
      BY <2>1, Zenon DEF FailedInv
    <2>3. "valid" \in failed'[b]
      BY <2>1, Zenon DEF FailedInv
    <2> QED
      BY <1>0, <2>2, <2>3, MarksAbove, Zenon
  <1>3. ASSUME ChooseTarget PROVE CauseInv'
    <2>1. PICK mw : failed' = IF mostWork = Null
                              THEN [x \in Tree |-> IF x \in Condemned(mw) THEN failed[x] \cup {"child"}
                                                   ELSE failed[x]]
                              ELSE failed
      BY <1>3, Zenon DEF ChooseTarget
    <2>2. ASSUME NEW x \in Condemned(mw) PROVE \E y \in Ancestors[x] : failed[y] # {}
      <3>1. PICK c \in Visited(mw) : x \in Above(c)
        BY <2>2, Zenon DEF Condemned
      <3>2. c \in Tree /\ ~Usable(c)
        BY <3>1, Zenon DEF Visited, Types
      <3>3. PICK y \in OffChain(c) : failed[y] # {}
        BY <3>2, Zenon DEF Usable
      <3>4. y \in Ancestors[c] /\ x \in Ancestors[c] /\ Height[y] < Height[x]
        BY <3>1, <3>3, Zenon DEF Above, OffChain
      <3>5. y \in Ancestors[x]
        BY <3>2, <3>4, HigherIsAbove, Zenon
      <3> QED
        BY <3>3, <3>5, Zenon
    <2>3. \A x \in Tree : failed[x] \subseteq failed'[x]
      BY <2>1, Zenon
    <2>4. \A x \in Tree : failed'[x] # {} => \E y \in Ancestors[x] : failed[y] # {}
      BY <1>0, <2>1, <2>2, Zenon
    <2> QED
      BY <2>3, <2>4, MarksAbove, Zenon
  <1>4. ASSUME NEW b \in Blocks, InvalidateBlock(b) PROVE CauseInv'
    <2> DEFINE walked == IF b \in ActiveChain THEN ActiveChain \ Ancestors[b] ELSE {}
    <2>1. failed' = [x \in Tree |-> IF x = b THEN failed[x] \cup {"valid"}
                                    ELSE IF x \in walked THEN failed[x] \cup {"child"}
                                    ELSE failed[x]]
      BY <1>4, Zenon DEF InvalidateBlock
    <2>2. \A x \in walked : b \in Ancestors[x]
      BY ChainsDoNotFork, Zenon DEF ActiveChain, Types
    <2>3. b \in Tree
      BY Zenon DEF Tree
    <2> HIDE DEF walked
    <2>4. \A x \in Tree : failed[x] \subseteq failed'[x]
      BY <2>1, Zenon
    <2>5. "valid" \in failed'[b]
      BY <2>1, <2>3, Zenon
    <2>6. \A x \in Tree : failed'[x] # {} => \E y \in Ancestors[x] : failed[y] # {} \/ "valid" \in failed'[y]
      BY <1>0, <2>1, <2>2, <2>3, <2>5, Zenon
    <2> QED
      BY <2>4, <2>6, MarksAbove, Zenon
  <1>5. ASSUME Restart PROVE CauseInv'
    <2>1. failed' = [b \in Tree |->
            IF b \in index /\ failed[b] = {} /\ \E x \in Ancestors[b] : failed[x] # {}
            THEN {"child"} ELSE failed[b]]
      BY <1>5, Zenon DEF Restart
    <2>2. \A x \in Tree : failed[x] \subseteq failed'[x]
      BY <2>1, Zenon
    <2>3. \A x \in Tree : failed'[x] # {} => \E y \in Ancestors[x] : failed[y] # {}
      BY <1>0, <2>1, Zenon
    <2> QED
      BY <2>2, <2>3, MarksAbove, Zenon
  <1>6. ASSUME failed' = failed PROVE CauseInv'
    BY <1>6, Zenon DEF CauseInv
  <1>7. ASSUME \/ ActivateBestChain \/ TakeMain \/ DisconnectTip
               \/ \E b \in Blocks : \/ ConnectTip(b) \/ ProcessNewHeader(b) \/ ProcessNotedBlock(b)
                                    \/ AcceptBlock(b) \/ PreciousBlock(b)
               \/ UNCHANGED vars
        PROVE  failed' = failed
    BY <1>7, ZenonT(30) DEF ActivateBestChain, TakeMain, DisconnectTip, ConnectTip, ProcessNewHeader,
           ProcessNotedBlock, AcceptBlock, PreciousBlock, vars, blockIndex
  <1>8. \A b \in Blocks : ~ReconsiderBlock(b)
    BY Zenon DEF ReconsiderBlock, Call
  <1> QED
    BY <1>1, <1>2, <1>3, <1>4, <1>5, <1>6, <1>7, <1>8, Zenon DEF Next, Activate

LEMMA AlwaysCaused ==
  ASSUME "reconsider" \notin Rpc
  PROVE  Spec => []CauseInv
  <1>1. Init => CauseInv
    BY Zenon DEF Init, CauseInv
  <1>2. Types /\ FailedInv /\ FailedInv' /\ CauseInv /\ [Next]_vars => CauseInv'
    BY CauseStep, Zenon
  <1> QED
    BY <1>1, <1>2, AlwaysTyped, MarksTyped, PTL DEF Spec

\* Unless reconsiderblock is called a block is marked failed only if it or an
\* ancestor was found invalid, as CheckBlockIndex asserts.
THEOREM MarksHaveCause ==
  ASSUME "reconsider" \notin Rpc
  PROVE  Spec => []FailedHasCause
  <1>1. Types /\ CauseInv => FailedHasCause
    BY Zenon DEF Types, CauseInv, FailedHasCause, NoInvalidAncestor
  <1> QED
    BY <1>1, AlwaysTyped, AlwaysCaused, PTL

(***************************************************************************)
(* The links, without invalidateblock and reconsiderblock.                 *)
(***************************************************************************)
\* The levels of validity of what is in the index, and of what has its data.
LevelInv ==
  /\ valid \in [Tree -> Nat]
  /\ \A b \in index : valid[b] >= VALID_TREE
  /\ \A b \in haveData : valid[b] >= VALID_TRANSACTIONS

LinkInv ==
  /\ Genesis \in haveData
  /\ \A b \in index : Ancestors[b] \subseteq index
  /\ \A b \in Tree \ index : failed[b] = {}
  /\ linked = {b \in index : Ancestors[b] \subseteq haveData}
  /\ unlinked \cap linked = {}
  /\ failedBlocks \subseteq linked /\ tip \in linked /\ mostWork \in linked \cup {Null}

\* A block with data that is not linked waits, unless a block that is missing on
\* its chain is marked; and it is marked itself only then.
WaitingInv ==
  \A p \in haveData \ linked : p \notin unlinked \/ failed[p] # {} =>
    \E z \in Ancestors[p] \ haveData : failed[z] # {}

\* Every thread works on blocks whose chain is in the index.
LEMMA ParentChain ==
  ASSUME NEW b \in Blocks
  PROVE  /\ b \in Tree /\ Parent[b] \in Tree
         /\ b \in Ancestors[b] /\ Ancestors[b] = Ancestors[Parent[b]] \cup {b}
         /\ Parent[b] \in Ancestors[b] /\ Height[b] = Height[Parent[b]] + 1
         /\ b \notin Ancestors[Parent[b]]
  <1>1. b \in Tree /\ Parent[b] \in Tree
    BY TreeShape, Zenon DEF Tree
  <1>2. b \in Ancestors[b] /\ Parent[b] \in Ancestors[Parent[b]]
    BY <1>1, ChainsNest, Zenon
  <1>3. Ancestors[b] = Ancestors[Parent[b]] \cup {b} /\ Height[b] = Height[Parent[b]] + 1
    BY ChainsGrow, Zenon
  <1>4. b \notin Ancestors[Parent[b]]
    BY <1>1, <1>3, AncestorFacts
  <1> QED
    BY <1>1, <1>2, <1>3, <1>4, Zenon

LEMMA LinkedDown ==
  ASSUME Types, LinkInv, NEW x \in linked, NEW y \in Ancestors[x]
  PROVE  y \in linked /\ y \in haveData
  <1>1. x \in Tree /\ x \in index /\ Ancestors[x] \subseteq haveData /\ Ancestors[x] \subseteq index
    BY Zenon DEF Types, LinkInv
  <1>2. Ancestors[y] \subseteq Ancestors[x]
    BY <1>1, AncestorFacts, Zenon
  <1> QED
    BY <1>1, <1>2, Zenon DEF LinkInv

\* A header that is accepted is known, or its parent is; a block is not marked.
LEMMA AcceptedHeader ==
  ASSUME Types, LinkInv, NEW b \in Blocks, HeaderAccepted(b)
  PROVE  /\ failed[b] = {}
         /\ Ancestors[b] \subseteq index \cup {b}
         /\ Parent[b] \in index
  <1>1. /\ b \in Tree /\ Ancestors[b] = Ancestors[Parent[b]] \cup {b} /\ Parent[b] \in Ancestors[b]
    BY ParentChain, Zenon
  <1>2. CASE b \in index
    BY <1>1, <1>2, Zenon DEF HeaderAccepted, LinkInv
  <1>3. CASE b \notin index
    BY <1>1, <1>3, Zenon DEF HeaderAccepted, LinkInv
  <1> QED
    BY <1>2, <1>3, Zenon

\* A header enters the index.
LEMMA HeaderLinks ==
  ASSUME Types, LinkInv, NEW b \in Blocks, HeaderAccepted(b),
         index' = index \cup {b},
         UNCHANGED <<haveData, linked, unlinked, failedBlocks, tip, mostWork>>,
         \A x \in Tree \ {b} : failed'[x] = failed[x]
  PROVE  LinkInv'
  <1>1. Ancestors[b] \subseteq index \cup {b} /\ b \in Ancestors[b]
    BY AcceptedHeader, ParentChain, Zenon
  <1>2. \A x \in index' : Ancestors[x] \subseteq index'
    BY <1>1, Zenon DEF LinkInv
  <1>3. \A x \in Tree \ index' : failed'[x] = {}
    BY Zenon DEF LinkInv
  <1>4. {x \in index' : Ancestors[x] \subseteq haveData} = {x \in index : Ancestors[x] \subseteq haveData}
    BY <1>1, Zenon DEF Types
  <1> QED
    BY <1>2, <1>3, <1>4, Zenon DEF LinkInv

\* Data arrives on a linked parent: exactly the blocks whose chains it completes
\* are linked.
LEMMA LinkedExactly ==
  ASSUME Types, LinkInv, WaitingInv, NEW b \in Blocks, HeaderAccepted(b),
         b \notin haveData, Parent[b] \in linked
  PROVE  /\ linked \cup NewlyLinked(b)
              = {x \in index \cup {b} : Ancestors[x] \subseteq haveData \cup {b}}
         /\ NewlyLinked(b) \cap linked = {}
  <1>1. /\ failed[b] = {} /\ b \in Ancestors[b] /\ b \in Tree
        /\ Ancestors[b] = Ancestors[Parent[b]] \cup {b}
    BY AcceptedHeader, ParentChain, Zenon
  <1>2. Ancestors[b] \subseteq haveData \cup {b}
    BY <1>1, Zenon DEF LinkInv
  <1>3. ASSUME NEW x \in linked PROVE x \in index /\ Ancestors[x] \subseteq haveData
    BY Zenon DEF LinkInv
  <1>4. ASSUME NEW x \in NewlyLinked(b)
        PROVE  /\ x \in index \cup {b} /\ Ancestors[x] \subseteq haveData \cup {b} /\ x \notin linked
    <2>1. /\ x \in {b} \cup unlinked /\ b \in Ancestors[x]
          /\ Ancestors[x] \ Ancestors[b] \subseteq unlinked
      BY <1>4, Zenon DEF NewlyLinked
    <2>2. Ancestors[x] \subseteq haveData \cup {b} /\ x \in index \cup {b}
      BY <1>2, <2>1, Zenon DEF Types
    <2>3. x \notin linked
      BY <1>3, <2>1, Zenon
    <2> QED
      BY <2>2, <2>3, Zenon
  <1>5. ASSUME NEW x \in index \cup {b}, Ancestors[x] \subseteq haveData \cup {b}, x \notin linked
        PROVE  x \in NewlyLinked(b)
    <2>1. x \in Tree /\ x \in Ancestors[x]
      BY <1>1, ChainsNest, Zenon DEF Types
    <2>2. b \in Ancestors[x]
      BY <1>1, <1>5, Zenon DEF LinkInv
    <2>3. ASSUME NEW y \in Ancestors[x] \ Ancestors[b] PROVE y \in unlinked
      <3>1. y \in Tree /\ Ancestors[y] \subseteq Ancestors[x] /\ y \in haveData
        BY <1>1, <1>5, <2>1, AncestorFacts, Zenon
      <3>2. b \in Ancestors[y]
        BY <2>1, <2>2, OneAbove, Zenon
      <3>3. y \notin linked
        BY <3>2, Zenon DEF LinkInv
      <3>4. \A z \in Ancestors[y] \ haveData : z = b
        BY <1>5, <3>1, Zenon
      <3> QED
        BY <1>1, <3>1, <3>3, <3>4, Zenon DEF WaitingInv
    <2>4. x = b \/ x \notin Ancestors[b]
      <3>1. x # b /\ x \in Ancestors[b] => x \in Ancestors[Parent[b]]
        BY <1>1, Zenon
      <3> QED
        BY <1>5, <3>1, LinkedDown, Zenon
    <2> QED
      BY <2>1, <2>2, <2>3, <2>4, Zenon DEF NewlyLinked
  <1>6. linked \cup NewlyLinked(b)
          = {x \in index \cup {b} : Ancestors[x] \subseteq haveData \cup {b}}
    BY <1>3, <1>4, <1>5, Zenon
  <1> QED
    BY <1>4, <1>6, Zenon

LEMMA AcceptBlockLinks ==
  ASSUME Types, LevelInv, LinkInv, WaitingInv, NEW b \in Blocks, AcceptBlock(b)
  PROVE  LinkInv' /\ WaitingInv'
  <1>1. /\ HeaderAccepted(b) /\ b \notin haveData
        /\ index' = index \cup {b} /\ haveData' = haveData \cup {b}
        /\ UNCHANGED <<failed, failedBlocks, tip, mostWork>>
    BY Zenon DEF AcceptBlock, ReceivedBlockTransactions, WantsData, abc
  <1>2. /\ b \in Tree /\ Parent[b] \in Tree /\ b \in Ancestors[b]
        /\ Ancestors[b] = Ancestors[Parent[b]] \cup {b}
        /\ Parent[b] \in Ancestors[b]
    BY ParentChain, Zenon
  <1>3. failed[b] = {} /\ Ancestors[b] \subseteq index \cup {b} /\ Parent[b] \in index
    BY <1>1, AcceptedHeader, Zenon
  <1>4. /\ Genesis \in haveData'
        /\ \A x \in index' : Ancestors[x] \subseteq index'
        /\ \A x \in Tree \ index' : failed'[x] = {}
    BY <1>1, <1>3, Zenon DEF LinkInv
  <1>5. ASSUME NEW p \in haveData \ linked, p \notin unlinked \/ failed[p] # {}
        PROVE  \E z \in Ancestors[p] \ haveData' : failed[z] # {}
    BY <1>1, <1>3, <1>5, Zenon DEF WaitingInv
  <1>6. CASE Parent[b] \in linked
    <2>1. /\ linked' = linked \cup NewlyLinked(b) /\ unlinked' = unlinked \ NewlyLinked(b)
      BY <1>6, Zenon DEF AcceptBlock, ReceivedBlockTransactions
    <2>2. linked' = {x \in index' : Ancestors[x] \subseteq haveData'}
      BY <1>1, <1>6, <2>1, LinkedExactly, Zenon
    <2>3. b \in linked'
      BY <1>1, <1>2, <1>6, <2>2, Zenon DEF LinkInv
    <2>4. LinkInv'
      BY <1>1, <1>4, <2>1, <2>2, Zenon DEF LinkInv
    <2>5. ASSUME NEW p \in haveData' \ linked', p \notin unlinked' \/ failed'[p] # {}
          PROVE  \E z \in Ancestors[p] \ haveData' : failed'[z] # {}
      BY <1>1, <1>5, <2>1, <2>3, <2>5, Zenon
    <2> QED
      BY <2>4, <2>5, Zenon DEF WaitingInv
  <1>7. CASE Parent[b] \notin linked
    <2>1. /\ unlinked' = IF Waits(b) THEN unlinked \cup {b} ELSE unlinked
          /\ linked' = linked
      BY <1>7, Zenon DEF AcceptBlock, ReceivedBlockTransactions
    <2>2. ~(Ancestors[Parent[b]] \subseteq haveData)
      BY <1>3, <1>7, Zenon DEF LinkInv
    <2>3. PICK m \in Ancestors[Parent[b]] : m \notin haveData
      BY <2>2, Zenon
    <2>4. m # b /\ m \in Ancestors[b]
      BY <1>2, ParentChain
    <2>5. ASSUME NEW x \in index', Ancestors[x] \subseteq haveData', x \notin linked
          PROVE  FALSE
      <3>1. x \in Tree /\ b \in Ancestors[x]
        BY <1>1, <1>2, <2>5, Zenon DEF LinkInv, Types
      <3>2. m \in Ancestors[x]
        BY <2>4, <3>1, AncestorFacts, Zenon
      <3> QED
        BY <1>1, <2>3, <2>4, <2>5, <3>2, Zenon
    <2>6. ASSUME NEW x \in linked PROVE x \in index' /\ Ancestors[x] \subseteq haveData'
      BY <1>1, Zenon DEF LinkInv
    <2>7. linked' = {x \in index' : Ancestors[x] \subseteq haveData'}
      BY <2>1, <2>5, <2>6, Zenon
    <2>8. b \notin linked
      BY <1>1, <1>2, Zenon DEF LinkInv
    <2>9. LinkInv'
      BY <1>1, <1>4, <2>1, <2>7, <2>8, Zenon DEF LinkInv
    <2>10. ASSUME b \notin unlinked' PROVE \E z \in Ancestors[b] \ haveData' : failed[z] # {}
      <3>1. failed[Parent[b]] # {}
        BY <1>2, <1>3, <2>1, <2>10, Zenon DEF Waits, IsValid, LevelInv
      <3>2. CASE Parent[b] \notin haveData
        BY <1>1, <1>2, <1>3, <3>1, <3>2, Zenon
      <3>3. CASE Parent[b] \in haveData
        BY <1>2, <1>5, <1>7, <3>1, <3>3, Zenon
      <3> QED
        BY <3>2, <3>3, Zenon
    <2>11. ASSUME NEW p \in haveData' \ linked', p \notin unlinked' \/ failed'[p] # {}
           PROVE  \E z \in Ancestors[p] \ haveData' : failed'[z] # {}
      BY <1>1, <1>3, <1>5, <2>1, <2>10, <2>11, Zenon
    <2> QED
      BY <2>9, <2>11, Zenon DEF WaitingInv
  <1> QED
    BY <1>6, <1>7, Zenon

\* The other steps that take in headers and blocks.
LEMMA HeaderStepLinks ==
  ASSUME Types, FailedInv, LinkInv, WaitingInv, NEW b \in Blocks,
         ProcessNewHeader(b) \/ ProcessNotedBlock(b) \/ AcceptBadBlock(b)
  PROVE  LinkInv' /\ WaitingInv'
  <1>1. /\ HeaderAccepted(b) /\ index' = index \cup {b}
        /\ UNCHANGED <<haveData, linked, unlinked, failedBlocks, tip, mostWork>>
    BY Zenon DEF ProcessNewHeader, ProcessNotedBlock, AcceptBadBlock, sets, abc
  <1>2. b \in Tree
    BY Zenon DEF Tree
  <1>3. /\ \A x \in Tree \ {b} : failed'[x] = failed[x]
        /\ failed'[b] = failed[b] \/ b \notin haveData
        /\ \A x \in Tree : failed[x] \subseteq failed'[x]
    BY <1>2, Zenon DEF ProcessNewHeader, ProcessNotedBlock, AcceptBadBlock, WantsData, FailedInv
  <1>4. LinkInv'
    BY <1>1, <1>3, HeaderLinks, Zenon
  <1>5. ASSUME NEW p \in haveData \ linked, p \notin unlinked \/ failed'[p] # {}
        PROVE  \E z \in Ancestors[p] \ haveData : failed'[z] # {}
    <2>1. p \in Tree /\ failed'[p] = failed[p]
      BY <1>3, Zenon DEF Types
    <2>2. PICK z \in Ancestors[p] \ haveData : failed[z] # {}
      BY <1>5, <2>1, Zenon DEF WaitingInv
    <2>3. z \in Tree
      BY <2>1, AncestorFacts, Zenon
    <2> QED
      BY <1>3, <2>2, <2>3, Zenon
  <1> QED
    BY <1>1, <1>4, <1>5, Zenon DEF WaitingInv

\* A rejected header marks, with a block, every missing one below it.
LEMMA RejectHeaderLinks ==
  ASSUME Types, FailedInv, LinkInv, WaitingInv, NEW b \in Blocks, RejectHeader(b)
  PROVE  LinkInv' /\ WaitingInv'
  <1>1. PICK f \in FailedAncestors(Parent[b]) :
          failed' = [x \in Tree |-> IF x \in Ancestors[Parent[b]] \ Ancestors[f]
                                    THEN failed[x] \cup {"child"} ELSE failed[x]]
    BY Zenon DEF RejectHeader
  <1>2. /\ Parent[b] \in index
        /\ UNCHANGED <<index, haveData, linked, unlinked, failedBlocks, tip, mostWork>>
    BY Zenon DEF RejectHeader, sets, abc
  <1>3. Ancestors[Parent[b]] \subseteq index /\ Parent[b] \in Tree
    BY <1>2, Zenon DEF LinkInv, Types
  <1>4. LinkInv'
    BY <1>1, <1>2, <1>3, Zenon DEF LinkInv
  <1>5. Ancestors[f] \subseteq haveData
    BY Zenon DEF FailedAncestors, LinkInv
  <1>6. ASSUME NEW p \in haveData \ linked, p \notin unlinked \/ failed'[p] # {}
        PROVE  \E z \in Ancestors[p] \ haveData : failed'[z] # {}
    <2>1. p \in Tree /\ p \in index
      BY Zenon DEF Types
    <2>2. CASE p \notin unlinked \/ failed[p] # {}
      <3>1. PICK z \in Ancestors[p] \ haveData : failed[z] # {}
        BY <2>2, Zenon DEF WaitingInv
      <3>2. z \in Tree
        BY <2>1, AncestorFacts, Zenon
      <3> QED
        BY <1>1, <3>1, <3>2, Zenon
    <2>3. CASE failed[p] = {} /\ failed'[p] # {}
      <3>1. p \in Ancestors[Parent[b]]
        BY <1>1, <2>1, <2>3, Zenon
      <3>2. PICK z \in Ancestors[p] : z \notin haveData
        BY <2>1, Zenon DEF LinkInv
      <3>3. z \in Tree /\ z \in Ancestors[Parent[b]] \ Ancestors[f]
        BY <1>3, <1>5, <2>1, <3>1, <3>2, AncestorFacts, Zenon
      <3> QED
        BY <1>1, <3>2, <3>3, Zenon
    <2> QED
      BY <1>6, <2>2, <2>3, Zenon
  <1> QED
    BY <1>2, <1>4, <1>6, Zenon DEF WaitingInv

\* ActivateBestChain marks linked blocks only.
LEMMA ActivateLinks ==
  ASSUME Types, Types', FailedInv, LinkInv, WaitingInv, Activate
  PROVE  LinkInv' /\ WaitingInv'
  <1>1. UNCHANGED <<index, haveData, linked, unlinked>>
    BY Zenon DEF Activate, ActivateBestChain, TakeMain, ChooseTarget, DisconnectTip, ConnectTip,
           ConnectTipFails, blockIndex, sets
  <1>2. \A x \in linked : x \in Tree /\ x \in index
    BY Zenon DEF Types
  <1>3. ASSUME \A x \in Tree \ linked : failed'[x] = failed[x],
               \A x \in Tree : failed[x] \subseteq failed'[x],
               failedBlocks' \subseteq linked, tip' \in linked, mostWork' \in linked \cup {Null}
        PROVE  LinkInv' /\ WaitingInv'
    <2>1. LinkInv'
      BY <1>1, <1>2, <1>3, Zenon DEF LinkInv
    <2>2. ASSUME NEW p \in haveData \ linked, p \notin unlinked \/ failed'[p] # {}
          PROVE  \E z \in Ancestors[p] \ haveData : failed'[z] # {}
      <3>1. p \in Tree /\ failed'[p] = failed[p]
        BY <1>3, Zenon DEF Types
      <3>2. PICK z \in Ancestors[p] \ haveData : failed[z] # {}
        BY <2>2, <3>1, Zenon DEF WaitingInv
      <3>3. z \in Tree
        BY <3>1, AncestorFacts, Zenon
      <3> QED
        BY <1>3, <3>2, <3>3, Zenon
    <2> QED
      BY <1>1, <2>1, <2>2, Zenon DEF WaitingInv
  <1>4. CASE ActivateBestChain \/ TakeMain
    <2>1. UNCHANGED <<failed, failedBlocks, tip, mostWork>>
      BY <1>4, Zenon DEF ActivateBestChain, TakeMain, blockIndex, sets
    <2> QED
      BY <1>3, <2>1, Zenon DEF LinkInv
  <1>5. CASE ChooseTarget
    <2>1. PICK mw \in candidates \cup {mostWork} :
            /\ failed' = IF mostWork = Null
                         THEN [x \in Tree |-> IF x \in Condemned(mw) THEN failed[x] \cup {"child"}
                                              ELSE failed[x]]
                         ELSE failed
            /\ IF mw \in {Null, tip}
               THEN IF connected THEN ReleaseMain(tip, mw) ELSE Return
               ELSE pc' = "disconnect" /\ mostWork' = mw
            /\ UNCHANGED <<tip, failedBlocks>>
      BY <1>5, Zenon DEF ChooseTarget
    <2>2. mw \in linked \cup {Null} /\ mw \in Tree \cup {Null}
      BY <2>1, Zenon DEF Types, LinkInv
    <2>3. mostWork' \in linked \cup {Null}
      BY <2>1, <2>2, ReleaseTargets, Zenon
    <2>4. ASSUME NEW x \in Condemned(mw) PROVE x \in linked
      <3>1. PICK c \in candidates : x \in Ancestors[c]
        BY <2>4, Zenon DEF Condemned, Visited, Above
      <3> QED
        BY <3>1, LinkedDown, Zenon DEF Types
    <2>5. /\ \A x \in Tree \ linked : failed'[x] = failed[x]
          /\ \A x \in Tree : failed[x] \subseteq failed'[x]
      BY <2>1, <2>4, Zenon
    <2> QED
      BY <1>3, <2>1, <2>3, <2>5, Zenon DEF LinkInv
  <1>6. CASE DisconnectTip
    <2>1. /\ mostWork' = mostWork /\ failed' = failed /\ failedBlocks' = failedBlocks
          /\ tip' = tip \/ (tip' = Parent[tip] /\ tip \notin Ancestors[mostWork])
      BY <1>6, Zenon DEF DisconnectTip, blockIndex, sets
    <2>2. mostWork \in Tree /\ Genesis \in Ancestors[mostWork]
      BY <1>6, ChainsNest, Zenon DEF DisconnectTip, Types
    <2>3. ASSUME tip \in Blocks PROVE Parent[tip] \in linked
      BY <2>3, ParentChain, LinkedDown, Zenon DEF LinkInv
    <2>4. tip' \in linked
      BY <2>1, <2>2, <2>3, ZenonT(30) DEF Types, Tree, LinkInv
    <2> QED
      BY <1>3, <2>1, <2>4, Zenon DEF LinkInv
  <1>7. CASE \E b \in Blocks : ConnectTip(b) \/ ConnectTipFails(b)
    <2>1. PICK b \in Blocks : ConnectTip(b) \/ ConnectTipFails(b)
      BY <1>7, Zenon
    <2>2. mostWork \in linked /\ b \in Ancestors[mostWork]
      BY <2>1, Zenon DEF ConnectTip, ConnectTipFails, Types, LinkInv
    <2>3. b \in linked
      BY <2>2, LinkedDown, Zenon
    <2>4. CASE ConnectTip(b)
      <3>1. failed' = failed /\ failedBlocks' = failedBlocks /\ tip' = b
        BY <2>4, Zenon DEF ConnectTip
      <3>2. Abort \/ StepDone(b, mostWork) \/ UNCHANGED abc
        BY <2>4, Zenon DEF ConnectTip
      <3>3. mostWork' \in linked \cup {Null}
        BY <2>2, <3>2, ReleaseTargets, Zenon DEF Abort, abc, Types
      <3> QED
        BY <1>3, <2>3, <3>1, <3>3, Zenon DEF LinkInv
    <2>5. CASE ConnectTipFails(b)
      <3>1. /\ failed' = [failed EXCEPT ![b] = @ \cup {"valid"}]
            /\ failedBlocks' = failedBlocks \cup {b} /\ tip' = tip
            /\ StepDone(tip, Null)
        BY <2>5, Zenon DEF ConnectTipFails
      <3>2. mostWork' = Null
        BY <3>1, ReleaseTargets, Zenon
      <3>3. /\ \A x \in Tree \ linked : failed'[x] = failed[x]
            /\ \A x \in Tree : failed[x] \subseteq failed'[x]
        BY <2>3, <3>1, Zenon DEF FailedInv
      <3> QED
        BY <1>3, <2>3, <3>1, <3>2, <3>3, Zenon DEF LinkInv
    <2> QED
      BY <2>1, <2>4, <2>5, Zenon
  <1> QED
    BY <1>4, <1>5, <1>6, <1>7, Zenon DEF Activate

\* A start rebuilds the links; a block that waits then misses one of its own.
LEMMA RestartLinks ==
  ASSUME Types, FailedInv, LinkInv, WaitingInv, Restart
  PROVE  LinkInv' /\ WaitingInv'
  <1>1. /\ UNCHANGED <<index, haveData, tip, mostWork>> /\ failedBlocks' = {}
        /\ linked' = {b \in index : Ancestors[b] \subseteq haveData}
        /\ unlinked' = {b \in haveData : b # Genesis /\ Parent[b] \notin linked'}
        /\ failed' = [b \in Tree |->
             IF b \in index /\ failed[b] = {} /\ \E x \in Ancestors[b] : failed[x] # {}
             THEN {"child"} ELSE failed[b]]
    BY Zenon DEF Restart, Abort, abc
  <1>2. linked' = linked
    BY <1>1, Zenon DEF LinkInv
  <1>3. ASSUME NEW p \in haveData, p # Genesis
        PROVE  p \in Blocks /\ (p \in linked <=> Parent[p] \in linked)
    <2>1. p \in Blocks /\ p \in index
      BY <1>3, Zenon DEF Types, Tree
    <2>2. Parent[p] \in Ancestors[p] /\ Ancestors[p] = Ancestors[Parent[p]] \cup {p}
      BY <2>1, ParentChain, Zenon
    <2>3. Parent[p] \in index
      BY <2>1, <2>2, Zenon DEF LinkInv
    <2> QED
      BY <2>1, <2>2, <2>3, LinkedDown, Zenon DEF LinkInv
  <1>4. unlinked' \cap linked' = {}
    BY <1>1, <1>2, <1>3, Zenon
  <1>5. Genesis \in linked
    BY ChainsGrow DEF LinkInv, Types
  <1>6. LinkInv'
    BY <1>1, <1>2, <1>4, Zenon DEF LinkInv
  <1>7. ASSUME NEW p \in haveData \ linked, p \notin unlinked' \/ failed'[p] # {}
        PROVE  \E z \in Ancestors[p] \ haveData : failed'[z] # {}
    <2>1. p \in Tree /\ p \in index /\ p \in unlinked' /\ Ancestors[p] \subseteq index /\ p \in Ancestors[p]
      BY <1>1, <1>2, <1>3, <1>5, ChainsNest, Zenon DEF Types, LinkInv
    <2>2. PICK x \in Ancestors[p] : failed[x] # {}
      BY <1>1, <1>7, <2>1, Zenon
    <2>3. PICK m \in Ancestors[p] : m \notin haveData
      BY <2>1, Zenon DEF LinkInv
    <2>4. x \in Tree /\ m \in Tree /\ x \in index /\ m \in index
      BY <2>1, AncestorFacts, Zenon
    <2>5. \A z \in Tree : failed[z] # {} => failed'[z] # {}
      BY <1>1, Zenon
    <2>6. CASE x \notin haveData
      BY <2>2, <2>4, <2>5, <2>6, Zenon
    <2>7. CASE x \in haveData \ linked
      <3>1. PICK z \in Ancestors[x] \ haveData : failed[z] # {}
        BY <2>2, <2>7, Zenon DEF WaitingInv
      <3>2. z \in Tree /\ z \in Ancestors[p]
        BY <2>1, <2>4, <3>1, AncestorFacts, Zenon
      <3> QED
        BY <2>5, <3>1, <3>2, Zenon
    <2>8. CASE x \in linked
      <3>1. m \notin Ancestors[x]
        BY <2>3, <2>8, LinkedDown, Zenon
      <3>2. x \in Ancestors[m]
        BY <2>1, <3>1, OneAbove, Zenon
      <3>3. failed'[m] # {}
        BY <1>1, <2>2, <2>4, <3>2, Zenon
      <3> QED
        BY <2>3, <3>3, Zenon
    <2> QED
      BY <2>6, <2>7, <2>8, Zenon
  <1> QED
    BY <1>1, <1>2, <1>6, <1>7, Zenon DEF WaitingInv

LEMMA LevelStep ==
  ASSUME Types, LevelInv, [Next]_vars
  PROVE  LevelInv'
  <1>1. \A b \in Blocks : b \in Tree
    BY Zenon DEF Tree
  <1>2. ASSUME NEW b \in Blocks, ProcessNewHeader(b) \/ ProcessNotedBlock(b) \/ AcceptBadBlock(b)
        PROVE  LevelInv'
    <2>1. index' = index \cup {b} /\ haveData' = haveData /\ valid' = AddToBlockIndex(b)
      BY <1>2, Zenon DEF ProcessNewHeader, ProcessNotedBlock, AcceptBadBlock
    <2> QED
      BY <1>1, <2>1 DEF AddToBlockIndex, LevelInv, Types, VALID_TREE, VALID_TRANSACTIONS
  <1>3. ASSUME NEW b \in Blocks, AcceptBlock(b) PROVE LevelInv'
    <2>1. /\ index' = index \cup {b} /\ haveData' = haveData \cup {b}
          /\ valid' = [AddToBlockIndex(b) EXCEPT ![b] = VALID_TRANSACTIONS]
      BY <1>3, ZenonT(30) DEF AcceptBlock, ReceivedBlockTransactions
    <2> QED
      BY <1>1, <2>1 DEF AddToBlockIndex, LevelInv, Types, VALID_TREE, VALID_TRANSACTIONS
  <1>4. ASSUME NEW b \in Blocks, ConnectTip(b) PROVE LevelInv'
    <2>1. /\ valid' = IF failed[b] = {} THEN [valid EXCEPT ![b] = VALID_SCRIPTS] ELSE valid
          /\ UNCHANGED <<index, haveData>>
      BY <1>4, Zenon DEF ConnectTip
    <2> QED
      BY <1>1, <2>1, SMTT(30) DEF LevelInv, Types, VALID_TREE, VALID_TRANSACTIONS, VALID_SCRIPTS
  <1>5. ASSUME UNCHANGED <<index, haveData, valid>> PROVE LevelInv'
    BY <1>5, Zenon DEF LevelInv
  <1>6. ASSUME \/ ActivateBestChain \/ TakeMain \/ ChooseTarget \/ DisconnectTip \/ Restart
               \/ \E b \in Blocks : \/ ConnectTipFails(b) \/ RejectHeader(b) \/ InvalidateBlock(b)
                                    \/ ReconsiderBlock(b) \/ PreciousBlock(b)
               \/ UNCHANGED vars
        PROVE  UNCHANGED <<index, haveData, valid>>
    BY <1>6, ZenonT(30) DEF ActivateBestChain, TakeMain, ChooseTarget, DisconnectTip, Restart, ConnectTipFails,
       RejectHeader, InvalidateBlock, ReconsiderBlock, PreciousBlock, vars, blockIndex
  <1> QED
    BY <1>2, <1>3, <1>4, <1>5, <1>6, Zenon DEF Next, Activate

LEMMA LinkStep ==
  ASSUME Types, Types', FailedInv, LevelInv, LinkInv, WaitingInv, [Next]_vars, Rpc \subseteq {"precious"}
  PROVE  LinkInv' /\ WaitingInv'
  <1>1. \A b \in Blocks : ~InvalidateBlock(b) /\ ~ReconsiderBlock(b)
    BY ZenonT(30) DEF InvalidateBlock, ReconsiderBlock, Call
  <1>2. ASSUME UNCHANGED <<index, haveData, linked, unlinked, failed, failedBlocks, tip, mostWork>>
        PROVE  LinkInv' /\ WaitingInv'
    BY <1>2, ZenonT(30) DEF LinkInv, WaitingInv
  <1>3. ASSUME UNCHANGED vars \/ \E b \in Blocks : PreciousBlock(b)
        PROVE  UNCHANGED <<index, haveData, linked, unlinked, failed, failedBlocks, tip, mostWork>>
    BY <1>3, Zenon DEF PreciousBlock, Abort, vars, blockIndex, sets, abc
  <1> QED
    BY <1>1, <1>2, <1>3, ActivateLinks, RestartLinks, HeaderStepLinks, RejectHeaderLinks,
       AcceptBlockLinks, Zenon DEF Next

LEMMA AlwaysLinked ==
  ASSUME Rpc \subseteq {"precious"}
  PROVE  Spec => [](LevelInv /\ LinkInv /\ WaitingInv)
  <1>1. Init => LevelInv /\ LinkInv /\ WaitingInv
    <2>1. Genesis \in Tree /\ Ancestors[Genesis] = {Genesis}
      BY ChainsGrow, Zenon DEF Tree
    <2> QED
      BY <2>1, SMTT(30) DEF Init, LevelInv, LinkInv, WaitingInv, VALID_TREE, VALID_TRANSACTIONS, VALID_UNKNOWN
  <1>2. Types /\ Types' /\ FailedInv /\ (LevelInv /\ LinkInv /\ WaitingInv) /\ [Next]_vars
          => (LevelInv /\ LinkInv /\ WaitingInv)'
    BY LevelStep, LinkStep, Zenon
  <1> QED
    BY <1>1, <1>2, AlwaysTyped, MarksTyped, PTL DEF Spec

\* Unless blocks are invalidated by hand, whatever order headers and blocks arrive
\* in, with failures and restarts in between, nChainTx is set exactly when all data
\* is there and data that is not linked waits for what is missing.
THEOREM DataNeverLost ==
  ASSUME Rpc \subseteq {"precious"}
  PROVE  Spec => []DataLinkedOrWaiting
  <1>1. Types /\ CauseInv /\ LinkInv /\ WaitingInv => DataLinkedOrWaiting
    <2> SUFFICES ASSUME Types, CauseInv, LinkInv, WaitingInv PROVE DataLinkedOrWaiting
      BY Zenon
    <2>1. ASSUME NEW b \in haveData, b \notin linked, NoInvalidAncestor(b) PROVE b \in unlinked
      <3>1. SUFFICES ASSUME b \notin unlinked PROVE FALSE
        BY Zenon
      <3>2. PICK z \in Ancestors[b] : failed[z] # {}
        BY <2>1, <3>1, Zenon DEF WaitingInv
      <3>3. b \in Tree /\ z \in Tree /\ Ancestors[z] \subseteq Ancestors[b]
        BY AncestorFacts, Zenon DEF Types
      <3> QED
        BY <2>1, <3>2, <3>3, Zenon DEF CauseInv, NoInvalidAncestor
    <2> QED
      BY <2>1, Zenon DEF DataLinkedOrWaiting, LinkedIffAllProcessed, UnlinkedComplete, LinkInv
  <1>2. "reconsider" \notin Rpc
    BY Zenon
  <1>3. (LevelInv /\ LinkInv /\ WaitingInv) => LinkInv /\ WaitingInv
    BY Zenon
  <1>4. Spec => []CauseInv
    BY <1>2, AlwaysCaused, Zenon
  <1> QED
    BY <1>1, <1>3, <1>4, AlwaysTyped, AlwaysLinked, PTL

(***************************************************************************)
(* The candidates, with at most one call of preciousblock.                 *)
(***************************************************************************)
\* CBlockIndexWorkComparator is a strict total order, in which more work wins.
LEMMA WorseOrder ==
  ASSUME NEW ids \in [Tree -> Int], NEW order \in {1, -1}, NEW a \in Tree, NEW b \in Tree
  PROVE  /\ ~WorseAt(a, a, ids, order)
         /\ a = b \/ WorseAt(a, b, ids, order) \/ WorseAt(b, a, ids, order)
         /\ WorseAt(a, b, ids, order) => ~WorseAt(b, a, ids, order)
         /\ Height[a] < Height[b] => WorseAt(a, b, ids, order)
  <1>1. Height[a] \in Nat /\ Height[b] \in Nat /\ ids[a] \in Int /\ ids[b] \in Int
    BY ChainsGrow, Zenon
  <1>2. Addr[a] \in Int /\ Addr[b] \in Int /\ (Addr[a] = Addr[b] => a = b)
    BY TreeShape, Zenon DEF IsInjective
  <1>3. CASE order = 1
    BY <1>1, <1>2, <1>3 DEF WorseAt
  <1>4. CASE order = -1
    BY <1>1, <1>2, <1>4 DEF WorseAt
  <1> QED
    BY <1>3, <1>4, Zenon

LEMMA NotWorseTransitive ==
  ASSUME NEW ids \in [Tree -> Int], NEW order \in {1, -1},
         NEW a \in Tree, NEW b \in Tree, NEW c \in Tree,
         ~WorseAt(a, b, ids, order), ~WorseAt(b, c, ids, order)
  PROVE  ~WorseAt(a, c, ids, order)
  <1>1. /\ Height[a] \in Nat /\ Height[b] \in Nat /\ Height[c] \in Nat
        /\ ids[a] \in Int /\ ids[b] \in Int /\ ids[c] \in Int
    BY ChainsGrow, Zenon
  <1>2. Addr[a] \in Int /\ Addr[b] \in Int /\ Addr[c] \in Int
    BY TreeShape, Zenon
  <1>3. CASE order = 1
    BY <1>1, <1>2, <1>3 DEF WorseAt
  <1>4. CASE order = -1
    BY <1>1, <1>2, <1>4 DEF WorseAt
  <1> QED
    BY <1>3, <1>4, Zenon

\* The numbers compared; before the first call of preciousblock none is negative.
IdInv ==
  /\ seqId \in [Tree -> Int] /\ addrOrder \in {1, -1}
  /\ nextSeq \in Nat /\ nextSeq # 0 /\ nextReverse \in Int /\ calls \in Nat
  /\ calls = 0 => nextReverse = -1 /\ \A b \in Tree : seqId[b] >= 0

LEMMA IdStep ==
  ASSUME Types, IdInv, [Next]_vars
  PROVE  IdInv'
  <1>1. ASSUME NEW b \in Blocks, AcceptBlock(b) PROVE IdInv'
    <2>1. UNCHANGED <<addrOrder, nextReverse, calls>>
      BY <1>1, Zenon DEF AcceptBlock, bounds
    <2>2. CASE Parent[b] \in linked
      <3> DEFINE new == NewlyLinked(b)
      <3>1. PICK position \in Bijection(new, 1..Cardinality(new)), last \in new :
              /\ seqId' = [x \in Tree |-> IF x \in new THEN nextSeq + position[x] - 1 ELSE seqId[x]]
              /\ nextSeq' = nextSeq + position[last]
        BY <1>1, <2>2, ZenonT(30) DEF AcceptBlock, ReceivedBlockTransactions
      <3>2. position \in [new -> 1..Cardinality(new)]
        BY <3>1, Zenon DEF Bijection, Injection
      <3> HIDE DEF new
      <3>3. \A x \in new : position[x] \in Nat /\ position[x] >= 1
        BY <3>2
      <3>4. seqId' \in [Tree -> Int] /\ (calls = 0 => \A x \in Tree : seqId'[x] >= 0)
        BY <3>1, <3>3 DEF IdInv
      <3>5. nextSeq' \in Nat /\ nextSeq' # 0
        BY <3>1, <3>3 DEF IdInv
      <3> QED
        BY <2>1, <3>4, <3>5, Zenon DEF IdInv
    <2>3. CASE Parent[b] \notin linked
      <3>1. UNCHANGED <<seqId, nextSeq>>
        BY <1>1, <2>3, ZenonT(30) DEF AcceptBlock, ReceivedBlockTransactions
      <3> QED
        BY <2>1, <3>1, Zenon DEF IdInv
    <2> QED
      BY <2>2, <2>3, Zenon
  <1>2. ASSUME NEW b \in Blocks, PreciousBlock(b) PROVE IdInv'
    <2> DEFINE id == IF Height[tip] > lastPrecious THEN -1 ELSE nextReverse
    <2>1. /\ seqId' = [seqId EXCEPT ![b] = id] /\ nextReverse' = id - 1
          /\ calls' = calls + 1
          /\ UNCHANGED <<nextSeq, addrOrder>>
      BY <1>2, Zenon DEF PreciousBlock, Call
    <2>2. id \in Int
      BY DEF IdInv
    <2> HIDE DEF id
    <2>3. nextReverse' \in Int
      BY <2>1, <2>2
    <2>5. seqId \in [Tree -> Int] /\ b \in Tree
      BY Zenon DEF IdInv, Tree
    <2>6. seqId' \in [Tree -> Int]
      BY <2>1, <2>2, <2>5, Zenon
    <2>4. calls' \in Nat /\ calls' # 0
      BY <2>1 DEF IdInv
    <2> QED
      BY <2>1, <2>3, <2>4, <2>6, Zenon DEF IdInv
  <1>3. ASSUME Restart PROVE IdInv'
    <2>1. /\ addrOrder' \in {1, -1} /\ seqId' = [b \in Tree |-> 0]
          /\ nextSeq' = 1 /\ nextReverse' = -1 /\ UNCHANGED calls
      BY <1>3, Zenon DEF Restart
    <2> QED
      BY <2>1 DEF IdInv
  <1>4. ASSUME /\ UNCHANGED <<seqId, addrOrder, nextSeq, nextReverse>>
               /\ calls' = calls \/ calls' = calls + 1
        PROVE  IdInv'
    BY <1>4 DEF IdInv
  <1>5. ASSUME \/ Activate \/ UNCHANGED vars
               \/ \E b \in Blocks : \/ ProcessNewHeader(b) \/ ProcessNotedBlock(b) \/ RejectHeader(b)
                                    \/ AcceptBadBlock(b) \/ InvalidateBlock(b) \/ ReconsiderBlock(b)
        PROVE  /\ UNCHANGED <<seqId, addrOrder, nextSeq, nextReverse>>
               /\ calls' = calls \/ calls' = calls + 1
    BY <1>5, Zenon DEF Activate, ActivateBestChain, TakeMain, ChooseTarget, DisconnectTip, ConnectTip,
       ConnectTipFails, ProcessNewHeader, ProcessNotedBlock, RejectHeader, AcceptBadBlock,
       InvalidateBlock, ReconsiderBlock, Call, vars, blockIndex, counters, bounds
  <1> QED
    BY <1>1, <1>2, <1>3, <1>4, <1>5, Zenon DEF Next

LEMMA AlwaysNumbered == Spec => []IdInv
  <1>1. Init => IdInv
    BY DEF Init, IdInv
  <1>2. Types /\ IdInv /\ [Next]_vars => IdInv'
    BY IdStep, Zenon
  <1> QED
    BY <1>1, <1>2, AlwaysTyped, PTL DEF Spec

LEMMA OrderNow ==
  ASSUME IdInv, NEW a \in Tree, NEW b \in Tree
  PROVE  /\ ~Worse(a, a, seqId)
         /\ a = b \/ Worse(a, b, seqId) \/ Worse(b, a, seqId)
         /\ Worse(a, b, seqId) => ~Worse(b, a, seqId)
         /\ Height[a] < Height[b] => Worse(a, b, seqId) /\ ~Worse(b, a, seqId)
  BY WorseOrder DEF IdInv, Worse

LEMMA TransitiveNow ==
  ASSUME IdInv, NEW a \in Tree, NEW b \in Tree, NEW c \in Tree,
         ~Worse(a, b, seqId), ~Worse(b, c, seqId)
  PROVE  ~Worse(a, c, seqId)
  BY NotWorseTransitive, Zenon DEF IdInv, Worse

\* A block is not worse than one on its chain.
LEMMA AboveNotWorse ==
  ASSUME IdInv, NEW b \in Tree, NEW x \in Ancestors[b]
  PROVE  ~Worse(b, x, seqId)
  BY AncestorFacts, OrderNow, Zenon

\* A block that has been, and can be, the tip.
Sound(b) == b \in linked /\ NoInvalidAncestor(b) /\ Ancestors[b] \cap BadConnect = {}

\* CandidatesComplete, relative to any block.
Complete(t) == \A b \in linked : NoInvalidAncestor(b) /\ ~Worse(b, t, seqId) => b \in candidates

\* While ActivateBestChain holds cs_main the tip may drop below where it started;
\* the candidates are then complete relative to that start.
CandidateInv ==
  /\ Sound(tip)
  /\ \A c \in candidates : ~Worse(c, tip, seqId)
  /\ mostWork # Null => mostWork \in candidates /\ NoInvalidAncestor(mostWork)
  /\ pc \in {"idle", "released", "choose", "disconnect", "connect"}
  /\ pc = "idle" => mostWork = Null
  /\ Free => Complete(tip) /\ (mostWork # Null => Height[tip] < Height[mostWork])
  /\ ~Free => /\ Sound(startTip)
              /\ mostWork # Null => ~Worse(mostWork, startTip, seqId)
              /\ IF pc = "connect" /\ ~Worse(tip, startTip, seqId) THEN Complete(tip) ELSE Complete(startTip)
  /\ pc = "choose" => tip = startTip \/ Worse(tip, startTip, seqId)

\* Nothing on the chain of a block without invalid ancestors is marked.
LEMMA Unmarked ==
  ASSUME CauseInv, NEW b \in Tree, NoInvalidAncestor(b), NEW x \in Ancestors[b]
  PROVE  failed[x] = {}
  <1>1. x \in Tree /\ Ancestors[x] \subseteq Ancestors[b]
    BY AncestorFacts, Zenon
  <1> QED
    BY <1>1, Zenon DEF CauseInv, NoInvalidAncestor

\* A sound block's chain is sound.
LEMMA SoundDown ==
  ASSUME Types, LinkInv, NEW b, Sound(b), NEW x \in Ancestors[b]
  PROVE  Sound(x)
  <1>1. b \in linked /\ b \in Tree
    BY Zenon DEF Sound, Types
  <1>2. x \in linked /\ Ancestors[x] \subseteq Ancestors[b]
    BY <1>1, LinkedDown, AncestorFacts, Zenon
  <1> QED
    BY <1>2, Zenon DEF Sound, NoInvalidAncestor

(***************************************************************************)
(* Steps of other threads.                                                 *)
(***************************************************************************)
\* No mark on a linked block, and nothing the comparisons use, changes.
LEMMA HeaderCandidates ==
  ASSUME Types, LinkInv, CandidateInv, Free, UNCHANGED <<candidates, linked, seqId, tip, addrOrder, abc>>,
         \A b \in linked : NoInvalidAncestor(b)' <=> NoInvalidAncestor(b)
  PROVE  CandidateInv'
  <1>1. UNCHANGED <<pc, mostWork, startTip>> /\ Free'
    BY Zenon DEF abc, Free
  <1>2. tip \in linked /\ (mostWork # Null => mostWork \in linked)
    BY ZenonT(30) DEF LinkInv
  <1>3. Sound(tip)' /\ (mostWork # Null => NoInvalidAncestor(mostWork)')
    BY <1>1, <1>2, Zenon DEF Sound, CandidateInv, NoInvalidAncestor
  <1>4. \A a, b : Worse(a, b, seqId)' <=> Worse(a, b, seqId)
    BY Zenon DEF Worse, WorseAt
  <1>5. Complete(tip)'
    BY <1>4, Zenon DEF Complete, CandidateInv
  <1> QED
    BY <1>1, <1>3, <1>4, <1>5, ZenonT(30) DEF CandidateInv, Free

LEMMA HeaderStepsCandidates ==
  ASSUME Types, LinkInv, FailedInv, CandidateInv, NEW b \in Blocks,
         ProcessNewHeader(b) \/ ProcessNotedBlock(b) \/ RejectHeader(b) \/ AcceptBadBlock(b)
  PROVE  CandidateInv'
  <1>1. Free /\ UNCHANGED <<candidates, linked, seqId, tip, addrOrder, abc>>
    BY Zenon DEF ProcessNewHeader, ProcessNotedBlock, RejectHeader, AcceptBadBlock, sets, counters
  <1>2. ASSUME NEW x \in Tree, x # b \/ ~AcceptBadBlock(b)
        PROVE  "valid" \in failed'[x] <=> "valid" \in failed[x]
    BY <1>2 DEF ProcessNewHeader, ProcessNotedBlock, RejectHeader, AcceptBadBlock, FailedInv
  <1>3. AcceptBadBlock(b) => b \notin haveData
    BY Zenon DEF AcceptBadBlock, WantsData
  <1>4. ASSUME NEW c \in linked PROVE NoInvalidAncestor(c)' <=> NoInvalidAncestor(c)
    <2>1. c \in Tree /\ Ancestors[c] \subseteq haveData /\ Ancestors[c] \subseteq Tree
      BY ChainsNest, Zenon DEF LinkInv, Types
    <2> QED
      BY <1>2, <1>3, <2>1, Zenon DEF NoInvalidAncestor
  <1> QED
    BY <1>1, <1>4, HeaderCandidates, Zenon

\* The blocks that are linked become candidates unless they are worse than the tip.
LEMMA AcceptBlockCandidates ==
  ASSUME Types, LinkInv, WaitingInv, CandidateInv, NEW b \in Blocks, AcceptBlock(b)
  PROVE  CandidateInv'
  <1>1. /\ Free /\ HeaderAccepted(b) /\ b \notin haveData
        /\ UNCHANGED <<failed, tip, addrOrder, abc>>
    BY Zenon DEF AcceptBlock, WantsData
  <1>2. \A c : NoInvalidAncestor(c)' <=> NoInvalidAncestor(c)
    BY <1>1, Zenon DEF NoInvalidAncestor
  <1>3. CASE Parent[b] \in linked
    <2> DEFINE new == NewlyLinked(b)
    <2>1. /\ linked' = linked \cup new
          /\ candidates' = candidates \cup NewCandidates(new, seqId')
          /\ \A x \in Tree \ new : seqId'[x] = seqId[x]
      BY <1>3, ZenonT(30) DEF AcceptBlock, ReceivedBlockTransactions
    <2>2. new \cap linked = {}
      BY <1>1, <1>3, LinkedExactly, Zenon
    <2> HIDE DEF new
    <2>3. \A x \in linked : x \in Tree /\ seqId'[x] = seqId[x]
      BY <2>1, <2>2, Zenon DEF Types
    <2>4. tip \in linked /\ (mostWork # Null => mostWork \in linked) /\ candidates \subseteq linked
      BY Zenon DEF LinkInv, Types
    <2>5. \A x \in linked : Worse(x, tip, seqId)' <=> Worse(x, tip, seqId)
      BY <1>1, <2>3, <2>4, Zenon DEF Worse, WorseAt
    <2>6. NewCandidates(new, seqId') = {x \in new : ~Worse(x, tip, seqId)'}
      BY <1>1, Zenon DEF NewCandidates, Worse
    <2>7. Complete(tip)'
      BY <1>1, <1>2, <2>1, <2>5, <2>6, ZenonT(30) DEF Complete, CandidateInv
    <2>8. \A c \in candidates' : ~Worse(c, tip, seqId)'
      BY <2>1, <2>4, <2>5, <2>6, ZenonT(30) DEF CandidateInv
    <2>9. UNCHANGED <<pc, mostWork, tip>> /\ Free'
      BY <1>1, Zenon DEF abc, Free
    <2>10. Sound(tip)' /\ (mostWork # Null => mostWork \in candidates' /\ NoInvalidAncestor(mostWork)')
      BY <1>2, <2>1, <2>9, ZenonT(30) DEF Sound, CandidateInv
    <2> QED
      BY <1>1, <2>7, <2>8, <2>9, <2>10, Zenon DEF CandidateInv, Free
  <1>4. CASE Parent[b] \notin linked
    <2>1. UNCHANGED <<candidates, linked, seqId, tip, addrOrder, abc>>
      BY <1>1, <1>4, Zenon DEF AcceptBlock, ReceivedBlockTransactions
    <2> QED
      BY <1>1, <1>2, <2>1, HeaderCandidates, Zenon
  <1> QED
    BY <1>3, <1>4, Zenon

\* The first preferred block gets the only negative number: it sorts before the
\* other blocks of its height.
LEMMA PreciousCandidatesKept ==
  ASSUME Types, LinkInv, LevelInv, CauseInv, IdInv, IdInv', CandidateInv, MaxCalls \in {0, 1},
         NEW b \in Blocks, PreciousBlock(b)
  PROVE  CandidateInv'
  <1> DEFINE usable == IsValid(b, VALID_TRANSACTIONS) /\ b \in linked
  <1>1. Free /\ b \in Tree /\ calls < MaxCalls /\ UNCHANGED <<tip, linked, failed, addrOrder>>
    BY Zenon DEF PreciousBlock, Call, Tree
  <1>2. calls = 0
    BY <1>1 DEF IdInv
  <1>3. seqId' = [seqId EXCEPT ![b] = -1] /\ \A x \in Tree : seqId[x] \in Int /\ seqId[x] >= 0
    BY <1>2, Zenon DEF PreciousBlock, IdInv
  <1>4. /\ tip \in linked /\ tip \in Tree /\ NoInvalidAncestor(tip)
        /\ mostWork # Null => mostWork \in linked /\ mostWork \in Tree /\ NoInvalidAncestor(mostWork)
    BY ZenonT(30) DEF LinkInv, Types, CandidateInv, Sound
  <1>5. \A c : NoInvalidAncestor(c)' <=> NoInvalidAncestor(c)
    BY <1>1, Zenon DEF NoInvalidAncestor
  <1>6. ASSUME NEW x \in linked, NoInvalidAncestor(x) PROVE IsValid(x, VALID_TRANSACTIONS)
    <2>1. x \in Tree /\ x \in haveData
      BY ChainsNest, Zenon DEF Types, LinkInv
    <2>2. failed[x] = {}
      BY <1>6, <2>1, ChainsNest, Unmarked, ZenonT(30)
    <2> QED
      BY <2>1, <2>2, Zenon DEF IsValid, LevelInv
  <1>7. ASSUME NEW x \in Tree, x # b, ~Worse(x, tip, seqId)'
        PROVE  ~Worse(x, tip, seqId)
    <2>0. Height[x] \in Nat /\ Height[tip] \in Nat
      BY <1>4, ChainsGrow, Zenon
    <2>1. seqId'[x] = seqId[x] /\ (tip = b => seqId'[tip] = -1) /\ (tip # b => seqId'[tip] = seqId[tip])
      BY <1>1, <1>3, <1>4, <1>7, Zenon DEF IdInv
    <2>2. seqId[x] \in Int /\ seqId[x] >= 0 /\ seqId[tip] \in Int
      BY <1>3, <1>4, Zenon
    <2> QED
      BY <1>1, <1>7, <2>0, <2>1, <2>2, SMTT(30) DEF Worse, WorseAt
  <1>8. ASSUME NEW x \in Tree, Height[tip] < Height[x] PROVE ~Worse(x, tip, seqId)'
    <2>1. ~WorseAt(x, tip, seqId', addrOrder')
      BY <1>4, <1>8, WorseOrder DEF IdInv
    <2> QED
      BY <1>1, <2>1, Zenon DEF Worse
  <1>9. ~Worse(tip, tip, seqId)'
    <2>1. ~WorseAt(tip, tip, seqId', addrOrder')
      BY <1>4, WorseOrder DEF IdInv
    <2> QED
      BY <1>1, <2>1, Zenon DEF Worse
  <1>10. tip \in candidates
    <2>1. ~Worse(tip, tip, seqId)
      BY <1>4, OrderNow, Zenon
    <2> QED
      BY <1>1, <1>4, <2>1, Zenon DEF CandidateInv, Complete
  <1>11. CASE usable
    <2>1. candidates' = {c \in candidates \cup {b} : ~Worse(c, tip, seqId)'}
      BY <1>1, <1>11, Zenon DEF PreciousBlock, PreciousCandidates, PruneBlockIndexCandidates, Worse
    <2>2. tip \in candidates'
      BY <1>1, <1>9, <1>10, <2>1, Zenon DEF Worse
    <2>3. UNCHANGED abc
      BY <1>11, <2>2, Zenon DEF PreciousBlock
    <2>4. Complete(tip)'
      <3> SUFFICES ASSUME NEW x \in linked, NoInvalidAncestor(x), ~Worse(x, tip, seqId)'
                   PROVE  x \in candidates'
        BY <1>1, <1>5, Zenon DEF Complete
      <3>1. x \in Tree
        BY Zenon DEF Types
      <3> QED
        BY <1>1, <1>7, <2>1, <3>1, ZenonT(30) DEF CandidateInv, Complete
    <2>5. mostWork # Null => mostWork \in candidates'
      BY <1>1, <1>4, <1>8, <2>1, Zenon DEF CandidateInv
    <2> QED
      BY <1>1, <1>4, <1>5, <2>1, <2>3, <2>4, <2>5, ZenonT(30) DEF CandidateInv, Free, abc, Sound
  <1>12. CASE ~usable
    <2>1. candidates' = candidates \ {b} /\ UNCHANGED abc
      BY <1>12, Zenon DEF PreciousBlock, PreciousCandidates
    <2>2. tip # b /\ mostWork # b
      BY <1>4, <1>6, <1>12, TreeShape, Zenon DEF Tree
    <2>3. ASSUME NEW x \in Tree, x # b PROVE Worse(x, tip, seqId)' <=> Worse(x, tip, seqId)
      <3>1. seqId'[x] = seqId[x] /\ seqId'[tip] = seqId[tip]
        BY <1>3, <1>4, <2>2, <2>3
      <3> QED
        BY <1>1, <3>1, Zenon DEF Worse, WorseAt
    <2>4. \A c \in candidates' : ~Worse(c, tip, seqId)'
      BY <2>1, <2>3, Zenon DEF CandidateInv, Types
    <2>5. Complete(tip)'
      <3> SUFFICES ASSUME NEW x \in linked, NoInvalidAncestor(x), ~Worse(x, tip, seqId)'
                   PROVE  x \in candidates'
        BY <1>1, <1>5, Zenon DEF Complete
      <3>1. x \in Tree /\ x # b
        BY <1>6, <1>12, Zenon DEF Types
      <3> QED
        BY <1>1, <2>1, <2>3, <3>1, ZenonT(30) DEF CandidateInv, Complete
    <2> QED
      BY <1>1, <1>4, <1>5, <2>1, <2>2, <2>4, <2>5, ZenonT(30) DEF CandidateInv, Free, abc, Sound
  <1> QED
    BY <1>11, <1>12, Zenon

\* LoadBlockIndex rebuilds the candidates, and the tip is one of them.
LEMMA RestartCandidates ==
  ASSUME Types, LinkInv, LinkInv', LevelInv, CauseInv, IdInv, IdInv', CandidateInv, Restart
  PROVE  CandidateInv'
  <1>1. /\ pc = "idle" /\ mostWork = Null /\ UNCHANGED <<index, haveData, valid, tip>>
    BY ZenonT(30) DEF Restart, CandidateInv
  <1>2. failed' = [b \in Tree |->
             IF b \in index /\ failed[b] = {} /\ \E x \in Ancestors[b] : failed[x] # {}
             THEN {"child"} ELSE failed[b]]
    BY Zenon DEF Restart
  <1>3. candidates' = {b \in linked' : /\ failed'[b] = {} /\ valid[b] >= VALID_TRANSACTIONS
                                       /\ ~Worse(b, tip, seqId)'}
    BY <1>1, Zenon DEF Restart, Worse
  <1>4. linked' = linked
    BY <1>1, Zenon DEF LinkInv
  <1>5. ASSUME NEW x \in Tree PROVE NoInvalidAncestor(x)' <=> NoInvalidAncestor(x)
    <2>1. \A y \in Ancestors[x] : y \in Tree
      BY AncestorFacts, Zenon
    <2>2. \A y \in Tree : "valid" \in failed'[y] <=> "valid" \in failed[y]
      BY <1>2, Zenon
    <2> QED
      BY <2>1, <2>2, Zenon DEF NoInvalidAncestor
  <1>6. ASSUME NEW x \in linked, NoInvalidAncestor(x), ~Worse(x, tip, seqId)' PROVE x \in candidates'
    <2>1. x \in Tree /\ x \in Ancestors[x] /\ x \in haveData
      BY ChainsNest, Zenon DEF Types, LinkInv
    <2>2. \A y \in Ancestors[x] : failed[y] = {}
      BY <1>6, <2>1, Unmarked, Zenon
    <2>3. failed'[x] = {}
      BY <1>2, <2>1, <2>2, Zenon
    <2> QED
      BY <1>3, <1>4, <1>6, <2>1, <2>3, Zenon DEF LevelInv
  <1>7. tip \in Tree /\ tip \in linked /\ NoInvalidAncestor(tip) /\ Ancestors[tip] \cap BadConnect = {}
    BY Zenon DEF Types, LinkInv, CandidateInv, Sound
  <1>8. ~Worse(tip, tip, seqId)'
    <2>1. ~WorseAt(tip, tip, seqId', addrOrder')
      BY <1>7, WorseOrder DEF IdInv
    <2> QED
      BY <1>1, <2>1, Zenon DEF Worse
  <1>9. tip \in candidates'
    BY <1>1, <1>6, <1>7, <1>8, Zenon DEF Worse
  <1>10. UNCHANGED abc
    BY <1>9, Zenon DEF Restart
  <1>11. Complete(tip)'
    BY <1>1, <1>4, <1>5, <1>6, Zenon DEF Complete, Types
  <1>12. Sound(tip)'
    BY <1>1, <1>4, <1>5, <1>7, Zenon DEF Sound
  <1> QED
    BY <1>1, <1>3, <1>10, <1>11, <1>12, ZenonT(30) DEF CandidateInv, Free, abc

(***************************************************************************)
(* Steps of ActivateBestChain.                                             *)
(***************************************************************************)
LEMMA TakeMainCandidates ==
  ASSUME Types, LinkInv, IdInv, CandidateInv, ActivateBestChain \/ TakeMain
  PROVE  CandidateInv'
  <1>1. /\ UNCHANGED <<candidates, linked, seqId, failed, tip, addrOrder, mostWork>>
        /\ Free
    BY Zenon DEF ActivateBestChain, TakeMain, blockIndex, sets, counters, Free
  <1>2. /\ \A x : NoInvalidAncestor(x)' <=> NoInvalidAncestor(x)
        /\ \A x, y : Worse(x, y, seqId)' <=> Worse(x, y, seqId)
    BY <1>1, Zenon DEF NoInvalidAncestor, Worse, WorseAt
  <1>3. Sound(tip)' /\ Complete(tip)'
    BY <1>1, <1>2, ZenonT(30) DEF Sound, Complete, CandidateInv
  <1>4. /\ \A c \in candidates' : ~Worse(c, tip, seqId)'
        /\ mostWork' # Null => mostWork' \in candidates' /\ NoInvalidAncestor(mostWork)'
    BY <1>1, <1>2, ZenonT(30) DEF CandidateInv
  <1>5. CASE ActivateBestChain
    <2>1. pc' = "released" /\ pc = "idle"
      BY <1>5, Zenon DEF ActivateBestChain
    <2> QED
      BY <1>1, <1>3, <1>4, <2>1, Zenon DEF CandidateInv, Free
  <1>6. CASE TakeMain
    <2>1. pc' = "choose" /\ startTip' = tip
      BY <1>6, Zenon DEF TakeMain
    <2>2. Sound(startTip)' /\ Complete(startTip)'
      BY <1>1, <1>3, <2>1, Zenon DEF Sound, Complete, NoInvalidAncestor, Worse, WorseAt
    <2>3. mostWork' # Null => ~Worse(mostWork, startTip, seqId)'
      <3>1. mostWork # Null => mostWork \in Tree /\ Height[tip] < Height[mostWork]
        BY <1>1, Zenon DEF CandidateInv, Types
      <3>2. mostWork # Null => ~Worse(mostWork, tip, seqId)
        BY <3>1, OrderNow, Zenon DEF Types
      <3> QED
        BY <1>1, <1>2, <2>1, <3>2, ZenonT(30) DEF Worse, WorseAt
    <2> QED
      BY <1>1, <1>3, <1>4, <2>1, <2>2, <2>3, Zenon DEF CandidateInv, Free
  <1> QED
    BY <1>5, <1>6, Zenon

\* FindMostWorkChain finds a target, as the tip it started from is a candidate,
\* and throws away only what has an invalid ancestor.
LEMMA ChooseTargetCandidates ==
  ASSUME Types, LinkInv, CauseInv, FailedInv, IdInv, CandidateInv, ChooseTarget
  PROVE  CandidateInv'
  <1>1. /\ pc = "choose" /\ ~Free /\ UNCHANGED <<linked, seqId, tip, addrOrder>>
    BY Zenon DEF ChooseTarget, counters, Free
  <1>2. PICK mw \in candidates \cup {mostWork} :
          /\ IF mostWork = Null
             THEN /\ MostWork(mw)
                  /\ candidates' = candidates \ Discarded(mw)
                  /\ failed' = [x \in Tree |-> IF x \in Condemned(mw) THEN failed[x] \cup {"child"}
                                               ELSE failed[x]]
             ELSE mw = mostWork /\ UNCHANGED <<candidates, failed>>
          /\ IF mw \in {Null, tip}
             THEN IF connected THEN ReleaseMain(tip, mw) ELSE Return
             ELSE pc' = "disconnect" /\ mostWork' = mw /\ UNCHANGED startTip
    BY Zenon DEF ChooseTarget
  <1>3. /\ startTip \in linked /\ startTip \in Tree /\ NoInvalidAncestor(startTip)
        /\ Complete(startTip)
    BY <1>1, ZenonT(30) DEF CandidateInv, Sound, Types
  <1>4. startTip \in candidates /\ Usable(startTip)
    <2>1. ~Worse(startTip, startTip, seqId)
      BY <1>3, OrderNow, Zenon
    <2>2. \A x \in Ancestors[startTip] : failed[x] = {}
      BY <1>3, Unmarked, ZenonT(30)
    <2> QED
      BY <1>3, <2>1, <2>2, Zenon DEF Complete, Usable, OffChain
  <1>5. /\ mw \in candidates /\ mw \in Tree /\ mw # Null
        /\ NoInvalidAncestor(mw) /\ ~Worse(mw, startTip, seqId)
    <2>1. CASE mostWork # Null
      BY <1>1, <1>2, <2>1, TreeShape, ZenonT(30) DEF CandidateInv, Types
    <2>2. CASE mostWork = Null
      <3>1. MostWork(mw)
        BY <1>2, <2>2, Zenon
      <3>2. mw \in candidates /\ Usable(mw) /\ (startTip = mw \/ Worse(startTip, mw, seqId))
        BY <1>4, <3>1, Zenon DEF MostWork
      <3>3. mw \in Tree /\ mw # Null
        BY <3>2, TreeShape, Zenon DEF Types
      <3>4. ~Worse(mw, startTip, seqId)
        BY <1>3, <3>2, <3>3, OrderNow, Zenon
      <3>5. NoInvalidAncestor(mw)
        BY <3>2, ZenonT(30) DEF Usable, OffChain, ActiveChain, CandidateInv, Sound, NoInvalidAncestor
      <3> QED
        BY <3>2, <3>3, <3>4, <3>5, Zenon
    <2> QED
      BY <2>1, <2>2, Zenon
  <1>6. ASSUME NEW d \in Discarded(mw), NoInvalidAncestor(d) PROVE FALSE
    <2>1. PICK c \in Visited(mw) : d \in AboveOrAt(c)
      BY <1>6, Zenon DEF Discarded
    <2>2. c \in Tree /\ ~Usable(c)
      BY <2>1, Zenon DEF Visited, Types
    <2>3. PICK y \in OffChain(c) : failed[y] # {}
      BY <2>2, Zenon DEF Usable
    <2>4. y \in Ancestors[c] /\ d \in Ancestors[c] /\ Height[y] <= Height[d]
      BY <2>1, <2>3, Zenon DEF AboveOrAt, OffChain
    <2>5. d \in Tree /\ y \in Tree /\ (d \in Ancestors[y] \/ y \in Ancestors[d])
      BY <2>2, <2>4, AncestorFacts, OneAbove, ZenonT(30)
    <2>6. d \in Ancestors[y] => d = y
      BY <2>4, <2>5, AncestorFacts
    <2>7. y \in Ancestors[d]
      BY <2>5, <2>6, ChainsNest, Zenon
    <2> QED
      BY <1>6, <2>3, <2>5, <2>7, Unmarked, ZenonT(30)
  <1>7. ASSUME NEW x \in Tree PROVE NoInvalidAncestor(x)' <=> NoInvalidAncestor(x)
    <2>1. \A y \in Ancestors[x] : y \in Tree
      BY AncestorFacts, Zenon
    <2>2. \A y \in Tree : "valid" \in failed'[y] <=> "valid" \in failed[y]
      BY <1>2
    <2> QED
      BY <2>1, <2>2, Zenon DEF NoInvalidAncestor
  <1>8. \A x, y : Worse(x, y, seqId)' <=> Worse(x, y, seqId)
    BY <1>1, Zenon DEF Worse, WorseAt
  <1>9. /\ candidates' \subseteq candidates
        /\ \A x \in candidates : NoInvalidAncestor(x) => x \in candidates'
    BY <1>2, <1>6, Zenon
  <1>10. ASSUME NEW t, Complete(t)
         PROVE  \A x \in linked : NoInvalidAncestor(x) /\ ~Worse(x, t, seqId) => x \in candidates'
    BY <1>9, <1>10, Zenon DEF Complete
  <1>11. Sound(tip)' /\ \A c \in candidates' : ~Worse(c, tip, seqId)'
    BY <1>1, <1>7, <1>8, <1>9, ZenonT(30) DEF Sound, CandidateInv, Types, Worse, WorseAt
  <1>12. CASE mw = tip
    <2>1. tip = startTip
      BY <1>1, <1>5, <1>12, Zenon DEF CandidateInv
    <2>2. Return
      BY <1>2, <1>12, Zenon DEF ReleaseMain
    <2>3. pc' = "idle" /\ mostWork' = Null
      BY <2>2, Zenon DEF Return
    <2>4. Complete(tip)'
      BY <1>1, <1>3, <1>7, <1>8, <1>10, <2>1, ZenonT(30) DEF Complete, Types, Worse, WorseAt
    <2> QED
      BY <1>11, <2>3, <2>4, ZenonT(30) DEF CandidateInv, Free
  <1>13. CASE mw # tip
    <2>1. pc' = "disconnect" /\ mostWork' = mw /\ startTip' = startTip
      BY <1>2, <1>5, <1>13, Zenon
    <2>2. Sound(startTip)'
      BY <1>1, <1>3, <1>7, <2>1, ZenonT(30) DEF Sound, CandidateInv, NoInvalidAncestor
    <2>3. Complete(startTip)'
      BY <1>1, <1>3, <1>7, <1>8, <1>10, <2>1, ZenonT(30) DEF Complete, Types, Worse, WorseAt
    <2>4. mostWork' \in candidates' /\ NoInvalidAncestor(mostWork)' /\ ~Worse(mostWork, startTip, seqId)'
      BY <1>1, <1>5, <1>7, <1>9, <2>1, ZenonT(30) DEF NoInvalidAncestor, Worse, WorseAt
    <2> QED
      BY <1>11, <2>1, <2>2, <2>3, <2>4, ZenonT(30) DEF CandidateInv, Free
  <1> QED
    BY <1>12, <1>13, Zenon

\* Disconnecting lowers the tip, so no candidate becomes worse than it.
LEMMA DisconnectCandidates ==
  ASSUME Types, LinkInv, IdInv, CandidateInv, DisconnectTip
  PROVE  CandidateInv'
  <1>1. /\ pc = "disconnect" /\ ~Free
        /\ UNCHANGED <<candidates, linked, seqId, failed, addrOrder, mostWork, startTip>>
    BY ZenonT(30) DEF DisconnectTip, blockIndex, sets, counters, Free
  <1>2. /\ \A x : NoInvalidAncestor(x)' <=> NoInvalidAncestor(x)
        /\ \A x, y : Worse(x, y, seqId)' <=> Worse(x, y, seqId)
    BY <1>1, Zenon DEF NoInvalidAncestor, Worse, WorseAt
  <1>3. mostWork \in Tree /\ tip \in Tree /\ startTip \in Tree /\ candidates \subseteq Tree
    BY <1>1, Zenon DEF Types, CandidateInv, Sound
  <1>4. /\ Sound(startTip)' /\ Complete(startTip)'
        /\ mostWork' # Null => /\ mostWork' \in candidates' /\ NoInvalidAncestor(mostWork)'
                               /\ ~Worse(mostWork, startTip, seqId)'
    BY <1>1, ZenonT(30) DEF CandidateInv, Sound, Complete, NoInvalidAncestor, Worse, WorseAt
  <1>5. CASE tip \in Ancestors[mostWork]
    <2>1. pc' = "connect" /\ tip' = tip
      BY <1>5, Zenon DEF DisconnectTip
    <2>2. Sound(tip)' /\ \A c \in candidates' : ~Worse(c, tip, seqId)'
      BY <1>1, <2>1, ZenonT(30) DEF CandidateInv, Sound, NoInvalidAncestor, Worse, WorseAt
    <2>3. ASSUME ~Worse(tip, startTip, seqId), NEW x \in linked, NoInvalidAncestor(x), ~Worse(x, tip, seqId)
          PROVE  x \in candidates
      <3>1. x \in Tree
        BY Zenon DEF Types
      <3>2. ~Worse(x, startTip, seqId)
        BY <1>3, <2>3, <3>1, TransitiveNow, Zenon
      <3> QED
        BY <1>1, <2>3, <3>2, Zenon DEF CandidateInv, Complete
    <2>4. ~Worse(tip, startTip, seqId)' => Complete(tip)'
      BY <1>1, <2>1, <2>3, Zenon DEF Complete, NoInvalidAncestor, Worse, WorseAt
    <2> QED
      BY <1>4, <2>1, <2>2, <2>4, Zenon DEF CandidateInv, Free
  <1>6. CASE tip \notin Ancestors[mostWork]
    <2>1. pc' = "disconnect" /\ tip' = Parent[tip]
      BY <1>1, <1>6, ZenonT(30) DEF DisconnectTip
    <2>2. tip \in Blocks
      BY <1>3, <1>6, ChainsNest, Zenon DEF Tree
    <2>3. Parent[tip] \in Ancestors[tip] /\ Parent[tip] \in Tree
      BY <2>2, ParentChain, Zenon
    <2>4. Sound(Parent[tip])
      BY <2>3, SoundDown, ZenonT(30) DEF CandidateInv
    <2>5. ~Worse(tip, Parent[tip], seqId)
      BY <1>3, <2>3, AboveNotWorse, Zenon
    <2>6. \A c \in candidates : ~Worse(c, Parent[tip], seqId)
      BY <1>3, <2>3, <2>5, TransitiveNow, ZenonT(30) DEF CandidateInv
    <2>7. Sound(tip)' /\ \A c \in candidates' : ~Worse(c, tip, seqId)'
      BY <1>1, <2>1, <2>4, <2>6, Zenon DEF Sound, NoInvalidAncestor, Worse, WorseAt
    <2> QED
      BY <1>4, <2>1, <2>7, ZenonT(30) DEF CandidateInv, Free
  <1> QED
    BY <1>5, <1>6, Zenon

\* A block is connected.  The target stays a candidate, so the assertion of
\* PruneBlockIndexCandidates holds; the rest is complete relative to the new tip,
\* or relative to the start if the tip is still below it.
LEMMA ConnectTipCandidates ==
  ASSUME Types, LinkInv, IdInv, CandidateInv, NEW b \in Blocks, ConnectTip(b)
  PROVE  CandidateInv'
  <1>1. /\ pc = "connect" /\ ~Free /\ b \in Ancestors[mostWork] /\ Parent[b] = tip /\ b \notin BadConnect
        /\ tip' = b /\ UNCHANGED <<linked, seqId, failed, addrOrder>>
        /\ candidates' = {c \in candidates : ~Worse(c, b, seqId)}
    BY ZenonT(30) DEF ConnectTip, counters, Free, PruneBlockIndexCandidates
  <1>2. /\ mostWork \in Tree /\ mostWork # Null /\ mostWork \in candidates /\ mostWork \in linked
        /\ NoInvalidAncestor(mostWork) /\ ~Worse(mostWork, startTip, seqId)
    BY <1>1, TreeShape, ZenonT(30) DEF Types, CandidateInv
  <1>3. startTip \in Tree /\ tip \in Tree /\ b \in Tree /\ candidates \subseteq Tree /\ linked \subseteq Tree
    BY <1>1, ParentChain, ZenonT(30) DEF Types, CandidateInv, Sound
  <1>4. Sound(b)
    <2>1. b \in linked /\ Ancestors[b] \subseteq Ancestors[mostWork]
      BY <1>1, <1>2, LinkedDown, AncestorFacts, ZenonT(30)
    <2>2. Ancestors[b] = Ancestors[tip] \cup {b}
      BY <1>1, ParentChain, ZenonT(30)
    <2> QED
      BY <1>1, <1>2, <2>1, <2>2, ZenonT(30) DEF Sound, NoInvalidAncestor, CandidateInv
  <1>5. ~Worse(mostWork, b, seqId)
    BY <1>1, <1>2, AboveNotWorse, Zenon
  <1>6. mostWork \in candidates'
    BY <1>1, <1>2, <1>5, Zenon
  <1>7. ~Worse(b, tip, seqId)
    BY <1>1, <1>3, ParentChain, AboveNotWorse, Zenon
  <1>8. ASSUME ~Worse(b, startTip, seqId), NEW x \in linked, NoInvalidAncestor(x), ~Worse(x, b, seqId)
        PROVE  x \in candidates'
    <2>1. ~Worse(x, startTip, seqId) /\ ~Worse(x, tip, seqId)
      BY <1>3, <1>7, <1>8, TransitiveNow, Zenon
    <2>2. x \in candidates
      BY <1>1, <1>8, <2>1, ZenonT(30) DEF CandidateInv, Complete
    <2> QED
      BY <1>1, <1>8, <2>2, Zenon
  <1>9. ASSUME Worse(b, startTip, seqId), NEW x \in linked, NoInvalidAncestor(x), ~Worse(x, startTip, seqId)
        PROVE  x \in candidates'
    <2>1. ~Worse(startTip, b, seqId)
      BY <1>3, <1>9, OrderNow, Zenon
    <2>2. Worse(tip, startTip, seqId)
      BY <1>3, <1>7, <1>9, TransitiveNow, Zenon
    <2>3. x \in candidates
      BY <1>1, <1>9, <2>2, ZenonT(30) DEF CandidateInv, Complete
    <2>4. ~Worse(x, b, seqId)
      BY <1>3, <1>9, <2>1, TransitiveNow, Zenon
    <2> QED
      BY <1>1, <2>3, <2>4, Zenon
  <1>10. Sound(tip)' /\ \A c \in candidates' : ~Worse(c, tip, seqId)'
    BY <1>1, <1>4, ZenonT(30) DEF Sound, NoInvalidAncestor, Worse, WorseAt
  <1>11. ~Worse(b, startTip, seqId) => Complete(tip)'
    BY <1>1, <1>8, Zenon DEF Complete, NoInvalidAncestor, Worse, WorseAt
  <1>12. startTip' = startTip =>
           /\ Sound(startTip)'
           /\ Worse(b, startTip, seqId) => Complete(startTip)'
           /\ Worse(tip, startTip, seqId)' <=> Worse(b, startTip, seqId)
           /\ mostWork' = mostWork => ~Worse(mostWork, startTip, seqId)'
    BY <1>1, <1>2, <1>9, ZenonT(30) DEF CandidateInv, Sound, Complete, NoInvalidAncestor, Worse, WorseAt
  <1>13. mostWork' = mostWork => mostWork' \in candidates' /\ NoInvalidAncestor(mostWork)'
    BY <1>1, <1>2, <1>6, ZenonT(30) DEF NoInvalidAncestor
  <1>14. StepDone(b, mostWork) \/ UNCHANGED abc
    BY <1>6, ZenonT(30) DEF ConnectTip
  <1>15. CASE UNCHANGED abc
    <2>1. pc' = "connect" /\ startTip' = startTip /\ mostWork' = mostWork
      BY <1>1, <1>15, ZenonT(30) DEF abc
    <2> QED
      BY <1>10, <1>11, <1>12, <1>13, <2>1, Zenon DEF CandidateInv, Free
  <1>16. CASE StepDone(b, mostWork) /\ Worse(b, startTip, seqId)
    <2>1. pc' = "choose" /\ startTip' = startTip /\ mostWork' = mostWork
      BY <1>16, Zenon DEF StepDone
    <2> QED
      BY <1>10, <1>12, <1>13, <1>16, <2>1, Zenon DEF CandidateInv, Free
  <1>17. CASE StepDone(b, mostWork) /\ ~Worse(b, startTip, seqId)
    <2>1. ReleaseMain(b, mostWork)
      BY <1>17, Zenon DEF StepDone
    <2>2. CASE b = mostWork
      <3>1. pc' = "idle" /\ mostWork' = Null
        BY <2>1, <2>2, Zenon DEF ReleaseMain, Return
      <3> QED
        BY <1>10, <1>11, <1>17, <3>1, Zenon DEF CandidateInv, Free
    <2>3. CASE b # mostWork
      <3>1. pc' = "released" /\ mostWork' = mostWork
        BY <2>1, <2>3, Zenon DEF ReleaseMain
      <3>2. Height[tip'] < Height[mostWork']
        BY <1>1, <1>2, <2>3, <3>1, AncestorFacts, Zenon
      <3> QED
        BY <1>10, <1>11, <1>13, <1>17, <3>1, <3>2, Zenon DEF CandidateInv, Free
    <2> QED
      BY <2>2, <2>3, Zenon
  <1> QED
    BY <1>14, <1>15, <1>16, <1>17, Zenon

\* ConnectBlock fails: the block is invalid now, so it need not be a candidate.
LEMMA ConnectFailsCandidates ==
  ASSUME Types, LinkInv, FailedInv, IdInv, CandidateInv, NEW b \in Blocks, ConnectTipFails(b)
  PROVE  CandidateInv'
  <1>1. /\ pc = "connect" /\ ~Free /\ b \in BadConnect /\ b \in Tree
        /\ failed' = [failed EXCEPT ![b] = @ \cup {"valid"}] /\ candidates' = candidates \ {b}
        /\ StepDone(tip, Null) /\ UNCHANGED <<linked, seqId, tip, addrOrder>>
    BY Zenon DEF ConnectTipFails, counters, Free, Tree
  <1>2. startTip \in Tree /\ tip \in Tree /\ linked \subseteq Tree
    BY <1>1, ZenonT(30) DEF Types, CandidateInv, Sound
  <1>3. /\ \A x \in Tree \ {b} : failed'[x] = failed[x]
        /\ "valid" \in failed'[b]
        /\ \A x \in Tree : failed[x] \subseteq failed'[x]
    BY <1>1, Zenon DEF FailedInv
  <1>4. ASSUME NEW x \in Tree, NoInvalidAncestor(x)' PROVE NoInvalidAncestor(x) /\ x # b
    <2>1. x \in Ancestors[x] /\ \A y \in Ancestors[x] : y \in Tree
      BY AncestorFacts, ChainsNest, ZenonT(30)
    <2> QED
      BY <1>3, <1>4, <2>1, Zenon DEF NoInvalidAncestor
  <1>5. ASSUME NEW x \in Tree, Sound(x) PROVE Sound(x)'
    <2>1. b \notin Ancestors[x] /\ \A y \in Ancestors[x] : y \in Tree
      BY <1>1, <1>5, AncestorFacts, Zenon DEF Sound
    <2> QED
      BY <1>1, <1>3, <1>5, <2>1, Zenon DEF Sound, NoInvalidAncestor
  <1>6. \A x, y : Worse(x, y, seqId)' <=> Worse(x, y, seqId)
    BY <1>1, Zenon DEF Worse, WorseAt
  <1>7. ASSUME NEW t, Complete(t), NEW x \in linked, NoInvalidAncestor(x)', ~Worse(x, t, seqId)
        PROVE  x \in candidates'
    BY <1>1, <1>2, <1>4, <1>7, Zenon DEF Complete
  <1>8. Sound(tip)' /\ \A c \in candidates' : ~Worse(c, tip, seqId)'
    BY <1>1, <1>2, <1>5, ZenonT(30) DEF CandidateInv, Sound, NoInvalidAncestor, Worse, WorseAt
  <1>9. CASE Worse(tip, startTip, seqId)
    <2>1. pc' = "choose" /\ startTip' = startTip /\ mostWork' = Null
      BY <1>1, <1>9, Zenon DEF StepDone
    <2>2. Complete(startTip)'
      <3>1. Complete(startTip)
        BY <1>1, <1>9, Zenon DEF CandidateInv
      <3>2. linked' = linked
        BY <1>1, Zenon
      <3> QED
        BY <1>6, <1>7, <2>1, <3>1, <3>2, ZenonT(30) DEF Complete
    <2>3. Sound(startTip)' /\ Worse(tip, startTip, seqId)'
      BY <1>1, <1>2, <1>5, <1>9, <2>1, ZenonT(30) DEF CandidateInv, Sound, NoInvalidAncestor, Worse, WorseAt
    <2> QED
      BY <1>8, <2>1, <2>2, <2>3, Zenon DEF CandidateInv, Free
  <1>10. CASE ~Worse(tip, startTip, seqId)
    <2>1. pc' = "released" /\ mostWork' = Null
      BY <1>1, <1>2, <1>10, TreeShape, Zenon DEF StepDone, ReleaseMain
    <2>2. Complete(tip)'
      BY <1>1, <1>7, <1>10, ZenonT(30) DEF CandidateInv, Complete, NoInvalidAncestor, Worse, WorseAt
    <2> QED
      BY <1>8, <2>1, <2>2, Zenon DEF CandidateInv, Free
  <1> QED
    BY <1>9, <1>10, Zenon

LEMMA CandidateStep ==
  ASSUME Types, LevelInv, LinkInv, LinkInv', WaitingInv, FailedInv, CauseInv, IdInv, IdInv',
         CandidateInv, [Next]_vars, Rpc \subseteq {"precious"}, MaxCalls \in {0, 1}
  PROVE  CandidateInv'
  <1>1. \A b \in Blocks : ~InvalidateBlock(b) /\ ~ReconsiderBlock(b)
    <2>1. ~Call("invalidate") /\ ~Call("reconsider")
      BY Zenon DEF Call
    <2> QED
      BY <2>1, Zenon DEF InvalidateBlock, ReconsiderBlock
  <1>2. ASSUME UNCHANGED vars PROVE CandidateInv'
    <2>1. UNCHANGED <<candidates, linked, seqId, failed, tip, addrOrder, pc, mostWork, startTip>>
      BY <1>2, Zenon DEF vars, blockIndex, sets, counters, abc
    <2> QED
      BY <2>1, ZenonT(30) DEF CandidateInv, Sound, Complete, NoInvalidAncestor, Worse, WorseAt, Free
  <1> QED
    BY <1>1, <1>2, HeaderStepsCandidates, AcceptBlockCandidates, PreciousCandidatesKept,
       RestartCandidates, TakeMainCandidates, ChooseTargetCandidates, DisconnectCandidates,
       ConnectTipCandidates, ConnectFailsCandidates, Zenon
    DEF Next, Activate

LEMMA AlwaysComplete ==
  ASSUME Rpc \subseteq {"precious"}, MaxCalls \in {0, 1}
  PROVE  Spec => [](Types /\ LinkInv /\ CandidateInv)
  <1>1. Init => CandidateInv
    <2> SUFFICES ASSUME Init PROVE CandidateInv
      BY Zenon
    <2>1. /\ linked = {Genesis} /\ candidates = {Genesis} /\ tip = Genesis /\ pc = "idle"
          /\ mostWork = Null /\ \A x \in Tree : failed[x] = {}
      BY Zenon DEF Init
    <2>2. Genesis \in Tree /\ Ancestors[Genesis] = {Genesis} /\ Genesis \notin BadConnect
      BY ChainsGrow, TreeShape, ZenonT(30) DEF Tree
    <2>3. ~Worse(Genesis, Genesis, seqId)
      <3>1. seqId \in [Tree -> Int] /\ addrOrder \in {1, -1}
        BY DEF Init
      <3> QED
        BY <2>2, <3>1, WorseOrder, Zenon DEF Worse
    <2>4. Sound(tip) /\ Complete(tip)
      BY <2>1, <2>2, Zenon DEF Sound, Complete, NoInvalidAncestor
    <2> QED
      BY <2>1, <2>3, <2>4, Zenon DEF CandidateInv, Free
  <1>2. Types /\ (LevelInv /\ LinkInv /\ WaitingInv) /\ LinkInv' /\ FailedInv /\ CauseInv
          /\ IdInv /\ IdInv' /\ CandidateInv /\ [Next]_vars => CandidateInv'
    BY CandidateStep, Zenon
  <1>3. Spec => []CauseInv
    <2>1. "reconsider" \notin Rpc
      BY Zenon
    <2> QED
      BY <2>1, AlwaysCaused, Zenon
  <1>4. Spec => [](LevelInv /\ LinkInv /\ WaitingInv)
    BY AlwaysLinked, Zenon
  <1> QED
    BY <1>1, <1>2, <1>3, <1>4, AlwaysTyped, MarksTyped, AlwaysNumbered, PTL DEF Spec

\* With at most one call of preciousblock, setBlockIndexCandidates is exactly what
\* CheckBlockIndex asserts whenever cs_main is free: no chain as good as the active
\* one is forgotten, whatever fails to connect and whenever the node restarts.
THEOREM CandidatesAlwaysExact ==
  ASSUME Rpc \subseteq {"precious"}, MaxCalls \in {0, 1}
  PROVE  Spec => []CandidatesExact
  <1>1. Types /\ LinkInv /\ CandidateInv => CandidatesExact
    BY Zenon DEF Types, CandidateInv, CandidatesExact, CandidatesComplete, Complete
  <1> QED
    BY <1>1, AlwaysComplete, PTL

\* With at most one call of preciousblock the assertion of PruneBlockIndexCandidates
\* never fails.
THEOREM PruneNeverAborts ==
  ASSUME Rpc \subseteq {"precious"}, MaxCalls \in {0, 1}
  PROVE  Spec => []PruneLeavesCandidate
  <1>1. Types /\ LinkInv /\ CandidateInv => PruneLeavesCandidate
    BY Zenon DEF CandidateInv, PruneLeavesCandidate
  <1> QED
    BY <1>1, AlwaysComplete, PTL
=============================================================================
