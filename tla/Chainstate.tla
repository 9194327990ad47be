----------------------------- MODULE Chainstate -----------------------------
(***************************************************************************)
(* CChainState: the block tree, the set of candidate tips, and the choice  *)
(* of the active chain.  Headers and blocks arrive in any order, RPC calls *)
(* invalidate, reconsider and prefer blocks, and ActivateBestChain moves   *)
(* the tip in steps, releasing cs_main between them while it keeps its     *)
(* target in a local variable.  A critical section of another thread is    *)
(* one action; the steps ActivateBestChain takes inside one of its own     *)
(* critical sections are several, during which no other thread moves.      *)
(*                                                                         *)
(* Block files are never pruned here, so BLOCK_HAVE_DATA is nTx > 0.       *)
(***************************************************************************)
EXTENDS Integers, FiniteSets, Functions

CONSTANTS
  Genesis,
  Blocks,        \* the blocks the network may offer
  Parent,        \* pprev
  BadBlock,      \* blocks ContextualCheckBlock rejects
  BadConnect,    \* blocks ConnectBlock rejects
  Addr,          \* distinct numbers standing for the addresses of the entries
  MinKeep,       \* MIN_BLOCKS_TO_KEEP
  Rpc,           \* which of "invalidate", "reconsider", "precious" are called
  MaxCalls,      \* how many RPC calls are made
  MaxRestarts,
  Null

Tree == Blocks \cup {Genesis}

ASSUME TreeShape ==
  /\ Genesis \notin Blocks /\ Null \notin Tree
  /\ Parent \in [Blocks -> Tree]
  /\ BadBlock \subseteq Blocks /\ BadConnect \subseteq Blocks
  /\ Addr \in [Tree -> Int] /\ IsInjective(Addr)

HeightOf[b \in Tree] == IF b = Genesis THEN 0 ELSE HeightOf[Parent[b]] + 1
Height == [b \in Tree |-> HeightOf[b]]

AncestorsOf[b \in Tree] == {b} \cup IF b = Genesis THEN {} ELSE AncestorsOf[Parent[b]]
Ancestors == [b \in Tree |-> AncestorsOf[b]]

\* What the recursive functions come to on a tree: the chain of a block is its
\* parent's and the block,
ASSUME ChainsGrow ==
  /\ Ancestors[Genesis] = {Genesis} /\ Height \in [Tree -> Nat]
  /\ \A b \in Blocks : /\ Ancestors[b] = Ancestors[Parent[b]] \cup {b}
                       /\ Height[b] = Height[Parent[b]] + 1

\* what is on it has its own chain and a smaller height on it,
ASSUME ChainsNest ==
  \A b \in Tree : /\ {b, Genesis} \subseteq Ancestors[b] /\ Ancestors[b] \subseteq Tree
                  /\ \A x \in Ancestors[b] : /\ Ancestors[x] \subseteq Ancestors[b]
                                             /\ x = b \/ Height[x] < Height[b]

\* and of two blocks on it one is on the other's.
ASSUME ChainsDoNotFork ==
  \A b \in Tree : \A x, y \in Ancestors[b] : x \in Ancestors[y] \/ y \in Ancestors[x]

\* The validity levels of chain.h that these functions tell apart.
VALID_UNKNOWN == 0
VALID_TREE == 2
VALID_TRANSACTIONS == 3
VALID_SCRIPTS == 5

VARIABLES
  index,         \* the keys of mapBlockIndex
  valid,         \* nStatus & BLOCK_VALID_MASK
  failed,        \* nStatus & BLOCK_FAILED_MASK: a subset of {"valid", "child"}
  haveData,      \* blocks with BLOCK_HAVE_DATA
  linked,        \* blocks with nChainTx # 0
  seqId,         \* nSequenceId
  candidates,    \* setBlockIndexCandidates
  unlinked,      \* mapBlocksUnlinked, by its values: each is filed under its pprev
  failedBlocks,  \* m_failed_blocks
  tip,           \* chainActive.Tip()
  nextSeq,       \* nBlockSequenceId
  nextReverse,   \* nBlockReverseSequenceId
  lastPrecious,  \* nLastPreciousHeight
  addrOrder,     \* whether the addresses of this run of the process ascend with Addr
  pc,            \* where ActivateBestChain is
  wanted,        \* a caller is waiting to run ActivateBestChain
  mostWork,      \* its pindexMostWork, kept while cs_main is released
  startTip, oldTip, connected,   \* starting_tip, pindexOldTip, blocks_connected
  calls, restarts

blockIndex == <<index, valid, failed, haveData, linked, seqId>>
sets == <<candidates, unlinked, failedBlocks>>
counters == <<nextSeq, nextReverse, lastPrecious, addrOrder>>
abc == <<pc, mostWork, startTip, oldTip, connected>>
bounds == <<calls, restarts>>
vars == <<blockIndex, sets, tip, counters, abc, wanted, bounds>>

\* One type invariant for the module.
TypeOK ==
  /\ index \subseteq Tree /\ haveData \subseteq index /\ linked \subseteq haveData
  /\ valid \in [Tree -> {VALID_UNKNOWN, VALID_TREE, VALID_TRANSACTIONS, VALID_SCRIPTS}]
  /\ failed \in [Tree -> SUBSET {"valid", "child"}]
  /\ seqId \in [Tree -> Int]
  /\ candidates \subseteq index /\ unlinked \subseteq haveData /\ failedBlocks \subseteq index
  /\ tip \in linked
  /\ nextSeq \in Nat /\ nextReverse \in Int /\ lastPrecious \in Nat /\ addrOrder \in {1, -1}
  /\ pc \in {"idle", "released", "choose", "disconnect", "connect", "aborted"}
  /\ wanted \in BOOLEAN /\ connected \in BOOLEAN
  /\ {mostWork, startTip, oldTip} \subseteq index \cup {Null}
  /\ calls \in 0..MaxCalls /\ restarts \in 0..MaxRestarts

\* cs_main is not held by ActivateBestChain.
Free == pc \in {"idle", "released"}

(***************************************************************************)
(* Comparisons and lookups.                                                *)
(***************************************************************************)
\* CBlockIndexWorkComparator: a sorts before b, that is, is the worse of the two.
WorseAt(a, b, ids, order) ==
  \/ Height[a] < Height[b]
  \/ Height[a] = Height[b] /\ ids[a] > ids[b]
  \/ Height[a] = Height[b] /\ ids[a] = ids[b] /\ order * Addr[a] > order * Addr[b]

Worse(a, b, ids) == WorseAt(a, b, ids, addrOrder)

\* CBlockIndex::IsValid
IsValid(b, level) == failed[b] = {} /\ valid[b] >= level

ActiveChain == Ancestors[tip]

\* Mutant: the tip itself is deleted too.
PruneBlockIndexCandidatesStrict(S, newTip, ids) == {b \in S : Worse(newTip, b, ids)}

\* PruneBlockIndexCandidates: delete what is worse than the tip.  Its assertion
\* that something is left is checked where it is called.
PruneBlockIndexCandidates(S, newTip, ids) == {b \in S : ~Worse(b, newTip, ids)}

\* A failed assertion ends the process.
Abort == pc' = "aborted" /\ UNCHANGED <<mostWork, startTip, oldTip, connected>>

(***************************************************************************)
(* Headers and blocks.                                                     *)
(***************************************************************************)
FailedAncestors(b) == failedBlocks \cap Ancestors[b]

\* AcceptBlockHeader succeeds: known and not failed, or new on a parent that is
\* not failed and not known to descend from a failed block.
HeaderAccepted(b) ==
  IF b \in index
  THEN failed[b] = {}
  ELSE /\ Parent[b] \in index /\ failed[Parent[b]] = {}
       /\ ~IsValid(Parent[b], VALID_SCRIPTS) => FailedAncestors(Parent[b]) = {}

\* Mutant: the walk does not stop at the failed block.
RejectHeaderAllTheWay(b) ==
  /\ Free
  /\ b \notin index /\ Parent[b] \in index /\ failed[Parent[b]] = {}
  /\ ~IsValid(Parent[b], VALID_SCRIPTS)
  /\ \E f \in FailedAncestors(Parent[b]) :
       failed' = [x \in Tree |-> IF x \in Ancestors[Parent[b]] \ {f}
                                 THEN failed[x] \cup {"child"} ELSE failed[x]]
  /\ UNCHANGED <<index, valid, haveData, linked, seqId, sets, tip, counters, abc, wanted, bounds>>

\* The new header descends from a block of m_failed_blocks: everything between
\* the first such block the search meets and the header is marked.
RejectHeader(b) ==
  /\ Free
  /\ b \notin index /\ Parent[b] \in index /\ failed[Parent[b]] = {}
  /\ ~IsValid(Parent[b], VALID_SCRIPTS)
  /\ \E f \in FailedAncestors(Parent[b]) :
       failed' = [x \in Tree |-> IF x \in Ancestors[Parent[b]] \ Ancestors[f]
                                 THEN failed[x] \cup {"child"} ELSE failed[x]]
  /\ UNCHANGED <<index, valid, haveData, linked, seqId, sets, tip, counters, abc, wanted, bounds>>

\* AddToBlockIndex
AddToBlockIndex(b) ==
  IF b \in index THEN valid ELSE [valid EXCEPT ![b] = VALID_TREE]

\* ProcessNewBlockHeaders
ProcessNewHeader(b) ==
  /\ Free
  /\ b \notin index /\ HeaderAccepted(b)
  /\ index' = index \cup {b}
  /\ valid' = AddToBlockIndex(b)
  /\ UNCHANGED <<failed, haveData, linked, seqId, sets, tip, counters, abc, wanted, bounds>>

\* AcceptBlock goes on to the block's contents: it does not have them, and
\* asked for them or finds them worth having.
WantsData(b, fRequested) ==
  /\ b \notin haveData
  /\ fRequested \/ (Height[b] >= Height[tip] /\ Height[b] <= Height[tip] + MinKeep)

\* ProcessNewBlock for a block whose contents are not taken: they are there, or
\* were not asked for and are not worth having.  ActivateBestChain is run anyway.
ProcessNotedBlock(b) ==
  /\ Free
  /\ HeaderAccepted(b)
  /\ \E fRequested \in BOOLEAN : ~WantsData(b, fRequested)
  /\ index' = index \cup {b}
  /\ valid' = AddToBlockIndex(b)
  /\ wanted' = TRUE
  /\ UNCHANGED <<failed, haveData, linked, seqId, sets, tip, counters, abc, bounds>>

\* ContextualCheckBlock fails.
AcceptBadBlock(b) ==
  /\ Free
  /\ HeaderAccepted(b) /\ b \in BadBlock
  /\ \E fRequested \in BOOLEAN : WantsData(b, fRequested)
  /\ index' = index \cup {b}
  /\ valid' = AddToBlockIndex(b)
  /\ failed' = [failed EXCEPT ![b] = @ \cup {"valid"}]
  /\ UNCHANGED <<haveData, linked, seqId, sets, tip, counters, abc, wanted, bounds>>

\* Mutant: the queue is not processed beyond the children.
NewlyLinkedChildren(b) == {b} \cup {x \in unlinked : Parent[x] = b}

\* The blocks that get linked when b's data arrives and its parent is linked:
\* b, and every waiting block all of whose ancestors down to b were waiting.
NewlyLinked(b) ==
  {x \in {b} \cup unlinked :
     b \in Ancestors[x] /\ Ancestors[x] \ Ancestors[b] \subseteq unlinked}

\* Mutant: only a block on the tip becomes a candidate.
NewCandidatesOnTip(new, ids) == {x \in new : Parent[x] = tip /\ ~Worse(x, tip, ids)}

NewCandidates(new, ids) == {x \in new : ~Worse(x, tip, ids)}

\* Whether a block whose parent is not linked is filed in mapBlocksUnlinked.
Waits(b) == IsValid(Parent[b], VALID_TREE)

\* ReceivedBlockTransactions.  The queue visits the linked blocks level by
\* level, position gives the place of each; blocks of one height are visited in
\* some order, and last is the block visited last.
ReceivedBlockTransactions(b) ==
  /\ haveData' = haveData \cup {b}
  /\ valid' = [AddToBlockIndex(b) EXCEPT ![b] = VALID_TRANSACTIONS]
  /\ IF Parent[b] \in linked
     THEN LET new == NewlyLinked(b)
          IN /\ linked' = linked \cup new
             /\ \E position \in Bijection(new, 1..Cardinality(new)), last \in new :
                  /\ \A x, y \in new : Height[x] < Height[y] => position[x] < position[y]
                  /\ \A x \in new : position[x] <= position[last]
                  /\ seqId' = [x \in Tree |-> IF x \in new THEN nextSeq + position[x] - 1 ELSE seqId[x]]
                  /\ nextSeq' = nextSeq + position[last]
             /\ candidates' = candidates \cup NewCandidates(new, seqId')
             /\ unlinked' = unlinked \ new
     ELSE /\ unlinked' = IF Waits(b) THEN unlinked \cup {b} ELSE unlinked
          /\ UNCHANGED <<linked, seqId, nextSeq, candidates>>

\* ProcessNewBlock for a block that passes the checks; the caller then runs
\* ActivateBestChain.
AcceptBlock(b) ==
  /\ Free
  /\ HeaderAccepted(b) /\ b \notin BadBlock
  /\ \E fRequested \in BOOLEAN : WantsData(b, fRequested)
  /\ index' = index \cup {b}
  /\ ReceivedBlockTransactions(b)
  /\ wanted' = TRUE
  /\ UNCHANGED <<failed, failedBlocks, tip, nextReverse, lastPrecious, addrOrder, abc, bounds>>

(***************************************************************************)
(* ActivateBestChain.                                                      *)
(***************************************************************************)
\* The part of a chain that is not active.
OffChain(b) == Ancestors[b] \ ActiveChain

\* FindMostWorkChain looks at the candidates from the best down.  A candidate
\* whose inactive part holds a failed block is discarded together with
\* everything on its chain down to the highest failed block.
Usable(b) == \A x \in OffChain(b) : failed[x] = {}

\* mw is the best usable candidate, or Null if there is none.
MostWork(mw) ==
  LET good == {b \in candidates : Usable(b)}
  IN IF good = {} THEN mw = Null ELSE mw \in good /\ \A x \in good : x = mw \/ Worse(x, mw, seqId)

Visited(mw) == {b \in candidates : ~Usable(b) /\ (mw # Null => Worse(mw, b, seqId))}

\* What lies above the highest failed block becomes BLOCK_FAILED_CHILD.
Above(b) == {x \in Ancestors[b] : \A y \in OffChain(b) : failed[y] # {} => Height[y] < Height[x]}

Condemned(mw) == UNION {Above(b) : b \in Visited(mw)}

\* It is discarded together with the failed block itself.
AboveOrAt(b) == {x \in Ancestors[b] : \A y \in OffChain(b) : failed[y] # {} => Height[y] <= Height[x]}

Discarded(mw) == UNION {AboveOrAt(b) : b \in Visited(mw)}

\* A caller takes m_cs_chainstate.
ActivateBestChain ==
  /\ pc = "idle" /\ wanted
  /\ wanted' = FALSE
  /\ pc' = "released"
  /\ UNCHANGED <<blockIndex, sets, tip, counters, mostWork, startTip, oldTip, connected, bounds>>

\* LOCK(cs_main) at the top of the outer loop.
TakeMain ==
  /\ pc = "released"
  /\ pc' = "choose"
  /\ startTip' = tip /\ connected' = FALSE
  /\ UNCHANGED <<blockIndex, sets, tip, counters, mostWork, oldTip, wanted, bounds>>

\* Leaving the function: its locals are gone.
Return == /\ pc' = "idle"
          /\ mostWork' = Null /\ startTip' = Null /\ oldTip' = Null /\ connected' = FALSE

\* Mutant: no further round.
ReleaseMainOnce(newTip, mw) == Return

\* Releasing cs_main at the end of the outer loop body with target mw: once
\* more around unless the target is reached.
ReleaseMain(newTip, mw) ==
  IF newTip = mw THEN Return
  ELSE /\ pc' = "released"
       /\ mostWork' = mw /\ startTip' = Null /\ oldTip' = Null /\ connected' = FALSE

\* Top of the inner loop: a cached target is not looked at again.
ChooseTarget ==
  /\ pc = "choose"
  /\ \E mw \in candidates \cup {mostWork} :
        /\ IF mostWork = Null
           THEN /\ MostWork(mw)
                /\ candidates' = candidates \ Discarded(mw)
                /\ failed' = [x \in Tree |-> IF x \in Condemned(mw) THEN failed[x] \cup {"child"}
                                             ELSE failed[x]]
           ELSE mw = mostWork /\ UNCHANGED <<candidates, failed>>
        /\ IF mw \in {Null, tip}
           THEN IF connected THEN ReleaseMain(tip, mw) ELSE Return
           ELSE /\ pc' = "disconnect" /\ mostWork' = mw /\ oldTip' = tip
                /\ UNCHANGED <<startTip, connected>>
  /\ UNCHANGED <<index, valid, haveData, linked, seqId, unlinked, failedBlocks, tip, counters, wanted, bounds>>

\* ActivateBestChainStep: disconnect down to the fork.
DisconnectTip ==
  /\ pc = "disconnect"
  /\ IF tip \in Ancestors[mostWork]
     THEN pc' = "connect" /\ UNCHANGED tip
     ELSE tip' = Parent[tip] /\ UNCHANGED pc
  /\ UNCHANGED <<blockIndex, sets, counters, mostWork, startTip, oldTip, connected, wanted, bounds>>

\* The step is over, with tip newTip; another one follows at once while the tip
\* is worse than when cs_main was taken.
StepDone(newTip, mw) ==
  IF Worse(newTip, startTip, seqId)
  THEN pc' = "choose" /\ mostWork' = mw /\ connected' = TRUE /\ UNCHANGED <<startTip, oldTip>>
  ELSE ReleaseMain(newTip, mw)

\* ConnectTip of the next block towards the target.
ConnectTip(b) ==
  /\ pc = "connect"
  /\ b \in Ancestors[mostWork] /\ Parent[b] = tip
  /\ b \notin BadConnect
  /\ valid' = IF failed[b] = {} THEN [valid EXCEPT ![b] = VALID_SCRIPTS] ELSE valid
  /\ tip' = b
  /\ candidates' = PruneBlockIndexCandidates(candidates, b, seqId)
  /\ IF candidates' = {} THEN Abort
     ELSE IF b = mostWork \/ Height[b] > Height[oldTip] THEN StepDone(b, mostWork)
     ELSE UNCHANGED abc
  /\ UNCHANGED <<index, failed, haveData, linked, seqId, unlinked, failedBlocks, counters, wanted, bounds>>

\* ConnectBlock fails: InvalidBlockFound, and the target is forgotten.
ConnectTipFails(b) ==
  /\ pc = "connect"
  /\ b \in Ancestors[mostWork] /\ Parent[b] = tip
  /\ b \in BadConnect
  /\ failed' = [failed EXCEPT ![b] = @ \cup {"valid"}]
  /\ failedBlocks' = failedBlocks \cup {b}
  /\ candidates' = candidates \ {b}
  /\ StepDone(tip, Null)
  /\ UNCHANGED <<index, valid, haveData, linked, seqId, unlinked, tip, counters, wanted, bounds>>

(***************************************************************************)
(* The RPC calls; each runs ActivateBestChain afterwards.                  *)
(***************************************************************************)
Call(method) ==
  /\ Free
  /\ method \in Rpc /\ calls < MaxCalls
  /\ calls' = calls + 1
  /\ wanted' = TRUE

InvalidateBlock(b) ==
  /\ Call("invalidate")
  /\ b \in index
  /\ LET wasInChain == b \in ActiveChain
         walked == IF wasInChain THEN ActiveChain \ Ancestors[b] ELSE {}
     IN /\ tip' = IF wasInChain THEN Parent[b] ELSE tip
        /\ failed' = [x \in Tree |-> IF x = b THEN failed[x] \cup {"valid"}
                                     ELSE IF x \in walked THEN failed[x] \cup {"child"}
                                     ELSE failed[x]]
        /\ candidates' = (candidates \ (walked \cup {b}))
             \cup {x \in linked : /\ failed'[x] = {} /\ valid[x] >= VALID_TRANSACTIONS
                                  /\ ~Worse(x, tip', seqId)}
  /\ failedBlocks' = failedBlocks \cup {b}
  /\ UNCHANGED <<index, valid, haveData, linked, seqId, unlinked, counters, abc, restarts>>

\* The blocks ResetBlockFailureFlags visits below and above its argument.
ResetBelow(b) == {x \in index : b \in Ancestors[x] /\ ~IsValid(x, VALID_TRANSACTIONS)}
ResetAbove(b) == {x \in Ancestors[b] : failed[x] # {}}

\* Mutant: the ancestors stay in m_failed_blocks.
ReconsiderKeepsFailed(b) ==
  /\ Call("reconsider")
  /\ b \in index
  /\ failed' = [x \in Tree |-> IF x \in ResetBelow(b) \cup ResetAbove(b) THEN {} ELSE failed[x]]
  /\ failedBlocks' = failedBlocks \ ResetBelow(b)
  /\ UNCHANGED <<index, valid, haveData, linked, seqId, candidates, unlinked, tip, counters, abc, restarts>>

\* ResetBlockFailureFlags: descendants may become candidates, ancestors are
\* only unmarked.
ReconsiderBlock(b) ==
  /\ Call("reconsider")
  /\ b \in index
  /\ failed' = [x \in Tree |-> IF x \in ResetBelow(b) \cup ResetAbove(b) THEN {} ELSE failed[x]]
  /\ candidates' = candidates \cup
       {x \in ResetBelow(b) \cap linked : valid[x] >= VALID_TRANSACTIONS /\ Worse(tip, x, seqId)}
  /\ failedBlocks' = failedBlocks \ (ResetBelow(b) \cup ResetAbove(b))
  /\ UNCHANGED <<index, valid, haveData, linked, seqId, unlinked, tip, counters, abc, restarts>>

\* The candidates after the block was erased and, if usable, put back.
PreciousCandidates(b, ids) ==
  IF IsValid(b, VALID_TRANSACTIONS) /\ b \in linked
  THEN PruneBlockIndexCandidates(candidates \cup {b}, tip, ids)
  ELSE candidates \ {b}

PreciousBlock(b) ==
  /\ Call("precious")
  /\ b \in index /\ Height[b] >= Height[tip]
  /\ LET id == IF Height[tip] > lastPrecious THEN -1 ELSE nextReverse
     IN /\ seqId' = [seqId EXCEPT ![b] = id]
        /\ nextReverse' = id - 1
  /\ lastPrecious' = Height[tip]
  /\ candidates' = PreciousCandidates(b, seqId')
  /\ IF IsValid(b, VALID_TRANSACTIONS) /\ b \in linked /\ candidates' = {}
     THEN Abort ELSE UNCHANGED abc
  /\ UNCHANGED <<index, valid, failed, haveData, linked, unlinked, failedBlocks, tip,
                 nextSeq, addrOrder, restarts>>

(***************************************************************************)
(* A clean shutdown and a start: LoadBlockIndex and LoadChainTip.  Entries *)
(* loaded from disk all have sequence id 0 and new addresses, and every    *)
(* descendant of a failed block is marked.                                 *)
(***************************************************************************)
Restart ==
  /\ pc = "idle" /\ restarts < MaxRestarts
  /\ restarts' = restarts + 1
  /\ addrOrder' \in {1, -1}
  /\ seqId' = [b \in Tree |-> 0]
  /\ nextSeq' = 1 /\ nextReverse' = -1 /\ lastPrecious' = 0
  /\ failed' = [b \in Tree |->
       IF b \in index /\ failed[b] = {} /\ \E x \in Ancestors[b] : failed[x] # {}
       THEN {"child"} ELSE failed[b]]
  /\ linked' = {b \in index : Ancestors[b] \subseteq haveData}
  /\ unlinked' = {b \in haveData : b # Genesis /\ Parent[b] \notin linked'}
  /\ candidates' = {b \in linked' : /\ failed'[b] = {} /\ valid[b] >= VALID_TRANSACTIONS
                                   /\ ~WorseAt(b, tip, seqId', addrOrder')}
  /\ failedBlocks' = {}
  /\ wanted' = TRUE
  /\ IF candidates' = {} THEN Abort ELSE UNCHANGED abc
  /\ UNCHANGED <<index, valid, haveData, tip, calls>>

Init ==
  /\ index = {Genesis} /\ haveData = {Genesis} /\ linked = {Genesis}
  /\ valid = [b \in Tree |-> IF b = Genesis THEN VALID_TRANSACTIONS ELSE VALID_UNKNOWN]
  /\ failed = [b \in Tree |-> {}]
  /\ seqId = [b \in Tree |-> IF b = Genesis THEN 1 ELSE 0]
  /\ candidates = {Genesis} /\ unlinked = {} /\ failedBlocks = {}
  /\ tip = Genesis
  /\ nextSeq = 2 /\ nextReverse = -1 /\ lastPrecious = 0 /\ addrOrder = 1
  /\ pc = "idle" /\ wanted = FALSE
  /\ mostWork = Null /\ startTip = Null /\ oldTip = Null /\ connected = FALSE
  /\ calls = 0 /\ restarts = 0

Activate ==
  \/ ActivateBestChain \/ TakeMain \/ ChooseTarget \/ DisconnectTip
  \/ \E b \in Blocks : ConnectTip(b) \/ ConnectTipFails(b)

Next ==
  \/ Activate
  \/ \E b \in Blocks :
       \/ ProcessNewHeader(b) \/ ProcessNotedBlock(b) \/ RejectHeader(b) \/ AcceptBlock(b) \/ AcceptBadBlock(b)
       \/ InvalidateBlock(b) \/ ReconsiderBlock(b) \/ PreciousBlock(b)
  \/ Restart

\* The thread in ActivateBestChain keeps running, and a caller waiting for
\* m_cs_chainstate gets it once it is free.
Fairness == WF_vars(Activate)

Spec == Init /\ [][Next]_vars /\ Fairness

(***************************************************************************)
(* Properties: the assertions of CheckBlockIndex, which any thread may run *)
(* when it holds cs_main, and what they are for.                           *)
(***************************************************************************)
NoInvalidAncestor(b) == \A x \in Ancestors[b] : "valid" \notin failed[x]

\* nChainTx is set exactly when the block and all its ancestors were processed
\* (CheckBlockIndex, both equivalences on pindexFirstNeverProcessed).
LinkedIffAllProcessed == Free => linked = {b \in index : Ancestors[b] \subseteq haveData}

\* A block with data, without invalid ancestors, whose ancestors' data is not
\* complete waits in mapBlocksUnlinked; otherwise it would never be linked.
UnlinkedComplete ==
  Free => \A b \in haveData : b \notin linked /\ NoInvalidAncestor(b) => b \in unlinked

\* Whatever order blocks arrive in, the data of a block is either linked, exactly
\* when that of all its ancestors is there, or waits for what is missing.
DataLinkedOrWaiting == LinkedIffAllProcessed /\ UnlinkedComplete

\* Every block that sorts at least as good as the tip, with all data and no
\* invalid ancestor, is a candidate: no better chain is ever forgotten.
CandidatesComplete ==
  Free => \A b \in linked : ~Worse(b, tip, seqId) /\ NoInvalidAncestor(b) => b \in candidates

\* setBlockIndexCandidates is exactly what CheckBlockIndex asserts: complete, and
\* no candidate sorts worse than the tip or lacks data for an ancestor.
CandidatesExact ==
  /\ CandidatesComplete
  /\ Free => \A b \in candidates : ~Worse(b, tip, seqId) /\ b \in linked

\* A block is marked failed only if it or an ancestor was found invalid.
FailedHasCause == Free => \A b \in index : failed[b] # {} => ~NoInvalidAncestor(b)

\* The assertion in AcceptBlockHeader: m_failed_blocks holds only blocks marked
\* BLOCK_FAILED_VALID.
FailedBlocksAreFailed == \A b \in failedBlocks : "valid" \in failed[b]

\* The assertion of PruneBlockIndexCandidates, "Either the current tip or a
\* successor of it we're working towards is left in setBlockIndexCandidates".
PruneLeavesCandidate == pc # "aborted"

\* The help of preciousblock: "Treats a block as if it were received before others
\* with the same work. A later preciousblock call can override the effect of an
\* earlier one."  A usable block called precious sorts before all others of its
\* height.
PreciousSortsFirst ==
  [][\A b \in Blocks : PreciousBlock(b) /\ IsValid(b, VALID_TRANSACTIONS) /\ b \in linked =>
       \A x \in linked : Height[x] = Height[b] => ~Worse(b, x, seqId')]_vars

\* AcceptBlockHeader "ensure[s] that it doesn't descend from an invalid block":
\* a header is never added below a block marked invalid.
HeadersAvoidInvalid ==
  [][\A b \in index' \ index : NoInvalidAncestor(Parent[b])]_vars

\* Once nothing new happens the tip is at the greatest height any chain with
\* complete data and without a failed block reaches.
BestChainWins ==
  <>[](\A b \in linked : (\A x \in Ancestors[b] : failed[x] = {}) => Height[b] <= Height[tip])
=============================================================================
