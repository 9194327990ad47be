------------------------------- MODULE TxIndex -------------------------------
(***************************************************************************)
(* BaseIndex, the base of the transaction index: a thread that brings the  *)
(* index up to the active chain, callbacks of the validation interface     *)
(* that keep it there, a best-block locator in the index's own database,   *)
(* and restarts after which the chain and the index start from what each   *)
(* had on disk.  The queue between them is the serial queue of             *)
(* ValidationQueue, and a callback is one action: once the index is synced *)
(* only callbacks change it.                                               *)
(*                                                                         *)
(* A locator is the block it starts with; chains are short, so it names    *)
(* every ancestor.  Writing a block twice writes the same entries.         *)
(***************************************************************************)
EXTENDS Integers, Sequences, FiniteSets

CONSTANTS
  Blocks, Genesis, Parent, Height, Ancestors,   \* the block index
  MaxMoves,      \* how often the active chain changes
  MaxRestarts,
  MaxPending     \* the longest backlog of callbacks

\* The shape of the block index: GetAncestor finds one block per height, and two
\* chains have a last common block.
ASSUME BlockTree ==
  /\ Genesis \in Blocks /\ Parent \in [Blocks -> Blocks] /\ Height \in [Blocks -> Nat]
  /\ Ancestors \in [Blocks -> SUBSET Blocks]
  /\ \A b \in Blocks :
       /\ b \in Ancestors[b]
       /\ b = Genesis <=> Height[b] = 0
       /\ b # Genesis => Ancestors[b] = Ancestors[Parent[b]] \cup {b} /\ Height[b] = Height[Parent[b]] + 1
       /\ \A a \in Ancestors[b] : Ancestors[a] \subseteq Ancestors[b] /\ Height[a] <= Height[b]
       /\ \A h \in 0..Height[b] : \E a \in Ancestors[b] : Height[a] = h
       /\ \A a, c \in Ancestors[b] : Height[a] = Height[c] => a = c
  /\ \A a, b \in Blocks : \E x \in Blocks : Ancestors[x] = Ancestors[a] \cap Ancestors[b]

VARIABLES
  tip,           \* chainActive.Tip()
  diskTip,       \* the best block of the chainstate on disk
  pending,       \* callbacks not yet run
  synced,        \* m_synced
  best,          \* m_best_block_index
  pc,            \* the sync thread: "next", "announce", "write" or "done"
  pindex,        \* its position
  announced,     \* last_locator_write_time # 0
  indexed,       \* blocks in the index's database
  locator,       \* the best block in the index's database
  skipped,       \* history: blocks that were only announced when the node stopped
  caller,        \* BlockUntilSyncedToCurrentChain: "idle", "waiting" or "true"
  asked,         \* the tip when it was called
  ahead,         \* callbacks queued before its own
  moves, restarts

chain == <<tip, diskTip, pending>>
thread == <<pc, pindex, announced>>
disk == <<indexed, locator, skipped>>
call == <<caller, asked, ahead>>
bounds == <<moves, restarts>>
vars == <<chain, synced, best, thread, disk, call, bounds>>

Events == [kind : {"BlockConnected", "ChainStateFlushed"}, block : Blocks]

\* The type of the state.
TypeOK ==
  /\ tip \in Blocks /\ diskTip \in Blocks /\ pending \in Seq(Events)
  /\ synced \in BOOLEAN /\ best \in Blocks
  /\ pc \in {"next", "announce", "write", "done"} /\ pindex \in Blocks /\ announced \in BOOLEAN
  /\ indexed \subseteq Blocks /\ locator \in Blocks /\ skipped \subseteq Blocks
  /\ caller \in {"idle", "waiting", "true"} /\ asked \in Blocks /\ ahead \in Nat
  /\ \A i \in DOMAIN pending : pending[i].kind = "BlockConnected" => pending[i].block # Genesis
  /\ pc \in {"announce", "write"} => pindex # Genesis

(***************************************************************************)
(* CChain.                                                                 *)
(***************************************************************************)
\* FindFork, and FindForkInGlobalIndex for a locator: the last common block.
FindFork(a, b) == CHOOSE x \in Blocks : Ancestors[x] = Ancestors[a] \cap Ancestors[b]

GetAncestor(b, h) == CHOOSE a \in Ancestors[b] : Height[a] = h

\* The blocks connected on the way from a to b, in order.
Connected(a, b) ==
  LET fork == Height[FindFork(a, b)]
  IN [i \in 1..(Height[b] - fork) |-> GetAncestor(b, fork + i)]

BlockConnectedEvents(path) ==
  [i \in DOMAIN path |-> [kind |-> "BlockConnected", block |-> path[i]]]

ChainStateFlushedEvent(b) == <<[kind |-> "ChainStateFlushed", block |-> b]>>

(***************************************************************************)
(* The active chain, as far as the index can tell.                         *)
(***************************************************************************)
\* A step of ActivateBestChain to b.  The coins may be flushed at any block that
\* is disconnected or connected on the way; the locator is that of the chain
\* before the block, and every BlockConnected is queued after all of it.
ActivateBestChainStep(b) ==
  /\ moves < MaxMoves
  /\ b \notin Ancestors[tip] /\ Height[b] >= Height[tip]
  /\ LET path == Connected(tip, b)
         fork == FindFork(tip, b)
     IN \/ /\ pending' = pending \o BlockConnectedEvents(path)
           /\ UNCHANGED diskTip
        \/ \E d \in Ancestors[tip] \ Ancestors[fork] :
             /\ diskTip' = Parent[d]
             /\ pending' = pending \o ChainStateFlushedEvent(d) \o BlockConnectedEvents(path)
        \/ \E i \in DOMAIN path :
             /\ diskTip' = path[i]
             /\ pending' = pending \o ChainStateFlushedEvent(IF i = 1 THEN fork ELSE path[i - 1])
                                   \o BlockConnectedEvents(path)
  /\ Len(pending') <= MaxPending
  /\ tip' = b
  /\ moves' = moves + 1
  /\ UNCHANGED <<synced, best, thread, disk, call, restarts>>

\* InvalidateBlock disconnects the tip; the index has no BlockDisconnected.
InvalidateBlock ==
  /\ moves < MaxMoves /\ tip # Genesis
  /\ tip' = Parent[tip]
  /\ \/ UNCHANGED <<diskTip, pending>>
     \/ /\ Len(pending) < MaxPending
        /\ diskTip' = Parent[tip]
        /\ pending' = pending \o ChainStateFlushedEvent(tip)
  /\ moves' = moves + 1
  /\ UNCHANGED <<synced, best, thread, disk, call, restarts>>

\* FlushStateToDisk between chain updates.
FlushStateToDisk ==
  /\ diskTip # tip /\ Len(pending) < MaxPending
  /\ diskTip' = tip
  /\ pending' = pending \o ChainStateFlushedEvent(tip)
  /\ UNCHANGED <<tip, synced, best, thread, disk, call, bounds>>

(***************************************************************************)
(* ThreadSync.                                                             *)
(***************************************************************************)
\* chainActive.Next: the set is empty at the tip and for a block that is not on
\* the chain.
ChainNext(b) == {n \in Ancestors[tip] \ {Genesis} : Parent[n] = b}

\* Mutant: a block that is no longer on the chain has no next one.
NextSyncBlockNoFork(b) == ChainNext(b)

NextSyncBlock(b) ==
  IF b \in Ancestors[tip] THEN ChainNext(b) ELSE ChainNext(FindFork(b, tip))

\* The next block, under cs_main.
SyncNext ==
  /\ pc = "next" /\ ~synced
  /\ \E n \in NextSyncBlock(pindex) : pindex' = n
  /\ pc' = "announce"
  /\ UNCHANGED <<chain, synced, best, announced, disk, call, bounds>>

\* There is none: the callbacks take over.
SyncDone ==
  /\ pc = "next" /\ ~synced
  /\ NextSyncBlock(pindex) = {}
  /\ locator' = pindex
  /\ best' = pindex
  /\ synced' = TRUE
  /\ pc' = "done"
  /\ UNCHANGED <<chain, pindex, announced, indexed, skipped, call, bounds>>

\* The locator is written in the first iteration and then from time to time.
SyncWriteBestBlock ==
  /\ pc = "announce"
  /\ \/ locator' = pindex /\ announced' = TRUE
     \/ announced /\ UNCHANGED <<locator, announced>>
  /\ pc' = "write"
  /\ UNCHANGED <<chain, synced, best, pindex, indexed, skipped, call, bounds>>

\* Mutant: the thread goes on from the best block, which it does not advance.
SyncWriteBlockFromBest ==
  /\ pc = "write"
  /\ indexed' = indexed \cup {pindex}
  /\ pc' = "next"
  /\ pindex' = best
  /\ UNCHANGED <<chain, synced, best, announced, locator, skipped, call, bounds>>

\* The block is read from disk and written to the index.
SyncWriteBlock ==
  /\ pc = "write"
  /\ indexed' = indexed \cup {pindex}
  /\ pc' = "next"
  /\ UNCHANGED <<chain, synced, best, pindex, announced, locator, skipped, call, bounds>>

(***************************************************************************)
(* The callbacks.                                                          *)
(***************************************************************************)
\* Mutant: a block of another branch is taken for a successor.
BlockConnectedAnywhere(b) ==
  IF ~synced THEN UNCHANGED <<best, indexed>>
  ELSE best' = b /\ indexed' = indexed \cup {b}

\* A block whose parent is an ancestor of the best block is indexed.
BlockConnected(b) ==
  IF ~synced \/ Parent[b] \notin Ancestors[best] THEN UNCHANGED <<best, indexed>>
  ELSE best' = b /\ indexed' = indexed \cup {b}

\* Mutant: the locator is taken as it comes.
ChainStateFlushedUnchecked(b) ==
  IF ~synced THEN UNCHANGED locator ELSE locator' = b

ChainStateFlushed(b) ==
  IF ~synced \/ b \notin Ancestors[best] THEN UNCHANGED locator ELSE locator' = b

\* The queue runs the next callback, and then perhaps the caller's promise.
RunCallback ==
  /\ pending # <<>>
  /\ LET e == Head(pending)
     IN \/ e.kind = "BlockConnected" /\ BlockConnected(e.block) /\ UNCHANGED locator
        \/ e.kind = "ChainStateFlushed" /\ ChainStateFlushed(e.block) /\ UNCHANGED <<best, indexed>>
  /\ pending' = Tail(pending)
  /\ ahead' = IF ahead > 0 THEN ahead - 1 ELSE 0
  /\ UNCHANGED <<tip, diskTip, synced, thread, skipped, caller, asked, bounds>>

\* Mutant: the caller does not wait.
BlockUntilSyncedAtOnce ==
  /\ caller = "idle" /\ synced
  /\ asked' = tip
  /\ caller' = "true" /\ ahead' = 0
  /\ UNCHANGED <<chain, synced, best, thread, disk, bounds>>

\* BlockUntilSyncedToCurrentChain of a synced index: true at once, or after the
\* callbacks queued so far.
BlockUntilSynced ==
  /\ caller = "idle" /\ synced
  /\ asked' = tip
  /\ IF tip \in Ancestors[best] THEN caller' = "true" /\ ahead' = 0
     ELSE caller' = "waiting" /\ ahead' = Len(pending)
  /\ UNCHANGED <<chain, synced, best, thread, disk, bounds>>

QueueDrained ==
  /\ caller = "waiting" /\ ahead = 0
  /\ caller' = "true"
  /\ UNCHANGED <<chain, synced, best, thread, disk, asked, ahead, bounds>>

(***************************************************************************)
(* Stopping and starting.                                                  *)
(***************************************************************************)
\* Start: Init finds the position from the two databases; the sync thread runs
\* unless that is the tip.
StartFrom(t, loc) ==
  /\ tip' = t /\ diskTip' = t /\ pending' = <<>>
  /\ best' = FindFork(loc, t)
  /\ synced' = (best' = t)
  /\ pindex' = best'
  /\ pc' = IF synced' THEN "done" ELSE "next"
  /\ announced' = FALSE
  /\ caller' = "idle" /\ ahead' = 0 /\ UNCHANGED asked

\* The process dies: the chain goes back to the last flush.
Crash ==
  /\ restarts < MaxRestarts
  /\ StartFrom(diskTip, locator)
  /\ skipped' = skipped \cup ({locator} \ indexed)
  /\ restarts' = restarts + 1
  /\ UNCHANGED <<indexed, locator, moves>>

\* Shutdown: the sync thread stops at the top of its loop and writes the
\* locator, callbacks no longer reach the index, and the chainstate is flushed.
Shutdown ==
  /\ restarts < MaxRestarts /\ pc \in {"next", "done"}
  /\ locator' = IF pc = "next" THEN pindex ELSE locator
  /\ StartFrom(tip, locator')
  /\ restarts' = restarts + 1
  /\ UNCHANGED <<indexed, skipped, moves>>

Init ==
  /\ tip \in Blocks /\ diskTip = tip /\ pending = <<>>
  /\ best = Genesis /\ synced = (tip = Genesis)
  /\ pc = (IF synced THEN "done" ELSE "next") /\ pindex = Genesis /\ announced = FALSE
  /\ indexed = {} /\ locator = Genesis /\ skipped = {}
  /\ caller = "idle" /\ asked = Genesis /\ ahead = 0
  /\ moves = 0 /\ restarts = 0

Sync == SyncNext \/ SyncDone \/ SyncWriteBestBlock \/ SyncWriteBlock

Next ==
  \/ \E b \in Blocks : ActivateBestChainStep(b)
  \/ InvalidateBlock \/ FlushStateToDisk
  \/ Sync
  \/ RunCallback \/ BlockUntilSynced \/ QueueDrained
  \/ Crash \/ Shutdown

\* The sync thread runs, and the scheduler runs the callbacks.
Spec == Init /\ [][Next]_vars /\ WF_vars(Sync) /\ WF_vars(RunCallback)

(***************************************************************************)
(* Properties.                                                             *)
(***************************************************************************)
Accounted == indexed \cup skipped \cup {Genesis}

\* The chain that m_best_block_index names is in the index, whatever branch the
\* sync thread and the callbacks came from: the only gaps are blocks whose
\* locator was on disk, and they were not, when the process died.
BestIsIndexed == synced => Ancestors[best] \subseteq Accounted

\* The same for the locator on disk, but for the block that is being written.
LocatorIsIndexed ==
  Ancestors[locator] \subseteq Accounted \cup (IF pc = "write" /\ locator = pindex THEN {pindex} ELSE {})

\* Whatever stale callbacks are in the backlog, a synced index is at the tip, or
\* above it, when the backlog has been worked off.
FollowsTip == synced /\ pending = <<>> => tip \in Ancestors[best]

\* BlockUntilSyncedToCurrentChain: the chain that was active at the call is in
\* the index when it returns true.
CaughtUp == caller = "true" => Ancestors[asked] \subseteq Accounted

\* The index catches up with a chain that no longer changes.
Catches == <>[](synced /\ tip \in Ancestors[best])

\* base.h: blocks are indexed sequentially according to their position in the
\* active chain, so that a synced index has every block of it.
IndexedSequentially == synced => Ancestors[best] \subseteq indexed \cup {Genesis}
=============================================================================
