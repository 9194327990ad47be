----------------------------- MODULE ChainFlush -----------------------------
(***************************************************************************)
(* Persistence of the chainstate: ConnectTip and DisconnectTip change the  *)
(* coins in memory, FlushStateToDisk makes block files, block index and    *)
(* coins durable in that order, CCoinsViewDB::BatchWrite writes the coins  *)
(* in several batches, the process may be killed between any two writes,   *)
(* and on restart ReplayBlocks repairs a half-written coins database.  A   *)
(* node in prune mode also deletes old block files on the way.             *)
(*                                                                         *)
(* A block is a sequence of transactions, a transaction the outpoints it   *)
(* spends and the ones it creates, and a coin the height of the block that *)
(* created it: two branches may hold the same transaction at different     *)
(* heights, so one outpoint may have different coins on two branches.      *)
(***************************************************************************)
EXTENDS Integers, Sequences

CONSTANTS
  Genesis,     \* the genesis block; its coinbase never enters the coins
  Blocks,      \* the other blocks
  Parent,      \* pprev of each block
  Vtx,         \* the transactions of each block, the coinbase first
  OutPoints,
  NullHash,
  MinKeep,     \* MIN_BLOCKS_TO_KEEP
  PruneAfter,  \* nPruneAfterHeight of the chain parameters
  UIntRange,   \* 2^32, or any number beyond every height
  MaxFile,     \* highest block file number
  MaxFaults    \* how often the process is killed or block files are pruned

Tree == Blocks \cup {Genesis}
Spent == 0

ASSUME TreeShape ==
  /\ Genesis \notin Blocks /\ NullHash \notin Tree
  /\ Parent \in [Blocks -> Tree]
  /\ \A b \in Blocks : Vtx[b] \in Seq([ins : SUBSET OutPoints, outs : SUBSET OutPoints])

HeightOf[b \in Tree] == IF b = Genesis THEN 0 ELSE HeightOf[Parent[b]] + 1
Height == [b \in Tree |-> HeightOf[b]]

\* AddToBlockIndex puts a block one above its parent, and every chain ends at the
\* genesis block.
ASSUME Rooted == Height[Genesis] = 0 /\ \A b \in Blocks : Height[b] = Height[Parent[b]] + 1

\* Pruning starts on a chain longer than what it keeps, and heights do not overflow.
ASSUME PruneLimits ==
  /\ MinKeep \in Nat /\ PruneAfter \in Nat /\ MinKeep <= PruneAfter
  /\ UIntRange \in Nat /\ \A b \in Tree : Height[b] \in 0..(UIntRange - 1)

AncestorsOf[b \in Tree] == {b} \cup IF b = Genesis THEN {} ELSE AncestorsOf[Parent[b]]
Ancestors == [b \in Tree |-> AncestorsOf[b]]

GetAncestor(b, h) == CHOOSE a \in Ancestors[b] : Height[a] = h

LastCommonAncestor(a, b) ==
  LET common == Ancestors[a] \cap Ancestors[b]
  IN CHOOSE c \in common : \A d \in common : Height[d] <= Height[c]

(***************************************************************************)
(* Applying and undoing a block.                                           *)
(***************************************************************************)
\* UpdateCoins: spend the inputs, add the outputs.
ConnectTx(m, tx, h) ==
  [o \in OutPoints |-> IF o \in tx.outs THEN h ELSE IF o \in tx.ins THEN Spent ELSE m[o]]

\* The coins after the first k transactions of a block.
CoinsAfter(m, b, k) ==
  LET after[j \in 0..Len(Vtx[b])] ==
        IF j = 0 THEN m ELSE ConnectTx(after[j - 1], Vtx[b][j], Height[b])
  IN after[k]

\* ConnectBlock, and RollforwardBlock.
ConnectBlock(m, b) == CoinsAfter(m, b, Len(Vtx[b]))

\* The undo record of a block: for each transaction, the coins it spent.
BlockUndo(m, b) ==
  [i \in 1..Len(Vtx[b]) |->
     LET before == CoinsAfter(m, b, i - 1) IN [o \in Vtx[b][i].ins |-> before[o]]]

\* One transaction of DisconnectBlock: spend its outputs, restore its inputs.
DisconnectTx(m, tx, txundo) ==
  [o \in OutPoints |-> IF o \in tx.ins THEN txundo[o]
                       ELSE IF o \in tx.outs THEN Spent ELSE m[o]]

\* Every output is there with this block's height, no input would be overwritten.
TxClean(m, tx, h) == (\A o \in tx.outs : m[o] = h) /\ (\A o \in tx.ins : m[o] = Spent)

\* DisconnectBlock, from the last transaction to the first: undone[i] is what it
\* has come to when i is the last one it has taken.
DisconnectBlock(m, b, undo) ==
  LET n == Len(Vtx[b])
      undone[i \in 1..(n + 1)] ==
        IF i = n + 1 THEN [coins |-> m, clean |-> TRUE]
        ELSE LET acc == undone[i + 1]
             IN [coins |-> DisconnectTx(acc.coins, Vtx[b][i], undo[i]),
                 clean |-> acc.clean /\ TxClean(acc.coins, Vtx[b][i], Height[b])]
  IN undone[1]

\* The coins of a chain: what its blocks leave unspent.
UtxoOf[b \in Tree] == IF b = Genesis THEN [o \in OutPoints |-> Spent]
                      ELSE ConnectBlock(UtxoOf[Parent[b]], b)
Utxo == [b \in Tree |-> UtxoOf[b]]

\* A chain ConnectBlock accepts: every input is there, no output exists yet.
ASSUME ChainsValid ==
  \A b \in Blocks : \A i \in 1..Len(Vtx[b]) :
    LET before == CoinsAfter(Utxo[Parent[b]], b, i - 1)
    IN /\ \A o \in Vtx[b][i].ins : before[o] # Spent
       /\ \A o \in Vtx[b][i].outs : before[o] = Spent

TouchedBy(b) == UNION {Vtx[b][i].ins \cup Vtx[b][i].outs : i \in DOMAIN Vtx[b]}

VARIABLES
  phase,        \* where the main thread is, see Phases
  full,         \* fDoFullFlush of the flush under way
  tip,          \* chainActive.Tip()
  coins,        \* what pcoinsTip answers
  dirty,        \* the outpoints whose DIRTY entries are not yet written
  index,        \* blocks of mapBlockIndex with BLOCK_HAVE_DATA
  pruned,       \* blocks of mapBlockIndex whose data was there and is pruned
  haveUndo,     \* blocks with BLOCK_HAVE_UNDO
  file,         \* nFile of each block in the index
  lastFile,     \* nLastBlockFile
  revData,      \* the undo record stored for each block in the rev files
  synced,       \* the <<block, "data" / "undo">> records that are on stable storage
  unlink,       \* blocks in setFilesToPrune, until UnlinkPrunedFiles
  diskIndex, diskPruned, diskUndo, diskLastFile,   \* the block index database
  db, best, heads,                                 \* the coins database: coins and its two markers
  faults

blockIndex == <<index, pruned, haveUndo, lastFile, unlink>>
memory == <<tip, coins, dirty, blockIndex>>
blockFiles == <<file, revData, synced>>
blockTreeDB == <<diskIndex, diskPruned, diskUndo, diskLastFile>>
coinsDB == <<db, best, heads>>
vars == <<phase, full, memory, blockFiles, blockTreeDB, coinsDB, faults>>

Phases == {"running", "index", "unlink", "coins", "replay", "down", "failed"}

NoCoins == [o \in OutPoints |-> Spent]

TypeOK ==
  /\ phase \in Phases /\ full \in BOOLEAN
  /\ tip \in Tree \cup {NullHash}
  /\ coins \in [OutPoints -> Nat] /\ db \in [OutPoints -> Nat]
  /\ dirty \subseteq OutPoints
  /\ index \subseteq Tree /\ pruned \subseteq Tree \ index /\ unlink \subseteq pruned
  /\ diskIndex \subseteq Tree /\ diskPruned \subseteq Tree \ diskIndex
  /\ haveUndo \subseteq Blocks /\ diskUndo \subseteq Blocks
  /\ file \in [Tree -> 0..MaxFile] /\ lastFile \in 0..MaxFile /\ diskLastFile \in 0..MaxFile
  /\ DOMAIN revData = Blocks
  /\ synced \subseteq Tree \X {"data", "undo"}
  /\ best \in Tree \cup {NullHash}
  /\ heads = <<>> \/ heads \in Tree \X (Tree \cup {NullHash})
  /\ faults \in 0..MaxFaults

(***************************************************************************)
(* Block files.  FlushBlockFile syncs the last blk file and the rev file   *)
(* of the same number, and no other.                                       *)
(***************************************************************************)
FlushBlockFile ==
  synced \cup ({b \in index : file[b] = lastFile} \X {"data"})
         \cup ({b \in haveUndo : file[b] = lastFile} \X {"undo"})

ActiveChain == IF tip = NullHash THEN {} ELSE Ancestors[tip]

\* AcceptBlock and SaveBlockToDisk: the block goes to the last file, or, when
\* that one is full, to the next one after syncing the file that is left.  A
\* pruned block is accepted again only if it was asked for, so off the chain.
AcceptBlock(b) ==
  /\ phase = "running"
  /\ b \notin index /\ Parent[b] \in index \cup pruned
  /\ b \in pruned => b \notin ActiveChain
  /\ \E f \in {lastFile, lastFile + 1} \cap 0..MaxFile :
       /\ file' = [file EXCEPT ![b] = f]
       /\ lastFile' = f
       /\ synced' = (IF f = lastFile THEN synced ELSE FlushBlockFile) \ {<<b, "data">>}
  /\ index' = index \cup {b} /\ pruned' = pruned \ {b}
  /\ UNCHANGED <<phase, full, tip, coins, dirty, haveUndo, unlink, revData, blockTreeDB, coinsDB, faults>>

(***************************************************************************)
(* The active chain.  Which block is connected is decided elsewhere; here  *)
(* any child of the tip may be.                                            *)
(***************************************************************************)
ConnectGenesis ==
  /\ phase = "running" /\ tip = NullHash
  /\ tip' = Genesis
  /\ UNCHANGED <<phase, full, coins, dirty, blockIndex, blockFiles, blockTreeDB, coinsDB, faults>>

\* ConnectBlock writes the undo record unless the block has one, into the rev
\* file with the number of the block's own file.
WriteUndoDataForBlock(b) ==
  IF b \in haveUndo
  THEN UNCHANGED <<haveUndo, revData, synced>>
  ELSE /\ haveUndo' = haveUndo \cup {b}
       /\ revData' = [revData EXCEPT ![b] = BlockUndo(coins, b)]
       /\ synced' = synced \ {<<b, "undo">>}

ConnectTip(b) ==
  /\ phase = "running"
  /\ b \in index /\ tip = Parent[b]
  /\ WriteUndoDataForBlock(b)
  /\ coins' = ConnectBlock(coins, b)
  /\ dirty' = dirty \cup TouchedBy(b)
  /\ tip' = b
  /\ UNCHANGED <<phase, full, index, pruned, file, lastFile, unlink, blockTreeDB, coinsDB, faults>>

\* Anything but a clean undo is fatal (ActivateBestChain gives up).
DisconnectTip ==
  /\ phase = "running" /\ tip \in Blocks
  /\ LET undone == DisconnectBlock(coins, tip, revData[tip])
     IN IF tip \in index \cap haveUndo /\ undone.clean
        THEN /\ coins' = undone.coins
             /\ dirty' = dirty \cup TouchedBy(tip)
             /\ tip' = Parent[tip]
             /\ phase' = phase
        ELSE /\ phase' = "failed"
             /\ UNCHANGED <<coins, dirty, tip>>
  /\ UNCHANGED <<full, blockIndex, blockFiles, blockTreeDB, coinsDB, faults>>

(***************************************************************************)
(* Which block files may go.  A file before the last one can be pruned     *)
(* when no block in it is within MinKeep of the tip; the subtraction is in *)
(* unsigned arithmetic, and wraps on a chain shorter than that.            *)
(***************************************************************************)
LastBlockWeCanPrune == (Height[tip] - MinKeep) % UIntRange

BlocksIn(f) == {b \in index : file[b] = f}
\* nHeightLast of a file is at most h.
HeightLastUpTo(f, h) == \A b \in BlocksIn(f) : Height[b] <= h

Prunable ==
  {f \in 0..(lastFile - 1) : BlocksIn(f) # {} /\ HeightLastUpTo(f, LastBlockWeCanPrune)}

\* Mutant: the length of the chain is not looked at.
FilesToPruneShortChain ==
  IF tip = NullHash THEN {}
  ELSE {{f \in Prunable : f < n} : n \in 1..lastFile}

\* FindFilesToPrune takes them in order until enough space is free, and
\* FindFilesToPruneManual up to a height given to pruneblockchain.
FilesToPrune ==
  (IF tip # NullHash /\ Height[tip] > PruneAfter
   THEN {{f \in Prunable : f < n} : n \in 1..lastFile} ELSE {})
  \cup
  (IF tip # NullHash /\ Height[tip] >= PruneAfter
   THEN {{f \in Prunable : HeightLastUpTo(f, h)} : h \in 1..Height[tip]} ELSE {})

\* PruneOneBlockFile for each of them.  That nFile is reset is left out: it means
\* nothing for a block without data.
PruneBlockFiles(files) ==
  LET gone == {b \in index : file[b] \in files}
  IN /\ index' = index \ gone /\ pruned' = pruned \cup gone
     /\ haveUndo' = haveUndo \ gone /\ unlink' = gone

\* Mutant: the block files are not synced first.
FlushStateToDiskUnsynced ==
  /\ phase = "running"
  /\ full' \in BOOLEAN
  /\ phase' = "index"
  /\ UNCHANGED <<memory, blockFiles, blockTreeDB, coinsDB, faults>>

(***************************************************************************)
(* FlushStateToDisk, one step per durable write.  fDoFullFlush depends on  *)
(* time, cache size and the caller, so it is an arbitrary choice, unless   *)
(* files are pruned.                                                       *)
(***************************************************************************)
FlushStateToDisk ==
  /\ phase = "running"
  /\ \/ full' \in BOOLEAN /\ UNCHANGED <<index, pruned, haveUndo, unlink, faults>>
     \/ \E files \in FilesToPrune \ {{}} :
          /\ PruneBlockFiles(files) /\ full' = TRUE
          /\ faults < MaxFaults /\ faults' = faults + 1
  /\ synced' = FlushBlockFile
  /\ phase' = "index"
  /\ UNCHANGED <<tip, coins, dirty, lastFile, file, revData, blockTreeDB, coinsDB>>

\* Where a flush goes on once the block index is written.
AfterIndex == IF full /\ tip # NullHash THEN "coins" ELSE "running"

\* Mutant: writing undo data does not make the index entry dirty.
WriteIndexWithoutUndo ==
  /\ phase = "index"
  /\ diskIndex' = index /\ diskPruned' = pruned /\ diskLastFile' = lastFile
  /\ phase' = IF unlink # {} THEN "unlink" ELSE AfterIndex
  /\ UNCHANGED <<full, memory, blockFiles, diskUndo, coinsDB, faults>>

\* WriteBatchSync of the dirty index entries and the last block file.
WriteIndex ==
  /\ phase = "index"
  /\ diskIndex' = index /\ diskPruned' = pruned /\ diskUndo' = haveUndo /\ diskLastFile' = lastFile
  /\ phase' = IF unlink # {} THEN "unlink" ELSE AfterIndex
  /\ UNCHANGED <<full, memory, blockFiles, coinsDB, faults>>

UnlinkPrunedFiles ==
  /\ phase = "unlink" /\ phase' = AfterIndex
  /\ unlink' = {}
  /\ synced' = synced \ (unlink \X {"data", "undo"})
  /\ revData' = [b \in Blocks |-> IF b \in unlink THEN <<>> ELSE revData[b]]
  /\ UNCHANGED <<full, tip, coins, dirty, index, pruned, haveUndo, lastFile, file,
                 blockTreeDB, coinsDB, faults>>

\* BatchWrite: where the transition it marks started from.
OldTip == IF best = NullHash /\ heads # <<>> THEN heads[2] ELSE best

Written(S) == [o \in OutPoints |-> IF o \in S THEN coins[o] ELSE db[o]]

\* Mutants: the first batch does not erase DB_BEST_BLOCK; the two heads are swapped.
WritePartialBatchUnmarked ==
  /\ phase \in {"coins", "replay"}
  /\ \E S \in SUBSET dirty :
       /\ db' = Written(S)
       /\ dirty' = dirty \ S
  /\ UNCHANGED <<heads, best>>
  /\ UNCHANGED <<phase, full, tip, coins, blockIndex, blockFiles, blockTreeDB, faults>>

WritePartialBatchSwapped ==
  /\ phase \in {"coins", "replay"}
  /\ \E S \in SUBSET dirty :
       /\ db' = Written(S)
       /\ dirty' = dirty \ S
  /\ heads' = <<OldTip, tip>>
  /\ best' = NullHash
  /\ UNCHANGED <<phase, full, tip, coins, blockIndex, blockFiles, blockTreeDB, faults>>

\* A batch that is not the last: some of the dirty entries.
WritePartialBatch ==
  /\ phase \in {"coins", "replay"}
  /\ \E S \in SUBSET dirty :
       /\ db' = Written(S)
       /\ dirty' = dirty \ S
  /\ heads' = <<tip, OldTip>>
  /\ best' = NullHash
  /\ UNCHANGED <<phase, full, tip, coins, blockIndex, blockFiles, blockTreeDB, faults>>

\* The last batch marks the database consistent with the new tip; after a
\* replay LoadChainTip then starts from it.
WriteLastBatch ==
  /\ phase \in {"coins", "replay"}
  /\ db' = Written(dirty)
  /\ dirty' = {}
  /\ heads' = <<>>
  /\ best' = tip
  /\ phase' = "running"
  /\ UNCHANGED <<full, tip, coins, blockIndex, blockFiles, blockTreeDB, faults>>

(***************************************************************************)
(* The process is killed: memory is gone, and with it every reference to   *)
(* block-file data that the block index database does not hold.            *)
(***************************************************************************)
Crash ==
  /\ phase \in {"running", "index", "unlink", "coins", "replay"}
  /\ faults < MaxFaults
  /\ faults' = faults + 1
  /\ phase' = "down" /\ full' = FALSE
  /\ tip' = NullHash /\ coins' = NoCoins /\ dirty' = {}
  /\ index' = {} /\ pruned' = {} /\ haveUndo' = {} /\ lastFile' = 0 /\ unlink' = {}
  /\ file' = [b \in Tree |-> IF b \in diskIndex THEN file[b] ELSE 0]
  /\ revData' = [b \in Blocks |-> IF b \in diskUndo THEN revData[b] ELSE <<>>]
  /\ synced' = synced \cap ((diskIndex \X {"data"}) \cup (diskUndo \X {"undo"}))
  /\ UNCHANGED <<blockTreeDB, coinsDB>>

(***************************************************************************)
(* ReplayBlocks, from the heads <<new, old>> of an interrupted BatchWrite. *)
(***************************************************************************)
\* nForkHeight: without an old tip the roll forward starts above the genesis block.
ForkHeight(new, old) == IF old = NullHash THEN 0 ELSE Height[LastCommonAncestor(old, new)]

OldBranch(new, old) ==
  IF old = NullHash THEN {} ELSE {b \in Ancestors[old] : Height[b] > ForkHeight(new, old)}
NewBranch(new, old) == {b \in Ancestors[new] : Height[b] > ForkHeight(new, old)}

\* Both tips are known, blocks can be read, and the old branch has undo data.
ReplayPossible(new, old) ==
  /\ {new, old} \subseteq index' \cup pruned' \cup {NullHash}
  /\ OldBranch(new, old) \subseteq index' \cap haveUndo'
  /\ NewBranch(new, old) \subseteq index'

\* The rollback along the old branch, down to height h; an unclean undo is accepted.
RolledBack(old, h) ==
  LET back[k \in h..Height[old]] ==
        IF k = Height[old] THEN db
        ELSE LET b == GetAncestor(old, k + 1) IN DisconnectBlock(back[k + 1], b, revData[b]).coins
  IN IF old = NullHash THEN db ELSE back[h]

\* The roll forward from height h to the new tip.
RolledForward(m, new, h) ==
  LET forward[k \in h..Height[new]] ==
        IF k = h THEN m ELSE ConnectBlock(forward[k - 1], GetAncestor(new, k))
  IN forward[Height[new]]

\* Mutant: no rollback along the old branch.
ReplayedCoinsForwardOnly(new, old) == RolledForward(db, new, ForkHeight(new, old))

ReplayedCoins(new, old) ==
  LET h == ForkHeight(new, old) IN RolledForward(RolledBack(old, h), new, h)

ReplayTouched(new, old) ==
  UNION {TouchedBy(b) : b \in OldBranch(new, old) \cup NewBranch(new, old)}

\* AppInitMain: LoadBlockIndex, LoadGenesisBlock, ReplayBlocks up to its flush,
\* and, when there is nothing to replay, LoadChainTip.
Restart ==
  /\ phase = "down"
  /\ index' = diskIndex \cup ({Genesis} \ diskPruned) /\ pruned' = diskPruned
  /\ haveUndo' = diskUndo /\ lastFile' = diskLastFile
  /\ IF heads = <<>>
     THEN /\ phase' = IF best \in index' \cup pruned' \cup {NullHash} THEN "running" ELSE "failed"
          /\ tip' = best /\ coins' = db /\ dirty' = {}
     ELSE IF ReplayPossible(heads[1], heads[2])
     THEN /\ phase' = "replay"
          /\ tip' = heads[1]
          /\ coins' = ReplayedCoins(heads[1], heads[2])
          /\ dirty' = ReplayTouched(heads[1], heads[2])
     ELSE /\ phase' = "failed"
          /\ UNCHANGED <<tip, coins, dirty>>
  /\ UNCHANGED <<full, unlink, blockFiles, blockTreeDB, coinsDB, faults>>

\* A node that could not read what it needs stays down, until it is rebuilt.
GivenUp == phase = "failed" /\ UNCHANGED vars

Init ==
  /\ phase = "running" /\ full = FALSE
  /\ tip = NullHash /\ coins = NoCoins /\ dirty = {}
  /\ index = {Genesis} /\ pruned = {} /\ haveUndo = {} /\ lastFile = 0 /\ unlink = {}
  /\ file = [b \in Tree |-> 0] /\ revData = [b \in Blocks |-> <<>>] /\ synced = {}
  /\ diskIndex = {} /\ diskPruned = {} /\ diskUndo = {} /\ diskLastFile = 0
  /\ db = NoCoins /\ best = NullHash /\ heads = <<>>
  /\ faults = 0

Next ==
  \/ \E b \in Blocks : AcceptBlock(b) \/ ConnectTip(b)
  \/ ConnectGenesis
  \/ DisconnectTip
  \/ FlushStateToDisk
  \/ WriteIndex
  \/ UnlinkPrunedFiles
  \/ WritePartialBatch
  \/ WriteLastBatch
  \/ Crash
  \/ Restart
  \/ GivenUp

Spec == Init /\ [][Next]_vars

(***************************************************************************)
(* Properties.                                                             *)
(***************************************************************************)
\* A coins database that names a best block (txdb.cpp "mark the database as
\* consistent with hashBlock again") holds exactly the unspent outputs of that
\* block's chain, whatever faults, replays and reorganisations came before.
MarkedConsistent == best # NullHash => heads = <<>> /\ db = Utxo[best]

\* What pcoinsTip answers is the unspent outputs of the active chain, also
\* right after a replay that started from an arbitrary part of the batches of
\* the interrupted flush.
ViewMatchesTip ==
  /\ tip \in Tree => coins = Utxo[tip]
  /\ tip = NullHash => coins = NoCoins

\* The blocks a node that gave up could not do without: those of the replay it
\* gave up, or the tip it could not disconnect.
Needed ==
  IF tip # NullHash THEN {tip}
  ELSE IF heads = <<>> THEN {}
  ELSE OldBranch(heads[1], heads[2]) \cup NewBranch(heads[1], heads[2])

\* No crash leaves the node unable to start: ReplayBlocks finds every block and
\* undo record it needs, LoadChainTip knows the best block, and DisconnectTip
\* never meets an unclean undo.  Only data that was pruned can be missing.
Recoverable == phase = "failed" => Needed \cap pruned # {}

\* "Pruning will never delete a block within a defined distance from the active
\* chain's tip": not on a chain so short that the subtraction wraps either.
PruneKeepsRecent ==
  [][\A b \in pruned' \ pruned : phase = "running" => Height[b] + MinKeep <= Height[tip]]_vars

\* The assertion old_heads[0] == hashBlock of BatchWrite: a flush that starts in
\* the middle of a transition completes that transition.
ReplayCompletesTransition ==
  phase \in {"coins", "replay"} /\ best = NullHash /\ heads # <<>> => heads[1] = tip

\* The block index database refers only to block data on stable storage.
DataSyncedBeforeIndexed == diskIndex \X {"data"} \subseteq synced

\* FlushStateToDisk's comment "First make sure all block and undo data is flushed
\* to disk": the same for undo data.
UndoSyncedBeforeIndexed == diskUndo \X {"undo"} \subseteq synced
=============================================================================
