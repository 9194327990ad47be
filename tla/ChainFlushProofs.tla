-------------------------- MODULE ChainFlushProofs --------------------------
(***************************************************************************)
(* For every tree of blocks, number of block files, of crashes and of      *)
(* prunings: the block index database never refers to block data that is   *)
(* not on stable storage, a flush completes the transition it finds        *)
(* marked, and recent blocks are never pruned.  The coins database names a *)
(* best block only when it holds exactly that block's coins, the view in   *)
(* memory has the coins of the tip, and a node that cannot start again     *)
(* lacks pruned data only.                                                 *)
(***************************************************************************)
EXTENDS ChainFlush, TLAPS

\* The process is up and has not given up.
Up == phase \in {"running", "index", "unlink", "coins", "replay"}

\* Why it holds: only the last file can hold unsynced data, the last file is
\* synced before the index is written, and a block is added to the index only
\* when the database does not have it.  A pruned file is deleted when the database
\* no longer refers to it.  The genesis block is in the index from the start, in
\* file 0, whether or not the database has it.
FileInv ==
  /\ file \in [Tree -> Nat]
  /\ index \subseteq Tree /\ diskIndex \subseteq Tree
  /\ \A b \in diskIndex : <<b, "data">> \in synced
  /\ Up => Genesis \in index \cup pruned /\ diskIndex \subseteq index \cup unlink
  /\ Up => \A b \in index : file[b] # lastFile => <<b, "data">> \in synced
  /\ phase = "index" => \A b \in index : <<b, "data">> \in synced
  /\ file[Genesis] = 0
  /\ Genesis \notin diskIndex \cup diskPruned => diskLastFile = 0
  /\ unlink # {} => phase \in {"index", "unlink"}
  /\ phase = "unlink" => unlink \cap diskIndex = {}
  /\ unlink \cap index = {}

\* FlushBlockFile only adds, and when everything outside the last file is
\* synced it completes the data of the whole index.
LEMMA FlushCompletes ==
  ASSUME \A b \in index : file[b] # lastFile => <<b, "data">> \in synced
  PROVE  /\ synced \subseteq FlushBlockFile
         /\ \A b \in index : <<b, "data">> \in FlushBlockFile
  BY DEF FlushBlockFile

\* A new node satisfies the invariant.
LEMMA InitFile == Init => FileInv
  BY DEF Init, FileInv, Up, Tree

\* AcceptBlock: the file it leaves is synced, and the new block is in the last.
LEMMA AcceptBlockStep ==
  ASSUME FileInv, NEW b \in Blocks, AcceptBlock(b)
  PROVE  FileInv'
  <1>1. b \in Tree /\ b # Genesis /\ b \notin index /\ b \notin diskIndex /\ Up /\ Up'
    BY TreeShape DEF FileInv, AcceptBlock, Up, Tree
  <1>2. PICK f \in {lastFile, lastFile + 1} \cap 0..MaxFile :
          /\ file' = [file EXCEPT ![b] = f]
          /\ lastFile' = f
          /\ synced' = (IF f = lastFile THEN synced ELSE FlushBlockFile) \ {<<b, "data">>}
    BY Zenon DEF AcceptBlock
  <1>3. f \in Nat
    BY <1>2
  <1>4. /\ file' \in [Tree -> Nat] /\ file'[b] = f
        /\ \A x \in Tree : x # b => file'[x] = file[x]
    BY <1>1, <1>2, <1>3 DEF FileInv
  <1>5. index' = index \cup {b} /\ pruned' = pruned \ {b}
        /\ UNCHANGED <<phase, diskIndex, diskPruned, diskLastFile, unlink>>
    BY DEF AcceptBlock, blockTreeDB
  <1>6. synced \subseteq FlushBlockFile /\ \A x \in index : <<x, "data">> \in FlushBlockFile
    BY <1>1, FlushCompletes DEF FileInv
  <1>7. \A x \in diskIndex' : <<x, "data">> \in synced'
    BY <1>1, <1>2, <1>5, <1>6, Zenon DEF FileInv
  <1>8. \A x \in index' : file'[x] # lastFile' => <<x, "data">> \in synced'
    <2> SUFFICES ASSUME NEW x \in index', file'[x] # lastFile'
                 PROVE  <<x, "data">> \in synced'
      OBVIOUS
    <2>1. x \in index /\ x # b /\ file'[x] = file[x]
      BY <1>1, <1>2, <1>4, <1>5 DEF FileInv
    <2>2. CASE f = lastFile
      BY <1>1, <1>2, <2>1, <2>2 DEF FileInv
    <2>3. CASE f # lastFile
      BY <1>2, <1>6, <2>1, <2>3
    <2> QED
      BY <2>2, <2>3
  <1>9. phase' = "running" /\ file'[Genesis] = 0 /\ Genesis \in Tree
    BY <1>1, <1>4, <1>5 DEF AcceptBlock, FileInv, Tree
  <1> QED
    BY <1>1, <1>4, <1>5, <1>7, <1>8, <1>9 DEF FileInv

\* FlushStateToDisk: after syncing the last file the whole index is synced, with
\* or without the pruned files.
LEMMA FlushStep ==
  ASSUME FileInv, FlushStateToDisk
  PROVE  FileInv'
  <1>1. Up /\ Up' /\ phase = "running" /\ phase' = "index" /\ synced' = FlushBlockFile
    BY DEF FlushStateToDisk, Up
  <1>2. UNCHANGED <<file, lastFile, diskIndex, diskPruned, diskLastFile>>
    BY DEF FlushStateToDisk, blockTreeDB
  <1>3. unlink = {}
    BY <1>1 DEF FileInv
  <1>4. /\ index' \subseteq index /\ index \subseteq index' \cup unlink'
        /\ index \cup pruned \subseteq index' \cup pruned' /\ unlink' \cap index' = {}
    BY <1>3 DEF FlushStateToDisk, PruneBlockFiles
  <1>5. synced \subseteq FlushBlockFile /\ \A x \in index : <<x, "data">> \in FlushBlockFile
    BY <1>1, FlushCompletes DEF FileInv
  <1> QED
    BY <1>1, <1>2, <1>3, <1>4, <1>5 DEF FileInv

\* WriteIndex: everything it writes was synced before.
LEMMA WriteIndexStep ==
  ASSUME FileInv, WriteIndex
  PROVE  FileInv'
  <1>1. /\ Up /\ Up' /\ phase = "index" /\ phase' # "index"
        /\ unlink # {} => phase' = "unlink"
    BY DEF WriteIndex, AfterIndex, Up
  <1>2. /\ diskIndex' = index /\ diskPruned' = pruned
        /\ UNCHANGED <<file, index, pruned, unlink, lastFile, synced>>
    BY DEF WriteIndex, memory, blockIndex, blockFiles
  <1> QED
    BY <1>1, <1>2 DEF FileInv

\* UnlinkPrunedFiles: the data that goes is of no block the database refers to.
LEMMA UnlinkStep ==
  ASSUME FileInv, UnlinkPrunedFiles
  PROVE  FileInv'
  <1>1. Up /\ Up' /\ phase = "unlink" /\ phase' \notin {"index", "unlink"} /\ unlink' = {}
    BY DEF UnlinkPrunedFiles, AfterIndex, Up
  <1>2. UNCHANGED <<file, index, pruned, lastFile, diskIndex, diskPruned, diskLastFile>>
    BY DEF UnlinkPrunedFiles, blockTreeDB
  <1>3. \A b : b \notin unlink /\ <<b, "data">> \in synced => <<b, "data">> \in synced'
    BY DEF UnlinkPrunedFiles
  <1> QED
    BY <1>1, <1>2, <1>3 DEF FileInv

\* A crash loses unsynced data only of blocks the database does not have.
LEMMA CrashStep ==
  ASSUME FileInv, Crash
  PROVE  FileInv'
  <1>1. /\ phase' = "down" /\ index' = {} /\ unlink' = {}
        /\ UNCHANGED <<diskIndex, diskPruned, diskLastFile>>
    BY DEF Crash, blockTreeDB
  <1>2. file' = [b \in Tree |-> IF b \in diskIndex THEN file[b] ELSE 0]
    BY DEF Crash
  <1>3. \A b \in diskIndex : <<b, "data">> \in synced'
    BY Zenon DEF Crash, FileInv
  <1>4. Genesis \in Tree /\ ~Up'
    BY <1>1 DEF Tree, Up
  <1>5. file' \in [Tree -> Nat] /\ file'[Genesis] = 0
    BY <1>2, <1>4 DEF FileInv
  <1> QED
    BY <1>1, <1>3, <1>4, <1>5 DEF FileInv

\* Restart: what LoadBlockIndex reads is synced, and a genesis block that is not
\* among it is in file 0, which is then the last.
LEMMA RestartStep ==
  ASSUME FileInv, Restart
  PROVE  FileInv'
  <1>1. /\ index' = diskIndex \cup ({Genesis} \ diskPruned) /\ pruned' = diskPruned
        /\ lastFile' = diskLastFile
        /\ UNCHANGED <<file, synced, unlink, diskIndex, diskPruned, diskLastFile>>
    BY DEF Restart, blockFiles, blockTreeDB, blockIndex
  <1>2. phase' \notin {"index", "unlink"} /\ Genesis \in Tree /\ unlink = {}
    BY DEF Restart, Tree, FileInv
  <1> QED
    BY <1>1, <1>2 DEF FileInv

\* The other actions leave the index and the block data alone.
LEMMA OtherFileSteps ==
  ASSUME FileInv,
         \/ \E b \in Blocks : ConnectTip(b)
         \/ ConnectGenesis \/ DisconnectTip \/ WritePartialBatch \/ WriteLastBatch
         \/ GivenUp \/ UNCHANGED vars
  PROVE  FileInv'
  <1>1. /\ UNCHANGED <<file, index, pruned, unlink, lastFile, diskIndex, diskPruned, diskLastFile>>
        /\ \A b : <<b, "data">> \in synced => <<b, "data">> \in synced'
    <2>1. CASE \E b \in Blocks : ConnectTip(b)
      BY <2>1 DEF ConnectTip, WriteUndoDataForBlock, blockTreeDB
    <2>2. CASE ConnectGenesis
      BY <2>2 DEF ConnectGenesis, blockFiles, blockTreeDB, blockIndex
    <2>3. CASE DisconnectTip
      BY <2>3 DEF DisconnectTip, blockFiles, blockTreeDB, blockIndex
    <2>4. CASE WritePartialBatch
      BY <2>4 DEF WritePartialBatch, blockFiles, blockTreeDB, blockIndex
    <2>5. CASE WriteLastBatch
      BY <2>5 DEF WriteLastBatch, blockFiles, blockTreeDB, blockIndex
    <2>6. CASE GivenUp \/ UNCHANGED vars
      BY <2>6 DEF GivenUp, vars, memory, blockFiles, blockTreeDB, blockIndex
    <2> QED
      BY <2>1, <2>2, <2>3, <2>4, <2>5, <2>6, SMTT(30)
  <1>2. /\ Up' => Up
        /\ phase \in {"index", "unlink"} \/ phase' \in {"index", "unlink"} => phase' = phase
    BY DEF ConnectTip, ConnectGenesis, DisconnectTip, WritePartialBatch, WriteLastBatch, GivenUp, vars, Up
  <1> QED
    BY <1>1, <1>2 DEF FileInv

\* FileInv holds throughout.
LEMMA FilesInvariant == Spec => []FileInv
  <1>1. FileInv /\ [Next]_vars => FileInv'
    <2> SUFFICES ASSUME FileInv, [Next]_vars PROVE FileInv'
      OBVIOUS
    <2> QED
      BY AcceptBlockStep, FlushStep, WriteIndexStep, UnlinkStep, CrashStep, RestartStep, OtherFileSteps, SMTT(30)
      DEF Next
  <1> QED
    BY <1>1, InitFile, PTL DEF Spec

\* DataSyncedBeforeIndexed for every tree, file count, number of crashes and of prunings:
\* FlushStateToDisk syncs block data before the index entries that refer to it.
THEOREM BlockDataSynced == Spec => []DataSyncedBeforeIndexed
  <1>1. FileInv => DataSyncedBeforeIndexed
    BY DEF FileInv, DataSyncedBeforeIndexed
  <1> QED
    BY <1>1, FilesInvariant, PTL

(***************************************************************************)
(* The markers of the coins database.                                      *)
(***************************************************************************)
\* Outside a flush of the coins, and before its first batch, no transition is
\* marked; a replay is on the way to the tip of the transition it found.
MarkerInv ==
  /\ tip \in Tree \cup {NullHash} /\ best \in Tree \cup {NullHash}
  /\ heads # <<>> => heads[1] \in Tree \cup {NullHash}
  /\ phase \in {"running", "index", "unlink"} => heads = <<>>
  /\ phase \in {"coins", "replay"} /\ heads # <<>> => heads[1] = tip
  /\ index \subseteq Tree /\ diskIndex \subseteq Tree

\* Steps that move the tip or extend the index.
LEMMA ChainMarkerStep ==
  ASSUME MarkerInv,
         \/ \E b \in Blocks : AcceptBlock(b) \/ ConnectTip(b)
         \/ ConnectGenesis \/ DisconnectTip
  PROVE  MarkerInv'
  <1>1. CASE \E b \in Blocks : AcceptBlock(b)
    BY <1>1 DEF MarkerInv, AcceptBlock, coinsDB, blockTreeDB, Tree
  <1>2. CASE \E b \in Blocks : ConnectTip(b)
    BY <1>2 DEF MarkerInv, ConnectTip, coinsDB, blockTreeDB, Tree
  <1>3. CASE ConnectGenesis
    BY <1>3 DEF MarkerInv, ConnectGenesis, coinsDB, blockTreeDB, blockIndex, Tree
  <1>4. CASE DisconnectTip
    <2>1. /\ UNCHANGED <<best, heads, index, diskIndex>>
          /\ phase = "running" /\ phase' \in {"running", "failed"}
          /\ tip' = tip \/ (tip \in Blocks /\ tip' = Parent[tip])
      BY <1>4 DEF DisconnectTip, coinsDB, blockTreeDB, blockIndex
    <2>2. tip \in Blocks => Parent[tip] \in Tree
      BY TreeShape
    <2> QED
      BY <2>1, <2>2 DEF MarkerInv
  <1> QED
    BY <1>1, <1>2, <1>3, <1>4, SMTT(30)

\* Steps of a flush.
LEMMA FlushMarkerStep ==
  ASSUME MarkerInv, FlushStateToDisk \/ WriteIndex \/ UnlinkPrunedFiles \/ WritePartialBatch \/ WriteLastBatch
  PROVE  MarkerInv'
  <1>1. CASE FlushStateToDisk
    <2>1. UNCHANGED <<tip, best, heads, diskIndex>> /\ phase = "running" /\ phase' = "index" /\ index' \subseteq index
      BY <1>1 DEF FlushStateToDisk, PruneBlockFiles, coinsDB, blockTreeDB
    <2> QED
      BY <2>1 DEF MarkerInv
  <1>2. CASE WriteIndex \/ UnlinkPrunedFiles
    <2>1. /\ UNCHANGED <<tip, best, heads, index>> /\ diskIndex' \in {diskIndex, index}
          /\ phase \in {"index", "unlink"} /\ phase' \in {"unlink", "coins", "running"}
      BY <1>2 DEF WriteIndex, UnlinkPrunedFiles, AfterIndex, memory, blockIndex, coinsDB, blockTreeDB
    <2> QED
      BY <2>1 DEF MarkerInv
  <1>3. CASE WritePartialBatch
    <2>1. UNCHANGED <<phase, tip, index, diskIndex>> /\ heads' = <<tip, OldTip>> /\ best' = NullHash
      BY <1>3 DEF WritePartialBatch, blockIndex, blockTreeDB
    <2>2. heads'[1] = tip /\ phase \in {"coins", "replay"}
      BY <2>1, <1>3 DEF WritePartialBatch
    <2> QED
      BY <2>1, <2>2 DEF MarkerInv
  <1>4. CASE WriteLastBatch
    BY <1>4 DEF MarkerInv, WriteLastBatch, blockIndex, blockTreeDB
  <1> QED
    BY <1>1, <1>2, <1>3, <1>4

\* A kill keeps the markers, and a start follows them.
LEMMA RestartMarkerStep ==
  ASSUME MarkerInv, Crash \/ Restart \/ GivenUp \/ UNCHANGED vars
  PROVE  MarkerInv'
  <1>1. CASE Crash
    BY <1>1 DEF MarkerInv, Crash, coinsDB, blockTreeDB
  <1>2. CASE Restart
    <2>1. /\ UNCHANGED <<best, heads, diskIndex>> /\ index' \subseteq Tree
          /\ phase' \in {"running", "replay", "failed"}
          /\ phase' = "running" => heads = <<>>
          /\ phase' = "replay" => tip' = heads[1]
          /\ \/ tip' = tip \/ tip' = best
             \/ heads # <<>> /\ tip' = heads[1]
      BY <1>2 DEF MarkerInv, Restart, coinsDB, blockTreeDB, Tree
    <2> QED
      BY <2>1 DEF MarkerInv
  <1>3. CASE GivenUp \/ UNCHANGED vars
    BY <1>3 DEF MarkerInv, GivenUp, vars, memory, blockIndex, coinsDB, blockTreeDB
  <1> QED
    BY <1>1, <1>2, <1>3

\* MarkerInv holds throughout.
LEMMA MarkersInvariant == Spec => []MarkerInv
  <1>1. Init => MarkerInv
    BY DEF Init, MarkerInv, Tree
  <1>2. MarkerInv /\ [Next]_vars => MarkerInv'
    BY ChainMarkerStep, FlushMarkerStep, RestartMarkerStep DEF Next
  <1> QED
    BY <1>1, <1>2, PTL DEF Spec

\* The assertion in CCoinsViewDB::BatchWrite that a flush which finds a transition
\* marked completes that very transition: for every tree and however often the
\* process is killed, also during a replay.
THEOREM TransitionCompleted == Spec => []ReplayCompletesTransition
  <1>1. MarkerInv => ReplayCompletesTransition
    BY DEF MarkerInv, ReplayCompletesTransition
  <1> QED
    BY <1>1, MarkersInvariant, PTL

\* Where pruning is allowed the subtraction of MIN_BLOCKS_TO_KEEP does not wrap.
LEMMA SubtractionExact ==
  ASSUME tip \in Tree, Height[tip] >= PruneAfter
  PROVE  LastBlockWeCanPrune = Height[tip] - MinKeep
  <1>1. /\ MinKeep \in Nat /\ UIntRange \in Nat /\ Height[tip] \in Nat
        /\ Height[tip] < UIntRange /\ MinKeep <= Height[tip]
    BY PruneLimits
  <1>2. \A k, n \in Nat : k < n => k % n = k
    OBVIOUS
  <1>3. Height[tip] - MinKeep \in Nat /\ Height[tip] - MinKeep < UIntRange
    BY <1>1
  <1> QED
    BY <1>1, <1>2, <1>3 DEF LastBlockWeCanPrune

\* FindFilesToPrune and FindFilesToPruneManual choose no file with a block within
\* MIN_BLOCKS_TO_KEEP of the tip, for every tree, file layout and length of chain.
THEOREM RecentBlocksKept == Spec => PruneKeepsRecent
  <1> DEFINE Kept == \A b \in pruned' \ pruned : phase = "running" => Height[b] + MinKeep <= Height[tip]
  <1>1. MarkerInv /\ [Next]_vars => [Kept]_vars
    <2> SUFFICES ASSUME MarkerInv, Next, phase = "running", NEW b \in pruned' \ pruned
                 PROVE  Height[b] + MinKeep <= Height[tip]
      OBVIOUS
    <2>1. FlushStateToDisk
      <3>1. \A x \in Blocks : ~AcceptBlock(x) /\ ~ConnectTip(x)
        BY DEF AcceptBlock, ConnectTip
      <3>2. ~ConnectGenesis /\ ~DisconnectTip /\ ~WriteIndex /\ ~UnlinkPrunedFiles
        BY DEF ConnectGenesis, DisconnectTip, WriteIndex, UnlinkPrunedFiles, blockIndex, memory
      <3>3. ~WritePartialBatch /\ ~WriteLastBatch /\ ~Crash /\ ~Restart /\ ~GivenUp
        BY DEF WritePartialBatch, WriteLastBatch, Crash, Restart, GivenUp
      <3> QED
        BY <3>1, <3>2, <3>3 DEF Next
    <2>2. PICK files \in FilesToPrune \ {{}} : PruneBlockFiles(files)
      BY <2>1 DEF FlushStateToDisk
    <2>3. b \in index /\ file[b] \in files
      BY <2>2 DEF PruneBlockFiles
    <2>4. files \subseteq Prunable /\ tip # NullHash /\ Height[tip] >= PruneAfter
      <3>1. tip \in Tree => Height[tip] \in Int
        BY PruneLimits
      <3> QED
        BY <2>2, <3>1, PruneLimits DEF FilesToPrune, MarkerInv
    <2>5. b \in Tree /\ tip \in Tree
      BY <2>3, <2>4 DEF MarkerInv
    <2>6. Height[b] <= LastBlockWeCanPrune
      BY <2>3, <2>4, Zenon DEF Prunable, HeightLastUpTo, BlocksIn
    <2>7. LastBlockWeCanPrune = Height[tip] - MinKeep
      BY <2>4, <2>5, SubtractionExact
    <2>8. Height[b] \in Int /\ Height[tip] \in Int /\ MinKeep \in Int
      BY <2>5, PruneLimits
    <2> QED
      BY <2>6, <2>7, <2>8
  <1> QED
    BY <1>1, MarkersInvariant, PTL DEF Spec, PruneKeepsRecent

(***************************************************************************)
(* Induction and recursion along a tree and along a loop counter.          *)
(***************************************************************************)
INSTANCE WellFoundedInduction

\* A non-empty set of natural numbers has a least one.
LEMMA LeastNumber ==
  ASSUME NEW S, S \subseteq Nat, S # {}
  PROVE  \E n \in S : \A k \in S : ~(k < n)
<1>1. PICK n \in S : \A k \in S : ~(<<k, n>> \in OpToRel(<, Nat))
  BY NatLessThanWellFounded, WFMin, Zenon
<1>2. \A k \in S : k \in Nat /\ n \in Nat
  BY Zenon
<1>3. \A k \in S : ~(k < n)
  BY <1>1, <1>2, Zenon DEF OpToRel
<1> QED BY <1>3, Zenon

\* What x is made from: every member of D but r has a predecessor of lower rank.
Descends(D, r, rank, pred) ==
  /\ r \in D /\ rank \in [D -> Nat]
  /\ \A x \in D : x # r => pred[x] \in D /\ rank[pred[x]] < rank[x]

\* Induction along the predecessors.
LEMMA Induct ==
  ASSUME NEW D, NEW r, NEW rank, NEW pred, Descends(D, r, rank, pred), NEW P,
         r \in P, \A x \in D : x # r /\ pred[x] \in P => x \in P
  PROVE  D \subseteq P
<1> SUFFICES ASSUME ~(D \subseteq P) PROVE FALSE
  BY Zenon
<1> DEFINE S == {rank[x] : x \in D \ P}
<1>1. S \subseteq Nat /\ S # {}
  BY DEF Descends
<1>2. PICK n \in S : \A k \in S : ~(k < n)
  BY <1>1, LeastNumber, Zenon
<1>3. PICK x \in D \ P : n = rank[x]
  BY Zenon
<1>4. pred[x] \in D /\ rank[pred[x]] < rank[x] /\ pred[x] \notin P
  BY Zenon DEF Descends
<1> QED BY <1>2, <1>3, <1>4, Zenon

Made(D, r, pred, v, G, f, x) == f[x] = IF x = r THEN v ELSE G[x][f[pred[x]]]

\* A function defined by recursion along the predecessors exists.
LEMMA Recursion ==
  ASSUME NEW D, NEW r, NEW rank, NEW pred, Descends(D, r, rank, pred),
         NEW V, NEW v \in V, NEW G, \A x \in D : x # r => G[x] \in [V -> V]
  PROVE  \E f \in [D -> V] : \A x \in D : Made(D, r, pred, v, G, f, x)
<1> DEFINE Upto(f, n) == f \in [D -> V] /\ \A x \in D : rank[x] < n => Made(D, r, pred, v, G, f, x)
           Step(f, x) == IF x = r THEN v ELSE G[x][f[pred[x]]]
           None == {n \in Nat : \A f : ~Upto(f, n)}
<1>0. \A x \in D : rank[x] \in Nat /\ (x # r => pred[x] \in D /\ rank[pred[x]] \in Nat /\ rank[pred[x]] < rank[x])
  BY DEF Descends
<1>1. ASSUME NEW f \in [D -> V], NEW x \in D PROVE Step(f, x) \in V
  <2>1. CASE x = r
    BY <2>1, Zenon
  <2>2. CASE x # r
    <3>1. f[pred[x]] \in V /\ G[x] \in [V -> V]
      BY <1>0, <2>2, Zenon
    <3>2. G[x][f[pred[x]]] \in V
      BY <3>1, Zenon
    <3> QED BY <2>2, <3>2, Zenon
  <2> QED BY <2>1, <2>2, Zenon
<1>2. None = {}
  <2> SUFFICES ASSUME None # {} PROVE FALSE
    BY Zenon
  <2>1. PICK n \in None : \A k \in None : ~(k < n)
    <3>1. None \subseteq Nat
      BY Zenon
    <3> HIDE DEF None
    <3> QED BY <3>1, LeastNumber, Zenon
  <2>2. n \in Nat /\ \A f : ~Upto(f, n)
    BY <2>1, Zenon
  <2>3. CASE n = 0
    <3> DEFINE f == [x \in D |-> v]
    <3>1. f \in [D -> V]
      BY Zenon
    <3>2. \A x \in D : ~(rank[x] < n)
      BY <1>0, <2>3
    <3>3. Upto(f, n)
      BY <3>1, <3>2, Zenon
    <3> QED BY <2>2, <3>3, Zenon
  <2>4. CASE n # 0
    <3>1. n - 1 \in Nat /\ n - 1 < n
      BY <2>2, <2>4
    <3>2. n - 1 \notin None
      BY <2>1, <3>1, Zenon
    <3>3. PICK f : Upto(f, n - 1)
      BY <3>1, <3>2, Zenon
    <3> DEFINE g == [x \in D |-> IF rank[x] < n - 1 THEN f[x] ELSE Step(f, x)]
    <3>4. g \in [D -> V]
      <4>1. ASSUME NEW x \in D PROVE f[x] \in V /\ Step(f, x) \in V
        BY <1>1, <3>3, Zenon
      <4> HIDE DEF Step
      <4> QED BY <4>1, Zenon
    <3>5. ASSUME NEW x \in D, rank[x] < n PROVE Made(D, r, pred, v, G, g, x)
      <4>1. x # r => rank[pred[x]] < n - 1
        BY <1>0, <2>2, <3>5
      <4>2. x # r => pred[x] \in D /\ g[pred[x]] = f[pred[x]]
        BY <1>0, <4>1, Zenon
      <4>3. Step(g, x) = Step(f, x)
        BY <4>2, Zenon
      <4>4. rank[x] < n - 1 => f[x] = Step(f, x)
        BY <3>3, Zenon DEF Made
      <4>5. g[x] = Step(f, x)
        <5> HIDE DEF Step
        <5> QED BY <4>4, Zenon
      <4>6. g[x] = Step(g, x)
        BY <4>3, <4>5, Zenon
      <4> HIDE DEF g
      <4> QED BY <4>6, Zenon DEF Made
    <3> HIDE DEF g
    <3>6. Upto(g, n)
      BY <3>4, <3>5, Zenon
    <3> QED BY <2>2, <3>6, Zenon
  <2> QED BY <2>3, <2>4, Zenon
<1>3. ASSUME NEW n \in Nat, NEW f, NEW g, Upto(f, n), Upto(g, n), NEW y \in D, rank[y] < n
      PROVE  f[y] = g[y]
  <2> DEFINE P == {x \in D : rank[x] < n => f[x] = g[x]}
  <2>1. r \in D
    BY Zenon DEF Descends
  <2>2. r \in P
    BY <1>3, <2>1, Zenon DEF Made
  <2>3. ASSUME NEW x \in D, x # r, pred[x] \in P, rank[x] < n PROVE f[x] = g[x]
    <3>1. rank[pred[x]] < n
      BY <1>0, <2>3
    <3>2. f[pred[x]] = g[pred[x]]
      BY <2>3, <3>1, Zenon
    <3>3. f[x] = G[x][f[pred[x]]] /\ g[x] = G[x][g[pred[x]]]
      BY <1>3, <2>3, Zenon DEF Made
    <3> QED BY <3>2, <3>3, Zenon
  <2>4. \A x \in D : x # r /\ pred[x] \in P => x \in P
    BY <2>3, Zenon
  <2> HIDE DEF P
  <2>5. D \subseteq P
    <3> HIDE DEF Upto
    <3> QED BY <2>2, <2>4, Induct
  <2> QED BY <1>3, <2>5, Zenon DEF P
<1> DEFINE F == [n \in Nat |-> CHOOSE f : Upto(f, n)]
           h == [x \in D |-> F[rank[x] + 1][x]]
<1>4. ASSUME NEW n \in Nat PROVE Upto(F[n], n)
  <2>1. \E f : Upto(f, n)
    BY <1>2, Zenon
  <2> HIDE DEF Upto
  <2> QED BY <2>1, Zenon
<1> HIDE DEF F
<1>5. ASSUME NEW x \in D PROVE h[x] = Step(h, x) /\ h[x] \in V
  <2>1. rank[x] \in Nat /\ rank[x] + 1 \in Nat /\ rank[x] < rank[x] + 1
    BY <1>0
  <2>2. Upto(F[rank[x] + 1], rank[x] + 1)
    BY <1>4, <2>1, Zenon
  <2>3. h[x] = Step(F[rank[x] + 1], x) /\ F[rank[x] + 1] \in [D -> V]
    BY <2>1, <2>2, Zenon DEF Made
  <2>4. CASE x = r
    BY <1>1, <2>3, <2>4, Zenon
  <2>5. CASE x # r
    <3> DEFINE p == pred[x]
    <3>1. p \in D /\ rank[p] \in Nat /\ rank[p] + 1 \in Nat /\ rank[p] < rank[p] + 1 /\ rank[p] < rank[x] + 1
      BY <1>0, <2>1, <2>5
    <3>2. Upto(F[rank[p] + 1], rank[p] + 1)
      BY <1>4, <3>1, Zenon
    <3>3. ASSUME NEW y \in D, rank[y] < rank[p] + 1 PROVE rank[y] < rank[x] + 1
      <4>1. rank[y] \in Nat /\ rank[x] \in Nat /\ rank[p] < rank[x]
        BY <1>0, <2>5, Zenon
      <4> QED BY <3>1, <3>3, <4>1
    <3>4. Upto(F[rank[x] + 1], rank[p] + 1)
      BY <2>2, <3>3, Zenon
    <3>5. F[rank[p] + 1][p] = F[rank[x] + 1][p]
      <4> HIDE DEF Upto
      <4> QED BY <1>3, <3>1, <3>2, <3>4
    <3>6. h[p] = F[rank[x] + 1][p]
      BY <3>1, <3>5, Zenon
    <3> HIDE DEF h
    <3> QED BY <1>1, <2>3, <2>5, <3>6, Zenon
  <2> QED BY <2>4, <2>5, Zenon
<1>6. h \in [D -> V]
  BY <1>5, Zenon
<1>7. \A x \in D : Made(D, r, pred, v, G, h, x)
  <2> HIDE DEF h
  <2> QED BY <1>5, Zenon DEF Made
<1> HIDE DEF h
<1> QED BY <1>6, <1>7, Zenon

\* Loops that count up and loops that count down.
LEMMA CountingUp ==
  ASSUME NEW a \in Int, NEW c \in Int, a <= c
  PROVE  Descends(a..c, a, [k \in a..c |-> k - a], [k \in a..c |-> k - 1])
BY DEF Descends

LEMMA CountingDown ==
  ASSUME NEW a \in Int, NEW c \in Int, a <= c
  PROVE  Descends(a..c, c, [k \in a..c |-> c - k], [k \in a..c |-> k + 1])
BY DEF Descends

LEMMA Heights == Genesis \in Tree /\ Height \in [Tree -> Nat] /\ Parent \in [Blocks -> Tree] /\ Genesis \notin Blocks
<1>1. \A b \in Tree : Height[b] \in Nat
  BY PruneLimits
<1> QED BY <1>1, TreeShape, Zenon DEF Height, Tree

\* From a block to its parent.
LEMMA Rising == Descends(Tree, Genesis, Height, Parent)
<1>1. ASSUME NEW b \in Tree, b # Genesis PROVE Parent[b] \in Tree /\ Height[Parent[b]] < Height[b]
  <2>1. b \in Blocks /\ Parent[b] \in Tree
    BY <1>1, TreeShape DEF Tree
  <2>2. Height[Parent[b]] \in Nat /\ Height[b] = Height[Parent[b]] + 1
    BY <2>1, Rooted, Heights, Zenon
  <2> QED BY <2>1, <2>2
<1> QED BY <1>1, Heights, Zenon DEF Descends

LEMMA Count ==
  ASSUME NEW a \in Int, NEW c \in Int, NEW P, a \in P, \A k \in a..c : k # a /\ k - 1 \in P => k \in P
  PROVE  a..c \subseteq P
<1> DEFINE pred == [k \in a..c |-> k - 1]
<1>1. CASE a <= c
  <2>1. PICK rank : Descends(a..c, a, rank, pred)
    BY <1>1, CountingUp, Zenon
  <2>2. \A k \in a..c : k # a /\ pred[k] \in P => k \in P
    BY Zenon
  <2> HIDE DEF pred
  <2> QED BY <2>1, <2>2, Induct
<1>2. CASE ~(a <= c)
  BY <1>2
<1> QED BY <1>1, <1>2, Zenon

LEMMA Countdown ==
  ASSUME NEW a \in Int, NEW c \in Int, NEW P, c \in P, \A k \in a..c : k # c /\ k + 1 \in P => k \in P
  PROVE  a..c \subseteq P
<1> DEFINE pred == [k \in a..c |-> k + 1]
<1>1. CASE a <= c
  <2>1. PICK rank : Descends(a..c, c, rank, pred)
    BY <1>1, CountingDown, Zenon
  <2>2. \A k \in a..c : k # c /\ pred[k] \in P => k \in P
    BY Zenon
  <2> HIDE DEF pred
  <2> QED BY <2>1, <2>2, Induct
<1>2. CASE ~(a <= c)
  BY <1>2
<1> QED BY <1>1, <1>2, Zenon

LEMMA AlongTree ==
  ASSUME NEW P, Genesis \in P, \A b \in Blocks : Parent[b] \in P => b \in P
  PROVE  Tree \subseteq P
<1>1. \A b \in Tree : b # Genesis /\ Parent[b] \in P => b \in P
  BY Zenon DEF Tree
<1> QED BY <1>1, Rising, Induct

\* The passes of a loop whose body G[k] maps the values V to V.
Passes(D, r, V, G) == \A k \in D : k # r => G[k] \in [V -> V]
RunsUp(a, c, V, v, G) == \E f \in [a..c -> V] : \A k \in a..c : f[k] = IF k = a THEN v ELSE G[k][f[k - 1]]
RunsDown(a, c, V, v, G) == \E f \in [a..c -> V] : \A k \in a..c : f[k] = IF k = c THEN v ELSE G[k][f[k + 1]]
RunsTree(V, v, G) == \E f \in [Tree -> V] : \A b \in Tree : f[b] = IF b = Genesis THEN v ELSE G[b][f[Parent[b]]]

LEMMA LoopUp ==
  ASSUME NEW a \in Int, NEW c \in Int, a <= c, NEW V, NEW v \in V, NEW G, Passes(a..c, a, V, G)
  PROVE  RunsUp(a, c, V, v, G)
<1> DEFINE pred == [k \in a..c |-> k - 1]
<1>1. PICK rank : Descends(a..c, a, rank, pred)
  BY CountingUp, Zenon
<1> HIDE DEF pred
<1>2. PICK f \in [a..c -> V] : \A k \in a..c : Made(a..c, a, pred, v, G, f, k)
  BY <1>1, Recursion, Zenon DEF Passes
<1>3. \A k \in a..c : f[k] = IF k = a THEN v ELSE G[k][f[k - 1]]
  BY <1>2, Zenon DEF Made, pred
<1> QED BY <1>3, Zenon DEF RunsUp

LEMMA LoopDown ==
  ASSUME NEW a \in Int, NEW c \in Int, a <= c, NEW V, NEW v \in V, NEW G, Passes(a..c, c, V, G)
  PROVE  RunsDown(a, c, V, v, G)
<1> DEFINE pred == [k \in a..c |-> k + 1]
<1>1. PICK rank : Descends(a..c, c, rank, pred)
  BY CountingDown, Zenon
<1> HIDE DEF pred
<1>2. PICK f \in [a..c -> V] : \A k \in a..c : Made(a..c, c, pred, v, G, f, k)
  BY <1>1, Recursion, Zenon DEF Passes
<1>3. \A k \in a..c : f[k] = IF k = c THEN v ELSE G[k][f[k + 1]]
  BY <1>2, Zenon DEF Made, pred
<1> QED BY <1>3, Zenon DEF RunsDown

LEMMA LoopTree ==
  ASSUME NEW V, NEW v \in V, NEW G, Passes(Tree, Genesis, V, G)
  PROVE  RunsTree(V, v, G)
<1>1. \A b \in Tree : b # Genesis => G[b] \in [V -> V]
  BY Zenon DEF Passes
<1>2. PICK f \in [Tree -> V] : \A b \in Tree : Made(Tree, Genesis, Parent, v, G, f, b)
  BY <1>1, Rising, Recursion, Zenon
<1>3. \A b \in Tree : f[b] = IF b = Genesis THEN v ELSE G[b][f[Parent[b]]]
  BY <1>2, Zenon DEF Made
<1> QED BY <1>3, Zenon DEF RunsTree

(***************************************************************************)
(* The recursive definitions, step by step.                                *)
(***************************************************************************)
View == [OutPoints -> Nat]

LEMMA Txs ==
  ASSUME NEW b \in Blocks
  PROVE  /\ Len(Vtx[b]) \in Nat /\ Height[b] \in Nat /\ Parent[b] \in Tree /\ b \in Tree
         /\ \A i \in 1..Len(Vtx[b]) : Vtx[b][i].ins \subseteq OutPoints /\ Vtx[b][i].outs \subseteq OutPoints
<1>1. b \in Tree
  BY Zenon DEF Tree
<1>2. Vtx[b] \in Seq([ins : SUBSET OutPoints, outs : SUBSET OutPoints]) /\ Parent[b] \in Tree
  BY TreeShape, Zenon
<1>3. \A T : \A s \in Seq(T) : Len(s) \in Nat /\ \A i \in 1..Len(s) : s[i] \in T
  OBVIOUS
<1>4. Len(Vtx[b]) \in Nat /\ \A i \in 1..Len(Vtx[b]) : Vtx[b][i] \in [ins : SUBSET OutPoints, outs : SUBSET OutPoints]
  BY <1>2, <1>3, Zenon
<1> QED BY <1>1, <1>2, <1>4, Heights

LEMMA ConnectTxView ==
  ASSUME NEW m \in View, NEW tx, NEW h \in Nat
  PROVE  ConnectTx(m, tx, h) \in View
BY DEF ConnectTx, View, Spent

\* The loop of ConnectBlock over the transactions.
LEMMA CoinsAfterSteps ==
  ASSUME NEW b \in Blocks, NEW m \in View
  PROVE  /\ CoinsAfter(m, b, 0) = m
         /\ \A k \in 1..Len(Vtx[b]) :
              CoinsAfter(m, b, k) = ConnectTx(CoinsAfter(m, b, k - 1), Vtx[b][k], Height[b])
         /\ \A k \in 0..Len(Vtx[b]) : CoinsAfter(m, b, k) \in View
<1> DEFINE n == Len(Vtx[b])
           E(g) == [j \in 0..n |-> IF j = 0 THEN m ELSE ConnectTx(g[j - 1], Vtx[b][j], Height[b])]
           G == [j \in 0..n |-> [x \in View |-> ConnectTx(x, Vtx[b][j], Height[b])]]
           a == CHOOSE g : g = E(g)
<1>0. n \in Nat /\ 0 \in Int /\ n \in Int /\ 0 <= n /\ Height[b] \in Nat
  BY Txs
<1>1. Passes(0..n, 0, View, G)
  BY <1>0, ConnectTxView, Zenon DEF Passes
<1>2. PICK f \in [0..n -> View] : \A j \in 0..n : f[j] = IF j = 0 THEN m ELSE G[j][f[j - 1]]
  <2> HIDE DEF n, G, E, a
  <2>1. RunsUp(0, n, View, m, G)
    BY <1>0, <1>1, LoopUp, Zenon
  <2> QED BY <2>1, Zenon DEF RunsUp
<1>3. ASSUME NEW j \in 0..n PROVE f[j] = IF j = 0 THEN m ELSE ConnectTx(f[j - 1], Vtx[b][j], Height[b])
  <2>1. CASE j = 0
    BY <1>2, <2>1, Zenon
  <2>2. CASE j # 0
    <3>1. j - 1 \in 0..n
      BY <1>0, <2>2
    <3>2. f[j - 1] \in View
      BY <1>2, <3>1, Zenon
    <3> QED BY <1>2, <2>2, <3>2, Zenon
  <2> QED BY <2>1, <2>2, Zenon
<1>4. f = E(f)
  BY <1>2, <1>3, Zenon
<1>5. a = E(a)
  BY <1>4, Zenon
<1>6. \A k : CoinsAfter(m, b, k) = a[k]
  BY Zenon DEF CoinsAfter
<1> HIDE DEF a
<1>7. ASSUME NEW k \in 0..n
      PROVE  CoinsAfter(m, b, k) = IF k = 0 THEN m ELSE ConnectTx(CoinsAfter(m, b, k - 1), Vtx[b][k], Height[b])
  <2>1. a[k] = IF k = 0 THEN m ELSE ConnectTx(a[k - 1], Vtx[b][k], Height[b])
    BY <1>5, Zenon
  <2> HIDE DEF n
  <2> QED BY <1>6, <2>1, Zenon
<1>8. \A k \in 1..n : k \in 0..n /\ k # 0
  BY <1>0
<1>9. 0 \in 0..n
  BY <1>0
<1>10. 0..n \subseteq {k \in 0..n : CoinsAfter(m, b, k) \in View}
  <2> DEFINE P == {k \in 0..n : CoinsAfter(m, b, k) \in View}
  <2>1. 0 \in P
    BY <1>7, <1>9, Zenon
  <2>2. ASSUME NEW k \in 0..n, k # 0, k - 1 \in P PROVE k \in P
    <3>1. CoinsAfter(m, b, k - 1) \in View
      BY <2>2, Zenon
    <3>2. CoinsAfter(m, b, k) \in View
      BY <1>0, <1>7, <2>2, <3>1, ConnectTxView, Zenon
    <3> QED BY <3>2, Zenon
  <2> HIDE DEF P, n
  <2>3. 0..n \subseteq P
    BY <1>0, <2>1, <2>2, Count
  <2> QED BY <2>3, Zenon DEF P
<1> QED BY <1>7, <1>8, <1>9, <1>10, Zenon

\* The loop of DisconnectBlock over the transactions, and what it has come to at
\* each of them.
Undoing(b, undo, u, i) ==
  u[i] = [coins |-> DisconnectTx(u[i + 1].coins, Vtx[b][i], undo[i]),
          clean |-> u[i + 1].clean /\ TxClean(u[i + 1].coins, Vtx[b][i], Height[b])]

LEMMA DisconnectSteps ==
  ASSUME NEW b \in Blocks, NEW m \in View, NEW undo,
         \A i \in 1..Len(Vtx[b]) : undo[i] \in [Vtx[b][i].ins -> Nat]
  PROVE  \E u : /\ DisconnectBlock(m, b, undo) = u[1]
                /\ u[Len(Vtx[b]) + 1] = [coins |-> m, clean |-> TRUE]
                /\ \A i \in 1..Len(Vtx[b]) : Undoing(b, undo, u, i)
                /\ \A i \in 1..(Len(Vtx[b]) + 1) : u[i] \in [coins : View, clean : BOOLEAN]
<1> DEFINE n == Len(Vtx[b])
           V == [coins : View, clean : BOOLEAN]
           v == [coins |-> m, clean |-> TRUE]
           S(acc, i) == [coins |-> DisconnectTx(acc.coins, Vtx[b][i], undo[i]),
                         clean |-> acc.clean /\ TxClean(acc.coins, Vtx[b][i], Height[b])]
           E(g) == [i \in 1..(n + 1) |-> IF i = n + 1 THEN v ELSE S(g[i + 1], i)]
           G == [i \in 1..(n + 1) |-> [acc \in V |-> S(acc, i)]]
           u == CHOOSE g : g = E(g)
<1>0. n \in Nat /\ 1 \in Int /\ n + 1 \in Int /\ 1 <= n + 1 /\ n + 1 \in 1..(n + 1)
  BY Txs
<1>1. \A i \in 1..(n + 1) : i # n + 1 => i \in 1..n /\ i + 1 \in 1..(n + 1)
  BY <1>0
<1>2. ASSUME NEW i \in 1..n, NEW acc \in V PROVE S(acc, i) \in V
  <2>1. acc.coins \in View /\ acc.clean \in BOOLEAN /\ undo[i] \in [Vtx[b][i].ins -> Nat]
    BY Zenon
  <2>2. DisconnectTx(acc.coins, Vtx[b][i], undo[i]) \in View
    BY <2>1 DEF DisconnectTx, View, Spent
  <2>3. (acc.clean /\ TxClean(acc.coins, Vtx[b][i], Height[b])) \in BOOLEAN
    BY Zenon
  <2> QED BY <2>2, <2>3, Zenon
<1>3. v \in V
  BY Zenon
<1>4. PICK f \in [1..(n + 1) -> V] : \A i \in 1..(n + 1) : f[i] = IF i = n + 1 THEN v ELSE G[i][f[i + 1]]
  <2>1. Passes(1..(n + 1), n + 1, V, G)
    <3> HIDE DEF S, V, n
    <3> QED BY <1>1, <1>2, Zenon DEF Passes
  <2> HIDE DEF n, V, v, G
  <2>2. RunsDown(1, n + 1, V, v, G)
    BY <1>0, <1>3, <2>1, LoopDown, Zenon
  <2> QED BY <2>2, Zenon DEF RunsDown
<1> HIDE DEF V, v, S
<1>5. ASSUME NEW i \in 1..(n + 1) PROVE f[i] = IF i = n + 1 THEN v ELSE S(f[i + 1], i)
  <2>1. CASE i = n + 1
    BY <1>4, <2>1, Zenon
  <2>2. CASE i # n + 1
    <3>1. f[i + 1] \in V
      BY <1>1, <1>4, <2>2, Zenon
    <3> QED BY <1>4, <2>2, <3>1, Zenon
  <2> QED BY <2>1, <2>2, Zenon
<1>6. f = E(f)
  BY <1>4, <1>5, Zenon
<1>7. u = E(u)
  BY <1>6, Zenon
<1>8. DisconnectBlock(m, b, undo) = u[1]
  BY Zenon DEF DisconnectBlock, S, v
<1> HIDE DEF u
<1>9. u[n + 1] = v
  BY <1>0, <1>7, Zenon
<1>10. \A i \in 1..n : i \in 1..(n + 1) /\ i # n + 1
  BY <1>0
<1>11. ASSUME NEW i \in 1..n PROVE u[i] = S(u[i + 1], i)
  BY <1>7, <1>10, Zenon
<1>12. 1..(n + 1) \subseteq {i \in 1..(n + 1) : u[i] \in V}
  <2> DEFINE P == {i \in 1..(n + 1) : u[i] \in V}
  <2>1. n + 1 \in P
    BY <1>0, <1>3, <1>9, Zenon
  <2>2. ASSUME NEW i \in 1..(n + 1), i # n + 1, i + 1 \in P PROVE i \in P
    <3>1. i \in 1..n /\ u[i + 1] \in V
      BY <1>1, <2>2, Zenon
    <3>2. u[i] \in V
      BY <1>2, <1>11, <3>1, Zenon
    <3> QED BY <3>2, Zenon
  <2> HIDE DEF P, n
  <2>3. 1..(n + 1) \subseteq P
    BY <1>0, <2>1, <2>2, Countdown, Zenon
  <2> QED BY <2>3, Zenon DEF P
<1>13. \A i \in 1..n : Undoing(b, undo, u, i)
  BY <1>11, Zenon DEF Undoing, S
<1> QED BY <1>8, <1>9, <1>12, <1>13, Zenon DEF V, v

\* The coins of a chain, block by block.
LEMMA UtxoSteps ==
  /\ Utxo[Genesis] = NoCoins
  /\ \A b \in Blocks : Utxo[b] = ConnectBlock(Utxo[Parent[b]], b)
  /\ \A b \in Tree : Utxo[b] \in View
<1> DEFINE G == [b \in Blocks |-> [x \in View |-> ConnectBlock(x, b)]]
           E(g) == [b \in Tree |-> IF b = Genesis THEN [o \in OutPoints |-> Spent] ELSE ConnectBlock(g[Parent[b]], b)]
<1>1. NoCoins \in View
  BY DEF NoCoins, View, Spent
<1>2. ASSUME NEW b \in Blocks, NEW x \in View PROVE ConnectBlock(x, b) \in View
  <2>1. Len(Vtx[b]) \in 0..Len(Vtx[b])
    BY Txs
  <2> QED BY <2>1, CoinsAfterSteps, Zenon DEF ConnectBlock
<1>3. \A b \in Tree : b # Genesis => b \in Blocks /\ Parent[b] \in Tree
  BY Txs, Zenon DEF Tree
<1>4. Passes(Tree, Genesis, View, G)
  BY <1>2, <1>3, Zenon DEF Passes
<1>5. PICK f \in [Tree -> View] : \A b \in Tree : f[b] = IF b = Genesis THEN NoCoins ELSE G[b][f[Parent[b]]]
  <2> HIDE DEF G
  <2>1. RunsTree(View, NoCoins, G)
    BY <1>1, <1>4, LoopTree, Zenon
  <2> QED BY <2>1, Zenon DEF RunsTree
<1>6. ASSUME NEW b \in Tree PROVE f[b] = IF b = Genesis THEN NoCoins ELSE ConnectBlock(f[Parent[b]], b)
  <2>1. CASE b = Genesis
    BY <1>5, <2>1, Zenon
  <2>2. CASE b # Genesis
    <3>1. b \in Blocks /\ f[Parent[b]] \in View
      BY <1>3, <1>5, <2>2, Zenon
    <3> QED BY <1>5, <2>2, <3>1, Zenon
  <2> QED BY <2>1, <2>2, Zenon
<1>7. f = E(f)
  BY <1>5, <1>6, Zenon DEF NoCoins
<1>8. UtxoOf = E(UtxoOf)
  BY <1>7, Zenon DEF UtxoOf
<1>9. \A b \in Tree : Utxo[b] = UtxoOf[b]
  BY Zenon DEF Utxo
<1>10. ASSUME NEW b \in Tree PROVE Utxo[b] = IF b = Genesis THEN NoCoins ELSE ConnectBlock(Utxo[Parent[b]], b)
  <2>1. UtxoOf[b] = IF b = Genesis THEN [o \in OutPoints |-> Spent] ELSE ConnectBlock(UtxoOf[Parent[b]], b)
    BY <1>8, Zenon
  <2> QED BY <1>3, <1>9, <2>1, Zenon DEF NoCoins
<1>11. Genesis \in Tree /\ \A b \in Blocks : b \in Tree /\ b # Genesis
  BY Heights, Zenon DEF Tree
<1>12. Tree \subseteq {b \in Tree : Utxo[b] \in View}
  <2> DEFINE P == {b \in Tree : Utxo[b] \in View}
  <2>1. Genesis \in P
    BY <1>1, <1>10, <1>11, Zenon
  <2>2. ASSUME NEW b \in Blocks, Parent[b] \in P PROVE b \in P
    BY <1>2, <1>10, <1>11, <2>2, Zenon
  <2> HIDE DEF P
  <2>3. Tree \subseteq P
    BY <2>1, <2>2, AlongTree, Zenon
  <2> QED BY <2>3, Zenon DEF P
<1> QED BY <1>10, <1>11, <1>12, Zenon


\* The chain of a block, from the block to the genesis block.
LEMMA AncestorsSteps ==
  /\ Ancestors[Genesis] = {Genesis}
  /\ \A b \in Blocks : Ancestors[b] = {b} \cup Ancestors[Parent[b]]
  /\ \A b \in Tree : Ancestors[b] \subseteq Tree
<1> DEFINE G == [b \in Blocks |-> [x \in SUBSET Tree |-> {b} \cup x]]
           E(g) == [b \in Tree |-> {b} \cup IF b = Genesis THEN {} ELSE g[Parent[b]]]
<1>1. \A b \in Tree : b # Genesis => b \in Blocks /\ Parent[b] \in Tree
  BY Txs, Zenon DEF Tree
<1>2. Genesis \in Tree /\ \A b \in Blocks : b \in Tree /\ b # Genesis
  BY Heights, Zenon DEF Tree
<1>3. Passes(Tree, Genesis, SUBSET Tree, G)
  <2>1. \A b \in Blocks : \A x \in SUBSET Tree : ({b} \cup x) \in SUBSET Tree
    BY <1>2, Zenon
  <2> QED BY <1>1, <2>1, Zenon DEF Passes
<1>4. PICK f \in [Tree -> SUBSET Tree] : \A b \in Tree : f[b] = IF b = Genesis THEN {Genesis} ELSE G[b][f[Parent[b]]]
  <2> HIDE DEF G
  <2>1. {Genesis} \in SUBSET Tree
    BY <1>2, Zenon
  <2>2. RunsTree(SUBSET Tree, {Genesis}, G)
    BY <1>3, <2>1, LoopTree, Zenon
  <2> QED BY <2>2, Zenon DEF RunsTree
<1>5. ASSUME NEW b \in Tree PROVE f[b] = {b} \cup IF b = Genesis THEN {} ELSE f[Parent[b]]
  <2>1. CASE b = Genesis
    BY <1>4, <2>1, Zenon
  <2>2. CASE b # Genesis
    <3>1. b \in Blocks /\ f[Parent[b]] \in SUBSET Tree
      BY <1>1, <1>4, <2>2, Zenon
    <3> QED BY <1>4, <2>2, <3>1, Zenon
  <2> QED BY <2>1, <2>2, Zenon
<1>6. f = E(f)
  BY <1>4, <1>5, Zenon
<1>7. AncestorsOf = E(AncestorsOf)
  BY <1>6, Zenon DEF AncestorsOf
<1>8. ASSUME NEW b \in Tree PROVE Ancestors[b] = {b} \cup IF b = Genesis THEN {} ELSE Ancestors[Parent[b]]
  <2>1. \A c \in Tree : Ancestors[c] = AncestorsOf[c]
    BY Zenon DEF Ancestors
  <2>2. AncestorsOf[b] = {b} \cup IF b = Genesis THEN {} ELSE AncestorsOf[Parent[b]]
    BY <1>7, Zenon
  <2> QED BY <1>1, <2>1, <2>2, Zenon
<1>9. Ancestors[Genesis] = {Genesis}
  BY <1>2, <1>8, Zenon
<1>10. \A b \in Blocks : Ancestors[b] = {b} \cup Ancestors[Parent[b]]
  BY <1>2, <1>8, Zenon
<1>11. Tree \subseteq {b \in Tree : Ancestors[b] \subseteq Tree}
  <2> DEFINE P == {b \in Tree : Ancestors[b] \subseteq Tree}
  <2>1. Genesis \in P
    BY <1>2, <1>9, Zenon
  <2>2. ASSUME NEW b \in Blocks, Parent[b] \in P PROVE b \in P
    BY <1>2, <1>10, <2>2, Zenon
  <2> HIDE DEF P
  <2>3. Tree \subseteq P
    BY <2>1, <2>2, AlongTree, Zenon
  <2> QED BY <2>3, Zenon DEF P
<1> QED BY <1>9, <1>10, <1>11, Zenon

\* A chain holds one block at each height up to its tip's, and its tip is above
\* all others.
Chainlike(b) ==
  /\ b \in Ancestors[b] /\ Genesis \in Ancestors[b]
  /\ \A a \in Ancestors[b] : a \in Tree /\ Height[a] <= Height[b] /\ Ancestors[a] \subseteq Ancestors[b]
  /\ \A a \in Ancestors[b] : a \in Blocks => Parent[a] \in Ancestors[b]
  /\ \A a, c \in Ancestors[b] : Height[a] = Height[c] => a = c
  /\ \A h \in 0..Height[b] : \E a \in Ancestors[b] : Height[a] = h

LEMMA ChainOf ==
  ASSUME NEW b \in Tree
  PROVE  Chainlike(b)
<1> DEFINE P == {x \in Tree : Chainlike(x)}
<1>1. Genesis \in P
  <2>1. Genesis \in Tree /\ Genesis \notin Blocks /\ Height[Genesis] = 0 /\ Ancestors[Genesis] = {Genesis}
    BY Heights, Rooted, AncestorsSteps, Zenon
  <2> QED BY <2>1 DEF Chainlike
<1>2. ASSUME NEW x \in Blocks, Parent[x] \in P PROVE x \in P
  <2> DEFINE p == Parent[x]
  <2>1. x \in Tree /\ p \in Tree /\ Height[x] = Height[p] + 1 /\ Height[p] \in Nat /\ \A c \in Tree : Height[c] \in Nat
    BY Rooted, Txs, Heights
  <2>2. Ancestors[x] = {x} \cup Ancestors[p]
    BY AncestorsSteps, Zenon
  <2>3. Chainlike(p)
    BY <1>2, Zenon
  <2> HIDE DEF p
  <2>4. \A a \in Ancestors[p] : a \in Tree /\ Height[a] <= Height[p] /\ Height[a] < Height[x] /\ Height[a] <= Height[x]
    <3>1. \A a \in Ancestors[p] : a \in Tree /\ Height[a] <= Height[p]
      BY <2>3, Zenon DEF Chainlike
    <3> QED BY <2>1, <3>1
  <2>5. \A a, c \in Ancestors[x] : Height[a] = Height[c] => a = c
    <3>1. \A a \in Ancestors[p] : Height[a] # Height[x]
      BY <2>1, <2>4
    <3>2. \A a, c \in Ancestors[p] : Height[a] = Height[c] => a = c
      BY <2>3, Zenon DEF Chainlike
    <3> QED BY <2>2, <3>1, <3>2, Zenon
  <2>6. \A h \in 0..Height[x] : \E a \in Ancestors[x] : Height[a] = h
    <3>1. \A h \in 0..Height[x] : h = Height[x] \/ h \in 0..Height[p]
      BY <2>1
    <3>2. \A h \in 0..Height[p] : \E a \in Ancestors[p] : Height[a] = h
      BY <2>3, Zenon DEF Chainlike
    <3> QED BY <2>2, <3>1, <3>2, Zenon
  <2>7. \A a \in Ancestors[x] : a \in Tree /\ Height[a] <= Height[x] /\ Ancestors[a] \subseteq Ancestors[x]
    <3>1. \A a \in Ancestors[p] : Ancestors[a] \subseteq Ancestors[p]
      BY <2>3, Zenon DEF Chainlike
    <3>2. Height[x] <= Height[x]
      BY <2>1
    <3> QED BY <2>1, <2>2, <2>4, <3>1, <3>2, Zenon
  <2>8. \A a \in Ancestors[x] : a \in Blocks => Parent[a] \in Ancestors[x]
    BY <2>2, <2>3, Zenon DEF Chainlike, p
  <2>9. x \in Ancestors[x] /\ Genesis \in Ancestors[x]
    BY <2>2, <2>3, Zenon DEF Chainlike
  <2>10. Chainlike(x)
    BY <2>5, <2>6, <2>7, <2>8, <2>9, Zenon DEF Chainlike
  <2> QED BY <2>1, <2>10, Zenon
<1> HIDE DEF P
<1>3. Tree \subseteq P
  BY <1>1, <1>2, AlongTree, Zenon
<1> QED BY <1>3, Zenon DEF P

\* GetAncestor finds the block of a chain at each height.
LEMMA AncestorAt ==
  ASSUME NEW b \in Tree
  PROVE  /\ \A h \in 0..Height[b] : GetAncestor(b, h) \in Ancestors[b] /\ Height[GetAncestor(b, h)] = h
         /\ \A a \in Ancestors[b] : GetAncestor(b, Height[a]) = a
<1>1. ASSUME NEW h, NEW a \in Ancestors[b], Height[a] = h
      PROVE  GetAncestor(b, h) \in Ancestors[b] /\ Height[GetAncestor(b, h)] = h /\ GetAncestor(b, h) = a
  <2>1. GetAncestor(b, h) \in Ancestors[b] /\ Height[GetAncestor(b, h)] = h
    BY <1>1, Zenon DEF GetAncestor
  <2>2. GetAncestor(b, h) = a
    BY <1>1, <2>1, ChainOf, Zenon DEF Chainlike
  <2> QED BY <2>1, <2>2, Zenon
<1>2. \A h \in 0..Height[b] : \E a \in Ancestors[b] : Height[a] = h
  BY ChainOf, Zenon DEF Chainlike
<1>3. \A h \in 0..Height[b] : GetAncestor(b, h) \in Ancestors[b] /\ Height[GetAncestor(b, h)] = h
  BY <1>1, <1>2, Zenon
<1>4. \A a \in Ancestors[b] : GetAncestor(b, Height[a]) = a
  BY <1>1, Zenon
<1> QED BY <1>3, <1>4, Zenon


\* The block below another one of a chain is its parent.
LEMMA AncestorBelow ==
  ASSUME NEW b \in Tree, NEW k \in Int, 0 < k, k <= Height[b]
  PROVE  /\ GetAncestor(b, k) \in Blocks /\ GetAncestor(b, k) \in Ancestors[b] /\ Height[GetAncestor(b, k)] = k
         /\ Parent[GetAncestor(b, k)] = GetAncestor(b, k - 1)
<1> DEFINE a == GetAncestor(b, k)
<1>1. k \in 0..Height[b] /\ k - 1 \in 0..Height[b]
  BY Heights
<1>2. a \in Ancestors[b] /\ Height[a] = k
  BY <1>1, AncestorAt, Zenon
<1> HIDE DEF a
<1>3. a \in Tree
  BY <1>2, ChainOf, Zenon DEF Chainlike
<1>4. a \in Blocks
  <2>1. k # 0
    OBVIOUS
  <2> QED BY <1>2, <1>3, <2>1, Rooted, Zenon DEF Tree
<1>5. Parent[a] \in Ancestors[b] /\ Parent[a] \in Tree
  BY <1>2, <1>4, ChainOf, Txs, Zenon DEF Chainlike
<1>6. Height[Parent[a]] = k - 1
  <2>1. Height[a] = Height[Parent[a]] + 1 /\ Height[Parent[a]] \in Nat
    BY <1>4, <1>5, Rooted, Heights, Zenon
  <2> QED BY <1>2, <2>1
<1>7. Parent[a] = GetAncestor(b, k - 1)
  BY <1>5, <1>6, AncestorAt, Zenon
<1> QED BY <1>2, <1>4, <1>7, Zenon DEF a

\* The fork is a block of both chains.
LEMMA ForkOfBoth ==
  ASSUME NEW a \in Tree, NEW b \in Tree
  PROVE  LastCommonAncestor(a, b) \in Ancestors[a] /\ LastCommonAncestor(a, b) \in Ancestors[b]
<1> DEFINE common == Ancestors[a] \cap Ancestors[b]
           S == {Height[a] - Height[d] : d \in common}
<1>1. Genesis \in common /\ \A d \in common : Height[d] \in Nat /\ Height[d] <= Height[a]
  BY ChainOf, Heights, Zenon DEF Chainlike
<1>2. Height[a] \in Nat
  BY Heights, Zenon
<1>3. S \subseteq Nat /\ S # {}
  <2> HIDE DEF common
  <2> QED BY <1>1, <1>2
<1>4. PICK n \in S : \A k \in S : ~(k < n)
  <2> HIDE DEF S
  <2> QED BY <1>3, LeastNumber, Zenon
<1>5. PICK c \in common : n = Height[a] - Height[c]
  BY Zenon
<1>6. \A d \in common : ~(Height[a] - Height[d] < Height[a] - Height[c])
  BY <1>4, <1>5, Zenon
<1>7. \A d \in common : Height[d] <= Height[c]
  <2> HIDE DEF common
  <2> QED BY <1>1, <1>2, <1>6
<1> QED BY <1>7, Zenon DEF LastCommonAncestor

(***************************************************************************)
(* What a block does to one outpoint.                                      *)
(***************************************************************************)
Touches(b, i) == Vtx[b][i].ins \cup Vtx[b][i].outs

LEMMA TouchedSome ==
  ASSUME NEW b \in Blocks, NEW o
  PROVE  o \in TouchedBy(b) <=> \E i \in 1..Len(Vtx[b]) : o \in Touches(b, i)
<1>1. DOMAIN Vtx[b] = 1..Len(Vtx[b])
  <2>1. Vtx[b] \in Seq([ins : SUBSET OutPoints, outs : SUBSET OutPoints])
    BY TreeShape, Zenon
  <2>2. \A T : \A s \in Seq(T) : DOMAIN s = 1..Len(s)
    OBVIOUS
  <2> QED BY <2>1, <2>2, Zenon
<1> QED BY <1>1, Zenon DEF TouchedBy, Touches

\* A block leaves an outpoint that it does not name, and what it makes of one that
\* it names does not depend on the coins.
LEMMA ConnectBlockAt ==
  ASSUME NEW b \in Blocks, NEW m \in View, NEW o \in OutPoints
  PROVE  /\ o \notin TouchedBy(b) => ConnectBlock(m, b)[o] = m[o]
         /\ \A w \in View : o \in TouchedBy(b) => ConnectBlock(m, b)[o] = ConnectBlock(w, b)[o]
<1> DEFINE n == Len(Vtx[b])
           Named(k) == \E i \in 1..k : o \in Touches(b, i)
<1>0. n \in Nat /\ 0 \in Int /\ n \in Int /\ 0 \in 0..n /\ n \in 0..n
  BY Txs
<1>1. ASSUME NEW k \in 0..n, k # 0
      PROVE  k \in 1..n /\ k \in 1..k /\ k - 1 \in 0..n /\ \A i : i \in 1..k <=> i = k \/ i \in 1..(k - 1)
  BY <1>0, <1>1
<1>2. ASSUME NEW w \in View
      PROVE  0..n \subseteq {k \in 0..n : IF Named(k) THEN CoinsAfter(m, b, k)[o] = CoinsAfter(w, b, k)[o]
                                          ELSE CoinsAfter(m, b, k)[o] = m[o]}
  <2> DEFINE P == {k \in 0..n : IF Named(k) THEN CoinsAfter(m, b, k)[o] = CoinsAfter(w, b, k)[o]
                                ELSE CoinsAfter(m, b, k)[o] = m[o]}
  <2>1. 0 \in P
    <3>1. ~Named(0)
      OBVIOUS
    <3>2. CoinsAfter(m, b, 0) = m
      BY CoinsAfterSteps, Zenon
    <3> QED BY <1>0, <3>1, <3>2, Zenon
  <2>2. ASSUME NEW k \in 0..n, k # 0, k - 1 \in P PROVE k \in P
    <3>1. /\ CoinsAfter(m, b, k) = ConnectTx(CoinsAfter(m, b, k - 1), Vtx[b][k], Height[b])
          /\ CoinsAfter(w, b, k) = ConnectTx(CoinsAfter(w, b, k - 1), Vtx[b][k], Height[b])
      BY <1>1, <2>2, CoinsAfterSteps, Zenon
    <3>2. k \in 1..n
      BY <1>1, <2>2, Zenon
    <3>5. \A q, r : /\ o \notin Touches(b, k) => ConnectTx(q, Vtx[b][k], Height[b])[o] = q[o]
                    /\ o \in Touches(b, k) => ConnectTx(q, Vtx[b][k], Height[b])[o] = ConnectTx(r, Vtx[b][k], Height[b])[o]
      BY Zenon DEF Touches, ConnectTx
    <3>3. CASE o \in Touches(b, k)
      <4>1. Named(k)
        BY <1>1, <2>2, <3>3, Zenon
      <4>2. CoinsAfter(m, b, k)[o] = CoinsAfter(w, b, k)[o]
        BY <3>1, <3>3, <3>5, Zenon
      <4> QED BY <4>1, <4>2, Zenon
    <3>4. CASE o \notin Touches(b, k)
      <4>1. Named(k) <=> Named(k - 1)
        BY <1>1, <2>2, <3>4, Zenon
      <4>2. CoinsAfter(m, b, k)[o] = CoinsAfter(m, b, k - 1)[o] /\ CoinsAfter(w, b, k)[o] = CoinsAfter(w, b, k - 1)[o]
        BY <3>1, <3>4, <3>5, Zenon
      <4> HIDE DEF Named
      <4> QED BY <2>2, <4>1, <4>2, Zenon
    <3> QED BY <3>3, <3>4, Zenon
  <2> HIDE DEF P, n
  <2>3. 0..n \subseteq P
    BY <1>0, <2>1, <2>2, Count
  <2> QED BY <2>3, Zenon DEF P
<1>3. \A w \in View : IF Named(n) THEN ConnectBlock(m, b)[o] = ConnectBlock(w, b)[o] ELSE ConnectBlock(m, b)[o] = m[o]
  BY <1>0, <1>2, Zenon DEF ConnectBlock
<1>4. o \in TouchedBy(b) <=> Named(n)
  BY TouchedSome, Zenon
<1> QED BY <1>3, <1>4, Zenon


\* DisconnectBlock with the undo record of the block puts every outpoint the block
\* names back, whatever the coins were, and leaves the others; on the coins of the
\* block's own chain it is clean.  That makes a replay idempotent.
Undone(undone, m, b) ==
  /\ undone.coins \in View
  /\ \A o \in OutPoints : undone.coins[o] = IF o \in TouchedBy(b) THEN Utxo[Parent[b]][o] ELSE m[o]
  /\ m = Utxo[b] => undone.clean /\ undone.coins = Utxo[Parent[b]]

THEOREM UndoneBlock ==
  ASSUME NEW b \in Blocks, NEW m \in View
  PROVE  Undone(DisconnectBlock(m, b, BlockUndo(Utxo[Parent[b]], b)), m, b)
<1> DEFINE n == Len(Vtx[b])
           U == Utxo[Parent[b]]
           undo == BlockUndo(U, b)
           C(k) == CoinsAfter(U, b, k)
           h == Height[b]
<1>0. n \in Nat /\ 1 \in Int /\ n + 1 \in Int /\ n \in 0..n /\ 1 \in 1..(n + 1) /\ n + 1 \in 1..(n + 1) /\ n + 1 - 1 = n /\ 1 - 1 = 0
  BY Txs
<1>1. U \in View
  BY Txs, UtxoSteps, Zenon
<1>2. /\ C(0) = U
      /\ \A k \in 1..n : C(k) = ConnectTx(C(k - 1), Vtx[b][k], h)
      /\ \A k \in 0..n : C(k) \in View
  <2> HIDE DEF U
  <2> QED BY <1>1, CoinsAfterSteps, Zenon
<1>3. Utxo[b] = C(n)
  BY UtxoSteps, Zenon DEF ConnectBlock
<1>4. ASSUME NEW i \in 1..n
      PROVE  /\ \A o \in Vtx[b][i].ins : C(i - 1)[o] # Spent
             /\ \A o \in Vtx[b][i].outs : C(i - 1)[o] = Spent
             /\ Vtx[b][i].ins \subseteq OutPoints /\ Vtx[b][i].outs \subseteq OutPoints
  BY ChainsValid, Txs, Zenon
<1>5. ASSUME NEW i \in 1..n
      PROVE  i - 1 \in 0..n /\ i \in 0..n /\ i + 1 - 1 = i /\ i + 1 \in 1..(n + 1) /\ i # n + 1
             /\ i \in i..n /\ \A j : j \in i..n <=> j = i \/ j \in (i + 1)..n
  BY <1>0
<1>6. ASSUME NEW i \in 1..n PROVE undo[i] = [o \in Vtx[b][i].ins |-> C(i - 1)[o]] /\ undo[i] \in [Vtx[b][i].ins -> Nat]
  <2>1. undo[i] = [o \in Vtx[b][i].ins |-> C(i - 1)[o]]
    BY Zenon DEF BlockUndo
  <2>2. C(i - 1) \in View /\ Vtx[b][i].ins \subseteq OutPoints
    BY <1>2, <1>4, <1>5, Zenon
  <2>3. \A o \in Vtx[b][i].ins : C(i - 1)[o] \in Nat
    <3> HIDE DEF C
    <3> QED BY <2>2, Zenon DEF View
  <2> QED BY <2>1, <2>3, Zenon
<1> HIDE DEF n, undo, C
<1>7. PICK u : /\ DisconnectBlock(m, b, undo) = u[1]
               /\ u[n + 1] = [coins |-> m, clean |-> TRUE]
               /\ \A i \in 1..n : Undoing(b, undo, u, i)
               /\ \A i \in 1..(n + 1) : u[i] \in [coins : View, clean : BOOLEAN]
  <2>1. \A i \in 1..Len(Vtx[b]) : undo[i] \in [Vtx[b][i].ins -> Nat]
    BY <1>6, Zenon DEF n
  <2> QED BY <2>1, DisconnectSteps, ZenonT(40) DEF n
<1>8. u[1].coins \in View
  BY <1>0, <1>7, Zenon
<1>11. \A r, x, y : r = [coins |-> x, clean |-> y] => r.coins = x /\ r.clean = y
  OBVIOUS
<1>12. u[n + 1].coins = m /\ u[n + 1].clean
  <2>1. u[n + 1].clean = TRUE /\ u[n + 1].coins = m
    BY <1>7, <1>11
  <2> QED BY <2>1, Zenon
<1>13. \A i \in 1..n : /\ u[i].coins = DisconnectTx(u[i + 1].coins, Vtx[b][i], undo[i])
                       /\ u[i].clean = (u[i + 1].clean /\ TxClean(u[i + 1].coins, Vtx[b][i], h))
  <2>1. \A i \in 1..n : u[i] = [coins |-> DisconnectTx(u[i + 1].coins, Vtx[b][i], undo[i]),
                                 clean |-> u[i + 1].clean /\ TxClean(u[i + 1].coins, Vtx[b][i], h)]
    BY <1>7, Zenon DEF Undoing
  <2>2. ASSUME NEW i \in 1..n
        PROVE  /\ u[i].coins = DisconnectTx(u[i + 1].coins, Vtx[b][i], undo[i])
               /\ u[i].clean = (u[i + 1].clean /\ TxClean(u[i + 1].coins, Vtx[b][i], h))
    <3> DEFINE c == DisconnectTx(u[i + 1].coins, Vtx[b][i], undo[i])
               d == u[i + 1].clean /\ TxClean(u[i + 1].coins, Vtx[b][i], h)
    <3>1. u[i] = [coins |-> c, clean |-> d]
      BY <2>1, Zenon
    <3> HIDE DEF c, d
    <3>2. u[i].coins = c /\ u[i].clean = d
      BY <1>11, <3>1
    <3> QED BY <3>2, Zenon DEF c, d
  <2> QED BY <2>2, Zenon
<1>9. ASSUME NEW o \in OutPoints PROVE u[1].coins[o] = IF o \in TouchedBy(b) THEN U[o] ELSE m[o]
  <2> DEFINE Named(i) == \E j \in i..n : o \in Touches(b, j)
             P == {i \in 1..(n + 1) : u[i].coins[o] = IF Named(i) THEN C(i - 1)[o] ELSE m[o]}
  <2>1. n + 1 \in P
    <3>1. ~Named(n + 1)
      BY <1>0
    <3>2. u[n + 1].coins = m
      BY <1>12, Zenon
    <3> QED BY <1>0, <3>1, <3>2, Zenon
  <2>2. ASSUME NEW i \in 1..(n + 1), i # n + 1, i + 1 \in P PROVE i \in P
    <3>1. i \in 1..n
      BY <1>0, <2>2
    <3>2. u[i].coins[o] = IF o \in Vtx[b][i].ins THEN undo[i][o]
                          ELSE IF o \in Vtx[b][i].outs THEN Spent ELSE u[i + 1].coins[o]
      <4>1. u[i].coins = DisconnectTx(u[i + 1].coins, Vtx[b][i], undo[i])
        BY <1>13, <3>1, Zenon
      <4> QED BY <4>1, Zenon DEF DisconnectTx
    <3>3. CASE o \in Touches(b, i)
      <4>1. Named(i)
        BY <1>5, <3>1, <3>3, Zenon
      <4>2. u[i].coins[o] = C(i - 1)[o]
        <5>1. CASE o \in Vtx[b][i].ins
          BY <1>6, <3>1, <3>2, <5>1, Zenon
        <5>2. CASE o \notin Vtx[b][i].ins
          BY <1>4, <3>1, <3>2, <3>3, <5>2, Zenon DEF Touches
        <5> QED BY <5>1, <5>2, Zenon
      <4> QED BY <4>1, <4>2, Zenon
    <3>4. CASE o \notin Touches(b, i)
      <4>1. Named(i) <=> Named(i + 1)
        BY <1>5, <3>1, <3>4, Zenon
      <4>2. u[i].coins[o] = u[i + 1].coins[o]
        BY <3>2, <3>4, Zenon DEF Touches
      <4>3. C(i)[o] = C(i - 1)[o]
        BY <1>2, <3>1, <3>4, Zenon DEF Touches, ConnectTx
      <4>4. i + 1 - 1 = i
        BY <1>5, <3>1, Zenon
      <4> HIDE DEF Named
      <4>5. u[i + 1].coins[o] = IF Named(i + 1) THEN C(i + 1 - 1)[o] ELSE m[o]
        BY <2>2
      <4> QED BY <4>1, <4>2, <4>3, <4>4, <4>5, Zenon
    <3> QED BY <3>3, <3>4, Zenon
  <2>3. 1..(n + 1) \subseteq P
    <3> HIDE DEF P
    <3> QED BY <1>0, <2>1, <2>2, Countdown, Zenon
  <2>4. u[1].coins[o] = IF Named(1) THEN C(0)[o] ELSE m[o]
    BY <1>0, <2>3, Zenon
  <2>5. Named(1) <=> o \in TouchedBy(b)
    BY TouchedSome, Zenon DEF n
  <2> HIDE DEF Named
  <2> QED BY <1>2, <2>4, <2>5, Zenon
<1>10. ASSUME m = Utxo[b] PROVE u[1].clean /\ u[1].coins = U
  <2> DEFINE P == {i \in 1..(n + 1) : u[i].clean /\ u[i].coins = C(i - 1)}
  <2>1. n + 1 \in P
    BY <1>0, <1>3, <1>10, <1>12
  <2>2. ASSUME NEW i \in 1..(n + 1), i # n + 1, i + 1 \in P PROVE i \in P
    <3>1. i \in 1..n
      BY <1>0, <2>2
    <3>2. u[i + 1].clean /\ u[i + 1].coins = C(i)
      <4>1. u[i + 1].clean /\ u[i + 1].coins = C(i + 1 - 1)
        BY <2>2
      <4>2. i + 1 - 1 = i
        BY <1>5, <3>1, Zenon
      <4> QED BY <4>1, <4>2, Zenon
    <3>3. C(i) = ConnectTx(C(i - 1), Vtx[b][i], h)
      BY <1>2, <3>1, Zenon
    <3>4. TxClean(C(i), Vtx[b][i], h)
      BY <1>4, <3>1, <3>3, Zenon DEF TxClean, ConnectTx
    <3>5. DisconnectTx(C(i), Vtx[b][i], undo[i]) = C(i - 1)
      <4>1. C(i - 1) \in View
        BY <1>2, <1>5, <3>1, Zenon
      <4>2. ASSUME NEW o \in OutPoints PROVE DisconnectTx(C(i), Vtx[b][i], undo[i])[o] = C(i - 1)[o]
        <5>1. CASE o \in Vtx[b][i].ins
          BY <1>6, <3>1, <5>1, Zenon DEF DisconnectTx
        <5>2. CASE o \notin Vtx[b][i].ins /\ o \in Vtx[b][i].outs
          BY <1>4, <3>1, <5>2, Zenon DEF DisconnectTx
        <5>3. CASE o \notin Vtx[b][i].ins /\ o \notin Vtx[b][i].outs
          BY <3>3, <5>3, Zenon DEF DisconnectTx, ConnectTx
        <5> QED BY <5>1, <5>2, <5>3, Zenon
      <4>3. DisconnectTx(C(i), Vtx[b][i], undo[i]) = [o \in OutPoints |-> DisconnectTx(C(i), Vtx[b][i], undo[i])[o]]
        BY Zenon DEF DisconnectTx
      <4>4. C(i - 1) = [o \in OutPoints |-> C(i - 1)[o]]
        BY <4>1, Zenon DEF View
      <4> QED BY <4>2, <4>3, <4>4, Zenon
    <3>6. u[i].clean /\ u[i].coins = C(i - 1)
      <4>1. /\ u[i].coins = DisconnectTx(u[i + 1].coins, Vtx[b][i], undo[i])
            /\ u[i].clean = (u[i + 1].clean /\ TxClean(u[i + 1].coins, Vtx[b][i], h))
        BY <1>13, <3>1, Zenon
      <4>2. TxClean(u[i + 1].coins, Vtx[b][i], h) /\ DisconnectTx(u[i + 1].coins, Vtx[b][i], undo[i]) = C(i - 1)
        BY <3>2, <3>4, <3>5, Zenon
      <4>3. u[i].clean = TRUE
        BY <3>2, <4>1, <4>2, Zenon
      <4> QED BY <4>1, <4>2, <4>3, Zenon
    <3> QED BY <3>6, Zenon
  <2>3. 1..(n + 1) \subseteq P
    <3> HIDE DEF P
    <3> QED BY <1>0, <2>1, <2>2, Countdown, Zenon
  <2> QED BY <1>0, <1>2, <2>3, Zenon
<1> QED BY <1>7, <1>8, <1>9, <1>10, Zenon DEF undo, Undone


(***************************************************************************)
(* A replay.  The coins it starts from are, outpoint by outpoint, those of *)
(* the old tip or those of the new one.  Every block it undoes or redoes   *)
(* settles the outpoints it names and leaves the others, which it could    *)
(* not tell apart.                                                         *)
(***************************************************************************)
Between(m, c, d) == m \in View /\ \A o \in OutPoints : m[o] = c[o] \/ m[o] = d[o]
Keeps(b, m, w) == \A o \in OutPoints : o \notin TouchedBy(b) => w[o] = m[o]

LEMMA BackOne ==
  ASSUME NEW b \in Blocks, NEW d, NEW m, Between(m, Utxo[b], d),
         NEW back, back = DisconnectBlock(m, b, BlockUndo(Utxo[Parent[b]], b)).coins
  PROVE  Between(back, Utxo[Parent[b]], d) /\ Keeps(b, m, back)
<1>1. m \in View /\ \A o \in OutPoints : m[o] = Utxo[b][o] \/ m[o] = d[o]
  BY Zenon DEF Between
<1>2. back \in View /\ \A o \in OutPoints : back[o] = IF o \in TouchedBy(b) THEN Utxo[Parent[b]][o] ELSE m[o]
  <2>1. Undone(DisconnectBlock(m, b, BlockUndo(Utxo[Parent[b]], b)), m, b)
    BY <1>1, UndoneBlock, Zenon
  <2> QED BY <2>1, Zenon DEF Undone
<1>3. \A o \in OutPoints : o \notin TouchedBy(b) => Utxo[b][o] = Utxo[Parent[b]][o]
  BY Txs, UtxoSteps, ConnectBlockAt
<1>4. \A o \in OutPoints : back[o] = Utxo[Parent[b]][o] \/ back[o] = d[o]
  BY <1>1, <1>2, <1>3, Zenon
<1> QED BY <1>2, <1>4, Zenon DEF Between, Keeps

LEMMA ForwardOne ==
  ASSUME NEW b \in Blocks, NEW d, NEW m, Between(m, Utxo[Parent[b]], d)
  PROVE  Between(ConnectBlock(m, b), Utxo[b], d) /\ Keeps(b, m, ConnectBlock(m, b))
<1> DEFINE n == Len(Vtx[b])
<1>1. m \in View /\ \A o \in OutPoints : m[o] = Utxo[Parent[b]][o] \/ m[o] = d[o]
  BY Zenon DEF Between
<1>2. Utxo[Parent[b]] \in View /\ Utxo[b] = ConnectBlock(Utxo[Parent[b]], b)
  BY Txs, UtxoSteps, Zenon
<1>3. ConnectBlock(m, b) \in View
  <2>1. n \in 0..n
    BY Txs
  <2> QED BY <1>1, <2>1, CoinsAfterSteps, Zenon DEF ConnectBlock
<1>4. ASSUME NEW o \in OutPoints
      PROVE  /\ o \notin TouchedBy(b) => ConnectBlock(m, b)[o] = m[o] /\ Utxo[b][o] = Utxo[Parent[b]][o]
             /\ o \in TouchedBy(b) => ConnectBlock(m, b)[o] = Utxo[b][o]
  BY <1>1, <1>2, ConnectBlockAt
<1>5. \A o \in OutPoints : ConnectBlock(m, b)[o] = Utxo[b][o] \/ ConnectBlock(m, b)[o] = d[o]
  BY <1>1, <1>4, Zenon
<1> QED BY <1>3, <1>4, <1>5, Zenon DEF Between, Keeps

\* The rollback comes down to the coins of the block at height h of the old chain,
\* except where the database had those of the new tip.
LEMMA RollbackResult ==
  ASSUME NEW old \in Tree, NEW d, NEW h \in Int, 0 <= h, h <= Height[old], Between(db, Utxo[old], d),
         \A a \in Ancestors[old] : Height[a] > h => revData[a] = BlockUndo(Utxo[Parent[a]], a)
  PROVE  /\ Between(RolledBack(old, h), Utxo[GetAncestor(old, h)], d)
         /\ \A o \in OutPoints :
              (\A a \in Ancestors[old] : Height[a] > h => o \notin TouchedBy(a)) => RolledBack(old, h)[o] = db[o]
<1> DEFINE t == Height[old]
           A(k) == GetAncestor(old, k)
           S(m, k) == DisconnectBlock(m, A(k + 1), revData[A(k + 1)]).coins
           E(g) == [k \in h..t |-> IF k = t THEN db ELSE S(g[k + 1], k)]
           W == {m \in View : TRUE}
           back == CHOOSE g : g = E(g)
<1>0. t \in Int /\ h \in h..t /\ t \in h..t
  BY Heights
<1>1. ASSUME NEW k \in h..t, k # t
      PROVE  /\ k \in Int /\ k + 1 \in h..t /\ A(k + 1) \in Blocks /\ A(k + 1) \in Ancestors[old] /\ Height[A(k + 1)] > h
             /\ Parent[A(k + 1)] = A(k)
             /\ revData[A(k + 1)] = BlockUndo(Utxo[A(k)], A(k + 1))
  <2>1. k \in Int /\ k + 1 \in Int /\ 0 < k + 1 /\ k + 1 <= t /\ k + 1 > h /\ k + 1 \in h..t /\ k + 1 - 1 = k
    BY <1>0, <1>1
  <2>2. /\ A(k + 1) \in Blocks /\ A(k + 1) \in Ancestors[old] /\ Height[A(k + 1)] = k + 1
        /\ Parent[A(k + 1)] = GetAncestor(old, k + 1 - 1)
    BY <2>1, AncestorBelow
  <2>3. Parent[A(k + 1)] = A(k)
    BY <2>1, <2>2, Zenon
  <2>4. revData[A(k + 1)] = BlockUndo(Utxo[Parent[A(k + 1)]], A(k + 1))
    BY <2>1, <2>2, Zenon
  <2> HIDE DEF A
  <2> QED BY <2>1, <2>2, <2>3, <2>4, Zenon
<1>2. ASSUME NEW k \in h..t, k # t, NEW m \in View PROVE S(m, k) \in View
  <2>1. /\ A(k + 1) \in Blocks /\ revData[A(k + 1)] = BlockUndo(Utxo[Parent[A(k + 1)]], A(k + 1))
    BY <1>1, <1>2, Zenon
  <2> HIDE DEF A
  <2> QED BY <1>2, <2>1, UndoneBlock, Zenon DEF Undone
<1> HIDE DEF A, t
<1>3. back = E(back)
  <2> DEFINE G == [k \in h..t |-> [m \in View |-> S(m, k)]]
  <2>1. Passes(h..t, t, View, G)
    <3> HIDE DEF S
    <3> QED BY <1>2, Zenon DEF Passes
  <2>2. PICK f \in [h..t -> View] : \A k \in h..t : f[k] = IF k = t THEN db ELSE G[k][f[k + 1]]
    <3>1. db \in View
      BY Zenon DEF Between
    <3>2. h <= t
      BY DEF t
    <3> HIDE DEF G
    <3>3. RunsDown(h, t, View, db, G)
      BY <1>0, <2>1, <3>1, <3>2, LoopDown, Zenon
    <3> QED BY <3>3, Zenon DEF RunsDown
  <2> HIDE DEF S
  <2>3. ASSUME NEW k \in h..t PROVE f[k] = IF k = t THEN db ELSE S(f[k + 1], k)
    <3>1. CASE k = t
      BY <2>2, <3>1, Zenon
    <3>2. CASE k # t
      <4>1. f[k + 1] \in View
        BY <1>1, <2>2, <3>2, Zenon
      <4> QED BY <2>2, <3>2, <4>1, Zenon
    <3> QED BY <3>1, <3>2, Zenon
  <2>4. f = E(f)
    BY <2>2, <2>3, Zenon
  <2> QED BY <2>4, Zenon
<1>4. RolledBack(old, h) = back[h]
  <2>1. old # NullHash
    BY TreeShape, Zenon
  <2> QED BY <2>1, Zenon DEF RolledBack, t, A
<1> HIDE DEF back
<1>5. back[t] = db /\ \A k \in h..t : k # t => back[k] = S(back[k + 1], k)
  <2> HIDE DEF S
  <2> QED BY <1>0, <1>3, Zenon
<1> DEFINE Left(k) == \A o \in OutPoints :
             (\A a \in Ancestors[old] : Height[a] > h => o \notin TouchedBy(a)) => back[k][o] = db[o]
           P == {k \in h..t : Between(back[k], Utxo[A(k)], d) /\ Left(k)}
<1>6. t \in P
  <2>1. A(t) = old
    BY AncestorAt, ChainOf, Zenon DEF A, t, Chainlike
  <2> QED BY <1>0, <1>5, <2>1, Zenon
<1>7. ASSUME NEW k \in h..t, k # t, k + 1 \in P PROVE k \in P
  <2> DEFINE b == A(k + 1)
  <2>1. Between(back[k + 1], Utxo[b], d) /\ Left(k + 1)
    BY <1>7, Zenon
  <2>2. b \in Blocks /\ b \in Ancestors[old] /\ Height[b] > h /\ Parent[b] = A(k) /\ revData[b] = BlockUndo(Utxo[Parent[b]], b)
    BY <1>1, <1>7, Zenon
  <2>3. back[k] = DisconnectBlock(back[k + 1], b, BlockUndo(Utxo[Parent[b]], b)).coins
    BY <1>5, <1>7, <2>2, Zenon
  <2> HIDE DEF b
  <2>4. Between(back[k], Utxo[Parent[b]], d) /\ Keeps(b, back[k + 1], back[k])
    <3> HIDE DEF Left
    <3> QED BY <2>1, <2>2, <2>3, BackOne, Zenon
  <2>5. Left(k)
    BY <2>1, <2>2, <2>4, Zenon DEF Keeps
  <2> HIDE DEF Left
  <2> QED BY <2>2, <2>4, <2>5, Zenon
<1>8. h..t \subseteq P
  <2> HIDE DEF P
  <2> QED BY <1>0, <1>6, <1>7, Countdown, Zenon
<1> QED BY <1>0, <1>4, <1>8, Zenon DEF A


\* The roll forward arrives at the coins of the new tip.
LEMMA RollforwardResult ==
  ASSUME NEW new \in Tree, NEW m, NEW h \in Int, 0 <= h, h <= Height[new],
         Between(m, Utxo[GetAncestor(new, h)], Utxo[new])
  PROVE  /\ RolledForward(m, new, h) = Utxo[new]
         /\ \A o \in OutPoints :
              (\A a \in Ancestors[new] : Height[a] > h => o \notin TouchedBy(a)) => Utxo[new][o] = m[o]
<1> DEFINE t == Height[new]
           A(k) == GetAncestor(new, k)
           d == Utxo[new]
           E(g) == [k \in h..t |-> IF k = h THEN m ELSE ConnectBlock(g[k - 1], A(k))]
           forward == CHOOSE g : g = E(g)
<1>0. t \in Int /\ h \in h..t /\ t \in h..t
  BY Heights
<1>1. ASSUME NEW k \in h..t, k # h
      PROVE  k - 1 \in h..t /\ A(k) \in Blocks /\ A(k) \in Ancestors[new] /\ Height[A(k)] > h /\ Parent[A(k)] = A(k - 1)
  <2>1. k \in Int /\ 0 < k /\ k <= t /\ k > h /\ k - 1 \in h..t
    BY <1>0, <1>1
  <2>2. A(k) \in Blocks /\ A(k) \in Ancestors[new] /\ Height[A(k)] = k /\ Parent[A(k)] = A(k - 1)
    BY <2>1, AncestorBelow
  <2> QED BY <2>1, <2>2, Zenon
<1> HIDE DEF A, t
<1>2. ASSUME NEW k \in h..t, k # h, NEW w \in View PROVE ConnectBlock(w, A(k)) \in View
  <2> DEFINE b == A(k)
             n == Len(Vtx[b])
  <2>1. b \in Blocks
    BY <1>1, <1>2, Zenon
  <2> HIDE DEF b
  <2>2. n \in 0..n
    BY <2>1, Txs
  <2> QED BY <2>1, <2>2, CoinsAfterSteps, Zenon DEF ConnectBlock, b
<1>3. forward = E(forward)
  <2> DEFINE G == [k \in h..t |-> [w \in View |-> ConnectBlock(w, A(k))]]
  <2>1. Passes(h..t, h, View, G)
    BY <1>2, Zenon DEF Passes
  <2>2. PICK f \in [h..t -> View] : \A k \in h..t : f[k] = IF k = h THEN m ELSE G[k][f[k - 1]]
    <3>1. m \in View
      BY Zenon DEF Between
    <3>2. h <= t
      BY DEF t
    <3> HIDE DEF G
    <3>3. RunsUp(h, t, View, m, G)
      BY <1>0, <2>1, <3>1, <3>2, LoopUp, Zenon
    <3> QED BY <3>3, Zenon DEF RunsUp
  <2>3. ASSUME NEW k \in h..t PROVE f[k] = IF k = h THEN m ELSE ConnectBlock(f[k - 1], A(k))
    <3>1. CASE k = h
      BY <2>2, <3>1, Zenon
    <3>2. CASE k # h
      <4>1. f[k - 1] \in View
        BY <1>1, <2>2, <3>2, Zenon
      <4> QED BY <2>2, <3>2, <4>1, Zenon
    <3> QED BY <3>1, <3>2, Zenon
  <2>4. f = E(f)
    BY <2>2, <2>3, Zenon
  <2> QED BY <2>4, Zenon
<1>4. RolledForward(m, new, h) = forward[t]
  BY Zenon DEF RolledForward, t, A
<1> HIDE DEF forward
<1>5. forward[h] = m /\ \A k \in h..t : k # h => forward[k] = ConnectBlock(forward[k - 1], A(k))
  BY <1>0, <1>3, Zenon
<1> DEFINE Left(k) == \A o \in OutPoints :
             (\A a \in Ancestors[new] : Height[a] > h => o \notin TouchedBy(a)) => forward[k][o] = m[o]
           P == {k \in h..t : Between(forward[k], Utxo[A(k)], d) /\ Left(k)}
<1>6. h \in P
  BY <1>0, <1>5, Zenon DEF A
<1> HIDE DEF d
<1>7. ASSUME NEW k \in h..t, k # h, k - 1 \in P PROVE k \in P
  <2> DEFINE b == A(k)
  <2>1. Between(forward[k - 1], Utxo[A(k - 1)], d) /\ Left(k - 1)
    BY <1>7, Zenon
  <2>2. b \in Blocks /\ b \in Ancestors[new] /\ Height[b] > h /\ Parent[b] = A(k - 1)
    BY <1>1, <1>7, Zenon
  <2>3. forward[k] = ConnectBlock(forward[k - 1], b)
    BY <1>5, <1>7, Zenon
  <2> HIDE DEF b
  <2>4. Between(forward[k], Utxo[b], d) /\ Keeps(b, forward[k - 1], forward[k])
    <3> HIDE DEF Left
    <3> QED BY <2>1, <2>2, <2>3, ForwardOne, Zenon
  <2>5. Left(k)
    BY <2>1, <2>2, <2>4, Zenon DEF Keeps
  <2> HIDE DEF Left
  <2> QED BY <2>4, <2>5, Zenon DEF b
<1>8. h..t \subseteq P
  <2> HIDE DEF P
  <2> QED BY <1>0, <1>6, <1>7, Count
<1>9. Between(forward[t], d, d) /\ Left(t)
  <2>1. A(t) = new
    BY AncestorAt, ChainOf, Zenon DEF A, t, Chainlike
  <2> QED BY <1>0, <1>8, <2>1, Zenon DEF d
<1>10. forward[t] = d
  <2>1. d \in View
    BY UtxoSteps, Zenon DEF d
  <2>2. forward[t] \in View /\ \A o \in OutPoints : forward[t][o] = d[o]
    BY <1>9, Zenon DEF Between
  <2>3. \A x, y \in View : (\A o \in OutPoints : x[o] = y[o]) => x = y
    BY DEF View
  <2> QED BY <2>1, <2>2, <2>3, Zenon
<1> QED BY <1>4, <1>9, <1>10, Zenon DEF d

CoinsOf(x) == IF x = NullHash THEN NoCoins ELSE Utxo[x]

\* ReplayBlocks arrives at the coins of the new tip from every such mixture, and
\* has written to every outpoint where the database differs from them.
THEOREM ReplayResult ==
  ASSUME NEW new \in Tree, NEW old \in Tree \cup {NullHash}, Between(db, CoinsOf(old), Utxo[new]),
         \A a \in OldBranch(new, old) : revData[a] = BlockUndo(Utxo[Parent[a]], a)
  PROVE  /\ ReplayedCoins(new, old) = Utxo[new]
         /\ \A o \in OutPoints : o \notin ReplayTouched(new, old) => Utxo[new][o] = db[o]
<1> DEFINE h == ForkHeight(new, old)
           m == RolledBack(old, h)
<1>1. ASSUME NEW o \in OutPoints, o \notin ReplayTouched(new, old)
      PROVE  /\ \A a \in OldBranch(new, old) : o \notin TouchedBy(a)
             /\ \A a \in NewBranch(new, old) : o \notin TouchedBy(a)
  BY <1>1, Zenon DEF ReplayTouched
<1>2. /\ h \in Int /\ 0 <= h /\ h <= Height[new] /\ Between(m, Utxo[GetAncestor(new, h)], Utxo[new])
      /\ \A o \in OutPoints : (\A a \in OldBranch(new, old) : o \notin TouchedBy(a)) => m[o] = db[o]
  <2>1. CASE old = NullHash
    <3>1. h = 0 /\ m = db
      BY <2>1, Zenon DEF ForkHeight, RolledBack
    <3>2. GetAncestor(new, 0) = Genesis /\ Height[new] \in Nat
      BY AncestorAt, ChainOf, Rooted, Heights, Zenon DEF Chainlike
    <3>3. CoinsOf(old) = Utxo[Genesis]
      BY <2>1, UtxoSteps, Zenon DEF CoinsOf
    <3>4. 0 \in Int /\ 0 <= 0 /\ 0 <= Height[new]
      BY <3>2
    <3> HIDE DEF h, m
    <3> QED BY <3>1, <3>2, <3>3, <3>4, Zenon
  <2>2. CASE old # NullHash
    <3> DEFINE c == LastCommonAncestor(old, new)
    <3>1. old \in Tree /\ CoinsOf(old) = Utxo[old] /\ h = Height[c]
      BY <2>2, Zenon DEF CoinsOf, ForkHeight
    <3>2. c \in Ancestors[old] /\ c \in Ancestors[new]
      BY <3>1, ForkOfBoth, Zenon
    <3> HIDE DEF c
    <3>3. GetAncestor(old, h) = c /\ GetAncestor(new, h) = c
      BY <3>1, <3>2, AncestorAt, Zenon
    <3>4. Height[c] \in Nat /\ Height[c] <= Height[old] /\ Height[c] <= Height[new]
      BY <3>1, <3>2, ChainOf, Heights, Zenon DEF Chainlike
    <3>5. h \in Int /\ 0 <= h /\ h <= Height[new] /\ h <= Height[old]
      BY <3>1, <3>4
    <3>6. OldBranch(new, old) = {a \in Ancestors[old] : Height[a] > h}
      BY <2>2, Zenon DEF OldBranch
    <3>7. \A a \in Ancestors[old] : Height[a] > h => revData[a] = BlockUndo(Utxo[Parent[a]], a)
      BY <3>6, Zenon
    <3> HIDE DEF h
    <3>8. /\ Between(m, Utxo[GetAncestor(old, h)], Utxo[new])
          /\ \A o \in OutPoints : (\A a \in Ancestors[old] : Height[a] > h => o \notin TouchedBy(a)) => m[o] = db[o]
      BY <3>1, <3>5, <3>7, RollbackResult, ZenonT(40)
    <3> QED BY <3>3, <3>5, <3>6, <3>8, Zenon
  <2> QED BY <2>1, <2>2, Zenon
<1>3. ReplayedCoins(new, old) = RolledForward(m, new, h)
  BY Zenon DEF ReplayedCoins
<1> HIDE DEF m
<1>4. NewBranch(new, old) = {a \in Ancestors[new] : Height[a] > h}
  BY Zenon DEF NewBranch
<1> HIDE DEF h
<1>5. /\ RolledForward(m, new, h) = Utxo[new]
      /\ \A o \in OutPoints :
           (\A a \in Ancestors[new] : Height[a] > h => o \notin TouchedBy(a)) => Utxo[new][o] = m[o]
  BY <1>2, RollforwardResult
<1>6. \A o \in OutPoints : o \notin ReplayTouched(new, old) => Utxo[new][o] = db[o]
  BY <1>1, <1>2, <1>4, <1>5, Zenon
<1> QED BY <1>3, <1>5, <1>6, Zenon

(***************************************************************************)
(* The coins.                                                              *)
(***************************************************************************)
\* The view in memory has the coins of the tip, and so has the database once the
\* dirty entries are written.  The database has the coins of its best block or,
\* in the middle of a transition, those of its old and of its new tip mixed.  An
\* undo record that either index refers to is that of its block.
CoinsInv ==
  /\ coins = CoinsOf(tip)
  /\ heads # <<>> => heads[1] \in Tree /\ heads[2] \in Tree \cup {NullHash} /\ best = NullHash
  /\ heads = <<>> => db = CoinsOf(best)
  /\ heads # <<>> => Between(db, CoinsOf(heads[2]), Utxo[heads[1]])
  /\ Up => \A o \in OutPoints : o \notin dirty => coins[o] = db[o]
  /\ phase \in {"coins", "replay"} => tip \in Tree
  /\ phase = "down" => tip = NullHash

UndoInv ==
  /\ DOMAIN revData = Blocks
  /\ haveUndo \subseteq Blocks /\ diskUndo \subseteq Blocks
  /\ \A b \in haveUndo \cup diskUndo : revData[b] = BlockUndo(Utxo[Parent[b]], b)
  /\ unlink \cap haveUndo = {}
  /\ phase = "unlink" => diskUndo = haveUndo

LEMMA CoinsView ==
  /\ \A x \in Tree \cup {NullHash} : CoinsOf(x) \in View
  /\ \A x \in Tree : CoinsOf(x) = Utxo[x] /\ Utxo[x] \in View
  /\ CoinsOf(NullHash) = NoCoins /\ CoinsOf(Genesis) = NoCoins
  /\ NullHash \notin Tree /\ Genesis \in Tree
<1>1. NoCoins \in View
  BY DEF NoCoins, View, Spent
<1>2. NullHash \notin Tree
  BY TreeShape, Zenon
<1> QED BY <1>1, <1>2, UtxoSteps, Heights, Zenon DEF CoinsOf

\* The undo records: written by ConnectBlock from the coins below the block, and
\* deleted only when no index refers to them.
LEMMA UndoStep ==
  ASSUME FileInv, MarkerInv, CoinsInv, UndoInv, [Next]_vars
  PROVE  UndoInv'
<1>1. ASSUME NEW b \in Blocks, ConnectTip(b) PROVE UndoInv'
  <2>1. /\ phase = "running" /\ phase' = "running" /\ tip = Parent[b]
        /\ UNCHANGED <<unlink, diskUndo>>
        /\ WriteUndoDataForBlock(b)
    BY <1>1, Zenon DEF ConnectTip, blockTreeDB
  <2>2. unlink = {}
    BY <2>1 DEF FileInv
  <2>3. CASE b \in haveUndo
    BY <2>1, <2>2, <2>3 DEF UndoInv, WriteUndoDataForBlock
  <2>4. CASE b \notin haveUndo
    <3>1. haveUndo' = haveUndo \cup {b} /\ revData' = [revData EXCEPT ![b] = BlockUndo(coins, b)]
      BY <2>1, <2>4, Zenon DEF WriteUndoDataForBlock
    <3>2. coins = Utxo[Parent[b]]
      BY <2>1, Txs, CoinsView, Zenon DEF CoinsInv
    <3>3. DOMAIN revData' = Blocks /\ \A x \in Blocks : revData'[x] = IF x = b THEN BlockUndo(Utxo[Parent[b]], b) ELSE revData[x]
      BY <3>1, <3>2 DEF UndoInv
    <3>4. \A x \in haveUndo' \cup diskUndo' : x \in Blocks /\ revData'[x] = BlockUndo(Utxo[Parent[x]], x)
      BY <2>1, <3>1, <3>3, Zenon DEF UndoInv
    <3> QED BY <2>1, <2>2, <3>1, <3>3, <3>4 DEF UndoInv
  <2> QED BY <2>3, <2>4, Zenon
<1>2. CASE FlushStateToDisk
  <2>1. phase = "running" /\ phase' = "index" /\ UNCHANGED <<revData, diskUndo>>
    BY <1>2, Zenon DEF FlushStateToDisk, blockTreeDB
  <2>2. haveUndo' \subseteq haveUndo /\ unlink' \cap haveUndo' = {}
    BY <1>2 DEF FlushStateToDisk, PruneBlockFiles, UndoInv
  <2> QED BY <2>1, <2>2 DEF UndoInv
<1>3. CASE WriteIndex
  BY <1>3 DEF WriteIndex, memory, blockIndex, blockFiles, UndoInv
<1>4. CASE UnlinkPrunedFiles
  <2>1. /\ phase = "unlink" /\ phase' # "unlink" /\ unlink' = {}
        /\ revData' = [b \in Blocks |-> IF b \in unlink THEN <<>> ELSE revData[b]]
        /\ UNCHANGED <<haveUndo, diskUndo>>
    BY <1>4 DEF UnlinkPrunedFiles, AfterIndex, blockTreeDB
  <2> QED BY <2>1 DEF UndoInv
<1>5. CASE Crash
  <2>1. /\ phase' = "down" /\ unlink' = {} /\ haveUndo' = {} /\ diskUndo' = diskUndo
        /\ revData' = [b \in Blocks |-> IF b \in diskUndo THEN revData[b] ELSE <<>>]
    BY <1>5 DEF Crash, blockTreeDB
  <2> QED BY <2>1 DEF UndoInv
<1>6. CASE Restart
  <2>1. haveUndo' = diskUndo /\ phase = "down" /\ phase' # "unlink" /\ UNCHANGED <<unlink, diskUndo, revData>>
    BY <1>6 DEF Restart, blockFiles, blockTreeDB
  <2>2. unlink = {}
    BY <2>1 DEF FileInv
  <2> QED BY <2>1, <2>2 DEF UndoInv
<1>7. CASE \/ \E b \in Blocks : AcceptBlock(b)
           \/ ConnectGenesis \/ DisconnectTip \/ WritePartialBatch \/ WriteLastBatch \/ GivenUp \/ UNCHANGED vars
  <2>1. UNCHANGED <<haveUndo, diskUndo, revData, unlink>>
    BY <1>7, Zenon DEF AcceptBlock, ConnectGenesis, DisconnectTip, WritePartialBatch, WriteLastBatch, GivenUp,
                vars, memory, blockIndex, blockFiles, blockTreeDB
  <2>2. phase' = "unlink" => phase = "unlink"
    BY <1>7, Zenon DEF AcceptBlock, ConnectGenesis, DisconnectTip, WritePartialBatch, WriteLastBatch, GivenUp, vars
  <2> QED BY <2>1, <2>2, Zenon DEF UndoInv
<1> QED BY <1>1, <1>2, <1>3, <1>4, <1>5, <1>6, <1>7, Zenon DEF Next


\* The coins in memory follow the tip.
LEMMA ConnectCoins ==
  ASSUME MarkerInv, CoinsInv, NEW b \in Blocks, ConnectTip(b)
  PROVE  CoinsInv'
<1>1. /\ phase = "running" /\ tip = Parent[b] /\ tip' = b /\ coins' = ConnectBlock(coins, b)
      /\ dirty' = dirty \cup TouchedBy(b)
      /\ UNCHANGED <<phase, db, best, heads>>
  BY Zenon DEF ConnectTip, coinsDB
<1>2. b \in Tree /\ Parent[b] \in Tree
  BY Txs, Zenon
<1>3. coins = Utxo[Parent[b]] /\ coins \in View
  BY <1>1, <1>2, CoinsView, Zenon DEF CoinsInv
<1>4. coins' = CoinsOf(b)
  BY <1>1, <1>2, <1>3, UtxoSteps, CoinsView, Zenon
<1>5. heads = <<>>
  BY <1>1, Zenon DEF MarkerInv
<1>6. \A o \in OutPoints : o \notin dirty' => coins'[o] = db[o]
  <2>1. ASSUME NEW o \in OutPoints, o \notin dirty' PROVE coins'[o] = db[o]
    <3>1. o \notin dirty /\ o \notin TouchedBy(b)
      BY <1>1, <2>1, Zenon
    <3>2. coins[o] = db[o]
      BY <1>1, <3>1, Zenon DEF CoinsInv, Up
    <3>3. ConnectBlock(coins, b)[o] = coins[o]
      BY <1>3, <3>1, ConnectBlockAt
    <3> QED BY <1>1, <3>2, <3>3, Zenon
  <2> QED BY <2>1, Zenon
<1>7. phase' \notin {"coins", "replay", "down"} /\ Up'
  BY <1>1 DEF Up
<1> QED BY <1>1, <1>4, <1>5, <1>6, <1>7, Zenon DEF CoinsInv

LEMMA DisconnectCoins ==
  ASSUME MarkerInv, CoinsInv, UndoInv, DisconnectTip
  PROVE  CoinsInv'
<1> DEFINE undone == DisconnectBlock(coins, tip, revData[tip])
<1>1. phase = "running" /\ tip \in Blocks /\ UNCHANGED <<db, best, heads>>
  BY Zenon DEF DisconnectTip, coinsDB
<1>2. heads = <<>> /\ coins = Utxo[tip] /\ coins \in View /\ tip \in Tree
  BY <1>1, Txs, CoinsView, Zenon DEF CoinsInv, MarkerInv
<1>3. CASE tip \in index \cap haveUndo /\ undone.clean
  <2>1. /\ coins' = undone.coins /\ dirty' = dirty \cup TouchedBy(tip) /\ tip' = Parent[tip] /\ phase' = phase
    BY <1>3, Zenon DEF DisconnectTip
  <2>2. revData[tip] = BlockUndo(Utxo[Parent[tip]], tip)
    BY <1>3, Zenon DEF UndoInv
  <2>3. /\ \A o \in OutPoints : undone.coins[o] = IF o \in TouchedBy(tip) THEN Utxo[Parent[tip]][o] ELSE coins[o]
        /\ undone.coins = Utxo[Parent[tip]]
    <3>1. Undone(undone, coins, tip)
      BY <1>1, <1>2, <2>2, UndoneBlock, Zenon
    <3> HIDE DEF undone
    <3> QED BY <1>2, <3>1, Zenon DEF Undone
  <2> HIDE DEF undone
  <2>4. coins' = CoinsOf(tip')
    BY <1>1, <2>1, <2>3, Txs, CoinsView, Zenon
  <2>5. \A o \in OutPoints : o \notin dirty' => coins'[o] = db[o]
    BY <1>1, <2>1, <2>3, Zenon DEF CoinsInv, Up
  <2>6. phase' \notin {"coins", "replay", "down"} /\ Up'
    BY <1>1, <2>1 DEF Up
  <2> QED BY <1>1, <1>2, <2>1, <2>4, <2>5, <2>6, Zenon DEF CoinsInv
<1>4. CASE ~(tip \in index \cap haveUndo /\ undone.clean)
  <2>1. phase' = "failed" /\ UNCHANGED <<coins, tip>>
    BY <1>4, Zenon DEF DisconnectTip
  <2>2. phase' \notin {"coins", "replay", "down"} /\ ~Up'
    BY <2>1 DEF Up
  <2> QED BY <1>1, <1>2, <2>1, <2>2, Zenon DEF CoinsInv
<1> QED BY <1>3, <1>4, Zenon

\* BatchWrite: part of the dirty entries, and all of them.
LEMMA BatchCoins ==
  ASSUME MarkerInv, CoinsInv, WritePartialBatch \/ WriteLastBatch
  PROVE  CoinsInv'
<1>1. /\ phase \in {"coins", "replay"} /\ Up /\ UNCHANGED <<tip, coins>> /\ tip \in Tree
  BY DEF WritePartialBatch, WriteLastBatch, CoinsInv, Up
<1>2. coins = Utxo[tip] /\ coins \in View /\ db \in View
  <2>1. coins = Utxo[tip] /\ coins \in View
    BY <1>1, CoinsView, Zenon DEF CoinsInv
  <2>2. db \in View
    BY CoinsView, Zenon DEF CoinsInv, MarkerInv, Between
  <2> QED BY <2>1, <2>2, Zenon
<1>3. \A S : Written(S) \in View /\ \A o \in OutPoints : Written(S)[o] = IF o \in S THEN coins[o] ELSE db[o]
  BY <1>2 DEF Written, View
<1>4. CASE WritePartialBatch
  <2>1. PICK S \in SUBSET dirty : db' = Written(S) /\ dirty' = dirty \ S
    BY <1>4, Zenon DEF WritePartialBatch
  <2>2. phase' = phase /\ heads' = <<tip, OldTip>> /\ best' = NullHash
    BY <1>4, Zenon DEF WritePartialBatch
  <2>3. heads' # <<>> /\ heads'[1] = tip /\ heads'[2] = OldTip
    BY <2>2
  <2>4. OldTip \in Tree \cup {NullHash} /\ Between(db, CoinsOf(OldTip), Utxo[tip])
    <3>1. CASE heads = <<>>
      <4>1. OldTip = best
        BY <3>1, Zenon DEF OldTip
      <4>2. db = CoinsOf(best) /\ best \in Tree \cup {NullHash}
        BY <3>1, Zenon DEF CoinsInv, MarkerInv
      <4> QED BY <1>2, <4>1, <4>2, Zenon DEF Between
    <3>2. CASE heads # <<>>
      BY <1>1, <3>2, Zenon DEF OldTip, CoinsInv, MarkerInv
    <3> QED BY <3>1, <3>2, Zenon
  <2>5. Between(db', CoinsOf(OldTip), Utxo[tip])
    BY <1>2, <1>3, <2>1, <2>4 DEF Between
  <2>6. \A o \in OutPoints : o \notin dirty' => coins'[o] = db'[o]
    BY <1>1, <1>3, <2>1 DEF CoinsInv
  <2> QED BY <1>1, <2>2, <2>3, <2>4, <2>5, <2>6 DEF CoinsInv
<1>5. CASE WriteLastBatch
  <2>1. db' = Written(dirty) /\ dirty' = {} /\ heads' = <<>> /\ best' = tip /\ phase' = "running"
    BY <1>5, Zenon DEF WriteLastBatch
  <2>2. db' = coins
    <3>1. \A o \in OutPoints : Written(dirty)[o] = coins[o]
      BY <1>1, <1>3 DEF CoinsInv
    <3>2. \A x, y \in View : (\A o \in OutPoints : x[o] = y[o]) => x = y
      BY DEF View
    <3> QED BY <1>2, <1>3, <2>1, <3>1, <3>2
  <2>3. phase' \notin {"coins", "replay", "down"}
    BY <2>1
  <2> QED BY <1>1, <2>1, <2>2, <2>3, Zenon DEF CoinsInv
<1> QED BY <1>4, <1>5, Zenon

\* A start takes the coins of the database, or those of the replay.
LEMMA RestartCoins ==
  ASSUME MarkerInv, CoinsInv, UndoInv, Restart
  PROVE  CoinsInv'
<1>1. haveUndo' = diskUndo /\ UNCHANGED <<revData, db, best, heads>> /\ phase' \notin {"coins", "down"}
  BY DEF Restart, blockFiles, coinsDB
<1>2. CASE heads = <<>>
  <2>1. tip' = best /\ coins' = db /\ phase' \in {"running", "failed"}
    BY <1>2 DEF Restart
  <2> QED BY <1>1, <1>2, <2>1 DEF CoinsInv
<1>3. CASE heads # <<>> /\ ReplayPossible(heads[1], heads[2])
  <2> DEFINE new == heads[1]
             old == heads[2]
  <2>1. /\ phase' = "replay" /\ tip' = new /\ coins' = ReplayedCoins(new, old)
        /\ dirty' = ReplayTouched(new, old)
    BY <1>3, Zenon DEF Restart
  <2>2. new \in Tree /\ old \in Tree \cup {NullHash} /\ Between(db, CoinsOf(old), Utxo[new])
    BY <1>3, Zenon DEF CoinsInv
  <2>3. \A a \in OldBranch(new, old) : revData[a] = BlockUndo(Utxo[Parent[a]], a)
    BY <1>1, <1>3, Zenon DEF ReplayPossible, UndoInv
  <2> HIDE DEF new, old
  <2>4. ReplayedCoins(new, old) = Utxo[new] /\ \A o \in OutPoints : o \notin ReplayTouched(new, old) => Utxo[new][o] = db[o]
    BY <2>2, <2>3, ReplayResult
  <2>5. coins' = CoinsOf(tip')
    BY <2>1, <2>2, <2>4, CoinsView, Zenon
  <2>6. \A o \in OutPoints : o \notin dirty' => coins'[o] = db'[o]
    BY <1>1, <2>1, <2>4, Zenon
  <2> QED BY <1>1, <2>1, <2>2, <2>5, <2>6 DEF CoinsInv
<1>4. CASE heads # <<>> /\ ~ReplayPossible(heads[1], heads[2])
  <2>1. phase' = "failed" /\ UNCHANGED <<tip, coins>>
    BY <1>4, Zenon DEF Restart
  <2>2. ~Up'
    BY <2>1 DEF Up
  <2> QED BY <1>1, <2>1, <2>2 DEF CoinsInv
<1> QED BY <1>2, <1>3, <1>4, Zenon

LEMMA CoinsStep ==
  ASSUME MarkerInv, CoinsInv, UndoInv, [Next]_vars
  PROVE  CoinsInv'
<1>1. CASE ConnectGenesis
  <2>1. phase = "running" /\ tip = NullHash /\ tip' = Genesis /\ UNCHANGED <<phase, coins, dirty, db, best, heads>>
    BY <1>1, Zenon DEF ConnectGenesis, coinsDB
  <2>2. coins' = CoinsOf(tip')
    BY <2>1, CoinsView, Zenon DEF CoinsInv
  <2> QED BY <2>1, <2>2 DEF CoinsInv, Up
<1>2. CASE Crash
  <2>1. phase' = "down" /\ tip' = NullHash /\ coins' = NoCoins /\ UNCHANGED <<db, best, heads>> /\ ~Up'
    BY <1>2 DEF Crash, coinsDB, Up
  <2>2. coins' = CoinsOf(tip')
    BY <2>1, CoinsView, Zenon
  <2> QED BY <2>1, <2>2 DEF CoinsInv
<1>3. CASE \/ \E b \in Blocks : AcceptBlock(b)
           \/ FlushStateToDisk \/ WriteIndex \/ UnlinkPrunedFiles \/ GivenUp \/ UNCHANGED vars
  <2>1. UNCHANGED <<tip, coins, dirty, db, best, heads>>
    BY <1>3, Zenon DEF AcceptBlock, FlushStateToDisk, WriteIndex, UnlinkPrunedFiles, GivenUp, vars, memory, coinsDB
  <2>2. /\ Up' => Up
        /\ phase' = "down" => phase = "down"
        /\ phase' \in {"coins", "replay"} => tip # NullHash \/ phase' = phase
    BY <1>3, Zenon DEF AcceptBlock, FlushStateToDisk, WriteIndex, UnlinkPrunedFiles, GivenUp, vars, AfterIndex, Up
  <2>3. phase' \in {"coins", "replay"} => tip \in Tree
    BY <2>2 DEF CoinsInv, MarkerInv
  <2> QED BY <2>1, <2>2, <2>3, Zenon DEF CoinsInv
<1> QED BY <1>1, <1>2, <1>3, ConnectCoins, DisconnectCoins, BatchCoins, RestartCoins, Zenon DEF Next

\* The coins invariants hold in every reachable state.
LEMMA CoinsInvariant == Spec => [](FileInv /\ MarkerInv /\ CoinsInv /\ UndoInv)
<1>1. Init => CoinsInv /\ UndoInv
  <2> SUFFICES ASSUME Init PROVE CoinsInv /\ UndoInv
    BY Zenon
  <2>1. CoinsInv
    BY CoinsView, Zenon DEF Init, CoinsInv
  <2>2. UndoInv
    BY Zenon DEF Init, UndoInv
  <2> QED BY <2>1, <2>2
<1>2. FileInv /\ MarkerInv /\ CoinsInv /\ UndoInv /\ [Next]_vars => CoinsInv' /\ UndoInv'
  BY CoinsStep, UndoStep, Zenon
<1> QED BY <1>1, <1>2, FilesInvariant, MarkersInvariant, PTL DEF Spec

\* A coins database that names a best block holds exactly the coins of that block's
\* chain, for every tree of valid chains, every way a flush is cut into batches and
\* every number of crashes, replays and reorganisations.
THEOREM DatabaseConsistent == Spec => []MarkedConsistent
<1>1. CoinsInv => MarkedConsistent
  BY CoinsView, Zenon DEF CoinsInv, MarkedConsistent, CoinsOf
<1> QED BY <1>1, CoinsInvariant, PTL

\* pcoinsTip answers the coins of the active chain, whatever was connected,
\* disconnected, flushed, lost or replayed before.
THEOREM ViewFollowsTip == Spec => []ViewMatchesTip
<1>1. CoinsInv => ViewMatchesTip
  BY CoinsView, Zenon DEF CoinsInv, ViewMatchesTip
<1> QED BY <1>1, CoinsInvariant, PTL

(***************************************************************************)
(* Block data.                                                             *)
(***************************************************************************)
\* The blocks of a chain, the genesis block aside, are there with their undo data,
\* or were pruned.
Held(x, present, undo, gone) ==
  x = NullHash \/ \A a \in Ancestors[x] \ {Genesis} : a \in (present \cap undo) \cup gone

Stored(x) == Held(x, diskIndex, diskUndo, diskPruned)
Loaded(x) == Held(x, index, haveUndo, pruned)

\* The tips the coins database speaks of.
Ends == IF heads = <<>> THEN {best} ELSE {heads[1], heads[2]}

\* Why a node can start again: the block index database holds the chains of the tips
\* the coins database speaks of, since the index is written before the coins.
DataInv ==
  /\ \A x \in Ends : Stored(x)
  /\ Up => Loaded(tip) /\ \A x \in Ends : Loaded(x)
  /\ phase \in {"unlink", "coins", "replay"} => Stored(tip)
  /\ index \cap pruned = {} /\ diskIndex \cap diskPruned = {}

\* Pruning forces a full flush, so that between flushes the pruned blocks of the best
\* block's chain are on the active chain: a pruned block is not downloaded again
\* while its undo data is missing.
PrunedInv ==
  /\ phase = "running" /\ best # NullHash => Ancestors[best] \cap pruned \subseteq ActiveChain
  /\ phase \in {"index", "unlink"} /\ ~(full /\ tip # NullHash) /\ best # NullHash
       => Ancestors[best] \cap pruned \subseteq ActiveChain


\* While the node is running no transition is marked.
LEMMA OneEnd ==
  ASSUME MarkerInv, phase \in {"running", "index", "unlink"}
  PROVE  heads = <<>> /\ Ends = {best}
BY DEF MarkerInv, Ends

\* AcceptBlock: a pruned block that comes back is of no chain that matters.
LEMMA AcceptData ==
  ASSUME MarkerInv, DataInv, PrunedInv, NEW b \in Blocks, AcceptBlock(b)
  PROVE  DataInv' /\ PrunedInv' /\ Recoverable'
<1>1. /\ phase = "running" /\ b \notin index /\ (b \in pruned => b \notin ActiveChain)
      /\ index' = index \cup {b} /\ pruned' = pruned \ {b}
      /\ UNCHANGED <<phase, full, tip, haveUndo, diskIndex, diskPruned, diskUndo, best, heads>>
  BY Zenon DEF AcceptBlock, blockTreeDB, coinsDB
<1>2. Ends = {best} /\ Up
  BY <1>1, OneEnd DEF Up
<1>3. b \notin pruned \/ (b \notin ActiveChain /\ (best # NullHash => b \notin Ancestors[best]))
  BY <1>1, Zenon DEF PrunedInv
<1>4. Loaded(tip)' /\ Loaded(best)'
  <2>1. Loaded(tip) /\ Loaded(best)
    BY <1>2, Zenon DEF DataInv
  <2>2. ASSUME NEW x, Loaded(x), b \notin pruned \/ x = NullHash \/ b \notin Ancestors[x]
        PROVE  Held(x, index', haveUndo', pruned')
    BY <1>1, <2>2, Zenon DEF Loaded, Held
  <2>3. tip # NullHash => ActiveChain = Ancestors[tip]
    BY Zenon DEF ActiveChain
  <2>4. Held(tip, index', haveUndo', pruned') /\ Held(best, index', haveUndo', pruned')
    BY <1>3, <2>1, <2>2, <2>3, Zenon
  <2> QED BY <1>1, <2>4, Zenon DEF Loaded
<1>5. Ends' = Ends /\ ActiveChain' = ActiveChain
  BY <1>1, Zenon DEF Ends, ActiveChain
<1>6. Stored(best)' /\ phase' \notin {"index", "unlink", "coins", "replay", "failed"}
  <2>1. Stored(best)
    BY <1>2, Zenon DEF DataInv
  <2> QED BY <1>1, <2>1 DEF Stored
<1>7. index' \cap pruned' = {} /\ diskIndex' \cap diskPruned' = {}
  BY <1>1 DEF DataInv
<1>8. DataInv'
  BY <1>1, <1>2, <1>4, <1>5, <1>6, <1>7, Zenon DEF DataInv
<1>9. PrunedInv'
  <2>1. best # NullHash => Ancestors[best] \cap pruned \subseteq ActiveChain
    BY <1>1, Zenon DEF PrunedInv
  <2> QED BY <1>1, <1>5, <1>6, <2>1, Zenon DEF PrunedInv
<1> QED BY <1>6, <1>8, <1>9, Zenon DEF Recoverable

\* A tip above the last one.
LEMMA ConnectData ==
  ASSUME MarkerInv, DataInv, PrunedInv, ConnectGenesis \/ \E b \in Blocks : ConnectTip(b)
  PROVE  DataInv' /\ PrunedInv' /\ Recoverable'
<1>1. phase = "running" /\ UNCHANGED <<phase, full, index, pruned, diskIndex, diskPruned, diskUndo, best, heads>>
  BY DEF ConnectGenesis, ConnectTip, blockIndex, blockTreeDB, coinsDB
<1>2. Ends = {best} /\ Ends' = {best} /\ Up
  BY <1>1, OneEnd DEF Up, Ends
<1>3. haveUndo \subseteq haveUndo' /\ Loaded(tip)' /\ ActiveChain \subseteq ActiveChain'
  <2>1. CASE ConnectGenesis
    <3>1. tip = NullHash /\ tip' = Genesis /\ haveUndo' = haveUndo
      BY <2>1, Zenon DEF ConnectGenesis, blockIndex
    <3> QED BY <3>1, AncestorsSteps, Zenon DEF Loaded, Held, ActiveChain
  <2>2. ASSUME NEW b \in Blocks, ConnectTip(b) PROVE haveUndo \subseteq haveUndo' /\ Loaded(tip)' /\ ActiveChain \subseteq ActiveChain'
    <3>1. tip = Parent[b] /\ tip' = b /\ b \in index /\ haveUndo' = haveUndo \cup {b}
      BY <2>2 DEF ConnectTip, WriteUndoDataForBlock
    <3>2. Ancestors[b] = {b} \cup Ancestors[tip] /\ tip # NullHash /\ b # NullHash
      BY <3>1, AncestorsSteps, Txs, CoinsView, Zenon
    <3>3. Loaded(tip)
      BY <1>2, Zenon DEF DataInv
    <3>4. Held(b, index', haveUndo', pruned')
      BY <1>1, <3>1, <3>2, <3>3, Zenon DEF Loaded, Held
    <3> QED BY <3>1, <3>2, <3>4, Zenon DEF Loaded, ActiveChain
  <2> QED BY <2>1, <2>2, Zenon
<1>4. Loaded(best)' /\ Stored(best)'
  <2>1. Loaded(best) /\ Stored(best)
    BY <1>2, Zenon DEF DataInv
  <2>2. Held(best, index', haveUndo', pruned')
    BY <1>1, <1>3, <2>1, Zenon DEF Loaded, Held
  <2> QED BY <1>1, <2>1, <2>2, Zenon DEF Loaded, Stored
<1>5. phase' \notin {"index", "unlink", "coins", "replay", "failed"}
  BY <1>1
<1>6. DataInv'
  BY <1>1, <1>2, <1>3, <1>4, <1>5, Zenon DEF DataInv
<1>7. PrunedInv'
  <2>1. best # NullHash => Ancestors[best] \cap pruned \subseteq ActiveChain
    BY <1>1, Zenon DEF PrunedInv
  <2> QED BY <1>1, <1>3, <1>5, <2>1, Zenon DEF PrunedInv
<1> QED BY <1>5, <1>6, <1>7, Zenon DEF Recoverable

\* DisconnectTip: the tip it leaves is not pruned, and it gives up only on a tip
\* that is.
LEMMA DisconnectData ==
  ASSUME MarkerInv, CoinsInv, UndoInv, DataInv, PrunedInv, DisconnectTip
  PROVE  DataInv' /\ PrunedInv' /\ Recoverable'
<1> DEFINE undone == DisconnectBlock(coins, tip, revData[tip])
<1>1. /\ phase = "running" /\ tip \in Blocks
      /\ UNCHANGED <<full, index, pruned, haveUndo, diskIndex, diskPruned, diskUndo, best, heads>>
  BY Zenon DEF DisconnectTip, blockIndex, blockTreeDB, coinsDB
<1>2. Ends = {best} /\ Ends' = {best} /\ Up
  BY <1>1, OneEnd DEF Up, Ends
<1>3. /\ Stored(best)' /\ Loaded(best)' /\ Loaded(tip)
      /\ index' \cap pruned' = {} /\ diskIndex' \cap diskPruned' = {}
  <2>1. Loaded(best) /\ Stored(best) /\ Loaded(tip)
    BY <1>2, Zenon DEF DataInv
  <2>2. index' \cap pruned' = {} /\ diskIndex' \cap diskPruned' = {}
    BY <1>1, Zenon DEF DataInv
  <2> QED BY <1>1, <2>1, <2>2, Zenon DEF Loaded, Stored
<1>4. tip # NullHash /\ tip # Genesis /\ Parent[tip] # NullHash /\ Ancestors[tip] = {tip} \cup Ancestors[Parent[tip]]
  BY <1>1, AncestorsSteps, Txs, CoinsView, Heights, Zenon
<1>5. CASE tip \in index \cap haveUndo /\ undone.clean
  <2>1. tip' = Parent[tip] /\ phase' = phase
    BY <1>5, Zenon DEF DisconnectTip
  <2>2. phase' \notin {"index", "unlink", "coins", "replay", "failed"}
    BY <1>1, <2>1
  <2>3. Held(Parent[tip], index, haveUndo, pruned)
    BY <1>3, <1>4, Zenon DEF Loaded, Held
  <2>4. tip \notin pruned /\ ActiveChain = {tip} \cup ActiveChain'
    BY <1>4, <1>5, <2>1, Zenon DEF DataInv, ActiveChain
  <2>5. DataInv'
    BY <1>1, <1>2, <1>3, <2>1, <2>2, <2>3, Zenon DEF DataInv, Loaded
  <2>6. PrunedInv'
    <3>1. best # NullHash => Ancestors[best] \cap pruned \subseteq ActiveChain
      BY <1>1, Zenon DEF PrunedInv
    <3> QED BY <1>1, <2>2, <2>4, <3>1, Zenon DEF PrunedInv
  <2> QED BY <2>2, <2>5, <2>6, Zenon DEF Recoverable
<1>6. CASE ~(tip \in index \cap haveUndo /\ undone.clean)
  <2>1. phase' = "failed" /\ tip' = tip
    BY <1>6, Zenon DEF DisconnectTip
  <2>2. ~Up' /\ phase' \notin {"running", "index", "unlink", "coins", "replay"}
    BY <2>1 DEF Up
  <2>3. tip \in haveUndo => undone.clean
    <3>1. ASSUME tip \in haveUndo PROVE undone.clean
      <4>1. coins = Utxo[tip] /\ coins \in View
        BY <1>1, Txs, CoinsView, Zenon DEF CoinsInv
      <4>2. revData[tip] = BlockUndo(Utxo[Parent[tip]], tip)
        BY <3>1, Zenon DEF UndoInv
      <4>3. Undone(undone, coins, tip)
        BY <1>1, <4>1, <4>2, UndoneBlock, Zenon
      <4> HIDE DEF undone
      <4> QED BY <4>1, <4>3, Zenon DEF Undone
    <3> QED BY <3>1, Zenon
  <2> HIDE DEF undone
  <2>4. tip \in pruned
    <3>1. tip \in (index \cap haveUndo) \cup pruned
      BY <1>3, <1>4, Zenon DEF Loaded, Held
    <3> QED BY <1>6, <2>3, <3>1, Zenon
  <2>5. Recoverable'
    BY <1>1, <1>4, <2>1, <2>4, Zenon DEF Recoverable, Needed
  <2> QED BY <1>1, <1>2, <1>3, <2>2, <2>5, Zenon DEF DataInv, PrunedInv
<1> QED BY <1>5, <1>6, Zenon


\* FlushStateToDisk: what it prunes is remembered as pruned, and then the coins are
\* flushed too.
LEMMA FlushData ==
  ASSUME MarkerInv, DataInv, PrunedInv, FlushStateToDisk
  PROVE  DataInv' /\ PrunedInv' /\ Recoverable'
<1>1. phase = "running" /\ phase' = "index" /\ UNCHANGED <<tip, diskIndex, diskPruned, diskUndo, best, heads>>
  BY Zenon DEF FlushStateToDisk, blockTreeDB, coinsDB
<1>2. Ends = {best} /\ Ends' = {best} /\ Up
  BY <1>1, OneEnd DEF Up, Ends
<1>3. Stored(best)' /\ diskIndex' \cap diskPruned' = {} /\ phase' \notin {"running", "unlink", "coins", "replay", "failed"}
  <2>1. Stored(best) /\ diskIndex \cap diskPruned = {}
    BY <1>2, Zenon DEF DataInv
  <2> QED BY <1>1, <2>1 DEF Stored
<1>4. /\ index' \cap pruned' = {}
      /\ \A a \in (index \cap haveUndo) \cup pruned : a \in (index' \cap haveUndo') \cup pruned'
  BY DEF FlushStateToDisk, PruneBlockFiles, DataInv
<1>5. Loaded(tip)' /\ Loaded(best)'
  <2>1. Loaded(tip) /\ Loaded(best)
    BY <1>2, Zenon DEF DataInv
  <2>2. ASSUME NEW x, Loaded(x) PROVE Held(x, index', haveUndo', pruned')
    BY <1>4, <2>2, Zenon DEF Loaded, Held
  <2>3. Held(tip, index', haveUndo', pruned') /\ Held(best, index', haveUndo', pruned')
    BY <2>1, <2>2, Zenon
  <2> QED BY <1>1, <2>3, Zenon DEF Loaded
<1>6. DataInv'
  BY <1>1, <1>2, <1>3, <1>4, <1>5, Zenon DEF DataInv
<1>7. pruned' = pruned \/ (full' /\ tip # NullHash)
  BY Zenon DEF FlushStateToDisk, FilesToPrune
<1>8. PrunedInv'
  <2>1. best # NullHash => Ancestors[best] \cap pruned \subseteq ActiveChain
    BY <1>1, Zenon DEF PrunedInv
  <2>2. ActiveChain' = ActiveChain
    BY <1>1, Zenon DEF ActiveChain
  <2> QED BY <1>1, <1>3, <1>7, <2>1, <2>2, Zenon DEF PrunedInv
<1> QED BY <1>3, <1>6, <1>8, Zenon DEF Recoverable

\* The block index database takes over what memory holds.
LEMMA IndexData ==
  ASSUME MarkerInv, DataInv, PrunedInv, WriteIndex
  PROVE  DataInv' /\ PrunedInv' /\ Recoverable'
<1>1. /\ phase = "index" /\ diskIndex' = index /\ diskPruned' = pruned /\ diskUndo' = haveUndo
      /\ UNCHANGED <<full, tip, index, pruned, haveUndo, best, heads>>
  BY Zenon DEF WriteIndex, memory, blockIndex, coinsDB
<1>2. phase' \in {"unlink", "coins", "running"} /\ (phase' = "running" => ~(full /\ tip # NullHash)) /\ phase' # "failed"
  BY DEF WriteIndex, AfterIndex
<1>3. Ends = {best} /\ Ends' = {best} /\ Up
  BY <1>1, OneEnd DEF Up, Ends
<1>4. Loaded(tip) /\ Loaded(best) /\ index \cap pruned = {}
  BY <1>3, Zenon DEF DataInv
<1>5. DataInv'
  BY <1>1, <1>3, <1>4, Zenon DEF DataInv, Loaded, Stored
<1>6. PrunedInv'
  <2>1. ~(full /\ tip # NullHash) /\ best # NullHash => Ancestors[best] \cap pruned \subseteq ActiveChain
    BY <1>1, Zenon DEF PrunedInv
  <2>2. ActiveChain' = ActiveChain
    BY <1>1, Zenon DEF ActiveChain
  <2> QED BY <1>1, <1>2, <2>1, <2>2, Zenon DEF PrunedInv
<1> QED BY <1>2, <1>5, <1>6, Zenon DEF Recoverable

LEMMA UnlinkData ==
  ASSUME MarkerInv, DataInv, PrunedInv, UnlinkPrunedFiles
  PROVE  DataInv' /\ PrunedInv' /\ Recoverable'
<1>1. /\ phase = "unlink"
      /\ UNCHANGED <<full, tip, index, pruned, haveUndo, diskIndex, diskPruned, diskUndo, best, heads>>
  BY Zenon DEF UnlinkPrunedFiles, blockTreeDB, coinsDB
<1>2. phase' \in {"coins", "running"} /\ (phase' = "running" => ~(full /\ tip # NullHash)) /\ phase' \notin {"failed", "index", "unlink"}
  BY DEF UnlinkPrunedFiles, AfterIndex
<1>3. Up /\ Stored(tip)
  BY <1>1 DEF Up, DataInv
<1>4. DataInv'
  BY <1>1, <1>3 DEF DataInv, Ends, Loaded, Stored
<1>5. PrunedInv'
  <2>1. ~(full /\ tip # NullHash) /\ best # NullHash => Ancestors[best] \cap pruned \subseteq ActiveChain
    BY <1>1, Zenon DEF PrunedInv
  <2>2. ActiveChain' = ActiveChain
    BY <1>1, Zenon DEF ActiveChain
  <2> QED BY <1>1, <1>2, <2>1, <2>2, Zenon DEF PrunedInv
<1> QED BY <1>2, <1>4, <1>5, Zenon DEF Recoverable

\* The coins are written when the index is: the new tip is stored.
LEMMA BatchData ==
  ASSUME MarkerInv, CoinsInv, DataInv, PrunedInv, WritePartialBatch \/ WriteLastBatch
  PROVE  DataInv' /\ PrunedInv' /\ Recoverable'
<1>1. /\ phase \in {"coins", "replay"} /\ tip \in Tree
      /\ UNCHANGED <<tip, index, pruned, haveUndo, diskIndex, diskPruned, diskUndo>>
  BY DEF WritePartialBatch, WriteLastBatch, blockIndex, blockTreeDB, CoinsInv
<1>2. Stored(tip) /\ Loaded(tip) /\ Up /\ \A x \in Ends : Stored(x) /\ Loaded(x)
  BY <1>1 DEF Up, DataInv
<1>3. index' \cap pruned' = {} /\ diskIndex' \cap diskPruned' = {}
  BY <1>1, Zenon DEF DataInv
<1>5. CASE WritePartialBatch
  <2>1. phase' = phase /\ heads' = <<tip, OldTip>>
    BY <1>5, Zenon DEF WritePartialBatch
  <2>2. Ends' = {tip, OldTip}
    BY <2>1 DEF Ends
  <2>3. OldTip \in Ends
    BY Zenon DEF OldTip, Ends, CoinsInv
  <2>4. \A x \in Ends' : Held(x, diskIndex, diskUndo, diskPruned) /\ Held(x, index, haveUndo, pruned)
    BY <1>2, <2>2, <2>3, Zenon DEF Stored, Loaded
  <2>5. phase' \notin {"running", "index", "unlink", "failed"}
    BY <1>1, <2>1
  <2>6. DataInv'
    BY <1>1, <1>2, <1>3, <2>4, Zenon DEF DataInv, Stored, Loaded
  <2> QED BY <2>5, <2>6, Zenon DEF PrunedInv, Recoverable
<1>6. CASE WriteLastBatch
  <2>1. phase' = "running" /\ heads' = <<>> /\ best' = tip
    BY <1>6, Zenon DEF WriteLastBatch
  <2>2. Ends' = {tip} /\ phase' \notin {"index", "unlink", "failed"}
    BY <2>1 DEF Ends
  <2>3. DataInv'
    BY <1>1, <1>2, <1>3, <2>2, Zenon DEF DataInv, Stored, Loaded
  <2>4. tip # NullHash
    BY <1>1, CoinsView, Zenon
  <2>5. PrunedInv'
    BY <1>1, <2>1, <2>2, <2>4, Zenon DEF PrunedInv, ActiveChain
  <2> QED BY <2>2, <2>3, <2>5, Zenon DEF Recoverable
<1> QED BY <1>5, <1>6, Zenon


\* A start loads the index the database has: what a replay needs is there or pruned,
\* and without a replay the best block is known.
LEMMA RestartData ==
  ASSUME FileInv, MarkerInv, CoinsInv, DataInv, Restart
  PROVE  DataInv' /\ PrunedInv' /\ Recoverable'
<1>1. /\ phase = "down" /\ index' = diskIndex \cup ({Genesis} \ diskPruned) /\ pruned' = diskPruned /\ haveUndo' = diskUndo
      /\ UNCHANGED <<diskIndex, diskPruned, diskUndo, best, heads>>
  BY Zenon DEF Restart, blockTreeDB, coinsDB
<1>2. index' \cap pruned' = {} /\ diskIndex' \cap diskPruned' = {}
  BY <1>1 DEF DataInv
<1>3. Ends' = Ends /\ \A x \in Ends : Held(x, diskIndex, diskUndo, diskPruned)
  BY <1>1, Zenon DEF Ends, DataInv, Stored
<1>4. \A x \in Ends : Held(x, index', haveUndo', pruned')
  BY <1>1, <1>3, Zenon DEF Held
<1>5. \A x \in Ends : x \in Tree => x \in index' \cup pruned'
  <2>1. ASSUME NEW x \in Ends, x \in Tree, x # Genesis PROVE x \in index' \cup pruned'
    <3>1. x \in Ancestors[x] /\ x # NullHash
      BY <2>1, ChainOf, CoinsView, Zenon DEF Chainlike
    <3> QED BY <1>1, <1>3, <2>1, <3>1, Zenon DEF Held
  <2>2. Genesis \in index' \cup pruned'
    BY <1>1, Zenon
  <2> QED BY <2>1, <2>2, Zenon
<1>6. CASE heads = <<>>
  <2>1. best \in Ends /\ best \in Tree \cup {NullHash}
    BY <1>6, Zenon DEF Ends, MarkerInv
  <2>2. phase' = "running" /\ tip' = best
    BY <1>5, <1>6, <2>1, Zenon DEF Restart
  <2>3. phase' \notin {"index", "unlink", "coins", "replay", "failed"}
    BY <2>2
  <2>4. DataInv'
    BY <1>1, <1>2, <1>3, <1>4, <2>1, <2>2, <2>3, Zenon DEF DataInv, Stored, Loaded
  <2>5. PrunedInv'
    BY <1>1, <2>2, <2>3, Zenon DEF PrunedInv, ActiveChain
  <2> QED BY <2>3, <2>4, <2>5, Zenon DEF Recoverable
<1>7. CASE heads # <<>> /\ ReplayPossible(heads[1], heads[2])
  <2>1. phase' = "replay" /\ tip' = heads[1] /\ heads[1] \in Ends
    BY <1>7, Zenon DEF Restart, Ends
  <2>2. phase' \notin {"running", "index", "unlink", "failed"}
    BY <2>1
  <2>3. DataInv'
    BY <1>1, <1>2, <1>3, <1>4, <2>1, Zenon DEF DataInv, Stored, Loaded
  <2> QED BY <2>2, <2>3, Zenon DEF PrunedInv, Recoverable
<1>8. CASE heads # <<>> /\ ~ReplayPossible(heads[1], heads[2])
  <2> DEFINE new == heads[1]
             old == heads[2]
  <2>1. phase' = "failed" /\ tip' = tip /\ tip = NullHash
    BY <1>1, <1>8, Zenon DEF Restart, CoinsInv
  <2>2. ~Up' /\ phase' \notin {"running", "index", "unlink", "coins", "replay"}
    BY <2>1 DEF Up
  <2>3. new \in Tree /\ old \in Tree \cup {NullHash} /\ new \in Ends /\ old \in Ends
    BY <1>8, Zenon DEF CoinsInv, Ends
  <2> HIDE DEF new, old
  <2>4. ~(OldBranch(new, old) \subseteq index' \cap haveUndo' /\ NewBranch(new, old) \subseteq index')
    <3>1. {new, old} \subseteq index' \cup pruned' \cup {NullHash}
      BY <1>5, <2>3, Zenon
    <3> QED BY <1>8, <3>1, Zenon DEF ReplayPossible, new, old
  <2>5. ForkHeight(new, old) \in Nat
    <3>1. old # NullHash => LastCommonAncestor(old, new) \in Tree
      BY <2>3, ForkOfBoth, ChainOf, Zenon DEF Chainlike
    <3> QED BY <3>1, Heights DEF ForkHeight
  <2>6. ASSUME NEW a \in OldBranch(new, old) \cup NewBranch(new, old)
        PROVE  a \in (index' \cap haveUndo') \cup pruned'
    <3>1. PICK x \in {new, old} : x # NullHash /\ a \in Ancestors[x] /\ Height[a] > ForkHeight(new, old)
      BY <2>3, CoinsView, Zenon DEF OldBranch, NewBranch
    <3>2. a # Genesis
      BY <2>5, <3>1, Rooted
    <3> QED BY <1>4, <2>3, <3>1, <3>2, Zenon DEF Held
  <2>7. \E a \in OldBranch(new, old) \cup NewBranch(new, old) : a \in pruned'
    BY <2>4, <2>6, Zenon
  <2>8. Recoverable'
    <3>1. Needed' = OldBranch(new, old) \cup NewBranch(new, old)
      BY <1>1, <1>8, <2>1, Zenon DEF Needed, new, old
    <3> QED BY <2>7, <3>1, Zenon DEF Recoverable
  <2> QED BY <1>1, <1>2, <1>3, <2>2, <2>8, Zenon DEF DataInv, PrunedInv, Stored
<1> QED BY <1>6, <1>7, <1>8, Zenon

LEMMA DataStep ==
  ASSUME FileInv, MarkerInv, CoinsInv, UndoInv, DataInv, PrunedInv, Recoverable, [Next]_vars
  PROVE  DataInv' /\ PrunedInv' /\ Recoverable'
<1>1. CASE Crash
  <2>1. /\ phase' = "down" /\ index' = {} /\ UNCHANGED <<diskIndex, diskPruned, diskUndo, best, heads>>
    BY <1>1, Zenon DEF Crash, blockTreeDB, coinsDB
  <2>2. ~Up' /\ phase' \notin {"running", "index", "unlink", "coins", "replay", "failed"}
    BY <2>1 DEF Up
  <2>3. DataInv'
    BY <2>1, <2>2, Zenon DEF DataInv, Ends, Stored
  <2> QED BY <2>2, <2>3, Zenon DEF PrunedInv, Recoverable
<1>2. CASE GivenUp \/ UNCHANGED vars
  <2>1. UNCHANGED <<phase, full, tip, index, pruned, haveUndo, diskIndex, diskPruned, diskUndo, best, heads>>
    BY <1>2, Zenon DEF GivenUp, vars, memory, blockIndex, blockTreeDB, coinsDB
  <2>2. DataInv'
    BY <2>1, Zenon DEF DataInv, Ends, Stored, Loaded, Up
  <2>3. PrunedInv'
    BY <2>1, Zenon DEF PrunedInv, ActiveChain
  <2>4. Recoverable'
    BY <2>1 DEF Recoverable, Needed
  <2> QED BY <2>2, <2>3, <2>4, Zenon
<1> QED BY <1>1, <1>2, AcceptData, ConnectData, DisconnectData, FlushData, IndexData, UnlinkData, BatchData, RestartData,
           Zenon DEF Next

\* A node gives up only where pruned data is missing: after every crash ReplayBlocks
\* finds the blocks and undo data it needs, LoadChainTip knows the best block, and
\* DisconnectTip never meets an unclean undo.
THEOREM AlwaysRecoverable == Spec => []Recoverable
<1>1. Init => DataInv /\ PrunedInv /\ Recoverable
  <2> SUFFICES ASSUME Init PROVE DataInv /\ PrunedInv /\ Recoverable
    OBVIOUS
  <2>1. phase = "running" /\ tip = NullHash /\ best = NullHash /\ heads = <<>> /\ pruned = {} /\ diskIndex = {}
    BY DEF Init
  <2>2. phase \notin {"index", "unlink", "coins", "replay", "failed"}
    BY <2>1
  <2>3. Ends = {NullHash}
    BY <2>1, Zenon DEF Ends
  <2>4. DataInv
    BY <2>1, <2>2, <2>3, Zenon DEF DataInv, Stored, Loaded, Held
  <2> QED BY <2>1, <2>2, <2>4, Zenon DEF PrunedInv, Recoverable
<1>2. FileInv /\ MarkerInv /\ CoinsInv /\ UndoInv /\ DataInv /\ PrunedInv /\ Recoverable /\ [Next]_vars
        => DataInv' /\ PrunedInv' /\ Recoverable'
  BY DataStep, Zenon
<1> QED BY <1>1, <1>2, CoinsInvariant, PTL DEF Spec
=============================================================================
