----------------------------- MODULE CoinsCache -----------------------------
(***************************************************************************)
(* The stack of coin views of a running node (src/coins.cpp): the          *)
(* chainstate database, the cache pcoinsTip on top of it, and the scratch  *)
(* cache that ConnectBlock and DisconnectBlock write to on top of that.    *)
(* A cache entry carries the flags DIRTY (it may differ from the parent)   *)
(* and FRESH (the parent has no unspent coin there), and everything a      *)
(* flush writes or forgets is decided from those two flags.                *)
(*                                                                         *)
(* Every action runs under cs_main, so a handler is one step.  A write to  *)
(* the database is atomic here; ChainFlush models it batch by batch.       *)
(***************************************************************************)

CONSTANTS OutPoints,     \* outpoints (txid, index)
          Coins,         \* coins a transaction output may create
          Unspendable,   \* those whose scriptPubKey.IsUnspendable()
          Spent,         \* the cleared coin: coin.IsSpent()
          NoEntry,       \* cacheCoins.find(outpoint) == cacheCoins.end()
          Blocks,        \* block hashes
          NullHash       \* uint256()

\* The sentinels are not coins, entries or hashes.
ASSUME SentinelsDistinct ==
    /\ Unspendable \subseteq Coins
    /\ Spent \notin Coins
    /\ NoEntry \notin [coin : Coins \cup {Spent}, flags : SUBSET {"DIRTY", "FRESH"}]
    /\ NullHash \notin Blocks

VARIABLES db,         \* CCoinsViewDB: the coin of each outpoint, Spent when the key is absent
          dbBest,     \* DB_BEST_BLOCK
          tip,        \* pcoinsTip->cacheCoins
          tipHash,    \* pcoinsTip->hashBlock, NullHash until it is asked for
          view,       \* cacheCoins of the scratch view
          viewHash,   \* hashBlock of the scratch view
          thrown      \* a std::logic_error has been raised

vars == <<db, dbBest, tip, tipHash, view, viewHash, thrown>>

Flags == {"DIRTY", "FRESH"}
Spendable == Coins \ Unspendable
Value == Spendable \cup {Spent}
Entry == [coin : Value, flags : SUBSET Flags]
Cache == [OutPoints -> Entry \cup {NoEntry}]

EmptyCache == [o \in OutPoints |-> NoEntry]

\* One type invariant for the three levels.
TypeOK ==
    /\ db \in [OutPoints -> Value]
    /\ dbBest \in Blocks \cup {NullHash}
    /\ tip \in Cache
    /\ tipHash \in Blocks \cup {NullHash}
    /\ view \in Cache
    /\ viewHash \in Blocks \cup {NullHash}
    /\ thrown \in BOOLEAN

-----------------------------------------------------------------------------
\* What the levels answer to GetCoin and GetBestBlock.

Lookup(cache, o, baseCoin) == IF cache[o] = NoEntry THEN baseCoin ELSE cache[o].coin

TipCoin(o) == Lookup(tip, o, db[o])
ViewCoin(o) == Lookup(view, o, TipCoin(o))

TipBest == IF tipHash = NullHash THEN dbBest ELSE tipHash
ViewBest == IF viewHash = NullHash THEN TipBest ELSE viewHash

-----------------------------------------------------------------------------
\* CCoinsViewCache::FetchCoin: a coin found unspent below is copied into this
\* cache with no flags; one the base does not have leaves no entry.  (GetCoin
\* of a cache and of the database never report a spent coin as found, so the
\* branch that marks a fetched spent coin FRESH is not taken.)
FetchCoin(cache, o, baseCoin) ==
    IF cache[o] # NoEntry \/ baseCoin = Spent
    THEN cache
    ELSE [cache EXCEPT ![o] = [coin |-> baseCoin, flags |-> {}]]

\* The scratch view asks pcoinsTip only when it has no entry of its own, and
\* the question fills pcoinsTip too.
TipAfterFetch(o) == IF view[o] = NoEntry THEN FetchCoin(tip, o, db[o]) ELSE tip
ViewAfterFetch(o) == FetchCoin(view, o, TipCoin(o))

\* HaveCoin, AccessCoin or GetCoin on pcoinsTip (mempool, RPC).
TipAccess(o) ==
    /\ tip' = FetchCoin(tip, o, db[o])
    /\ UNCHANGED <<db, dbBest, tipHash, view, viewHash, thrown>>

\* HaveCoin, AccessCoin or GetCoin on the scratch view.
ViewAccess(o) ==
    /\ tip' = TipAfterFetch(o)
    /\ view' = ViewAfterFetch(o)
    /\ UNCHANGED <<db, dbBest, tipHash, viewHash, thrown>>

\* CCoinsViewCache::AddCoin on the map cache; possible_overwrite is the
\* caller's word on whether an unspent version may exist.
AddThrows(cache, o, possible_overwrite) ==
    /\ ~possible_overwrite
    /\ cache[o] # NoEntry
    /\ cache[o].coin # Spent

\* Mutant: an entry said to be new is FRESH even when it stands, spent but
\* DIRTY, over a coin the parent still has.
AddEntryAlwaysFresh(cache, o, c, possible_overwrite) ==
    LET old == IF cache[o] = NoEntry THEN {} ELSE cache[o].flags
    IN  [coin |-> c,
         flags |-> old \cup {"DIRTY"} \cup (IF possible_overwrite THEN {} ELSE {"FRESH"})]

\* Mutant: possible_overwrite is not looked at.
AddEntryIgnoresOverwrite(cache, o, c, possible_overwrite) ==
    LET old == IF cache[o] = NoEntry THEN {} ELSE cache[o].flags
    IN  [coin |-> c,
         flags |-> old \cup {"DIRTY"} \cup (IF "DIRTY" \in old THEN {} ELSE {"FRESH"})]

AddEntry(cache, o, c, possible_overwrite) ==
    LET old == IF cache[o] = NoEntry THEN {} ELSE cache[o].flags
        fresh == ~possible_overwrite /\ "DIRTY" \notin old
    IN  [coin |-> c, flags |-> old \cup {"DIRTY"} \cup (IF fresh THEN {"FRESH"} ELSE {})]

AddCoin(cache, o, c, possible_overwrite) ==
    /\ view' = IF c \in Unspendable \/ AddThrows(cache, o, possible_overwrite)
               THEN cache
               ELSE [cache EXCEPT ![o] = AddEntry(cache, o, c, possible_overwrite)]
    /\ thrown' = (thrown \/ (c \notin Unspendable /\ AddThrows(cache, o, possible_overwrite)))
    /\ UNCHANGED <<db, dbBest, tipHash, viewHash>>

\* An output of a non-coinbase transaction: AddCoins passes overwrite = false,
\* which is right because a transaction id is not created twice while one of
\* its outputs is unspent.
AddNew(o, c) ==
    /\ ViewCoin(o) = Spent
    /\ AddCoin(view, o, c, FALSE)
    /\ UNCHANGED tip

\* An output of a coinbase: AddCoins passes overwrite = true.
AddCoinbase(o, c) ==
    /\ AddCoin(view, o, c, TRUE)
    /\ UNCHANGED tip

\* AddCoins with check = true (RollforwardBlock) and ApplyTxInUndo: HaveCoin
\* is asked first, and its answer is the overwrite argument.
AddChecked(o, c) ==
    /\ AddCoin(ViewAfterFetch(o), o, c, ViewCoin(o) # Spent)
    /\ tip' = TipAfterFetch(o)

\* Mutant: the spent entry is not marked DIRTY.
SpendEntryClean(cache, o) ==
    IF cache[o] = NoEntry \/ "FRESH" \in cache[o].flags
    THEN NoEntry
    ELSE [coin |-> Spent, flags |-> cache[o].flags]

\* CCoinsViewCache::SpendCoin.
SpendEntry(cache, o) ==
    IF cache[o] = NoEntry \/ "FRESH" \in cache[o].flags
    THEN NoEntry
    ELSE [coin |-> Spent, flags |-> cache[o].flags \cup {"DIRTY"}]

SpendCoin(o) ==
    /\ tip' = TipAfterFetch(o)
    /\ view' = [ViewAfterFetch(o) EXCEPT ![o] = SpendEntry(ViewAfterFetch(o), o)]
    /\ UNCHANGED <<db, dbBest, tipHash, viewHash, thrown>>

\* CCoinsViewCache::Uncache, called on pcoinsTip when a transaction that
\* pulled coins in is not accepted to the mempool.
Uncache(o) ==
    /\ tip[o] # NoEntry
    /\ tip[o].flags = {}
    /\ tip' = [tip EXCEPT ![o] = NoEntry]
    /\ UNCHANGED <<db, dbBest, tipHash, view, viewHash, thrown>>

-----------------------------------------------------------------------------
\* Best block: GetBestBlock copies the base's answer, SetBestBlock replaces it.

TipGetBestBlock ==
    /\ tipHash' = TipBest
    /\ UNCHANGED <<db, dbBest, tip, view, viewHash, thrown>>

ViewGetBestBlock ==
    /\ viewHash' = ViewBest
    /\ tipHash' = IF viewHash = NullHash THEN TipBest ELSE tipHash
    /\ UNCHANGED <<db, dbBest, tip, view, thrown>>

SetBestBlock(b) ==
    /\ viewHash' = b
    /\ UNCHANGED <<db, dbBest, tip, tipHash, view, thrown>>

-----------------------------------------------------------------------------
\* CCoinsViewCache::BatchWrite, entry by entry.

IsDirty(e) == e # NoEntry /\ "DIRTY" \in e.flags

\* "FRESH flag misapplied to cache entry for base transaction with spendable outputs"
Misapplied(child, parent) ==
    /\ IsDirty(child)
    /\ "FRESH" \in child.flags
    /\ parent # NoEntry
    /\ parent.coin # Spent

NewParentEntry(child) ==
    IF "FRESH" \in child.flags /\ child.coin = Spent
    THEN NoEntry
    ELSE [coin |-> child.coin, flags |-> {"DIRTY"} \cup (child.flags \cap {"FRESH"})]

\* Mutant: a spent child entry erases the parent's entry, FRESH or not.
MergedParentEntryErases(child, parent) ==
    IF child.coin = Spent
    THEN NoEntry
    ELSE [coin |-> child.coin, flags |-> parent.flags \cup {"DIRTY"}]

MergedParentEntry(child, parent) ==
    IF "FRESH" \in parent.flags /\ child.coin = Spent
    THEN NoEntry
    ELSE [coin |-> child.coin, flags |-> parent.flags \cup {"DIRTY"}]

WriteEntry(child, parent) ==
    CASE ~IsDirty(child) -> parent
      [] IsDirty(child) /\ parent = NoEntry -> NewParentEntry(child)
      [] IsDirty(child) /\ parent # NoEntry -> MergedParentEntry(child, parent)

\* Flush of the scratch view into pcoinsTip.  ConnectBlock and DisconnectBlock
\* have called SetBestBlock before their caller flushes.
FlushView ==
    /\ viewHash # NullHash
    /\ IF \E o \in OutPoints : Misapplied(view[o], tip[o])
       THEN /\ thrown' = TRUE
            /\ UNCHANGED <<tip, tipHash, view>>
       ELSE /\ tip' = [o \in OutPoints |-> WriteEntry(view[o], tip[o])]
            /\ tipHash' = viewHash
            /\ view' = EmptyCache
            /\ UNCHANGED thrown
    /\ UNCHANGED <<db, dbBest, viewHash>>

\* The scratch view is destroyed and the next block gets a new one.
NewView ==
    /\ view' = EmptyCache
    /\ viewHash' = NullHash
    /\ UNCHANGED <<db, dbBest, tip, tipHash, thrown>>

\* FlushStateToDisk's full flush: GetBestBlock, then pcoinsTip->Flush() into
\* CCoinsViewDB::BatchWrite.
FlushTip ==
    /\ TipBest # NullHash
    /\ db' = [o \in OutPoints |-> IF IsDirty(tip[o]) THEN tip[o].coin ELSE db[o]]
    /\ dbBest' = TipBest
    /\ tip' = EmptyCache
    /\ tipHash' = TipBest
    /\ UNCHANGED <<view, viewHash, thrown>>

-----------------------------------------------------------------------------
Init ==
    /\ db = [o \in OutPoints |-> Spent]
    /\ dbBest = NullHash
    /\ tip = EmptyCache
    /\ tipHash = NullHash
    /\ view = EmptyCache
    /\ viewHash = NullHash
    /\ thrown = FALSE

Next ==
    \/ \E o \in OutPoints : TipAccess(o)
    \/ \E o \in OutPoints : ViewAccess(o)
    \/ \E o \in OutPoints, c \in Coins : AddNew(o, c)
    \/ \E o \in OutPoints, c \in Coins : AddCoinbase(o, c)
    \/ \E o \in OutPoints, c \in Coins : AddChecked(o, c)
    \/ \E o \in OutPoints : SpendCoin(o)
    \/ \E o \in OutPoints : Uncache(o)
    \/ TipGetBestBlock
    \/ ViewGetBestBlock
    \/ \E b \in Blocks : SetBestBlock(b)
    \/ FlushView
    \/ NewView
    \/ FlushTip

Spec == Init /\ [][Next]_vars

-----------------------------------------------------------------------------
\* No sequence of reads, writes, uncachings and flushes makes AddCoin or
\* BatchWrite raise std::logic_error: FRESH is never put on an entry whose
\* parent still holds an unspent coin.
NoLogicError == thrown = FALSE

\* The promise of the FRESH flag in coins.h, at both levels: the parent has no
\* unspent coin for the outpoint, so erasing the entry when it is spent loses
\* nothing.
FreshMeansAbsentBelow ==
    \A o \in OutPoints :
        /\ tip[o] # NoEntry /\ "FRESH" \in tip[o].flags => db[o] = Spent
        /\ view[o] # NoEntry /\ "FRESH" \in view[o].flags => TipCoin(o) = Spent

\* The promise of a missing DIRTY flag: an entry the flush will skip (and
\* Uncache may drop) agrees with the parent.
CleanMatchesParent ==
    \A o \in OutPoints :
        /\ tip[o] # NoEntry /\ ~IsDirty(tip[o]) => tip[o].coin = db[o]
        /\ view[o] # NoEntry /\ ~IsDirty(view[o]) => view[o].coin = TipCoin(o)

\* The caches are invisible: what the three levels answer behaves as three
\* plain maps, changed only by the operation that names them.
Views == INSTANCE CoinsView WITH
            Coins <- Spendable,
            dbCoins <- db,
            tipCoins <- [o \in OutPoints |-> TipCoin(o)],
            tipBest <- TipBest,
            viewCoins <- [o \in OutPoints |-> ViewCoin(o)],
            viewBest <- ViewBest

ImplementsViews == Views!Spec
=============================================================================
