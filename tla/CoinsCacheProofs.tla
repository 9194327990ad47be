-------------------------- MODULE CoinsCacheProofs --------------------------
(***************************************************************************)
(* The invariants of CoinsCache hold, and CoinsCache implements CoinsView, *)
(* for every set of outpoints, coins and blocks.                           *)
(***************************************************************************)
EXTENDS CoinsCache, TLAPS

\* The inductive invariant: types, no exception, and the two flag promises.
\* The flag promises need each other: AddCoin sets FRESH on a clean spent
\* entry because clean entries agree with the parent.
Inv == TypeOK /\ NoLogicError /\ FreshMeansAbsentBelow /\ CleanMatchesParent

\* The flag promises for one entry e standing over the parent's coin c.
EntryOK(e, c) ==
    e # NoEntry => /\ "FRESH" \in e.flags => c = Spent
                   /\ "DIRTY" \notin e.flags => e.coin = c

\* The flag promises, entry by entry.
LEMMA EntriesOK ==
    (FreshMeansAbsentBelow /\ CleanMatchesParent)
        <=> \A o \in OutPoints : EntryOK(tip[o], db[o]) /\ EntryOK(view[o], TipCoin(o))
  BY DEF FreshMeansAbsentBelow, CleanMatchesParent, EntryOK, IsDirty

\* A cache entry is a record with the two fields, and never the sentinel.
LEMMA EntryFields ==
    ASSUME NEW c \in Value, NEW f \in SUBSET Flags
    PROVE  /\ [coin |-> c, flags |-> f] \in Entry
           /\ [coin |-> c, flags |-> f] # NoEntry
  <1> DEFINE e == [coin |-> c, flags |-> f]
  <1>1. e \in Entry
    BY DEF Entry
  <1>2. c \in Coins \cup {Spent}
    BY DEF Value, Spendable
  <1>3. e \in [coin : Coins \cup {Spent}, flags : SUBSET {"DIRTY", "FRESH"}]
    BY <1>2 DEF Flags
  <1>4. e # NoEntry
    <2> HIDE DEF e
    <2> QED BY <1>3, SentinelsDistinct
  <1> QED
    BY <1>1, <1>4

\* FetchCoin changes no answer of the cache it fills and keeps the promises.
LEMMA FetchCoinKeeps ==
    ASSUME NEW cache \in Cache, NEW o \in OutPoints, NEW base \in [OutPoints -> Value],
           \A p \in OutPoints : EntryOK(cache[p], base[p])
    PROVE  /\ FetchCoin(cache, o, base[o]) \in Cache
           /\ \A p \in OutPoints :
                /\ Lookup(FetchCoin(cache, o, base[o]), p, base[p]) = Lookup(cache, p, base[p])
                /\ EntryOK(FetchCoin(cache, o, base[o])[p], base[p])
                /\ p # o => FetchCoin(cache, o, base[o])[p] = cache[p]
  <1>1. CASE cache[o] # NoEntry \/ base[o] = Spent
    BY <1>1 DEF FetchCoin
  <1>2. CASE cache[o] = NoEntry /\ base[o] # Spent
    <2> DEFINE e == [coin |-> base[o], flags |-> {}]
    <2>1. e \in Entry /\ e # NoEntry /\ e.coin = base[o] /\ e.flags = {}
      BY EntryFields DEF Flags
    <2>2. FetchCoin(cache, o, base[o]) = [cache EXCEPT ![o] = e]
      BY <1>2 DEF FetchCoin
    <2> HIDE DEF e
    <2> QED
      BY <1>2, <2>1, <2>2 DEF Cache, Lookup, EntryOK
  <1> QED
    BY <1>1, <1>2

\* AddCoin on an entry standing over the coin base, called under its contract.
LEMMA AddEntryKeeps ==
    ASSUME NEW cache \in Cache, NEW o \in OutPoints, NEW c \in Spendable,
           NEW overwrite \in BOOLEAN, NEW base \in Value,
           EntryOK(cache[o], base),
           ~overwrite => Lookup(cache, o, base) = Spent
    PROVE  /\ AddEntry(cache, o, c, overwrite) \in Entry
           /\ AddEntry(cache, o, c, overwrite) # NoEntry
           /\ AddEntry(cache, o, c, overwrite).coin = c
           /\ EntryOK(AddEntry(cache, o, c, overwrite), base)
           /\ ~AddThrows(cache, o, overwrite)
  <1> DEFINE old == IF cache[o] = NoEntry THEN {} ELSE cache[o].flags
             add == IF ~overwrite /\ "DIRTY" \notin old THEN {"FRESH"} ELSE {}
             f == old \cup {"DIRTY"} \cup add
  <1>1. AddEntry(cache, o, c, overwrite) = [coin |-> c, flags |-> f]
    BY DEF AddEntry
  <1>2. old \in SUBSET Flags
    BY DEF Cache, Entry
  <1>3. add \in SUBSET Flags
    BY DEF Flags
  <1>4. f \in SUBSET Flags /\ c \in Value
    BY <1>2, <1>3 DEF Flags, Value
  <1>5. "FRESH" \in f => base = Spent
    <2>1. "FRESH" \in old => base = Spent
      BY DEF EntryOK
    <2>2. "FRESH" \in add => base = Spent
      <3> SUFFICES ASSUME ~overwrite, "DIRTY" \notin old
                   PROVE  base = Spent
        OBVIOUS
      <3> QED
        BY DEF EntryOK, Lookup
    <2> QED
      BY <2>1, <2>2
  <1>6. "DIRTY" \in f
    OBVIOUS
  <1>7. ~AddThrows(cache, o, overwrite)
    BY DEF AddThrows, Lookup
  <1> HIDE DEF f
  <1> QED
    BY <1>1, <1>4, <1>5, <1>6, <1>7, EntryFields DEF EntryOK

\* SpendCoin leaves the outpoint spent, whether it erases or clears the entry.
LEMMA SpendEntryKeeps ==
    ASSUME NEW cache \in Cache, NEW o \in OutPoints, NEW base \in Value,
           EntryOK(cache[o], base), cache[o] = NoEntry => base = Spent
    PROVE  /\ SpendEntry(cache, o) \in Entry \cup {NoEntry}
           /\ SpendEntry(cache, o) = NoEntry => base = Spent
           /\ SpendEntry(cache, o) # NoEntry => SpendEntry(cache, o).coin = Spent
           /\ EntryOK(SpendEntry(cache, o), base)
  <1>1. CASE cache[o] = NoEntry \/ "FRESH" \in cache[o].flags
    BY <1>1 DEF SpendEntry, EntryOK
  <1>2. CASE cache[o] # NoEntry /\ "FRESH" \notin cache[o].flags
    <2> DEFINE f == cache[o].flags \cup {"DIRTY"}
    <2>1. SpendEntry(cache, o) = [coin |-> Spent, flags |-> f]
      BY <1>2 DEF SpendEntry
    <2>2. f \in SUBSET Flags /\ Spent \in Value
      BY <1>2 DEF Cache, Entry, Flags, Value
    <2>3. "FRESH" \notin f /\ "DIRTY" \in f
      BY <1>2
    <2> HIDE DEF f
    <2> QED
      BY <2>1, <2>2, <2>3, EntryFields DEF EntryOK
  <1> QED
    BY <1>1, <1>2

\* BatchWrite of one entry: the parent's answer becomes the child's, and the
\* flag promises of the parent over its own base survive.
LEMMA WriteEntryKeeps ==
    ASSUME NEW child \in Entry \cup {NoEntry}, NEW parent \in Entry \cup {NoEntry},
           NEW base \in Value,
           EntryOK(parent, base),
           EntryOK(child, IF parent = NoEntry THEN base ELSE parent.coin)
    PROVE  LET w == WriteEntry(child, parent)
               below == IF parent = NoEntry THEN base ELSE parent.coin
           IN  /\ w \in Entry \cup {NoEntry}
               /\ EntryOK(w, base)
               /\ (IF w = NoEntry THEN base ELSE w.coin)
                    = (IF child = NoEntry THEN below ELSE child.coin)
               /\ ~Misapplied(child, parent)
  <1>0. ~Misapplied(child, parent)
    BY DEF Misapplied, IsDirty, EntryOK
  <1>1. CASE ~IsDirty(child)
    <2>1. WriteEntry(child, parent) = parent
      BY <1>1 DEF WriteEntry
    <2> QED
      BY <1>0, <1>1, <2>1 DEF EntryOK, IsDirty
  <1>2. CASE IsDirty(child) /\ parent = NoEntry
    <2> DEFINE f == {"DIRTY"} \cup (child.flags \cap {"FRESH"})
    <2>1. WriteEntry(child, parent) = NewParentEntry(child)
      BY <1>2 DEF WriteEntry
    <2>2. child # NoEntry /\ child \in Entry /\ child.coin \in Value /\ f \in SUBSET Flags
      BY <1>2 DEF IsDirty, Entry, Flags
    <2>3. "DIRTY" \in f /\ ("FRESH" \in f => "FRESH" \in child.flags)
      OBVIOUS
    <2>4. CASE "FRESH" \in child.flags /\ child.coin = Spent
      BY <1>0, <1>2, <2>1, <2>2, <2>4 DEF NewParentEntry, EntryOK
    <2>5. CASE ~("FRESH" \in child.flags /\ child.coin = Spent)
      <3>1. NewParentEntry(child) = [coin |-> child.coin, flags |-> f]
        BY <2>5 DEF NewParentEntry
      <3> HIDE DEF f
      <3> QED
        BY <1>0, <1>2, <2>1, <2>2, <2>3, <3>1, EntryFields DEF EntryOK
    <2> QED
      BY <2>4, <2>5
  <1>3. CASE IsDirty(child) /\ parent # NoEntry
    <2> DEFINE f == parent.flags \cup {"DIRTY"}
    <2>1. WriteEntry(child, parent) = MergedParentEntry(child, parent)
      BY <1>3 DEF WriteEntry
    <2>2. child # NoEntry /\ child.coin \in Value /\ f \in SUBSET Flags
      BY <1>3 DEF IsDirty, Entry, Flags
    <2>3. "DIRTY" \in f /\ ("FRESH" \in f => "FRESH" \in parent.flags)
      OBVIOUS
    <2>4. CASE "FRESH" \in parent.flags /\ child.coin = Spent
      BY <1>0, <1>3, <2>1, <2>2, <2>4 DEF MergedParentEntry, EntryOK
    <2>5. CASE ~("FRESH" \in parent.flags /\ child.coin = Spent)
      <3>1. MergedParentEntry(child, parent) = [coin |-> child.coin, flags |-> f]
        BY <2>5 DEF MergedParentEntry
      <3> HIDE DEF f
      <3> QED
        BY <1>0, <1>3, <2>1, <2>2, <2>3, <3>1, EntryFields DEF EntryOK
    <2> QED
      BY <2>4, <2>5
  <1> QED
    BY <1>1, <1>2, <1>3

-----------------------------------------------------------------------------
\* What pcoinsTip answers, as a map: the base the scratch view stands on.
TipMap == [p \in OutPoints |-> TipCoin(p)]

\* The answers of pcoinsTip form a map from outpoints to coins.
LEMMA MapsTyped ==
    ASSUME TypeOK
    PROVE  /\ TipMap \in [OutPoints -> Value]
           /\ \A o \in OutPoints : TipMap[o] = TipCoin(o) /\ TipCoin(o) \in Value
  BY DEF TypeOK, TipMap, TipCoin, Lookup, Cache, Entry

\* The invariant from its parts: the flag promises of the new caches over the
\* new answers of their bases.
LEMMA InvFromEntries ==
    ASSUME TypeOK', NoLogicError',
           \A o \in OutPoints : EntryOK(tip[o], db[o])' /\ EntryOK(view[o], TipCoin(o))'
    PROVE  Inv'
  BY DEF Inv, FreshMeansAbsentBelow, CleanMatchesParent, EntryOK, IsDirty

\* The lookups that fill pcoinsTip and the scratch view on the way change no
\* answer of either and keep every flag promise.
LEMMA FetchThrough ==
    ASSUME Inv, NEW o \in OutPoints
    PROVE  /\ TipAfterFetch(o) \in Cache
           /\ ViewAfterFetch(o) \in Cache
           /\ \A p \in OutPoints :
                /\ Lookup(TipAfterFetch(o), p, db[p]) = TipCoin(p)
                /\ EntryOK(TipAfterFetch(o)[p], db[p])
                /\ Lookup(ViewAfterFetch(o), p, TipCoin(p)) = ViewCoin(p)
                /\ EntryOK(ViewAfterFetch(o)[p], TipCoin(p))
                /\ p # o => ViewAfterFetch(o)[p] = view[p]
           /\ ViewAfterFetch(o)[o] = NoEntry => TipCoin(o) = Spent
  <1>1. \A p \in OutPoints : EntryOK(tip[p], db[p]) /\ EntryOK(view[p], TipCoin(p))
    BY EntriesOK DEF Inv
  <1>2. tip \in Cache /\ view \in Cache /\ db \in [OutPoints -> Value]
    BY DEF Inv, TypeOK
  <1>3. TipMap \in [OutPoints -> Value] /\ \A p \in OutPoints : TipMap[p] = TipCoin(p)
    BY MapsTyped DEF Inv
  <1>4. /\ FetchCoin(tip, o, db[o]) \in Cache
        /\ \A p \in OutPoints :
             /\ Lookup(FetchCoin(tip, o, db[o]), p, db[p]) = Lookup(tip, p, db[p])
             /\ EntryOK(FetchCoin(tip, o, db[o])[p], db[p])
    BY <1>1, <1>2, FetchCoinKeeps
  <1>5. \A p \in OutPoints : EntryOK(view[p], TipMap[p])
    BY <1>1, <1>3, Zenon
  <1>6. /\ FetchCoin(view, o, TipMap[o]) \in Cache
        /\ \A p \in OutPoints :
             /\ Lookup(FetchCoin(view, o, TipMap[o]), p, TipMap[p]) = Lookup(view, p, TipMap[p])
             /\ EntryOK(FetchCoin(view, o, TipMap[o])[p], TipMap[p])
             /\ p # o => FetchCoin(view, o, TipMap[o])[p] = view[p]
    BY <1>2, <1>3, <1>5, FetchCoinKeeps
  <1>7. ViewAfterFetch(o) = FetchCoin(view, o, TipMap[o])
    BY <1>3 DEF ViewAfterFetch
  <1>8. ViewAfterFetch(o)[o] = NoEntry => TipCoin(o) = Spent
    <2>1. CASE view[o] # NoEntry \/ TipCoin(o) = Spent
      BY <2>1 DEF ViewAfterFetch, FetchCoin
    <2>2. CASE view[o] = NoEntry /\ TipCoin(o) # Spent
      <3>1. ViewAfterFetch(o)[o] = [coin |-> TipCoin(o), flags |-> {}]
        BY <2>2, <1>2 DEF ViewAfterFetch, FetchCoin, Cache
      <3>2. TipCoin(o) \in Value /\ {} \in SUBSET Flags
        BY MapsTyped DEF Inv
      <3> QED
        BY <3>1, <3>2, EntryFields
    <2> QED
      BY <2>1, <2>2
  <1>9. TipAfterFetch(o) = FetchCoin(tip, o, db[o]) \/ TipAfterFetch(o) = tip
    BY DEF TipAfterFetch
  <1>10. \A p \in OutPoints : /\ TipCoin(p) = Lookup(tip, p, db[p])
                               /\ ViewCoin(p) = Lookup(view, p, TipMap[p])
    BY <1>3, Zenon DEF TipCoin, ViewCoin
  <1> QED
    BY <1>1, <1>2, <1>3, <1>4, <1>6, <1>7, <1>8, <1>9, <1>10

-----------------------------------------------------------------------------
\* A step that changes no answer of any level is a stutter of CoinsView.
LEMMA InvisibleStep ==
    ASSUME \A p \in OutPoints : TipCoin(p)' = TipCoin(p) /\ ViewCoin(p)' = ViewCoin(p),
           db' = db, dbBest' = dbBest, TipBest' = TipBest, ViewBest' = ViewBest
    PROVE  UNCHANGED Views!viewsVars
  BY DEF Views!viewsVars

\* A step that changes one outpoint of the scratch view is a Put.
LEMMA VisiblePut ==
    ASSUME NEW o \in OutPoints, NEW c \in Spendable \cup {Spent},
           \A p \in OutPoints :
              /\ TipCoin(p)' = TipCoin(p)
              /\ ViewCoin(p)' = (IF p = o THEN c ELSE ViewCoin(p)),
           db' = db, dbBest' = dbBest, TipBest' = TipBest, ViewBest' = ViewBest
    PROVE  Views!Next
  <1>1. Views!Put(o, c)
    BY Zenon DEF Views!Put
  <1> QED
    BY <1>1 DEF Views!Next

-----------------------------------------------------------------------------
\* One lemma per action: it keeps the invariant and maps to a step or a stutter.

\* Reading through pcoinsTip keeps the invariant and shows nothing.
LEMMA TipAccessStep ==
    ASSUME Inv, NEW o \in OutPoints, TipAccess(o)
    PROVE  Inv' /\ UNCHANGED Views!viewsVars
  <1>1. tip \in Cache /\ db \in [OutPoints -> Value]
    BY DEF Inv, TypeOK
  <1>2. \A p \in OutPoints : EntryOK(tip[p], db[p]) /\ EntryOK(view[p], TipCoin(p))
    BY EntriesOK DEF Inv
  <1>3. /\ tip' \in Cache
        /\ \A p \in OutPoints : Lookup(tip', p, db[p]) = Lookup(tip, p, db[p])
                               /\ EntryOK(tip'[p], db[p])
    BY <1>1, <1>2, FetchCoinKeeps DEF TipAccess
  <1>4. \A p \in OutPoints : TipCoin(p)' = TipCoin(p) /\ ViewCoin(p)' = ViewCoin(p)
    BY <1>3 DEF TipAccess, TipCoin, ViewCoin
  <1>5. TypeOK' /\ NoLogicError'
    BY <1>3 DEF TipAccess, Inv, TypeOK, NoLogicError
  <1>6. \A p \in OutPoints : EntryOK(tip[p], db[p])' /\ EntryOK(view[p], TipCoin(p))'
    BY <1>2, <1>3, <1>4 DEF TipAccess, EntryOK
  <1>7. Inv'
    BY <1>5, <1>6, InvFromEntries
  <1> QED
    BY <1>4, <1>7, InvisibleStep DEF TipAccess, TipBest, ViewBest

\* Reading through the scratch view keeps the invariant and shows nothing.
LEMMA ViewAccessStep ==
    ASSUME Inv, NEW o \in OutPoints, ViewAccess(o)
    PROVE  Inv' /\ UNCHANGED Views!viewsVars
  <1>1. /\ tip' = TipAfterFetch(o)
        /\ view' = ViewAfterFetch(o)
        /\ UNCHANGED <<db, dbBest, tipHash, viewHash, thrown>>
    BY DEF ViewAccess
  <1>2. \A p \in OutPoints : TipCoin(p)' = TipCoin(p)
    BY <1>1, FetchThrough DEF TipCoin
  <1>3. \A p \in OutPoints : ViewCoin(p)' = ViewCoin(p)
    BY <1>1, <1>2, FetchThrough DEF ViewCoin
  <1>4. TypeOK' /\ NoLogicError'
    BY <1>1, FetchThrough, Zenon DEF Inv, TypeOK, NoLogicError
  <1>5. \A p \in OutPoints : EntryOK(tip[p], db[p])' /\ EntryOK(view[p], TipCoin(p))'
    BY <1>1, <1>2, FetchThrough DEF EntryOK
  <1>6. Inv'
    BY <1>4, <1>5, InvFromEntries
  <1> QED
    BY <1>1, <1>2, <1>3, <1>6, InvisibleStep DEF TipBest, ViewBest

\* AddCoin into a scratch cache that answers as the view does, with pcoinsTip
\* answering as before.
LEMMA AddCoinStep ==
    ASSUME Inv, NEW cache \in Cache, NEW o \in OutPoints, NEW c \in Coins,
           NEW overwrite \in BOOLEAN,
           ~overwrite => ViewCoin(o) = Spent,
           \A p \in OutPoints : /\ Lookup(cache, p, TipCoin(p)) = ViewCoin(p)
                                /\ EntryOK(cache[p], TipCoin(p)),
           tip' \in Cache,
           \A p \in OutPoints : /\ Lookup(tip', p, db[p]) = TipCoin(p)
                                /\ EntryOK(tip'[p], db[p]),
           AddCoin(cache, o, c, overwrite)
    PROVE  Inv' /\ (Views!Next \/ UNCHANGED Views!viewsVars)
  <1>1. db' = db /\ dbBest' = dbBest /\ tipHash' = tipHash /\ viewHash' = viewHash
    BY DEF AddCoin
  <1>2. TipBest' = TipBest /\ ViewBest' = ViewBest
    BY <1>1 DEF TipBest, ViewBest
  <1>3. \A p \in OutPoints : TipCoin(p)' = TipCoin(p) /\ TipCoin(p) \in Value
    BY <1>1, MapsTyped DEF TipCoin, Inv
  <1>4. CASE c \in Unspendable
    <2>1. view' = cache /\ thrown' = thrown
      BY <1>4 DEF AddCoin, Inv, TypeOK
    <2>2. TypeOK' /\ NoLogicError'
      BY <1>1, <2>1 DEF Inv, TypeOK, NoLogicError
    <2>3. \A p \in OutPoints : EntryOK(tip[p], db[p])' /\ EntryOK(view[p], TipCoin(p))'
      BY <1>1, <1>3, <2>1 DEF EntryOK
    <2>4. \A p \in OutPoints : ViewCoin(p)' = ViewCoin(p)
      BY <1>3, <2>1 DEF ViewCoin
    <2>5. Inv'
      BY <2>2, <2>3, InvFromEntries
    <2>6. UNCHANGED Views!viewsVars
      BY <1>1, <1>2, <1>3, <2>4, InvisibleStep
    <2> QED
      BY <2>5, <2>6
  <1>5. CASE c \notin Unspendable
    <2> DEFINE e == AddEntry(cache, o, c, overwrite)
    <2>0. c \in Spendable /\ c \in Spendable \cup {Spent}
      BY <1>5 DEF Spendable
    <2>1. e \in Entry /\ e # NoEntry /\ e.coin = c /\ EntryOK(e, TipCoin(o))
      BY <1>3, <2>0, AddEntryKeeps
    <2>2. ~AddThrows(cache, o, overwrite)
      BY <1>3, <2>0, AddEntryKeeps
    <2>3. view' = [cache EXCEPT ![o] = e] /\ thrown' = thrown
      BY <1>5, <2>2 DEF AddCoin, Inv, TypeOK
    <2> HIDE DEF e
    <2>4. view' \in Cache
      BY <2>1, <2>3 DEF Cache
    <2>5. TypeOK' /\ NoLogicError'
      BY <1>1, <2>3, <2>4 DEF Inv, TypeOK, NoLogicError
    <2>6. \A p \in OutPoints : view'[p] = IF p = o THEN e ELSE cache[p]
      BY <2>3 DEF Cache
    <2>7. \A p \in OutPoints : EntryOK(view[p], TipCoin(p))'
      BY <1>3, <2>1, <2>6 DEF EntryOK
    <2>8. \A p \in OutPoints : EntryOK(tip[p], db[p])'
      BY <1>1 DEF EntryOK
    <2>9. \A p \in OutPoints : ViewCoin(p)' = (IF p = o THEN c ELSE ViewCoin(p))
      BY <1>3, <2>1, <2>6 DEF ViewCoin, Lookup
    <2>10. Inv'
      BY <2>5, <2>7, <2>8, InvFromEntries
    <2>11. Views!Next
      BY <1>1, <1>2, <1>3, <2>0, <2>9, VisiblePut
    <2> QED
      BY <2>10, <2>11
  <1> QED
    BY <1>4, <1>5

\* The three callers of AddCoin: each keeps the invariant and puts one coin,
\* or nothing when the output is unspendable.
LEMMA AddStep ==
    ASSUME Inv, NEW o \in OutPoints, NEW c \in Coins,
           AddNew(o, c) \/ AddCoinbase(o, c) \/ AddChecked(o, c)
    PROVE  Inv' /\ (Views!Next \/ UNCHANGED Views!viewsVars)
  <1>1. /\ tip \in Cache /\ view \in Cache
        /\ \A p \in OutPoints : EntryOK(tip[p], db[p]) /\ EntryOK(view[p], TipCoin(p))
        /\ \A p \in OutPoints : /\ Lookup(view, p, TipCoin(p)) = ViewCoin(p)
                                 /\ Lookup(tip, p, db[p]) = TipCoin(p)
    BY EntriesOK DEF Inv, TypeOK, ViewCoin, TipCoin
  <1>2. CASE AddNew(o, c)
    <2>1. tip' = tip /\ ViewCoin(o) = Spent /\ AddCoin(view, o, c, FALSE)
      BY <1>2, Zenon DEF AddNew
    <2> QED
      BY <1>1, <2>1, AddCoinStep, Zenon
  <1>3. CASE AddCoinbase(o, c)
    <2>1. tip' = tip /\ AddCoin(view, o, c, TRUE)
      BY <1>3, Zenon DEF AddCoinbase
    <2> QED
      BY <1>1, <2>1, AddCoinStep, Zenon
  <1>4. CASE AddChecked(o, c)
    <2>1. /\ tip' = TipAfterFetch(o)
          /\ AddCoin(ViewAfterFetch(o), o, c, ViewCoin(o) # Spent)
      BY <1>4 DEF AddChecked
    <2>2. (ViewCoin(o) # Spent) \in BOOLEAN
      OBVIOUS
    <2> QED
      BY <2>1, <2>2, FetchThrough, AddCoinStep, ZenonT(30)
  <1> QED
    BY <1>2, <1>3, <1>4

\* SpendCoin keeps the invariant and shows the outpoint as spent.
LEMMA SpendStep ==
    ASSUME Inv, NEW o \in OutPoints, SpendCoin(o)
    PROVE  Inv' /\ Views!Next
  <1> DEFINE cache == ViewAfterFetch(o)
             e == SpendEntry(cache, o)
  <1>1. /\ tip' = TipAfterFetch(o)
        /\ view' = [cache EXCEPT ![o] = e]
        /\ UNCHANGED <<db, dbBest, tipHash, viewHash, thrown>>
    BY DEF SpendCoin
  <1>2. TipBest' = TipBest /\ ViewBest' = ViewBest
    BY <1>1 DEF TipBest, ViewBest
  <1>3. \A p \in OutPoints : TipCoin(p)' = TipCoin(p) /\ TipCoin(p) \in Value
    BY <1>1, FetchThrough, MapsTyped DEF TipCoin, Inv
  <1>4. /\ cache \in Cache
        /\ \A p \in OutPoints : Lookup(cache, p, TipCoin(p)) = ViewCoin(p)
                               /\ EntryOK(cache[p], TipCoin(p))
        /\ cache[o] = NoEntry => TipCoin(o) = Spent
    BY FetchThrough
  <1> HIDE DEF cache
  <1>5. /\ e \in Entry \cup {NoEntry}
        /\ e = NoEntry => TipCoin(o) = Spent
        /\ e # NoEntry => e.coin = Spent
        /\ EntryOK(e, TipCoin(o))
    BY <1>3, <1>4, SpendEntryKeeps
  <1> HIDE DEF e
  <1>6. \A p \in OutPoints : view'[p] = IF p = o THEN e ELSE cache[p]
    BY <1>1, <1>4 DEF Cache
  <1>7. TypeOK' /\ NoLogicError'
    <2>1. view' \in Cache
      BY <1>1, <1>4, <1>5 DEF Cache
    <2>2. tip' \in Cache
      BY <1>1, FetchThrough
    <2> QED
      BY <1>1, <2>1, <2>2 DEF Inv, TypeOK, NoLogicError
  <1>8. \A p \in OutPoints : EntryOK(tip[p], db[p])' /\ EntryOK(view[p], TipCoin(p))'
    BY <1>1, <1>3, <1>4, <1>5, <1>6, FetchThrough DEF EntryOK
  <1>9. \A p \in OutPoints : ViewCoin(p)' = (IF p = o THEN Spent ELSE ViewCoin(p))
    BY <1>3, <1>4, <1>5, <1>6 DEF ViewCoin, Lookup
  <1>10. Inv'
    BY <1>7, <1>8, InvFromEntries
  <1>11. Views!Next
    BY <1>1, <1>2, <1>3, <1>9, VisiblePut
  <1> QED
    BY <1>10, <1>11

\* Uncache drops only an entry that agrees with the database.
LEMMA UncacheStep ==
    ASSUME Inv, NEW o \in OutPoints, Uncache(o)
    PROVE  Inv' /\ UNCHANGED Views!viewsVars
  <1>1. \A p \in OutPoints : EntryOK(tip[p], db[p]) /\ EntryOK(view[p], TipCoin(p))
    BY EntriesOK DEF Inv
  <1>2. tip \in Cache /\ tip' \in Cache
    BY DEF Inv, TypeOK, Uncache, Cache
  <1>3. \A p \in OutPoints : tip'[p] = IF p = o THEN NoEntry ELSE tip[p]
    BY <1>2 DEF Uncache, Cache
  <1>4. \A p \in OutPoints : TipCoin(p)' = TipCoin(p)
    BY <1>1, <1>3 DEF Uncache, TipCoin, Lookup, EntryOK
  <1>5. \A p \in OutPoints : ViewCoin(p)' = ViewCoin(p)
    BY <1>4 DEF Uncache, ViewCoin
  <1>6. TypeOK' /\ NoLogicError'
    BY <1>2 DEF Uncache, Inv, TypeOK, NoLogicError
  <1>7. \A p \in OutPoints : EntryOK(tip[p], db[p])' /\ EntryOK(view[p], TipCoin(p))'
    BY <1>1, <1>3, <1>4 DEF Uncache, EntryOK
  <1>8. Inv'
    BY <1>6, <1>7, InvFromEntries
  <1> QED
    BY <1>4, <1>5, <1>8, InvisibleStep DEF Uncache, TipBest, ViewBest

\* GetBestBlock and SetBestBlock touch no coin.
LEMMA BestBlockStep ==
    ASSUME Inv, TipGetBestBlock \/ ViewGetBestBlock \/ \E b \in Blocks : SetBestBlock(b)
    PROVE  Inv' /\ (Views!Next \/ UNCHANGED Views!viewsVars)
  <1>1. db' = db /\ dbBest' = dbBest /\ tip' = tip /\ view' = view /\ thrown' = thrown
    BY DEF TipGetBestBlock, ViewGetBestBlock, SetBestBlock
  <1>2. tipHash' \in Blocks \cup {NullHash} /\ viewHash' \in Blocks \cup {NullHash}
    BY DEF Inv, TypeOK, TipGetBestBlock, ViewGetBestBlock, SetBestBlock, TipBest, ViewBest
  <1>3. Inv'
    BY <1>1, <1>2 DEF Inv, TypeOK, NoLogicError, FreshMeansAbsentBelow,
                      CleanMatchesParent, TipCoin, Lookup, IsDirty
  <1>4. \A p \in OutPoints : TipCoin(p)' = TipCoin(p) /\ ViewCoin(p)' = ViewCoin(p)
    BY <1>1 DEF TipCoin, ViewCoin, Lookup
  <1>5. CASE TipGetBestBlock \/ ViewGetBestBlock
    <2>1. TipBest' = TipBest /\ ViewBest' = ViewBest
      BY <1>5, <1>1 DEF TipGetBestBlock, ViewGetBestBlock, TipBest, ViewBest
    <2> QED
      BY <1>1, <1>3, <1>4, <2>1, InvisibleStep
  <1>6. CASE \E b \in Blocks : SetBestBlock(b)
    <2>1. PICK b \in Blocks : SetBestBlock(b)
      BY <1>6
    <2>2. ViewBest' = b /\ TipBest' = TipBest
      BY <2>1, SentinelsDistinct DEF SetBestBlock, ViewBest, TipBest
    <2>3. Views!SetBest(b)
      BY <1>1, <1>4, <2>2 DEF Views!SetBest
    <2> QED
      BY <1>3, <2>3 DEF Views!Next
  <1> QED
    BY <1>5, <1>6

\* Flushing the scratch view: no entry is misapplied, and pcoinsTip answers
\* what the view answered.
LEMMA FlushViewStep ==
    ASSUME Inv, FlushView
    PROVE  Inv' /\ Views!Next
  <1>1. \A p \in OutPoints : EntryOK(tip[p], db[p]) /\ EntryOK(view[p], TipCoin(p))
    BY EntriesOK DEF Inv
  <1>2. \A p \in OutPoints : /\ tip[p] \in Entry \cup {NoEntry}
                              /\ view[p] \in Entry \cup {NoEntry}
                              /\ db[p] \in Value
    BY DEF Inv, TypeOK, Cache
  <1>3. ASSUME NEW p \in OutPoints
        PROVE  LET w == WriteEntry(view[p], tip[p])
               IN  /\ w \in Entry \cup {NoEntry}
                   /\ EntryOK(w, db[p])
                   /\ (IF w = NoEntry THEN db[p] ELSE w.coin) = ViewCoin(p)
                   /\ ~Misapplied(view[p], tip[p])
    BY <1>1, <1>2, WriteEntryKeeps DEF ViewCoin, TipCoin, Lookup
  <1>4. /\ tip' = [o \in OutPoints |-> WriteEntry(view[o], tip[o])]
        /\ tipHash' = viewHash
        /\ view' = EmptyCache
        /\ UNCHANGED <<db, dbBest, viewHash, thrown>>
        /\ viewHash # NullHash
    BY <1>3 DEF FlushView
  <1>5. tip' \in Cache /\ view' \in Cache
    BY <1>3, <1>4 DEF Cache, EmptyCache
  <1>6. TypeOK' /\ NoLogicError'
    BY <1>4, <1>5 DEF Inv, TypeOK, NoLogicError
  <1>7. \A p \in OutPoints : TipCoin(p)' = ViewCoin(p)
    BY <1>3, <1>4 DEF TipCoin, Lookup
  <1>8. \A p \in OutPoints : ViewCoin(p)' = ViewCoin(p)
    BY <1>4, <1>7 DEF ViewCoin, Lookup, EmptyCache
  <1>9. \A p \in OutPoints : EntryOK(tip[p], db[p])' /\ EntryOK(view[p], TipCoin(p))'
    BY <1>3, <1>4 DEF EntryOK, EmptyCache
  <1>10. Inv'
    BY <1>6, <1>9, InvFromEntries
  <1>11. TipBest' = ViewBest /\ ViewBest' = ViewBest
    BY <1>4 DEF TipBest, ViewBest
  <1>12. Views!Commit
    BY <1>4, <1>7, <1>8, <1>11 DEF Views!Commit
  <1> QED
    BY <1>10, <1>12 DEF Views!Next

\* Discarding the scratch view leaves an empty one over pcoinsTip.
LEMMA NewViewStep ==
    ASSUME Inv, NewView
    PROVE  Inv' /\ Views!Next
  <1>1. /\ view' = EmptyCache
        /\ viewHash' = NullHash
        /\ UNCHANGED <<db, dbBest, tip, tipHash, thrown>>
    BY DEF NewView
  <1>2. \A p \in OutPoints : EntryOK(tip[p], db[p])
    BY EntriesOK DEF Inv
  <1>3. TypeOK' /\ NoLogicError'
    BY <1>1 DEF Inv, TypeOK, NoLogicError, Cache, EmptyCache
  <1>4. \A p \in OutPoints : TipCoin(p)' = TipCoin(p)
    BY <1>1 DEF TipCoin
  <1>5. \A p \in OutPoints : ViewCoin(p)' = TipCoin(p)
    BY <1>1, <1>4 DEF ViewCoin, Lookup, EmptyCache
  <1>6. \A p \in OutPoints : EntryOK(tip[p], db[p])' /\ EntryOK(view[p], TipCoin(p))'
    BY <1>1, <1>2 DEF EntryOK, EmptyCache
  <1>7. Inv'
    BY <1>3, <1>6, InvFromEntries
  <1>8. TipBest' = TipBest /\ ViewBest' = TipBest
    BY <1>1 DEF TipBest, ViewBest
  <1>9. Views!Abandon
    BY <1>1, <1>4, <1>5, <1>8 DEF Views!Abandon
  <1> QED
    BY <1>7, <1>9 DEF Views!Next

\* Flushing pcoinsTip: the database receives what pcoinsTip answers, because
\* the entries the flush skips agree with it.
LEMMA FlushTipStep ==
    ASSUME Inv, FlushTip
    PROVE  Inv' /\ Views!Next
  <1>1. \A p \in OutPoints : EntryOK(tip[p], db[p]) /\ EntryOK(view[p], TipCoin(p))
    BY EntriesOK DEF Inv
  <1>2. /\ db' = [o \in OutPoints |-> IF IsDirty(tip[o]) THEN tip[o].coin ELSE db[o]]
        /\ dbBest' = TipBest
        /\ tip' = EmptyCache
        /\ tipHash' = TipBest
        /\ UNCHANGED <<view, viewHash, thrown>>
        /\ TipBest # NullHash
    BY DEF FlushTip
  <1>3. \A p \in OutPoints : db'[p] = TipCoin(p)
    BY <1>1, <1>2 DEF IsDirty, EntryOK, TipCoin, Lookup
  <1>4. \A p \in OutPoints : TipCoin(p)' = TipCoin(p)
    BY <1>2, <1>3 DEF TipCoin, Lookup, EmptyCache
  <1>5. \A p \in OutPoints : ViewCoin(p)' = ViewCoin(p)
    BY <1>2, <1>4 DEF ViewCoin
  <1>6. db' = [p \in OutPoints |-> TipCoin(p)] /\ db' \in [OutPoints -> Value]
    BY <1>2, <1>3, MapsTyped DEF Inv
  <1>7. TypeOK' /\ NoLogicError'
    BY <1>2, <1>6 DEF Inv, TypeOK, NoLogicError, Cache, EmptyCache, TipBest
  <1>8. \A p \in OutPoints : EntryOK(tip[p], db[p])' /\ EntryOK(view[p], TipCoin(p))'
    BY <1>1, <1>2, <1>4 DEF EntryOK, EmptyCache
  <1>9. Inv'
    BY <1>7, <1>8, InvFromEntries
  <1>10. TipBest' = TipBest /\ ViewBest' = ViewBest
    BY <1>2 DEF TipBest, ViewBest
  <1>11. Views!Persist
    BY <1>2, <1>4, <1>5, <1>6, <1>10 DEF Views!Persist
  <1> QED
    BY <1>9, <1>11 DEF Views!Next

-----------------------------------------------------------------------------
\* The empty stack satisfies the invariant.
LEMMA InitInv ==
    Init => Inv
  BY Zenon DEF Init, Inv, TypeOK, NoLogicError, FreshMeansAbsentBelow, CleanMatchesParent,
         Value, Cache, EmptyCache, IsDirty

\* The empty stack shows three empty maps.
LEMMA InitViews ==
    Init => Views!Init
  BY DEF Init, Views!Init, TipCoin, ViewCoin, Lookup, EmptyCache, TipBest, ViewBest

\* Every step keeps the invariant and maps to a step or a stutter of CoinsView.
LEMMA NextStep ==
    ASSUME Inv, [Next]_vars
    PROVE  Inv' /\ [Views!Next]_(Views!viewsVars)
  <1>1. CASE UNCHANGED vars
    <2>1. Inv'
      BY <1>1 DEF vars, Inv, TypeOK, NoLogicError, FreshMeansAbsentBelow,
                  CleanMatchesParent, TipCoin, Lookup, IsDirty
    <2>2. UNCHANGED Views!viewsVars
      BY <1>1 DEF vars, Views!viewsVars, TipCoin, ViewCoin, Lookup, TipBest, ViewBest
    <2> QED
      BY <2>1, <2>2
  <1>2. CASE \E o \in OutPoints : TipAccess(o) \/ ViewAccess(o) \/ Uncache(o)
    BY <1>2, TipAccessStep, ViewAccessStep, UncacheStep
  <1>3. CASE \E o \in OutPoints, c \in Coins : AddNew(o, c) \/ AddCoinbase(o, c) \/ AddChecked(o, c)
    BY <1>3, AddStep
  <1>4. CASE \E o \in OutPoints : SpendCoin(o)
    BY <1>4, SpendStep
  <1>5. CASE TipGetBestBlock \/ ViewGetBestBlock \/ \E b \in Blocks : SetBestBlock(b)
    BY <1>5, BestBlockStep
  <1>6. CASE FlushView \/ NewView \/ FlushTip
    BY <1>6, FlushViewStep, NewViewStep, FlushTipStep
  <1> QED
    BY <1>1, <1>2, <1>3, <1>4, <1>5, <1>6 DEF Next

\* The three levels keep their types, for every set of outpoints and coins.
THEOREM CacheTyped == Spec => []TypeOK
  <1>1. Inv /\ [Next]_vars => Inv'
    BY NextStep
  <1>2. Inv => TypeOK
    BY DEF Inv
  <1> QED
    BY <1>1, <1>2, InitInv, PTL DEF Spec

\* AddCoin and BatchWrite never raise std::logic_error, whatever the order of
\* reads, writes, uncachings and flushes.
THEOREM CacheNeverThrows == Spec => []NoLogicError
  <1>1. Inv /\ [Next]_vars => Inv'
    BY NextStep
  <1>2. Inv => NoLogicError
    BY DEF Inv
  <1> QED
    BY <1>1, <1>2, InitInv, PTL DEF Spec

\* A FRESH entry has no unspent coin below it, at both levels: what a flush
\* drops instead of writing was never there to be erased.
THEOREM FreshAbsentBelow == Spec => []FreshMeansAbsentBelow
  <1>1. Inv /\ [Next]_vars => Inv'
    BY NextStep
  <1>2. Inv => FreshMeansAbsentBelow
    BY DEF Inv
  <1> QED
    BY <1>1, <1>2, InitInv, PTL DEF Spec

\* An entry without DIRTY agrees with the level below it: Uncache may drop it
\* and a flush may skip it.
THEOREM CleanEntriesMatch == Spec => []CleanMatchesParent
  <1>1. Inv /\ [Next]_vars => Inv'
    BY NextStep
  <1>2. Inv => CleanMatchesParent
    BY DEF Inv
  <1> QED
    BY <1>1, <1>2, InitInv, PTL DEF Spec

\* The cached stack implements three plain maps: no read changes an answer, no
\* flush loses or invents a coin, coins and best block move together.
THEOREM CacheImplementsViews == Spec => ImplementsViews
  <1>1. Inv /\ [Next]_vars => Inv'
    BY NextStep
  <1>2. Inv /\ [Next]_vars => [Views!Next]_(Views!viewsVars)
    BY NextStep
  <1> QED
    BY <1>1, <1>2, InitInv, InitViews, PTL DEF Spec, ImplementsViews, Views!Spec
=============================================================================
