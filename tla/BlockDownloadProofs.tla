------------------------ MODULE BlockDownloadProofs ------------------------
(***************************************************************************)
(* The safety of block download for any peers, any tree of blocks and any  *)
(* window.  Fairness plays no part here.                                   *)
(***************************************************************************)
EXTENDS BlockDownload, FiniteSetTheorems, TLAPS

Types ==
  /\ node \in [Peers -> {"absent", "new", "up", "gone"}]
  /\ avail \in [Peers -> [best : Blocks \cup {None}, unknown : Blocks \cup {None}]]
  /\ lastCommon \in [Peers -> Tree \cup {None}]
  /\ headerSync \in [Peers -> {"off", "timed", "done"}]
  /\ protect \subseteq Peers

\* What is being processed is a block other than the genesis block.
Processing == processing # None => processing.block \in Blocks

\* The chain has its data, and the genesis block is never asked for.
Stored ==
  /\ haveData \subseteq Tree /\ Genesis \in haveData
  /\ tip \in Tree /\ Ancestors[tip] \subseteq haveData

RequestTypes ==
  /\ requested \in [Peers -> SUBSET Blocks]
  /\ nBlocksInFlight \in [Peers -> Nat]
  /\ inFlight \in [Blocks -> Peers \cup {None}]
  /\ stalling \subseteq Peers

Owing == {p \in Peers : requested[p] # {}}

\* The part of InFlightAgrees about the variables of requests.
RequestsAgree ==
  /\ \A b \in Blocks, p \in Peers : inFlight[b] = p <=> b \in requested[p]
  /\ \A p \in Peers : requested[p] # {} => Known(p)
  /\ \A p \in Peers : nBlocksInFlight[p] = Cardinality(requested[p])
  /\ nPeersWithValidatedDownloads = Cardinality(Owing)
  /\ \A p \in stalling : requested[p] # {}

Preferables == {p \in Outbound : node[p] = "up"}
Syncing == {p \in Peers : headerSync[p] # "off"}

\* The part about the other counters.
CountersAgree ==
  /\ nPreferredDownload = Cardinality(Preferables)
  /\ nSyncStarted = Cardinality(Syncing)
  /\ nProtected = Cardinality(protect)

IInv ==
  /\ Types /\ Processing /\ Stored
  /\ RequestTypes /\ RequestsAgree /\ CountersAgree /\ NoHoleBelowLastCommon

\* The parts together are InFlightAgrees.
LEMMA PartsAgree == RequestsAgree /\ CountersAgree <=> InFlightAgrees
BY DEF RequestsAgree, CountersAgree, InFlightAgrees, Owing, Preferables, Syncing

\* Everything that is counted is finite.
LEMMA Finiteness ==
  ASSUME Types, RequestTypes
  PROVE  /\ \A p \in Peers : IsFiniteSet(requested[p])
         /\ IsFiniteSet(Owing) /\ IsFiniteSet(Preferables)
         /\ IsFiniteSet(Syncing) /\ IsFiniteSet(protect)
<1>1. IsFiniteSet(Peers) /\ IsFiniteSet(Blocks) /\ Outbound \subseteq Peers
  BY Shape DEF Shape
<1>2. \A p \in Peers : requested[p] \subseteq Blocks
  BY DEF RequestTypes
<1>3. Owing \subseteq Peers /\ Preferables \subseteq Peers /\ Syncing \subseteq Peers /\ protect \subseteq Peers
  BY <1>1 DEF Types, Owing, Preferables, Syncing
<1>4. QED
  BY <1>1, <1>2, <1>3, FS_Subset

(***************************************************************************)
(* Requests.                                                               *)
(***************************************************************************)

\* MarkBlockAsReceived takes the block off the one list that has it.
LEMMA ReceivedAgrees ==
  ASSUME Types, RequestTypes, RequestsAgree, NEW b \in Blocks, MarkBlockAsReceived(b), node' = node
  PROVE  RequestTypes' /\ RequestsAgree'
<1>1. CASE inFlight[b] = None
  <2>1. UNCHANGED requests
    BY <1>1 DEF MarkBlockAsReceived
  <2>2. QED
    BY <2>1 DEF requests, RequestTypes, RequestsAgree, Owing, Known
<1>2. CASE inFlight[b] # None
  <2> DEFINE p == inFlight[b]
  <2>1. p \in Peers /\ b \in requested[p] /\ p # None
    BY <1>2, Shape DEF RequestTypes, RequestsAgree, Shape
  <2>2. /\ requested' = [requested EXCEPT ![p] = @ \ {b}]
        /\ nBlocksInFlight' = [nBlocksInFlight EXCEPT ![p] = @ - 1]
        /\ nPeersWithValidatedDownloads' =
             nPeersWithValidatedDownloads - (IF nBlocksInFlight[p] = 1 THEN 1 ELSE 0)
        /\ stalling' = stalling \ {p}
        /\ inFlight' = [inFlight EXCEPT ![b] = None]
    BY <1>2 DEF MarkBlockAsReceived
  <2> HIDE DEF p
  <2>3. IsFiniteSet(requested[p]) /\ IsFiniteSet(Owing)
    BY <2>1, Finiteness
  <2>4. /\ requested'[p] = requested[p] \ {b} /\ nBlocksInFlight'[p] = nBlocksInFlight[p] - 1
        /\ \A q \in Peers \ {p} : requested'[q] = requested[q] /\ nBlocksInFlight'[q] = nBlocksInFlight[q]
    BY <2>1, <2>2 DEF RequestTypes
  <2>5. /\ Cardinality(requested'[p]) = Cardinality(requested[p]) - 1
        /\ Cardinality(requested'[p]) \in Nat /\ IsFiniteSet(requested'[p])
    BY <2>1, <2>3, <2>4, FS_RemoveElement, FS_CardinalityType
  <2>6. nBlocksInFlight[p] = Cardinality(requested[p])
    BY <2>1 DEF RequestsAgree
  <2>7. requested'[p] = {} <=> nBlocksInFlight[p] = 1
    <3>1. requested'[p] = {} <=> Cardinality(requested'[p]) = 0
      BY <2>5, FS_EmptySet, Zenon
    <3>2. QED
      BY <3>1, <2>5, <2>6
  <2>8. RequestTypes'
    BY <2>1, <2>2, <2>5, <2>6 DEF RequestTypes
  <2>9. \A x \in Blocks, q \in Peers : inFlight'[x] = q <=> x \in requested'[q]
    <3> SUFFICES ASSUME NEW x \in Blocks, NEW q \in Peers
                 PROVE  inFlight'[x] = q <=> x \in requested'[q]
      OBVIOUS
    <3>1. inFlight[x] = q <=> x \in requested[q]
      BY DEF RequestsAgree
    <3>2. inFlight'[x] = IF x = b THEN None ELSE inFlight[x]
      BY <2>2 DEF RequestTypes
    <3>3. q # None
      BY Shape DEF Shape
    <3>4. inFlight[b] = p
      BY DEF p
    <3>5. QED
      BY <3>1, <3>2, <3>3, <3>4, <2>1, <2>4
  <2>10. \A q \in Peers : requested'[q] # {} => Known(q)'
    BY <2>1, <2>4 DEF RequestsAgree, Known
  <2>11. \A q \in Peers : nBlocksInFlight'[q] = Cardinality(requested'[q])
    BY <2>4, <2>5, <2>6, Zenon DEF RequestsAgree
  <2>12. nPeersWithValidatedDownloads' = Cardinality(Owing')
    <3>1. p \in Owing
      BY <2>1 DEF Owing
    <3>2. nPeersWithValidatedDownloads = Cardinality(Owing) /\ Cardinality(Owing) \in Nat
      BY <2>3, FS_CardinalityType DEF RequestsAgree
    <3>3. CASE requested'[p] = {}
      <4>1. Owing' = Owing \ {p}
        BY <3>3, <2>4 DEF Owing
      <4>2. Cardinality(Owing') = Cardinality(Owing) - 1
        BY <4>1, <3>1, <2>3, FS_RemoveElement, Zenon
      <4>3. QED
        BY <4>2, <3>2, <3>3, <2>2, <2>7
    <3>4. CASE requested'[p] # {}
      <4>1. Owing' = Owing
        BY <3>1, <3>4, <2>4 DEF Owing
      <4>2. QED
        BY <4>1, <3>2, <3>4, <2>2, <2>7
    <3>5. QED
      BY <3>3, <3>4
  <2>13. \A q \in stalling' : requested'[q] # {}
    BY <2>2, <2>4 DEF RequestTypes, RequestsAgree
  <2>14. QED
    BY <2>8, <2>9, <2>10, <2>11, <2>12, <2>13 DEF RequestsAgree
<1>3. QED
  BY <1>1, <1>2

\* MarkBlockAsInFlight for blocks that are not in flight puts them on one list,
\* and a peer may be blamed if it owes something.
LEMMA MarkedAgrees ==
  ASSUME Types, RequestTypes, RequestsAgree, NEW p \in Peers, node[p] = "up", node' = node,
         NEW S \in SUBSET Blocks, \A b \in S : inFlight[b] = None,
         MarkBlocksAsInFlight(p, S), stalling' \subseteq stalling \cup Owing
  PROVE  RequestTypes' /\ RequestsAgree'
<1>1. /\ requested' = [requested EXCEPT ![p] = @ \cup S]
      /\ nBlocksInFlight' = [nBlocksInFlight EXCEPT ![p] = @ + Cardinality(S)]
      /\ nPeersWithValidatedDownloads' =
           nPeersWithValidatedDownloads + (IF nBlocksInFlight[p] = 0 /\ S # {} THEN 1 ELSE 0)
      /\ inFlight' = [b \in Blocks |-> IF b \in S THEN p ELSE inFlight[b]]
  BY DEF MarkBlocksAsInFlight
<1>2. IsFiniteSet(requested[p]) /\ IsFiniteSet(Owing) /\ IsFiniteSet(S)
  BY Finiteness, Shape, FS_Subset DEF Shape
<1>3. /\ requested'[p] = requested[p] \cup S /\ nBlocksInFlight'[p] = nBlocksInFlight[p] + Cardinality(S)
      /\ \A q \in Peers \ {p} : requested'[q] = requested[q] /\ nBlocksInFlight'[q] = nBlocksInFlight[q]
  BY <1>1 DEF RequestTypes
<1>4. \A q \in Peers : q # None
  BY Shape DEF Shape
<1>5. requested[p] \cap S = {}
  BY <1>4 DEF RequestsAgree
<1>6. Cardinality(requested'[p]) = Cardinality(requested[p]) + Cardinality(S)
  <2>1. Cardinality(requested[p] \cup S)
          = Cardinality(requested[p]) + Cardinality(S) - Cardinality(requested[p] \cap S)
    BY <1>2, FS_Union
  <2>2. Cardinality(requested[p] \cap S) = 0
    BY <1>5, FS_EmptySet
  <2>3. QED
    BY <2>1, <2>2, <1>2, <1>3, FS_CardinalityType
<1>7. nBlocksInFlight[p] = Cardinality(requested[p]) /\ Cardinality(S) \in Nat
  BY <1>2, FS_CardinalityType DEF RequestsAgree
<1>8. requested[p] = {} <=> nBlocksInFlight[p] = 0
  BY <1>2, <1>7, FS_EmptySet
<1>9. RequestTypes'
  <2>1. requested' \in [Peers -> SUBSET Blocks] /\ nBlocksInFlight' \in [Peers -> Nat]
    BY <1>1, <1>7 DEF RequestTypes
  <2>2. inFlight' \in [Blocks -> Peers \cup {None}]
    BY <1>1 DEF RequestTypes
  <2>3. stalling' \subseteq Peers
    BY DEF RequestTypes, Owing
  <2>4. QED
    BY <2>1, <2>2, <2>3 DEF RequestTypes
<1>10. \A x \in Blocks, q \in Peers : inFlight'[x] = q <=> x \in requested'[q]
  <2> SUFFICES ASSUME NEW x \in Blocks, NEW q \in Peers
               PROVE  inFlight'[x] = q <=> x \in requested'[q]
    OBVIOUS
  <2>1. inFlight[x] = q <=> x \in requested[q]
    BY DEF RequestsAgree
  <2>2. inFlight'[x] = IF x \in S THEN p ELSE inFlight[x]
    BY <1>1
  <2>3. QED
    BY <2>1, <2>2, <1>3, <1>4
<1>11. \A q \in Peers : requested'[q] # {} => Known(q)'
  BY <1>3 DEF RequestsAgree, Known
<1>12. \A q \in Peers : nBlocksInFlight'[q] = Cardinality(requested'[q])
  BY <1>3, <1>6, <1>7, Zenon DEF RequestsAgree
<1>13. nPeersWithValidatedDownloads' = Cardinality(Owing')
  <2>1. nPeersWithValidatedDownloads = Cardinality(Owing) /\ Cardinality(Owing) \in Nat
    BY <1>2, FS_CardinalityType DEF RequestsAgree
  <2>2. CASE nBlocksInFlight[p] = 0 /\ S # {}
    <3>1. Owing' = Owing \cup {p} /\ p \notin Owing
      BY <2>2, <1>3, <1>8 DEF Owing
    <3>2. QED
      BY <3>1, <2>1, <2>2, <1>1, <1>2, FS_AddElement, Zenon
  <2>3. CASE ~(nBlocksInFlight[p] = 0 /\ S # {})
    <3>1. Owing' = Owing
      BY <2>3, <1>3, <1>8 DEF Owing
    <3>2. QED
      BY <3>1, <2>1, <2>3, <1>1
  <2>4. QED
    BY <2>2, <2>3
<1>14. \A q \in stalling' : requested'[q] # {}
  BY <1>3 DEF RequestTypes, RequestsAgree, Owing
<1>15. QED
  BY <1>9, <1>10, <1>11, <1>12, <1>13, <1>14 DEF RequestsAgree

\* Requests that do not change stay in agreement while no peer is forgotten.
LEMMA SameRequests ==
  ASSUME RequestTypes, RequestsAgree, UNCHANGED requests, \A q \in Peers : Known(q) => Known(q)'
  PROVE  RequestTypes' /\ RequestsAgree'
<1>1. UNCHANGED <<requested, nBlocksInFlight, stalling, inFlight, nPeersWithValidatedDownloads>>
  BY DEF requests
<1>2. RequestTypes' /\ Owing' = Owing
  BY <1>1 DEF RequestTypes, Owing
<1>3. QED
  BY <1>1, <1>2 DEF RequestsAgree

\* FinalizeNode returns what the peer owes and takes it out of every counter.
LEMMA FinalizedAgrees ==
  ASSUME Types, RequestTypes, RequestsAgree, CountersAgree, NEW p \in Peers, FinalizeNode(p)
  PROVE  RequestTypes' /\ RequestsAgree' /\ CountersAgree'
<1>1. /\ requested' = [requested EXCEPT ![p] = {}] /\ nBlocksInFlight' = [nBlocksInFlight EXCEPT ![p] = 0]
      /\ stalling' = stalling \ {p} /\ node' = [node EXCEPT ![p] = "gone"]
      /\ inFlight' = [b \in Blocks |-> IF b \in requested[p] THEN None ELSE inFlight[b]]
      /\ nPeersWithValidatedDownloads' =
           nPeersWithValidatedDownloads - (IF nBlocksInFlight[p] # 0 THEN 1 ELSE 0)
  BY DEF FinalizeNode, ForgetNode
<1>2. /\ IsFiniteSet(requested[p]) /\ IsFiniteSet(Owing)
      /\ IsFiniteSet(Preferables) /\ IsFiniteSet(Syncing) /\ IsFiniteSet(protect)
  BY Finiteness
<1>3. /\ requested'[p] = {} /\ nBlocksInFlight'[p] = 0 /\ node'[p] = "gone"
      /\ \A q \in Peers \ {p} : /\ requested'[q] = requested[q] /\ node'[q] = node[q]
                                /\ nBlocksInFlight'[q] = nBlocksInFlight[q]
  BY <1>1 DEF RequestTypes, Types
<1>4. RequestTypes'
  <2>1. requested' \in [Peers -> SUBSET Blocks] /\ nBlocksInFlight' \in [Peers -> Nat]
    BY <1>1 DEF RequestTypes
  <2>2. inFlight' \in [Blocks -> Peers \cup {None}] /\ stalling' \subseteq Peers
    BY <1>1 DEF RequestTypes
  <2>3. QED
    BY <2>1, <2>2 DEF RequestTypes
<1>5. RequestsAgree'
  <2>1. \A x \in Blocks, q \in Peers : inFlight'[x] = q <=> x \in requested'[q]
    <3> SUFFICES ASSUME NEW x \in Blocks, NEW q \in Peers
                 PROVE  inFlight'[x] = q <=> x \in requested'[q]
      OBVIOUS
    <3>1. (inFlight[x] = q <=> x \in requested[q]) /\ (inFlight[x] = p <=> x \in requested[p])
      BY DEF RequestsAgree
    <3>2. inFlight'[x] = IF x \in requested[p] THEN None ELSE inFlight[x]
      BY <1>1
    <3>3. q # None
      BY Shape DEF Shape
    <3>4. QED
      BY <3>1, <3>2, <3>3, <1>3
  <2>2. \A q \in Peers : requested'[q] # {} => Known(q)'
    BY <1>3 DEF RequestsAgree, Known
  <2>3. \A q \in Peers : nBlocksInFlight'[q] = Cardinality(requested'[q])
    BY <1>3, FS_EmptySet DEF RequestsAgree
  <2>4. nPeersWithValidatedDownloads' = Cardinality(Owing')
    <3>1. Owing' = Owing \ {p}
      BY <1>3 DEF Owing
    <3>2. p \in Owing <=> nBlocksInFlight[p] # 0
      BY <1>2, FS_EmptySet DEF Owing, RequestsAgree
    <3>3. Cardinality(Owing') = IF p \in Owing THEN Cardinality(Owing) - 1 ELSE Cardinality(Owing)
      BY <3>1, <1>2, FS_RemoveElement, Zenon
    <3>4. nPeersWithValidatedDownloads = Cardinality(Owing) /\ Cardinality(Owing) \in Nat
      BY <1>2, FS_CardinalityType DEF RequestsAgree
    <3>5. QED
      BY <3>2, <3>3, <3>4, <1>1
  <2>5. \A q \in stalling' : requested'[q] # {}
    BY <1>1, <1>3 DEF RequestTypes, RequestsAgree
  <2>6. QED
    BY <2>1, <2>2, <2>3, <2>4, <2>5 DEF RequestsAgree
<1>6. CountersAgree'
  <2>1. /\ headerSync' = [headerSync EXCEPT ![p] = "off"] /\ protect' = protect \ {p}
        /\ nSyncStarted' = nSyncStarted - (IF headerSync[p] # "off" THEN 1 ELSE 0)
        /\ nPreferredDownload' = nPreferredDownload - Preferred(p)
        /\ nProtected' = nProtected - (IF p \in protect THEN 1 ELSE 0)
    BY DEF FinalizeNode, ForgetNode
  <2>2. Preferables' = Preferables \ {p}
    BY <1>3, Shape DEF Preferables, Shape
  <2>3. Syncing' = Syncing \ {p}
    BY <2>1 DEF Syncing, Types
  <2>4. /\ Cardinality(Preferables) \in Nat /\ Cardinality(Syncing) \in Nat /\ Cardinality(protect) \in Nat
        /\ Cardinality(Preferables') =
             IF p \in Preferables THEN Cardinality(Preferables) - 1 ELSE Cardinality(Preferables)
        /\ Cardinality(Syncing') = IF p \in Syncing THEN Cardinality(Syncing) - 1 ELSE Cardinality(Syncing)
        /\ Cardinality(protect') = IF p \in protect THEN Cardinality(protect) - 1 ELSE Cardinality(protect)
    BY <2>1, <2>2, <2>3, <1>2, FS_RemoveElement, FS_CardinalityType, ZenonT(30)
  <2>5. Preferred(p) = IF p \in Preferables THEN 1 ELSE 0
    BY DEF Preferred, Preferables
  <2>6. nPreferredDownload' = Cardinality(Preferables')
    BY <2>1, <2>4, <2>5 DEF CountersAgree
  <2>7. nSyncStarted' = Cardinality(Syncing')
    BY <2>1, <2>4 DEF CountersAgree, Syncing
  <2>8. nProtected' = Cardinality(protect')
    BY <2>1, <2>4 DEF CountersAgree
  <2>9. QED
    BY <2>6, <2>7, <2>8 DEF CountersAgree
<1>7. QED
  BY <1>4, <1>5, <1>6

(***************************************************************************)
(* What is asked for.                                                      *)
(***************************************************************************)
Availability == [best : Blocks \cup {None}, unknown : Blocks \cup {None}]

\* UpdateBlockAvailability and ProcessBlockAvailability record blocks only.
LEMMA AvailabilityTyped ==
  ASSUME NEW a \in Availability, NEW b \in Blocks, NEW idx
  PROVE  ProcessBlockAvailability(a, idx) \in Availability /\ UpdateBlockAvailability(a, b, idx) \in Availability
<1>1. ProcessBlockAvailability(a, idx) \in Availability
  BY DEF Availability, ProcessBlockAvailability, Better
<1>2. \A k \in Availability : [k EXCEPT !.best = Better(@, b)] \in Availability /\ [k EXCEPT !.unknown = b] \in Availability
  BY DEF Availability, Better
<1>3. QED
  BY <1>1, <1>2 DEF UpdateBlockAvailability

\* What ProcessHeadersMessage fetches directly is not there and not in flight.
LEMMA DirectFetchMissing ==
  ASSUME Stored, NEW p \in Peers, NEW b \in Blocks
  PROVE  /\ DirectFetch(p, b) \subseteq Blocks
         /\ \A x \in DirectFetch(p, b) : inFlight[x] = None /\ x \notin haveData
<1>1. Ancestors[b] \subseteq Tree
  BY AncestorsClosed DEF AncestorsClosed, Tree
<1>2. \A x \in DirectFetch(p, b) : x \in Ancestors[b] /\ inFlight[x] = None /\ x \notin haveData
  BY DEF DirectFetch, Lowest
<1>3. QED
  BY <1>1, <1>2 DEF Stored, Tree

\* What FindNextBlocksToDownload finds on the way to a known block is not there
\* and not in flight, and a peer it blames owes a block.
LEMMA WalkedMissing ==
  ASSUME Stored, RequestTypes, RequestsAgree, NEW p \in Peers, NEW best \in Tree, NEW start, NEW count,
         NEW walked, walked = Walked(start, best, count)
  PROVE  /\ walked \subseteq Tree
         /\ ToDownload(start, walked) \subseteq Blocks
         /\ \A x \in ToDownload(start, walked) : inFlight[x] = None /\ x \notin haveData
         /\ Staller(p, start, walked) \subseteq Owing
<1>1. Ancestors[best] \subseteq Tree
  BY AncestorsClosed DEF AncestorsClosed
<1>2. walked \subseteq Tree
  BY <1>1 DEF Walked
<1>3. \A x \in ToDownload(start, walked) : x \in walked /\ inFlight[x] = None /\ x \notin haveData
  BY DEF ToDownload, Missing
<1>4. ToDownload(start, walked) \subseteq Blocks
  BY <1>2, <1>3 DEF Stored, Tree
<1>5. \A b \in Blocks : inFlight[b] # None => inFlight[b] \in Owing
  BY DEF RequestTypes, RequestsAgree, Owing
<1>6. Staller(p, start, walked) \subseteq Owing
  <2> DEFINE waiting == {b \in walked : b \notin haveData /\ b \notin ActiveChain /\ inFlight[b] # None}
  <2>1. waiting \subseteq Blocks /\ \A b \in waiting : inFlight[b] # None
    BY <1>2 DEF Stored, Tree
  <2>2. \A q \in Staller(p, start, walked) : \E b \in waiting : q = inFlight[b]
    BY Zenon DEF Staller, Lowest
  <2>3. QED
    BY <2>1, <2>2, <1>5
<1>7. QED
  BY <1>2, <1>3, <1>4, <1>6

\* The walk starts below a block whose chain has its data, and the last common
\* block moves only to such a block.
LEMMA LastCommonStored ==
  ASSUME Types, Stored, NoHoleBelowLastCommon, NEW p \in Peers, NEW best \in Tree,
         NEW start \in WalkStart(p, best), NEW walked \in SUBSET Tree,
         NEW common \in NewLastCommon(start, walked)
  PROVE  common \in Tree /\ Ancestors[common] \subseteq haveData
<1> DEFINE guess == IF lastCommon[p] = None THEN tip ELSE lastCommon[p]
<1>1. guess \in Tree /\ Ancestors[guess] \subseteq haveData
  BY DEF Types, Stored, NoHoleBelowLastCommon
<1>2. start \in Ancestors[guess]
  BY DEF WalkStart, LastCommonAncestor, Highest
<1> HIDE DEF guess
<1>3. start \in Tree /\ Ancestors[start] \subseteq haveData
  BY <1>1, <1>2, AncestorsClosed DEF AncestorsClosed
<1>4. common = start \/ (common \in walked /\ common \in Linked(haveData))
  BY DEF NewLastCommon, Highest
<1>5. QED
  BY <1>3, <1>4 DEF Linked

(***************************************************************************)
(* Steps.                                                                  *)
(***************************************************************************)

\* While only data is added, what is below a last common block stays there.
LEMMA SameLastCommon ==
  ASSUME NoHoleBelowLastCommon, lastCommon' = lastCommon, haveData \subseteq haveData'
  PROVE  NoHoleBelowLastCommon'
BY DEF NoHoleBelowLastCommon

\* The common beginning of SendMessages counts a peer once.
LEMMA BeginSendCounts ==
  ASSUME Types, RequestTypes, CountersAgree, NEW p \in Peers, BeginSend(p), NEW h \in {"timed", "done"},
         headerSync' = [headerSync EXCEPT ![p] = IF StartsSync(p) \/ headerSync[p] # "off" THEN h ELSE "off"],
         node' = node, UNCHANGED <<protection, nPreferredDownload>>
  PROVE  CountersAgree' /\ avail' \in [Peers -> Availability]
<1>1. nSyncStarted' = nSyncStarted + (IF StartsSync(p) THEN 1 ELSE 0)
  BY DEF BeginSend
<1>2. IsFiniteSet(Syncing) /\ Cardinality(Syncing) \in Nat
  BY Finiteness, FS_CardinalityType
<1>3. StartsSync(p) => p \notin Syncing
  BY DEF StartsSync, Syncing
<1>4. Syncing' = IF StartsSync(p) THEN Syncing \cup {p} ELSE Syncing
  <2>1. \A q \in Peers \ {p} : headerSync'[q] = headerSync[q]
    BY DEF Types
  <2>2. headerSync'[p] # "off" <=> (StartsSync(p) \/ headerSync[p] # "off")
    BY DEF Types
  <2>3. QED
    BY <2>1, <2>2 DEF Syncing
<1>5. nSyncStarted' = Cardinality(Syncing')
  <2>1. CASE StartsSync(p)
    BY <2>1, <1>1, <1>2, <1>3, <1>4, FS_AddElement, SMTT(30) DEF CountersAgree
  <2>2. CASE ~StartsSync(p)
    BY <2>2, <1>1, <1>2, <1>4 DEF CountersAgree
  <2>3. QED
    BY <2>1, <2>2
<1>6. Preferables' = Preferables
  BY DEF Preferables
<1>7. avail' \in [Peers -> Availability]
  <2>1. avail[p] \in Availability /\ avail \in [Peers -> Availability]
    BY DEF Types, Availability
  <2>2. ProcessBlockAvailability(avail[p], index) \in Availability
    BY <2>1 DEF Availability, ProcessBlockAvailability, Better
  <2>3. avail' = [avail EXCEPT ![p] = ProcessBlockAvailability(avail[p], index)]
    BY DEF BeginSend
  <2>4. QED
    BY <2>1, <2>2, <2>3
<1>8. QED
  BY <1>5, <1>6, <1>7 DEF CountersAgree, protection

\* RequestBlocks asks for blocks that are not there and keeps the last common
\* block below what is there.
LEMMA RequestBlocksAgrees ==
  ASSUME IInv, NEW p \in Peers, node[p] = "up", node' = node, UNCHANGED chain, RequestBlocks(p)
  PROVE  /\ RequestTypes' /\ RequestsAgree'
         /\ NoHoleBelowLastCommon' /\ lastCommon' \in [Peers -> Tree \cup {None}]
         /\ \A b \in Blocks : inFlight[b] = None /\ inFlight'[b] # None => b \notin haveData
<1> USE DEF IInv
<1>1. CASE UNCHANGED <<lastCommon, requests>>
  <2>1. RequestTypes' /\ RequestsAgree'
    BY <1>1, SameRequests DEF Known
  <2>2. NoHoleBelowLastCommon'
    BY <1>1, SameLastCommon DEF chain
  <2>3. QED
    BY <1>1, <2>1, <2>2 DEF Types, requests
<1>2. ASSUME ~UNCHANGED <<lastCommon, requests>>
      PROVE  /\ RequestTypes' /\ RequestsAgree'
             /\ NoHoleBelowLastCommon' /\ lastCommon' \in [Peers -> Tree \cup {None}]
             /\ \A b \in Blocks : inFlight[b] = None /\ inFlight'[b] # None => b \notin haveData
  <2> DEFINE best == BestKnown(p)
             count == InTransitLeft(p)
  <2>1. best \in Tree
    <3>1. best # None
      BY <1>2 DEF RequestBlocks
    <3>2. avail[p] \in Availability
      BY DEF Types, Availability
    <3>3. ProcessBlockAvailability(avail[p], index) \in Availability
      BY <3>2, SMTT(30) DEF Availability, ProcessBlockAvailability, Better
    <3>4. QED
      BY <3>1, <3>3 DEF BestKnown, Availability, Tree
  <2>2. PICK start \in WalkStart(p, best) :
          \E walked \in {Walked(start, best, count)} :
          \E ask \in {ToDownload(start, walked)} :
            /\ \E common \in NewLastCommon(start, walked) : lastCommon' = [lastCommon EXCEPT ![p] = common]
            /\ MarkBlocksAsInFlight(p, ask)
            /\ stalling' = IF nBlocksInFlight[p] = 0 /\ ask = {}
                           THEN stalling \cup Staller(p, start, walked) ELSE stalling
    BY <1>2 DEF RequestBlocks
  <2> DEFINE walked == Walked(start, best, count)
             ask == ToDownload(start, walked)
  <2>3. /\ \E common \in NewLastCommon(start, walked) : lastCommon' = [lastCommon EXCEPT ![p] = common]
        /\ MarkBlocksAsInFlight(p, ask)
        /\ stalling' = IF nBlocksInFlight[p] = 0 /\ ask = {}
                       THEN stalling \cup Staller(p, start, walked) ELSE stalling
    BY <2>2, Zenon
  <2> HIDE DEF best, count
  <2>4. /\ walked \subseteq Tree /\ ask \subseteq Blocks
        /\ \A x \in ask : inFlight[x] = None /\ x \notin haveData
        /\ Staller(p, start, walked) \subseteq Owing
    BY <2>1, WalkedMissing, SMTT(30)
  <2>5. MarkBlocksAsInFlight(p, ask) /\ stalling' \subseteq stalling \cup Owing
    BY <2>3, <2>4
  <2>6. PICK common \in NewLastCommon(start, walked) : lastCommon' = [lastCommon EXCEPT ![p] = common]
    BY <2>3, ZenonT(30)
  <2> HIDE DEF ask, walked
  <2>7. RequestTypes' /\ RequestsAgree'
    BY <2>4, <2>5, MarkedAgrees, SMTT(30)
  <2>8. common \in Tree /\ Ancestors[common] \subseteq haveData
    BY <2>1, <2>2, <2>4, <2>6, LastCommonStored
  <2>9. NoHoleBelowLastCommon' /\ lastCommon' \in [Peers -> Tree \cup {None}]
    BY <2>6, <2>8, SMTT(30) DEF Types, NoHoleBelowLastCommon, chain
  <2>10. \A b \in Blocks : inFlight[b] = None /\ inFlight'[b] # None => b \notin haveData
    BY <2>4, <2>5 DEF MarkBlocksAsInFlight
  <2>11. QED
    BY <2>7, <2>9, <2>10
<1>3. QED
  BY <1>1, <1>2

\* ActivateBestChain ends on a chain with all its data.
LEMMA ActivatedStored ==
  ASSUME Stored, NEW have \in SUBSET Tree, haveData \subseteq have, haveData' = have, ActivateBestChain(have)
  PROVE  Stored'
<1>1. tip' \in Linked(have)
  BY DEF ActivateBestChain
<1>2. QED
  BY <1>1 DEF Stored, Linked

\* The handler of a block message passes on a block of the tree.
LEMMA ProcessingTyped == ASSUME Processing, [Next]_vars PROVE Processing'
<1>1. ASSUME NEW p \in Peers, InitializeNode(p) \/ Handshake(p) \/ Disconnect(p) \/ FinalizeNode(p)
      PROVE  UNCHANGED processing
  BY <1>1 DEF InitializeNode, Handshake, Disconnect, FinalizeNode, ForgetNode
<1>2. ASSUME NEW p \in Peers, Send(p) PROVE UNCHANGED processing
  BY <1>2, ZenonT(30) DEF Send, SendMessages, SendTimeout, SendHeadersTimeout
<1>3. ASSUME NEW p \in Peers, NEW b \in Blocks, Announce(p, b) \/ Headers(p, b) \/ InvalidHeaders(p, b)
      PROVE  UNCHANGED processing
  BY <1>3, Zenon DEF Announce, Headers, InvalidHeaders
<1>4. ASSUME NEW p \in Peers, NEW b \in Blocks, Block(p, b) PROVE processing'.block = b
  BY <1>4, Zenon DEF Block
<1>5. ASSUME ProcessNewBlock PROVE processing' = None
  BY <1>5, Zenon DEF ProcessNewBlock
<1>6. ASSUME UNCHANGED vars PROVE UNCHANGED processing
  BY <1>6 DEF vars
<1>7. QED
  BY <1>1, <1>2, <1>3, <1>4, <1>5, <1>6, SMTT(30) DEF Next, Processing

\* Every step keeps the inductive invariant.
LEMMA StepKeepsIInv == IInv /\ [Next]_vars => IInv'
<1> SUFFICES ASSUME IInv, [Next]_vars PROVE IInv'
  OBVIOUS
<1>0. Types /\ Processing /\ Stored /\ RequestTypes /\ RequestsAgree /\ CountersAgree /\ NoHoleBelowLastCommon
  BY DEF IInv
<1>p. Processing'
  BY <1>0, ProcessingTyped
<1>1. ASSUME NEW p \in Peers, InitializeNode(p) PROVE IInv'
  <2>1. /\ UNCHANGED <<avail, lastCommon, requests, headersState, protection, nPreferredDownload, chain>>
        /\ node[p] = "absent" /\ node' = [node EXCEPT ![p] = "new"]
    BY <1>1 DEF InitializeNode
  <2>2. Types' /\ Stored'
    BY <2>1, <1>0 DEF Types, Stored, headersState, protection, chain
  <2>3. RequestTypes' /\ RequestsAgree'
    <3>1. \A q \in Peers : Known(q) => Known(q)'
      BY <2>1, <1>0 DEF Known, Types
    <3>2. QED
      BY <3>1, <2>1, <1>0, SameRequests
  <2>4. CountersAgree'
    <3>1. Preferables' = Preferables
      BY <2>1, <1>0, Shape DEF Preferables, Types, Shape
    <3>2. QED
      BY <3>1, <2>1, <1>0 DEF CountersAgree, Syncing, headersState, protection
  <2>5. NoHoleBelowLastCommon'
    BY <2>1, <1>0, SameLastCommon DEF chain
  <2>6. QED
    BY <1>p, <2>2, <2>3, <2>4, <2>5 DEF IInv
<1>2. ASSUME NEW p \in Peers, Handshake(p) PROVE IInv'
  <2>1. /\ UNCHANGED <<avail, lastCommon, requests, headersState, protection, chain>>
        /\ node[p] = "new" /\ node' = [node EXCEPT ![p] = "up"]
        /\ nPreferredDownload' = nPreferredDownload + (IF p \in Outbound THEN 1 ELSE 0)
    BY <1>2 DEF Handshake
  <2>2. Types' /\ Stored'
    BY <2>1, <1>0 DEF Types, Stored, headersState, protection, chain
  <2>3. RequestTypes' /\ RequestsAgree'
    <3>1. \A q \in Peers : Known(q) => Known(q)'
      BY <2>1, <1>0 DEF Known, Types
    <3>2. QED
      BY <3>1, <2>1, <1>0, SameRequests
  <2>4. CountersAgree'
    <3>1. p \notin Preferables /\ Preferables' = IF p \in Outbound THEN Preferables \cup {p} ELSE Preferables
      BY <2>1, <1>0, Shape DEF Preferables, Types, Shape
    <3>2. IsFiniteSet(Preferables) /\ Cardinality(Preferables) \in Nat
      BY <1>0, Finiteness, FS_CardinalityType
    <3>3. Cardinality(Preferables') = Cardinality(Preferables) + (IF p \in Outbound THEN 1 ELSE 0)
      BY <3>1, <3>2, FS_AddElement
    <3>4. QED
      BY <3>3, <2>1, <1>0 DEF CountersAgree, Syncing, headersState, protection
  <2>5. NoHoleBelowLastCommon'
    BY <2>1, <1>0, SameLastCommon DEF chain
  <2>6. QED
    BY <1>p, <2>2, <2>3, <2>4, <2>5 DEF IInv
<1>3. ASSUME NEW p \in Peers, Disconnect(p) PROVE IInv'
  <2>1. UNCHANGED <<node, avail, lastCommon, requests, headersState, protection, nPreferredDownload, chain>>
    BY <1>3 DEF Disconnect
  <2>2. Types' /\ Stored' /\ CountersAgree'
    BY <2>1, <1>0 DEF Types, Stored, CountersAgree, Preferables, Syncing, headersState, protection, chain
  <2>3. RequestTypes' /\ RequestsAgree'
    BY <2>1, <1>0, SameRequests DEF Known
  <2>4. NoHoleBelowLastCommon'
    BY <2>1, <1>0, SameLastCommon DEF chain
  <2>5. QED
    BY <1>p, <2>2, <2>3, <2>4 DEF IInv
<1>4. ASSUME NEW p \in Peers, FinalizeNode(p) PROVE IInv'
  <2>1. /\ node' = [node EXCEPT ![p] = "gone"] /\ UNCHANGED chain
        /\ avail' = [avail EXCEPT ![p] = [best |-> None, unknown |-> None]]
        /\ lastCommon' = [lastCommon EXCEPT ![p] = None]
        /\ headerSync' = [headerSync EXCEPT ![p] = "off"]
        /\ protect' = protect \ {p}
    BY <1>4 DEF FinalizeNode, ForgetNode
  <2>2. Types'
    BY <2>1, <1>0, SMTT(30) DEF Types
  <2>3. Stored' /\ NoHoleBelowLastCommon'
    BY <2>1, <1>0 DEF Types, Stored, NoHoleBelowLastCommon, chain
  <2>4. RequestTypes' /\ RequestsAgree' /\ CountersAgree'
    BY <1>0, <1>4, FinalizedAgrees
  <2>5. QED
    BY <1>p, <2>2, <2>3, <2>4 DEF IInv
<1>5. ASSUME NEW p \in Peers, SendMessages(p) PROVE IInv'
  <2>1. /\ BeginSend(p) /\ RequestBlocks(p) /\ node[p] = "up"
        /\ UNCHANGED <<node, protection, nPreferredDownload, chain>>
        /\ headerSync' = [headerSync EXCEPT ![p] = IF HeaderSyncStarted(p) = "timed" /\ BestHeaderRecent
                                                   THEN "done" ELSE HeaderSyncStarted(p)]
    BY <1>5 DEF SendMessages, BeginSend, Serves
  <2>2. PICK h \in {"timed", "done"} :
          headerSync' = [headerSync EXCEPT ![p] = IF StartsSync(p) \/ headerSync[p] # "off" THEN h ELSE "off"]
    BY <2>1, <1>0, Zenon DEF HeaderSyncStarted, Types
  <2>3. CountersAgree' /\ avail' \in [Peers -> Availability]
    BY <2>1, <2>2, <1>0, BeginSendCounts, Zenon
  <2>4. /\ RequestTypes' /\ RequestsAgree' /\ NoHoleBelowLastCommon'
        /\ lastCommon' \in [Peers -> Tree \cup {None}]
    BY <2>1, RequestBlocksAgrees
  <2>5. headerSync' \in [Peers -> {"off", "timed", "done"}]
    BY <2>2, <1>0, SMTT(30) DEF Types
  <2>6. Types' /\ Stored'
    BY <2>1, <2>3, <2>4, <2>5, <1>0 DEF Types, Stored, Availability, protection, chain
  <2>7. QED
    BY <1>p, <2>3, <2>4, <2>6 DEF IInv
<1>6. ASSUME NEW p \in Peers, SendTimeout(p) \/ SendHeadersTimeout(p) PROVE IInv'
  <2>1. /\ BeginSend(p)
        /\ UNCHANGED <<node, lastCommon, requests, protection, nPreferredDownload, chain>>
        /\ headerSync' = [headerSync EXCEPT ![p] = HeaderSyncStarted(p)]
    <3>1. CASE SendTimeout(p)
      BY <3>1 DEF SendTimeout
    <3>2. CASE SendHeadersTimeout(p)
      <4>1. HeaderSyncStarted(p) = headerSync[p]
        BY <3>2 DEF SendHeadersTimeout, HeaderSyncStarted, StartsSync
      <4>2. QED
        BY <4>1, <3>2, <1>0 DEF SendHeadersTimeout, Types
    <3>3. QED
      BY <1>6, <3>1, <3>2, SMTT(30)
  <2>2. PICK h \in {"timed", "done"} :
          headerSync' = [headerSync EXCEPT ![p] = IF StartsSync(p) \/ headerSync[p] # "off" THEN h ELSE "off"]
    BY <2>1, <1>0, Zenon DEF HeaderSyncStarted, Types
  <2>3. CountersAgree' /\ avail' \in [Peers -> Availability]
    BY <2>1, <2>2, <1>0, BeginSendCounts, ZenonT(30)
  <2>4. RequestTypes' /\ RequestsAgree'
    BY <2>1, <1>0, SameRequests, SMTT(30) DEF Known
  <2>5. headerSync' \in [Peers -> {"off", "timed", "done"}]
    BY <2>2, <1>0 DEF Types
  <2>6. Types' /\ Stored'
    BY <2>1, <2>3, <2>5, <1>0 DEF Types, Stored, Availability, protection, chain
  <2>7. NoHoleBelowLastCommon'
    BY <2>1, <1>0, SameLastCommon DEF chain
  <2>8. QED
    BY <1>p, <2>3, <2>4, <2>6, <2>7 DEF IInv
<1>7. ASSUME NEW p \in Peers, NEW b \in Blocks, Announce(p, b) \/ InvalidHeaders(p, b) PROVE IInv'
  <2>1. /\ UNCHANGED <<node, lastCommon, requests, headersState, protection, nPreferredDownload, haveData, tip>>
        /\ avail' = avail \/ avail' = [avail EXCEPT ![p] = UpdateBlockAvailability(@, b, index)]
    BY <1>7, Zenon DEF Announce, InvalidHeaders, chain
  <2>2. avail' \in [Peers -> Availability]
    <3>1. avail \in [Peers -> Availability] /\ avail[p] \in Availability
      BY <1>0 DEF Types, Availability
    <3>2. UpdateBlockAvailability(avail[p], b, index) \in Availability
      BY <3>1, AvailabilityTyped, SMTT(30)
    <3>3. QED
      BY <3>1, <3>2, <2>1
  <2>3. Types' /\ Stored'
    BY <2>1, <2>2, <1>0, SMTT(30) DEF Types, Stored, Availability, headersState, protection
  <2>4. CountersAgree'
    BY <2>1, <1>0, ZenonT(30) DEF CountersAgree, Preferables, Syncing, headersState, protection
  <2>5. RequestTypes' /\ RequestsAgree'
    BY <2>1, <1>0, SameRequests DEF Known
  <2>6. NoHoleBelowLastCommon'
    BY <2>1, <1>0, SameLastCommon, SMTT(30)
  <2>7. QED
    BY <1>p, <2>3, <2>4, <2>5, <2>6, SMTT(30) DEF IInv
<1>8. ASSUME NEW p \in Peers, NEW b \in Blocks, Headers(p, b) PROVE IInv'
  <2>1. /\ UNCHANGED <<node, lastCommon, headersState, nPreferredDownload, haveData, tip, stalling>>
        /\ node[p] = "up" /\ MarkBlocksAsInFlight(p, DirectFetch(p, b))
        /\ avail' = [avail EXCEPT ![p] = UpdateBlockAvailability(@, b, index')]
    BY <1>8, SMTT(30) DEF Headers, Serves
  <2>2. \/ p \notin protect /\ protect' = protect \cup {p} /\ nProtected' = nProtected + 1
        \/ UNCHANGED <<protect, nProtected>>
    BY <1>8 DEF Headers, protection
  <2>3. avail' \in [Peers -> Availability]
    <3>1. avail \in [Peers -> Availability] /\ avail[p] \in Availability
      BY <1>0 DEF Types, Availability
    <3>2. UpdateBlockAvailability(avail[p], b, index') \in Availability
      BY <3>1, AvailabilityTyped, SMTT(30)
    <3>3. QED
      BY <3>1, <3>2, <2>1
  <2>4. Types' /\ Stored'
    BY <2>1, <2>2, <2>3, <1>0, SMTT(30) DEF Types, Stored, Availability, headersState
  <2>5. CountersAgree'
    <3>1. IsFiniteSet(protect) /\ Cardinality(protect) \in Nat
      BY <1>0, Finiteness, FS_CardinalityType
    <3>2. nProtected' = Cardinality(protect')
      BY <3>1, <2>2, <1>0, FS_AddElement DEF CountersAgree
    <3>3. QED
      BY <3>2, <2>1, <1>0 DEF CountersAgree, Preferables, Syncing, headersState
  <2>6. RequestTypes' /\ RequestsAgree'
    <3>1. /\ DirectFetch(p, b) \in SUBSET Blocks
          /\ \A x \in DirectFetch(p, b) : inFlight[x] = None
      BY <1>0, DirectFetchMissing
    <3>2. QED
      BY <3>1, <2>1, <1>0, MarkedAgrees
  <2>7. NoHoleBelowLastCommon'
    BY <2>1, <1>0, SameLastCommon
  <2>8. QED
    BY <1>p, <2>4, <2>5, <2>6, <2>7 DEF IInv
<1>9. ASSUME NEW p \in Peers, NEW b \in Blocks, Block(p, b) PROVE IInv'
  <2>1. /\ UNCHANGED <<node, avail, lastCommon, headersState, protection, nPreferredDownload, chain>>
        /\ MarkBlockAsReceived(b)
    BY <1>9, SMTT(30) DEF Block
  <2>2. Types' /\ Stored' /\ CountersAgree'
    BY <2>1, <1>0 DEF Types, Stored, CountersAgree, Preferables, Syncing, headersState, protection, chain
  <2>3. RequestTypes' /\ RequestsAgree'
    BY <2>1, <1>0, ReceivedAgrees
  <2>4. NoHoleBelowLastCommon'
    BY <2>1, <1>0, SameLastCommon DEF chain
  <2>5. QED
    BY <1>p, <2>2, <2>3, <2>4, SMTT(30) DEF IInv
<1>10. ASSUME ProcessNewBlock PROVE IInv'
  <2>1. UNCHANGED <<node, avail, lastCommon, requests, headersState, protection, nPreferredDownload>>
    BY <1>10 DEF ProcessNewBlock
  <2>2. Types' /\ CountersAgree'
    BY <2>1, <1>0 DEF Types, CountersAgree, Preferables, Syncing, headersState, protection
  <2>3. Stored' /\ haveData \subseteq haveData'
    <3>1. CASE UNCHANGED <<haveData, failed, tip>>
      BY <3>1, <1>0 DEF Stored
    <3>2. CASE /\ WantsData(processing.block, processing.force)
               /\ haveData' = haveData \cup {processing.block}
               /\ ActivateBestChain(haveData')
      <4>1. processing.block \in Tree
        BY <1>0, <1>10, ZenonT(30) DEF Processing, ProcessNewBlock, Tree
      <4>2. haveData' \in SUBSET Tree
        BY <4>1, <3>2, <1>0 DEF Stored
      <4>3. QED
        BY <4>2, <3>2, <1>0, ActivatedStored
    <3>3. QED
      BY <1>10, <3>1, <3>2, Zenon DEF ProcessNewBlock
  <2>4. RequestTypes' /\ RequestsAgree'
    BY <2>1, <1>0, SameRequests DEF Known
  <2>5. NoHoleBelowLastCommon'
    BY <2>1, <2>3, <1>0, SameLastCommon
  <2>6. QED
    BY <1>p, <2>2, <2>3, <2>4, <2>5, SMTT(30) DEF IInv
<1>11. CASE UNCHANGED vars
  <2>1. UNCHANGED <<node, avail, lastCommon, requests, headersState, protection, nPreferredDownload, chain>>
    BY <1>11, SMTT(30) DEF vars
  <2>2. Types' /\ Stored' /\ CountersAgree'
    BY <2>1, <1>0 DEF Types, Stored, CountersAgree, Preferables, Syncing, headersState, protection, chain
  <2>3. RequestTypes' /\ RequestsAgree'
    BY <2>1, <1>0, SameRequests DEF Known
  <2>4. NoHoleBelowLastCommon'
    BY <2>1, <1>0, SameLastCommon DEF chain
  <2>5. QED
    BY <1>p, <2>2, <2>3, <2>4 DEF IInv
<1>12. QED
  BY <1>1, <1>2, <1>3, <1>4, <1>5, <1>6, <1>7, <1>8, <1>9, <1>10, <1>11 DEF Next, Send

\* Initially nothing is asked for and nothing is counted.
LEMMA InitIInv == Init => IInv
<1> SUFFICES ASSUME Init PROVE IInv
  OBVIOUS
<1>1. Cardinality({}) = 0
  BY FS_EmptySet, SMTT(30)
<1>2. Types /\ Processing
  BY DEF Init, Types, Processing
<1>3. RequestTypes
  BY DEF Init, RequestTypes
<1>4. Stored
  <2>1. Genesis \in Tree /\ Ancestors[Genesis] \subseteq {Genesis}
    BY AncestorsClosed DEF Tree, AncestorsClosed
  <2>2. QED
    BY <2>1 DEF Init, Stored
<1>5. RequestsAgree
  <2>1. Owing = {}
    BY DEF Init, Owing
  <2>2. QED
    BY <2>1, <1>1, Shape DEF Init, RequestsAgree, Shape
<1>6. CountersAgree
  <2>1. Preferables = {} /\ Syncing = {}
    BY Shape, SMTT(30) DEF Init, Preferables, Syncing, Shape
  <2>2. QED
    BY <2>1, <1>1 DEF Init, CountersAgree
<1>7. NoHoleBelowLastCommon
  BY DEF Init, NoHoleBelowLastCommon
<1>8. QED
  BY <1>2, <1>3, <1>4, <1>5, <1>6, <1>7 DEF IInv

\* The inductive invariant holds throughout.
LEMMA Invariance == Spec => []IInv
<1>1. Init => IInv
  BY InitIInv
<1>2. IInv /\ [Next]_vars => IInv'
  BY StepKeepsIInv
<1>3. QED
  BY <1>1, <1>2, PTL DEF Spec

\* mapBlocksInFlight, the peers' lists and every counter of net_processing.cpp
\* describe the same requests, for any peers and any blocks: the assertions of
\* FinalizeNode and MarkBlockAsReceived cannot fail.
THEOREM RequestsAlwaysAgree == Spec => []InFlightAgrees
<1>1. IInv => InFlightAgrees
  BY PartsAgree DEF IInv
<1>2. QED
  BY <1>1, Invariance, PTL

\* FindNextBlocksToDownload never moves pindexLastCommonBlock over a block whose
\* data is missing, for any tree and any window.
THEOREM WindowLeavesNoHole == Spec => []NoHoleBelowLastCommon
<1>1. IInv => NoHoleBelowLastCommon
  BY DEF IInv
<1>2. QED
  BY <1>1, Invariance, PTL

\* A block is asked for only if it is neither stored nor between
\* MarkBlockAsReceived and ProcessNewBlock.
THEOREM NeverRedundant == Spec => NoRedundantRequest
<1> DEFINE Needed == \A b \in Blocks : inFlight[b] = None /\ inFlight'[b] # None =>
                       /\ b \notin haveData'
                       /\ (processing # None => processing.block # b)
<1>1. IInv /\ [Next]_vars => [Needed]_vars
  <2> SUFFICES ASSUME IInv, Next PROVE Needed
    BY DEF vars
  <2>0. Types /\ Stored /\ RequestTypes /\ RequestsAgree
    BY DEF IInv
  <2>1. ASSUME UNCHANGED inFlight PROVE Needed
    BY <2>1, SMTT(30)
  <2>2. ASSUME NEW p \in Peers,
               InitializeNode(p) \/ Handshake(p) \/ Disconnect(p) \/ SendTimeout(p) \/ SendHeadersTimeout(p)
        PROVE  UNCHANGED inFlight
    BY <2>2, ZenonT(30) DEF InitializeNode, Handshake, Disconnect, SendTimeout, SendHeadersTimeout, requests
  <2>3. ASSUME NEW p \in Peers, FinalizeNode(p) PROVE Needed
    BY <2>3 DEF FinalizeNode
  <2>4. ASSUME NEW p \in Peers, SendMessages(p) PROVE Needed
    <3>1. /\ RequestBlocks(p) /\ node[p] = "up" /\ processing = None
          /\ UNCHANGED <<node, chain>>
      BY <2>4 DEF SendMessages, BeginSend, Serves
    <3>2. \A b \in Blocks : inFlight[b] = None /\ inFlight'[b] # None => b \notin haveData
      BY <3>1, RequestBlocksAgrees, ZenonT(30)
    <3>3. QED
      BY <3>1, <3>2 DEF chain
  <2>5. ASSUME NEW p \in Peers, NEW b \in Blocks, Headers(p, b) PROVE Needed
    <3>1. MarkBlocksAsInFlight(p, DirectFetch(p, b)) /\ processing = None /\ haveData' = haveData
      BY <2>5, Zenon DEF Headers, Serves
    <3>2. \A x \in DirectFetch(p, b) : x \notin haveData
      BY <2>0, DirectFetchMissing
    <3>3. \A x \in Blocks : inFlight[x] = None /\ inFlight'[x] # None => x \in DirectFetch(p, b)
      BY <3>1, SMTT(30) DEF MarkBlocksAsInFlight
    <3>4. QED
      BY <3>1, <3>2, <3>3
  <2>6. ASSUME NEW p \in Peers, NEW b \in Blocks, Announce(p, b) \/ InvalidHeaders(p, b)
        PROVE  UNCHANGED inFlight
    BY <2>6 DEF Announce, InvalidHeaders, requests
  <2>7. ASSUME NEW p \in Peers, NEW b \in Blocks, Block(p, b) PROVE Needed
    <3>1. UNCHANGED inFlight \/ inFlight' = [inFlight EXCEPT ![b] = None]
      BY <2>7 DEF Block, MarkBlockAsReceived, requests
    <3>2. QED
      BY <3>1, <2>0, SMTT(30) DEF RequestTypes
  <2>8. ASSUME ProcessNewBlock PROVE UNCHANGED inFlight
    BY <2>8 DEF ProcessNewBlock, requests
  <2>9. QED
    BY <2>1, <2>2, <2>3, <2>4, <2>5, <2>6, <2>7, <2>8, ZenonT(30) DEF Next, Send
<1>2. QED
  BY <1>1, Invariance, PTL DEF Spec, NoRedundantRequest
=============================================================================
