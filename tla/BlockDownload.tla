--------------------------- MODULE BlockDownload ---------------------------
(***************************************************************************)
(* Headers-first block download (net_processing.cpp): what each peer has,  *)
(* which block is in flight from whom, the stall and time-out rules, and   *)
(* the counters FinalizeNode asserts on.                                   *)
(*                                                                         *)
(* The message handler thread takes one message or one SendMessages call   *)
(* after the other; it holds cs_main except between taking a block off the *)
(* list of requests and ProcessNewBlock, where the socket thread may       *)
(* finalize other peers.  Time is not modelled: a timer that is running    *)
(* may expire at any moment, except against a punctual peer.               *)
(*                                                                         *)
(* Every caller passes MarkBlockAsInFlight an index entry, so              *)
(* nBlocksInFlightValidHeaders is nBlocksInFlight.  Compact blocks, the    *)
(* ban score and whitelisted peers are not modelled; a peer may be         *)
(* disconnected at any moment instead.                                     *)
(***************************************************************************)
EXTENDS Integers, FiniteSets

CONSTANTS
  Peers,
  Outbound,       \* the automatic outbound connections among them
  Punctual,       \* peers that stay, answer before the timers expire and send nothing unasked
  Offers,         \* the blocks a peer may announce, as the tip of a chain it has
  Genesis, Blocks, Parent,
  BadConnect,     \* blocks ConnectBlock rejects
  RecentHeight,   \* from here on block times are within a day of the clock
  MinKeep,        \* MIN_BLOCKS_TO_KEEP
  Window,         \* BLOCK_DOWNLOAD_WINDOW
  MaxInTransit,   \* MAX_BLOCKS_IN_TRANSIT_PER_PEER
  MaxProtect,     \* MAX_OUTBOUND_PEERS_TO_PROTECT_FROM_DISCONNECT
  None

Tree == Blocks \cup {Genesis}

ASSUME Shape ==
  /\ IsFiniteSet(Peers) /\ IsFiniteSet(Blocks)
  /\ None \notin Peers \cup Tree /\ Genesis \notin Blocks
  /\ Outbound \subseteq Peers /\ Punctual \subseteq Peers
  /\ Offers \in [Peers -> SUBSET Blocks]
  /\ Parent \in [Blocks -> Tree] /\ BadConnect \subseteq Blocks
  /\ MaxInTransit \in Nat \ {0} /\ Window \in Nat \ {0} /\ MaxProtect \in Nat

HeightOf[b \in Tree] == IF b = Genesis THEN 0 ELSE HeightOf[Parent[b]] + 1
Height == [b \in Tree |-> HeightOf[b]]

AncestorsOf[b \in Tree] == {b} \cup IF b = Genesis THEN {} ELSE AncestorsOf[Parent[b]]
Ancestors == [b \in Tree |-> AncestorsOf[b]]

\* What the recursive function comes to on a tree.
ASSUME AncestorsClosed ==
  /\ Ancestors[Genesis] = {Genesis}
  /\ \A b \in Tree : /\ Ancestors[b] \subseteq Tree
                     /\ \A x \in Ancestors[b] : Ancestors[x] \subseteq Ancestors[b]

VARIABLES
  node,          \* "absent", "new" after InitializeNode, "up" after the handshake, "gone"
  fDisconnect,   \* peers marked for disconnection
  avail,         \* pindexBestKnownBlock and hashLastUnknownBlock of each peer
  lastCommon,    \* pindexLastCommonBlock
  requested,     \* vBlocksInFlight, as a set: only its first element's age depends on the order
  nBlocksInFlight,
  stalling,      \* peers with nStallingSince # 0
  headerSync,    \* fSyncStarted and nHeadersSyncTimeout: "off", "timed", or "done" for no timeout
  chainSync,     \* m_chain_sync: None without a timeout, else its work header and sent flag
  protect,       \* peers with m_protect
  inFlight,      \* mapBlocksInFlight: the peer each block is in flight from
  nPreferredDownload, nPeersWithValidatedDownloads, nSyncStarted, nProtected,
  index,         \* the keys of mapBlockIndex
  haveData,      \* blocks with BLOCK_HAVE_DATA
  failed,        \* blocks with a bit of BLOCK_FAILED_MASK
  tip,           \* chainActive.Tip()
  processing     \* the block message between MarkBlockAsReceived and ProcessNewBlock

requests == <<requested, nBlocksInFlight, stalling, inFlight, nPeersWithValidatedDownloads>>
headersState == <<headerSync, nSyncStarted>>
protection == <<protect, nProtected>>
chain == <<index, haveData, failed, tip>>
vars == <<node, fDisconnect, avail, lastCommon, requests, headersState, chainSync, protection,
          nPreferredDownload, chain, processing>>

Known(p) == node[p] \in {"new", "up"}       \* p has an entry in mapNodeState

\* One type invariant for the module.
TypeOK ==
  /\ node \in [Peers -> {"absent", "new", "up", "gone"}]
  /\ fDisconnect \subseteq Peers
  /\ avail \in [Peers -> [best : Blocks \cup {None}, unknown : Blocks \cup {None}]]
  /\ lastCommon \in [Peers -> Tree \cup {None}]
  /\ requested \in [Peers -> SUBSET Blocks] /\ nBlocksInFlight \in [Peers -> Nat]
  /\ stalling \subseteq Peers /\ protect \subseteq Peers
  /\ headerSync \in [Peers -> {"off", "timed", "done"}]
  /\ chainSync \in [Peers -> [work : Tree, sent : BOOLEAN] \cup {None}]
  /\ inFlight \in [Blocks -> Peers \cup {None}]
  /\ nPreferredDownload \in Nat /\ nPeersWithValidatedDownloads \in Nat
  /\ nSyncStarted \in Nat /\ nProtected \in Nat
  /\ index \subseteq Tree /\ haveData \subseteq index /\ failed \subseteq index /\ tip \in haveData
  /\ processing = None \/ processing \in [peer : Peers, block : Blocks, force : BOOLEAN]

\* The message handler may start a message or SendMessages for p.
Serves(p) == processing = None /\ node[p] = "up" /\ p \notin fDisconnect

(***************************************************************************)
(* The chain.  What ActivateBestChain does in detail is another module's   *)
(* subject; here the tip is a highest chain with all data and no invalid   *)
(* block, and a chain found invalid on the way is marked.                  *)
(***************************************************************************)
ActiveChain == Ancestors[tip]

Linked(have) == {b \in have : Ancestors[b] \subseteq have}
Invalid(b) == Ancestors[b] \cap BadConnect # {}

Recent(b) == Height[b] >= RecentHeight
IsInitialBlockDownload == ~Recent(tip)
CanDirectFetch == Recent(tip)
BestHeaderRecent == \E b \in index : Recent(b)     \* pindexBestHeader is the highest

\* AcceptBlockHeader: a known header is not marked, a new one has no marked ancestor.
HeaderValid(b) == IF b \in index THEN b \notin failed ELSE Ancestors[b] \cap failed = {}

ActivateBestChain(have) ==
  LET good == {b \in Linked(have) : ~Invalid(b) /\ Ancestors[b] \cap failed = {}}
      best == {b \in good : \A x \in good : Height[x] <= Height[b]}
  IN /\ tip' \in IF tip \in best THEN {tip} ELSE best
     /\ failed' = failed \cup UNION {{y \in Ancestors[b] : Invalid(y)} :
                                      b \in {x \in Linked(have) : Height[x] > Height[tip']}}

(***************************************************************************)
(* The bookkeeping of requests.                                            *)
(***************************************************************************)
MarkBlockAsReceived(b) ==
  IF inFlight[b] = None THEN UNCHANGED requests
  ELSE LET p == inFlight[b]
       IN /\ requested' = [requested EXCEPT ![p] = @ \ {b}]
          /\ nBlocksInFlight' = [nBlocksInFlight EXCEPT ![p] = @ - 1]
          /\ nPeersWithValidatedDownloads' =
               nPeersWithValidatedDownloads - (IF nBlocksInFlight[p] = 1 THEN 1 ELSE 0)
          /\ stalling' = stalling \ {p}
          /\ inFlight' = [inFlight EXCEPT ![b] = None]

\* MarkBlockAsInFlight for each block of S.  Both callers choose blocks that are
\* not in flight, so its other branches are not taken.
MarkBlocksAsInFlight(p, S) ==
  /\ requested' = [requested EXCEPT ![p] = @ \cup S]
  /\ nBlocksInFlight' = [nBlocksInFlight EXCEPT ![p] = @ + Cardinality(S)]
  /\ nPeersWithValidatedDownloads' =
       nPeersWithValidatedDownloads + (IF nBlocksInFlight[p] = 0 /\ S # {} THEN 1 ELSE 0)
  /\ inFlight' = [b \in Blocks |-> IF b \in S THEN p ELSE inFlight[b]]

\* How many more blocks may be asked of a peer.
InTransitLeft(p) == MaxInTransit - nBlocksInFlight[p]

\* The n lowest of a set of blocks of one chain.
Lowest(n, S) == {b \in S : Cardinality({x \in S : Height[x] < Height[b]}) < n}

Better(a, b) == IF a = None \/ Height[b] >= Height[a] THEN b ELSE a

ProcessBlockAvailability(a, idx) ==
  IF a.unknown \in idx THEN [best |-> Better(a.best, a.unknown), unknown |-> None] ELSE a

UpdateBlockAvailability(a, b, idx) ==
  LET known == ProcessBlockAvailability(a, idx)
  IN IF b \in idx THEN [known EXCEPT !.best = Better(@, b)] ELSE [known EXCEPT !.unknown = b]

(***************************************************************************)
(* Connections.                                                            *)
(***************************************************************************)
Preferred(p) == IF node[p] = "up" /\ p \in Outbound THEN 1 ELSE 0

InitializeNode(p) ==
  /\ node[p] = "absent"
  /\ node' = [node EXCEPT ![p] = "new"]
  /\ UNCHANGED <<fDisconnect, avail, lastCommon, requests, headersState, chainSync, protection,
                 nPreferredDownload, chain, processing>>

\* VERSION and VERACK; UpdatePreferredDownload.
Handshake(p) ==
  /\ processing = None /\ node[p] = "new" /\ p \notin fDisconnect
  /\ node' = [node EXCEPT ![p] = "up"]
  /\ nPreferredDownload' = nPreferredDownload + (IF p \in Outbound THEN 1 ELSE 0)
  /\ UNCHANGED <<fDisconnect, avail, lastCommon, requests, headersState, chainSync, protection,
                 chain, processing>>

\* The socket closes, the user disconnects the peer, it is evicted or banned.
Disconnect(p) ==
  /\ Known(p) /\ p \notin fDisconnect /\ p \notin Punctual
  /\ fDisconnect' = fDisconnect \cup {p}
  /\ UNCHANGED <<node, avail, lastCommon, requests, headersState, chainSync, protection,
                 nPreferredDownload, chain, processing>>

\* The rest of FinalizeNode: what is kept about the peer goes.
ForgetNode(p) ==
  /\ node' = [node EXCEPT ![p] = "gone"]
  /\ fDisconnect' = fDisconnect \ {p}
  /\ avail' = [avail EXCEPT ![p] = [best |-> None, unknown |-> None]]
  /\ lastCommon' = [lastCommon EXCEPT ![p] = None]
  /\ chainSync' = [chainSync EXCEPT ![p] = None]
  /\ headerSync' = [headerSync EXCEPT ![p] = "off"]
  /\ nSyncStarted' = nSyncStarted - (IF headerSync[p] # "off" THEN 1 ELSE 0)
  /\ nPreferredDownload' = nPreferredDownload - Preferred(p)
  /\ protect' = protect \ {p}
  /\ nProtected' = nProtected - (IF p \in protect THEN 1 ELSE 0)
  /\ requested' = [requested EXCEPT ![p] = {}]
  /\ nBlocksInFlight' = [nBlocksInFlight EXCEPT ![p] = 0]
  /\ stalling' = stalling \ {p}
  /\ UNCHANGED <<chain, processing>>

\* No thread uses the node any more.
Deletable(p) ==
  /\ Known(p) /\ p \in fDisconnect
  /\ processing # None => processing.peer # p

\* Mutants: the peer's blocks stay in flight; the download counter keeps the peer.
FinalizeNodeInFlight(p) ==
  /\ Deletable(p) /\ ForgetNode(p)
  /\ nPeersWithValidatedDownloads' =
       nPeersWithValidatedDownloads - (IF nBlocksInFlight[p] # 0 THEN 1 ELSE 0)
  /\ UNCHANGED inFlight

FinalizeNodeCounted(p) ==
  /\ Deletable(p) /\ ForgetNode(p)
  /\ inFlight' = [b \in Blocks |-> IF b \in requested[p] THEN None ELSE inFlight[b]]
  /\ UNCHANGED nPeersWithValidatedDownloads

FinalizeNode(p) ==
  /\ Deletable(p) /\ ForgetNode(p)
  /\ inFlight' = [b \in Blocks |-> IF b \in requested[p] THEN None ELSE inFlight[b]]
  /\ nPeersWithValidatedDownloads' =
       nPeersWithValidatedDownloads - (IF nBlocksInFlight[p] # 0 THEN 1 ELSE 0)

(***************************************************************************)
(* Messages.                                                               *)
(***************************************************************************)
\* An inv, or headers that connect to nothing known.
Announce(p, b) ==
  /\ Serves(p) /\ b \in Offers[p]
  /\ avail' = [avail EXCEPT ![p] = UpdateBlockAvailability(@, b, index)]
  /\ UNCHANGED <<node, fDisconnect, lastCommon, requests, headersState, chainSync, protection,
                 nPreferredDownload, chain, processing>>

\* The blocks needed to switch to b, from which ProcessHeadersMessage asks for the
\* lowest.  The walk gives up when it has more than MaxInTransit of them and is
\* not on the active chain.
DirectFetch(p, b) ==
  LET off == Ancestors[b] \ ActiveChain
      missing == {x \in off : x \notin haveData /\ inFlight[x] = None}
      lowest == Lowest(1, off)
  IN IF CanDirectFetch /\ Cardinality(missing \ lowest) <= MaxInTransit
     THEN Lowest(InTransitLeft(p), missing) ELSE {}

\* A headers message whose last header is b: accepted.
Headers(p, b) ==
  /\ Serves(p) /\ b \in Offers[p] /\ HeaderValid(b)
  /\ index' = index \cup Ancestors[b]
  /\ avail' = [avail EXCEPT ![p] = UpdateBlockAvailability(@, b, index')]
  /\ MarkBlocksAsInFlight(p, DirectFetch(p, b)) /\ UNCHANGED stalling
  /\ IF p \in Outbound \ protect /\ nProtected < MaxProtect
        /\ Height[avail'[p].best] >= Height[tip]
     THEN protect' = protect \cup {p} /\ nProtected' = nProtected + 1
     ELSE UNCHANGED protection
  /\ UNCHANGED <<node, fDisconnect, lastCommon, headersState, chainSync, nPreferredDownload,
                 haveData, failed, tip, processing>>

\* The header of b or of an ancestor is known to be invalid.  Looking for the cause
\* may mark the blocks between, and an outbound peer is disconnected if the first
\* rejected header was a known one.
InvalidHeaders(p, b) ==
  /\ Serves(p) /\ b \in Offers[p] /\ Ancestors[b] \cap failed # {}
  /\ \/ /\ failed' = failed /\ fDisconnect' = fDisconnect \cup ({p} \cap Outbound)
     \/ /\ b \notin index /\ UNCHANGED fDisconnect
        /\ failed' \in {failed, failed \cup {x \in Ancestors[b] \cap index : Ancestors[x] \cap failed # {}}}
  /\ UNCHANGED <<node, avail, lastCommon, requests, headersState, chainSync, protection,
                 nPreferredDownload, index, haveData, tip, processing>>

\* AcceptBlock goes on to the contents of b.
WantsData(b, fRequested) ==
  /\ b \notin haveData /\ HeaderValid(b)
  /\ b \in index \/ Parent[b] \in index
  /\ fRequested \/ (Height[b] >= Height[tip] /\ Height[b] <= Height[tip] + MinKeep)

\* The first part of the handler of a block message.  One that was not asked for
\* and is not wanted either changes nothing and is left out.
Block(p, b) ==
  /\ Serves(p) /\ \E x \in Offers[p] : b \in Ancestors[x]
  /\ p \in Punctual => b \in requested[p]
  /\ LET force == inFlight[b] # None
     IN /\ force \/ WantsData(b, FALSE)
        /\ processing' = [peer |-> p, block |-> b, force |-> force]
  /\ MarkBlockAsReceived(b)
  /\ UNCHANGED <<node, fDisconnect, avail, lastCommon, headersState, chainSync, protection,
                 nPreferredDownload, chain>>

ProcessNewBlock ==
  /\ processing # None
  /\ LET b == processing.block
     IN IF WantsData(b, processing.force)
        THEN /\ index' = index \cup {b} /\ haveData' = haveData \cup {b}
             /\ ActivateBestChain(haveData')
        ELSE /\ index' = IF HeaderValid(b) /\ b \notin index /\ Parent[b] \in index
                         THEN index \cup {b} ELSE index
             /\ UNCHANGED <<haveData, failed, tip>>
  /\ processing' = None
  /\ UNCHANGED <<node, fDisconnect, avail, lastCommon, requests, headersState, chainSync,
                 protection, nPreferredDownload>>

(***************************************************************************)
(* FindNextBlocksToDownload, for a peer whose best known block is best and *)
(* at least as high as the tip.                                            *)
(***************************************************************************)
\* The highest of some blocks of one chain, as a set.
Highest(S) == {b \in S : \A x \in S : Height[x] <= Height[b]}

LastCommonAncestor(a, b) == Highest(Ancestors[a] \cap Ancestors[b])

\* Where the walk starts: the last common block, at first guessed to be the tip.
WalkStart(p, best) == LastCommonAncestor(IF lastCommon[p] = None THEN tip ELSE lastCommon[p], best)

\* Mutant: what was downloaded but not connected is asked for again.
MissingUnlessActive(b) == b \notin ActiveChain /\ inFlight[b] = None

Missing(b) == b \notin haveData /\ b \notin ActiveChain /\ inFlight[b] = None

\* The blocks the walk looks at: up to one beyond the window, until an invalid
\* block, a missing one beyond the window, or the count-th missing one.
Walked(start, best, count) ==
  LET end == Height[start] + Window
      path == {b \in Ancestors[best] : Height[b] > Height[start] /\ Height[b] <= end + 1}
      Below(b) == {x \in path : Height[x] < Height[b]}
  IN {b \in path :
        /\ \A x \in Below(b) \cup {b} : x \notin failed
        /\ \A x \in Below(b) : Missing(x) => Height[x] <= end
        /\ Cardinality({x \in Below(b) : Missing(x)}) < count}

ToDownload(start, walked) == {b \in walked : Missing(b) /\ Height[b] <= Height[start] + Window}

\* Mutant: the data of the blocks below is not asked about.
NewLastCommonUnlinked(start, walked) == Highest({start} \cup (walked \cap haveData))

\* The last common block moves up over blocks that are linked.
NewLastCommon(start, walked) == Highest({start} \cup (walked \cap Linked(haveData)))

\* The peer that keeps the window from moving, if there is one: nothing can be
\* asked for, but could be if the window were one block larger.
Staller(p, start, walked) ==
  LET waiting == {b \in walked : b \notin haveData /\ b \notin ActiveChain /\ inFlight[b] # None}
      beyond == {b \in walked : Missing(b) /\ Height[b] > Height[start] + Window}
  IN IF ToDownload(start, walked) = {} /\ beyond # {}
     THEN {inFlight[b] : b \in Lowest(1, waiting)} \ {p} ELSE {}

(***************************************************************************)
(* SendMessages.                                                           *)
(***************************************************************************)
\* Download if this is a nice peer, or we have no nice peers.
Fetch(p) == p \in Outbound \/ nPreferredDownload = 0

\* The common beginning: start headers synchronization, and look whether the last
\* unknown block is known by now.
StartsSync(p) == headerSync[p] = "off" /\ ((nSyncStarted = 0 /\ Fetch(p)) \/ BestHeaderRecent)

HeaderSyncStarted(p) == IF StartsSync(p) THEN "timed" ELSE headerSync[p]

BeginSend(p) ==
  /\ Serves(p)
  /\ nSyncStarted' = nSyncStarted + (IF StartsSync(p) THEN 1 ELSE 0)
  /\ avail' = [avail EXCEPT ![p] = ProcessBlockAvailability(@, index)]

BestKnown(p) == ProcessBlockAvailability(avail[p], index).best

\* The block or stall timer has run out: nothing else is done.
SendTimeout(p) ==
  /\ BeginSend(p) /\ p \notin Punctual
  /\ p \in stalling \/ requested[p] # {}
  /\ headerSync' = [headerSync EXCEPT ![p] = HeaderSyncStarted(p)]
  /\ fDisconnect' = fDisconnect \cup {p}
  /\ UNCHANGED <<node, lastCommon, requests, chainSync, protection, nPreferredDownload, chain, processing>>

\* The only headers sync peer has not caught up in time, and there are others.
SendHeadersTimeout(p) ==
  /\ BeginSend(p) /\ p \notin Punctual
  /\ headerSync[p] = "timed" /\ ~BestHeaderRecent
  /\ nSyncStarted = 1 /\ nPreferredDownload - Preferred(p) >= 1
  /\ fDisconnect' = fDisconnect \cup {p}
  /\ UNCHANGED <<node, lastCommon, requests, headerSync, chainSync, protection, nPreferredDownload, chain, processing>>

\* ConsiderEviction, with or without its timer expired.
ConsiderEviction(p, expired) ==
  LET best == BestKnown(p)
      since == chainSync[p]
      behind == best = None \/ Height[best] < Height[tip]
  IN IF p \in protect \/ p \notin Outbound \/ HeaderSyncStarted(p) = "off"
     THEN UNCHANGED <<chainSync, fDisconnect>>
     ELSE IF ~behind THEN chainSync' = [chainSync EXCEPT ![p] = None] /\ UNCHANGED fDisconnect
     ELSE IF since = None \/ (best # None /\ Height[best] >= Height[since.work])
     THEN chainSync' = [chainSync EXCEPT ![p] = [work |-> tip, sent |-> FALSE]] /\ UNCHANGED fDisconnect
     ELSE /\ chainSync' = IF expired THEN [chainSync EXCEPT ![p].sent = TRUE] ELSE chainSync
          /\ fDisconnect' = IF expired /\ since.sent THEN fDisconnect \cup {p} ELSE fDisconnect

\* The getdata for blocks at the end of SendMessages.
RequestBlocks(p) ==
  LET best == BestKnown(p)
      count == InTransitLeft(p)
  IN IF (Fetch(p) \/ ~IsInitialBlockDownload) /\ count > 0
        /\ best # None /\ Height[best] >= Height[tip]
     THEN \E start \in WalkStart(p, best) :
          \E walked \in {Walked(start, best, count)} :
          \E ask \in {ToDownload(start, walked)} :
            /\ \E common \in NewLastCommon(start, walked) :
                 lastCommon' = [lastCommon EXCEPT ![p] = common]
            /\ MarkBlocksAsInFlight(p, ask)
            /\ stalling' = IF nBlocksInFlight[p] = 0 /\ ask = {}
                           THEN stalling \cup Staller(p, start, walked) ELSE stalling
     ELSE UNCHANGED <<lastCommon, requests>>

\* No timer of a download has run out.
SendMessages(p) ==
  /\ BeginSend(p)
  /\ headerSync' = [headerSync EXCEPT ![p] = IF HeaderSyncStarted(p) = "timed" /\ BestHeaderRecent
                                             THEN "done" ELSE HeaderSyncStarted(p)]
  /\ \E expired \in {FALSE, p \notin Punctual} : ConsiderEviction(p, expired)
  /\ RequestBlocks(p)
  /\ UNCHANGED <<node, protection, nPreferredDownload, chain, processing>>

Init ==
  /\ node = [p \in Peers |-> "absent"] /\ fDisconnect = {}
  /\ avail = [p \in Peers |-> [best |-> None, unknown |-> None]]
  /\ lastCommon = [p \in Peers |-> None]
  /\ requested = [p \in Peers |-> {}] /\ nBlocksInFlight = [p \in Peers |-> 0]
  /\ stalling = {} /\ inFlight = [b \in Blocks |-> None]
  /\ headerSync = [p \in Peers |-> "off"] /\ chainSync = [p \in Peers |-> None] /\ protect = {}
  /\ nPreferredDownload = 0 /\ nPeersWithValidatedDownloads = 0 /\ nSyncStarted = 0 /\ nProtected = 0
  /\ index = {Genesis} /\ haveData = {Genesis} /\ failed = {} /\ tip = Genesis
  /\ processing = None

Send(p) == SendMessages(p) \/ SendTimeout(p) \/ SendHeadersTimeout(p)

Next ==
  \/ \E p \in Peers : InitializeNode(p) \/ Handshake(p) \/ Disconnect(p) \/ FinalizeNode(p) \/ Send(p)
  \/ \E p \in Peers, b \in Blocks :
       Announce(p, b) \/ Headers(p, b) \/ InvalidHeaders(p, b) \/ Block(p, b)
  \/ ProcessNewBlock

(***************************************************************************)
(* A punctual peer answers the getheaders sent when headers                *)
(* synchronization starts and the getdata for a block.  The message        *)
(* handler keeps serving it; timers that keep running against another peer *)
(* expire, and the socket thread deletes nodes marked for disconnection.   *)
(***************************************************************************)
Answer(p) ==
  \/ \E b \in requested[p] : Block(p, b)
  \/ /\ headerSync[p] # "off"
     /\ \E b \in Offers[p] : /\ \A x \in Offers[p] : Height[x] <= Height[b]
                             /\ Headers(p, b)

Dismiss(p) == SendTimeout(p) \/ SendHeadersTimeout(p) \/ FinalizeNode(p)

Fairness ==
  /\ WF_vars(ProcessNewBlock)
  /\ \A p \in Punctual : WF_vars(Answer(p)) /\ WF_vars(SendMessages(p))
  /\ \A p \in Peers \ Punctual : WF_vars(Dismiss(p))

Spec == Init /\ [][Next]_vars /\ Fairness

(***************************************************************************)
(* Properties.                                                             *)
(***************************************************************************)
\* mapBlocksInFlight, the lists of the peers and every counter describe the same
\* requests, whatever peers were finalized in whatever state: the assertions in
\* MarkBlockAsReceived and at the end of FinalizeNode, the use of State(staller)
\* and the time-outs in SendMessages rely on it.  Only a peer that owes a block is
\* ever considered stalling.
InFlightAgrees ==
  /\ \A b \in Blocks, p \in Peers : inFlight[b] = p <=> b \in requested[p]
  /\ \A p \in Peers : requested[p] # {} => Known(p)
  /\ \A p \in Peers : nBlocksInFlight[p] = Cardinality(requested[p])
  /\ nPeersWithValidatedDownloads = Cardinality({p \in Peers : requested[p] # {}})
  /\ nPreferredDownload = Cardinality({p \in Outbound : node[p] = "up"})
  /\ nSyncStarted = Cardinality({p \in Peers : headerSync[p] # "off"})
  /\ nProtected = Cardinality(protect)
  /\ \A p \in stalling : requested[p] # {}

\* The last common block never runs ahead of what was downloaded: below it no
\* block is missing, so the window never moves past a hole.
NoHoleBelowLastCommon ==
  \A p \in Peers : lastCommon[p] # None => Ancestors[lastCommon[p]] \subseteq haveData

\* A block is asked for only if its data is neither there nor being processed.
NoRedundantRequest ==
  [][\A b \in Blocks : inFlight[b] = None /\ inFlight'[b] # None =>
        /\ b \notin haveData'
        /\ (processing # None => processing.block # b)]_vars

\* With one punctual peer connected the node reaches the height of that peer's
\* chain, whatever blocks other peers have promised and keep back.
SyncsWithPunctual ==
  \A p \in Punctual : node[p] = "up" ~> \A b \in Offers[p] : Height[b] <= Height[tip]
=============================================================================
