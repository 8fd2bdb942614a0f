--------------------------- MODULE BlockDownload ---------------------------
(***************************************************************************)
(* Block download scheduler and peer-state registry of                     *)
(* src/services/chain/messages.cpp.                                        *)
(*                                                                         *)
(* State: mapNodeState (the per-peer CNodeState fields the scheduler       *)
(* uses), mapBlocksInFlight and the global counters nPreferredDownload,    *)
(* nPeersWithValidatedDownloads and nSyncStarted; the CNode flags the      *)
(* handlers read (fInbound, fWhitelisted, fOneShot, fClient, the           *)
(* handshake and fDisconnect); and the part of the chain the scheduler     *)
(* reads: the header chain, the blocks whose data we have and the tip.     *)
(*                                                                         *)
(* The chain is a single best chain of heights 1..NumBlocks (0 is genesis);*)
(* a block hash is its height, the chain work of a block its height.       *)
(* Every handler runs under cs_main, so each action is one atomic step.    *)
(***************************************************************************)
EXTENDS Integers, Sequences, FiniteSets, SequencesExt, TLC

CONSTANTS
    Peers,                  \* node ids; each id is connected at most once
    NumBlocks,              \* height of the best chain the network has
    PeerKinds,              \* possible [fInbound, fWhitelisted, fOneShot]
    ClientFlags,            \* possible fClient (!(nServices & NODE_NETWORK))
    MAX_BLOCKS_IN_TRANSIT_PER_PEER,
    BLOCK_DOWNLOAD_WINDOW,
    BLOCK_STALLING_TIMEOUT,           \* in clock ticks
    BLOCK_DOWNLOAD_TIMEOUT_BASE,      \* target spacing x base, in ticks
    BLOCK_DOWNLOAD_TIMEOUT_PER_PEER,  \* target spacing x per peer, in ticks
    MaxTime,                \* bound of the clock
    NoPeer,                 \* NodeId -1
    NoBlock                 \* a NULL CBlockIndex* / a null uint256

ASSUME MAX_BLOCKS_IN_TRANSIT_PER_PEER \in Nat \ {0}
ASSUME BLOCK_DOWNLOAD_WINDOW \in Nat \ {0}
ASSUME MaxTime \in Nat \ {0}

Blocks == 1..NumBlocks
Time == 0..MaxTime

VARIABLES
    status,          \* "idle" (not yet connected), "connected", "gone"
    node,            \* CNode fields read by the scheduler
    mapNodeState,    \* CNodeState per peer
    mapBlocksInFlight,           \* hash -> NodeId (partial function)
    nPreferredDownload,
    nPeersWithValidatedDownloads,
    nSyncStarted,
    bestHeader,      \* mapBlockIndex holds exactly the headers 0..bestHeader
    haveData,        \* blocks with BLOCK_HAVE_DATA
    tip,             \* chainActive.Tip()
    ibd,             \* IsInitialBlockDownload() (latches to FALSE)
    now              \* GetTimeMicros()

vars == <<status, node, mapNodeState, mapBlocksInFlight, nPreferredDownload,
          nPeersWithValidatedDownloads, nSyncStarted, bestHeader, haveData,
          tip, ibd, now>>

QueuedBlock == [hash : Blocks, fValidatedHeaders : BOOLEAN]

\* A freshly constructed CNodeState.
NewNodeState ==
    [fPreferredDownload |-> FALSE, fSyncStarted |-> FALSE,
     vBlocksInFlight |-> <<>>, nBlocksInFlight |-> 0,
     nBlocksInFlightValidHeaders |-> 0,
     nDownloadingSince |-> 0, nStallingSince |-> 0,
     pindexBestKnownBlock |-> NoBlock, hashLastUnknownBlock |-> NoBlock,
     pindexLastCommonBlock |-> NoBlock]

NewNode ==
    [fInbound |-> FALSE, fWhitelisted |-> FALSE, fOneShot |-> FALSE,
     fClient |-> FALSE, handshake |-> "none", fDisconnect |-> FALSE]

MinOf(a, b) == IF a <= b THEN a ELSE b
MaxOf(a, b) == IF a >= b THEN a ELSE b
Erase(f, k) == [x \in DOMAIN f \ {k} |-> f[x]]
Put(f, k, v) == [x \in DOMAIN f \cup {k} |-> IF x = k THEN v ELSE f[x]]
Bool2Int(b) == IF b THEN 1 ELSE 0

(***************************************************************************)
(* Chain collaborator                                                      *)
(***************************************************************************)

\* BlockMap lookup: the hash is in mapBlockIndex with nChainWork > 0.
KnownHeader(h, hdr) == h # NoBlock /\ h <= hdr

\* ActivateBestChain on a single chain: the tip is the highest block all of
\* whose ancestors have data (nChainTx != 0).
ConnectedTip(have) == Max({t \in 0..NumBlocks : 1..t \subseteq have})

(***************************************************************************)
(* The download state the helpers below transform: mapNodeState,          *)
(* mapBlocksInFlight and nPeersWithValidatedDownloads, as one record so   *)
(* that a loop of calls is a fold.                                         *)
(***************************************************************************)
DL == [ns |-> mapNodeState, inflight |-> mapBlocksInFlight,
       nValid |-> nPeersWithValidatedDownloads]

\* Position of hash h in a peer's vBlocksInFlight (the stored iterator).
PosOf(q, h) == CHOOSE i \in 1..Len(q) : q[i].hash = h

\* Seeded fault: nPeersWithValidatedDownloads is decremented for every
\* validated block received, not only for the peer's last one.
MarkBlockAsReceived_DecEveryValidated(d, h, t) ==
    IF h \notin DOMAIN d.inflight THEN d
    ELSE LET p == d.inflight[h]
             s == d.ns[p]
             i == PosOf(s.vBlocksInFlight, h)
             e == s.vBlocksInFlight[i]
         IN [ns |-> [d.ns EXCEPT ![p] =
                       [s EXCEPT !.nBlocksInFlightValidHeaders =
                                     @ - Bool2Int(e.fValidatedHeaders),
                                 !.nDownloadingSince =
                                     IF i = 1 THEN MaxOf(@, t) ELSE @,
                                 !.vBlocksInFlight = RemoveAt(@, i),
                                 !.nBlocksInFlight = @ - 1,
                                 !.nStallingSince = 0]],
             inflight |-> Erase(d.inflight, h),
             nValid |-> d.nValid - Bool2Int(e.fValidatedHeaders)]

\* Seeded fault: receiving a block does not clear the peer's stalling mark.
MarkBlockAsReceived_KeepStalling(d, h, t) ==
    IF h \notin DOMAIN d.inflight THEN d
    ELSE LET p  == d.inflight[h]
             s  == d.ns[p]
             i  == PosOf(s.vBlocksInFlight, h)
             e  == s.vBlocksInFlight[i]
             vh == s.nBlocksInFlightValidHeaders - Bool2Int(e.fValidatedHeaders)
         IN [ns |-> [d.ns EXCEPT ![p] =
                       [s EXCEPT !.nBlocksInFlightValidHeaders = vh,
                                 !.nDownloadingSince =
                                     IF i = 1 THEN MaxOf(@, t) ELSE @,
                                 !.vBlocksInFlight = RemoveAt(@, i),
                                 !.nBlocksInFlight = @ - 1]],
             inflight |-> Erase(d.inflight, h),
             nValid |-> d.nValid - Bool2Int(vh = 0 /\ e.fValidatedHeaders)]

\* MarkBlockAsReceived(hash)
MarkBlockAsReceived(d, h, t) ==
    IF h \notin DOMAIN d.inflight THEN d
    ELSE LET p  == d.inflight[h]
             s  == d.ns[p]
             i  == PosOf(s.vBlocksInFlight, h)
             e  == s.vBlocksInFlight[i]
             vh == s.nBlocksInFlightValidHeaders - Bool2Int(e.fValidatedHeaders)
         IN [ns |-> [d.ns EXCEPT ![p] =
                       [s EXCEPT !.nBlocksInFlightValidHeaders = vh,
                                 !.nDownloadingSince =
                                     IF i = 1 THEN MaxOf(@, t) ELSE @,
                                 !.vBlocksInFlight = RemoveAt(@, i),
                                 !.nBlocksInFlight = @ - 1,
                                 !.nStallingSince = 0]],
             inflight |-> Erase(d.inflight, h),
             nValid |-> d.nValid - Bool2Int(vh = 0 /\ e.fValidatedHeaders)]

\* MarkBlockAsInFlight(nodeid, hash, params, pindex); validated is
\* pindex != NULL.
MarkBlockAsInFlight(d, p, h, validated, t) ==
    LET d1 == MarkBlockAsReceived(d, h, t)
        s  == d1.ns[p]
        s2 == [s EXCEPT
                 !.vBlocksInFlight = Append(@, [hash |-> h,
                                                fValidatedHeaders |-> validated]),
                 !.nBlocksInFlight = @ + 1,
                 !.nBlocksInFlightValidHeaders = @ + Bool2Int(validated),
                 !.nDownloadingSince = IF s.nBlocksInFlight + 1 = 1 THEN t ELSE @]
    IN [ns |-> [d1.ns EXCEPT ![p] = s2],
        inflight |-> Put(d1.inflight, h, p),
        nValid |-> d1.nValid +
                   Bool2Int(s2.nBlocksInFlightValidHeaders = 1 /\ validated)]

\* Mark every block of the sequence in flight from p, in order.
MarkAllInFlight(d, p, hs, validated, t) ==
    FoldLeft(LAMBDA acc, h : MarkBlockAsInFlight(acc, p, h, validated, t), d, hs)

SetDL(d) ==
    /\ mapNodeState' = d.ns
    /\ mapBlocksInFlight' = d.inflight
    /\ nPeersWithValidatedDownloads' = d.nValid

\* ProcessBlockAvailability(nodeid) on a CNodeState.
ProcessBlockAvailability(s, hdr) ==
    IF s.hashLastUnknownBlock # NoBlock /\ KnownHeader(s.hashLastUnknownBlock, hdr)
    THEN [s EXCEPT !.pindexBestKnownBlock =
                       IF @ = NoBlock \/ s.hashLastUnknownBlock >= @
                       THEN s.hashLastUnknownBlock ELSE @,
                   !.hashLastUnknownBlock = NoBlock]
    ELSE s

\* UpdateBlockAvailability(nodeid, hash) on a CNodeState.
UpdateBlockAvailability(s, h, hdr) ==
    LET s1 == ProcessBlockAvailability(s, hdr)
    IN IF KnownHeader(h, hdr)
       THEN [s1 EXCEPT !.pindexBestKnownBlock =
                           IF @ = NoBlock \/ h >= @ THEN h ELSE @]
       ELSE [s1 EXCEPT !.hashLastUnknownBlock = h]

(***************************************************************************)
(* FindNextBlocksToDownload(nodeid, count, vBlocks, nodeStaller).          *)
(* Returns the updated CNodeState, the blocks to fetch (vBlocks) and the  *)
(* staller.  The batching of the walk in groups of 128 only bounds the     *)
(* cost of GetAncestor; the blocks are visited in the same forward order  *)
(* as by a walk of one block at a time, which is what WalkWindow does.    *)
(* On a single chain the last common ancestor of two blocks is the lower. *)
(***************************************************************************)
RECURSIVE WalkWindow(_, _, _, _, _, _, _, _, _, _)
WalkWindow(h, maxHeight, windowEnd, count, self, inflight, tipH, have, lcb, acc) ==
    IF h > maxHeight THEN [acc EXCEPT !.lcb = lcb]
    ELSE IF h \in have \/ h <= tipH
         \* already downloaded or on the active chain; nChainTx on a single
         \* chain means connected
         THEN WalkWindow(h + 1, maxHeight, windowEnd, count, self, inflight,
                         tipH, have, IF h <= tipH THEN h ELSE lcb, acc)
    ELSE IF h \notin DOMAIN inflight
         THEN IF h > windowEnd
              \* reached the end of the window: report the staller
              THEN [acc EXCEPT !.lcb = lcb,
                               !.staller = IF Len(acc.blocks) = 0 /\ acc.waitingfor # self
                                           THEN acc.waitingfor ELSE @]
              ELSE LET acc2 == [acc EXCEPT !.blocks = Append(@, h)]
                   IN IF Len(acc2.blocks) = count
                      THEN [acc2 EXCEPT !.lcb = lcb]
                      ELSE WalkWindow(h + 1, maxHeight, windowEnd, count, self,
                                      inflight, tipH, have, lcb, acc2)
    \* in flight from some peer: the first one is the potential staller
    ELSE WalkWindow(h + 1, maxHeight, windowEnd, count, self, inflight, tipH,
                    have, lcb,
                    IF acc.waitingfor = NoPeer
                    THEN [acc EXCEPT !.waitingfor = inflight[h]] ELSE acc)

FindNextBlocksToDownload(s, count, self, inflight, hdr, tipH, have) ==
    LET s1 == ProcessBlockAvailability(s, hdr)
        best == s1.pindexBestKnownBlock
        none(st) == [st |-> st, blocks |-> <<>>, staller |-> NoPeer]
    IN IF count = 0 THEN none(s)
       ELSE IF best = NoBlock \/ best < tipH THEN none(s1)
       ELSE LET lc0 == IF s1.pindexLastCommonBlock = NoBlock
                       THEN MinOf(best, tipH) ELSE s1.pindexLastCommonBlock
                lc == MinOf(lc0, best)
                windowEnd == lc + BLOCK_DOWNLOAD_WINDOW
                maxHeight == MinOf(best, windowEnd + 1)
                r == WalkWindow(lc + 1, maxHeight, windowEnd, count, self,
                                inflight, tipH, have, lc,
                                [lcb |-> lc, blocks |-> <<>>,
                                 waitingfor |-> NoPeer, staller |-> NoPeer])
            IN IF lc = best
               THEN none([s1 EXCEPT !.pindexLastCommonBlock = lc])
               ELSE [st |-> [s1 EXCEPT !.pindexLastCommonBlock = r.lcb],
                     blocks |-> r.blocks, staller |-> r.staller]

(***************************************************************************)
(* Headers direct fetch in the HEADERS handler: walk back from pindexLast *)
(* while not on the active chain and vToFetch.size() <= MAX, collecting   *)
(* the blocks we have no data for and that are not in flight (newest      *)
(* first).  walk is where the walk stopped.                               *)
(***************************************************************************)
\* Seeded fault: the HEADERS walk collects blocks whose data we have.
RECURSIVE CollectToFetch_IgnoreHave(_, _, _, _, _)
CollectToFetch_IgnoreHave(w, tipH, have, inflight, acc) ==
    IF w > tipH /\ Len(acc) <= MAX_BLOCKS_IN_TRANSIT_PER_PEER
    THEN CollectToFetch_IgnoreHave(w - 1, tipH, have, inflight,
                        IF w \notin DOMAIN inflight THEN Append(acc, w) ELSE acc)
    ELSE [walk |-> w, toFetch |-> acc]

RECURSIVE CollectToFetch(_, _, _, _, _)
CollectToFetch(w, tipH, have, inflight, acc) ==
    IF w > tipH /\ Len(acc) <= MAX_BLOCKS_IN_TRANSIT_PER_PEER
    THEN CollectToFetch(w - 1, tipH, have, inflight,
                        IF w \notin have /\ w \notin DOMAIN inflight
                        THEN Append(acc, w) ELSE acc)
    ELSE [walk |-> w, toFetch |-> acc]

-----------------------------------------------------------------------------
(***************************************************************************)
(* Initial state                                                           *)
(***************************************************************************)
Init ==
    /\ status = [p \in Peers |-> "idle"]
    /\ node = [p \in Peers |-> NewNode]
    /\ mapNodeState = [p \in Peers |-> NewNodeState]
    /\ mapBlocksInFlight = [h \in {} |-> NoPeer]
    /\ nPreferredDownload = 0
    /\ nPeersWithValidatedDownloads = 0
    /\ nSyncStarted = 0
    /\ bestHeader = 0
    /\ haveData = {}
    /\ tip = 0
    /\ ibd = TRUE
    /\ now = 1

\* The peer's messages are processed: ProcessMessages stops at fDisconnect,
\* and every message but VERSION needs nVersion != 0.
Active(p) ==
    /\ status[p] = "connected"
    /\ ~node[p].fDisconnect
    /\ node[p].handshake # "none"

ChainUnchanged == UNCHANGED <<bestHeader, haveData, tip, ibd, now>>

(***************************************************************************)
(* InitializeNode: a new connection gets a fresh CNodeState.               *)
(***************************************************************************)
InitializeNode(p) ==
    /\ status[p] = "idle"
    /\ status' = [status EXCEPT ![p] = "connected"]
    /\ \E k \in PeerKinds :
          node' = [node EXCEPT ![p] = [NewNode EXCEPT !.fInbound = k.fInbound,
                                                      !.fWhitelisted = k.fWhitelisted,
                                                      !.fOneShot = k.fOneShot]]
    /\ UNCHANGED <<mapNodeState, mapBlocksInFlight, nPreferredDownload,
                   nPeersWithValidatedDownloads, nSyncStarted>>
    /\ ChainUnchanged

(***************************************************************************)
(* FinalizeNode: the transport dropped the connection (after fDisconnect  *)
(* or on a socket error).  The in-flight entries are erased by hash.       *)
(***************************************************************************)
\* Seeded faults: the in-flight entries of the peer are left in
\* mapBlocksInFlight; nPeersWithValidatedDownloads is decremented on the
\* wrong counter (nBlocksInFlight instead of nBlocksInFlightValidHeaders).
FinalizeNode_KeepInFlight(p) ==
    LET s == mapNodeState[p]
    IN /\ status[p] = "connected"
       /\ status' = [status EXCEPT ![p] = "gone"]
       /\ nSyncStarted' = nSyncStarted - Bool2Int(s.fSyncStarted)
       /\ nPreferredDownload' = nPreferredDownload - Bool2Int(s.fPreferredDownload)
       /\ nPeersWithValidatedDownloads' =
              nPeersWithValidatedDownloads - Bool2Int(s.nBlocksInFlightValidHeaders # 0)
       /\ mapNodeState' = [mapNodeState EXCEPT ![p] = NewNodeState]
       /\ node' = [node EXCEPT ![p] = NewNode]
       /\ UNCHANGED mapBlocksInFlight
       /\ ChainUnchanged

FinalizeNode_WrongCounter(p) ==
    LET s == mapNodeState[p]
        gone == {s.vBlocksInFlight[i].hash : i \in 1..Len(s.vBlocksInFlight)}
    IN /\ status[p] = "connected"
       /\ status' = [status EXCEPT ![p] = "gone"]
       /\ nSyncStarted' = nSyncStarted - Bool2Int(s.fSyncStarted)
       /\ mapBlocksInFlight' = [h \in DOMAIN mapBlocksInFlight \ gone |->
                                   mapBlocksInFlight[h]]
       /\ nPreferredDownload' = nPreferredDownload - Bool2Int(s.fPreferredDownload)
       /\ nPeersWithValidatedDownloads' =
              nPeersWithValidatedDownloads - Bool2Int(s.nBlocksInFlight # 0)
       /\ mapNodeState' = [mapNodeState EXCEPT ![p] = NewNodeState]
       /\ node' = [node EXCEPT ![p] = NewNode]
       /\ ChainUnchanged

FinalizeNode(p) ==
    LET s == mapNodeState[p]
        gone == {s.vBlocksInFlight[i].hash : i \in 1..Len(s.vBlocksInFlight)}
    IN /\ status[p] = "connected"
       /\ status' = [status EXCEPT ![p] = "gone"]
       /\ nSyncStarted' = nSyncStarted - Bool2Int(s.fSyncStarted)
       /\ mapBlocksInFlight' = [h \in DOMAIN mapBlocksInFlight \ gone |->
                                   mapBlocksInFlight[h]]
       /\ nPreferredDownload' = nPreferredDownload - Bool2Int(s.fPreferredDownload)
       /\ nPeersWithValidatedDownloads' =
              nPeersWithValidatedDownloads - Bool2Int(s.nBlocksInFlightValidHeaders # 0)
       /\ mapNodeState' = [mapNodeState EXCEPT ![p] = NewNodeState]
       /\ node' = [node EXCEPT ![p] = NewNode]
       /\ ChainUnchanged

(***************************************************************************)
(* VERSION.  A refused handshake (missing services, obsolete version, or  *)
(* a connection to ourselves) sets fDisconnect; an accepted one records    *)
(* nVersion and fClient and calls UpdatePreferredDownload.                 *)
(***************************************************************************)
VersionRefused(p) ==
    /\ status[p] = "connected"
    /\ ~node[p].fDisconnect
    /\ node[p].handshake = "none"
    /\ node' = [node EXCEPT ![p].fDisconnect = TRUE]
    /\ UNCHANGED <<status, mapNodeState, mapBlocksInFlight, nPreferredDownload,
                   nPeersWithValidatedDownloads, nSyncStarted>>
    /\ ChainUnchanged

\* UpdatePreferredDownload(node, state)
PreferredDownload(n) == (~n.fInbound \/ n.fWhitelisted) /\ ~n.fOneShot /\ ~n.fClient

VersionAccepted(p) ==
    /\ status[p] = "connected"
    /\ ~node[p].fDisconnect
    /\ node[p].handshake = "none"
    /\ \E client \in ClientFlags :
          LET n == [node[p] EXCEPT !.fClient = client, !.handshake = "version"]
              pref == PreferredDownload(n)
          IN /\ node' = [node EXCEPT ![p] = n]
             /\ nPreferredDownload' = nPreferredDownload
                    - Bool2Int(mapNodeState[p].fPreferredDownload) + Bool2Int(pref)
             /\ mapNodeState' = [mapNodeState EXCEPT ![p].fPreferredDownload = pref]
    /\ UNCHANGED <<status, mapBlocksInFlight, nPeersWithValidatedDownloads,
                   nSyncStarted>>
    /\ ChainUnchanged

\* VERACK: fSuccessfullyConnected.
Verack(p) ==
    /\ Active(p)
    /\ node[p].handshake = "version"
    /\ node' = [node EXCEPT ![p].handshake = "verack"]
    /\ UNCHANGED <<status, mapNodeState, mapBlocksInFlight, nPreferredDownload,
                   nPeersWithValidatedDownloads, nSyncStarted>>
    /\ ChainUnchanged

(***************************************************************************)
(* INV carrying a block hash h.  canDirect is CanDirectFetch().            *)
(***************************************************************************)
\* Seeded faults: INV fetches a block already in flight from another peer;
\* INV fetches while the peer is already at the per-peer limit.
InvBlock_IgnoreInFlight(p, h) ==
    /\ Active(p)
    /\ \E canDirect \in BOOLEAN :
          LET s1 == UpdateBlockAvailability(mapNodeState[p], h, bestHeader)
              d0 == [DL EXCEPT !.ns = [@ EXCEPT ![p] = s1]]
              fetch == /\ ~KnownHeader(h, bestHeader)
                       /\ canDirect
                       /\ s1.nBlocksInFlight < MAX_BLOCKS_IN_TRANSIT_PER_PEER
          IN SetDL(IF fetch THEN MarkBlockAsInFlight(d0, p, h, FALSE, now) ELSE d0)
    /\ UNCHANGED <<status, node, nPreferredDownload, nSyncStarted>>
    /\ ChainUnchanged

InvBlock_LimitOffByOne(p, h) ==
    /\ Active(p)
    /\ \E canDirect \in BOOLEAN :
          LET s1 == UpdateBlockAvailability(mapNodeState[p], h, bestHeader)
              d0 == [DL EXCEPT !.ns = [@ EXCEPT ![p] = s1]]
              fetch == /\ ~KnownHeader(h, bestHeader)
                       /\ h \notin DOMAIN mapBlocksInFlight
                       /\ canDirect
                       /\ s1.nBlocksInFlight <= MAX_BLOCKS_IN_TRANSIT_PER_PEER
          IN SetDL(IF fetch THEN MarkBlockAsInFlight(d0, p, h, FALSE, now) ELSE d0)
    /\ UNCHANGED <<status, node, nPreferredDownload, nSyncStarted>>
    /\ ChainUnchanged

InvBlock(p, h) ==
    /\ Active(p)
    /\ \E canDirect \in BOOLEAN :
          LET fAlreadyHave == KnownHeader(h, bestHeader)
              s1 == UpdateBlockAvailability(mapNodeState[p], h, bestHeader)
              d0 == [DL EXCEPT !.ns = [@ EXCEPT ![p] = s1]]
              fetch == /\ ~fAlreadyHave
                       /\ h \notin DOMAIN mapBlocksInFlight
                       /\ canDirect
                       /\ s1.nBlocksInFlight < MAX_BLOCKS_IN_TRANSIT_PER_PEER
          IN SetDL(IF fetch THEN MarkBlockAsInFlight(d0, p, h, FALSE, now) ELSE d0)
    /\ UNCHANGED <<status, node, nPreferredDownload, nSyncStarted>>
    /\ ChainUnchanged

(***************************************************************************)
(* HEADERS ending at block h that connect to our header chain.  The       *)
(* headers are accepted, the peer's best known block updated, and, when   *)
(* CanDirectFetch() and h has at least the tip's work, the missing blocks *)
(* towards h are requested, earliest first, up to the per-peer limit.     *)
(***************************************************************************)
Headers(p, h) ==
    /\ Active(p)
    /\ \E canDirect \in BOOLEAN :
          LET hdr == MaxOf(bestHeader, h)
              s1 == UpdateBlockAvailability(mapNodeState[p], h, hdr)
              d0 == [DL EXCEPT !.ns = [@ EXCEPT ![p] = s1]]
              r == CollectToFetch(h, tip, haveData, mapBlocksInFlight, <<>>)
              room == MAX_BLOCKS_IN_TRANSIT_PER_PEER - s1.nBlocksInFlight
              vGetData == SubSeq(Reverse(r.toFetch), 1,
                                 MinOf(Len(r.toFetch), MaxOf(room, 0)))
              fetch == canDirect /\ tip <= h /\ r.walk <= tip
          IN /\ bestHeader' = hdr
             /\ SetDL(IF fetch THEN MarkAllInFlight(d0, p, vGetData, TRUE, now)
                      ELSE d0)
    /\ UNCHANGED <<status, node, nPreferredDownload, nSyncStarted>>
    /\ UNCHANGED <<haveData, tip, ibd, now>>

(***************************************************************************)
(* BLOCK h.  MarkBlockAsReceived, then ProcessNewBlock: the block is      *)
(* stored when its parent header is known and it was requested (or comes  *)
(* from a whitelisted peer after IBD), or it has more work than the tip;  *)
(* ActivateBestChain then connects every block whose ancestors have data. *)
(***************************************************************************)
BlockMsg(p, h) ==
    /\ Active(p)
    /\ LET force == (node[p].fWhitelisted /\ ~ibd) \/ h \in DOMAIN mapBlocksInFlight
           accepted == h <= bestHeader + 1 /\ (force \/ h > tip)
           have2 == IF accepted THEN haveData \cup {h} ELSE haveData
       IN /\ SetDL(MarkBlockAsReceived(DL, h, now))
          /\ haveData' = have2
          /\ bestHeader' = IF accepted THEN MaxOf(bestHeader, h) ELSE bestHeader
          /\ tip' = ConnectedTip(have2)
    /\ UNCHANGED <<status, node, nPreferredDownload, nSyncStarted, ibd, now>>

(***************************************************************************)
(* SendMessages for a peer whose handshake is complete (the parts that    *)
(* drive block download): start the header sync, refresh the peer's best *)
(* known block, disconnect a staller or a peer whose head block timed     *)
(* out, otherwise request the next blocks of its window and mark the      *)
(* peer that blocks the window as stalling.  A failed TRY_LOCK(cs_main)   *)
(* leaves every variable unchanged, so it is a stuttering step.           *)
(* nearToday is pindexBestHeader->GetBlockTime() > now - 24h.             *)
(***************************************************************************)
\* The getdata part of SendMessages for a peer whose state is s1, given
\* the result r of FindNextBlocksToDownload: request r.blocks and mark the
\* staller, if the peer got nothing to request.
RequestBlocks(p, s1, r) ==
    LET d2 == MarkAllInFlight([DL EXCEPT !.ns = [@ EXCEPT ![p] = r.st]],
                              p, r.blocks, TRUE, now)
        staller == r.staller
    IN IF /\ d2.ns[p].nBlocksInFlight = 0
          /\ staller # NoPeer
          /\ d2.ns[staller].nStallingSince = 0
       THEN [d2 EXCEPT !.ns = [@ EXCEPT ![staller].nStallingSince = now]]
       ELSE d2

\* fFetch: download from a preferred peer, or from any full peer when
\* there is no preferred one.
Fetch(s, n) ==
    s.fPreferredDownload \/ (nPreferredDownload = 0 /\ ~n.fClient /\ ~n.fOneShot)

\* Start block sync: headers are requested from one peer only, unless the
\* best header is near today.
StartSync(s, n, nearToday) ==
    /\ ~s.fSyncStarted /\ ~n.fClient
    /\ (nSyncStarted = 0 /\ Fetch(s, n)) \/ nearToday

SendMessagesStep(p, nearToday) ==
    LET n  == node[p]
        s0 == mapNodeState[p]
        fFetch == Fetch(s0, n)
        startSync == StartSync(s0, n, nearToday)
        s1 == [ProcessBlockAvailability(s0, bestHeader) EXCEPT
                   !.fSyncStarted = @ \/ startSync]
        stalling == /\ s1.nStallingSince # 0
                    /\ s1.nStallingSince < now - BLOCK_STALLING_TIMEOUT
        others == nPeersWithValidatedDownloads
                      - Bool2Int(s1.nBlocksInFlightValidHeaders > 0)
        timedOut == /\ Len(s1.vBlocksInFlight) > 0
                    /\ now > s1.nDownloadingSince
                             + BLOCK_DOWNLOAD_TIMEOUT_BASE
                             + BLOCK_DOWNLOAD_TIMEOUT_PER_PEER * others
        getdata == /\ ~n.fClient /\ (fFetch \/ ~ibd)
                   /\ s1.nBlocksInFlight < MAX_BLOCKS_IN_TRANSIT_PER_PEER
        disconnect == stalling \/ timedOut
    IN [startSync |-> startSync, disconnect |-> disconnect,
        dl |-> IF disconnect \/ ~getdata
               THEN [DL EXCEPT !.ns = [@ EXCEPT ![p] = s1]]
               ELSE RequestBlocks(p, s1,
                        FindNextBlocksToDownload(s1,
                            MAX_BLOCKS_IN_TRANSIT_PER_PEER - s1.nBlocksInFlight,
                            p, mapBlocksInFlight, bestHeader, tip, haveData))]

SendMessages(p) ==
    /\ status[p] = "connected"
    /\ ~node[p].fDisconnect
    /\ node[p].handshake = "verack"
    /\ UNCHANGED <<status, nPreferredDownload>>
    /\ ChainUnchanged
    \* of the CNode fields, only fDisconnect is ever set
    /\ node' \in {node, [node EXCEPT ![p].fDisconnect = TRUE]}
    /\ \E nearToday \in BOOLEAN :
       \E r \in {SendMessagesStep(p, nearToday)} :
          /\ nSyncStarted' = nSyncStarted + Bool2Int(r.startSync)
          /\ node' = IF r.disconnect
                     THEN [node EXCEPT ![p].fDisconnect = TRUE] ELSE node
          /\ SetDL(r.dl)

(***************************************************************************)
(* Environment: the clock advances; the node leaves initial block         *)
(* download (IsInitialBlockDownload latches to false).                    *)
(*                                                                         *)
(* At MaxTime the clock stays and every timestamp moves one tick into the *)
(* past instead (a set one stays set: it is floored at 1).  The handlers  *)
(* only compare timestamps with each other and with now, so this is the  *)
(* same as time passing, as long as a timestamp at the floor is already   *)
(* older than every timeout: ClockShiftExact.  The shift keeps the clock  *)
(* finite without cutting behaviours off, so the liveness of timeouts can *)
(* be checked.                                                             *)
(***************************************************************************)
ClockShiftExact ==
    /\ 1 < MaxTime - BLOCK_STALLING_TIMEOUT
    /\ MaxTime > 1 + BLOCK_DOWNLOAD_TIMEOUT_BASE
                   + BLOCK_DOWNLOAD_TIMEOUT_PER_PEER * (Cardinality(Peers) - 1)

Older(t) == IF t = 0 THEN 0 ELSE MaxOf(t - 1, 1)

Tick ==
    /\ \/ /\ now < MaxTime
          /\ now' = now + 1
          /\ UNCHANGED mapNodeState
       \/ /\ now = MaxTime
          /\ ClockShiftExact
          /\ mapNodeState' = [p \in Peers |->
                                [mapNodeState[p] EXCEPT
                                    !.nDownloadingSince = Older(@),
                                    !.nStallingSince = Older(@)]]
          /\ UNCHANGED now
    /\ UNCHANGED <<status, node, mapBlocksInFlight,
                   nPreferredDownload, nPeersWithValidatedDownloads,
                   nSyncStarted, bestHeader, haveData, tip, ibd>>

LeaveIBD ==
    /\ ibd
    /\ ibd' = FALSE
    /\ UNCHANGED <<status, node, mapNodeState, mapBlocksInFlight,
                   nPreferredDownload, nPeersWithValidatedDownloads,
                   nSyncStarted, bestHeader, haveData, tip, now>>

\* Every node id has been used and its connection closed.
Done ==
    /\ \A p \in Peers : status[p] = "gone"
    /\ UNCHANGED vars

Next ==
    \/ \E p \in Peers :
          \/ InitializeNode(p)
          \/ FinalizeNode(p)
          \/ VersionRefused(p)
          \/ VersionAccepted(p)
          \/ Verack(p)
          \/ SendMessages(p)
          \/ \E h \in Blocks : InvBlock(p, h) \/ Headers(p, h) \/ BlockMsg(p, h)
    \/ Tick
    \/ LeaveIBD
    \/ Done

Spec == Init /\ [][Next]_vars

(***************************************************************************)
(* Fairness.  SendMessages runs for every peer on each pass of the        *)
(* message handler thread; the clock keeps running; the connection       *)
(* manager closes every socket marked fDisconnect (FinalizeNode).  No     *)
(* fairness for the peers: a remote peer may stay silent for ever.        *)
(***************************************************************************)
Fairness ==
    /\ \A p \in Peers : WF_vars(SendMessages(p))
    /\ \A p \in Peers : WF_vars(node[p].fDisconnect /\ FinalizeNode(p))
    /\ WF_vars(Tick)

FairSpec == Spec /\ Fairness

-----------------------------------------------------------------------------
(***************************************************************************)
(* Properties                                                              *)
(***************************************************************************)

\* Types of the state; the global counters are never negative (FinalizeNode
\* asserts nPeersWithValidatedDownloads >= 0).
TypeOK ==
    /\ status \in [Peers -> {"idle", "connected", "gone"}]
    /\ node \in [Peers -> [fInbound : BOOLEAN, fWhitelisted : BOOLEAN,
                           fOneShot : BOOLEAN, fClient : BOOLEAN,
                           handshake : {"none", "version", "verack"},
                           fDisconnect : BOOLEAN]]
    /\ \A p \in Peers :
         LET s == mapNodeState[p] IN
         /\ s.vBlocksInFlight \in Seq(QueuedBlock)
         /\ {s.nBlocksInFlight, s.nBlocksInFlightValidHeaders} \subseteq Nat
         /\ {s.nDownloadingSince, s.nStallingSince} \subseteq Time
         /\ {s.pindexBestKnownBlock, s.hashLastUnknownBlock,
             s.pindexLastCommonBlock} \subseteq (0..NumBlocks) \cup {NoBlock}
         /\ {s.fPreferredDownload, s.fSyncStarted} \subseteq BOOLEAN
    /\ DOMAIN mapBlocksInFlight \subseteq Blocks
    /\ \A h \in DOMAIN mapBlocksInFlight : mapBlocksInFlight[h] \in Peers
    /\ {nPreferredDownload, nPeersWithValidatedDownloads, nSyncStarted} \subseteq Nat
    /\ bestHeader \in 0..NumBlocks /\ haveData \subseteq Blocks /\ tip \in 0..NumBlocks
    /\ ibd \in BOOLEAN /\ now \in Time

\* Spec invariant 1: every hash in mapBlocksInFlight is in the in-flight
\* list of exactly the peer the index names, once, and every entry of every
\* peer's vBlocksInFlight is indexed to that peer.  Broken if a handler
\* requests a block twice or FinalizeNode leaves an entry behind.
InFlightIndexConsistent ==
    /\ \A h \in DOMAIN mapBlocksInFlight :
          LET p == mapBlocksInFlight[h] IN
          /\ status[p] = "connected"
          /\ Cardinality({i \in 1..Len(mapNodeState[p].vBlocksInFlight) :
                             mapNodeState[p].vBlocksInFlight[i].hash = h}) = 1
    /\ \A p \in Peers : \A i \in 1..Len(mapNodeState[p].vBlocksInFlight) :
          LET h == mapNodeState[p].vBlocksInFlight[i].hash IN
          h \in DOMAIN mapBlocksInFlight /\ mapBlocksInFlight[h] = p

\* Spec invariants 2-5: the per-peer counters nBlocksInFlight and
\* nBlocksInFlightValidHeaders match the in-flight list, and the global
\* counters nPeersWithValidatedDownloads, nPreferredDownload and
\* nSyncStarted count the connected peers with the property; so they are
\* all zero when the last peer is finalized (the asserts of FinalizeNode).
CountersConsistent ==
    /\ \A p \in Peers :
          LET s == mapNodeState[p] IN
          /\ s.nBlocksInFlight = Len(s.vBlocksInFlight)
          /\ s.nBlocksInFlightValidHeaders =
                Cardinality({i \in 1..Len(s.vBlocksInFlight) :
                                s.vBlocksInFlight[i].fValidatedHeaders})
    /\ nPeersWithValidatedDownloads =
          Cardinality({p \in Peers : mapNodeState[p].nBlocksInFlightValidHeaders > 0})
    /\ nPreferredDownload =
          Cardinality({p \in Peers : mapNodeState[p].fPreferredDownload})
    /\ nSyncStarted = Cardinality({p \in Peers : mapNodeState[p].fSyncStarted})

\* No peer ever has more than MAX_BLOCKS_IN_TRANSIT_PER_PEER blocks in
\* flight, whichever of INV, HEADERS and SendMessages requested them.
InFlightWithinLimit ==
    \A p \in Peers : mapNodeState[p].nBlocksInFlight <= MAX_BLOCKS_IN_TRANSIT_PER_PEER

\* A block is never in flight once we have its data: no handler requests a
\* block already downloaded, and a received block leaves mapBlocksInFlight.
NoRequestForStoredBlock ==
    \A h \in DOMAIN mapBlocksInFlight : h \notin haveData

\* A peer marked as stalling (nStallingSince != 0, set by another peer's
\* SendMessages) still has blocks in flight: the mark is cleared whenever
\* one of its blocks is received, so no peer is disconnected for stalling
\* a window it no longer blocks.
StallerHoldsBlocks ==
    \A p \in Peers :
        mapNodeState[p].nStallingSince # 0 => mapNodeState[p].nBlocksInFlight > 0

\* A block in flight from one peer is never handed to another peer while
\* still in flight: MarkBlockAsInFlight would silently take it over.
NoInFlightTakeover ==
    [][\A h \in DOMAIN mapBlocksInFlight \cap DOMAIN mapBlocksInFlight' :
          mapBlocksInFlight'[h] = mapBlocksInFlight[h]]_vars


\* A block requested from a peer whose handshake is complete stops being in
\* flight from that peer: it arrives, or SendMessages disconnects the peer
\* for stalling the window or for the head block's timeout and FinalizeNode
\* erases its requests.  Broken if a timeout can be put off for ever.
\* Stated as: no block stays in flight for ever from a peer that is past
\* the handshake or gone.  A peer leaves "verack" only through FinalizeNode
\* to "gone", which is final, so a request of a ready peer that is never
\* resolved keeps this condition true for ever; a request kept by a gone
\* peer is a leak of FinalizeNode.  (This form needs no tableau in TLC.)
InFlightFromReadyPeerResolved ==
    \A p \in Peers, h \in Blocks :
        []<>~(/\ h \in DOMAIN mapBlocksInFlight /\ mapBlocksInFlight[h] = p
              /\ node[p].handshake = "verack" \/ status[p] = "gone")

\* The same for every requested block, whatever the handshake state of the
\* peer it was requested from (the stall and block timeouts of the spec,
\* section 4.4, which allows traffic after VERSION without VERACK).
InFlightResolved ==
    \A p \in Peers, h \in Blocks :
        (h \in DOMAIN mapBlocksInFlight /\ mapBlocksInFlight[h] = p)
        ~> ~(h \in DOMAIN mapBlocksInFlight /\ mapBlocksInFlight[h] = p)

(***************************************************************************)
(* Refinement: the scheduler implements the abstract BlockFetch, with the *)
(* in-flight index as the owner of each requested block, the blocks with  *)
(* data as the stored ones and the connected peers as the live ones.      *)
(***************************************************************************)
BF == INSTANCE BlockFetch WITH
          live <- {p \in Peers : status[p] = "connected"},
          owner <- mapBlocksInFlight,
          stored <- haveData

\* Every step of INV, HEADERS, BLOCK, SendMessages and FinalizeNode is a
\* step of BlockFetch: blocks are requested only from a connected peer and
\* only while neither stored nor in flight, a BLOCK ends the request
\* whoever asked for it, and FinalizeNode ends exactly the leaver's ones.
ImplementsBlockFetch == BF!Spec

=============================================================================
