# TLA+ models of the peer message-processing core

This directory holds TLA+ models of `src/src/services/chain/messages.cpp`, the
peer-to-peer message core of the node. It also holds the TLC configurations
that check them. `PROJECT.json` lists every component, run, seeded fault
(mutant), hazard and the source lines each definition translates.

## 1. The system

`messages.cpp` runs on the node's message-handler thread. The thread calls
`ProcessMessages(pfrom)` (one received message) and `SendMessages(pto)` (one
periodic tick) for each connected peer in turn. Validation calls back into the
file through `PeerLogicValidation`: `BlockConnected`, `UpdatedBlockTip`,
`NewPoWValidBlock` and `BlockChecked`. The connection manager calls
`InitializeNode` and `FinalizeNode`. Shared state is guarded by `cs_main`.

### Components and their state

| Component | State (globals / per peer) | Operations |
|---|---|---|
| Peer state registry | `mapNodeState` (CNodeState per NodeId), `nPreferredDownload`, `nPeersWithValidatedDownloads`, `nSyncStarted` | `InitializeNode`, `FinalizeNode`, `UpdatePreferredDownload`, `GetNodeStateStats` |
| Version handshake | CNode `nVersion`, `fClient`, `fSuccessfullyConnected`, `fDisconnect` | VERSION, VERACK, the missing-version gate |
| Block download scheduler | `mapBlocksInFlight` (hash → peer, queue position); per peer `vBlocksInFlight`, `nBlocksInFlight`, `nBlocksInFlightValidHeaders`, `nDownloadingSince`, `nStallingSince`, `pindexBestKnownBlock`, `hashLastUnknownBlock`, `pindexLastCommonBlock`, `fSyncStarted` | `MarkBlockAsInFlight`, `MarkBlockAsReceived`, `ProcessBlockAvailability`, `UpdateBlockAvailability`, `FindNextBlocksToDownload`, INV, HEADERS, BLOCK, the SendMessages sync/stall/timeout/getdata steps |
| Orphan transaction pool | `mapOrphanTransactions`, `mapOrphanTransactionsByPrev`, `recentRejects`, `hashRecentRejectsChainTip` | `AddOrphanTx`, `EraseOrphanTx`, `EraseOrphansFor`, `LimitOrphanTxSize`, TX handler, `AlreadyHave`, `BlockConnected` |
| Misbehaviour and banning | `nMisbehavior`, `fShouldBan`, `rejects`, `mapBlockSource` | `Misbehaving`, `SendRejectsAndCheckIfBanned`, `BlockChecked` |
| GETDATA serving | `vRecvGetData`, `hashContinue`, `fPauseSend` | `ProcessGetData`, GETDATA, GETBLOCKS, GETHEADERS |
| Announcements | `vBlockHashesToAnnounce`, `pindexBestHeaderSent`, `fPreferHeaders`, `most_recent_block` | `UpdatedBlockTip`, `NewPoWValidBlock`, SENDHEADERS, SendMessages announcements |
| Transaction relay | `mapRelay`, `vRelayExpiration`, `setInventoryTxToSend`, `mapAskFor`, `pendingStx` | `RelayTransaction`, `RelayServiceTransaction`, STX, MEMPOOL, the inventory trickle and askfor steps |
| Addresses, ping, bloom filters | `vAddrToSend`, `nPingNonceSent`, `pfilter` | ADDR, GETADDR, PING, PONG, FILTERLOAD/ADD/CLEAR |
| `uint256.h` | — | a fixed-width byte array (comparison, hex) |

### How they interact

- The scheduler is shared between peers. A block requested from one peer is
  marked in `mapBlocksInFlight`. Every other request path (INV, the HEADERS
  direct fetch, `FindNextBlocksToDownload` in another peer's tick) skips it.
- One peer's tick can mark another peer as the staller. The staller's
  `SendMessages` then disconnects it once the stall has lasted
  `BLOCK_STALLING_TIMEOUT`.
- The download timeout of each peer depends on the global count
  `nPeersWithValidatedDownloads`.
- `FinalizeNode` removes a peer's share of all the shared state. When the last
  peer goes, it asserts that the in-flight map is empty and the counters are 0.
- The TX handler, `BlockConnected` and `FinalizeNode` all erase from the orphan
  pool. `AlreadyHave` reads the pool and `recentRejects`.

### Hard behaviours

- Interleaved handler runs of several peers on shared maps and counters.
- Counters that must match the maps after any sequence of requests,
  receptions, timeouts and disconnects.
- Stall and timeout marks read by one peer and set by another.
- Bounded queues, each with a limit checked on several paths.
- An orphan work queue that revisits entries.
- Unlocked `Misbehaving` calls.
- `ProcessGetData` stopping on a full send buffer.

`PROJECT.json` "hazards" lists each one at the line where it bites.

## 2. Modules

### BlockDownload.tla (built)

Models the block download scheduler, the part of the peer registry it uses,
and the handshake steps that set the download flags.

- **State.** `status` is the connection lifecycle: idle, connected, gone.
  - `node` holds the CNode flags.
  - `mapNodeState` holds the CNodeState fields listed above.
  - `mapBlocksInFlight` is a partial function from hash to peer.
  - The three global counters are variables of their own.
  - The chain is `bestHeader`, `haveData`, `tip` and `ibd`.
  - `now` is the clock.
- **Chain abstraction.** The chain is one best chain of heights 1..NumBlocks.
  - A hash is its height and chain work equals height.
  - `mapBlockIndex` is the headers `0..bestHeader`.
  - On one chain, `LastCommonAncestor` is the minimum and `nChainTx != 0` means
    "connected".
  - Forks are not modelled. The scheduler's control (the window walk, the
    staller, the limits) does not depend on them.
- **Helpers.** `MarkBlockAsReceived`, `MarkBlockAsInFlight`,
  `ProcessBlockAvailability`, `UpdateBlockAvailability` and
  `FindNextBlocksToDownload` are operators on a record
  `DL = [ns, inflight, nValid]`.
  - A loop of requests is therefore a `FoldLeft` (`MarkAllInFlight`).
  - The window walk is the RECURSIVE `WalkWindow`.
  - The HEADERS walk-back is the RECURSIVE `CollectToFetch`.
- **Actions.** `InitializeNode`, `FinalizeNode`, `VersionRefused`,
  `VersionAccepted`, `Verack`, `InvBlock`, `Headers`, `BlockMsg`,
  `SendMessages`, and the environment steps `Tick` and `LeaveIBD`.
  - Each action is one whole handler, including every helper it calls.
  - The handlers run one at a time on the message-handler thread, and the
    scheduler state is touched only under `cs_main`. That makes each handler
    one atomic step.
  - `Done` is the final state: every node id has connected and gone.
  - `SendMessages` binds the result of the pure `SendMessagesStep` (the sync
    start of `Fetch` and `StartSync`, the stall and timeout tests, the
    getdata test) and of
    `RequestBlocks` (the FindNextBlocksToDownload requests and the staller
    mark) once, then assigns it.
- **Clock.** `Tick` advances `now` up to `MaxTime`. At `MaxTime` it moves
  every set timestamp one tick into the past instead, floored at 1
  (`Older`). The handlers only compare timestamps with each other and with
  `now`, so this is time passing. It is exact when a timestamp at the floor
  is already past every timeout (`ClockShiftExact`). The shift is enabled
  only then: in the safety runs it never happens. It keeps the state space
  finite without a state constraint, which would cut off the behaviours that
  liveness is about.
- **Fairness.** `FairSpec` adds weak fairness of each peer's `SendMessages`,
  of `Tick`, and of `FinalizeNode` for a peer marked `fDisconnect`.
- **Refinement.** `BF == INSTANCE BlockFetch WITH live <- {connected peers},
  owner <- mapBlocksInFlight, stored <- haveData`, and the property
  `ImplementsBlockFetch == BF!Spec`.
- **Nondeterministic inputs.** These come from collaborators that are not in
  this repository:
  - `CanDirectFetch`;
  - "the best header is less than a day old" in the start-sync test;
  - the peer's kind (inbound, whitelisted, one-shot);
  - the peer's `fClient`;
  - whether a VERSION is refused;
  - when IBD ends.
- **ProcessNewBlock.** A block is stored when its parent header is known and
  it was requested (or is forced), or when it has more work than the tip.
  `ActivateBestChain` then connects every block whose ancestors all have data.
- **Left out.** The duplicate-VERSION and missing-version Misbehaving scores
  and GetFetchFlags. Neither changes scheduler state.

`MCBlockDownload.tla` instantiates the module. It has two peers as model
values (and `MCOnePeer`, one of them, for the liveness runs), the peer
kinds sets, and symmetry over the peers.

### OrphanPool.tla (built)

Models the orphan pool, the recent-rejects filter, the whole TX handler and
the `BlockConnected` callback.

- **State.** `orphans` is `mapOrphanTransactions` (hash → source peer).
  - `byPrev` is `mapOrphanTransactionsByPrev`.
  - `recentRejects` is stored with `rejectsTip` (`hashRecentRejectsChainTip`).
  - `nMisbehavior` holds the peers' scores.
  - The collaborators are the mempool, the confirmed transactions and `tipId`,
    a counter of connected blocks.
  - `sends` bounds how often each transaction is received.
  - `lost` is a history variable. It records that an orphan was dropped
    without being resolved (evicted, too large, erased by a disconnect or by a
    block).
- **Transactions.** They are the integers `1..N`, and their numeric order is
  the hash order in which `std::set<uint256>` is iterated. Each configuration
  fixes, as constants:
  - `Parents` (the prev hashes the inputs reference) and `NOut`;
  - which transactions are invalid, and their DoS scores;
  - which transactions are over 5000 bytes.
- **AcceptToMemoryPool.** ATMP is not in this repository and is modelled as
  follows:
  - a duplicate fails with DoS 0;
  - a transaction with an input outside the mempool and the chain fails with
    `fMissingInputs`;
  - an invalid transaction fails with its score;
  - anything else is accepted.
- **Helpers.** `AddOrphanTx`, `EraseOrphanTx`, `EraseOrphansFor` and
  `LimitOrphanTxSize` (`Evictions`: any set of orphans of the size the random
  eviction loop removes) are operators on `[txs, prev]`.
  - The work queue is the RECURSIVE `WorkQueue`. It folds `ReconsiderOrphan`
    over each by-prev set in hash order.
- **Actions.** `TxMsg(p, t)` is the whole TX handler:
  - `AlreadyHave` with its tip reset;
  - ATMP;
  - the accepted branch with the work queue and the erase queue;
  - the missing-inputs branch with the rejected-parents check, `AddOrphanTx`
    and eviction;
  - the rejection branch with recentRejects and the DoS score.

  `FinalizeNode(p)` is the orphan part of `FinalizeNode`.
  `BlockConnected(B)` is a block of valid transactions together with the
  callback.

### Misbehaviour.tla (built)

Models DoS scoring and banning:

- `Misbehaving`;
- `SendRejectsAndCheckIfBanned`, run at the end of every `ProcessMessages` call
  and at the start of `SendMessages`;
- the block-source map `mapBlockSource`, filled by BLOCK and consumed by
  `BlockChecked`;
- the `mapBlockSource` cleanup in `FinalizeNode`.

The module has these parts:

- **State.**
  - The per-peer fields are `nMisbehavior`, `fShouldBan` and `rejects` (the
    blocks whose REJECT is pending).
  - The connection fields are `hs` (the handshake) and `fDisconnect`.
  - `banned` holds the addresses given to `connman.Ban`.
  - `mapBlockSource` maps a hash to the peer that sent it. Its punish flag is
    always true in this code.
  - `blockState` is validation's view of a block.
- **Workers.** Following the spec's scheduling model, the messages of one peer
  are handled one at a time, while other peers and validation run on other
  workers.
  - A handler that holds `cs_main` is one step.
  - The no-bloom, FILTERLOAD and FILTERADD paths call `Misbehaving` without
    `cs_main`. Each such call is three steps:
    - `FilterOffenceLoad`: load `nMisbehavior`;
    - `FilterOffenceStore`: store the loaded value plus 100;
    - `FilterOffenceCheck`: re-read the score for the threshold test, then
      flush.
  - `pc` and `tmp` hold the worker's position and its loaded value.
- **Validation (spec-modelled).** It is not in this repository. A new invalid
  block is either rejected by AcceptBlock or stored.
  - A rejected block's state goes back to the handler, which scores the
    sender.
  - A stored block is connected later by `ConnectBlock`. That happens on
    whichever worker delivers its parent, which fires `BlockChecked`.
  - A block validation already has is not checked again, so its new
    `mapBlockSource` entry stays until the peer goes.
- **History variable.** `offences` is the total score of the `Misbehaving`
  calls made on each peer. The unlocked call counts at its threshold test.
- **Left out.** The REJECT contents, and the rest of SendMessages (that is
  BlockDownload's).

### BlockFetch.tla (built; the abstract download specification)

What the scheduler promises, without queues, counters, windows or clocks.

- **State.** `live` is the set of connected peers. `owner` maps each
  requested block to the peer it is owed by. `stored` is the set of blocks we
  have.
- **Actions.**
  - `Join(p)` and `Leave(p)`: a leaving peer takes its requests with it.
  - `Request(p, H)`: a live peer is asked for blocks that are neither stored
    nor owed.
  - `Deliver(h)`: the block is owed by no one afterwards, whoever sent it, and
    is stored or refused.
- Its definitions come from spec section 4.4 and invariant 1 (they are
  `spec_modelled` in the map). `BlockDownload` is checked to implement it
  in both download runs.

### GetData.tla (built)

Serving one peer's requests: `ProcessMessages`, the GETDATA, PING and
GETBLOCKS handlers, `ProcessGetData` and the send buffer.

- **State.**
  - `vProcessMsg` is the peer's queue of received messages.
  - `vRecvGetData` is the queue of GETDATA items not yet served.
  - `nSendSize` and `fPauseSend` describe the send buffer, counted in
    messages.
  - `hashContinue`, `nMisbehavior` and `fDisconnect` are the CNode and
    CNodeState fields the handlers write.
  - `reqs` numbers every item the peer sends: each inv of a GETDATA, and each
    other message as one item.
  - `sent` is the history of every pushed message, each with the item
    numbers it answers. The properties read it.
- **Helpers.**
  - `ServeBlock` covers the block and filtered-block branch: the
    anti-fingerprinting test (`Servable`), the historical-serving limit that
    disconnects, pruned data, BLOCK or MERKLEBLOCK plus matched TX, and the
    `hashContinue` INV.
  - `ServeTx` covers TX from `mapRelay` and STX from the pool, with misses
    noted for NOTFOUND.
  - `Stop` is the loop condition with its `fPauseSend` test.
  - The RECURSIVE `ServeLoop` walks the queue and stops after a block.
  - `ProcessGetData` erases what was walked and pushes NOTFOUND.
  - `GetDataMsg`, `GetBlocksMsg` and `ProcessMessage` (PING) are the
    handlers.
  - `Receive` covers the envelope errors of `ProcessMessages`: a bad message
    start disconnects, a bad header or checksum drops the message, and a
    parse failure pushes REJECT.
  - `CheckIfBanned` is the ban part of `SendRejectsAndCheckIfBanned`.
- **Actions.**
  - `PeerSend(m)`: the peer sends a message.
  - `ProcessMessages`: one call. It serves the pending queue, returns while
    the queue is non-empty or the buffer is paused, and otherwise handles one
    message. Under `-dropmessagestest` that message may be dropped.
  - `SocketSend`: the socket thread sends one message and clears the pause
    below the maximum.
  - `Closed`: a disconnected peer's socket is closed.
- **Inputs per call.** `OutboundTargetReached` and whether GETBLOCKS hit its
  500-block limit are free choices.

### Announce.tla (built)

Block announcement to peers, and what the node believes each peer has.

- **State.**
  - `mapBlockIndex` holds the headers the node has accepted, out of a fixed
    tree `Parent`. `tip` is `chainActive.Tip()`, and the active chain is the
    tip's ancestors. `ibd` is `IsInitialBlockDownload()`.
  - `nHighestFastAnnounce` is the static of `NewPoWValidBlock`.
  - `mapNodeState[p]` holds the CNodeState fields of announcement:
    `pindexBestKnownBlock`, `hashLastUnknownBlock`, `pindexBestHeaderSent`
    and `fPreferHeaders`.
  - `vBlockHashesToAnnounce[p]` is the CNode queue.
  - Three histories record the peer's side. `known[p]` is the set of
    headers the peer really has: its own chain, plus every HEADERS message
    it accepted (one whose first header's parent it has). `invd[p]` is the
    set of blocks INV'd to it. `unconnected` is the set of peers that were
    sent an announcement that does not connect. The connection is reliable
    and in order, so a message is credited to the peer when it is pushed.
- **Helpers.**
  - `PeerHasHeader`, `ProcessBlockAvailability` and
    `UpdateBlockAvailability` are translated from the code.
  - `GetAncestor`, `ActiveAt`, `InActive` and `LastCommon` stand for
    `CBlockIndex` and `CChain`, which are outside `src/`.
  - `GetHeadersReply` is the GETHEADERS walk.
  - The RECURSIVE `Walk` is SendMessages' loop over the queue.
    `RevertToInv` is the fallback test after the loop.
- **Actions.**
  - `HeaderAccepted(b)`: a header arrives from a source outside the model.
  - `LeaveIBD`: initial block download ends.
  - `NewPoWValidBlock(b)`: the fast header announcement.
  - `UpdatedBlockTip(new)`: the tip moves to a block with more work, and
    the hashes from the fork are queued. At most `MAX_BLOCKS_TO_ANNOUNCE`
    are queued, only outside initial download, and only for peers whose
    starting height is not far ahead.
  - `InvBlock(p, b)` and `HeadersMsg(p, b)`: the peer's announcements.
  - `SendHeadersMsg(p)`: the peer sends SENDHEADERS.
  - `GetHeaders(p, loc, stop)`: the peer's locator is taken from the end of
    a branch it has, or is null.
  - `SendMessages(p)`: the announcement step and the block inventory it
    sends.

### TxRelay.tla (built)

Transaction and service-transaction (STX) relay between two peers.

- **State.**
  - `mempool`, `recentRejects` and `stxPool` (`g_stxmempool`) are what
    `AlreadyHave` reads. `ibd` is `IsInitialBlockDownload()`. `fRelayTxes`
    is the node's own flag, chosen at startup (FALSE under `-blocksonly`).
  - Per peer: `setInventoryTxToSend`, `setInventoryStxToSend`,
    `filterInventoryKnown`, `filterServiceDataKnown`, `setAskFor`, and
    `mapAskFor`. A `mapAskFor` entry is `[inv, wait]`, where `wait` is the
    number of ticks until the entry is due.
  - `mapAlreadyAskedFor` holds each item's last request time relative to
    now. It is clamped at `-RETRY`: an older time, or none, gives the same
    next request time.
  - The peer's side: `inbox` holds its messages in order, `asked` holds our
    unanswered GETDATAs, and `sends` bounds what it sends. `invSent` is a
    history that counts the INVs of each item sent to each peer.
- **Helpers.**
  - `AlreadyHave` and `Relay` (RelayTransaction and
    RelayServiceTransaction: PushInventory to every peer) are translated
    from the code.
  - `AskFor` and `AskForFull` are `CNode::AskFor` of `net.cpp`. That file
    is not in the repository, so they are modelled from the spec's per-item
    cool-down.
  - The RECURSIVE `TxTrickle` and `StxTrickle` are SendMessages' trickle
    loops. Each takes the last hash of the set first (`LastByHash`, by
    `Uint256`'s `<`), skips what the peer knows,
    and stops at `INVENTORY_BROADCAST_MAX`.
- **Actions.**
  - `InvMsg(p)`, `TxMsg(p)` and `StxMsg(p)` are the handlers of the peer's
    next message. The orphan branch of TX is `OrphanPool`'s, so here every
    transaction is either accepted or rejected with DoS 0.
  - `GetDataStx(p, s)` is ProcessGetData's STX branch, serving a service
    transaction we announced.
  - `SendMessages(p)` covers the trickle decision (whitelisted peer, or the
    Poisson timer firing), the clear for a peer that asked for no relay,
    both trickles, and the ask-for drain.
  - The peer's actions are `PeerInv`, `PeerPush` (an item sent unasked:
    the handlers do not check that they asked for it) and `PeerAnswer`.
  - The environment's actions are `LeaveIBD`, `Evict` (the mempool drops a
    transaction) and `Tick`.

### Uint256.tla (built; used by TxRelay)

`base_blob` of `src/services/src/uint256.h`. A blob is a function from
`1..WIDTH` to `Bytes`, `data[0]` first. `NullBlob`, `IsNull`, `Equal`,
`NotEqual` and `Less` are the constructor, `SetNull`, `IsNull` and the
comparison operators. The RECURSIVE `Memcmp` is the `memcmp` they call.
`Get64` is translated as written. `TxRelay` gives every item a blob
(`Hash`), and its trickle takes the greatest under `Less`, as
`std::set<uint256>` orders them. This is the order of the first
differing stored byte, not of the number `GetHex` prints. The module
has no run of its own. Its operators are pure, so a check of them against
a reference order would be a constant formula, and TLC reports a false
constant as an evaluation error, not as a violated invariant.

### Planned modules, in order

1. **A reference check of `FindNextBlocksToDownload`.** The walk is compared
   with a declarative definition ("the first `count` blocks above the last
   common block, within the window, not stored and not in flight") over all
   small inputs.
2. **Liveness of download with two peers and a stall.** This needs a faster
   evaluation of `SendMessages` under fairness than TLC gives this model
   today; see the bounds below.

## 3. Runs

| Run | Config | Checks | Shows |
|---|---|---|---|
| `download_outbound` | `MCBlockDownload.cfg` | TypeOK, InFlightIndexConsistent, CountersConsistent, NoRequestForStoredBlock, StallerHoldsBlocks, NoInFlightTakeover, ImplementsBlockFetch | Two outbound peers; INV, HEADERS and tick requests interleave with receptions, stall and timeout disconnects, and IBD ending. The in-flight index and counters stay exact, and no block is taken over. |
| `download_liveness` | `MCBlockDownloadLive.cfg` | CountersConsistent, InFlightWithinLimit, InFlightFromReadyPeerResolved | One peer, which connects outbound or inbound, as a full node or a client, with one block in transit at a time. The counters stay exact and no path exceeds the per-peer limit. Under `FairSpec`, every block requested from the peer once it is handshake-complete leaves its in-flight list: either the peer delivers it, or the block timeout disconnects the peer and `FinalizeNode` drops the request. |
| `download_preverack` | `MCBlockDownloadPreVerack.cfg` | InFlightResolved | **Violated.** The peer sends VERSION and HEADERS, and the direct fetch asks it for both blocks. It delivers one and never sends VERACK. `SendMessages` skips the peer, so the block timeout never fires and the other block stays in flight from it for ever. |
| `orphan_pool` | `MCOrphanPool.cfg` | TypeOK, OrphanIndexExact, OrphanPoolBounded, OrphanOwnerConnected, OrphanNotAccepted | Five transactions, two peers, each transaction received up to twice, two blocks, and at most two orphans. The index stays exact, the pool bounded, and no orphan outlives its peer or is also accepted. |
| `misbehaviour` | `MCMisbehaviour.cfg` | TypeOK, NoPrematureBan, SourceOwnerLive, FlaggedPeerDisconnected | Two peers, one of them local, and an invalid block that is rejected early or stored and checked on another worker, with locked and unlocked offences. No peer is flagged before its offences reach banscore, no block source outlives its peer, and every flagged peer that has finished the handshake is disconnected. |
| `misbehaviour_lost_ban` | `MCMisbehaviourLostBan.cfg` | BanNotLost | **Violated.** The peer has score 20. A FILTERADD stores 120 without `cs_main`. `BlockChecked` on another worker adds 80 (making 200) and sees that the threshold was already passed before its call. The FILTERADD test then sees 200 − 100 = 100, which is not below 100. Neither call flags the peer. |
| `orphan_requeue` | `MCOrphanPoolRequeue.cfg` | OrphanResolutionConfluent | **Violated.** Every transaction is received once. Tx 1 has two outputs. Orphan 2 (spending 1) is accepted on the first pass of the work queue. The second pass finds it in the mempool and caches it in recentRejects. Tx 4 (spending 2 and the still-missing 3) is then dropped as having rejected parents, and it is never accepted after 3 arrives. |
| `orphan_block_parent` | `MCOrphanPoolBlockParent.cfg` | OrphanParentsNotAllConfirmed | **Violated.** Tx 2 arrives before its parent 1 and becomes an orphan. A block containing 1 is connected. `BlockConnected` erases only the orphans that spend what the block's transactions spend, so 2 stays in the pool with its parent in the chain. |
| `getdata_serving` | `MCGetData.cfg` | TypeOK, ServedInRequestOrder | One peer sends up to four items: GETDATAs of one or two invs, or of three blocks; PING; GETBLOCKS; corrupt and oversize messages. The send buffer holds one message. Every response other than NOTFOUND answers items in request order. |
| `getdata_liveness` | `MCGetDataLive.cfg` | RequestEventuallyHandled | Under `FairSpec`, every item is eventually served, reported missing or refused, unless the peer is disconnected. This holds however blocks and a paused buffer split the queue across calls. |
| `tx_relay` | `MCTxRelay.cfg` | TypeOK, TxInvAtMostOnce, AskForTracked, AskedEventuallyFetched | Two peers: p1 never answers, and p2 serves and is whitelisted. Two transactions (one accepted, one rejected) and one service transaction are announced, pushed and fetched, with eviction, initial download and `-blocksonly`. No peer is sent a transaction's INV twice. A serving peer's `setAskFor` holds no transaction it will not answer. Under `FairSpec`, everything asked of p2 is eventually ours, even when it was first asked of p1. |
| `announce` | `MCAnnounce.cfg` | TypeOK, PeerHasHeaderSound, AnnouncementsConnect, TipEventuallyAnnounced | One peer, which has a block the node lacks. The tree allows an extension, a two-block and a three-block reorganisation. Initial download, SENDHEADERS, GETHEADERS and the peer's announcements race the tip changes. Every header the node believes the peer has, the peer has; every HEADERS announcement connects; and under `FairSpec` every queued tip reaches the peer. |

The properties are these:

- **InFlightIndexConsistent.** `mapBlocksInFlight` and the per-peer queues
  describe the same requests, and only connected peers hold requests.
- **CountersConsistent.** The five counters equal what they count. This
  implies the asserts of the last `FinalizeNode`.
- **InFlightWithinLimit.** No peer has more than
  `MAX_BLOCKS_IN_TRANSIT_PER_PEER` blocks in flight.
- **NoRequestForStoredBlock.** No stored block is in flight.
- **StallerHoldsBlocks.** A peer marked as stalling holds a block.
- **NoInFlightTakeover** (an action property). A step never moves an in-flight
  block to another peer.
- **ImplementsBlockFetch** (refinement). Every step of the scheduler is a
  step of `BlockFetch` under the mapping above. Blocks are requested only
  from connected peers, and never while stored or in flight. A BLOCK ends
  the request whoever sent it. `FinalizeNode` ends exactly the leaver's
  requests.
- **InFlightFromReadyPeerResolved** (liveness). A block in flight from a
  peer that has finished the handshake eventually is not in flight from it.
  It is written as "never in flight for ever from a peer that is past the
  handshake or gone", which TLC checks without a tableau, in half the time.
  A peer leaves the handshake state only by `FinalizeNode`, and "gone" is
  final, so a request never resolved keeps the condition true for ever.
- **InFlightResolved** (violation run). The same for any peer, as the
  spec's stall and block timeouts promise.
- **NoPrematureBan.** An idle peer is flagged, and a peer is banned, only once
  the `Misbehaving` calls on it add up to banscore. The race can lose score,
  but never add score that was not earned.
- **SourceOwnerLive.** Every `mapBlockSource` entry belongs to a connected
  peer.
- **FlaggedPeerDisconnected** (liveness). A flagged peer that has finished
  the handshake, and is not whitelisted or addnode, is eventually
  disconnected.
- **BanNotLost** (violation run). A non-exempt peer whose offences add up to
  banscore is flagged or disconnecting.
- **OrphanIndexExact** (spec invariant 6). The by-prev index is exactly the
  set of the orphans' (prev hash, orphan) pairs.
- **OrphanPoolBounded.** The pool never holds more than `-maxorphantx`
  orphans.
- **OrphanOwnerConnected.** Every orphan's source peer is connected.
- **OrphanNotAccepted.** No orphan is also in the mempool or the chain.
- **OrphanResolutionConfluent** (spec section 8). Assume every transaction
  has been received and no orphan was lost. Then the mempool and the chain
  hold exactly the transactions whose ancestors are all valid. The reference
  is the RECURSIVE `Acceptable`. Both violation runs restrict the
  configuration so that the premise is not vacuous: no blocks, a pool large
  enough to avoid eviction, and no invalid transactions.
- **OrphanParentsNotAllConfirmed** (spec section 4: the chain-connected
  callback evicts orphans whose parents are now spent or included). No orphan
  has every parent in the chain. An orphan left with all of its parents
  confirmed is never reconsidered: its own re-delivery is `AlreadyHave`, and
  no TX acceptance queues its parent.
- **ServedInRequestOrder** (spec section 5: GETDATA responses preserve the
  order the peer requested). For any two pushed responses other than
  NOTFOUND, the earlier one answers earlier items. This holds across
  messages: a PONG or REJECT never overtakes blocks still queued.
- **RequestEventuallyHandled** (liveness). Every item the peer sends is
  eventually out of both queues, unless the peer is disconnected.
- **TypeOK of `TxRelay`** also bounds each `setAskFor` by
  `SETASKFOR_MAX_SZ + 1`, the most `AskFor`'s size test lets through.
- **TxInvAtMostOnce** (spec §8: relay at most once per peer and transaction
  while the filter holds). No transaction is INV'd twice to a peer. The
  cases that would break it: a transaction accepted again after eviction,
  or force-relayed again from a whitelisted peer.
- **AskForTracked.** A transaction in a serving peer's `setAskFor` is still
  scheduled in `mapAskFor`, requested and unanswered, or on its way as a
  TX. An entry left behind blocks every later ask of the item from that
  peer and counts against the limit.
- **AskedEventuallyFetched** (liveness). An item asked of a serving peer
  that holds it is eventually ours. This holds even when the first request
  went to a silent peer and the second waited `RETRY`.
- **PeerHasHeaderSound.** If `PeerHasHeader` says a peer has a header, the
  peer really has it. The belief has three sources: the peer's own
  announcements (parked or not), the GETHEADERS reset of
  `pindexBestHeaderSent`, and the announcements themselves. The
  announcement logic relies on this belief to send only headers that
  connect, and to skip the INV of a tip the peer already has.
- **AnnouncementsConnect** (spec §4.6, step 7: HEADERS for the connecting
  suffix). Every HEADERS announcement, from `NewPoWValidBlock` or
  `SendMessages`, starts at a header whose parent the peer has.
- **TipEventuallyAnnounced** (liveness). A tip queued for a peer eventually
  reaches it, by HEADERS or by INV, unless the tip moves on first.

Each property of a passing run has a seeded fault (the `..._` operators
before the definition they alter). TLC finds each fault violating its
property under the run's own configuration:

- `FinalizeNode` leaving entries behind or decrementing the wrong counter;
- `MarkBlockAsReceived` decrementing `nPeersWithValidatedDownloads` on every
  validated block, or keeping the stall mark;
- the HEADERS walk ignoring stored blocks;
- INV ignoring the in-flight map (also for ImplementsBlockFetch), or using
  `<=` against the limit;
- `FinalizeNode` leaving a peer's requests behind, for
  InFlightFromReadyPeerResolved, or decrementing the wrong counter, for
  CountersConsistent in the liveness run;
- `EraseOrphanTx` keeping an emptied by-prev entry, eviction stopping one
  orphan short, the work queue not erasing an accepted orphan or scoring the
  peer on the wrong sign, and `FinalizeNode` keeping a peer's orphans;
- `Misbehaving` subtracting the score, or its threshold test counting
  `howmuch` twice; `FinalizeNode` keeping `mapBlockSource` entries;
  `SendRejectsAndCheckIfBanned` leaving a flagged local peer connected;
- GETDATA's oversize score subtracted (TypeOK); `ProcessMessages` taking a
  new message while the queue is non-empty (ServedInRequestOrder);;
  `ProcessMessages` not serving the pending queue before the next message
  (RequestEventuallyHandled);
- `UpdateBlockAvailability` taking an unknown block as the best known one
  (TypeOK); GETHEADERS setting `pindexBestHeaderSent` to the tip whatever it
  sent (PeerHasHeaderSound); `NewPoWValidBlock` not checking that the peer
  has the parent (AnnouncementsConnect); headers found for a peer that does
  not prefer them dropped instead of reverting to an INV
  (TipEventuallyAnnounced);
- `AskFor` without its size test (TypeOK); the trickle not inserting what
  it sent into `filterInventoryKnown` (TxInvAtMostOnce); the TX handler not
  erasing the item from `setAskFor` (AskForTracked); the drain erasing the
  entries not yet due as well (AskedEventuallyFetched).

### Bounds and why they are enough

- **`download_outbound`:**
  - 2 peers, 2 blocks, 2 blocks in transit per peer, and a window of 1.
  - `MaxTime = 3`, with timeouts of 1 tick.
  - With a window of 1, one peer holding block 1 blocks block 2 (beyond the
    window end), so the staller mark and the stall disconnect happen.
  - With two blocks in transit per peer, the HEADERS direct fetch requests
    two blocks at once. That reaches the "last validated block" rule of
    `MarkBlockAsReceived`.
  - The clock reaches both the stall timeout and the download timeout.
  - About 264,000 distinct states, about one minute.
- **`download_liveness`, `download_preverack`:**
  - One peer and two blocks. The liveness run has one block in transit at a
    time, so the per-peer limit is reached. The violation run has two in
    transit, so the direct fetch asks for both.
  - In the liveness run the peer connects outbound or inbound, as a full
    node or a client. Those kinds change `fFetch`, `nPreferredDownload` and
    the sync start.
  - A two-peer run with mixed kinds took 9 minutes at `MaxTime = 3`, and
    still more than 3.5 minutes with the clock at 2 or with full peers only.
    With two peers, the liveness property needs `MaxTime = 4` for
    `ClockShiftExact`, and that run did not finish. So the two-peer runs use
    outbound full peers only, and the peer kinds are covered with one peer.
  - `MaxTime = 3` with timeouts of 1 tick, which makes `ClockShiftExact`
    true, so the clock never stops.
  - The peer can hold a block past the timeout, deliver one and withhold the
    other, or leave.
  - About 2,400 and 3,300 distinct states. Without the fairness conditions
    TLC checks them in seconds. Under weak fairness of `SendMessages`, TLC
    tests every transition against it, which takes about a minute. Two peers and one block already
    take more than three minutes, so the stall disconnect (which needs two
    peers and two blocks) and the per-peer timeout increment are checked by
    the safety runs only.

- **`orphan_pool`:**
  - The two siblings 2 and 3 of tx 1 make the by-prev sets have two members.
  - Tx 2 is invalid with DoS 100. When tx 1 arrives, orphan 2 gets its peer
    punished, and the peer's orphan 3 is skipped (`setMisbehaving`).
  - The large tx 5 is never stored.
  - With a bound of two orphans, evictions happen.
  - With two blocks, the rejects filter is reset and `BlockConnected` erases
    orphans.
  - About 236,000 distinct states, about 12 seconds.
- **`orphan_requeue`:** four transactions, where tx 4
  spends 2 and 3, and 2 spends 1. That is the smallest shape in which a
  wrongly rejected orphan hides a later child. The counterexamples have 5
  states.
- **`orphan_block_parent`:** the same four transactions, each with one output,
  and one block. The counterexample has 3 states.

- **`misbehaviour` and its violation run:**
  - Two peers and two blocks, one of them invalid with DoS 80.
  - Locked offences score 20, and the unlocked filter offences score 100.
  - A peer's own offending messages stop once its offences reach 21 (so one
    locked and one filter offence).
  - With these scores, 20 + 80 reaches the default banscore exactly, so the
    threshold test is exercised at its boundary.
  - p2 is a local address: it is disconnected but never banned.
  - About 110,000 distinct states, about 11 seconds, with the liveness check.

Larger chains (three blocks, window two) multiply the state space beyond a few
minutes without new control paths. The walk's control (stored, in flight,
window end, count reached) is already reached with two blocks.

- **`getdata_serving`:**
  - at most four items, with a send buffer of one message. Two pushes pause
    it, so a pause can fall between items of one GETDATA.
  - The three-block GETDATA is the smallest request that leaves two blocks
    queued after a pass. Only with two blocks queued does the guard at
    line 2316 matter, rather than the serving call before it.
  - b1 is servable, stored, historical and matched by the filter; b2 is not
    servable. A tx and an stx are missing, and another tx is found.
  - The ban score is 40, so two oversize GETDATAs (20 each) ban the peer.
  - About 1.1 million distinct states, about 40 seconds.
- **`getdata_liveness`:** three items, no filter, a whitelisted peer, and no
  dropped messages. About 17,000 states, about 20 seconds.
- **`announce`:**
  - The tree is genesis g with the branches a1 and b1-b2-b3, and
    `MAX_BLOCKS_TO_ANNOUNCE = 2`.
  - From a1, the tip can move to b2 (two hashes from the fork, so the walk
    appends a second header), or to b3 (three hashes, so UpdatedBlockTip
    cuts the list at two, and the first queued hash's parent is unknown to
    the peer). Two tip changes between SendMessages calls queue more than
    two hashes, or a hash that left the chain.
  - The peer starts with b1, which the node lacks, so its INV of b1 is
    parked in `hashLastUnknownBlock` until the header arrives.
  - `MAX_HEADERS_RESULTS = 2` cuts a GETHEADERS reply below the tip.
  - The peer is not whitelisted and reports no starting height.
  - About 56,000 distinct states, about 80 seconds with the liveness check.
    A second peer (whitelisted, with a far-ahead starting height) gives more
    than 1.5 million states and is not run.

- **`tx_relay`:**
  - 2 peers, transactions 1 and 2, and service transaction 3.
  - p1 holds 1 and 2, asked for relay, and never answers. p2 holds 1 and
    3, serves, and is whitelisted, with `-whitelistrelay` and
    `-whitelistforcerelay` on.
  - Each peer sends at most 2 INVs or unasked items.
  - `INVENTORY_BROADCAST_MAX = 1`, so a trickle leaves items for the next
    call. `SETASKFOR_MAX_SZ = 0`, so a second ask of a peer is refused
    while the first is pending. `RETRY = 1`.
  - Both peers announce 1: the second ask waits for the first, and the
    silent p1 may be asked first. Tx 1 is relayed to p1 unless p1 announced
    it, can be evicted and fetched again from p2, and is force-relayed when
    p2 sends it again. Service transaction 3 reaches p1 by INV, and p1
    fetches it, which exercises `filterServiceDataKnown`.
  - Both values of `ibd` and of `fRelayTxes` are initial states.
  - Hashes are blobs of 2 bytes, chosen so that the memcmp order (2, 3, 1)
    differs from the numeric order of the displayed hex (1, 2, 3).
  - About 105,000 distinct states, about 85 seconds with the liveness
    check. Giving p2 all three items takes nearly three minutes.

### Fairness

`Misbehaviour` has `FairSpec`, which adds weak fairness of each peer's
`SendMessages` and of the last two steps of an unlocked `Misbehaving`. The
message-handler loop calls `SendMessages` for every peer on every pass, and
a worker inside a handler finishes it. No fairness is assumed for peers'
messages, validation or disconnects: a peer may go silent.

`BlockDownload` has `FairSpec`, used by the two download liveness runs.
It assumes weak fairness of each peer's `SendMessages`, because the
message-handler loop calls it for every peer on every pass. It assumes weak
fairness of `Tick`, because time advances. It also assumes weak fairness of
`FinalizeNode` for a peer marked `fDisconnect`, because the connection
manager closes such sockets. It does not assume fairness of message
arrival: a peer may never send a block, and that is what the timeouts
handle.

`GetData` has `FairSpec`, which assumes weak fairness of `ProcessMessages`
and of `SocketSend`. The message-handler thread calls `ProcessMessages` for
every peer not marked `fDisconnect` on every pass. The socket thread sends
whenever the buffer is non-empty and the socket is writable. A peer that
stops reading is ended by the transport's timeout, which is not this code.

`Announce` has `FairSpec`, which assumes weak fairness of each peer's
`SendMessages`, because the message-handler loop calls it for every peer on
every pass. The run does not check deadlock: a node whose peer is silent
and that gets no new block really stops.

`TxRelay` has `FairSpec`, which assumes weak fairness of each peer's
`ProcessMessage` and `SendMessages`, because the handler loop calls both for
every peer on every pass. It assumes weak fairness of `Tick`, because time
advances, and of `PeerAnswer` for the serving peer, which answers what it
holds. No fairness is assumed for announcements, IBD ending or eviction.
Deadlock is checked; `SendMessages` is always enabled, as in the code.

## 4. Findings

- **Orphan requeue** (code bug, `messages.cpp:1672`). The work queue holds one
  outpoint per output, but `mapOrphanTransactionsByPrev` is keyed by the
  parent's hash. So every orphan of a parent is reconsidered once per output
  of the parent, and an orphan already accepted is then cached in
  `recentRejects`. Its children with another missing parent are dropped until
  the tip changes.
  A second copy of a transaction already in the mempool reaches the same
  rejection branch (line 1666) with the same effect. The spec says such a
  copy stops the handler. The hazard list records this case under the same
  property.
- **Orphan of a confirmed parent** (spec/code divergence, `messages.cpp:716`).
  The spec says the chain-connected callback evicts orphans whose parents are
  spent or included. `BlockConnected` looks orphans up only by the prev
  hashes the block's transactions spend. So an orphan whose parent is in the
  block stays, with every input confirmed, until it is evicted or its peer
  disconnects.

- **Lost ban** (code bug, `messages.cpp:2235`). `Misbehaving` requires
  `cs_main` (line 238), but the FILTERADD, FILTERLOAD and no-bloom paths call
  it without the lock. Each threshold test re-reads the shared score. A
  concurrent `BlockChecked` can make both tests see the threshold as already
  crossed, so a peer with twice banscore is never banned. This happens at
  the default banscore.
- **The pre-VERACK return also delays bans** (`messages.cpp:2451`).
  `FlaggedPeerDisconnected` is stated only for peers that have finished the
  handshake. The reason is the same return: a pre-VERACK peer flagged from
  another worker is not flushed while it stays silent. No run checks this;
  the hazard list records it next to the download case below.

- **Requested blocks stuck on a pre-VERACK peer** (spec/code divergence,
  `messages.cpp:2451`). The HEADERS direct fetch (line 1996) requests blocks
  from a peer that has only sent VERSION. The stall and block timeouts run
  in `SendMessages`, which skips such a peer. So if it never answers, the
  blocks stay in `mapBlocksInFlight`, and no other peer is asked for them
  until the transport's inactivity timeout ends the connection.

The following are recorded from the models but are not kept as violation
runs (the hazard list carries them with a note):

- **NOTFOUND after later responses** (spec/code divergence,
  `messages.cpp:1092`). The spec says GETDATA responses preserve the
  requested order. `ProcessGetData` collects the misses of a pass and
  pushes one NOTFOUND after the loop. So a missing transaction followed by a
  found one is answered TX, then NOTFOUND. A missing transaction followed by
  a block is answered the same way. `ServedInRequestOrder` leaves NOTFOUND
  out for this reason; with NOTFOUND included, TLC finds the order TX then
  NOTFOUND.
- **Service transactions are announced again** (spec/code divergence,
  `messages.cpp:2818`). Spec §4.2 says relay is deduplicated by each peer's
  known-inventory filter. The STX handler relays every copy it receives, and
  the STX trickle marks nothing as sent. So a service transaction received
  twice is INV'd twice to a peer that has neither announced nor fetched it.
  In `MCTxRelay`, TLC finds this for the STX analogue of `TxInvAtMostOnce`.
- **Fetched service transactions stay in `setAskFor`** (code bug,
  `messages.cpp:1858`). The TX handler erases the item from the sender's
  `setAskFor`; the STX handler does not. Every fetched STX stays there for
  the connection's life, so past `SETASKFOR_MAX_SZ` the peer is asked for
  nothing more. In `MCTxRelay`, `AskForTracked` stated over service
  transactions fails at once.
- **`Get64` reads two bytes** (`uint256.h:80`). It combines `data[2n]` and
  `data[2n+1]` as if they were 32-bit words. So it returns two bytes, not
  the 64-bit word n, and for n from 16 on it reads past the array. No code
  in the repository calls it.
- **No NOTFOUND handler.** An item asked of a peer that lacks it stays in
  that peer's `setAskFor` for the same reason. The properties about
  `setAskFor` are stated for serving peers.

## 5. Not modelled, and why

- **Parts of `uint256.h`.** `GetHex`, `SetHex` and hence `uint256S` are
  defined in `uint256.cpp`, and `GetCheapHash`'s `ReadLE64` in `common.h`.
  Neither file is in this repository. `Serialize` and `Unserialize` are
  stream I/O. The other modules name blocks by height and transactions by
  integers, since their properties do not depend on hash order.
- **The interrupt return of `ProcessGetData`.** It skips the erase, but
  nothing of the node runs after it.
- **Address relay, PONG handling, bloom filter contents, and the GETBLOCKS
  walk.** These are per-peer bookkeeping and message formatting with no
  shared state. PING is modelled in `GetData` (its PONG answer is a
  response the order property covers), and the filter paths' unlocked
  Misbehaving call is modelled in `Misbehaviour`.
- **The announcement cache and connection fields.** `NewPoWValidBlock`
  fills `most_recent_block`, which is read only when serving compact blocks,
  and this code does not serve them. `UpdatedBlockTip` sets the connection
  manager's best height and `nTimeBestReceived`, which are read outside this
  code. The `Announce` peer stays connected, so the `fDisconnect` skip of
  `NewPoWValidBlock` does not arise.
- **A GETHEADERS with a null locator for a header the peer cannot connect.**
  `pindexBestHeaderSent` is still set to that header, so `PeerHasHeader`
  claims all of its ancestors. This affects only that peer's own
  announcements. The model sends a null locator only for a header whose
  parent the peer has (see the hazard at line 1587).
- **Parts of transaction relay.** `ProcessServiceCommand` and `pendingStx`
  are written and never read by this code. The STX handler's error return
  for a null payment reference comes before any state change, so the
  model's service transactions all carry a reference. `fImporting` and
  `fReindex` are taken as FALSE. `mapRelay` is never inserted into, and the
  expiry loop in the trickle erases from it only. The MEMPOOL message is
  not modelled. The peers of `TxRelay` stay connected, so the stall and
  timeout returns before the drain do not arise.
- **Validation, mempool and the connection manager.** These are not in this
  repository's `src/`. They appear only as the nondeterministic collaborators
  named above.
