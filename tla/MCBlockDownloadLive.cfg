\* Liveness of the download timeouts.  One peer and two blocks, one in
\* transit at a time: the peer may deliver the first and withhold the
\* second, or withhold either until it times out.  The peer may connect
\* outbound or inbound, as a full node or a client, so the timeouts are
\* checked for peers that are not preferred download peers as well, and
\* the download counters with them.  The clock
\* is long enough for the timestamp shift at MaxTime to be exact
\* (ClockShiftExact).  No symmetry: it is not sound with liveness checking.
CONSTANTS
    p1 = p1
    p2 = p2
    Peers <- MCOnePeer
    PeerKinds <- MCMixedPeerKinds
    ClientFlags = {FALSE, TRUE}
    NumBlocks = 2
    MAX_BLOCKS_IN_TRANSIT_PER_PEER = 1
    BLOCK_DOWNLOAD_WINDOW = 1
    BLOCK_STALLING_TIMEOUT = 1
    BLOCK_DOWNLOAD_TIMEOUT_BASE = 1
    BLOCK_DOWNLOAD_TIMEOUT_PER_PEER = 1
    MaxTime = 3
    NoPeer = NoPeer
    NoBlock = NoBlock

SPECIFICATION FairSpec

INVARIANT CountersConsistent
INVARIANT InFlightWithinLimit
PROPERTY InFlightFromReadyPeerResolved
