\* The same instance for every requested block, including one requested
\* from a peer that sent VERSION and HEADERS but never VERACK.
CONSTANTS
    p1 = p1
    p2 = p2
    Peers <- MCOnePeer
    PeerKinds <- MCPeerKinds
    ClientFlags = {FALSE}
    NumBlocks = 2
    MAX_BLOCKS_IN_TRANSIT_PER_PEER = 2
    BLOCK_DOWNLOAD_WINDOW = 1
    BLOCK_STALLING_TIMEOUT = 1
    BLOCK_DOWNLOAD_TIMEOUT_BASE = 1
    BLOCK_DOWNLOAD_TIMEOUT_PER_PEER = 1
    MaxTime = 3
    NoPeer = NoPeer
    NoBlock = NoBlock

SPECIFICATION FairSpec

PROPERTY InFlightResolved
