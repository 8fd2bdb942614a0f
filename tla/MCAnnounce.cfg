\* Announcement to one peer that may or may not send SENDHEADERS.
CONSTANTS
    g = g
    a1 = a1
    b1 = b1
    b2 = b2
    b3 = b3
    p1 = p1
    Blocks <- MCBlocks
    Parent <- MCParent
    Genesis = g
    Peers <- MCPeers
    PeerChain <- MCPeerChain
    StartingHeight <- MCStartingHeight
    Whitelisted = {}
    MAX_BLOCKS_TO_ANNOUNCE = 2
    MAX_HEADERS_RESULTS = 2
    STARTING_HEIGHT_SLACK = 2000
    NoBlock = NoBlock

SPECIFICATION FairSpec
CHECK_DEADLOCK FALSE

INVARIANT TypeOK
INVARIANT PeerHasHeaderSound
INVARIANT AnnouncementsConnect
PROPERTY TipEventuallyAnnounced
