\* Default -banscore: an invalid block (80) and a locked offence (20) reach
\* it exactly; p2 is a local address (disconnected, never banned).
CONSTANTS
    p1 = p1
    p2 = p2
    b1 = b1
    b2 = b2
    Peers <- MCPeers
    Blocks <- MCBlocks
    InvalidBlocks = {b1}
    BlockDoS = 80
    LockedDoS = {20}
    BanScore = 100
    Whitelisted = {}
    AddNode = {}
    LocalPeers = {p2}
    MaxScore = 21
SPECIFICATION FairSpec
INVARIANT TypeOK
INVARIANT NoPrematureBan
INVARIANT SourceOwnerLive
PROPERTY FlaggedPeerDisconnected
