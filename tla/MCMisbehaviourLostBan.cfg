\* Default -banscore: an unlocked FILTERADD Misbehaving interleaved with a
\* BlockChecked on another worker.
CONSTANTS
    p1 = p1
    p2 = p2
    b1 = b1
    b2 = b2
    Peers <- MCPeers
    Blocks <- MCBlocks
    InvalidBlocks = {b1}
    BlockDoS = 80
    LockedDoS = {20}
    BanScore = 100
    Whitelisted = {}
    AddNode = {}
    LocalPeers = {p2}
    MaxScore = 21
SPECIFICATION Spec
INVARIANT BanNotLost
