\* Two peers, two transactions and a service transaction; a trickle sends
\* one item per call, and a peer's ask-for set is full at one item.  Hashes
\* are two-byte blobs.
CONSTANTS
    p1 = p1
    p2 = p2
    Peers <- MCPeers
    Txs = {1, 2}
    Stxs = {3}
    WIDTH = 2
    Bytes = {0, 1, 2}
    Hash <- MCHash
    PeerHas <- MCPeerHas
    Serving = {p2}
    Whitelisted = {p2}
    PeerRelay = {p1}
    WhitelistRelay = TRUE
    WhitelistForceRelay = TRUE
    AcceptedTxs = {1}
    PaidStxs = {3}
    ValidStxs = {3}
    INVENTORY_BROADCAST_MAX = 1
    SETASKFOR_MAX_SZ = 0
    RETRY = 1
    MaxSends = 2

SPECIFICATION FairSpec
INVARIANT TypeOK
INVARIANT TxInvAtMostOnce
INVARIANT AskForTracked
PROPERTY AskedEventuallyFetched
