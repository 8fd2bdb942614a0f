CONSTANTS
    p1 = p1
    p2 = p2
    Peers <- MCPeers
    Txs <- MCTxs5
    Parents <- MCParents5
    NOut <- MCNOut5
    InvalidTxs = {2}
    DoS <- MCDoS5
    LargeTxs = {5}
    MaxOrphanTx = 2
    MaxSends = 2
    MaxBlocks = 2

SPECIFICATION Spec
SYMMETRY Symmetry

INVARIANT TypeOK
INVARIANT OrphanIndexExact
INVARIANT OrphanPoolBounded
INVARIANT OrphanOwnerConnected
INVARIANT OrphanNotAccepted
