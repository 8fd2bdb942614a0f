CONSTANTS
    p1 = p1
    p2 = p2
    Peers <- MCPeers
    Txs <- MCTxs
    Parents <- MCParentsChild
    NOut <- MCNOutOne
    InvalidTxs = {}
    DoS <- MCDoS
    LargeTxs = {}
    MaxOrphanTx = 4
    MaxSends = 1
    MaxBlocks = 1

SPECIFICATION Spec
SYMMETRY Symmetry

INVARIANT OrphanParentsNotAllConfirmed
