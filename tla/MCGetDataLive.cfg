CONSTANTS
    b1 = b1
    b2 = b2
    t1 = t1
    t2 = t2
    s1 = s1
    none = none
    NoBlock = none
    PeerMsgs <- MCPeerMsgs
    Servable = {b1}
    HaveData = {b1}
    Historical = {b1}
    Matched = {b1}
    InRelay = {t1}
    InStxPool = {}
    FilterLoaded = FALSE
    Whitelisted = TRUE
    BanScore = 40
    DropTest = FALSE
    SendBufferMax = 1
    MaxReqs = 3

SPECIFICATION FairSpec

PROPERTY RequestEventuallyHandled
