CONSTANTS
    Peers <- MCPeers
    None = None
    KeyAgreement = "DH"
    OffersMult <- MCPeers
    CommitRank <- MCCommitRank
    CachedSecret <- MCNoCache
    ZRTPSessAtStart = None
    HelloMax = 1
    NonHelloMax = 2
    MaxLoss = 1
    LossTypes = {"Confirm1"}
    SendFailTypes = {}
    MaxDup = 0
    InOrder = TRUE
    CompareOutcomes = {TRUE}
    FreedSeqValues = {}
SPECIFICATION Spec
PROPERTIES BothEventuallySecure
CHECK_DEADLOCK FALSE
