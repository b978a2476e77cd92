CONSTANTS
    Peers <- MCPeers
    None = None
    KeyAgreement = "DH"
    OffersMult <- MCPeers
    CommitRank <- MCCommitRank
    CachedSecret <- MCNoCache
    ZRTPSessAtStart = None
    HelloMax = 1
    NonHelloMax = 2
    MaxLoss = 1
    LossTypes = {"DHPart1"}
    SendFailTypes = {}
    MaxDup = 0
    InOrder = TRUE
    CompareOutcomes = {FALSE}
    FreedSeqValues = {}
SPECIFICATION Spec
PROPERTIES BothEventuallySecure
CHECK_DEADLOCK FALSE
