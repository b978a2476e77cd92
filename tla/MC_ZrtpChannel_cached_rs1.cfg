CONSTANTS
    Peers <- MCPeers
    None = None
    KeyAgreement = "DH"
    OffersMult <- MCPeers
    CommitRank <- MCCommitRank
    CachedSecret <- MCSharedRs1
    ZRTPSessAtStart = None
    HelloMax = 1
    NonHelloMax = 2
    MaxLoss = 0
    LossTypes = {}
    SendFailTypes = {}
    MaxDup = 0
    InOrder = TRUE
    CompareOutcomes = {FALSE}
    FreedSeqValues = {}
SPECIFICATION Spec
PROPERTIES BothEventuallySecure
CHECK_DEADLOCK FALSE
