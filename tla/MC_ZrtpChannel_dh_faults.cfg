CONSTANTS
    Peers <- MCPeers
    None = None
    KeyAgreement = "DH"
    OffersMult <- MCPeers
    CommitRank <- MCCommitRank
    CachedSecret <- MCNoCache
    ZRTPSessAtStart = None
    HelloMax = 1
    NonHelloMax = 1
    MaxLoss = 1
    LossTypes <- MCAllTypes
    SendFailTypes = {}
    MaxDup = 1
    InOrder = TRUE
    CompareOutcomes = {FALSE, TRUE}
    FreedSeqValues = {0}
SPECIFICATION Spec
INVARIANTS RoleAgreement S0Agreement NoCrash SequenceNumbersFresh 
PROPERTY ImplementsStateGraph
CHECK_DEADLOCK FALSE
