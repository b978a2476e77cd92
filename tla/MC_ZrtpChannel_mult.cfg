CONSTANTS
    Peers <- MCPeers
    None = None
    KeyAgreement = "DH"
    OffersMult <- MCPeers
    CommitRank <- MCCommitRank
    CachedSecret <- MCNoCache
    ZRTPSessAtStart = "sess"
    HelloMax = 1
    NonHelloMax = 2
    MaxLoss = 1
    LossTypes = {"Confirm1", "Confirm2", "Commit"}
    SendFailTypes = {}
    MaxDup = 0
    InOrder = FALSE
    CompareOutcomes = {FALSE}
    FreedSeqValues = {}
SPECIFICATION Spec
INVARIANTS RoleAgreement S0Agreement NoCrash SequenceNumbersFresh 
PROPERTY ImplementsStateGraph
CHECK_DEADLOCK FALSE
