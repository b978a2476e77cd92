CONSTANTS
    Peers <- MCPeers
    None = None
    KeyAgreement = "DH"
    OffersMult <- MCPeers
    CommitRank <- MCCommitRank
    CachedSecret <- MCNoCache
    HelloMax = 1
    NonHelloMax = 1
    MaxLoss = 1
    LossTypes = {}
    SendFailTypes = {"Conf2ACK"}
    MaxDup = 0
    InOrder = TRUE
    CompareOutcomes = {FALSE}
    FreedSeqValues = {}
SPECIFICATION Spec
INVARIANTS TypeOK RoleAgreement S0Agreement NoCrash SequenceNumbersFresh
     SecondChannelMultistream
PROPERTIES AllChannelsEventuallySecure ImplementsStateGraph
CHECK_DEADLOCK FALSE
