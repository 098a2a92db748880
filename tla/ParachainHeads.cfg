SPECIFICATION FairSpec
CONSTANTS
    Accounts = {"alice"}
    MaxHeight = 4
    Kinds = {"plain"}
    Modes = {"Normal", "Halted"}
    MaxRequests = 1
    HeadersToKeep = 2
    MaxBridgedAuthorities = 2
    MaxBridgedHeaderSize = 10
    Paras = {1000, 2000}
    Tracked = {1000}
    LargeHead = 2
    MaxParaHeadSize = 1200
    HeadsToKeep = 2
    ExtraProofSizes = {0, 3000}
    GrowStep = 256
    SubmitTime = 1000
    HeadTime = 100
    WriteTime = 3000
    ProofByteTime = 2
    HeadProofOverhead = 100
INVARIANTS
    ParaRingExact
    BestParaHeadIsNewest
    ChargedForWork
PROPERTY ParaHeadsCatchUp
