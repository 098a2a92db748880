SPECIFICATION GrandpaFairSpec
CONSTANTS
    Accounts = {"alice"}
    MaxHeight = 5
    Kinds = {"plain", "scheduled", "delayed", "crowded", "forced", "oversized"}
    Modes = {"Normal", "Halted"}
    MaxRequests = 2
    HeadersToKeep = 3
    MaxBridgedAuthorities = 2
    MaxBridgedHeaderSize = 10
INVARIANTS
    RingExact
    AuthoritySetFollowsChain
PROPERTIES
    OnlyAdvances
    CatchesUp
