SPECIFICATION Spec
CONSTANTS
    OtherChains <- MCOtherChains
    Costs <- MCCosts
    MaxMessagesToPruneAtOnce = 10
    BenchmarkProofOverhead = 200
    OutboundLaneDataSize = 100
    GrowStep = 256
    DbWeight = 100
    BaseExtrinsic = 10000
    ExpectedWeights <- MCExpectedWeights
    MaxRelayersInConfirmation = 3
    MaxMessagesInConfirmation = 4
    LaneLimits <- MCLaneLimits
    RelayerIdSize = 20
    ProofOverhead = 1010
    TransactionOverhead = 1024
    MaxOutbox = 2
INVARIANTS
    AcceptedMessagesDeliverable
    LaneConfirmable
    WeightsCoverTime
