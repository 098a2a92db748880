\* The limits of the inbound lane, reached by messages and by relayers, and progress
\* with an honest relayer, the filter and owners that change the operating modes.
SPECIFICATION FairSpec
CONSTANTS
    r1 = r1
    r2 = r2
    Relayers = {r1, r2}
    DispatchResults = {TRUE}
    MaxNonce = 4
    MaxUnconfirmedMessages = 3
    MaxUnrewardedRelayerEntries = 2
    MaxMessagesToPruneAtOnce = 1
    MaxPendingMessages = 1
    HeadersToKeep = 1
    Modes = {"Normal", "Halted", "RejectingOutboundMessages"}
    FilterObsolete = TRUE
    MessageWeight <- Weights
    UnspentWeight <- Unspent
    ResultOf <- Results
    MaxWeight = 8
INVARIANTS
    InboundLaneBounded
    ReceiveLoopIsClosedForm
PROPERTIES
    EveryMessageConfirmed
