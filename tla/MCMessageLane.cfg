\* The safety of the lane, with a fresh and a stale header on either side, and
\* the closed forms of the loops over its queue.
SPECIFICATION Spec
CONSTANTS
    r1 = r1
    r2 = r2
    Relayers = {r1, r2}
    DispatchResults = {TRUE, FALSE}
    MaxNonce = 3
    MaxUnconfirmedMessages = 2
    MaxUnrewardedRelayerEntries = 2
    MaxMessagesToPruneAtOnce = 2
    MaxPendingMessages = 1
    HeadersToKeep = 2
    Modes = {"Normal"}
    FilterObsolete = FALSE
    MessageWeight <- Weights
    UnspentWeight <- Unspent
    ResultOf <- Results
    MaxWeight = 6
SYMMETRY RelayerSymmetry
INVARIANTS
    TypeOK
    NonceOrder
    DispatchedInOrderOnce
    RewardsMatchDispatches
    StoredMessagesExact
    DeliveryProofsAccepted
    StateUpdatesNeverAhead
    QueueLoopsAreClosedForms
PROPERTIES
    LaneNeverRewinds
    ImplementsReliableChannel
