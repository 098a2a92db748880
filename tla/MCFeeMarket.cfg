SPECIFICATION Spec
CONSTANTS
    alice = alice
    bob = bob
    Accounts = {alice, bob}
    Carriers = {bob}
    Collaterals <- MCCollaterals
    Fees <- MCFees
    OtherLocks <- MCOtherLocks
    Overpayments = {0}
    SlashProtects = {1}
    AssignedNumbers = {1, 2}
    DefaultAssignedRelayersNumber = 2
    InitBalance = 10
    MaxMessages = 2
    MaxBlock = 4
    CollateralPerOrder = 5
    MinimumRelayFee = 2
    Slot = 1
    DutyRelayersRewardRatio = 20
    MessageRelayersRewardRatio = 80
    ConfirmRelayersRewardRatio = 20
    AssignedRelayerSlashRatio = 20
    SlashPerBlock = 2
INVARIANTS
    AssignedAreBest
    CollateralCoversOrders
    FundSolvent
    EveryPendingMessageHasOrder
PROPERTY OnlyLateRelayersSlashed
CHECK_DEADLOCK FALSE
