\* The documented base cost of a delivery.
SPECIFICATION Spec
CONSTANTS
    alice = alice
    bob = bob
    keyholder = keyholder
    RootSender = RootSender
    CustomPallet = CustomPallet
    Accounts = {alice, bob}
    KeyHolders = {keyholder}
    Payloads <- MCPayloads
    CallWeight <- MCCallWeight
    InvalidCalls = {3}
    DeclaredWeights <- MCDeclaredWeights
    InitBalance = 3
    MaxMessages = 2
    MaxVersion = 2
    BaseWeight = 3
    MessageWeight = 2
    PayFeeOverhead = 1
INVARIANT
    BaseCostPaid
