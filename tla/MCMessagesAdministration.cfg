\* Two messages, an upgrade between sending and delivery, all weights, and an
\* administered pallet.
SPECIFICATION AdminSpec
CONSTANTS
    alice = alice
    bob = bob
    keyholder = keyholder
    RootSender = RootSender
    CustomPallet = CustomPallet
    Accounts = {alice, bob}
    KeyHolders = {keyholder}
    Payloads <- MCPayloads
    CallWeight <- MCCallWeight
    InvalidCalls = {3}
    DeclaredWeights <- MCDeclaredWeights
    InitBalance = 3
    MaxMessages = 2
    MaxVersion = 2
    BaseWeight = 3
    MessageWeight = 2
    PayFeeOverhead = 1
    Admins = {admin}
    Parameters = {1, 2}
    admin = admin
INVARIANTS
    OriginAuthentic
    ExecutedAsEncoded
    ChargedForDispatchedOnly
    SpentWithinDeclared
    DecisionsHold
