SPECIFICATION Spec
CONSTANTS
    Lanes = {l1, l2}
    Pallets = {"BridgeMessages", "BridgeOtherMessages"}
    BridgedPallet = "BridgeMessages"
    Paras = {1000, 2000}
    BridgedPara = 1000
    MaxNonce = 2
    MaxBlocks = 3
    MaxMixed = 1
    MaxLost = 1
    HeadersToKeep = 2
    l1 = l1
    l2 = l2
SYMMETRY LaneSymmetry
INVARIANTS
    AcceptedProofsAreTrue
    FaithfulProofsAccepted
    ImportedHeadsAreReal
CHECK_DEADLOCK FALSE
