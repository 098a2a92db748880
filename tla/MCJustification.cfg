\* Every justification of at most three precommits.
SPECIFICATION Spec
CONSTANTS
    a = a
    b = b
    c = c
    stranger = stranger
    AuthorityWeight <- MCAuthorityWeight
    Strangers = {stranger}
    Parent <- MCParent
    FinalizedTarget = 2
    MaxPrecommits = 3
SYMMETRY LightAuthorities
INVARIANTS
    AcceptedMeansFinalized
    VerdictIsExact
    WorkWithinBenchmark
CHECK_DEADLOCK FALSE
