SPECIFICATION FairSpec
CONSTANTS
    low = low
    high = high
    default = default
    Policy = {1, 2, 3}
    Tier <- MCTiers
    DefaultTier = default
    NumDest = 2
    Shapes <- MCShapes
    Layouts <- MCLayouts
    NoOrder = NoOrder
    Endpoints <- MCEndpoints
INVARIANTS
    TypeOK
    OnlyPassSkips
    PathAgreesWithCalico
    DNSAgreesWithCalico
PROPERTIES
    EveryDecisionEnds
CHECK_DEADLOCK FALSE
