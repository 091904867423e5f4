SPECIFICATION Spec
CONSTANTS
    r1 = r1
    r2 = r2
    k1 = k1
    NoPod = NoPod
    Run = {r1, r2}
    Key = {k1}
    Kind <- MCKindGateway
    SourceKey <- MCOneKey
    TargetKey <- MCOneKey
    MaxUserPods = 1
    MaxMatches = 2
INVARIANTS
    TypeOK
    TargetNotStale
PROPERTIES
    ForeignPodSeenIsKept
CHECK_DEADLOCK FALSE
