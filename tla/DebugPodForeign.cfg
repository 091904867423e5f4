SPECIFICATION FairSpec
CONSTANTS
    r1 = r1
    r2 = r2
    k1 = k1
    NoPod = NoPod
    Run = {r1, r2}
    Key = {k1}
    Kind <- MCKindService
    SourceKey <- MCOneKey
    TargetKey <- MCOneKey
    MaxUserPods = 1
    MaxMatches = 1
PROPERTIES
    UnownedPodSurvives
CHECK_DEADLOCK FALSE
