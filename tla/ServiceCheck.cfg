SPECIFICATION Spec
CONSTANTS
    web = web
    metrics = metrics
    None = None
    PortName = {web, metrics}
    Options <- MCOptions
    Services <- MCServices
    PodLists <- MCPodLists
INVARIANTS
    TypeOK
    RootCauseFirst
    DirectBlameIsAboutTargetPort
    GreenMeansReached
    PrimaryIssueNeverGreen
CHECK_DEADLOCK FALSE
