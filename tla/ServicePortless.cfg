SPECIFICATION Spec
CONSTANTS
    web = web
    metrics = metrics
    None = None
    PortName = {web, metrics}
    Options <- MCOptions
    Services <- Portless
    PodLists <- MCPodLists
INVARIANTS
    EveryRunReports
CHECK_DEADLOCK FALSE
