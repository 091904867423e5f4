SPECIFICATION Spec
CONSTANTS
    web = web
    metrics = metrics
    None = None
    PortName = {web, metrics}
    Options <- ContextOptions
    Services <- MCServices
    PodLists <- MCPodLists
INVARIANTS
    SourceSideFromSourceContext
CHECK_DEADLOCK FALSE
