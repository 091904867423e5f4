SPECIFICATION RuntimeSpec
CONSTANTS
    src = src
    t1 = t1
    t2 = t2
    coredns = coredns
    a = a
    b = b
    system = system
    web = web
    metrics = metrics
    shop = shop
    kubedns = kubedns
    vip = vip
    dnsvip = dnsvip
    site = site
    local = local
    Pods = {src, t1, t2, coredns}
    Namespaces = {a, b, system}
    NamespaceOf <- MCNamespaceOf
    PortNames = {web, metrics}
    ContainerPorts <- MCContainerPorts
    KubeSystem = system
    ServiceNames = {shop, kubedns}
    KubeDNS = kubedns
    VIPs = {vip, dnsvip}
    Hosts = {site, local}
    LinkLocal = {local}
    AddressOrder <- MCAddressOrder
    None = None
    Running = Running
    Worlds <- MCRuntimeWorlds
    Asks <- MCAsks
    URLLists <- MCURLLists
    Flags <- MCFlags
    client = client
    server = server
    Accounts = {client, server}
    AccountOf <- MCAccountOf
    IstioSystem = system
    Alphabet <- MCAlphabet
    MeshPaths <- MCMeshPaths
INVARIANTS
    TypeOK
    NativeVerdictSound
    CiliumVerdictSound
    CalicoVerdictSound
    BlockersExplainPath
    DNSVerdictsAgree
    ReachedIsNotBlamed
    EgressFailureExplained
    MeshBlameTrue
    MeshCauseNamed
PROPERTIES
    CommandsReport
    RuntimeRefines
    SessionEnds
CHECK_DEADLOCK FALSE
