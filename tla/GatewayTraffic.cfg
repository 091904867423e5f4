SPECIFICATION Spec
CONSTANTS
    api = api
    shop = shop
    org = org
    a = a
    b = b
    h = h
    q = q
    GET = GET
    POST = POST
    cart = cart
    add = add
    Labels = {api, shop, org}
    Segments = {a, b}
    Headers = {h}
    Params = {q}
    Methods = {GET, POST}
    Calls = {cart, add}
    None = None
    Running = Running
    Families <- MCFamilies
INVARIANTS
    TypeOK
    PrecedenceIsGatewayAPI
    NoMatchReasonTrue
    GreenMeansServed
    BrokenIsExplained
    WeightedAgrees
    DroppedIsTold
    ProbeBlameHonest
PROPERTIES
    DedupeKeepsCause
    ReportKept
    CommandEnds
CHECK_DEADLOCK FALSE
