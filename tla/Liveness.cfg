\* One handle with its recovery; the other parts as in MCLiveness.
SPECIFICATION LiveSpec
CONSTANTS
    h1 = h1
    r1 = r1
    NoTx = NoTx
    NoRun = NoRun
    w1 = w1
    s1 = s1
    c1 = c1
    c2 = c2
    c3 = c3
    c4 = c4
    ours = ours
    Nothing = Nothing
    AnyCode = AnyCode
    NoHandle = NoHandle
    Handles = {h1}
    Resolver = TRUE
    MaxTotal = 3
    MaxActive = 2
    DailyLimit = 2
    Reserve = 2
    MaxExposure = 4
    XCharges = {0, 1}
    GrokCharges = {1}
    MaxDay = 1
    MaxFaults = 2
PROPERTIES WorkEnds PromisesAreKept
CHECK_DEADLOCK FALSE
