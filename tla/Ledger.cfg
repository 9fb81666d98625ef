\* A ledger with recoveries, and one at its limits: two handles, at most one
\* crash or failed write, two in the second.
SPECIFICATION PackSpec
CONSTANTS
    h1 = h1
    h2 = h2
    NoHandle = NoHandle
    Handles = {h1, h2}
    Resolver = TRUE
    MaxTotal = 3
    MaxActive = 2
    DailyLimit = 3
    Reserve = 2
    MaxExposure = 4
    XCharges = {1}
    GrokCharges = {1}
    MaxDay = 1
    MaxFaults = 1
SYMMETRY HandleSymmetry
INVARIANTS OneCallPerLeg RecordsReadBack LimitsHold
PROPERTIES TerminalOutcomeFinal KeepsPromise
CHECK_DEADLOCK FALSE
