\* Two handles of one wallet; the other parts as in MCPulseMint.
SPECIFICATION PackSpec
CONSTANTS
    None = None
    h1 = h1
    h2 = h2
    h3 = h3
    w1 = w1
    w2 = w2
    c1 = c1
    c2 = c2
    c3 = c3
    c4 = c4
    c5 = c5
    Handles = {h1, h2}
    Wallets = {w1}
    MaxAttempts = 2
    MaxBlock = 3
    Window = 2
    FreeDeadline = 3
    MaxRequests = 2
    Faults = {"disk", "crash"}
SYMMETRY HandleSymmetry
INVARIANTS AttemptsHold PagesHold
PROPERTIES ReadsMove
CHECK_DEADLOCK FALSE
