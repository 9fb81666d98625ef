\* Two calls, one handle; durations in units of ten minutes, two or three of them.
SPECIFICATION PackSpec
CONSTANTS
    h1 = h1
    s1 = s1
    s2 = s2
    s3 = s3
    c1 = c1
    c2 = c2
    c3 = c3
    k1 = k1
    k2 = k2
    w1 = w1
    w2 = w2
    ours = ours
    theirs = theirs
    AnyCode = AnyCode
    Nothing = Nothing
    Handles = {h1}
    Wallets = {w1, w2}
    Keys = {ours, theirs}
    ServiceKey = ours
    Sessions = {s3}
    Codes = {c3}
    Calls = {k1, k2}
    Scopes = {AnyCode, c3}
    Window = 1
    MinWindow = 0
    ContractWindow = 1
    RequestLife = 2
    ProofLife = 2
    SessionLife = 9
    Skew = 0
    Operators = {}
    MaxTime = 2
    MaxGeneration = 2
    MaxFaults = 0
SYMMETRY BrowserSymmetry
INVARIANTS OneRedeemable MintMatchesReservation
PROPERTIES AnswerUnderSameProof KeepsMintPromise
CHECK_DEADLOCK FALSE
