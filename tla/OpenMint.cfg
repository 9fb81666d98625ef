\* The contract with two handles, wallets, nonces and keys; the other parts as in
\* MCOpenMint.
SPECIFICATION PackSpec
CONSTANTS
    h1 = h1
    h2 = h2
    w1 = w1
    w2 = w2
    n1 = n1
    n2 = n2
    k1 = k1
    k2 = k2
    o1 = o1
    o2 = o2
    t1 = t1
    t2 = t2
    t3 = t3
    NoOwner = NoOwner
    r1 = r1
    x1 = x1
    x2 = x2
    x3 = x3
    c1 = c1
    Nothing = Nothing
    Handles = {h1, h2}
    Wallets = {w1, w2}
    Nonces = {n1, n2}
    Keys = {k1, k2}
    FirstKey = k1
    MaxWindow = 2
    Owners = {o1, o2}
    Transactions = {x1, x2, x3}
    OwnerOf <- TwoOwners
    Requests = {r1}
    Tabs = {t1, t2}
    PageOf <- OnePage
    MaxAttempts = 2
    MaxNonce = 2
    MaxLies = 1
    MaxReloads = 2
    Tokens = {k1, k2}
    Executions = {x1, x2, x3}
    TokenOf <- TwoTokens
    Paid = TRUE
    Ttl = 1
    GateTime = 2
    MaxEpoch = 2
    MaxTime = 4
SYMMETRY TabSymmetry
INVARIANTS NoncesMatchTokens EffectsHold
PROPERTIES ProvenanceIsFinal ProjectionHolds NothingBehindAFence
CHECK_DEADLOCK FALSE
