\* One authorization expires, the next one is minted.
SPECIFICATION ExpiringSpec
CONSTANTS
    p1 = p1
    p2 = p2
    q1 = q1
    q2 = q2
    w1 = w1
    w2 = w2
    x1 = x1
    NoWallet = NoWallet
    NoWorker = NoWorker
    NoRow = NoRow
    NoOwner = NoOwner
    Blocks = {p1, p2}
    HeightOf <- SameHeight
    Owners = {q1, q2}
    MaxFence = 3
    Wallets = {p1, p2}
    Auths = {q1, q2}
    Validity = 1
    MaxHeight = 3
    Deployments = {x1}
    Publications = {p1, p2}
    Items = {x1}
    MaxControl = 2
    MaxRaised = 2
    Signatures = {q1, q2}
    Leases = {p1, p2}
    Workers = {w1, w2}
    Kinds = {"v1", "v2"}
    MaxVersion = 4
    MaxTaken = 3
    MaxPreparation = 1
INVARIANT ExpiredStaysDead
CHECK_DEADLOCK FALSE
