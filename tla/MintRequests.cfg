\* Two signatures of one account, two requests at a time; the other parts as in
\* MCMintRequests.
SPECIFICATION PackSpec
CONSTANTS
    x1 = x1
    b1 = b1
    b2 = b2
    s1 = s1
    s2 = s2
    r1 = r1
    r2 = r2
    None = None
    Accounts = {x1}
    Signatures = {s1, s2}
    Sessions = {b1}
    Slots = {r1, r2}
    Claimant <- OneClaimant
    MaxChallenges = 2
    MaxInstances = 1
    MaxAuthorizations = 2
SYMMETRY SlotSymmetry
INVARIANTS OneLiveAuthorization RequestsHold EveryPartHolds
CHECK_DEADLOCK FALSE
