\* One deployment, two leases; four signatures, three objects
\* and two collectors, of which those of Scopes act in a behaviour.
SPECIFICATION PackSpec
CONSTANTS
    d1 = d1
    l1 = l1
    l2 = l2
    s1 = s1
    s2 = s2
    s3 = s3
    s4 = s4
    o1 = o1
    o2 = o2
    o3 = o3
    v1 = v1
    v2 = v2
    v3 = v3
    p1 = p1
    p2 = p2
    p3 = p3
    a1 = a1
    g1 = g1
    g2 = g2
    Deployments = {d1}
    Initial = {}
    Leases = {l1, l2}
    MaxVersion = 3
    MaxRevoked = 1
    Signatures = {s1, s2, s3, s4}
    Objects = {o1, o2, o3}
    References = {v1, v2, v3, p1, p2, p3}
    Owners = {a1}
    Collectors = {g1, g2}
    SignatureOf <- SignatureOfReference
    ObjectOf <- ObjectOfReference
    Pins = {p1, p2, p3}
    MaxToken <- TokensOfObject
    MaxPrepared = 2
SYMMETRY PackSymmetry
INVARIANTS PublicationHolds ContentHolds
PROPERTIES NothingGoesBack GraceHonored
CHECK_DEADLOCK FALSE
