\* Two requests and two calls for one handle; two runs of one assessment.
SPECIFICATION PackSpec
CONSTANTS
    q1 = q1
    q2 = q2
    c1 = c1
    c2 = c2
    h1 = h1
    NoHandle = NoHandle
    NoTx = NoTx
    NoRun = NoRun
    Handles = {h1}
    Runs = {c1, c2}
    MaxTotal = 1
    MaxDaily = 1
    MaxActive = 1
    MaxQueued = 1
    MaxExposure = 2
    Reservation = 2
    Charges = {1}
    MaxWriters = 2
    MaxDay = 1
    Requests = {q1, q2}
    NoRequest = NoRequest
    Calls = {c1, c2}
    MaxAuth = 2
    MaxEpoch = 3
    MaxTime = 3
    Lifetime = 1
SYMMETRY CallSymmetry
INVARIANTS SignedOnce OneUsable OwnedReservations SpentOnce
CHECK_DEADLOCK FALSE
