\* Two run directories of one wallet; the other parts as in MCPulseOperation.
SPECIFICATION PackSpec
CONSTANTS
    p1 = p1
    p2 = p2
    p3 = p3
    a = a
    b = b
    None = None
    Procs = {p1, p2}
    Journals = {"rc1", "rc2"}
    Lists = {a}
    FirstList = a
    MaxNonce = 4
    MaxCost = 1
    Budget = 3
    MaxReorgs = 1
    Uses = {"crash", "lost", "drop"}
SYMMETRY ProcSymmetry
INVARIANTS OperationHolds RelayHolds
PROPERTIES OperationMoves
CHECK_DEADLOCK FALSE
