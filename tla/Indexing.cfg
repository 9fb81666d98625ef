\* Two accounts, two identifiers, a tree of five blocks.
SPECIFICATION PackSpec
CONSTANTS
    x1 = x1
    x2 = x2
    s1 = s1
    s2 = s2
    i1 = i1
    i2 = i2
    AM = AM
    PA = PA
    RE = RE
    d = d
    a1 = a1
    a2 = a2
    b1 = b1
    b2 = b2
    NoBlock = NoBlock
    Zero = Zero
    Admin = Admin
    NoAccount = NoAccount
    AuthorizerManager = AM Pauser = PA Revoker = RE
    Account = {x1, x2} Signature = {s1, s2}
    Authorization <- Shared
    Instants = {0, 1}
    FirstAdmin = x1 FirstOperator = x2 FirstAuthorizer = x1
    MaxEpochs = 3 MaxWindow = 1
INVARIANTS ReplayMirrors GalleryHolds
PROPERTIES MintsStay
CHECK_DEADLOCK FALSE
