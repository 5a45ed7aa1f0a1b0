CONSTANTS
    home = home
    office = office
    account = account
    Requests = {r1, r2}
    Trackers = {home, office, account}
    Paths <- TwoPaths
    LIMIT = 1
    TTL = 2
    BLOCK = 2
SPECIFICATION Spec
INVARIANTS
    IInv
    AnyWindowWithinTwice
PROPERTIES
    RefusedWaits
SYMMETRY RequestSymmetry
CHECK_DEADLOCK FALSE
