CONSTANTS
    o1 = o1
    o2 = o2
    o3 = o3
    u1 = u1
    u2 = u2
    NoEntry = NoEntry
    Orders = {o1, o2, o3}
    UserOf <- TwoUsers
    Admins = {a1}
    MaxLimit = 2
    MaxLimitPerUser = 1
    NewLimits = {1, 3}
    NewPerUser = {2}
SPECIFICATION Spec
INVARIANTS
    RedemptionsAccounted
    SerialUserWithinLimit
    RemainingWithinLimit
PROPERTY
    ImplementsLedger
SYMMETRY OrderSymmetry
