CONSTANTS
    Handlers = {h1, h2}
    p1 = p1
    p2 = p2
    n1 = n1
    n2 = n2
    Passwords = {p1, p2}
    Profiles = {n1, n2}
    Scenarios <- AllScenarios
    MaxCodes = 2
    MaxTokens = 2
    NoEntry = NoEntry
    Unborn = Unborn
SPECIFICATION Spec
INVARIANTS
    IInv
    CachedUserFollowsRow
    NewestMailVerifies
    CooldownExcludes
    SpentIsRefused
    ChangeEndsSessions
SYMMETRY HandlerSymmetry
CHECK_DEADLOCK FALSE
