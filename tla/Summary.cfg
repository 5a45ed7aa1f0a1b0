CONSTANTS
    r1 = r1
    r2 = r2
    r3 = r3
    u1 = u1
    u2 = u2
    i1 = i1
    i2 = i2
    q1 = q1
    q2 = q2
    q3 = q3
    k1 = k1
    NoEntry = NoEntry
    Nobody = Nobody
    Reviews = {r1}
    AuthorOf <- OneReview
    Ratings = {"good"}
    Pages = {k1}
    DefaultPages = {k1}
    Editors = {e1}
    Requests = {q1, q2}
    Processes = {i1}
    ProcessOf <- OneProcess
    MIN_REVIEWS = 1
SPECIFICATION FairSpec
INVARIANTS
    CachedKindFitsCount
PROPERTIES
    EveryRequestAnswered
    ImplementsSharedGeneration
CHECK_DEADLOCK FALSE
