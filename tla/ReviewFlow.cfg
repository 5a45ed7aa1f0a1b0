CONSTANTS
    r1 = r1
    r2 = r2
    r3 = r3
    u1 = u1
    u2 = u2
    i1 = i1
    i2 = i2
    q1 = q1
    q2 = q2
    q3 = q3
    k1 = k1
    NoEntry = NoEntry
    Nobody = Nobody
    Reviews = {r1, r2}
    AuthorOf <- TwoAuthors
    Ratings = {"good"}
    Pages = {}
    DefaultPages = {}
    Editors = {e1, e2}
    Requests = {q1}
    Processes = {i1}
    ProcessOf <- OneRequest
    MIN_REVIEWS = 1
SPECIFICATION Spec
INVARIANTS
    IInv
    CachesFollowRows
SYMMETRY EditorSymmetry
CHECK_DEADLOCK FALSE
