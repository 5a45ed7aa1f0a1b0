CONSTANTS
    Handlers = {h1, h2}
    Reviews = {r1, r2}
    good = good
    bad = bad
    Ratings = {good, bad}
    Good = {good}
    Scenarios <- AllScenarios
    NoEntry = NoEntry
    Unborn = Unborn
    Gone = Gone
    Absent = Absent
SPECIFICATION FairSpec
INVARIANTS
    IInv
    CopiesFollowRows
PROPERTIES
    DeletedReviewsFade
CHECK_DEADLOCK FALSE
