CONSTANTS
    Products = {p1}
    Categories = {c1}
    Files <- FourFiles
    Scenarios <- OneKind
    Details = {d1}
    Admins = {a1, a2}
    MAX_IMAGES = 1
    MAX_RETRIES = 2
    NoEntry = NoEntry
    Unborn = Unborn
    Gone = Gone
    Absent = Absent
SPECIFICATION Spec
INVARIANTS
    IInv
    NamedFilesAreStored
    ImagesWithinLimit
    CatalogCachesFollowRows
SYMMETRY CatalogSymmetry
CHECK_DEADLOCK FALSE
