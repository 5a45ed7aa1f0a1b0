CONSTANTS
    Handlers = {h1, h2}
    Products = {p1, p2}
    Quantities = {1, 2}
    MaxItems = 2
    Addresses = {a1, a2, a3}
    Texts = {t1, t2}
    Scenarios <- AllScenarios
    MAX_SHIPPING_ADDRESSES = 1
    NoEntry = NoEntry
    Absent = Absent
    Unborn = Unborn
    Gone = Gone
    CartKey = CartKey
    ListKey = ListKey
SPECIFICATION Spec
INVARIANTS
    IInv
    CachedCartIsRight
    CachedAddressesAreRight
    OrderTakesTheCart
    AddressesWithinLimit
SYMMETRY SetSymmetry
CHECK_DEADLOCK FALSE
