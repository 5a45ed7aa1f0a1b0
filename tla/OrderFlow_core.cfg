CONSTANTS
    o1 = o1
    o2 = o2
    p1 = p1
    p2 = p2
    Orders = {o1, o2}
    Products = {p1}
    Workers = {w1, w2}
    Cart <- OneProduct
    Provider <- StripeAndBkash
    InitialStock <- StockOne
    Dated = {}
    PaymentWorker = FALSE
    BatchSize = 1
    RestockLevels = {0}
SPECIFICATION Spec
INVARIANTS
    IInv
    StockConserved
    PaymentCancelMeansNoCharge
PROPERTIES
    ImplementsLifecycle
SYMMETRY WorkerSymmetry
CHECK_DEADLOCK FALSE
