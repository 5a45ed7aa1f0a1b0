CONSTANTS
    o1 = o1
    o2 = o2
    p1 = p1
    p2 = p2
    Orders = {o1, o2}
    Products = {p1}
    Workers = {w1, w2}
    Cart <- OneProduct
    Provider <- StripeAndBkash
    InitialStock <- StockOne
    Dated = {o1, o2}
    PaymentWorker = TRUE
    BatchSize = 1
    RestockLevels = {}
SPECIFICATION Spec
INVARIANTS
    FulfilledMeansCaptured
PROPERTIES
    PaidIsFinal
    ImplementsSettlement
SYMMETRY WorkerSymmetry
CHECK_DEADLOCK FALSE
