CONSTANTS
    o1 = o1
    o2 = o2
    p1 = p1
    p2 = p2
    Orders = {o1}
    Products = {p1}
    Workers = {w1, w2}
    Cart <- OneOrder
    Provider <- Stripe
    InitialStock <- StockTwo
    Dated = {o1}
    PaymentWorker = TRUE
    BatchSize = 1
    RestockLevels = {}
SPECIFICATION FairSpec
PROPERTIES
    StripeChargeIsBooked
    LapsedSessionEndsOrder
    OverdueIsSettled
CHECK_DEADLOCK FALSE
