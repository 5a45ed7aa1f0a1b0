----------------------------- MODULE OrderStore -----------------------------
(***************************************************************************)
(* The state shared by the orders and the payment services: the rows of    *)
(* the products, orders and payments tables, the delayed jobs in Redis,    *)
(* the payment gateways' own record of each checkout session, and the      *)
(* request handlers in flight.                                             *)
(*                                                                         *)
(* A handler is an asynchronous TypeScript function.  Its database reads   *)
(* and writes are separated by awaits, so it is modelled by a slot that    *)
(* remembers which read it has passed and therefore which write it will    *)
(* do next.  PostgreSQL runs at READ COMMITTED: the writes of one Prisma   *)
(* transaction become visible together, row locks keep them so, and an     *)
(* updateMany evaluates its WHERE on the row it has locked.  The reads of  *)
(* a transaction take no lock, hence a read and the transaction's commit   *)
(* are two steps; its writes and the commit are one.                       *)
(***************************************************************************)
EXTENDS Integers, FiniteSets

CONSTANTS
    Orders,         \* POST /orders requests that find a cart with something in it
    Products,
    Workers,        \* request handlers that may run at the same time
    Cart,           \* Cart[o][p]: quantity of p in the cart o is made from
    Provider,       \* Provider[o]: the gateway o's payload asks for
    InitialStock,   \* InitialStock[p]
    Dated,          \* orders whose payment row carries an expiresAt
    PaymentWorker,  \* is a BullMQ worker consuming the payment queue?
    BatchSize,      \* rows one findMany of the cron takes
    RestockLevels   \* stock values an admin may write (bound)

ASSUME CartAssumption ==
    /\ Cart \in [Orders -> [Products -> Nat]]
    /\ InitialStock \in [Products -> Nat]
    /\ RestockLevels \subseteq Nat

\* An empty cart is refused before anything is written.
ASSUME CartsNotEmpty == \A o \in Orders : \E p \in Products : Cart[o][p] > 0

ASSUME ProviderAssumption == Provider \in [Orders -> {"STRIPE", "BKASH"}]

ASSUME ExpiryAssumption ==
    /\ Dated \subseteq Orders
    /\ PaymentWorker \in BOOLEAN
    /\ BatchSize \in Nat \ {0}

VARIABLES
    stock,          \* products.stock
    active,         \* the products whose status is ACTIVE
    supply,         \* ghost: units on the shelf and in orders, see updateProduct
    orderStatus,    \* orders.status, "NONE" while there is no row
    paidAt,         \* the orders whose paidAt is set
    canceledAt,     \* the orders whose canceledAt is set
    payStatus,      \* payments.status of the order's payment
    transactionId,  \* what payments.transactionId holds
    gateway,        \* the gateway's state of the order's checkout session
    contradicted,   \* ghost: orders reported as not paid by a browser although
                    \* the gateway had not rejected them, see handleCallback
    jobs,           \* orders whose payment has a delayed expiry job in Redis
    elapsed,        \* orders whose payment's expiresAt would be in the past
    sweep,          \* payments the running cron has found and not yet handled
    handler         \* handler[w]: the step worker w does next, and its order

shopVars == <<stock, active, supply>>
orderVars == <<orderStatus, paidAt, canceledAt>>
payVars == <<payStatus, transactionId>>
gatewayVars == <<gateway, contradicted>>
expiryVars == <<jobs, elapsed, sweep>>
vars == <<shopVars, orderVars, payVars, gatewayVars, expiryVars, handler>>

-----------------------------------------------------------------------------
OrderStatus == {"PENDING", "CONFIRMED", "PROCESSING", "SHIPPED", "DELIVERED",
                "CANCELED"}
PaymentStatus == {"PENDING", "PAID", "FAILED", "EXPIRED"}

\* The order has been confirmed and has not been canceled.
Fulfilment == {"CONFIRMED", "PROCESSING", "SHIPPED", "DELIVERED"}

\* A session is shown once the customer has its URL; approved (bKash) is the
\* customer's consent before execute, processing (Stripe) a delayed method.
GatewayState == {"none", "open", "shown", "approved", "processing",
                 "captured", "declined", "refused", "lapsed"}

\* The gateway has ended the session without money, and will take none for it.
Rejected(o) == gateway[o] \in {"declined", "refused"}

CheckoutStep == {"reserve", "createPayment", "provider", "link", "enqueue"}
CallbackStep == {"execute", "query", "findForSuccess", "findForFailure"}
CommitStep == {"success", "failure", "expiry", "cancel",
               "processing", "shipped", "delivered"}
Step == CheckoutStep \cup CallbackStep \cup CommitStep

Idle == [step |-> "idle"]
Busy == [step : Step, order : Orders]

TypeOK ==
    /\ stock \in [Products -> Nat]
    /\ active \subseteq Products
    /\ supply \in [Products -> Int]
    /\ orderStatus \in [Orders -> OrderStatus \cup {"NONE"}]
    /\ paidAt \subseteq Orders
    /\ canceledAt \subseteq Orders
    /\ payStatus \in [Orders -> PaymentStatus \cup {"NONE"}]
    /\ transactionId \in [Orders -> {"NULL", "SESSION", "CAPTURE"}]
    /\ gateway \in [Orders -> GatewayState]
    /\ contradicted \subseteq Orders
    /\ jobs \subseteq Orders
    /\ elapsed \subseteq Orders
    /\ sweep \subseteq Orders
    /\ handler \in [Workers -> Busy \cup {Idle}]

Init ==
    /\ stock = InitialStock
    /\ active = Products
    /\ supply = InitialStock
    /\ orderStatus = [o \in Orders |-> "NONE"]
    /\ paidAt = {}
    /\ canceledAt = {}
    /\ payStatus = [o \in Orders |-> "NONE"]
    /\ transactionId = [o \in Orders |-> "NULL"]
    /\ gateway = [o \in Orders |-> "none"]
    /\ contradicted = {}
    /\ jobs = {}
    /\ elapsed = {}
    /\ sweep = {}
    /\ handler = [w \in Workers |-> Idle]

-----------------------------------------------------------------------------
\* Worker w is about to do the given step for order o.
At(w, step, o) == handler[w] = [step |-> step, order |-> o]

\* Worker w, so far free, has passed its reads and goes on to the step.
Enter(w, step, o) ==
    /\ handler[w] = Idle
    /\ handler' = [handler EXCEPT ![w] = [step |-> step, order |-> o]]

Goto(w, step, o) ==
    handler' = [handler EXCEPT ![w] = [step |-> step, order |-> o]]

\* The handler has answered, or thrown.
Return(w) == handler' = [handler EXCEPT ![w] = Idle]

\* An exception, a lost connection or a crash of the process ends a handler
\* between two awaits: what it committed stays, what it had not is not done.
HandlerDies(w) ==
    /\ handler[w] # Idle
    /\ Return(w)
    /\ UNCHANGED <<shopVars, orderVars, payVars, gatewayVars, expiryVars>>

=============================================================================
