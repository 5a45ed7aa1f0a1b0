-------------------------- MODULE OrderFlowProofs ---------------------------
(* Proofs about OrderFlow, for every set of orders, products and workers.   *)
EXTENDS OrderFlow, FiniteSetTheorems, TLAPS

USE CartAssumption, ProviderAssumption, ExpiryAssumption

LEMMA TypeInit == Init => TypeOK
  BY DEF Init, TypeOK, Idle, OrderStatus, PaymentStatus, GatewayState

LEMMA TypeStep == TypeOK /\ [Next]_vars => TypeOK'
<1> SUFFICES ASSUME TypeOK, [Next]_vars PROVE TypeOK'
  OBVIOUS
<1> USE DEF TypeOK, shopVars, orderVars, payVars, gatewayVars, expiryVars, vars
<1>1. CASE OrdersNext
  <2>1. ASSUME NEW p \in Products, updateProduct(p) PROVE TypeOK'
    BY <2>1 DEF updateProduct
  <2> SUFFICES ASSUME NEW w \in Workers, NEW o \in Orders,
                      \/ createOrder(w, o) \/ CommitOrder(w, o)
                      \/ RollbackOrder(w, o) \/ cancelOrder(w, o)
                      \/ CommitCancel(w, o) \/ RefuseCancel(w, o)
                      \/ markOrderAsProcessing(w, o) \/ markAsShipped(w, o)
                      \/ markAsDelivered(w, o)
               PROVE  TypeOK'
    BY <1>1, <2>1 DEF OrdersNext
  <2> USE DEF Enter, Goto, Return, At, Busy, Idle, Step, CheckoutStep, CommitStep, OrderStatus
  <2>2. CASE createOrder(w, o)
    BY <2>2 DEF createOrder
  <2>3. CASE CommitOrder(w, o)
    <3>1. stock' \in [Products -> Nat]
      BY <2>3 DEF CommitOrder, Covers
    <3>2. QED
      BY <2>3, <3>1 DEF CommitOrder
  <2>4. CASE RollbackOrder(w, o)
    BY <2>4 DEF RollbackOrder
  <2>5. CASE cancelOrder(w, o)
    BY <2>5 DEF cancelOrder
  <2>6. CASE CommitCancel(w, o)
    BY <2>6 DEF CommitCancel
  <2>7. CASE RefuseCancel(w, o)
    BY <2>7 DEF RefuseCancel
  <2>8. ASSUME NEW from, NEW step \in CommitStep, ReadForMark(w, o, from, step)
        PROVE  TypeOK'
    BY <2>8 DEF ReadForMark
  <2>9. ASSUME NEW step, NEW to \in OrderStatus, WriteMark(w, o, step, to)
        PROVE  TypeOK'
    BY <2>9 DEF WriteMark
  <2>10. QED
    BY <2>2, <2>3, <2>4, <2>5, <2>6, <2>7, <2>8, <2>9
    DEF markOrderAsProcessing, markAsShipped, markAsDelivered
<1>2. CASE PaymentsNext
  <2> USE DEF PaymentStatus, OrderStatus, GatewayState, CancelPending, Expire
  <2>1. CASE FindOverdue \/ AbortSweep
    BY <2>1 DEF FindOverdue, AbortSweep
  <2>2. ASSUME NEW o \in Orders, 
               \/ StripeSession(o) \/ BkashSession(o) \/ Elapse(o)
               \/ expirePayment(o) \/ LoseJob(o) \/ SweepPayment(o)
        PROVE  TypeOK'
    <3>1. CASE StripeSession(o) \/ BkashSession(o)
      BY <3>1 DEF StripeSession, BkashSession, MoveSession
    <3>2. CASE Elapse(o) \/ LoseJob(o)
      BY <3>2 DEF Elapse, LoseJob
    <3>3. CASE expirePayment(o)
      BY <3>3 DEF expirePayment
    <3>4. CASE SweepPayment(o)
      BY <3>4 DEF SweepPayment
    <3>5. QED
      BY <2>2, <3>1, <3>2, <3>3, <3>4
  <2>3. ASSUME NEW w \in Workers, NEW o \in Orders,
               \/ InsertPayment(w, o) \/ OpenSession(w, o)
               \/ LinkSession(w, o) \/ EnqueueExpiry(w, o)
               \/ handlePaymentSuccess(w, o) \/ handlePaymentFailed(w, o)
               \/ handlePaymentExpired(w, o)
        PROVE  TypeOK'
    <3> USE DEF Goto, Return, Busy, Idle, Step, CheckoutStep
    <3>1. CASE InsertPayment(w, o)
      BY <3>1 DEF InsertPayment
    <3>2. CASE OpenSession(w, o)
      BY <3>2 DEF OpenSession
    <3>3. CASE LinkSession(w, o)
      BY <3>3 DEF LinkSession
    <3>4. CASE EnqueueExpiry(w, o)
      BY <3>4 DEF EnqueueExpiry
    <3>5. CASE handlePaymentSuccess(w, o)
      BY <3>5 DEF handlePaymentSuccess
    <3>6. CASE handlePaymentFailed(w, o)
      BY <3>6 DEF handlePaymentFailed
    <3>7. CASE handlePaymentExpired(w, o)
      BY <3>7 DEF handlePaymentExpired
    <3>8. QED
      BY <2>3, <3>1, <3>2, <3>3, <3>4, <3>5, <3>6, <3>7
  <2>4. ASSUME NEW w \in Workers, NEW o \in Orders,
               \/ StripeWebhook(w, o) \/ handleCallback(w, o)
               \/ ExecuteBkash(w, o) \/ ExecuteNotApproved(w, o)
               \/ QueryBkash(w, o) \/ FindForOutcome(w, o)
        PROVE  TypeOK'
    <3> USE DEF Goto, Enter, Return, Busy, Idle, Step, CallbackStep, CommitStep,
                FindForSuccess, FindForFailure, FindForExpiry
    <3>1. CASE StripeWebhook(w, o)
      BY <3>1 DEF StripeWebhook
    <3>2. CASE handleCallback(w, o)
      BY <3>2 DEF handleCallback
    <3>3. CASE ExecuteBkash(w, o)
      BY <3>3 DEF ExecuteBkash
    <3>4. CASE ExecuteNotApproved(w, o)
      BY <3>4 DEF ExecuteNotApproved
    <3>5. CASE QueryBkash(w, o)
      <4>1. CASE Goto(w, "findForFailure", o)
        BY <3>5, <4>1 DEF QueryBkash
      <4>2. CASE Return(w)
        BY <3>5, <4>2 DEF QueryBkash
      <4>3. QED
        BY <3>5, <4>1, <4>2 DEF QueryBkash
    <3>6. CASE FindForOutcome(w, o)
      <4>1. CASE Goto(w, "success", o) \/ Goto(w, "failure", o)
        BY <3>6, <4>1 DEF FindForOutcome
      <4>2. CASE Return(w)
        BY <3>6, <4>2 DEF FindForOutcome
      <4>3. QED
        BY <3>6, <4>1, <4>2 DEF FindForOutcome
    <3>7. QED
      BY <2>4, <3>1, <3>2, <3>3, <3>4, <3>5, <3>6
  <2>5. QED
    BY <1>2, <2>1, <2>2, <2>3, <2>4 DEF PaymentsNext
<1>3. ASSUME NEW w \in Workers, HandlerDies(w) PROVE TypeOK'
  BY <1>3 DEF HandlerDies, Return, Idle
<1>4. CASE UNCHANGED vars
  BY <1>4
<1>5. QED
  BY <1>1, <1>2, <1>3, <1>4 DEF Next

\* Every reachable state is well typed; with it, products.stock is a natural
\* number: no interleaving of checkouts and admin writes oversells a product.
THEOREM TypeCorrect == Spec => []TypeOK
<1>1. Init => TypeOK
  BY TypeInit
<1>2. TypeOK /\ [Next]_vars => TypeOK'
  BY TypeStep
<1>3. QED
  BY <1>1, <1>2, PTL DEF Spec

-----------------------------------------------------------------------------
(* Slots.                                                                  *)

LEMMA GotoSlot ==
  ASSUME TypeOK, NEW w \in Workers, NEW step, NEW o, Goto(w, step, o),
         NEW v \in Workers, NEW s, NEW x, At(v, s, x)'
  PROVE  \/ v = w /\ s = step /\ x = o
         \/ v # w /\ At(v, s, x)
  BY DEF TypeOK, Goto, At

LEMMA ReturnSlot ==
  ASSUME TypeOK, NEW w \in Workers, Return(w),
         NEW v \in Workers, NEW s \in Step, NEW x, At(v, s, x)'
  PROVE  v # w /\ At(v, s, x)
<1>1. v # w
  BY DEF TypeOK, Return, At, Idle, Step, CheckoutStep, CallbackStep, CommitStep
<1>2. QED
  BY <1>1 DEF TypeOK, Return, At

LEMMA IdleSlot ==
  ASSUME NEW w \in Workers, handler[w] = Idle, NEW s \in Step, NEW x
  PROVE  ~ At(w, s, x)
  BY DEF At, Idle, Step, CheckoutStep, CallbackStep, CommitStep

-----------------------------------------------------------------------------
(* Rows: the part of the invariant that no handler appears in, and the     *)
(* changes a step can make to the rows of an order.                        *)

RowInv ==
    /\ RowsInOrder
    /\ MoneyAgrees
    /\ PaidAtMeansConfirmed
    /\ CanceledAtMeansCanceled
    /\ FulfilledMeansCaptured
    /\ SettledTogether

SlotInv == ReadsStillHold /\ OneCheckout

rowVars == <<orderVars, payStatus, gateway, contradicted, sweep>>

\* What is never undone for order x.
Advances(x) ==
    /\ orderStatus[x] # "NONE" => orderStatus'[x] # "NONE"
    /\ orderStatus[x] \in Fulfilment => orderStatus'[x] \in Fulfilment
    /\ orderStatus[x] \in Lifecycle!Marked => orderStatus'[x] \in Lifecycle!Marked
    /\ payStatus[x] # "NONE" => payStatus'[x] # "NONE"
    /\ payStatus[x] = "PAID" =>
           \/ payStatus'[x] = "PAID"
           \/ payStatus'[x] = "FAILED" /\ x \in contradicted /\ Provider[x] = "BKASH"
    /\ x \in contradicted => x \in contradicted'
    /\ gateway[x] # "none" => gateway'[x] # "none"
    /\ gateway[x] \in {"captured", "declined", "refused", "lapsed"}
           => gateway'[x] = gateway[x]

\* Rows of x that do not exist before a step do not exist after it.
Absent(x) ==
    /\ orderStatus[x] = "NONE" => orderStatus'[x] = "NONE"
    /\ payStatus[x] = "NONE" => payStatus'[x] = "NONE"
    /\ gateway[x] = "none" => gateway'[x] = "none"

RowStep == RowInv' /\ \A x \in Orders : Advances(x)

LEMMA RowsUnchanged ==
  RowInv /\ UNCHANGED rowVars => RowStep /\ \A x \in Orders : Absent(x)
  BY DEF RowInv, RowStep, Advances, Absent, rowVars, orderVars, RowsInOrder,
         MoneyAgrees, PaidAtMeansConfirmed, CanceledAtMeansCanceled,
         FulfilledMeansCaptured, SettledTogether, Rejected

LEMMA OrdersRows ==
  ASSUME IInv, NEW w \in Workers, NEW o \in Orders
  PROVE  /\ CommitOrder(w, o) => RowStep
         /\ CommitCancel(w, o) => RowStep
         /\ \A to \in Lifecycle!Marked :
               /\ WriteMark(w, o, "processing", to) => RowStep
               /\ WriteMark(w, o, "shipped", to) => RowStep
               /\ WriteMark(w, o, "delivered", to) => RowStep
<1> USE DEF IInv, RowInv, RowStep, Advances, RowsInOrder, MoneyAgrees, 
            PaidAtMeansConfirmed, CanceledAtMeansCanceled, 
            FulfilledMeansCaptured, SettledTogether, Rejected, TypeOK, Lifecycle!Marked,
            Fulfilment, orderVars, payVars, gatewayVars, expiryVars, shopVars
<1>1. \A s \in Step : At(w, s, o) => Informed(s, o)
  BY DEF ReadsStillHold
<1>2. ASSUME CommitOrder(w, o) PROVE RowStep
  <2>1. orderStatus[o] = "NONE"
    BY <1>1, <1>2 DEF CommitOrder, Informed, Step, CheckoutStep
  <2>2. QED
    BY <1>2, <2>1 DEF CommitOrder
<1>3. ASSUME CommitCancel(w, o) PROVE RowStep
  BY <1>3 DEF CommitCancel
<1>4. ASSUME NEW to \in Lifecycle!Marked, NEW s \in {"processing", "shipped", "delivered"},
             WriteMark(w, o, s, to)
      PROVE  RowStep
  <2>1. orderStatus[o] \in Fulfilment
    BY <1>1, <1>4 DEF WriteMark, Informed, Step, CommitStep
  <2>2. QED
    BY <1>4, <2>1 DEF WriteMark
<1>5. QED
  BY <1>2, <1>3, <1>4

LEMMA CheckoutRows ==
  ASSUME IInv, NEW w \in Workers, NEW o \in Orders
  PROVE  /\ InsertPayment(w, o) => RowStep
         /\ OpenSession(w, o) => RowStep
         /\ LinkSession(w, o) => RowStep
         /\ EnqueueExpiry(w, o) => RowStep /\ \A x \in Orders : Absent(x)
<1> USE DEF IInv, RowInv, RowStep, Advances, Absent, RowsInOrder, MoneyAgrees,
            PaidAtMeansConfirmed, CanceledAtMeansCanceled,
            FulfilledMeansCaptured, SettledTogether, Rejected, TypeOK, Fulfilment,
            orderVars, payVars, gatewayVars, expiryVars
<1>1. \A s \in Step : At(w, s, o) => Informed(s, o)
  BY DEF ReadsStillHold
<1>2. ASSUME InsertPayment(w, o) PROVE RowStep
  <2>1. orderStatus[o] # "NONE" /\ payStatus[o] = "NONE"
    BY <1>1, <1>2 DEF InsertPayment, Informed, Step, CheckoutStep
  <2>2. QED
    BY <1>2, <2>1 DEF InsertPayment
<1>3. ASSUME OpenSession(w, o) PROVE RowStep
  <2>1. payStatus[o] # "NONE" /\ gateway[o] = "none"
    BY <1>1, <1>3 DEF OpenSession, Informed, Step, CheckoutStep
  <2>2. QED
    BY <1>3, <2>1 DEF OpenSession
<1>4. ASSUME LinkSession(w, o) PROVE RowStep
  BY <1>4 DEF LinkSession
<1>5. ASSUME EnqueueExpiry(w, o) PROVE RowStep /\ \A x \in Orders : Absent(x)
  BY <1>5 DEF EnqueueExpiry
<1>6. QED
  BY <1>2, <1>3, <1>4, <1>5

\* The gateways only move sessions that exist, and never one that has ended.
LEMMA SessionRows ==
  ASSUME IInv, NEW o \in Orders
  PROVE  /\ StripeSession(o) => RowStep /\ \A x \in Orders : Absent(x)
         /\ BkashSession(o) => RowStep /\ \A x \in Orders : Absent(x)
         /\ \A w \in Workers : ExecuteBkash(w, o)
               => RowStep /\ \A x \in Orders : Absent(x)
<1>1. ASSUME NEW from \in SUBSET {"open", "shown", "processing", "approved"},
             NEW to \in GatewayState \ {"none"}, gateway[o] \in from,
             to = "lapsed" => Provider[o] = "STRIPE",
             gateway' = [gateway EXCEPT ![o] = to],
             UNCHANGED <<orderVars, payStatus, contradicted, sweep>>
      PROVE  RowStep /\ \A x \in Orders : Absent(x)
  BY <1>1 DEF IInv, RowInv, RowStep, Advances, Absent, RowsInOrder, MoneyAgrees,
              PaidAtMeansConfirmed, CanceledAtMeansCanceled,
              FulfilledMeansCaptured, SettledTogether, Rejected, TypeOK, orderVars
<1> USE DEF GatewayState, orderVars, payVars, gatewayVars, expiryVars
<1>2. ASSUME NEW from \in SUBSET {"open", "shown", "processing", "approved"},
             NEW to \in GatewayState \ {"none"}, MoveSession(o, from, to),
             to = "lapsed" => Provider[o] = "STRIPE"
      PROVE  RowStep /\ \A x \in Orders : Absent(x)
  BY <1>1, <1>2 DEF MoveSession
<1>3. ASSUME StripeSession(o) PROVE RowStep /\ \A x \in Orders : Absent(x)
  BY <1>2, <1>3 DEF StripeSession
<1>4. ASSUME BkashSession(o) PROVE RowStep /\ \A x \in Orders : Absent(x)
  BY <1>2, <1>4 DEF BkashSession
<1>5. ASSUME NEW w \in Workers, ExecuteBkash(w, o)
      PROVE  RowStep /\ \A x \in Orders : Absent(x)
  <2>1. PICK to \in {"captured", "refused"} : gateway' = [gateway EXCEPT ![o] = to]
    BY <1>5 DEF ExecuteBkash
  <2>2. gateway[o] \in {"approved"} /\ UNCHANGED <<orderVars, payStatus, contradicted, sweep>>
    BY <1>5 DEF ExecuteBkash
  <2>3. QED
    BY <1>1, <2>1, <2>2
<1>6. QED
  BY <1>3, <1>4, <1>5

\* A callback for a pending payment changes no row, whatever its status says.
LEMMA ReportRows ==
  ASSUME IInv, NEW w \in Workers, NEW o \in Orders, handleCallback(w, o)
  PROVE  RowStep /\ \A x \in Orders : Absent(x)
<1>1. /\ UNCHANGED <<orderVars, payStatus, gateway, sweep>>
      /\ contradicted \subseteq contradicted'
      /\ \A x \in contradicted' : x \in contradicted \/ (Provider[x] = "BKASH" /\ gateway[x] # "none")
  BY DEF handleCallback, payVars, expiryVars
<1>2. QED
  BY <1>1 DEF IInv, RowInv, RowStep, Advances, Absent, RowsInOrder, MoneyAgrees,
              PaidAtMeansConfirmed, CanceledAtMeansCanceled,
              FulfilledMeansCaptured, SettledTogether, Rejected, orderVars

\* The outcome handlers: what they have been told of the gateway is what makes
\* their unconditional update of the payment safe.
LEMMA OutcomeRows ==
  ASSUME IInv, NEW w \in Workers, NEW o \in Orders,
         \/ handlePaymentSuccess(w, o)
         \/ handlePaymentFailed(w, o)
         \/ handlePaymentExpired(w, o)
  PROVE  RowStep /\ \A x \in Orders : Absent(x)
<1> USE DEF IInv, RowInv, RowStep, Advances, Absent, RowsInOrder, MoneyAgrees,
            PaidAtMeansConfirmed, CanceledAtMeansCanceled,
            FulfilledMeansCaptured, SettledTogether, Rejected, TypeOK, Fulfilment,
            Lifecycle!Marked, CancelPending, orderVars, payVars, gatewayVars, expiryVars
<1>1. \A s \in Step : At(w, s, o) => Informed(s, o)
  BY DEF ReadsStillHold
<1>2. CASE handlePaymentSuccess(w, o)
  <2>1. gateway[o] = "captured"
    BY <1>1, <1>2 DEF handlePaymentSuccess, Informed, Step, CommitStep
  <2>2. QED
    BY <1>2, <2>1 DEF handlePaymentSuccess
<1>3. CASE handlePaymentFailed(w, o)
  <2>1. Rejected(o) \/ o \in contradicted
    BY <1>1, <1>3 DEF handlePaymentFailed, Informed, Step, CommitStep
  <2>2. payStatus[o] = "PAID" => o \in contradicted /\ Provider[o] = "BKASH"
    BY <2>1
  <2>3. QED
    BY <1>3, <2>1, <2>2 DEF handlePaymentFailed
<1>4. CASE handlePaymentExpired(w, o)
  <2>1. gateway[o] = "lapsed" /\ payStatus[o] \notin {"PAID", "FAILED"}
    BY <1>1, <1>4 DEF handlePaymentExpired, Informed, Step, CommitStep
  <2>2. QED
    BY <1>4, <2>1 DEF handlePaymentExpired
<1>5. QED
  BY <1>2, <1>3, <1>4

\* The job and the cron: their guard on PENDING keeps them off a paid order.
LEMMA ExpiryRows ==
  ASSUME IInv, NEW o \in Orders,
         \/ expirePayment(o) \/ SweepPayment(o)
         \/ FindOverdue \/ AbortSweep
  PROVE  RowStep /\ \A x \in Orders : Absent(x)
<1> USE DEF IInv, RowInv, RowStep, Advances, Absent, RowsInOrder, MoneyAgrees,
            PaidAtMeansConfirmed, CanceledAtMeansCanceled,
            FulfilledMeansCaptured, SettledTogether, Rejected, TypeOK, Fulfilment,
            Lifecycle!Marked, orderVars, payVars, gatewayVars, expiryVars
<1>1. ASSUME payStatus[o] = "PENDING", o \in Dated, Expire(o), sweep' \subseteq sweep,
             UNCHANGED <<paidAt, gateway, contradicted>>
      PROVE  RowStep /\ \A x \in Orders : Absent(x)
  BY <1>1 DEF Expire, CancelPending
<1>2. ASSUME sweep' \subseteq Dated, UNCHANGED <<orderStatus, canceledAt, payStatus, paidAt, gateway, contradicted>>
      PROVE  RowStep /\ \A x \in Orders : Absent(x)
  BY <1>2
<1>3. CASE expirePayment(o)
  BY <1>1, <1>2, <1>3 DEF expirePayment, Overdue
<1>4. CASE SweepPayment(o)
  BY <1>1, <1>2, <1>4 DEF SweepPayment
<1>5. CASE FindOverdue
  <2>1. sweep' \subseteq Dated
    BY <1>5 DEF FindOverdue, Overdue
  <2>2. QED
    BY <1>2, <1>5, <2>1 DEF FindOverdue
<1>6. CASE AbortSweep
  BY <1>2, <1>6 DEF AbortSweep
<1>7. QED
  BY <1>3, <1>4, <1>5, <1>6

-----------------------------------------------------------------------------
(* Slots: what the handlers in flight rely on survives every step.         *)

LEMMA InformedKept ==
  ASSUME NEW x \in Orders, NEW s \in Step, Informed(s, x), Advances(x),
         Absent(x) \/ s \notin {"reserve", "createPayment", "provider"}
  PROVE  Informed(s, x)'
  BY DEF Informed, Advances, Absent, Rejected, Fulfilment, Lifecycle!Marked

LEMMA SlotsKept ==
  ASSUME SlotInv, \A x \in Orders : Advances(x) /\ Absent(x),
         \A v \in Workers, s \in Step, x \in Orders : At(v, s, x)' => At(v, s, x)
  PROVE  SlotInv'
<1>1. ReadsStillHold'
  <2> SUFFICES ASSUME NEW v \in Workers, NEW x \in Orders, NEW s \in Step, At(v, s, x)'
               PROVE  Informed(s, x)'
    BY DEF ReadsStillHold
  <2>1. Informed(s, x)
    BY DEF SlotInv, ReadsStillHold
  <2>2. QED
    BY <2>1, InformedKept
<1>2. OneCheckout'
  BY DEF SlotInv, OneCheckout, Step
<1>3. QED
  BY <1>1, <1>2 DEF SlotInv

\* A handler that is not a checkout goes to a step it is informed for.
LEMMA SlotMoved ==
  ASSUME TypeOK, SlotInv, NEW w \in Workers, NEW o \in Orders,
         NEW step \in Step \ CheckoutStep, Goto(w, step, o), Informed(step, o)',
         \A x \in Orders : Advances(x) /\ Absent(x)
  PROVE  SlotInv'
<1>1. ReadsStillHold'
  <2> SUFFICES ASSUME NEW v \in Workers, NEW x \in Orders, NEW s \in Step, At(v, s, x)'
               PROVE  Informed(s, x)'
    BY DEF ReadsStillHold
  <2>1. CASE s = step /\ x = o
    BY <2>1
  <2>2. CASE At(v, s, x)
    BY <2>2, InformedKept DEF SlotInv, ReadsStillHold
  <2>3. QED
    BY <2>1, <2>2, GotoSlot
<1>2. OneCheckout'
  <2> SUFFICES ASSUME NEW v \in Workers, NEW u \in Workers, NEW x \in Orders,
                      NEW s \in CheckoutStep, NEW t \in CheckoutStep,
                      At(v, s, x)', At(u, t, x)'
               PROVE  v = u
    BY DEF OneCheckout
  <2>1. At(v, s, x) /\ At(u, t, x)
    BY GotoSlot
  <2>2. QED
    BY <2>1 DEF SlotInv, OneCheckout
<1>3. QED
  BY <1>1, <1>2 DEF SlotInv

\* The checkout of o goes one step further; its step may create a row of o.
LEMMA CheckoutMoved ==
  ASSUME TypeOK, SlotInv, NEW w \in Workers, NEW o \in Orders,
         NEW step \in CheckoutStep, Goto(w, step, o), Informed(step, o)',
         \A v \in Workers, s \in CheckoutStep : At(v, s, o) => v = w,
         \A x \in Orders : Advances(x), \A x \in Orders \ {o} : Absent(x)
  PROVE  SlotInv'
<1>1. ReadsStillHold'
  <2> SUFFICES ASSUME NEW v \in Workers, NEW x \in Orders, NEW s \in Step, At(v, s, x)'
               PROVE  Informed(s, x)'
    BY DEF ReadsStillHold
  <2>1. CASE s = step /\ x = o
    BY <2>1
  <2>2. CASE v # w /\ At(v, s, x)
    <3>1. x # o \/ s \notin CheckoutStep
      BY <2>2
    <3>2. QED
      BY <2>2, <3>1, InformedKept DEF SlotInv, ReadsStillHold, CheckoutStep
  <2>3. QED
    BY <2>1, <2>2, GotoSlot
<1>2. OneCheckout'
  <2> SUFFICES ASSUME NEW v \in Workers, NEW u \in Workers, NEW x \in Orders,
                      NEW s \in CheckoutStep, NEW t \in CheckoutStep,
                      At(v, s, x)', At(u, t, x)'
               PROVE  v = u
    BY DEF OneCheckout
  <2>1. /\ (v = w /\ x = o) \/ (v # w /\ At(v, s, x))
        /\ (u = w /\ x = o) \/ (u # w /\ At(u, t, x))
    BY GotoSlot
  <2>2. QED
    BY <2>1 DEF SlotInv, OneCheckout
<1>3. QED
  BY <1>1, <1>2 DEF SlotInv

\* A handler answers; its step may have changed rows, and created none.
LEMMA SlotLeft ==
  ASSUME TypeOK, SlotInv, NEW w \in Workers, Return(w),
         \A x \in Orders : Advances(x) /\ Absent(x)
  PROVE  SlotInv'
  BY ReturnSlot, SlotsKept

LEMMA SlotsUnchanged ==
  ASSUME SlotInv, UNCHANGED handler, \A x \in Orders : Advances(x) /\ Absent(x)
  PROVE  SlotInv'
  BY SlotsKept DEF At

LEMMA OrdersStep ==
  ASSUME IInv, OrdersNext
  PROVE  RowStep /\ SlotInv'
<1> USE DEF IInv, RowInv, SlotInv
<1>1. ASSUME NEW p \in Products, updateProduct(p) PROVE RowStep /\ SlotInv'
  <2>1. UNCHANGED <<rowVars, handler>>
    BY <1>1 DEF updateProduct, rowVars, orderVars, payVars, gatewayVars, expiryVars
  <2>2. QED
    BY <2>1, RowsUnchanged, SlotsUnchanged DEF RowStep
<1> SUFFICES ASSUME NEW w \in Workers, NEW o \in Orders,
                    \/ createOrder(w, o) \/ CommitOrder(w, o)
                    \/ RollbackOrder(w, o) \/ cancelOrder(w, o)
                    \/ CommitCancel(w, o) \/ RefuseCancel(w, o)
                    \/ markOrderAsProcessing(w, o) \/ markAsShipped(w, o)
                    \/ markAsDelivered(w, o)
             PROVE  RowStep /\ SlotInv'
  BY <1>1 DEF OrdersNext
<1>2. UNCHANGED rowVars => RowStep /\ \A x \in Orders : Advances(x) /\ Absent(x)
  BY RowsUnchanged DEF RowStep
<1> USE DEF rowVars, orderVars, payVars, gatewayVars, expiryVars
<1>3. CASE createOrder(w, o)
  <2>1. \A v \in Workers, s \in CheckoutStep : ~ At(v, s, o)
    BY <1>3 DEF createOrder, ReadsStillHold, Informed, Step, CheckoutStep, RowsInOrder
  <2>2. Informed("reserve", o)'
    BY <1>3 DEF createOrder, Informed
  <2>3. Goto(w, "reserve", o)
    BY <1>3 DEF createOrder, Enter, Goto
  <2>4. UNCHANGED rowVars
    BY <1>3 DEF createOrder
  <2>5. QED
    BY <1>2, <2>1, <2>2, <2>3, <2>4, CheckoutMoved DEF CheckoutStep
<1>4. CASE CommitOrder(w, o)
  <2>1. RowStep
    BY <1>4, OrdersRows
  <2>2. orderStatus[o] = "NONE" /\ payStatus[o] = "NONE"
    BY <1>4 DEF CommitOrder, ReadsStillHold, Informed, Step, CheckoutStep, RowsInOrder
  <2>3. Informed("createPayment", o)'
    BY <1>4, <2>2 DEF CommitOrder, Informed, TypeOK
  <2>4. \A v \in Workers, s \in CheckoutStep : At(v, s, o) => v = w
    BY <1>4 DEF CommitOrder, OneCheckout, CheckoutStep
  <2>5. \A x \in Orders \ {o} : Absent(x)
    BY <1>4 DEF CommitOrder, Absent, TypeOK
  <2>6. Goto(w, "createPayment", o)
    BY <1>4 DEF CommitOrder
  <2>7. QED
    BY <2>1, <2>3, <2>4, <2>5, <2>6, CheckoutMoved DEF CheckoutStep, RowStep
<1>5. CASE RollbackOrder(w, o) \/ RefuseCancel(w, o)
  BY <1>2, <1>5, SlotLeft DEF RollbackOrder, RefuseCancel
<1>6. CASE cancelOrder(w, o)
  <2>1. Goto(w, "cancel", o) /\ UNCHANGED rowVars
    BY <1>6 DEF cancelOrder, Enter, Goto
  <2>2. Informed("cancel", o)'
    BY DEF Informed
  <2>3. QED
    BY <1>2, <2>1, <2>2, SlotMoved DEF Step, CommitStep, CheckoutStep
<1>7. CASE CommitCancel(w, o)
  <2>1. RowStep
    BY <1>7, OrdersRows
  <2>2. \A x \in Orders : Absent(x)
    BY <1>7 DEF CommitCancel, Absent, TypeOK
  <2>3. QED
    BY <1>7, <2>1, <2>2, SlotLeft DEF CommitCancel, RowStep
<1>8. ASSUME NEW from, NEW step \in {"processing", "shipped", "delivered"},
             ReadForMark(w, o, from, step), Informed(step, o)
      PROVE  RowStep /\ SlotInv'
  <2>1. Goto(w, step, o) /\ UNCHANGED rowVars
    BY <1>8 DEF ReadForMark, Enter, Goto
  <2>2. Informed(step, o)'
    BY <1>8, <2>1 DEF Informed
  <2>3. QED
    BY <1>2, <2>1, <2>2, SlotMoved DEF Step, CommitStep, CheckoutStep
<1>9. ASSUME NEW to \in Lifecycle!Marked, NEW step \in {"processing", "shipped", "delivered"},
             WriteMark(w, o, step, to)
      PROVE  RowStep /\ SlotInv'
  <2>1. RowStep
    BY <1>9, OrdersRows
  <2>2. \A x \in Orders : Absent(x)
    <3>1. orderStatus[o] # "NONE"
      BY <1>9 DEF WriteMark, ReadsStillHold, Informed, Step, CommitStep,
                  Fulfilment, Lifecycle!Marked
    <3>2. QED
      BY <1>9, <3>1 DEF WriteMark, Absent, TypeOK
  <2>3. QED
    BY <1>9, <2>1, <2>2, SlotLeft DEF WriteMark, RowStep
<1>10. CASE markOrderAsProcessing(w, o)
  BY <1>8, <1>9, <1>10
  DEF markOrderAsProcessing, ReadForMark, Informed, Fulfilment, Lifecycle!Marked
<1>11. CASE markAsShipped(w, o)
  BY <1>8, <1>9, <1>11
  DEF markAsShipped, ReadForMark, Informed, Lifecycle!Marked
<1>12. CASE markAsDelivered(w, o)
  BY <1>8, <1>9, <1>12
  DEF markAsDelivered, ReadForMark, Informed, Lifecycle!Marked
<1>13. QED
  BY <1>3, <1>4, <1>5, <1>6, <1>7, <1>10, <1>11, <1>12

LEMMA CheckoutStepOf ==
  ASSUME IInv, NEW w \in Workers, NEW o \in Orders,
         \/ InsertPayment(w, o) \/ OpenSession(w, o)
         \/ LinkSession(w, o) \/ EnqueueExpiry(w, o)
  PROVE  RowStep /\ SlotInv'
<1> USE DEF IInv, RowInv, SlotInv, orderVars, payVars, gatewayVars, expiryVars
<1>1. RowStep
  BY CheckoutRows
<1>2. ASSUME NEW s \in CheckoutStep, At(w, s, o)
      PROVE  \A v \in Workers, t \in CheckoutStep : At(v, t, o) => v = w
  BY <1>2 DEF OneCheckout
<1>3. ASSUME NEW s \in CheckoutStep, At(w, s, o), NEW step \in CheckoutStep,
             Goto(w, step, o), Informed(step, o)', \A x \in Orders \ {o} : Absent(x)
      PROVE  SlotInv'
  BY <1>1, <1>2, <1>3, CheckoutMoved DEF RowStep
<1> USE DEF CheckoutStep
<1>4. CASE InsertPayment(w, o)
  <2>1. Informed("provider", o)'
    BY <1>4 DEF InsertPayment, Informed, TypeOK, RowsInOrder, ReadsStillHold, Step
  <2>2. \A x \in Orders \ {o} : Absent(x)
    BY <1>4 DEF InsertPayment, Absent, TypeOK
  <2>3. QED
    BY <1>1, <1>3, <1>4, <2>1, <2>2 DEF InsertPayment
<1>5. CASE OpenSession(w, o)
  <2>1. Informed("link", o)'
    BY <1>5 DEF OpenSession, Informed, TypeOK
  <2>2. \A x \in Orders \ {o} : Absent(x)
    BY <1>5 DEF OpenSession, Absent, TypeOK
  <2>3. QED
    BY <1>1, <1>3, <1>5, <2>1, <2>2 DEF OpenSession
<1>6. CASE LinkSession(w, o)
  <2>1. Informed("enqueue", o)'
    BY <1>6 DEF LinkSession, Informed, ReadsStillHold, Step
  <2>2. \A x \in Orders \ {o} : Absent(x)
    BY <1>6 DEF LinkSession, Absent
  <2>3. QED
    BY <1>1, <1>3, <1>6, <2>1, <2>2 DEF LinkSession
<1>7. CASE EnqueueExpiry(w, o)
  <2>1. \A x \in Orders : Advances(x) /\ Absent(x)
    BY <1>7, CheckoutRows DEF RowStep
  <2>2. QED
    BY <1>1, <1>7, <2>1, SlotLeft DEF EnqueueExpiry
<1>8. QED
  BY <1>4, <1>5, <1>6, <1>7

LEMMA CallbackStepOf ==
  ASSUME IInv, NEW w \in Workers, NEW o \in Orders,
         \/ StripeWebhook(w, o) \/ handleCallback(w, o)
         \/ ExecuteBkash(w, o) \/ ExecuteNotApproved(w, o)
         \/ QueryBkash(w, o) \/ FindForOutcome(w, o)
  PROVE  RowStep /\ SlotInv'
<1> USE DEF IInv, RowInv, SlotInv, orderVars, payVars, gatewayVars, expiryVars
<1>1. ASSUME NEW step \in Step \ CheckoutStep, Goto(w, step, o), Informed(step, o)',
             RowStep, \A x \in Orders : Absent(x)
      PROVE  RowStep /\ SlotInv'
  BY <1>1, SlotMoved DEF RowStep
<1>2. ASSUME Return(w), RowStep, \A x \in Orders : Absent(x)
      PROVE  RowStep /\ SlotInv'
  BY <1>2, SlotLeft DEF RowStep
<1>3. UNCHANGED rowVars => RowStep /\ \A x \in Orders : Absent(x)
  BY RowsUnchanged
<1> USE DEF rowVars
<1>4. ASSUME NEW step \in Step \ CheckoutStep, UNCHANGED rowVars,
             \/ Informed(step, o) /\ Goto(w, step, o)
             \/ Return(w)
      PROVE  RowStep /\ SlotInv'
  <2>1. Informed(step, o) => Informed(step, o)'
    BY <1>4 DEF Informed, Rejected
  <2>2. QED
    BY <1>1, <1>2, <1>3, <1>4, <2>1
<1> HIDE DEF IInv, RowInv, SlotInv
<1> USE DEF Step, CheckoutStep, CallbackStep, CommitStep
<1>5. CASE StripeWebhook(w, o)
  <2>1. UNCHANGED rowVars
    BY <1>5 DEF StripeWebhook
  <2>2. CASE gateway[o] = "captured" /\ FindForSuccess(w, o)
    <3>1. Informed("success", o)
      BY <2>2 DEF Informed
    <3>2. Goto(w, "success", o) \/ Return(w)
      BY <2>2 DEF FindForSuccess
    <3>3. QED
      BY <1>4, <2>1, <3>1, <3>2
  <2>3. CASE gateway[o] = "declined" /\ FindForFailure(w, o)
    <3>1. Informed("failure", o)
      BY <2>3 DEF Informed, Rejected
    <3>2. Goto(w, "failure", o) \/ Return(w)
      BY <2>3 DEF FindForFailure
    <3>3. QED
      BY <1>4, <2>1, <3>1, <3>2
  <2>4. CASE gateway[o] = "lapsed" /\ FindForExpiry(w, o)
    <3>1. Informed("expiry", o)
      BY <2>4 DEF Informed
    <3>2. Goto(w, "expiry", o) \/ Return(w)
      BY <2>4 DEF FindForExpiry
    <3>3. QED
      BY <1>4, <2>1, <3>1, <3>2
  <2>5. QED
    BY <1>5, <2>2, <2>3, <2>4 DEF StripeWebhook
<1>6. CASE handleCallback(w, o)
  <2>1. CASE Goto(w, "execute", o) /\ UNCHANGED rowVars
    BY <1>4, <2>1 DEF Informed
  <2>2. CASE /\ Goto(w, "findForFailure", o)
             /\ contradicted' = contradicted \cup {x \in {o} : ~ Rejected(x)}
    <3>1. RowStep /\ \A x \in Orders : Absent(x)
      BY <1>6, <2>2, ReportRows
    <3>2. Informed("findForFailure", o)'
      BY <1>6, <2>2 DEF handleCallback, Informed, Rejected
    <3>3. QED
      BY <1>1, <2>2, <3>1, <3>2
  <2>3. QED
    BY <1>6, <2>1, <2>2 DEF handleCallback, Enter, Goto
<1>7. CASE ExecuteBkash(w, o)
  <2>1. RowStep /\ \A x \in Orders : Absent(x)
    BY <1>7, SessionRows
  <2>2. CASE gateway'[o] = "captured" /\ Goto(w, "findForSuccess", o)
    <3>1. Informed("findForSuccess", o)'
      BY <2>2 DEF Informed
    <3>2. QED
      BY <1>1, <2>1, <2>2, <3>1
  <2>3. CASE gateway'[o] = "refused" /\ Goto(w, "findForFailure", o)
    <3>1. Informed("findForFailure", o)'
      BY <2>3 DEF Informed, Rejected
    <3>2. QED
      BY <1>1, <2>1, <2>3, <3>1
  <2>4. CASE Return(w)
    BY <1>2, <2>1, <2>4
  <2>5. QED
    BY <1>7, <2>2, <2>3, <2>4 DEF ExecuteBkash, IInv, TypeOK
<1>8. CASE ExecuteNotApproved(w, o)
  BY <1>4, <1>8 DEF ExecuteNotApproved, Informed, Rejected
<1>9. CASE QueryBkash(w, o)
  <2>1. Rejected(o) => Informed("findForFailure", o)
    BY DEF Informed
  <2>2. UNCHANGED rowVars
    BY <1>9 DEF QueryBkash
  <2>3. QED
    BY <1>4, <1>9, <2>1, <2>2 DEF QueryBkash
<1>10. CASE FindForOutcome(w, o)
  <2>1. \A s \in Step : At(w, s, o) => Informed(s, o)
    BY DEF IInv, ReadsStillHold
  <2>2. CASE At(w, "findForSuccess", o) /\ FindForSuccess(w, o)
    <3>1. Informed("success", o)
      BY <2>1, <2>2 DEF Informed
    <3>2. UNCHANGED rowVars /\ (Goto(w, "success", o) \/ Return(w))
      BY <1>10, <2>2 DEF FindForOutcome, FindForSuccess
    <3>3. QED
      BY <1>4, <3>1, <3>2
  <2>3. CASE At(w, "findForFailure", o) /\ FindForFailure(w, o)
    <3>1. Informed("failure", o)
      BY <2>1, <2>3 DEF Informed
    <3>2. UNCHANGED rowVars /\ (Goto(w, "failure", o) \/ Return(w))
      BY <1>10, <2>3 DEF FindForOutcome, FindForFailure
    <3>3. QED
      BY <1>4, <3>1, <3>2
  <2>4. QED
    BY <1>10, <2>2, <2>3 DEF FindForOutcome
<1>11. QED
  BY <1>5, <1>6, <1>7, <1>8, <1>9, <1>10

LEMMA PaymentsStep ==
  ASSUME IInv, PaymentsNext
  PROVE  RowStep /\ SlotInv'
<1>1. SlotInv /\ RowInv
  BY DEF IInv, SlotInv, RowInv
<1>2. ASSUME UNCHANGED handler, RowStep, \A x \in Orders : Absent(x)
      PROVE  RowStep /\ SlotInv'
  BY <1>1, <1>2, SlotsUnchanged DEF RowStep
<1>3. CASE FindOverdue \/ AbortSweep
  <2>1. CASE Orders = {}
    <3>1. sweep' = {}
      BY <1>3, <2>1 DEF FindOverdue, AbortSweep
    <3>2. QED
      BY <1>1, <1>3, <2>1, <3>1, SlotsUnchanged
      DEF RowStep, RowInv, RowsInOrder, MoneyAgrees, PaidAtMeansConfirmed,
          CanceledAtMeansCanceled, FulfilledMeansCaptured, SettledTogether,
          FindOverdue, AbortSweep, orderVars, payVars, gatewayVars
  <2>2. CASE Orders # {}
    BY <1>2, <1>3, <2>2, ExpiryRows DEF FindOverdue, AbortSweep
  <2>3. QED
    BY <2>1, <2>2
<1>4. ASSUME NEW o \in Orders,
             \/ StripeSession(o) \/ BkashSession(o) \/ Elapse(o)
             \/ expirePayment(o) \/ LoseJob(o) \/ SweepPayment(o)
      PROVE  RowStep /\ SlotInv'
  <2>1. CASE StripeSession(o) \/ BkashSession(o)
    <3>1. UNCHANGED handler
      BY <2>1 DEF StripeSession, BkashSession, MoveSession
    <3>2. QED
      BY <1>2, <2>1, <3>1, SessionRows
  <2>2. CASE Elapse(o) \/ LoseJob(o)
    <3>1. UNCHANGED <<rowVars, handler>>
      BY <2>2 DEF Elapse, LoseJob, rowVars, payVars, gatewayVars
    <3>2. QED
      BY <1>1, <1>2, <3>1, RowsUnchanged
  <2>3. CASE expirePayment(o) \/ SweepPayment(o)
    <3>1. UNCHANGED handler
      BY <2>3 DEF expirePayment, SweepPayment
    <3>2. QED
      BY <1>2, <2>3, <3>1, ExpiryRows
  <2>4. QED
    BY <1>4, <2>1, <2>2, <2>3
<1>5. ASSUME NEW w \in Workers, NEW o \in Orders,
             \/ handlePaymentSuccess(w, o)
             \/ handlePaymentFailed(w, o)
             \/ handlePaymentExpired(w, o)
      PROVE  RowStep /\ SlotInv'
  <2>1. RowStep /\ \A x \in Orders : Absent(x)
    BY <1>5, OutcomeRows
  <2>2. Return(w)
    BY <1>5 DEF handlePaymentSuccess, handlePaymentFailed, handlePaymentExpired
  <2>3. QED
    BY <1>1, <2>1, <2>2, SlotLeft DEF RowStep, IInv
<1>6. QED
  BY <1>3, <1>4, <1>5, CheckoutStepOf, CallbackStepOf DEF PaymentsNext

LEMMA InductiveInit == Init => IInv
<1>1. Init => TypeOK
  BY TypeInit
<1>2. Init => ReadsStillHold /\ OneCheckout
  BY IdleSlot DEF Init, ReadsStillHold, OneCheckout, Step
<1>3. Init => RowInv
  BY DEF Init, RowInv, RowsInOrder, MoneyAgrees, PaidAtMeansConfirmed,
         CanceledAtMeansCanceled, FulfilledMeansCaptured, SettledTogether,
         Fulfilment
<1>4. QED
  BY <1>1, <1>2, <1>3 DEF IInv, RowInv

LEMMA InductiveStep ==
  ASSUME IInv, [Next]_vars
  PROVE  IInv' /\ \A x \in Orders : Advances(x)
<1>1. TypeOK'
  BY TypeStep DEF IInv
<1>2. RowInv /\ SlotInv
  BY DEF IInv, RowInv, SlotInv
<1>3. CASE OrdersNext
  BY <1>1, <1>3, OrdersStep DEF IInv, RowStep, RowInv, SlotInv
<1>4. CASE PaymentsNext
  BY <1>1, <1>4, PaymentsStep DEF IInv, RowStep, RowInv, SlotInv
<1>5. ASSUME NEW w \in Workers, HandlerDies(w)
      PROVE  RowStep /\ SlotInv'
  <2>1. UNCHANGED rowVars /\ Return(w)
    BY <1>5 DEF HandlerDies, rowVars, payVars, gatewayVars, expiryVars
  <2>2. QED
    BY <1>2, <2>1, RowsUnchanged, SlotLeft DEF RowStep, IInv
<1>6. CASE UNCHANGED vars
  <2>1. UNCHANGED <<rowVars, handler>>
    BY <1>6 DEF vars, rowVars, payVars, gatewayVars, expiryVars
  <2>2. QED
    BY <1>1, <1>2, <2>1, RowsUnchanged, SlotsUnchanged
    DEF IInv, RowStep, RowInv, SlotInv
<1>7. QED
  BY <1>1, <1>3, <1>4, <1>5, <1>6 DEF Next, IInv, RowStep, RowInv, SlotInv

-----------------------------------------------------------------------------
\* The inductive invariant, of which every state property is a part.
THEOREM Inductive == Spec => []IInv
  BY InductiveInit, InductiveStep, PTL DEF Spec

\* Whatever interleaves, the gateway has captured the money of an order in
\* fulfilment, and its payment is PAID unless a callback contradicted bKash.
THEOREM NothingShipsUnpaid == Spec => []FulfilledMeansCaptured
<1>1. IInv => FulfilledMeansCaptured
  BY DEF IInv
<1>2. QED
  BY <1>1, Inductive, PTL

\* paidAt and canceledAt never contradict orders.status.
THEOREM StampsAgree == Spec => [](PaidAtMeansConfirmed /\ CanceledAtMeansCanceled)
<1>1. IInv => PaidAtMeansConfirmed /\ CanceledAtMeansCanceled
  BY DEF IInv
<1>2. QED
  BY <1>1, Inductive, PTL

\* No reader sees a settled payment beside an order that is still PENDING.
THEOREM SettledAtOnce == Spec => []SettledTogether
<1>1. IInv => SettledTogether
  BY DEF IInv
<1>2. QED
  BY <1>1, Inductive, PTL

\* Without an expiresAt, the payment service cancels only orders that were
\* never charged, and orders whose failure a browser reported and bKash had not
\* decided.
THEOREM NoChargeForCanceled == Spec => []PaymentCancelMeansNoCharge
<1>1. IInv => PaymentCancelMeansNoCharge
  BY DEF IInv, MoneyAgrees, PaymentCancelMeansNoCharge, Rejected
<1>2. QED
  BY <1>1, Inductive, PTL

\* No stale handler, job or cron overwrites PAID, but for a callback that brought
\* a status bKash had not given; it leaves FAILED.
THEOREM PaidStaysPaid == Spec => PaidIsFinal
<1>1. IInv /\ [Next]_vars
        => [\A o \in Orders :
               payStatus[o] = "PAID" =>
                   \/ payStatus'[o] = "PAID"
                   \/ payStatus'[o] = "FAILED" /\ o \in contradicted /\ Provider[o] = "BKASH"]_vars
  BY InductiveStep DEF Advances
<1>2. QED
  BY <1>1, Inductive, PTL DEF Spec, PaidIsFinal

-----------------------------------------------------------------------------
(* Refinement: the services implement the abstract life cycle.             *)

\* The three kinds of write to orders.status, each as an abstract move.
LEMMA SettleMove ==
  ASSUME TypeOK, NEW o \in Orders, NEW to \in {"CONFIRMED", "CANCELED"},
         orderStatus' = [orderStatus EXCEPT ![o] = IF @ = "PENDING" THEN to ELSE @]
  PROVE  [Lifecycle!Next]_orderStatus
<1>1. CASE orderStatus[o] = "PENDING"
  <2>1. Lifecycle!Settle(o)
    BY <1>1 DEF Lifecycle!Settle, Lifecycle!Move, TypeOK
  <2>2. QED
    BY <2>1 DEF Lifecycle!Next
<1>2. CASE orderStatus[o] # "PENDING"
  BY <1>2 DEF TypeOK
<1>3. QED
  BY <1>1, <1>2

LEMMA PlaceMove ==
  ASSUME IInv, NEW w \in Workers, NEW o \in Orders, CommitOrder(w, o)
  PROVE  Lifecycle!Next
<1>1. orderStatus[o] = "NONE"
  BY DEF CommitOrder, IInv, ReadsStillHold, Informed, Step, CheckoutStep
<1>2. Lifecycle!Place(o)
  BY <1>1 DEF CommitOrder, Lifecycle!Place, Lifecycle!Move
<1>3. QED
  BY <1>2 DEF Lifecycle!Next

LEMMA MarkMove ==
  ASSUME IInv, NEW w \in Workers, NEW o \in Orders,
         \/ WriteMark(w, o, "processing", "PROCESSING")
         \/ WriteMark(w, o, "shipped", "SHIPPED")
         \/ WriteMark(w, o, "delivered", "DELIVERED")
  PROVE  Lifecycle!Next
<1>1. \A s \in Step : At(w, s, o) => Informed(s, o)
  BY DEF IInv, ReadsStillHold
<1>2. CASE WriteMark(w, o, "processing", "PROCESSING")
  <2>1. orderStatus[o] \in {"CONFIRMED"} \cup Lifecycle!Marked
    BY <1>1, <1>2 DEF WriteMark, Informed, Step, CommitStep, Fulfilment, Lifecycle!Marked
  <2>2. Lifecycle!Start(o) \/ Lifecycle!Mark(o)
    BY <1>2, <2>1 DEF WriteMark, Lifecycle!Start, Lifecycle!Mark, Lifecycle!Move, Lifecycle!Marked
  <2>3. QED
    BY <2>2 DEF Lifecycle!Next
<1>3. CASE \/ WriteMark(w, o, "shipped", "SHIPPED")
           \/ WriteMark(w, o, "delivered", "DELIVERED")
  <2>1. orderStatus[o] \in Lifecycle!Marked
    BY <1>1, <1>3 DEF WriteMark, Informed, Step, CommitStep
  <2>2. Lifecycle!Mark(o)
    BY <1>3, <2>1 DEF WriteMark, Lifecycle!Mark, Lifecycle!Move, Lifecycle!Marked
  <2>3. QED
    BY <2>2 DEF Lifecycle!Next
<1>4. QED
  BY <1>2, <1>3

LEMMA LifecycleStep ==
  ASSUME IInv, [Next]_vars
  PROVE  [Lifecycle!Next]_orderStatus
<1>1. ASSUME NEW p \in Products, updateProduct(p) PROVE UNCHANGED orderStatus
  BY <1>1 DEF updateProduct, orderVars
<1>2. ASSUME NEW w \in Workers, NEW o \in Orders,
             \/ createOrder(w, o) \/ RollbackOrder(w, o) \/ cancelOrder(w, o)
             \/ RefuseCancel(w, o)
      PROVE  UNCHANGED orderStatus
  BY <1>2 DEF createOrder, RollbackOrder, cancelOrder, RefuseCancel, orderVars
<1>3. ASSUME NEW w \in Workers, NEW o \in Orders, CommitCancel(w, o)
      PROVE  [Lifecycle!Next]_orderStatus
  BY <1>3, SettleMove DEF CommitCancel, IInv
<1>4. ASSUME NEW w \in Workers, NEW o \in Orders,
             \/ markOrderAsProcessing(w, o) \/ markAsShipped(w, o)
             \/ markAsDelivered(w, o)
      PROVE  [Lifecycle!Next]_orderStatus
  BY <1>4, MarkMove
  DEF markOrderAsProcessing, markAsShipped, markAsDelivered, ReadForMark, orderVars
<1>5. CASE OrdersNext
  BY <1>1, <1>2, <1>3, <1>4, <1>5, PlaceMove DEF OrdersNext
<1>6. CASE FindOverdue \/ AbortSweep
  BY <1>6 DEF FindOverdue, AbortSweep, orderVars
<1>7. ASSUME NEW o \in Orders,
             \/ StripeSession(o) \/ BkashSession(o) \/ Elapse(o) \/ LoseJob(o)
      PROVE  UNCHANGED orderStatus
  BY <1>7 DEF StripeSession, BkashSession, MoveSession, Elapse, LoseJob, orderVars
<1>8. ASSUME NEW o \in Orders, expirePayment(o) \/ SweepPayment(o)
      PROVE  [Lifecycle!Next]_orderStatus
  <2>1. CASE CancelPending(o)
    BY <2>1, SettleMove DEF CancelPending, IInv
  <2>2. CASE UNCHANGED orderStatus
    BY <2>2
  <2>3. QED
    BY <1>8, <2>1, <2>2 DEF expirePayment, SweepPayment, Expire
<1>9. ASSUME NEW w \in Workers, NEW o \in Orders,
             \/ InsertPayment(w, o) \/ OpenSession(w, o)
             \/ LinkSession(w, o) \/ EnqueueExpiry(w, o)
             \/ StripeWebhook(w, o) \/ handleCallback(w, o)
             \/ ExecuteBkash(w, o) \/ ExecuteNotApproved(w, o)
             \/ QueryBkash(w, o) \/ FindForOutcome(w, o)
      PROVE  UNCHANGED orderStatus
  BY <1>9 DEF InsertPayment, OpenSession, LinkSession, EnqueueExpiry,
              StripeWebhook, handleCallback, ExecuteBkash, ExecuteNotApproved,
              QueryBkash, FindForOutcome, orderVars
<1>10. ASSUME NEW w \in Workers, NEW o \in Orders,
              \/ handlePaymentSuccess(w, o)
              \/ handlePaymentFailed(w, o)
              \/ handlePaymentExpired(w, o)
       PROVE  [Lifecycle!Next]_orderStatus
  BY <1>10, SettleMove
  DEF handlePaymentSuccess, handlePaymentFailed, handlePaymentExpired, CancelPending, IInv
<1>11. CASE PaymentsNext
  BY <1>6, <1>7, <1>8, <1>9, <1>10, <1>11 DEF PaymentsNext
<1>12. ASSUME NEW w \in Workers, HandlerDies(w) PROVE UNCHANGED orderStatus
  BY <1>12 DEF HandlerDies, orderVars
<1>13. CASE UNCHANGED vars
  BY <1>13 DEF vars, orderVars
<1>14. QED
  BY <1>5, <1>11, <1>12, <1>13 DEF Next

\* Every step of the services on orders.status is a step of the life cycle.
THEOREM LifecycleImplemented == Spec => ImplementsLifecycle
<1>1. Init => Lifecycle!Init
  BY DEF Init, Lifecycle!Init
<1>2. IInv /\ [Next]_vars => [Lifecycle!Next]_orderStatus
  BY LifecycleStep
<1>3. QED
  BY <1>1, <1>2, Inductive, PTL DEF Spec, ImplementsLifecycle, Lifecycle!Spec

-----------------------------------------------------------------------------
(* Units: what an order takes from the shelf, and what it gives back.      *)

\* Without finiteness the number of the units would mean nothing.
Ledger ==
    /\ \A p \in Products : IsFiniteSet(Units(p, Holding))
    /\ StockConserved

LEMMA UnitsOfOne ==
  ASSUME NEW p \in Products, NEW o \in Orders
  PROVE  /\ IsFiniteSet({o} \X (1 .. Cart[o][p]))
         /\ Cardinality({o} \X (1 .. Cart[o][p])) = Cart[o][p]
<1>1. Cart[o][p] \in Nat
  OBVIOUS
<1> DEFINE n == Cart[o][p]
           B == 1 .. n
<1> HIDE DEF n
<1>2. n \in Int /\ 1 \in Int /\ n >= 0
  BY <1>1 DEF n
<1>3. /\ IsFiniteSet(B)
      /\ Cardinality(B) = IF 1 > n THEN 0 ELSE n - 1 + 1
  BY <1>2, FS_Interval
<1>4. Cardinality(B) = n
  BY <1>2, <1>3
<1> HIDE DEF B
<1>5. IsFiniteSet({o}) /\ Cardinality({o}) = 1
  BY FS_Singleton
<1>6. /\ IsFiniteSet({o} \X B)
      /\ Cardinality({o} \X B) = Cardinality({o}) * Cardinality(B)
  BY <1>3, <1>5, FS_Product
<1>7. Cardinality({o} \X B) = n
  BY <1>2, <1>5, <1>6, <1>4
<1>8. QED
  BY <1>6, <1>7 DEF B, n

\* An order more is as many units more as its cart has.
LEMMA OneMoreOrder ==
  ASSUME NEW p \in Products, NEW S \in SUBSET Orders, NEW o \in Orders \ S,
         IsFiniteSet(Units(p, S)) \/ IsFiniteSet(Units(p, S \cup {o}))
  PROVE  /\ IsFiniteSet(Units(p, S)) /\ IsFiniteSet(Units(p, S \cup {o}))
         /\ Cardinality(Units(p, S)) \in Nat
         /\ Cardinality(Units(p, S \cup {o})) = Cardinality(Units(p, S)) + Cart[o][p]
<1> DEFINE B == {o} \X (1 .. Cart[o][p])
           U == Units(p, S)
<1>1. Units(p, S \cup {o}) = U \cup B
  BY DEF Units
<1>2. U \cap B = {}
  BY DEF Units
<1>3. IsFiniteSet(B) /\ Cardinality(B) = Cart[o][p]
  BY UnitsOfOne
<1> HIDE DEF U, B
<1>4. IsFiniteSet(U)
  BY <1>1, FS_Subset DEF U
<1>5. Cardinality(U \cup B) = Cardinality(U) + Cardinality(B) - Cardinality(U \cap B)
  BY <1>3, <1>4, FS_Union
<1>6. Cardinality(U \cap B) = 0
  BY <1>2, FS_EmptySet
<1>7. Cardinality(U) \in Nat /\ Cart[o][p] \in Nat
  BY <1>4, FS_CardinalityType
<1>8. IsFiniteSet(U \cup B)
  BY <1>3, <1>4, FS_Union
<1>9. Cardinality(U \cup B) = Cardinality(U) + Cart[o][p]
  BY <1>3, <1>5, <1>6, <1>7
<1>10. QED
  BY <1>1, <1>4, <1>7, <1>8, <1>9 DEF U

LEMMA LedgerKept ==
  ASSUME Ledger, Holding' = Holding, UNCHANGED <<stock, supply>>
  PROVE  Ledger'
  BY DEF Ledger, StockConserved, Units

\* CommitOrder takes what its order will hold.
LEMMA OrderTakes ==
  ASSUME IInv, Ledger, NEW w \in Workers, NEW o \in Orders, CommitOrder(w, o)
  PROVE  Ledger'
<1>1. orderStatus[o] = "NONE"
  BY DEF CommitOrder, IInv, ReadsStillHold, Informed, Step, CheckoutStep
<1>2. Holding \in SUBSET Orders /\ o \notin Holding /\ Holding' = Holding \cup {o}
  BY <1>1 DEF CommitOrder, Holding, Placed, Returned, Canceled, IInv, TypeOK
<1> SUFFICES ASSUME NEW p \in Products
             PROVE  /\ IsFiniteSet(Units(p, Holding'))
                    /\ stock'[p] + Cardinality(Units(p, Holding')) = supply'[p]
  BY DEF Ledger, StockConserved, Units
<1>3. /\ IsFiniteSet(Units(p, Holding'))
      /\ Cardinality(Units(p, Holding)) \in Nat
      /\ Cardinality(Units(p, Holding')) = Cardinality(Units(p, Holding)) + Cart[o][p]
  BY <1>2, OneMoreOrder DEF Ledger
<1>4. /\ stock'[p] = stock[p] - Cart[o][p] /\ supply'[p] = supply[p]
      /\ stock[p] \in Int /\ supply[p] \in Int /\ Cart[o][p] \in Int
  BY DEF CommitOrder, IInv, TypeOK
<1>5. stock[p] + Cardinality(Units(p, Holding)) = supply[p]
  BY DEF Ledger, StockConserved
<1>6. QED
  BY <1>3, <1>4, <1>5

\* CommitCancel gives back what its order held, once.
LEMMA CancelReturns ==
  ASSUME IInv, Ledger, NEW w \in Workers, NEW o \in Orders, CommitCancel(w, o)
  PROVE  Ledger'
<1> DEFINE Others == Holding \ {o}
<1>1. o \notin canceledAt
  BY DEF CommitCancel, IInv, CanceledAtMeansCanceled
<1>2. Others \in SUBSET Orders /\ Holding = Others \cup {o} /\ Holding' = Others
  BY <1>1 DEF CommitCancel, Holding, Placed, Returned, Canceled, IInv, TypeOK
<1>3. o \in Orders \ Others
  OBVIOUS
<1> SUFFICES ASSUME NEW p \in Products
             PROVE  /\ IsFiniteSet(Units(p, Others))
                    /\ stock'[p] + Cardinality(Units(p, Others)) = supply'[p]
  BY <1>2 DEF Ledger, StockConserved, Units
<1> HIDE DEF Others
<1>4. /\ IsFiniteSet(Units(p, Others))
      /\ Cardinality(Units(p, Others)) \in Nat
      /\ Cardinality(Units(p, Holding)) = Cardinality(Units(p, Others)) + Cart[o][p]
  BY <1>2, <1>3, OneMoreOrder DEF Ledger
<1>5. /\ stock'[p] = stock[p] + Cart[o][p] /\ supply'[p] = supply[p]
      /\ stock[p] \in Int /\ supply[p] \in Int /\ Cart[o][p] \in Int
  BY DEF CommitCancel, IInv, TypeOK
<1>6. stock[p] + Cardinality(Units(p, Holding)) = supply[p]
  BY DEF Ledger, StockConserved
<1>7. QED
  BY <1>4, <1>5, <1>6

\* An admin's absolute write moves the shelf and the supply alike.
LEMMA AdminWrites ==
  ASSUME IInv, Ledger, NEW q \in Products, updateProduct(q)
  PROVE  Ledger'
<1>1. Holding' = Holding
  BY DEF updateProduct, orderVars, Holding, Placed, Returned, Canceled
<1> SUFFICES ASSUME NEW p \in Products
             PROVE  stock'[p] + Cardinality(Units(p, Holding)) = supply'[p]
  BY <1>1 DEF Ledger, StockConserved, Units
<1>2. /\ stock[p] + Cardinality(Units(p, Holding)) = supply[p]
      /\ Cardinality(Units(p, Holding)) \in Nat
  BY FS_CardinalityType DEF Ledger, StockConserved
<1>3. PICK n \in Nat : /\ stock' = [stock EXCEPT ![q] = n]
                       /\ supply' = [supply EXCEPT ![q] = @ + n - stock[q]]
  BY DEF updateProduct, IInv, TypeOK
<1>4. stock \in [Products -> Nat] /\ supply \in [Products -> Int]
  BY DEF IInv, TypeOK
<1>5. CASE p = q
  BY <1>2, <1>3, <1>4, <1>5
<1>6. CASE p # q
  BY <1>2, <1>3, <1>4, <1>6
<1>7. QED
  BY <1>5, <1>6

\* The payment service confirms or cancels a pending order: it holds its units
\* before and after.
LEMMA SettledHolds ==
  ASSUME IInv, NEW o \in Orders,
         \/ CancelPending(o)
         \/ /\ orderStatus' = [orderStatus EXCEPT ![o] =
                                   IF @ = "PENDING" THEN "CONFIRMED" ELSE @]
            /\ canceledAt' = canceledAt
  PROVE  Holding' = Holding
  BY DEF CancelPending, Holding, Placed, Returned, Canceled, IInv, TypeOK

LEMMA MarkedHolds ==
  ASSUME IInv, NEW w \in Workers, NEW o \in Orders,
         NEW s \in {"processing", "shipped", "delivered"}, NEW to \in Lifecycle!Marked,
         WriteMark(w, o, s, to)
  PROVE  Holding' = Holding
<1>1. orderStatus[o] \in Fulfilment
  BY DEF WriteMark, IInv, ReadsStillHold, Informed, Step, CommitStep, Lifecycle!Marked, Fulfilment
<1>2. QED
  BY <1>1 DEF WriteMark, Holding, Placed, Returned, Canceled, IInv, TypeOK, Fulfilment,
              Lifecycle!Marked

LEMMA LedgerOrders ==
  ASSUME IInv, Ledger, OrdersNext
  PROVE  Ledger'
<1>1. ASSUME UNCHANGED <<orderStatus, canceledAt, stock, supply>>
      PROVE  Ledger'
  BY <1>1, LedgerKept DEF Holding, Placed, Returned, Canceled
<1>2. ASSUME NEW w \in Workers, NEW o \in Orders,
             \/ createOrder(w, o) \/ RollbackOrder(w, o) \/ cancelOrder(w, o)
             \/ RefuseCancel(w, o)
      PROVE  Ledger'
  BY <1>1, <1>2 DEF createOrder, RollbackOrder, cancelOrder, RefuseCancel,
                    orderVars, shopVars
<1>3. ASSUME NEW w \in Workers, NEW o \in Orders,
             \/ markOrderAsProcessing(w, o) \/ markAsShipped(w, o)
             \/ markAsDelivered(w, o)
      PROVE  Ledger'
  <2>1. ASSUME NEW from, NEW s, ReadForMark(w, o, from, s) PROVE Ledger'
    BY <1>1, <2>1 DEF ReadForMark, orderVars, shopVars
  <2>2. ASSUME NEW s \in {"processing", "shipped", "delivered"},
               NEW to \in Lifecycle!Marked, WriteMark(w, o, s, to)
        PROVE  Ledger'
    BY <2>2, MarkedHolds, LedgerKept DEF WriteMark, shopVars
  <2>3. QED
    BY <1>3, <2>1, <2>2
    DEF markOrderAsProcessing, markAsShipped, markAsDelivered, Lifecycle!Marked
<1>4. QED
  BY <1>2, <1>3, OrderTakes, CancelReturns, AdminWrites DEF OrdersNext

LEMMA LedgerPayments ==
  ASSUME IInv, Ledger, PaymentsNext
  PROVE  Ledger'
<1>1. ASSUME UNCHANGED <<orderStatus, canceledAt, stock, supply>>
      PROVE  Ledger'
  BY <1>1, LedgerKept DEF Holding, Placed, Returned, Canceled
<1>2. CASE FindOverdue \/ AbortSweep
  BY <1>1, <1>2 DEF FindOverdue, AbortSweep, orderVars, shopVars
<1>3. ASSUME NEW o \in Orders,
             \/ StripeSession(o) \/ BkashSession(o) \/ Elapse(o) \/ LoseJob(o)
      PROVE  Ledger'
  BY <1>1, <1>3 DEF StripeSession, BkashSession, MoveSession, Elapse, LoseJob,
                    orderVars, shopVars
<1>4. ASSUME NEW o \in Orders, expirePayment(o) \/ SweepPayment(o)
      PROVE  Ledger'
  <2>1. UNCHANGED <<stock, supply>>
    BY <1>4 DEF expirePayment, SweepPayment, shopVars
  <2>2. CASE CancelPending(o)
    BY <2>1, <2>2, SettledHolds, LedgerKept
  <2>3. CASE UNCHANGED <<orderStatus, canceledAt>>
    BY <1>1, <2>1, <2>3
  <2>4. QED
    BY <1>4, <2>2, <2>3 DEF expirePayment, SweepPayment, Expire
<1>5. ASSUME NEW w \in Workers, NEW o \in Orders,
             \/ InsertPayment(w, o) \/ OpenSession(w, o)
             \/ LinkSession(w, o) \/ EnqueueExpiry(w, o)
             \/ StripeWebhook(w, o) \/ handleCallback(w, o)
             \/ ExecuteBkash(w, o) \/ ExecuteNotApproved(w, o)
             \/ QueryBkash(w, o) \/ FindForOutcome(w, o)
      PROVE  Ledger'
  BY <1>1, <1>5 DEF InsertPayment, OpenSession, LinkSession, EnqueueExpiry,
              StripeWebhook, handleCallback, ExecuteBkash, ExecuteNotApproved,
              QueryBkash, FindForOutcome, orderVars, shopVars
<1>6. ASSUME NEW w \in Workers, NEW o \in Orders,
             \/ handlePaymentSuccess(w, o)
             \/ handlePaymentFailed(w, o)
             \/ handlePaymentExpired(w, o)
      PROVE  Ledger'
  BY <1>6, SettledHolds, LedgerKept
  DEF handlePaymentSuccess, handlePaymentFailed, handlePaymentExpired, shopVars
<1>7. QED
  BY <1>2, <1>3, <1>4, <1>5, <1>6 DEF PaymentsNext

LEMMA LedgerInit == Init => Ledger
<1> SUFFICES ASSUME Init PROVE Ledger
  OBVIOUS
<1>1. Holding = {}
  BY DEF Init, Holding, Placed
<1>2. \A p \in Products : Units(p, Holding) = {}
  BY <1>1 DEF Units
<1>3. \A p \in Products : stock[p] \in Nat /\ supply[p] = stock[p]
  BY DEF Init
<1>4. \A p \in Products : stock[p] + 0 = supply[p]
  BY <1>3
<1>5. IsFiniteSet({}) /\ Cardinality({}) = 0
  BY FS_EmptySet
<1>6. QED
  BY <1>2, <1>4, <1>5 DEF Ledger, StockConserved

\* Whatever interleaves, the units on the shelf and the units that orders hold
\* are the supply: no unit is sold twice, lost or returned twice.
THEOREM NoUnitLost == Spec => []StockConserved
<1>1. IInv /\ Ledger /\ [Next]_vars => Ledger'
  <2> SUFFICES ASSUME IInv, Ledger, [Next]_vars PROVE Ledger'
    OBVIOUS
  <2>1. ASSUME UNCHANGED <<orderVars, shopVars>> PROVE Ledger'
    BY <2>1, LedgerKept DEF Holding, Placed, Returned, Canceled, orderVars, shopVars
  <2>2. ASSUME NEW w \in Workers, HandlerDies(w) PROVE Ledger'
    BY <2>1, <2>2 DEF HandlerDies
  <2>3. CASE UNCHANGED vars
    BY <2>1, <2>3 DEF vars
  <2>4. QED
    BY <2>2, <2>3, LedgerOrders, LedgerPayments DEF Next
<1>2. Ledger => StockConserved
  BY DEF Ledger
<1>3. QED
  BY <1>1, <1>2, LedgerInit, Inductive, PTL DEF Spec

-----------------------------------------------------------------------------
(* Refinement: the services implement the abstract settlement.             *)

settlingVars == <<orderStatus, canceledAt, payStatus, gateway, contradicted>>

LEMMA NothingSettles == UNCHANGED settlingVars => UNCHANGED <<standing, payStatus, money, contradicted>>
  BY DEF settlingVars, standing, money, Standing, Money, Rejected

\* A step on the rows of one order is a step on one element of the mapping.
LEMMA StandingOfOne ==
  ASSUME NEW o \in Orders, \A x \in Orders \ {o} : Standing(x)' = Standing(x)
  PROVE  standing' = [standing EXCEPT ![o] = Standing(o)']
  BY DEF standing

LEMMA MoneyOfOne ==
  ASSUME NEW o \in Orders, \A x \in Orders \ {o} : Money(x)' = Money(x)
  PROVE  money' = [money EXCEPT ![o] = Money(o)']
  BY DEF money

\* The guarded updates of the order, as the abstract closing of an open order.
LEMMA OrderCloses ==
  ASSUME IInv, NEW o \in Orders, NEW close \in {"confirmed", "canceled"},
         \/ close = "canceled" /\ CancelPending(o)
         \/ /\ close = "confirmed"
            /\ orderStatus' = [orderStatus EXCEPT ![o] =
                                   IF @ = "PENDING" THEN "CONFIRMED" ELSE @]
            /\ canceledAt' = canceledAt
  PROVE  standing' = [standing EXCEPT ![o] = IF @ = "open" THEN close ELSE @]
<1> USE DEF IInv, TypeOK, OrderStatus, Standing, Fulfilment, CancelPending
<1>1. \A x \in Orders \ {o} : Standing(x)' = Standing(x)
  OBVIOUS
<1>2. Standing(o)' = IF Standing(o) = "open" THEN close ELSE Standing(o)
  <2>1. CASE orderStatus[o] = "PENDING"
    <3>1. CASE close = "canceled"
      BY <2>1, <3>1
    <3>2. CASE close = "confirmed"
      BY <2>1, <3>2
    <3>3. QED
      BY <3>1, <3>2
  <2>2. CASE orderStatus[o] # "PENDING"
    BY <2>2
  <2>3. QED
    BY <2>1, <2>2
<1> HIDE DEF IInv, TypeOK, OrderStatus, Standing, Fulfilment, CancelPending
<1>3. standing' = [standing EXCEPT ![o] = Standing(o)']
  BY <1>1, StandingOfOne
<1>4. standing[o] = Standing(o)
  BY DEF standing
<1>5. QED
  BY <1>2, <1>3, <1>4 DEF standing

LEMMA PlaceSettles ==
  ASSUME IInv, NEW w \in Workers, NEW o \in Orders, CommitOrder(w, o)
  PROVE  Settling!Place(o)
<1>1. orderStatus[o] = "NONE"
  BY DEF CommitOrder, IInv, ReadsStillHold, Informed, Step, CheckoutStep
<1>2. Standing(o) = "none" /\ Standing(o)' = "open"
  BY <1>1 DEF Standing, CommitOrder, IInv, TypeOK, Fulfilment
<1>3. \A x \in Orders \ {o} : Standing(x)' = Standing(x)
  BY DEF Standing, CommitOrder, IInv, TypeOK
<1>4. UNCHANGED <<payStatus, money, contradicted>>
  BY DEF CommitOrder, payVars, gatewayVars, money, Money, Rejected
<1>5. QED
  BY <1>2, <1>3, <1>4, StandingOfOne DEF Settling!Place, standing

LEMMA WithdrawSettles ==
  ASSUME IInv, NEW w \in Workers, NEW o \in Orders, CommitCancel(w, o)
  PROVE  Settling!Withdraw(o)
<1>1. o \notin canceledAt
  BY DEF CommitCancel, IInv, CanceledAtMeansCanceled
<1>2. Standing(o) = "open" /\ Standing(o)' = "withdrawn"
  BY <1>1 DEF Standing, CommitCancel, IInv, TypeOK, Fulfilment
<1>3. \A x \in Orders \ {o} : Standing(x)' = Standing(x)
  BY DEF Standing, CommitCancel, IInv, TypeOK
<1>4. UNCHANGED <<payStatus, money, contradicted>>
  BY DEF CommitCancel, payVars, gatewayVars, money, Money, Rejected
<1>5. QED
  BY <1>2, <1>3, <1>4, StandingOfOne DEF Settling!Withdraw, standing

LEMMA MarkSettlesNothing ==
  ASSUME IInv, NEW w \in Workers, NEW o \in Orders,
         NEW s \in {"processing", "shipped", "delivered"}, NEW to \in Lifecycle!Marked,
         WriteMark(w, o, s, to)
  PROVE  UNCHANGED <<standing, payStatus, money, contradicted>>
<1>1. orderStatus[o] \in Fulfilment
  BY DEF WriteMark, IInv, ReadsStillHold, Informed, Step, CommitStep, Lifecycle!Marked, Fulfilment
<1>2. \A x \in Orders : Standing(x)' = Standing(x)
  BY <1>1 DEF Standing, WriteMark, IInv, TypeOK, Fulfilment, Lifecycle!Marked
<1>3. QED
  BY <1>2 DEF WriteMark, payVars, gatewayVars, money, Money, Rejected, standing

LEMMA BillSettles ==
  ASSUME IInv, NEW w \in Workers, NEW o \in Orders, InsertPayment(w, o)
  PROVE  Settling!Bill(o)
<1>1. orderStatus[o] # "NONE" /\ payStatus[o] = "NONE"
  BY DEF InsertPayment, IInv, ReadsStillHold, Informed, Step, CheckoutStep
<1>2. Standing(o) # "none"
  BY <1>1 DEF Standing
<1>3. UNCHANGED <<standing, money, contradicted>>
  BY DEF InsertPayment, orderVars, gatewayVars, standing, Standing, money, Money, Rejected
<1>4. QED
  BY <1>1, <1>2, <1>3 DEF InsertPayment, Settling!Bill, standing

\* A session ends one way, once; short of that its moves are not seen.
LEMMA SessionDecides ==
  ASSUME IInv, NEW o \in Orders,
         NEW from \in SUBSET {"open", "shown", "processing", "approved"},
         NEW to \in GatewayState \ {"none"}, gateway[o] \in from,
         gateway' = [gateway EXCEPT ![o] = to],
         UNCHANGED <<orderStatus, canceledAt, payStatus, contradicted>>
  PROVE  Settling!Decide(o) \/ UNCHANGED <<standing, payStatus, money, contradicted>>
<1>1. payStatus[o] # "NONE"
  BY DEF IInv, RowsInOrder
<1>2. UNCHANGED standing
  BY DEF standing, Standing
<1>3. \A x \in Orders \ {o} : Money(x)' = Money(x)
  BY DEF Money, Rejected, IInv, TypeOK
<1>4. money' = [money EXCEPT ![o] = Money(o)']
  BY <1>3, MoneyOfOne
<1>5. Money(o) = "undecided" /\ gateway'[o] = to
  BY DEF Money, Rejected, IInv, TypeOK
<1>6. CASE to \in {"captured", "declined", "refused", "lapsed"}
  <2>1. Money(o)' \in {"captured", "rejected", "lapsed"}
    BY <1>5, <1>6 DEF Money, Rejected
  <2>2. QED
    BY <1>1, <1>2, <1>4, <1>5, <2>1 DEF Settling!Decide, money
<1>7. CASE to \notin {"captured", "declined", "refused", "lapsed"}
  <2>1. Money(o)' = Money(o)
    BY <1>5, <1>7 DEF Money, Rejected
  <2>2. QED
    BY <1>2, <1>3, <2>1 DEF money
<1>8. QED
  BY <1>6, <1>7

LEMMA PaySettles ==
  ASSUME IInv, NEW w \in Workers, NEW o \in Orders, handlePaymentSuccess(w, o)
  PROVE  Settling!Pay(o) \/ UNCHANGED <<standing, payStatus, money, contradicted>>
<1>1. gateway[o] = "captured"
  BY DEF handlePaymentSuccess, IInv, ReadsStillHold, Informed, Step, CommitStep
<1>2. /\ payStatus[o] \in {"PENDING", "EXPIRED", "PAID", "FAILED"}
      /\ payStatus[o] = "FAILED" => o \in contradicted
  BY <1>1 DEF IInv, TypeOK, PaymentStatus, RowsInOrder, MoneyAgrees, Rejected
<1>3. Money(o) = "captured" /\ UNCHANGED <<money, contradicted>>
  BY <1>1 DEF Money, Rejected, money, handlePaymentSuccess, gatewayVars
<1>4. CASE payStatus[o] = "PAID"
  <2>1. orderStatus[o] # "PENDING"
    BY <1>4 DEF IInv, SettledTogether
  <2>2. UNCHANGED <<orderStatus, canceledAt, payStatus, gateway, contradicted>>
    BY <1>4, <2>1 DEF handlePaymentSuccess, gatewayVars, IInv, TypeOK
  <2>3. QED
    BY <2>2, NothingSettles DEF settlingVars
<1>5. CASE payStatus[o] # "PAID"
  <2>1. standing' = [standing EXCEPT ![o] = IF @ = "open" THEN "confirmed" ELSE @]
    BY OrderCloses DEF handlePaymentSuccess
  <2>2. payStatus' = [payStatus EXCEPT ![o] = "PAID"]
    BY DEF handlePaymentSuccess
  <2>3. QED
    BY <1>2, <1>3, <1>5, <2>1, <2>2 DEF Settling!Pay, Settling!Settle, money
<1>6. QED
  BY <1>4, <1>5

LEMMA FailSettles ==
  ASSUME IInv, NEW w \in Workers, NEW o \in Orders, handlePaymentFailed(w, o)
  PROVE  Settling!Fail(o) \/ UNCHANGED <<standing, payStatus, money, contradicted>>
<1>1. Rejected(o) \/ o \in contradicted
  BY DEF handlePaymentFailed, IInv, ReadsStillHold, Informed, Step, CommitStep
<1>2. /\ payStatus[o] \in {"PENDING", "EXPIRED", "FAILED", "PAID"}
      /\ payStatus[o] = "PAID" => o \in contradicted
  BY <1>1 DEF IInv, TypeOK, PaymentStatus, RowsInOrder, MoneyAgrees, Rejected
<1>3. /\ Money(o) = "rejected" \/ o \in contradicted
      /\ UNCHANGED <<money, contradicted>>
  BY <1>1 DEF Money, Rejected, money, handlePaymentFailed, gatewayVars
<1>4. CASE payStatus[o] = "FAILED"
  <2>1. orderStatus[o] # "PENDING"
    BY <1>4 DEF IInv, SettledTogether
  <2>2. UNCHANGED <<orderStatus, canceledAt, payStatus, gateway, contradicted>>
    BY <1>4, <2>1 DEF handlePaymentFailed, CancelPending, gatewayVars, IInv, TypeOK
  <2>3. QED
    BY <2>2, NothingSettles DEF settlingVars
<1>5. CASE payStatus[o] # "FAILED"
  <2>1. standing' = [standing EXCEPT ![o] = IF @ = "open" THEN "canceled" ELSE @]
    BY OrderCloses DEF handlePaymentFailed
  <2>2. payStatus' = [payStatus EXCEPT ![o] = "FAILED"]
    BY DEF handlePaymentFailed
  <2>3. QED
    BY <1>2, <1>3, <1>5, <2>1, <2>2 DEF Settling!Fail, Settling!Settle, money
<1>6. QED
  BY <1>4, <1>5

\* What a browser reports of a pending payment settles nothing by itself.
LEMMA ReportSettles ==
  ASSUME IInv, NEW w \in Workers, NEW o \in Orders, handleCallback(w, o)
  PROVE  Settling!Contradict(o) \/ UNCHANGED <<standing, payStatus, money, contradicted>>
<1>1. UNCHANGED <<standing, payStatus, money>>
  BY DEF handleCallback, orderVars, payVars, standing, Standing, money, Money, Rejected
<1>2. \/ contradicted' = contradicted
      \/ ~ Rejected(o) /\ contradicted' = contradicted \cup {o}
  BY DEF handleCallback
<1>3. ~ Rejected(o) => Money(o) # "rejected"
  BY DEF Money
<1>4. payStatus[o] = "PENDING"
  BY DEF handleCallback
<1>5. QED
  BY <1>1, <1>2, <1>3, <1>4 DEF Settling!Contradict, money

\* The three ways to EXPIRED: the webhook, the delayed job and the cron.
LEMMA ExpireSettles ==
  ASSUME IInv, NEW o \in Orders, gateway[o] = "lapsed" \/ o \in Dated,
         payStatus[o] = "PENDING",
         payStatus' = [payStatus EXCEPT ![o] = "EXPIRED"], CancelPending(o),
         UNCHANGED gatewayVars
  PROVE  Settling!Expire(o)
<1>1. standing' = [standing EXCEPT ![o] = IF @ = "open" THEN "canceled" ELSE @]
  BY OrderCloses
<1>2. /\ UNCHANGED <<money, contradicted>>
      /\ gateway[o] = "lapsed" => money[o] = "lapsed"
  BY DEF Money, Rejected, money, gatewayVars
<1>3. QED
  BY <1>1, <1>2 DEF Settling!Expire, Settling!Settle

LEMMA LapseSettles ==
  ASSUME IInv, NEW w \in Workers, NEW o \in Orders, handlePaymentExpired(w, o)
  PROVE  Settling!Expire(o) \/ UNCHANGED <<standing, payStatus, money, contradicted>>
<1>1. gateway[o] = "lapsed"
  BY DEF handlePaymentExpired, IInv, ReadsStillHold, Informed, Step, CommitStep
<1>2. payStatus[o] \in {"PENDING", "EXPIRED"}
  BY <1>1 DEF IInv, TypeOK, PaymentStatus, RowsInOrder, MoneyAgrees, Rejected
<1>3. CASE payStatus[o] = "EXPIRED"
  <2>1. orderStatus[o] # "PENDING"
    BY <1>3 DEF IInv, SettledTogether
  <2>2. UNCHANGED <<orderStatus, canceledAt, payStatus, gateway, contradicted>>
    BY <1>3, <2>1 DEF handlePaymentExpired, CancelPending, gatewayVars, IInv, TypeOK
  <2>3. QED
    BY <2>2, NothingSettles DEF settlingVars
<1>4. CASE payStatus[o] = "PENDING"
  BY <1>1, <1>4, ExpireSettles DEF handlePaymentExpired
<1>5. QED
  BY <1>2, <1>3, <1>4

LEMMA OverdueSettles ==
  ASSUME IInv, NEW o \in Orders, expirePayment(o) \/ SweepPayment(o)
  PROVE  Settling!Expire(o) \/ UNCHANGED <<standing, payStatus, money, contradicted>>
<1>1. CASE payStatus[o] = "PENDING" /\ o \in Dated /\ Expire(o)
  BY <1>1, ExpireSettles DEF Expire, expirePayment, SweepPayment
<1>2. CASE UNCHANGED <<orderStatus, canceledAt, payStatus>>
  BY <1>2, NothingSettles DEF settlingVars, gatewayVars, expirePayment, SweepPayment
<1>3. QED
  BY <1>1, <1>2 DEF expirePayment, SweepPayment, Overdue, IInv, MoneyAgrees

LEMMA SettlementStep ==
  ASSUME IInv, [Next]_vars
  PROVE  [Settling!Next]_<<standing, payStatus, money, contradicted>>
<1> DEFINE Goal == [Settling!Next]_<<standing, payStatus, money, contradicted>>
<1>1. ASSUME UNCHANGED settlingVars PROVE Goal
  BY <1>1, NothingSettles
<1>2. ASSUME NEW o \in Orders,
             \/ Settling!Place(o) \/ Settling!Bill(o) \/ Settling!Decide(o)
             \/ Settling!Pay(o) \/ Settling!Fail(o) \/ Settling!Expire(o)
             \/ Settling!Withdraw(o) \/ Settling!Contradict(o)
             \/ UNCHANGED <<standing, payStatus, money, contradicted>>
      PROVE  Goal
  BY <1>2 DEF Settling!Next
<1> SUFFICES Goal
  OBVIOUS
<1> HIDE DEF Goal
<1> USE DEF settlingVars
<1>3. CASE OrdersNext
  <2>1. ASSUME NEW p \in Products, updateProduct(p) PROVE Goal
    BY <1>1, <2>1 DEF updateProduct, orderVars, payVars, gatewayVars
  <2>2. ASSUME NEW w \in Workers, NEW o \in Orders,
               \/ createOrder(w, o) \/ RollbackOrder(w, o) \/ cancelOrder(w, o)
               \/ RefuseCancel(w, o)
        PROVE  Goal
    BY <1>1, <2>2 DEF createOrder, RollbackOrder, cancelOrder, RefuseCancel,
                      orderVars, payVars, gatewayVars
  <2>3. ASSUME NEW w \in Workers, NEW o \in Orders, CommitOrder(w, o) \/ CommitCancel(w, o)
        PROVE  Goal
    BY <1>2, <2>3, PlaceSettles, WithdrawSettles
  <2>4. ASSUME NEW w \in Workers, NEW o \in Orders,
               \/ markOrderAsProcessing(w, o) \/ markAsShipped(w, o)
               \/ markAsDelivered(w, o)
        PROVE  Goal
    <3>1. ASSUME NEW from, NEW s, ReadForMark(w, o, from, s) PROVE Goal
      BY <1>1, <3>1 DEF ReadForMark, orderVars, payVars, gatewayVars
    <3>2. ASSUME NEW s \in {"processing", "shipped", "delivered"},
                 NEW to \in Lifecycle!Marked, WriteMark(w, o, s, to)
          PROVE  Goal
      BY <1>2, <3>2, MarkSettlesNothing
    <3>3. QED
      BY <2>4, <3>1, <3>2
      DEF markOrderAsProcessing, markAsShipped, markAsDelivered, Lifecycle!Marked
  <2>5. QED
    BY <1>3, <2>1, <2>2, <2>3, <2>4 DEF OrdersNext
<1>4. CASE PaymentsNext
  <2>1. CASE FindOverdue \/ AbortSweep
    BY <1>1, <2>1 DEF FindOverdue, AbortSweep, orderVars, payVars, gatewayVars
  <2>2. ASSUME NEW o \in Orders, Elapse(o) \/ LoseJob(o) PROVE Goal
    BY <1>1, <2>2 DEF Elapse, LoseJob, orderVars, payVars, gatewayVars
  <2>3. ASSUME NEW o \in Orders,
               NEW from \in SUBSET {"open", "shown", "processing", "approved"},
               NEW to \in GatewayState \ {"none"}, MoveSession(o, from, to)
        PROVE  Goal
    BY <1>2, <2>3, SessionDecides DEF MoveSession, orderVars, payVars, gatewayVars
  <2>4. ASSUME NEW o \in Orders, StripeSession(o) \/ BkashSession(o) PROVE Goal
    BY <2>3, <2>4 DEF StripeSession, BkashSession, GatewayState
  <2>5. ASSUME NEW o \in Orders, expirePayment(o) \/ SweepPayment(o) PROVE Goal
    BY <1>2, <2>5, OverdueSettles
  <2>6. ASSUME NEW w \in Workers, NEW o \in Orders,
               \/ LinkSession(w, o) \/ StripeWebhook(w, o)
               \/ ExecuteNotApproved(w, o) \/ QueryBkash(w, o) \/ FindForOutcome(w, o)
        PROVE  Goal
    BY <1>1, <2>6 DEF LinkSession, StripeWebhook,
                      ExecuteNotApproved, QueryBkash, FindForOutcome, orderVars, payVars, gatewayVars
  <2>7. ASSUME NEW w \in Workers, NEW o \in Orders, InsertPayment(w, o) \/ handleCallback(w, o)
        PROVE  Goal
    BY <1>2, <2>7, BillSettles, ReportSettles
  <2>8. ASSUME NEW w \in Workers, NEW o \in Orders, OpenSession(w, o) \/ EnqueueExpiry(w, o)
        PROVE  Goal
    <3>1. At(w, "provider", o) => gateway[o] = "none"
      BY DEF IInv, ReadsStillHold, Informed, Step, CheckoutStep
    <3>2. \A x \in Orders : Money(x)' = Money(x)
      BY <2>8, <3>1 DEF OpenSession, EnqueueExpiry, Money, Rejected, IInv, TypeOK
    <3>3. UNCHANGED <<standing, payStatus, money, contradicted>>
      BY <2>8, <3>2 DEF OpenSession, EnqueueExpiry, orderVars, payVars, gatewayVars, money,
                        standing, Standing
    <3>4. QED
      BY <1>2, <3>3
  <2>9. ASSUME NEW w \in Workers, NEW o \in Orders, ExecuteBkash(w, o) PROVE Goal
    <3>1. PICK to \in {"captured", "refused"} : gateway' = [gateway EXCEPT ![o] = to]
      BY <2>9 DEF ExecuteBkash
    <3>2. gateway[o] \in {"approved"} /\ UNCHANGED <<orderStatus, canceledAt, payStatus, contradicted>>
      BY <2>9 DEF ExecuteBkash, orderVars, payVars, gatewayVars
    <3>3. QED
      BY <1>2, <3>1, <3>2, SessionDecides DEF GatewayState
  <2>10. ASSUME NEW w \in Workers, NEW o \in Orders,
                \/ handlePaymentSuccess(w, o)
                \/ handlePaymentFailed(w, o)
                \/ handlePaymentExpired(w, o)
         PROVE  Goal
    BY <1>2, <2>10, PaySettles, FailSettles, LapseSettles
  <2>11. QED
    BY <1>4, <2>1, <2>2, <2>4, <2>5, <2>6, <2>7, <2>8, <2>9, <2>10 DEF PaymentsNext
<1>5. ASSUME NEW w \in Workers, HandlerDies(w) PROVE Goal
  BY <1>1, <1>5 DEF HandlerDies, orderVars, payVars, gatewayVars
<1>6. CASE UNCHANGED vars
  BY <1>1, <1>6 DEF vars, orderVars, payVars, gatewayVars
<1>7. QED
  BY <1>3, <1>4, <1>5, <1>6 DEF Next

\* Every step of the services on order, payment and money is a step of the
\* abstract settlement.
THEOREM SettlementImplemented == Spec => ImplementsSettlement
<1>1. Init => Settling!Init
  <2> SUFFICES ASSUME Init PROVE Settling!Init
    OBVIOUS
  <2>1. \A o \in Orders : Standing(o) = "none" /\ Money(o) = "undecided"
    BY DEF Init, Standing, Money, Rejected, Fulfilment
  <2>2. QED
    BY <2>1 DEF Init, Settling!Init, standing, money
<1>2. IInv /\ [Next]_vars => [Settling!Next]_Settling!vars
  BY SettlementStep DEF Settling!vars
<1>3. QED
  BY <1>1, <1>2, Inductive, PTL DEF Spec, ImplementsSettlement, Settling!Spec

=============================================================================
