---------------------------- MODULE MCOrderFlow -----------------------------
(* Instances of the order flow for TLC: a Stripe and a bKash order that     *)
(* want the same product.                                                   *)
EXTENDS OrderProgress, TLC

CONSTANTS o1, o2, p1, p2

OneProduct == (o1 :> (p1 :> 1)) @@ (o2 :> (p1 :> 1))
StripeAndBkash == (o1 :> "STRIPE") @@ (o2 :> "BKASH")
OneOrder == o1 :> (p1 :> 1)
Stripe == o1 :> "STRIPE"
StockOne == p1 :> 1
StockTwo == p1 :> 2

WorkerSymmetry == Permutations(Workers)

=============================================================================
