------------------------------ MODULE MCCheckout ------------------------------
(***************************************************************************)
(* Checkout for TLC.  Its components share no state, so that running both  *)
(* at once would only multiply their states: each behaviour exercises one  *)
(* of them, chosen in the initial state, while the other one rests.        *)
(***************************************************************************)
EXTENDS Checkout, TLC

CONSTANTS
  bag, round,   \* a sale of two lines and one of a single line
  cut, gel      \* a service and a product

VARIABLE part   \* the component this behaviour exercises

MCGoodOf     == [l \in {cut, gel} |-> l]
MCLinesOf    == (bag :> {cut, gel}) @@ (round :> {gel})
MCQuantityOf == (cut :> 2) @@ (gel :> 1)

MCInit == part \in {"payments", "sales"} /\ CheckoutInit

MCNext ==
  /\ UNCHANGED part
  /\ \/ part = "payments" /\ PaymentsStep
     \/ part = "sales" /\ SalesStep

MCSpec == MCInit /\ [][MCNext]_<<part, all>>

Symmetry == Permutations(Commission) \cup Permutations(Request)
=============================================================================
