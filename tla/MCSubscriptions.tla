--------------------------- MODULE MCSubscriptions ---------------------------
(***************************************************************************)
(* Instances of Subscriptions for TLC: one customer and one plan, whose    *)
(* cycles are so short that expiry falls inside the clock.                 *)
(***************************************************************************)
EXTENDS Subscriptions, TLC

MCDefaultDays == [i \in Interval |-> 2]

Symmetry == Permutations(Subscription) \cup Permutations(Request)
=============================================================================
