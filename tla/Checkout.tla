------------------------------ MODULE Checkout ------------------------------
(***************************************************************************)
(* What a customer is charged: the sales, with their commissions and the   *)
(* dashboard that counts them, and the payments.  They share no state      *)
(* (cancelling a sale leaves its payments alone), and the requests of each *)
(* run between those of the other.                                         *)
(***************************************************************************)
EXTENDS Sales

CONSTANTS Payment, Gateway, Teller, MaxApprovals   \* of Payments

VARIABLES payment, charge, approvals, raced        \* of Payments

Pay == INSTANCE Payments WITH Request <- Teller, req <- charge

ASSUME PaymentsAssumption == Pay!ConstantsAssumption

paymentsVars == <<payment, charge, approvals, raced>>
all          == <<vars, paymentsVars>>

-----------------------------------------------------------------------------

CheckoutInit == Init /\ Pay!Init

SalesStep    == Next /\ UNCHANGED paymentsVars
PaymentsStep == Pay!Next /\ UNCHANGED vars

CheckoutNext == SalesStep \/ PaymentsStep

CheckoutSpec == CheckoutInit /\ [][CheckoutNext]_all

-----------------------------------------------------------------------------
\* The properties of the components, under the names of the whole.

AllTypesOK == TypeOK /\ Pay!TypeOK

ApprovalFollowsPayment == Pay!ApprovalFollowsPayment
ApprovedOnce           == Pay!ApprovedOnce
PaidHasReceipt         == Pay!PaidHasReceipt
PaidIsFinal            == Pay!PaidIsFinal
=============================================================================
