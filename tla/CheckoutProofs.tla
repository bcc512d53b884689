---------------------------- MODULE CheckoutProofs ----------------------------
(***************************************************************************)
(* For any payments, gateways and requests: nobody is told of a payment    *)
(* that was not recorded, and a payment that no two requests work on at    *)
(* once is announced once and final.  For any sales, lines, prices and     *)
(* requests: a stored sale earns a commission for each of its lines unless *)
(* its event was lost, and the figures of a dashboard agree.               *)
(***************************************************************************)
EXTENDS Checkout, FiniteSetTheorems, TLAPS

-----------------------------------------------------------------------------
\* Payments.

LEMMA PaymentsConstants ==
  /\ Gateway \subseteq {"MANUAL", "ASAAS", "MERCADO_PAGO", "STRIPE"}
  /\ MaxApprovals \in Nat
  /\ Null \notin Payment \cup Pay!Row
BY PaymentsAssumption DEF Pay!ConstantsAssumption

Working(r) == charge[r].at \in {"charge", "confirm", "cancel"}

\* What every request holds, whatever the others do.
TellerOK ==
  \A r \in Teller :
    /\ charge[r].at = "idle" => charge[r] = Pay!Idle
    /\ charge[r].at # "idle" => charge[r].id \in Payment /\ Pay!Exists(charge[r].id)
    /\ charge[r].at = "confirm" => payment[charge[r].id].gateway = "MANUAL"
    /\ charge[r].at = "approve" => payment[charge[r].id].paidAt

\* What the only request at work on a payment has read is still so.
ReadingOK ==
  /\ \A r, q \in Teller :
       r # q /\ Working(r) /\ Working(q) /\ charge[r].id = charge[q].id
       => charge[r].id \in raced
  /\ \A r \in Teller : Working(r) /\ charge[r].id \notin raced =>
       IF charge[r].at = "cancel" THEN payment[charge[r].id].status \in Pay!Cancellable
                               ELSE payment[charge[r].id].status = "PENDING"

\* A payment is announced by the one request that recorded it, and only then.
OneMessage ==
  /\ \A p \in Payment : ~Pay!Exists(p) => approvals[p] = 0
  /\ \A p \in Payment \ raced :
       /\ Pay!Exists(p) /\ payment[p].status # "PAID" =>
            approvals[p] = 0 /\ \A r \in Teller : charge[r].at = "approve" => charge[r].id # p
       /\ \A r \in Teller :
            charge[r].at = "approve" /\ charge[r].id = p => approvals[p] = 0
       /\ \A r, q \in Teller :
            /\ charge[r].at = "approve" /\ charge[q].at = "approve"
            /\ charge[r].id = p /\ charge[q].id = p
            => r = q

PaymentsInv ==
  /\ Pay!TypeOK /\ TellerOK /\ ReadingOK /\ OneMessage
  /\ Pay!PaidHasReceipt /\ Pay!ApprovalFollowsPayment /\ Pay!ApprovedOnce

LEMMA PaymentsInitOK == Pay!Init => PaymentsInv
BY PaymentsConstants
   DEF Pay!Init, PaymentsInv, Pay!TypeOK, TellerOK, ReadingOK, OneMessage,
       Pay!PaidHasReceipt,
       Pay!ApprovalFollowsPayment, Pay!ApprovedOnce, Pay!Exists, Pay!Idle, Working

-----------------------------------------------------------------------------

\* A payment that comes into being, of which no request knows yet.
LEMMA InsertKeeps ==
  ASSUME PaymentsInv, NEW r \in Teller, NEW p \in Payment, NEW g \in Gateway,
         Pay!Insert(r, p, g)
  PROVE  PaymentsInv'
<1> DEFINE row == [gateway |-> g, status |-> "PENDING", externalId |-> FALSE,
                   paidAt |-> FALSE, cancelledAt |-> FALSE]
<1> USE DEF PaymentsInv
<1>1. /\ charge[r] = Pay!Idle /\ ~Pay!Exists(p)
      /\ payment' = [payment EXCEPT ![p] = row]
      /\ charge' = [charge EXCEPT ![r] = [at |-> "charge", id |-> p]]
      /\ UNCHANGED <<approvals, raced>>
  BY DEF Pay!Insert, Pay!Goto
<1>2. row \in Pay!Row /\ row # Null
  <2>1. row \in Pay!Row
    BY DEF Pay!Row, Pay!Status
  <2> HIDE DEF row
  <2> QED
    BY <2>1, PaymentsConstants
<1>3. row.status = "PENDING" /\ ~row.paidAt
  OBVIOUS
<1> HIDE DEF row
<1>4. \A q \in Teller : charge[q].at # "idle" => charge[q].id # p
  BY <1>1 DEF TellerOK
<1>5. Pay!TypeOK'
  BY <1>1, <1>2 DEF Pay!TypeOK
<1>6. TellerOK'
  BY <1>1, <1>2, <1>4 DEF Pay!TypeOK, TellerOK, Pay!Exists, Pay!Idle
<1>7. ReadingOK'
  BY <1>1, <1>3, <1>4 DEF Pay!TypeOK, ReadingOK, Working
<1>8. OneMessage'
  BY <1>1, <1>2, <1>3, <1>4 DEF Pay!TypeOK, OneMessage, Pay!Exists
<1>9. Pay!PaidHasReceipt' /\ Pay!ApprovalFollowsPayment' /\ Pay!ApprovedOnce'
  BY <1>1, <1>2, <1>3
     DEF Pay!TypeOK, OneMessage, Pay!PaidHasReceipt, Pay!ApprovalFollowsPayment,
         Pay!ApprovedOnce, Pay!Exists
<1> QED
  BY <1>5, <1>6, <1>7, <1>8, <1>9

\* A request that begins to confirm or to cancel a payment it has read.
LEMMA EnterKeeps ==
  ASSUME PaymentsInv, NEW r \in Teller, NEW p \in Payment,
         NEW step \in {"confirm", "cancel"},
         charge[r] = Pay!Idle, Pay!Exists(p), Pay!Enter(r, step, p), UNCHANGED <<payment, approvals>>,
         IF step = "cancel" THEN payment[p].status \in Pay!Cancellable
                            ELSE payment[p].status = "PENDING" /\ payment[p].gateway = "MANUAL"
  PROVE  PaymentsInv'
<1> USE DEF PaymentsInv
<1>1. /\ charge' = [charge EXCEPT ![r] = [at |-> step, id |-> p]]
      /\ raced' = IF \E q \in Teller : charge[q].id = p /\ charge[q].at # "approve"
                  THEN raced \cup {p} ELSE raced
  BY DEF Pay!Enter, Pay!Goto
<1>2. Pay!TypeOK'
  BY <1>1 DEF Pay!TypeOK
<1>3. TellerOK'
  BY <1>1 DEF Pay!TypeOK, TellerOK, Pay!Exists, Pay!Idle
<1>4. ReadingOK'
  BY <1>1 DEF Pay!TypeOK, ReadingOK, Working
<1>5. OneMessage'
  BY <1>1 DEF Pay!TypeOK, OneMessage, Pay!Exists
<1>6. Pay!PaidHasReceipt' /\ Pay!ApprovalFollowsPayment' /\ Pay!ApprovedOnce'
  BY <1>1
     DEF Pay!TypeOK, Pay!PaidHasReceipt, Pay!ApprovalFollowsPayment, Pay!ApprovedOnce,
         Pay!Exists
<1> QED
  BY <1>2, <1>3, <1>4, <1>5, <1>6

\* A request at work on a payment that writes anything but PAID, and is done.
LEMMA WriteKeeps ==
  ASSUME PaymentsInv, NEW r \in Teller, Working(r), NEW row \in Pay!Row,
         row.gateway = payment[charge[r].id].gateway,
         row.paidAt = payment[charge[r].id].paidAt,
         row.status # "PAID",
         payment' = [payment EXCEPT ![charge[r].id] = row],
         Pay!Answer(r), UNCHANGED <<approvals, raced>>
  PROVE  PaymentsInv'
<1> DEFINE p == charge[r].id
<1> USE DEF PaymentsInv
<1>1. p \in Payment /\ Pay!Exists(p) /\ row # Null
  BY PaymentsConstants DEF Pay!TypeOK, TellerOK, Working, Pay!Exists, Pay!Row
<1>2. charge' = [charge EXCEPT ![r] = Pay!Idle] /\ Pay!Idle.at = "idle" /\ Pay!Idle.id = Null
  BY DEF Pay!Answer, Pay!Idle
<1>3. p \notin raced => payment[p].status # "PAID"
  BY DEF ReadingOK, Working, Pay!Cancellable
<1>4. Pay!TypeOK'
  BY <1>1, <1>2 DEF Pay!TypeOK, Pay!Idle
<1>5. TellerOK'
  BY <1>1, <1>2 DEF Pay!TypeOK, TellerOK, Pay!Exists
<1>6. \A q \in Teller \ {r} : Working(q) /\ charge[q].id = p => p \in raced
  BY DEF ReadingOK
<1>7. ReadingOK'
  BY <1>1, <1>2, <1>6 DEF Pay!TypeOK, ReadingOK, Working
<1>8. OneMessage'
  BY <1>1, <1>2, <1>3 DEF Pay!TypeOK, OneMessage, Pay!Exists
<1>9. Pay!PaidHasReceipt' /\ Pay!ApprovalFollowsPayment' /\ Pay!ApprovedOnce'
  BY <1>1, <1>2
     DEF Pay!TypeOK, Pay!PaidHasReceipt, Pay!ApprovalFollowsPayment, Pay!ApprovedOnce,
         Pay!Exists
<1> QED
  BY <1>4, <1>5, <1>7, <1>8, <1>9

LEMMA ApplyChargeKeeps ==
  ASSUME PaymentsInv, NEW r \in Teller, Pay!ApplyCharge(r)
  PROVE  PaymentsInv'
<1> DEFINE row == [payment[charge[r].id] EXCEPT !.status = "PENDING", !.externalId = TRUE]
<1>1. Working(r) /\ payment[charge[r].id] \in Pay!Row
  BY DEF PaymentsInv, Pay!TypeOK, TellerOK, Pay!Exists, Pay!ApplyCharge, Working
<1>2. /\ row \in Pay!Row /\ row.gateway = payment[charge[r].id].gateway
      /\ row.paidAt = payment[charge[r].id].paidAt /\ row.status # "PAID"
  BY <1>1 DEF Pay!Row, Pay!Status
<1>3. payment' = [payment EXCEPT ![charge[r].id] = row]
  BY DEF Pay!ApplyCharge
<1> HIDE DEF row
<1> QED
  BY <1>1, <1>2, <1>3, WriteKeeps DEF Pay!ApplyCharge

LEMMA ChargeFailsKeeps ==
  ASSUME PaymentsInv, NEW r \in Teller, Pay!ChargeFails(r)
  PROVE  PaymentsInv'
<1> DEFINE row == [payment[charge[r].id] EXCEPT !.status = "FAILED"]
<1>1. Working(r) /\ payment[charge[r].id] \in Pay!Row
  BY DEF PaymentsInv, Pay!TypeOK, TellerOK, Pay!Exists, Pay!ChargeFails, Working
<1>2. /\ row \in Pay!Row /\ row.gateway = payment[charge[r].id].gateway
      /\ row.paidAt = payment[charge[r].id].paidAt /\ row.status # "PAID"
  BY <1>1 DEF Pay!Row, Pay!Status
<1>3. payment' = [payment EXCEPT ![charge[r].id] = row]
  BY DEF Pay!ChargeFails
<1> HIDE DEF row
<1> QED
  BY <1>1, <1>2, <1>3, WriteKeeps DEF Pay!ChargeFails

LEMMA WriteCancelledKeeps ==
  ASSUME PaymentsInv, NEW r \in Teller, Pay!WriteCancelled(r)
  PROVE  PaymentsInv'
<1> DEFINE row == [payment[charge[r].id] EXCEPT !.status = "CANCELLED", !.cancelledAt = TRUE]
<1>1. Working(r) /\ payment[charge[r].id] \in Pay!Row
  BY DEF PaymentsInv, Pay!TypeOK, TellerOK, Pay!Exists, Pay!WriteCancelled, Working
<1>2. /\ row \in Pay!Row /\ row.gateway = payment[charge[r].id].gateway
      /\ row.paidAt = payment[charge[r].id].paidAt /\ row.status # "PAID"
  BY <1>1 DEF Pay!Row, Pay!Status
<1>3. payment' = [payment EXCEPT ![charge[r].id] = row]
  BY DEF Pay!WriteCancelled
<1> HIDE DEF row
<1> QED
  BY <1>1, <1>2, <1>3, WriteKeeps DEF Pay!WriteCancelled

\* The payment is recorded; the request that did so has yet to announce it.
LEMMA WritePaidKeeps ==
  ASSUME PaymentsInv, NEW r \in Teller, Pay!WritePaid(r)
  PROVE  PaymentsInv'
<1> DEFINE p   == charge[r].id
           row == [payment[p] EXCEPT !.status = "PAID", !.externalId = TRUE,
                                     !.paidAt = TRUE]
<1> USE DEF PaymentsInv
<1>1. /\ charge[r].at = "confirm" /\ p \in Payment /\ payment[p] \in Pay!Row
      /\ payment' = [payment EXCEPT ![p] = row]
      /\ charge' = [charge EXCEPT ![r] = [at |-> "approve", id |-> p]]
      /\ UNCHANGED <<approvals, raced>>
  BY DEF Pay!TypeOK, TellerOK, Pay!Exists, Pay!WritePaid, Pay!Goto
<1>2. /\ row \in Pay!Row /\ row.status = "PAID" /\ row.externalId /\ row.paidAt
      /\ row.gateway = payment[p].gateway /\ row.gateway = "MANUAL"
  BY <1>1 DEF Pay!Row, Pay!Status, TellerOK
<1>3. row # Null /\ Pay!Exists(p)
  BY <1>1, <1>2, PaymentsConstants DEF Pay!Row, TellerOK
<1>4. p \notin raced =>
        /\ approvals[p] = 0
        /\ \A q \in Teller : charge[q].at = "approve" => charge[q].id # p
        /\ \A q \in Teller \ {r} : Working(q) => charge[q].id # p
  BY <1>1, <1>3 DEF ReadingOK, OneMessage, Working
<1> HIDE DEF row
<1>5. Pay!TypeOK'
  BY <1>1, <1>2 DEF Pay!TypeOK
<1>6. TellerOK'
  BY <1>1, <1>2, <1>3 DEF Pay!TypeOK, TellerOK, Pay!Exists
<1>7. ReadingOK'
  BY <1>1, <1>4 DEF Pay!TypeOK, ReadingOK, Working
<1>8. OneMessage'
  BY <1>1, <1>2, <1>3, <1>4 DEF Pay!TypeOK, OneMessage, Pay!Exists
<1>9. Pay!PaidHasReceipt' /\ Pay!ApprovalFollowsPayment' /\ Pay!ApprovedOnce'
  BY <1>1, <1>2, <1>3
     DEF Pay!TypeOK, Pay!PaidHasReceipt, Pay!ApprovalFollowsPayment, Pay!ApprovedOnce,
         Pay!Exists
<1> QED
  BY <1>5, <1>6, <1>7, <1>8, <1>9

LEMMA EmitApprovedKeeps ==
  ASSUME PaymentsInv, NEW r \in Teller, Pay!EmitApproved(r)
  PROVE  PaymentsInv'
<1> DEFINE p == charge[r].id
<1> USE DEF PaymentsInv
<1>1. /\ charge[r].at = "approve" /\ p \in Payment /\ Pay!Exists(p) /\ payment[p].paidAt
      /\ approvals[p] < MaxApprovals
      /\ approvals' = [approvals EXCEPT ![p] = @ + 1]
      /\ charge' = [charge EXCEPT ![r] = Pay!Idle] /\ Pay!Idle.at = "idle" /\ Pay!Idle.id = Null
      /\ UNCHANGED <<payment, raced>>
  BY DEF Pay!TypeOK, TellerOK, Pay!Exists, Pay!EmitApproved, Pay!Answer, Pay!Idle
<1>2. p \notin raced =>
        /\ approvals[p] = 0 /\ payment[p].status = "PAID"
        /\ \A q \in Teller \ {r} : charge[q].at = "approve" => charge[q].id # p
  BY <1>1 DEF OneMessage
<1>3. /\ approvals'[p] \in 0..MaxApprovals
      /\ p \notin raced => approvals'[p] = 1
      /\ \A q \in Payment \ {p} : approvals'[q] = approvals[q]
  BY <1>1, <1>2, PaymentsConstants DEF Pay!TypeOK
<1>4. Pay!TypeOK'
  BY <1>1, <1>3 DEF Pay!TypeOK, Pay!Idle
<1>5. TellerOK'
  BY <1>1 DEF Pay!TypeOK, TellerOK, Pay!Exists
<1>6. ReadingOK'
  BY <1>1 DEF Pay!TypeOK, ReadingOK, Working
<1>7. OneMessage'
  BY <1>1, <1>2, <1>3 DEF Pay!TypeOK, OneMessage, Pay!Exists
<1>8. Pay!PaidHasReceipt' /\ Pay!ApprovalFollowsPayment' /\ Pay!ApprovedOnce'
  BY <1>1, <1>3
     DEF Pay!TypeOK, Pay!PaidHasReceipt, Pay!ApprovalFollowsPayment, Pay!ApprovedOnce,
         Pay!Exists
<1> QED
  BY <1>4, <1>5, <1>6, <1>7, <1>8

LEMMA AbortKeeps ==
  ASSUME PaymentsInv, NEW r \in Teller, Pay!Abort(r)
  PROVE  PaymentsInv'
<1> USE DEF PaymentsInv
<1>1. /\ charge' = [charge EXCEPT ![r] = Pay!Idle] /\ Pay!Idle.at = "idle" /\ Pay!Idle.id = Null
      /\ UNCHANGED <<payment, approvals, raced>>
  BY DEF Pay!Abort, Pay!Answer, Pay!Idle
<1>2. Pay!TypeOK' /\ TellerOK'
  BY <1>1 DEF Pay!TypeOK, TellerOK, Pay!Exists, Pay!Idle
<1>3. ReadingOK' /\ OneMessage'
  BY <1>1 DEF Pay!TypeOK, ReadingOK, Working, OneMessage, Pay!Exists
<1>4. Pay!PaidHasReceipt' /\ Pay!ApprovalFollowsPayment' /\ Pay!ApprovedOnce'
  BY <1>1 DEF Pay!PaidHasReceipt, Pay!ApprovalFollowsPayment, Pay!ApprovedOnce, Pay!Exists
<1> QED
  BY <1>2, <1>3, <1>4

LEMMA PaymentsStepOK == PaymentsInv /\ [Pay!Next]_paymentsVars => PaymentsInv'
<1> SUFFICES ASSUME PaymentsInv, [Pay!Next]_paymentsVars PROVE PaymentsInv'
  OBVIOUS
<1>1. ASSUME NEW r \in Teller, NEW p \in Payment, Pay!BeginConfirm(r, p) PROVE PaymentsInv'
  BY <1>1, EnterKeeps DEF Pay!BeginConfirm
<1>2. ASSUME NEW r \in Teller, NEW p \in Payment, Pay!BeginCancel(r, p) PROVE PaymentsInv'
  BY <1>2, EnterKeeps DEF Pay!BeginCancel
<1>3. CASE UNCHANGED paymentsVars
  BY <1>3
     DEF paymentsVars, PaymentsInv, Pay!TypeOK, TellerOK, ReadingOK, OneMessage,
         Pay!PaidHasReceipt,
              Pay!ApprovalFollowsPayment, Pay!ApprovedOnce, Pay!Exists, Working
<1> QED
  BY <1>1, <1>2, <1>3, InsertKeeps, ApplyChargeKeeps, ChargeFailsKeeps, WritePaidKeeps,
     EmitApprovedKeeps, WriteCancelledKeeps, AbortKeeps DEF Pay!Next

-----------------------------------------------------------------------------

\* Seen from the payments, the sales only let time pass.
LEMMA StepForPayments == [CheckoutNext]_all => [Pay!Next]_paymentsVars
BY DEF CheckoutNext, SalesStep, PaymentsStep, all, paymentsVars

\* A request knows the payment it works on, and an announcement belongs to the one
\* request that recorded the payment: the inductive invariant of the payments.
THEOREM PaymentsInvariant == CheckoutSpec => []PaymentsInv
<1>1. CheckoutInit => PaymentsInv
  BY PaymentsInitOK DEF CheckoutInit
<1>2. PaymentsInv /\ [CheckoutNext]_all => PaymentsInv'
  BY PaymentsStepOK, StepForPayments
<1> QED
  BY <1>1, <1>2, PTL DEF CheckoutSpec

\* However requests interleave, a payment shown as paid has its date and its
\* charge, and is a manual one.
THEOREM PaidPaymentsHaveReceipts == CheckoutSpec => []PaidHasReceipt
<1>1. PaymentsInv => PaidHasReceipt
  BY DEF PaymentsInv, PaidHasReceipt
<1> QED
  BY <1>1, PaymentsInvariant, PTL

\* However requests interleave, nobody is told of a payment that was not
\* recorded.
THEOREM ApprovalsFollowPayments == CheckoutSpec => []ApprovalFollowsPayment
<1>1. PaymentsInv => ApprovalFollowsPayment
  BY DEF PaymentsInv, ApprovalFollowsPayment
<1> QED
  BY <1>1, PaymentsInvariant, PTL

\* The customer is told at most once of a payment that no two requests worked
\* on at once.
THEOREM PaymentsAreApprovedOnce == CheckoutSpec => []ApprovedOnce
<1>1. PaymentsInv => ApprovedOnce
  BY DEF PaymentsInv, ApprovedOnce
<1> QED
  BY <1>1, PaymentsInvariant, PTL

\* No request writes a paid payment that it alone works on.
THEOREM PaidPaymentsAreFinal == CheckoutSpec => PaidIsFinal
<1>1. ASSUME PaymentsInv, [Pay!Next]_paymentsVars, NEW p \in Payment \ raced, Pay!Exists(p),
             payment[p].status = "PAID"
      PROVE  payment'[p] = payment[p]
  <2>1. \A r \in Teller : Working(r) => charge[r].id # p
    BY <1>1 DEF PaymentsInv, ReadingOK, Working, Pay!Cancellable
  <2>2. ASSUME NEW r \in Teller, NEW q \in Payment, NEW g \in Gateway, Pay!Insert(r, q, g)
        PROVE  payment'[p] = payment[p]
    BY <1>1, <2>2 DEF PaymentsInv, Pay!TypeOK, Pay!Insert
  <2>3. ASSUME NEW r \in Teller, Pay!ApplyCharge(r) \/ Pay!ChargeFails(r) \/ Pay!WritePaid(r)
                                  \/ Pay!WriteCancelled(r)
        PROVE  payment'[p] = payment[p]
    BY <1>1, <2>1, <2>3
       DEF PaymentsInv, Pay!TypeOK, Pay!ApplyCharge, Pay!ChargeFails, Pay!WritePaid,
           Pay!WriteCancelled, Working
  <2> QED
    BY <1>1, <2>2, <2>3
       DEF Pay!Next, Pay!BeginConfirm, Pay!BeginCancel, Pay!EmitApproved, Pay!Abort,
           paymentsVars
<1>2. PaymentsInv /\ [Pay!Next]_paymentsVars =>
        [\A p \in Payment \ raced :
           Pay!Exists(p) /\ payment[p].status = "PAID" => payment'[p] = payment[p]]_payment
  BY <1>1
<1> QED
  BY <1>2, PaymentsInvariant, StepForPayments, PTL
     DEF CheckoutSpec, PaidIsFinal, Pay!PaidIsFinal

-----------------------------------------------------------------------------
\* Sales.

\* Every line of a sale has earned one commission.
Complete(s) ==
  /\ {commissions[c].item : c \in C!RowsOf(s)} = LinesOf[s]
  /\ \A c, d \in C!RowsOf(s) : commissions[c].item = commissions[d].item => c = d

\* What a request remembers: a sale it prepares is not stored yet, one that it
\* announces or cancels is, and what a dashboard has counted so far is so, unless
\* it is disturbed.
CallerOK(p) ==
  /\ p.at \in {"idle", "items", "insert", "emit", "cancel", "sales", "services", "overview"}
  /\ p.at = "idle" => p = Idle
  /\ p.at \in {"items", "insert"} =>
       p.sale \in Sale /\ ~Exists(p.sale) /\ p.discount \in Discount
  /\ p.at = "insert" =>
       p.amount \in [LinesOf[p.sale] -> Nat] /\ p.discount <= Subtotal(p.amount)
  /\ p.at \in {"emit", "cancel"} => p.sale \in Sale /\ Exists(p.sale)
  /\ p.at = "emit" => p.sale \notin delivered
  /\ p.at = "sales" => p.period \subseteq Sale
  /\ p.at = "services" =>
       p \in [at : {"services"}, period : SUBSET Sale, disturbed : BOOLEAN,
              salesCount : {p.salesCount}, salesTotal : {p.salesTotal}]
  /\ p.at = "services" /\ ~p.disturbed =>
       /\ p.salesCount = Cardinality(Sold(p.period))
       /\ p.salesTotal = TotalOf(Sold(p.period))
  /\ p.at = "overview" /\ ~p.disturbed =>
       \E sold \in SUBSET Sale :
         /\ \A s \in sold : Exists(s)
         /\ p.salesCount = Cardinality(sold)
         /\ p.salesTotal = TotalOf(sold)
         /\ p.services = Services(sold)

\* No two requests are about to store, or to announce, the same sale.
Apart(p, q) ==
  /\ p.at \in {"items", "insert"} /\ q.at \in {"items", "insert"} => p.sale # q.sale
  /\ p.at = "emit" /\ q.at = "emit" => p.sale # q.sale

\* Nothing happens for a sale before its event, and afterwards a run of the
\* listener is at work on it until it has its commissions or is lost.
SaleOK(s) ==
  /\ s \notin delivered =>
       C!RowsOf(s) = {} /\ \A j \in Job : job[j].source # s
  /\ s \in delivered => Exists(s)
  /\ Exists(s) =>
       \/ s \in delivered \cup lost
       \/ \E r \in Request : req[r].at = "emit" /\ req[r].sale = s
  /\ s \in delivered /\ (\A j \in Job : job[j].source # s) => s \in lost \/ Complete(s)

\* What a run of the listener has found still holds.
RunOK(p) ==
  /\ p.at = "idle" => p = C!IdleJob
  /\ p.at # "idle" => p.source \in Sale
  /\ p.at \in {"exists", "read", "rules", "insert"} => C!RowsOf(p.source) = {}
  /\ p.at \in {"rules", "insert"} => p.barber \in Barber
  /\ p.at = "insert" => p.items = LinesOf[p.source]
  /\ p.at = "done" => p.source \in lost \/ Complete(p.source)

\* The inductive invariant of Sales.
SalesInv ==
  /\ TypeOK
  /\ credit \in [Sale -> Barber] /\ covered = [b \in Barber |-> Line]
  /\ req = [r \in Request |-> req[r]] /\ sale = [s \in Sale |-> sale[s]]
  /\ \A r \in Request : CallerOK(req[r])
  /\ \A r, q \in Request : r # q => Apart(req[r], req[q])
  /\ \A s \in Sale : SaleOK(s)
  /\ \A j \in Job : RunOK(job[j])
  /\ \A i, j \in Job : i # j /\ job[i].at # "idle" => job[i].source # job[j].source

\* The totals of sales that stay as they are stay as they are.
LEMMA TotalStays ==
  ASSUME NEW sold,
         \A s \in sold : sale'[s].amount = sale[s].amount /\ sale'[s].discount = sale[s].discount
  PROVE  TotalOf(sold)' = TotalOf(sold)
<1>1. [s \in sold |-> Subtotal(sale'[s].amount) - sale'[s].discount]
        = [s \in sold |-> Subtotal(sale[s].amount) - sale[s].discount]
  OBVIOUS
<1>. QED  BY <1>1 DEF TotalOf

LEMMA SalesInitOK == Init => SalesInv
<1>. SUFFICES ASSUME Init
              PROVE  SalesInv
  OBVIOUS
<1>1. /\ \A s \in Sale : ~Exists(s)
      /\ \A c \in Commission : commissions[c] = C!NoRow
      /\ \A j \in Job : job[j] = C!IdleJob
      /\ \A r \in Request : req[r] = Idle
  BY DEF Init, Exists
<1>2. C!TypeOK
  BY DEF Init, C!TypeOK, C!IdleJob, C!Source
<1>3. TypeOK
  BY <1>1, <1>2 DEF Init, TypeOK, Exists, Offer
<1>4. \A r \in Request : CallerOK(req[r])
  BY <1>1 DEF CallerOK, Idle
<1>5. \A r, q \in Request : Apart(req[r], req[q])
  BY <1>1 DEF Apart, Idle
<1>6. \A s \in Sale : SaleOK(s)
  BY <1>1, SalesAssumption DEF Init, SaleOK, C!RowsOf, C!Exists, C!IdleJob
<1>7. \A j \in Job : RunOK(job[j]) /\ job[j].at = "idle"
  BY <1>1 DEF RunOK, C!IdleJob
<1>8. req = [r \in Request |-> req[r]] /\ sale = [s \in Sale |-> sale[s]]
  BY DEF Init
<1>. QED  BY <1>3, <1>4, <1>5, <1>6, <1>7, <1>8 DEF SalesInv, Init

\* What a request remembers outlives a step that adds and cancels sales, if it is
\* not about those that the step is about.
LEMMA CallerGoesOn ==
  ASSUME NEW p, CallerOK(p),
         \A s \in Sale : Exists(s) =>
           Exists(s)' /\ sale'[s].amount = sale[s].amount /\ sale'[s].discount = sale[s].discount,
         p.at \in {"items", "insert"} => sale'[p.sale] = sale[p.sale],
         p.at = "emit" => p.sale \notin delivered',
         p.at = "services" /\ ~p.disturbed => Sold(p.period)' = Sold(p.period)
  PROVE  CallerOK(p)'
<1>1. ASSUME NEW sold \in SUBSET Sale, \A s \in sold : Exists(s)
      PROVE  TotalOf(sold)' = TotalOf(sold)
  BY <1>1, TotalStays
<1>2. ASSUME p.at = "services", ~p.disturbed
      PROVE  /\ p.salesCount = Cardinality(Sold(p.period)')
             /\ p.salesTotal = TotalOf(Sold(p.period))'
  <2>1. /\ p.salesCount = Cardinality(Sold(p.period)) /\ p.salesTotal = TotalOf(Sold(p.period))
        /\ p.period \subseteq Sale
    BY <1>2 DEF CallerOK
  <2>2. PICK sold : sold = Sold(p.period)
    OBVIOUS
  <2>3. sold \subseteq Sale /\ \A s \in sold : Exists(s)
    BY <2>1, <2>2 DEF Sold
  <2>4. TotalOf(sold)' = TotalOf(sold)
    BY <1>1, <2>3
  <2>5. Sold(p.period)' = sold
    BY <1>2, <2>2
  <2>6. TotalOf(Sold(p.period))' = TotalOf(sold)'
    BY <2>5 DEF TotalOf
  <2>. QED  BY <1>2, <2>1, <2>2, <2>4, <2>6
<1>3. ASSUME p.at = "overview", ~p.disturbed
      PROVE  \E sold \in SUBSET Sale :
               /\ \A s \in sold : Exists(s)'
               /\ p.salesCount = Cardinality(sold)
               /\ p.salesTotal = TotalOf(sold)'
               /\ p.services = Services(sold)
  <2>1. PICK sold \in SUBSET Sale :
          /\ \A s \in sold : Exists(s)
          /\ p.salesCount = Cardinality(sold)
          /\ p.salesTotal = TotalOf(sold)
          /\ p.services = Services(sold)
    BY <1>3 DEF CallerOK
  <2>2. TotalOf(sold)' = TotalOf(sold) /\ \A s \in sold : Exists(s)'
    BY <1>1, <2>1
  <2>. QED  BY <2>1, <2>2
<1>4. /\ p.at \in {"items", "insert"} => ~Exists(p.sale)'
      /\ p.at \in {"emit", "cancel"} => Exists(p.sale)'
  BY DEF CallerOK, Exists
<1>. QED  BY <1>2, <1>3, <1>4 DEF CallerOK

LEMMA CallerStays ==
  ASSUME UNCHANGED <<sale, delivered>>, NEW r, CallerOK(req'[r])
  PROVE  CallerOK(req[r])'
<1>1. PICK p : p = req'[r]
  OBVIOUS
<1>2. p.at = "emit" => p.sale \notin delivered'
  BY <1>1 DEF CallerOK
<1>3. CallerOK(p)'
  BY <1>1, <1>2, CallerGoesOn DEF Exists, Sold
<1>. QED  BY <1>1, <1>3 DEF CallerOK

LEMMA RunStays ==
  ASSUME UNCHANGED commissions, lost \subseteq lost', NEW j, RunOK(job'[j])
  PROVE  RunOK(job[j])'
<1>1. PICK p : p = job'[j]
  OBVIOUS
<1>2. \A x : C!RowsOf(x)' = C!RowsOf(x)
  BY DEF C!RowsOf, C!Exists
<1>3. \A x : Complete(x)' <=> Complete(x)
  BY <1>2 DEF Complete
<1>4. RunOK(p)'
  BY <1>1, <1>2, <1>3 DEF RunOK
<1>. QED  BY <1>1, <1>4 DEF RunOK

\* A step that moves one request, and may lose a sale.
LEMMA RequestMoves ==
  ASSUME SalesInv, NEW r \in Request, NEW next, UNCHANGED <<sale, listener>>,
         good' \in [Good -> Offer], customer' \subseteq Customer,
         lost \subseteq lost', lost' \subseteq Sale,
         req' = [req EXCEPT ![r] = next], CallerOK(next),
         \A q \in Request \ {r} : Apart(next, req[q]) /\ Apart(req[q], next),
         req[r].at = "emit" => req[r].sale \in lost'
  PROVE  SalesInv'
<1>. USE DEF SalesInv
<1>1. /\ req'[r] = next /\ req' = [q \in Request |-> req'[q]]
      /\ \A q \in Request \ {r} : req'[q] = req[q]
  OBVIOUS
<1>2. UNCHANGED <<sale, credit, covered, delivered, commissions, job, call, contested>>
  BY DEF listener
<1>3. TypeOK'
  BY <1>2 DEF TypeOK, Exists, C!TypeOK
<1>5. \A q \in Request : CallerOK(req[q])'
  BY <1>1, <1>2, CallerStays
<1>6. \A q, z \in Request : q # z => Apart(req'[q], req'[z])
  BY <1>1 DEF Apart
<1>7. ASSUME NEW s \in Sale
      PROVE  SaleOK(s)'
  <2>1. SaleOK(s)
    OBVIOUS
  <2>2. C!RowsOf(s)' = C!RowsOf(s) /\ (Exists(s)' <=> Exists(s))
    BY <1>2 DEF C!RowsOf, C!Exists, Exists
  <2>3. Complete(s)' <=> Complete(s)
    BY <1>2, <2>2 DEF Complete
  <2>4. ASSUME Exists(s), s \notin delivered \cup lost'
        PROVE  \E q \in Request : req'[q].at = "emit" /\ req'[q].sale = s
    BY <1>1, <2>1, <2>4 DEF SaleOK
  <2>. QED  BY <1>2, <2>1, <2>2, <2>3, <2>4 DEF SaleOK
<1>8. \A j \in Job : RunOK(job[j])'
  BY <1>2, RunStays
<1>9. \A q, z \in Request : q # z => Apart(req[q], req[z])'
  BY <1>6 DEF Apart
<1>. QED  BY <1>1, <1>2, <1>3, <1>5, <1>7, <1>8, <1>9

LEMMA BeginSaleKeeps ==
  ASSUME SalesInv, NEW r \in Request, NEW s \in Sale, NEW c \in Customer \cup {Null},
         NEW d \in Discount, BeginSale(r, s, c, d)
  PROVE  SalesInv'
<1>. DEFINE next == [at |-> "items", sale |-> s, discount |-> d]
<1>1. /\ req[r] = Idle /\ ~Exists(s) /\ req' = [req EXCEPT ![r] = next]
      /\ \A q \in Request : req[q].at \in {"items", "insert"} => req[q].sale # s
      /\ UNCHANGED <<good, customer, sale, listener, lost>>
  BY DEF BeginSale, Goto, shop
<1>2. CallerOK(next)
  BY <1>1 DEF CallerOK
<1>3. \A q \in Request \ {r} : Apart(next, req[q]) /\ Apart(req[q], next)
  BY <1>1 DEF Apart
<1>. HIDE DEF next
<1>4. good' \in [Good -> Offer] /\ customer' \subseteq Customer /\ lost \subseteq lost' /\ lost' \subseteq Sale
  BY <1>1 DEF SalesInv, TypeOK
<1>5. req[r].at # "emit"
  BY <1>1 DEF Idle
<1>. QED  BY <1>1, <1>2, <1>3, <1>4, <1>5, RequestMoves

LEMMA PriceItemsKeeps ==
  ASSUME SalesInv, NEW r \in Request, NEW own \in [Line -> Price \cup {Null}],
         PriceItems(r, own)
  PROVE  SalesInv'
<1>. DEFINE s      == req[r].sale
            amount == Priced(s, own)
            next   == [at |-> "insert", sale |-> s, discount |-> req[r].discount,
                       amount |-> amount]
<1>1. /\ req[r].at = "items" /\ req' = [req EXCEPT ![r] = next]
      /\ req[r].discount <= Subtotal(amount)
      /\ UNCHANGED <<good, customer, sale, listener, lost>>
  BY DEF PriceItems, HandIn, Goto, shop
<1>2. s \in Sale /\ ~Exists(s) /\ req[r].discount \in Discount
  BY <1>1 DEF SalesInv, CallerOK
<1>3. amount \in [LinesOf[s] -> Nat]
  <2>. SUFFICES ASSUME NEW l \in LinesOf[s]
                PROVE  QuantityOf[l] * (IF own[l] = Null THEN good[GoodOf[l]].price ELSE own[l])
                         \in Nat
    BY DEF Priced
  <2>1. l \in Line /\ QuantityOf[l] \in Nat /\ GoodOf[l] \in Good
    BY <1>2, SalesAssumption
  <2>2. good[GoodOf[l]].price \in Nat
    BY <2>1, SalesAssumption DEF SalesInv, TypeOK, Offer
  <2>3. own[l] # Null => own[l] \in Nat
    BY <2>1, SalesAssumption
  <2>. QED  BY <2>1, <2>2, <2>3
<1>. HIDE DEF amount
<1>4. next.at = "insert" /\ next.sale = s /\ next.discount = req[r].discount /\ next.amount = amount
  OBVIOUS
<1>. HIDE DEF next
<1>5. CallerOK(next)
  BY <1>1, <1>2, <1>3, <1>4 DEF CallerOK
<1>6. \A q \in Request \ {r} : Apart(next, req[q]) /\ Apart(req[q], next)
  BY <1>1, <1>4 DEF SalesInv, Apart
<1>7. good' \in [Good -> Offer] /\ customer' \subseteq Customer /\ lost \subseteq lost' /\ lost' \subseteq Sale
  BY <1>1 DEF SalesInv, TypeOK
<1>. QED  BY <1>1, <1>5, <1>6, <1>7, RequestMoves

\* A request that neither stores nor announces a sale stays apart from the others.
LEMMA QuietRequestMoves ==
  ASSUME SalesInv, NEW r \in Request, NEW next,
         UNCHANGED <<good, customer, sale, listener>>,
         lost \subseteq lost', lost' \subseteq Sale,
         req' = [req EXCEPT ![r] = next], CallerOK(next),
         next.at \notin {"items", "insert", "emit"},
         req[r].at = "emit" => req[r].sale \in lost'
  PROVE  SalesInv'
<1>1. \A q \in Request \ {r} : Apart(next, req[q]) /\ Apart(req[q], next)
  BY DEF Apart
<1>2. good' \in [Good -> Offer] /\ customer' \subseteq Customer
  BY DEF SalesInv, TypeOK
<1>. QED  BY <1>1, <1>2, RequestMoves

LEMMA BeginCancelKeeps ==
  ASSUME SalesInv, NEW r \in Request, NEW s \in Sale, BeginCancel(r, s)
  PROVE  SalesInv'
<1>. DEFINE next == [at |-> "cancel", sale |-> s]
<1>1. /\ req[r] = Idle /\ Exists(s) /\ req' = [req EXCEPT ![r] = next]
      /\ UNCHANGED <<good, customer, sale, listener, lost>>
  BY DEF BeginCancel, Goto, shop
<1>2. CallerOK(next) /\ next.at = "cancel" /\ req[r].at # "emit"
  BY <1>1 DEF CallerOK, Idle
<1>. HIDE DEF next
<1>3. lost \subseteq lost' /\ lost' \subseteq Sale
  BY <1>1 DEF SalesInv, TypeOK
<1>. QED  BY <1>1, <1>2, <1>3, QuietRequestMoves

LEMMA OverviewKeeps ==
  ASSUME SalesInv, NEW r \in Request,
         BeginOverview(r) \/ CountSales(r) \/ CountServices(r)
  PROVE  SalesInv'
<1>1. /\ UNCHANGED <<good, customer, sale, listener, lost>>
      /\ lost \subseteq lost' /\ lost' \subseteq Sale
  BY DEF BeginOverview, CountSales, CountServices, shop, SalesInv, TypeOK
<1>2. CASE BeginOverview(r)
  <2>. DEFINE next == [at |-> "sales", period |-> Dated]
  <2>1. req' = [req EXCEPT ![r] = next] /\ req[r] = Idle
    BY <1>2 DEF BeginOverview, Goto
  <2>2. Dated \subseteq Sale
    BY DEF Dated
  <2>3. CallerOK(next) /\ next.at = "sales" /\ req[r].at # "emit"
    BY <2>1, <2>2 DEF CallerOK, Idle
  <2>. HIDE DEF next
  <2>. QED  BY <1>1, <2>1, <2>3, QuietRequestMoves
<1>3. CASE CountSales(r)
  <2>. DEFINE sold == Sold(req[r].period)
              next == [at |-> "services", period |-> req[r].period, disturbed |-> FALSE,
                       salesCount |-> Cardinality(sold), salesTotal |-> TotalOf(sold)]
  <2>1. req' = [req EXCEPT ![r] = next] /\ req[r].at = "sales"
    BY <1>3 DEF CountSales, Goto
  <2>2. req[r].period \subseteq Sale
    BY <2>1 DEF SalesInv, CallerOK
  <2>3. /\ next.at = "services" /\ next.period = req[r].period
        /\ next.salesCount = Cardinality(sold) /\ next.salesTotal = TotalOf(sold)
        /\ next \in [at : {"services"}, period : SUBSET Sale, disturbed : BOOLEAN,
                     salesCount : {next.salesCount}, salesTotal : {next.salesTotal}]
    BY <2>2
  <2>. HIDE DEF next
  <2>4. CallerOK(next)
    BY <2>3 DEF CallerOK
  <2>. QED  BY <1>1, <2>1, <2>3, <2>4, QuietRequestMoves
<1>4. CASE CountServices(r)
  <2>. DEFINE p    == req[r]
              next == [at |-> "overview", salesCount |-> p.salesCount,
                       salesTotal |-> p.salesTotal, disturbed |-> p.disturbed,
                       services |-> ServicesOf(p.period)]
  <2>1. req' = [req EXCEPT ![r] = next] /\ p.at = "services"
    BY <1>4 DEF CountServices, Goto
  <2>2. CallerOK(p)
    BY DEF SalesInv
  <2>3. /\ next.at = "overview" /\ next.salesCount = p.salesCount
        /\ next.salesTotal = p.salesTotal /\ next.disturbed = p.disturbed
        /\ next.services = Services(Sold(p.period))
    BY DEF ServicesOf
  <2>. HIDE DEF next
  <2>4. /\ Sold(p.period) \in SUBSET Sale /\ \A s \in Sold(p.period) : Exists(s)
        /\ ~p.disturbed => /\ p.salesCount = Cardinality(Sold(p.period))
                          /\ p.salesTotal = TotalOf(Sold(p.period))
    BY <2>1, <2>2 DEF CallerOK, Sold
  <2>5. CallerOK(next)
    BY <2>3, <2>4 DEF CallerOK
  <2>. QED  BY <1>1, <2>1, <2>3, <2>5, QuietRequestMoves
<1>. QED  BY <1>2, <1>3, <1>4

LEMMA LeaveKeeps ==
  ASSUME SalesInv, NEW r \in Request, AnswerOverview(r) \/ Abort(r)
  PROVE  SalesInv'
<1>1. /\ UNCHANGED <<good, customer, sale, listener>> /\ req' = [req EXCEPT ![r] = Idle]
      /\ req[r].at = "emit" => lost' = lost \cup {req[r].sale}
      /\ req[r].at # "emit" => lost' = lost
  BY DEF AnswerOverview, Abort, Goto, shop
<1>2. lost \subseteq lost' /\ lost' \subseteq Sale /\ (req[r].at = "emit" => req[r].sale \in lost')
  BY <1>1 DEF SalesInv, TypeOK, CallerOK
<1>3. CallerOK(Idle) /\ Idle.at = "idle"
  BY DEF CallerOK, Idle
<1>. QED  BY <1>1, <1>2, <1>3, QuietRequestMoves

LEMMA ShopKeeps ==
  ASSUME SalesInv,
         \/ \E g \in Good, offer \in Offer : UpdateGood(g, offer)
         \/ \E c \in Customer, active \in BOOLEAN : SetCustomerActive(c, active)
  PROVE  SalesInv'
<1>. USE DEF SalesInv
<1>1. /\ UNCHANGED <<sale, req, credit, covered, delivered, commissions, job, call, contested,
                     lost>>
      /\ good' \in [Good -> Offer] /\ customer' \subseteq Customer
  BY DEF UpdateGood, SetCustomerActive, listener, TypeOK
<1>2. TypeOK'
  BY <1>1 DEF TypeOK, Exists, C!TypeOK
<1>3. /\ \A r \in Request : CallerOK(req[r])'
      /\ \A r, q \in Request : r # q => Apart(req[r], req[q])'
  BY <1>1, CallerStays DEF Apart
<1>4. \A s \in Sale : SaleOK(s)'
  BY <1>1 DEF SaleOK, Exists, C!RowsOf, C!Exists, Complete
<1>5. \A j \in Job : RunOK(job[j])'
  BY <1>1, RunStays
<1>. QED  BY <1>1, <1>2, <1>3, <1>4, <1>5

\* A step that stores or changes a sale, disturbing the dashboards that count it.
LEMMA NoteKeeps ==
  ASSUME SalesInv, NEW r \in Request, NEW s \in Sale, NEW row \in SaleRow(s), NEW next,
         UNCHANGED <<good, customer, listener, lost>>,
         sale' = [sale EXCEPT ![s] = row], Note(r, s, next),
         req[r].at \in {"insert", "cancel"}, req[r].sale = s,
         Exists(s) =>
           row.amount = sale[s].amount /\ row.discount = sale[s].discount /\ next = Idle,
         ~Exists(s) => next = [at |-> "emit", sale |-> s]
  PROVE  SalesInv'
<1>. USE DEF SalesInv
<1>1. UNCHANGED <<credit, covered, delivered, commissions, job, call, contested>>
  BY DEF listener
<1>2. /\ row # Null /\ sale'[s] = row /\ sale' = [u \in Sale |-> sale'[u]]
      /\ \A u \in Sale \ {s} : sale'[u] = sale[u]
  BY SalesAssumption
<1>3. /\ \A u \in Sale : Exists(u) =>
           Exists(u)' /\ sale'[u].amount = sale[u].amount /\ sale'[u].discount = sale[u].discount
      /\ Exists(s)' /\ \A u \in Sale \ {s} : Exists(u)' <=> Exists(u)
  BY <1>2 DEF Exists
<1>4. /\ req'[r] = next /\ req' = [q \in Request |-> req'[q]]
      /\ \A q \in Request \ {r} :
           IF req[q].at = "services" /\ s \in req[q].period
           THEN req'[q] = [req[q] EXCEPT !.disturbed = TRUE]
           ELSE req'[q] = req[q]
  BY DEF Note
<1>5. TypeOK'
  <2>1. \A u \in Sale : Exists(u)' => sale'[u] \in SaleRow(u)
    BY <1>2, <1>3 DEF TypeOK
  <2>2. C!TypeOK'
    BY <1>1 DEF TypeOK, C!TypeOK
  <2>3. DOMAIN sale' = Sale
    BY <1>2
  <2>. QED  BY <2>1, <2>2, <2>3 DEF TypeOK
<1>6. ASSUME NEW q \in Request \ {r}
      PROVE  /\ CallerOK(req[q])' /\ req'[q].at = req[q].at
             /\ req[q].at # "services" => req'[q] = req[q]
  <2>1. CASE req[q].at = "services" /\ s \in req[q].period
    <3>1. PICK p : p = req[q]
      OBVIOUS
    <3>2. PICK n : n = [p EXCEPT !.disturbed = TRUE]
      OBVIOUS
    <3>3. p \in [at : {"services"}, period : SUBSET Sale, disturbed : BOOLEAN,
                 salesCount : {p.salesCount}, salesTotal : {p.salesTotal}]
      BY <2>1, <3>1 DEF CallerOK
    <3>4. n \in [at : {"services"}, period : SUBSET Sale, disturbed : BOOLEAN,
                 salesCount : {p.salesCount}, salesTotal : {p.salesTotal}]
      BY <3>2, <3>3
    <3>5. n.disturbed = TRUE
      BY <3>2, <3>3
    <3>6. CallerOK(n)'
      BY <3>4, <3>5 DEF CallerOK
    <3>7. req'[q] = n /\ n.at = "services"
      BY <1>4, <2>1, <3>1, <3>2, <3>4
    <3>. QED  BY <2>1, <3>6, <3>7 DEF CallerOK
  <2>2. CASE ~(req[q].at = "services" /\ s \in req[q].period)
    <3>1. PICK p : p = req[q]
      OBVIOUS
    <3>2. req'[q] = p /\ CallerOK(p) /\ Apart(req[r], p)
      BY <1>4, <2>2, <3>1
    <3>3. p.at \in {"items", "insert"} => sale'[p.sale] = sale[p.sale]
      BY <1>2, <3>2 DEF CallerOK, Apart
    <3>4. p.at = "emit" => p.sale \notin delivered'
      BY <1>1, <3>2 DEF CallerOK
    <3>5. p.at = "services" => Sold(p.period)' = Sold(p.period)
      <4>. SUFFICES ASSUME p.at = "services"
                    PROVE  Sold(p.period)' = Sold(p.period)
        OBVIOUS
      <4>1. p.period \subseteq Sale /\ s \notin p.period
        BY <2>2, <3>1, <3>2 DEF CallerOK
      <4>. QED  BY <1>2, <4>1 DEF Sold, Exists
    <3>6. CallerOK(p)'
      BY <1>3, <3>2, <3>3, <3>4, <3>5, CallerGoesOn
    <3>. QED  BY <3>1, <3>2, <3>6 DEF CallerOK
  <2>. QED  BY <2>1, <2>2
<1>7. CASE Exists(s)
  <2>1. CallerOK(req[r])' /\ req'[r].at = "idle"
    BY <1>4, <1>7 DEF CallerOK, Idle
  <2>2. \A q, z \in Request : q # z => Apart(req[q], req[z])'
    BY <1>6, <2>1 DEF Apart
  <2>3. ASSUME NEW u \in Sale
        PROVE  SaleOK(u)'
    <3>1. SaleOK(u) /\ (Exists(u)' <=> Exists(u))
      BY <1>3, <1>7
    <3>2. C!RowsOf(u)' = C!RowsOf(u) /\ (Complete(u)' <=> Complete(u))
      BY <1>1 DEF C!RowsOf, C!Exists, Complete
    <3>3. ASSUME NEW q \in Request, req[q].at = "emit", req[q].sale = u
          PROVE  \E z \in Request : req'[z].at = "emit" /\ req'[z].sale = u
      BY <1>6, <3>3
    <3>. QED  BY <1>1, <3>1, <3>2, <3>3 DEF SaleOK
  <2>4. \A j \in Job : RunOK(job[j])'
    BY <1>1, RunStays
  <2>5. \A q \in Request : CallerOK(req[q])'
    BY <1>6, <2>1
  <2>. QED  BY <1>1, <1>2, <1>4, <1>5, <2>2, <2>3, <2>4, <2>5
<1>8. CASE ~Exists(s)
  <2>1. s \notin delivered /\ SaleOK(s)
    BY <1>8 DEF SaleOK
  <2>2. CallerOK(req[r])' /\ req'[r].at = "emit" /\ req'[r].sale = s
    BY <1>1, <1>3, <1>4, <1>8, <2>1 DEF CallerOK
  <2>3. ASSUME NEW q \in Request \ {r}
        PROVE  req[q].at = "emit" => req[q].sale # s
    BY <1>8 DEF CallerOK
  <2>4. \A q, z \in Request : q # z => Apart(req[q], req[z])'
    BY <1>6, <2>2, <2>3 DEF Apart
  <2>5. ASSUME NEW u \in Sale
        PROVE  SaleOK(u)'
    <3>1. SaleOK(u)
      OBVIOUS
    <3>2. C!RowsOf(u)' = C!RowsOf(u) /\ (Complete(u)' <=> Complete(u))
      BY <1>1 DEF C!RowsOf, C!Exists, Complete
    <3>3. ASSUME Exists(u)', u \notin delivered' \cup lost'
          PROVE  \E z \in Request : req'[z].at = "emit" /\ req'[z].sale = u
      <4>1. CASE u = s
        BY <2>2, <4>1
      <4>2. CASE u # s
        <5>1. PICK q \in Request : req[q].at = "emit" /\ req[q].sale = u
          BY <1>1, <1>3, <3>1, <3>3, <4>2 DEF SaleOK
        <5>2. q # r
          BY <4>2, <5>1
        <5>. QED  BY <1>6, <5>1, <5>2
      <4>. QED  BY <4>1, <4>2
    <3>. QED  BY <1>1, <1>3, <3>1, <3>2, <3>3 DEF SaleOK
  <2>6. \A j \in Job : RunOK(job[j])'
    BY <1>1, RunStays
  <2>7. \A q \in Request : CallerOK(req[q])'
    BY <1>6, <2>2
  <2>. QED  BY <1>1, <1>2, <1>4, <1>5, <2>4, <2>5, <2>6, <2>7
<1>. QED  BY <1>7, <1>8

LEMMA WriteSaleKeeps ==
  ASSUME SalesInv, NEW r \in Request, InsertSale(r) \/ WriteCancelled(r)
  PROVE  SalesInv'
<1>. DEFINE s == req[r].sale
<1>0. UNCHANGED <<good, customer, listener, lost>> /\ CallerOK(req[r])
  BY DEF InsertSale, WriteCancelled, shop, SalesInv
<1>1. CASE InsertSale(r)
  <2>. DEFINE row == [status |-> "COMPLETED", amount |-> req[r].amount,
                      discount |-> req[r].discount]
  <2>1. /\ req[r].at = "insert" /\ sale' = [sale EXCEPT ![s] = row]
        /\ Note(r, s, [at |-> "emit", sale |-> s])
    BY <1>1 DEF InsertSale
  <2>2. s \in Sale /\ ~Exists(s) /\ row \in SaleRow(s)
    BY <1>0, <2>1 DEF CallerOK, SaleRow
  <2>. HIDE DEF row
  <2>. QED  BY <1>0, <2>1, <2>2, NoteKeeps
<1>2. CASE WriteCancelled(r)
  <2>. DEFINE row == [sale[s] EXCEPT !.status = "CANCELLED"]
  <2>1. /\ req[r].at = "cancel" /\ sale' = [sale EXCEPT ![s].status = "CANCELLED"]
        /\ Note(r, s, Idle)
    BY <1>2 DEF WriteCancelled
  <2>2. s \in Sale /\ Exists(s) /\ sale[s] \in SaleRow(s)
    BY <1>0, <2>1 DEF CallerOK, SalesInv, TypeOK
  <2>3. /\ row \in SaleRow(s) /\ row.amount = sale[s].amount
        /\ row.discount = sale[s].discount
    BY <2>2 DEF SaleRow
  <2>4. sale' = [sale EXCEPT ![s] = row]
    BY <2>1
  <2>. HIDE DEF row
  <2>. QED  BY <1>0, <2>1, <2>2, <2>3, <2>4, NoteKeeps
<1>. QED  BY <1>1, <1>2

LEMMA EmitCompletedKeeps ==
  ASSUME SalesInv, NEW r \in Request, NEW j \in Job, EmitCompleted(r, j)
  PROVE  SalesInv'
<1>. USE DEF SalesInv
<1>. DEFINE s   == req[r].sale
            run == [C!IdleJob EXCEPT !.at = "exists", !.source = s]
<1>1. /\ req[r].at = "emit" /\ req' = [req EXCEPT ![r] = Idle] /\ job[j] = C!IdleJob
      /\ delivered' = delivered \cup {s} /\ job' = [job EXCEPT ![j] = run]
      /\ UNCHANGED <<good, customer, sale, lost, credit, covered, commissions, call, contested>>
  BY DEF EmitCompleted, Goto, C!Deliver, C!Step, shop
<1>2. s \in Sale /\ Exists(s) /\ s \notin delivered /\ SaleOK(s)
  BY <1>1 DEF CallerOK
<1>3. /\ run.at = "exists" /\ run.source = s
      /\ run \in [at : {"idle", "exists", "read", "rules", "insert", "done"},
                  source : C!Source \cup {NoSource},
                  barber : Barber \cup {NoBarber}, items : SUBSET Line]
  BY <1>2 DEF C!IdleJob, C!Source
<1>. HIDE DEF run
<1>4. /\ req'[r] = Idle /\ req' = [q \in Request |-> req'[q]]
      /\ \A q \in Request \ {r} : req'[q] = req[q]
      /\ job'[j] = run /\ \A i \in Job \ {j} : job'[i] = job[i]
  BY <1>1 DEF TypeOK, C!TypeOK
<1>5. TypeOK'
  <2>1. C!TypeOK'
    BY <1>1, <1>2, <1>3 DEF TypeOK, C!TypeOK, C!Source
  <2>. QED  BY <1>1, <2>1 DEF TypeOK, Exists
<1>6. ASSUME NEW q \in Request
      PROVE  CallerOK(req[q])'
  <2>1. CASE q = r
    BY <1>4, <2>1 DEF CallerOK, Idle
  <2>2. CASE q # r
    <3>1. PICK p : p = req[q]
      OBVIOUS
    <3>2. req'[q] = p /\ CallerOK(p) /\ Apart(req[r], p)
      BY <1>4, <2>2, <3>1
    <3>3. p.at = "emit" => p.sale \notin delivered'
      BY <1>1, <3>2 DEF CallerOK, Apart
    <3>4. CallerOK(p)'
      BY <1>1, <3>2, <3>3, CallerGoesOn DEF Exists, Sold
    <3>. QED  BY <3>2, <3>4 DEF CallerOK
  <2>. QED  BY <2>1, <2>2
<1>7. \A q, z \in Request : q # z => Apart(req[q], req[z])'
  BY <1>4 DEF Apart, Idle
<1>8. \A u : C!RowsOf(u)' = C!RowsOf(u) /\ (Complete(u)' <=> Complete(u))
  BY <1>1 DEF C!RowsOf, C!Exists, Complete
<1>9. ASSUME NEW u \in Sale
      PROVE  SaleOK(u)'
  <2>1. SaleOK(u) /\ (Exists(u)' <=> Exists(u))
    BY <1>1 DEF Exists
  <2>2. CASE u = s
    BY <1>1, <1>2, <1>3, <1>4, <2>1, <2>2 DEF SaleOK
  <2>3. CASE u # s
    <3>1. /\ (\A i \in Job : job'[i].source # u) <=> (\A i \in Job : job[i].source # u)
          /\ u \in delivered' <=> u \in delivered
      BY <1>1, <1>3, <1>4, <2>3, SalesAssumption DEF C!IdleJob
    <3>2. ASSUME NEW q \in Request, req[q].at = "emit", req[q].sale = u
          PROVE  req'[q].at = "emit" /\ req'[q].sale = u
      BY <1>4, <2>3, <3>2
    <3>. QED  BY <1>1, <1>8, <2>1, <3>1, <3>2 DEF SaleOK
  <2>. QED  BY <2>2, <2>3
<1>10. ASSUME NEW i \in Job
       PROVE  RunOK(job[i])'
  <2>1. CASE i = j
    BY <1>2, <1>3, <1>4, <1>8, <2>1 DEF RunOK, SaleOK
  <2>2. CASE i # j
    BY <1>1, <1>4, <2>2, RunStays
  <2>. QED  BY <2>1, <2>2
<1>11. \A i, k \in Job : i # k /\ job'[i].at # "idle" => job'[i].source # job'[k].source
  BY <1>2, <1>3, <1>4, SalesAssumption DEF SaleOK, RunOK, C!IdleJob
<1>. QED  BY <1>1, <1>4, <1>5, <1>6, <1>7, <1>9, <1>10, <1>11

\* A run of the listener that goes on, or ends with the commissions of its sale in
\* place or with the sale lost.
LEMMA RunMoves ==
  ASSUME SalesInv, NEW j \in Job, NEW run,
         UNCHANGED <<good, customer, sale, req, credit, covered, delivered, commissions, call,
                     contested>>,
         lost \subseteq lost', lost' \subseteq Sale,
         job[j].at # "idle", job' = [job EXCEPT ![j] = run],
         run \in [at : {"idle", "exists", "read", "rules", "insert", "done"},
                 source : C!Source \cup {NoSource},
                 barber : Barber \cup {NoBarber}, items : SUBSET Line],
         \/ run.at # "idle" /\ run.source = job[j].source
         \/ run = C!IdleJob /\ (job[j].source \in lost' \/ Complete(job[j].source)),
         run.at \in {"read", "rules", "insert"} => C!RowsOf(run.source) = {},
         run.at # "exists",
         run.at \in {"rules", "insert"} => run.barber \in Barber,
         run.at = "insert" => run.items = LinesOf[run.source],
         run.at = "done" => run.source \in lost' \/ Complete(run.source)
  PROVE  SalesInv'
<1>. USE DEF SalesInv
<1>1. job'[j] = run /\ \A i \in Job \ {j} : job'[i] = job[i]
  BY DEF TypeOK, C!TypeOK
<1>2. TypeOK'
  <2>1. C!TypeOK'
    BY DEF TypeOK, C!TypeOK
  <2>. QED  BY <2>1 DEF TypeOK, Exists
<1>3. /\ \A q \in Request : CallerOK(req[q])'
      /\ \A q, z \in Request : q # z => Apart(req[q], req[z])'
  BY CallerStays DEF Apart
<1>4. \A u : C!RowsOf(u)' = C!RowsOf(u) /\ (Complete(u)' <=> Complete(u))
  BY DEF C!RowsOf, C!Exists, Complete
<1>5. job[j].source \in Sale /\ RunOK(job[j])
  BY DEF RunOK
<1>6. ASSUME NEW u \in Sale
      PROVE  SaleOK(u)'
  <2>1. SaleOK(u) /\ (Exists(u)' <=> Exists(u))
    BY DEF Exists
  <2>2. CASE u = job[j].source
    <3>1. u \in delivered
      BY <2>1, <2>2 DEF SaleOK
    <3>2. (\A i \in Job : job'[i].source # u) => u \in lost' \/ Complete(u)
      BY <1>1, <2>2
    <3>. QED  BY <1>4, <2>1, <3>1, <3>2 DEF SaleOK
  <2>3. CASE u # job[j].source
    <3>1. job'[j].source # u
      BY <1>1, <2>3, SalesAssumption DEF C!IdleJob
    <3>2. (\A i \in Job : job'[i].source # u) <=> (\A i \in Job : job[i].source # u)
      BY <1>1, <2>3, <3>1
    <3>. QED  BY <1>4, <2>1, <3>2 DEF SaleOK
  <2>. QED  BY <2>2, <2>3
<1>7. ASSUME NEW i \in Job
      PROVE  RunOK(job[i])'
  <2>1. CASE i = j
    <3>1. run.at = "idle" => run = C!IdleJob
      OBVIOUS
    <3>2. run.at # "idle" => run.source \in Sale
      BY <1>5 DEF C!IdleJob
    <3>3. RunOK(run)'
      BY <1>4, <3>1, <3>2 DEF RunOK
    <3>. QED  BY <1>1, <2>1, <3>3 DEF RunOK
  <2>2. CASE i # j
    BY <1>1, <2>2, RunStays
  <2>. QED  BY <2>1, <2>2
<1>8. \A i, k \in Job : i # k /\ job'[i].at # "idle" => job'[i].source # job'[k].source
  BY <1>1, <1>5, SalesAssumption DEF RunOK, C!IdleJob
<1>. QED  BY <1>2, <1>3, <1>6, <1>7, <1>8

\* The fields of a run that goes on are those it had, up to those it sets.
LEMMA RunRecords ==
  ASSUME SalesInv, NEW j \in Job
  PROVE  job[j] \in [at : {"idle", "exists", "read", "rules", "insert", "done"},
                     source : C!Source \cup {NoSource},
                     barber : Barber \cup {NoBarber}, items : SUBSET Line]
BY DEF SalesInv, TypeOK, C!TypeOK

LEMMA ListenKeeps ==
  ASSUME SalesInv, NEW j \in Job,
         C!CheckExists(j) \/ C!ReadSource(j) \/ C!MatchRules(j) \/ C!Return(j),
         UNCHANGED <<shop, sale, req, lost>>
  PROVE  SalesInv'
<1>. PICK p : p = job[j]
  OBVIOUS
<1>1. /\ UNCHANGED <<good, customer, sale, req, lost, credit, covered, delivered, commissions,
                     call, contested>>
      /\ lost \subseteq lost' /\ lost' \subseteq Sale
  BY DEF shop, SalesInv, TypeOK, C!CheckExists, C!ReadSource, C!MatchRules, C!Return, C!env
<1>2. /\ RunOK(p)
      /\ p \in [at : {"idle", "exists", "read", "rules", "insert", "done"},
                source : C!Source \cup {NoSource},
                barber : Barber \cup {NoBarber}, items : SUBSET Line]
  BY RunRecords DEF SalesInv
<1>3. CASE C!CheckExists(j)
  <2>. DEFINE run == [p EXCEPT !.at = "read"]
  <2>1. p.at = "exists" /\ C!RowsOf(p.source) = {} /\ job' = [job EXCEPT ![j] = run]
    BY <1>2, <1>3 DEF C!CheckExists, C!Step, RunOK
  <2>2. /\ run \in [at : {"idle", "exists", "read", "rules", "insert", "done"},
                    source : C!Source \cup {NoSource},
                    barber : Barber \cup {NoBarber}, items : SUBSET Line]
        /\ run.at = "read" /\ run.source = p.source
    BY <1>2
  <2>. HIDE DEF run
  <2>. QED  BY <1>1, <2>1, <2>2, RunMoves
<1>4. CASE C!ReadSource(j)
  <2>. DEFINE b   == credit[p.source]
              run == [p EXCEPT !.at = "rules", !.barber = b]
  <2>1. p.at = "read" /\ C!RowsOf(p.source) = {} /\ p.source \in Sale
    BY <1>2, <1>4 DEF C!ReadSource, RunOK
  <2>2. b \in Barber /\ b # NoBarber
    BY <2>1, SalesAssumption DEF SalesInv
  <2>3. job' = [job EXCEPT ![j] = run]
    BY <1>4, <2>2 DEF C!ReadSource, C!Step
  <2>4. /\ run \in [at : {"idle", "exists", "read", "rules", "insert", "done"},
                    source : C!Source \cup {NoSource},
                    barber : Barber \cup {NoBarber}, items : SUBSET Line]
        /\ run.at = "rules" /\ run.source = p.source /\ run.barber \in Barber
    BY <1>2, <2>2
  <2>. HIDE DEF run
  <2>. QED  BY <1>1, <2>1, <2>3, <2>4, RunMoves
<1>5. CASE C!MatchRules(j)
  <2>. DEFINE due == LinesOf[p.source]
  <2>1. /\ p.at = "rules" /\ C!RowsOf(p.source) = {} /\ p.source \in Sale /\ p.barber \in Barber
    BY <1>2, <1>5 DEF C!MatchRules, RunOK
  <2>2. due \subseteq Line /\ due = due \cap covered[p.barber]
    BY <2>1, SalesAssumption DEF SalesInv
  <2>3. CASE due = {}
    <3>. DEFINE run == [p EXCEPT !.at = "done", !.items = due]
    <3>1. job' = [job EXCEPT ![j] = run]
      BY <1>5, <2>2, <2>3 DEF C!MatchRules, C!Step
    <3>2. /\ run \in [at : {"idle", "exists", "read", "rules", "insert", "done"},
                      source : C!Source \cup {NoSource},
                      barber : Barber \cup {NoBarber}, items : SUBSET Line]
          /\ run.at = "done" /\ run.source = p.source
      BY <1>2, <2>2
    <3>3. Complete(p.source)
      BY <2>1, <2>3 DEF Complete
    <3>. HIDE DEF run
    <3>. QED  BY <1>1, <2>1, <3>1, <3>2, <3>3, RunMoves
  <2>4. CASE due # {}
    <3>. DEFINE run == [p EXCEPT !.at = "insert", !.items = due]
    <3>1. job' = [job EXCEPT ![j] = run]
      BY <1>5, <2>2, <2>4 DEF C!MatchRules, C!Step
    <3>2. /\ run \in [at : {"idle", "exists", "read", "rules", "insert", "done"},
                      source : C!Source \cup {NoSource},
                      barber : Barber \cup {NoBarber}, items : SUBSET Line]
          /\ run.at = "insert" /\ run.source = p.source
          /\ run.barber \in Barber /\ run.items = due
      BY <1>2, <2>1, <2>2
    <3>. HIDE DEF run
    <3>. QED  BY <1>1, <2>1, <3>1, <3>2, RunMoves
  <2>. QED  BY <2>3, <2>4
<1>6. CASE C!Return(j)
  <2>1. /\ p.at = "done" /\ job' = [job EXCEPT ![j] = C!IdleJob]
        /\ p.source \in lost' \/ Complete(p.source)
    BY <1>1, <1>2, <1>6 DEF C!Return, C!Step, RunOK
  <2>2. /\ C!IdleJob \in [at : {"idle", "exists", "read", "rules", "insert", "done"},
                          source : C!Source \cup {NoSource},
                          barber : Barber \cup {NoBarber}, items : SUBSET Line]
        /\ C!IdleJob.at = "idle"
    BY DEF C!IdleJob
  <2>. QED  BY <1>1, <2>1, <2>2, RunMoves
<1>. QED  BY <1>3, <1>4, <1>5, <1>6

LEMMA ListenerFailsKeeps ==
  ASSUME SalesInv, NEW j \in Job, ListenerFails(j)
  PROVE  SalesInv'
<1>. PICK p : p = job[j]
  OBVIOUS
<1>1. /\ RunOK(p) /\ p.at # "idle" /\ p.source \in Sale
      /\ p \in [at : {"idle", "exists", "read", "rules", "insert", "done"},
                source : C!Source \cup {NoSource},
                barber : Barber \cup {NoBarber}, items : SUBSET Line]
  BY RunRecords DEF SalesInv, RunOK, ListenerFails, C!FailJob, C!CrashJob
<1>2. /\ UNCHANGED <<good, customer, sale, req, credit, covered, delivered, commissions, call,
                     contested>>
      /\ lost \subseteq lost' /\ lost' \subseteq Sale /\ p.source \in lost'
  BY <1>1 DEF ListenerFails, C!FailJob, C!CrashJob, shop, C!env, SalesInv, TypeOK
<1>3. CASE C!FailJob(j)
  <2>. DEFINE run == [p EXCEPT !.at = "done"]
  <2>1. job' = [job EXCEPT ![j] = run]
    BY <1>3 DEF C!FailJob, C!Step
  <2>2. /\ run \in [at : {"idle", "exists", "read", "rules", "insert", "done"},
                    source : C!Source \cup {NoSource},
                    barber : Barber \cup {NoBarber}, items : SUBSET Line]
        /\ run.at = "done" /\ run.source = p.source
    BY <1>1
  <2>. HIDE DEF run
  <2>. QED  BY <1>1, <1>2, <2>1, <2>2, RunMoves
<1>4. CASE C!CrashJob(j)
  <2>1. job' = [job EXCEPT ![j] = C!IdleJob]
    BY <1>4 DEF C!CrashJob, C!Step
  <2>2. /\ C!IdleJob \in [at : {"idle", "exists", "read", "rules", "insert", "done"},
                          source : C!Source \cup {NoSource},
                          barber : Barber \cup {NoBarber}, items : SUBSET Line]
        /\ C!IdleJob.at = "idle"
    BY DEF C!IdleJob
  <2>. QED  BY <1>1, <1>2, <2>1, <2>2, RunMoves
<1>. QED  BY <1>3, <1>4 DEF ListenerFails

\* The rows that a run inserts are those its sale was waiting for.
LEMMA InsertRowsKeeps ==
  ASSUME SalesInv, NEW j \in Job, C!InsertRows(j), UNCHANGED <<shop, sale, req, lost>>
  PROVE  SalesInv'
<1>. USE DEF SalesInv
<1>. PICK p : p = job[j]
  OBVIOUS
<1>. DEFINE x   == p.source
            due == LinesOf[x]
            run == [p EXCEPT !.at = "done"]
<1>1. UNCHANGED <<good, customer, sale, req, lost, credit, covered, delivered, call, contested>>
  BY DEF shop, C!InsertRows, C!env
<1>2. /\ p.at = "insert" /\ x \in Sale /\ C!RowsOf(x) = {} /\ p.barber \in Barber
      /\ p.items = due /\ due \subseteq Line
      /\ p \in [at : {"idle", "exists", "read", "rules", "insert", "done"},
                source : C!Source \cup {NoSource},
                barber : Barber \cup {NoBarber}, items : SUBSET Line]
  BY RunRecords, SalesAssumption DEF RunOK, C!InsertRows
<1>3. job' = [job EXCEPT ![j] = run]
  BY DEF C!InsertRows, C!Step
<1>. DEFINE new == IF C!Duplicate(job[j].source) THEN {} ELSE job[j].items
<1>4. new = due
  BY <1>2 DEF C!Duplicate
<1>5. PICK id \in [new -> C!Unused] :
        /\ \A l, m \in new : id[l] = id[m] => l = m
        /\ commissions' = [c \in Commission |->
             IF \E l \in new : id[l] = c
             THEN [source |-> job[j].source, item |-> CHOOSE l \in new : id[l] = c,
                   barber |-> job[j].barber, status |-> "PENDING", paidAt |-> FALSE]
             ELSE commissions[c]]
  BY Zenon DEF C!InsertRows
<1>. HIDE DEF new
<1>6. /\ id \in [due -> C!Unused] /\ \A l, m \in due : id[l] = id[m] => l = m
      /\ commissions' = [c \in Commission |->
             IF \E l \in new : id[l] = c
             THEN [source |-> x, item |-> CHOOSE l \in new : id[l] = c,
                   barber |-> p.barber, status |-> "PENDING", paidAt |-> FALSE]
             ELSE commissions[c]]
  BY <1>4, <1>5
<1>7. /\ run.at = "done" /\ run.source = x
      /\ run \in [at : {"idle", "exists", "read", "rules", "insert", "done"},
                  source : C!Source \cup {NoSource},
                  barber : Barber \cup {NoBarber}, items : SUBSET Line]
  BY <1>2
<1>. HIDE DEF run
<1>8. job'[j] = run /\ \A i \in Job \ {j} : job'[i] = job[i]
  BY <1>3 DEF TypeOK, C!TypeOK
<1>9. ASSUME NEW l \in due
      PROVE  /\ id[l] \in Commission /\ ~C!Exists(id[l])
             /\ commissions'[id[l]] = [source |-> x, item |-> l, barber |-> p.barber,
                                       status |-> "PENDING", paidAt |-> FALSE]
  <2>1. id[l] \in Commission /\ ~C!Exists(id[l])
    BY <1>6 DEF C!Unused
  <2>2. l \in new /\ (CHOOSE m \in new : id[m] = id[l]) = l
    BY <1>6, <1>4
  <2>. QED  BY <1>6, <2>1, <2>2
<1>10. ASSUME NEW c \in Commission, \A l \in due : id[l] # c
      PROVE  commissions'[c] = commissions[c]
  BY <1>6, <1>10, <1>4
<1>11. ASSUME NEW l \in due
      PROVE  /\ commissions'[id[l]] \in C!Row /\ commissions'[id[l]] # C!NoRow
             /\ commissions'[id[l]].source = x /\ commissions'[id[l]].item = l
  <2>1. PICK row : row = [source |-> x, item |-> l, barber |-> p.barber,
                          status |-> "PENDING", paidAt |-> FALSE]
    OBVIOUS
  <2>2. row \in C!Row /\ row.source = x /\ row.item = l
    BY <1>2, <2>1 DEF C!Row, C!Source
  <2>3. row # C!NoRow
    BY <1>2, <2>2, SalesAssumption DEF C!NoRow
  <2>. QED  BY <1>9, <2>1, <2>2, <2>3
<1>12. TypeOK'
  <2>1. \A c \in Commission : commissions'[c] \in C!Row \cup {C!NoRow}
    BY <1>10, <1>11 DEF TypeOK, C!TypeOK
  <2>2. commissions' = [c \in Commission |-> commissions'[c]]
    BY <1>6
  <2>3. C!TypeOK'
    BY <1>1, <1>3, <1>7, <2>1, <2>2 DEF TypeOK, C!TypeOK
  <2>. QED  BY <1>1, <2>3 DEF TypeOK, Exists
<1>13. C!RowsOf(x)' = {id[l] : l \in due}
  <2>1. ASSUME NEW c \in C!RowsOf(x)'
        PROVE  c \in {id[l] : l \in due}
    BY <1>2, <1>10, <2>1 DEF C!RowsOf, C!Exists
  <2>2. ASSUME NEW l \in due
        PROVE  id[l] \in C!RowsOf(x)'
    BY <1>9, <1>11 DEF C!RowsOf, C!Exists
  <2>. QED  BY <2>1, <2>2
<1>14. Complete(x)'
  <2>1. {commissions'[c].item : c \in {id[l] : l \in due}} = due
    BY <1>11
  <2>2. \A c, d \in {id[l] : l \in due} : commissions'[c].item = commissions'[d].item => c = d
    BY <1>11
  <2>. QED  BY <1>13, <2>1, <2>2 DEF Complete
<1>15. ASSUME NEW u, u # x
       PROVE  C!RowsOf(u)' = C!RowsOf(u) /\ (Complete(u)' <=> Complete(u))
  <2>1. ASSUME NEW c \in Commission
        PROVE  /\ (c \in C!RowsOf(u)') <=> (c \in C!RowsOf(u))
               /\ c \in C!RowsOf(u) => commissions'[c] = commissions[c]
    <3>1. CASE \E l \in due : id[l] = c
      <4>1. PICK l \in due : id[l] = c
        BY <3>1
      <4>2. ~C!Exists(c) /\ commissions'[c].source = x
        BY <1>9, <1>11, <4>1
      <4>. QED  BY <1>15, <4>2 DEF C!RowsOf, C!Exists
    <3>2. CASE \A l \in due : id[l] # c
      BY <1>10, <3>2 DEF C!RowsOf, C!Exists
    <3>. QED  BY <3>1, <3>2
  <2>2. C!RowsOf(u)' = C!RowsOf(u)
    BY <2>1 DEF C!RowsOf
  <2>3. {commissions'[c].item : c \in C!RowsOf(u)} = {commissions[c].item : c \in C!RowsOf(u)}
    BY <2>1 DEF C!RowsOf
  <2>4. \A c \in C!RowsOf(u) : commissions'[c] = commissions[c]
    BY <2>1 DEF C!RowsOf
  <2>. QED  BY <2>2, <2>3, <2>4 DEF Complete
<1>16. /\ \A q \in Request : CallerOK(req[q])'
       /\ \A q, z \in Request : q # z => Apart(req[q], req[z])'
  BY <1>1, CallerStays DEF Apart
<1>17. ASSUME NEW u \in Sale
       PROVE  SaleOK(u)'
  <2>1. SaleOK(u) /\ (Exists(u)' <=> Exists(u))
    BY <1>1 DEF Exists
  <2>2. CASE u = x
    BY <1>1, <1>8, <1>14, <2>1, <2>2 DEF SaleOK
  <2>3. CASE u # x
    <3>1. (\A i \in Job : job'[i].source # u) <=> (\A i \in Job : job[i].source # u)
      BY <1>7, <1>8, <2>3
    <3>. QED  BY <1>1, <1>15, <2>1, <2>3, <3>1 DEF SaleOK
  <2>. QED  BY <2>2, <2>3
<1>18. ASSUME NEW i \in Job
       PROVE  RunOK(job[i])'
  <2>1. CASE i = j
    <3>1. RunOK(run)'
      BY <1>2, <1>7, <1>14 DEF RunOK
    <3>. QED  BY <1>8, <2>1, <3>1 DEF RunOK
  <2>2. CASE i # j
    <3>1. PICK q : q = job[i]
      OBVIOUS
    <3>2. RunOK(q) /\ job'[i] = q /\ q.source # x
      BY <1>2, <1>8, <2>2, <3>1
    <3>3. RunOK(q)'
      BY <1>1, <1>15, <3>2 DEF RunOK
    <3>. QED  BY <3>2, <3>3 DEF RunOK
  <2>. QED  BY <2>1, <2>2
<1>19. \A i, k \in Job : i # k /\ job'[i].at # "idle" => job'[i].source # job'[k].source
  BY <1>2, <1>7, <1>8
<1>. QED  BY <1>1, <1>12, <1>16, <1>17, <1>18, <1>19

LEMMA SalesStepOK == SalesInv /\ [Next]_vars => SalesInv'
<1>. SUFFICES ASSUME SalesInv, [Next]_vars
              PROVE  SalesInv'
  OBVIOUS
<1>1. ASSUME NEW r \in Request, Serve(r)
      PROVE  SalesInv'
  BY <1>1, BeginSaleKeeps, PriceItemsKeeps, BeginCancelKeeps, OverviewKeeps, LeaveKeeps,
     WriteSaleKeeps, EmitCompletedKeeps DEF Serve
<1>2. ASSUME NEW j \in Job, Listen(j) \/ ListenerFails(j)
      PROVE  SalesInv'
  BY <1>2, ListenKeeps, InsertRowsKeeps, ListenerFailsKeeps DEF Listen
<1>3. CASE \/ \E g \in Good, offer \in Offer : UpdateGood(g, offer)
           \/ \E c \in Customer, active \in BOOLEAN : SetCustomerActive(c, active)
  BY <1>3, ShopKeeps
<1>4. CASE UNCHANGED vars
  <2>1. UNCHANGED <<good, customer, sale, req, credit, covered, delivered, commissions, job,
                    call, contested, lost>>
    BY <1>4 DEF vars, shop, listener
  <2>2. TypeOK' /\ \A s \in Sale : SaleOK(s)'
    BY <2>1 DEF SalesInv, TypeOK, Exists, C!TypeOK, SaleOK, C!RowsOf, C!Exists, Complete
  <2>3. /\ \A r \in Request : CallerOK(req[r])'
        /\ \A r, q \in Request : r # q => Apart(req[r], req[q])'
        /\ \A j \in Job : RunOK(job[j])'
    BY <2>1, CallerStays, RunStays DEF SalesInv, Apart
  <2>. QED  BY <2>1, <2>2, <2>3 DEF SalesInv
<1>. QED  BY <1>1, <1>2, <1>3, <1>4 DEF Next

LEMMA StepForSales == [CheckoutNext]_all => [Next]_vars
BY DEF CheckoutNext, SalesStep, PaymentsStep, all

\* Whatever the requests, the runs of the listener and the payments do, a stored sale
\* is announced, in the hands of a run, lost, or has its commissions.
THEOREM SalesInvariant == CheckoutSpec => []SalesInv
<1>1. CheckoutInit => SalesInv
  BY SalesInitOK DEF CheckoutInit
<1>. QED  BY <1>1, SalesStepOK, StepForSales, PTL DEF CheckoutSpec

\* Every value of the state of sales and payments is of its type.
THEOREM CheckoutTypesOK == CheckoutSpec => []AllTypesOK
<1>1. SalesInv /\ PaymentsInv => AllTypesOK
  BY DEF SalesInv, PaymentsInv, AllTypesOK
<1>. QED  BY <1>1, SalesInvariant, PaymentsInvariant, PTL

\* coreMetrics: the count, the total and the services of a dashboard describe the
\* same sales, whatever is sold between its statements, unless a sale of its period
\* is stored or cancelled between the two.
THEOREM DashboardsAgree == CheckoutSpec => []DashboardAgrees
<1>1. SalesInv => DashboardAgrees
  BY DEF SalesInv, CallerOK, DashboardAgrees
<1>. QED  BY <1>1, SalesInvariant, PTL

\* A sale whose lines all have one commission has as many commissions as lines.
LEMMA CompleteCounts ==
  ASSUME NEW s \in Sale, Complete(s)
  PROVE  Cardinality(C!RowsOf(s)) = Cardinality(LinesOf[s])
<1>. DEFINE f == [c \in C!RowsOf(s) |-> commissions[c].item]
<1>1. IsFiniteSet(LinesOf[s])
  BY SalesAssumption, FS_Subset
<1>2. /\ f \in [C!RowsOf(s) -> LinesOf[s]]
      /\ \A c, d \in C!RowsOf(s) : f[c] = f[d] => c = d
      /\ \A l \in LinesOf[s] : \E c \in C!RowsOf(s) : f[c] = l
  BY DEF Complete
<1>. DEFINE g == [l \in LinesOf[s] |-> CHOOSE c \in C!RowsOf(s) : f[c] = l]
<1>3. \A l \in LinesOf[s] : g[l] \in C!RowsOf(s) /\ f[g[l]] = l
  BY <1>2
<1>4. \A c \in C!RowsOf(s) : g[f[c]] = c
  BY <1>2, <1>3
<1>. HIDE DEF f, g
<1>5. g \in [LinesOf[s] -> C!RowsOf(s)]
  BY <1>3 DEF g
<1>6. g \in Bijection(LinesOf[s], C!RowsOf(s))
  BY <1>2, <1>3, <1>4, <1>5 DEF Bijection, Injection, Surjection, IsInjective
<1>. QED  BY <1>1, <1>6, FS_Bijection DEF ExistsBijection

\* handleSaleCompleted: a stored sale has one commission for each of its lines when
\* nothing is left to do for it, however its requests and the runs of the listener
\* interleave, unless its event was lost; a sale that was not stored has none.
THEOREM SoldIsCommissioned == CheckoutSpec => []SoldIsCommissionedUnlessLost
<1>1. ASSUME SalesInv, NEW s \in Sale, Exists(s),
             \A r \in Request : req[r].at = "emit" => req[r].sale # s,
             \A j \in Job : job[j].source # s, s \notin lost
      PROVE  /\ {commissions[c].item : c \in C!RowsOf(s)} = LinesOf[s]
             /\ Cardinality(C!RowsOf(s)) = Cardinality(LinesOf[s])
  <2>1. Complete(s)
    BY <1>1 DEF SalesInv, SaleOK
  <2>. QED  BY <2>1, CompleteCounts DEF Complete
<1>2. ASSUME SalesInv, NEW s \in Sale, ~Exists(s)
      PROVE  C!RowsOf(s) = {}
  BY <1>2 DEF SalesInv, SaleOK
<1>3. SalesInv => SoldIsCommissionedUnlessLost
  BY <1>1, <1>2 DEF SoldIsCommissionedUnlessLost
<1>. QED  BY <1>3, SalesInvariant, PTL

\* Under the sales, the listener and its rows behave as Commissions specifies, so that
\* what holds there, one commission per line among others, holds of sales too.
THEOREM SalesImplementCommissions == CheckoutSpec => C!Spec
<1>1. CheckoutInit => C!Init
  BY DEF CheckoutInit, Init, C!Init, C!Source
<1>2. SalesInv /\ [CheckoutNext]_all => [C!Next]_(C!vars)
  <2>. SUFFICES ASSUME SalesInv, [Next]_vars
                PROVE  [C!Next]_(C!vars)
    BY StepForSales
  <2>. DEFINE quiet == UNCHANGED C!vars
  <2>1. UNCHANGED listener => quiet
    BY DEF listener, C!vars, C!env
  <2>2. ASSUME NEW r \in Request, NEW j \in Job, EmitCompleted(r, j)
        PROVE  C!Next
    <3>1. req[r].sale \in C!Source
      BY <2>2 DEF EmitCompleted, SalesInv, CallerOK, C!Source
    <3>. QED  BY <2>2, <3>1 DEF EmitCompleted, C!Next
  <2>3. ASSUME NEW r \in Request, Serve(r)
        PROVE  [C!Next]_(C!vars)
    BY <2>1, <2>2, <2>3
       DEF Serve, BeginSale, BeginCancel, PriceItems, HandIn, InsertSale, WriteCancelled,
           BeginOverview, CountSales, CountServices, AnswerOverview, Abort
  <2>4. ASSUME NEW j \in Job, Listen(j) \/ ListenerFails(j)
        PROVE  C!Next
    BY <2>4 DEF Listen, ListenerFails, C!Next, C!Work
  <2>5. CASE \/ \E g \in Good, offer \in Offer : UpdateGood(g, offer)
             \/ \E c \in Customer, active \in BOOLEAN : SetCustomerActive(c, active)
             \/ UNCHANGED vars
    BY <2>1, <2>5 DEF UpdateGood, SetCustomerActive, vars
  <2>. QED  BY <2>3, <2>4, <2>5 DEF Next
<1>. QED  BY <1>1, <1>2, SalesInvariant, PTL DEF CheckoutSpec, C!Spec

=============================================================================
