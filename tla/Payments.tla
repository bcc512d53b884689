------------------------------ MODULE Payments ------------------------------
(***************************************************************************)
(* Payments of the core: PaymentsService, its repository and the payment   *)
(* providers.  MANUAL charges succeed at once and stay PENDING until a     *)
(* person confirms them; every other gateway rejects the charge.  `sync`   *)
(* writes nothing: it returns early for MANUAL payments and for payments   *)
(* without an external id, and the rejected ones never get one.            *)
(***************************************************************************)
EXTENDS Integers

CONSTANTS
  Payment,      \* ids a payment row can get
  Gateway,
  Request,      \* HTTP requests that can be in flight at once
  MaxApprovals, \* bound of the event counter
  Null

Status == {"PENDING", "PAID", "FAILED", "CANCELLED"}

Row == [gateway : Gateway, status : Status, externalId : BOOLEAN,
        paidAt : BOOLEAN, cancelledAt : BOOLEAN]

ConstantsAssumption ==
  /\ Gateway \subseteq {"MANUAL", "ASAAS", "MERCADO_PAGO", "STRIPE"}
  /\ MaxApprovals \in Nat
  /\ Null \notin Payment \cup Row

\* Mutant of Cancellable: a paid payment can be cancelled.
CancellablePaid == {"PENDING", "FAILED", "PAID"}

Cancellable == {"PENDING", "FAILED"}

VARIABLES
  payment,    \* the payments table, Null before the insert
  req,        \* the step each request is at, and its payment
  approvals,  \* PAYMENT_APPROVED events emitted for each payment (history)
  raced       \* payments that two requests have worked on at once (history)

vars == <<payment, req, approvals, raced>>

Idle == [at |-> "idle", id |-> Null]

Init ==
  /\ payment = [p \in Payment |-> Null]
  /\ req = [r \in Request |-> Idle]
  /\ approvals = [p \in Payment |-> 0]
  /\ raced = {}

Exists(p) == payment[p] # Null

Goto(r, step, p) == req' = [req EXCEPT ![r] = [at |-> step, id |-> p]]

\* A request that read p starts to work on it; note if another one already does.
Enter(r, step, p) ==
  /\ Goto(r, step, p)
  /\ raced' = IF \E q \in Request : req[q].id = p /\ req[q].at # "approve"
              THEN raced \cup {p} ELSE raced

Answer(r) == req' = [req EXCEPT ![r] = Idle]

\* create inserts the row as PENDING, then asks the provider for a charge.
Insert(r, p, g) ==
  /\ req[r] = Idle
  /\ ~Exists(p)
  /\ payment' = [payment EXCEPT ![p] =
       [gateway |-> g, status |-> "PENDING", externalId |-> FALSE,
        paidAt |-> FALSE, cancelledAt |-> FALSE]]
  /\ Goto(r, "charge", p)
  /\ UNCHANGED <<approvals, raced>>

\* The manual charge is applied: the row gets its external id and, whatever
\* it has become meanwhile, the PENDING status of the charge.
ApplyCharge(r) ==
  LET p == req[r].id IN
    /\ req[r].at = "charge"
    /\ payment[p].gateway = "MANUAL"
    /\ payment' = [payment EXCEPT ![p].status = "PENDING", ![p].externalId = TRUE]
    /\ Answer(r)
    /\ UNCHANGED <<approvals, raced>>

\* A gateway that is not integrated rejects: the row fails, the client gets
\* the error.
ChargeFails(r) ==
  LET p == req[r].id IN
    /\ req[r].at = "charge"
    /\ payment[p].gateway # "MANUAL"
    /\ payment' = [payment EXCEPT ![p].status = "FAILED"]
    /\ Answer(r)
    /\ UNCHANGED <<approvals, raced>>

\* confirm: only a manual payment that is read as PENDING.
BeginConfirm(r, p) ==
  /\ req[r] = Idle
  /\ Exists(p)
  /\ payment[p].gateway = "MANUAL"
  /\ payment[p].status = "PENDING"
  /\ Enter(r, "confirm", p)
  /\ UNCHANGED <<payment, approvals>>

\* Mutant of WritePaid: the status is left as it was.
WriteReceipt(r) ==
  LET p == req[r].id IN
    /\ req[r].at = "confirm"
    /\ payment' = [payment EXCEPT ![p].externalId = TRUE, ![p].paidAt = TRUE]
    /\ Goto(r, "approve", p)
    /\ UNCHANGED <<approvals, raced>>

\* applyChargeResult with a PAID charge: it was not paid when it was read,
\* so it becamePaid.
WritePaid(r) ==
  LET p == req[r].id IN
    /\ req[r].at = "confirm"
    /\ payment' = [payment EXCEPT ![p].status = "PAID", ![p].externalId = TRUE,
                                  ![p].paidAt = TRUE]
    /\ Goto(r, "approve", p)
    /\ UNCHANGED <<approvals, raced>>

\* Mutant of EmitApproved: the event leaves before the row is written.
EmitEarly(r) ==
  /\ req[r].at = "confirm"
  /\ approvals[req[r].id] < MaxApprovals
  /\ approvals' = [approvals EXCEPT ![req[r].id] = @ + 1]
  /\ Answer(r)
  /\ UNCHANGED <<payment, raced>>

EmitApproved(r) ==
  /\ req[r].at = "approve"
  /\ approvals[req[r].id] < MaxApprovals
  /\ approvals' = [approvals EXCEPT ![req[r].id] = @ + 1]
  /\ Answer(r)
  /\ UNCHANGED <<payment, raced>>

BeginCancel(r, p) ==
  /\ req[r] = Idle
  /\ Exists(p)
  /\ payment[p].status \in Cancellable
  /\ Enter(r, "cancel", p)
  /\ UNCHANGED <<payment, approvals>>

\* The provider accepts (only manual payments have a charge to cancel), and
\* the row is updated by id.
WriteCancelled(r) ==
  LET p == req[r].id IN
    /\ req[r].at = "cancel"
    /\ payment' = [payment EXCEPT ![p].status = "CANCELLED", ![p].cancelledAt = TRUE]
    /\ Answer(r)
    /\ UNCHANGED <<approvals, raced>>

\* The process dies, or the database refuses a statement.
Abort(r) ==
  /\ req[r] # Idle
  /\ Answer(r)
  /\ UNCHANGED <<payment, approvals, raced>>

Next ==
  \E r \in Request :
    \/ \E p \in Payment : \/ \E g \in Gateway : Insert(r, p, g)
                          \/ BeginConfirm(r, p)
                          \/ BeginCancel(r, p)
    \/ ApplyCharge(r)
    \/ ChargeFails(r)
    \/ WritePaid(r)
    \/ EmitApproved(r)
    \/ WriteCancelled(r)
    \/ Abort(r)

Spec == Init /\ [][Next]_vars

-----------------------------------------------------------------------------

TypeOK ==
  /\ payment \in [Payment -> Row \cup {Null}]
  /\ req \in [Request -> [at : {"idle", "charge", "confirm", "approve", "cancel"},
                          id : Payment \cup {Null}]]
  /\ approvals \in [Payment -> 0..MaxApprovals]
  /\ raced \subseteq Payment

\* Whatever interleaves, a payment shown as paid has its date and its charge,
\* and it is a manual one: no gateway reports payments yet.
PaidHasReceipt ==
  \A p \in Payment : Exists(p) /\ payment[p].status = "PAID" =>
    payment[p].paidAt /\ payment[p].externalId /\ payment[p].gateway = "MANUAL"

\* The customer is told of a payment only after it was recorded.
ApprovalFollowsPayment ==
  \A p \in Payment : approvals[p] > 0 => Exists(p) /\ payment[p].paidAt

-----------------------------------------------------------------------------
\* What the rules promise a payment that no two requests work on at once.

\* One confirmation, one message: the customer is told once per payment.
ApprovedOnce == \A p \in Payment \ raced : approvals[p] <= 1

\* A paid payment is never touched again.
PaidIsFinal ==
  [][\A p \in Payment \ raced :
       Exists(p) /\ payment[p].status = "PAID" => payment'[p] = payment[p]]_payment
=============================================================================
