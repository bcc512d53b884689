------------------------- MODULE SubscriptionsProofs -------------------------
(***************************************************************************)
(* For any customers, plans, lengths of cycles and requests: what expired  *)
(* was over, what is cancelled stays so, a renewal follows the cycle it    *)
(* renews, and a second active subscription has one of two known causes.   *)
(***************************************************************************)
EXTENDS Subscriptions, TLAPS

Working(r) == req[r].op \in {"renew", "cancel"}

\* A request at work on a row alone has read what the row still says.
RequestOK ==
  /\ \A r \in Request : Working(r) => Exists(req[r].id)
  /\ \A r, q \in Request :
       r # q /\ Working(r) /\ Working(q) /\ req[r].id = req[q].id
       => req[r].id \in raced
  /\ \A r \in Request : Working(r) /\ req[r].id \notin raced =>
       /\ sub[req[r].id].status \in Renewable
       /\ req[r].op = "renew" =>
            /\ req[r].end = sub[req[r].id].end
            /\ req[r].autoRenew = sub[req[r].id].autoRenew

\* A request about to create a subscription found none active; those that are
\* by now were created or reopened since.
CreationOK ==
  \A r \in Request, s \in Subscription :
    /\ req[r].op = "create" /\ Exists(s) /\ sub[s].status = "ACTIVE"
    /\ sub[s].customer = req[r].customer /\ sub[s].plan = req[r].plan
    => s \in reopened \cup raced

\* The inductive invariant.
IInv ==
  /\ TypeOK /\ RequestOK /\ CreationOK
  /\ ExpiredIsOverdue /\ RenewalMatchesCycle /\ SecondActiveWasReopened

LEMMA InitOK == Init => IInv
BY ConstantsAssumption
   DEF Init, IInv, TypeOK, RequestOK, CreationOK, ExpiredIsOverdue, RenewalMatchesCycle,
       SecondActiveWasReopened, Exists, Working, Idle, Reading

-----------------------------------------------------------------------------
\* Steps of a request that leave the rows alone.

\* A request that answers, or has nothing to do with any row yet.
LEMMA RestKeeps ==
  ASSUME IInv, NEW r \in Request, NEW reading \in Reading,
         reading.op \in {"none", "remind"},
         req' = [req EXCEPT ![r] = reading],
         UNCHANGED <<sub, plans, now, history>>
  PROVE  IInv'
<1> USE DEF IInv, plans, history
<1>1. TypeOK'
  BY DEF TypeOK
<1>2. RequestOK'
  BY DEF TypeOK, RequestOK, Working, Exists
<1>3. CreationOK'
  BY DEF TypeOK, CreationOK, Exists
<1>4. ExpiredIsOverdue' /\ RenewalMatchesCycle' /\ SecondActiveWasReopened'
  BY DEF ExpiredIsOverdue, RenewalMatchesCycle, SecondActiveWasReopened, Exists
<1> QED
  BY <1>1, <1>2, <1>3, <1>4

LEMMA BeginCreateKeeps ==
  ASSUME IInv, NEW r \in Request, NEW c \in Customer, NEW p \in Plan,
         BeginCreate(r, c, p)
  PROVE  IInv'
<1> DEFINE reading == [op |-> "create", customer |-> c, plan |-> p,
                       days |-> durationDays[p]]
<1> USE DEF IInv
<1>1. /\ ~HasActive(c, p)
      /\ req' = [req EXCEPT ![r] = reading]
      /\ UNCHANGED <<sub, offered, durationDays, now, reopened, raced>>
  BY DEF BeginCreate, Remember, plans
<1>2. reading \in Reading
  BY DEF Reading, TypeOK
<1>3. reading.op = "create" /\ reading.customer = c /\ reading.plan = p
  OBVIOUS
<1> HIDE DEF reading
<1>4. TypeOK'
  BY <1>1, <1>2 DEF TypeOK
<1>5. RequestOK'
  BY <1>1, <1>3 DEF TypeOK, RequestOK, Working, Exists
<1>6. CreationOK'
  BY <1>1, <1>3 DEF TypeOK, CreationOK, HasActive, Exists
<1>7. ExpiredIsOverdue' /\ RenewalMatchesCycle' /\ SecondActiveWasReopened'
  BY <1>1 DEF ExpiredIsOverdue, RenewalMatchesCycle, SecondActiveWasReopened, Exists
<1> QED
  BY <1>4, <1>5, <1>6, <1>7

\* A request that has read a row to renew or to cancel.
LEMMA EnterKeeps ==
  ASSUME IInv, NEW r \in Request, NEW s \in Subscription, NEW reading \in Reading,
         reading.op \in {"renew", "cancel"}, reading.id = s,
         Exists(s), sub[s].status \in Renewable,
         reading.op = "renew" =>
           reading.end = sub[s].end /\ reading.autoRenew = sub[s].autoRenew,
         Remember(r, reading), Enter(s)
  PROVE  IInv'
<1> USE DEF IInv
<1>1. /\ req[r] = Idle /\ req' = [req EXCEPT ![r] = reading]
      /\ UNCHANGED <<sub, offered, durationDays, now, reopened>>
  BY DEF Remember, plans
<1>2. /\ raced \subseteq raced' /\ raced' \subseteq raced \cup {s}
      /\ \A q \in Request : Working(q) /\ req[q].id = s => s \in raced'
  BY DEF Enter, Working
<1>3. TypeOK'
  BY <1>1, <1>2 DEF TypeOK
<1>4. RequestOK'
  <2>1. \A q \in Request : Working(q)' => sub'[req'[q].id] # Null
    BY <1>1 DEF TypeOK, RequestOK, Working, Exists
  <2>2. \A p, q \in Request :
          p # q /\ Working(p)' /\ Working(q)' /\ req'[p].id = req'[q].id
          => req'[p].id \in raced'
    BY <1>1, <1>2 DEF TypeOK, RequestOK, Working
  <2>3. \A q \in Request : Working(q)' /\ req'[q].id \notin raced' =>
          /\ sub'[req'[q].id].status \in Renewable
          /\ req'[q].op = "renew" =>
               /\ req'[q].end = sub'[req'[q].id].end
               /\ req'[q].autoRenew = sub'[req'[q].id].autoRenew
    BY <1>1, <1>2 DEF TypeOK, RequestOK, Working
  <2> QED
    BY <2>1, <2>2, <2>3 DEF RequestOK, Exists
<1>5. CreationOK'
  BY <1>1, <1>2 DEF TypeOK, CreationOK, Exists
<1>6. ExpiredIsOverdue' /\ RenewalMatchesCycle' /\ SecondActiveWasReopened'
  BY <1>1, <1>2 DEF ExpiredIsOverdue, RenewalMatchesCycle, SecondActiveWasReopened, Exists
<1> QED
  BY <1>3, <1>4, <1>5, <1>6

LEMMA BeginRenewKeeps ==
  ASSUME IInv, NEW r \in Request, NEW s \in Subscription, BeginRenew(r, s)
  PROVE  IInv'
<1> DEFINE reading == [op |-> "renew", id |-> s, end |-> sub[s].end,
                       autoRenew |-> sub[s].autoRenew,
                       days |-> durationDays[sub[s].plan]]
<1>1. sub[s] \in Row
  BY DEF BeginRenew, Exists, IInv, TypeOK
<1>2. reading \in Reading
  BY <1>1 DEF Row, Reading, IInv, TypeOK
<1>3. /\ reading.op = "renew" /\ reading.id = s /\ reading.end = sub[s].end
      /\ reading.autoRenew = sub[s].autoRenew
  OBVIOUS
<1>4. Exists(s) /\ sub[s].status \in Renewable /\ Remember(r, reading) /\ Enter(s)
  BY DEF BeginRenew
<1> HIDE DEF reading
<1> QED
  BY <1>2, <1>3, <1>4, EnterKeeps

LEMMA BeginCancelKeeps ==
  ASSUME IInv, NEW r \in Request, NEW s \in Subscription, BeginCancel(r, s)
  PROVE  IInv'
<1> DEFINE reading == [op |-> "cancel", id |-> s]
<1>1. reading \in Reading /\ reading.op = "cancel" /\ reading.id = s
  BY DEF Reading
<1>2. Exists(s) /\ sub[s].status \in Renewable /\ Remember(r, reading) /\ Enter(s)
  BY DEF BeginCancel, Cancellable, Renewable
<1> HIDE DEF reading
<1> QED
  BY <1>1, <1>2, EnterKeeps

-----------------------------------------------------------------------------
\* Steps that write rows.

LEMMA InsertKeeps ==
  ASSUME IInv, NEW r \in Request, Insert(r)
  PROVE  IInv'
<1> USE DEF IInv
<1>1. PICK s \in Subscription, start \in Day, auto \in BOOLEAN :
        /\ ~Exists(s)
        /\ sub' = [sub EXCEPT ![s] =
             [customer |-> req[r].customer, plan |-> req[r].plan,
              status |-> "ACTIVE", start |-> start, end |-> start + req[r].days,
              autoRenew |-> auto, cancelledAt |-> FALSE,
              nextRenewalAt |-> IF auto THEN start + req[r].days ELSE NoDate]]
        /\ raced' = IF \E q \in Request \ {r} :
                           /\ req[q].op = "create"
                           /\ req[q].customer = req[r].customer
                           /\ req[q].plan = req[r].plan
                    THEN raced \cup {s} ELSE raced
  BY DEF Insert
<1> DEFINE end == start + req[r].days
           row == [customer |-> req[r].customer, plan |-> req[r].plan,
                   status |-> "ACTIVE", start |-> start, end |-> end,
                   autoRenew |-> auto, cancelledAt |-> FALSE,
                   nextRenewalAt |-> IF auto THEN end ELSE NoDate]
<1>2. /\ req[r].op = "create" /\ req' = [req EXCEPT ![r] = Idle]
      /\ UNCHANGED <<offered, durationDays, now, reopened>>
      /\ sub' = [sub EXCEPT ![s] = row]
      /\ raced \subseteq raced' /\ raced' \subseteq raced \cup {s}
  BY <1>1 DEF Insert, Answer, plans
<1>3. req[r].customer \in Customer /\ req[r].plan \in Plan /\ req[r].days \in Length
  BY <1>2 DEF TypeOK, Reading, Idle
<1>4. end \in Nat
  <2>1. start \in Nat
    BY DEF Day
  <2>2. req[r].days \in Nat
    BY <1>3, ConstantsAssumption
  <2> QED
    BY <2>1, <2>2
<1> HIDE DEF end
<1>5. row \in Row
  BY <1>3, <1>4, ConstantsAssumption DEF Row, Day
<1>6. /\ row.status = "ACTIVE" /\ row.customer = req[r].customer
      /\ row.plan = req[r].plan
      /\ row.nextRenewalAt = IF row.autoRenew THEN row.end ELSE NoDate
  OBVIOUS
<1> HIDE DEF row
<1>7. Idle \in Reading /\ Idle.op = "none"
  BY DEF Idle, Reading
<1>8. TypeOK'
  BY <1>2, <1>5, <1>7 DEF TypeOK
<1>9. \A q \in Request : Working(q) => req[q].id # s
  BY <1>1 DEF RequestOK
<1>10. row # Null
  BY <1>5, ConstantsAssumption
<1>11. RequestOK'
  BY <1>2, <1>5, <1>7, <1>9, <1>10 DEF TypeOK, RequestOK, Working, Exists
<1>12. CreationOK'
  BY <1>1, <1>2, <1>6, <1>7 DEF TypeOK, CreationOK, Exists
<1>13. ExpiredIsOverdue' /\ RenewalMatchesCycle'
  BY <1>2, <1>6 DEF TypeOK, ExpiredIsOverdue, RenewalMatchesCycle, Exists
<1>14. SecondActiveWasReopened'
  BY <1>2, <1>6 DEF TypeOK, CreationOK, SecondActiveWasReopened, Exists
<1> QED
  BY <1>8, <1>11, <1>12, <1>13, <1>14

\* The next cycle begins where the one that was read ends, or later.
LEMMA NextStartFollows ==
  ASSUME NEW end \in Nat, now \in Nat
  PROVE  NextStart(end) \in Nat /\ NextStart(end) >= end
BY DEF NextStart

\* The request that writes answers; what is written belongs to the same
\* customer and plan, and says when it renews.
LEMMA WriteKeeps ==
  ASSUME IInv, NEW r \in Request, Working(r), NEW row \in Row,
         sub' = [sub EXCEPT ![req[r].id] = row],
         row.customer = sub[req[r].id].customer, row.plan = sub[req[r].id].plan,
         row.status # "EXPIRED",
         req[r].id \notin raced =>
           row.nextRenewalAt = IF row.autoRenew THEN row.end ELSE NoDate,
         reopened \subseteq reopened', reopened' \subseteq Subscription,
         row.status = "ACTIVE" => \/ sub[req[r].id].status = "ACTIVE"
                                  \/ req[r].id \in reopened',
         Answer(r), UNCHANGED <<plans, now, raced>>
  PROVE  IInv'
<1> DEFINE s == req[r].id
<1> USE DEF IInv
<1>1. /\ s \in Subscription /\ Exists(s)
      /\ \A q \in Request \ {r} : Working(q) /\ req[q].id = s => s \in raced
  BY DEF TypeOK, Reading, RequestOK, Working, Idle
<1>2. /\ req' = [req EXCEPT ![r] = Idle]
      /\ UNCHANGED <<offered, durationDays, now, raced>>
  BY DEF Answer, plans
<1>3. Idle \in Reading /\ Idle.op = "none"
  BY DEF Idle, Reading
<1>4. row # Null
  BY ConstantsAssumption
<1>5. TypeOK'
  BY <1>2, <1>3 DEF TypeOK
<1>6. RequestOK'
  BY <1>1, <1>2, <1>3, <1>4 DEF TypeOK, RequestOK, Working, Exists
<1>7. CreationOK'
  BY <1>1, <1>2, <1>3 DEF TypeOK, CreationOK, Exists
<1>8. ExpiredIsOverdue' /\ RenewalMatchesCycle'
  BY <1>1, <1>2 DEF TypeOK, ExpiredIsOverdue, RenewalMatchesCycle, Exists
<1>9. SecondActiveWasReopened'
  BY <1>1, <1>2 DEF TypeOK, SecondActiveWasReopened, Exists
<1> QED
  BY <1>5, <1>6, <1>7, <1>8, <1>9

\* What a renewal does to its row.
LEMMA RenewedRow ==
  ASSUME IInv, NEW r \in Request, WriteRenewal(r)
  PROVE  LET s == req[r].id
             start == NextStart(req[r].end)
             end == start + req[r].days
             row == [sub[s] EXCEPT !.status = "ACTIVE", !.start = start, !.end = end,
                       !.nextRenewalAt = IF req[r].autoRenew THEN end ELSE NoDate]
         IN  /\ s \in Subscription /\ sub[s] \in Row /\ row \in Row
             /\ start \in Nat /\ req[r].end \in Nat /\ start >= req[r].end
             /\ req[r].days \in Nat \ {0}
             /\ sub' = [sub EXCEPT ![s] = row]
<1> DEFINE s == req[r].id
           start == NextStart(req[r].end)
           end == start + req[r].days
           row == [sub[s] EXCEPT !.status = "ACTIVE", !.start = start, !.end = end,
                     !.nextRenewalAt = IF req[r].autoRenew THEN end ELSE NoDate]
<1> USE DEF IInv
<1>1. req[r].op = "renew" /\ sub' = [sub EXCEPT ![s] = row]
  BY DEF WriteRenewal
<1>2. s \in Subscription /\ req[r].end \in Nat /\ req[r].days \in Length
  BY <1>1 DEF TypeOK, Reading, Idle
<1>3. sub[s] \in Row
  BY <1>1, <1>2 DEF TypeOK, RequestOK, Working, Exists
<1>4. start \in Nat /\ start >= req[r].end
  BY <1>2, NextStartFollows DEF TypeOK
<1>5. req[r].days \in Nat \ {0}
  BY <1>2, ConstantsAssumption
<1> HIDE DEF start
<1>6. end \in Nat
  BY <1>4, <1>5
<1> HIDE DEF end
<1>7. row \in Row
  BY <1>3, <1>4, <1>6 DEF Row
<1> QED
  BY <1>1, <1>2, <1>3, <1>4, <1>5, <1>7 DEF start, end

LEMMA WriteRenewalKeeps ==
  ASSUME IInv, NEW r \in Request, WriteRenewal(r)
  PROVE  IInv'
<1> DEFINE s == req[r].id
           end == NextStart(req[r].end) + req[r].days
           row == [sub[s] EXCEPT !.status = "ACTIVE",
                     !.start = NextStart(req[r].end), !.end = end,
                     !.nextRenewalAt = IF req[r].autoRenew THEN end ELSE NoDate]
<1>1. s \in Subscription /\ sub[s] \in Row /\ row \in Row /\ sub' = [sub EXCEPT ![s] = row]
  BY RenewedRow
<1> HIDE DEF end
<1>2. /\ row.customer = sub[s].customer /\ row.plan = sub[s].plan
      /\ row.status = "ACTIVE" /\ row.autoRenew = sub[s].autoRenew /\ row.end = end
      /\ row.nextRenewalAt = IF req[r].autoRenew THEN end ELSE NoDate
  BY <1>1 DEF Row
<1> HIDE DEF row
<1>3. /\ req[r].op = "renew" /\ Answer(r) /\ UNCHANGED <<plans, now, raced>>
      /\ reopened' = IF sub[s].status = "ACTIVE" THEN reopened ELSE reopened \cup {s}
  BY DEF WriteRenewal
<1>4. Working(r)
  BY <1>3 DEF Working
<1>5. s \notin raced => req[r].autoRenew = row.autoRenew
  BY <1>2, <1>3, <1>4 DEF IInv, RequestOK
<1>6. reopened \subseteq reopened' /\ reopened' \subseteq Subscription
  BY <1>1, <1>3 DEF IInv, TypeOK
<1>7. row.status = "ACTIVE" => sub[s].status = "ACTIVE" \/ s \in reopened'
  BY <1>3
<1> QED
  BY <1>1, <1>2, <1>3, <1>4, <1>5, <1>6, <1>7, WriteKeeps

LEMMA WriteCancellationKeeps ==
  ASSUME IInv, NEW r \in Request, WriteCancellation(r)
  PROVE  IInv'
<1> DEFINE s == req[r].id
           row == [sub[s] EXCEPT !.status = "CANCELLED", !.cancelledAt = TRUE,
                                 !.autoRenew = FALSE, !.nextRenewalAt = NoDate]
<1>1. /\ req[r].op = "cancel" /\ Answer(r)
      /\ UNCHANGED <<plans, now, reopened, raced>>
      /\ sub' = [sub EXCEPT ![s] = row]
  BY DEF WriteCancellation, history
<1>2. Working(r)
  BY <1>1 DEF Working
<1>3. s \in Subscription /\ sub[s] \in Row
  BY <1>1, <1>2 DEF IInv, TypeOK, Reading, RequestOK, Exists, Idle
<1>4. /\ row \in Row
      /\ row.customer = sub[s].customer /\ row.plan = sub[s].plan
      /\ row.status = "CANCELLED" /\ row.autoRenew = FALSE
      /\ row.nextRenewalAt = NoDate
  BY <1>3 DEF Row
<1> HIDE DEF row
<1>5. reopened \subseteq reopened' /\ reopened' \subseteq Subscription
  BY <1>1 DEF IInv, TypeOK
<1> QED
  BY <1>1, <1>2, <1>4, <1>5, WriteKeeps

\* The job changes the status of overdue rows, and nothing else of any row.
LEMMA ExpiredRows ==
  ASSUME IInv, NEW r \in Request, ExpireOverdue(r), NEW s \in Subscription
  PROVE  /\ Exists(s)' <=> Exists(s)
         /\ sub'[s] \in Row \cup {Null}
         /\ Exists(s) =>
              /\ sub'[s] = sub[s] \/ (Overdue(s) /\ sub'[s].status = "EXPIRED")
              /\ sub'[s].customer = sub[s].customer /\ sub'[s].plan = sub[s].plan
              /\ sub'[s].start = sub[s].start /\ sub'[s].end = sub[s].end
              /\ sub'[s].autoRenew = sub[s].autoRenew
              /\ sub'[s].nextRenewalAt = sub[s].nextRenewalAt
<1>1. sub'[s] = IF Overdue(s) THEN Expired(sub[s]) ELSE sub[s]
  BY DEF ExpireOverdue
<1>2. CASE ~Overdue(s)
  BY <1>1, <1>2 DEF Exists, IInv, TypeOK
<1>3. CASE Overdue(s)
  <2>1. sub[s] \in Row
    BY <1>3 DEF Overdue, Exists, IInv, TypeOK
  <2>2. /\ sub'[s] \in Row /\ sub'[s].status = "EXPIRED"
        /\ sub'[s].customer = sub[s].customer /\ sub'[s].plan = sub[s].plan
        /\ sub'[s].start = sub[s].start /\ sub'[s].end = sub[s].end
        /\ sub'[s].autoRenew = sub[s].autoRenew
        /\ sub'[s].nextRenewalAt = sub[s].nextRenewalAt
    BY <1>1, <1>3, <2>1 DEF Expired, Row
  <2> QED
    BY <1>3, <2>1, <2>2, ConstantsAssumption DEF Exists
<1> QED
  BY <1>2, <1>3

LEMMA ExpireOverdueKeeps ==
  ASSUME IInv, NEW r \in Request, ExpireOverdue(r)
  PROVE  IInv'
<1> DEFINE reading == [op |-> "remind", since |-> now]
<1> USE DEF IInv
<1>1. /\ req' = [req EXCEPT ![r] = reading] /\ DOMAIN sub' = Subscription
      /\ sub' = [s \in Subscription |-> sub'[s]]
      /\ UNCHANGED <<offered, durationDays, now, reopened, raced>>
  BY DEF ExpireOverdue, plans, history
<1>2. reading \in Reading /\ reading.op = "remind"
  BY DEF Reading, TypeOK
<1> HIDE DEF reading
<1>3. TypeOK'
  BY <1>1, <1>2, ExpiredRows DEF TypeOK
<1>4. \A q \in Request : Working(q)' <=> Working(q) /\ q # r
  BY <1>1, <1>2 DEF TypeOK, ExpireOverdue, Working, Idle
<1>5. \A q \in Request : Working(q) => req[q].id \in Subscription
  BY DEF TypeOK, Reading, Working, Idle
<1>6. RequestOK'
  BY <1>1, <1>4, <1>5, ExpiredRows DEF TypeOK, RequestOK, Renewable
<1>7. CreationOK'
  BY <1>1, <1>2, ExpiredRows DEF TypeOK, CreationOK
<1>8. ExpiredIsOverdue'
  BY <1>1, ExpiredRows DEF ExpiredIsOverdue, Overdue
<1>9. RenewalMatchesCycle' /\ SecondActiveWasReopened'
  BY <1>1, ExpiredRows DEF RenewalMatchesCycle, SecondActiveWasReopened
<1> QED
  BY <1>3, <1>6, <1>7, <1>8, <1>9

LEMMA StepOK == IInv /\ [Next]_vars => IInv'
<1> SUFFICES ASSUME IInv, [Next]_vars PROVE IInv'
  OBVIOUS
<1>1. Idle \in Reading /\ Idle.op = "none"
  BY DEF Idle, Reading
<1>2. ASSUME NEW r \in Request, Remind(r) \/ Abort(r) PROVE IInv'
  <2>1. req' = [req EXCEPT ![r] = Idle] /\ UNCHANGED <<sub, plans, now, history>>
    BY <1>2 DEF Remind, Abort, Answer
  <2> QED
    BY <1>1, <2>1, RestKeeps
<1>3. ASSUME NEW p \in Plan, NEW change \in PlanChange, UpdatePlan(p, change)
      PROVE  IInv'
  <2>1. \A old \in Length : DurationDays(change, old) \in Length
    BY <1>3, ConstantsAssumption DEF PlanChange, DurationDays
  <2>2. offered' \subseteq Plan
    BY <1>3 DEF UpdatePlan, IInv, TypeOK
  <2>3. durationDays' \in [Plan -> Length]
    BY <1>3, <2>1 DEF UpdatePlan, IInv, TypeOK
  <2> QED
    BY <1>3, <2>2, <2>3
       DEF UpdatePlan, history, IInv, TypeOK, RequestOK, CreationOK, ExpiredIsOverdue,
           RenewalMatchesCycle, SecondActiveWasReopened, Exists, Working
<1>4. CASE NextDay
  <2>1. /\ now' = now + 1
        /\ UNCHANGED <<sub, offered, durationDays, req, reopened, raced>>
    BY <1>4 DEF NextDay, plans, history
  <2>2. TypeOK' /\ RequestOK' /\ CreationOK'
    BY <2>1 DEF IInv, TypeOK, RequestOK, CreationOK, Exists, Working
  <2>3. ExpiredIsOverdue'
    BY <2>1 DEF IInv, TypeOK, Row, ExpiredIsOverdue, Exists
  <2>4. RenewalMatchesCycle' /\ SecondActiveWasReopened'
    BY <2>1 DEF IInv, RenewalMatchesCycle, SecondActiveWasReopened, Exists
  <2> QED
    BY <2>2, <2>3, <2>4 DEF IInv
<1>5. CASE UNCHANGED vars
  BY <1>5 DEF vars, plans, history, IInv, TypeOK, RequestOK, CreationOK,
              ExpiredIsOverdue, RenewalMatchesCycle, SecondActiveWasReopened, Exists,
              Working
<1> QED
  BY <1>2, <1>3, <1>4, <1>5, BeginCreateKeeps, BeginRenewKeeps, BeginCancelKeeps,
     InsertKeeps, WriteRenewalKeeps, WriteCancellationKeeps, ExpireOverdueKeeps DEF Next

-----------------------------------------------------------------------------

\* The inductive invariant holds of every reachable state.
THEOREM InvariantHolds == Spec => []IInv
BY InitOK, StepOK, PTL DEF Spec

\* Every reachable state is well typed.
THEOREM TypeCorrect == Spec => []TypeOK
<1>1. IInv => TypeOK
  BY DEF IInv
<1> QED
  BY <1>1, InvariantHolds, PTL

\* However renewals, cancellations and the lifecycle job interleave, nothing
\* expires before its cycle is over.
THEOREM ExpiredAreOverdue == Spec => []ExpiredIsOverdue
<1>1. IInv => ExpiredIsOverdue
  BY DEF IInv
<1> QED
  BY <1>1, InvariantHolds, PTL

\* A row that no two requests work on at once is renewed at the end of its
\* cycle, and only if it renews itself.
THEOREM RenewalsMatchCycles == Spec => []RenewalMatchesCycle
<1>1. IInv => RenewalMatchesCycle
  BY DEF IInv
<1> QED
  BY <1>1, InvariantHolds, PTL

\* Of two active subscriptions of a customer for a plan, one was renewed when it
\* was no longer active, or created together with another.
THEOREM SecondActivesWereReopened == Spec => []SecondActiveWasReopened
<1>1. IInv => SecondActiveWasReopened
  BY DEF IInv
<1> QED
  BY <1>1, InvariantHolds, PTL

\* The rows a step may write: those of a request at work, those that are
\* overdue, and new ones.
LEMMA WrittenRows ==
  ASSUME IInv, [Next]_vars, NEW s \in Subscription, Exists(s), sub'[s] # sub[s]
  PROVE  \/ \E r \in Request : Working(r) /\ req[r].id = s
                               /\ (WriteRenewal(r) \/ WriteCancellation(r))
         \/ Overdue(s) /\ sub'[s] = Expired(sub[s])
<1>1. ASSUME NEW r \in Request, Insert(r) PROVE FALSE
  BY <1>1 DEF Insert, Exists, IInv, TypeOK
<1>2. ASSUME NEW r \in Request, WriteRenewal(r) \/ WriteCancellation(r)
      PROVE  Working(r) /\ req[r].id = s
  BY <1>2 DEF WriteRenewal, WriteCancellation, Working, IInv, TypeOK
<1>3. ASSUME NEW r \in Request, ExpireOverdue(r)
      PROVE  Overdue(s) /\ sub'[s] = Expired(sub[s])
  BY <1>3 DEF ExpireOverdue
<1> QED
  BY <1>1, <1>2, <1>3
     DEF Next, BeginCreate, BeginRenew, BeginCancel, Remember, Remind, Abort, UpdatePlan,
         NextDay, vars

\* No request writes a cancelled row that it alone works on, and neither does
\* the lifecycle job.
THEOREM CancelledAreFinal == Spec => CancelledIsFinal
<1>1. ASSUME IInv, [Next]_vars, NEW s \in Subscription \ raced, Exists(s),
             sub[s].status = "CANCELLED"
      PROVE  sub'[s] = sub[s]
  <2>1. \A r \in Request : Working(r) => req[r].id # s
    BY <1>1 DEF IInv, RequestOK, Renewable
  <2>2. ~Overdue(s)
    BY <1>1 DEF Overdue
  <2> QED
    BY <1>1, <2>1, <2>2, WrittenRows
<1>2. IInv /\ [Next]_vars =>
        [\A s \in Subscription \ raced :
           Exists(s) /\ sub[s].status = "CANCELLED" => sub'[s] = sub[s]]_sub
  BY <1>1
<1> QED
  BY <1>2, InvariantHolds, PTL DEF Spec, CancelledIsFinal

\* However long plans become in between, a renewal gives a cycle of at least a
\* day, none of whose days was counted in the cycle before.
THEOREM RenewalsFollowCycles == Spec => RenewalFollowsCycle
<1>1. ASSUME IInv, [Next]_vars, NEW s \in Subscription \ raced, Exists(s),
             sub'[s].start # sub[s].start
      PROVE  Counted(sub'[s]) # {} /\ Counted(sub[s]) \cap Counted(sub'[s]) = {}
  <2>1. sub[s] \in Row
    BY <1>1 DEF Exists, IInv, TypeOK
  <2>2. Expired(sub[s]).start = sub[s].start
    BY <2>1 DEF Expired, Row
  <2>3. PICK r \in Request : /\ Working(r) /\ req[r].id = s
                             /\ WriteRenewal(r) \/ WriteCancellation(r)
    BY <1>1, <2>2, WrittenRows
  <2>4. ~WriteCancellation(r)
    <3>1. SUFFICES ASSUME WriteCancellation(r) PROVE sub'[s].start = sub[s].start
      BY <1>1
    <3> QED
      BY <1>1, <2>1, <2>3, <3>1 DEF WriteCancellation, IInv, TypeOK, Row
  <2>5. WriteRenewal(r)
    BY <2>3, <2>4
  <2> DEFINE start == NextStart(req[r].end)
             days == req[r].days
  <2>6. /\ start \in Nat /\ req[r].end \in Nat /\ start >= req[r].end
        /\ days \in Nat \ {0}
        /\ sub' = [sub EXCEPT ![s] =
             [sub[s] EXCEPT !.status = "ACTIVE", !.start = start, !.end = start + days,
                !.nextRenewalAt = IF req[r].autoRenew THEN start + days ELSE NoDate]]
    BY <1>1, <2>3, <2>5, RenewedRow
  <2> HIDE DEF start, days
  <2>7. sub'[s].start = start /\ sub'[s].end = start + days
    BY <1>1, <2>1, <2>6 DEF IInv, TypeOK, Row
  <2>8. req[r].end = sub[s].end
    BY <1>1, <2>3, <2>5 DEF IInv, RequestOK, WriteRenewal
  <2>9. start \in Counted(sub'[s])
    BY <2>6, <2>7 DEF Counted
  <2>10. Counted(sub[s]) \cap Counted(sub'[s]) = {}
    BY <2>1, <2>6, <2>7, <2>8 DEF Counted, Row
  <2> QED
    BY <2>9, <2>10
<1>2. IInv /\ [Next]_vars =>
        [\A s \in Subscription \ raced :
           Exists(s) /\ sub'[s].start # sub[s].start
           => /\ Counted(sub'[s]) # {}
              /\ Counted(sub[s]) \cap Counted(sub'[s]) = {}]_sub
  BY <1>1
<1> QED
  BY <1>2, InvariantHolds, PTL DEF Spec, RenewalFollowsCycle
=============================================================================
