---------------------------- MODULE Subscriptions ----------------------------
(***************************************************************************)
(* Subscriptions of the core: SubscriptionsService and its repository.     *)
(* Time is counted in days.  A request reads a subscription and decides in *)
(* one step, and writes in a later one; other requests run in between.     *)
(***************************************************************************)
EXTENDS Integers, FiniteSets

CONSTANTS
  Subscription,  \* ids a subscription row can get
  Customer,
  Plan,
  Length,        \* days a plan can give to a cycle
  Interval,      \* billing intervals
  DefaultDays,   \* DEFAULT_DURATION_DAYS of each of them
  Request,       \* HTTP requests that can be in flight at once
  MaxDay,        \* bound of the clock and of requested start dates
  Horizon,       \* bound of end dates: no cycle beginning later is opened
  NoDate, Unsent,
  Null

Day == 0..MaxDay

Row == [customer : Customer, plan : Plan,
        status : {"ACTIVE", "EXPIRED", "CANCELLED"},
        start : Nat, end : Nat, autoRenew : BOOLEAN,
        nextRenewalAt : Nat \cup {NoDate}, cancelledAt : BOOLEAN]

ASSUME ConstantsAssumption ==
  /\ Length \subseteq Nat \ {0}
  /\ DefaultDays \in [Interval -> Length]
  /\ MaxDay \in Nat
  /\ Horizon \in Nat
  /\ NoDate \notin Nat
  /\ Null \notin Row

\* Mutant of Renewable: a cancelled subscription can be taken up again.
RenewableAny == {"ACTIVE", "EXPIRED", "CANCELLED"}

Renewable   == {"ACTIVE", "EXPIRED"}
Cancellable == {"ACTIVE", "EXPIRED"}  \* no code ever sets PAUSED

VARIABLES
  sub,        \* the subscriptions table, Null before the insert
  offered,    \* plans with isActive = true
  durationDays, \* durationDays of each plan
  now,
  req,        \* what each request in flight has read
  reopened,   \* rows renewed when they were no longer ACTIVE (history)
  raced       \* rows that two requests have worked on at once (history)

plans   == <<offered, durationDays>>
history == <<reopened, raced>>
vars    == <<sub, plans, now, req, history>>

Idle == [op |-> "none"]

Reading ==
  {Idle}
    \cup [op : {"create"}, customer : Customer, plan : Plan, days : Length]
    \cup [op : {"renew"}, id : Subscription, end : Nat, autoRenew : BOOLEAN,
          days : Length]
    \cup [op : {"cancel"}, id : Subscription]
    \cup [op : {"remind"}, since : Nat]

Init ==
  /\ sub = [s \in Subscription |-> Null]
  /\ offered = Plan
  /\ durationDays \in [Plan -> Length]
  /\ now = 0
  /\ req = [r \in Request |-> Idle]
  /\ reopened = {}
  /\ raced = {}

Exists(s) == sub[s] # Null

\* Mutant of HasActive: a subscription that has not begun does not count.
HasCurrent(c, p) ==
  \E s \in Subscription :
    /\ Exists(s)
    /\ sub[s].customer = c /\ sub[s].plan = p
    /\ sub[s].status = "ACTIVE" /\ sub[s].start <= now

\* findActiveForCustomerAndPlan
HasActive(c, p) ==
  \E s \in Subscription :
    /\ Exists(s)
    /\ sub[s].customer = c /\ sub[s].plan = p
    /\ sub[s].status = "ACTIVE"

\* The days whose completed appointments `usage` of the plan benefits counts.
Counted(row) == row.start .. row.end - 1

Remember(r, reading) ==
  /\ req[r] = Idle
  /\ req' = [req EXCEPT ![r] = reading]
  /\ UNCHANGED <<sub, plans, now, reopened>>

\* A request is about to work on the row s; note if another one already does.
Enter(s) ==
  raced' = IF \E q \in Request : req[q].op \in {"renew", "cancel"} /\ req[q].id = s
           THEN raced \cup {s} ELSE raced

Answer(r) == req' = [req EXCEPT ![r] = Idle]

-----------------------------------------------------------------------------
\* create: the plan is offered and the customer has no active subscription
\* for it; nothing in the schema enforces the second.
BeginCreate(r, c, p) ==
  /\ p \in offered
  /\ ~HasActive(c, p)
  /\ Remember(r, [op |-> "create", customer |-> c, plan |-> p,
                  days |-> durationDays[p]])
  /\ UNCHANGED raced

\* startDate is any date the client sends, or today.
Insert(r) ==
  /\ req[r].op = "create"
  /\ \E s \in Subscription, start \in Day, auto \in BOOLEAN :
       LET end == start + req[r].days IN
         /\ ~Exists(s)
         /\ sub' = [sub EXCEPT ![s] =
              [customer |-> req[r].customer, plan |-> req[r].plan,
               status |-> "ACTIVE", start |-> start, end |-> end,
               autoRenew |-> auto, cancelledAt |-> FALSE,
               nextRenewalAt |-> IF auto THEN end ELSE NoDate]]
         /\ raced' = IF \E q \in Request \ {r} :
                            /\ req[q].op = "create"
                            /\ req[q].customer = req[r].customer
                            /\ req[q].plan = req[r].plan
                     THEN raced \cup {s} ELSE raced
  /\ Answer(r)
  /\ UNCHANGED <<plans, now, reopened>>

\* renew reads the row, then the plan, and writes by id.
BeginRenew(r, s) ==
  /\ Exists(s)
  /\ sub[s].status \in Renewable
  /\ sub[s].end <= Horizon
  /\ Remember(r, [op |-> "renew", id |-> s, end |-> sub[s].end,
                  autoRenew |-> sub[s].autoRenew,
                  days |-> durationDays[sub[s].plan]])
  /\ Enter(s)

\* Mutant of NextStart: a renewal always starts today.
StartToday(end) == now

\* The next cycle starts where the one that was read ends, or today if that
\* is past.
NextStart(end) == IF end > now THEN end ELSE now

WriteRenewal(r) ==
  /\ req[r].op = "renew"
  /\ LET s     == req[r].id
         start == NextStart(req[r].end)
         end   == start + req[r].days
     IN  /\ sub' = [sub EXCEPT
              ![s].status = "ACTIVE", ![s].start = start, ![s].end = end,
              ![s].nextRenewalAt = IF req[r].autoRenew THEN end ELSE NoDate]
         /\ reopened' = IF sub[s].status = "ACTIVE" THEN reopened
                        ELSE reopened \cup {s}
  /\ Answer(r)
  /\ UNCHANGED <<plans, now, raced>>

BeginCancel(r, s) ==
  /\ Exists(s)
  /\ sub[s].status \in Cancellable
  /\ Remember(r, [op |-> "cancel", id |-> s])
  /\ Enter(s)

WriteCancellation(r) ==
  /\ req[r].op = "cancel"
  /\ sub' = [sub EXCEPT ![req[r].id].status = "CANCELLED",
                        ![req[r].id].cancelledAt = TRUE,
                        ![req[r].id].autoRenew = FALSE,
                        ![req[r].id].nextRenewalAt = NoDate]
  /\ Answer(r)
  /\ UNCHANGED <<plans, now, history>>

\* Mutant of Overdue: the last day of a cycle already counts as over.
OverdueToday(s) == Exists(s) /\ sub[s].status = "ACTIVE" /\ sub[s].end <= now

Overdue(s) == Exists(s) /\ sub[s].status = "ACTIVE" /\ sub[s].end < now

Expired(row) == [row EXCEPT !.status = "EXPIRED"]

\* processLifecycle: one conditional updateMany expires what is overdue by
\* the time it read; the reminders it then emits change no row.
ExpireOverdue(r) ==
  /\ req[r] = Idle
  /\ sub' = [s \in Subscription |-> IF Overdue(s) THEN Expired(sub[s]) ELSE sub[s]]
  /\ req' = [req EXCEPT ![r] = [op |-> "remind", since |-> now]]
  /\ UNCHANGED <<plans, now, history>>

Remind(r) ==
  /\ req[r].op = "remind"
  /\ Answer(r)
  /\ UNCHANGED <<sub, plans, now, history>>

\* The process dies or the database refuses: nothing was written.
Abort(r) ==
  /\ req[r] # Idle
  /\ Answer(r)
  /\ UNCHANGED <<sub, plans, now, history>>

PlanChange == [isActive : BOOLEAN, durationDays : Length \cup {Unsent},
               billingInterval : Interval \cup {Unsent}]

\* The days that are sent, else those of the interval that is sent.
DurationDays(change, old) ==
  IF change.durationDays # Unsent THEN change.durationDays
  ELSE IF change.billingInterval # Unsent THEN DefaultDays[change.billingInterval]
  ELSE old

\* updatePlan puts a plan on or off sale and sets the length of its cycles.
UpdatePlan(p, change) ==
  /\ offered' = IF change.isActive THEN offered \cup {p} ELSE offered \ {p}
  /\ durationDays' = [durationDays EXCEPT ![p] = DurationDays(change, @)]
  /\ UNCHANGED <<sub, now, req, history>>

NextDay ==
  /\ now < MaxDay
  /\ now' = now + 1
  /\ UNCHANGED <<sub, plans, req, history>>

Next ==
  \/ \E r \in Request :
       \/ \E c \in Customer, p \in Plan : BeginCreate(r, c, p)
       \/ \E s \in Subscription : BeginRenew(r, s) \/ BeginCancel(r, s)
       \/ Insert(r) \/ WriteRenewal(r) \/ WriteCancellation(r)
       \/ ExpireOverdue(r) \/ Remind(r) \/ Abort(r)
  \/ \E p \in Plan, change \in PlanChange : UpdatePlan(p, change)
  \/ NextDay

Spec == Init /\ [][Next]_vars

-----------------------------------------------------------------------------
\* Invariants of every interleaving.

TypeOK ==
  /\ sub \in [Subscription -> Row \cup {Null}]
  /\ offered \subseteq Plan
  /\ durationDays \in [Plan -> Length]
  /\ now \in Nat
  /\ req \in [Request -> Reading]
  /\ reopened \subseteq Subscription
  /\ raced \subseteq Subscription

\* Nobody loses days they paid for: a subscription only counts as expired
\* when its cycle is over, even if a renewal and the lifecycle job overlap.
ExpiredIsOverdue ==
  \A s \in Subscription :
    Exists(s) /\ sub[s].status = "EXPIRED" => sub[s].end < now

\* A second active subscription of a customer for a plan can only come from
\* renewing one that had expired, which create does not know about, or from
\* two creations at once.
SecondActiveWasReopened ==
  \A s, t \in Subscription :
    /\ s # t /\ Exists(s) /\ Exists(t)
    /\ sub[s].customer = sub[t].customer /\ sub[s].plan = sub[t].plan
    /\ sub[s].status = "ACTIVE" /\ sub[t].status = "ACTIVE"
    => {s, t} \cap (reopened \cup raced) # {}

-----------------------------------------------------------------------------
\* What the rules promise a row that no two requests work on at once.

\* The next renewal is planned for the end of the cycle, and only for a
\* subscription that renews itself.
RenewalMatchesCycle ==
  \A s \in Subscription \ raced : Exists(s) =>
    sub[s].nextRenewalAt = IF sub[s].autoRenew THEN sub[s].end ELSE NoDate

\* A cancelled subscription stays cancelled.
CancelledIsFinal ==
  [][\A s \in Subscription \ raced :
       Exists(s) /\ sub[s].status = "CANCELLED" => sub'[s] = sub[s]]_sub

\* A renewal gives a cycle whose days are not empty and were not counted in the
\* one before, so that the customer neither pays for a day twice nor uses the
\* benefits of two cycles on one day, whatever happened to the plan.
RenewalFollowsCycle ==
  [][\A s \in Subscription \ raced :
       Exists(s) /\ sub'[s].start # sub[s].start
       => /\ Counted(sub'[s]) # {}
          /\ Counted(sub[s]) \cap Counted(sub'[s]) = {}]_sub

-----------------------------------------------------------------------------
\* A statement of the code that does not hold.

\* "Customer already has an active subscription for this plan"
OneActivePerPlan ==
  \A s, t \in Subscription :
    /\ Exists(s) /\ Exists(t)
    /\ sub[s].customer = sub[t].customer /\ sub[s].plan = sub[t].plan
    /\ sub[s].status = "ACTIVE" /\ sub[t].status = "ACTIVE"
    => s = t
=============================================================================
