----------------------------- MODULE Commissions -----------------------------
(***************************************************************************)
(* Commissions of the barbershop module: CommissionsListener reacts to a   *)
(* completed appointment or sale by generating rows, and CommissionsService*)
(* lets a manager pay or cancel a pending row.                             *)
(*                                                                         *)
(* A job is one run of the listener; a call is one HTTP request to pay or  *)
(* cancel.  Both read first and write later, with other jobs and calls in  *)
(* between.  A source is an appointment or a sale; an appointment is one   *)
(* item of work, a sale has the items of its lines.                        *)
(***************************************************************************)
EXTENDS Integers, FiniteSets

CONSTANTS
  Appointment,
  Sale,
  Item,         \* lines a source can have
  ItemsOf,      \* lines of each source
  Barber,
  Commission,   \* ids a commission row can get
  Job,          \* runs of the listener that can be in progress at once
  Call,         \* HTTP calls that can be in flight at once
  NoBarber,     \* nobody to credit: no price, no seller, no linked barber
  NoSource,
  NoCommission

Source == Appointment \cup Sale

ASSUME ConstantsAssumption ==
  /\ Appointment \cap Sale = {}
  /\ ItemsOf \in [Source -> SUBSET Item]
  /\ \A a \in Appointment : \E i \in Item : ItemsOf[a] = {i}
  /\ NoBarber \notin Barber
  /\ NoSource \notin Source
  /\ NoCommission \notin Commission

Row == [source : Source, item : Item, barber : Barber,
        status : {"PENDING", "PAID", "CANCELLED"}, paidAt : BOOLEAN]

NoRow == [source |-> NoSource]

VARIABLES
  credit,     \* the barber a source credits: the appointment's barber, or the
              \* active barber linked to the seller
  covered,    \* the items for which some active rule applies to a barber
  delivered,  \* sources whose completion event has been emitted
  rows,       \* barbershop_commissions
  job,        \* where each listener run is, and what it has read
  call,       \* where each payment or cancellation is
  contested   \* rows that two calls have worked on at once (history)

env  == <<credit, covered, delivered>>
vars == <<env, rows, job, call, contested>>

IdleJob  == [at |-> "idle", source |-> NoSource, barber |-> NoBarber, items |-> {}]
IdleCall == [at |-> "idle", id |-> NoCommission]

Init ==
  /\ credit \in [Source -> Barber \cup {NoBarber}]
  /\ covered \in [Barber -> SUBSET Item]
  /\ delivered = {}
  /\ rows = [c \in Commission |-> NoRow]
  /\ job = [j \in Job |-> IdleJob]
  /\ call = [k \in Call |-> IdleCall]
  /\ contested = {}

Exists(c)    == rows[c] # NoRow
RowsOf(x)    == {c \in Commission : Exists(c) /\ rows[c].source = x}
Unused       == {c \in Commission : ~Exists(c)}
Step(j, new) == job' = [job EXCEPT ![j] = new]

-----------------------------------------------------------------------------
\* The listener.

\* An event starts a run.  Two requests that complete one appointment at the
\* same time emit twice; a sale emits only when it is created.
Deliver(j, x) ==
  /\ job[j] = IdleJob
  /\ x \in Sale => x \notin delivered
  /\ delivered' = delivered \cup {x}
  /\ Step(j, [IdleJob EXCEPT !.at = "exists", !.source = x])
  /\ UNCHANGED <<credit, covered, rows, call, contested>>

\* Mutant of CheckExists: the test is inverted.
CheckMissing(j) ==
  /\ job[j].at = "exists"
  /\ Step(j, [job[j] EXCEPT !.at = IF RowsOf(job[j].source) # {} THEN "read" ELSE "done"])
  /\ UNCHANGED <<env, rows, call, contested>>

\* existsForAppointment, existsForSale: stop if a row is already there.
CheckExists(j) ==
  /\ job[j].at = "exists"
  /\ Step(j, [job[j] EXCEPT !.at = IF RowsOf(job[j].source) = {} THEN "read" ELSE "done"])
  /\ UNCHANGED <<env, rows, call, contested>>

\* findAppointmentForCommission, or findSaleForCommission and
\* findBarberIdByUser: who is credited now.
ReadSource(j) ==
  LET b == credit[job[j].source] IN
    /\ job[j].at = "read"
    /\ Step(j, [job[j] EXCEPT !.at = IF b = NoBarber THEN "done" ELSE "rules",
                              !.barber = b])
    /\ UNCHANGED <<env, rows, call, contested>>

\* findActiveRulesForBarber and pickCommissionRule: the items with a rule.
MatchRules(j) ==
  LET due == ItemsOf[job[j].source] \cap covered[job[j].barber] IN
    /\ job[j].at = "rules"
    /\ Step(j, [job[j] EXCEPT !.at = IF due = {} THEN "done" ELSE "insert",
                              !.items = due])
    /\ UNCHANGED <<env, rows, call, contested>>

\* Mutant of Duplicate: the column has no unique index.
NeverDuplicate(x) == FALSE

\* The unique index on appointment_id, which skipDuplicates turns into a skip.
Duplicate(x) == x \in Appointment /\ RowsOf(x) # {}

\* createMany: one statement inserts a row per item.
InsertRows(j) ==
  LET x   == job[j].source
      due == IF Duplicate(x) THEN {} ELSE job[j].items
  IN  /\ job[j].at = "insert"
      /\ \E id \in [due -> Unused] :
           /\ \A i, k \in due : id[i] = id[k] => i = k
           /\ rows' = [c \in Commission |->
                IF \E i \in due : id[i] = c
                THEN [source |-> x, item |-> CHOOSE i \in due : id[i] = c,
                      barber |-> job[j].barber, status |-> "PENDING", paidAt |-> FALSE]
                ELSE rows[c]]
      /\ Step(j, [job[j] EXCEPT !.at = "done"])
      /\ UNCHANGED <<env, call, contested>>

\* safely: an error ends the run, is logged and is never retried.
FailJob(j) ==
  /\ job[j].at \in {"exists", "read", "rules", "insert"}
  /\ Step(j, [job[j] EXCEPT !.at = "done"])
  /\ UNCHANGED <<env, rows, call, contested>>

\* The run returns to the emitter.
Return(j) ==
  /\ job[j].at = "done"
  /\ Step(j, IdleJob)
  /\ UNCHANGED <<env, rows, call, contested>>

\* The process dies with the run; the event is gone.
CrashJob(j) ==
  /\ job[j].at # "idle"
  /\ Step(j, IdleJob)
  /\ UNCHANGED <<env, rows, call, contested>>

-----------------------------------------------------------------------------
\* markPaid and cancel: getPendingOrThrow, then an UPDATE by id.

\* What a call that passed its check leaves for its UPDATE.
Accept(k, action, c) ==
  /\ call' = [call EXCEPT ![k] = [at |-> action, id |-> c]]
  /\ contested' = IF \E n \in Call : call[n].id = c
                  THEN contested \cup {c} ELSE contested
  /\ UNCHANGED <<env, rows, job>>

\* Mutant of BeginCall: a paid row may still be cancelled, or paid again.
BeginAnyCall(k, action) ==
  \E c \in Commission :
    /\ call[k] = IdleCall
    /\ Exists(c)
    /\ rows[c].status # "CANCELLED"
    /\ Accept(k, action, c)

BeginCall(k, action) ==
  \E c \in Commission :
    /\ call[k] = IdleCall
    /\ Exists(c)
    /\ rows[c].status = "PENDING"
    /\ Accept(k, action, c)

MarkPaid(k) ==
  /\ call[k].at = "pay"
  /\ rows' = [rows EXCEPT ![call[k].id].status = "PAID", ![call[k].id].paidAt = TRUE]
  /\ call' = [call EXCEPT ![k] = IdleCall]
  /\ UNCHANGED <<env, job, contested>>

Cancel(k) ==
  /\ call[k].at = "cancel"
  /\ rows' = [rows EXCEPT ![call[k].id].status = "CANCELLED"]
  /\ call' = [call EXCEPT ![k] = IdleCall]
  /\ UNCHANGED <<env, job, contested>>

AbortCall(k) ==
  /\ call[k] # IdleCall
  /\ call' = [call EXCEPT ![k] = IdleCall]
  /\ UNCHANGED <<env, rows, job, contested>>

-----------------------------------------------------------------------------
\* What changes around the component while it works.

\* The barber of the appointment, or the seller's link to a barber, changes.
Recredit(x, b) ==
  /\ credit' = [credit EXCEPT ![x] = b]
  /\ UNCHANGED <<covered, delivered, rows, job, call, contested>>

\* createRule and updateRule change which items a barber earns on.
ChangeRules(b, items) ==
  /\ covered' = [covered EXCEPT ![b] = items]
  /\ UNCHANGED <<credit, delivered, rows, job, call, contested>>

Work(j) ==
  \/ CheckExists(j)
  \/ ReadSource(j)
  \/ MatchRules(j)
  \/ InsertRows(j)
  \/ Return(j)

Next ==
  \/ \E j \in Job, x \in Source : Deliver(j, x)
  \/ \E j \in Job : Work(j) \/ FailJob(j) \/ CrashJob(j)
  \/ \E k \in Call : \/ BeginCall(k, "pay") \/ BeginCall(k, "cancel")
                     \/ MarkPaid(k) \/ Cancel(k) \/ AbortCall(k)
  \/ \E x \in Source, b \in Barber \cup {NoBarber} : Recredit(x, b)
  \/ \E b \in Barber, items \in SUBSET Item : ChangeRules(b, items)

Spec == Init /\ [][Next]_vars

-----------------------------------------------------------------------------

TypeOK ==
  /\ credit \in [Source -> Barber \cup {NoBarber}]
  /\ covered \in [Barber -> SUBSET Item]
  /\ delivered \subseteq Source
  /\ rows \in [Commission -> Row \cup {NoRow}]
  /\ job \in [Job -> [at : {"idle", "exists", "read", "rules", "insert", "done"},
                      source : Source \cup {NoSource},
                      barber : Barber \cup {NoBarber},
                      items : SUBSET Item]]
  /\ call \in [Call -> [at : {"idle", "pay", "cancel"},
                        id : Commission \cup {NoCommission}]]
  /\ contested \subseteq Commission

\* "A geração é idempotente": however often and however concurrently its
\* event is handled, an appointment or a sale line earns one commission.
OneCommissionPerItem ==
  \A c, d \in Commission :
    /\ Exists(c)
    /\ Exists(d)
    /\ rows[c].source = rows[d].source
    /\ rows[c].item = rows[d].item
    => c = d

\* A commission that is paid or cancelled is settled for good (what
\* getPendingOrThrow stands for: "Commission is already PAID"), unless two
\* calls worked on it at once.
SettledOnce ==
  [][\A c \in Commission \ contested :
       Exists(c) /\ rows[c].status # "PENDING" => rows'[c] = rows[c]]_rows

\* Money is recorded as paid out exactly for the rows that count as paid, so
\* that the totals of `list` and the payment dates agree, unless two calls
\* worked on a row at once.
PaidAtMatchesStatus ==
  \A c \in Commission \ contested :
    Exists(c) => (rows[c].paidAt <=> rows[c].status = "PAID")
=============================================================================
