---------------------------- MODULE PlanBenefits ----------------------------
(***************************************************************************)
(* The services a subscription plan includes: PlanBenefitsService.replace  *)
(* and its repository.  The list of a plan is replaced in one transaction  *)
(* at READ COMMITTED: a statement deletes the rows it sees, the next one   *)
(* inserts the new list.  Rows deleted by an open transaction are locked;  *)
(* a statement that wants them waits, and then skips what is gone without  *)
(* looking for what has come.  Plans do not disturb each other: there is   *)
(* one.                                                                    *)
(***************************************************************************)
EXTENDS Integers, FiniteSets

CONSTANTS
  Service,
  Quantity,   \* quantities a benefit can have
  Batch,      \* replacements, each with its own new rows
  Request,    \* HTTP requests that can be in flight at once
  Null

Benefit == [service : Service, quantity : Quantity]
Row     == [service : Service, quantity : Quantity, batch : Batch]

\* Each service can appear only once.
List == {l \in SUBSET Benefit : \A x, y \in l : x.service = y.service => x = y}

BenefitsAssumption == Null \notin Batch /\ \A l \in List : l # Null

VARIABLES
  active,   \* services with isActive = true
  row,      \* the committed rows of the plan
  req,      \* each request: its step, batch and list; the rows its first
            \* statement saw, and the ones it deleted
  list,     \* the list of each committed batch (history)
  last,     \* the batch committed last (history)
  overlapped \* batches that were under way with another one (history)

vars == <<active, row, req, list, last, overlapped>>

Idle == [at |-> "idle", batch |-> Null, wanted |-> {}, seen |-> {}, deleted |-> {}]

Init ==
  /\ active = Service
  /\ row = {}
  /\ req = [r \in Request |-> Idle]
  /\ list = [k \in Batch |-> Null]
  /\ last = Null
  /\ overlapped = {}

Busy(r)  == req[r].at # "idle"
Fresh(k) == list[k] = Null /\ \A r \in Request : req[r].batch # k

Goto(r, step) == req' = [req EXCEPT ![r] = step]

\* The services of the list were found active.
BeginReplace(r, k, wanted) ==
  LET others == {q \in Request : Busy(q)} IN
    /\ ~Busy(r)
    /\ Fresh(k)
    /\ \A x \in wanted : x.service \in active
    /\ Goto(r, [Idle EXCEPT !.at = "delete", !.batch = k, !.wanted = wanted])
    /\ overlapped' = IF others = {} THEN overlapped
                     ELSE overlapped \cup {k} \cup {req[q].batch : q \in others}
    /\ UNCHANGED <<active, row, list, last>>

\* Mutant of BeginDelete: only the rows of the services in the new list.
BeginDeleteListed(r) ==
  /\ req[r].at = "delete"
  /\ Goto(r, [req[r] EXCEPT !.at = "locks",
       !.seen = {x \in row : \E y \in req[r].wanted : x.service = y.service}])
  /\ UNCHANGED <<active, row, list, last, overlapped>>

\* deleteMany sees what is committed when it begins,
BeginDelete(r) ==
  /\ req[r].at = "delete"
  /\ Goto(r, [req[r] EXCEPT !.at = "locks", !.seen = row])
  /\ UNCHANGED <<active, row, list, last, overlapped>>

\* waits for the transactions that have deleted some of it,
DeleteSeen(r) ==
  /\ req[r].at = "locks"
  /\ \A q \in Request : req[q].deleted \cap req[r].seen = {}
  /\ Goto(r, [req[r] EXCEPT !.at = "insert", !.deleted = req[r].seen \cap row])
  /\ UNCHANGED <<active, row, list, last, overlapped>>

\* Rows that are still there for the insertion of r.
Others(r) == row \ req[r].deleted

\* The unique index on the plan and the service.
Conflicts(r) == \E x \in Others(r), y \in req[r].wanted : x.service = y.service

\* createMany and the commit.  An insertion that meets the uncommitted row
\* of another transaction waits for its outcome, so that a transaction
\* inserts when it commits.
CommitReplace(r) ==
  LET k == req[r].batch IN
    /\ req[r].at = "insert"
    /\ ~Conflicts(r)
    /\ row' = Others(r) \cup {[service |-> x.service, quantity |-> x.quantity,
                               batch |-> k] : x \in req[r].wanted}
    /\ list' = [list EXCEPT ![k] = req[r].wanted]
    /\ last' = k
    /\ Goto(r, Idle)
    /\ UNCHANGED <<active, overlapped>>

\* The index refuses the insertion (409), the process dies or the database
\* resolves a deadlock of two insertions: the transaction leaves no trace.
Abort(r) ==
  /\ Busy(r)
  /\ Goto(r, Idle)
  /\ UNCHANGED <<active, row, list, last, overlapped>>

\* A service is put on or off sale; benefits of plans are kept.
SetActive(v, on) ==
  /\ active' = IF on THEN active \cup {v} ELSE active \ {v}
  /\ UNCHANGED <<row, req, list, last, overlapped>>

Next ==
  \/ \E r \in Request :
       \/ \E k \in Batch, wanted \in List : BeginReplace(r, k, wanted)
       \/ BeginDelete(r) \/ DeleteSeen(r) \/ CommitReplace(r) \/ Abort(r)
  \/ \E v \in Service, on \in BOOLEAN : SetActive(v, on)

Spec == Init /\ [][Next]_vars

-----------------------------------------------------------------------------

BatchRows(k) == {x \in row : x.batch = k}

TypeOK ==
  /\ active \subseteq Service
  /\ row \subseteq Row
  /\ req \in [Request -> [at : {"idle", "delete", "locks", "insert"},
                          batch : Batch \cup {Null}, wanted : List,
                          seen : SUBSET Row, deleted : SUBSET Row]]
  /\ list \in [Batch -> List \cup {Null}]
  /\ last \in Batch \cup {Null}
  /\ overlapped \subseteq Batch

\* The plan includes what its last replacement listed, no more and no less:
\* the rows of one list come and go together, and rows of two lists are left
\* only by replacements that overlapped.
PlanIsLastList ==
  /\ \A k \in Batch : BatchRows(k) # {} =>
       {[service |-> x.service, quantity |-> x.quantity] : x \in BatchRows(k)} = list[k]
  /\ last # Null /\ last \notin overlapped => row = BatchRows(last)
=============================================================================
