-------------------- MODULE AppointmentCommissionsProofs --------------------
(***************************************************************************)
(* For any number of rows, barbers, requests and commissions: what the     *)
(* listener credits is the work that was done, and `complete` does not     *)
(* answer before it is credited.  The listener runs inside its request,    *)
(* on a row that nobody can change any more unless another request was at  *)
(* work on it already.                                                     *)
(***************************************************************************)
EXTENDS AppointmentCommissions, AppointmentsProofs

\* A run of the listener belongs to a request that is completing its source.
RunBelongs ==
  \A r \in Request : IF job[r].at = "idle" THEN job[r] = C!IdleJob
                     ELSE Completing(r) /\ job[r].source = target[r]

\* A row being completed exists, and is closed unless it was raced.
CompletedIsClosed ==
  \A r \in Request : Completing(r) =>
    /\ status[target[r]] # "NONE"
    /\ target[r] \notin raced => status[target[r]] = "COMPLETED"

\* What a run has found out, and what it has left behind at its end.
RunKnows ==
  \A r \in Request :
    /\ job[r].at \in {"rules", "insert"} =>
         /\ job[r].barber \in Barber
         /\ job[r].source \notin raced => job[r].barber = slot[job[r].source].barber
    /\ job[r].at = "insert" => job[r].items = {Line}
    /\ job[r].at = "done" => HasCommission(job[r].source) \/ job[r].source \in lost

FlowTypeOK ==
  /\ covered = [b \in Barber |-> {Line}]
  /\ commissions \in [Commission -> C!Row \cup {C!NoRow}]
  /\ job \in [Request -> [at : {"idle", "exists", "read", "rules", "insert", "done"},
                          source : Appointment \cup {NoSource},
                          barber : Barber \cup {NoBarber},
                          items : SUBSET {Line}]]

\* The inductive invariant; it needs those of the appointment book.
FlowInv ==
  /\ FlowTypeOK
  /\ RunBelongs
  /\ CompletedIsClosed
  /\ RunKnows
  /\ CommissionMatchesWork

LEMMA FlowInitEstablishes == FlowInit => FlowInv
BY DEF FlowInit, Init, FlowInv, FlowTypeOK, RunBelongs, CompletedIsClosed, RunKnows,
       CommissionMatchesWork, Completing, C!IdleJob, C!NoRow, C!RowsOf, C!Exists

\* Seen from the appointment book, the listener does nothing.
LEMMA FlowStepIsStep == [FlowNext]_all => [Next]_vars
BY DEF FlowNext, all, Emit, Listen, AnswerComplete, ListenerFails, Die, Book, Next, Serve

-----------------------------------------------------------------------------
\* What a step of the book leaves as it is.

\* An inserted row is never removed, and races are not forgotten.
LEMMA RowsRemain ==
  ASSUME IInv, RInv, [Next]_vars
  PROVE  /\ raced \subseteq raced'
         /\ \A a \in Appointment : status[a] # "NONE" => status'[a] # "NONE"
<1>. USE DEF IInv, TypeOK, rows
<1>1. ASSUME NEW r \in Request, Serve(r)
      PROVE  /\ raced \subseteq raced'
             /\ \A a \in Appointment : status[a] # "NONE" => status'[a] # "NONE"
  BY <1>1 DEF Serve, FindSlotFree, FindSlotTaken, Publish, CommitCreate,
     CommitReschedule, WriteConfirmed, WriteCompleted, WriteCancelled, WriteNoShow,
     SetStatus, history
<1>2. ASSUME NEW r \in Request, Receive(r)
      PROVE  raced \subseteq raced' /\ UNCHANGED rows
  BY <1>2 DEF Receive, BeginCreate, BeginReschedule, BeginConfirm, BeginComplete,
              BeginCancel, BeginNoShow, Load
<1>3. ASSUME NEW r \in Request, AcquireLock(r) \/ Abort(r)
      PROVE  UNCHANGED rows /\ UNCHANGED raced
  BY <1>3 DEF AcquireLock, Abort, history
<1>4. CASE Tick \/ (\E b \in Barber : SetBarberActive(b)) \/ UNCHANGED vars
  BY <1>4 DEF Tick, SetBarberActive, vars, history
<1>. QED  BY <1>1, <1>2, <1>3, <1>4 DEF Next

\* The book closes a row when it is completed, and nobody opens it again
\* behind the back of the request that waits for the listener.
LEMMA ClosedStays ==
  ASSUME IInv, RInv, [Next]_vars, IInv', RInv',
         NEW a \in Appointment, status[a] # "NONE",
         a \notin raced => status[a] = "COMPLETED"
  PROVE  /\ status'[a] # "NONE"
         /\ slot'[a] \in Slot
         /\ a \notin raced' => /\ a \notin raced
                               /\ status'[a] = "COMPLETED"
                               /\ slot'[a] = slot[a]
<1>1. status'[a] # "NONE" /\ raced \subseteq raced'
  BY RowsRemain
<1>2. slot'[a] \in Slot
  BY <1>1 DEF RInv, InsertedRows
<1>3. a \notin raced => status'[a] = status[a] /\ slot'[a] = slot[a]
  BY ClosedRowsStay DEF Status, Open
<1>. QED  BY <1>1, <1>2, <1>3

-----------------------------------------------------------------------------
\* The steps of the book, each of which leaves the listener alone.

\* A request keeps waiting for the listener while the book goes on.
LEMMA BookKeepsWaiting ==
  ASSUME IInv, RInv, NEW r \in Request, Book(r), NEW q \in Request
  PROVE  /\ Completing(q) => Completing(q)' /\ target'[q] = target[q]
         /\ Completing(q)' /\ ~Completing(q) =>
              status'[target'[q]] = "COMPLETED"
<1>. USE DEF IInv, TypeOK, Completing, Book
<1>1. CASE Receive(r)
  BY <1>1 DEF Receive, BeginCreate, BeginReschedule, BeginConfirm, BeginComplete,
              BeginCancel, BeginNoShow, Load
<1>2. CASE AcquireLock(r)
  BY <1>2 DEF AcquireLock, Goto
<1>3. CASE Serve(r) /\ ~Completing(r)
  <2>1. CASE FindSlotFree(r) \/ FindSlotTaken(r) \/ Publish(r)
    BY <1>3, <2>1 DEF FindSlotFree, FindSlotTaken, Publish, Goto, Finish
  <2>2. CASE CommitCreate(r) \/ CommitReschedule(r)
    BY <1>3, <2>2 DEF CommitCreate, CommitReschedule, Goto, Finish
  <2>3. CASE WriteConfirmed(r) \/ WriteCancelled(r) \/ WriteNoShow(r)
    BY <1>3, <2>3 DEF WriteConfirmed, WriteCancelled, WriteNoShow, Goto, Finish
  <2>4. CASE WriteCompleted(r)
    BY <1>3, <2>4 DEF WriteCompleted, SetStatus, Goto, RequestOK
  <2>. QED  BY <1>3, <2>1, <2>2, <2>3, <2>4 DEF Serve
<1>. QED  BY <1>1, <1>2, <1>3

\* Whatever keeps the requests waiting, and the listener alone, keeps what the
\* listener knows: it knows it of rows that are closed.
LEMMA QuietStepKeeps ==
  ASSUME IInv, RInv, FlowInv, [Next]_vars, IInv', RInv', UNCHANGED flow,
         \A q \in Request :
           /\ Completing(q) => Completing(q)' /\ target'[q] = target[q]
           /\ Completing(q)' /\ ~Completing(q) => status'[target'[q]] = "COMPLETED"
  PROVE  FlowInv'
<1>. USE DEF FlowInv, flow
<1>1. FlowTypeOK'
  BY DEF FlowTypeOK, C!Row, C!NoRow, C!Source
<1>2. RunBelongs'
  BY DEF RunBelongs
<1>3. ASSUME NEW q \in Request, Completing(q)
      PROVE  /\ status'[target[q]] # "NONE"
             /\ slot'[target[q]] \in Slot
             /\ target[q] \notin raced' =>
                  /\ target[q] \notin raced
                  /\ status'[target[q]] = "COMPLETED"
                  /\ slot'[target[q]] = slot[target[q]]
  <2>1. target[q] \in Appointment
    BY <1>3 DEF Completing, IInv, RequestOK
  <2>. QED  BY <1>3, <2>1, ClosedStays DEF CompletedIsClosed
<1>4. CompletedIsClosed'
  BY <1>3 DEF CompletedIsClosed
<1>5. ASSUME NEW a \in Appointment
      PROVE  C!RowsOf(a)' = C!RowsOf(a)
  BY DEF C!RowsOf, C!Exists
<1>6. RunKnows'
  <2>1. ASSUME NEW q \in Request, job[q].at # "idle"
        PROVE  /\ Completing(q) /\ job[q].source = target[q]
               /\ target[q] \in Appointment
    BY <2>1 DEF RunBelongs, Completing, IInv, RequestOK
  <2>. QED  BY <2>1, <1>3, <1>5 DEF RunKnows, HasCommission
<1>7. CommissionMatchesWork'
  <2>. SUFFICES ASSUME NEW a \in Appointment \ raced', NEW c \in C!RowsOf(a)
                PROVE  /\ status'[a] = "COMPLETED"
                       /\ commissions[c].barber = slot'[a].barber
    BY <1>5 DEF CommissionMatchesWork
  <2>1. a \notin raced
    BY RowsRemain
  <2>2. status[a] = "COMPLETED" /\ commissions[c].barber = slot[a].barber
    BY <2>1 DEF CommissionMatchesWork
  <2>. QED  BY <2>2, ClosedStays
<1>. QED  BY <1>1, <1>2, <1>4, <1>6, <1>7

-----------------------------------------------------------------------------
\* The steps of the listener, each of which leaves the book alone.

\* A run that moves on without inserting keeps what is recorded, if what it
\* knows in its next step is so.
LEMMA RunStepKeeps ==
  ASSUME IInv, FlowInv, NEW r \in Request, NEW new, UNCHANGED vars,
         UNCHANGED <<covered, commissions>>, lost \subseteq lost',
         job' = [job EXCEPT ![r] = new],
         new \in [at : {"idle", "exists", "read", "rules", "insert", "done"},
                  source : Appointment \cup {NoSource},
                  barber : Barber \cup {NoBarber}, items : SUBSET {Line}],
         new.at # "idle", Completing(r), new.source = target[r],
         new.at \in {"rules", "insert"} =>
           /\ new.barber \in Barber
           /\ new.source \notin raced => new.barber = slot[new.source].barber,
         new.at = "insert" => new.items = {Line},
         new.at = "done" => HasCommission(new.source) \/ new.source \in lost'
  PROVE  FlowInv'
<1>. USE DEF FlowInv, vars, rows, requests, history
<1>1. FlowTypeOK'
  BY DEF FlowTypeOK, C!Row, C!NoRow, C!Source
<1>2. job'[r] = new /\ \A q \in Request \ {r} : job'[q] = job[q]
  BY DEF FlowTypeOK
<1>3. RunBelongs'
  BY <1>2 DEF RunBelongs, Completing
<1>4. CompletedIsClosed'
  BY DEF CompletedIsClosed, Completing
<1>5. \A a \in Appointment : C!RowsOf(a)' = C!RowsOf(a)
  BY DEF C!RowsOf, C!Exists
<1>6. RunKnows'
  <2>1. ASSUME NEW q \in Request, job'[q].at # "idle"
        PROVE  job'[q].source \in Appointment
    BY <2>1, <1>3 DEF RunBelongs, Completing, IInv, RequestOK
  <2>. QED  BY <2>1, <1>2, <1>5 DEF RunKnows, HasCommission
<1>7. CommissionMatchesWork'
  BY <1>5 DEF CommissionMatchesWork
<1>. QED  BY <1>1, <1>3, <1>4, <1>6, <1>7

LEMMA EmitKeeps ==
  ASSUME IInv, FlowInv, NEW r \in Request, Emit(r)
  PROVE  FlowInv'
<1>. DEFINE new == [C!IdleJob EXCEPT !.at = "exists", !.source = target[r]]
<1>1. target[r] \in Appointment /\ Completing(r)
  BY DEF Emit, Completing, IInv, RequestOK
<1>2. job' = [job EXCEPT ![r] = new] /\ UNCHANGED <<vars, covered, commissions, lost>>
  BY DEF Emit, C!Deliver, C!Step
<1>3. /\ new.at = "exists" /\ new.source = target[r]
      /\ new.barber = NoBarber /\ new.items = {}
      /\ new \in [at : {"idle", "exists", "read", "rules", "insert", "done"},
                 source : Appointment \cup {NoSource},
                 barber : Barber \cup {NoBarber}, items : SUBSET {Line}]
  BY <1>1 DEF C!IdleJob
<1>. HIDE DEF new
<1>. QED  BY <1>1, <1>2, <1>3, RunStepKeeps

\* What the request of a run that is under way still holds.
LEMMA RunIsAwaited ==
  ASSUME IInv, RInv, FlowInv, NEW r \in Request, job[r].at # "idle"
  PROVE  /\ Completing(r) /\ job[r].source = target[r]
         /\ target[r] \in Appointment
         /\ slot[target[r]] \in Slot
         /\ target[r] \notin raced => status[target[r]] = "COMPLETED"
<1>1. Completing(r) /\ job[r].source = target[r] /\ target[r] \in Appointment
  BY DEF FlowInv, RunBelongs, Completing, IInv, RequestOK
<1>. QED  BY <1>1 DEF FlowInv, CompletedIsClosed, RInv, InsertedRows

LEMMA ReadingKeeps ==
  ASSUME IInv, RInv, FlowInv, NEW r \in Request, UNCHANGED vars, UNCHANGED lost,
         C!CheckExists(r) \/ C!ReadSource(r) \/ C!MatchRules(r)
  PROVE  FlowInv'
<1>. DEFINE x == job[r].source
<1>1. job[r] \in [at : {"idle", "exists", "read", "rules", "insert", "done"},
                  source : Appointment \cup {NoSource},
                  barber : Barber \cup {NoBarber}, items : SUBSET {Line}]
  BY DEF FlowInv, FlowTypeOK
<1>2. job[r].at # "idle" /\ UNCHANGED <<covered, commissions>>
  BY DEF C!CheckExists, C!ReadSource, C!MatchRules, C!env
<1>3. /\ Completing(r) /\ x = target[r] /\ x \in Appointment
      /\ slot[x] \in Slot
  BY <1>2, RunIsAwaited
<1>4. CASE C!CheckExists(r)
  <2>. DEFINE new == [job[r] EXCEPT !.at = IF C!RowsOf(x) = {} THEN "read" ELSE "done"]
  <2>1. job' = [job EXCEPT ![r] = new]
    BY <1>4 DEF C!CheckExists, C!Step
  <2>2. /\ new.source = x
        /\ new.at \in {"read", "done"}
        /\ new.at = "done" => HasCommission(x)
        /\ new \in [at : {"idle", "exists", "read", "rules", "insert", "done"},
                   source : Appointment \cup {NoSource},
                   barber : Barber \cup {NoBarber}, items : SUBSET {Line}]
    BY <1>1 DEF HasCommission
  <2>. HIDE DEF new
  <2>. QED  BY <1>2, <1>3, <2>1, <2>2, RunStepKeeps
<1>5. CASE C!ReadSource(r)
  <2>. DEFINE b   == slot[x].barber
              new == [job[r] EXCEPT !.at = "rules", !.barber = b]
  <2>1. Credit[x] = b /\ b \in Barber
    BY <1>3, ConstantsAssumption DEF Credit, Slot
  <2>2. job' = [job EXCEPT ![r] = new]
    BY <1>5, <2>1, FlowAssumption DEF C!ReadSource, C!Step
  <2>3. /\ new.source = x
        /\ new.at = "rules"
        /\ new.barber = b
        /\ new \in [at : {"idle", "exists", "read", "rules", "insert", "done"},
                   source : Appointment \cup {NoSource},
                   barber : Barber \cup {NoBarber}, items : SUBSET {Line}]
    BY <1>1, <2>1
  <2>. HIDE DEF new
  <2>. QED  BY <1>2, <1>3, <2>1, <2>2, <2>3, RunStepKeeps
<1>6. CASE C!MatchRules(r)
  <2>. DEFINE new == [job[r] EXCEPT !.at = "insert", !.items = {Line}]
  <2>1. job[r].barber \in Barber
    BY <1>6 DEF C!MatchRules, FlowInv, RunKnows
  <2>2. [a \in Appointment |-> {Line}][x] \cap covered[job[r].barber] = {Line}
    BY <1>3, <2>1 DEF FlowInv, FlowTypeOK
  <2>3. job' = [job EXCEPT ![r] = new]
    BY <1>6, <2>2 DEF C!MatchRules, C!Step
  <2>4. /\ new.source = x
        /\ new.at = "insert"
        /\ new.barber = job[r].barber
        /\ new.items = {Line}
        /\ new \in [at : {"idle", "exists", "read", "rules", "insert", "done"},
                   source : Appointment \cup {NoSource},
                   barber : Barber \cup {NoBarber}, items : SUBSET {Line}]
    BY <1>1
  <2>5. x \notin raced => job[r].barber = slot[x].barber
    BY <1>6 DEF C!MatchRules, FlowInv, RunKnows
  <2>. HIDE DEF new
  <2>. QED  BY <1>2, <1>3, <2>1, <2>3, <2>4, <2>5, RunStepKeeps
<1>. QED  BY <1>4, <1>5, <1>6

LEMMA InsertKeeps ==
  ASSUME IInv, RInv, FlowInv, NEW r \in Request, UNCHANGED vars, UNCHANGED lost,
         C!InsertRows(r)
  PROVE  FlowInv'
<1>. DEFINE x   == job[r].source
            due == IF C!Duplicate(x) THEN {} ELSE job[r].items
            new == [job[r] EXCEPT !.at = "done"]
<1>. USE DEF FlowInv
<1>1. job[r].at = "insert" /\ job' = [job EXCEPT ![r] = new] /\ UNCHANGED covered
  BY DEF C!InsertRows, C!Step, C!env
<1>2. /\ Completing(r) /\ x = target[r] /\ x \in Appointment
      /\ slot[x] \in Slot
      /\ x \notin raced => status[x] = "COMPLETED"
  BY <1>1, RunIsAwaited
<1>3. /\ job[r].barber \in Barber
      /\ x \notin raced => job[r].barber = slot[x].barber
      /\ job[r].items = {Line}
  BY <1>1 DEF RunKnows
<1>4. (due = {} /\ C!RowsOf(x) # {}) \/ due = {Line}
  BY <1>2, <1>3 DEF C!Duplicate
<1>5. PICK id \in [due -> C!Unused] :
        commissions' = [c \in Commission |->
          IF \E i \in due : id[i] = c
          THEN [source |-> x, item |-> CHOOSE i \in due : id[i] = c,
                barber |-> job[r].barber, status |-> "PENDING", paidAt |-> FALSE]
          ELSE commissions[c]]
  BY DEF C!InsertRows
<1>. HIDE DEF due
<1>6. \A c \in Commission :
        \/ commissions'[c] = commissions[c]
        \/ /\ ~C!Exists(c)
           /\ commissions'[c] = [source |-> x, item |-> Line, barber |-> job[r].barber,
                                 status |-> "PENDING", paidAt |-> FALSE]
  BY <1>4, <1>5 DEF C!Unused
<1>7. \E c \in Commission : commissions'[c] # C!NoRow /\ commissions'[c].source = x
  <2>1. CASE due = {} /\ C!RowsOf(x) # {}
    BY <1>5, <2>1 DEF C!RowsOf, C!Exists
  <2>2. CASE due = {Line}
    <3>1. id[Line] \in Commission
      BY <2>2 DEF C!Unused
    <3>2. commissions'[id[Line]].source = x
      BY <1>5, <2>2, <3>1
    <3>3. x # NoSource
      BY <1>2, FlowAssumption
    <3>. QED  BY <3>1, <3>2, <3>3 DEF C!NoRow
  <2>. QED  BY <1>4, <2>1, <2>2
<1>8. \A c \in Commission : C!Exists(c) => commissions'[c] = commissions[c]
  BY <1>6
<1>9. FlowTypeOK'
  <2>1. commissions' \in [Commission -> C!Row \cup {C!NoRow}]
    BY <1>2, <1>3, <1>5, <1>6 DEF FlowTypeOK, C!Row, C!Source
  <2>2. job' \in [Request -> [at : {"idle", "exists", "read", "rules", "insert", "done"},
                          source : Appointment \cup {NoSource},
                          barber : Barber \cup {NoBarber},
                          items : SUBSET {Line}]]
    BY <1>1 DEF FlowTypeOK
  <2>. QED  BY <1>1, <2>1, <2>2 DEF FlowTypeOK, C!Row, C!NoRow, C!Source
<1>10. /\ job'[r].at = "done" /\ job'[r].source = x
       /\ \A q \in Request \ {r} : job'[q] = job[q]
  BY <1>1 DEF FlowTypeOK
<1>11. RunBelongs' /\ CompletedIsClosed'
  BY <1>2, <1>10 DEF RunBelongs, CompletedIsClosed, Completing, vars, rows, requests, history
<1>12. RunKnows'
  <2>1. ASSUME NEW a \in Appointment, a = x
        PROVE  HasCommission(a)'
    BY <1>7, <2>1 DEF HasCommission, C!RowsOf, C!Exists, C!NoRow
  <2>2. ASSUME NEW a \in Appointment, HasCommission(a)
        PROVE  HasCommission(a)'
    BY <1>8, <2>2 DEF HasCommission, C!RowsOf, C!Exists, C!NoRow
  <2>3. ASSUME NEW q \in Request, job[q].at = "done"
        PROVE  job[q].source \in Appointment
    BY <2>3, RunIsAwaited
  <2>4. UNCHANGED <<raced, slot>>
    BY DEF vars, rows, history
  <2>. QED  BY <1>2, <1>10, <2>1, <2>2, <2>3, <2>4 DEF RunKnows
<1>13. CommissionMatchesWork'
  <2>. SUFFICES ASSUME NEW a \in Appointment \ raced, NEW c \in Commission,
                       commissions'[c] # C!NoRow, commissions'[c].source = a
                PROVE  /\ status[a] = "COMPLETED"
                       /\ commissions'[c].barber = slot[a].barber
    BY DEF CommissionMatchesWork, C!RowsOf, C!Exists, C!NoRow, vars, rows, history
  <2>1. CASE commissions'[c] = commissions[c]
    BY <2>1 DEF CommissionMatchesWork, C!RowsOf, C!Exists
  <2>2. CASE commissions'[c] = [source |-> x, item |-> Line, barber |-> job[r].barber,
                                status |-> "PENDING", paidAt |-> FALSE]
    BY <1>2, <1>3, <2>2
  <2>. QED  BY <1>6, <2>1, <2>2
<1>. QED  BY <1>9, <1>11, <1>12, <1>13

LEMMA ListenerFailsKeeps ==
  ASSUME IInv, RInv, FlowInv, NEW r \in Request, ListenerFails(r)
  PROVE  FlowInv'
<1>. DEFINE new == [job[r] EXCEPT !.at = "done"]
<1>1. job[r].at # "idle" /\ job' = [job EXCEPT ![r] = new]
      /\ UNCHANGED <<vars, covered, commissions>>
      /\ lost' = lost \cup {job[r].source}
  BY DEF ListenerFails, C!FailJob, C!Step, C!env
<1>2. Completing(r) /\ job[r].source = target[r]
  BY <1>1, RunIsAwaited
<1>3. /\ new.at = "done" /\ new.source = job[r].source
      /\ new \in [at : {"idle", "exists", "read", "rules", "insert", "done"},
                 source : Appointment \cup {NoSource},
                 barber : Barber \cup {NoBarber}, items : SUBSET {Line}]
  BY DEF FlowInv, FlowTypeOK
<1>. HIDE DEF new
<1>. QED  BY <1>1, <1>2, <1>3, RunStepKeeps

\* A request that ends takes its run of the listener with it.
LEMMA EndKeeps ==
  ASSUME IInv, RInv, FlowInv, NEW r \in Request, Finish(r),
         UNCHANGED <<status, slot, raced, covered, commissions>>,
         lost \subseteq lost',
         job' = [job EXCEPT ![r] = C!IdleJob]
  PROVE  FlowInv'
<1>. USE DEF FlowInv
<1>1. C!IdleJob = [at |-> "idle", source |-> NoSource, barber |-> NoBarber, items |-> {}]
  BY DEF C!IdleJob
<1>2. FlowTypeOK'
  BY <1>1 DEF FlowTypeOK, C!Row, C!NoRow, C!Source
<1>3. /\ job'[r].at = "idle" /\ ~Completing(r)'
      /\ \A q \in Request \ {r} :
           /\ job'[q] = job[q] /\ target'[q] = target[q]
           /\ Completing(q)' <=> Completing(q)
  BY <1>1 DEF FlowTypeOK, Finish, Completing, IInv, TypeOK
<1>4. RunBelongs'
  BY <1>3 DEF RunBelongs
<1>5. CompletedIsClosed'
  BY <1>3 DEF CompletedIsClosed
<1>6. \A a \in Appointment : C!RowsOf(a)' = C!RowsOf(a)
  BY DEF C!RowsOf, C!Exists
<1>7. RunKnows'
  <2>1. ASSUME NEW q \in Request, job[q].at # "idle"
        PROVE  job[q].source \in Appointment
    BY <2>1, RunIsAwaited
  <2>. QED  BY <1>3, <1>6, <2>1 DEF RunKnows, HasCommission
<1>8. CommissionMatchesWork'
  BY <1>6 DEF CommissionMatchesWork
<1>. QED  BY <1>2, <1>4, <1>5, <1>7, <1>8

LEMMA FlowKeeps ==
  ASSUME IInv, RInv, FlowInv, IInv', RInv', [FlowNext]_all
  PROVE  FlowInv'
<1>0. [Next]_vars
  BY FlowStepIsStep
<1>1. ASSUME NEW r \in Request, Emit(r)
      PROVE  FlowInv'
  BY <1>1, EmitKeeps
<1>2. ASSUME NEW r \in Request, Listen(r)
      PROVE  FlowInv'
  BY <1>2, ReadingKeeps, InsertKeeps DEF Listen
<1>3. ASSUME NEW r \in Request, AnswerComplete(r)
      PROVE  FlowInv'
  BY <1>3, EndKeeps DEF AnswerComplete, Publish, C!Return, C!Step, C!env, rows, history
<1>4. ASSUME NEW r \in Request, ListenerFails(r)
      PROVE  FlowInv'
  BY <1>4, ListenerFailsKeeps
<1>5. ASSUME NEW r \in Request, Die(r)
      PROVE  FlowInv'
  BY <1>5, EndKeeps DEF Die, Abort, rows, history
<1>6. ASSUME NEW r \in Request, Book(r)
      PROVE  FlowInv'
  BY <1>0, <1>6, BookKeepsWaiting, QuietStepKeeps DEF Book
<1>7. CASE (Tick /\ UNCHANGED flow) \/ UNCHANGED all
  <2>1. UNCHANGED flow /\ UNCHANGED requests
    BY <1>7 DEF Tick, all, vars
  <2>. QED  BY <1>0, <2>1, QuietStepKeeps DEF Completing, requests
<1>. QED  BY <1>1, <1>2, <1>3, <1>4, <1>5, <1>6, <1>7 DEF FlowNext

-----------------------------------------------------------------------------

\* The composition only does to the appointment book what the book allows:
\* waiting for the listener disturbs none of its guarantees.
THEOREM FlowImplementsBook == FlowSpec => Spec
<1>1. FlowInit => Init
  BY DEF FlowInit
<1>. QED  BY <1>1, FlowStepIsStep, PTL DEF FlowSpec, Spec

\* The listener works inside the request that waits for it, on a row that is
\* closed unless two requests worked on it at once: the invariant that the
\* theorems below rest on.
THEOREM FlowInvariant == FlowSpec => []FlowInv
<1>1. IInv /\ IInv' /\ RInv /\ RInv' /\ FlowInv /\ [FlowNext]_all => FlowInv'
  BY FlowKeeps
<1>. QED  BY <1>1, FlowInitEstablishes, FlowImplementsBook, BookingInvariant,
             RulesInvariant, PTL DEF FlowSpec

\* Commissions are for work done, by the barber who did it.
THEOREM CommissionsMatchWork == FlowSpec => []CommissionMatchesWork
BY FlowInvariant, PTL DEF FlowInv

\* When `complete` answers, the commission is there, unless the listener failed.
THEOREM AnswersFollowCommissions == FlowSpec => AnswerFollowsCommission
<1>1. ASSUME FlowInv, NEW r \in Request, AnswerComplete(r)
      PROVE  HasCommission(target[r]) \/ target[r] \in lost
  <2>1. job[r].at = "done"
    BY <1>1 DEF AnswerComplete, C!Return
  <2>. QED  BY <1>1, <2>1 DEF FlowInv, RunKnows, RunBelongs
<1>2. FlowInv /\ [FlowNext]_all =>
        [\A r \in Request : AnswerComplete(r) =>
           HasCommission(target[r]) \/ target[r] \in lost]_all
  BY <1>1
<1>. QED  BY <1>2, FlowInvariant, PTL DEF FlowSpec, AnswerFollowsCommission

-----------------------------------------------------------------------------
\* What becomes of a completed appointment.

\* A commission that is there stays there.
LEMMA CommissionStays ==
  ASSUME FlowInv, [FlowNext]_all, NEW a \in Appointment, HasCommission(a)
  PROVE  HasCommission(a)'
<1>1. PICK c \in Commission : C!Exists(c) /\ commissions[c].source = a
  BY DEF HasCommission, C!RowsOf
<1>2. commissions'[c] = commissions[c]
  <2>1. CASE UNCHANGED commissions
    BY <2>1
  <2>2. CASE \E r \in Request : C!InsertRows(r)
    BY <1>1, <2>2 DEF C!InsertRows, C!Unused
  <2>. QED  BY <2>1, <2>2
       DEF FlowNext, Emit, Listen, AnswerComplete, ListenerFails, Die, Book, all, flow,
           C!Deliver, C!CheckExists, C!ReadSource, C!MatchRules, C!Return, C!FailJob
<1>. QED  BY <1>1, <1>2 DEF HasCommission, C!RowsOf, C!Exists

\* The request that completes a row goes on to announce it.
LEMMA CompletedByRequest ==
  ASSUME IInv, NEW r \in Request, Book(r), NEW a \in Appointment,
         status'[a] = "COMPLETED", status[a] # "COMPLETED"
  PROVE  Completing(r)' /\ target'[r] = a
<1>. USE DEF IInv, TypeOK, Book
<1>1. CASE Receive(r) \/ AcquireLock(r)
  BY <1>1 DEF Receive, BeginCreate, BeginReschedule, BeginConfirm, BeginComplete,
              BeginCancel, BeginNoShow, Load, AcquireLock, rows
<1>2. CASE Serve(r) /\ ~Completing(r)
  <2>1. CASE FindSlotFree(r) \/ FindSlotTaken(r) \/ Publish(r)
    BY <2>1 DEF FindSlotFree, FindSlotTaken, Publish, rows
  <2>2. CASE CommitCreate(r) \/ CommitReschedule(r)
    BY <2>2 DEF CommitCreate, CommitReschedule
  <2>3. CASE WriteConfirmed(r) \/ WriteCancelled(r) \/ WriteNoShow(r)
    BY <2>3 DEF WriteConfirmed, WriteCancelled, WriteNoShow, SetStatus
  <2>4. CASE WriteCompleted(r)
    BY <2>4 DEF WriteCompleted, SetStatus, Goto, Completing
  <2>. QED  BY <1>2, <2>1, <2>2, <2>3, <2>4 DEF Serve
<1>. QED  BY <1>1, <1>2

\* A request that leaves a row it was completing leaves a commission, or a loss.
LEMMA NobodyLeavesEarly ==
  ASSUME IInv, RInv, FlowInv, [FlowNext]_all, NEW r \in Request, Completing(r),
         ~(Completing(r)' /\ target'[r] = target[r])
  PROVE  HasCommission(target[r]) \/ target[r] \in lost'
<1>1. ASSUME NEW q \in Request, Emit(q) \/ Listen(q) \/ ListenerFails(q)
      PROVE  FALSE
  BY <1>1 DEF Emit, Listen, ListenerFails, vars, requests, Completing
<1>2. ASSUME NEW q \in Request, AnswerComplete(q)
      PROVE  HasCommission(target[r]) \/ target[r] \in lost'
  <2>1. q = r
    BY <1>2 DEF AnswerComplete, Publish, Finish, Completing, IInv, TypeOK
  <2>2. job[r].at = "done" /\ lost' = lost
    BY <1>2, <2>1 DEF AnswerComplete, C!Return
  <2>. QED  BY <2>2 DEF FlowInv, RunKnows, RunBelongs
<1>3. ASSUME NEW q \in Request, Die(q)
      PROVE  HasCommission(target[r]) \/ target[r] \in lost'
  <2>1. q = r
    BY <1>3 DEF Die, Abort, Finish, Completing, IInv, TypeOK
  <2>. QED  BY <1>3, <2>1 DEF Die
<1>4. ASSUME NEW q \in Request, Book(q)
      PROVE  FALSE
  BY <1>4, BookKeepsWaiting
<1>5. CASE (Tick /\ UNCHANGED flow) \/ UNCHANGED all
  BY <1>5 DEF Tick, all, vars, requests, Completing
<1>. QED  BY <1>1, <1>2, <1>3, <1>4, <1>5 DEF FlowNext

\* The safety half of "a completed appointment gets its commission": at every moment
\* it has one, is lost, or is in the hands of a request that completed it.
THEOREM CompletedAreAccountedFor == FlowSpec => []CompletedIsAccountedFor
<1>1. FlowInit => CompletedIsAccountedFor
  BY DEF FlowInit, Init, CompletedIsAccountedFor
<1>2. ASSUME IInv, RInv, FlowInv, CompletedIsAccountedFor, [FlowNext]_all
      PROVE  CompletedIsAccountedFor'
  <2>. SUFFICES ASSUME NEW a \in Appointment, status'[a] = "COMPLETED",
                       a \notin lost', ~HasCommission(a)'
                PROVE  \E r \in Request : Completing(r)' /\ target'[r] = a
    BY DEF CompletedIsAccountedFor
  <2>1. ~HasCommission(a) /\ a \notin lost
    <3>1. lost \subseteq lost'
      BY <1>2 DEF FlowNext, Emit, Listen, AnswerComplete, ListenerFails, Die, Book, all, flow
    <3>. QED  BY <1>2, <3>1, CommissionStays
  <2>2. CASE status[a] = "COMPLETED"
    <3>1. PICK r \in Request : Completing(r) /\ target[r] = a
      BY <1>2, <2>1, <2>2 DEF CompletedIsAccountedFor
    <3>. QED  BY <1>2, <2>1, <3>1, NobodyLeavesEarly
  <2>3. CASE status[a] # "COMPLETED"
    <3>1. \E r \in Request : Book(r)
      BY <1>2, <2>3 DEF FlowNext, Emit, Listen, AnswerComplete, ListenerFails, Die, Tick,
         Abort, Publish, all, vars, rows
    <3>. QED  BY <1>2, <2>3, <3>1, CompletedByRequest
  <2>. QED  BY <2>2, <2>3
<1>. QED  BY <1>1, <1>2, FlowInvariant, FlowImplementsBook, BookingInvariant,
             RulesInvariant, PTL DEF FlowSpec

-----------------------------------------------------------------------------
\* The composition under the eyes of the commissions.

\* To the commissions, the book changes whom one appointment credits, or nothing.
LEMMA BookRecredits ==
  ASSUME IInv, RInv, NEW r \in Request, Book(r)
  PROVE  (\E x \in C!Source, b \in Barber \cup {NoBarber} : C!Recredit(x, b))
         \/ UNCHANGED C!vars
<1>. USE DEF IInv, TypeOK, Book
<1>1. UNCHANGED <<covered, delivered, commissions, job, call, contested>>
  BY DEF flow
<1>2. CASE UNCHANGED slot
  BY <1>1, <1>2 DEF C!vars, C!env, Credit
<1>3. CASE CommitCreate(r) \/ CommitReschedule(r)
  <2>. DEFINE a == target[r]
              b == IF want[r] = NoSlot THEN NoBarber ELSE want[r].barber
  <2>1. a \in Appointment /\ slot' = [slot EXCEPT ![a] = want[r]]
    BY <1>3 DEF CommitCreate, CommitReschedule, RequestOK
  <2>2. b \in Barber \cup {NoBarber}
    BY DEF Interval, Slot
  <2>3. Credit' = [Credit EXCEPT ![a] = b]
    BY <2>1 DEF Credit
  <2>. HIDE DEF b
  <2>4. C!Recredit(a, b)
    BY <1>1, <2>3 DEF C!Recredit
  <2>. QED  BY <2>1, <2>2, <2>4 DEF C!Source
<1>4. UNCHANGED slot \/ CommitCreate(r) \/ CommitReschedule(r)
  BY DEF Receive, BeginCreate, BeginReschedule, BeginConfirm, BeginComplete, BeginCancel,
         BeginNoShow, Load, AcquireLock, Serve, FindSlotFree, FindSlotTaken, Publish,
         WriteConfirmed, WriteCancelled, WriteNoShow, WriteCompleted, SetStatus, rows
<1>. QED  BY <1>2, <1>3, <1>4

\* The composition implements the commissions as well as the book: the listener and
\* its rows behave as Commissions specifies, and whom an appointment credits changes
\* only as it allows, so that what holds there holds of appointments too.
THEOREM FlowImplementsCommissions == FlowSpec => C!Spec
<1>1. FlowInit => C!Init
  BY DEF FlowInit, Init, C!Init, C!Source, Credit
<1>2. ASSUME IInv, RInv, FlowInv, [FlowNext]_all
      PROVE  [C!Next]_(C!vars)
  <2>1. ASSUME NEW r \in Request, Emit(r)
        PROVE  C!Next
    <3>1. target[r] \in C!Source
      BY <1>2, <2>1 DEF Emit, Completing, IInv, RequestOK, C!Source
    <3>. QED  BY <2>1, <3>1 DEF Emit, C!Next
  <2>2. ASSUME NEW r \in Request, Listen(r) \/ AnswerComplete(r) \/ ListenerFails(r)
        PROVE  C!Next
    BY <2>2 DEF Listen, AnswerComplete, ListenerFails, C!Next, C!Work
  <2>3. ASSUME NEW r \in Request, Die(r)
        PROVE  [C!Next]_(C!vars)
    <3>1. UNCHANGED <<Credit, covered, delivered, commissions, call, contested>>
      BY <2>3 DEF Die, Abort, rows, Credit
    <3>2. job' = [job EXCEPT ![r] = C!IdleJob]
      BY <2>3 DEF Die
    <3>3. CASE job[r].at = "idle"
      <4>1. job' = job
        BY <1>2, <3>2, <3>3 DEF FlowInv, RunBelongs, FlowTypeOK
      <4>. QED  BY <3>1, <4>1 DEF C!vars, C!env
    <3>4. CASE job[r].at # "idle"
      BY <3>1, <3>2, <3>4 DEF C!CrashJob, C!Step, C!env, C!Next
    <3>. QED  BY <3>3, <3>4
  <2>4. ASSUME NEW r \in Request, Book(r)
        PROVE  [C!Next]_(C!vars)
    BY <1>2, <2>4, BookRecredits DEF C!Next
  <2>5. CASE (Tick /\ UNCHANGED flow) \/ UNCHANGED all
    BY <2>5 DEF Tick, all, vars, flow, rows, Credit, C!vars, C!env
  <2>. QED  BY <1>2, <2>1, <2>2, <2>3, <2>4, <2>5 DEF FlowNext
<1>. QED  BY <1>1, <1>2, FlowInvariant, FlowImplementsBook, BookingInvariant,
             RulesInvariant, PTL DEF FlowSpec, C!Spec
=============================================================================
