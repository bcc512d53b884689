------------------------- MODULE AppointmentsProofs -------------------------
(***************************************************************************)
(* For any number of rows, barbers, locks and requests: the advisory lock  *)
(* and the slot query keep every pair of bookings apart, except pairs in   *)
(* which one was put back by a status change that never queried its slot.  *)
(***************************************************************************)
EXTENDS Appointments, TLAPS

\* What a request carries at each point of its handler.
RequestOK ==
  \A r \in Request :
    /\ pc[r] \in {"lock", "slot", "commit"} =>
         target[r] \in Appointment /\ want[r] \in Slot
    /\ pc[r] \in {"write", "publish"} => target[r] \in Appointment
    /\ pc[r] = "write" => status[target[r]] # "NONE"

\* The inductive invariant.
IInv ==
  /\ TypeOK
  /\ RequestOK
  /\ LockCoversTransaction
  /\ CheckedSlotStaysFree
  /\ NoUncheckedConflict

\* Two transactions past their lock never want slots of one barber.
LEMMA LockExcludes ==
  ASSUME TypeOK, RequestOK, LockCoversTransaction,
         NEW q \in Request, NEW r \in Request,
         pc[q] \in {"slot", "commit"}, pc[r] \in {"slot", "commit"},
         Overlap(want[q], want[r])
  PROVE  q = r
BY DEF LockCoversTransaction, Overlap

\* A handler that only read keeps the invariant: nothing else has moved.
LEMMA LoadKeeps ==
  ASSUME IInv, NEW r \in Request, NEW o \in Op, NEW a \in Appointment,
         NEW s \in Interval \cup {NoSlot}, NEW next \in {"lock", "write"},
         next = "lock" => s \in Interval, next = "write" => status[a] # "NONE",
         Load(r, o, a, s, next)
  PROVE  IInv'
<1>. USE DEF IInv, Load, rows
<1>1. TypeOK'
  BY DEF TypeOK
<1>2. RequestOK'
  BY DEF TypeOK, RequestOK, Interval
<1>3. LockCoversTransaction'
  BY DEF TypeOK, LockCoversTransaction
<1>4. CheckedSlotStaysFree'
  BY DEF TypeOK, CheckedSlotStaysFree
<1>5. NoUncheckedConflict'
  BY DEF NoUncheckedConflict, Conflict
<1>. QED  BY <1>1, <1>2, <1>3, <1>4, <1>5

\* A request that ends and gives back its lock, with the rows untouched.
LEMMA FinishKeeps ==
  ASSUME IInv, NEW r \in Request, Release(r), Finish(r),
         UNCHANGED <<rows, active, now, history>>
  PROVE  IInv'
<1>. USE DEF IInv, Finish, Release, rows, history
<1>1. TypeOK'
  BY DEF TypeOK, Op
<1>2. RequestOK'
  BY DEF TypeOK, RequestOK
<1>3. LockCoversTransaction'
  BY ConstantsAssumption DEF TypeOK, LockCoversTransaction, RequestOK, Slot
<1>4. CheckedSlotStaysFree'
  BY DEF TypeOK, CheckedSlotStaysFree
<1>5. NoUncheckedConflict'
  BY DEF NoUncheckedConflict, Conflict
<1>. QED  BY <1>1, <1>2, <1>3, <1>4, <1>5

\* An unconditional status update of the row a request read earlier.
LEMMA SetStatusKeeps ==
  ASSUME IInv, NEW r \in Request, pc[r] = "write",
         NEW new \in Status, NEW stamp \in SUBSET Stamp,
         SetStatus(target[r], new, stamp),
         Goto(r, "publish") \/ Finish(r)
  PROVE  IInv'
<1>. DEFINE a == target[r]
<1>. USE DEF IInv, SetStatus
<1>0. a \in Appointment /\ status[a] # "NONE"
  BY DEF RequestOK
<1>1. TypeOK'
  <2>1. /\ status' \in [Appointment -> Status \cup {"NONE"}]
        /\ slot' \in [Appointment -> Interval \cup {NoSlot}]
        /\ \A b \in Appointment : status'[b] = "NONE" \/ slot'[b] \in Interval
    BY <1>0 DEF TypeOK
  <2>2. /\ stamps' \in [Appointment -> SUBSET Stamp]
        /\ revived' \subseteq Appointment
    BY <1>0 DEF TypeOK
  <2>3. /\ pc' \in [Request -> {"idle", "lock", "slot", "commit", "write", "publish"}]
        /\ op' \in [Request -> Op]
        /\ target' \in [Request -> Appointment \cup {NoTarget}]
        /\ want' \in [Request -> Interval \cup {NoSlot}]
    BY DEF TypeOK, Goto, Finish, Op
  <2>. QED  BY <2>1, <2>2, <2>3 DEF TypeOK
<1>2. RequestOK'
  BY <1>0 DEF TypeOK, RequestOK, Status, Goto, Finish
<1>3. LockCoversTransaction'
  BY DEF TypeOK, LockCoversTransaction, Goto, Finish
<1>4. CheckedSlotStaysFree'
  <2>. SUFFICES ASSUME NEW q \in Request, pc'[q] = "commit",
                       NEW b \in Appointment \ {target'[q]},
                       status'[b] \in Blocking, Overlap(slot'[b], want'[q])
                PROVE  b \in revived'
    BY DEF CheckedSlotStaysFree
  <2>1. q # r /\ pc[q] = "commit" /\ want'[q] = want[q] /\ target'[q] = target[q]
    BY DEF TypeOK, Goto, Finish
  <2>2. CASE b = a
    BY <2>1, <2>2, <1>0 DEF TypeOK, CheckedSlotStaysFree
  <2>3. CASE b # a
    BY <2>1, <2>3, <1>0 DEF TypeOK, CheckedSlotStaysFree
  <2>. QED  BY <2>2, <2>3
<1>5. NoUncheckedConflict'
  <2>. SUFFICES ASSUME NEW b \in Appointment, NEW c \in Appointment,
                       Conflict(b, c)'
                PROVE  b \in revived' \/ c \in revived'
    BY DEF NoUncheckedConflict
  <2>1. status' = [status EXCEPT ![a] = new] /\ slot' = slot
    BY DEF SetStatus
  <2>2. CASE status[a] \notin Blocking
    BY <2>1, <2>2, <1>0 DEF TypeOK, NoUncheckedConflict, Conflict
  <2>3. CASE status[a] \in Blocking
    BY <2>1, <2>3, <1>0 DEF TypeOK, NoUncheckedConflict, Conflict
  <2>. QED  BY <2>2, <2>3
<1>. QED  BY <1>1, <1>2, <1>3, <1>4, <1>5

-----------------------------------------------------------------------------
LEMMA InitEstablishes == Init => IInv
BY ConstantsAssumption
   DEF Init, IInv, TypeOK, RequestOK, LockCoversTransaction,
       CheckedSlotStaysFree, NoUncheckedConflict, Conflict, Op, Blocking

LEMMA ReceiveKeeps ==
  ASSUME IInv, NEW r \in Request, Receive(r)
  PROVE  IInv'
<1>1. CASE BeginCreate(r)
  <2>1. PICK a \in Appointment, b \in active, v \in Service, t \in Time :
          LET s == [barber |-> b, start |-> t, end |-> t + Duration[v]] IN
            AssertBookable(s) /\ Load(r, "create", a, s, "lock")
    BY <1>1 DEF BeginCreate
  <2>2. [barber |-> b, start |-> t, end |-> t + Duration[v]] \in Interval
    BY <2>1, ConstantsAssumption DEF AssertBookable, Interval, Time
  <2>. QED  BY <2>1, <2>2, LoadKeeps DEF Op
<1>2. CASE BeginReschedule(r)
  <2>1. PICK a \in Appointment, b \in active, t \in Time :
          LET s == [barber |-> b, start |-> t,
                    end |-> t + (slot[a].end - slot[a].start)] IN
            /\ slot[a] \in Interval
            /\ AssertBookable(s) /\ Load(r, "reschedule", a, s, "lock")
    BY <1>2 DEF BeginReschedule, IInv, TypeOK, Open
  <2>2. [barber |-> b, start |-> t,
         end |-> t + (slot[a].end - slot[a].start)] \in Interval
    BY <2>1, ConstantsAssumption DEF AssertBookable, Interval, Slot, Time
  <2>. QED  BY <2>1, <2>2, LoadKeeps DEF Op
<1>3. CASE BeginConfirm(r)
  BY <1>3, LoadKeeps DEF BeginConfirm, Op, StatusOp
<1>4. CASE BeginComplete(r)
  BY <1>4, LoadKeeps DEF BeginComplete, Op, StatusOp, Open
<1>5. CASE BeginCancel(r)
  BY <1>5, LoadKeeps DEF BeginCancel, Op, StatusOp, Open
<1>6. CASE BeginNoShow(r)
  BY <1>6, LoadKeeps DEF BeginNoShow, Op, StatusOp, Open
<1>. QED  BY <1>1, <1>2, <1>3, <1>4, <1>5, <1>6 DEF Receive

\* The lock is taken only when free, so no other transaction had it.
LEMMA AcquireLockKeeps ==
  ASSUME IInv, NEW r \in Request, AcquireLock(r)
  PROVE  IInv'
<1>. USE DEF IInv, AcquireLock, Goto, rows, history
<1>0. LockOf[want[r].barber] \in Lock
  BY ConstantsAssumption DEF RequestOK, Slot
<1>1. TypeOK'
  BY DEF TypeOK
<1>2. RequestOK'
  BY DEF TypeOK, RequestOK
<1>3. LockCoversTransaction'
  BY <1>0, ConstantsAssumption DEF TypeOK, LockCoversTransaction
<1>4. CheckedSlotStaysFree'
  BY DEF TypeOK, CheckedSlotStaysFree
<1>5. NoUncheckedConflict'
  BY DEF NoUncheckedConflict, Conflict
<1>. QED  BY <1>1, <1>2, <1>3, <1>4, <1>5

LEMMA FindSlotFreeKeeps ==
  ASSUME IInv, NEW r \in Request, FindSlotFree(r)
  PROVE  IInv'
<1>. USE DEF IInv, FindSlotFree, Goto, rows, history
<1>1. TypeOK'
  BY DEF TypeOK
<1>2. RequestOK'
  BY DEF TypeOK, RequestOK
<1>3. LockCoversTransaction'
  BY DEF TypeOK, LockCoversTransaction
<1>4. CheckedSlotStaysFree'
  BY DEF TypeOK, CheckedSlotStaysFree, SlotTaken
<1>5. NoUncheckedConflict'
  BY DEF NoUncheckedConflict, Conflict
<1>. QED  BY <1>1, <1>2, <1>3, <1>4, <1>5

\* The heart of the argument: the slot a transaction writes was free under
\* a lock it still holds, so only revived rows can collide with it, and no
\* other transaction has checked a slot that it takes.
LEMMA BookedSlotKeeps ==
  ASSUME IInv, NEW r \in Request, pc[r] = "commit",
         status' = [status EXCEPT ![target[r]] = "SCHEDULED"],
         slot' = [slot EXCEPT ![target[r]] = want[r]],
         revived' = revived \/ revived' = revived \ {target[r]},
         Goto(r, "publish") \/ Finish(r)
  PROVE  CheckedSlotStaysFree' /\ NoUncheckedConflict'
<1>. DEFINE a == target[r]
<1>. USE DEF IInv
<1>1. a \in Appointment
  BY DEF RequestOK
<1>2. CheckedSlotStaysFree'
  <2>. SUFFICES ASSUME NEW q \in Request, pc'[q] = "commit",
                       NEW b \in Appointment \ {target'[q]},
                       status'[b] \in Blocking, Overlap(slot'[b], want'[q])
                PROVE  b \in revived'
    BY DEF CheckedSlotStaysFree
  <2>1. q # r /\ pc[q] = "commit" /\ want'[q] = want[q] /\ target'[q] = target[q]
    BY DEF TypeOK, Goto, Finish
  <2>2. CASE b = a
    <3>1. Overlap(want[r], want[q])
      BY <1>1, <2>1, <2>2 DEF TypeOK
    <3>. QED  BY <2>1, <3>1, LockExcludes
  <2>3. CASE b # a
    BY <1>1, <2>1, <2>3 DEF TypeOK, CheckedSlotStaysFree
  <2>. QED  BY <2>2, <2>3
<1>3. NoUncheckedConflict'
  <2>. SUFFICES ASSUME NEW b \in Appointment, NEW c \in Appointment,
                       Conflict(b, c)'
                PROVE  b \in revived' \/ c \in revived'
    BY DEF NoUncheckedConflict
  <2>1. CASE b = a
    <3>1. c # a /\ status[c] \in Blocking /\ Overlap(slot[c], want[r])
      BY <1>1, <2>1 DEF TypeOK, Conflict, Overlap
    <3>. QED  BY <3>1 DEF CheckedSlotStaysFree
  <2>2. CASE c = a
    <3>1. b # a /\ status[b] \in Blocking /\ Overlap(slot[b], want[r])
      BY <1>1, <2>2 DEF TypeOK, Conflict, Overlap
    <3>. QED  BY <3>1 DEF CheckedSlotStaysFree
  <2>3. CASE b # a /\ c # a
    BY <1>1, <2>3 DEF TypeOK, NoUncheckedConflict, Conflict
  <2>. QED  BY <2>1, <2>2, <2>3
<1>. QED  BY <1>2, <1>3

LEMMA CommitKeeps ==
  ASSUME IInv, NEW r \in Request, CommitCreate(r) \/ CommitReschedule(r)
  PROVE  IInv'
<1>. USE DEF IInv, CommitCreate, CommitReschedule, Goto, Finish, Release, history
<1>0. target[r] \in Appointment /\ want[r] \in Interval
  BY ConstantsAssumption DEF RequestOK, TypeOK
<1>1. TypeOK'
  BY <1>0 DEF TypeOK, Status, Op
<1>2. RequestOK'
  BY DEF TypeOK, RequestOK
<1>3. LockCoversTransaction'
  BY ConstantsAssumption DEF TypeOK, LockCoversTransaction, RequestOK, Slot
<1>4. CheckedSlotStaysFree' /\ NoUncheckedConflict'
  BY BookedSlotKeeps
<1>. QED  BY <1>1, <1>2, <1>3, <1>4

LEMMA PublishKeeps ==
  ASSUME IInv, NEW r \in Request, Publish(r)
  PROVE  IInv'
<1>. USE DEF IInv, Publish, Finish, rows, history
<1>1. TypeOK'
  BY DEF TypeOK, Op
<1>2. RequestOK'
  BY DEF TypeOK, RequestOK
<1>3. LockCoversTransaction'
  BY DEF TypeOK, LockCoversTransaction
<1>4. CheckedSlotStaysFree'
  BY DEF TypeOK, CheckedSlotStaysFree
<1>5. NoUncheckedConflict'
  BY DEF NoUncheckedConflict, Conflict
<1>. QED  BY <1>1, <1>2, <1>3, <1>4, <1>5

LEMMA ServeKeeps ==
  ASSUME IInv, NEW r \in Request, Serve(r)
  PROVE  IInv'
<1>1. CASE FindSlotFree(r)
  BY <1>1, FindSlotFreeKeeps
<1>2. CASE FindSlotTaken(r)
  BY <1>2, FinishKeeps DEF FindSlotTaken
<1>3. CASE CommitCreate(r) \/ CommitReschedule(r)
  BY <1>3, CommitKeeps
<1>4. CASE WriteConfirmed(r)
  BY <1>4, SetStatusKeeps DEF WriteConfirmed, Status, Stamp
<1>5. CASE WriteCompleted(r)
  BY <1>5, SetStatusKeeps DEF WriteCompleted, Status, Stamp
<1>6. CASE WriteCancelled(r)
  BY <1>6, SetStatusKeeps DEF WriteCancelled, Status, Stamp
<1>7. CASE WriteNoShow(r)
  BY <1>7, SetStatusKeeps DEF WriteNoShow, Status
<1>8. CASE Publish(r)
  BY <1>8, PublishKeeps
<1>. QED  BY <1>1, <1>2, <1>3, <1>4, <1>5, <1>6, <1>7, <1>8 DEF Serve

\* The clock, the barbers' flags and stuttering touch neither the rows nor
\* the requests.
LEMMA RestKeeps ==
  ASSUME IInv,
         Tick \/ (\E b \in Barber : SetBarberActive(b)) \/ UNCHANGED vars
  PROVE  IInv'
<1>. USE DEF IInv, Tick, SetBarberActive, vars, rows, requests, history
<1>1. TypeOK'
  BY DEF TypeOK
<1>2. RequestOK'
  BY DEF RequestOK
<1>3. LockCoversTransaction'
  BY DEF LockCoversTransaction
<1>4. CheckedSlotStaysFree'
  BY DEF CheckedSlotStaysFree
<1>5. NoUncheckedConflict'
  BY DEF NoUncheckedConflict, Conflict
<1>. QED  BY <1>1, <1>2, <1>3, <1>4, <1>5

LEMMA NextKeeps == IInv /\ [Next]_vars => IInv'
<1>. SUFFICES ASSUME IInv, [Next]_vars
              PROVE  IInv'
  OBVIOUS
<1>1. ASSUME NEW r \in Request, Receive(r)
      PROVE  IInv'
  BY <1>1, ReceiveKeeps
<1>2. ASSUME NEW r \in Request, AcquireLock(r)
      PROVE  IInv'
  BY <1>2, AcquireLockKeeps
<1>3. ASSUME NEW r \in Request, Serve(r)
      PROVE  IInv'
  BY <1>3, ServeKeeps
<1>4. ASSUME NEW r \in Request, Abort(r)
      PROVE  IInv'
  BY <1>4, FinishKeeps DEF Abort
<1>. QED  BY <1>1, <1>2, <1>3, <1>4, RestKeeps DEF Next

\* The invariant behind the booking guarantee holds in every reachable state.
THEOREM BookingInvariant == Spec => []IInv
BY InitEstablishes, NextKeeps, PTL DEF Spec

\* Every variable of the appointment book keeps its type.
THEOREM TypeCorrect == Spec => []TypeOK
BY BookingInvariant, PTL DEF IInv

\* Bookings are serialized per barber: two of them collide only when a
\* status change put one back in the calendar without querying its slot.
THEOREM BookingsAreSerialized == Spec => []NoUncheckedConflict
BY BookingInvariant, PTL DEF IInv

\* Between its slot query and its commit, a transaction's slot stays free of
\* every row that went through the slot query.
THEOREM CheckedSlotIsKept == Spec => [](CheckedSlotStaysFree /\ LockCoversTransaction)
BY BookingInvariant, PTL DEF IInv

-----------------------------------------------------------------------------
\* The status rules: an appointment that no two requests work on at once
\* follows them, because what its only request has read is still true when
\* that request writes.

Busy(r) == pc[r] \in {"lock", "slot", "commit", "write"}

\* Two requests on a row have been noticed.
SoleWriter ==
  \A q, r \in Request :
    q # r /\ Busy(q) /\ Busy(r) /\ target[q] = target[r] => target[r] \in raced

\* What the only request on a row has read is still so.
ReadStillHolds ==
  \A r \in Request : Busy(r) /\ target[r] \notin raced =>
    /\ op[r] = "create" => status[target[r]] = "NONE"
    /\ op[r] # "create" => status[target[r]] \in Open
    /\ op[r] = "noShow" => slot[target[r]].start <= now

\* Rows are empty before their insert, and have a slot from then on.
InsertedRows ==
  \A a \in Appointment :
    /\ status[a] = "NONE" => stamps[a] = {}
    /\ status[a] # "NONE" => slot[a] \in Slot

\* What a request works on, and how.
OpOK ==
  \A r \in Request :
    /\ pc[r] \in {"lock", "slot", "commit"} => op[r] \in {"create", "reschedule"}
    /\ pc[r] = "write" => op[r] \in StatusOp
    /\ Busy(r) /\ op[r] # "create" => status[target[r]] # "NONE"

\* The inductive invariant; it needs the types and RequestOK of IInv.
RInv ==
  /\ OpOK
  /\ InsertedRows
  /\ SoleWriter
  /\ ReadStillHolds
  /\ ReopenedOnlyInRaces
  /\ StampsMatchStatus
  /\ NoShowHasStarted

\* What a handler reads before it is loaded, it may rely on.
LEMMA LoadKeepsRules ==
  ASSUME IInv, RInv, NEW r \in Request, NEW o \in Op, NEW a \in Appointment,
         NEW s \in Slot \cup {NoSlot}, NEW next \in {"lock", "write"},
         next = "lock" => o \in {"create", "reschedule"},
         next = "write" => o \in StatusOp,
         o = "create" => status[a] = "NONE" /\ \A q \in Request : target[q] # a,
         o # "create" => status[a] \in Open,
         o = "noShow" => slot[a].start <= now,
         Load(r, o, a, s, next)
  PROVE  RInv'
<1>. USE DEF IInv, RInv, Load, rows, Busy
<1>1. OpOK'
  BY DEF TypeOK, OpOK, Open
<1>2. InsertedRows'
  BY DEF InsertedRows
<1>3. SoleWriter'
  BY DEF TypeOK, SoleWriter, Working
<1>4. ReadStillHolds'
  BY DEF TypeOK, ReadStillHolds
<1>5. ReopenedOnlyInRaces' /\ StampsMatchStatus' /\ NoShowHasStarted'
  BY DEF ReopenedOnlyInRaces, StampsMatchStatus, NoShowHasStarted
<1>. QED  BY <1>1, <1>2, <1>3, <1>4, <1>5

LEMMA ReceiveKeepsRules ==
  ASSUME IInv, RInv, NEW r \in Request, Receive(r)
  PROVE  RInv'
<1>. USE DEF Op, StatusOp
<1>1. CASE BeginCreate(r)
  <2>1. PICK a \in Appointment, b \in active, v \in Service, t \in Time :
          LET s == [barber |-> b, start |-> t, end |-> t + Duration[v]] IN
            /\ status[a] = "NONE"
            /\ \A q \in Request : target[q] # a
            /\ AssertBookable(s)
            /\ Load(r, "create", a, s, "lock")
    BY <1>1 DEF BeginCreate
  <2>2. [barber |-> b, start |-> t, end |-> t + Duration[v]] \in Slot
    BY <2>1, ConstantsAssumption DEF AssertBookable
  <2>. QED  BY <2>1, <2>2, LoadKeepsRules
<1>2. CASE BeginReschedule(r)
  <2>1. PICK a \in Appointment, b \in active, t \in Time :
          LET s == [barber |-> b, start |-> t,
                    end |-> t + (slot[a].end - slot[a].start)] IN
            /\ status[a] \in Open
            /\ AssertBookable(s)
            /\ Load(r, "reschedule", a, s, "lock")
    BY <1>2 DEF BeginReschedule
  <2>2. [barber |-> b, start |-> t,
         end |-> t + (slot[a].end - slot[a].start)] \in Slot
    BY <2>1, ConstantsAssumption DEF AssertBookable
  <2>. QED  BY <2>1, <2>2, LoadKeepsRules
<1>3. CASE BeginConfirm(r)
  BY <1>3, LoadKeepsRules DEF BeginConfirm, Open
<1>4. CASE BeginComplete(r)
  BY <1>4, LoadKeepsRules DEF BeginComplete
<1>5. CASE BeginCancel(r)
  BY <1>5, LoadKeepsRules DEF BeginCancel
<1>6. CASE BeginNoShow(r)
  BY <1>6, LoadKeepsRules DEF BeginNoShow
<1>. QED  BY <1>1, <1>2, <1>3, <1>4, <1>5, <1>6 DEF Receive

\* A request that goes on, or ends, without writing a row.
LEMMA ProgressKeepsRules ==
  ASSUME IInv, RInv, NEW r \in Request,
         \/ pc[r] = "lock" /\ Goto(r, "slot")
         \/ pc[r] = "slot" /\ Goto(r, "commit")
         \/ Finish(r),
         UNCHANGED <<rows, now, history>>
  PROVE  RInv'
<1>. USE DEF IInv, RInv, Goto, Finish, rows, history, Busy
<1>1. OpOK'
  BY DEF TypeOK, OpOK
<1>2. InsertedRows'
  BY DEF InsertedRows
<1>3. SoleWriter'
  BY DEF TypeOK, SoleWriter
<1>4. ReadStillHolds'
  BY DEF TypeOK, ReadStillHolds
<1>5. ReopenedOnlyInRaces' /\ StampsMatchStatus' /\ NoShowHasStarted'
  BY DEF ReopenedOnlyInRaces, StampsMatchStatus, NoShowHasStarted
<1>. QED  BY <1>1, <1>2, <1>3, <1>4, <1>5

\* What every write leaves to the other requests: they work on other rows, or
\* on one that is known to be raced.
LEMMA WriteKeepsOthers ==
  ASSUME IInv, RInv, NEW r \in Request, Busy(r),
         Goto(r, "publish") \/ Finish(r),
         \A a \in Appointment \ {target[r]} :
           status'[a] = status[a] /\ slot'[a] = slot[a],
         status'[target[r]] \in Status,
         UNCHANGED <<now, raced>>
  PROVE  OpOK' /\ SoleWriter' /\ ReadStillHolds'
<1>. USE DEF IInv, RInv, Goto, Finish, Busy
<1>1. \A q \in Request : Busy(q)' => q # r /\ Busy(q)
                                     /\ target'[q] = target[q] /\ op'[q] = op[q]
  BY DEF TypeOK
<1>2. \A q \in Request : Busy(q) => target[q] \in Appointment
  BY DEF RequestOK
<1>3. OpOK'
  <2>. SUFFICES ASSUME NEW q \in Request, pc'[q] \in {"lock", "slot", "commit", "write"}
                PROVE  /\ pc'[q] \in {"lock", "slot", "commit"}
                            => op'[q] \in {"create", "reschedule"}
                       /\ pc'[q] = "write" => op'[q] \in StatusOp
                       /\ op'[q] # "create" => status'[target'[q]] # "NONE"
    BY DEF OpOK
  <2>1. q # r /\ pc'[q] = pc[q] /\ op'[q] = op[q] /\ target'[q] = target[q]
        /\ target[q] \in Appointment
    BY <1>1, <1>2 DEF TypeOK
  <2>2. op[q] # "create" => status'[target[q]] # "NONE"
    BY <2>1 DEF OpOK, Status
  <2>. QED  BY <2>1, <2>2 DEF OpOK
<1>4. SoleWriter'
  BY <1>1 DEF SoleWriter
<1>5. ReadStillHolds'
  <2>. SUFFICES ASSUME NEW q \in Request, Busy(q)', target'[q] \notin raced'
                PROVE  /\ op'[q] = "create" => status'[target'[q]] = "NONE"
                       /\ op'[q] # "create" => status'[target'[q]] \in Open
                       /\ op'[q] = "noShow" => slot'[target'[q]].start <= now'
    BY DEF ReadStillHolds
  <2>1. target[q] # target[r]
    BY <1>1 DEF SoleWriter
  <2>. QED  BY <1>1, <1>2, <2>1 DEF ReadStillHolds
<1>. QED  BY <1>3, <1>4, <1>5

\* The four status changes: the row is open unless it is raced.
LEMMA SetStatusKeepsRules ==
  ASSUME IInv, RInv, NEW r \in Request, pc[r] = "write",
         NEW new \in Status \ {"SCHEDULED"}, NEW stamp \in SUBSET Stamp,
         "completedAt" \in stamp <=> new = "COMPLETED",
         "cancelledAt" \in stamp <=> new = "CANCELLED",
         new = "NO_SHOW" => op[r] = "noShow",
         SetStatus(target[r], new, stamp),
         Goto(r, "publish") \/ Finish(r)
  PROVE  RInv'
<1>. DEFINE a == target[r]
<1>. USE DEF IInv, RInv, SetStatus
<1>0. a \in Appointment /\ op[r] \in StatusOp /\ status[a] # "NONE"
  BY DEF RequestOK, OpOK, Busy, StatusOp
<1>1. a \notin raced => status[a] \in Open
  BY <1>0 DEF ReadStillHolds, Busy, StatusOp
<1>2. OpOK' /\ SoleWriter' /\ ReadStillHolds'
  BY <1>0, WriteKeepsOthers DEF TypeOK, Busy
<1>3. InsertedRows'
  BY <1>0 DEF TypeOK, InsertedRows, Status
<1>4. ReopenedOnlyInRaces'
  BY <1>0, <1>1 DEF ReopenedOnlyInRaces, Open, Blocking
<1>5. StampsMatchStatus'
  <2>. SUFFICES ASSUME NEW b \in Appointment \ raced
                PROVE  /\ "completedAt" \in stamps'[b] <=> status'[b] = "COMPLETED"
                       /\ "cancelledAt" \in stamps'[b] <=> status'[b] = "CANCELLED"
                       /\ status'[b] = "SCHEDULED" => stamps'[b] = {}
    BY DEF StampsMatchStatus
  <2>1. CASE b = a
    BY <1>0, <1>1, <2>1 DEF TypeOK, StampsMatchStatus, Open
  <2>2. CASE b # a
    BY <1>0, <2>2 DEF TypeOK, StampsMatchStatus
  <2>. QED  BY <2>1, <2>2
<1>6. NoShowHasStarted'
  BY <1>0 DEF TypeOK, NoShowHasStarted, ReadStillHolds, Busy
<1>. QED  BY <1>2, <1>3, <1>4, <1>5, <1>6

\* The two bookings: a new row, or one that is open unless it is raced.
LEMMA CommitKeepsRules ==
  ASSUME IInv, RInv, NEW r \in Request, CommitCreate(r) \/ CommitReschedule(r)
  PROVE  RInv'
<1>. DEFINE a == target[r]
<1>. USE DEF IInv, RInv, CommitCreate, CommitReschedule
<1>0. a \in Appointment /\ want[r] \in Slot
  BY DEF RequestOK
<1>1. OpOK' /\ SoleWriter' /\ ReadStillHolds'
  BY <1>0, WriteKeepsOthers DEF TypeOK, Busy, Status, history
<1>2. InsertedRows'
  BY <1>0 DEF TypeOK, InsertedRows
<1>3. ReopenedOnlyInRaces'
  BY DEF ReopenedOnlyInRaces, history
<1>4. StampsMatchStatus'
  <2>. SUFFICES ASSUME NEW b \in Appointment \ raced
                PROVE  /\ "completedAt" \in stamps'[b] <=> status'[b] = "COMPLETED"
                       /\ "cancelledAt" \in stamps'[b] <=> status'[b] = "CANCELLED"
                       /\ status'[b] = "SCHEDULED" => stamps'[b] = {}
    BY DEF StampsMatchStatus, history
  <2>1. CASE b # a
    BY <1>0, <2>1 DEF TypeOK, StampsMatchStatus
  <2>2. CASE b = a /\ CommitCreate(r)
    <3>1. stamps'[a] = {} /\ status'[a] = "SCHEDULED"
      BY <1>0, <2>2 DEF TypeOK, ReadStillHolds, InsertedRows, Busy
    <3>. QED  BY <2>2, <3>1
  <2>3. CASE b = a /\ CommitReschedule(r)
    <3>1. status[a] \in Open
      BY <2>3 DEF ReadStillHolds, Busy
    <3>2. stamps[a] \subseteq {"confirmedAt"}
      BY <1>0, <2>3, <3>1 DEF TypeOK, StampsMatchStatus, Open, Stamp
    <3>3. stamps'[a] = {} /\ status'[a] = "SCHEDULED"
      BY <1>0, <2>3, <3>2 DEF TypeOK
    <3>. QED  BY <2>3, <3>3
  <2>. QED  BY <2>1, <2>2, <2>3
<1>5. NoShowHasStarted'
  BY <1>0 DEF TypeOK, NoShowHasStarted, history
<1>. QED  BY <1>1, <1>2, <1>3, <1>4, <1>5

LEMMA ServeKeepsRules ==
  ASSUME IInv, RInv, NEW r \in Request, Serve(r)
  PROVE  RInv'
<1>. USE DEF Status, Stamp
<1>1. CASE FindSlotFree(r)
  BY <1>1, ProgressKeepsRules DEF FindSlotFree
<1>2. CASE FindSlotTaken(r)
  BY <1>2, ProgressKeepsRules DEF FindSlotTaken
<1>3. CASE CommitCreate(r) \/ CommitReschedule(r)
  BY <1>3, CommitKeepsRules
<1>4. CASE WriteConfirmed(r)
  BY <1>4, SetStatusKeepsRules DEF WriteConfirmed
<1>5. CASE WriteCompleted(r)
  BY <1>5, SetStatusKeepsRules DEF WriteCompleted
<1>6. CASE WriteCancelled(r)
  BY <1>6, SetStatusKeepsRules DEF WriteCancelled
<1>7. CASE WriteNoShow(r)
  BY <1>7, SetStatusKeepsRules DEF WriteNoShow
<1>8. CASE Publish(r)
  BY <1>8, ProgressKeepsRules DEF Publish
<1>. QED  BY <1>1, <1>2, <1>3, <1>4, <1>5, <1>6, <1>7, <1>8 DEF Serve

\* Time only makes a started slot older.
LEMMA RestKeepsRules ==
  ASSUME IInv, RInv,
         Tick \/ (\E b \in Barber : SetBarberActive(b)) \/ UNCHANGED vars
  PROVE  RInv'
<1>. USE DEF IInv, RInv, Tick, SetBarberActive, vars, rows, requests, history, Busy
<1>0. now' \in {now, now + 1} /\ now \in Nat
  BY DEF TypeOK
<1>1. OpOK' /\ InsertedRows' /\ SoleWriter'
  BY DEF OpOK, InsertedRows, SoleWriter
<1>2. ReadStillHolds'
  <2>. SUFFICES ASSUME NEW r \in Request, Busy(r), target[r] \notin raced
                PROVE  op[r] = "noShow" => slot[target[r]].start <= now'
    BY DEF ReadStillHolds
  <2>1. target[r] \in Appointment
    BY DEF RequestOK
  <2>2. CASE op[r] = "noShow"
    <3>1. slot[target[r]] \in Slot
      BY <2>1, <2>2 DEF OpOK, InsertedRows
    <3>2. slot[target[r]].start \in Nat
      BY <3>1 DEF Slot
    <3>3. slot[target[r]].start <= now
      BY <2>2 DEF ReadStillHolds
    <3>. QED  BY <1>0, <3>2, <3>3
  <2>. QED  BY <2>2
<1>3. ReopenedOnlyInRaces' /\ StampsMatchStatus'
  BY DEF ReopenedOnlyInRaces, StampsMatchStatus
<1>4. NoShowHasStarted'
  <2>. SUFFICES ASSUME NEW a \in Appointment \ raced, status[a] = "NO_SHOW"
                PROVE  slot[a].start <= now'
    BY DEF NoShowHasStarted
  <2>1. slot[a] \in Slot /\ slot[a].start <= now
    BY DEF InsertedRows, NoShowHasStarted
  <2>2. slot[a].start \in Nat
    BY <2>1 DEF Slot
  <2>. QED  BY <1>0, <2>1, <2>2
<1>. QED  BY <1>1, <1>2, <1>3, <1>4

LEMMA NextKeepsRules ==
  ASSUME IInv, RInv, [Next]_vars
  PROVE  RInv'
<1>1. ASSUME NEW r \in Request, Receive(r)
      PROVE  RInv'
  BY <1>1, ReceiveKeepsRules
<1>2. ASSUME NEW r \in Request, AcquireLock(r)
      PROVE  RInv'
  BY <1>2, ProgressKeepsRules DEF AcquireLock
<1>3. ASSUME NEW r \in Request, Serve(r)
      PROVE  RInv'
  BY <1>3, ServeKeepsRules
<1>4. ASSUME NEW r \in Request, Abort(r)
      PROVE  RInv'
  BY <1>4, ProgressKeepsRules DEF Abort
<1>. QED  BY <1>1, <1>2, <1>3, <1>4, RestKeepsRules DEF Next

LEMMA InitEstablishesRules == Init => RInv
BY DEF Init, RInv, OpOK, InsertedRows, SoleWriter, ReadStillHolds, Busy,
       ReopenedOnlyInRaces, StampsMatchStatus, NoShowHasStarted

\* An appointment with one request at work follows the status rules of
\* AppointmentsService, because what that request read before it writes still
\* holds: the invariant that the theorems below rest on.
THEOREM RulesInvariant == Spec => []RInv
<1>1. IInv /\ RInv /\ [Next]_vars => RInv'
  BY NextKeepsRules
<1>. QED  BY <1>1, InitEstablishesRules, BookingInvariant, PTL DEF Spec

\* Timestamps tell the path of a row, and nobody is marked absent early.
THEOREM RowsFollowRules ==
  Spec => [](StampsMatchStatus /\ NoShowHasStarted /\ ReopenedOnlyInRaces)
BY RulesInvariant, PTL DEF RInv

\* Only the request that works on a row writes it, and it read an open one.
LEMMA ClosedRowsStay ==
  ASSUME IInv, RInv, [Next]_vars,
         NEW a \in Appointment \ raced, status[a] \in Status \ Open
  PROVE  status'[a] = status[a] /\ slot'[a] = slot[a]
<1>. USE DEF IInv, RInv, rows
<1>1. ASSUME NEW r \in Request, Serve(r)
      PROVE  status'[a] = status[a] /\ slot'[a] = slot[a]
  <2>1. Busy(r) => target[r] # a
    BY DEF ReadStillHolds, Status
  <2>2. CASE FindSlotFree(r) \/ FindSlotTaken(r) \/ Publish(r)
    BY <2>2 DEF FindSlotFree, FindSlotTaken, Publish
  <2>3. CASE CommitCreate(r) \/ CommitReschedule(r)
    BY <2>1, <2>3 DEF CommitCreate, CommitReschedule, Busy, TypeOK
  <2>4. CASE WriteConfirmed(r) \/ WriteCompleted(r) \/ WriteCancelled(r) \/ WriteNoShow(r)
    BY <2>1, <2>4 DEF WriteConfirmed, WriteCompleted, WriteCancelled, WriteNoShow,
                      SetStatus, Busy, TypeOK
  <2>. QED  BY <1>1, <2>2, <2>3, <2>4 DEF Serve
<1>2. ASSUME NEW r \in Request, Receive(r) \/ AcquireLock(r) \/ Abort(r)
      PROVE  UNCHANGED rows
  BY <1>2 DEF Receive, BeginCreate, BeginReschedule, BeginConfirm, BeginComplete,
              BeginCancel, BeginNoShow, Load, AcquireLock, Abort
<1>3. CASE Tick \/ (\E b \in Barber : SetBarberActive(b)) \/ UNCHANGED vars
  BY <1>3 DEF Tick, SetBarberActive, vars
<1>. QED  BY <1>1, <1>2, <1>3 DEF Next

\* A completed, cancelled or missed appointment is closed for good.
THEOREM ClosedForGood == Spec => TerminalIsFinal
<1>1. IInv /\ RInv /\ [Next]_vars =>
        [\A a \in Appointment \ raced :
           status[a] \in Status \ Open => UNCHANGED <<status[a], slot[a]>>]_rows
  BY ClosedRowsStay
<1>. QED  BY <1>1, BookingInvariant, RulesInvariant, PTL DEF Spec, TerminalIsFinal

\* The promise of createIfSlotFree for appointments that no two requests work
\* on at once: they are never booked over each other.
THEOREM UnracedNeverOverlap ==
  Spec => [](\A a, b \in Appointment \ raced : ~Conflict(a, b))
<1>1. IInv /\ RInv => \A a, b \in Appointment \ raced : ~Conflict(a, b)
  BY DEF IInv, RInv, NoUncheckedConflict, ReopenedOnlyInRaces
<1>. QED  BY <1>1, BookingInvariant, RulesInvariant, PTL
=============================================================================
