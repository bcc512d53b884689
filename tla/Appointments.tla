---------------------------- MODULE Appointments ----------------------------
(***************************************************************************)
(* The appointment book of the barbershop module: AppointmentsService and  *)
(* AppointmentsRepository (business-modules/barbershop/appointments).      *)
(*                                                                         *)
(* A request is one HTTP call in flight.  It runs the handler of one       *)
(* operation, and every `await` on the database is a place where other     *)
(* requests run, in this process or in another instance of the API.  A     *)
(* handler first reads (and validates) and later writes:                   *)
(*                                                                         *)
(*   create, reschedule  read -> advisory lock -> slot query -> commit     *)
(*   confirm, complete,                                                    *)
(*   cancel, no-show     read -> unconditional UPDATE                      *)
(*                                                                         *)
(* PostgreSQL runs at READ COMMITTED, so a single statement is a step and  *)
(* what a transaction wrote appears when it commits.                       *)
(***************************************************************************)
EXTENDS Integers, FiniteSets

CONSTANTS
  Appointment,  \* ids an appointment row can get
  Barber,
  Service,
  Request,      \* HTTP requests that can be in flight at once
  Lock,         \* values of hashtext(barberId)
  LockOf,       \* the advisory lock each barber maps to (collisions allowed)
  Duration,     \* minutes of each service, DEFAULT_DURATION_MINUTES if unset
  Bookable,     \* slots inside opening hours and the barber's shift
  MaxTime,      \* bound of the clock and of requested starts
  NoSlot,       \* a row not yet inserted, or a request that carries no slot
  NoTarget,     \* a request that names no row
  Free          \* an advisory lock nobody holds

Time == 0..MaxTime

Slot == [barber : Barber, start : Nat, end : Nat]

\* A slot that has a length; assertBookable does not compare the two times.
Interval == {s \in Slot : s.start < s.end}

ASSUME ConstantsAssumption ==
  /\ LockOf \in [Barber -> Lock]
  /\ Duration \in [Service -> Nat \ {0}]
  /\ Bookable \subseteq Slot
  /\ MaxTime \in Nat
  /\ NoSlot \notin Slot
  /\ NoTarget \notin Appointment
  /\ Free \notin Request

Status   == {"SCHEDULED", "CONFIRMED", "COMPLETED", "CANCELLED", "NO_SHOW"}
Open     == {"SCHEDULED", "CONFIRMED"}
Blocking == {"SCHEDULED", "CONFIRMED", "COMPLETED"}
Stamp    == {"confirmedAt", "completedAt", "cancelledAt"}

\* Operations that end in one unconditional UPDATE of the status.
StatusOp == {"confirm", "complete", "cancel", "noShow"}
Op       == StatusOp \cup {"create", "reschedule"}

VARIABLES
  status,     \* status column of each row, "NONE" before the insert
  slot,       \* barberId, startsAt and endsAt columns of each row
  stamps,     \* which of the three timestamp columns of a row are set
  active,     \* barbers with isActive = true
  now,        \* the clock handlers read
  pc,         \* where each request is
  op,         \* the operation it runs
  target,     \* the row it works on
  want,       \* the slot it asks for
  lock,       \* holder of each advisory lock
  revived,    \* rows whose last move into a blocking status skipped the
              \* slot query (history)
  raced       \* rows that two requests have worked on at once (history)

rows     == <<status, slot, stamps>>
requests == <<pc, op, target, want>>
history  == <<revived, raced>>
vars     == <<rows, active, now, requests, lock, history>>

Overlap(s, t) ==
  /\ s.barber = t.barber
  /\ s.start < t.end
  /\ t.start < s.end

\* Mutant of SlotTaken: only looks for rows that are running when s starts.
RunningSlotTaken(s, exclude) ==
  \E a \in Appointment \ {exclude} :
    /\ status[a] \in Blocking
    /\ slot[a].barber = s.barber
    /\ slot[a].start <= s.start /\ s.start < slot[a].end

\* slotTaken: another blocking row of the barber overlaps the wanted slot.
SlotTaken(s, exclude) ==
  \E a \in Appointment \ {exclude} :
    status[a] \in Blocking /\ Overlap(slot[a], s)

Init ==
  /\ status = [a \in Appointment |-> "NONE"]
  /\ slot = [a \in Appointment |-> NoSlot]
  /\ stamps = [a \in Appointment |-> {}]
  /\ active = Barber
  /\ now = 0
  /\ pc = [r \in Request |-> "idle"]
  /\ op = [r \in Request |-> "create"]
  /\ target = [r \in Request |-> NoTarget]
  /\ want = [r \in Request |-> NoSlot]
  /\ lock = [k \in Lock |-> Free]
  /\ revived = {}
  /\ raced = {}

-----------------------------------------------------------------------------
\* Moving a request through its handler.

\* A request that will still write the row a.
Working(r, a) == target[r] = a /\ pc[r] \in {"lock", "slot", "commit", "write"}

Load(r, o, a, s, next) ==
  /\ pc[r] = "idle"
  /\ pc' = [pc EXCEPT ![r] = next]
  /\ op' = [op EXCEPT ![r] = o]
  /\ target' = [target EXCEPT ![r] = a]
  /\ want' = [want EXCEPT ![r] = s]
  /\ raced' = IF \E q \in Request : Working(q, a) THEN raced \cup {a} ELSE raced
  /\ UNCHANGED <<rows, active, now, lock, revived>>

Goto(r, next) ==
  /\ pc' = [pc EXCEPT ![r] = next]
  /\ UNCHANGED <<op, target, want>>

\* The answer is sent, or the request dies: nothing of it remains.
Finish(r) ==
  /\ pc' = [pc EXCEPT ![r] = "idle"]
  /\ op' = [op EXCEPT ![r] = "create"]
  /\ target' = [target EXCEPT ![r] = NoTarget]
  /\ want' = [want EXCEPT ![r] = NoSlot]

\* The end of a transaction gives back its advisory lock.
Release(r) == lock' = [k \in Lock |-> IF lock[k] = r THEN Free ELSE lock[k]]

\* assertBookable: in the future, within opening hours and the shift.
AssertBookable(s) == s.start > now /\ s \in Bookable

-----------------------------------------------------------------------------
\* Reading steps: the row, the barber and the rules are read and validated.

\* create: the barber must be active; the duration comes from the service.
BeginCreate(r) ==
  \E a \in Appointment, b \in active, v \in Service, t \in Time :
    LET s == [barber |-> b, start |-> t, end |-> t + Duration[v]] IN
      /\ status[a] = "NONE"
      /\ \A q \in Request : target[q] # a
      /\ AssertBookable(s)
      /\ Load(r, "create", a, s, "lock")

\* Mutant of BeginReschedule: completed rows can be moved too.
BeginRescheduleBlocking(r) ==
  \E a \in Appointment, b \in active, t \in Time :
    LET s == [barber |-> b, start |-> t,
              end |-> t + (slot[a].end - slot[a].start)] IN
      /\ status[a] \in Blocking
      /\ AssertBookable(s)
      /\ Load(r, "reschedule", a, s, "lock")

\* Mutant of BeginReschedule: the row keeps its end, not its length.
BeginRescheduleStart(r) ==
  \E a \in Appointment, b \in active, t \in Time :
    LET s == [barber |-> b, start |-> t, end |-> slot[a].end] IN
      /\ status[a] \in Open
      /\ AssertBookable(s)
      /\ Load(r, "reschedule", a, s, "lock")

\* reschedule: an open row keeps its length and may change barber.
BeginReschedule(r) ==
  \E a \in Appointment, b \in active, t \in Time :
    LET s == [barber |-> b, start |-> t,
              end |-> t + (slot[a].end - slot[a].start)] IN
      /\ status[a] \in Open
      /\ AssertBookable(s)
      /\ Load(r, "reschedule", a, s, "lock")

BeginConfirm(r) ==
  \E a \in Appointment :
    /\ status[a] = "SCHEDULED"
    /\ Load(r, "confirm", a, NoSlot, "write")

BeginComplete(r) ==
  \E a \in Appointment :
    /\ status[a] \in Open
    /\ Load(r, "complete", a, NoSlot, "write")

\* Mutant of BeginCancel: only refuses to cancel twice.
BeginCancelAny(r) ==
  \E a \in Appointment :
    /\ status[a] \in Status \ {"CANCELLED"}
    /\ Load(r, "cancel", a, NoSlot, "write")

BeginCancel(r) ==
  \E a \in Appointment :
    /\ status[a] \in Open
    /\ Load(r, "cancel", a, NoSlot, "write")

BeginNoShow(r) ==
  \E a \in Appointment :
    /\ status[a] \in Open
    /\ slot[a].start <= now
    /\ Load(r, "noShow", a, NoSlot, "write")

-----------------------------------------------------------------------------
\* The booking transaction.

\* Mutant of AcquireLock: takes the lock without waiting for it.
SeizeLock(r) ==
  /\ pc[r] = "lock"
  /\ lock' = [lock EXCEPT ![LockOf[want[r].barber]] = r]
  /\ Goto(r, "slot")
  /\ UNCHANGED <<rows, active, now, history>>

\* pg_advisory_xact_lock(hashtext(barberId)): waits while it is held.
AcquireLock(r) ==
  /\ pc[r] = "lock"
  /\ lock[LockOf[want[r].barber]] = Free
  /\ lock' = [lock EXCEPT ![LockOf[want[r].barber]] = r]
  /\ Goto(r, "slot")
  /\ UNCHANGED <<rows, active, now, history>>

\* The overlap query finds nothing: the transaction goes on to write.
FindSlotFree(r) ==
  /\ pc[r] = "slot"
  /\ ~SlotTaken(want[r], target[r])
  /\ Goto(r, "commit")
  /\ UNCHANGED <<rows, active, now, lock, history>>

\* It finds a row: the transaction returns null and the answer is 409.
FindSlotTaken(r) ==
  /\ pc[r] = "slot"
  /\ SlotTaken(want[r], target[r])
  /\ Release(r)
  /\ Finish(r)
  /\ UNCHANGED <<rows, active, now, history>>

\* createIfSlotFree commits the new row.
CommitCreate(r) ==
  /\ pc[r] = "commit"
  /\ op[r] = "create"
  /\ status' = [status EXCEPT ![target[r]] = "SCHEDULED"]
  /\ slot' = [slot EXCEPT ![target[r]] = want[r]]
  /\ Release(r)
  /\ Goto(r, "publish")
  /\ UNCHANGED <<stamps, active, now, history>>

\* Mutant of CommitReschedule: the confirmation of the old time survives.
CommitRescheduleConfirmed(r) ==
  /\ pc[r] = "commit"
  /\ op[r] = "reschedule"
  /\ status' = [status EXCEPT ![target[r]] = "SCHEDULED"]
  /\ slot' = [slot EXCEPT ![target[r]] = want[r]]
  /\ revived' = revived \ {target[r]}
  /\ Release(r)
  /\ Finish(r)
  /\ UNCHANGED <<stamps, active, now, raced>>

\* Mutant of CommitReschedule: a lock of the session, not of the transaction.
CommitRescheduleKeepLock(r) ==
  /\ pc[r] = "commit"
  /\ op[r] = "reschedule"
  /\ status' = [status EXCEPT ![target[r]] = "SCHEDULED"]
  /\ slot' = [slot EXCEPT ![target[r]] = want[r]]
  /\ stamps' = [stamps EXCEPT ![target[r]] = @ \ {"confirmedAt"}]
  /\ revived' = revived \ {target[r]}
  /\ Finish(r)
  /\ UNCHANGED <<active, now, lock, raced>>

\* rescheduleIfSlotFree commits the move.  The row is found by its id only:
\* whatever status it has by now, it becomes SCHEDULED.
CommitReschedule(r) ==
  /\ pc[r] = "commit"
  /\ op[r] = "reschedule"
  /\ status' = [status EXCEPT ![target[r]] = "SCHEDULED"]
  /\ slot' = [slot EXCEPT ![target[r]] = want[r]]
  /\ stamps' = [stamps EXCEPT ![target[r]] = @ \ {"confirmedAt"}]
  /\ revived' = revived \ {target[r]}
  /\ Release(r)
  /\ Finish(r)
  /\ UNCHANGED <<active, now, raced>>

-----------------------------------------------------------------------------
\* Status changes.  The UPDATE names the row by id and tenant, not by the
\* status the handler read.

\* What the UPDATE of an operation does to the row a.
SetStatus(a, new, stamp) ==
  /\ status' = [status EXCEPT ![a] = new]
  /\ stamps' = [stamps EXCEPT ![a] = @ \cup stamp]
  /\ revived' = IF new \notin Blocking THEN revived \ {a}
                ELSE IF status[a] \notin Blocking THEN revived \cup {a}
                ELSE revived
  /\ UNCHANGED <<slot, active, now, lock, raced>>

WriteConfirmed(r) ==
  /\ pc[r] = "write" /\ op[r] = "confirm"
  /\ SetStatus(target[r], "CONFIRMED", {"confirmedAt"})
  /\ Goto(r, "publish")

WriteCompleted(r) ==
  /\ pc[r] = "write" /\ op[r] = "complete"
  /\ SetStatus(target[r], "COMPLETED", {"completedAt"})
  /\ Goto(r, "publish")

WriteCancelled(r) ==
  /\ pc[r] = "write" /\ op[r] = "cancel"
  /\ SetStatus(target[r], "CANCELLED", {"cancelledAt"})
  /\ Goto(r, "publish")

WriteNoShow(r) ==
  /\ pc[r] = "write" /\ op[r] = "noShow"
  /\ SetStatus(target[r], "NO_SHOW", {})
  /\ Finish(r)

\* The domain event of the operation leaves after the write is committed,
\* then the answer.  Listeners are other components.
Publish(r) ==
  /\ pc[r] = "publish"
  /\ Finish(r)
  /\ UNCHANGED <<rows, active, now, lock, history>>

-----------------------------------------------------------------------------
\* The environment.

\* A process or connection dies, or Prisma gives up on the transaction: the
\* transaction rolls back and its lock is freed.  What was committed stays,
\* and an event not yet published never is.
Abort(r) ==
  /\ pc[r] # "idle"
  /\ Release(r)
  /\ Finish(r)
  /\ UNCHANGED <<rows, active, now, history>>

Tick ==
  /\ now < MaxTime
  /\ now' = now + 1
  /\ UNCHANGED <<rows, active, requests, lock, history>>

\* BarbersService.setActive, or an update of the same column.
SetBarberActive(b) ==
  /\ active' = IF b \in active THEN active \ {b} ELSE active \cup {b}
  /\ UNCHANGED <<rows, now, requests, lock, history>>

\* A client sends one of the operations.
Receive(r) ==
  \/ BeginCreate(r)
  \/ BeginReschedule(r)
  \/ BeginConfirm(r)
  \/ BeginComplete(r)
  \/ BeginCancel(r)
  \/ BeginNoShow(r)

\* Steps the server takes by itself.
Serve(r) ==
  \/ FindSlotFree(r)
  \/ FindSlotTaken(r)
  \/ CommitCreate(r)
  \/ CommitReschedule(r)
  \/ WriteConfirmed(r)
  \/ WriteCompleted(r)
  \/ WriteCancelled(r)
  \/ WriteNoShow(r)
  \/ Publish(r)

Next ==
  \/ \E r \in Request : Receive(r) \/ AcquireLock(r) \/ Serve(r) \/ Abort(r)
  \/ Tick
  \/ \E b \in Barber : SetBarberActive(b)

Spec == Init /\ [][Next]_vars

\* A query that can run is answered, and PostgreSQL queues those who wait
\* for an advisory lock, so none is passed over for ever.
Fairness ==
  /\ \A r \in Request : WF_vars(Serve(r))
  /\ \A r \in Request : SF_vars(AcquireLock(r))

FairSpec == Spec /\ Fairness

-----------------------------------------------------------------------------
\* Invariants.

TypeOK ==
  /\ status \in [Appointment -> Status \cup {"NONE"}]
  /\ slot \in [Appointment -> Interval \cup {NoSlot}]
  /\ \A a \in Appointment : status[a] = "NONE" \/ slot[a] \in Interval
  /\ stamps \in [Appointment -> SUBSET Stamp]
  /\ active \subseteq Barber
  /\ now \in Nat
  /\ pc \in [Request -> {"idle", "lock", "slot", "commit", "write", "publish"}]
  /\ op \in [Request -> Op]
  /\ target \in [Request -> Appointment \cup {NoTarget}]
  /\ want \in [Request -> Interval \cup {NoSlot}]
  /\ lock \in [Lock -> Request \cup {Free}]
  /\ revived \subseteq Appointment
  /\ raced \subseteq Appointment

\* Two blocking appointments of one barber whose times overlap.
Conflict(a, b) ==
  /\ a # b
  /\ status[a] \in Blocking
  /\ status[b] \in Blocking
  /\ Overlap(slot[a], slot[b])

\* The promise of AppointmentsRepository.createIfSlotFree: "a
\* transaction-scoped advisory lock per barber serializes concurrent bookings
\* so two requests can't take the same slot".
NoDoubleBooking == \A a, b \in Appointment : ~Conflict(a, b)

\* What the lock does guarantee, whatever interleaves: two bookings never
\* collide unless a status change, validated against an older status, put
\* one of them back in the calendar without a slot query.
NoUncheckedConflict ==
  \A a, b \in Appointment : Conflict(a, b) => a \in revived \/ b \in revived

\* A transaction past the overlap query owns its barber's lock, and nothing
\* took its slot since, so that its write is safe when it commits.
CheckedSlotStaysFree ==
  \A r \in Request : pc[r] = "commit" =>
    \A a \in Appointment \ {target[r]} :
      (status[a] \in Blocking /\ Overlap(slot[a], want[r])) => a \in revived

LockCoversTransaction ==
  \A r \in Request : pc[r] \in {"slot", "commit"} =>
    lock[LockOf[want[r].barber]] = r

\* Every request is answered: no handler waits for ever on a barber's lock.
RequestsFinish == \A r \in Request : pc[r] # "idle" ~> pc[r] = "idle"

-----------------------------------------------------------------------------
\* What the rules promise a row that no two requests work on at once.

\* assertStatus: nothing happens to an appointment that is completed,
\* cancelled or missed.
TerminalIsFinal ==
  [][\A a \in Appointment \ raced :
       status[a] \in Status \ Open => UNCHANGED <<status[a], slot[a]>>]_rows

\* The timestamps of a row tell the path it took: a live or missed booking
\* was never closed, a cancelled one never served.
StampsMatchStatus ==
  \A a \in Appointment \ raced :
    /\ "completedAt" \in stamps[a] <=> status[a] = "COMPLETED"
    /\ "cancelledAt" \in stamps[a] <=> status[a] = "CANCELLED"
    /\ status[a] = "SCHEDULED" => stamps[a] = {}

\* A customer is only marked absent from a slot that has begun.
NoShowHasStarted ==
  \A a \in Appointment \ raced : status[a] = "NO_SHOW" => slot[a].start <= now

\* No status change puts a row back in the calendar behind the slot query, so
\* with NoUncheckedConflict such rows are never booked twice.
ReopenedOnlyInRaces == revived \subseteq raced
=============================================================================
