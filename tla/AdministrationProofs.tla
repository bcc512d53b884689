------------------------ MODULE AdministrationProofs ------------------------
(***************************************************************************)
(* Proofs about Administration, one section per component, for any number  *)
(* of rows and of requests at once: shifts stay in order, and a slot that  *)
(* can be booked is staffed; a plan has its last list; tenants are changed *)
(* from within and keep what was chosen; a commission stays within its     *)
(* base, and the most specific rule is picked.  A component's own step     *)
(* keeps its invariant, and a step of another one leaves its variables     *)
(* alone.                                                                  *)
(***************************************************************************)
EXTENDS Administration, Sequences, FiniteSetTheorems, TLAPS

\* Every update that is under way was validated against a row that exists,
\* and that has not changed since, unless two updates worked on it.
RequestOK ==
  \A r \in Request : req[r] # Idle =>
    /\ Exists(req[r].id)
    /\ req[r].id \notin raced => ValidUpdate(barber[req[r].id], req[r].sent)

SoleWriter ==
  \A r, q \in Request : r # q /\ req[r] # Idle /\ req[q].id = req[r].id
                        => req[r].id \in raced

IInv == TypeOK /\ RequestOK /\ SoleWriter /\ ShiftsAreOrdered

\* What is written is a row, and keeps the order that was validated.
LEMMA WrittenInOrder ==
  ASSUME NEW row \in Row, NEW sent \in Change
  PROVE  /\ Changed(row, sent) \in Row
         /\ ValidUpdate(row, sent) /\ HasShift(Changed(row, sent))
            => Changed(row, sent).workStartTime < Changed(row, sent).workEndTime
<1>1. /\ row.workStartTime \in Time \cup {NoTime} /\ row.workEndTime \in Time \cup {NoTime}
      /\ row.workDays \in SUBSET Weekday /\ row.userId \in User \cup {NoUser}
      /\ row.isActive \in BOOLEAN
  BY DEF Row
<1>2. /\ sent.workStartTime \in Time \cup {Unsent, Erase}
      /\ sent.workEndTime \in Time \cup {Unsent, Erase}
      /\ sent.workDays \in (SUBSET Weekday) \cup {Unsent}
      /\ sent.userId \in User \cup {Unsent, Erase}
  BY BarbersAssumption
<1>3. Changed(row, sent) =
        [workStartTime |-> Written(sent.workStartTime, row.workStartTime, NoTime),
         workEndTime   |-> Written(sent.workEndTime, row.workEndTime, NoTime),
         workDays      |-> Written(sent.workDays, row.workDays, {}),
         userId        |-> Written(sent.userId, row.userId, NoUser),
         isActive      |-> row.isActive]
  BY DEF Changed
<1>4. /\ Written(sent.workStartTime, row.workStartTime, NoTime) \in Time \cup {NoTime}
      /\ Written(sent.workEndTime, row.workEndTime, NoTime) \in Time \cup {NoTime}
  BY <1>1, <1>2, BarbersAssumption DEF Written
<1>5. /\ Written(sent.workDays, row.workDays, {}) \in SUBSET Weekday
      /\ Written(sent.userId, row.userId, NoUser) \in User \cup {NoUser}
  BY <1>1, <1>2, BarbersAssumption DEF Written
<1>6. Changed(row, sent) \in Row
  BY <1>1, <1>3, <1>4, <1>5 DEF Row
<1>7. ASSUME ValidUpdate(row, sent), HasShift(Changed(row, sent))
      PROVE  Changed(row, sent).workStartTime < Changed(row, sent).workEndTime
  <2>1. /\ Merged(sent.workStartTime, row.workStartTime)
             = Changed(row, sent).workStartTime
        /\ Merged(sent.workEndTime, row.workEndTime) = Changed(row, sent).workEndTime
    BY <1>2, <1>3, <1>7, BarbersAssumption DEF HasShift, Written, Merged
  <2> QED
    BY <2>1, <1>7 DEF ValidUpdate, ValidShift, HasShift
<1> QED
  BY <1>6, <1>7

LEMMA InitOK == Init => IInv
BY BarbersAssumption
   DEF Init, IInv, TypeOK, RequestOK, SoleWriter, ShiftsAreOrdered, Exists, Row

LEMMA CreateKeeps ==
  ASSUME IInv, NEW b \in Barber, NEW sent \in Change, Create(b, sent)
  PROVE  IInv'
<1> DEFINE row == Changed(Blank, sent)
<1> USE DEF IInv
<1>1. Blank \in Row
  BY DEF Blank, Row
<1>2. /\ row \in Row
      /\ HasShift(row) => row.workStartTime < row.workEndTime
  BY <1>1, WrittenInOrder DEF Create
<1>3. /\ ~Exists(b) /\ barber' = [barber EXCEPT ![b] = row]
      /\ UNCHANGED <<hours, req, raced>>
  BY DEF Create
<1> HIDE DEF row
<1>4. TypeOK'
  BY <1>2, <1>3 DEF TypeOK
<1>5. \A r \in Request : req[r] # Idle => req[r].id \in Barber \ {b}
  BY <1>3, BarbersAssumption DEF TypeOK, RequestOK
<1>6. RequestOK'
  BY <1>3, <1>5 DEF TypeOK, RequestOK, Exists
<1>7. SoleWriter'
  BY <1>3 DEF SoleWriter
<1>8. ShiftsAreOrdered'
  BY <1>2, <1>3 DEF TypeOK, ShiftsAreOrdered, Exists
<1> QED
  BY <1>4, <1>6, <1>7, <1>8

LEMMA BeginUpdateKeeps ==
  ASSUME IInv, NEW r \in Request, NEW b \in Barber, NEW sent \in Change,
         BeginUpdate(r, b, sent)
  PROVE  IInv'
<1> USE DEF IInv
<1>1. /\ req[r] = Idle /\ Exists(b) /\ ValidUpdate(barber[b], sent)
      /\ req' = [req EXCEPT ![r] = [id |-> b, sent |-> sent]]
      /\ raced' = IF \E q \in Request : req[q].id = b THEN raced \cup {b} ELSE raced
      /\ UNCHANGED <<hours, barber>>
  BY DEF BeginUpdate
<1>2. TypeOK'
  BY <1>1 DEF TypeOK
<1>3. RequestOK'
  BY <1>1 DEF TypeOK, RequestOK, Exists
<1>4. SoleWriter'
  BY <1>1, BarbersAssumption DEF TypeOK, SoleWriter, Idle
<1>5. ShiftsAreOrdered'
  BY <1>1 DEF TypeOK, ShiftsAreOrdered, Exists
<1> QED
  BY <1>2, <1>3, <1>4, <1>5

LEMMA WriteUpdateKeeps ==
  ASSUME IInv, NEW r \in Request, WriteUpdate(r)
  PROVE  IInv'
<1> DEFINE b   == req[r].id
           row == Changed(barber[b], req[r].sent)
<1> USE DEF IInv
<1>1. /\ req[r] # Idle
      /\ barber' = barber \/ barber' = [barber EXCEPT ![b] = row]
      /\ req' = [req EXCEPT ![r] = Idle]
      /\ UNCHANGED <<hours, raced>>
  BY DEF WriteUpdate
<1>2. /\ b \in Barber /\ req[r].sent \in Change
      /\ barber[b] \in Row /\ Exists(b)
      /\ b \notin raced => ValidUpdate(barber[b], req[r].sent)
  BY <1>1 DEF TypeOK, RequestOK, Exists
<1>3. /\ row \in Row
      /\ b \notin raced /\ HasShift(row) => row.workStartTime < row.workEndTime
  BY <1>2, WrittenInOrder
<1>4. \A q \in Request \ {r} : req[q] # Idle => req[q].id # b \/ b \in raced
  BY <1>1 DEF SoleWriter
<1> HIDE DEF row
<1>5. TypeOK'
  BY <1>1, <1>2, <1>3 DEF TypeOK
<1>6. ASSUME NEW c \in Barber
      PROVE  Exists(c)' <=> Exists(c)
  BY <1>1, <1>2, <1>3, BarbersAssumption DEF TypeOK, Exists
<1>7. RequestOK'
  BY <1>1, <1>2, <1>4, <1>6 DEF TypeOK, RequestOK
<1>8. SoleWriter'
  BY <1>1, BarbersAssumption DEF TypeOK, SoleWriter, Idle
<1>9. ShiftsAreOrdered'
  BY <1>1, <1>2, <1>3, <1>6 DEF TypeOK, ShiftsAreOrdered
<1> QED
  BY <1>5, <1>7, <1>8, <1>9

LEMMA SetActiveKeeps ==
  ASSUME IInv, NEW b \in Barber, NEW active \in BOOLEAN, SetActive(b, active)
  PROVE  IInv'
<1> DEFINE row == [barber[b] EXCEPT !.isActive = active]
<1> USE DEF IInv
<1>1. /\ Exists(b) /\ barber[b] \in Row
      /\ barber' = [barber EXCEPT ![b] = row]
      /\ UNCHANGED <<hours, req, raced>>
  BY DEF SetActive, TypeOK, Exists
<1>2. /\ row \in Row
      /\ HasShift(row) <=> HasShift(barber[b])
      /\ row.workStartTime = barber[b].workStartTime
      /\ row.workEndTime = barber[b].workEndTime
  BY <1>1 DEF Row, HasShift
<1>3. \A sent \in Change : ValidUpdate(row, sent) <=> ValidUpdate(barber[b], sent)
  BY <1>2 DEF ValidUpdate
<1> HIDE DEF row
<1>4. TypeOK'
  BY <1>1, <1>2 DEF TypeOK
<1>5. \A c \in Barber : Exists(c)' <=> Exists(c)
  BY <1>1, <1>2, BarbersAssumption DEF TypeOK, Exists
<1>6. RequestOK'
  BY <1>1, <1>3, <1>5 DEF TypeOK, RequestOK
<1>7. SoleWriter'
  BY <1>1 DEF SoleWriter
<1>8. ShiftsAreOrdered'
  BY <1>1, <1>2, <1>5 DEF TypeOK, ShiftsAreOrdered
<1> QED
  BY <1>4, <1>6, <1>7, <1>8

LEMMA AbortKeeps ==
  ASSUME IInv, NEW r \in Request, Abort(r)
  PROVE  IInv'
BY BarbersAssumption
   DEF IInv, TypeOK, RequestOK, SoleWriter, ShiftsAreOrdered, Abort, Exists, Idle

LEMMA StepOK == IInv /\ [Next]_vars => IInv'
<1> SUFFICES ASSUME IInv, [Next]_vars PROVE IInv'
  OBVIOUS
<1>1. ASSUME NEW h \in Hours, UpdateHours(h) PROVE IInv'
  BY <1>1 DEF IInv, TypeOK, RequestOK, SoleWriter, ShiftsAreOrdered, UpdateHours, Exists
<1>2. CASE UNCHANGED vars
  BY <1>2 DEF vars, IInv, TypeOK, RequestOK, SoleWriter, ShiftsAreOrdered, Exists
<1> QED
  BY <1>1, <1>2, CreateKeeps, BeginUpdateKeeps, WriteUpdateKeeps, SetActiveKeeps,
     AbortKeeps DEF Next

\* The inductive invariant holds of every reachable state.
THEOREM InvariantHolds == Spec => []IInv
BY InitOK, StepOK, PTL DEF Spec

\* Every reachable state is well typed.
THEOREM TypeCorrect == Spec => []TypeOK
<1>1. IInv => TypeOK
  BY DEF IInv
<1> QED
  BY <1>1, InvariantHolds, PTL

\* For any number of requests that create and update barbers, no shift ends
\* before it begins unless two updates of the barber overlapped.
THEOREM ShiftsStayOrdered == Spec => []ShiftsAreOrdered
<1>1. IInv => ShiftsAreOrdered
  BY DEF IInv
<1> QED
  BY <1>1, InvariantHolds, PTL

-----------------------------------------------------------------------------
\* Local time.

LEMMA DivisionParts ==
  ASSUME NEW d \in Nat \ {0}, NEW a \in Int
  PROVE  /\ a \div d \in Int /\ a % d \in 0..d - 1
         /\ a = d * (a \div d) + (a % d)
OBVIOUS

LEMMA ProductMonotonic ==
  ASSUME NEW d \in Nat \ {0}, NEW x \in Int, NEW y \in Int, x < y
  PROVE  d * x + d <= d * y
<1>1. y - x - 1 \in Nat
  OBVIOUS
<1>2. d * (y - x - 1) >= 0
  BY <1>1
<1>3. d * (y - x - 1) = d * y - d * x - d
  OBVIOUS
<1> QED
  BY <1>2, <1>3

\* Division is monotonic, and strictly so into a multiple.
LEMMA DivisionMonotonic ==
  ASSUME NEW d \in Nat \ {0}, NEW a \in Int, NEW b \in Int, a <= b
  PROVE  /\ a \div d <= b \div d
         /\ a < b /\ b % d = 0 => a \div d < b \div d
<1> DEFINE x == a \div d
           y == b \div d
<1>1. /\ x \in Int /\ a % d \in 0..d - 1 /\ a = d * x + (a % d)
      /\ y \in Int /\ b % d \in 0..d - 1 /\ b = d * y + (b % d)
  BY DivisionParts
<1>2. y < x => d * y + d <= d * x
  BY <1>1, ProductMonotonic
<1>3. d * x \in Int /\ d * y \in Int
  BY <1>1
<1>4. ~(y < x)
  BY <1>1, <1>2, <1>3
<1>5. x = y => d * x = d * y
  OBVIOUS
<1>6. a < b /\ b % d = 0 => x # y
  BY <1>1, <1>3, <1>5
<1> QED
  BY <1>1, <1>4, <1>6

\* While the clocks do not change, the minutes of a day are in order.
LEMMA MinutesInOrder ==
  ASSUME NEW z \in Zone, NEW s \in Instant, NEW t \in Instant, s <= t,
         Offset[z][s] = Offset[z][t]
  PROVE  /\ LocalDay(z, s) \in Int /\ LocalMinute(z, s) \in Time
         /\ LocalDay(z, s) <= LocalDay(z, t)
         /\ LocalDay(z, s) = LocalDay(z, t) =>
              /\ LocalMinute(z, s) <= LocalMinute(z, t)
              /\ s < t /\ LocalTick(z, t) % TicksPerMinute = 0
                 => LocalMinute(z, s) < LocalMinute(z, t)
<1> DEFINE p == LocalTick(z, s)
           q == LocalTick(z, t)
           m == p \div TicksPerMinute
           n == q \div TicksPerMinute
<1>1. /\ p \in Int /\ q \in Int /\ p <= q /\ (s < t => p < q)
  BY ScheduleAssumption DEF Instant, LocalTick
<1>2. /\ m \in Int /\ n \in Int /\ m <= n
      /\ s < t /\ q % TicksPerMinute = 0 => m < n
  BY <1>1, ScheduleAssumption, DivisionMonotonic, DivisionParts
<1> HIDE DEF m, n
<1>3. /\ m \div MinutesPerDay \in Int /\ n \div MinutesPerDay \in Int
      /\ m % MinutesPerDay \in Time /\ n % MinutesPerDay \in Time
      /\ m = MinutesPerDay * (m \div MinutesPerDay) + (m % MinutesPerDay)
      /\ n = MinutesPerDay * (n \div MinutesPerDay) + (n % MinutesPerDay)
      /\ m \div MinutesPerDay <= n \div MinutesPerDay
  BY <1>2, ScheduleAssumption, DivisionMonotonic, DivisionParts DEF Time
<1>4. ASSUME m \div MinutesPerDay = n \div MinutesPerDay
      PROVE  n - m = (n % MinutesPerDay) - (m % MinutesPerDay)
  <2>1. MinutesPerDay * (m \div MinutesPerDay) = MinutesPerDay * (n \div MinutesPerDay)
    BY <1>4
  <2>2. /\ MinutesPerDay * (m \div MinutesPerDay) \in Int
        /\ m % MinutesPerDay \in Int /\ n % MinutesPerDay \in Int
    BY <1>3, ScheduleAssumption DEF Time
  <2> QED
    BY <1>2, <1>3, <2>1, <2>2
<1>5. ASSUME m \div MinutesPerDay = n \div MinutesPerDay
      PROVE  /\ m % MinutesPerDay <= n % MinutesPerDay
             /\ m < n => m % MinutesPerDay < n % MinutesPerDay
  BY <1>2, <1>3, <1>4, <1>5 DEF Time
<1>6. /\ LocalDay(z, s) = m \div MinutesPerDay /\ LocalDay(z, t) = n \div MinutesPerDay
      /\ LocalMinute(z, s) = m % MinutesPerDay /\ LocalMinute(z, t) = n % MinutesPerDay
  BY DEF LocalDay, LocalMinute, m, n
<1> QED
  BY <1>2, <1>3, <1>5, <1>6

\* The minute and the day of any instant.
LEMMA LocalParts ==
  ASSUME NEW z \in Zone, NEW t \in Instant
  PROVE  LocalDay(z, t) \in Int /\ LocalMinute(z, t) \in Time
<1>1. t <= t
  BY ScheduleAssumption DEF Instant
<1> QED
  BY <1>1, MinutesInOrder

\* What fits a window fits it at each of its instants.
LEMMA WindowCoversSlot ==
  ASSUME NEW z \in Zone, NEW start \in Instant, NEW end \in Instant,
         NEW from \in Time, NEW to \in Time, NEW t \in start..end - 1,
         Steady(z, start, end), WithinWindow(z, start, end, from, to)
  PROVE  /\ LocalDay(z, t) = LocalDay(z, start)
         /\ Between(z, t, from, to, LocalTick(z, end) % TicksPerMinute = 0)
<1>1. /\ t \in Instant /\ start <= t /\ t < end
      /\ start \in start..end /\ t \in start..end /\ end \in start..end
  BY ScheduleAssumption DEF Instant
<1>2. Offset[z][start] = Offset[z][t] /\ Offset[z][t] = Offset[z][end]
  BY <1>1 DEF Steady
<1>3. /\ LocalDay(z, start) \in Int /\ LocalMinute(z, start) \in Time
      /\ LocalDay(z, start) <= LocalDay(z, t)
      /\ LocalDay(z, start) = LocalDay(z, t)
         => LocalMinute(z, start) <= LocalMinute(z, t)
  BY <1>1, <1>2, MinutesInOrder
<1>4. /\ LocalDay(z, t) \in Int /\ LocalMinute(z, t) \in Time
      /\ LocalDay(z, t) <= LocalDay(z, end)
      /\ LocalDay(z, t) = LocalDay(z, end) =>
           /\ LocalMinute(z, t) <= LocalMinute(z, end)
           /\ LocalTick(z, end) % TicksPerMinute = 0
              => LocalMinute(z, t) < LocalMinute(z, end)
  BY <1>1, <1>2, MinutesInOrder
<1>5. LocalMinute(z, end) \in Time
  BY LocalParts
<1>6. /\ LocalDay(z, start) = LocalDay(z, end) /\ from <= LocalMinute(z, start)
      /\ LocalMinute(z, end) <= to
  BY DEF WithinWindow
<1>7. LocalDay(z, t) = LocalDay(z, start) /\ LocalDay(z, t) = LocalDay(z, end)
  BY <1>3, <1>4, <1>6
<1> QED
  BY <1>3, <1>4, <1>5, <1>6, <1>7 DEF Between, Time

LEMMA BookableSlotStaffed == TypeOK => BookableIsStaffed
<1> SUFFICES ASSUME TypeOK, NEW b \in Barber, NEW z \in Zone, Exists(b),
                    NEW start \in Instant, NEW end \in start + 1..Horizon,
                    Bookable(start - 1, z, OperatingHours, barber[b], start, end),
                    Steady(z, start, end), NEW t \in start..end - 1
             PROVE  Staffed(z, t, barber[b], LocalTick(z, end) % TicksPerMinute = 0)
  BY DEF BookableIsStaffed
<1> DEFINE weekday == LocalWeekday(z, start)
           day == OperatingHours[weekday]
           row == barber[b]
           whole == LocalTick(z, end) % TicksPerMinute = 0
<1>1. end \in Instant
  BY ScheduleAssumption DEF Instant
<1>2. row \in Row
  BY DEF TypeOK, Exists
<1>3. OperatingHours \in OpeningHours
  BY BarbersAssumption DEF TypeOK, OperatingHours
<1>4. weekday \in Weekday
  <2>1. LocalDay(z, start) \in Int
    BY LocalParts
  <2> QED
    BY <2>1 DEF LocalWeekday, Weekday
<1>5. day \in DayHours
  BY <1>3, <1>4 DEF OpeningHours
<1>6. /\ IsOpen(day) /\ WithinWindow(z, start, end, day.open, day.close)
      /\ WorksOn(row, weekday)
      /\ HasShift(row) =>
           WithinWindow(z, start, end, row.workStartTime, row.workEndTime)
  BY DEF Bookable
<1> HIDE DEF weekday, day, row, whole
<1>7. day.open \in Time /\ day.close \in Time
  BY <1>5, <1>6 DEF DayHours, IsOpen
<1>8. LocalDay(z, t) = LocalDay(z, start) /\ Between(z, t, day.open, day.close, whole)
  BY <1>1, <1>6, <1>7, WindowCoversSlot DEF whole
<1>9. HasShift(row) => Between(z, t, row.workStartTime, row.workEndTime, whole)
  <2>1. SUFFICES ASSUME HasShift(row)
                 PROVE  Between(z, t, row.workStartTime, row.workEndTime, whole)
    OBVIOUS
  <2>2. row.workStartTime \in Time /\ row.workEndTime \in Time
    BY <1>2, <2>1 DEF Row, HasShift
  <2> QED
    BY <1>1, <1>6, <2>1, <2>2, WindowCoversSlot DEF whole
<1>10. LocalWeekday(z, t) = weekday
  BY <1>8 DEF LocalWeekday, weekday
<1> QED
  BY <1>6, <1>8, <1>9, <1>10 DEF Staffed, day, row, whole

\* In any zone, with any clock changes, opening hours and shifts: during all of
\* a slot that assertBookable lets through the shop is open and the barber at
\* work, unless the clocks change during the slot.
THEOREM BookedSlotsAreStaffed == Spec => []BookableIsStaffed
BY BookableSlotStaffed, TypeCorrect, PTL

-----------------------------------------------------------------------------
\* The benefits of a plan.

\* Each open replacement writes a batch of its own, not yet committed; what is
\* stored, or was seen, is committed.
BatchesOK ==
  /\ \A r \in Request : Benefits!Busy(r) =>
       /\ replace[r].batch \in Batch /\ list[replace[r].batch] = Null
       /\ \A q \in Request \ {r} : replace[q].batch # replace[r].batch
  /\ \A x \in plan : list[x.batch] # Null
  /\ \A r \in Request : \A x \in replace[r].seen : list[x.batch] # Null

\* The rows a transaction has deleted are there until it commits, and locked.
DeletedAreLocked ==
  /\ \A r \in Request :
       /\ replace[r].deleted \subseteq plan
       /\ replace[r].at # "insert" => replace[r].deleted = {}
  /\ \A q, r \in Request : q # r => replace[q].deleted \cap replace[r].deleted = {}

\* With one row of a batch a deletion takes all of them.
BatchesGoWhole ==
  \A r \in Request : \A x \in plan :
    /\ \A y \in replace[r].seen : x.batch = y.batch => x \in replace[r].seen
    /\ \A y \in replace[r].deleted : x.batch = y.batch => x \in replace[r].deleted

\* Two replacements under way at once have been noticed, and one that is alone
\* deletes all there is.
OverlapsNoted ==
  /\ \A q, r \in Request : q # r /\ Benefits!Busy(q) /\ Benefits!Busy(r) =>
       replace[r].batch \in overlapped
  /\ \A r \in Request : replace[r].batch \notin overlapped =>
       /\ replace[r].at = "locks" => replace[r].seen = plan
       /\ replace[r].at = "insert" => replace[r].deleted = plan

\* The inductive invariant of PlanBenefits.
PlanInv ==
  /\ Benefits!TypeOK
  /\ BatchesOK
  /\ DeletedAreLocked
  /\ BatchesGoWhole
  /\ OverlapsNoted
  /\ Benefits!PlanIsLastList

LEMMA NullIsNoList == Null \notin Batch /\ Null \notin Benefits!List
BY AdministrationAssumption DEF Benefits!BenefitsAssumption

LEMMA PlanInitOK == Benefits!Init => PlanInv
<1>1. {} \in Benefits!List
  BY DEF Benefits!List
<1>. QED  BY <1>1, NullIsNoList DEF Benefits!Init, PlanInv, Benefits!TypeOK, BatchesOK,
       DeletedAreLocked, BatchesGoWhole, OverlapsNoted, Benefits!PlanIsLastList,
       Benefits!Idle, Benefits!Busy, Benefits!BatchRows

LEMMA BeginReplaceKeeps ==
  ASSUME PlanInv, NEW r \in Request, NEW k \in Batch, NEW wanted \in Benefits!List,
         Benefits!BeginReplace(r, k, wanted)
  PROVE  PlanInv'
<1>. DEFINE new == [Benefits!Idle EXCEPT !.at = "delete", !.batch = k, !.wanted = wanted]
<1>. USE DEF PlanInv, Benefits!Busy
<1>0. /\ new \in [at : {"idle", "delete", "locks", "insert"}, batch : Batch \cup {Null},
                 wanted : Benefits!List, seen : SUBSET Benefits!Row,
                 deleted : SUBSET Benefits!Row]
      /\ new.at = "delete" /\ new.batch = k /\ new.seen = {} /\ new.deleted = {}
  BY DEF Benefits!Idle
<1>1. /\ replace[r].at = "idle" /\ list[k] = Null
      /\ \A q \in Request : replace[q].batch # k
      /\ replace' = [replace EXCEPT ![r] = new]
      /\ UNCHANGED <<onSale, plan, list, last>>
  BY DEF Benefits!BeginReplace, Benefits!Fresh, Benefits!Goto
<1>2. overlapped' = IF {q \in Request : replace[q].at # "idle"} = {} THEN overlapped
        ELSE overlapped \cup {k}
               \cup {replace[q].batch : q \in {q \in Request : replace[q].at # "idle"}}
  BY DEF Benefits!BeginReplace
<1>3. /\ overlapped \subseteq overlapped'
      /\ \A q \in Request : replace[q].at # "idle" =>
           k \in overlapped' /\ replace[q].batch \in overlapped'
      /\ overlapped' \subseteq Batch
  BY <1>2 DEF Benefits!TypeOK, BatchesOK
<1>. HIDE DEF Benefits!Busy, new
<1>4. Benefits!TypeOK'
  BY <1>0, <1>1, <1>3 DEF Benefits!TypeOK
<1>5. BatchesOK'
  BY <1>0, <1>1 DEF BatchesOK, Benefits!TypeOK, Benefits!Busy
<1>6. DeletedAreLocked'
  BY <1>0, <1>1 DEF DeletedAreLocked, Benefits!TypeOK
<1>7. BatchesGoWhole'
  BY <1>0, <1>1 DEF BatchesGoWhole, Benefits!TypeOK
<1>8. OverlapsNoted'
  BY <1>0, <1>1, <1>3 DEF OverlapsNoted, Benefits!TypeOK, Benefits!Busy
<1>9. Benefits!PlanIsLastList'
  BY <1>0, <1>1, <1>3 DEF Benefits!PlanIsLastList, Benefits!BatchRows
<1>. QED  BY <1>4, <1>5, <1>6, <1>7, <1>8, <1>9

LEMMA BeginDeleteKeeps ==
  ASSUME PlanInv, NEW r \in Request, Benefits!BeginDelete(r)
  PROVE  PlanInv'
<1>. DEFINE new == [replace[r] EXCEPT !.at = "locks", !.seen = plan]
<1>. USE DEF PlanInv
<1>1. /\ replace[r].at = "delete"
      /\ replace' = [replace EXCEPT ![r] = new]
      /\ UNCHANGED <<onSale, plan, list, last, overlapped>>
  BY DEF Benefits!BeginDelete, Benefits!Goto
<1>2. /\ replace'[r] = new /\ new.at = "locks" /\ new.seen = plan /\ new.deleted = {}
      /\ new.batch = replace[r].batch /\ new.wanted = replace[r].wanted
      /\ \A q \in Request \ {r} : replace'[q] = replace[q]
  BY <1>1 DEF Benefits!TypeOK, DeletedAreLocked
<1>4. Benefits!TypeOK'
  BY <1>1 DEF Benefits!TypeOK
<1>. HIDE DEF new
<1>5. BatchesOK'
  BY <1>1, <1>2 DEF BatchesOK, Benefits!Busy
<1>6. DeletedAreLocked'
  BY <1>1, <1>2 DEF DeletedAreLocked
<1>7. BatchesGoWhole'
  BY <1>1, <1>2 DEF BatchesGoWhole
<1>8. OverlapsNoted'
  BY <1>1, <1>2 DEF OverlapsNoted, Benefits!Busy
<1>9. Benefits!PlanIsLastList'
  BY <1>1 DEF Benefits!PlanIsLastList, Benefits!BatchRows
<1>. QED  BY <1>4, <1>5, <1>6, <1>7, <1>8, <1>9

LEMMA DeleteSeenKeeps ==
  ASSUME PlanInv, NEW r \in Request, Benefits!DeleteSeen(r)
  PROVE  PlanInv'
<1>. DEFINE new == [replace[r] EXCEPT !.at = "insert", !.deleted = replace[r].seen \cap plan]
<1>. USE DEF PlanInv
<1>1. /\ replace[r].at = "locks"
      /\ \A q \in Request : replace[q].deleted \cap replace[r].seen = {}
      /\ replace' = [replace EXCEPT ![r] = new]
      /\ UNCHANGED <<onSale, plan, list, last, overlapped>>
  BY DEF Benefits!DeleteSeen, Benefits!Goto
<1>2. /\ replace'[r] = new /\ new.at = "insert" /\ new.seen = replace[r].seen
      /\ new.deleted = replace[r].seen \cap plan
      /\ new.batch = replace[r].batch /\ new.wanted = replace[r].wanted
      /\ \A q \in Request \ {r} : replace'[q] = replace[q]
  BY <1>1 DEF Benefits!TypeOK
<1>3. replace[r].seen = plan => new.deleted = plan
  BY <1>2
<1>4. Benefits!TypeOK'
  BY <1>1 DEF Benefits!TypeOK
<1>. HIDE DEF new
<1>5. BatchesOK'
  BY <1>1, <1>2 DEF BatchesOK, Benefits!Busy
<1>6. DeletedAreLocked'
  BY <1>1, <1>2 DEF DeletedAreLocked
<1>7. BatchesGoWhole'
  BY <1>1, <1>2 DEF BatchesGoWhole
<1>8. OverlapsNoted'
  <2>1. ASSUME NEW q \in Request, replace'[q].batch \notin overlapped'
        PROVE  /\ replace'[q].at = "locks" => replace'[q].seen = plan'
               /\ replace'[q].at = "insert" => replace'[q].deleted = plan'
    <3>1. plan' = plan /\ overlapped' = overlapped
      BY <1>1
    <3>2. CASE q = r
      <4>1. replace[r].batch \notin overlapped
        BY <1>2, <2>1, <3>1, <3>2
      <4>2. replace[r].seen = plan
        BY <1>1, <4>1 DEF OverlapsNoted
      <4>. QED  BY <1>2, <1>3, <3>1, <3>2, <4>2
    <3>3. CASE q # r
      BY <1>2, <2>1, <3>1, <3>3 DEF OverlapsNoted
    <3>. QED  BY <3>2, <3>3
  <2>2. \A q \in Request : replace'[q].batch = replace[q].batch
                         /\ (Benefits!Busy(q)' <=> Benefits!Busy(q))
    BY <1>1, <1>2 DEF Benefits!Busy
  <2>. QED  BY <1>1, <2>1, <2>2 DEF OverlapsNoted
<1>9. Benefits!PlanIsLastList'
  BY <1>1 DEF Benefits!PlanIsLastList, Benefits!BatchRows
<1>. QED  BY <1>4, <1>5, <1>6, <1>7, <1>8, <1>9

\* What a request leaves behind when it ends: nothing.
LEMMA IdleReplace ==
  /\ Benefits!Idle \in [at : {"idle", "delete", "locks", "insert"}, batch : Batch \cup {Null},
                      wanted : Benefits!List, seen : SUBSET Benefits!Row,
                      deleted : SUBSET Benefits!Row]
  /\ Benefits!Idle.at = "idle" /\ Benefits!Idle.batch = Null
  /\ Benefits!Idle.seen = {} /\ Benefits!Idle.deleted = {}
BY DEF Benefits!Idle, Benefits!List

LEMMA CommitReplaceKeeps ==
  ASSUME PlanInv, NEW r \in Request, Benefits!CommitReplace(r)
  PROVE  PlanInv'
<1>. DEFINE k   == replace[r].batch
            old == replace[r].deleted
            new == {[service |-> x.service, quantity |-> x.quantity, batch |-> k] :
                      x \in replace[r].wanted}
            Plain(rows) == {[service |-> x.service, quantity |-> x.quantity] : x \in rows}
<1>. USE DEF PlanInv
<1>1. /\ replace[r].at = "insert"
      /\ plan' = (plan \ old) \cup new
      /\ list' = [list EXCEPT ![k] = replace[r].wanted]
      /\ last' = k
      /\ replace' = [replace EXCEPT ![r] = Benefits!Idle]
      /\ UNCHANGED <<onSale, overlapped>>
  BY DEF Benefits!CommitReplace, Benefits!Goto, Benefits!Others
<1>2. /\ k \in Batch /\ list[k] = Null
      /\ replace[r].wanted \in Benefits!List
      /\ replace[r].wanted \subseteq Benefits!Benefit
  BY <1>1 DEF Benefits!TypeOK, BatchesOK, Benefits!Busy, Benefits!List
<1>3. /\ new \subseteq Benefits!Row
      /\ \A x \in new : x.batch = k
  BY <1>2 DEF Benefits!Row, Benefits!Benefit
<1>4. Plain(new) = replace[r].wanted
  <2>1. \A x \in replace[r].wanted : [service |-> x.service, quantity |-> x.quantity] = x
    BY <1>2 DEF Benefits!Benefit
  <2>2. ASSUME NEW y \in new
        PROVE  [service |-> y.service, quantity |-> y.quantity] \in replace[r].wanted
    BY <2>1
  <2>3. ASSUME NEW x \in replace[r].wanted
        PROVE  \E y \in new : [service |-> y.service, quantity |-> y.quantity] = x
    <3>. DEFINE y == [service |-> x.service, quantity |-> x.quantity, batch |-> k]
    <3>1. y \in new
      OBVIOUS
    <3>2. [service |-> y.service, quantity |-> y.quantity] = x
      BY <2>1
    <3>. HIDE DEF new, y
    <3>. QED  BY <3>1, <3>2
  <2>. HIDE DEF new
  <2>4. Plain(new) \subseteq replace[r].wanted
    BY <2>2
  <2>5. replace[r].wanted \subseteq Plain(new)
    BY <2>3
  <2>. HIDE DEF Plain
  <2>. QED  BY <2>4, <2>5
<1>5. \A x \in plan : x.batch # k
  BY <1>2 DEF BatchesOK
<1>6. /\ replace'[r] = Benefits!Idle
      /\ \A q \in Request \ {r} : replace'[q] = replace[q]
  BY <1>1 DEF Benefits!TypeOK
<1>7. list'[k] = replace[r].wanted /\ \A j \in Batch \ {k} : list'[j] = list[j]
  BY <1>1, <1>2 DEF Benefits!TypeOK
<1>8. list'[k] # Null
  BY <1>2, <1>7, NullIsNoList
<1>. HIDE DEF new
<1>9. Benefits!TypeOK'
  BY <1>1, <1>2, <1>3, IdleReplace DEF Benefits!TypeOK
<1>10. BatchesOK'
  <2>1. ASSUME NEW x \in plan'
        PROVE  list'[x.batch] # Null
    BY <1>1, <1>3, <1>7, <1>8 DEF BatchesOK, Benefits!TypeOK, Benefits!Row
  <2>2. ASSUME NEW q \in Request, NEW x \in replace'[q].seen
        PROVE  list'[x.batch] # Null
    <3>1. q # r /\ x \in replace[q].seen
      BY <1>6, <2>2, IdleReplace
    <3>. QED  BY <3>1, <1>7, <1>8 DEF BatchesOK, Benefits!TypeOK, Benefits!Row
  <2>3. ASSUME NEW q \in Request, Benefits!Busy(q)'
        PROVE  /\ replace'[q].batch \in Batch /\ list'[replace'[q].batch] = Null
               /\ \A p \in Request \ {q} : replace'[p].batch # replace'[q].batch
    <3>1. q # r /\ Benefits!Busy(q)
      BY <1>6, <2>3, IdleReplace DEF Benefits!Busy
    <3>2. /\ replace[q].batch \in Batch /\ list[replace[q].batch] = Null
          /\ \A p \in Request \ {q} : replace[p].batch # replace[q].batch
      BY <3>1 DEF BatchesOK
    <3>. QED  BY <1>6, <1>7, <3>1, <3>2, IdleReplace, NullIsNoList
  <2>. QED  BY <2>1, <2>2, <2>3 DEF BatchesOK
<1>11. DeletedAreLocked'
  <2>1. ASSUME NEW q \in Request
        PROVE  replace'[q].deleted \subseteq plan'
    BY <1>1, <1>6, IdleReplace DEF DeletedAreLocked
  <2>. QED  BY <2>1, <1>6, IdleReplace DEF DeletedAreLocked
<1>12. BatchesGoWhole'
  <2>. SUFFICES ASSUME NEW q \in Request \ {r}, NEW x \in plan'
                PROVE  /\ \A y \in replace[q].seen : x.batch = y.batch => x \in replace[q].seen
                       /\ \A y \in replace[q].deleted :
                            x.batch = y.batch => x \in replace[q].deleted
    BY <1>6, IdleReplace DEF BatchesGoWhole
  <2>1. CASE x \in plan
    BY <2>1 DEF BatchesGoWhole
  <2>2. CASE x \in new
    <3>1. \A y \in replace[q].seen : y.batch # k
      BY <1>2 DEF BatchesOK
    <3>2. \A y \in replace[q].deleted : y.batch # k
      BY <1>5 DEF DeletedAreLocked
    <3>. QED  BY <2>2, <3>1, <3>2, <1>3
  <2>. QED  BY <1>1, <2>1, <2>2
<1>13. OverlapsNoted'
  <2>1. ASSUME NEW q \in Request, NEW p \in Request, q # p,
               Benefits!Busy(q)', Benefits!Busy(p)'
        PROVE  replace'[p].batch \in overlapped'
    <3>1. q # r /\ p # r
      BY <1>6, <2>1, IdleReplace DEF Benefits!Busy
    <3>. QED  BY <1>1, <1>6, <2>1, <3>1 DEF OverlapsNoted, Benefits!Busy
  <2>2. ASSUME NEW q \in Request, replace'[q].at \in {"locks", "insert"}
        PROVE  replace'[q].batch \in overlapped'
    <3>1. q # r
      BY <1>6, <2>2, IdleReplace
    <3>2. Benefits!Busy(q) /\ Benefits!Busy(r)
      BY <1>1, <1>6, <2>2, <3>1 DEF Benefits!Busy
    <3>. QED  BY <1>1, <1>6, <3>1, <3>2 DEF OverlapsNoted
  <2>. QED  BY <2>1, <2>2 DEF OverlapsNoted
<1>14. Benefits!PlanIsLastList'
  <2>1. ASSUME NEW j \in Batch, Benefits!BatchRows(j)' # {}
        PROVE  Plain(Benefits!BatchRows(j)') = list'[j]
    <3>1. CASE j = k
      <4>1. Benefits!BatchRows(j)' = new
        BY <1>1, <1>3, <1>5, <3>1 DEF Benefits!BatchRows
      <4>. QED  BY <1>4, <1>7, <3>1, <4>1
    <3>2. CASE j # k
      <4>1. PICK x \in plan \ old : x.batch = j
        BY <1>1, <1>3, <2>1, <3>2 DEF Benefits!BatchRows
      <4>2. \A y \in plan : y.batch = j => y \notin old
        BY <4>1 DEF BatchesGoWhole
      <4>3. Benefits!BatchRows(j)' = Benefits!BatchRows(j)
        BY <1>1, <1>3, <3>2, <4>2 DEF Benefits!BatchRows
      <4>4. Plain(Benefits!BatchRows(j)) = list[j]
        BY <4>1 DEF Benefits!PlanIsLastList, Benefits!BatchRows
      <4>. QED  BY <1>7, <3>2, <4>3, <4>4
    <3>. QED  BY <3>1, <3>2
  <2>2. ASSUME last' \notin overlapped'
        PROVE  plan' = Benefits!BatchRows(last)'
    <3>1. old = plan
      BY <1>1, <2>2 DEF OverlapsNoted
    <3>. QED  BY <1>1, <1>3, <3>1 DEF Benefits!BatchRows
  <2>. QED  BY <2>1, <2>2 DEF Benefits!PlanIsLastList, Benefits!BatchRows
<1>. QED  BY <1>9, <1>10, <1>11, <1>12, <1>13, <1>14

LEMMA PlanStepOK == PlanInv /\ [Benefits!Next]_benefitsVars => PlanInv'
<1>. SUFFICES ASSUME PlanInv, [Benefits!Next]_benefitsVars
              PROVE  PlanInv'
  OBVIOUS
<1>. USE DEF PlanInv
<1>1. ASSUME NEW r \in Request, Benefits!Abort(r)
      PROVE  PlanInv'
  <2>1. /\ replace' = [replace EXCEPT ![r] = Benefits!Idle]
        /\ UNCHANGED <<onSale, plan, list, last, overlapped>>
    BY <1>1 DEF Benefits!Abort, Benefits!Goto
  <2>2. /\ replace'[r] = Benefits!Idle
        /\ \A q \in Request \ {r} : replace'[q] = replace[q]
    BY <2>1 DEF Benefits!TypeOK
  <2>3. Benefits!TypeOK'
    BY <2>1, IdleReplace DEF Benefits!TypeOK
  <2>4. BatchesOK'
    BY <2>1, <2>2, IdleReplace, NullIsNoList DEF BatchesOK, Benefits!Busy
  <2>5. DeletedAreLocked' /\ BatchesGoWhole'
    BY <2>1, <2>2, IdleReplace DEF DeletedAreLocked, BatchesGoWhole
  <2>6. OverlapsNoted'
    BY <2>1, <2>2, IdleReplace DEF OverlapsNoted, Benefits!Busy
  <2>7. Benefits!PlanIsLastList'
    BY <2>1 DEF Benefits!PlanIsLastList, Benefits!BatchRows
  <2>. QED  BY <2>3, <2>4, <2>5, <2>6, <2>7
<1>2. CASE \/ \E v \in PlanService, on \in BOOLEAN : Benefits!SetActive(v, on)
           \/ UNCHANGED benefitsVars
  <2>1. UNCHANGED <<plan, replace, list, last, overlapped>>
    BY <1>2 DEF Benefits!SetActive, benefitsVars
  <2>2. Benefits!TypeOK'
    BY <1>2, <2>1 DEF Benefits!TypeOK, Benefits!SetActive, benefitsVars
  <2>3. BatchesOK' /\ DeletedAreLocked' /\ BatchesGoWhole' /\ OverlapsNoted'
    BY <2>1 DEF BatchesOK, DeletedAreLocked, BatchesGoWhole, OverlapsNoted, Benefits!Busy
  <2>4. Benefits!PlanIsLastList'
    BY <2>1 DEF Benefits!PlanIsLastList, Benefits!BatchRows
  <2>. QED  BY <2>2, <2>3, <2>4
<1>. HIDE DEF PlanInv
<1>. QED  BY <1>1, <1>2, BeginReplaceKeeps, BeginDeleteKeeps, DeleteSeenKeeps,
             CommitReplaceKeeps DEF Benefits!Next

\* Seen from the plan, every other component only lets time pass.
LEMMA StepForBenefits == [AdministrationNext]_all => [Benefits!Next]_benefitsVars
BY DEF AdministrationNext, BarbersStep, RulesStep, BenefitsStep, TenancyStep, all

\* The batch of every replacement comes and goes whole, because a deletion takes
\* the locks of all it saw: the inductive invariant of the plan.
THEOREM PlanInvariant == AdministrationSpec => []PlanInv
<1>1. AdministrationInit => PlanInv
  BY PlanInitOK DEF AdministrationInit
<1>2. PlanInv /\ [AdministrationNext]_all => PlanInv'
  BY PlanStepOK, StepForBenefits
<1>. QED  BY <1>1, <1>2, PTL DEF AdministrationSpec

\* For any number of replacements at once, the plan never has part of a list,
\* and has the last one alone unless that one overlapped with another.
THEOREM PlansAreLastLists == AdministrationSpec => []PlanIsLastList
BY PlanInvariant, PTL DEF PlanInv, PlanIsLastList

-----------------------------------------------------------------------------
\* Tenants.

\* A registration works in the context of the barbershop it created, and writes
\* the defaults over chosen hours only when it is overtaken.
OwnOK(p, c) ==
  /\ p.at \in {"find", "defaults"} =>
       c = p.id /\ Tenancy!Exists(p.id) /\ tenant[p.id].type = "BARBERSHOP"
  /\ p.at = "defaults" /\ ~p.overtaken => opening[p.id] \notin Custom
  /\ p.at = "answer" => Tenancy!Exists(p.id)

\* A member works in the context of the tenant it was admitted to, in a role and
\* for a type of business that admit it, with settings that are still so unless
\* it is overtaken.
MemberOK(p, c) ==
  /\ p.at \in {"settings", "merge", "profile", "hours"} =>
       c = p.member /\ Tenancy!Exists(p.member)
  /\ p.at = "hours" =>
       tenant[p.member].type = "BARBERSHOP" /\ p.role \in {"OWNER", "ADMIN"}
  /\ p.at \in {"settings", "merge", "profile"} => p.role = "OWNER"
  /\ p.at = "merge" /\ ~p.overtaken => p.current = tenant[p.member].settings

\* The inductive invariant of Tenants.
TenancyInv ==
  /\ Tenancy!TypeOK
  /\ \A r \in Request : OwnOK(call[r], context[r]) /\ MemberOK(call[r], context[r])
  /\ \A t \in Tenant : opening[t] # Null => Tenancy!Exists(t)
  /\ Tenancy!HoursComeWithBarbershop

LEMMA TenancyAssumption ==
  /\ Standard \notin Custom
  /\ Null \notin Tenant \cup Setting \cup Custom \cup {Standard}
  /\ Null \notin Tenancy!TenantRow
BY AdministrationAssumption DEF Tenancy!TenantsAssumption

\* Of the system roles, only OWNER changes what the tenant is, and only OWNER and
\* ADMIN its opening hours.
LEMMA RolesThatManage ==
  ASSUME NEW role \in Tenancy!Role, NEW type, NEW op \in {"settings", "profile", "hours"},
         Tenancy!MayCall(role, type, Tenancy!Permission(op), Tenancy!Types(op))
  PROVE  /\ op # "hours" => role = "OWNER"
         /\ op = "hours" => role \in {"OWNER", "ADMIN"} /\ type = "BARBERSHOP"
<1>1. \A n \in {"customers", "catalog", "sales", "payments", "subscriptions", "users",
             "barbershop.barbers", "barbershop.appointments", "barbershop.commissions"} :
        \A x \in Tenancy!On(n) : x[1] = n
  BY DEF Tenancy!On
<1>2. \A x \in Tenancy!Catalog \cup Tenancy!Money :
        x[1] \in {"customers", "catalog", "sales", "payments", "subscriptions"}
  BY <1>1 DEF Tenancy!Catalog, Tenancy!Money
<1>3. \A x \in Tenancy!Barbers \cup Tenancy!Appointments \cup Tenancy!Commissions :
        x[1] \in {"barbershop.barbers", "barbershop.appointments", "barbershop.commissions"}
  BY <1>1 DEF Tenancy!Barbers, Tenancy!Appointments, Tenancy!Commissions
<1>4. \A x \in Tenancy!SystemRole["ADMIN"] \cup Tenancy!SystemRole["MANAGER"]
                \cup Tenancy!SystemRole["EMPLOYEE"] :
        x[1] # "*" /\ (x[1] = "tenant" => x = Tenancy!TenantRead)
  BY <1>1, <1>2, <1>3 DEF Tenancy!SystemRole, Tenancy!CoreRole, Tenancy!BarbershopRole,
     Tenancy!Role, Tenancy!TenantRead, Tenancy!HoursManage
<1>5. \A x \in Tenancy!SystemRole["MANAGER"] \cup Tenancy!SystemRole["EMPLOYEE"] :
        x[1] # "barbershop.settings"
  BY <1>1, <1>2, <1>3 DEF Tenancy!SystemRole, Tenancy!CoreRole, Tenancy!BarbershopRole,
     Tenancy!Role, Tenancy!TenantRead
<1>6. CASE op # "hours"
  BY <1>4, <1>6 DEF Tenancy!MayCall, Tenancy!Permission, Tenancy!HasPermission,
     Tenancy!TenantManage, Tenancy!TenantRead, Tenancy!All, Tenancy!Role
<1>7. CASE op = "hours"
  BY <1>4, <1>5, <1>7 DEF Tenancy!MayCall, Tenancy!Permission, Tenancy!Types,
     Tenancy!ModuleEnabled, Tenancy!HasPermission, Tenancy!HoursManage, Tenancy!All,
     Tenancy!Role
<1>. QED  BY <1>6, <1>7

\* The shape of what a request remembers, told by its step.
LEMMA ProgressShape ==
  ASSUME NEW p \in Tenancy!Progress
  PROVE  /\ p.at \in {"idle", "slug", "create", "find", "defaults", "answer", "settings",
                     "profile", "hours", "merge"}
         /\ p.at = "idle" => p = Tenancy!Idle
         /\ p.at = "slug" => p \in [at : {"slug"}, email : Email, type : Type]
         /\ p.at = "create" => p \in [at : {"create"}, email : Email, type : Type,
                                      slug : {Base} \cup Suffixed]
         /\ p.at = "find" => p \in [at : {"find"}, id : Tenant]
         /\ p.at = "defaults" => p \in [at : {"defaults"}, id : Tenant, overtaken : BOOLEAN]
         /\ p.at = "answer" => p \in [at : {"answer"}, id : Tenant, handled : BOOLEAN]
         /\ p.at \in {"settings", "profile", "hours"} =>
              p \in [at : {"settings", "profile", "hours"}, member : Tenant,
                     role : Tenancy!Role]
         /\ p.at = "merge" =>
              p \in [at : {"merge"}, member : Tenant, role : Tenancy!Role,
                     current : Tenancy!Settings, sent : Sent, overtaken : BOOLEAN]
BY DEF Tenancy!Progress, Tenancy!Idle

\* An overtaken request keeps everything else it remembers.
LEMMA OvertakenShape ==
  ASSUME NEW p \in Tenancy!Progress, p.at \in {"merge", "defaults"},
         NEW n, n = [p EXCEPT !.overtaken = TRUE]
  PROVE  /\ n \in Tenancy!Progress
         /\ n.at = p.at /\ n.overtaken = TRUE
         /\ p.at = "merge" =>
              n.member = p.member /\ n.role = p.role /\ n.current = p.current
         /\ p.at = "defaults" => n.id = p.id
<1>1. CASE p.at = "merge"
  <2>1. p \in [at : {"merge"}, member : Tenant, role : Tenancy!Role,
               current : Tenancy!Settings, sent : Sent, overtaken : BOOLEAN]
    BY <1>1, ProgressShape
  <2>2. n \in [at : {"merge"}, member : Tenant, role : Tenancy!Role,
               current : Tenancy!Settings, sent : Sent, overtaken : BOOLEAN]
    BY <2>1
  <2>. QED  BY <1>1, <2>1, <2>2 DEF Tenancy!Progress
<1>2. CASE p.at = "defaults"
  <2>1. p \in [at : {"defaults"}, id : Tenant, overtaken : BOOLEAN]
    BY <1>2, ProgressShape
  <2>2. n \in [at : {"defaults"}, id : Tenant, overtaken : BOOLEAN]
    BY <2>1
  <2>. QED  BY <1>2, <2>1, <2>2 DEF Tenancy!Progress
<1>. QED  BY <1>1, <1>2

\* A step adds rows and keeps the types of those there are,
RowsStay ==
  /\ \A t \in Tenant : Tenancy!Exists(t) =>
       Tenancy!Exists(t)' /\ tenant'[t].type = tenant[t].type
  /\ \A t \in Tenant : opening[t] # Null => opening'[t] # Null

\* and leaves another request where it is: overtaken, if the step changes what
\* that request has read.
GoesOn(q) ==
  /\ context'[q] = context[q]
  /\ \/ call'[q] = call[q]
     \/ /\ call[q].at \in {"merge", "defaults"}
        /\ call'[q] = [call[q] EXCEPT !.overtaken = TRUE]
  /\ call[q].at = "merge" /\ call'[q] = call[q] /\ ~call[q].overtaken =>
       tenant'[call[q].member].settings = tenant[call[q].member].settings
  /\ call[q].at = "defaults" /\ call'[q] = call[q] /\ ~call[q].overtaken =>
       opening'[call[q].id] \notin Custom

\* So what a request knows outlives the steps of others.
LEMMA OthersKeep ==
  ASSUME TenancyInv, NEW q \in Request, RowsStay, GoesOn(q)
  PROVE  /\ OwnOK(call[q], context[q])' /\ MemberOK(call[q], context[q])'
         /\ call'[q].at = "answer" /\ call'[q].handled
              /\ tenant'[call'[q].id].type = "BARBERSHOP" => opening'[call'[q].id] # Null
         /\ call'[q] \in Tenancy!Progress
<1>. USE DEF RowsStay, GoesOn
<1>1. call[q] \in Tenancy!Progress /\ OwnOK(call[q], context[q]) /\ MemberOK(call[q], context[q])
  BY DEF TenancyInv, Tenancy!TypeOK
<1>2. /\ call[q].at \in {"find", "defaults", "answer"} => call[q].id \in Tenant
      /\ call[q].at \in {"settings", "profile", "hours", "merge"} => call[q].member \in Tenant
  BY <1>1, ProgressShape
<1>3. CASE call'[q] = call[q]
  <2>1. OwnOK(call[q], context[q])'
    BY <1>1, <1>2, <1>3 DEF OwnOK
  <2>2. MemberOK(call[q], context[q])'
    BY <1>1, <1>2, <1>3 DEF MemberOK
  <2>3. call'[q].at = "answer" /\ call'[q].handled
          /\ tenant'[call'[q].id].type = "BARBERSHOP" => opening'[call'[q].id] # Null
    BY <1>1, <1>2, <1>3 DEF OwnOK, TenancyInv, Tenancy!HoursComeWithBarbershop
  <2>. QED  BY <1>1, <1>3, <2>1, <2>2, <2>3
<1>4. CASE /\ call[q].at \in {"merge", "defaults"}
           /\ call'[q] = [call[q] EXCEPT !.overtaken = TRUE]
  <2>1. /\ call'[q] \in Tenancy!Progress
        /\ call'[q].at = call[q].at /\ call'[q].overtaken = TRUE
        /\ call[q].at = "merge" =>
             call'[q].member = call[q].member /\ call'[q].role = call[q].role
        /\ call[q].at = "defaults" => call'[q].id = call[q].id
    BY <1>1, <1>4, OvertakenShape
  <2>2. OwnOK(call[q], context[q])'
    BY <1>1, <1>2, <1>4, <2>1 DEF OwnOK
  <2>3. MemberOK(call[q], context[q])'
    BY <1>1, <1>2, <1>4, <2>1 DEF MemberOK
  <2>. QED  BY <1>4, <2>1, <2>2, <2>3
<1>. QED  BY <1>3, <1>4

LEMMA TenancyStepKeeps ==
  ASSUME TenancyInv, NEW r \in Request, RowsStay,
         tenant' \in [Tenant -> Tenancy!TenantRow \cup {Null}],
         opening' \in [Tenant -> Custom \cup {Standard, Null}],
         context' \in [Request -> Tenant \cup {Null}],
         call' = [q \in Request |-> call'[q]],
         \A t \in Tenant : opening'[t] # Null =>
           Tenancy!Exists(t)' /\ tenant'[t].type = "BARBERSHOP",
         \A q \in Request \ {r} : GoesOn(q),
         call'[r] \in Tenancy!Progress,
         OwnOK(call[r], context[r])', MemberOK(call[r], context[r])',
         call'[r].at = "answer" /\ call'[r].handled
           /\ tenant'[call'[r].id].type = "BARBERSHOP" => opening'[call'[r].id] # Null
  PROVE  TenancyInv'
<1>1. ASSUME NEW q \in Request
      PROVE  /\ call'[q] \in Tenancy!Progress
             /\ OwnOK(call[q], context[q])' /\ MemberOK(call[q], context[q])'
             /\ call'[q].at = "answer" /\ call'[q].handled
                  /\ tenant'[call'[q].id].type = "BARBERSHOP" => opening'[call'[q].id] # Null
  <2>1. CASE q = r
    BY <2>1
  <2>2. CASE q # r
    BY <2>2, OthersKeep
  <2>. QED  BY <2>1, <2>2
<1>2. Tenancy!TypeOK'
  BY <1>1 DEF Tenancy!TypeOK
<1>3. Tenancy!HoursComeWithBarbershop'
  BY <1>1 DEF Tenancy!HoursComeWithBarbershop
<1>. QED  BY <1>1, <1>2, <1>3 DEF TenancyInv

\* A step that touches neither table, and moves one request.
LEMMA QuietCallKeeps ==
  ASSUME TenancyInv, NEW r \in Request, UNCHANGED <<tenant, opening>>,
         NEW next \in Tenancy!Progress, NEW c \in Tenant \cup {Null},
         call' = [call EXCEPT ![r] = next], context' = [context EXCEPT ![r] = c],
         OwnOK(next, c), MemberOK(next, c),
         next.at = "answer" /\ next.handled /\ tenant[next.id].type = "BARBERSHOP"
           => opening[next.id] # Null
  PROVE  TenancyInv'
<1>. USE DEF TenancyInv, Tenancy!TypeOK
<1>1. /\ call'[r] = next /\ context'[r] = c
      /\ \A q \in Request \ {r} : call'[q] = call[q] /\ context'[q] = context[q]
  OBVIOUS
<1>2. RowsStay
  BY DEF RowsStay, Tenancy!Exists
<1>3. \A q \in Request \ {r} : GoesOn(q)
  BY <1>1 DEF GoesOn, OwnOK
<1>4. OwnOK(call[r], context[r])' /\ MemberOK(call[r], context[r])'
  BY <1>1 DEF OwnOK, MemberOK, Tenancy!Exists
<1>5. \A t \in Tenant : opening'[t] # Null =>
        Tenancy!Exists(t)' /\ tenant'[t].type = "BARBERSHOP"
  BY DEF Tenancy!HoursComeWithBarbershop, Tenancy!Exists
<1>. QED  BY <1>1, <1>2, <1>3, <1>4, <1>5, TenancyStepKeeps

LEMMA TenancyInitOK == Tenancy!Init => TenancyInv
BY DEF Tenancy!Init, TenancyInv, Tenancy!TypeOK, Tenancy!Progress, Tenancy!Idle, OwnOK,
       MemberOK, Tenancy!HoursComeWithBarbershop

\* The end of a request forgets all it knew.
LEMMA EndIsQuiet ==
  ASSUME TenancyInv, NEW r \in Request, UNCHANGED <<tenant, opening>>, Tenancy!End(r)
  PROVE  TenancyInv'
<1>1. Tenancy!Idle \in Tenancy!Progress /\ Tenancy!Idle.at = "idle"
  BY DEF Tenancy!Progress, Tenancy!Idle
<1>2. OwnOK(Tenancy!Idle, Null) /\ MemberOK(Tenancy!Idle, Null)
  BY <1>1 DEF OwnOK, MemberOK
<1>. QED  BY <1>1, <1>2, QuietCallKeeps DEF Tenancy!End, Tenancy!Goto, Tenancy!Leave

LEMMA RegisterKeeps ==
  ASSUME TenancyInv, NEW r \in Request,
         \/ \E e \in Email, type \in Type : Tenancy!BeginRegister(r, e, type)
         \/ Tenancy!ChooseSlug(r)
  PROVE  TenancyInv'
<1>1. /\ call[r] \in Tenancy!Progress /\ context[r] \in Tenant \cup {Null}
      /\ context = [context EXCEPT ![r] = context[r]]
  BY DEF TenancyInv, Tenancy!TypeOK
<1>2. ASSUME NEW e \in Email, NEW type \in Type, Tenancy!BeginRegister(r, e, type)
      PROVE  TenancyInv'
  <2>. DEFINE next == [at |-> "slug", email |-> e, type |-> type]
  <2>1. next \in Tenancy!Progress /\ next.at = "slug"
    BY DEF Tenancy!Progress
  <2>2. call' = [call EXCEPT ![r] = next] /\ UNCHANGED <<tenant, opening, context>>
    BY <1>2 DEF Tenancy!BeginRegister, Tenancy!Goto
  <2>. HIDE DEF next
  <2>3. OwnOK(next, context[r]) /\ MemberOK(next, context[r])
    BY <2>1 DEF OwnOK, MemberOK
  <2>. QED  BY <1>1, <2>1, <2>2, <2>3, QuietCallKeeps
<1>3. CASE Tenancy!ChooseSlug(r)
  <2>1. call[r] \in [at : {"slug"}, email : Email, type : Type]
    BY <1>1, <1>3, ProgressShape DEF Tenancy!ChooseSlug
  <2>2. PICK s \in {Base} \cup Suffixed :
          call' = [call EXCEPT ![r] = [at |-> "create", email |-> call[r].email,
                                       type |-> call[r].type, slug |-> s]]
    BY <1>3 DEF Tenancy!ChooseSlug, Tenancy!Goto
  <2>. DEFINE next == [at |-> "create", email |-> call[r].email, type |-> call[r].type,
                       slug |-> s]
  <2>3. next \in Tenancy!Progress /\ next.at = "create"
    BY <2>1 DEF Tenancy!Progress
  <2>4. UNCHANGED <<tenant, opening, context>>
    BY <1>3 DEF Tenancy!ChooseSlug
  <2>5. call' = [call EXCEPT ![r] = next]
    BY <2>2
  <2>. HIDE DEF next
  <2>6. OwnOK(next, context[r]) /\ MemberOK(next, context[r])
    BY <2>3 DEF OwnOK, MemberOK
  <2>. QED  BY <1>1, <2>3, <2>4, <2>5, <2>6, QuietCallKeeps
<1>. QED  BY <1>2, <1>3

\* The steps of the listener that write nothing.
LEMMA ListenerReadsKeep ==
  ASSUME TenancyInv, NEW r \in Request, Tenancy!FindHours(r) \/ Tenancy!ListenerFails(r)
  PROVE  TenancyInv'
<1>. DEFINE t == call[r].id
            Answer(handled) == [at |-> "answer", id |-> t, handled |-> handled]
            defaults == [at |-> "defaults", id |-> t, overtaken |-> FALSE]
<1>1. /\ call[r] \in Tenancy!Progress /\ OwnOK(call[r], context[r])
      /\ context[r] \in Tenant \cup {Null}
      /\ context = [context EXCEPT ![r] = context[r]]
  BY DEF TenancyInv, Tenancy!TypeOK
<1>2. call[r].at \in {"find", "defaults"} /\ UNCHANGED <<tenant, opening>>
  BY DEF Tenancy!FindHours, Tenancy!ListenerFails
<1>3. /\ t \in Tenant /\ context[r] = t
      /\ Tenancy!Exists(t) /\ tenant[t].type = "BARBERSHOP"
  BY <1>1, <1>2, ProgressShape DEF OwnOK
<1>4. ASSUME NEW handled \in BOOLEAN, handled => opening[t] # Null,
             Tenancy!Answering(r, t, handled)
      PROVE  TenancyInv'
  <2>1. /\ Answer(handled) \in Tenancy!Progress /\ Answer(handled).at = "answer"
        /\ Answer(handled).id = t /\ Answer(handled).handled = handled
    BY <1>3 DEF Tenancy!Progress
  <2>2. /\ call' = [call EXCEPT ![r] = Answer(handled)]
        /\ context' = [context EXCEPT ![r] = Null]
    BY <1>4 DEF Tenancy!Answering, Tenancy!Goto, Tenancy!Leave
  <2>. HIDE DEF Answer
  <2>3. OwnOK(Answer(handled), Null) /\ MemberOK(Answer(handled), Null)
    BY <1>3, <2>1 DEF OwnOK, MemberOK
  <2>. QED  BY <1>2, <1>4, <2>1, <2>2, <2>3, QuietCallKeeps
<1>5. ASSUME opening[t] = Null, call' = [call EXCEPT ![r] = defaults], UNCHANGED context
      PROVE  TenancyInv'
  <2>1. /\ defaults \in Tenancy!Progress /\ defaults.at = "defaults" /\ defaults.id = t
    BY <1>3 DEF Tenancy!Progress
  <2>. HIDE DEF defaults
  <2>2. OwnOK(defaults, context[r]) /\ MemberOK(defaults, context[r])
    BY <1>3, <1>5, <2>1, TenancyAssumption DEF OwnOK, MemberOK
  <2>. QED  BY <1>1, <1>2, <1>5, <2>1, <2>2, QuietCallKeeps
<1>. QED  BY <1>3, <1>4, <1>5 DEF Tenancy!FindHours, Tenancy!ListenerFails, Tenancy!Current,
                                Tenancy!Goto

LEMMA AdmitKeeps ==
  ASSUME TenancyInv, NEW r \in Request, NEW t \in Tenant, NEW role \in Tenancy!Role,
         NEW op \in {"settings", "profile", "hours"}, Tenancy!Admit(r, t, role, op)
  PROVE  TenancyInv'
<1>. DEFINE next == [at |-> op, member |-> t, role |-> role]
<1>1. /\ Tenancy!Exists(t)
      /\ Tenancy!MayCall(role, tenant[t].type, Tenancy!Permission(op), Tenancy!Types(op))
      /\ call' = [call EXCEPT ![r] = next] /\ context' = [context EXCEPT ![r] = t]
      /\ UNCHANGED <<tenant, opening>>
  BY DEF Tenancy!Admit, Tenancy!Authenticated, Tenancy!Goto, Tenancy!Enter
<1>2. /\ op # "hours" => role = "OWNER"
      /\ op = "hours" => role \in {"OWNER", "ADMIN"} /\ tenant[t].type = "BARBERSHOP"
  BY <1>1, RolesThatManage
<1>3. /\ next \in Tenancy!Progress
      /\ next.at = op /\ next.member = t /\ next.role = role
  BY DEF Tenancy!Progress
<1>. HIDE DEF next
<1>4. OwnOK(next, t) /\ MemberOK(next, t)
  BY <1>1, <1>2, <1>3 DEF OwnOK, MemberOK
<1>. QED  BY <1>1, <1>3, <1>4, QuietCallKeeps

\* What a request that a member sent still holds.
LEMMA MemberIsAdmitted ==
  ASSUME TenancyInv, NEW r \in Request,
         call[r].at \in {"settings", "merge", "profile", "hours"}
  PROVE  /\ call[r].member \in Tenant /\ call[r].role \in Tenancy!Role
         /\ context[r] = call[r].member
         /\ tenant[call[r].member] \in Tenancy!TenantRow
<1>1. call[r] \in Tenancy!Progress /\ MemberOK(call[r], context[r])
  BY DEF TenancyInv, Tenancy!TypeOK
<1>2. call[r].member \in Tenant /\ call[r].role \in Tenancy!Role
  BY <1>1, ProgressShape
<1>. QED  BY <1>1, <1>2 DEF MemberOK, TenancyInv, Tenancy!TypeOK, Tenancy!Exists

LEMMA ReadSettingsKeeps ==
  ASSUME TenancyInv, NEW r \in Request, NEW sent \in Sent, Tenancy!ReadSettings(r, sent)
  PROVE  TenancyInv'
<1>. DEFINE t    == call[r].member
            next == [at |-> "merge", member |-> t, role |-> call[r].role,
                     current |-> tenant[context[r]].settings, sent |-> sent,
                     overtaken |-> FALSE]
<1>1. /\ call[r].at = "settings"
      /\ call' = [call EXCEPT ![r] = next] /\ UNCHANGED <<tenant, opening, context>>
  BY DEF Tenancy!ReadSettings, Tenancy!Goto, Tenancy!Current
<1>2. /\ t \in Tenant /\ call[r].role \in Tenancy!Role /\ context[r] = t
      /\ tenant[t] \in Tenancy!TenantRow
  BY <1>1, MemberIsAdmitted
<1>3. /\ next \in Tenancy!Progress
      /\ next.at = "merge" /\ next.member = t /\ next.role = call[r].role
      /\ next.current = tenant[t].settings
  BY <1>2 DEF Tenancy!Progress, Tenancy!TenantRow
<1>4. /\ MemberOK(call[r], context[r])
      /\ context[r] \in Tenant \cup {Null} /\ context = [context EXCEPT ![r] = context[r]]
  BY DEF TenancyInv, Tenancy!TypeOK
<1>. HIDE DEF next
<1>5. OwnOK(next, context[r]) /\ MemberOK(next, context[r])
  BY <1>1, <1>2, <1>3, <1>4 DEF OwnOK, MemberOK
<1>. QED  BY <1>1, <1>3, <1>4, <1>5, QuietCallKeeps

LEMMA CreateWithOwnerKeeps ==
  ASSUME TenancyInv, NEW r \in Request, NEW t \in Tenant, NEW zone \in Clock,
         Tenancy!CreateWithOwner(r, t, zone)
  PROVE  TenancyInv'
<1>. DEFINE new == [owner |-> call[r].email, slug |-> call[r].slug, type |-> call[r].type,
                    timezone |-> zone, settings |-> Tenancy!Empty]
            find   == [at |-> "find", id |-> t]
            answer == [at |-> "answer", id |-> t, handled |-> TRUE]
<1>. USE DEF TenancyInv, Tenancy!TypeOK
<1>1. /\ call[r].at = "create" /\ ~Tenancy!Exists(t)
      /\ tenant' = [tenant EXCEPT ![t] = new]
      /\ UNCHANGED opening
      /\ \/ /\ call[r].type = "BARBERSHOP"
            /\ call' = [call EXCEPT ![r] = find] /\ context' = [context EXCEPT ![r] = t]
         \/ /\ call[r].type # "BARBERSHOP"
            /\ call' = [call EXCEPT ![r] = answer] /\ context' = [context EXCEPT ![r] = Null]
  BY DEF Tenancy!CreateWithOwner, Tenancy!Initializes, Tenancy!Goto, Tenancy!Enter,
         Tenancy!Answering, Tenancy!Leave
<1>2. call[r] \in [at : {"create"}, email : Email, type : Type, slug : {Base} \cup Suffixed]
  BY <1>1, ProgressShape
<1>3. Tenancy!Empty \in Tenancy!Settings
  BY DEF Tenancy!Empty, Tenancy!Settings
<1>4. new \in Tenancy!TenantRow /\ new.type = call[r].type
  BY <1>2, <1>3 DEF Tenancy!TenantRow
<1>5. new # Null
  BY <1>4, TenancyAssumption
<1>. HIDE DEF new
<1>6. /\ tenant'[t] = new /\ \A u \in Tenant \ {t} : tenant'[u] = tenant[u]
      /\ tenant' \in [Tenant -> Tenancy!TenantRow \cup {Null}]
  BY <1>1, <1>4
<1>7. RowsStay
  BY <1>1, <1>6 DEF RowsStay, Tenancy!Exists
<1>8. \A q \in Request \ {r} : GoesOn(q)
  <2>. SUFFICES ASSUME NEW q \in Request \ {r}
                PROVE  GoesOn(q)
    OBVIOUS
  <2>1. call'[q] = call[q] /\ context'[q] = context[q]
    BY <1>1
  <2>2. call[q].at = "merge" => call[q].member \in Tenant /\ Tenancy!Exists(call[q].member)
    BY ProgressShape DEF MemberOK
  <2>. QED  BY <1>1, <1>6, <2>1, <2>2 DEF GoesOn, OwnOK
<1>9. \A u \in Tenant : opening'[u] # Null =>
        Tenancy!Exists(u)' /\ tenant'[u].type = "BARBERSHOP"
  BY <1>1, <1>6 DEF Tenancy!HoursComeWithBarbershop, Tenancy!Exists
<1>10. CASE /\ call[r].type = "BARBERSHOP"
            /\ call' = [call EXCEPT ![r] = find] /\ context' = [context EXCEPT ![r] = t]
  <2>1. find \in Tenancy!Progress /\ find.at = "find" /\ find.id = t
    BY DEF Tenancy!Progress
  <2>. HIDE DEF find
  <2>2. /\ call'[r] = find /\ context'[r] = t
        /\ call' = [q \in Request |-> call'[q]]
        /\ context' \in [Request -> Tenant \cup {Null}]
    BY <1>10
  <2>3. OwnOK(call[r], context[r])' /\ MemberOK(call[r], context[r])'
    BY <1>4, <1>5, <1>6, <1>10, <2>1, <2>2 DEF OwnOK, MemberOK, Tenancy!Exists
  <2>. QED  BY <1>1, <1>6, <1>7, <1>8, <1>9, <2>1, <2>2, <2>3, TenancyStepKeeps
<1>11. CASE /\ call[r].type # "BARBERSHOP"
            /\ call' = [call EXCEPT ![r] = answer] /\ context' = [context EXCEPT ![r] = Null]
  <2>1. answer \in Tenancy!Progress /\ answer.at = "answer" /\ answer.id = t
    BY DEF Tenancy!Progress
  <2>. HIDE DEF answer
  <2>2. /\ call'[r] = answer /\ context'[r] = Null
        /\ call' = [q \in Request |-> call'[q]]
        /\ context' \in [Request -> Tenant \cup {Null}]
    BY <1>11
  <2>3. OwnOK(call[r], context[r])' /\ MemberOK(call[r], context[r])'
    BY <1>5, <1>6, <2>1, <2>2 DEF OwnOK, MemberOK, Tenancy!Exists
  <2>4. tenant'[call'[r].id].type # "BARBERSHOP"
    BY <1>4, <1>6, <1>11, <2>1, <2>2
  <2>. QED  BY <1>1, <1>6, <1>7, <1>8, <1>9, <2>1, <2>2, <2>3, <2>4, TenancyStepKeeps
<1>. QED  BY <1>1, <1>10, <1>11

LEMMA UpsertDefaultsKeeps ==
  ASSUME TenancyInv, NEW r \in Request, Tenancy!UpsertDefaults(r)
  PROVE  TenancyInv'
<1>. DEFINE t == call[r].id
            answer == [at |-> "answer", id |-> t, handled |-> TRUE]
<1>. USE DEF TenancyInv, Tenancy!TypeOK
<1>1. call[r].at = "defaults" /\ OwnOK(call[r], context[r])
  BY DEF Tenancy!UpsertDefaults
<1>2. /\ t \in Tenant /\ context[r] = t
      /\ Tenancy!Exists(t) /\ tenant[t].type = "BARBERSHOP"
  BY <1>1, ProgressShape DEF OwnOK
<1>3. /\ opening' = [opening EXCEPT ![t] = Standard] /\ UNCHANGED tenant
      /\ call' = [call EXCEPT ![r] = answer] /\ context' = [context EXCEPT ![r] = Null]
  BY <1>2 DEF Tenancy!UpsertDefaults, Tenancy!Current, Tenancy!Answering, Tenancy!Goto,
     Tenancy!Leave
<1>4. answer \in Tenancy!Progress /\ answer.at = "answer" /\ answer.id = t
  BY <1>2 DEF Tenancy!Progress
<1>. HIDE DEF answer
<1>5. /\ call'[r] = answer /\ context'[r] = Null /\ call' = [q \in Request |-> call'[q]]
      /\ context' \in [Request -> Tenant \cup {Null}]
      /\ \A q \in Request \ {r} : call'[q] = call[q] /\ context'[q] = context[q]
  BY <1>3
<1>6. /\ opening'[t] = Standard /\ \A u \in Tenant \ {t} : opening'[u] = opening[u]
      /\ opening' \in [Tenant -> Custom \cup {Standard, Null}]
      /\ Standard # Null /\ Standard \notin Custom
  BY <1>2, <1>3, TenancyAssumption
<1>7. RowsStay
  BY <1>3, <1>6 DEF RowsStay, Tenancy!Exists
<1>8. \A q \in Request \ {r} : GoesOn(q)
  <2>. SUFFICES ASSUME NEW q \in Request \ {r}
                PROVE  GoesOn(q)
    OBVIOUS
  <2>1. OwnOK(call[q], context[q]) /\ (call[q].at = "defaults" => call[q].id \in Tenant)
    BY ProgressShape
  <2>. QED  BY <1>3, <1>5, <1>6, <2>1 DEF GoesOn, OwnOK
<1>9. \A u \in Tenant : opening'[u] # Null =>
        Tenancy!Exists(u)' /\ tenant'[u].type = "BARBERSHOP"
  BY <1>2, <1>3, <1>6 DEF Tenancy!HoursComeWithBarbershop, Tenancy!Exists
<1>10. OwnOK(call[r], context[r])' /\ MemberOK(call[r], context[r])'
  BY <1>2, <1>3, <1>4, <1>5 DEF OwnOK, MemberOK, Tenancy!Exists
<1>. QED  BY <1>3, <1>4, <1>5, <1>6, <1>7, <1>8, <1>9, <1>10, TenancyStepKeeps

\* The end of a request that overtakes others ends it and touches only those.
LEMMA EndOvertakingShape ==
  ASSUME TenancyInv, NEW r \in Request, NEW t \in Tenant, NEW step,
         step \in {"merge", "defaults"}, Tenancy!EndOvertaking(r, step, t)
  PROVE  /\ call'[r] = Tenancy!Idle /\ context'[r] = Null
         /\ call' = [q \in Request |-> call'[q]]
         /\ context' \in [Request -> Tenant \cup {Null}]
         /\ \A q \in Request \ {r} :
              /\ context'[q] = context[q]
              /\ IF call[q].at = step /\ context[q] = t
                 THEN call'[q] = [call[q] EXCEPT !.overtaken = TRUE]
                 ELSE call'[q] = call[q]
         /\ call'[r] \in Tenancy!Progress
         /\ OwnOK(call[r], context[r])' /\ MemberOK(call[r], context[r])'
         /\ call'[r].at # "answer"
<1>1. Tenancy!Idle \in Tenancy!Progress /\ Tenancy!Idle.at = "idle"
  BY DEF Tenancy!Progress, Tenancy!Idle
<1>2. call'[r] = Tenancy!Idle /\ context'[r] = Null
  BY DEF Tenancy!EndOvertaking, Tenancy!Leave, TenancyInv, Tenancy!TypeOK
<1>3. OwnOK(call[r], context[r])' /\ MemberOK(call[r], context[r])'
  BY <1>1, <1>2 DEF OwnOK, MemberOK
<1>. QED  BY <1>1, <1>2, <1>3 DEF Tenancy!EndOvertaking, Tenancy!Leave, TenancyInv,
             Tenancy!TypeOK

LEMMA WriteSettingsKeeps ==
  ASSUME TenancyInv, NEW r \in Request, Tenancy!WriteSettings(r)
  PROVE  TenancyInv'
<1>. DEFINE t == call[r].member
            merged == Tenancy!MergeSettings(call[r].current, call[r].sent)
<1>. USE DEF TenancyInv, Tenancy!TypeOK
<1>1. call[r].at = "merge"
  BY DEF Tenancy!WriteSettings
<1>2. t \in Tenant /\ context[r] = t /\ tenant[t] \in Tenancy!TenantRow
  BY <1>1, MemberIsAdmitted
<1>3. /\ tenant' = [tenant EXCEPT ![t].settings = merged] /\ UNCHANGED opening
      /\ Tenancy!EndOvertaking(r, "merge", t)
  BY <1>2 DEF Tenancy!WriteSettings, Tenancy!Current
<1>4. merged \in Tenancy!Settings
  <2>1. call[r].current \in Tenancy!Settings /\ call[r].sent \in Sent
    BY <1>1, ProgressShape
  <2>2. call[r].sent \in Tenancy!Settings
    BY <2>1, AdministrationAssumption DEF Tenancy!TenantsAssumption
  <2>. QED  BY <2>1, <2>2 DEF Tenancy!MergeSettings, Tenancy!Settings
<1>. HIDE DEF merged
<1>5. /\ tenant'[t] \in Tenancy!TenantRow /\ tenant'[t].type = tenant[t].type
      /\ \A u \in Tenant \ {t} : tenant'[u] = tenant[u]
      /\ tenant' \in [Tenant -> Tenancy!TenantRow \cup {Null}]
      /\ tenant[t] # Null /\ tenant'[t] # Null
  BY <1>2, <1>3, <1>4, TenancyAssumption DEF Tenancy!TenantRow
<1>6. RowsStay
  BY <1>3, <1>5 DEF RowsStay, Tenancy!Exists
<1>7. \A q \in Request \ {r} : GoesOn(q)
  <2>. SUFFICES ASSUME NEW q \in Request \ {r}
                PROVE  GoesOn(q)
    OBVIOUS
  <2>1. /\ OwnOK(call[q], context[q]) /\ MemberOK(call[q], context[q])
        /\ call[q].at = "merge" => call[q].member \in Tenant
    BY ProgressShape
  <2>2. /\ context'[q] = context[q]
        /\ IF call[q].at = "merge" /\ context[q] = t
           THEN call'[q] = [call[q] EXCEPT !.overtaken = TRUE]
           ELSE call'[q] = call[q]
    BY <1>2, <1>3, EndOvertakingShape
  <2>3. CASE call[q].at = "merge" /\ context[q] = t
    <3>1. CASE call'[q] = call[q]
      <4>1. call[q] \in [at : {"merge"}, member : Tenant, role : Tenancy!Role,
              current : Tenancy!Settings, sent : Sent, overtaken : BOOLEAN]
        BY <2>3, ProgressShape
      <4>2. call'[q].overtaken = TRUE
        BY <2>2, <2>3, <4>1
      <4>. QED  BY <2>2, <2>3, <3>1, <4>2 DEF GoesOn
    <3>2. CASE call'[q] # call[q]
      BY <2>2, <2>3, <3>2 DEF GoesOn
    <3>. QED  BY <3>1, <3>2
  <2>4. CASE ~(call[q].at = "merge" /\ context[q] = t)
    BY <1>3, <1>5, <2>1, <2>2, <2>4 DEF GoesOn, OwnOK, MemberOK
  <2>. QED  BY <2>3, <2>4
<1>8. \A u \in Tenant : opening'[u] # Null =>
        Tenancy!Exists(u)' /\ tenant'[u].type = "BARBERSHOP"
  BY <1>3, <1>6 DEF RowsStay, Tenancy!HoursComeWithBarbershop, Tenancy!Exists
<1>. QED  BY <1>2, <1>3, <1>5, <1>6, <1>7, <1>8, EndOvertakingShape, TenancyStepKeeps

LEMMA UpdateHoursKeeps ==
  ASSUME TenancyInv, NEW r \in Request, NEW h \in Custom, Tenancy!UpdateHours(r, h)
  PROVE  TenancyInv'
<1>. DEFINE t == call[r].member
<1>. USE DEF TenancyInv, Tenancy!TypeOK
<1>1. call[r].at = "hours" /\ MemberOK(call[r], context[r])
  BY DEF Tenancy!UpdateHours
<1>2. /\ t \in Tenant /\ context[r] = t
      /\ Tenancy!Exists(t) /\ tenant[t].type = "BARBERSHOP"
  BY <1>1, MemberIsAdmitted DEF MemberOK
<1>3. /\ opening' = [opening EXCEPT ![t] = h] /\ UNCHANGED tenant
      /\ Tenancy!EndOvertaking(r, "defaults", t)
  BY <1>2 DEF Tenancy!UpdateHours, Tenancy!Current
<1>4. /\ opening'[t] = h /\ \A u \in Tenant \ {t} : opening'[u] = opening[u]
      /\ opening' \in [Tenant -> Custom \cup {Standard, Null}] /\ h # Null
  BY <1>2, <1>3, TenancyAssumption
<1>5. RowsStay
  BY <1>3, <1>4 DEF RowsStay, Tenancy!Exists
<1>6. \A q \in Request \ {r} : GoesOn(q)
  <2>. SUFFICES ASSUME NEW q \in Request \ {r}
                PROVE  GoesOn(q)
    OBVIOUS
  <2>1. /\ OwnOK(call[q], context[q]) /\ MemberOK(call[q], context[q])
        /\ call[q].at = "defaults" => call[q].id \in Tenant
    BY ProgressShape
  <2>2. /\ context'[q] = context[q]
        /\ IF call[q].at = "defaults" /\ context[q] = t
           THEN call'[q] = [call[q] EXCEPT !.overtaken = TRUE]
           ELSE call'[q] = call[q]
    BY <1>2, <1>3, EndOvertakingShape
  <2>3. CASE call[q].at = "defaults" /\ context[q] = t
    <3>1. CASE call'[q] = call[q]
      <4>1. call[q] \in [at : {"defaults"}, id : Tenant, overtaken : BOOLEAN]
        BY <2>3, ProgressShape
      <4>2. call'[q].overtaken = TRUE
        BY <2>2, <2>3, <4>1
      <4>. QED  BY <2>2, <2>3, <3>1, <4>2 DEF GoesOn
    <3>2. CASE call'[q] # call[q]
      BY <2>2, <2>3, <3>2 DEF GoesOn
    <3>. QED  BY <3>1, <3>2
  <2>4. CASE ~(call[q].at = "defaults" /\ context[q] = t)
    BY <1>3, <1>4, <2>1, <2>2, <2>4 DEF GoesOn, OwnOK, MemberOK
  <2>. QED  BY <2>3, <2>4
<1>7. \A u \in Tenant : opening'[u] # Null =>
        Tenancy!Exists(u)' /\ tenant'[u].type = "BARBERSHOP"
  BY <1>2, <1>3, <1>4 DEF Tenancy!HoursComeWithBarbershop, Tenancy!Exists
<1>. QED  BY <1>2, <1>3, <1>4, <1>5, <1>6, <1>7, EndOvertakingShape, TenancyStepKeeps

LEMMA UpdateCurrentKeeps ==
  ASSUME TenancyInv, NEW r \in Request, NEW zone \in Clock, Tenancy!UpdateCurrent(r, zone)
  PROVE  TenancyInv'
<1>. DEFINE t == call[r].member
<1>. USE DEF TenancyInv, Tenancy!TypeOK
<1>1. call[r].at = "profile"
  BY DEF Tenancy!UpdateCurrent
<1>2. t \in Tenant /\ context[r] = t /\ tenant[t] \in Tenancy!TenantRow
  BY <1>1, MemberIsAdmitted
<1>3. /\ tenant' = [tenant EXCEPT ![t].timezone = zone] /\ UNCHANGED opening
      /\ call' = [call EXCEPT ![r] = Tenancy!Idle]
      /\ context' = [context EXCEPT ![r] = Null]
  BY <1>2
     DEF Tenancy!UpdateCurrent, Tenancy!Current, Tenancy!End, Tenancy!Goto, Tenancy!Leave
<1>4. Tenancy!Idle \in Tenancy!Progress /\ Tenancy!Idle.at = "idle"
  BY DEF Tenancy!Progress, Tenancy!Idle
<1>5. /\ tenant'[t] \in Tenancy!TenantRow /\ tenant'[t].type = tenant[t].type
      /\ tenant'[t].settings = tenant[t].settings
      /\ \A u \in Tenant \ {t} : tenant'[u] = tenant[u]
      /\ tenant' \in [Tenant -> Tenancy!TenantRow \cup {Null}]
      /\ tenant[t] # Null /\ tenant'[t] # Null
  BY <1>2, <1>3, TenancyAssumption DEF Tenancy!TenantRow
<1>6. RowsStay
  BY <1>3, <1>5 DEF RowsStay, Tenancy!Exists
<1>7. /\ call'[r] = Tenancy!Idle /\ call' = [q \in Request |-> call'[q]]
      /\ context' \in [Request -> Tenant \cup {Null}]
      /\ \A q \in Request \ {r} : call'[q] = call[q] /\ context'[q] = context[q]
  BY <1>3
<1>8. \A q \in Request \ {r} : GoesOn(q)
  <2>. SUFFICES ASSUME NEW q \in Request \ {r}
                PROVE  GoesOn(q)
    OBVIOUS
  <2>1. OwnOK(call[q], context[q]) /\ (call[q].at = "merge" => call[q].member \in Tenant)
    BY ProgressShape
  <2>2. call[q].at = "merge" =>
          tenant'[call[q].member].settings = tenant[call[q].member].settings
    BY <1>5, <2>1
  <2>. QED  BY <1>3, <1>7, <2>1, <2>2 DEF GoesOn, OwnOK
<1>9. \A u \in Tenant : opening'[u] # Null =>
        Tenancy!Exists(u)' /\ tenant'[u].type = "BARBERSHOP"
  BY <1>3, <1>6 DEF RowsStay, Tenancy!HoursComeWithBarbershop, Tenancy!Exists
<1>10. OwnOK(call[r], context[r])' /\ MemberOK(call[r], context[r])'
  BY <1>4, <1>7 DEF OwnOK, MemberOK
<1>. QED  BY <1>3, <1>4, <1>5, <1>6, <1>7, <1>8, <1>9, <1>10, TenancyStepKeeps

LEMMA TenancyStepOK == TenancyInv /\ [Tenancy!Next]_tenancyVars => TenancyInv'
<1>. SUFFICES ASSUME TenancyInv, [Tenancy!Next]_tenancyVars
              PROVE  TenancyInv'
  OBVIOUS
<1>1. CASE UNCHANGED tenancyVars
  BY <1>1 DEF tenancyVars, TenancyInv, Tenancy!TypeOK, Tenancy!HoursComeWithBarbershop,
     Tenancy!Exists, OwnOK, MemberOK
<1>2. ASSUME NEW r \in Request, Tenancy!AnswerRegister(r) \/ Tenancy!Abort(r)
      PROVE  TenancyInv'
  <2>1. Tenancy!End(r) /\ UNCHANGED <<tenant, opening>>
    BY <1>2 DEF Tenancy!AnswerRegister, Tenancy!Abort
  <2>. QED  BY <2>1, EndIsQuiet
<1>. QED  BY <1>1, <1>2, RegisterKeeps, CreateWithOwnerKeeps, ListenerReadsKeep,
             UpsertDefaultsKeeps, AdmitKeeps, ReadSettingsKeeps, WriteSettingsKeeps,
             UpdateCurrentKeeps, UpdateHoursKeeps DEF Tenancy!Next

\* Seen from the tenants, every other component only lets time pass.
LEMMA StepForTenancy == [AdministrationNext]_all => [Tenancy!Next]_tenancyVars
BY DEF AdministrationNext, BarbersStep, RulesStep, BenefitsStep, TenancyStep, all

\* Every request works in the context of the tenant it belongs to, in a role that
\* admits it, and knows what it has read unless it is overtaken: the inductive
\* invariant of the tenants.
THEOREM TenancyInvariant == AdministrationSpec => []TenancyInv
<1>1. AdministrationInit => TenancyInv
  BY TenancyInitOK DEF AdministrationInit
<1>2. TenancyInv /\ [AdministrationNext]_all => TenancyInv'
  BY TenancyStepOK, StepForTenancy
<1>. QED  BY <1>1, <1>2, PTL DEF AdministrationSpec

\* For any number of registrations and members at once, only barbershops get
\* opening hours, and a registration whose listener did not fail is answered
\* with them in place.
THEOREM HoursWithBarbershops == AdministrationSpec => []HoursComeWithBarbershop
BY TenancyInvariant, PTL DEF TenancyInv, HoursComeWithBarbershop

\* What TenantChangesFromWithin says of one step.
FromWithin ==
  \A t \in Tenant : Tenancy!Exists(t) =>
    /\ tenant'[t] # tenant[t] => \E r \in Request : Tenancy!Acts(r, t, {"OWNER"})
    /\ opening'[t] # opening[t] => \E r \in Request : Tenancy!Acts(r, t, {"OWNER", "ADMIN"})

LEMMA StepFromWithin ==
  ASSUME TenancyInv, [Tenancy!Next]_tenancyVars
  PROVE  FromWithin
<1>. USE DEF TenancyInv, Tenancy!TypeOK
<1>. SUFFICES ASSUME NEW t \in Tenant, Tenancy!Exists(t)
              PROVE  /\ tenant'[t] # tenant[t] => \E r \in Request : Tenancy!Acts(r, t, {"OWNER"})
                     /\ opening'[t] # opening[t] =>
                          \E r \in Request : Tenancy!Acts(r, t, {"OWNER", "ADMIN"})
  BY DEF FromWithin
<1>1. CASE UNCHANGED <<tenant, opening>>
  BY <1>1
<1>2. ASSUME NEW r \in Request, NEW u \in Tenant, NEW zone \in Clock,
             Tenancy!CreateWithOwner(r, u, zone)
      PROVE  UNCHANGED opening /\ tenant'[t] = tenant[t]
  BY <1>2 DEF Tenancy!CreateWithOwner, Tenancy!Exists
<1>3. ASSUME NEW r \in Request, Tenancy!UpsertDefaults(r)
      PROVE  /\ UNCHANGED tenant
             /\ opening'[t] # opening[t] => Tenancy!Acts(r, t, {"OWNER", "ADMIN"})
  <2>1. /\ call[r].at = "defaults" /\ UNCHANGED tenant
        /\ opening' = [opening EXCEPT ![context[r]] = Standard]
    BY <1>3 DEF Tenancy!UpsertDefaults, Tenancy!Current
  <2>2. call[r].id \in Tenant /\ context[r] = call[r].id
    BY <2>1, ProgressShape DEF OwnOK
  <2>3. call'[r] = [at |-> "answer", id |-> call[r].id, handled |-> TRUE]
    BY <1>3 DEF Tenancy!UpsertDefaults, Tenancy!Answering, Tenancy!Goto
  <2>4. call'[r] # call[r]
    BY <2>1, <2>3
  <2>. QED  BY <2>1, <2>2, <2>4 DEF Tenancy!Acts
<1>4. ASSUME NEW r \in Request, call[r].at \in {"merge", "profile", "hours"},
             tenant' = tenant \/ call[r].at # "hours",
             opening' = opening \/ call[r].at = "hours",
             call'[r] = Tenancy!Idle,
             \A u \in Tenant \ {context[r]} : tenant'[u] = tenant[u] /\ opening'[u] = opening[u]
      PROVE  /\ tenant'[t] # tenant[t] => Tenancy!Acts(r, t, {"OWNER"})
             /\ opening'[t] # opening[t] => Tenancy!Acts(r, t, {"OWNER", "ADMIN"})
  <2>1. context[r] = call[r].member /\ call'[r] # call[r]
    BY <1>4 DEF MemberOK, Tenancy!Idle
  <2>. QED  BY <1>4, <2>1 DEF Tenancy!Acts, MemberOK
<1>5. ASSUME NEW r \in Request, Tenancy!WriteSettings(r)
      PROVE  /\ tenant'[t] # tenant[t] => Tenancy!Acts(r, t, {"OWNER"})
             /\ opening'[t] # opening[t] => Tenancy!Acts(r, t, {"OWNER", "ADMIN"})
  BY <1>4, <1>5 DEF Tenancy!WriteSettings, Tenancy!Current, Tenancy!EndOvertaking
<1>6. ASSUME NEW r \in Request, NEW zone \in Clock, Tenancy!UpdateCurrent(r, zone)
      PROVE  /\ tenant'[t] # tenant[t] => Tenancy!Acts(r, t, {"OWNER"})
             /\ opening'[t] # opening[t] => Tenancy!Acts(r, t, {"OWNER", "ADMIN"})
  BY <1>4, <1>6 DEF Tenancy!UpdateCurrent, Tenancy!Current, Tenancy!End, Tenancy!Goto
<1>7. ASSUME NEW r \in Request, NEW h \in Custom, Tenancy!UpdateHours(r, h)
      PROVE  /\ tenant'[t] # tenant[t] => Tenancy!Acts(r, t, {"OWNER"})
             /\ opening'[t] # opening[t] => Tenancy!Acts(r, t, {"OWNER", "ADMIN"})
  BY <1>4, <1>7 DEF Tenancy!UpdateHours, Tenancy!Current, Tenancy!EndOvertaking
<1>8. CASE ~UNCHANGED <<tenant, opening>>
  <2>1. \E r \in Request :
          \/ \E u \in Tenant, zone \in Clock : Tenancy!CreateWithOwner(r, u, zone)
          \/ Tenancy!UpsertDefaults(r) \/ Tenancy!WriteSettings(r)
          \/ \E zone \in Clock : Tenancy!UpdateCurrent(r, zone)
          \/ \E h \in Custom : Tenancy!UpdateHours(r, h)
    BY <1>8 DEF tenancyVars, Tenancy!Next, Tenancy!BeginRegister, Tenancy!ChooseSlug,
       Tenancy!FindHours, Tenancy!ListenerFails, Tenancy!AnswerRegister, Tenancy!Admit,
       Tenancy!ReadSettings, Tenancy!Abort
  <2>. HIDE DEF TenancyInv, Tenancy!TypeOK
  <2>. QED  BY <1>2, <1>3, <1>5, <1>6, <1>7, <2>1
<1>. QED  BY <1>1, <1>8

\* For any number of tenants and of requests in one process, what a tenant is
\* changes by a request of its own owner only, and its opening hours by one of
\* its owner or administrator or by its own registration.
THEOREM TenantsChangeFromWithin == AdministrationSpec => TenantChangesFromWithin
<1>1. TenancyInv /\ [AdministrationNext]_all => [FromWithin]_(Tenancy!vars)
  BY StepFromWithin, StepForTenancy
<1>. QED  BY <1>1, TenancyInvariant, PTL DEF AdministrationSpec, TenantChangesFromWithin,
             Tenancy!TenantChangesFromWithin, FromWithin

\* What ChoicesAreKept says of one step.
KeepsChoices ==
  \A t \in Tenant : Tenancy!Exists(t) =>
    /\ \A k \in Key : tenant'[t].settings[k] # tenant[t].settings[k] =>
         \E r \in Request :
           /\ call[r].at = "merge" /\ call'[r] # call[r]
           /\ call[r].overtaken \/ call[r].sent[k] \in {tenant'[t].settings[k]} \ {Null}
    /\ opening[t] \in Custom /\ opening'[t] \notin Custom =>
         \E r \in Request :
           call[r].at = "defaults" /\ call'[r] # call[r] /\ call[r].overtaken

LEMMA WriteSettingsKeepsChoices ==
  ASSUME TenancyInv, NEW r \in Request, Tenancy!WriteSettings(r),
         NEW t \in Tenant, Tenancy!Exists(t), NEW k \in Key,
         tenant'[t].settings[k] # tenant[t].settings[k]
  PROVE  /\ call[r].at = "merge" /\ call'[r] # call[r]
         /\ call[r].overtaken \/ call[r].sent[k] \in {tenant'[t].settings[k]} \ {Null}
<1>. USE DEF TenancyInv, Tenancy!TypeOK
<1>. DEFINE merged == Tenancy!MergeSettings(call[r].current, call[r].sent)
<1>1. /\ call[r].at = "merge" /\ call'[r] = Tenancy!Idle
      /\ tenant' = [tenant EXCEPT ![context[r]].settings = merged]
  BY DEF Tenancy!WriteSettings, Tenancy!EndOvertaking, Tenancy!Current
<1>2. call'[r] # call[r]
  BY <1>1 DEF Tenancy!Idle
<1>3. /\ context[r] = call[r].member /\ tenant[t] \in Tenancy!TenantRow
      /\ ~call[r].overtaken => call[r].current = tenant[call[r].member].settings
  BY <1>1 DEF MemberOK, Tenancy!Exists
<1>4. merged[k] = IF call[r].sent[k] = Null THEN call[r].current[k] ELSE call[r].sent[k]
  BY DEF Tenancy!MergeSettings
<1>. HIDE DEF merged
<1>5. t = call[r].member /\ tenant'[t].settings = merged
  BY <1>1, <1>3 DEF Tenancy!TenantRow
<1>6. call[r].overtaken \/ call[r].sent[k] \in {tenant'[t].settings[k]} \ {Null}
  BY <1>3, <1>4, <1>5
<1>. QED  BY <1>1, <1>2, <1>6

LEMMA StepKeepsChoices ==
  ASSUME TenancyInv, [Tenancy!Next]_tenancyVars
  PROVE  KeepsChoices
<1>. SUFFICES ASSUME NEW t \in Tenant, Tenancy!Exists(t)
              PROVE  /\ \A k \in Key : tenant'[t].settings[k] # tenant[t].settings[k] =>
                          \E r \in Request :
                            /\ call[r].at = "merge" /\ call'[r] # call[r]
                            /\ \/ call[r].overtaken
                               \/ call[r].sent[k] \in {tenant'[t].settings[k]} \ {Null}
                     /\ opening[t] \in Custom /\ opening'[t] \notin Custom =>
                          \E r \in Request :
                            call[r].at = "defaults" /\ call'[r] # call[r] /\ call[r].overtaken
  BY DEF KeepsChoices
<1>1. CASE tenant'[t] = tenant[t] /\ opening'[t] = opening[t]
  BY <1>1
<1>2. ASSUME NEW r \in Request, NEW u \in Tenant, NEW zone \in Clock,
             Tenancy!CreateWithOwner(r, u, zone)
      PROVE  opening'[t] = opening[t] /\ tenant'[t] = tenant[t]
  BY <1>2 DEF Tenancy!CreateWithOwner, Tenancy!Exists, TenancyInv, Tenancy!TypeOK
<1>3. ASSUME NEW r \in Request, Tenancy!UpsertDefaults(r)
      PROVE  /\ UNCHANGED tenant
             /\ opening[t] \in Custom /\ opening'[t] \notin Custom =>
                  call[r].at = "defaults" /\ call'[r] # call[r] /\ call[r].overtaken
  <2>1. /\ call[r].at = "defaults" /\ UNCHANGED tenant
        /\ opening' = [opening EXCEPT ![context[r]] = Standard]
        /\ call'[r] = [at |-> "answer", id |-> call[r].id, handled |-> TRUE]
    BY <1>3 DEF Tenancy!UpsertDefaults, Tenancy!Current, Tenancy!Answering, Tenancy!Goto,
       TenancyInv, Tenancy!TypeOK
  <2>2. context[r] = call[r].id /\ (~call[r].overtaken => opening[call[r].id] \notin Custom)
    BY <2>1 DEF TenancyInv, OwnOK
  <2>3. call'[r] # call[r]
    BY <2>1
  <2>. QED  BY <2>1, <2>2, <2>3 DEF TenancyInv, Tenancy!TypeOK
<1>4. ASSUME NEW r \in Request, NEW zone \in Clock, Tenancy!UpdateCurrent(r, zone)
      PROVE  UNCHANGED opening /\ tenant'[t].settings = tenant[t].settings
  <2>1. UNCHANGED opening /\ tenant' = [tenant EXCEPT ![context[r]].timezone = zone]
    BY <1>4 DEF Tenancy!UpdateCurrent, Tenancy!Current
  <2>. QED  BY <2>1 DEF TenancyInv, Tenancy!TypeOK, Tenancy!TenantRow, Tenancy!Exists
<1>5. ASSUME NEW r \in Request, NEW h \in Custom, Tenancy!UpdateHours(r, h)
      PROVE  UNCHANGED tenant /\ (opening[t] \in Custom => opening'[t] \in Custom)
  BY <1>5 DEF Tenancy!UpdateHours, TenancyInv, Tenancy!TypeOK
<1>6. ASSUME NEW r \in Request, Tenancy!WriteSettings(r)
      PROVE  UNCHANGED opening
  BY <1>6 DEF Tenancy!WriteSettings
<1>7. CASE ~UNCHANGED <<tenant, opening>>
  <2>1. \E r \in Request :
          \/ \E u \in Tenant, zone \in Clock : Tenancy!CreateWithOwner(r, u, zone)
          \/ Tenancy!UpsertDefaults(r) \/ Tenancy!WriteSettings(r)
          \/ \E zone \in Clock : Tenancy!UpdateCurrent(r, zone)
          \/ \E h \in Custom : Tenancy!UpdateHours(r, h)
    BY <1>7 DEF tenancyVars, Tenancy!Next, Tenancy!BeginRegister, Tenancy!ChooseSlug,
       Tenancy!FindHours, Tenancy!ListenerFails, Tenancy!AnswerRegister, Tenancy!Admit,
       Tenancy!ReadSettings, Tenancy!Abort
  <2>. QED  BY <1>1, <1>2, <1>3, <1>4, <1>5, <1>6, <2>1, WriteSettingsKeepsChoices
<1>. QED  BY <1>1, <1>7

\* What a member has chosen stays until a member sends something else, however
\* many requests are about: only what is read before and written after another
\* write is lost.
THEOREM ChoicesStay == AdministrationSpec => ChoicesAreKept
<1>1. TenancyInv /\ [AdministrationNext]_all => [KeepsChoices]_(Tenancy!vars)
  BY StepKeepsChoices, StepForTenancy
<1>. QED  BY <1>1, TenancyInvariant, PTL DEF AdministrationSpec, ChoicesAreKept,
             Tenancy!ChoicesAreKept, KeepsChoices

-----------------------------------------------------------------------------
\* Commission rules.

\* What an update will write is within bounds as long as it is not overtaken.
PendingOK(p) ==
  /\ p.id \in DOMAIN rules
  /\ ~p.overtaken =>
       LET new == Rules!Updated(p.dto, rules[p.id]) IN Rules!RuleValueOK(new.type, new.value)

\* The inductive invariant of CommissionRules.
RulesInv ==
  /\ Rules!TypeOK /\ IsFiniteSet(DOMAIN rules)
  /\ update = [u \in RuleUpdate |-> update[u]]
  /\ \A u \in RuleUpdate : update[u] # Null => PendingOK(update[u])
  /\ \A id \in DOMAIN rules \ stale : Rules!RuleValueOK(rules[id].type, rules[id].value)

\* A share of at most the whole, rounded half up to a cent, is at most the whole.
LEMMA ShareWithinWhole ==
  ASSUME NEW base \in Nat, NEW share \in Nat, share <= 10000
  PROVE  Rules!RoundHalfUp(base * share, 10000) <= base
<1>1. base * share \in Nat /\ base * share <= base * 10000
  OBVIOUS
<1>. DEFINE n == base * share
<1>2. n \in Nat /\ n <= base * 10000
  BY <1>1
<1>. HIDE DEF n
<1>3. (2 * n + 10000) \div 20000 <= base
  BY <1>2
<1>. QED  BY <1>3 DEF Rules!RoundHalfUp, n

\* Merging keeps the columns of a rule in their types.
LEMMA SentShape ==
  ASSUME NEW dto \in Rules!Dto, NEW row \in Rules!RuleRow
  PROVE  /\ Rules!Updated(dto, row).type \in Rules!Kind
         /\ Rules!Updated(dto, row).value \in RuleValue
BY DEF Rules!Updated, Rules!Dto, Rules!RuleRow

LEMMA RulesInitOK == Rules!Init => RulesInv
BY FS_EmptySet DEF Rules!Init, RulesInv, Rules!TypeOK

LEMMA CreateRuleKeeps ==
  ASSUME RulesInv, NEW id \in Rule, NEW row \in Rules!RuleRow, Rules!CreateRule(id, row)
  PROVE  RulesInv'
<1>. USE DEF RulesInv, Rules!TypeOK
<1>1. /\ id \notin DOMAIN rules /\ DOMAIN rules' = DOMAIN rules \cup {id}
      /\ rules'[id] = row /\ \A i \in DOMAIN rules : rules'[i] = rules[i]
      /\ Rules!RuleValueOK(row.type, row.value)
      /\ UNCHANGED <<update, stale>>
  BY DEF Rules!CreateRule
<1>2. Rules!TypeOK'
  BY <1>1
<1>3. ASSUME NEW u \in RuleUpdate, update'[u] # Null
      PROVE  PendingOK(update[u])'
  BY <1>1, <1>3 DEF PendingOK
<1>4. \A i \in DOMAIN rules' \ stale' : Rules!RuleValueOK(rules'[i].type, rules'[i].value)
  BY <1>1
<1>5. IsFiniteSet(DOMAIN rules')
  BY <1>1, FS_AddElement
<1>. QED  BY <1>1, <1>2, <1>3, <1>4, <1>5

LEMMA BeginRuleUpdateKeeps ==
  ASSUME RulesInv, NEW u \in RuleUpdate, NEW id \in Rule, NEW dto \in Rules!Dto,
         Rules!BeginUpdate(u, id, dto)
  PROVE  RulesInv'
<1>. DEFINE next == [id |-> id, dto |-> dto, overtaken |-> FALSE]
<1>. USE DEF RulesInv, Rules!TypeOK
<1>1. /\ update' = [update EXCEPT ![u] = next] /\ UNCHANGED <<rules, stale>>
      /\ id \in DOMAIN rules
      /\ LET new == Rules!Updated(dto, rules[id]) IN Rules!RuleValueOK(new.type, new.value)
  BY DEF Rules!BeginUpdate
<1>2. /\ next \in [id : Rule, dto : Rules!Dto, overtaken : BOOLEAN]
      /\ next.id = id /\ next.dto = dto
  OBVIOUS
<1>. HIDE DEF next
<1>3. /\ update'[u] = next /\ update' = [v \in RuleUpdate |-> update'[v]]
      /\ \A v \in RuleUpdate \ {u} : update'[v] = update[v]
  BY <1>1
<1>4. Rules!TypeOK'
  BY <1>1, <1>2, <1>3
<1>5. ASSUME NEW v \in RuleUpdate, update'[v] # Null
      PROVE  PendingOK(update[v])'
  <2>1. CASE v = u
    BY <1>1, <1>2, <1>3, <2>1 DEF PendingOK
  <2>2. CASE v # u
    BY <1>1, <1>3, <1>5, <2>2 DEF PendingOK
  <2>. QED  BY <2>1, <2>2
<1>. QED  BY <1>1, <1>3, <1>4, <1>5

LEMMA WriteRuleUpdateKeeps ==
  ASSUME RulesInv, NEW u \in RuleUpdate, Rules!WriteUpdate(u)
  PROVE  RulesInv'
<1>. DEFINE id  == update[u].id
            new == Rules!Updated(update[u].dto, rules[id])
<1>. USE DEF RulesInv, Rules!TypeOK
<1>1. /\ update[u] # Null /\ PendingOK(update[u])
      /\ update[u] \in [id : Rule, dto : Rules!Dto, overtaken : BOOLEAN]
  BY DEF Rules!WriteUpdate
<1>2. /\ id \in DOMAIN rules /\ id \in Rule /\ rules[id] \in Rules!RuleRow
      /\ new.type \in Rules!Kind /\ new.value \in RuleValue
  BY <1>1, SentShape DEF PendingOK
<1>3. PICK active \in BOOLEAN :
        rules' = [rules EXCEPT ![id].type = new.type, ![id].value = new.value,
                               ![id].isActive = active]
  <2>1. rules' = [rules EXCEPT ![id].type = new.type, ![id].value = new.value,
                    ![id].isActive = IF update[u].dto.isActive = Null
                                     THEN rules[id].isActive ELSE update[u].dto.isActive]
    BY <1>2 DEF Rules!WriteUpdate, Rules!RuleRow
  <2>2. (IF update[u].dto.isActive = Null
         THEN rules[id].isActive ELSE update[u].dto.isActive) \in BOOLEAN
    BY <1>1, <1>2 DEF Rules!Dto, Rules!RuleRow
  <2>. QED  BY <2>1, <2>2
<1>4. /\ stale' = IF update[u].overtaken THEN stale \cup {id} ELSE stale \ {id}
      /\ update' = [v \in RuleUpdate |->
            IF v = u THEN Null
            ELSE IF update[v] # Null /\ update[v].id = id
            THEN [update[v] EXCEPT !.overtaken = TRUE] ELSE update[v]]
  BY DEF Rules!WriteUpdate
<1>5. PendingOK(update[u]) => (~update[u].overtaken => Rules!RuleValueOK(new.type, new.value))
  BY DEF PendingOK
<1>. HIDE DEF new
<1>6. /\ DOMAIN rules' = DOMAIN rules
      /\ \A i \in DOMAIN rules \ {id} : rules'[i] = rules[i]
      /\ rules'[id] \in Rules!RuleRow
      /\ rules'[id].type = new.type /\ rules'[id].value = new.value
  BY <1>2, <1>3 DEF Rules!RuleRow
<1>. HIDE DEF id
<1>7. ASSUME NEW v \in RuleUpdate, update'[v] # Null
      PROVE  /\ update'[v] \in [id : Rule, dto : Rules!Dto, overtaken : BOOLEAN]
             /\ PendingOK(update[v])'
  <2>1. /\ v # u /\ update[v] # Null
        /\ update[v] \in [id : Rule, dto : Rules!Dto, overtaken : BOOLEAN]
        /\ PendingOK(update[v])
    BY <1>4, <1>7
  <2>2. CASE update[v].id = id
    <3>1. update'[v] = [update[v] EXCEPT !.overtaken = TRUE]
      BY <1>4, <2>1, <2>2
    <3>2. /\ update'[v] \in [id : Rule, dto : Rules!Dto, overtaken : BOOLEAN]
          /\ update'[v].id = update[v].id /\ update'[v].overtaken = TRUE
      BY <2>1, <3>1
    <3>. QED  BY <1>6, <2>1, <3>2 DEF PendingOK
  <2>3. CASE update[v].id # id
    <3>1. update'[v] = update[v] /\ rules'[update[v].id] = rules[update[v].id]
      BY <1>4, <1>6, <2>1, <2>3 DEF PendingOK
    <3>. QED  BY <1>6, <2>1, <3>1 DEF PendingOK
  <2>. QED  BY <2>2, <2>3
<1>8. Rules!TypeOK'
  BY <1>2, <1>4, <1>6, <1>7
<1>9. \A i \in DOMAIN rules' \ stale' : Rules!RuleValueOK(rules'[i].type, rules'[i].value)
  BY <1>1, <1>4, <1>5, <1>6
<1>. QED  BY <1>4, <1>6, <1>7, <1>8, <1>9

LEMMA RulesStepOK == RulesInv /\ [Rules!Next]_rulesVars => RulesInv'
<1>. SUFFICES ASSUME RulesInv, [Rules!Next]_rulesVars
              PROVE  RulesInv'
  OBVIOUS
<1>1. CASE UNCHANGED rulesVars
  BY <1>1 DEF rulesVars, RulesInv, Rules!TypeOK, PendingOK
<1>. QED  BY <1>1, CreateRuleKeeps, BeginRuleUpdateKeeps, WriteRuleUpdateKeeps DEF Rules!Next

\* Seen from the rules, every other component only lets time pass.
LEMMA StepForRules == [AdministrationNext]_all => [Rules!Next]_rulesVars
BY DEF AdministrationNext, BarbersStep, RulesStep, BenefitsStep, TenancyStep, all

\* A rule whose last writer saw it as it was is within bounds, and so is what an
\* update that is not overtaken will write: the inductive invariant of the rules.
THEOREM RulesInvariant == AdministrationSpec => []RulesInv
<1>1. AdministrationInit => RulesInv
  BY RulesInitOK DEF AdministrationInit
<1>2. RulesInv /\ [AdministrationNext]_all => RulesInv'
  BY RulesStepOK, StepForRules
<1>. QED  BY <1>1, <1>2, PTL DEF AdministrationSpec

\* For any number of rules, of values and of updates at once, and for any price, a
\* percentage never pays more than the price it is taken from, unless the last
\* update was validated against a row that another changed meanwhile.
THEOREM CommissionsWithinBase == AdministrationSpec => []CommissionWithinBase
<1>1. ASSUME RulesInv
      PROVE  CommissionWithinBase
  <2>. SUFFICES ASSUME NEW id \in DOMAIN rules \ stale, NEW base \in Price,
                       rules[id].type = "PERCENTAGE"
                PROVE  Rules!CalculateCommission(rules[id], base, 1) <= base
    BY DEF CommissionWithinBase, Rules!CommissionWithinBase
  <2>1. base \in Nat /\ rules[id].value \in Nat /\ rules[id].value <= 10000
    BY <1>1, AdministrationAssumption DEF RulesInv, Rules!TypeOK, Rules!RuleRow,
       Rules!RuleValueOK, Rules!ConstantsAssumption
  <2>. QED  BY <2>1, ShareWithinWhole DEF Rules!CalculateCommission
<1>. QED  BY <1>1, RulesInvariant, PTL

\* Induction over the steps of a loop: a set that holds the first of them, and the
\* next one of each that it holds, holds them all.
LEMMA ClimbsToTheEnd ==
  ASSUME NEW top \in Nat, NEW G, 0 \in G,
         \A n \in 0..top - 1 : n \in G => n + 1 \in G
  PROVE  0..top \subseteq G
<1>. SUFFICES ASSUME NEW z \in 0..top, z \notin G
              PROVE  FALSE
  OBVIOUS
<1>. DEFINE T == {n \in 0..top : n \notin G}
            S == {1..n : n \in T}
            R == StrictSubsetOrdering(Nat)
<1>1. S \subseteq FiniteSubsetsOf(Nat)
  <2>1. ASSUME NEW n \in T
        PROVE  1..n \in FiniteSubsetsOf(Nat)
    BY FS_Interval DEF FiniteSubsetsOf
  <2>. QED  BY <2>1
<1>2. S # {}
  OBVIOUS
<1>3. PICK x \in S : \A y \in S : <<y, x>> \notin R
  BY <1>1, <1>2, FS_StrictSubsetOrderingWellFounded, WFMin
<1>4. PICK m \in T : x = 1..m
  OBVIOUS
<1>5. m # 0 /\ m - 1 \in 0..top - 1 /\ m - 1 + 1 = m
  OBVIOUS
<1>6. m - 1 \in T
  BY <1>5
<1>7. 1..m - 1 \in S
  BY <1>6
<1>8. 1..m - 1 \subseteq 1..m /\ m \in 1..m /\ m \notin 1..m - 1
  BY <1>5
<1>9. <<1..m - 1, x>> \in R
  BY <1>4, <1>5, <1>8 DEF StrictSubsetOrdering
<1>. QED  BY <1>3, <1>7, <1>9

\* What the loop keeps after the rule id.
Better(best, id, b, good) ==
  IF Rules!Applies(rules[id], b, good) /\ Rules!Score(rules[id], b, good) > best.score
  THEN [id |-> id, score |-> Rules!Score(rules[id], b, good)]
  ELSE best

\* What the loop starts from, and what it can keep.
Nothing == [id |-> NoRule, score |-> -1]
Kept    == [id : DOMAIN rules \cup {NoRule}, score : -1..3]

LEMMA BetterIsKept ==
  ASSUME NEW best \in Kept, NEW id \in DOMAIN rules, NEW b, NEW good
  PROVE  Better(best, id, b, good) \in Kept
BY DEF Better, Kept, Rules!Score

\* Rules as the loop goes over them.
Listed(ids) == Len(ids) \in Nat /\ \A n \in 1..Len(ids) : ids[n] \in DOMAIN rules

\* What the loop goes through, and returns.
LoopIs(best, ids, b, good) ==
  /\ best \in [0..Len(ids) -> Kept]
  /\ best[0] = Nothing
  /\ \A n \in 1..Len(ids) : best[n] = Better(best[n - 1], ids[n], b, good)
  /\ Rules!PickCommissionRule(ids, b, good) = best[Len(ids)].id

\* The loop is the run that its recursive definition describes.
LEMMA LoopRuns ==
  ASSUME NEW ids, Listed(ids), NEW b, NEW good
  PROVE  \E best : LoopIs(best, ids, b, good)
<1>. USE DEF Listed
<1>. DEFINE top     == Len(ids)
            Run(f, n) == /\ f \in [0..n -> Kept] /\ f[0] = Nothing
                         /\ \A m \in 1..n : f[m] = Better(f[m - 1], ids[m], b, good)
            G       == {n \in 0..top : \E f : Run(f, n)}
            Loop(f) == [n \in 0..top |->
                         IF n = 0 THEN Nothing ELSE Better(f[n - 1], ids[n], b, good)]
<1>1. 0 \in G
  <2>. DEFINE f == [n \in 0..0 |-> Nothing]
  <2>1. Run(f, 0)
    BY DEF Nothing, Kept
  <2>. HIDE DEF f
  <2>. QED  BY <2>1
<1>2. ASSUME NEW n \in 0..top - 1, n \in G
      PROVE  n + 1 \in G
  <2>1. PICK f : Run(f, n)
    BY <1>2
  <2>. DEFINE g == [m \in 0..n + 1 |->
                     IF m = n + 1 THEN Better(f[n], ids[n + 1], b, good) ELSE f[m]]
  <2>2. Better(f[n], ids[n + 1], b, good) \in Kept
    BY <2>1, BetterIsKept
  <2>3. g \in [0..n + 1 -> Kept] /\ g[0] = Nothing
    BY <2>1, <2>2
  <2>4. ASSUME NEW m \in 1..n + 1
        PROVE  g[m] = Better(g[m - 1], ids[m], b, good)
    <3>1. CASE m = n + 1
      BY <3>1
    <3>2. CASE m # n + 1
      <4>1. m \in 1..n /\ m - 1 \in 0..n /\ g[m] = f[m] /\ g[m - 1] = f[m - 1]
        BY <3>2
      <4>. QED  BY <2>1, <4>1
    <3>. QED  BY <3>1, <3>2
  <2>. HIDE DEF g
  <2>5. Run(g, n + 1)
    BY <2>3, <2>4
  <2>. QED  BY <2>5
<1>3. 0..top \subseteq G
  <2>. HIDE DEF G
  <2>. QED  BY <1>1, <1>2, ClimbsToTheEnd
<1>4. PICK f : Run(f, top)
  BY <1>3
<1>5. f = Loop(f)
  <2>1. \A n \in 0..top : f[n] = Loop(f)[n]
    BY <1>4
  <2>. QED  BY <1>4, <2>1
<1>. DEFINE best == CHOOSE g : g = Loop(g)
<1>6. best = Loop(best)
  BY <1>5
<1>7. Rules!PickCommissionRule(ids, b, good) = best[top].id
  BY Zenon DEF Rules!PickCommissionRule, Better, Nothing
<1>. HIDE DEF best
<1>8. best[0] = Nothing /\ \A n \in 1..top : best[n] = Better(best[n - 1], ids[n], b, good)
  BY <1>6
<1>. DEFINE H == {n \in 0..top : best[n] \in Kept}
<1>9. 0..top \subseteq H
  <2>1. 0 \in H
    BY <1>8 DEF Nothing, Kept
  <2>2. ASSUME NEW n \in 0..top - 1, n \in H
        PROVE  n + 1 \in H
    BY <1>8, <2>2, BetterIsKept
  <2>. HIDE DEF H
  <2>. QED  BY <2>1, <2>2, ClimbsToTheEnd
<1>10. best \in [0..top -> Kept]
  BY <1>6, <1>9
<1>. QED  BY <1>7, <1>8, <1>10 DEF LoopIs

\* After n rules the loop has the best of them that apply.
BestOfFirst(ids, b, good, best, n) ==
  /\ best.score = -1 => best.id = NoRule
  /\ best.score # -1 => \E i \in 1..n :
       best.id = ids[i] /\ Rules!Applies(rules[ids[i]], b, good)
                        /\ Rules!Score(rules[ids[i]], b, good) = best.score
  /\ \A i \in 1..n : Rules!Applies(rules[ids[i]], b, good) =>
       Rules!Score(rules[ids[i]], b, good) <= best.score

LEMMA BetterIsBest ==
  ASSUME NEW ids, NEW b, NEW good, NEW best \in Kept, NEW n \in Nat,
         BestOfFirst(ids, b, good, best, n)
  PROVE  BestOfFirst(ids, b, good, Better(best, ids[n + 1], b, good), n + 1)
<1>. DEFINE id == ids[n + 1]
            score == Rules!Score(rules[id], b, good)
<1>1. score \in 0..3 /\ best.score \in -1..3
  BY DEF Rules!Score, Kept
<1>2. CASE Rules!Applies(rules[id], b, good) /\ score > best.score
  <2>1. Better(best, id, b, good) = [id |-> id, score |-> score]
    BY <1>2 DEF Better
  <2>2. \A i \in 1..n + 1 : Rules!Applies(rules[ids[i]], b, good) =>
          Rules!Score(rules[ids[i]], b, good) <= score
    <3>. SUFFICES ASSUME NEW i \in 1..n, Rules!Applies(rules[ids[i]], b, good)
                  PROVE  Rules!Score(rules[ids[i]], b, good) <= score
      BY <1>1
    <3>1. Rules!Score(rules[ids[i]], b, good) <= best.score
      BY DEF BestOfFirst
    <3>2. Rules!Score(rules[ids[i]], b, good) \in 0..3
      BY DEF Rules!Score
    <3>. QED  BY <1>1, <1>2, <3>1, <3>2
  <2>3. \E i \in 1..n + 1 : id = ids[i]
    OBVIOUS
  <2>. QED  BY <1>1, <1>2, <2>1, <2>2, <2>3 DEF BestOfFirst
<1>3. CASE ~(Rules!Applies(rules[id], b, good) /\ score > best.score)
  <2>1. Better(best, id, b, good) = best
    BY <1>3 DEF Better
  <2>2. \A i \in 1..n + 1 : i \in 1..n \/ i = n + 1
    OBVIOUS
  <2>3. Rules!Applies(rules[id], b, good) => score <= best.score
    BY <1>1, <1>3
  <2>4. 1..n \subseteq 1..n + 1
    OBVIOUS
  <2>. HIDE DEF score
  <2>. QED  BY <2>1, <2>2, <2>3, <2>4 DEF BestOfFirst, score
<1>. QED  BY <1>2, <1>3

\* The rule that the loop returns has the highest score of those that apply.
LEMMA LoopFindsBest ==
  ASSUME NEW ids, Listed(ids), NEW b, NEW good
  PROVE  \E best \in Kept : /\ BestOfFirst(ids, b, good, best, Len(ids))
                            /\ Rules!PickCommissionRule(ids, b, good) = best.id
<1>. DEFINE top == Len(ids)
<1>0. PICK f : LoopIs(f, ids, b, good)
  BY LoopRuns
<1>1. /\ f \in [0..top -> Kept] /\ f[0] = Nothing /\ top \in Nat
      /\ \A n \in 1..top : f[n] = Better(f[n - 1], ids[n], b, good)
      /\ Rules!PickCommissionRule(ids, b, good) = f[top].id
  BY <1>0 DEF LoopIs, Listed
<1>. DEFINE G == {n \in 0..top : BestOfFirst(ids, b, good, f[n], n)}
<1>2. 0 \in G
  BY <1>1 DEF BestOfFirst, Nothing
<1>3. ASSUME NEW n \in 0..top - 1, n \in G
      PROVE  n + 1 \in G
  <2>1. f[n] \in Kept /\ f[n + 1] = Better(f[n], ids[n + 1], b, good)
    BY <1>1
  <2>. QED  BY <1>3, <2>1, BetterIsBest
<1>4. 0..top \subseteq G
  <2>. HIDE DEF G
  <2>. QED  BY <1>2, <1>3, ClimbsToTheEnd
<1>. QED  BY <1>1, <1>4

\* The level of a rule is what its score says.
LEMMA ScoreIsTier ==
  ASSUME NEW S, NEW b \in Barber, NEW good \in Rules!Goods, NEW id \in S,
         rules[id] \in Rules!RuleRow, rules[id].barber \in {b, Null}
  PROVE  /\ \A n \in 1..4 : id \in Rules!Tier(S, b, good, n) <=>
              /\ Rules!Applies(rules[id], b, good)
              /\ Rules!Score(rules[id], b, good) = 4 - n
         /\ Rules!Score(rules[id], b, good) \in 0..3
<1>1. good # Null /\ b # Null
  BY AdministrationAssumption DEF Rules!ConstantsAssumption, Rules!Goods
<1>2. ASSUME NEW n \in 1..4
      PROVE  id \in Rules!Tier(S, b, good, n) <=>
              /\ Rules!Applies(rules[id], b, good)
              /\ Rules!Score(rules[id], b, good) = 4 - n
  <2>. DEFINE r == rules[id]
  <2>1. /\ r.barber \in {b, Null} /\ r.service \in Service \cup {Null}
        /\ r.product \in Product \cup {Null}
    BY DEF Rules!RuleRow
  <2>2. /\ id \in Rules!Tier(S, b, good, 1) <=> r.barber = b /\ good \in {r.service, r.product}
        /\ id \in Rules!Tier(S, b, good, 2) <=>
             r.barber = Null /\ good \in {r.service, r.product}
        /\ id \in Rules!Tier(S, b, good, 3) <=>
             r.barber = b /\ r.service = Null /\ r.product = Null
        /\ id \in Rules!Tier(S, b, good, 4) <=>
             r.barber = Null /\ r.service = Null /\ r.product = Null
    BY DEF Rules!Tier
  <2>3. n = 1 \/ n = 2 \/ n = 3 \/ n = 4
    OBVIOUS
  <2>. HIDE DEF r
  <2>. QED  BY <1>1, <2>1, <2>2, <2>3
             DEF Rules!Applies, Rules!Score, Rules!Matches, Rules!IsGeneric, r
<1>. QED  BY <1>2 DEF Rules!Score

\* The cardinality of CommissionRules is that of the library.
LEMMA SameCardinality == \A S : Rules!Cardinality(S) = Cardinality(S)
BY DEF Rules!Cardinality, Cardinality

\* A list of n different elements of a set of n has them all.
LEMMA ListsHaveAll ==
  ASSUME NEW S, IsFiniteSet(S), NEW ids \in Rules!SetToSeqs(S)
  PROVE  /\ Len(ids) \in Nat /\ \A n \in 1..Len(ids) : ids[n] \in S
         /\ \A x \in S : \E n \in 1..Len(ids) : ids[n] = x
<1>. DEFINE D == 1..Cardinality(S)
<1>1. Cardinality(S) \in Nat /\ IsFiniteSet(D) /\ Cardinality(D) = Cardinality(S)
  BY FS_CardinalityType, FS_Interval
<1>2. ids \in [D -> S] /\ \A i, j \in D : i # j => ids[i] # ids[j]
  BY SameCardinality DEF Rules!SetToSeqs
<1>3. Len(ids) = Cardinality(S)
  BY <1>1, <1>2
<1>. HIDE DEF D
<1>4. ids \in Injection(D, S)
  BY <1>2 DEF Injection, IsInjective
<1>5. ids \in Surjection(D, S)
  BY <1>1, <1>4, FS_Injection
<1>. QED  BY <1>1, <1>2, <1>3, <1>5 DEF Surjection, D

\* pickCommissionRule: in whatever order the query returns the rules of a barber, and
\* however many they are, the one applied belongs to the most specific level that
\* has any.
THEOREM PicksAreMostSpecific == AdministrationSpec => []PickIsMostSpecific
<1>1. ASSUME RulesInv
      PROVE  PickIsMostSpecific
  <2>. SUFFICES ASSUME NEW b \in Barber, NEW good \in Rules!Goods,
                       NEW ids \in Rules!SetToSeqs(Rules!ActiveRules(b))
                PROVE  Rules!PickCommissionRule(ids, b, good)
                         \in Rules!MostSpecific(Rules!ActiveRules(b), b, good)
    BY DEF PickIsMostSpecific, Rules!PickIsMostSpecific
  <2>. DEFINE S == Rules!ActiveRules(b)
  <2>1. /\ IsFiniteSet(S) /\ S \subseteq DOMAIN rules
        /\ \A id \in S : rules[id] \in Rules!RuleRow /\ rules[id].barber \in {b, Null}
    BY <1>1, FS_Subset DEF RulesInv, Rules!TypeOK, Rules!ActiveRules
  <2>2. /\ Len(ids) \in Nat /\ \A n \in 1..Len(ids) : ids[n] \in S
        /\ \A id \in S : \E n \in 1..Len(ids) : ids[n] = id
    BY <2>1, ListsHaveAll
  <2>3. PICK best \in Kept : /\ BestOfFirst(ids, b, good, best, Len(ids))
                             /\ Rules!PickCommissionRule(ids, b, good) = best.id
    BY <2>1, <2>2, LoopFindsBest DEF Listed
  <2>. HIDE DEF S
  <2>4. ASSUME NEW n \in 1..4, NEW id \in Rules!Tier(S, b, good, n)
        PROVE  4 - n <= best.score
    <3>1. id \in S
      BY DEF Rules!Tier
    <3>2. Rules!Applies(rules[id], b, good) /\ Rules!Score(rules[id], b, good) = 4 - n
      BY <2>1, <2>4, <3>1, ScoreIsTier
    <3>. QED  BY <2>2, <2>3, <3>1, <3>2 DEF BestOfFirst
  <2>5. CASE best.score = -1
    <3>1. \A n \in 1..4 : Rules!Tier(S, b, good, n) = {}
      BY <2>4, <2>5
    <3>. QED  BY <2>3, <2>5, <3>1 DEF BestOfFirst, Rules!MostSpecific, S
  <2>6. CASE best.score # -1
    <3>1. /\ best.id \in S /\ Rules!Applies(rules[best.id], b, good)
          /\ Rules!Score(rules[best.id], b, good) = best.score
      BY <2>2, <2>3, <2>6 DEF BestOfFirst
    <3>. DEFINE n == 4 - best.score
    <3>2. n \in 1..4 /\ best.score = 4 - n
      BY <2>1, <3>1, ScoreIsTier
    <3>3. best.id \in Rules!Tier(S, b, good, n)
      BY <2>1, <3>1, <3>2, ScoreIsTier
    <3>4. \A m \in 1..4 : Rules!Tier(S, b, good, m) # {} => n <= m
      BY <2>4, <3>2
    <3>. HIDE DEF n
    <3>5. (CHOOSE k \in 1..4 : /\ Rules!Tier(S, b, good, k) # {}
                               /\ \A m \in 1..k - 1 : Rules!Tier(S, b, good, m) = {}) = n
      <4>. DEFINE First(k) == /\ Rules!Tier(S, b, good, k) # {}
                              /\ \A m \in 1..k - 1 : Rules!Tier(S, b, good, m) = {}
      <4>1. First(n)
        <5>1. ASSUME NEW m \in 1..n - 1
              PROVE  Rules!Tier(S, b, good, m) = {}
          BY <3>2, <3>4
        <5>. QED  BY <3>3, <5>1
      <4>2. \A k \in 1..4 : First(k) => k = n
        BY <3>2, <3>3, <3>4
      <4>. QED  BY <3>2, <4>1, <4>2
    <3>6. Rules!MostSpecific(S, b, good) = Rules!Tier(S, b, good, n)
      BY <3>2, <3>3, <3>5 DEF Rules!MostSpecific
    <3>. QED  BY <2>3, <3>3, <3>6 DEF S
  <2>. QED  BY <2>5, <2>6
<1>. QED  BY <1>1, RulesInvariant, PTL

\* To the barbers, the other components only let time pass, so that what holds of
\* the barbers alone holds in the whole.
THEOREM BarbersAreUndisturbed == AdministrationSpec => Spec
<1>1. AdministrationInit => Init
  BY DEF AdministrationInit
<1>2. [AdministrationNext]_all => [Next]_vars
  BY DEF AdministrationNext, BarbersStep, RulesStep, BenefitsStep, TenancyStep, all, vars
<1>. QED  BY <1>1, <1>2, PTL DEF AdministrationSpec, Spec

\* Whatever the components do, every table, request and counter of the
\* administration keeps its type.
THEOREM AdministrationTypesOK == AdministrationSpec => []AllTypesOK
<1>1. AdministrationSpec => []TypeOK
  BY BarbersAreUndisturbed, TypeCorrect, PTL
<1>. QED  BY <1>1, PlanInvariant, TenancyInvariant, RulesInvariant, PTL
           DEF AllTypesOK, PlanInv, TenancyInv, RulesInv

=============================================================================
