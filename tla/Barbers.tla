------------------------------- MODULE Barbers -------------------------------
(***************************************************************************)
(* When a barbershop can be booked: BarbershopSettingsService keeps the    *)
(* opening hours, BarbersService the shifts of the barbers.  An update of  *)
(* a barber validates the request merged with the row it has read, and     *)
(* later writes the fields that were sent.                                 *)
(***************************************************************************)
EXTENDS Schedule, FiniteSets

CONSTANTS
  Barber,        \* ids a barber row can get
  User,          \* users of the tenant a barber can be linked to
  Hours,         \* opening hours a client can send
  Default,       \* DEFAULT_OPERATING_HOURS
  Change,        \* bodies of an update of a barber
  Request,       \* HTTP requests that can be in flight at once
  NoBarber, NoHours, NoUser, NoChange, Unsent, Erase

Row == [workStartTime : Time \cup {NoTime}, workEndTime : Time \cup {NoTime},
        workDays : SUBSET Weekday, userId : User \cup {NoUser}, isActive : BOOLEAN]

DayHours == [closed : BOOLEAN, open : Time \cup {NoTime}, close : Time \cup {NoTime}]

OpeningHours == [Weekday -> DayHours]

ASSUME BarbersAssumption ==
  /\ Hours \subseteq OpeningHours
  /\ Default \in OpeningHours
  /\ Change \subseteq
       [workStartTime : Time \cup {Unsent, Erase},
        workEndTime   : Time \cup {Unsent, Erase},
        workDays      : (SUBSET Weekday) \cup {Unsent},
        userId        : User \cup {Unsent, Erase}]
  /\ NoBarber \notin Barber \cup Row
  /\ Unsent # Erase

VARIABLES
  hours,    \* the settings row of the shop, NoHours before the first upsert
  barber,   \* the barbers table
  req,      \* the update each request has validated, and of whom
  raced     \* barbers that two updates have worked on at once (history)

vars == <<hours, barber, req, raced>>

Idle == [id |-> NoBarber, sent |-> NoChange]

Init ==
  /\ hours \in {NoHours, Default}
  /\ barber = [b \in Barber |-> NoBarber]
  /\ req = [r \in Request |-> Idle]
  /\ raced = {}

Exists(b) == barber[b] # NoBarber

\* getOperatingHours: the defaults stand in for a missing row.
OperatingHours == IF hours = NoHours THEN Default ELSE hours

-----------------------------------------------------------------------------

\* assertValidOperatingHours
ValidDay(day) ==
  day.closed \/ (day.open # NoTime /\ day.close # NoTime /\ day.open < day.close)

\* A day the client leaves out is stored as left out, and is closed.
UpdateHours(h) ==
  /\ \A w \in Weekday : ValidDay(h[w])
  /\ hours' = h
  /\ UNCHANGED <<barber, req, raced>>

\* assertWorkHours
ValidShift(from, to) ==
  /\ (from = NoTime) <=> (to = NoTime)
  /\ from # NoTime /\ to # NoTime => from < to

\* A field of the row after a write, of the merge that is validated before:
\* `??` takes a null that was sent for a field that was not.
Written(sent, old, none) == CASE sent = Unsent -> old [] sent = Erase -> none
                              [] OTHER -> sent
Merged(sent, old)        == IF sent \in {Unsent, Erase} THEN old ELSE sent

\* Mutant of ValidUpdate: only the fields of the request are compared.
ValidRequest(row, sent) ==
  {sent.workStartTime, sent.workEndTime} \cap {Unsent, Erase} = {} =>
    ValidShift(sent.workStartTime, sent.workEndTime)

ValidUpdate(row, sent) ==
  ValidShift(Merged(sent.workStartTime, row.workStartTime),
             Merged(sent.workEndTime, row.workEndTime))

Changed(row, sent) ==
  [workStartTime |-> Written(sent.workStartTime, row.workStartTime, NoTime),
   workEndTime   |-> Written(sent.workEndTime, row.workEndTime, NoTime),
   workDays      |-> Written(sent.workDays, row.workDays, {}),
   userId        |-> Written(sent.userId, row.userId, NoUser),
   isActive      |-> row.isActive]

Blank == [workStartTime |-> NoTime, workEndTime |-> NoTime, workDays |-> {},
          userId |-> NoUser, isActive |-> TRUE]

\* The unique index on user_id.
LinkFree(b, row) ==
  row.userId = NoUser \/ \A c \in Barber \ {b} : Exists(c) => barber[c].userId # row.userId

Create(b, sent) ==
  LET row == Changed(Blank, sent) IN
    /\ ~Exists(b)
    /\ ValidUpdate(Blank, sent)
    /\ LinkFree(b, row)
    /\ barber' = [barber EXCEPT ![b] = row]
    /\ UNCHANGED <<hours, req, raced>>

BeginUpdate(r, b, sent) ==
  /\ req[r] = Idle
  /\ Exists(b)
  /\ ValidUpdate(barber[b], sent)
  /\ req' = [req EXCEPT ![r] = [id |-> b, sent |-> sent]]
  /\ raced' = IF \E q \in Request : req[q].id = b THEN raced \cup {b} ELSE raced
  /\ UNCHANGED <<hours, barber>>

\* The row is written by id, and refused if another barber has the user.
WriteUpdate(r) ==
  LET b   == req[r].id
      row == Changed(barber[b], req[r].sent)
  IN  /\ req[r] # Idle
      /\ barber' = IF LinkFree(b, row) THEN [barber EXCEPT ![b] = row] ELSE barber
      /\ req' = [req EXCEPT ![r] = Idle]
      /\ UNCHANGED <<hours, raced>>

SetActive(b, active) ==
  /\ Exists(b)
  /\ barber' = [barber EXCEPT ![b].isActive = active]
  /\ UNCHANGED <<hours, req, raced>>

\* The process dies or the database refuses: nothing was written.
Abort(r) ==
  /\ req[r] # Idle
  /\ req' = [req EXCEPT ![r] = Idle]
  /\ UNCHANGED <<hours, barber, raced>>

Next ==
  \/ \E h \in Hours : UpdateHours(h)
  \/ \E b \in Barber :
       \/ \E sent \in Change :
            Create(b, sent) \/ \E r \in Request : BeginUpdate(r, b, sent)
       \/ \E active \in BOOLEAN : SetActive(b, active)
  \/ \E r \in Request : WriteUpdate(r) \/ Abort(r)

Spec == Init /\ [][Next]_vars

-----------------------------------------------------------------------------

TypeOK ==
  /\ hours \in Hours \cup {Default, NoHours}
  /\ barber \in [Barber -> Row \cup {NoBarber}]
  /\ req \in [Request -> [id : Barber, sent : Change] \cup {Idle}]
  /\ raced \subseteq Barber

\* Nobody's shift ends before it begins, which would make a barber impossible
\* to book, unless two updates of the barber overlapped.
ShiftsAreOrdered ==
  \A b \in Barber \ raced :
    Exists(b) /\ HasShift(barber[b]) => barber[b].workStartTime < barber[b].workEndTime

-----------------------------------------------------------------------------
\* What a booked slot means to the barber and the shop, instant by instant.

Between(z, t, from, to, whole) ==
  /\ from <= LocalMinute(z, t)
  /\ LocalMinute(z, t) < to \/ (~whole /\ LocalMinute(z, t) = to)

\* At t the shop is open and the barber at work.  A slot that does not end
\* on a whole minute may run into the closing minute.
Staffed(z, t, row, whole) ==
  LET day == OperatingHours[LocalWeekday(z, t)] IN
    /\ IsOpen(day)
    /\ Between(z, t, day.open, day.close, whole)
    /\ WorksOn(row, LocalWeekday(z, t))
    /\ HasShift(row) => Between(z, t, row.workStartTime, row.workEndTime, whole)

\* The clocks do not change during the slot.
Steady(z, start, end) == \A t \in start..end : Offset[z][t] = Offset[z][start]

\* Wherever the tenant is and whatever hours and shifts are stored, during
\* all of a slot that assertBookable lets through the shop is open and the
\* barber at work, but for slots in which the clocks change.
BookableIsStaffed ==
  \A b \in Barber, z \in Zone : Exists(b) =>
    \A start \in Instant : \A end \in start + 1..Horizon :
      /\ Bookable(start - 1, z, OperatingHours, barber[b], start, end)
      /\ Steady(z, start, end)
      => \A t \in start..end - 1 :
           Staffed(z, t, barber[b], LocalTick(z, end) % TicksPerMinute = 0)
=============================================================================
