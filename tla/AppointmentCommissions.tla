----------------------- MODULE AppointmentCommissions -----------------------
(***************************************************************************)
(* Completing an appointment generates its commission: Appointments        *)
(* composed with Commissions through the APPOINTMENT_COMPLETED event.      *)
(*                                                                         *)
(* `complete` emits with emitAsync and awaits it, so the listener runs     *)
(* inside the request, between the commit and the answer.  The listener    *)
(* reads the appointment again, and by then another request may have       *)
(* changed it.                                                             *)
(***************************************************************************)
EXTENDS Appointments

CONSTANTS
  Commission,
  Line,         \* the one item of an appointment
  NoBarber,
  NoSource,
  NoCommission

ASSUME FlowAssumption ==
  /\ NoBarber \notin Barber
  /\ NoSource \notin Appointment
  /\ NoCommission \notin Commission

VARIABLES
  covered, delivered, commissions, job, call, contested,  \* of Commissions
  lost    \* appointments whose event or listener run failed once (history)

\* What findAppointmentForCommission reads in the rows of this module.
Credit ==
  [a \in Appointment |-> IF slot[a] = NoSlot THEN NoBarber ELSE slot[a].barber]

C == INSTANCE Commissions WITH
       Sale <- {}, Item <- {Line}, ItemsOf <- [a \in Appointment |-> {Line}],
       Job <- Request, Call <- {}, credit <- Credit, rows <- commissions

flow == <<covered, delivered, commissions, job, call, contested, lost>>
all  == <<vars, flow>>

\* Some rule applies to every barber, so that a commission is always due.
FlowInit ==
  /\ Init
  /\ covered = [b \in Barber |-> {Line}]
  /\ delivered = {}
  /\ commissions = [c \in Commission |-> C!NoRow]
  /\ job = [r \in Request |-> C!IdleJob]
  /\ call = <<>>
  /\ contested = {}
  /\ lost = {}

Completing(r) == pc[r] = "publish" /\ op[r] = "complete"

\* emitAsync starts the listener of this process.
Emit(r) ==
  /\ Completing(r)
  /\ UNCHANGED vars
  /\ C!Deliver(r, target[r])
  /\ UNCHANGED lost

\* The listener's own steps.
Listen(r) ==
  /\ UNCHANGED vars
  /\ \/ C!CheckExists(r)
     \/ C!ReadSource(r)
     \/ C!MatchRules(r)
     \/ C!InsertRows(r)
  /\ UNCHANGED lost

\* Mutant of AnswerComplete: the emission is not awaited.
AnswerAtOnce(r) ==
  /\ Completing(r)
  /\ Publish(r)
  /\ UNCHANGED flow

\* The awaited emission returns and `complete` answers.
AnswerComplete(r) ==
  /\ Completing(r)
  /\ Publish(r)
  /\ C!Return(r)
  /\ UNCHANGED lost

ListenerFails(r) ==
  /\ UNCHANGED vars
  /\ C!FailJob(r)
  /\ lost' = lost \cup {job[r].source}

\* The request dies, and with it the listener it was waiting for.
Die(r) ==
  /\ Abort(r)
  /\ lost' = IF Completing(r) THEN lost \cup {target[r]} ELSE lost
  /\ job' = [job EXCEPT ![r] = C!IdleJob]
  /\ UNCHANGED <<covered, delivered, commissions, call, contested>>

\* Every other step of the appointment book.
Book(r) ==
  /\ \/ Receive(r) \/ AcquireLock(r)
     \/ Serve(r) /\ ~Completing(r)
  /\ UNCHANGED flow

FlowNext ==
  \/ \E r \in Request :
       Emit(r) \/ Listen(r) \/ AnswerComplete(r) \/ ListenerFails(r)
       \/ Die(r) \/ Book(r)
  \/ Tick /\ UNCHANGED flow

FlowSpec ==
  /\ FlowInit
  /\ [][FlowNext]_all
  /\ \A r \in Request :
       /\ WF_all(Emit(r) \/ Listen(r) \/ AnswerComplete(r))
       /\ WF_all(Serve(r) /\ ~Completing(r) /\ UNCHANGED flow)
       /\ SF_all(AcquireLock(r) /\ UNCHANGED flow)

-----------------------------------------------------------------------------

HasCommission(a) == C!RowsOf(a) # {}

\* A completed appointment gets its commission, unless the process died or
\* the listener failed between the two writes.
CompletedIsCommissionedUnlessLost ==
  \A a \in Appointment :
    status[a] = "COMPLETED" ~> HasCommission(a) \/ a \in lost

\* Until it has its commission, or is lost, a completed appointment is in the hands
\* of a request that completed it, though others may be at work on the row and may
\* complete it too.
CompletedIsAccountedFor ==
  \A a \in Appointment : status[a] = "COMPLETED" =>
    \/ HasCommission(a) \/ a \in lost
    \/ \E r \in Request : Completing(r) /\ target[r] = a

\* emitAsync is awaited: when complete answers, the commission is there.
AnswerFollowsCommission ==
  [][\A r \in Request : AnswerComplete(r) =>
       HasCommission(target[r]) \/ target[r] \in lost]_all

\* Commissions are for work done, by the barber who did it, on every
\* appointment that no two requests worked on at once.
CommissionMatchesWork ==
  \A a \in Appointment \ raced : \A c \in C!RowsOf(a) :
    status[a] = "COMPLETED" /\ commissions[c].barber = slot[a].barber

-----------------------------------------------------------------------------
\* A statement of the documentation that does not hold.

\* "Geração automática ao concluir atendimento": a completed appointment
\* gets its commission.
CompletedIsCommissioned ==
  \A a \in Appointment : status[a] = "COMPLETED" ~> HasCommission(a)
=============================================================================
