--------------------------- MODULE MCAppointments ---------------------------
(***************************************************************************)
(* Instances of Appointments for TLC: one day of a few half-hours, one or  *)
(* two barbers, two services.                                              *)
(***************************************************************************)
EXTENDS Appointments, TLC

CONSTANTS short, long

\* Every barber has a lock of its own.
OwnLock == [b \in Barber |-> b]

\* The long service takes two units of time, the others one.
MCDuration == [v \in Service |-> IF v = long THEN 2 ELSE 1]

\* The shop closes at the last unit of the day plus one.
MCBookable ==
  {s \in [barber : Barber, start : Time, end : 0..MaxTime + 2] :
     s.end <= MaxTime + 1}

Symmetry == Permutations(Request) \cup Permutations(Appointment)
=============================================================================
