---------------------- MODULE MCAppointmentCommissions ----------------------
(***************************************************************************)
(* Instances of AppointmentCommissions for TLC: half-hour slots only.      *)
(***************************************************************************)
EXTENDS AppointmentCommissions

OwnLock == [b \in Barber |-> b]

\* A collision of hashtext: the barbers share one lock.
OneLock == [b \in Barber |-> CHOOSE k \in Lock : TRUE]

MCDuration == [v \in Service |-> 1]

MCBookable ==
  {s \in [barber : Barber, start : Time, end : 0..MaxTime + 1] :
     s.end = s.start + 1}
=============================================================================
