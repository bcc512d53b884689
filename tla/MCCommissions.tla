---------------------------- MODULE MCCommissions ----------------------------
(***************************************************************************)
(* Instances of Commissions for TLC: an appointment and a sale of two      *)
(* lines, so that a source with a unique index and one without it meet.    *)
(***************************************************************************)
EXTENDS Commissions, TLC

CONSTANTS i1, i2

\* The appointment is one item, every sale has two.
MCItemsOf == [x \in Source |-> IF x \in Appointment THEN {i1} ELSE {i1, i2}]

Symmetry == Permutations(Commission) \cup Permutations(Job) \cup Permutations(Call)
=============================================================================
