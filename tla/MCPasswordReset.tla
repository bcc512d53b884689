--------------------------- MODULE MCPasswordReset ---------------------------
(***************************************************************************)
(* Instances of PasswordReset for TLC.                                     *)
(***************************************************************************)
EXTENDS PasswordReset, TLC

Symmetry == Permutations(Token) \cup Permutations(Request)
=============================================================================
