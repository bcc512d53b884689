----------------------------- MODULE MCAccounts -----------------------------
(***************************************************************************)
(* Accounts for TLC: interchangeable users, tokens and requests.  Users    *)
(* need each other and a token each; tokens need each other and one user.  *)
(* To have all at once would only multiply the states: each behaviour has  *)
(* room for either, as chosen in the initial state.                        *)
(***************************************************************************)
EXTENDS Accounts, FiniteSets, TLC

VARIABLE part   \* what this behaviour has room for

RoomForUsers  == IF part = "users" THEN 2 ELSE 1
RoomForTokens == IF part = "users" THEN 2 ELSE 3

MCInit == part \in {"users", "sessions"} /\ Init

MCNext ==
  /\ UNCHANGED part
  /\ Next
  /\ Cardinality({u \in User : Registered(u)'}) <= RoomForUsers
  /\ Cardinality({t \in Token : Stored(t)'}) <= RoomForTokens

MCSpec == MCInit /\ [][MCNext]_<<part, vars>>

Symmetry == Permutations(User) \cup Permutations(Token) \cup Permutations(Request)
=============================================================================
