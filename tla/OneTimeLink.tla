----------------------------- MODULE OneTimeLink -----------------------------
(***************************************************************************)
(* What a password reset link promises, whatever requests, row locks and   *)
(* crashes are behind it: a link is issued once, changes the password at   *)
(* most once, as long as nothing has revoked it, and never comes back.     *)
(* Issuing a link or using one may revoke others.                          *)
(***************************************************************************)
EXTENDS Integers

CONSTANT Token

VARIABLES
  link,     \* UNKNOWN until it is issued, PENDING, then USED or DELETED
  changes   \* password changes made with each link

Init ==
  /\ link = [t \in Token |-> "UNKNOWN"]
  /\ changes = [t \in Token |-> 0]

\* The links after those of X are revoked, but for t that becomes new.
After(X, t, new) ==
  [s \in Token |-> CASE s = t -> new [] s \in X /\ s # t -> "DELETED"
                     [] OTHER -> link[s]]

Issue(t, X) ==
  /\ link[t] = "UNKNOWN"
  /\ link' = After(X, t, "PENDING")
  /\ UNCHANGED changes

Use(t, X) ==
  /\ link[t] = "PENDING"
  /\ link' = After(X, t, "USED")
  /\ changes' = [changes EXCEPT ![t] = @ + 1]

Revoke(X) ==
  /\ link' = [s \in Token |-> IF s \in X THEN "DELETED" ELSE link[s]]
  /\ UNCHANGED changes

Issued == {t \in Token : link[t] # "UNKNOWN"}

Next ==
  \E X \in SUBSET Issued :
    Revoke(X) \/ \E t \in Token : Issue(t, X) \/ Use(t, X)

Spec == Init /\ [][Next]_<<link, changes>>
=============================================================================
