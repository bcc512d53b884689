------------------------- MODULE PasswordResetProofs -------------------------
(***************************************************************************)
(* For any accounts, links and requests: row locks keep what OneTimeLink   *)
(* promises, links that no e-mail carried and older links of an account    *)
(* are not left valid, and a password change takes the links with it.      *)
(***************************************************************************)
EXTENDS PasswordReset, TLAPS

State(t) == token[t].state

\* Steps of a request with a link that is yet to be inserted.
Drawing == {"clean", "purge", "cooldown", "scanOld", "removeOld"}

\* Steps of a request that holds no row.
Empty == {"idle", "clean", "cooldown", "scanOld", "send", "discard", "claim"}

\* Steps after a claim, in a DELETE of pending links, and in any DELETE.
Changing == {"setPassword", "scanOther", "removeOther"}
Picking  == {"removeOld", "removeOther"}
Deleting == {"purge", "removeOld", "removeOther"}

\* What a request at p knows of its own link, with the links tk, and where its
\* DELETE is.
ProgressOK(p, tk) ==
  /\ p.token # None =>
       (tk[p.token].state = "UNKNOWN" <=> p.at \in Drawing)
  /\ p.at \in {"clean", "purge"} => p.token # None \/ p.user = None
  /\ p.at \in {"cooldown", "scanOld", "removeOld", "send", "discard", "claim"} =>
       p.token # None
  /\ p.at = "setPassword" => p.user \in User
  /\ p.at \notin Deleting => p.doomed = {} /\ p.row = None
  /\ p.row = None => p.left = {}
  /\ p.token \notin p.doomed \cup p.left
  /\ p.row # None => p.row # p.token

\* No two requests draw the same link.
RequestOK ==
  \A r \in Request :
    /\ ProgressOK(req[r], token)
    /\ req[r].at \in Drawing /\ req[r].token # None =>
         \A q \in Request \ {r} : req[q].token # req[r].token

\* What a request holds is what it decided upon, and nobody else changes it.
LockOK ==
  \A r \in Request :
    /\ req[r].at \in Empty => \A x \in Row : lock[x] # r
    /\ req[r].at \in Changing /\ req[r].token # None =>
         lock[req[r].token] = r /\ State(req[r].token) = "PENDING"
    /\ req[r].at \in Deleting =>
         \A t \in req[r].doomed : lock[t] = r /\ State(t) # "UNKNOWN"
    /\ req[r].at \in Picking =>
         \A t \in req[r].doomed : State(t) = "PENDING"

\* A link that has not been used changed no password, one that has changed it
\* once.
ChangesOK ==
  \A t \in Token :
    /\ State(t) \in {"UNKNOWN", "PENDING"} => changes[t] = 0
    /\ State(t) = "USED" => changes[t] = 1
    /\ changes[t] <= 1

MailedOK == \A t \in mailed : State(t) # "UNKNOWN"

\* The links that the DELETE of a request has come to and wants, or may yet
\* come to.
Seen(p) == p.doomed \cup p.left \cup {p.row}

\* A request that deletes the pending links has missed none that was pending
\* before.
PickingOK ==
  \A r \in Request, t \in Token :
    /\ req[r].at \in Picking
    /\ State(t) = "PENDING" /\ token[t].user = req[r].user
    => t \in Seen(req[r]) \cup missed \cup {req[r].token}

\* The inductive invariant.
IInv ==
  /\ TypeOK /\ RequestOK /\ LockOK /\ ChangesOK /\ MailedOK /\ PickingOK
  /\ UndeliveredIsInvalid /\ OnePendingLink

\* A request that gives up or answers.
LEMMA IdleFacts ==
  /\ Idle \in Progress
  /\ Idle.at = "idle" /\ Idle.user = None /\ Idle.token = None /\ Idle.since = 0
  /\ Idle.doomed = {} /\ Idle.left = {} /\ Idle.row = None
  /\ \A tk : ProgressOK(Idle, tk)
BY DEF Idle, Progress, ProgressOK, Drawing, Deleting

LEMMA NoRowFacts ==
  ASSUME NEW state \in {"UNKNOWN", "PENDING", "USED", "DELETED"}
  PROVE  NoRow(state) \in TokenRow /\ NoRow(state).state = state
BY DEF NoRow, TokenRow

LEMMA InitOK == Init => IInv
<1> SUFFICES ASSUME Init PROVE IInv
  OBVIOUS
<1>1. /\ \A t \in Token : token[t].state = "UNKNOWN"
      /\ \A r \in Request : req[r] = Idle
      /\ \A x \in Row : lock[x] = Free
      /\ mailed = {} /\ \A t \in Token : changes[t] = 0
  BY NoRowFacts DEF Init
<1>2. TypeOK
  BY IdleFacts, NoRowFacts DEF Init, TypeOK
<1>3. RequestOK /\ LockOK /\ PickingOK
  BY <1>1, IdleFacts, ConstantsAssumption
     DEF RequestOK, LockOK, PickingOK, Drawing, Changing, Picking, Deleting
<1>4. ChangesOK /\ MailedOK /\ UndeliveredIsInvalid /\ OnePendingLink
  BY <1>1 DEF ChangesOK, MailedOK, UndeliveredIsInvalid, OnePendingLink, State
<1> QED
  BY <1>2, <1>3, <1>4 DEF IInv

\* What is deleted, and what stays as it is.
LEMMA DeletedRows ==
  ASSUME TypeOK, NEW X
  PROVE  /\ Deleted(X) \in [Token -> TokenRow]
         /\ \A t \in Token :
              /\ Deleted(X)[t].state = IF t \in X THEN "DELETED" ELSE token[t].state
              /\ t \notin X => Deleted(X)[t] = token[t]
BY NoRowFacts DEF TypeOK, Deleted

-----------------------------------------------------------------------------
\* A step of r, and what it leaves to the others.

\* No request takes a link for inserted that is not, or the reverse.
LEMMA RequestsKeep ==
  ASSUME TypeOK, RequestOK, NEW r \in Request, NEW new \in Progress,
         req' = [req EXCEPT ![r] = new],
         \A q \in Request \ {r} : req[q].token # None =>
           (token'[req[q].token].state = "UNKNOWN" <=> State(req[q].token) = "UNKNOWN"),
         ProgressOK(new, token'),
         new.at \in Drawing /\ new.token # None =>
           \A q \in Request \ {r} : req[q].token # new.token
  PROVE  RequestOK'
<1> SUFFICES ASSUME NEW q \in Request
             PROVE  /\ ProgressOK(req'[q], token')
                    /\ req'[q].at \in Drawing /\ req'[q].token # None =>
                         \A p \in Request \ {q} : req'[p].token # req'[q].token
  BY DEF RequestOK
<1>1. \A p \in Request : req'[p] = IF p = r THEN new ELSE req[p]
  BY DEF TypeOK
<1>2. CASE q = r
  BY <1>1, <1>2
<1>3. CASE q # r
  <2>1. ProgressOK(req[q], token)
    BY DEF RequestOK
  <2>2. ProgressOK(req[q], token')
    BY <1>3, <2>1 DEF ProgressOK, State
  <2>3. ASSUME req[q].at \in Drawing, req[q].token # None PROVE new.token # req[q].token
    <3>1. token'[req[q].token].state = "UNKNOWN"
      BY <1>3, <2>2, <2>3 DEF ProgressOK
    <3> QED
      BY <1>3, <2>3, <3>1 DEF ProgressOK
  <2> QED
    BY <1>1, <1>3, <2>2, <2>3 DEF RequestOK
<1> QED
  BY <1>2, <1>3

\* A request that is left with no row takes none of those that others hold.
LEMMA LocksKeep ==
  ASSUME TypeOK, LockOK, NEW r \in Request, NEW new \in Progress,
         req' = [req EXCEPT ![r] = new], new.at \in Empty,
         \A x \in Row : lock'[x] # r,
         \A q \in Request \ {r}, x \in Row : lock'[x] = q <=> lock[x] = q,
         \A q \in Request \ {r}, t \in Token :
           lock[t] = q /\ State(t) # "UNKNOWN" => token'[t].state = State(t)
  PROVE  LockOK'
<1>1. \A q \in Request : req'[q] = IF q = r THEN new ELSE req[q]
  BY DEF TypeOK
<1>2. new.at \notin Changing \cup Deleting \cup Picking
  BY DEF Empty, Changing, Deleting, Picking
<1>3. Token \subseteq Row
  BY DEF Row
<1>4. \A q \in Request : req[q].doomed \subseteq Token /\ req[q].token \in Token \cup {None}
  BY DEF TypeOK, Progress
<1> SUFFICES ASSUME NEW q \in Request, q # r
             PROVE  /\ req[q].at \in Empty => \A x \in Row : lock'[x] # q
                    /\ req[q].at \in Changing /\ req[q].token # None =>
                         lock'[req[q].token] = q /\ token'[req[q].token].state = "PENDING"
                    /\ req[q].at \in Deleting =>
                         \A t \in req[q].doomed :
                           lock'[t] = q /\ token'[t].state # "UNKNOWN"
                    /\ req[q].at \in Picking =>
                         \A t \in req[q].doomed : token'[t].state = "PENDING"
  BY <1>1, <1>2 DEF LockOK, State
<1>5. req[q].at \in Empty => \A x \in Row : lock'[x] # q
  BY DEF LockOK
<1>6. req[q].at \in Changing /\ req[q].token # None =>
        lock'[req[q].token] = q /\ token'[req[q].token].state = "PENDING"
  BY <1>3, <1>4 DEF LockOK
<1>7. req[q].at \in Deleting =>
        \A t \in req[q].doomed : lock'[t] = q /\ token'[t].state # "UNKNOWN"
  BY <1>3, <1>4 DEF LockOK
<1>8. req[q].at \in Picking => \A t \in req[q].doomed : token'[t].state = "PENDING"
  BY <1>3, <1>4 DEF LockOK, Picking, Deleting
<1> QED
  BY <1>5, <1>6, <1>7, <1>8

\* A step of r that neither changes a link nor a lock.
LEMMA MoveKeeps ==
  ASSUME IInv, NEW r \in Request, NEW new \in Progress,
         req' = [req EXCEPT ![r] = new],
         UNCHANGED <<token, enabled, lock, mailed, history>>, now' \in Nat,
         req[r].at \notin {"send", "discard"}, new.at \notin {"send", "discard"},
         new.doomed = {},
         ProgressOK(new, token),
         new.at \in Drawing /\ new.token # None =>
           \A q \in Request \ {r} : req[q].token # new.token,
         new.at \in Empty => \A x \in Row : lock[x] # r,
         new.at \in Changing /\ new.token # None =>
           lock[new.token] = r /\ State(new.token) = "PENDING",
         new.at \in Picking => \A t \in Token :
           State(t) = "PENDING" /\ token[t].user = new.user
           => t \in Seen(new) \cup missed \cup {new.token}
  PROVE  IInv'
<1> USE DEF IInv, history
<1>1. \A q \in Request : req'[q] = IF q = r THEN new ELSE req[q]
  BY DEF TypeOK
<1>2. TypeOK'
  BY DEF TypeOK
<1>3. RequestOK'
  BY RequestsKeep DEF State
<1>4. LockOK'
  BY <1>1 DEF LockOK, State
<1>5. ChangesOK' /\ MailedOK' /\ OnePendingLink'
  BY DEF ChangesOK, MailedOK, OnePendingLink, State
<1>6. PickingOK'
  BY <1>1 DEF PickingOK, State
<1>7. UndeliveredIsInvalid'
  BY <1>1 DEF UndeliveredIsInvalid
<1> QED
  BY <1>2, <1>3, <1>4, <1>5, <1>6, <1>7

LEMMA BeginForgotKeeps ==
  ASSUME IInv, NEW r \in Request, NEW u \in User \cup {None}, BeginForgot(r, u)
  PROVE  IInv'
<1>1. PICK t \in IF u = None THEN {None} ELSE Undrawn :
        req' = [req EXCEPT ![r] = [Idle EXCEPT !.at = "clean", !.user = u,
                                               !.token = t, !.since = now]]
  BY DEF BeginForgot
<1> DEFINE new == [Idle EXCEPT !.at = "clean", !.user = u, !.token = t, !.since = now]
<1>2. /\ req[r] = Idle /\ now \in Nat /\ now' = now
      /\ UNCHANGED <<token, enabled, lock, mailed, history>>
  BY DEF BeginForgot, IInv, TypeOK
<1>3. t \in Token \cup {None}
  BY DEF Undrawn
<1>4. /\ new \in Progress /\ new.at = "clean" /\ new.user = u /\ new.token = t
      /\ new.doomed = {} /\ new.left = {} /\ new.row = None
      /\ req' = [req EXCEPT ![r] = new]
  BY <1>1, <1>2, <1>3 DEF Idle, Progress
<1>5. /\ t # None => State(t) = "UNKNOWN" /\ \A q \in Request : req[q].token # t
      /\ u # None => t # None
  BY ConstantsAssumption DEF Undrawn, State
<1>6. \A x \in Row : lock[x] # r
  BY <1>2, IdleFacts DEF IInv, LockOK, Empty
<1> HIDE DEF new
<1>7. ProgressOK(new, token)
  BY <1>4, <1>5 DEF ProgressOK, Drawing, Deleting, State
<1> QED
  BY <1>1, <1>2, <1>4, <1>5, <1>6, <1>7, IdleFacts, MoveKeeps DEF Changing, Picking

LEMMA CheckCooldownKeeps ==
  ASSUME IInv, NEW r \in Request, CheckCooldown(r)
  PROVE  IInv'
<1> USE DEF IInv
<1>1. /\ req[r].at = "cooldown" /\ now \in Nat /\ now' = now
      /\ UNCHANGED <<token, enabled, lock, mailed, history>>
  BY DEF CheckCooldown, TypeOK
<1>2. /\ \A x \in Row : lock[x] # r
      /\ ProgressOK(req[r], token)
      /\ \A q \in Request \ {r} : req[q].token # req[r].token
  BY <1>1 DEF LockOK, Empty, RequestOK, ProgressOK, Drawing
<1>3. CASE Finish(r)
  BY <1>1, <1>2, <1>3, IdleFacts, MoveKeeps DEF Finish, Drawing, Changing, Picking
<1>4. CASE Goto(r, "scanOld")
  <2> DEFINE new == [req[r] EXCEPT !.at = "scanOld"]
  <2>1. /\ new \in Progress
        /\ new.at = "scanOld" /\ new.user = req[r].user /\ new.token = req[r].token
        /\ new.doomed = req[r].doomed /\ new.left = req[r].left /\ new.row = req[r].row
        /\ req' = [req EXCEPT ![r] = new]
    BY <1>4 DEF Goto, TypeOK, Progress
  <2> HIDE DEF new
  <2>2. ProgressOK(new, token) /\ new.doomed = {}
    BY <1>1, <1>2, <2>1 DEF ProgressOK, Drawing, Deleting
  <2> QED
    BY <1>1, <1>2, <2>1, <2>2, MoveKeeps DEF Changing, Picking
<1> QED
  BY <1>3, <1>4 DEF CheckCooldown

LEMMA BeginResetKeeps ==
  ASSUME IInv, NEW r \in Request, NEW t \in Token, BeginReset(r, t)
  PROVE  IInv'
<1> DEFINE new == [Idle EXCEPT !.at = "claim", !.user = token[t].user, !.token = t,
                               !.since = now]
<1> USE DEF IInv
<1>1. /\ req[r] = Idle /\ t \in mailed /\ now \in Nat /\ now' = now
      /\ req' = [req EXCEPT ![r] = new]
      /\ UNCHANGED <<token, enabled, lock, mailed, history>>
  BY DEF BeginReset, TypeOK
<1>2. State(t) # "UNKNOWN" /\ token[t].user \in User \cup {None}
  BY <1>1 DEF MailedOK, TypeOK, TokenRow
<1>3. \A x \in Row : lock[x] # r
  BY <1>1, IdleFacts DEF LockOK, Empty
<1>4. /\ new \in Progress /\ new.at = "claim" /\ new.token = t
      /\ new.doomed = {} /\ new.left = {} /\ new.row = None
  BY <1>1, <1>2 DEF Idle, Progress
<1> HIDE DEF new
<1>5. ProgressOK(new, token)
  BY <1>2, <1>4, ConstantsAssumption DEF ProgressOK, Drawing, Deleting, State
<1> QED
  BY <1>1, <1>3, <1>4, <1>5, IdleFacts, MoveKeeps DEF Drawing, Changing, Picking

LEMMA BeginChangeKeeps ==
  ASSUME IInv, NEW r \in Request, NEW u \in User, BeginChange(r, u)
  PROVE  IInv'
<1> DEFINE new == [Idle EXCEPT !.at = "setPassword", !.user = u]
<1> USE DEF IInv
<1>1. /\ req[r] = Idle /\ now \in Nat /\ now' = now
      /\ req' = [req EXCEPT ![r] = new]
      /\ UNCHANGED <<token, enabled, lock, mailed, history>>
  BY DEF BeginChange, TypeOK
<1>2. /\ new \in Progress /\ new.at = "setPassword" /\ new.user \in User
      /\ new.token = None /\ new.doomed = {} /\ new.left = {} /\ new.row = None
  BY DEF Idle, Progress
<1> HIDE DEF new
<1>3. ProgressOK(new, token)
  BY <1>2 DEF ProgressOK, Deleting
<1> QED
  BY <1>1, <1>2, <1>3, IdleFacts, MoveKeeps DEF Drawing, Picking, Empty

\* A DELETE has seen its rows and comes to one of them, or there are none.
LEMMA StartedDelete ==
  ASSUME TypeOK, NEW r \in Request, NEW step, NEW X \in SUBSET Token,
         step \in {"purge", "removeOld", "removeOther"}, StartDelete(r, step, X)
  PROVE  \E new \in Progress :
           /\ req' = [req EXCEPT ![r] = new]
           /\ new.at = step /\ new.user = req[r].user /\ new.token = req[r].token
           /\ new.doomed = req[r].doomed /\ X \subseteq Seen(new)
           /\ new.left \subseteq X /\ new.row \in X \cup {None}
           /\ new.row = None => new.left = {}
<1>1. PICK n \in NextOf(X) :
        req' = [req EXCEPT ![r].at = step, ![r].row = n, ![r].left = X \ {n}]
  BY DEF StartDelete
<1> DEFINE new == [req[r] EXCEPT !.at = step, !.row = n, !.left = X \ {n}]
<1>2. n \in X \/ (n = None /\ X = {})
  BY <1>1 DEF NextOf
<1>3. /\ req' = [req EXCEPT ![r] = new] /\ new \in Progress
      /\ new.at = step /\ new.user = req[r].user /\ new.token = req[r].token
      /\ new.doomed = req[r].doomed /\ new.left = X \ {n} /\ new.row = n
  BY <1>1, <1>2 DEF TypeOK, Progress
<1> HIDE DEF new
<1>4. /\ X \subseteq Seen(new) /\ new.left \subseteq X /\ new.row \in X \cup {None}
      /\ new.row = None => new.left = {}
  BY <1>2, <1>3, ConstantsAssumption DEF Seen
<1> QED
  BY <1>3, <1>4

LEMMA ScanExpiredKeeps ==
  ASSUME IInv, NEW r \in Request, ScanExpired(r)
  PROVE  IInv'
<1> DEFINE X == ExpiredBy(req[r].since)
<1> USE DEF IInv
<1>1. /\ req[r].at = "clean" /\ now \in Nat /\ now' = now
      /\ UNCHANGED <<token, enabled, lock, mailed, history>>
      /\ StartDelete(r, "purge", X)
  BY DEF ScanExpired, TypeOK
<1>2. X \in SUBSET Token /\ \A t \in X : State(t) # "UNKNOWN"
  BY DEF ExpiredBy, Exists, State
<1>3. /\ \A x \in Row : lock[x] # r
      /\ ProgressOK(req[r], token)
      /\ req[r].token # None => State(req[r].token) = "UNKNOWN"
      /\ req[r].token # None => \A q \in Request \ {r} : req[q].token # req[r].token
      /\ req[r].doomed = {}
  BY <1>1 DEF LockOK, Empty, RequestOK, ProgressOK, Drawing, Deleting, State
<1> HIDE DEF X
<1>4. PICK new \in Progress :
        /\ req' = [req EXCEPT ![r] = new]
        /\ new.at = "purge" /\ new.user = req[r].user /\ new.token = req[r].token
        /\ new.doomed = req[r].doomed /\ X \subseteq Seen(new)
        /\ new.left \subseteq X /\ new.row \in X \cup {None}
        /\ new.row = None => new.left = {}
  BY <1>1, <1>2, StartedDelete
<1>5. ProgressOK(new, token)
  BY <1>1, <1>2, <1>3, <1>4, ConstantsAssumption DEF ProgressOK, Drawing, Deleting, State
<1> QED
  BY <1>1, <1>3, <1>4, <1>5, MoveKeeps DEF Empty, Changing, Picking

LEMMA ScanPendingKeeps ==
  ASSUME IInv, NEW r \in Request, ScanPending(r)
  PROVE  IInv'
<1> DEFINE X == PendingOf(req[r].user) \ {req[r].token}
           step == IF req[r].at = "scanOld" THEN "removeOld" ELSE "removeOther"
<1> USE DEF IInv
<1>1. /\ req[r].at \in {"scanOld", "scanOther"} /\ now \in Nat /\ now' = now
      /\ UNCHANGED <<token, enabled, lock, mailed, history>>
      /\ StartDelete(r, step, X)
  BY DEF ScanPending, TypeOK
<1>2. /\ X \in SUBSET Token /\ req[r].token \notin X
      /\ \A t \in Token : State(t) = "PENDING" /\ token[t].user = req[r].user
                          => t \in X \cup {req[r].token}
  BY DEF PendingOf, State
<1>3. ProgressOK(req[r], token) /\ req[r].doomed = {}
  BY <1>1 DEF RequestOK, ProgressOK, Deleting
<1>4. step \in {"removeOld", "removeOther"}
  OBVIOUS
<1> HIDE DEF X, step
<1>5. PICK new \in Progress :
        /\ req' = [req EXCEPT ![r] = new]
        /\ new.at = step /\ new.user = req[r].user /\ new.token = req[r].token
        /\ new.doomed = req[r].doomed /\ X \subseteq Seen(new)
        /\ new.left \subseteq X /\ new.row \in X \cup {None}
        /\ new.row = None => new.left = {}
  BY <1>1, <1>2, <1>4, StartedDelete
<1>6. \A t \in Token : State(t) = "PENDING" /\ token[t].user = new.user
                       => t \in Seen(new) \cup missed \cup {new.token}
  BY <1>2, <1>5
<1>7. CASE req[r].at = "scanOld"
  <2>1. /\ step = "removeOld"
        /\ req[r].token # None => \A q \in Request \ {r} : req[q].token # req[r].token
    BY <1>7 DEF RequestOK, Drawing, step
  <2>2. ProgressOK(new, token)
    BY <1>2, <1>3, <1>5, <1>7, <2>1 DEF ProgressOK, Drawing, Deleting
  <2> QED
    BY <1>1, <1>3, <1>5, <1>6, <1>7, <2>1, <2>2, MoveKeeps DEF Empty, Changing
<1>8. CASE req[r].at = "scanOther"
  <2>1. /\ step = "removeOther"
        /\ req[r].token # None =>
             lock[req[r].token] = r /\ State(req[r].token) = "PENDING"
    BY <1>8 DEF LockOK, Changing, step
  <2>2. ProgressOK(new, token)
    BY <1>2, <1>3, <1>5, <1>8, <2>1 DEF ProgressOK, Drawing, Deleting
  <2> QED
    BY <1>1, <1>3, <1>5, <1>6, <1>8, <2>1, <2>2, MoveKeeps DEF Drawing, Empty
<1> QED
  BY <1>1, <1>7, <1>8

-----------------------------------------------------------------------------
\* Links are deleted and nothing else is written.

\* A request that releases what it holds, and holds nothing.
LEMMA ReleasedRows ==
  ASSUME TypeOK, NEW r \in Request, Release(r)
  PROVE  /\ lock' \in [Row -> Request \cup {Free}]
         /\ \A x \in Row : lock'[x] # r
         /\ \A q \in Request \ {r}, x \in Row : lock'[x] = q <=> lock[x] = q
BY ConstantsAssumption DEF TypeOK, Release

\* A request deletes links that it has locked or nobody holds, holds none any
\* more and leaves no link of its own behind that is still to be e-mailed.
LEMMA RevokeKeeps ==
  ASSUME IInv, NEW r \in Request, NEW X \in SUBSET Token, NEW new \in Progress,
         \A t \in X : ~HeldByOthers(r, t) /\ State(t) # "UNKNOWN",
         token' = Deleted(X), req' = [req EXCEPT ![r] = new], Release(r),
         req[r].at \notin {"send"}, req[r].at = "discard" => req[r].token \in X,
         \/ new = Idle
         \/ /\ req[r].at \in Drawing /\ new.at = "cooldown" /\ new.token = req[r].token
            /\ ProgressOK(new, token),
         UNCHANGED <<enabled, now, mailed, history>>
  PROVE  IInv'
<1> USE DEF IInv, history
<1>1. /\ token' \in [Token -> TokenRow]
      /\ \A t \in Token : /\ token'[t].state = IF t \in X THEN "DELETED" ELSE token[t].state
                          /\ t \notin X => token'[t] = token[t]
  BY DeletedRows
<1>2. new.at \in {"idle", "cooldown"}
  BY IdleFacts
<1>3. \A q \in Request : req'[q] = IF q = r THEN new ELSE req[q]
  BY DEF TypeOK
<1>4. TypeOK'
  BY <1>1, ReleasedRows DEF TypeOK
<1>5. \A t \in Token : token'[t].state = "UNKNOWN" <=> State(t) = "UNKNOWN"
  BY <1>1 DEF State
<1>6. RequestOK'
  <2>1. ProgressOK(new, token')
    <3>1. CASE new = Idle
      BY <3>1, IdleFacts
    <3>2. CASE new # Idle
      <4>1. new.token \in Token \cup {None}
        BY DEF Progress
      <4> QED
        BY <1>5, <3>2, <4>1 DEF ProgressOK, State
    <3> QED
      BY <3>1, <3>2
  <2>2. new.at \in Drawing /\ new.token # None =>
          \A q \in Request \ {r} : req[q].token # new.token
    BY IdleFacts DEF RequestOK, Drawing
  <2>3. \A q \in Request : req[q].token \in Token \cup {None}
    BY DEF TypeOK, Progress
  <2> QED
    BY <1>5, <2>1, <2>2, <2>3, RequestsKeep
<1>7. LockOK'
  <2>1. \A q \in Request \ {r}, t \in Token :
          lock[t] = q /\ State(t) # "UNKNOWN" => token'[t].state = State(t)
    BY <1>1, ConstantsAssumption DEF HeldByOthers, State
  <2> QED
    BY <1>2, <2>1, ReleasedRows, LocksKeep DEF Empty
<1>8. ChangesOK' /\ MailedOK' /\ OnePendingLink'
  BY <1>1 DEF TypeOK, ChangesOK, MailedOK, OnePendingLink, State
<1>9. PickingOK'
  BY <1>1, <1>2, <1>3 DEF PickingOK, State, Picking
<1>10. UndeliveredIsInvalid'
  BY <1>1, <1>3 DEF UndeliveredIsInvalid, Drawing
<1> QED
  BY <1>4, <1>6, <1>7, <1>8, <1>9, <1>10

\* What a DELETE that has come to its last row holds.
LEMMA DeletedAreLocked ==
  ASSUME IInv, NEW r \in Request, req[r].at \in Deleting, req[r].row = None
  PROVE  /\ req[r].doomed \in SUBSET Token /\ req[r].left = {}
         /\ \A t \in req[r].doomed : lock[t] = r /\ State(t) # "UNKNOWN"
BY DEF IInv, TypeOK, Progress, RequestOK, ProgressOK, LockOK

LEMMA DeleteExpiredKeeps ==
  ASSUME IInv, NEW r \in Request, DeleteExpired(r)
  PROVE  IInv'
<1> DEFINE X == req[r].doomed
<1>1. /\ req[r].at = "purge" /\ token' = Deleted(X) /\ Release(r)
      /\ UNCHANGED <<enabled, now, mailed, history>>
      /\ \/ /\ req[r].user \in enabled
            /\ req' = [req EXCEPT ![r].at = "cooldown", ![r].doomed = {}]
         \/ req' = [req EXCEPT ![r] = Idle]
  BY DEF DeleteExpired, Finish
<1>2. X \in SUBSET Token /\ \A t \in X : ~HeldByOthers(r, t) /\ State(t) # "UNKNOWN"
  BY <1>1, DeletedAreLocked DEF DeleteExpired, Deleting, HeldByOthers
<1>3. CASE req' = [req EXCEPT ![r] = Idle]
  BY <1>1, <1>2, <1>3, IdleFacts, RevokeKeeps
<1>4. CASE /\ req[r].user \in enabled
           /\ req' = [req EXCEPT ![r].at = "cooldown", ![r].doomed = {}]
  <2> DEFINE new == [req[r] EXCEPT !.at = "cooldown", !.doomed = {}]
  <2>1. /\ new \in Progress /\ req' = [req EXCEPT ![r] = new]
        /\ new.at = "cooldown" /\ new.user = req[r].user /\ new.token = req[r].token
        /\ new.doomed = {} /\ new.left = req[r].left /\ new.row = req[r].row
    BY <1>4 DEF IInv, TypeOK, Progress
  <2>2. req[r].user # None /\ req[r].row = None /\ ProgressOK(req[r], token)
    BY <1>4, ConstantsAssumption DEF IInv, TypeOK, RequestOK, DeleteExpired
  <2> HIDE DEF new
  <2>3. ProgressOK(new, token)
    BY <1>1, <2>1, <2>2 DEF ProgressOK, Drawing, Deleting
  <2> HIDE DEF X
  <2> QED
    BY <1>1, <1>2, <2>1, <2>3, RevokeKeeps DEF Drawing
<1> QED
  BY <1>1, <1>3, <1>4

LEMMA DiscardTokenKeeps ==
  ASSUME IInv, NEW r \in Request, DiscardToken(r)
  PROVE  IInv'
<1> DEFINE X == {req[r].token}
<1>1. /\ req[r].at = "discard" /\ token' = Deleted(X)
      /\ ~HeldByOthers(r, req[r].token)
      /\ UNCHANGED <<enabled, now, lock, mailed, history>>
      /\ req' = [req EXCEPT ![r] = Idle]
  BY DEF DiscardToken, Finish
<1>2. req[r].token \in Token /\ State(req[r].token) # "UNKNOWN"
  BY <1>1 DEF IInv, RequestOK, ProgressOK, TypeOK, Progress, Drawing, State
<1>3. X \in SUBSET Token /\ req[r].token \in X
      /\ \A t \in X : State(t) # "UNKNOWN" /\ ~HeldByOthers(r, t)
  BY <1>1, <1>2
<1>4. Release(r)
  BY <1>1 DEF IInv, TypeOK, LockOK, Empty, Release
<1> HIDE DEF X
<1> QED
  BY <1>1, <1>3, <1>4, IdleFacts, RevokeKeeps

-----------------------------------------------------------------------------
\* Transactions.

\* The new link replaces the old ones; only links that were inserted after
\* those were chosen can be left, and these are in `missed`.
LEMMA InsertTokenKeeps ==
  ASSUME IInv, NEW r \in Request, InsertToken(r)
  PROVE  IInv'
<1> DEFINE t == req[r].token
           X == req[r].doomed
           new == [Idle EXCEPT !.at = "send", !.token = t]
           link == [state |-> "PENDING", user |-> req[r].user, created |-> now,
                    expires |-> req[r].since + Ttl]
<1> USE DEF IInv
<1>1. /\ req[r].at = "removeOld" /\ req[r].row = None /\ req' = [req EXCEPT ![r] = new]
      /\ token' = [Deleted(X) EXCEPT ![t] = link]
      /\ missed' = IF \E q \in Request \ {r} : PickedOld(q, req[r].user)
                   THEN missed \cup {t} ELSE missed
      /\ Release(r) /\ UNCHANGED <<enabled, now, mailed, changes, orphaned>>
  BY DEF InsertToken
<1>2. /\ t \in Token /\ State(t) = "UNKNOWN"
      /\ \A q \in Request \ {r} : req[q].token # t
      /\ X \in SUBSET Token /\ t \notin X /\ req[r].left = {}
      /\ \A s \in X : lock[s] = r /\ State(s) = "PENDING"
  BY <1>1, DeletedAreLocked
     DEF TypeOK, Progress, RequestOK, ProgressOK, LockOK, Drawing, Deleting, Picking, State
<1>3. link \in TokenRow /\ link.state = "PENDING" /\ link.user = req[r].user
  BY ConstantsAssumption DEF TypeOK, Progress, TokenRow
<1>4. /\ new \in Progress /\ new.at = "send" /\ new.token = t
      /\ new.doomed = {} /\ new.left = {} /\ new.row = None
  BY <1>2 DEF Idle, Progress
<1> HIDE DEF new, link
<1>5. /\ token' \in [Token -> TokenRow]
      /\ token'[t].state = "PENDING" /\ token'[t].user = req[r].user
      /\ \A s \in Token \ {t} :
           /\ token'[s].state = IF s \in X THEN "DELETED" ELSE token[s].state
           /\ s \notin X => token'[s] = token[s]
  BY <1>1, <1>2, <1>3, DeletedRows
<1>6. \A q \in Request : req'[q] = IF q = r THEN new ELSE req[q]
  BY <1>1 DEF TypeOK
<1>7. TypeOK'
  BY <1>1, <1>2, <1>4, <1>5, ReleasedRows DEF TypeOK
<1>8. changes' = changes /\ mailed' = mailed /\ mailed \subseteq Token
  BY <1>1 DEF TypeOK
<1>9. RequestOK'
  <2>1. ProgressOK(new, token')
    BY <1>2, <1>4, <1>5, ConstantsAssumption DEF ProgressOK, Drawing, Deleting
  <2>2. \A q \in Request \ {r} : req[q].token # None =>
          (token'[req[q].token].state = "UNKNOWN" <=> State(req[q].token) = "UNKNOWN")
    BY <1>2, <1>5 DEF TypeOK, Progress, State
  <2> QED
    BY <1>1, <1>4, <2>1, <2>2, RequestsKeep DEF Drawing
<1>10. LockOK'
  <2>1. \A q \in Request \ {r}, s \in Token :
          lock[s] = q /\ State(s) # "UNKNOWN" => token'[s].state = State(s)
    BY <1>2, <1>5 DEF State
  <2> QED
    BY <1>1, <1>4, <2>1, ReleasedRows, LocksKeep DEF Empty
<1>11. ChangesOK'
  <2> SUFFICES ASSUME NEW s \in Token
               PROVE  /\ token'[s].state \in {"UNKNOWN", "PENDING"} => changes[s] = 0
                      /\ token'[s].state = "USED" => changes[s] = 1
                      /\ changes[s] <= 1
    BY <1>8 DEF ChangesOK, State
  <2>1. CASE s = t
    BY <1>2, <1>5, <2>1 DEF ChangesOK
  <2>2. CASE s # t
    BY <1>5, <2>2 DEF ChangesOK, State
  <2> QED
    BY <2>1, <2>2
<1>12. MailedOK'
  BY <1>2, <1>5, <1>8 DEF MailedOK, State
<1>13. \A s \in Token \ {t} : token'[s].state = "PENDING" /\ token'[s].user = req[r].user
                              => s \in missed
  BY <1>1, <1>2, <1>5, ConstantsAssumption DEF PickingOK, Picking, Seen, State
<1>14. OnePendingLink'
  BY <1>1, <1>2, <1>5, <1>13 DEF TypeOK, OnePendingLink, State
<1>15. PickingOK'
  <2> SUFFICES ASSUME NEW q \in Request, NEW s \in Token,
                      req'[q].at \in Picking, token'[s].state = "PENDING",
                      token'[s].user = req'[q].user
               PROVE  s \in Seen(req'[q]) \cup missed' \cup {req'[q].token}
    BY DEF PickingOK, State
  <2>1. q # r /\ req'[q] = req[q]
    BY <1>4, <1>6 DEF Picking
  <2>2. CASE s = t
    BY <1>1, <1>5, <2>1, <2>2 DEF Picking, PickedOld
  <2>3. CASE s # t
    BY <1>1, <1>5, <2>1, <2>3 DEF PickingOK, State
  <2> QED
    BY <2>2, <2>3
<1>16. UndeliveredIsInvalid'
  BY <1>1, <1>2, <1>4, <1>5, <1>6 DEF UndeliveredIsInvalid
<1> QED
  BY <1>7, <1>9, <1>10, <1>11, <1>12, <1>14, <1>15, <1>16

\* The claimed link is used up together with the change of the password.
LEMMA CommittedRows ==
  ASSUME IInv, NEW r \in Request, CommitPassword(r)
  PROVE  /\ req[r].at = "removeOther" /\ Seen(req[r]) = req[r].doomed \cup {None}
         /\ req[r].doomed \in SUBSET Token
         /\ req[r].token \in Token \cup {None} /\ req[r].token \notin req[r].doomed
         /\ \A t \in req[r].doomed : lock[t] = r /\ State(t) = "PENDING"
         /\ req[r].token # None =>
              lock[req[r].token] = r /\ State(req[r].token) = "PENDING"
         /\ token' \in [Token -> TokenRow] /\ changes' \in [Token -> Nat]
         /\ \A t \in Token :
              /\ t \notin req[r].doomed => token'[t].user = token[t].user
              /\ token'[t].state = CASE t = req[r].token -> "USED"
                                     [] t \in req[r].doomed -> "DELETED"
                                     [] OTHER -> token[t].state
              /\ changes'[t] = IF t = req[r].token THEN changes[t] + 1 ELSE changes[t]
<1> DEFINE mine == {req[r].token} \ {None}
<1> USE DEF IInv
<1>1. /\ req[r].at = "removeOther" /\ req[r].row = None
      /\ token' = [t \in Token |-> IF t \in mine THEN [token[t] EXCEPT !.state = "USED"]
                                   ELSE Deleted(req[r].doomed)[t]]
      /\ changes' = [t \in Token |-> changes[t] + (IF t \in mine THEN 1 ELSE 0)]
  BY DEF CommitPassword
<1>2. /\ Seen(req[r]) = req[r].doomed \cup {None} /\ req[r].doomed \in SUBSET Token
      /\ req[r].token \in Token \cup {None} /\ req[r].token \notin req[r].doomed
      /\ \A t \in req[r].doomed : lock[t] = r /\ State(t) = "PENDING"
      /\ req[r].token # None => lock[req[r].token] = r /\ State(req[r].token) = "PENDING"
  BY <1>1, DeletedAreLocked
     DEF TypeOK, Progress, RequestOK, ProgressOK, LockOK, Changing, Deleting, Picking, Seen
<1>3. \A t \in Token : t \in mine <=> t = req[r].token
  BY ConstantsAssumption
<1> HIDE DEF mine
<1>4. ASSUME NEW t \in Token
      PROVE  /\ [token[t] EXCEPT !.state = "USED"] \in TokenRow
             /\ [token[t] EXCEPT !.state = "USED"].state = "USED"
             /\ [token[t] EXCEPT !.state = "USED"].user = token[t].user
  <2>1. token[t] \in TokenRow
    BY DEF TypeOK
  <2> QED
    BY <2>1 DEF TokenRow
<1>5. token' \in [Token -> TokenRow]
  BY <1>1, <1>4, DeletedRows
<1>6. changes' \in [Token -> Nat]
  BY <1>1 DEF TypeOK
<1>7. ASSUME NEW t \in Token
      PROVE  /\ t \notin req[r].doomed => token'[t].user = token[t].user
             /\ token'[t].state = CASE t = req[r].token -> "USED"
                                    [] t \in req[r].doomed -> "DELETED"
                                    [] OTHER -> token[t].state
             /\ changes'[t] = IF t = req[r].token THEN changes[t] + 1 ELSE changes[t]
  <2>1. changes[t] \in Nat
    BY DEF TypeOK
  <2>2. changes'[t] = IF t = req[r].token THEN changes[t] + 1 ELSE changes[t]
    BY <1>1, <1>3, <2>1
  <2> QED
    BY <1>1, <1>2, <1>3, <1>4, <2>2, DeletedRows
<1> QED
  BY <1>1, <1>2, <1>5, <1>6, <1>7

LEMMA CommitPasswordKeeps ==
  ASSUME IInv, NEW r \in Request, CommitPassword(r)
  PROVE  IInv'
<1> USE DEF IInv
<1>1. /\ Release(r) /\ req' = [req EXCEPT ![r] = Idle]
      /\ UNCHANGED <<enabled, now, mailed, missed, orphaned>>
  BY DEF CommitPassword, Finish
<1>2. \A q \in Request : req'[q] = IF q = r THEN Idle ELSE req[q]
  BY <1>1 DEF TypeOK
<1>3. TypeOK'
  BY <1>1, ReleasedRows, CommittedRows, IdleFacts DEF TypeOK
<1>4. \A t \in Token :
        /\ token'[t].state = "UNKNOWN" <=> State(t) = "UNKNOWN"
        /\ token'[t].state = "PENDING" =>
             /\ State(t) = "PENDING" /\ t # req[r].token /\ t \notin req[r].doomed
             /\ token'[t].user = token[t].user
  BY CommittedRows, ConstantsAssumption DEF State
<1>5. RequestOK'
  <2>1. \A q \in Request : req[q].token \in Token \cup {None}
    BY DEF TypeOK, Progress
  <2> QED
    BY <1>1, <1>4, <2>1, IdleFacts, RequestsKeep DEF Drawing
<1>6. LockOK'
  <2>1. \A q \in Request \ {r}, s \in Token :
          lock[s] = q /\ State(s) # "UNKNOWN" => token'[s].state = State(s)
    BY CommittedRows, ConstantsAssumption DEF State
  <2> QED
    BY <1>1, <2>1, ReleasedRows, IdleFacts, LocksKeep DEF Empty
<1>7. ChangesOK'
  <2> SUFFICES ASSUME NEW t \in Token
               PROVE  /\ token'[t].state \in {"UNKNOWN", "PENDING"} => changes'[t] = 0
                      /\ token'[t].state = "USED" => changes'[t] = 1
                      /\ changes'[t] <= 1
    BY DEF ChangesOK, State
  <2>1. CASE t = req[r].token
    <3>1. changes[t] = 0
      BY <2>1, CommittedRows, ConstantsAssumption DEF ChangesOK
    <3> QED
      BY <2>1, <3>1, CommittedRows
  <2>2. CASE t # req[r].token
    BY <2>2, CommittedRows DEF ChangesOK, State
  <2> QED
    BY <2>1, <2>2
<1>8. MailedOK' /\ OnePendingLink'
  BY <1>1, <1>4 DEF TypeOK, MailedOK, OnePendingLink, State
<1>9. PickingOK'
  BY <1>1, <1>2, <1>4, IdleFacts DEF PickingOK, State, Picking
<1>10. UndeliveredIsInvalid'
  BY <1>1, <1>2, <1>4, CommittedRows DEF UndeliveredIsInvalid, State
<1> QED
  BY <1>3, <1>5, <1>6, <1>7, <1>8, <1>9, <1>10

\* A step of r that takes rows nobody else holds, while links stay as they are.
LEMMA TakeKeeps ==
  ASSUME IInv, NEW r \in Request, NEW X, NEW new \in Progress,
         req' = [req EXCEPT ![r] = new],
         LockRows(r, X), \A x \in X : ~HeldByOthers(r, x),
         UNCHANGED <<token, enabled, now, mailed, history>>,
         req[r].at \notin {"send", "discard"},
         new.at \in {"setPassword", "scanOther", "purge", "removeOld", "removeOther"},
         new.token = req[r].token, new.at \in Drawing => req[r].at \in Drawing,
         ProgressOK(new, token),
         new.at \in Changing /\ new.token # None =>
           /\ new.token \in X \/ lock[new.token] = r
           /\ State(new.token) = "PENDING",
         \A t \in new.doomed :
           /\ t \in X \/ lock[t] = r
           /\ State(t) # "UNKNOWN"
           /\ new.at \in Picking => State(t) = "PENDING",
         new.at \in Picking => \A t \in Token :
           State(t) = "PENDING" /\ token[t].user = new.user
           => t \in Seen(new) \cup missed \cup {new.token}
  PROVE  IInv'
<1> USE DEF IInv, history
<1>1. \A q \in Request : req'[q] = IF q = r THEN new ELSE req[q]
  BY DEF TypeOK
<1>2. /\ lock' \in [Row -> Request \cup {Free}]
      /\ \A x \in Row : lock'[x] = IF x \in X THEN r ELSE lock[x]
  BY DEF TypeOK, LockRows
<1>3. \A q \in Request \ {r}, x \in Row : lock'[x] = q <=> lock[x] = q
  BY <1>2, ConstantsAssumption DEF HeldByOthers
<1>4. TypeOK'
  BY <1>2 DEF TypeOK
<1>5. RequestOK'
  <2>1. new.at \in Drawing /\ new.token # None =>
          \A q \in Request \ {r} : req[q].token # new.token
    BY DEF RequestOK
  <2> QED
    BY <2>1, RequestsKeep DEF State
<1>6. LockOK'
  <2>1. \A q \in Request : /\ req[q].doomed \subseteq Token
                           /\ req[q].token \in Token \cup {None}
    BY DEF TypeOK, Progress
  <2>2. new.doomed \subseteq Token /\ new.token \in Token \cup {None} /\ Token \subseteq Row
    BY DEF Progress, Row
  <2> SUFFICES ASSUME NEW q \in Request
               PROVE  /\ req'[q].at \in Empty => \A x \in Row : lock'[x] # q
                      /\ req'[q].at \in Changing /\ req'[q].token # None =>
                           lock'[req'[q].token] = q /\ State(req'[q].token) = "PENDING"
                      /\ req'[q].at \in Deleting =>
                           \A t \in req'[q].doomed : lock'[t] = q /\ State(t) # "UNKNOWN"
                      /\ req'[q].at \in Picking =>
                           \A t \in req'[q].doomed : State(t) = "PENDING"
    BY DEF LockOK, State
  <2>3. CASE q = r
    BY <1>1, <1>2, <2>2, <2>3 DEF Empty
  <2>4. CASE q # r
    BY <1>1, <1>3, <2>1, <2>2, <2>4 DEF LockOK
  <2> QED
    BY <2>3, <2>4
<1>7. ChangesOK' /\ MailedOK' /\ OnePendingLink'
  BY DEF ChangesOK, MailedOK, OnePendingLink, State
<1>8. PickingOK'
  BY <1>1 DEF PickingOK, State
<1>9. UndeliveredIsInvalid'
  BY <1>1 DEF UndeliveredIsInvalid
<1> QED
  BY <1>4, <1>5, <1>6, <1>7, <1>8, <1>9

LEMMA ClaimKeeps ==
  ASSUME IInv, NEW r \in Request, Claim(r)
  PROVE  IInv'
<1> DEFINE new == [Idle EXCEPT !.at = "setPassword", !.user = req[r].user,
                               !.token = req[r].token]
           X == {req[r].token}
<1> USE DEF IInv
<1>1. /\ req[r].at = "claim" /\ ~HeldByOthers(r, req[r].token)
      /\ UNCHANGED <<token, enabled, now, mailed, history>>
      /\ req[r].token \in Token
      /\ \A x \in Row : lock[x] # r
      /\ now \in Nat
  BY DEF Claim, TypeOK, Progress, RequestOK, ProgressOK, LockOK, Empty
<1>2. CASE Claimable(r)
  <2>1. /\ LockRows(r, X) /\ req' = [req EXCEPT ![r] = new]
        /\ State(req[r].token) = "PENDING" /\ req[r].user \in User
    BY <1>2 DEF Claim, Claimable, TypeOK, State
  <2>2. /\ new \in Progress
        /\ new.at = "setPassword" /\ new.user = req[r].user /\ new.token = req[r].token
        /\ new.doomed = {} /\ new.left = {} /\ new.row = None
    BY <1>1, <2>1 DEF Idle, Progress
  <2>3. req[r].token \in X /\ \A x \in X : ~HeldByOthers(r, x)
    BY <1>1
  <2> HIDE DEF new, X
  <2>4. ProgressOK(new, token)
    BY <1>1, <2>1, <2>2 DEF ProgressOK, Drawing, Deleting, State
  <2> QED
    BY <1>1, <2>1, <2>2, <2>3, <2>4, TakeKeeps DEF Drawing, Picking
<1>3. CASE ~Claimable(r)
  <2>1. UNCHANGED lock /\ req' = [req EXCEPT ![r] = Idle]
    BY <1>3 DEF Claim, Finish
  <2> QED
    BY <1>1, <2>1, IdleFacts, MoveKeeps DEF Drawing, Changing, Picking
<1> QED
  BY <1>2, <1>3

LEMMA SetPasswordKeeps ==
  ASSUME IInv, NEW r \in Request, SetPassword(r)
  PROVE  IInv'
<1> DEFINE new == [req[r] EXCEPT !.at = "scanOther"]
           X == {req[r].user}
<1> USE DEF IInv
<1>1. /\ req[r].at = "setPassword" /\ LockRows(r, X)
      /\ \A x \in X : ~HeldByOthers(r, x)
      /\ req' = [req EXCEPT ![r] = new]
      /\ UNCHANGED <<token, enabled, now, mailed, history>>
      /\ ProgressOK(req[r], token)
      /\ req[r].token # None => lock[req[r].token] = r /\ State(req[r].token) = "PENDING"
  BY DEF SetPassword, Goto, RequestOK, LockOK, Changing
<1>2. /\ new \in Progress
      /\ new.at = "scanOther" /\ new.user = req[r].user /\ new.token = req[r].token
      /\ new.doomed = req[r].doomed /\ new.left = req[r].left /\ new.row = req[r].row
  BY DEF TypeOK, Progress
<1> HIDE DEF new, X
<1>3. ProgressOK(new, token) /\ new.doomed = {}
  BY <1>1, <1>2 DEF ProgressOK, Drawing, Deleting
<1> QED
  BY <1>1, <1>2, <1>3, TakeKeeps DEF Drawing, Picking

\* The row a DELETE comes to is taken if it is still wanted; those it has not
\* come to are the rest.
LEMMA VisitRowKeeps ==
  ASSUME IInv, NEW r \in Request, VisitRow(r)
  PROVE  IInv'
<1> DEFINE row == req[r].row
           X == IF Wanted(r) THEN {row} ELSE {}
<1> USE DEF IInv
<1>1. /\ row # None /\ ~HeldByOthers(r, row) /\ LockRows(r, X)
      /\ UNCHANGED <<token, enabled, now, mailed, history>>
  BY DEF VisitRow
<1>2. PICK n \in NextOf(req[r].left) :
        req' = [req EXCEPT ![r].row = n, ![r].left = @ \ {n}, ![r].doomed = @ \cup X]
  BY DEF VisitRow
<1> DEFINE new == [req[r] EXCEPT !.row = n, !.left = @ \ {n}, !.doomed = @ \cup X]
<1>3. /\ req[r] \in Progress /\ row \in Token
      /\ req[r].doomed \subseteq Token /\ req[r].left \subseteq Token
  BY <1>1 DEF TypeOK, Progress
<1>4. /\ X \subseteq {row}
      /\ n \in req[r].left \/ (n = None /\ req[r].left = {})
  BY <1>2 DEF NextOf
<1>5. /\ req' = [req EXCEPT ![r] = new] /\ new \in Progress
      /\ new.at = req[r].at /\ new.user = req[r].user /\ new.token = req[r].token
      /\ new.doomed = req[r].doomed \cup X /\ new.left = req[r].left \ {n} /\ new.row = n
  BY <1>2, <1>3, <1>4 DEF TypeOK, Progress
<1>6. req[r].at \in Deleting /\ ProgressOK(req[r], token)
  BY <1>1 DEF RequestOK, ProgressOK
<1>7. \A t \in X : t = row /\ State(t) # "UNKNOWN"
                   /\ (req[r].at \in Picking => State(t) = "PENDING")
  BY DEF Wanted, Exists, Picking, State
<1>8. \A t \in {row} \ X : req[r].at \in Picking => State(t) # "PENDING"
  BY DEF Wanted, Picking, State
<1> HIDE DEF new, X, row
<1>9. ProgressOK(new, token)
  BY <1>1, <1>3, <1>4, <1>5, <1>6, ConstantsAssumption DEF ProgressOK, Deleting, row
<1>10. \A t \in new.doomed :
         /\ t \in X \/ lock[t] = r
         /\ State(t) # "UNKNOWN"
         /\ new.at \in Picking => State(t) = "PENDING"
  BY <1>5, <1>6, <1>7 DEF LockOK
<1>11. new.at \in Picking => \A t \in Token :
         State(t) = "PENDING" /\ token[t].user = new.user
         => t \in Seen(new) \cup missed \cup {new.token}
  <2> SUFFICES ASSUME new.at \in Picking, NEW t \in Token, State(t) = "PENDING",
                      token[t].user = new.user
               PROVE  t \in Seen(new) \cup missed \cup {new.token}
    OBVIOUS
  <2>1. t \in Seen(req[r]) \cup missed \cup {req[r].token}
    BY <1>5 DEF PickingOK
  <2>2. t = row => t \in X
    BY <1>5, <1>8
  <2> QED
    BY <1>5, <2>1, <2>2 DEF Seen, row
<1>12. new.at \in Changing /\ new.token # None =>
         lock[new.token] = r /\ State(new.token) = "PENDING"
  BY <1>5 DEF LockOK
<1>13. /\ \A x \in X : ~HeldByOthers(r, x)
       /\ req[r].at \notin {"send", "discard"}
       /\ new.at \in {"setPassword", "scanOther", "purge", "removeOld", "removeOther"}
       /\ new.at \in Drawing => req[r].at \in Drawing
  BY <1>1, <1>4, <1>5, <1>6 DEF Deleting
<1>14. new.at \in Changing /\ new.token # None =>
         /\ new.token \in X \/ lock[new.token] = r
         /\ State(new.token) = "PENDING"
  BY <1>12
<1> QED
  BY <1>1, <1>5, <1>9, <1>10, <1>11, <1>13, <1>14, TakeKeeps

\* The link is sent, or is about to be discarded.
LEMMA SendLinkKeeps ==
  ASSUME IInv, NEW r \in Request, SendLink(r)
  PROVE  IInv'
<1> DEFINE t == req[r].token
           new == req'[r]
<1> USE DEF IInv
<1>1. /\ req[r].at = "send" /\ ProgressOK(req[r], token)
      /\ t \in Token /\ State(t) # "UNKNOWN"
      /\ \A x \in Row : lock[x] # r
      /\ UNCHANGED <<token, enabled, now, lock, changes, missed, orphaned>>
  BY DEF SendLink, RequestOK, ProgressOK, TypeOK, Progress, LockOK, Empty, Drawing, State,
         history
<1>2. /\ req' = [req EXCEPT ![r] = new]
      /\ mailed \subseteq mailed' /\ mailed' \subseteq mailed \cup {t}
      /\ \/ new = Idle /\ t \in mailed'
         \/ new = [req[r] EXCEPT !.at = "discard"]
  BY DEF SendLink, Finish, Goto, TypeOK
<1>3. /\ new \in Progress /\ new.at \in {"idle", "discard"} /\ ProgressOK(new, token)
      /\ new.at = "discard" => new.token = t
      /\ new.at = "idle" => t \in mailed'
  <2>1. CASE new = Idle /\ t \in mailed'
    BY <2>1, IdleFacts
  <2>2. CASE new = [req[r] EXCEPT !.at = "discard"]
    <3>1. /\ new \in Progress /\ new.at = "discard" /\ new.token = t
          /\ new.doomed = req[r].doomed /\ new.left = req[r].left /\ new.row = req[r].row
      BY <2>2 DEF TypeOK, Progress
    <3> HIDE DEF new
    <3> QED
      BY <1>1, <3>1 DEF ProgressOK, Drawing, Deleting
  <2> QED
    BY <1>2, <2>1, <2>2
<1> HIDE DEF new
<1>4. \A q \in Request : req'[q] = IF q = r THEN new ELSE req[q]
  BY <1>2 DEF TypeOK
<1>5. TypeOK'
  BY <1>1, <1>2, <1>3 DEF TypeOK
<1>6. RequestOK'
  BY <1>1, <1>2, <1>3, RequestsKeep DEF Drawing, State
<1>7. LockOK'
  BY <1>1, <1>2, <1>3, LocksKeep DEF Empty, State
<1>8. ChangesOK' /\ MailedOK' /\ OnePendingLink'
  BY <1>1, <1>2 DEF ChangesOK, MailedOK, OnePendingLink, State
<1>9. PickingOK'
  BY <1>1, <1>3, <1>4 DEF PickingOK, State, Picking
<1>10. UndeliveredIsInvalid'
  BY <1>1, <1>2, <1>3, <1>4 DEF UndeliveredIsInvalid
<1> QED
  BY <1>5, <1>6, <1>7, <1>8, <1>9, <1>10

\* A request that goes without having settled the e-mail of its link leaves the
\* link orphaned; any other one leaves nothing.
LEMMA RollbackKeeps ==
  ASSUME IInv, NEW r \in Request, Release(r), Finish(r),
         UNCHANGED <<token, enabled, now, mailed, changes, missed>>,
         orphaned \subseteq orphaned', orphaned' \subseteq Token,
         req[r].at \in {"send", "discard"} => req[r].token \in orphaned'
  PROVE  IInv'
<1> USE DEF IInv
<1>1. /\ req' = [req EXCEPT ![r] = Idle]
      /\ \A q \in Request : req'[q] = IF q = r THEN Idle ELSE req[q]
  BY DEF Finish, TypeOK
<1>2. TypeOK'
  BY <1>1, ReleasedRows, IdleFacts DEF TypeOK
<1>3. RequestOK'
  BY <1>1, IdleFacts, RequestsKeep DEF Drawing, State
<1>4. LockOK'
  BY <1>1, ReleasedRows, IdleFacts, LocksKeep DEF Empty, State
<1>5. ChangesOK' /\ MailedOK' /\ OnePendingLink'
  BY DEF ChangesOK, MailedOK, OnePendingLink, State
<1>6. PickingOK'
  BY <1>1, IdleFacts DEF PickingOK, State, Picking
<1>7. UndeliveredIsInvalid'
  BY <1>1 DEF UndeliveredIsInvalid
<1> QED
  BY <1>2, <1>3, <1>4, <1>5, <1>6, <1>7

\* Nobody waits for a request that holds nothing, so that it is in no deadlock.
LEMMA DeadlockedHoldsRows ==
  ASSUME IInv, NEW r \in Request, Deadlocked(r)
  PROVE  req[r].at \notin Empty
<1> SUFFICES ASSUME \A x \in Row : lock[x] # r PROVE FALSE
  BY DEF IInv, LockOK
<1>1. \A q \in Request : WaitsFor(q) \subseteq Request \ {r}
  <2> TAKE q \in Request
  <2>1. /\ req[q].at \in {"claim", "discard"} => req[q].token \in Row
        /\ req[q].at = "setPassword" => req[q].user \in Row
        /\ {req[q].row} \ {None} \subseteq Row
    BY DEF IInv, TypeOK, Progress, RequestOK, ProgressOK, Row
  <2>2. \A x \in Row : HeldByOthers(q, x) => lock[x] \in Request \ {r}
    BY DEF IInv, TypeOK, HeldByOthers
  <2> QED
    BY <2>1, <2>2 DEF WaitsFor
<1> QED
  BY <1>1 DEF Deadlocked

LEMMA FailDeadlockedKeeps ==
  ASSUME IInv, NEW r \in Request, FailDeadlocked(r)
  PROVE  IInv'
<1>1. req[r].at \notin {"send", "discard"}
  BY DeadlockedHoldsRows DEF FailDeadlocked, Empty
<1> QED
  BY <1>1, RollbackKeeps DEF FailDeadlocked, history, IInv, TypeOK

LEMMA AbortKeeps ==
  ASSUME IInv, NEW r \in Request, Abort(r)
  PROVE  IInv'
<1>1. req[r].at \in {"send", "discard"} => req[r].token \in Token
  BY DEF IInv, RequestOK, ProgressOK, TypeOK, Progress
<1> QED
  BY <1>1, RollbackKeeps DEF Abort, IInv, TypeOK

LEMMA EnvironmentKeeps ==
  ASSUME IInv, (\E u \in User : SetEnabled(u)) \/ Tick \/ UNCHANGED vars
  PROVE  IInv'
<1> USE DEF IInv
<1>1. /\ UNCHANGED <<token, req, lock, mailed, changes, missed, orphaned>>
      /\ enabled' \subseteq User /\ now' \in Nat
  BY DEF SetEnabled, Tick, vars, history, TypeOK
<1>2. TypeOK' /\ RequestOK' /\ LockOK'
  BY <1>1 DEF TypeOK, RequestOK, LockOK, State
<1>3. ChangesOK' /\ MailedOK' /\ OnePendingLink' /\ PickingOK' /\ UndeliveredIsInvalid'
  BY <1>1 DEF ChangesOK, MailedOK, OnePendingLink, PickingOK, UndeliveredIsInvalid, State
<1> QED
  BY <1>2, <1>3

LEMMA StepOK == IInv /\ [Next]_vars => IInv'
BY BeginForgotKeeps, ScanExpiredKeeps, CheckCooldownKeeps, BeginResetKeeps, BeginChangeKeeps,
   ScanPendingKeeps, DeleteExpiredKeeps, DiscardTokenKeeps, InsertTokenKeeps,
   CommitPasswordKeeps, ClaimKeeps, SetPasswordKeeps, VisitRowKeeps, SendLinkKeeps,
   FailDeadlockedKeeps, AbortKeeps, EnvironmentKeeps
   DEF Next, Wait, Serve

\* The inductive invariant holds of every reachable state.
THEOREM InvariantHolds == Spec => []IInv
BY InitOK, StepOK, PTL DEF Spec

\* Every reachable state is well typed.
THEOREM TypeCorrect == Spec => []TypeOK
<1>1. IInv => TypeOK
  BY DEF IInv
<1> QED
  BY <1>1, InvariantHolds, PTL

\* However requests for links, resets and crashes interleave, a link that no
\* e-mail carried is not left valid by a request that lives on.
THEOREM UndeliveredAreInvalid == Spec => []UndeliveredIsInvalid
<1>1. IInv => UndeliveredIsInvalid
  BY DEF IInv
<1> QED
  BY <1>1, InvariantHolds, PTL

\* Two links of an account are valid only if the request of one of them could
\* not see the other.
THEOREM LinksReplaceEachOther == Spec => []OnePendingLink
<1>1. IInv => OnePendingLink
  BY DEF IInv
<1> QED
  BY <1>1, InvariantHolds, PTL

\* However many requests use a link at once, it changes the password at most
\* once, and is used up exactly when it has.
THEOREM LinksChangePasswordsOnce == Spec => []LinkChangesPasswordOnce
<1>1. IInv => LinkChangesPasswordOnce
  <2> SUFFICES ASSUME IInv, NEW t \in Token
               PROVE  /\ changes[t] <= 1
                      /\ token[t].state = "USED" => changes[t] = 1
                      /\ changes[t] = 1 => token[t].state \in {"USED", "DELETED"}
    BY DEF LinkChangesPasswordOnce
  <2>1. token[t].state \in {"UNKNOWN", "PENDING", "USED", "DELETED"}
    BY DEF IInv, TypeOK, TokenRow
  <2> QED
    BY <2>1 DEF IInv, ChangesOK, State
<1> QED
  BY <1>1, InvariantHolds, PTL

\* The password change of an account takes all its links with it, but for those
\* inserted while it was deleting.
THEOREM ChangesClearLinks == Spec => ChangeClearsLinks
<1>1. ASSUME IInv, NEW r \in Request, CommitPassword(r), NEW t \in Token \ missed,
             token[t].user = req[r].user
      PROVE  token'[t].state # "PENDING"
  <2>1. State(t) = "PENDING" => t \in req[r].doomed \cup {req[r].token}
    BY <1>1, CommittedRows, ConstantsAssumption DEF IInv, PickingOK, Picking
  <2> QED
    BY <1>1, <2>1, CommittedRows DEF State
<1>2. IInv /\ [Next]_vars =>
        [\A r \in Request : CommitPassword(r) =>
           \A t \in Token \ missed :
             token[t].user = req[r].user => token'[t].state # "PENDING"]_vars
  BY <1>1
<1> QED
  BY <1>2, InvariantHolds, PTL DEF Spec, ChangeClearsLinks

-----------------------------------------------------------------------------
\* The refinement.

LEMMA InitRefines == Init => Links!Init
BY NoRowFacts DEF Init, Links!Init

LEMMA InsertRefines ==
  ASSUME IInv, NEW r \in Request, InsertToken(r)
  PROVE  Links!Next
<1> USE DEF IInv
<1>1. PICK t, X : t = req[r].token /\ X = req[r].doomed
  OBVIOUS
<1>2. /\ req[r].at = "removeOld" /\ req[r].row = None /\ changes' = changes
      /\ token' = [Deleted(X) EXCEPT ![t] =
           [state |-> "PENDING", user |-> req[r].user, created |-> now,
            expires |-> req[r].since + Ttl]]
  BY <1>1 DEF InsertToken
<1>3. /\ t \in Token /\ State(t) = "UNKNOWN"
      /\ X \in SUBSET Token /\ t \notin X /\ \A s \in X : State(s) = "PENDING"
  BY <1>1, <1>2
     DEF TypeOK, Progress, RequestOK, ProgressOK, LockOK, Drawing, Picking, State
<1>4. \A s \in Token : token'[s].state = IF s = t THEN "PENDING"
                         ELSE IF s \in X THEN "DELETED" ELSE token[s].state
  BY <1>2, <1>3, DeletedRows
<1>5. Links!Issue(t, X)
  BY <1>2, <1>3, <1>4 DEF Links!Issue, Links!After, State
<1>6. X \in SUBSET Links!Issued
  BY <1>3 DEF Links!Issued, State
<1> QED
  BY <1>3, <1>5, <1>6 DEF Links!Next

LEMMA CommitRefines ==
  ASSUME IInv, NEW r \in Request, CommitPassword(r)
  PROVE  Links!Next
<1> USE DEF IInv
<1>1. PICK t, X : t = req[r].token /\ X = req[r].doomed
  OBVIOUS
<1>2. X \in SUBSET Links!Issued
  BY <1>1, CommittedRows DEF Links!Issued, State
<1>3. /\ changes \in [Token -> Nat] /\ changes' \in [Token -> Nat]
      /\ \A s \in Token : changes'[s] = IF s = t THEN changes[s] + 1 ELSE changes[s]
      /\ \A s \in Token : token'[s].state = CASE s = t -> "USED" [] s \in X -> "DELETED"
                                              [] OTHER -> token[s].state
  BY <1>1, CommittedRows DEF TypeOK
<1>4. t \notin X /\ t \in Token \cup {None}
  BY <1>1, CommittedRows
<1>5. CASE t \in Token
  <2>1. State(t) = "PENDING"
    BY <1>1, <1>5, CommittedRows, ConstantsAssumption
  <2>2. changes' = [changes EXCEPT ![t] = @ + 1]
    BY <1>3, <1>5
  <2>3. Links!Use(t, X)
    BY <1>3, <1>4, <2>1, <2>2 DEF Links!Use, Links!After, State
  <2> QED
    BY <1>2, <1>5, <2>3 DEF Links!Next
<1>6. CASE t = None
  <2>1. changes' = changes
    BY <1>3, <1>6, ConstantsAssumption
  <2>2. Links!Revoke(X)
    BY <1>3, <1>6, <2>1, ConstantsAssumption DEF Links!Revoke
  <2> QED
    BY <1>2, <2>2 DEF Links!Next
<1> QED
  BY <1>4, <1>5, <1>6

LEMMA RevokeRefines ==
  ASSUME IInv, NEW X \in SUBSET Token, \A t \in X : State(t) # "UNKNOWN",
         token' = Deleted(X), changes' = changes
  PROVE  Links!Next
<1>1. \A s \in Token : token'[s].state = IF s \in X THEN "DELETED" ELSE token[s].state
  BY DeletedRows DEF IInv
<1>2. Links!Revoke(X) /\ X \in SUBSET Links!Issued
  BY <1>1 DEF Links!Revoke, Links!Issued, State
<1> QED
  BY <1>2 DEF Links!Next

\* However requests, row locks, failures and crashes interleave, reset links
\* keep what OneTimeLink promises.
THEOREM Implementation == Spec => ImplementsOneTimeLink
<1>1. ASSUME IInv, [Next]_vars
      PROVE  [Links!Next]_<<[t \in Token |-> token[t].state], changes>>
  <2>1. ASSUME NEW r \in Request, DeleteExpired(r) PROVE Links!Next
    <3>1. req[r].doomed \in SUBSET Token /\ \A t \in req[r].doomed : State(t) # "UNKNOWN"
      BY <1>1, <2>1, DeletedAreLocked DEF DeleteExpired, Deleting
    <3> QED
      BY <1>1, <2>1, <3>1, RevokeRefines DEF DeleteExpired, history
  <2>2. ASSUME NEW r \in Request, DiscardToken(r) PROVE Links!Next
    <3>1. req[r].token \in Token /\ State(req[r].token) # "UNKNOWN"
      BY <1>1, <2>2
         DEF IInv, RequestOK, ProgressOK, TypeOK, Progress, Drawing, State, DiscardToken
    <3> QED
      BY <1>1, <2>2, <3>1, RevokeRefines DEF DiscardToken, history
  <2>3. ASSUME UNCHANGED <<token, changes>>
        PROVE  [Links!Next]_<<[t \in Token |-> token[t].state], changes>>
    BY <2>3
  <2> QED
    BY <1>1, <2>1, <2>2, <2>3, InsertRefines, CommitRefines
       DEF Next, Wait, Serve, BeginForgot, BeginChange, BeginReset, Claim, SetPassword,
           VisitRow, ScanExpired, CheckCooldown, ScanPending, SendLink, FailDeadlocked, Abort,
           SetEnabled, Tick, vars, history
<1> QED
  BY <1>1, InitRefines, InvariantHolds, PTL
     DEF Spec, ImplementsOneTimeLink, Links!Spec
=============================================================================
