---------------------------- MODULE PasswordReset ----------------------------
(***************************************************************************)
(* Password recovery and password change of the core: PasswordService and  *)
(* the password queries of AuthRepository.                                 *)
(*                                                                         *)
(* A request asks for a link (in the background, after the 202), uses a    *)
(* link, or changes the password of the account that is logged in.  Each   *)
(* statement on the database is a step, and a DELETE of several rows one   *)
(* step per row.  A transaction keeps the rows it updates or deletes       *)
(* locked until it ends; others that want one of them wait, keep what they *)
(* have, look at it again, and when they wait for each other PostgreSQL    *)
(* fails one.  What a transaction wrote shows when it commits.             *)
(***************************************************************************)
EXTENDS Integers, FiniteSets

CONSTANTS
  User,
  Token,      \* reset tokens that can be drawn
  Request,    \* requests that can be in progress at once
  Cooldown,   \* passwordReset.requestCooldownSeconds
  Ttl,        \* passwordReset.tokenTtlMinutes
  MaxTime,    \* bound of the clock
  Faults,     \* whether processes may die
  None,
  Free

ASSUME ConstantsAssumption ==
  /\ Cooldown \in Nat
  /\ Ttl \in Nat \ {0}
  /\ MaxTime \in Nat
  /\ Faults \in BOOLEAN
  /\ User \cap Token = {}
  /\ None \notin User \cup Token
  /\ Free \notin Request

VARIABLES
  token,    \* password_reset_tokens: UNKNOWN before the insert, PENDING while
            \* usedAt is null, then USED or DELETED
  enabled,  \* users that are active, of an active tenant
  now,
  req,      \* the step each request is at, and what it has read
  lock,     \* holder of each row
  mailed,   \* tokens that have left in an e-mail
  changes,  \* password changes made with each token (history)
  missed,   \* tokens inserted when a transaction of their user had already
            \* picked the ones to delete (history)
  orphaned  \* tokens whose request died before it settled their e-mail
            \* (history)

history == <<changes, missed, orphaned>>
vars    == <<token, enabled, now, req, lock, mailed, history>>

Row == User \cup Token

TokenRow ==
  [state : {"UNKNOWN", "PENDING", "USED", "DELETED"},
   user : User \cup {None}, created : Nat, expires : Nat]

\* The DELETE a request is in is at `row`, has come to `doomed` and locked it,
\* and has yet to come to `left`.
Idle == [at |-> "idle", user |-> None, token |-> None, since |-> 0,
         doomed |-> {}, left |-> {}, row |-> None]

NoRow(state) == [state |-> state, user |-> None, created |-> 0, expires |-> 0]

Init ==
  /\ token = [t \in Token |-> NoRow("UNKNOWN")]
  /\ enabled = User
  /\ now = 0
  /\ req = [r \in Request |-> Idle]
  /\ lock = [x \in Row |-> Free]
  /\ mailed = {}
  /\ changes = [t \in Token |-> 0]
  /\ missed = {}
  /\ orphaned = {}

Exists(t)     == token[t].state \in {"PENDING", "USED"}

\* Mutant of PendingOf: only links that have run out are pending.
StaleOf(u) ==
  {t \in Token : /\ token[t].state = "PENDING" /\ token[t].user = u
                 /\ token[t].expires < now}

PendingOf(u)  == {t \in Token : token[t].state = "PENDING" /\ token[t].user = u}
ExpiredBy(tm) == {t \in Token : Exists(t) /\ token[t].expires < tm}

Goto(r, step)     == req' = [req EXCEPT ![r].at = step]
Finish(r)         == req' = [req EXCEPT ![r] = Idle]
HeldByOthers(r,x) == lock[x] \notin {r, Free}
LockRows(r, X)    == lock' = [x \in Row |-> IF x \in X THEN r ELSE lock[x]]
Release(r)        == lock' = [x \in Row |-> IF lock[x] = r THEN Free ELSE lock[x]]

\* A DELETE comes to its rows in any order: whichever of X comes first.
NextOf(X) == IF X = {} THEN {None} ELSE X

StartDelete(r, step, X) ==
  \E n \in NextOf(X) :
    req' = [req EXCEPT ![r].at = step, ![r].row = n, ![r].left = X \ {n}]

\* Mutant of Deleted: used tokens are removed and pending ones stay.
DeletedUsed(X) ==
  [t \in Token |-> IF t \in X /\ token[t].state = "USED"
                   THEN NoRow("DELETED") ELSE token[t]]

Deleted(X) ==
  [t \in Token |-> IF t \in X THEN NoRow("DELETED") ELSE token[t]]

-----------------------------------------------------------------------------
\* processPasswordResetRequest

\* The links a new request may draw; the bound: one that no request has drawn.
Undrawn == {t \in Token : /\ token[t].state = "UNKNOWN"
                          /\ \A q \in Request : req[q].token # t}

\* None is an e-mail of no account: the request only cleans up.
BeginForgot(r, u) ==
  /\ req[r] = Idle
  /\ \E t \in IF u = None THEN {None} ELSE Undrawn :
       req' = [req EXCEPT ![r] = [Idle EXCEPT !.at = "clean", !.user = u,
                                              !.token = t, !.since = now]]
  /\ UNCHANGED <<token, enabled, now, lock, mailed, history>>

\* deleteExpiredPasswordResetTokens, of every user ...
ScanExpired(r) ==
  /\ req[r].at = "clean"
  /\ StartDelete(r, "purge", ExpiredBy(req[r].since))
  /\ UNCHANGED <<token, enabled, now, lock, mailed, history>>

\* ... has come to its last row; then findUserByEmail.
DeleteExpired(r) ==
  /\ req[r].at = "purge"
  /\ req[r].row = None
  /\ token' = Deleted(req[r].doomed)
  /\ Release(r)
  /\ IF req[r].user \in enabled
     THEN req' = [req EXCEPT ![r].at = "cooldown", ![r].doomed = {}]
     ELSE Finish(r)
  /\ UNCHANGED <<enabled, now, mailed, history>>

\* findLatestPasswordResetToken: used tokens count too.
Cooling(r) ==
  \E t \in Token : /\ Exists(t)
                   /\ token[t].user = req[r].user
                   /\ req[r].since - token[t].created < Cooldown

CheckCooldown(r) ==
  /\ req[r].at = "cooldown"
  /\ IF Cooling(r) THEN Finish(r) ELSE Goto(r, "scanOld")
  /\ UNCHANGED <<token, enabled, now, lock, mailed, history>>

\* A transaction of the user u that no longer looks for tokens to delete.
PickedOld(q, u) == req[q].user = u /\ req[q].at \in {"removeOld", "removeOther"}

\* replacePasswordResetToken commits: the tokens it deleted go, its own comes.
InsertToken(r) ==
  /\ req[r].at = "removeOld"
  /\ req[r].row = None
  /\ token' = [Deleted(req[r].doomed) EXCEPT ![req[r].token] =
                 [state |-> "PENDING", user |-> req[r].user, created |-> now,
                  expires |-> req[r].since + Ttl]]
  /\ missed' = IF \E q \in Request \ {r} : PickedOld(q, req[r].user)
               THEN missed \cup {req[r].token} ELSE missed
  /\ Release(r)
  /\ req' = [req EXCEPT ![r] = [Idle EXCEPT !.at = "send", !.token = req[r].token]]
  /\ UNCHANGED <<enabled, now, mailed, changes, orphaned>>

\* NotificationsService.send never throws.  It may report a failure although
\* the message left.
SendLink(r) ==
  /\ req[r].at = "send"
  /\ \/ Finish(r) /\ mailed' = mailed \cup {req[r].token}
     \/ Goto(r, "discard") /\ mailed' \in {mailed, mailed \cup {req[r].token}}
  /\ UNCHANGED <<token, enabled, now, lock, history>>

\* Mutant of DiscardToken: the token stays.
KeepToken(r) ==
  /\ req[r].at = "discard"
  /\ Finish(r)
  /\ UNCHANGED <<token, enabled, now, lock, mailed, history>>

\* Mutant of DiscardToken: the link is sent again, as often as that fails.
SendAgain(r) ==
  /\ req[r].at = "discard"
  /\ Goto(r, "send")
  /\ UNCHANGED <<token, enabled, now, lock, mailed, history>>

\* deletePasswordResetToken: "an undeliverable token ... must not stay valid".
DiscardToken(r) ==
  /\ req[r].at = "discard"
  /\ ~HeldByOthers(r, req[r].token)
  /\ token' = Deleted({req[r].token})
  /\ Finish(r)
  /\ UNCHANGED <<enabled, now, lock, mailed, history>>

-----------------------------------------------------------------------------
\* resetPassword and changePassword

\* The new password is hashed, then the clock is read.
BeginReset(r, t) ==
  /\ req[r] = Idle
  /\ t \in mailed
  /\ req' = [req EXCEPT ![r] = [Idle EXCEPT !.at = "claim", !.user = token[t].user,
                                            !.token = t, !.since = now]]
  /\ UNCHANGED <<token, enabled, now, lock, mailed, history>>

\* The conditional UPDATE waits for the row and judges it as it then is.
Claimable(r) ==
  /\ token[req[r].token].state = "PENDING"
  /\ token[req[r].token].expires > req[r].since
  /\ req[r].user \in enabled

\* Mutant of Claim: the row is judged as it is now, whoever is changing it.
ClaimUnlocked(r) ==
  /\ req[r].at = "claim"
  /\ IF Claimable(r) THEN Goto(r, "setPassword") ELSE Finish(r)
  /\ UNCHANGED <<token, enabled, now, lock, mailed, history>>

Claim(r) ==
  /\ req[r].at = "claim"
  /\ ~HeldByOthers(r, req[r].token)
  /\ IF Claimable(r)
     THEN /\ LockRows(r, {req[r].token})
          /\ req' = [req EXCEPT ![r] = [Idle EXCEPT !.at = "setPassword",
                                          !.user = req[r].user, !.token = req[r].token]]
     ELSE UNCHANGED lock /\ Finish(r)
  /\ UNCHANGED <<token, enabled, now, mailed, history>>

\* changePassword: the account may log in and the current password is right.
BeginChange(r, u) ==
  /\ req[r] = Idle
  /\ u \in enabled
  /\ req' = [req EXCEPT ![r] = [Idle EXCEPT !.at = "setPassword", !.user = u]]
  /\ UNCHANGED <<token, enabled, now, lock, mailed, history>>

\* applyPasswordChange: the user row is updated and stays locked.
SetPassword(r) ==
  /\ req[r].at = "setPassword"
  /\ ~HeldByOthers(r, req[r].user)
  /\ LockRows(r, {req[r].user})
  /\ Goto(r, "scanOther")
  /\ UNCHANGED <<token, enabled, now, mailed, history>>

\* The deleteMany of pending tokens, of replacePasswordResetToken and of
\* applyPasswordChange, not of the one this transaction has claimed.
ScanPending(r) ==
  LET old == PendingOf(req[r].user) \ {req[r].token} IN
    /\ \/ req[r].at = "scanOld"   /\ StartDelete(r, "removeOld", old)
       \/ req[r].at = "scanOther" /\ StartDelete(r, "removeOther", old)
    /\ UNCHANGED <<token, enabled, now, lock, mailed, history>>

\* A DELETE comes to its next row, waits for it while another has it, and
\* judges it again when it gets it: a used link is no longer pending.
Wanted(r) ==
  IF req[r].at = "purge" THEN Exists(req[r].row) ELSE token[req[r].row].state = "PENDING"

VisitRow(r) ==
  LET taken == IF Wanted(r) THEN {req[r].row} ELSE {} IN
    /\ req[r].row # None
    /\ ~HeldByOthers(r, req[r].row)
    /\ LockRows(r, taken)
    /\ \E n \in NextOf(req[r].left) :
         req' = [req EXCEPT ![r].row = n, ![r].left = @ \ {n},
                            ![r].doomed = @ \cup taken]
    /\ UNCHANGED <<token, enabled, now, mailed, history>>

\* The password changes, the link is used, the others are gone.
CommitPassword(r) ==
  LET mine == {req[r].token} \ {None} IN
    /\ req[r].at = "removeOther"
    /\ req[r].row = None
    /\ token' = [t \in Token |->
         IF t \in mine THEN [token[t] EXCEPT !.state = "USED"] ELSE Deleted(req[r].doomed)[t]]
    /\ changes' = [t \in Token |-> changes[t] + (IF t \in mine THEN 1 ELSE 0)]
    /\ Release(r)
    /\ Finish(r)
    /\ UNCHANGED <<enabled, now, mailed, missed, orphaned>>

-----------------------------------------------------------------------------
\* The environment.

\* The requests whose rows r is waiting for.
WaitsFor(r) ==
  LET wanted == CASE req[r].at \in {"claim", "discard"} -> {req[r].token}
                  [] req[r].at = "setPassword" -> {req[r].user}
                  [] OTHER -> {req[r].row} \ {None}
  IN  {lock[x] : x \in {y \in wanted : HeldByOthers(r, y)}}

\* r waits for itself: it is in every set that holds those r waits for, and
\* those its members wait for.
Deadlocked(r) ==
  \A X \in SUBSET Request :
    WaitsFor(r) \subseteq X /\ (\A q \in X : WaitsFor(q) \subseteq X) => r \in X

\* PostgreSQL fails a transaction of a cycle; it rolls back, the answer is 500.
FailDeadlocked(r) ==
  /\ Deadlocked(r)
  /\ Release(r)
  /\ Finish(r)
  /\ UNCHANGED <<token, enabled, now, mailed, history>>

\* The process dies, or its connection does.
Abort(r) ==
  /\ Faults
  /\ req[r] # Idle
  /\ orphaned' = IF req[r].at \in {"send", "discard"}
                 THEN orphaned \cup {req[r].token} ELSE orphaned
  /\ Release(r)
  /\ Finish(r)
  /\ UNCHANGED <<token, enabled, now, mailed, changes, missed>>

\* A user or its tenant is switched on or off.
SetEnabled(u) ==
  /\ enabled' = IF u \in enabled THEN enabled \ {u} ELSE enabled \cup {u}
  /\ UNCHANGED <<token, now, req, lock, mailed, history>>

Tick ==
  /\ now < MaxTime
  /\ now' = now + 1
  /\ UNCHANGED <<token, enabled, req, lock, mailed, history>>

\* Statements that may wait for a row.
Wait(r) ==
  VisitRow(r) \/ DiscardToken(r) \/ Claim(r) \/ SetPassword(r)

Serve(r) ==
  \/ ScanExpired(r) \/ DeleteExpired(r) \/ CheckCooldown(r) \/ ScanPending(r)
  \/ InsertToken(r) \/ SendLink(r) \/ CommitPassword(r) \/ FailDeadlocked(r)

Next ==
  \/ \E r \in Request :
       \/ \E u \in User \cup {None} : BeginForgot(r, u)
       \/ \E u \in User : BeginChange(r, u)
       \/ \E t \in Token : BeginReset(r, t)
       \/ Wait(r) \/ Serve(r) \/ Abort(r)
  \/ \E u \in User : SetEnabled(u)
  \/ Tick

Spec == Init /\ [][Next]_vars

\* Statements that can run do, PostgreSQL queues those that wait for a row, and
\* its deadlock detector runs.
FairSpec ==
  /\ Spec
  /\ \A r \in Request : WF_vars(Serve(r)) /\ SF_vars(Wait(r))

-----------------------------------------------------------------------------

Progress ==
  [at : {"idle", "clean", "purge", "cooldown", "scanOld", "removeOld", "send",
         "discard", "claim", "setPassword", "scanOther", "removeOther"},
   user : User \cup {None}, token : Token \cup {None}, since : Nat,
   doomed : SUBSET Token, left : SUBSET Token, row : Token \cup {None}]

TypeOK ==
  /\ token \in [Token -> TokenRow]
  /\ enabled \subseteq User
  /\ now \in Nat
  /\ req \in [Request -> Progress]
  /\ lock \in [Row -> Request \cup {Free}]
  /\ mailed \subseteq Token
  /\ changes \in [Token -> Nat]
  /\ missed \subseteq Token
  /\ orphaned \subseteq Token

Links == INSTANCE OneTimeLink WITH link <- [t \in Token |-> token[t].state]

\* However requests, row locks, failures and crashes interleave, reset links
\* keep what OneTimeLink promises.
ImplementsOneTimeLink == Links!Spec

\* However many requests use a link at once, and wherever one of them dies: it
\* changes the password at most once, and it is used up exactly when it has.
LinkChangesPasswordOnce ==
  \A t \in Token :
    /\ changes[t] <= 1
    /\ token[t].state = "USED" => changes[t] = 1
    /\ changes[t] = 1 => token[t].state \in {"USED", "DELETED"}

\* A link that no e-mail carried is not left valid: the request that drew it is
\* still at work on it, or died doing so.
UndeliveredIsInvalid ==
  \A t \in Token : token[t].state = "PENDING" =>
    \/ t \in mailed \cup orphaned
    \/ \E r \in Request : req[r].token = t /\ req[r].at \in {"send", "discard"}

\* Requests end, and a shutdown that waits for those under way does, although
\* they can block each other: a reset locks its token before the user, a change
\* the user before the tokens, and deletions come to their rows in any order.
RequestsFinish == \A r \in Request : req[r].at # "idle" ~> req[r].at = "idle"

\* "Um novo pedido invalida o link anterior": two links of an account are valid
\* only if the request of one could not see the other.
OnePendingLink ==
  \A t, s \in Token :
    /\ token[t].state = "PENDING" /\ token[s].state = "PENDING"
    /\ token[t].user = token[s].user
    => t = s \/ t \in missed \/ s \in missed

\* A password change takes all links of the account with it, but for those that
\* came while it was deleting.
ChangeClearsLinks ==
  [][\A r \in Request : CommitPassword(r) =>
       \A t \in Token \ missed :
         token[t].user = req[r].user => token'[t].state # "PENDING"]_vars
=============================================================================
