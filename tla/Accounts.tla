------------------------------ MODULE Accounts ------------------------------
(***************************************************************************)
(* Users of a tenant and their sessions: AuthService and TokenService (log *)
(* in, rotate a refresh token, log out), the session side of a password    *)
(* change, and UsersService (create a user, change a role, switch an       *)
(* account on or off).                                                     *)
(*                                                                         *)
(* Every request is a sequence of statements with those of other requests  *)
(* in between.  What it has read is in `req`: an actor's role is the one   *)
(* the guards saw, an access token carries the session version that was    *)
(* read before it was signed.                                              *)
(*                                                                         *)
(* The tenant is active: nothing in the API suspends it.  A refresh token  *)
(* that has run out is refused like one that was never sent.               *)
(***************************************************************************)
EXTENDS Integers

CONSTANTS
  User,
  Token,       \* ids of refresh tokens
  Request,     \* HTTP requests that can be in flight at once
  MaxVersion,  \* bound on password changes of a user
  NoUser,
  NoToken

ASSUME ConstantsAssumption ==
  /\ MaxVersion \in Nat
  /\ NoUser \notin User
  /\ NoToken \notin Token

\* The roles as far as users:manage and ownership tell them apart; EMPLOYEE
\* stands for MANAGER too, and NONE for a user that is not registered.
Role    == {"OWNER", "ADMIN", "EMPLOYEE"}
Manager == {"OWNER", "ADMIN"}
Version == 0 .. MaxVersion

\* A refresh token.  `version` is that of the access token issued with it; the
\* other fields but `state` are history: the version the account had when the
\* token was stored, the token it replaces, and how it ended.
Row == [user : User, version : Version, born : Version,
        parent : Token \cup {NoToken}, state : {"live", "rotated", "revoked"}]

NoRow == [user |-> NoUser]

VARIABLES
  user,     \* users: role, isActive, sessionVersion
  token,    \* refresh_tokens
  req,      \* where each request is, and what it has read
  crossed,  \* whether two requests about users have overlapped a write (history)
  spared    \* sessions stored after their account was switched off, or whose
            \* revocation was lost with its request (history)

vars == <<user, token, req, crossed, spared>>

\* Where a request is, and what it remembers of what it read.
Progress ==
  [at : {"idle", "issue", "rotate", "reload", "revoke", "authenticated", "logout",
         "change", "create", "assign", "activate", "deactivate"},
   actor : User \cup {NoUser}, role : Role \cup {"NONE"},
   user : User \cup {NoUser}, token : Token \cup {NoToken}, version : Version]

NoRequest == [at |-> "idle", actor |-> NoUser, role |-> "NONE",
              user |-> NoUser, token |-> NoToken, version |-> 0]

Account   == [role : Role \cup {"NONE"}, active : BOOLEAN, version : Version]
NoAccount == [role |-> "NONE", active |-> FALSE, version |-> 0]

\* A registered tenant has its owner.
Init ==
  /\ \E o \in User : user = [u \in User |->
       IF u = o THEN [NoAccount EXCEPT !.role = "OWNER", !.active = TRUE] ELSE NoAccount]
  /\ token = [t \in Token |-> NoRow]
  /\ req = [r \in Request |-> NoRequest]
  /\ crossed = FALSE
  /\ spared = {}

Registered(u) == user[u].role # "NONE"
Stored(t)     == token[t] # NoRow
LiveOf(u)     == {t \in Token : Stored(t) /\ token[t].user = u /\ token[t].state = "live"}
Goto(r, new)  == req' = [req EXCEPT ![r] = new]
End(r)        == Goto(r, NoRequest)

\* A refusal before anything is written, an error, or a crash.
Abort(r) ==
  /\ req[r] # NoRequest
  /\ End(r)
  /\ spared' = IF req[r].at = "revoke" THEN spared \cup LiveOf(req[r].user) ELSE spared
  /\ UNCHANGED <<user, token, crossed>>

-----------------------------------------------------------------------------
\* Sessions.

\* login: the user is read and the password compared with what was read.
BeginLogin(r, u) ==
  /\ req[r] = NoRequest
  /\ user[u].active
  /\ Goto(r, [NoRequest EXCEPT !.at = "issue", !.user = u, !.version = user[u].version])
  /\ UNCHANGED <<user, token, crossed, spared>>

\* refresh: the token is known, whatever its state.
BeginRefresh(r, t) ==
  /\ req[r] = NoRequest
  /\ Stored(t)
  /\ Goto(r, [NoRequest EXCEPT !.at = "rotate", !.user = token[t].user, !.token = t])
  /\ UNCHANGED <<user, token, crossed, spared>>

\* Mutant of Rotate: a token that is rotated already is taken for a retry.
RotateAgain(r) ==
  LET t == req[r].token IN
    /\ req[r].at = "rotate"
    /\ IF token[t].state \in {"live", "rotated"}
       THEN /\ token' = [token EXCEPT ![t].state = "rotated"]
            /\ Goto(r, [req[r] EXCEPT !.at = "reload"])
       ELSE /\ token' = token
            /\ Goto(r, [NoRequest EXCEPT !.at = "revoke", !.user = req[r].user])
    /\ UNCHANGED <<user, crossed, spared>>

\* revokeRefreshToken: the conditional update lets one request through.  The
\* others have reused the token.
Rotate(r) ==
  LET t == req[r].token IN
    /\ req[r].at = "rotate"
    /\ IF token[t].state = "live"
       THEN /\ token' = [token EXCEPT ![t].state = "rotated"]
            /\ Goto(r, [req[r] EXCEPT !.at = "reload"])
       ELSE /\ token' = token
            /\ Goto(r, [NoRequest EXCEPT !.at = "revoke", !.user = req[r].user])
    /\ UNCHANGED <<user, crossed, spared>>

\* findUserById after the rotation; an inactive user gets no new session.
Reload(r) ==
  LET u == req[r].user IN
    /\ req[r].at = "reload"
    /\ IF user[u].active
       THEN Goto(r, [req[r] EXCEPT !.at = "issue", !.version = user[u].version])
       ELSE End(r)
    /\ UNCHANGED <<user, token, crossed, spared>>

\* TokenService.issue: signed with what was read, stored now.
Issue(r) ==
  \E t \in Token :
    LET u == req[r].user IN
      /\ req[r].at = "issue"
      /\ ~Stored(t)
      /\ token' = [token EXCEPT ![t] =
           [user |-> u, version |-> req[r].version, born |-> user[u].version,
            parent |-> req[r].token, state |-> "live"]]
      /\ spared' = IF user[u].active THEN spared ELSE spared \cup {t}
      /\ End(r)
      /\ UNCHANGED <<user, crossed>>

\* revokeAllRefreshTokens and revokeRefreshTokens.
Revoked(u) ==
  [t \in Token |-> IF t \in LiveOf(u)
                   THEN [token[t] EXCEPT !.state = "revoked"] ELSE token[t]]

\* The sessions of the user end, after a reuse or after a deactivation.
RevokeSessions(r) ==
  /\ req[r].at = "revoke"
  /\ token' = Revoked(req[r].user)
  /\ End(r)
  /\ UNCHANGED <<user, crossed, spared>>

-----------------------------------------------------------------------------
\* Requests with an access token.

\* JwtStrategy: some access token of the user has the version of the account.
Authenticate(r, u) ==
  /\ req[r] = NoRequest
  /\ user[u].active
  /\ \E t \in Token : /\ Stored(t)
                      /\ token[t].user = u
                      /\ token[t].version = user[u].version
  /\ Goto(r, [NoRequest EXCEPT !.at = "authenticated", !.actor = u, !.role = user[u].role])
  /\ UNCHANGED <<user, token, crossed, spared>>

BeginLogout(r, t) ==
  /\ req[r].at = "authenticated"
  /\ Stored(t)
  /\ token[t].user = req[r].actor
  /\ Goto(r, [NoRequest EXCEPT !.at = "logout", !.token = t])
  /\ UNCHANGED <<user, token, crossed, spared>>

Logout(r) ==
  LET t == req[r].token IN
    /\ req[r].at = "logout"
    /\ token' = [token EXCEPT ![t].state = IF @ = "live" THEN "revoked" ELSE @]
    /\ End(r)
    /\ UNCHANGED <<user, crossed, spared>>

\* changePassword: the account is read again and the old password compared.
BeginChange(r) ==
  /\ req[r].at = "authenticated"
  /\ user[req[r].actor].active
  /\ Goto(r, [NoRequest EXCEPT !.at = "change", !.user = req[r].actor])
  /\ UNCHANGED <<user, token, crossed, spared>>

\* Mutant of ApplyPasswordChange: only the access tokens are invalidated.
BumpVersion(u) ==
  /\ user[u].version < MaxVersion
  /\ user' = [user EXCEPT ![u].version = @ + 1]
  /\ token' = token

\* applyPasswordChange, a transaction.
ApplyPasswordChange(u) ==
  /\ user[u].version < MaxVersion
  /\ user' = [user EXCEPT ![u].version = @ + 1]
  /\ token' = Revoked(u)

ChangePassword(r) ==
  /\ req[r].at = "change"
  /\ ApplyPasswordChange(req[r].user)
  /\ End(r)
  /\ UNCHANGED <<crossed, spared>>

\* resetPassword with a valid link of an active account.
ResetPassword(u) ==
  /\ user[u].active
  /\ ApplyPasswordChange(u)
  /\ UNCHANGED <<req, crossed, spared>>

-----------------------------------------------------------------------------
\* Users.  The actor's role is the one the guards read.

Managing(r) == req[r].at = "authenticated" /\ req[r].role \in Manager

\* Only an owner can modify another owner.
MayModify(r, u) == user[u].role = "OWNER" => req[r].role = "OWNER"

\* resolveAssignableRole: only an owner can assign the OWNER role.
MayAssign(r, role) == role = "OWNER" => req[r].role = "OWNER"

\* Past its checks, a request about `u` writes later.
Proceed(r, at, u, role) ==
  /\ Goto(r, [NoRequest EXCEPT !.at = at, !.user = u, !.role = role])
  /\ UNCHANGED <<user, token, crossed, spared>>

BeginCreate(r, u, role) ==
  /\ Managing(r)
  /\ ~Registered(u)
  /\ MayAssign(r, role)
  /\ Proceed(r, "create", u, role)

\* The unique index on email refuses the second of two creations.
CreateUser(r) ==
  LET u == req[r].user IN
    /\ req[r].at = "create"
    /\ ~Registered(u)
    /\ user' = [user EXCEPT ![u] = [NoAccount EXCEPT !.role = req[r].role, !.active = TRUE]]
    /\ End(r)
    /\ UNCHANGED <<token, crossed, spared>>

\* update with a role; the other fields do not matter here.
BeginUpdate(r, u, role) ==
  /\ Managing(r)
  /\ Registered(u)
  /\ MayModify(r, u)
  /\ MayAssign(r, role)
  /\ u = req[r].actor => role = user[u].role
  /\ Proceed(r, "assign", u, role)

BeginActivate(r, u) ==
  /\ Managing(r)
  /\ Registered(u)
  /\ MayModify(r, u)
  /\ Proceed(r, "activate", u, "NONE")

\* Mutant of BeginDeactivate: the check on oneself is missing.
BeginDeactivateAny(r, u) ==
  /\ Managing(r)
  /\ Registered(u)
  /\ MayModify(r, u)
  /\ Proceed(r, "deactivate", u, "NONE")

BeginDeactivate(r, u) ==
  /\ Managing(r)
  /\ Registered(u)
  /\ u # req[r].actor
  /\ MayModify(r, u)
  /\ Proceed(r, "deactivate", u, "NONE")

\* A request whose actor and target have been read and may still be changed.
Deciding(r) == req[r].at \in {"authenticated", "assign", "deactivate"}

\* The write of a request that others may be relying against.
Decide(r) ==
  /\ crossed' = (crossed \/ \E q \in Request \ {r} : Deciding(q))
  /\ UNCHANGED <<token, spared>>

AssignRole(r) ==
  /\ req[r].at = "assign"
  /\ user' = [user EXCEPT ![req[r].user].role = req[r].role]
  /\ End(r)
  /\ Decide(r)

Activate(r) ==
  /\ req[r].at = "activate"
  /\ user' = [user EXCEPT ![req[r].user].active = TRUE]
  /\ End(r)
  /\ UNCHANGED <<token, crossed, spared>>

\* Mutant of Deactivate: the sessions are left alone.
DeactivateOnly(r) ==
  /\ req[r].at = "deactivate"
  /\ user' = [user EXCEPT ![req[r].user].active = FALSE]
  /\ End(r)
  /\ Decide(r)

\* The account is switched off first, its sessions are revoked in a statement
\* of its own.
Deactivate(r) ==
  /\ req[r].at = "deactivate"
  /\ user' = [user EXCEPT ![req[r].user].active = FALSE]
  /\ Goto(r, [NoRequest EXCEPT !.at = "revoke", !.user = req[r].user])
  /\ Decide(r)

-----------------------------------------------------------------------------

Session(r) ==
  \/ \E u \in User : BeginLogin(r, u)
  \/ \E t \in Token : BeginRefresh(r, t) \/ BeginLogout(r, t)
  \/ Rotate(r) \/ Reload(r) \/ Issue(r) \/ RevokeSessions(r) \/ Logout(r)

Manage(r) ==
  \/ \E u \in User : Authenticate(r, u) \/ BeginActivate(r, u) \/ BeginDeactivate(r, u)
  \/ \E u \in User, role \in Role : BeginCreate(r, u, role) \/ BeginUpdate(r, u, role)
  \/ CreateUser(r) \/ AssignRole(r) \/ Activate(r) \/ Deactivate(r)

Next ==
  \/ \E r \in Request : \/ Session(r) \/ Manage(r)
                        \/ BeginChange(r) \/ ChangePassword(r) \/ Abort(r)
  \/ \E u \in User : ResetPassword(u)

Spec == Init /\ [][Next]_vars

-----------------------------------------------------------------------------

TypeOK ==
  /\ user \in [User -> Account]
  /\ token \in [Token -> Row \cup {NoRow}]
  /\ req \in [Request -> Progress]
  /\ crossed \in BOOLEAN
  /\ spared \subseteq Token

\* "Cada refresh rotaciona o token": a refresh token is replaced by at most one
\* other, however many requests use it at once, and one that was revoked, by a
\* logout or with all sessions, is replaced by none.
OneSuccessor ==
  \A s, t \in Token :
    LET p == token[s].parent IN
      /\ Stored(s)
      /\ p # NoToken
      => /\ token[p].state = "rotated"
         /\ Stored(t) /\ token[t].parent = p => s = t

\* "Every successful change revokes all sessions": a refresh token stored
\* before the last password change of its user is not alive.
PasswordChangeEndsSessions ==
  \A t \in Token :
    Stored(t) /\ token[t].state = "live" => token[t].born = user[token[t].user].version

\* An account that is switched off has no live refresh token, once the request
\* that switched it off has revoked them, but for those spared.
InactiveHasNoSession ==
  \A t \in Token :
    /\ Stored(t)
    /\ token[t].state = "live"
    /\ ~user[token[t].user].active
    => \/ t \in spared
       \/ \E r \in Request : req[r].at = "revoke" /\ req[r].user = token[t].user

\* What "You cannot deactivate yourself" and "You cannot change your own role"
\* are for: the tenant keeps an active owner, unless two requests about users
\* overlapped.
OwnerRemains ==
  crossed \/ \E u \in User : user[u].role = "OWNER" /\ user[u].active
=============================================================================
