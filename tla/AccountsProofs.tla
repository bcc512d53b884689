--------------------------- MODULE AccountsProofs ---------------------------
(***************************************************************************)
(* For any users, tokens and requests: a refresh token has one successor,  *)
(* a password change ends the sessions stored before it, a deactivated     *)
(* account keeps none unnoticed, and the tenant keeps its owner as long as *)
(* requests about users do not overlap.                                    *)
(***************************************************************************)
EXTENDS Accounts, TLAPS

\* What requests carry.
RequestOK ==
  \A r \in Request :
    /\ req[r].at \in {"issue", "rotate", "reload", "revoke", "change", "assign",
                      "activate", "deactivate"} =>
         req[r].user \in User /\ Registered(req[r].user)
    /\ req[r].at = "create" => req[r].user \in User
    /\ req[r].at \in {"create", "assign"} => req[r].role \in Role
    /\ req[r].at \in {"rotate", "logout"} =>
         req[r].token \in Token /\ Stored(req[r].token)
    /\ req[r].at = "authenticated" => req[r].actor \in User

\* A refresh that has rotated its token and owes a new one.
Refreshing(r) ==
  req[r].at = "reload" \/ (req[r].at = "issue" /\ req[r].token # NoToken)

\* It is the only one to do so, and nobody has before.
OwesFirst(r) ==
  LET p == req[r].token IN
    /\ p \in Token
    /\ Stored(p)
    /\ token[p].state = "rotated"
    /\ \A t \in Token : Stored(t) => token[t].parent # p
    /\ \A q \in Request \ {r} : Refreshing(q) => req[q].token # p

RotationOK == \A r \in Request : Refreshing(r) => OwesFirst(r)

\* Only registered users have sessions or are active.
RegisteredOK ==
  /\ \A u \in User : user[u].active => Registered(u)
  /\ \A t \in Token : Stored(t) => Registered(token[t].user)
  /\ \A t \in Token : Stored(t) /\ token[t].parent # NoToken =>
                        token[t].parent \in Token /\ Stored(token[t].parent)

ActiveOwner(u) == user[u].role = "OWNER" /\ user[u].active

\* As long as no two requests about users overlap, an actor still is what the
\* guards saw, and whoever is about to lose ownership is not the last owner.
OwnerOK ==
  ~crossed => \A r \in Request :
    /\ req[r].at = "authenticated" => /\ user[req[r].actor].active
                                      /\ user[req[r].actor].role = req[r].role
    /\ req[r].at = "deactivate" \/ (req[r].at = "assign" /\ req[r].role # "OWNER") =>
         \E o \in User \ {req[r].user} : ActiveOwner(o)

\* The inductive invariant.
IInv ==
  /\ TypeOK
  /\ RequestOK
  /\ RotationOK
  /\ RegisteredOK
  /\ OwnerOK
  /\ OneSuccessor
  /\ PasswordChangeEndsSessions
  /\ InactiveHasNoSession
  /\ OwnerRemains

-----------------------------------------------------------------------------

LEMMA EmptyIsTyped ==
  0 \in Version /\ NoRequest \in Progress /\ NoAccount \in Account
<1>1. 0 \in Version
  BY ConstantsAssumption DEF Version
<1>. QED  BY <1>1 DEF NoRequest, Progress, NoAccount, Account

\* A request that reads, and remembers, or ends without having to revoke.
LEMMA ReadKeepsInvariant ==
  ASSUME IInv, NEW r \in Request, NEW new \in Progress,
         req[r].at # "revoke",
         Goto(r, new),
         UNCHANGED <<user, token, crossed, spared>>,
         new.at \in {"issue", "rotate", "reload", "revoke", "change", "assign",
                     "activate", "deactivate"} =>
           new.user \in User /\ Registered(new.user),
         new.at = "create" => new.user \in User,
         new.at \in {"create", "assign"} => new.role \in Role,
         new.at \in {"rotate", "logout"} => new.token \in Token /\ Stored(new.token),
         new.at = "authenticated" => /\ new.actor \in User
                                     /\ user[new.actor].active
                                     /\ user[new.actor].role = new.role,
         new.at = "reload" \/ (new.at = "issue" /\ new.token # NoToken) =>
           Refreshing(r) /\ new.token = req[r].token,
         ~crossed =>
           (new.at = "deactivate" \/ (new.at = "assign" /\ new.role # "OWNER") =>
              \E o \in User \ {new.user} : ActiveOwner(o))
  PROVE  IInv'
<1>. USE DEF IInv, Goto
<1>1. TypeOK'
  BY DEF TypeOK
<1>2. /\ req'[r] = new
      /\ \A q \in Request \ {r} : req'[q] = req[q]
  BY DEF TypeOK
<1>3. RequestOK'
  BY <1>2 DEF RequestOK, Registered, Stored
<1>4. RotationOK'
  BY <1>2 DEF RotationOK, OwesFirst, Refreshing, Stored
<1>5. OwnerOK'
  BY <1>2 DEF OwnerOK, ActiveOwner
<1>6. InactiveHasNoSession'
  BY <1>2 DEF InactiveHasNoSession, Stored
<1>7. /\ RegisteredOK'
      /\ OneSuccessor'
      /\ PasswordChangeEndsSessions'
      /\ OwnerRemains'
  BY DEF RegisteredOK, OneSuccessor, PasswordChangeEndsSessions, OwnerRemains,
         Registered, Stored
<1>. QED  BY <1>1, <1>3, <1>4, <1>5, <1>6, <1>7

\* Live tokens become revoked; accounts at most get a new version.
LEMMA RevokeKeepsInvariant ==
  ASSUME IInv,
         token' \in [Token -> Row \cup {NoRow}],
         \A t \in Token :
           \/ token'[t] = token[t]
           \/ /\ Stored(t)
              /\ token[t].state = "live"
              /\ token'[t] = [token[t] EXCEPT !.state = "revoked"],
         user' \in [User -> Account],
         \A u \in User : /\ user'[u].role = user[u].role
                         /\ user'[u].active = user[u].active,
         \A t \in Token : Stored(t) /\ token'[t].state = "live" =>
           user'[token[t].user].version = user[token[t].user].version,
         \/ req' = req
         \/ \E r \in Request : /\ End(r)
                               /\ req[r].at = "revoke" => \A t \in Token :
                                    Stored(t) /\ token[t].user = req[r].user =>
                                      token'[t].state # "live",
         UNCHANGED <<crossed, spared>>
  PROVE  IInv'
<1>. USE DEF IInv
<1>1. TypeOK'
  BY EmptyIsTyped DEF TypeOK, End, Goto
<1>2. \A q \in Request : req'[q] = req[q] \/ req'[q] = NoRequest
  BY DEF TypeOK, End, Goto
<1>3. \A t \in Token :
        /\ Stored(t)' <=> Stored(t)
        /\ Stored(t) => /\ token'[t].user = token[t].user
                        /\ token'[t].version = token[t].version
                        /\ token'[t].born = token[t].born
                        /\ token'[t].parent = token[t].parent
                        /\ token[t].state # "live" => token'[t].state = token[t].state
                        /\ token'[t].state = "live" => token[t].state = "live"
  <2>. SUFFICES ASSUME NEW t \in Token, Stored(t)
                PROVE  /\ Stored(t)'
                       /\ token'[t].user = token[t].user
                       /\ token'[t].version = token[t].version
                       /\ token'[t].born = token[t].born
                       /\ token'[t].parent = token[t].parent
                       /\ token[t].state # "live" => token'[t].state = token[t].state
                       /\ token'[t].state = "live" => token[t].state = "live"
    BY DEF Stored
  <2>1. token[t] \in Row
    BY DEF TypeOK, Stored
  <2>2. CASE token'[t] = token[t]
    BY <2>2 DEF Stored
  <2>3. CASE token[t].state = "live" /\ token'[t] = [token[t] EXCEPT !.state = "revoked"]
    <3>1. token'[t].user # NoUser
      BY <2>1, <2>3, ConstantsAssumption DEF Row
    <3>. QED  BY <2>1, <2>3, <3>1 DEF Row, Stored, NoRow
  <2>. QED  BY <2>2, <2>3
<1>4. \A u \in User : /\ Registered(u)' <=> Registered(u)
                      /\ ActiveOwner(u)' <=> ActiveOwner(u)
  BY DEF Registered, ActiveOwner
<1>5. \A t \in Token : Stored(t) => token[t].user \in User
  BY DEF TypeOK, Stored, Row
<1>6. NoRequest.at = "idle"
  BY DEF NoRequest
<1>7. RequestOK'
  BY <1>2, <1>3, <1>4, <1>6 DEF RequestOK
<1>8. RotationOK'
  BY <1>2, <1>3, <1>6 DEF RotationOK, OwesFirst, Refreshing
<1>9. RegisteredOK'
  BY <1>3, <1>4, <1>5 DEF RegisteredOK
<1>10. OwnerOK' /\ OwnerRemains'
  BY <1>2, <1>4, <1>6 DEF OwnerOK, OwnerRemains, RequestOK, ActiveOwner
<1>11. OneSuccessor'
  BY <1>3 DEF OneSuccessor, RegisteredOK
<1>12. PasswordChangeEndsSessions'
  BY <1>3 DEF PasswordChangeEndsSessions
<1>13. InactiveHasNoSession'
  <2>. SUFFICES ASSUME NEW t \in Token, Stored(t)', token'[t].state = "live",
                       ~user'[token'[t].user].active, t \notin spared
                PROVE  \E q \in Request : /\ req'[q].at = "revoke"
                                          /\ req'[q].user = token'[t].user
    BY DEF InactiveHasNoSession
  <2>1. /\ Stored(t)
        /\ token[t].state = "live"
        /\ token'[t].user = token[t].user
        /\ token[t].user \in User
        /\ ~user[token[t].user].active
    BY <1>3, <1>5
  <2>2. PICK q \in Request : req[q].at = "revoke" /\ req[q].user = token[t].user
    BY <2>1 DEF InactiveHasNoSession
  <2>3. req'[q] = req[q]
    BY <2>1, <2>2 DEF TypeOK, End, Goto
  <2>. QED  BY <2>1, <2>2, <2>3
<1>. QED  BY <1>1, <1>7, <1>8, <1>9, <1>10, <1>11, <1>12, <1>13

\* A live token has no successor, so the request that rotates it owes the first.
LEMMA RotateKeepsInvariant ==
  ASSUME IInv, NEW r \in Request, Rotate(r)
  PROVE  IInv'
<1>. DEFINE p == req[r].token
<1>. USE DEF IInv
<1>1. /\ req[r].at = "rotate"
      /\ p \in Token
      /\ Stored(p)
      /\ req[r].user \in User
      /\ Registered(req[r].user)
      /\ token[p] \in Row
      /\ req[r] \in Progress
      /\ UNCHANGED <<user, crossed, spared>>
  BY DEF Rotate, RequestOK, TypeOK, Stored
<1>2. CASE token[p].state # "live"
  <2>. DEFINE new == [NoRequest EXCEPT !.at = "revoke", !.user = req[r].user]
  <2>1. token' = token /\ Goto(r, new)
    BY <1>2 DEF Rotate
  <2>2. new \in Progress /\ new.at = "revoke" /\ new.user = req[r].user
    BY <1>1, EmptyIsTyped DEF Progress
  <2>. HIDE DEF new
  <2>. QED  BY <1>1, <2>1, <2>2, ReadKeepsInvariant
<1>3. CASE token[p].state = "live"
  <2>1. /\ token' = [token EXCEPT ![p] = [token[p] EXCEPT !.state = "rotated"]]
        /\ req' = [req EXCEPT ![r] = [req[r] EXCEPT !.at = "reload"]]
    BY <1>3 DEF Rotate, Goto
  <2>2. /\ token'[p] = [token[p] EXCEPT !.state = "rotated"]
        /\ \A t \in Token \ {p} : token'[t] = token[t]
        /\ req'[r] = [req[r] EXCEPT !.at = "reload"]
        /\ \A q \in Request \ {r} : req'[q] = req[q]
    BY <1>1, <2>1 DEF TypeOK
  <2>3. /\ req'[r] \in Progress
        /\ req'[r].at = "reload"
        /\ req'[r].user = req[r].user
        /\ req'[r].token = p
    BY <1>1, <2>2 DEF Progress
  <2>4. /\ token'[p] \in Row
        /\ token'[p].user = token[p].user
        /\ token'[p].parent = token[p].parent
        /\ token'[p].state = "rotated"
    BY <1>1, <2>2 DEF Row
  <2>5. \A t \in Token : /\ Stored(t)' <=> Stored(t)
                         /\ token'[t].user = token[t].user
                         /\ token'[t].parent = token[t].parent
                         /\ t # p => token'[t] = token[t]
    <3>1. token'[p] # NoRow
      BY <2>4, ConstantsAssumption DEF Row, NoRow
    <3>. QED  BY <1>1, <2>2, <2>4, <3>1 DEF Stored
  <2>. HIDE DEF p
  <2>6. TypeOK'
    BY <1>1, <2>1, <2>2, <2>3, <2>4 DEF TypeOK
  <2>7. /\ user' = user /\ crossed' = crossed /\ spared' = spared
        /\ \A q \in Request : q = r \/ req'[q] = req[q]
        /\ req[r].at = "rotate" /\ req[r].token = p
    BY <1>1, <2>2 DEF p
  <2>8. RequestOK'
    BY <1>1, <2>3, <2>5, <2>7 DEF RequestOK, Registered
  <2>9. \A t \in Token : Stored(t) => token[t].parent # p
    BY <1>1, <1>3, ConstantsAssumption DEF OneSuccessor
  <2>10. \A q \in Request \ {r} : Refreshing(q) => req[q].token # p
    BY <1>3 DEF RotationOK, OwesFirst
  <2>11. RotationOK'
    <3>1. \A q \in Request \ {r} : /\ Refreshing(q)' => Refreshing(q)
                                    /\ req'[q].token = req[q].token
      BY <2>7 DEF Refreshing
    <3>2. \A t \in Token : Stored(t)' => token'[t].parent # p
      BY <2>5, <2>9
    <3>3. ASSUME NEW q \in Request, Refreshing(q)'
          PROVE  OwesFirst(q)'
      <4>1. CASE q = r
        BY <4>1, <1>1, <2>3, <2>4, <2>5, <2>10, <3>1, <3>2 DEF OwesFirst
      <4>2. CASE q # r
        <5>1. /\ Refreshing(q)
              /\ req[q].token \in Token /\ req[q].token # p
              /\ Stored(req[q].token) /\ token[req[q].token].state = "rotated"
              /\ \A t \in Token : Stored(t) => token[t].parent # req[q].token
              /\ \A k \in Request \ {q} : Refreshing(k) => req[k].token # req[q].token
          BY <3>1, <3>3, <4>2, <2>10 DEF RotationOK, OwesFirst
        <5>. QED  BY <4>2, <5>1, <2>3, <2>5, <2>7, <3>1 DEF OwesFirst
      <4>. QED  BY <4>1, <4>2
    <3>. QED  BY <3>3 DEF RotationOK
  <2>12. RegisteredOK' /\ OneSuccessor'
    BY <1>1, <2>4, <2>5 DEF RegisteredOK, OneSuccessor, Registered
  <2>13. OwnerOK'
    BY <2>3, <2>7 DEF OwnerOK, ActiveOwner
  <2>14. OwnerRemains'
    BY <2>7 DEF OwnerRemains
  <2>15. PasswordChangeEndsSessions'
    BY <1>1, <2>4, <2>5 DEF PasswordChangeEndsSessions
  <2>16. InactiveHasNoSession'
    BY <1>1, <2>3, <2>4, <2>5, <2>7 DEF InactiveHasNoSession
  <2>. QED  BY <2>6, <2>8, <2>11, <2>12, <2>13, <2>14, <2>15, <2>16
<1>. QED  BY <1>2, <1>3

\* The successor that a rotation owes is stored once.
LEMMA IssueKeepsInvariant ==
  ASSUME IInv, NEW r \in Request, Issue(r)
  PROVE  IInv'
<1>. DEFINE u == req[r].user
            p == req[r].token
<1>. USE DEF IInv
<1>1. PICK n \in Token :
        /\ req[r].at = "issue"
        /\ ~Stored(n)
        /\ token' = [token EXCEPT ![n] =
             [user |-> u, version |-> req[r].version, born |-> user[u].version,
              parent |-> p, state |-> "live"]]
        /\ spared' = IF user[u].active THEN spared ELSE spared \cup {n}
        /\ End(r)
        /\ UNCHANGED <<user, crossed>>
  BY DEF Issue
<1>2. /\ u \in User
      /\ Registered(u)
      /\ p \in Token \cup {NoToken}
      /\ req[r].version \in Version
      /\ user[u].version \in Version
  BY <1>1 DEF RequestOK, TypeOK, Progress, Account
<1>3. /\ token'[n] \in Row
      /\ token'[n].user = u
      /\ token'[n].born = user[u].version
      /\ token'[n].parent = p
      /\ token'[n].state = "live"
      /\ \A t \in Token \ {n} : token'[t] = token[t]
  BY <1>1, <1>2 DEF TypeOK, Row
<1>4. /\ req'[r] = NoRequest
      /\ req'[r].at = "idle"
      /\ \A q \in Request \ {r} : req'[q] = req[q]
  BY <1>1 DEF TypeOK, End, Goto, NoRequest
<1>5. /\ Stored(n)'
      /\ \A t \in Token \ {n} : Stored(t)' <=> Stored(t)
  BY <1>3, ConstantsAssumption DEF Stored, Row, NoRow
<1>6. p # NoToken =>
        /\ p \in Token /\ p # n /\ Stored(p) /\ token[p].state = "rotated"
        /\ \A t \in Token : Stored(t) => token[t].parent # p
        /\ \A q \in Request \ {r} : Refreshing(q) => req[q].token # p
  BY <1>1, <1>2 DEF RotationOK, OwesFirst, Refreshing
<1>. HIDE DEF u, p
<1>7. TypeOK'
  BY <1>1, <1>3, EmptyIsTyped DEF TypeOK, End, Goto
<1>8. RequestOK'
  BY <1>1, <1>4, <1>5 DEF RequestOK, Registered
<1>9. RotationOK'
  <2>1. \A q \in Request : Refreshing(q)' => q # r /\ Refreshing(q) /\ req'[q] = req[q]
    BY <1>4 DEF Refreshing
  <2>2. \A q \in Request \ {r} : Refreshing(q) => req[q].token # p /\ req[q].token # n
    BY <1>1, <1>6, ConstantsAssumption DEF RotationOK, OwesFirst
  <2>. QED  BY <1>3, <1>5, <2>1, <2>2 DEF RotationOK, OwesFirst
<1>10. RegisteredOK'
  BY <1>1, <1>2, <1>3, <1>5, <1>6 DEF RegisteredOK, Registered
<1>11. OwnerOK' /\ OwnerRemains'
  BY <1>1, <1>4 DEF OwnerOK, OwnerRemains, ActiveOwner
<1>12. OneSuccessor'
  <2>. SUFFICES ASSUME NEW s \in Token, NEW t \in Token, Stored(s)',
                       token'[s].parent # NoToken
                PROVE  /\ token'[token'[s].parent].state = "rotated"
                       /\ Stored(t)' /\ token'[t].parent = token'[s].parent => s = t
    BY DEF OneSuccessor
  <2>1. CASE s = n
    BY <2>1, <1>3, <1>5, <1>6
  <2>2. CASE s # n
    <3>1. /\ Stored(s)
          /\ token'[s] = token[s]
          /\ token[s].parent \in Token /\ Stored(token[s].parent)
          /\ token[s].parent # n
      BY <2>2, <1>1, <1>3, <1>5 DEF RegisteredOK
    <3>2. token[s].parent # p
      BY <3>1, <1>6
    <3>3. CASE t = n
      BY <3>1, <3>2, <3>3, <1>3 DEF OneSuccessor
    <3>4. CASE t # n
      BY <3>1, <3>4, <1>3, <1>5 DEF OneSuccessor
    <3>. QED  BY <3>3, <3>4
  <2>. QED  BY <2>1, <2>2
<1>13. PasswordChangeEndsSessions'
  BY <1>1, <1>3, <1>5 DEF PasswordChangeEndsSessions
<1>14. InactiveHasNoSession'
  BY <1>1, <1>3, <1>4, <1>5 DEF InactiveHasNoSession
<1>. QED  BY <1>7, <1>8, <1>9, <1>10, <1>11, <1>12, <1>13, <1>14

-----------------------------------------------------------------------------

\* A write to one account by a request about users.
LEMMA AccountKeepsInvariant ==
  ASSUME IInv, NEW r \in Request, NEW u \in User, NEW row \in Account,
         NEW new \in Progress,
         user' = [user EXCEPT ![u] = row],
         Goto(r, new),
         UNCHANGED <<token, spared>>,
         row.role # "NONE",
         Registered(u) => row.version = user[u].version,
         req[r].at \in {"create", "assign", "activate", "deactivate"},
         new.at = "idle" \/ (new.at = "revoke" /\ new.user = u),
         ~row.active => ~user[u].active \/ new.at = "revoke",
         crossed' \in BOOLEAN,
         crossed => crossed',
         \/ crossed'
         \/ /\ Registered(u) => row.role = user[u].role
            /\ user[u].active => row.active
         \/ /\ \A q \in Request \ {r} : ~Deciding(q)
            /\ \E o \in User : ActiveOwner(o)'
  PROVE  IInv'
<1>. USE DEF IInv
<1>1. /\ user'[u] = row
      /\ \A v \in User \ {u} : user'[v] = user[v]
      /\ user' \in [User -> Account]
      /\ req'[r] = new
      /\ \A q \in Request \ {r} : req'[q] = req[q]
      /\ req' \in [Request -> Progress]
      /\ token' = token
      /\ spared' = spared
  BY DEF Goto, TypeOK
<1>2. TypeOK'
  BY <1>1 DEF TypeOK
<1>3. /\ Registered(u)'
      /\ \A v \in User : Registered(v) => Registered(v)'
  BY <1>1 DEF Registered
<1>4. \A t \in Token : /\ Stored(t)' <=> Stored(t)
                       /\ Stored(t) => token[t].user \in User
  BY <1>1 DEF Stored, TypeOK, Row
<1>5. RequestOK'
  BY <1>1, <1>3, <1>4 DEF RequestOK
<1>6. RotationOK'
  <2>1. \A q \in Request : Refreshing(q)' => q # r /\ Refreshing(q) /\ req'[q] = req[q]
    BY <1>1 DEF Refreshing
  <2>. QED  BY <1>1, <1>4, <2>1 DEF RotationOK, OwesFirst
<1>7. RegisteredOK'
  BY <1>1, <1>3, <1>4 DEF RegisteredOK
<1>8. OneSuccessor'
  BY <1>1, <1>4 DEF OneSuccessor
<1>9. PasswordChangeEndsSessions'
  BY <1>1, <1>4 DEF PasswordChangeEndsSessions, RegisteredOK
<1>10. InactiveHasNoSession'
  <2>. SUFFICES ASSUME NEW t \in Token, Stored(t), token[t].state = "live",
                       ~user'[token[t].user].active, t \notin spared
                PROVE  \E q \in Request : /\ req'[q].at = "revoke"
                                          /\ req'[q].user = token[t].user
    BY <1>1, <1>4 DEF InactiveHasNoSession
  <2>1. CASE token[t].user = u /\ new.at = "revoke"
    BY <2>1, <1>1
  <2>2. CASE ~user[token[t].user].active
    <3>1. PICK q \in Request : req[q].at = "revoke" /\ req[q].user = token[t].user
      BY <2>2 DEF InactiveHasNoSession
    <3>. QED  BY <3>1, <1>1
  <2>. QED  BY <2>1, <2>2, <1>1, <1>4
<1>11. OwnerOK' /\ OwnerRemains'
  <2>1. CASE crossed'
    BY <2>1 DEF OwnerOK, OwnerRemains
  <2>2. CASE ~crossed' /\ (Registered(u) => row.role = user[u].role)
                       /\ (user[u].active => row.active)
    <3>1. \A o \in User : ActiveOwner(o) => ActiveOwner(o)'
      BY <2>2, <1>1 DEF ActiveOwner, Registered
    <3>2. OwnerRemains'
      BY <2>2, <3>1 DEF OwnerRemains, ActiveOwner
    <3>3. \A v \in User : user[v].active => /\ user'[v].active
                                           /\ user'[v].role = user[v].role
      BY <2>2, <1>1 DEF RegisteredOK
    <3>4. OwnerOK'
      BY <2>2, <3>1, <3>3, <1>1 DEF OwnerOK, RequestOK
    <3>. QED  BY <3>2, <3>4
  <2>3. CASE ~crossed' /\ (\A q \in Request \ {r} : ~Deciding(q))
                       /\ \E o \in User : ActiveOwner(o)'
    <3>1. OwnerRemains'
      BY <2>3 DEF OwnerRemains, ActiveOwner
    <3>2. OwnerOK'
      BY <2>3, <1>1 DEF OwnerOK, Deciding
    <3>. QED  BY <3>1, <3>2
  <2>. QED  BY <2>1, <2>2, <2>3
<1>. QED  BY <1>2, <1>5, <1>6, <1>7, <1>8, <1>9, <1>10, <1>11

-----------------------------------------------------------------------------

\* A request that dies before its revocation leaves the sessions it spares.
LEMMA AbortKeepsInvariant ==
  ASSUME IInv, NEW r \in Request, Abort(r)
  PROVE  IInv'
<1>0. NoRequest.at = "idle"
  BY DEF NoRequest
<1>1. CASE req[r].at # "revoke"
  BY <1>0, <1>1, EmptyIsTyped, ReadKeepsInvariant DEF Abort, End
<1>2. CASE req[r].at = "revoke"
  <2>. USE DEF IInv
  <2>1. /\ req'[r] = NoRequest
        /\ \A q \in Request \ {r} : req'[q] = req[q]
        /\ req' \in [Request -> Progress]
        /\ user' = user /\ token' = token /\ crossed' = crossed
        /\ spared' = spared \cup LiveOf(req[r].user)
    BY <1>2, EmptyIsTyped DEF Abort, End, Goto, TypeOK
  <2>2. TypeOK'
    BY <2>1 DEF TypeOK, LiveOf
  <2>3. RequestOK'
    BY <1>0, <2>1 DEF RequestOK, Registered, Stored
  <2>4. RotationOK'
    <3>1. \A q \in Request : Refreshing(q)' => q # r /\ Refreshing(q) /\ req'[q] = req[q]
      BY <1>0, <2>1 DEF Refreshing
    <3>. QED  BY <2>1, <3>1 DEF RotationOK, OwesFirst, Stored
  <2>5. OwnerOK'
    BY <1>0, <2>1 DEF OwnerOK, ActiveOwner
  <2>6. RegisteredOK' /\ OneSuccessor' /\ PasswordChangeEndsSessions' /\ OwnerRemains'
    BY <2>1 DEF RegisteredOK, OneSuccessor, PasswordChangeEndsSessions, OwnerRemains,
                Registered, Stored
  <2>7. InactiveHasNoSession'
    <3>. SUFFICES ASSUME NEW t \in Token, Stored(t), token[t].state = "live",
                         ~user[token[t].user].active, t \notin spared'
                  PROVE  \E q \in Request : /\ req'[q].at = "revoke"
                                            /\ req'[q].user = token[t].user
      BY <2>1 DEF InactiveHasNoSession, Stored
    <3>1. PICK q \in Request : req[q].at = "revoke" /\ req[q].user = token[t].user
      BY <2>1 DEF InactiveHasNoSession
    <3>2. q # r
      BY <2>1, <3>1 DEF LiveOf
    <3>. QED  BY <2>1, <3>1, <3>2
  <2>. QED  BY <2>2, <2>3, <2>4, <2>5, <2>6, <2>7
<1>. QED  BY <1>1, <1>2

\* Every session step.
LEMMA SessionKeepsInvariant ==
  ASSUME IInv, NEW r \in Request, Session(r)
  PROVE  IInv'
<1>0. /\ NoRequest.at = "idle" /\ NoRequest.token = NoToken
      /\ NoRequest.actor = NoUser /\ NoRequest.user = NoUser
      /\ NoRequest \in Progress
  BY EmptyIsTyped DEF NoRequest
<1>1. ASSUME NEW u \in User, BeginLogin(r, u)
      PROVE  IInv'
  <2>. DEFINE new == [NoRequest EXCEPT !.at = "issue", !.user = u,
                                       !.version = user[u].version]
  <2>1. Registered(u) /\ user[u].version \in Version
    BY <1>1 DEF BeginLogin, IInv, RegisteredOK, TypeOK, Account
  <2>2. /\ new \in Progress
        /\ new.at = "issue" /\ new.user = u /\ new.token = NoToken
    BY <1>0, <2>1 DEF Progress
  <2>3. req[r].at = "idle" /\ Goto(r, new) /\ UNCHANGED <<user, token, crossed, spared>>
    BY <1>0, <1>1 DEF BeginLogin
  <2>. HIDE DEF new
  <2>. QED  BY <2>1, <2>2, <2>3, ReadKeepsInvariant
<1>2. ASSUME NEW t \in Token, BeginRefresh(r, t)
      PROVE  IInv'
  <2>. DEFINE new == [NoRequest EXCEPT !.at = "rotate", !.user = token[t].user,
                                       !.token = t]
  <2>1. Stored(t) /\ token[t].user \in User /\ Registered(token[t].user)
    BY <1>2 DEF BeginRefresh, IInv, RegisteredOK, TypeOK, Row, Stored
  <2>2. /\ new \in Progress
        /\ new.at = "rotate" /\ new.user = token[t].user /\ new.token = t
    BY <1>0, <2>1 DEF Progress
  <2>3. req[r].at = "idle" /\ Goto(r, new) /\ UNCHANGED <<user, token, crossed, spared>>
    BY <1>0, <1>2 DEF BeginRefresh
  <2>. HIDE DEF new
  <2>. QED  BY <2>1, <2>2, <2>3, ReadKeepsInvariant
<1>3. ASSUME NEW t \in Token, BeginLogout(r, t)
      PROVE  IInv'
  <2>. DEFINE new == [NoRequest EXCEPT !.at = "logout", !.token = t]
  <2>1. new \in Progress /\ new.at = "logout" /\ new.token = t
    BY <1>0 DEF Progress
  <2>2. /\ req[r].at = "authenticated" /\ Stored(t) /\ Goto(r, new)
        /\ UNCHANGED <<user, token, crossed, spared>>
    BY <1>3 DEF BeginLogout
  <2>. HIDE DEF new
  <2>. QED  BY <2>1, <2>2, ReadKeepsInvariant
<1>4. CASE Reload(r)
  <2>. DEFINE u == req[r].user
              new == IF user[u].active
                     THEN [req[r] EXCEPT !.at = "issue", !.version = user[u].version]
                     ELSE NoRequest
  <2>1. /\ u \in User /\ Registered(u) /\ user[u].version \in Version
        /\ req[r] \in Progress
    BY <1>4 DEF Reload, IInv, RequestOK, TypeOK, Account
  <2>2. /\ new \in Progress
        /\ new.at = "idle" \/ (new.at = "issue" /\ new.user = u /\ new.token = req[r].token)
    BY <1>0, <2>1 DEF Progress
  <2>3. /\ req[r].at = "reload" /\ Goto(r, new)
        /\ UNCHANGED <<user, token, crossed, spared>>
    BY <1>4 DEF Reload, End
  <2>. HIDE DEF new
  <2>. QED  BY <2>1, <2>2, <2>3, ReadKeepsInvariant DEF Refreshing
<1>5. CASE Rotate(r)
  BY <1>5, RotateKeepsInvariant
<1>6. CASE Issue(r)
  BY <1>6, IssueKeepsInvariant
<1>7. CASE RevokeSessions(r)
  <2>1. \A t \in Token : token'[t] = IF t \in LiveOf(req[r].user)
                                     THEN [token[t] EXCEPT !.state = "revoked"]
                                     ELSE token[t]
    BY <1>7 DEF RevokeSessions, Revoked
  <2>2. token' \in [Token -> Row \cup {NoRow}]
    BY <1>7 DEF RevokeSessions, Revoked, LiveOf, Stored, IInv, TypeOK, Row
  <2>3. \A t \in Token : Stored(t) /\ token[t].user = req[r].user =>
                           token'[t].state # "live"
    BY <2>1 DEF LiveOf, Stored, IInv, TypeOK, Row
  <2>4. user' = user /\ user \in [User -> Account] /\ End(r) /\ UNCHANGED <<crossed, spared>>
    BY <1>7 DEF RevokeSessions, IInv, TypeOK
  <2>5. \A t \in Token :
          \/ token'[t] = token[t]
          \/ /\ Stored(t)
             /\ token[t].state = "live"
             /\ token'[t] = [token[t] EXCEPT !.state = "revoked"]
    BY <2>1 DEF LiveOf
  <2>. QED  BY <2>2, <2>3, <2>4, <2>5, RevokeKeepsInvariant
<1>8. CASE Logout(r)
  <2>. DEFINE p == req[r].token
  <2>1. /\ p \in Token /\ Stored(p) /\ token[p] \in Row
        /\ req[r].at = "logout"
        /\ user' = user /\ user \in [User -> Account] /\ End(r)
        /\ UNCHANGED <<crossed, spared>>
        /\ token' = [token EXCEPT ![p] =
             [token[p] EXCEPT !.state = IF token[p].state = "live" THEN "revoked"
                                        ELSE token[p].state]]
    BY <1>8 DEF Logout, IInv, RequestOK, TypeOK, Stored
  <2>2. token' \in [Token -> Row \cup {NoRow}]
    BY <2>1 DEF IInv, TypeOK, Row
  <2>3. \A t \in Token :
          \/ token'[t] = token[t]
          \/ /\ Stored(t)
             /\ token[t].state = "live"
             /\ token'[t] = [token[t] EXCEPT !.state = "revoked"]
    BY <2>1 DEF IInv, TypeOK, Row
  <2>. HIDE DEF p
  <2>. QED  BY <2>1, <2>2, <2>3, RevokeKeepsInvariant
<1>. QED  BY <1>1, <1>2, <1>3, <1>4, <1>5, <1>6, <1>7, <1>8 DEF Session

\* Every step of a request about users.
LEMMA ManageKeepsInvariant ==
  ASSUME IInv, NEW r \in Request, Manage(r)
  PROVE  IInv'
<1>0. /\ NoRequest.at = "idle" /\ NoRequest.token = NoToken
      /\ NoRequest.actor = NoUser /\ NoRequest.user = NoUser
      /\ NoRequest \in Progress
  BY EmptyIsTyped DEF NoRequest
<1>1. ASSUME NEW u \in User, Authenticate(r, u)
      PROVE  IInv'
  <2>. DEFINE new == [NoRequest EXCEPT !.at = "authenticated", !.actor = u,
                                       !.role = user[u].role]
  <2>1. user[u].active /\ user[u].role \in Role \cup {"NONE"}
    BY <1>1 DEF Authenticate, IInv, TypeOK, Account
  <2>2. /\ new \in Progress
        /\ new.at = "authenticated" /\ new.actor = u /\ new.role = user[u].role
    BY <1>0, <2>1 DEF Progress
  <2>3. req[r].at = "idle" /\ Goto(r, new) /\ UNCHANGED <<user, token, crossed, spared>>
    BY <1>0, <1>1 DEF Authenticate
  <2>. HIDE DEF new
  <2>. QED  BY <2>1, <2>2, <2>3, ReadKeepsInvariant
<1>2. ASSUME NEW u \in User, NEW at \in {"create", "assign", "activate", "deactivate"},
             NEW role \in Role \cup {"NONE"},
             req[r].at = "authenticated",
             Proceed(r, at, u, role),
             at # "create" => Registered(u),
             at \in {"create", "assign"} => role \in Role,
             ~crossed => (at = "deactivate" \/ (at = "assign" /\ role # "OWNER") =>
                            \E o \in User \ {u} : ActiveOwner(o))
      PROVE  IInv'
  <2>. DEFINE new == [NoRequest EXCEPT !.at = at, !.user = u, !.role = role]
  <2>1. new \in Progress /\ new.at = at /\ new.user = u /\ new.role = role
    BY <1>0 DEF Progress
  <2>2. Goto(r, new) /\ UNCHANGED <<user, token, crossed, spared>>
    BY <1>2 DEF Proceed
  <2>. HIDE DEF new
  <2>. QED  BY <1>2, <2>1, <2>2, ReadKeepsInvariant
\* Whoever may modify an owner is an owner; whoever is not one cannot be the last.
<1>3. ASSUME NEW u \in User, Managing(r), MayModify(r, u), u # req[r].actor, ~crossed
      PROVE  \E o \in User \ {u} : ActiveOwner(o)
  <2>1. /\ req[r].actor \in User
        /\ user[req[r].actor].active
        /\ user[req[r].actor].role = req[r].role
    BY <1>3 DEF Managing, IInv, RequestOK, OwnerOK
  <2>2. CASE user[u].role = "OWNER"
    BY <1>3, <2>1, <2>2 DEF MayModify, ActiveOwner
  <2>3. CASE user[u].role # "OWNER"
    BY <1>3, <2>3 DEF IInv, OwnerRemains, ActiveOwner
  <2>. QED  BY <2>2, <2>3
<1>4. ASSUME NEW u \in User, NEW role \in Role, BeginCreate(r, u, role)
      PROVE  IInv'
  BY <1>2, <1>4 DEF BeginCreate, Managing
<1>5. ASSUME NEW u \in User, NEW role \in Role, BeginUpdate(r, u, role)
      PROVE  IInv'
  <2>1. ~crossed /\ role # "OWNER" => \E o \in User \ {u} : ActiveOwner(o)
    <3>1. CASE u # req[r].actor
      BY <1>3, <1>5, <3>1 DEF BeginUpdate
    <3>2. CASE u = req[r].actor
      BY <1>5, <3>2 DEF BeginUpdate, IInv, OwnerRemains, ActiveOwner
    <3>. QED  BY <3>1, <3>2
  <2>. QED  BY <1>2, <1>5, <2>1 DEF BeginUpdate, Managing
<1>6. ASSUME NEW u \in User, BeginActivate(r, u)
      PROVE  IInv'
  BY <1>2, <1>6 DEF BeginActivate, Managing
<1>7. ASSUME NEW u \in User, BeginDeactivate(r, u)
      PROVE  IInv'
  BY <1>2, <1>3, <1>7 DEF BeginDeactivate, Managing
<1>8. CASE CreateUser(r)
  <2>. DEFINE u   == req[r].user
              row == [NoAccount EXCEPT !.role = req[r].role, !.active = TRUE]
  <2>1. u \in User /\ req[r].role \in Role /\ req[r].at = "create" /\ ~Registered(u)
    BY <1>8 DEF CreateUser, IInv, RequestOK
  <2>2. /\ row \in Account
        /\ row.role = req[r].role
        /\ row.active
    BY <2>1, EmptyIsTyped DEF Account, NoAccount
  <2>3. row.role # "NONE"
    BY <2>1, <2>2 DEF Role
  <2>4. /\ user' = [user EXCEPT ![u] = row]
        /\ Goto(r, NoRequest)
        /\ UNCHANGED <<token, spared>> /\ crossed' = crossed /\ crossed \in BOOLEAN
    BY <1>8 DEF CreateUser, End, IInv, TypeOK
  <2>. HIDE DEF u, row
  <2>. QED  BY <1>0, <2>1, <2>2, <2>3, <2>4, AccountKeepsInvariant
<1>9. CASE AssignRole(r)
  <2>. DEFINE u   == req[r].user
              row == [user[u] EXCEPT !.role = req[r].role]
  <2>1. /\ u \in User /\ req[r].role \in Role /\ req[r].at = "assign"
        /\ user[u] \in Account
    BY <1>9 DEF AssignRole, IInv, RequestOK, TypeOK
  <2>2. /\ row \in Account
        /\ row.role = req[r].role
        /\ row.active = user[u].active
        /\ row.version = user[u].version
    BY <2>1 DEF Account
  <2>3. row.role # "NONE"
    BY <2>1, <2>2 DEF Role
  <2>4. /\ user' = [user EXCEPT ![u] = row]
        /\ Goto(r, NoRequest)
        /\ UNCHANGED <<token, spared>>
        /\ crossed' = (crossed \/ \E q \in Request \ {r} : Deciding(q))
        /\ crossed \in BOOLEAN
    BY <1>9 DEF AssignRole, Decide, End, IInv, TypeOK
  <2>5. ~crossed => \E o \in User : ActiveOwner(o)'
    <3>. SUFFICES ASSUME ~crossed PROVE \E o \in User : ActiveOwner(o)'
      OBVIOUS
    <3>1. \A o \in User \ {u} : user'[o] = user[o]
      BY <2>4 DEF IInv, TypeOK
    <3>2. CASE row.role # "OWNER"
      <4>1. PICK o \in User \ {u} : ActiveOwner(o)
        BY <2>1, <2>2, <3>2 DEF IInv, OwnerOK
      <4>. QED  BY <3>1, <4>1 DEF ActiveOwner
    <3>3. CASE row.role = "OWNER"
      <4>1. PICK o \in User : ActiveOwner(o)
        BY DEF IInv, OwnerRemains, ActiveOwner
      <4>2. user'[u].role = "OWNER" /\ user'[u].active = user[u].active
        BY <2>1, <2>2, <2>4, <3>3 DEF IInv, TypeOK
      <4>. QED  BY <3>1, <4>1, <4>2 DEF ActiveOwner
    <3>. QED  BY <3>2, <3>3
  <2>6. (crossed' \in BOOLEAN) /\ (crossed => crossed')
        /\ (crossed' \/ ((\A q \in Request \ {r} : ~Deciding(q))
                         /\ \E o \in User : ActiveOwner(o)'))
    BY <2>4, <2>5
  <2>. HIDE DEF u, row
  <2>. QED  BY <1>0, <2>1, <2>2, <2>3, <2>4, <2>6, AccountKeepsInvariant
<1>10. CASE Activate(r)
  <2>. DEFINE u   == req[r].user
              row == [user[u] EXCEPT !.active = TRUE]
  <2>1. u \in User /\ Registered(u) /\ req[r].at = "activate" /\ user[u] \in Account
    BY <1>10 DEF Activate, IInv, RequestOK, TypeOK
  <2>2. /\ row \in Account /\ row.active
        /\ row.role = user[u].role /\ row.version = user[u].version
    BY <2>1 DEF Account
  <2>3. /\ user' = [user EXCEPT ![u] = row]
        /\ Goto(r, NoRequest)
        /\ UNCHANGED <<token, spared>> /\ crossed' = crossed /\ crossed \in BOOLEAN
    BY <1>10 DEF Activate, End, IInv, TypeOK
  <2>4. row.role # "NONE"
    BY <2>1, <2>2 DEF Registered
  <2>. HIDE DEF u, row
  <2>. QED  BY <1>0, <2>1, <2>2, <2>3, <2>4, AccountKeepsInvariant
<1>11. CASE Deactivate(r)
  <2>. DEFINE u   == req[r].user
              row == [user[u] EXCEPT !.active = FALSE]
              new == [NoRequest EXCEPT !.at = "revoke", !.user = u]
  <2>1. u \in User /\ Registered(u) /\ req[r].at = "deactivate" /\ user[u] \in Account
    BY <1>11 DEF Deactivate, IInv, RequestOK, TypeOK
  <2>2. /\ row \in Account /\ ~row.active
        /\ row.role = user[u].role /\ row.version = user[u].version
    BY <2>1 DEF Account
  <2>3. new \in Progress /\ new.at = "revoke" /\ new.user = u
    BY <1>0, <2>1 DEF Progress
  <2>4. /\ user' = [user EXCEPT ![u] = row]
        /\ Goto(r, new)
        /\ UNCHANGED <<token, spared>>
        /\ crossed' = (crossed \/ \E q \in Request \ {r} : Deciding(q))
        /\ crossed \in BOOLEAN
    BY <1>11 DEF Deactivate, Decide, IInv, TypeOK
  <2>5. row.role # "NONE"
    BY <2>1, <2>2 DEF Registered
  <2>6. ~crossed => \E o \in User : ActiveOwner(o)'
    <3>. SUFFICES ASSUME ~crossed PROVE \E o \in User : ActiveOwner(o)'
      OBVIOUS
    <3>1. \A o \in User \ {u} : user'[o] = user[o]
      BY <2>4 DEF IInv, TypeOK
    <3>2. PICK o \in User \ {u} : ActiveOwner(o)
      BY <2>1 DEF IInv, OwnerOK
    <3>. QED  BY <3>1, <3>2 DEF ActiveOwner
  <2>7. (crossed' \in BOOLEAN) /\ (crossed => crossed')
        /\ (crossed' \/ ((\A q \in Request \ {r} : ~Deciding(q))
                         /\ \E o \in User : ActiveOwner(o)'))
    BY <2>4, <2>6
  <2>. HIDE DEF u, row, new
  <2>. QED  BY <2>1, <2>2, <2>3, <2>4, <2>5, <2>7, AccountKeepsInvariant
<1>. QED  BY <1>1, <1>4, <1>5, <1>6, <1>7, <1>8, <1>9, <1>10, <1>11 DEF Manage

\* Password changes, by the user or through a link.
LEMMA PasswordKeepsInvariant ==
  ASSUME IInv,
         \/ \E r \in Request : BeginChange(r) \/ ChangePassword(r)
         \/ \E u \in User : ResetPassword(u)
  PROVE  IInv'
<1>1. ASSUME NEW r \in Request, BeginChange(r)
      PROVE  IInv'
  <2>. DEFINE a   == req[r].actor
              new == [NoRequest EXCEPT !.at = "change", !.user = a]
  <2>1. /\ req[r].at = "authenticated" /\ a \in User /\ Registered(a)
        /\ Goto(r, new) /\ UNCHANGED <<user, token, crossed, spared>>
    BY <1>1 DEF BeginChange, IInv, RequestOK, RegisteredOK
  <2>2. new \in Progress /\ new.at = "change" /\ new.user = a
    BY <2>1, EmptyIsTyped DEF Progress, NoRequest
  <2>. HIDE DEF a, new
  <2>. QED  BY <2>1, <2>2, ReadKeepsInvariant
<1>2. ASSUME NEW u \in User, ApplyPasswordChange(u), UNCHANGED <<crossed, spared>>,
             \/ req' = req
             \/ \E r \in Request : End(r) /\ req[r].at = "change"
      PROVE  IInv'
  <2>1. /\ user[u] \in Account
        /\ user[u].version < MaxVersion
        /\ user' = [user EXCEPT ![u] = [user[u] EXCEPT !.version = user[u].version + 1]]
    BY <1>2 DEF ApplyPasswordChange, IInv, TypeOK
  <2>2. user[u].version + 1 \in Version
    BY <2>1, ConstantsAssumption DEF Account, Version
  <2>3. /\ user' \in [User -> Account]
        /\ \A v \in User : /\ user'[v].role = user[v].role
                           /\ user'[v].active = user[v].active
                           /\ v # u => user'[v] = user[v]
    BY <2>1, <2>2 DEF IInv, TypeOK, Account
  <2>4. \A t \in Token : token'[t] = IF t \in LiveOf(u)
                                     THEN [token[t] EXCEPT !.state = "revoked"]
                                     ELSE token[t]
    BY <1>2 DEF ApplyPasswordChange, Revoked
  <2>5. token' \in [Token -> Row \cup {NoRow}]
    BY <1>2 DEF ApplyPasswordChange, Revoked, LiveOf, Stored, IInv, TypeOK, Row
  <2>6. \A t \in Token : Stored(t) /\ token[t].user = u => token'[t].state # "live"
    BY <2>4 DEF LiveOf, Stored, IInv, TypeOK, Row
  <2>7. \A t \in Token : Stored(t) /\ token'[t].state = "live" =>
          user'[token[t].user].version = user[token[t].user].version
    BY <2>3, <2>6 DEF Stored, IInv, TypeOK, Row
  <2>8. \A t \in Token :
          \/ token'[t] = token[t]
          \/ /\ Stored(t)
             /\ token[t].state = "live"
             /\ token'[t] = [token[t] EXCEPT !.state = "revoked"]
    BY <2>4 DEF LiveOf
  <2>9. \/ req' = req
        \/ \E r \in Request : End(r) /\ req[r].at # "revoke"
    BY <1>2
  <2>. QED  BY <1>2, <2>3, <2>5, <2>7, <2>8, <2>9, RevokeKeepsInvariant
<1>3. ASSUME NEW r \in Request, ChangePassword(r)
      PROVE  IInv'
  BY <1>2, <1>3 DEF ChangePassword, IInv, RequestOK
<1>4. ASSUME NEW u \in User, ResetPassword(u)
      PROVE  IInv'
  BY <1>2, <1>4 DEF ResetPassword
<1>. QED  BY <1>1, <1>3, <1>4

-----------------------------------------------------------------------------

LEMMA InitIsInvariant == Init => IInv
<1>. SUFFICES ASSUME Init PROVE IInv
  OBVIOUS
<1>1. PICK o \in User : user = [u \in User |->
        IF u = o THEN [NoAccount EXCEPT !.role = "OWNER", !.active = TRUE] ELSE NoAccount]
  BY DEF Init
<1>2. /\ user[o].role = "OWNER" /\ user[o].active
      /\ \A u \in User \ {o} : ~user[u].active
      /\ user \in [User -> Account]
  BY <1>1, EmptyIsTyped DEF NoAccount, Account, Role
<1>3. \A t \in Token : ~Stored(t)
  BY DEF Init, Stored
<1>4. \A r \in Request : req[r] = NoRequest /\ req[r].at = "idle"
  BY DEF Init, NoRequest
<1>5. TypeOK
  BY <1>2, EmptyIsTyped DEF Init, TypeOK
<1>6. RequestOK /\ RotationOK /\ OwnerOK
  BY <1>4 DEF RequestOK, RotationOK, Refreshing, OwnerOK
<1>7. RegisteredOK
  BY <1>2, <1>3 DEF RegisteredOK, Registered
<1>8. OneSuccessor /\ PasswordChangeEndsSessions /\ InactiveHasNoSession
  BY <1>3 DEF OneSuccessor, PasswordChangeEndsSessions, InactiveHasNoSession
<1>9. OwnerRemains
  BY <1>2 DEF OwnerRemains
<1>. QED  BY <1>5, <1>6, <1>7, <1>8, <1>9 DEF IInv

\* The invariant that the theorems below rest on: a refresh that has rotated its
\* token is the only one to owe a successor, and whoever is about to take
\* ownership away leaves another owner, as long as nobody interferes.
THEOREM InvariantHolds == Spec => []IInv
<1>1. IInv /\ [Next]_vars => IInv'
  <2>. SUFFICES ASSUME IInv, [Next]_vars
                PROVE  IInv'
    OBVIOUS
  <2>1. ASSUME NEW r \in Request, Session(r)
        PROVE  IInv'
    BY <2>1, SessionKeepsInvariant
  <2>2. ASSUME NEW r \in Request, Manage(r)
        PROVE  IInv'
    BY <2>2, ManageKeepsInvariant
  <2>3. ASSUME NEW r \in Request, Abort(r)
        PROVE  IInv'
    BY <2>3, AbortKeepsInvariant
  <2>4. CASE \/ \E r \in Request : BeginChange(r) \/ ChangePassword(r)
             \/ \E u \in User : ResetPassword(u)
    BY <2>4, PasswordKeepsInvariant
  <2>5. CASE UNCHANGED vars
    BY <2>5 DEF vars, IInv, TypeOK, RequestOK, RotationOK, OwesFirst, Refreshing,
                RegisteredOK, OwnerOK, ActiveOwner, OneSuccessor,
                PasswordChangeEndsSessions, InactiveHasNoSession, OwnerRemains,
                Registered, Stored
  <2>. QED  BY <2>1, <2>2, <2>3, <2>4, <2>5 DEF Next
<1>. QED  BY <1>1, InitIsInvariant, PTL DEF Spec

\* Every reachable state has the types of the Prisma models.
THEOREM TypeCorrect == Spec => []TypeOK
BY InvariantHolds, PTL DEF IInv

\* AuthService.refresh replaces a token once, whoever else uses it at that time,
\* and a token that logout or a password change revoked is replaced by none.
THEOREM TokenReplacedOnce == Spec => []OneSuccessor
BY InvariantHolds, PTL DEF IInv

\* A password change revokes every refresh token stored before it.
THEOREM SessionsEndWithPassword == Spec => []PasswordChangeEndsSessions
BY InvariantHolds, PTL DEF IInv

\* UsersService.setActive leaves a deactivated account no session unnoticed.
THEOREM SessionsEndWithAccount == Spec => []InactiveHasNoSession
BY InvariantHolds, PTL DEF IInv

\* The rules of UsersService on oneself and on owners keep an active owner.
THEOREM TenantKeepsOwner == Spec => []OwnerRemains
BY InvariantHolds, PTL DEF IInv
=============================================================================
