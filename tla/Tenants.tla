------------------------------- MODULE Tenants -------------------------------
(***************************************************************************)
(* Tenants: registration by TenantProvisioningService with the defaults    *)
(* that the barbershop module adds on TENANT_CREATED, and the changes that *)
(* members of a tenant make to it afterwards.                              *)
(*                                                                         *)
(* Repositories write to the tenant of the current asynchronous context,   *)
(* which the guards fill from the authenticated user and the listener from *)
(* the event.  Any member may call as soon as the tenant exists, also      *)
(* while the registration is still on its way to an answer.                *)
(***************************************************************************)
EXTENDS Permissions

CONSTANTS
  Tenant,       \* ids a tenant can get
  Email,
  Base,         \* the slug of every business name: all want the same
  Suffixed,     \* slugs with a random suffix
  Type,         \* business types that register
  Zone,         \* what the other fields of a tenant can hold
  Key, Value,   \* generic settings
  Sent,         \* settings a client can send
  Custom,       \* opening hours an owner can choose
  Default,      \* DEFAULT_OPERATING_HOURS
  Request,      \* HTTP requests that can be in flight at once
  Null

Settings == [Key -> Value \cup {Null}]
Empty    == [k \in Key |-> Null]
TenantRow == [owner : Email, slug : {Base} \cup Suffixed, type : Type,
              timezone : Zone, settings : Settings]

TenantsAssumption ==
  /\ Type \subseteq BusinessType
  /\ Base \notin Suffixed
  /\ Default \notin Custom
  /\ Sent \subseteq Settings
  /\ Null \notin Tenant \cup Value \cup Custom \cup {Default} \cup TenantRow

VARIABLES
  tenant,    \* the tenants table, each row with its owner's e-mail
  hours,     \* opening hours of each tenant, Null without a row
  context,   \* the tenant in the asynchronous context of each request
  req        \* what each request is doing and has read, and whether what it
             \* has read is overtaken by another request (history)

vars == <<tenant, hours, context, req>>

Idle == [at |-> "idle"]

Init ==
  /\ tenant = [t \in Tenant |-> Null]
  /\ hours = [t \in Tenant |-> Null]
  /\ context = [r \in Request |-> Null]
  /\ req = [r \in Request |-> Idle]

Exists(t)    == tenant[t] # Null
EmailUsed(e) == \E t \in Tenant : Exists(t) /\ tenant[t].owner = e
SlugUsed(s)  == \E t \in Tenant : Exists(t) /\ tenant[t].slug = s

Goto(r, next) == req' = [req EXCEPT ![r] = next]

\* From here on r works for the tenant t: runForTenant, or set by the guard.
Enter(r, t) == context' = [context EXCEPT ![r] = t]

\* The end of the context of a request.
Leave(r) == context' = [context EXCEPT ![r] = Null]

\* The registration that r is on goes on to its answer, outside any tenant.
Answering(r, t, handled) ==
  /\ Goto(r, [at |-> "answer", id |-> t, handled |-> handled])
  /\ Leave(r)

\* The end of a request.
End(r) == Goto(r, Idle) /\ Leave(r)

\* The end of one that has written what others, at that step, have read.
EndOvertaking(r, step, t) ==
  /\ req' = [q \in Request |->
       IF q = r THEN Idle
       ELSE IF req[q].at = step /\ context[q] = t
       THEN [req[q] EXCEPT !.overtaken = TRUE] ELSE req[q]]
  /\ Leave(r)

\* Mutant of Current: one context for all requests of the process.
CurrentOfAny(r) == context[CHOOSE q \in Request : context[q] # Null]

\* TenantContext.tenantId
Current(r) == context[r]

-----------------------------------------------------------------------------
\* register

BeginRegister(r, e, type) ==
  /\ req[r] = Idle
  /\ ~EmailUsed(e)
  /\ Goto(r, [at |-> "slug", email |-> e, type |-> type])
  /\ UNCHANGED <<tenant, hours, context>>

\* generateUniqueSlug looks once; the suffix is not looked up.
ChooseSlug(r) ==
  /\ req[r].at = "slug"
  /\ \E s \in IF SlugUsed(Base) THEN Suffixed ELSE {Base} :
       Goto(r, [at |-> "create", email |-> req[r].email, type |-> req[r].type,
                slug |-> s])
  /\ UNCHANGED <<tenant, hours, context>>

\* Mutant of Initializes: the listener does not look at the type.
InitializesAny(type) == TRUE

\* The listener of the barbershop module on TENANT_CREATED.
Initializes(type) == type = "BARBERSHOP"

\* createWithOwner: the tenant and its owner in one transaction, if neither
\* unique index refuses; then TENANT_CREATED is emitted and awaited.  The
\* listener works in a context of its own.
CreateWithOwner(r, t, zone) ==
  /\ req[r].at = "create"
  /\ ~Exists(t) /\ ~EmailUsed(req[r].email) /\ ~SlugUsed(req[r].slug)
  /\ tenant' = [tenant EXCEPT ![t] =
       [owner |-> req[r].email, slug |-> req[r].slug, type |-> req[r].type,
        timezone |-> zone, settings |-> Empty]]
  /\ IF Initializes(req[r].type)
     THEN Goto(r, [at |-> "find", id |-> t]) /\ Enter(r, t)
     ELSE Answering(r, t, TRUE)
  /\ UNCHANGED hours

\* Mutant of FindHours: the defaults are written without looking.
SkipFind(r) ==
  /\ req[r].at = "find"
  /\ Goto(r, [at |-> "defaults", id |-> req[r].id, overtaken |-> FALSE])
  /\ UNCHANGED <<tenant, hours, context>>

\* initializeDefaults looks for a row
FindHours(r) ==
  /\ req[r].at = "find"
  /\ IF hours[Current(r)] = Null
     THEN /\ Goto(r, [at |-> "defaults", id |-> req[r].id, overtaken |-> FALSE])
          /\ UNCHANGED context
     ELSE Answering(r, req[r].id, TRUE)
  /\ UNCHANGED <<tenant, hours>>

\* and upserts the defaults, over whatever has come meanwhile.
UpsertDefaults(r) ==
  /\ req[r].at = "defaults"
  /\ hours' = [hours EXCEPT ![Current(r)] = Default]
  /\ Answering(r, req[r].id, TRUE)
  /\ UNCHANGED tenant

\* The event emitter logs what a listener throws, and goes on.
ListenerFails(r) ==
  /\ req[r].at \in {"find", "defaults"}
  /\ Answering(r, req[r].id, FALSE)
  /\ UNCHANGED <<tenant, hours>>

AnswerRegister(r) ==
  /\ req[r].at = "answer"
  /\ End(r)
  /\ UNCHANGED <<tenant, hours>>

-----------------------------------------------------------------------------
\* Calls of members: JwtAuthGuard has loaded the user and its tenant,
\* TenantContextGuard sets the context, the other guards let the call in.

Permission(op) == IF op = "hours" THEN HoursManage ELSE TenantManage
Types(op)      == IF op = "hours" THEN {"BARBERSHOP"} ELSE BusinessType

\* A route that is not public needs a token, which only members have.
Authenticated(t) == Exists(t)

Admit(r, t, role, op) ==
  /\ req[r] = Idle
  /\ Authenticated(t)
  /\ MayCall(role, tenant[t].type, Permission(op), Types(op))
  /\ Goto(r, [at |-> op, member |-> t, role |-> role])
  /\ Enter(r, t)
  /\ UNCHANGED <<tenant, hours>>

\* updateSettings reads the settings of the current tenant
ReadSettings(r, sent) ==
  /\ req[r].at = "settings"
  /\ Goto(r, [at |-> "merge", member |-> req[r].member, role |-> req[r].role,
              current |-> tenant[Current(r)].settings, sent |-> sent,
              overtaken |-> FALSE])
  /\ UNCHANGED <<tenant, hours, context>>

MergeSettings(current, sent) ==
  [k \in Key |-> IF sent[k] = Null THEN current[k] ELSE sent[k]]

\* and writes them back with what was sent.
WriteSettings(r) ==
  /\ req[r].at = "merge"
  /\ tenant' = [tenant EXCEPT ![Current(r)].settings =
                  MergeSettings(req[r].current, req[r].sent)]
  /\ EndOvertaking(r, "merge", Current(r))
  /\ UNCHANGED hours

\* updateCurrent writes other columns, in one statement.
UpdateCurrent(r, zone) ==
  /\ req[r].at = "profile"
  /\ tenant' = [tenant EXCEPT ![Current(r)].timezone = zone]
  /\ End(r)
  /\ UNCHANGED hours

\* The settings of the barbershop, upserted whole.
UpdateHours(r, h) ==
  /\ req[r].at = "hours"
  /\ hours' = [hours EXCEPT ![Current(r)] = h]
  /\ EndOvertaking(r, "defaults", Current(r))
  /\ UNCHANGED tenant

\* The process dies, or the database refuses a statement.
Abort(r) ==
  /\ req[r] # Idle
  /\ End(r)
  /\ UNCHANGED <<tenant, hours>>

Next ==
  \E r \in Request :
    \/ \E e \in Email, type \in Type : BeginRegister(r, e, type)
    \/ ChooseSlug(r)
    \/ \E t \in Tenant, zone \in Zone : CreateWithOwner(r, t, zone)
    \/ FindHours(r) \/ UpsertDefaults(r) \/ ListenerFails(r) \/ AnswerRegister(r)
    \/ \E t \in Tenant, role \in Role, op \in {"settings", "profile", "hours"} :
         Admit(r, t, role, op)
    \/ \E sent \in Sent : ReadSettings(r, sent)
    \/ WriteSettings(r)
    \/ \E zone \in Zone : UpdateCurrent(r, zone)
    \/ \E h \in Custom : UpdateHours(r, h)
    \/ Abort(r)

Spec == Init /\ [][Next]_vars

-----------------------------------------------------------------------------

Progress ==
  {Idle}
    \cup [at : {"slug"}, email : Email, type : Type]
    \cup [at : {"create"}, email : Email, type : Type, slug : {Base} \cup Suffixed]
    \cup [at : {"find"}, id : Tenant]
    \cup [at : {"defaults"}, id : Tenant, overtaken : BOOLEAN]
    \cup [at : {"answer"}, id : Tenant, handled : BOOLEAN]
    \cup [at : {"settings", "profile", "hours"}, member : Tenant, role : Role]
    \cup [at : {"merge"}, member : Tenant, role : Role, current : Settings, sent : Sent,
          overtaken : BOOLEAN]

TypeOK ==
  /\ tenant \in [Tenant -> TenantRow \cup {Null}]
  /\ hours \in [Tenant -> Custom \cup {Default, Null}]
  /\ context \in [Request -> Tenant \cup {Null}]
  /\ req \in [Request -> Progress]

Acts(r, t, roles) ==
  /\ req'[r] # req[r]
  /\ \/ req[r].at \in {"find", "defaults"} /\ req[r].id = t
     \/ /\ req[r].at \in {"merge", "profile", "hours"}
        /\ req[r].member = t /\ req[r].role \in roles

\* "Manages the business except ownership-level settings": what a tenant is
\* changes by a request of its own owner only, and its opening hours by one
\* of its owner or administrator or by its own registration, whatever the
\* requests of other tenants are doing in the same process.
TenantChangesFromWithin ==
  [][\A t \in Tenant : Exists(t) =>
       /\ tenant'[t] # tenant[t] => \E r \in Request : Acts(r, t, {"OWNER"})
       /\ hours'[t] # hours[t] => \E r \in Request : Acts(r, t, {"OWNER", "ADMIN"})]_vars

\* What a member has chosen stays until a member sends something else: a
\* change of settings leaves alone the keys it did not send, and the defaults
\* never replace chosen opening hours, even if the event is handled late;
\* unless the choice fell between the two statements that the change of
\* settings, or initializeDefaults, consists of.
ChoicesAreKept ==
  [][\A t \in Tenant : Exists(t) =>
       /\ \A k \in Key : tenant'[t].settings[k] # tenant[t].settings[k] =>
            \E r \in Request :
              /\ req[r].at = "merge" /\ req'[r] # req[r]
              /\ req[r].overtaken \/ req[r].sent[k] \in {tenant'[t].settings[k]} \ {Null}
       /\ hours[t] \in Custom /\ hours'[t] \notin Custom =>
            \E r \in Request :
              req[r].at = "defaults" /\ req'[r] # req[r] /\ req[r].overtaken]_vars

\* No registration of a barbershop is answered before the shop has its opening
\* hours, unless the listener failed; no other business ever gets any.
HoursComeWithBarbershop ==
  /\ \A t \in Tenant : hours[t] # Null => tenant[t].type = "BARBERSHOP"
  /\ \A r \in Request :
       req[r].at = "answer" /\ req[r].handled /\ tenant[req[r].id].type = "BARBERSHOP"
       => hours[req[r].id] # Null
=============================================================================
