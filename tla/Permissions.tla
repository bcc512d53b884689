----------------------------- MODULE Permissions -----------------------------
(***************************************************************************)
(* Who may do what: the permissions of the system roles, those that the    *)
(* barbershop module contributes to them, and the guards every request     *)
(* passes before its handler.  A permission is a resource and a verb.      *)
(***************************************************************************)
EXTENDS Integers

Verb == {"read", "manage"}
On(resource)  == {<<resource, v>> : v \in Verb}
All           == <<"*", "*">>
TenantManage  == <<"tenant", "manage">>
TenantRead    == <<"tenant", "read">>
HoursManage   == <<"barbershop.settings", "manage">>

Role         == {"OWNER", "ADMIN", "MANAGER", "EMPLOYEE"}
BusinessType == {"BARBERSHOP", "SALON", "RETAIL", "SERVICES", "OTHER"}

Catalog == UNION {On(x) : x \in {"customers", "catalog", "sales"}}
Money   == UNION {On(x) : x \in {"payments", "subscriptions"}}

\* CORE_ROLE_DEFINITIONS
CoreRole ==
  [OWNER    |-> {All},
   ADMIN    |-> Catalog \cup Money \cup On("users")
                  \cup {TenantRead, <<"dashboard", "read">>, <<"audit", "read">>},
   MANAGER  |-> Catalog \cup Money
                  \cup {TenantRead, <<"users", "read">>, <<"dashboard", "read">>},
   EMPLOYEE |-> On("customers") \cup On("sales")
                  \cup {TenantRead, <<"catalog", "read">>, <<"subscriptions", "read">>}]

Barbers      == On("barbershop.barbers")
Appointments == On("barbershop.appointments")
Commissions  == On("barbershop.commissions")

\* BARBERSHOP_ROLE_PERMISSIONS
BarbershopRole ==
  [OWNER    |-> {},
   ADMIN    |-> Barbers \cup Appointments \cup Commissions \cup {HoursManage},
   MANAGER  |-> Barbers \cup Appointments \cup {<<"barbershop.commissions", "read">>},
   EMPLOYEE |-> Appointments \cup {<<"barbershop.barbers", "read">>}]

\* buildSystemRoles, which the start-up writes to the roles table.
SystemRole == [k \in Role |-> CoreRole[k] \cup BarbershopRole[k]]

\* hasPermission: exact, everything, or everything on the resource.
HasPermission(granted, required) ==
  {All, required, <<required[1], "*">>} \cap granted # {}

\* BusinessModuleGuard: a module is there for some types of business, the core
\* for all of them.
ModuleEnabled(type, types) == type \in types

\* PermissionsGuard, on a route that this guard has let the request pass to.
MayCall(role, type, required, types) ==
  ModuleEnabled(type, types) /\ HasPermission(SystemRole[role], required)
=============================================================================
