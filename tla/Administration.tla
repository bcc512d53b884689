--------------------------- MODULE Administration ---------------------------
(***************************************************************************)
(* What a tenant administers: opening hours and shifts, commission rules,  *)
(* the benefits of a plan, and the tenant itself.  The four components     *)
(* share no state, and the requests of each run between those of the       *)
(* others.                                                                 *)
(***************************************************************************)
EXTENDS Barbers

CONSTANTS
  Null, NoRule,
  Rule, Service, Product,                           \* of CommissionRules
  RuleValue, RuleUpdate, Price,
  PlanService, Quantity, Batch,                     \* of PlanBenefits
  Tenant, Email, Base, Suffixed, Type, Clock,       \* of Tenants
  Key, Setting, Sent, Custom, Standard

VARIABLES
  rules, update, stale,                             \* of CommissionRules
  onSale, plan, replace, list, last, overlapped,    \* of PlanBenefits
  tenant, opening, context, call                    \* of Tenants

Rules == INSTANCE CommissionRules WITH
  Value <- RuleValue, Update <- RuleUpdate, Base <- Price

Benefits == INSTANCE PlanBenefits WITH
  Service <- PlanService, active <- onSale, row <- plan, req <- replace

Tenancy == INSTANCE Tenants WITH
  Zone <- Clock, Value <- Setting, Default <- Standard,
  hours <- opening, req <- call

ASSUME AdministrationAssumption ==
  /\ Rules!ConstantsAssumption
  /\ Benefits!BenefitsAssumption
  /\ Tenancy!TenantsAssumption

rulesVars    == <<rules, update, stale>>
benefitsVars == <<onSale, plan, replace, list, last, overlapped>>
tenancyVars  == <<tenant, opening, context, call>>
all          == <<vars, rulesVars, benefitsVars, tenancyVars>>

-----------------------------------------------------------------------------

AdministrationInit == Init /\ Rules!Init /\ Benefits!Init /\ Tenancy!Init

BarbersStep  == Next /\ UNCHANGED <<rulesVars, benefitsVars, tenancyVars>>
RulesStep    == Rules!Next /\ UNCHANGED <<vars, benefitsVars, tenancyVars>>
BenefitsStep == Benefits!Next /\ UNCHANGED <<vars, rulesVars, tenancyVars>>
TenancyStep  == Tenancy!Next /\ UNCHANGED <<vars, rulesVars, benefitsVars>>

AdministrationNext == BarbersStep \/ RulesStep \/ BenefitsStep \/ TenancyStep

AdministrationSpec == AdministrationInit /\ [][AdministrationNext]_all

-----------------------------------------------------------------------------
\* The properties of the components, under the names of the whole.

AllTypesOK == TypeOK /\ Rules!TypeOK /\ Benefits!TypeOK /\ Tenancy!TypeOK

PickIsMostSpecific      == Rules!PickIsMostSpecific
CommissionWithinBase    == Rules!CommissionWithinBase
PlanIsLastList          == Benefits!PlanIsLastList
TenantChangesFromWithin == Tenancy!TenantChangesFromWithin
ChoicesAreKept          == Tenancy!ChoicesAreKept
HoursComeWithBarbershop == Tenancy!HoursComeWithBarbershop
=============================================================================
