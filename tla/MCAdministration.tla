--------------------------- MODULE MCAdministration ---------------------------
(***************************************************************************)
(* Administration for TLC.  Its components share no state, so that running *)
(* them at once would only multiply their states: each behaviour exercises *)
(* one of them, chosen in the initial state, while the others rest.        *)
(***************************************************************************)
EXTENDS Administration, TLC

CONSTANTS employee, cut, gel, suffixed, on, chosen

VARIABLE part   \* the component this behaviour exercises

-----------------------------------------------------------------------------
\* Barbers: days of four minutes.  The clock of the third zone is put back
\* in the middle of the second day.

Shut      == [closed |-> TRUE, open |-> NoTime, close |-> NoTime]
Day(o, c) == [closed |-> FALSE, open |-> o, close |-> c]

MCDefault == [w \in Weekday |-> IF w = 0 THEN Shut ELSE Day(1, 3)]

\* The last one is refused.
MCHours ==
  {[w \in Weekday |-> Day(0, 3)],
   [w \in Weekday |-> IF w = 1 THEN Day(1, 2) ELSE Shut],
   [w \in Weekday |-> Day(3, 1)]}

Same == [workStartTime |-> Unsent, workEndTime |-> Unsent, workDays |-> Unsent,
         userId |-> Unsent]

MCChange ==
  {[Same EXCEPT !.workStartTime = f, !.workEndTime = t] :
     f \in {Unsent, 1, 3}, t \in {Unsent, Erase, 2}}
  \cup {[Same EXCEPT !.workDays = {1}], [Same EXCEPT !.workDays = {}],
        [Same EXCEPT !.userId = employee]}

MCOffset ==
  [z \in Zone |-> [t \in Instant |->
     CASE z = "utc" -> 0 [] z = "west" -> -6 [] z = "dst" -> IF t < 11 THEN 2 ELSE 0]]

-----------------------------------------------------------------------------
\* The other components.

MCRuleValue == {5000, 15000}

\* Two rules, or two updates at once of one rule, for every barber and item.
FewChanges ==
  \/ Cardinality({u \in RuleUpdate : update[u] # Null}) <= 1
  \/ /\ Cardinality(DOMAIN rules) = 1
     /\ \A id \in DOMAIN rules : Rules!IsGeneric(rules[id]) /\ rules[id].barber = Null

MCType == {"BARBERSHOP", "RETAIL"}

\* One setting at a time.
MCSent ==
  {s \in [Key -> Setting \cup {Null}] : Cardinality({k \in Key : s[k] = on}) = 1}

-----------------------------------------------------------------------------

MCInit ==
  /\ part \in {"barbers", "rules", "benefits", "tenancy"}
  /\ part # "barbers" => hours = NoHours
  /\ AdministrationInit

MCNext ==
  /\ UNCHANGED part
  /\ \/ part = "barbers" /\ BarbersStep
     \/ part = "rules" /\ RulesStep /\ FewChanges'
     \/ part = "benefits" /\ BenefitsStep
     \/ part = "tenancy" /\ TenancyStep

MCSpec == MCInit /\ [][MCNext]_<<part, all>>

Symmetry ==
  Permutations(Request) \cup Permutations(Tenant) \cup Permutations(Email)
    \cup Permutations(Key) \cup Permutations(RuleUpdate)
=============================================================================
