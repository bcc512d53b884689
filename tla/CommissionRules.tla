--------------------------- MODULE CommissionRules ---------------------------
(***************************************************************************)
(* Commission rules and the algorithm that applies them: the rule methods  *)
(* of CommissionsService, and commission-calculator.ts.                    *)
(*                                                                         *)
(* Amounts are integers: money in cents, the value of a rule in hundredths *)
(* (of a percent, or of a currency unit), as the Decimal(10,2) columns.    *)
(***************************************************************************)
EXTENDS Integers, SequencesExt

CONSTANTS
  Rule,       \* ids a rule can get
  Barber,
  Service,
  Product,
  Value,      \* rule values in hundredths
  Update,     \* updateRule calls that can be in flight at once
  Base,       \* sums of money that commissions are taken from
  Null,       \* an empty column
  NoRule

Kind == {"PERCENTAGE", "FIXED"}

ConstantsAssumption ==
  /\ Value \subseteq Nat /\ Base \subseteq Nat
  /\ Service \cap Product = {}
  /\ Null \notin Barber \cup Service \cup Product
  /\ Null \notin Value /\ Null \notin Kind /\ Null \notin BOOLEAN
  /\ NoRule \notin Rule

Goods == Service \cup Product

RuleRow == [barber : Barber \cup {Null}, service : Service \cup {Null},
            product : Product \cup {Null}, type : Kind, value : Value,
            isActive : BOOLEAN]

VARIABLES
  rules,   \* the rules table: a function on the ids in use
  update,  \* the change each updateRule call will write, once validated, and
           \* whether the row has changed since (history)
  stale    \* rules last written by such an overtaken update (history)

vars == <<rules, update, stale>>

-----------------------------------------------------------------------------
\* commission-calculator.ts

IsGeneric(rule)      == rule.service = Null /\ rule.product = Null
Matches(rule, good)  == good \in {rule.service, rule.product}
Applies(rule, b, good) ==
  /\ rule.barber \in {b, Null}
  /\ IsGeneric(rule) \/ Matches(rule, good)

\* Mutant of Score: the barber weighs more than the item.
BarberFirst(rule, b, good) ==
  (IF Matches(rule, good) THEN 1 ELSE 0) + (IF rule.barber # Null THEN 2 ELSE 0)

Score(rule, b, good) ==
  (IF Matches(rule, good) THEN 2 ELSE 0) + (IF rule.barber # Null THEN 1 ELSE 0)

\* The loop of pickCommissionRule over the rules in the order of the query: best
\* is its state after n of them, and a later rule replaces the best one only when
\* its score is higher.
PickCommissionRule(ids, b, good) ==
  LET best[n \in 0..Len(ids)] ==
        IF n = 0 THEN [id |-> NoRule, score |-> -1]
        ELSE LET id == ids[n] IN
          IF Applies(rules[id], b, good) /\ Score(rules[id], b, good) > best[n - 1].score
          THEN [id |-> id, score |-> Score(rules[id], b, good)]
          ELSE best[n - 1]
  IN best[Len(ids)].id

\* findActiveRulesForBarber has no ORDER BY: any order may come back.
ActiveRules(b) ==
  {id \in DOMAIN rules : rules[id].isActive /\ rules[id].barber \in {b, Null}}

\* toDecimalPlaces(2, ROUND_HALF_UP) of n / d, for n, d >= 0.
RoundHalfUp(n, d) == (2 * n + d) \div (2 * d)

CalculateCommission(rule, base, quantity) ==
  IF rule.type = "PERCENTAGE"
  THEN RoundHalfUp(base * rule.value, 10000)
  ELSE rule.value * quantity

-----------------------------------------------------------------------------
\* The rule methods of CommissionsService.

\* Mutant of RuleValueOK: 100 is taken for a bound on 100 times the value.
LooseValueOK(type, value) == type = "PERCENTAGE" => value <= 100 * 10000

\* assertRuleValue: a percentage goes up to 100.00.
RuleValueOK(type, value) == type = "PERCENTAGE" => value <= 10000

Init ==
  /\ rules = [id \in {} |-> NoRule]
  /\ update = [u \in Update |-> Null]
  /\ stale = {}

CreateRule(id, row) ==
  /\ id \notin DOMAIN rules
  /\ row.service = Null \/ row.product = Null
  /\ RuleValueOK(row.type, row.value)
  /\ rules' = [i \in DOMAIN rules \cup {id} |-> IF i = id THEN row ELSE rules[i]]
  /\ UNCHANGED <<update, stale>>

\* Mutant of Updated: a type the request leaves out erases its column.
UpdatedWhole(dto, row) ==
  [type |-> dto.type, value |-> IF dto.value = Null THEN row.value ELSE dto.value]

\* A field the request leaves out keeps its column, so only a field that is
\* present is written.
Updated(dto, row) ==
  [type |-> IF dto.type = Null THEN row.type ELSE dto.type,
   value |-> IF dto.value = Null THEN row.value ELSE dto.value]

\* updateRule reads the row and validates the result of the change.
BeginUpdate(u, id, dto) ==
  /\ update[u] = Null
  /\ id \in DOMAIN rules
  /\ LET new == Updated(dto, rules[id]) IN RuleValueOK(new.type, new.value)
  /\ update' = [update EXCEPT ![u] = [id |-> id, dto |-> dto, overtaken |-> FALSE]]
  /\ UNCHANGED <<rules, stale>>

\* The UPDATE sets the fields of the request, whatever the row has by now.
WriteUpdate(u) ==
  /\ update[u] # Null
  /\ LET id  == update[u].id
         dto == update[u].dto
         new == Updated(dto, rules[id])
     IN  /\ rules' = [rules EXCEPT ![id].type = new.type,
                                   ![id].value = new.value,
                                   ![id].isActive = IF dto.isActive = Null
                                                    THEN @ ELSE dto.isActive]
         /\ update' = [v \in Update |->
              IF v = u THEN Null
              ELSE IF update[v] # Null /\ update[v].id = id
              THEN [update[v] EXCEPT !.overtaken = TRUE] ELSE update[v]]
         /\ stale' = IF update[u].overtaken THEN stale \cup {id} ELSE stale \ {id}

Dto == [type : Kind \cup {Null}, value : Value \cup {Null},
        isActive : BOOLEAN \cup {Null}]

Next ==
  \/ \E id \in Rule, row \in RuleRow : row.isActive /\ CreateRule(id, row)
  \/ \E u \in Update, id \in Rule, dto \in Dto : BeginUpdate(u, id, dto)
  \/ \E u \in Update : WriteUpdate(u)

Spec == Init /\ [][Next]_vars

-----------------------------------------------------------------------------
\* The precedence the calculator documents: "barber + item > item > barber
\* (generic) > global (generic). Item-specific rules never apply to other
\* items."  Tiers lists, from the most specific, the rules of each level.
Tier(ids, b, good, n) ==
  {id \in ids :
     LET r == rules[id] IN
       CASE n = 1 -> r.barber = b /\ good \in {r.service, r.product}
         [] n = 2 -> r.barber = Null /\ good \in {r.service, r.product}
         [] n = 3 -> r.barber = b /\ r.service = Null /\ r.product = Null
         [] n = 4 -> r.barber = Null /\ r.service = Null /\ r.product = Null}

MostSpecific(ids, b, good) ==
  IF \E n \in 1..4 : Tier(ids, b, good, n) # {}
  THEN Tier(ids, b, good,
            CHOOSE n \in 1..4 : /\ Tier(ids, b, good, n) # {}
                                /\ \A m \in 1..n - 1 : Tier(ids, b, good, m) = {})
  ELSE {NoRule}

\* In whatever order the query returns the rules, the one applied belongs to
\* the most specific level that has any.
PickIsMostSpecific ==
  \A b \in Barber, good \in Goods :
    \A ids \in SetToSeqs(ActiveRules(b)) :
      PickCommissionRule(ids, b, good) \in MostSpecific(ActiveRules(b), b, good)

\* A percentage rule never pays more than the price it is taken from, even
\* though its type and its value can be changed by different requests; unless
\* the last of them was validated against a row that another changed meanwhile.
CommissionWithinBase ==
  \A id \in DOMAIN rules \ stale : \A base \in Base :
    rules[id].type = "PERCENTAGE" => CalculateCommission(rules[id], base, 1) <= base

TypeOK ==
  /\ DOMAIN rules \subseteq Rule
  /\ \A id \in DOMAIN rules : rules[id] \in RuleRow
  /\ \A u \in Update : update[u] = Null \/ update[u] \in [id : Rule, dto : Dto, overtaken : BOOLEAN]
  /\ stale \subseteq Rule
=============================================================================
