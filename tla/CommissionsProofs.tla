-------------------------- MODULE CommissionsProofs --------------------------
(***************************************************************************)
(* For any sources, rules, listener runs and calls: no line of work is     *)
(* credited twice, and a commission that no two calls work on at once is   *)
(* settled once.                                                           *)
(***************************************************************************)
EXTENDS Commissions, TLAPS

\* A run of the listener that may still insert rows for its source.
Pending(j) == job[j].at \in {"exists", "read", "rules", "insert"}

\* What a run carries.
JobOK ==
  \A j \in Job :
    /\ job[j].at # "idle" => job[j].source \in Source
    /\ job[j].at = "rules" => job[j].barber \in Barber
    /\ job[j].at = "insert" => /\ job[j].barber \in Barber
                               /\ job[j].items \subseteq ItemsOf[job[j].source]

\* Sales have no unique index: they rely on an event that comes once.
SaleOnce ==
  /\ \A c \in Commission :
       Exists(c) /\ rows[c].source \in Sale => rows[c].source \in delivered
  /\ \A j \in Job : Pending(j) /\ job[j].source \in Sale =>
       /\ job[j].source \in delivered
       /\ RowsOf(job[j].source) = {}
       /\ \A k \in Job \ {j} : Pending(k) => job[k].source # job[j].source

\* What the only call on a row has read is still so.
CallOK ==
  /\ \A k \in Call : call[k].at # "idle" => call[k].id \in Commission
  /\ \A k \in Call : call[k].at = "idle" => call[k] = IdleCall
  /\ \A k \in Call : call[k].at # "idle" => Exists(call[k].id)
  /\ \A k, l \in Call :
       /\ k # l /\ call[k].at # "idle" /\ call[l].at # "idle"
       /\ call[k].id = call[l].id
       => call[k].id \in contested
  /\ \A k \in Call : call[k].at # "idle" /\ call[k].id \notin contested =>
       rows[call[k].id].status = "PENDING"

\* The inductive invariant.
IInv ==
  /\ TypeOK
  /\ JobOK
  /\ SaleOnce
  /\ CallOK
  /\ OneCommissionPerItem
  /\ PaidAtMatchesStatus

-----------------------------------------------------------------------------
\* The listener.

\* A run that goes on, or ends, without inserting.
LEMMA RunKeepsInvariant ==
  ASSUME IInv, NEW j \in Job, NEW new,
         job[j].at # "idle",
         new \in [at : {"idle", "read", "rules", "insert", "done"},
                  source : Source \cup {NoSource},
                  barber : Barber \cup {NoBarber}, items : SUBSET Item],
         new.at # "idle" => new.source = job[j].source,
         new.at \in {"read", "rules", "insert"} => Pending(j),
         new.at = "rules" => new.barber \in Barber,
         new.at = "insert" => /\ new.barber \in Barber
                              /\ new.items \subseteq ItemsOf[new.source],
         Step(j, new),
         UNCHANGED <<env, rows, call, contested>>
  PROVE  IInv'
<1>. USE DEF IInv, Step, env
<1>1. TypeOK'
  BY DEF TypeOK
<1>2. JobOK'
  BY DEF TypeOK, JobOK
<1>3. SaleOnce'
  <2>1. \A k \in Job : Pending(k)' => Pending(k) /\ job'[k].source = job[k].source
    BY DEF TypeOK, Pending
  <2>. QED  BY <2>1 DEF SaleOnce, RowsOf, Exists
<1>4. CallOK' /\ OneCommissionPerItem' /\ PaidAtMatchesStatus'
  BY DEF CallOK, OneCommissionPerItem, PaidAtMatchesStatus, Exists
<1>. QED  BY <1>1, <1>2, <1>3, <1>4

\* The event of a sale comes once, so no row and no run are there before it.
LEMMA DeliverKeepsInvariant ==
  ASSUME IInv, NEW j \in Job, NEW x \in Source, Deliver(j, x)
  PROVE  IInv'
<1>. USE DEF IInv, Deliver, Step, IdleJob
<1>1. TypeOK'
  BY DEF TypeOK
<1>2. JobOK'
  BY DEF TypeOK, JobOK
<1>3. SaleOnce'
  <2>1. /\ job'[j].source = x
        /\ \A k \in Job \ {j} : job'[k] = job[k]
    BY DEF TypeOK
  <2>2. x \in Sale => /\ RowsOf(x) = {}
                      /\ \A k \in Job : Pending(k) => job[k].source # x
    BY DEF SaleOnce, RowsOf
  <2>. QED  BY <2>1, <2>2 DEF SaleOnce, Pending, RowsOf, Exists
<1>4. CallOK' /\ OneCommissionPerItem' /\ PaidAtMatchesStatus'
  BY DEF CallOK, OneCommissionPerItem, PaidAtMatchesStatus, Exists
<1>. QED  BY <1>1, <1>2, <1>3, <1>4

\* An insertion only adds pending rows, for a source that has none.
LEMMA InsertAddsFreshRows ==
  ASSUME IInv, NEW j \in Job, InsertRows(j)
  PROVE  /\ rows' \in [Commission -> Row \cup {NoRow}]
         /\ \A c \in Commission : rows'[c] # rows[c] =>
              /\ ~Exists(c)
              /\ Exists(c)'
              /\ RowsOf(job[j].source) = {}
              /\ rows'[c].source = job[j].source
              /\ rows'[c].status = "PENDING"
              /\ ~rows'[c].paidAt
         /\ \A c, d \in Commission :
              /\ rows'[c] # rows[c]
              /\ rows'[d] # rows[d]
              /\ rows'[c].item = rows'[d].item
              => c = d
<1>. DEFINE x   == job[j].source
            due == IF Duplicate(x) THEN {} ELSE job[j].items
<1>1. PICK id \in [due -> Unused] :
        rows' = [c \in Commission |->
                   IF \E i \in due : id[i] = c
                   THEN [source |-> x, item |-> CHOOSE i \in due : id[i] = c,
                         barber |-> job[j].barber, status |-> "PENDING",
                         paidAt |-> FALSE]
                   ELSE rows[c]]
  BY DEF InsertRows
<1>2. /\ x \in Source
      /\ due \subseteq Item
      /\ job[j].barber \in Barber
      /\ Pending(j)
  BY DEF InsertRows, IInv, TypeOK, JobOK, Pending
<1>3. due # {} => RowsOf(x) = {}
  BY <1>2 DEF Duplicate, Source, IInv, SaleOnce
<1>4. \A c \in Commission : (\E i \in due : id[i] = c) =>
        LET i == CHOOSE i \in due : id[i] = c IN i \in due /\ id[i] = c
  OBVIOUS
<1>5. \A c \in Commission : (\E i \in due : id[i] = c) =>
        /\ rows'[c] \in Row
        /\ rows'[c].source = x
        /\ rows'[c].status = "PENDING"
        /\ ~rows'[c].paidAt
        /\ rows'[c].item \in due
        /\ id[rows'[c].item] = c
        /\ ~Exists(c)
        /\ due # {}
  <2>. SUFFICES ASSUME NEW c \in Commission, NEW i \in due, id[i] = c
                PROVE  /\ rows'[c] \in Row
                       /\ rows'[c].source = x
                       /\ rows'[c].status = "PENDING"
                       /\ ~rows'[c].paidAt
                       /\ rows'[c].item \in due
                       /\ id[rows'[c].item] = c
                       /\ ~Exists(c)
                       /\ due # {}
    OBVIOUS
  <2>. DEFINE n == CHOOSE m \in due : id[m] = c
  <2>1. n \in due /\ id[n] = c
    BY <1>4
  <2>2. rows'[c] = [source |-> x, item |-> n, barber |-> job[j].barber,
                    status |-> "PENDING", paidAt |-> FALSE]
    BY <1>1
  <2>. HIDE DEF n
  <2>. QED  BY <1>2, <2>1, <2>2 DEF Row, Unused
<1>6. \A c \in Commission : rows'[c] # rows[c] => \E i \in due : id[i] = c
  BY <1>1
<1>7. \A c \in Commission : ~(\E i \in due : id[i] = c) => rows'[c] = rows[c]
  BY <1>1
<1>8. DOMAIN rows' = Commission /\ rows' = [c \in Commission |-> rows'[c]]
  BY <1>1
<1>9. NoRow.source = NoSource
  BY DEF NoRow
<1>. HIDE DEF x, due
<1>10. rows' \in [Commission -> Row \cup {NoRow}]
  BY <1>5, <1>7, <1>8 DEF IInv, TypeOK
<1>11. \A c \in Commission : rows'[c] # rows[c] => Exists(c)'
  BY <1>2, <1>5, <1>6, <1>9, ConstantsAssumption DEF Exists
<1>. QED  BY <1>3, <1>5, <1>6, <1>10, <1>11 DEF x

LEMMA InsertKeepsInvariant ==
  ASSUME IInv, NEW j \in Job, InsertRows(j)
  PROVE  IInv'
<1>. DEFINE x == job[j].source
<1>. USE DEF IInv
<1>1. /\ job[j].at = "insert"
      /\ job' = [job EXCEPT ![j] = [job[j] EXCEPT !.at = "done"]]
      /\ UNCHANGED <<credit, covered, delivered, call, contested>>
  BY DEF InsertRows, Step, env
<1>2. x \in Source /\ Pending(j)
  BY <1>1 DEF JobOK, TypeOK, Pending
<1>3. /\ rows' \in [Commission -> Row \cup {NoRow}]
      /\ \A c \in Commission : rows'[c] # rows[c] =>
           /\ ~Exists(c)
           /\ Exists(c)'
           /\ RowsOf(x) = {}
           /\ rows'[c].source = x
           /\ rows'[c].status = "PENDING"
           /\ ~rows'[c].paidAt
      /\ \A c, d \in Commission :
           /\ rows'[c] # rows[c]
           /\ rows'[d] # rows[d]
           /\ rows'[c].item = rows'[d].item
           => c = d
  BY InsertAddsFreshRows
<1>4. TypeOK'
  <2>1. job' \in [Job -> [at : {"idle", "exists", "read", "rules", "insert", "done"},
                         source : Source \cup {NoSource},
                         barber : Barber \cup {NoBarber}, items : SUBSET Item]]
    BY <1>1 DEF TypeOK
  <2>. QED  BY <1>1, <1>3, <2>1 DEF TypeOK
<1>5. JobOK'
  BY <1>1 DEF TypeOK, JobOK
<1>6. \A k \in Job : Pending(k)' => /\ Pending(k)
                                    /\ k # j
                                    /\ job'[k] = job[k]
  BY <1>1 DEF TypeOK, Pending
<1>7. SaleOnce'
  <2>1. ASSUME NEW c \in Commission, Exists(c)', rows'[c].source \in Sale
        PROVE  rows'[c].source \in delivered'
    <3>1. CASE rows'[c] = rows[c]
      BY <2>1, <3>1, <1>1 DEF SaleOnce, Exists
    <3>2. CASE rows'[c] # rows[c]
      BY <2>1, <3>2, <1>1, <1>2, <1>3 DEF SaleOnce
    <3>. QED  BY <3>1, <3>2
  <2>2. ASSUME NEW k \in Job, Pending(k)', (job[k].source \in Sale)'
        PROVE  (/\ job[k].source \in delivered
                /\ RowsOf(job[k].source) = {}
                /\ \A m \in Job \ {k} : Pending(m) => job[m].source # job[k].source)'
    <3>1. /\ Pending(k) /\ job'[k] = job[k] /\ k # j
          /\ \A m \in Job : Pending(m)' => Pending(m) /\ job'[m] = job[m]
      BY <1>6, <2>2
    <3>2. job[k].source \in delivered /\ RowsOf(job[k].source) = {}
      BY <2>2, <3>1 DEF SaleOnce
    <3>3. \A m \in Job \ {k} : Pending(m) => job[m].source # job[k].source
      BY <2>2, <3>1 DEF SaleOnce
    <3>4. job[k].source # x
      BY <1>2, <3>1, <3>3
    <3>5. \A c \in Commission : Exists(c)' => rows'[c].source # job[k].source
      BY <1>3, <3>2, <3>4 DEF RowsOf, Exists
    <3>6. RowsOf(job[k].source)' = {}
      <4>1. (job[k].source)' = job[k].source
        BY <3>1
      <4>. QED  BY <3>5, <4>1 DEF RowsOf
    <3>. QED  BY <1>1, <3>1, <3>2, <3>3, <3>6
  <2>3. \A c \in Commission :
          Exists(c)' /\ rows'[c].source \in Sale => rows'[c].source \in delivered'
    BY <2>1
  <2>. QED  BY <2>2, <2>3 DEF SaleOnce
<1>8. CallOK'
  <2>1. \A c \in Commission : Exists(c) => rows'[c] = rows[c]
    BY <1>3
  <2>. QED  BY <1>1, <2>1 DEF CallOK, Exists
<1>9. OneCommissionPerItem'
  <2>. SUFFICES ASSUME NEW c \in Commission, NEW d \in Commission,
                       Exists(c)', Exists(d)',
                       rows'[c].source = rows'[d].source,
                       rows'[c].item = rows'[d].item
                PROVE  c = d
    BY DEF OneCommissionPerItem
  <2>1. CASE rows'[c] = rows[c] /\ rows'[d] = rows[d]
    BY <2>1 DEF OneCommissionPerItem, Exists
  <2>2. CASE rows'[c] # rows[c] /\ rows'[d] # rows[d]
    BY <2>2, <1>3
  <2>3. CASE rows'[c] # rows[c] /\ rows'[d] = rows[d]
    BY <2>3, <1>3 DEF RowsOf, Exists
  <2>4. CASE rows'[c] = rows[c] /\ rows'[d] # rows[d]
    BY <2>4, <1>3 DEF RowsOf, Exists
  <2>. QED  BY <2>1, <2>2, <2>3, <2>4
<1>10. PaidAtMatchesStatus'
  <2>. SUFFICES ASSUME NEW c \in Commission \ contested, Exists(c)'
                PROVE  (rows'[c].paidAt <=> rows'[c].status = "PAID")
    BY <1>1 DEF PaidAtMatchesStatus
  <2>1. CASE rows'[c] = rows[c]
    BY <2>1 DEF PaidAtMatchesStatus, Exists
  <2>2. CASE rows'[c] # rows[c]
    BY <2>2, <1>3
  <2>. QED  BY <2>1, <2>2
<1>. QED  BY <1>4, <1>5, <1>7, <1>8, <1>9, <1>10

LEMMA ListenerKeepsInvariant ==
  ASSUME IInv, NEW j \in Job, Work(j) \/ FailJob(j) \/ CrashJob(j)
  PROVE  IInv'
<1>1. job[j] \in [at : {"idle", "exists", "read", "rules", "insert", "done"},
                  source : Source \cup {NoSource},
                  barber : Barber \cup {NoBarber}, items : SUBSET Item]
  BY DEF IInv, TypeOK
<1>2. job[j].at # "idle" => job[j].source \in Source
  BY DEF IInv, JobOK
<1>3. CASE CheckExists(j)
  <2>1. PICK where \in {"read", "done"} : Step(j, [job[j] EXCEPT !.at = where])
    BY <1>3 DEF CheckExists
  <2>. QED  BY <1>1, <1>3, <2>1, RunKeepsInvariant DEF CheckExists, Pending
<1>4. CASE ReadSource(j)
  <2>1. credit[job[j].source] \in Barber \cup {NoBarber}
    BY <1>2, <1>4 DEF ReadSource, IInv, TypeOK
  <2>. QED  BY <1>1, <1>4, <2>1, RunKeepsInvariant DEF ReadSource, Pending
<1>5. CASE MatchRules(j)
  <2>1. job[j].barber \in Barber
    BY <1>5 DEF MatchRules, IInv, JobOK
  <2>2. ItemsOf[job[j].source] \cap covered[job[j].barber] \in SUBSET Item
    BY <1>2, <1>5, <2>1 DEF MatchRules, IInv, TypeOK
  <2>. QED  BY <1>1, <1>5, <2>1, <2>2, RunKeepsInvariant DEF MatchRules, Pending
<1>6. CASE InsertRows(j)
  BY <1>6, InsertKeepsInvariant
<1>7. CASE Return(j)
  BY <1>7, RunKeepsInvariant DEF Return, IdleJob
<1>8. CASE FailJob(j)
  BY <1>1, <1>8, RunKeepsInvariant DEF FailJob
<1>9. CASE CrashJob(j)
  BY <1>9, RunKeepsInvariant DEF CrashJob, IdleJob
<1>. QED  BY <1>3, <1>4, <1>5, <1>6, <1>7, <1>8, <1>9 DEF Work

-----------------------------------------------------------------------------
\* The calls.

\* A second call on a row is noticed; a sole one has just read its status.
LEMMA BeginKeepsInvariant ==
  ASSUME IInv, NEW k \in Call, NEW action \in {"pay", "cancel"},
         BeginCall(k, action)
  PROVE  IInv'
<1>. USE DEF IInv
<1>1. PICK c \in Commission :
        /\ call[k] = IdleCall
        /\ Exists(c)
        /\ rows[c].status = "PENDING"
        /\ Accept(k, action, c)
  BY DEF BeginCall
<1>2. /\ call' = [call EXCEPT ![k] = [at |-> action, id |-> c]]
      /\ UNCHANGED <<credit, covered, delivered, rows, job>>
      /\ contested \subseteq contested'
      /\ contested' \subseteq contested \cup {c}
      /\ (\E n \in Call : call[n].id = c) => c \in contested'
  BY <1>1 DEF Accept, env
<1>3. TypeOK'
  BY <1>2 DEF TypeOK
<1>4. JobOK' /\ OneCommissionPerItem'
  BY <1>2 DEF JobOK, OneCommissionPerItem, Exists
<1>5. SaleOnce'
  BY <1>2 DEF SaleOnce, Pending, RowsOf, Exists
<1>6. PaidAtMatchesStatus'
  BY <1>2 DEF PaidAtMatchesStatus, Exists
<1>7. CallOK'
  <2>1. /\ call'[k] = [at |-> action, id |-> c]
        /\ \A n \in Call \ {k} : call'[n] = call[n]
    BY <1>2 DEF TypeOK
  <2>2. Exists(c)' /\ rows'[c].status = "PENDING"
    BY <1>1, <1>2 DEF Exists
  <2>. QED  BY <1>2, <2>1, <2>2 DEF CallOK, Exists
<1>. QED  BY <1>3, <1>4, <1>5, <1>6, <1>7

\* An UPDATE settles a row that is there and keeps what it credits.  Another
\* call on that row has been noticed.
LEMMA SettleKeepsInvariant ==
  ASSUME IInv, NEW k \in Call, MarkPaid(k) \/ Cancel(k)
  PROVE  /\ IInv'
         /\ \A c \in Commission \ contested :
              Exists(c) /\ rows[c].status # "PENDING" => rows'[c] = rows[c]
<1>. DEFINE c == call[k].id
<1>. USE DEF IInv
<1>1. /\ c \in Commission
      /\ Exists(c)
      /\ rows[c] \in Row
      /\ c \notin contested => rows[c].status = "PENDING" /\ ~rows[c].paidAt
  BY DEF MarkPaid, Cancel, CallOK, TypeOK, Exists, PaidAtMatchesStatus
<1>2. PICK s \in {"PAID", "CANCELLED"}, p \in BOOLEAN :
        /\ rows' = [rows EXCEPT ![c] = [rows[c] EXCEPT !.status = s, !.paidAt = p]]
        /\ c \notin contested => (p <=> s = "PAID")
  <2>1. CASE MarkPaid(k)
    <3>1. rows' = [rows EXCEPT ![c] = [rows[c] EXCEPT !.status = "PAID",
                                                      !.paidAt = TRUE]]
      BY <1>1, <2>1 DEF MarkPaid, TypeOK, Row
    <3>. QED  BY <3>1
  <2>2. CASE Cancel(k)
    <3>1. rows' = [rows EXCEPT ![c] = [rows[c] EXCEPT !.status = "CANCELLED",
                                                      !.paidAt = rows[c].paidAt]]
      BY <1>1, <2>2 DEF Cancel, TypeOK, Row
    <3>. QED  BY <1>1, <3>1 DEF Row
  <2>. QED  BY <2>1, <2>2
<1>3. /\ call' = [call EXCEPT ![k] = IdleCall]
      /\ UNCHANGED <<credit, covered, delivered, job, contested>>
  BY DEF MarkPaid, Cancel, env
<1>4. /\ rows'[c] \in Row
      /\ rows'[c].source = rows[c].source
      /\ rows'[c].item = rows[c].item
      /\ rows'[c].status = s
      /\ rows'[c].paidAt = p
      /\ \A d \in Commission \ {c} : rows'[d] = rows[d]
      /\ DOMAIN rows' = Commission
      /\ rows' \in [Commission -> Row \cup {NoRow}]
  BY <1>1, <1>2 DEF TypeOK, Row
<1>5. \A d \in Commission : /\ Exists(d)' <=> Exists(d)
                            /\ Exists(d) => /\ rows'[d].source = rows[d].source
                                            /\ rows'[d].item = rows[d].item
  <2>1. rows'[c] # NoRow
    BY <1>4, ConstantsAssumption DEF Row, NoRow
  <2>. QED  BY <1>1, <1>4, <2>1 DEF Exists
<1>. HIDE DEF c
<1>6. /\ call'[k] = IdleCall
      /\ \A n \in Call \ {k} : call'[n] = call[n]
  BY <1>3 DEF TypeOK
<1>7. TypeOK'
  <2>1. call' \in [Call -> [at : {"idle", "pay", "cancel"},
                            id : Commission \cup {NoCommission}]]
    BY <1>3 DEF TypeOK, IdleCall
  <2>. QED  BY <1>3, <1>4, <2>1 DEF TypeOK
<1>8. JobOK' /\ OneCommissionPerItem'
  BY <1>3, <1>5 DEF JobOK, OneCommissionPerItem
<1>9. SaleOnce'
  BY <1>3, <1>5 DEF SaleOnce, Pending, RowsOf
<1>10. PaidAtMatchesStatus'
  BY <1>2, <1>3, <1>4 DEF PaidAtMatchesStatus, Exists
<1>11. CallOK'
  <2>1. \A n \in Call \ {k} : call[n].at # "idle" /\ call[n].id = c => c \in contested
    BY DEF CallOK, c, MarkPaid, Cancel
  <2>. QED  BY <1>3, <1>4, <1>5, <1>6, <2>1 DEF CallOK, IdleCall
<1>12. \A d \in Commission \ contested :
         Exists(d) /\ rows[d].status # "PENDING" => rows'[d] = rows[d]
  BY <1>1, <1>4
<1>. QED  BY <1>7, <1>8, <1>9, <1>10, <1>11, <1>12

\* A step that touches no row and at most ends a call.
LEMMA OtherKeepsInvariant ==
  ASSUME IInv,
         \/ \E k \in Call : AbortCall(k)
         \/ \E x \in Source, b \in Barber \cup {NoBarber} : Recredit(x, b)
         \/ \E b \in Barber, items \in SUBSET Item : ChangeRules(b, items)
         \/ UNCHANGED vars
  PROVE  IInv'
<1>. USE DEF IInv
<1>1. /\ UNCHANGED <<delivered, rows, job, contested>>
      /\ \/ call' = call
         \/ \E k \in Call : call' = [call EXCEPT ![k] = IdleCall]
  BY DEF AbortCall, Recredit, ChangeRules, vars, env
<1>2. TypeOK'
  <2>1. credit' \in [Source -> Barber \cup {NoBarber}]
    BY DEF AbortCall, Recredit, ChangeRules, vars, env, TypeOK
  <2>2. covered' \in [Barber -> SUBSET Item]
    BY DEF AbortCall, Recredit, ChangeRules, vars, env, TypeOK
  <2>. QED  BY <1>1, <2>1, <2>2 DEF TypeOK, IdleCall
<1>3. JobOK' /\ OneCommissionPerItem' /\ PaidAtMatchesStatus'
  BY <1>1 DEF JobOK, OneCommissionPerItem, PaidAtMatchesStatus, Exists
<1>4. SaleOnce'
  BY <1>1 DEF SaleOnce, Pending, RowsOf, Exists
<1>5. CallOK'
  <2>1. \A k \in Call : call'[k] = call[k] \/ call'[k] = IdleCall
    BY <1>1 DEF TypeOK
  <2>. QED  BY <1>1, <2>1 DEF CallOK, IdleCall, Exists
<1>. QED  BY <1>2, <1>3, <1>4, <1>5

-----------------------------------------------------------------------------

\* The invariant that the theorems below rest on: a run about to insert for a
\* sale is alone with it, and a sole call's row is still pending.
THEOREM InvariantHolds == Spec => []IInv
<1>1. Init => IInv
  BY DEF Init, IInv, TypeOK, JobOK, SaleOnce, CallOK, OneCommissionPerItem,
         PaidAtMatchesStatus, IdleJob, IdleCall, Pending, RowsOf, Exists
<1>2. IInv /\ [Next]_vars => IInv'
  <2>. SUFFICES ASSUME IInv, [Next]_vars
                PROVE  IInv'
    OBVIOUS
  <2>1. CASE \E j \in Job, x \in Source : Deliver(j, x)
    BY <2>1, DeliverKeepsInvariant
  <2>2. CASE \E j \in Job : Work(j) \/ FailJob(j) \/ CrashJob(j)
    BY <2>2, ListenerKeepsInvariant
  <2>3. CASE \E k \in Call : BeginCall(k, "pay") \/ BeginCall(k, "cancel")
    BY <2>3, BeginKeepsInvariant
  <2>4. CASE \E k \in Call : MarkPaid(k) \/ Cancel(k)
    BY <2>4, SettleKeepsInvariant
  <2>5. CASE \/ \E k \in Call : AbortCall(k)
             \/ \E x \in Source, b \in Barber \cup {NoBarber} : Recredit(x, b)
             \/ \E b \in Barber, items \in SUBSET Item : ChangeRules(b, items)
             \/ UNCHANGED vars
    BY <2>5, OtherKeepsInvariant
  <2>. QED  BY <2>1, <2>2, <2>3, <2>4, <2>5 DEF Next
<1>. QED  BY <1>1, <1>2, PTL DEF Spec

\* Every reachable state has the types of the Prisma model.
THEOREM TypeCorrect == Spec => []TypeOK
BY InvariantHolds, PTL DEF IInv

\* CommissionsListener credits a line of work once, however often and however
\* concurrently the events of its source are handled.
THEOREM LineCreditedOnce == Spec => []OneCommissionPerItem
BY InvariantHolds, PTL DEF IInv

\* A row that no two calls worked on has a payment date when it is paid.
THEOREM PaidAtAgrees == Spec => []PaidAtMatchesStatus
BY InvariantHolds, PTL DEF IInv

\* getPendingOrThrow settles a commission for good, as long as no two calls
\* work on it at once.
THEOREM SettledForGood == Spec => SettledOnce
<1>1. IInv /\ [Next]_vars =>
        [\A c \in Commission \ contested :
           Exists(c) /\ rows[c].status # "PENDING" => rows'[c] = rows[c]]_rows
  <2>. SUFFICES ASSUME IInv, Next, rows' # rows,
                       NEW c \in Commission \ contested,
                       Exists(c), rows[c].status # "PENDING"
                PROVE  rows'[c] = rows[c]
    BY DEF vars
  <2>1. CASE \E k \in Call : MarkPaid(k) \/ Cancel(k)
    BY <2>1, SettleKeepsInvariant
  <2>2. CASE \E j \in Job : InsertRows(j)
    BY <2>2, InsertAddsFreshRows
  <2>3. \/ \E k \in Call : MarkPaid(k) \/ Cancel(k)
        \/ \E j \in Job : InsertRows(j)
    BY DEF Next, Work, Deliver, CheckExists, ReadSource, MatchRules, Return, FailJob,
           CrashJob, BeginCall, Accept, AbortCall, Recredit, ChangeRules
  <2>. QED  BY <2>1, <2>2, <2>3
<1>. QED  BY <1>1, InvariantHolds, PTL DEF Spec, SettledOnce
=============================================================================
