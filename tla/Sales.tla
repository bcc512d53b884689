-------------------------------- MODULE Sales --------------------------------
(***************************************************************************)
(* Sales of the core: SalesService with the catalogue and the customers it *)
(* reads, the commissions that the barbershop module generates on          *)
(* SALE_COMPLETED, and the dashboard, which reads the sales of a period.   *)
(*                                                                         *)
(* A sale emits its event without waiting, so that the listener runs after *)
(* the answer, beside other requests.  The sold lines of a sale are those  *)
(* of its id.                                                              *)
(***************************************************************************)
EXTENDS Integers, FiniteSetsExt

CONSTANTS
  Sale,         \* ids a sale can get
  Line,         \* lines a sale can have
  LinesOf,      \* the lines of each sale
  Good,         \* services and products
  Service,      \* those that are services
  GoodOf,       \* what each line sells
  QuantityOf,
  Price,        \* prices of the catalogue, or sent with a line
  Discount,
  Customer,
  Barber, Commission, \* of Commissions
  Request,      \* HTTP requests that can be in flight at once
  Job,          \* runs of the listener that can be in progress at once
  NoBarber, NoSource, NoCommission, Null

Subtotal(amount) == MapThenSumSet(LAMBDA x : amount[x], DOMAIN amount)

\* A sale never comes to less than nothing.
SaleRow(s) ==
  {row \in [status : {"COMPLETED", "CANCELLED"}, amount : [LinesOf[s] -> Nat],
            discount : Discount] : row.discount <= Subtotal(row.amount)}

ASSUME SalesAssumption ==
  /\ LinesOf \in [Sale -> SUBSET Line] /\ IsFiniteSet(Line)
  /\ GoodOf \in [Line -> Good]
  /\ Service \subseteq Good
  /\ QuantityOf \in [Line -> Nat \ {0}]
  /\ Price \cup Discount \subseteq Nat
  /\ Null \notin Customer /\ Null \notin Price /\ \A s \in Sale : Null \notin SaleRow(s)
  /\ NoBarber \notin Barber /\ NoSource \notin Sale /\ NoCommission \notin Commission

VARIABLES
  good,       \* price and isActive of everything in the catalogue
  customer,   \* customers with isActive = true
  sale,       \* the sales table, each row with its lines
  req,        \* what each request is doing and has read
  credit, covered, delivered, commissions, job, call, contested, \* of Commissions
  lost        \* sales whose event or listener run failed (history)

C == INSTANCE Commissions WITH
       Appointment <- {}, Item <- Line, ItemsOf <- LinesOf, Call <- {},
       rows <- commissions

shop     == <<good, customer>>
listener == <<credit, covered, delivered, commissions, job, call, contested>>
vars     == <<shop, sale, req, listener, lost>>

Idle == [at |-> "idle"]

\* What the catalogue says of a service or a product.
Offer == [price : Price, isActive : BOOLEAN]

\* Every seller is linked to a barber, and some rule covers every line.
Init ==
  /\ good \in {offers \in [Good -> Offer] : \A g \in Good : offers[g].isActive}
  /\ customer = Customer
  /\ sale = [s \in Sale |-> Null]
  /\ req = [r \in Request |-> Idle]
  /\ credit \in [Sale -> Barber]
  /\ covered = [b \in Barber |-> Line]
  /\ delivered = {}
  /\ commissions = [c \in Commission |-> C!NoRow]
  /\ job = [j \in Job |-> C!IdleJob]
  /\ call = <<>>
  /\ contested = {}
  /\ lost = {}

Exists(s)     == sale[s] # Null
Goto(r, next) == req' = [req EXCEPT ![r] = next]

\* Sales whose date is set, and that are stored or about to be.
Dated == {s \in Sale : Exists(s) \/ \E r \in Request :
                         req[r].at = "insert" /\ req[r].sale = s}

-----------------------------------------------------------------------------
\* create

\* ensureActive, if a customer is named; nothing else reads who it is.
BeginSale(r, s, c, discount) ==
  /\ req[r] = Idle
  /\ ~Exists(s) /\ \A q \in Request : req[q].at \in {"items", "insert"} => req[q].sale # s
  /\ c \in customer \cup {Null}
  /\ Goto(r, [at |-> "items", sale |-> s, discount |-> discount])
  /\ UNCHANGED <<shop, sale, listener, lost>>

\* findActiveByIds
OnSale(l) == good[GoodOf[l]].isActive

\* buildItems: a line may bring its own price.
Priced(s, own) ==
  [l \in LinesOf[s] |->
    QuantityOf[l] * (IF own[l] = Null THEN good[GoodOf[l]].price ELSE own[l])]

\* The date of the sale is set as it is handed to the database.
HandIn(r, amount) ==
  Goto(r, [at |-> "insert", sale |-> req[r].sale, discount |-> req[r].discount,
           amount |-> amount])

\* Mutant of PriceItems: the discount is not held against the subtotal.
PriceItemsAny(r, own) ==
  /\ req[r].at = "items"
  /\ \A l \in LinesOf[req[r].sale] : OnSale(l)
  /\ HandIn(r, Priced(req[r].sale, own))
  /\ UNCHANGED <<shop, sale, listener, lost>>

\* The goods must be on sale, and the discount no more than they cost.
PriceItems(r, own) ==
  /\ req[r].at = "items"
  /\ \A l \in LinesOf[req[r].sale] : OnSale(l)
  /\ req[r].discount <= Subtotal(Priced(req[r].sale, own))
  /\ HandIn(r, Priced(req[r].sale, own))
  /\ UNCHANGED <<shop, sale, listener, lost>>

\* A dashboard between its two statements on sales notes that one of its
\* period changes, as the request r ends its step with next.
Note(r, s, next) ==
  req' = [q \in Request |->
    IF q = r THEN next
    ELSE IF req[q].at = "services" /\ s \in req[q].period
    THEN [req[q] EXCEPT !.disturbed = TRUE]
    ELSE req[q]]

\* The sale and its lines, in one transaction.
InsertSale(r) ==
  LET s == req[r].sale IN
    /\ req[r].at = "insert"
    /\ sale' = [sale EXCEPT ![s] =
         [status |-> "COMPLETED", amount |-> req[r].amount,
          discount |-> req[r].discount]]
    /\ Note(r, s, [at |-> "emit", sale |-> s])
    /\ UNCHANGED <<shop, listener, lost>>

\* emit starts the listener; the answer does not wait for it.
EmitCompleted(r, j) ==
  /\ req[r].at = "emit"
  /\ C!Deliver(j, req[r].sale)
  /\ Goto(r, Idle)
  /\ UNCHANGED <<shop, sale, lost>>

-----------------------------------------------------------------------------
\* cancel leaves payments and commissions of the sale alone.

BeginCancel(r, s) ==
  /\ req[r] = Idle
  /\ Exists(s)
  /\ sale[s].status # "CANCELLED"
  /\ Goto(r, [at |-> "cancel", sale |-> s])
  /\ UNCHANGED <<shop, sale, listener, lost>>

WriteCancelled(r) ==
  /\ req[r].at = "cancel"
  /\ sale' = [sale EXCEPT ![req[r].sale].status = "CANCELLED"]
  /\ Note(r, req[r].sale, Idle)
  /\ UNCHANGED <<shop, listener, lost>>

-----------------------------------------------------------------------------
\* coreMetrics: the statements of one transaction at READ COMMITTED, each of
\* which sees what is committed when it begins.  The period ends when the
\* request begins.

Sold(period) == {s \in period : Exists(s) /\ sale[s].status = "COMPLETED"}

\* How much of the services is in a set of sales.
Services(sold) ==
  Subtotal([s \in sold |->
    Subtotal([l \in {m \in LinesOf[s] : GoodOf[m] \in Service} |-> QuantityOf[l]])])

\* Mutant of ServicesOf: the services of cancelled sales count too.
ServicesOfAll(period) == Services({s \in period : Exists(s)})

ServicesOf(period) == Services(Sold(period))

\* The sum of the totals of a set of sales.
TotalOf(sold) == Subtotal([s \in sold |-> Subtotal(sale[s].amount) - sale[s].discount])

BeginOverview(r) ==
  /\ req[r] = Idle
  /\ Goto(r, [at |-> "sales", period |-> Dated])
  /\ UNCHANGED <<shop, sale, listener, lost>>

CountSales(r) ==
  LET sold == Sold(req[r].period) IN
    /\ req[r].at = "sales"
    /\ Goto(r, [at |-> "services", period |-> req[r].period, disturbed |-> FALSE,
                salesCount |-> Cardinality(sold),
                salesTotal |-> TotalOf(sold)])
    /\ UNCHANGED <<shop, sale, listener, lost>>

CountServices(r) ==
  /\ req[r].at = "services"
  /\ Goto(r, [at |-> "overview", salesCount |-> req[r].salesCount,
              salesTotal |-> req[r].salesTotal, disturbed |-> req[r].disturbed,
              services |-> ServicesOf(req[r].period)])
  /\ UNCHANGED <<shop, sale, listener, lost>>

AnswerOverview(r) ==
  /\ req[r].at = "overview"
  /\ Goto(r, Idle)
  /\ UNCHANGED <<shop, sale, listener, lost>>

-----------------------------------------------------------------------------
\* Around the sales.

\* The services and products of the catalogue: update.
UpdateGood(g, offer) ==
  /\ good' = [good EXCEPT ![g] = offer]
  /\ UNCHANGED <<customer, sale, req, listener, lost>>

SetCustomerActive(c, active) ==
  /\ customer' = IF active THEN customer \cup {c} ELSE customer \ {c}
  /\ UNCHANGED <<good, sale, req, listener, lost>>

\* A run of the listener makes a step, fails or dies with the process.
Listen(j) ==
  /\ C!CheckExists(j) \/ C!ReadSource(j) \/ C!MatchRules(j) \/ C!InsertRows(j) \/ C!Return(j)
  /\ UNCHANGED <<shop, sale, req, lost>>

ListenerFails(j) ==
  /\ C!FailJob(j) \/ C!CrashJob(j)
  /\ lost' = lost \cup {job[j].source}
  /\ UNCHANGED <<shop, sale, req>>

\* The request is refused, its process dies, or the database fails.
Abort(r) ==
  /\ req[r] # Idle
  /\ lost' = IF req[r].at = "emit" THEN lost \cup {req[r].sale} ELSE lost
  /\ Goto(r, Idle)
  /\ UNCHANGED <<shop, sale, listener>>

Serve(r) ==
  \/ \E s \in Sale :
       \/ \E c \in Customer \cup {Null}, d \in Discount : BeginSale(r, s, c, d)
       \/ BeginCancel(r, s)
  \/ \E own \in [Line -> Price \cup {Null}] : PriceItems(r, own)
  \/ InsertSale(r)
  \/ \E j \in Job : EmitCompleted(r, j)
  \/ WriteCancelled(r)
  \/ BeginOverview(r) \/ CountSales(r) \/ CountServices(r) \/ AnswerOverview(r)
  \/ Abort(r)

Next ==
  \/ \E r \in Request : Serve(r)
  \/ \E j \in Job : Listen(j) \/ ListenerFails(j)
  \/ \E g \in Good, offer \in Offer : UpdateGood(g, offer)
  \/ \E c \in Customer, active \in BOOLEAN : SetCustomerActive(c, active)

Spec == Init /\ [][Next]_vars

-----------------------------------------------------------------------------

TypeOK ==
  /\ good \in [Good -> Offer]
  /\ customer \subseteq Customer
  /\ DOMAIN sale = Sale /\ \A s \in Sale : Exists(s) => sale[s] \in SaleRow(s)
  /\ C!TypeOK
  /\ lost \subseteq Sale

\* The figures of one dashboard describe the same sales, though each comes
\* from a statement of its own, unless a sale of the period was cancelled or
\* stored between the two statements.
DashboardAgrees ==
  \A r \in Request : req[r].at = "overview" /\ ~req[r].disturbed =>
    \E sold \in SUBSET Sale :
      /\ \A s \in sold : Exists(s)
      /\ req[r].salesCount = Cardinality(sold)
      /\ req[r].salesTotal = TotalOf(sold)
      /\ req[r].services = Services(sold)

\* Nobody waits for the commissions of a sale, and yet every line of a stored
\* sale, cancelled meanwhile or not, has earned one commission when nothing is
\* left to do for it, unless the process died or the listener failed on the
\* way; a sale that was not stored earns none.
SoldIsCommissionedUnlessLost ==
  \A s \in Sale :
    LET earned  == C!RowsOf(s)
        settled == /\ \A r \in Request : req[r].at = "emit" => req[r].sale # s
                   /\ \A j \in Job : job[j].source # s
    IN  IF Exists(s)
        THEN settled /\ s \notin lost =>
               /\ {commissions[c].item : c \in earned} = LinesOf[s]
               /\ Cardinality(earned) = Cardinality(LinesOf[s])
        ELSE earned = {}
=============================================================================
