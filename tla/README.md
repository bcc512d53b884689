# Formal models of the business manager API

TLA+ modules for the core logic of this repository (a NestJS API over
PostgreSQL, through Prisma), with TLC configurations that check them on small
instances and TLAPS proofs for every instance.

The API keeps no state in memory between requests: everything is in the
database, shared by all instances of the process. So the hard part is what
happens *between* two statements. A handler awaits the database several times;
other handlers run in between, and almost every update names its row by id
only, whatever the row has become since it was read. The models therefore have
one idea in common: **a request is a small process that reads (and validates)
in one step and writes in a later one.**

    tlc -workers 2 -config Appointments_concurrent.cfg MCAppointments.tla
    tlapm AppointmentsProofs.tla

## 1. The system

| Component | State | Operations | Interacts with |
| --- | --- | --- | --- |
| Appointments | rows (status, slot, timestamps) | create, reschedule, confirm, complete, cancel, no-show | reads barbers, services, settings; emits events |
| Commissions | rows (PENDING, PAID, CANCELLED) | generate (listener), pay, cancel | listens to completed appointments and sales |
| Commission rules | rows (scope, type, value) | create, update, pick, calculate | read by generation |
| Subscriptions | plans, subscriptions (status, cycle) | create, renew, cancel, lifecycle job, plan changes | read by plan benefits |
| Payments | rows, external charge | create, confirm, cancel, sync | providers; emits PAYMENT_APPROVED |
| Password recovery | reset tokens, password | ask for a link, reset, change | e-mail provider, sessions |
| Sessions | refresh tokens, session version | login, refresh, logout | password changes revoke |
| Users and roles | users, roles | create, update, switch on/off, sync of roles | sessions |
| Tenants | tenant, settings | register, update | TENANT_CREATED initialises modules |
| Barbers, schedule, settings | barbers, shifts, opening hours | update, switch, validate | read by bookings |
| Plan benefits | services of a plan | replace, usage | subscriptions, appointments |
| Sales | sales and lines | create, cancel | commissions |
| Authorization, tenant context | permissions of roles, context of a request | match, run for a tenant | every handler |
| Customers, services, products | rows | single-statement reads and writes | references of the others |
| Dashboard | none | figures of a period | reads sales, payments, customers |
| Notifications, audit | none, log | output and records | listeners |

What makes them correct, and hard to test:

* *Appointments*: no two blocking appointments of a barber overlap; closed ones
  stay closed; nobody waits for ever on a barber's lock.
* *Commissions*: completed work earns exactly one commission, settled once; the
  event between the two components can be lost, doubled or late.
* *Subscriptions*: one active per plan; a renewal never takes or loses paid
  days, whatever the lifecycle job does at the same time.
* *Payments*: a payment is paid once, announced once and after it is recorded.
* *Sessions and users*: a refresh token is exchanged once; a password change or a
  deactivation ends the sessions that exist; the tenant keeps an owner.
* *Barbers and schedule*: whatever can be booked is staffed at every instant, in
  the local time of the tenant; a shift does not end before it begins.
* *Plan benefits*: a plan includes what its last list says, no mixture of two.
* *Tenants*: what a member chose stays until a member changes it, only requests of
  a tenant change it, and a barbershop starts with opening hours.
* *Sales and dashboard*: every line of a stored sale earns its commission although
  nobody waits for it; the figures of one answer describe the same sales.
* *Password recovery*: a link works once, the newest only, and not after a
  password change; transactions that lock rows in different orders still end.

`PROJECT.json` lists every hazard at its line with the properties that would
catch it.

## 2. Modules

| Module | Models | Source |
| --- | --- | --- |
| `Appointments` | the booking transaction with the advisory lock, the status changes | `barbershop/appointments` |
| `AppointmentsProofs` | theorems on the lock and the slots, and on the status rules | |
| `Commissions` | the listener's runs, payment and cancellation of commissions | `barbershop/commissions` |
| `CommissionsProofs` | theorems about it | |
| `AppointmentCommissions` | `Appointments` composed with an instance of `Commissions` by the awaited event | both |
| `AppointmentCommissionsProofs` | theorems about the composition, and that it implements both parts | |
| `CommissionRules` | rule updates, selection of a rule, rounding of amounts | `commission-calculator.ts`, rule methods |
| `Subscriptions` | subscriptions, renewals, the lifecycle job, plan changes | `core/subscriptions` |
| `SubscriptionsProofs` | theorems about it | |
| `Payments` | payments and their charges | `core/payments` |
| `Sales` | sales, the goods and customers they read, the commissions they earn (an instance of `Commissions`), the sales figures of the dashboard | `core/sales`, `core/services`, `core/products`, `core/dashboard` |
| `Checkout` | `Sales` and `Payments` side by side | both |
| `CheckoutProofs` | theorems about them | |
| `OneTimeLink` | what a reset link promises, without requests, locks or crashes | |
| `PasswordReset` | reset links, password changes, row locks and deadlocks | `core/auth/password.service.ts`, `auth.repository.ts` |
| `PasswordResetProofs` | theorems about it, and that it implements `OneTimeLink` | |
| `Accounts` | login, refresh rotation, logout; users, roles, deactivation | `core/auth`, `core/users` |
| `AccountsProofs` | theorems about it | |
| `Schedule` | local time, windows, the booking test | `schedule.util.ts`, `assertBookable` |
| `Barbers` | opening hours, barbers and their shifts | `barbershop/settings`, `barbershop/barbers` |
| `PlanBenefits` | replacement of the benefits of a plan | `barbershop/plan-benefits` |
| `Permissions` | roles, permissions and the guards, as operators | `common/auth`, `common/guards`, `core/users/system-roles.ts` |
| `Tenants` | registration, TENANT_CREATED, tenant settings, the tenant context | `core/tenants`, `common/tenancy`, `settings.listener.ts` |
| `Administration` | `Barbers`, `CommissionRules`, `PlanBenefits` and `Tenants` side by side | all four |
| `AdministrationProofs` | theorems about them and about `Schedule` | |
| `MCAdministration`, `MCCheckout` | the two compositions for TLC, one component per behaviour | |
| `MCAccounts` | `Accounts` for TLC, with room for users or for tokens | |
| other `MC...` | constants and symmetry for TLC | |

Definitions whose comment begins with "Mutant of" are not part of a model: each
is a slip one could make in the code, and TLC finds a property violated when it
replaces the definition it is named after (`PROJECT.json`, "mutants").

### History variables

Most rules of the services hold only for a row that one request works on at a
time, because the status a handler validated is not part of the `where` of its
update. The models do not forbid such overlaps; they remember them, in variables
that no action reads:

| Variable | Module | Remembers |
| --- | --- | --- |
| `raced` | `Appointments`, `Payments`, `Subscriptions`, `Barbers` | rows that a second request took up while a first was between its read and its write |
| `revived` | `Appointments` | rows whose last move into a blocking status skipped the slot query |
| `contested` | `Commissions` | rows that two calls worked on at once |
| `stale`, `overtaken` (in `update`) | `CommissionRules` | rules whose last update had read a row that changed before it wrote; whether that has happened to an update under way |
| `missed`, `orphaned`, `lost` | `PasswordReset`, `AppointmentCommissions` | links that a deletion could not see, links whose request died before it could discard them, events that a crash or an error lost |
| `reopened` | `Subscriptions` | rows renewed when they were no longer ACTIVE |
| `overlapped`, `list`, `last` | `PlanBenefits` | replacements that were under way together; the list of each and which committed last |
| `overtaken` (in `req`) | `Tenants` | whether what a request has read was written by another since |
| `disturbed` (in `req`), `lost` | `Sales` | whether a sale of the period changed between the statements of a dashboard; sales whose event or listener failed |
| `crossed`, `spared` | `Accounts` | whether two requests about users overlapped a write; sessions stored after a deactivation, or whose revocation died with its request |

A property then says what holds in every interleaving, but for the rows named
there; section 3 lists what overlaps do break.

### State and steps

*Appointments.* `status`, `slot` and `stamps` are the columns of the rows;
`pc`, `op`, `target`, `want` are what a request remembers across an await;
`lock` is who holds `pg_advisory_xact_lock(hashtext(barberId))`, and `LockOf`
lets two barbers collide. The `Begin...` actions read and validate,
`AcquireLock`, `FindSlot...` and `Commit...` are the booking transaction,
`Write...` the unconditional updates. A transaction shows when it commits (READ
COMMITTED).

*Commissions.* A job is a run of the listener with the statement it is at; a
call is a request to pay or cancel. `credit` and `covered` say whom a source
credits and which lines have a rule; both may change between two reads. The
unique index on `appointment_id` is `Duplicate`; sales have no such index, and
their event is only emitted by the creation of the sale.

*AppointmentCommissions.* `complete` publishes with `emitAsync` and waits, so a
run of the listener belongs to its request and dies with it. `Credit` is a
refinement of the listener's view: it reads the rows of `Appointments`.

*CommissionRules.* Money is in cents and values in hundredths, as the
Decimal(10,2) columns. The selection is the loop of the code over the rules in
the order of the query, as a recursive function of the number of rules seen; it is
compared with `MostSpecific`, the documented precedence, for every order. An update
writes only the fields it was sent, over the row as it has become.

*Subscriptions.* Time is in days. Prices are left out.

*Payments.* The status, the external id and the two dates of a row, and the
number of PAYMENT_APPROVED events. Only the manual gateway accepts charges, as
in the code; `sync` returns early for everything that exists today.

*Sales.* An amount belongs to a line and is its quantity times the price sent, or
the price read from the catalogue before the sale is stored. The event is emitted
without waiting, so the listener (`C`, an instance of `Commissions` whose sources
are the sales) runs on its own after the answer. A dashboard takes its period when
it begins and reads statement by statement, as READ COMMITTED lets it.

*Schedule.* An instant is a number of ticks, finer than the minutes in which hours
are given; a zone is its offset at each instant. `Bookable` is the test of
`assertBookable` on the two ends of a slot. `Staffed`, in `Barbers`, says what it
should mean at every instant between them; `BookableIsStaffed` compares the two.

*Barbers.* `Written` and `Merged` differ as the code does: `??` takes a null for a
field that was not sent, the write takes it for an empty one. A row is validated in
one step and written by id in another.

*PlanBenefits.* `deleteMany` takes a snapshot (`BeginDelete`) and then waits for the
locks (`DeleteSeen`), `createMany` meets the unique index; the second replacement
does not see what the first inserted after its snapshot.

*Tenants.* `context` is the asynchronous context of each request: the guard or the
listener sets it (`Enter`), and every write goes to `Current`. A registration goes on
through TENANT_CREATED, which is awaited, to its answer; other members call in
between. `Admit` is the chain of guards with the permissions of `Permissions`.

*Administration* and *Checkout.* Components that share no table run next to each
other, each step of one leaving the others alone, as the handlers of one process do.
Instances name the variables apart: `rules` and `update` of `CommissionRules`, `plan` and
`replace` for the rows and requests of `PlanBenefits`, `call` for those of `Tenants`,
`charge` for those of `Payments`.

*PasswordReset.* Here two transactions lock rows in different orders, so row
locks are part of the model: a statement waits until nobody else holds the row it
has come to, then judges it again. A `deleteMany`, of pending or of expired links,
takes its snapshot (`Scan...`), comes to the rows one by one in any order
(`VisitRow`: `left` are those to come, `doomed` those it has) and keeps what it has
while it waits for the next. A cycle of waiting requests is ended by PostgreSQL
failing one. The user `None` stands for an e-mail of no account: such a request
cleans up and ends. The `refreshToken.updateMany` of a password change is left out
here, sessions being the matter of *Accounts*.

*Accounts.* `user` has the role, `isActive` and `sessionVersion` of each account,
`token` the rows of `refresh_tokens`, `req` the statement a request is at and what
it has read: the role of an actor is the one its guards saw. An access token
carries a version, so it is modelled by the refresh token issued with it
(`Authenticate`). `applyPasswordChange` is one transaction and one step, which
takes effect at its revocation: nothing a request reads before that depends on
what it commits. The locks of that transaction on the user and the links are in
`PasswordReset`; those on the sessions are not modelled.
MANAGER has the same part as EMPLOYEE here: neither has `users:manage`.

## 3. Runs

| Run | Result | Shows |
| --- | --- | --- |
| `Appointments_concurrent` | pass | two requests, two rows, one barber, crashes: what was found free stays free, only a stale status write can make bookings collide; timestamps tell the status, and closed is closed, for every row but the raced ones |
| `Appointments_double_booking` | **violated** | a stale `complete` (or `confirm`, `reschedule`) after a cancellation double-books |
| `Commissions_concurrent` | pass | two runs of the listener and two calls at once: one commission per line of work; settled once, but for contested rows |
| `AppointmentCommissions_concurrent` | pass | two barbers with one lock, two requests, faults: every request is answered, the one commission is there before the answer and matches the work, unless the event was lost; at every moment a completed appointment has its commission, or lost it, or has a request at work on it |
| `AppointmentCommissions_lost_event` | **violated** | a crash or an error of the listener loses the commission |
| `Administration_concurrent` | pass | four components of the administration, one per behaviour. Rules, two updates at once: the most specific one applies in any order of the query, and percentages stay within the base but for stale rules. Barbers, two updates at once: shifts stay in order but for raced rows, and what can be booked is staffed, in three zones. Plan benefits, two replacements at once: lists come and go whole, and do not mix unless they overlapped. Tenants, two requests at once: nobody else changes a tenant, choices are kept but for overtaken ones, a barbershop is answered with its hours |
| `Subscriptions_concurrent` | pass | expired only when over, whatever interleaves; cancellation is final and no day is counted in two cycles, but for raced rows; duplicates only by reopening |
| `Subscriptions_one_active` | **violated** | renewing an expired subscription gives a second active one |
| `Checkout_concurrent` | pass | two components, one per behaviour. Payments: no approval before its row; announced once and final, but for raced rows. Sales: every line of a stored sale earns one commission unless the event was lost; no sale comes to less than nothing; the figures of a dashboard agree unless it was disturbed |
| `PasswordReset_concurrent` | pass | the links implement `OneTimeLink`: a link changes the password at most once, is never wasted by a crash and never comes back; an undelivered one is discarded; one pending link, none after a password change, but for those a deletion could not see |
| `PasswordReset_liveness` | pass | requests end in spite of deadlocks, of a reset with a change or with a deletion of links, or of two clean-ups |
| `Accounts_concurrent` | pass | two users with two refresh tokens, or one with three: a refresh token is replaced by at most one other; no session survives a password change or a deactivation that it preceded; an owner remains unless two requests about users overlapped |

The violated runs check what a comment, a message, a test or the README says of
the program; `PROJECT.json` "findings" quotes the line.

### What overlapping requests break

TLC shows each of these once the history variable is dropped from a property:

* two calls settle one commission, the second over the first;
* two updates of a rule, one of the type and one of the value, leave a
  percentage above 100;
* two renewals of a subscription lose a paid cycle; a renewal undoes a cancellation;
* `cancel` overwrites the confirmation of a payment that it read as pending, and a
  payment confirmed before `create` ends goes back to PENDING;
* two updates of a barber, one of each end of the shift, leave a shift that ends
  before it begins;
* two updates of tenant settings lose one; the defaults of a new barbershop replace
  opening hours chosen between the two statements of `initializeDefaults`;
* two lists of benefits without a common service merge;
* a dashboard counts a sale whose services it does not count, when the sale is
  cancelled between its statements;
* two requests for a reset link at once leave two valid links;
* two owners switch each other off; a login that read an account before it was
  switched off stores a session after it.

`PasswordChangeEndsSessions` speaks of tokens stored before the change. A login or a
refresh that read the user before it may store one after it: its access token is
refused, its refresh token works. Likewise the new token of a refresh survives the
revocation that a second use of the old one causes, if it is stored later.

Without any overlap, an early renewal moves the current cycle into the future:
`startDate` becomes the end of the cycle that is still running. No day is counted in
both cycles (`RenewalFollowsCycle`), but the days that were left of the old one are
counted in neither: `usage` shows nothing used until the new one begins. And a
cancelled sale keeps its commissions, even those the listener has still to
generate: `SoldIsCommissionedUnlessLost` says so, since no document says otherwise.

### Bounds

The interesting cases need two actors on one row, or a row and the slot it lost,
so two requests and two rows are enough for most modules. Payments have three
requests (create, confirm, cancel). Password resets have two requests and two
links: a reset against a change is enough for a deadlock, two links for a link
and its successor. In `PasswordReset_liveness` the clock reaches 2, so that links run
out (`Ttl` is 1) and clean-ups delete them; there TLC reaches two clean-ups, a clean-up
and a password change, and a reset and a password change that wait for each other. A
clean-up against the deletion of a request for a new link would need a third link,
and adds no other kind of wait. Accounts have either two users, to act on each other, and two
tokens, one and its successor; or one user and three tokens, one and two that could
both replace it. `Item` has two lines, `Commission` two ids: a
third could only be needed after a duplicate, which the properties exclude.
Clocks are as short as the comparisons need: `MaxTime` before, at and after a
slot; `MaxDay` past the end of a cycle; `Horizon` lets a cycle follow a cycle;
`Ttl` and `Cooldown` of one tick separate valid from run out. `MaxApprovals`
counts to two, the first wrong number; `MaxVersion` allows one password change. A
token, row or rule id is used once. `CHECK_DEADLOCK FALSE` is set where rows run out and nothing
else can happen.

`MCAccounts` puts these two sizes into one run: `part` says which one a behaviour has
room for. `MCAdministration` and `MCCheckout` put components that share no variable into
one run: each behaviour exercises the one that `part` names, so that the states add up
instead of multiplying, and nothing is lost, because no action of one is enabled or
disabled by another. (The theorems are about the compositions as they are.)

*CommissionRules*: two rules, so that every pair of levels meets, with one update under
way; or two updates at once of a single rule for everybody and everything, since an
update does not read whom a rule is for (`FewChanges`). Two values, one of them a
percentage above 100; prices around the half cent.
*Barbers*: a day of four minutes of two ticks, so that a slot can begin or end within
a minute; `Horizon` spans almost three days, and the zones are UTC, one in which the
date differs from UTC's, and one whose clock is put back. Opening hours include a
closed day, a day with a single open minute and hours that are refused; updates
set either end of the shift, both, or erase one. One barber: what an update has read
of another barber does not matter to it, and the unique link to a user only makes
it fail, which `Abort` does too.
*PlanBenefits*: two services and three replacements, so that two can overlap after a
first one is stored. *Tenants*: two tenants with two owners, who want the same slug;
one of two settings is sent at a time, so that two updates can send different ones.
*Sales*: a sale of a service and a product and one of a product alone, two requests (a
dashboard against a sale or a cancellation, or two of those) and one run of the
listener; three commissions are what the two sales earn, and a fourth could only come
of a duplicate. One price: amounts differ by their quantities, and the discount is
nothing, or more than the smaller sale costs. *Subscriptions*: `Interval` has one
value, since only the days it stands for matter.

### Fairness

A statement that can run is run (weak fairness of `Serve`), because the event
loop and the database starve nobody. Waiting for an advisory or row lock gets
strong fairness: PostgreSQL queues those who wait, so whoever is passed over is
still served in the end. No fairness is assumed of clients, crashes or the
clock.

## 4. Proofs

Each theorem holds for any sets of rows, requests and ids, and rests on the
assumptions that its module's constants are what they stand for (ids are not the
nulls, opening hours are times of a day). Few of the invariants are inductive as they
stand; each proof module defines the strengthening (`IInv`, or `PlanInv`, `TenancyInv`,
`RulesInv`, `PaymentsInv`, `SalesInv`, `FlowInv` for a component of a composition), has
one lemma per action or kind of action, and collects them in one lemma for `Next`. TLC
checked every strengthening on the small instance before it was proved.

**`AppointmentsProofs`**: `TypeCorrect`, `BookingsAreSerialized`
(`NoUncheckedConflict`), `CheckedSlotIsKept` (`CheckedSlotStaysFree` and
`LockCoversTransaction`). The argument is that of a critical section: a transaction
between its slot query and its commit holds the lock of its barber; two
transactions on one barber therefore cannot both be there (`LockExcludes`); so no
other commit can put a row in the slot a transaction has checked, and status
changes can only do so by reviving a row; so a commit creates no unrecorded
conflict. `IInv` adds what a request carries in each step (a booking has a slot and
a target, a new row is nobody else's target). Then the status rules: `RowsFollowRules`
(`StampsMatchStatus`, `NoShowHasStarted`, `ReopenedOnlyInRaces`), `ClosedForGood`
(`TerminalIsFinal`), and `UnracedNeverOverlap`, which joins the two: appointments that
no two requests work on at once never overlap. A row that is not raced has at most one
request at work (`SoleWriter`), and what that request read still holds when it
writes (`ReadStillHolds`).

**`CommissionsProofs`**: `TypeCorrect`, `LineCreditedOnce`
(`OneCommissionPerItem`), `PaidAtAgrees` (`PaidAtMatchesStatus`), `SettledForGood`
(`SettledOnce`). Two things keep a line from being credited twice: for an
appointment the unique index, which the insert respects whatever it read before;
for a sale the event, which is emitted once, so that at most one run is ever at
work on it and has inserted nothing yet (`SaleOnce`).

**`AppointmentCommissionsProofs`**: `FlowImplementsBook` and
`FlowImplementsCommissions`, every step of the composition is one of each part or
stutters there, so that the theorems of the two modules above hold of it;
`CommissionsMatchWork` (`CommissionMatchesWork`), `AnswersFollowCommissions`
(`AnswerFollowsCommission`), and `CompletedAreAccountedFor` (`CompletedIsAccountedFor`):
a completed appointment has its commission, or is lost, or has a request that will
see to it. `FlowInv` says that a run of the listener belongs to the request that waits
for it, and is about the appointment that this request completed; and that, unless
two requests worked on it, this appointment is still completed and still the barber's
of whom the run has read. The lemmas take `IInv` and `RInv` of the book as given, which
`FlowImplementsBook` carries over.

**`AccountsProofs`**: `TypeCorrect`, `TokenReplacedOnce` (`OneSuccessor`),
`SessionsEndWithPassword` (`PasswordChangeEndsSessions`), `SessionsEndWithAccount`
(`InactiveHasNoSession`), `TenantKeepsOwner` (`OwnerRemains`). The conditional update
makes the request that rotates a token its owner: nobody else is between the
rotation and the new token. For the owner of the tenant: unless two requests
crossed, a request that is about to write was sent by an owner still in office, or
is about somebody who is not one.

**`SubscriptionsProofs`**: `TypeCorrect`, `ExpiredAreOverdue` (`ExpiredIsOverdue`),
`RenewalsMatchCycles`, `SecondActivesWereReopened` (`SecondActiveWasReopened`),
`CancelledAreFinal` (`CancelledIsFinal`), `RenewalsFollowCycles`
(`RenewalFollowsCycle`). `RequestOK` says that the only request at work on a row has
read what the row still says; `CreationOK` that whatever is active for a customer
and plan about to be created came after the check, and is recorded as reopened or
raced. The lifecycle job needs neither: its condition is on the row it writes.

**`CheckoutProofs`**, payments: `PaidPaymentsHaveReceipts`, `ApprovalsFollowPayments`
(`ApprovalFollowsPayment`), `PaymentsAreApprovedOnce` (`ApprovedOnce`),
`PaidPaymentsAreFinal` (`PaidIsFinal`). `OneMessage` is the heart: the request that
recorded a payment is the only one that can announce it, and nothing was announced
before. Sales: `DashboardsAgree` (`DashboardAgrees`): the sales that the first statement
counted are a witness for the later ones until a sale of the period changes.
`SoldIsCommissioned` (`SoldIsCommissionedUnlessLost`): the event of a sale is emitted by
the request that stored it, delivered once, and in the hands of one run until its
lines are credited; so a sale that is stored, not lost and in nobody's hands has all
its commissions, and one that is not stored has none. `SalesImplementCommissions`: the
listener under the sales implements `Commissions`. `CheckoutTypesOK` (`AllTypesOK`).

**`PasswordResetProofs`**: `TypeCorrect`, `UndeliveredAreInvalid`, `LinksReplaceEachOther`
(`OnePendingLink`), `LinksChangePasswordsOnce`, `ChangesClearLinks`, and `Implementation`
(`ImplementsOneTimeLink`): the state of the tokens and the count of changes are the
variables of the abstract link; inserting a token is `Issue`, committing a password
change is `Use` or `Revoke`, the deletions are `Revoke`, and every other step
stutters. The invariant says who holds which row lock at which step (`LockOK`): a
claimed token and the tokens chosen for deletion stay locked and pending until the
commit, so that nobody else can use or delete them; and no pending token is outside
what a request has chosen but those recorded as missed (`PickingOK`).

**`AdministrationProofs`**, barbers and schedule: `TypeCorrect`, `ShiftsStayOrdered`
(`ShiftsAreOrdered`), from the same sole-writer argument; and `BookedSlotsAreStaffed`
(`BookableIsStaffed`), for any length of a day and of a minute, any zone and any hours.
While the offset does not change, the local minute grows with time within a day
(`MinutesInOrder`, from the monotonicity of integer division), so that what holds at
both ends of a window holds between them. These are about `Spec` of `Barbers`;
`BarbersAreUndisturbed` carries them to the composition.

Plan benefits: `PlansAreLastLists` (`PlanIsLastList`). A deletion takes the locks of all
the rows it saw and a batch is inserted whole, so that the rows of one list come and go
together; two replacements that do not overlap see all of each other.

Tenants: `HoursWithBarbershops` (`HoursComeWithBarbershop`), `TenantsChangeFromWithin`,
`ChoicesStay` (`ChoicesAreKept`). A request works in the context it was admitted with,
which no other request's `Enter` touches; and what it has read is what is stored, unless it
was overtaken.

Rules: `CommissionsWithinBase` (`CommissionWithinBase`): a rule that is not stale was
validated against the very row it was written to, and rounding half up does not lift a
share of at most 100 % over its base. `PicksAreMostSpecific` (`PickIsMostSpecific`): the
loop ends with a rule of the highest score among those that apply, and scores order
the levels as the documentation does. This is an induction over the loop. The induction
theorems of the library are out of reach (below), so `ClimbsToTheEnd` uses a theorem
about a relation instead: strict inclusion of finite sets is well founded, so that among
the intervals `1..n` whose end `n` is a step of the loop at which the claim fails there
is a smallest one, and the step before its end contradicts that. `AdministrationTypesOK` (`AllTypesOK`).

Every invariant and action property that a passing run checks has a theorem. What stays
with TLC: liveness under fairness (`RequestsFinish`, in both its runs, and
`CompletedIsCommissionedUnlessLost`, whose safety half is `CompletedIsAccountedFor`) and
whatever speaks of ENABLED, which tlapm cannot prove; and that the definitions compute
what they should on concrete values (the amounts of `CalculateCommission`, the sums of a
dashboard), beyond the bounds and agreements stated above: the induction theorems take
an operator as a parameter, which the installed provers cannot instantiate.
Conversely, a few invariants are proved and have no run of their own, because another
property would already fail with them, or they only say what type the state has
(`TypeCorrect` of `AccountsProofs`, `CommissionsProofs`, `SubscriptionsProofs` and
`PasswordResetProofs`): `LockCoversTransaction`, `NoShowHasStarted`,
`ReopenedOnlyInRaces`, `PaidAtMatchesStatus`, `PaidHasReceipt`, `RenewalMatchesCycle`,
`LinkChangesPasswordOnce`.

## 5. Not modelled

Left out, and why:

* reads that change nothing and that no property compares: lists, searches, pages,
  the `usage` of a subscription, the other figures of the dashboard (one statement
  each);
* customers, services and products beyond their switch and price: single statements
  on rows that nothing else depends on;
* the upsert of the system roles at start-up: it writes the constant `SystemRole`
  before any request is served;
* the texts of notifications and e-mails, and notifications other than the reset
  link: output that nothing reads back; `PasswordReset` has the outcome of sending;
* the work still in the background when the process shuts down (the e-mails of
  forgotten passwords that `onApplicationShutdown` waits for): a shutdown that does not
  wait is the crash that every module models;
* the audit log: records that nothing reads back;
* validation of request bodies, the exception filter, configuration, logging, the
  seed and the wiring of modules: formatting and framework.

What would come next: abstract specifications of the appointment book and of the
commission ledger, as `OneTimeLink` is of reset links, with the composition shown to
implement both; the sums of a dashboard and of a sale proved equal to what they
count; `Sales` and `Payments` composed, should cancelling a sale one day touch its
payments.
