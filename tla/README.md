# Verification of the EventEase backend

TLA+ models of the EventEase backend (Django REST, PostgreSQL, Stripe, SMTP),
TLC runs on small instances of them, and TLAPS proofs for all instances. The
code is a set of stateless request handlers over one database. What is hard
about it is what happens when handlers overlap: which rows they lock, what they
read before they lock, what they do outside the database before they commit, and
what Stripe repeats or the clients leave undone.

## 1. The system

| Part | Code | State | Operations |
|---|---|---|---|
| Registration | `core/services/register_for_event.py` `RegisterForEventService`, `registrations/views.py` | rows of `registration`, `payment`, `ticket_tier.quantity_sold` | `execute`: free tier sold at once, paid tier left PENDING with a Stripe intent |
| Confirmation by the client | same file, `ConfirmRegistrationService` | the same rows | `execute`: verify the intent, sell |
| Stripe webhook | `core/stripe_webhook.py` | the same rows | `payment_intent.succeeded`: sell; `payment_failed`: log |
| Cancellation | `registrations/views.py`, `Registration.cancel` | `registration.status` | `registration_cancel` |
| Payment gateway | `core/adapters/payment_gateway.py` | PaymentIntents at Stripe | `create_intent`, `retrieve_intent` |
| Email sender | `core/adapters/email_sender.py` | mails that are out | `send_ticket` |
| Repositories | `core/repositories/*.py` | none | `get_tier` (FOR UPDATE), `decrement_inventory`, `create_payment`, `is_checked_in`, ... |
| Check-in | `core/services/check_in_attendee.py` | rows of `check_in` | `execute` |
| Feedback | `registrations/views.py` `feedback_create` | rows of `feedback` | `feedback_create` |
| Tier administration | `events/views.py` `tier_create`, `tier_detail` | rows of `ticket_tier` | POST, PATCH, DELETE |
| Event lifecycle | `events/views.py` | rows of `event`, `session` | create, PATCH, publish, cancel, sessions |
| Accounts and sessions | `accounts/`, `core/admin_views.py` | users, profiles, blacklisted tokens | register, login, refresh, logout, suspend |
| Analytics, export | `analytics/`, `RegistrationRepo` | none | `event_analytics`, `attendee_csv_export` |
| Demo data | `accounts/management/commands/seed_demo.py` | rows of every table | `handle` |

**Interactions.** All parts meet in the database. Registration, confirmation and
webhook share the tier row and its lock; confirmation, webhook and cancellation
share the registration row; check-in and feedback read the registration status;
tier administration writes the row the sales count in. Registration creates an
intent at Stripe, the buyer pays it there, Stripe reports it through the webhook
while the client asks for the confirmation: two paths to the same sale. Every request
of an organizer reads the account it is authenticated by; the dashboard and the export
read what sales and check-in write; the demo command writes rows the API sells.

**What is hard.**

- *Overlap.* The confirmation reads the status before it has any lock; the
  cancellation reads and writes without a transaction; the PATCH of a tier saves
  a whole row it read without a lock; two doors scan one code; the PATCH of a session
  brings back one that was deleted.
- *Lock order.* The webhook's `select_for_update` with `select_related` locks the
  registration and then the tier; the confirmation locks the tier and then, by its
  UPDATE, the registration. They can wait for each other.
- *Effects that no rollback undoes.* Intents and mails made inside a transaction.
- *Delivery.* Stripe repeats an event until it gets a 200, may repeat it after, and
  the webhook answers 200 to its own failures.
- *Partial work.* Only the two services and the webhook open a transaction. Everything
  else commits statement by statement: a refresh, the registration of an account, and
  the whole of the demo command.

**What makes each part correct.** Sales: a registration is sold at most once, the
counter of a tier is the number of sales, a ticket stands on a payment that
succeeded, the capacity check of the services means what it says, a cancelled
ticket stays cancelled, every request ends. Attendance: one admission per ticket,
tickets only. Tier administration: no registration without a tier, no sale
forgotten. Accounts: one account per address, a refresh token that is spent stays
spent. Events: a cancelled event does not come back by accident, nor a deleted session,
and an event ends after it starts. Dashboard: numbers read at different moments still
make sense together. Demo data: written once, and never more sold than paid.
`PROJECT.json` lists every hazard at its line.

## 2. Modules

| Module | Models | Uses |
|---|---|---|
| `TicketLedger` | abstract: what sales promise, no requests, no locks | |
| `Ticketing` | registration, confirmation, webhook, cancellation, Stripe, mail | refines `TicketLedger` |
| `TicketingInvariant` | the invariant of `Ticketing` that needs no price or counter, its proof, and what follows from it for cancellations | EXTENDS `Ticketing` |
| `TicketingProofs` | theorems about `Ticketing` | EXTENDS `TicketingInvariant` |
| `TierAdmin` | `tier_create` and `tier_detail` next to the whole of `Ticketing` | EXTENDS `Ticketing` |
| `TierAdminProofs` | theorems about `TierAdmin` | EXTENDS it and `TicketingInvariant` |
| `Admission` | abstract: what the venue promises | |
| `Attendance` | check-in, feedback, over the ledger | INSTANCE `TicketLedger`, refines `Admission` |
| `AttendanceProofs` | theorems about `Attendance` | EXTENDS it |
| `Reports` | the organizer's dashboard, next to sales and check-in | EXTENDS `Attendance` |
| `ReportsProofs` | theorems about `Reports` | EXTENDS it and `AttendanceProofs` |
| `Accounts` | registration of accounts, login, refresh, logout, suspension | |
| `AccountsProofs` | theorems about `Accounts`, and its steps among those of other requests | EXTENDS it |
| `EventLifecycle` | create, PATCH, publish, cancel of events, by authenticated organizers | EXTENDS `Accounts` |
| `Agenda` | create, PATCH, DELETE of the sessions of events | EXTENDS `EventLifecycle` |
| `AgendaProofs` | theorems about `Agenda`, the events and the accounts in it | EXTENDS it and `AccountsProofs` |
| `SeedDemo` | overlapping runs of `seed_demo` next to the API | |
| `SeedDemoProofs` | theorems about `SeedDemo` | EXTENDS it |
| `MCTicketing`, `MCTierAdmin`, `MCAttendance`, `MCReports`, `MCEventLifecycle`, `MCAgenda`, `MCSeedDemo` | instances for TLC | EXTENDS each |

### Ticketing

One process per worker thread. `pc[w]` names the statement the worker runs next,
`reg[w]` the registration of its request, `ref[w]` the payment reference it
carries. `tier`, `status`, `payment` are the committed rows; `intent` and `hook`
are Stripe's intents and events, `mailed` the registrations a mail is out for.

A label stands for a point where another request can come between: before an
unlocked read, a statement that waits for a row, a call to Stripe or the mail
server, a commit. The path of a request:

    register   RegisterStart -> CreateIntent -> RegisterCommit          (paid)
               RegisterStart -> TicketMail   -> SaleCommit              (free)
    confirm    ConfirmRead -> ConfirmLock -> ConfirmVerify -> ConfirmSave
                           -> TicketMail -> SaleCommit
    webhook    WebhookLockReg -> WebhookLockTier -> WebhookCommit -> WebhookMail
    cancel     CancelRead -> CancelSave

- *Transactions.* PostgreSQL runs READ COMMITTED, so the writes of a transaction
  appear at its commit: they are in the commit action, and a failure before it
  changes no row.
- *Locks.* They are not a variable. A lock is held from the statement that takes it
  to the end of the transaction, so the labels say who holds what (`TierHolding`,
  `RegHolding`), and nothing can forget to release.
- *Insertion.* `ConfirmSave` stands for the UPDATE of the status, the counter and the
  INSERT of the payment row: once the UPDATE has the registration row nobody else
  can insert a payment for it, and the IntegrityError of a second payment ends the
  request there.
- *Failure.* `Fail` ends a request at any label: a killed worker, an exception from
  Stripe or the mail server, an abort. In the webhook an exception is
  `WebhookError`, which acknowledges the event, and only a killed worker is `Fail`.
- *Client.* It confirms with any intent id a client can know, or with none
  (`ConfirmRead`), pays when it likes or never, cancels when it likes.
- *Keys.* A registration is a name with a fixed tier. The intent created for `r` is
  called `r`, since its metadata carries `r`. A key whose request was rolled back
  before an intent or a mail left the database stands for a fresh one (`Fresh`).

Left out: the row locks the webhook also takes on attendee, user and event (they
only make requests wait, and the deadlocks they add are resolved the same way as
the one modelled); events of unknown registrations and failed payments (only
logged); ownership and role checks (a refused request changes nothing);
`Registration.STATUS_REFUNDED`, which no code sets. The lock order of the webhook
is the order of its joins. SQLite, the default of the development settings, runs
one writer at a time and is not modelled: production sets `DATABASE_URL`.

### TicketLedger

Registration rows, settled payments, issued tickets, the counters. `Issue` is the
sale: status, ticket and counter in one step. `KeepsLedger` maps `standing` to the
status column, `settled` to the succeeded intents, `issued` to the payment rows and
`sold` to `quantity_sold`. Two things it permits are the code's own: a sale over
a cancellation that lost its race, and a sale against the payment of another
registration, because the confirmation compares only the status of the intent it
is given. `settled # {}` in `Issuable` is that weak for this reason; the run
`sales` and the theorem `TicketsAreBacked` say which payment row stands on which
intent.

### Attendance

`CheckInAttendeeService.execute` is three statements without a transaction: read
the registration (`Scan`), look for a check-in (`ScanExists`), insert one
(`ScanInsert`). `feedback_create` reads the registration, its check-in, its feedback,
and inserts. Sales are steps of the ledger, since of sales these requests only see
the committed status, and `Ticketing` is shown to implement the ledger. `clock`
has three values, for the two comparisons one can make with the end of the event; the
code makes the later one only. The end of an event does not move in the model: a PATCH
of it between the read of the event and the comparison is left out.

`KeepsAdmission` maps `ticketed` to the issued tickets, `admitted` and `reviewed` to the
rows of each registration: what is left of the two handlers, when their stale checks are
taken away, is ticket, then one admission, then one review, whatever is cancelled.
`ClosedWindowGainsNothing` is an account of the window: once it has closed, a feedback row
may only take the place of a request that had passed the comparison before.
`CancelledAdmitsNothing` is the same account of a cancellation: once a registration is
cancelled, a check-in may only take the place of a scan that had found it CONFIRMED. Both
bound what comes late, and do not exclude it; `AttendanceBacked` asks for a ticket that was
issued, not for one that still stands.

### TierAdmin

`tier_detail` in two steps, the unlocked read and the write that waits for the row
lock. `edit` holds the object between them: `PatchSave` writes every column of it,
as `serializer.save()` does, and inserts a row that was deleted since. `DeleteSave`
is the PROTECT check and the DELETE with its foreign key check at commit. `TierCreate`
makes a tier, with `quantity_sold` at its default. A PATCH names any of price and total.
The name of a tier, and the event a PATCH may move it to, touch no sale and are left out.

`repriced` is a history variable: the registrations that had not been sold when a PATCH
changed the price of their tier. `RecordedAsQuoted` says that for all others the payment
row records the amount of the intent made for that registration. Two things make the row
differ from what Stripe took, and `RecordedAsQuoted` excludes neither. `serializer.save()`
can change a price at any moment that no request holds the tier row, so the row of a
registration in `repriced` may show an amount nobody was charged. And a
client may confirm with the succeeded intent of another registration, which the code
accepts: the row then shows the price its own buyer was quoted, while Stripe took the amount
of the other intent. The two registrations of the run `prices` do that, at different prices.

### Accounts

`ATOMIC_REQUESTS` is not set and these handlers open no transaction, so each statement that
writes is an action: the user row (`RegisterUser`), its profile (`RegisterProfile`), the
token (`Issue`), the blacklist row (`RefreshBlacklist`, `LogoutBlacklist`). A failure
between the first two leaves the account "bare": it can log in, has no profile, and its
address is taken. A refresh token remembers the token it was exchanged for (`parent`), a
name the model gives to what `refresh_view` does, to say what rotation means. An access
token is only the fact that the next request reads `is_active` (`Authentic`): `refresh_view`
does not, so a suspended user can go on exchanging tokens, which are of no use to it.
The `account_suspended` branch of `login_view` is never taken: Django's `authenticate`
returns no inactive user. `blacklist()` is the library's get-or-create.

### EventLifecycle

Authentication, the read of the event, and the write, in three steps. `edit` holds the
object between the last two: a PATCH saves every column of it, publish and cancel the
status alone (`save(update_fields=["status"])`). The body of a PATCH is any combination of
status and times; the serializer lets a PATCH name the status, so an organizer can
publish a cancelled event that way, and `OnlyStaleRevives` says that this and a stale read
are the only ways; a publish with a stale read is one of them. The serializer compares the
two times of an event only when the request names both (`InOrder`), so a PATCH of one of
them is saved against the order of the row. `OnlyPartialDisorders` says what else can
put an event out of order, namely nothing but a PATCH of a row that was read out of order
and has been put right since.

### Agenda

The requests about sessions, each one read (of the session and its event, in one query)
and one write by primary key. `draft` holds what the write will be. A PATCH is `save()` of
the object that was read: of a row deleted since, the UPDATE finds nothing and Django
inserts it again. `used` are the keys the sequence of the table has handed out; that a
create gets a new one is why only a PATCH can bring a session back
(`DeletedGainsNothing`, which bounds by the PATCHes under way how often that can happen,
as `BlacklistedGainsNothing` bounds the successors of a spent token; neither excludes it). Title, speaker and duration travel with the start; a session may
be moved to any event, also of another organizer, since only the event it comes from is
checked. The whole account model runs next to it.

### Reports

`event_analytics` runs its queries one after the other without a transaction; each is
an action on the state of `Attendance` at that moment. Under READ COMMITTED the
subquery of CONFIRMED registrations is evaluated again each time. `report` keeps, for each
number, the registrations whose rows it is over, and of the breakdown the counter of each
tier. The counters come last, which is why `ReportBounded` holds, tier by tier; with the
counters first it would not. The percentage (admissions by tickets, two queries) may exceed
100 and no property says otherwise.

The model is of sales alone. Next to tier edits, which can lower a counter (`lost_update`),
and next to `seed_demo`, which writes confirmed rows before it saves their counter,
`ReportBounded` is false. `attendee_csv_export` is one query with joins, whose columns are
of one moment; it has nothing to interleave with and is no action. A row `seed_demo` has
not yet paid for is shown by it with the amount "0.00".

### SeedDemo

`handle` is a list of statements, `Script`, in the order in which the command executes
them: accounts (`People`), events with tiers and sessions (`Programme`), and the tickets of
two of the tiers (`Samples`). A run is a position in it (`done`). There is no transaction, so `SeedFail` may stop
a run after any statement and what it has written stays; an IntegrityError does the same
(`Die`). Kept of the rows: the addresses, the two tiers the command sells, and the
registrations of those, with key order as insertion order. `SeedSave` is `save()` of the
tier object held since its creation, whose counter has only seen the run's own tickets.
The API is what other modules leave of it: registration of accounts under the demo
addresses; free registrations, which commit with payment and counter (`ApiSale`); PENDING
ones (`ApiReserve`) that a confirmation or a webhook sells later (`ApiConfirm`);
cancellations, scans, and the PATCH of a tier (`ApiPatch`), which writes back any counter it
may have read (`seen`, a history of the values there were). Since a PATCH can give the free
tier a price and take that of the other away, both kinds of registration are made of both
tiers; the price is not kept. A DELETE of a demo tier nobody has registered for makes the run
that goes on to sell it fail, which is `SeedFail`. A registration in the model is appended
when it commits; PostgreSQL hands out keys a little earlier, which can only change which two
are checked in.

`CounterNeverAhead` has one direction only. The other is false: `free_tier.save()` takes out
of the counter what the API has sold since the tier was created. And
the query of the check-ins takes the two oldest registrations of the tier, of whoever and in
whatever status, so it can admit a buyer who has not paid. `ChecksInFirst` says what is left
of "the first two": nobody is checked in by a run who came after its second ticket.
`UnpaidIsNewest` leaves one confirmed ticket without a payment where a run has died; no later
run repairs it, since that finds the admin and says "Demo data already exists. Skipping."

## 3. Runs

| Run | Instance | Shows |
|---|---|---|
| `sales` | 2 workers, 3 paid registrations, 2 seats | `TypeOK`, `SoldCountsPayments`, `TicketsBacked`, `OnlyWebhookOversells`, `IssuedCancelIsFinal`, `CancelledGainsNothing`, `KeepsLedger` |
| `liveness` | 3 workers, 1 registration, 2 seats | `RequestsFinish`, `EventsAcked` under `FairSpec` |
| `doors` | 2 workers, 1 paid and 1 free registration, 1 reader | `TypeOK`, `OneRowEach`, `AttendanceBacked`, `ReportBounded`, `ClosedWindowGainsNothing`, `CancelledAdmitsNothing`, `KeepsAdmission` |
| `edits` | 2 workers, 2 editors, 1 tier that is new, prices 0 and 1, totals 1 and 2, 1 registration | `AdminTypeOK`, `SoldAtMostPayments`, `NoOrphans` |
| `prices` | 1 worker, 1 editor, 1 tier that is new, prices 0, 1 and 2, 2 registrations | `RecordedAsQuoted` |
| `office` | 2 workers, 1 organizer, 2 tokens, 1 event, 1 session, 2 times | `AgendaTypeOK`, `OneCreator`, `RotationRetires`, `BlacklistedGainsNothing`, `OnlyStaleRevives`, `OnlyPartialDisorders`, `DeletedGainsNothing` |
| `seed` | 2 runs, 2 addresses that may be taken, 1 registration of the API | `SeedTypeOK`, `SeededOnce`, `CounterNeverAhead`, `UnpaidIsNewest`, `ChecksInFirst` |
| `oversell` | 2 workers, 2 registrations, 1 seat | violates `NoOversell` |
| `confirm_cancel` | 2 workers, 1 registration | violates `ConfirmOnlyPending` |
| `stranded` | 2 workers, 1 registration, fair | violates `PaidIsSettled` |
| `mail` | 2 workers, 1 registration | violates `MailMeansTicket` |
| `lost_update` | 2 workers, 2 editors, 2 free registrations | violates `SoldNeverLowered` |

**Bounds.** Registrations, workers, editors, tokens, sessions, times, prices, seats and,
in `seed`, `LiveSales` (registrations made through the API) are the only bounds; no counter is capped. Two workers make every overlap of two requests: the
client's confirmation and the webhook, two deliveries of one event, a cancellation and
either, two scans, two refreshes. The properties that are proved hold for any number;
`liveness`, which is not, has three workers, so that a third request can find a row held
by either side of a deadlock. `sales` has three registrations of two seats: with
fewer seats the second capacity check, made under the tier lock, turns away the
confirmation that lost its race to the webhook before it reaches the payment row, so
only a tier with a seat to spare shows that the unique constraint stands between them; with
a third registration the tier sells out and the capacity check decides. `edits` begins
without the tier and may make it free, paid, larger and smaller, with sales of either kind
in between; one registration is enough, since its properties relate one registration or
one payment to the tier. `prices` has two registrations, so that one can be confirmed with
the intent of the other, and three prices, so that the two can have been quoted different
ones and the tier be free besides; one worker is enough to meet an editor, and a second one
does not finish within minutes (`RowsShowTheQuote` is for any number). `office` has two tokens: one and its successor. (With three, a
second successor becomes possible; `AccountsProofs` covers any number.) Two times are
enough to be in order, equal, or reversed; one session, with two requests about it, to be
deleted under a PATCH and under another DELETE. In `seed` one registration of the API is
enough for its properties: it can be sold, unpaid, cancelled or scanned at any moment of
either run, be counted before, between or after the saves, and be among the two oldest. A
second one multiplies the states beyond minutes (the theorems are for any number).
Every run switches the deadlock check off: a
system whose buyers have all paid, cancelled or left, whose tokens are spent or whose
clock has run out does stop; that no request hangs is `RequestsFinish`.

**Symmetry** (workers, editors, registrations of one tier) is used in the runs of
safety properties only. The properties are closed under these permutations.

**Fairness** (`FairSpec`). Strong fairness of `Step(w)`: PostgreSQL serves the waiters
of a row in order, so a request that can go on again and again does. Weak fairness
of `DeadlockAbort`: PostgreSQL's detector aborts one transaction of a cycle after
`deadlock_timeout`. Strong fairness of `Deliver(r)`: Stripe repeats an
event until it is answered. And only finitely many deliveries of one event meet a
worker that is killed (`DiesDelivering`); otherwise no service could promise
`EventsAcked`. No client is assumed to do anything, and no request is assumed to
fail or to succeed. `RequestsFinish` is of requests that have begun: one that waits for a
worker is not covered.

**Disagreements with the repository's own texts.** Five are runs that must violate their
property; `findings` in `PROJECT.json` quotes the line each one is about.

- `oversell`: both buyers of a one-seat tier hold a PENDING registration, both pay,
  and the webhook, which never looks at the capacity, sells both.
- `confirm_cancel`: the confirmation reads PENDING, the attendee cancels, the
  confirmation gets the tier lock and saves CONFIRMED. (`CancelledGainsNothing` bounds it:
  only requests that were under way when the registration was cancelled can do this.)
- `stranded`: an error in the webhook is logged and answered 200; the buyer has
  closed the browser; the paid registration stays PENDING.
- `mail`: the request dies between the mail and the commit.
- `lost_update`: a PATCH that spans a sale writes the old counter back.

The others have no run of their own. Six are behaviours the passing runs contain, and their
properties permit:

| Text | What the code does | Bounded by |
|---|---|---|
| "End time must be after start time." (`events/serializers.py`, `events/models.py`) | a PATCH that names one time is not compared with the other time of the row | `OnlyPartialDisorders` |
| "Only draft events can be published." (`events/views.py`) | the check is of a row read before; PUBLISHED is written over a cancellation committed since | `OnlyStaleRevives` |
| "Raises RegistrationNotConfirmedError (410) if not confirmed." (`core/services/check_in_attendee.py`) | the check is of a row read before; a ticket cancelled since is admitted | `CancelledAdmitsNothing` |
| "Amount Paid" (`analytics/views.py`, the export) | the payment row records the price of the tier at the confirmation, which is not what Stripe took if it was patched since the intent, or if the client named another registration's intent | `RecordedAsQuoted` |
| "Atomically increment quantity_sold by 1." (`core/repositories/event_repo.py`) | `seed_demo` saves a counter that has not seen the sales since the tier was created, and takes them out | `CounterNeverAhead`, which says nothing of that direction |
| "Check in the first two attendees" (`seed_demo.py`) | the two oldest registrations, of whoever, also unpaid or cancelled | `ChecksInFirst` |

Two more are single statements. TC-08 (`tests/registrations/test_payment.py`) confirms a paid
registration without a `payment_intent_id` and mocks `retrieve_intent_for_registration`;
the code calls `retrieve_intent` with the absent id and refuses (`Verified` in
`Ticketing`). And the docstring of `feedback_create` says "event ended within 14 days",
while the code compares only with the end of the 14 days: an attendee who is checked in
may leave feedback before the event has ended (`FeedbackExists`, with `clock` at "before").

## 4. Proofs

All theorems hold for any set of workers, editors and tiers, any finite set of
registrations, any prices and totals; the assumptions on the constants are those
named in the modules (`RegsAssumption`: finitely many registrations, and the names for
"no registration" and "free" are not registrations; `TiersAssumption`,
`PaymentAssumption`, `EditAssumption`: types; `FiniteAssumption`, `AccountsAssumption`:
finitely many workers, registrations, tokens; `SeedAssumption`: the API is not a run of the
command). The proofs assume nothing else.

`TicketingProofs` proves, from one inductive invariant `IInv`, whose larger part, `Core`, is
proved in `TicketingInvariant`:

| Theorem | Property |
|---|---|
| `Inductive` | `[]IInv` |
| `TypeCorrect` | `TypeOK` |
| `CounterCorrect` | `SoldCountsPayments` |
| `TicketsAreBacked` | `TicketsBacked` |
| `CancelOfIssuedIsFinal` | `IssuedCancelIsFinal` |
| `CancelStopsArrivals` | `CancelledGainsNothing` |
| `ServicesRespectCapacity` | `OnlyWebhookOversells` |
| `ImplementsLedger` | `KeepsLedger` |

`SoldCountsPayments` is not inductive: `SaleCommit` inserts a payment row without
looking whether there is one, and would count a registration twice if there were.
That there is none is known since `ConfirmSave`, and stays true because the
transaction holds the registration row. So `IInv` adds, in `Core`,

- `LocksExclusive`: no two transactions hold one row, of either kind. A lock is
  taken only when free (`TakesFreeLocks`), and only a worker's own step moves it.
- `WorkerOK(w)`: what the worker knows at each label: the row it creates is still
  absent, the row it works on exists, no payment row past the point where that was
  checked, capacity left past the check of a service. `RowsOfOthers` shows that
  other workers do not disturb it, which is where the locks are used.
- `RefOK(w)`: the reference it carries stands on a success at Stripe or on a free
  tier, from the check to the commit. Successes are not taken back (`SuccessStays`),
  which needs that no intent is created twice for one registration.
- `RowOK(r)`: the same for the rows, and that an event exists only for a payment.

and outside it `PricesFixed`: no sale changes a price, and the reference "free" is of free
tiers. Of a tier `Core` only says that a request past the
capacity check, which has locked it, has a seat; so it also holds while tiers are edited.

`CountStep` then needs only `SellAddsOne`: the set of paid registrations of the tier
grows by one element exactly when the counter does. The refinement has one lemma
for the sales (`SaleIssues`) and one step for each other action (`LedgerStep`).

`TierAdminProofs` proves `AdminTyped` (`AdminTypeOK`), `RegistrationsKeepTheirTier`
(`NoOrphans`), `SeatsArePaidFor` (`SoldAtMostPayments`) and `RowsShowTheQuote`
(`RecordedAsQuoted`) from `AdminInv`. Its steps are those of `Ticketing`, which keep `Core`
by `CoreStep`, and edits, which write one row of a tier nobody has locked, or of one that
is new (`AdminSteps`, `SpareLocked`), and so disturb nothing a request knows about its
tier. To it `AdminInv` adds

- `Listed`: also the tier of a request under way exists. A request that makes a
  registration found its tier and holds its lock, which a DELETE waits for; any other is
  about a row that a DELETE sees.
- `SoldBounded`: also the stale counter that a PATCH holds is covered by payments. It was
  when it was read, and payments do not go away (`PaymentsStay`).
- `PricesKnown`: the price of a tier is the amount of the intents of its unsold
  registrations, except those in `repriced`, and the one a request has seen since it has
  the lock.

Of cancellations it proves what `TicketingProofs` does: `CancelOfIssuedIsFinalUnderEdits`
(`IssuedCancelIsFinal`) and `CancelStopsArrivalsUnderEdits` (`CancelledGainsNothing`). Their steps
(`IssuedCancelStep`, `CancelledGainStep`) need `Core` alone, and an edit leaves everything
but the tier row as it is (`EditsSpareSales`). `OnlyWebhookOversells` does not carry over: a
PATCH may write back a counter that an earlier one had lowered.

`AttendanceProofs` proves `AttendanceTyped` (`TypeOK`), `OneAdmission` (`OneRowEach`),
`AttendanceIsBacked` (`AttendanceBacked`), `WindowCloses` (`ClosedWindowGainsNothing`),
`CancelStopsScans` (`CancelledAdmitsNothing`) and the refinement `ImplementsAdmission`
(`KeepsAdmission`) from `AInv`, which adds that a confirmed registration has been
issued and that a request past its check stands on an issued ticket, or on a
check-in: both never go away again, whatever is cancelled. The two accounts need one fact
each: an insert uses up the request that makes it (`InsertUsesUp`, `ScanUsesUp`).

`AccountsProofs` proves `AccountsTyped` (`TypeOK`), `OneRequestCreates` (`OneCreator`),
`RefreshRetires` (`RotationRetires`) and `RetiredGainsNothing` (`BlacklistedGainsNothing`) for
any addresses and any finite sets of workers and tokens (`AccountsAssumption`).
`RotationRetires` is about rows, and the row that could break it is written from what
a request remembers, so its `AInv` adds `RequestOK`: the token a refresh carries is its
user's, and is blacklisted by the time the request may issue another. The accounting of
`BlacklistedGainsNothing` needs one fact per action (`GainStep`): only `Issue` adds a
successor (`IssueGains`), and it uses up a request that read the token earlier.

A request of these ends at any other kind of label, so the lemmas about steps of `Accounts`
hold among the labels of all requests of an organizer (`WorkerLabels`), and `AgendaProofs`
uses them as they are.

`AgendaProofs` proves, for the organizer's whole office, accounts, events and sessions
together and any number of each:

| Theorem | Property |
|---|---|
| `OfficeTyped` | `AgendaTypeOK` |
| `OneRequestCreatesInOffice` | `OneCreator` |
| `RefreshRetiresInOffice` | `RotationRetires` |
| `RetiredGainsNothingInOffice` | `BlacklistedGainsNothing` |
| `CancelledStaysButForStale` | `OnlyStaleRevives` |
| `DisorderIsPartial` | `OnlyPartialDisorders` |
| `DeletedStaysButForStale` | `DeletedGainsNothing` |

`AgendaTypeOK` is not inductive, because the handlers write what they remember: a session
that is saved must be under a key that was handed out, and nothing in the type of a
draft says so. `OfficeInv` adds what each request knows between its read and its write:

- `EditOK(w)`: what is about to be saved is a whole row, of an event that exists (no code
  deletes one), a publish has seen a DRAFT, a cancel writes CANCELLED, a create is in order,
  and so is a PATCH unless it is of one time or of a row out of order (`Partial`).
  `OnlyStaleRevives` and `OnlyPartialDisorders` are then a matter of what each write does to
  the status and the times it finds (`EventSave`).
- `DraftOK(w)`: a PATCH or DELETE of a session has found it, so its key is among `used`; with
  `NewKey` outside `used`, a create never brings back a deleted session.

The two accounts, of tokens and of sessions, add up per action: nobody but a PATCH makes a
deleted session, and that PATCH is no longer under way (`PatchUsesUp`).

`ReportsProofs` proves `DashboardBounded` (`ReportBounded`) from `ReportInv`. A dashboard compares rows read at several moments with counters read
later still, so its bound needs

- `CounterOK`: the counter of a tier is the number of tickets ever issued for it (a sale
  adds one of each, `IssueCounts`; a cancellation neither takes the ticket out of `issued`
  nor the seat out of the counter);
- `ReadOK`: whatever has been read so far is of issued tickets. It is stated of `issued`
  and not of the counters, which the sales may still move before they are read.

`SeedDemoProofs` proves, for any number of runs and of registrations made through the API:

| Theorem | Property |
|---|---|
| `SeedTyped` | `SeedTypeOK` |
| `OneRunSeeds` | `SeededOnce` |
| `CounterNotAhead` | `CounterNeverAhead` |
| `UnpaidOnlyNewest` | `UnpaidIsNewest` |
| `ScansTheFirst` | `ChecksInFirst` |

They stand on what the script says of the statement at each place (`Statements`): the first
takes the admin's address, a registration is followed by its payment, three tickets come
before the select, the select before the check-ins. `SeedInv` says what follows for a run:

- `RunOK(p)`: a run that is past its first statement has taken the admin's address, so the
  next to try gets the IntegrityError. Not even `SeededOnce` is inductive without it.
- `UnpaidOK`: a run's ticket without a payment row is its last, and its next statement pays
  for it; a registration of the API without one is not confirmed. So when a run saves a tier,
  all its own tickets are paid (`OwnPaid`), which bounds the counter it writes.
- `SeenOK`: no counter a PATCH may write back exceeds the payments: it did not when it was
  read, and payments do not go away (`PaidStay`). A sale adds one to both (`RoomForOne`).
- `MadeOK(p)`: the run has made two tickets of the tier it selects from, so the query finds
  two (`SelectsTwo`).
- `PickedOK(p)`: at most one of the run's own tickets is older than either of the two. They
  are the least keys of the tier when they are selected, and later rows have greater keys
  (`EarlyStays`).

That the query has an oldest ticket to return (`OldestIs`) is the least-number principle,
cited in its first-order form (`WFMin`).

Only model-checked: liveness, `RequestsFinish` and `EventsAcked` (out of the prover's reach),
and the violations. Every other property of a passing run is a theorem.

## 5. Not modelled, and the plan

What the project could still gain, in this order:

1. An abstract specification of what `Accounts` promises (a chain of tokens of which at most
   those under way are not retired), with `Accounts` shown to implement it.
2. The attendance theorems over `Ticketing` itself. They now go through the ledger: sales
   implement it (`ImplementsLedger`), and attendance is proved next to it.

Not modelled:

- permissions and exceptions: stateless; a refused request changes nothing and takes no
  step;
- settings, middleware, logging and routing: no state; the isolation level, the absence
  of `ATOMIC_REQUESTS` and the rotation of tokens are taken from the settings;
- the public list of events and the other pure reads: each is one query of committed rows;
- the admin site, templates and migrations: registration of models, presentation and
  generated code;
- tier edits and `seed_demo` next to the dashboard: a PATCH may lower a counter
  (`lost_update`) and the command saves one after the tickets, and nothing holds of the
  dashboard then;
- the export: one query of committed rows.
