# TLA+ models of Xboard-Go

This directory holds the formal models kept beside the Go code of Xboard-Go, a
subscription panel for proxy nodes: users buy plans, pay through external
providers, receive entitlements and traffic quotas, and machines that run the
nodes report traffic, devices and state back to the panel. The panel is one Go
process over one SQLite database; with Redis, several processes share the node
connections.

- `X.tla`: the model of a component. `MCX.tla` with its `.cfg` files: the small
  instances TLC checks. `XProofs.tla`: theorems, checked by TLAPS.
- `PROJECT.json`: which definition models which lines, the runs, the mutants
  that show each property can fail, the hazards, the findings, the theorems.

## 1. Inventory

### 1.1 How the system interacts

Almost all durable state changes go through `internal/store`: each exported
operation takes the process-wide write lock (`defer s.lockWrite()()`), opens one
transaction and commits or rolls back. One store operation is therefore one
atomic action. What is *not* atomic is everything above it:

- an HTTP handler that calls the store, then a payment provider, then the store
  again (checkout), or reads, checks something else and then acts (diagnostics);
- background jobs (`internal/scheduler`, one goroutine per job, each minute or
  each day) that race with requests and process batches of limited size;
- workers that claim a row, work outside the database and confirm (mail,
  Telegram, bulk jobs), and may die in between;
- the websocket hub, whose goroutines share a mutex that is *not* held across
  the Redis calls; Redis scripts are atomic one by one and not together, and
  Pub/Sub events may be lost;
- clients, nodes and providers that retry, repeat and reorder their requests;
- the clock, which decides about leases, timeouts and expiries between any two
  steps.

### 1.2 Components

| Component | State | Operations | What is hard | What makes it correct | Module |
| --- | --- | --- | --- | --- | --- |
| Orders (`store/orders.go`) | orders, wallet, subscription, entitlement events | create, assign, cancel, complete, sweep, admin edit | surplus computed at creation and used hours later, refunds at the wallet limit, absolute saves by administrators | one open order, money conserved, surplus consumed once, entitled once | `Orders` |
| Checkout and webhooks (`store/payment_checkout.go`, `httpapi/payment_handlers.go`) | attempts, receipts, provider calls | start, complete, fail, webhook | provider call between two transactions, duplicate and late webhooks, leases | paid money is honoured once, one call per attempt, no cancellation under a call, pending orders end | `Checkout` |
| Commissions, withdrawals (`store/commissions.go`, `store/commission_withdrawals.go`) | commission status, commission account, withdrawals | confirm and pay batches, transfer, request, approve, reject, pay, admin edit | partial payment along a chain of inviters, replayed requests, two administrators | accounts balance, an order pays once, a receipt settles one withdrawal | `Commissions` |
| Node connections (`httpapi/websocket.go`, `nodecoord/redis.go`) | Redis leases, hub maps, connections, plans in flight | claim, register, verify, report, release, renew, synchronise, drain | two instances, expiry, lost events, stale plans, close racing reconnect | who loses a lease is told, nothing is left behind, node sets converge | `NodeHub` |
| Diagnostics lease (`diagnostics/lease.go`) | sessions, keys, snapshot bindings | start, stop, snapshot, acknowledge, clean up | late and repeated acknowledgements, deadlines, replays | acknowledgements rest on evidence, limits and deadlines hold | `DiagnosticsLease` |
| Device state (`devicestate`) | Redis entries and indexes, online count | replace, clear, list, notify, flush | interleaved round trips, failures half-way, throttled writes | the count shown is true or about to be corrected | `DeviceState` |
| Mail and Telegram outboxes (`store/*mail*`, `mailer`, `telegrambot`) | queued messages with leases, webhook updates | queue, claim, deliver, retry, fail, cancel, prune | crash between delivery and record, stale worker recording, cancelled claims | what `OutboxPromise` says, and every message ends | `Outbox`, `OutboxPromise` |
| Accounts: sessions, tokens, codes, links, registration | users, credentials, challenges | log in, change, reset, link, register, administrate | checks one step before the transaction that uses them | no credential outlives what it rests on, admissions are earned | `Accounts` |
| Bulk jobs (`bulkops`, `store/admin_user_bulk_jobs.go`) | jobs, targets, export files | create, claim, send, export, cancel, reap, retry, erase | slow and dead workers, users erased meanwhile | a job tells the truth, an export tells no more than it may | `BulkJobs` |
| Gift cards, coupons (`store/gift_cards.go`, `store/coupons.go`) | templates, codes, uses, orders | design, issue, redeem, edit, toggle, expire, sell | forms saved over redemptions they never saw | nothing is given that no code stands for | `Vouchers` |
| Traffic (`store/runtime.go`, `store/plans.go`) | counters, receipts, reset log | report, reset, reschedule | repeated reports, resets between them, short months | counted once, the next reset is the first day the method names | `Traffic` |
| Distributors (`store/distributors.go`, `httpapi/client_subscription*.go`) | dealers, orders, subscriptions, devices | sell, renew, settle, edit, claim, register, deliver | keys reused, three transactions per delivery | settled once, renewals kept, handed over once | `Distributors` |
| Attachments (`attachments`) | uploads, chunks, files, rows | upload, complete, drop, copy, trash, sweep | crash between file and row, articles that take no lock | what an article shows can be opened, quota | `Attachments` |
| Backups (`backup`) | archives, replica, restored files | create, verify, copy, seal, send, restore | the panel purges while an archive is written, shared paths | a restore is the panel as it once was | `Backups` |
| Deployment lifecycle (`lifecycle`) | containers, journal, lock, databases | install, upgrade, roll back, recover | Docker fails with effect, the tool is killed | nothing acknowledged is lost, the journal is true | `Lifecycle` |
| Legacy migration (`legacymigration`, `cmd/xboard`) | target tables, ledger, archives | 32 import commands | the database is closed between lookup, archive and import | consistent target, a way back for each slice | `LegacyImport`, `LegacySettings`, `LegacyAccounts`, `LegacyCommerce`, `LegacyMigration` |
| Plans, nodes, tickets, settings, scheduler, providers | rows | edits under a revision | few protocols of their own | revision checks | not modelled, section 7 |
| Formatters, configuration, HTTP layer, UI | none | pure functions | | | not modelled |

`PROJECT.json` lists every component and the hazards at the lines where they
bite, each with the properties that would catch it.

## 2. Plan

The order followed the damage a fault would do: money first, then the ownership
of nodes, the asynchronous workers, the ledgers, and what lives beside the
database. All of it is modelled now:

| Step | Modules | Theorems |
| --- | --- | --- |
| 1 | `DiagnosticsLease` | `DiagnosticsLeaseProofs` |
| 2 | `Orders`; `Checkout`, which composes it with the provider | `CheckoutProofs` |
| 3 | `NodeHub`: hub and coordinator | `NodeHubProofs` |
| 4 | `Commissions` | `CommissionsProofs` |
| 5 | `LegacyImport` with `LegacySettings`, `LegacyAccounts`, `LegacyCommerce`, `LegacyMigration` | model-checked only |
| 6 | `Outbox`, which implements `OutboxPromise`; `Accounts`, which composes it with logins and registration; `BulkJobs` | `PanelProofs` |
| 7 | `Vouchers`, `Traffic`, `DeviceState`, `Distributors` (on the calendar of `Traffic`) | `LedgerProofs` |
| 8 | `Attachments`, `Backups`, `Lifecycle` | `DeploymentProofs` |

`SumTheorems` holds what the ledger proofs need to know about sums over finite
sets.

What is left. Every safety property of the runs has its theorem, except those of
the legacy migration: it is a fixed list of 32 slices, so its runs already cover
what a theorem would add.

Runs of a component are merged where one instance answers both questions: an MC
module composes several components, and a behaviour is about one of them while
the others rest (variable `part`, or the scope chosen initially).

## 3. Modules

Conventions. A store operation is one action; a handler that leaves the store in
between is several. Operators carry the name of the function they model. An
operator whose comment begins with `Mutant:` is a plausible bug used only to show
that a property can fail. Integers stand for times and cents; `MaxNow` and the
other `Max...` constants are bounds of the instance, except `MaxMoney`, which is
the limit of a wallet in the code.

### 3.1 DiagnosticsLease

Sessions, idempotency keys and snapshot bindings of `MemoryLeaseService`, one
action per method. `BeginStart` and `StartSession` are the two halves of the
admin start handler: what it read before the storage health check, and what it
does after it. Every method first runs `cleanupExpired`, and so does every
action (`CleanSession`, `CleanBindings`, `CleanIdempotency`). `ProcessNodeAck`
applies a sequence of entries up to the first one that is refused, as the loop
does. `Restart` loses everything, because the service is in memory.

### 3.2 Orders

Wallets, subscriptions, orders, checkout attempts and the administrator's edit
form. `CreateOrder` models the whole of `CreateOrder`: the active-order check,
type, discount, surplus (`Surplus`, `RecurringSurplus`, `PermanentSurplus`) and
the split of the price between surplus, wallet and payment (`Charge`).
`EndOrders` is the common end of orders: refunds, completions and
quarantines of one transaction, with the entitlement and the orders whose value
was converted. `ProcessStaleOrders` sweeps the first `BatchLimit` stale orders in
the code's order, and backs off those whose refund does not fit.
`UpdateAdminUser` writes an absolute balance and succeeds only if the form's
revision is current; `Touch` is the trigger that advances the revision.
`Imported` are the orders `ValidateLegacyOrdersData` accepts in processing.

Traffic is not counted. The surplus of a plan change is any amount up to the
share of the time that is left (`RecurringSurplus`) or up to what was paid
(`PermanentSurplus`), which covers whatever share of the traffic was used up.
Coupons are a set of discounts, and months have equal length.

### 3.3 Checkout

Extends `Orders` with provider calls in flight, pages, receipts and payment
methods. `StartPaymentCheckout` is the first transaction and puts a call in
flight; `CompletePaymentCheckout` and `FailPaymentCheckout` are the second one,
`AbandonCall` is a request that ended in between. `CachedCheckout` reuses a page.
`Pay` (external) is the buyer paying a page that was shown at any time;
`CompletePaymentWebhook` and `LateWebhook` are what the panel does with the
provider's notification, again and again. `Off` is a disabled method.

### 3.4 NodeHub

Redis leases (`owner`), events on their way (`net`), the hub maps of each
instance, connections with a phase, and the runs of `notifyMachineNodes`
(`tasks`). A connection goes through `Accept`, `Claim`, `Register`, `Verify`,
`Receive`/`Apply`/`StoreDevices`, `Stop`, `Unregister`, `Release`, `Clear`; the
points between those steps are where the mutex is free or a Redis call is made.
A synchronisation is `Begin`, `Snapshot`, `Pick`, `ClaimNodes`, `Install`,
`ReleaseRemoved`, `ClearRemoved`, `Retry`. `Faults` chooses what may go wrong:
failing Redis calls (with or without effect), expiry, lost events, crashes,
draining, revoked credentials. A deployment also says which instances agents connect to
(`fronts`) and which ones administrators work on (`desks`), so that an event can be
the only way from an assignment to the instance of the connection.

Abstractions: the checks of the hub and of Redis in front of a report are one
step (`Receive`); closing the connections that a registration replaces is part
of `Register`; the registration lock is represented by the registration key; an
administrator's refusal to assign a disabled machine is not modelled.

### 3.5 Commissions

Orders with their commission, accounts, withdrawals, settings and the edit
form. `ProcessCommissions` is the whole batch: confirmation of due orders
(`Confirmed`), selection (`Payable`, `Before`), and for each order either all its
shares along the chain of inviters (`Settled`) or, when an inviter repeats
(`Cyclic`) or an account is full (`Fits`), none of them and a retry time
(`RetryAfter`). Withdrawals are `CreateWithdrawal` with its replay
(`Replay`), `ApproveWithdrawal`, `RejectWithdrawal`, `PayWithdrawal` and
`CloseTicket`.

Left out: a rate or type per inviter, spending of the wallet, the banned flag,
tickets that are not withdrawals, anonymisation of settled withdrawals and the
list of supported methods.

### 3.6 Outbox and OutboxPromise

Five mail tables and the Telegram table follow one protocol, so a row carries its
kind. A mailer asks for the kinds in the code's order (`Reached`: reset,
registration, link, ticket, reminder), claims under a lease, looks at the claim
once more (`OutboxClaimActive`), sends (`Send`: the server may take the message
and the worker not learn of it) and records the outcome under its claim
(`Complete`, `RecordFailure`). The claim token is the number of the attempt.
`Recovered` and `Redirected` are what a claim does first with exhausted rows and
lost recipients. Switching channels cancels (`UpdateMailSettings`,
`UpdateTicketSettings`, `UpdateSiteSettings`, `UpdateTelegramSettings`), pruning
cancels with the code, and a webhook update is claimed, taken over when stale and
answered in one transaction. `OutboxPromise` is the abstract specification: one
message per occasion, handed over a bounded number of times, ended once, `sent`
only if handed over. `Promise` is the refinement mapping.

Left out: provisioning of the webhook, the retention of webhook receipts,
rendering, SMTP. Reminders of one day, in batches of one.

### 3.7 Accounts

Extends `Outbox` with passwords, sessions and tokens, challenges, login links and
registration. A handler that hashes a password, or was authenticated before it
writes, is two actions with a record in `requests` between them. `Miss` counts
wrong guesses; pruning deletes a challenge with its lock, so guesses are bounded
per code and not per address. A code asked for again inherits the wrong guesses
and the end of their window (`password_reset.go:66`), so it may see the rest of
that window and one of its own: `AdmissionsEarned` bounds the guesses at a code by
`2 * MaxGuesses - 1`, not by `MaxGuesses`. What a signed-in user creates for himself looks at
the ban only and is exempt from `CredentialsCurrent`. Left out: the limiter of
failed logins, the trial plan, the making of invitation codes. The limit per
source is always on.

### 3.8 BulkJobs

Mail jobs, exports and bans with snapshot, claim, lease, cancellation, reaping
and retry, the exported file from temporary to published to expired, and what
deactivation and erasure of a user do to all of them. A worker may die or outlive
its lease at every step (`faults`).

### 3.9 Vouchers

Templates and codes of all card types, redemption with the inviter's share, the
handlers that read before they write (`desks`), purchases that keep their
snapshot, coupons with their limits. As in the code, a coupon's use is not given
back when the order is cancelled, and the limit per customer ignores orders that
are open or cancelled. A purchase order that is still open (`OpenOrder`) and a ban
(`SetBanned`) refuse a redemption; a plan card without a validity keeps the expiry
that the customer has (`PlanMonths`).

### 3.10 Traffic

`ApplyNodeReport` with and without a receipt, rates and overflow, and the reset
methods over a calendar of short months (`CalculateNextTrafficReset` and the anchors).
A report that names one user outside the node's groups is refused whole, and the
node repeats it; a repetition is recognised by its receipt before its users are looked at. Assumed: a node does not repeat a report after its receipt's
life.

### 3.11 DeviceState

Every operation is the sequence of its Redis round trips, interleaved with those
of other panels, fenced by the node's generation; it may fail after any of them.
Assumed: an operation is shorter than a throttle period. The expiry of the Redis
keys themselves is left out.

### 3.12 Distributors

Extends `Traffic` for its calendar. A sale adds months as `AddDate` does,
overflowing a shorter month, while a renewal clamps; renewals are answered from
their key. `SettleDistributorOrders` works on a distributor's month and also takes orders made
after the preview, if the administrator (`Clerk`) is not banned and still one when the
settlement is stored. The subscription request is three transactions: the claim, the
device and the delivery. Left out: texts, limits of speed and traffic, the next
reset of an entitlement, capacity used by other customers.

### 3.13 Attachments

Uploads in chunks, completion, drafts, copies, trash and sweep as their steps on
disk and in the database, with a crash at any of them; saving an article and asking for
an upload's status take no lock. The sweep looks at a leftover file (`StatOrphan`), asks
for its row (`QueryOrphan`) and removes it (`RemoveOrphan`) in three steps without a
lock; it takes old files from the quarantine without asking at all
(`CleanupQuarantine`), passes over what fails (`PassOver`), and may end early
(`CleanupEnds`). Exempt from `AttachmentsKept` (`forfeited`, `overdue`), each a behaviour
of the code: what was restored after its retention; a discard cut off by a crash, or
whose file the sweep took from the quarantine before the discard failed and wanted it
back (`cleanup.go:104`); a leftover file published anew between the sweep's question
and its removal (`cleanup.go:128`); and uploads finished after their reservation lapsed.
One draft, files of size one, one request beside the sweep and the article saves.

### 3.14 Backups

Archives of both formats, created from the running panel, verified, copied,
sealed, sent, fetched and restored by commands that run beside each other and may
be cut off; files rot. A digest is the flag `sound`. A restored root is renamed to a path
that must be free, as `os.Rename` demands of a directory, and a database that cannot be published,
for whatever reason, takes the root it came with away again (`backup.go:209`). Left out: two
restores whose renames meet inside that system call.

### 3.15 Lifecycle

Install, upgrade, rollback and the recovery of gateway and frontend, in both
topologies, with journal and lock. Every Docker command may fail with or without
its effect, and the tool may be interrupted or killed at each step. The gateway
stands for the frontend too; images are ordered by their schema; healthy means
that all components run (`up`, `edgesUp`), and the others than the backend may stop and
come back by themselves (`EdgeTurns`). A `compose up` may have removed containers
without making new ones (`Lacking`, `RecreateFails`), and an entry may fail to be
appended after the torn tail of the journal was cut off. Not repaired by the tool, as documented: after a kill between `prepared`
and `upgraded` neither upgrade nor rollback is accepted.

### 3.16 Legacy migration

`LegacyImport` is the protocol of every command: read, look up the ledger, write
the rollback archive, import in one transaction. The slices are one reader, one
lookup and one import each. Values are reduced to their origin and the switches
that checks read. As in the code: payments imported before orders are not
compared with the orders' payment ids; the site policy may switch e-mail
verification on before the mail settings are there; an old panel that verified addresses
without an SMTP host gets its site policy first in the documented order, and then
`ensureSMTPCanBeDisabled` (`mail_settings.go:104`) refuses its mail settings for
good (`legacy_mail_settings_migration.go:197`), which is what the code wants of a mail
service that something depends on and what no document denies. `OrderCompletes` therefore leaves that one slice of
such a panel out (`PolicyNeedsMail`) and claims all others. An operator gets by with
importing the mail settings before the site policy, or with setting up SMTP by hand;
any edit in the panel leaves
an audit row, after which users cannot be imported; two operators' archives may
lack each other's slices, so `UndoesOneSlice` is claimed for one operator left
alone.

## 4. Runs

Every property has a mutant of a mapped definition that TLC refutes. A property
that is a conjunction of named parts (`LeaseHistory`, `OrdersOnce`,
`ValueConserved`, `CallsSound`, `HubLeadsToLive`, `LeasesFollowed`,
`MoneyAccounted`, `RequestsDistinct`, `BulkSound`, `DealsSound`) is checked as a
whole.

| Run | Properties | Instance and why it is enough |
| --- | --- | --- |
| `diagnostics_lease` | `ConcurrencyLimit`, `AckEvidence`, `ReportedStateTrue`, `LeaseHistory` | two customers for one slot, two nodes, two keys, two sessions, clock to 4 with a duration of 2: replay after stop, expiry, tombstone and restart; acknowledgements for the wrong session, revision, node or time |
| `diagnostics_health` | `NewLeaseHealthChecked` (violated) | see findings |
| `orders` | `OrdersOnce`, `ValueConserved`, `BalanceLedger`, `FormsCurrent`, `OrderHistory` | one user (orders of two users share nothing but the batch, see `checkout`), two plans with recurring, reset and one-time periods, three orders: a chain of two plan changes; an edit form, a transfer, an imported order |
| `checkout` | `TypeOK`, `ReceiptSettled`, `SettledBinding`, `ShownPageHonoured`, `CallsSound`, `PendingEnds` | part `pages`: one order, two methods, a fee that changes, clock to 5 with timeout 3, grace 2, lease 2 and call limit 1, so two pages of one order are paid late and twice; part `queue`: two users, a wallet a refund does not fit, batch size 1, so an order that cannot end stands before one that must |
| `hub_sync` | `HubLeadsToLive`, `NodeSetsConverge` | three deployments with one agent, its node moving between two machines: one process without Redis with three reassignments and a drain; two instances, the agent on one and the administrators on the other, with two reassignments and lost events; the same with one, with failing calls too. Up to three runs per instance (request, event, ticker) hold plans read between different assignments and install them in any order: TLC reaches states in which a verified older plan is installed after a newer one |
| `hub_live` | `LeasesFollowed`, `LocalCloseFenced`, `LostLeaseCloses` | three deployments with two connections: no Redis with reassignments; Redis with draining, revoked credentials and both protocols; Redis with loss, expiry, crash and failing calls |
| `hub_stale_clear` | `StaleCloseFenced` (violated) | see findings |
| `commissions` | `MoneyAccounted`, `RequestsDistinct`, `NoOrderBlocks` | one buyer with two orders, a chain of two inviters that can be closed to a cycle, batches of one, two policies, two withdrawals, one edit form, accounts of limit 3 |
| `legacy_migration` | `TargetConsistent`, `WayBack`, `UndoesOneSlice`, `OrderCompletes` | nine scopes over a complete snapshot, the same without an SMTP host, a different and a broken one, one or two operators, edits, crashes and restores; two scopes are the documented order over all 32 slices with a crash, with and without an SMTP host |
| `panel` | `CredentialsCurrent`, `AdmissionsEarned`, `BulkSound`, `PromiseKept`, `EveryMessageEnds`, `BulkEnds` | scopes of accounts and outboxes (`Scopes` of `MCPanel`), each of which brings two handlers, two workers or a fault together, with two rows, two attempts, leases of one and a limit of two wrong guesses, so that a reissued code inherits one; bulk mail, export and ban over two users, two workers each and one fault |
| `ledgers` | `VouchersAccounted`, `TrafficAccounted`, `SummariesHonest`, `DealsSound` | two redeemers, one of whom invited the other, five forms, one code of two uses, two edits, with bans and open orders of the invited one; months of 3, 1 and 2 days over 8 days, receipts of 2; two panels, two nodes, one address, one failure, moments to 4, one less with the failure and one less with the second node; two distributors, an administrator who is banned meanwhile, three orders, two keys, two edits, sales from day 2 on so that a month is overflown |
| `deployment` | `AttachmentsKept`, `RestoredWhole`, `LifecycleSafe` | two uploads under a quota of one, or one article with copies under a quota of two, one crash, and the sweep beside all of it; one command with copies of bundles, or two on the same paths; both topologies with two images, one write, two archives, one restored database |

Limits of these instances. `MaxQueue` bounds the events of a subscriber only
where losing events is among the faults, so it hides nothing elsewhere;
`LeasesFollowed` speaks of deployments without synchronising threads, because a claim of a
node that a departing connection has already released really does survive until
its lease expires (`websocket.go:1293`). Symmetry is used only for invariants and
action properties, never for liveness. Runs that switch the deadlock check off do
so because the bounds on time, orders or connections let the system stop.

### Fairness

- `Checkout`: weak fairness of the clock, of the failure of each call (the HTTP
  client's limit of 15 s ends every call, and `Advance` cannot pass that limit)
  and of the sweep, which the scheduler starts every minute. Nothing is assumed
  of buyers, providers or webhooks.
- `NodeHub`: weak fairness of the steps that hub goroutines take by themselves
  (the handshake, a reader told to stop, the close path, the renew ticker) and, per
  instance, weak fairness of some started synchronisation and of the one-minute
  reconcile ticker: no single run is promised to get on while others keep starting. Nothing is assumed of
  agents, administrators or of a crashed instance, and no event is assumed to
  arrive or to be handled.
- `panel`: weak fairness of each mailer and Telegram worker, of the mail and
  export workers of bulk jobs, of pruning and cleanup, all of which poll on
  tickers, and of the clock. Nothing is assumed of SMTP servers, users or
  administrators; a worker that dies is started again with its process.
- `legacy_migration`: weak fairness of the one operator who follows the
  documented order: he goes on with the next command, starts one again that crashed,
  and a started archive and import end; crashes are bounded.
- The other runs assume none.

## 5. Findings

1. `diagnostics_health`, doc/code divergence. The admin handler decides whether a
   start makes a new lease from a session it reads first, and reads the storage
   health only then; `StartSession` decides again. If the session ends in
   between, or the clock stands exactly at `ExpiresAt` (`After` here, `Before`
   there), a lease is created with no health check, although comment and design
   document promise one (`admin_diagnostics_handlers.go:743`).
2. `hub_stale_clear`, code bug. With Redis, the close path releases its leases
   and only then clears the devices, outside the hub's mutex: a reconnect that
   claims, registers and reports in between loses its snapshot, which the
   function's comment excludes (`websocket.go:652`, `672`). Without Redis the
   same property holds (`LocalCloseFenced`, run `hub_live`).

## 6. Proofs

Every theorem holds for every value of the constants that satisfies the named
assumptions: any number of users, orders, nodes, connections, messages or files.
TLC evaluates the assumptions in the runs, so they can be met. The argument is
the same throughout: an inductive invariant, one lemma per action (or per shape
of a step) that says what the action does, and `PTL` at the end. The inductive
invariants that were not obvious were checked by TLC first.

### 6.1 Diagnostics lease (`DiagnosticsLeaseProofs`)

Assumption `LeaseConstants`: positive limits.

- `AckEvidenceHolds`. `AckEvidence` is not inductive, because an acknowledgement
  is accepted on the evidence of a binding: `LeaseInv` adds that the sessions a
  binding lists were sent to its node at that revision (`BindingEvidence`), that a
  session was only ever sent to its targets (`IssuedToTargets`), and that session
  ids are never given twice, also across restarts (`SidsFresh`).
- `ReportsTrue`: `updateSessionState` runs after every batch of acknowledgements,
  also one that is refused half-way.
- `LimitHolds`: the set of running sessions grows by one in `StartSession` only,
  behind the count. The cleanup neither starts nor stops a running session.
- `HistoryHolds`, an action property.

### 6.2 Orders and payment (`CheckoutProofs`, `SumTheorems`)

Assumptions `OrdersConstants` (positive periods, prices within a wallet) and
`CheckoutConstants`: client limit < lease <= grace, as the code's 15 s, 2 min and
30 min are.

- `TypeCorrect`: no refund, change, transfer or save takes a wallet out of its
  range. It rests on lemmas about what each operator returns (`SurplusType`,
  `ChargeType`, `EntitledType`, `EndOrdersType`).
- `OrdersCorrect`: `OrdersOnce`, from `OrdersInv`. Its part `SurplusKept` is the
  reason why surplus computed at creation may be used hours later: while a plan
  change is open, the orders it names are still completed, since only another
  plan change of the same user could convert them and there is no second open
  order.
- `HistoryCorrect`: every step inserts one order, ends some orders or leaves
  their terms alone (`StepShape`). `FormsCorrect`: every writer of a wallet
  advances its revision.
- `ReceiptsCorrect`, `PaymentsCorrect`, `CallsCorrect`, `CheckoutsCorrect`, from
  `CheckoutInv`: a call in flight belongs to an attempt in creation whose start it
  carries (`CallsInv`), a page shown is the page of its attempt and protects its
  order for its grace period (`PagesInv`), an order without an outcome names no
  payment (`NoCallback`), and a receipt's order is settled (`ReceiptsInv`). The
  relation of the three limits is needed there: with a lease shorter than the
  client's limit a second call could start under the first.
- `WalletsBalance`: `Ledger(u)` for each user. By `WalletStep` a step either
  leaves the rows and the difference of balance and credit alone, or changes one
  row and the wallet by the same amount; a user has at most one open order, so a
  batch that ends many orders still changes one row per user.
- `ValueStays`: `ValueInv` says that no row is worth less than nothing
  (`Valued`), that an open plan change takes over no more than the orders it names
  are worth (`Covered`), and that a user never holds more than was paid in.
  `Covered` carries the value over the time between the creation of a plan change
  and its completion, when those orders lose theirs.

`BalanceLedger` and `ValueConserved` are sums over all orders.
`SumTheorems` proves what sums over finite sets do when one value changes, when
some vanish and when all are compared. Its inductions do not use the library's
schemes: they take the smallest counterexample, which exists because strict
inclusion of finite sets is well-founded (`FS_StrictSubsetOrderingWellFounded`).

### 6.3 Node connections (`NodeHubProofs`)

Assumption `HubConstants`: names of machines, nodes and connections differ, and a
deployment without Redis has one instance.

- `HubStaysTrue`: `HubLeadsToLive`, from `HubInv`. A hub entry belongs to the
  instance of its connection, which has registered, and to a connection that left
  only for nodes it no longer lists (`HubGood`); a synchronisation works on a
  connection of its own instance (`TasksGood`); releases that failed after their
  connection left are retried by the run that noted them (`PendingGood`);
  connections are where the deployment has instances (`Placed`). Without
  `TasksGood` a stale plan could install a node for a connection of another hub.
- `ClosesFenced`: `LocalCloseFenced`, an action property of every deployment
  without Redis: the departure is one step under the hub's mutex there. With Redis
  it is false, see finding 2.
- `LeasesStayFollowed`: `LeasesFollowed`, from `HubInv` and `FollowInv`, which
  speaks of one connection at a time (`Follows`). Its hub leads to it for all its
  keys until it is both closed and contested, and only for its keys, and a drain
  has closed it (`Routed`); until somebody competes, its leases are exactly its
  keys from the claim to the last release, and then the keys still to be released
  (`Leased`); snapshots are of nodes that are to be released or have been, and
  those are cleared (`Stored`); a lost lease is announced (`Announced`). `Routed`
  is what makes the announcement true: when an event is taken from the queue, or
  the claimer registers, whoever they are about is closed because the hub still
  leads to it. TLC checked `FollowInv` with two instances, machines, nodes and
  connections before it was proved.

The proof found a fault of the model: an instance that crashes loses the
releases it had noted as pending, which `Crash` did not say before.

### 6.4 Commissions (`CommissionsProofs`)

Assumption `CommissionConstants`: levels are one share of 100 percent or three
shares of at most 100 together, which is what the settings form accepts
(`commission_settings.go:102`).

- `MoneyStaysAccounted` and `RequestsStayDistinct`, from `CommissionInv`: types,
  what a paid order has in its log (`RowsPaid`), both accounts of every user as a
  sum over logs, transfers and withdrawals (`Balanced`), each withdrawal for itself and
  any two of them (`RowsGood`, `RowsApart`), and forms. `ProcessCommissions` is one
  transaction over a batch of any size; the proof follows the batch order by
  order, each of which pays all its shares or none, and shows that the accounts
  move by what the logs record, although the same inviter may be paid by several
  orders of one batch and stand twice in the tree.

- `QueueMovesOn`: `NoOrderBlocks`, an action property. After `k` orders of a batch
  the part of the queue it has dealt with is the head of the queue and has at least
  `k` members, or nothing is payable any more (`Took`); whatever was among the
  first `BatchLimit` is therefore gone at the end.

### 6.5 Accounts and outboxes (`PanelProofs`)

Assumptions `OutboxConstants` and `AccountConstants`: positive limits; the margin
and the cooldown within a code's life; a failure window not shorter than a code's
life (`FailureWindow >= CodeLife`, as in the code). A theorem is about
`AccountsSpec(scope)` for every scope that fits the constants (`ScopeOK`, which
`MCPanel` also assumes of its own): which operations run, which accounts exist,
which channels are on.

- `OpensOnlyCurrent`: `CredentialsCurrent`, from `OpensInv`: a missing account
  has nothing (`AbsentBlank`), credentials and codes are of the account's present
  password or state (`CredsGood`, `CodesGood`), a pending message with a code has
  that code (`RowsBacked`), and what a handler holds between its steps is
  something it once saw (`RequestsGood`), which is not to be trusted: the
  second step of each handler compares again, and that is what the proof uses.
- `AdmitsOnlyEarned`: `AdmissionsEarned`, from `AdmitsInv`: what an account was
  admitted with is not available any more (`InvitesSpent`, `ProofsSpent`), the
  newcomers of a source are counted (`SourceCounted`), and the guesses at a living
  code are bounded by what its window still allows (`Bound`). The attempt to prove
  `wrong[i] <= MaxGuesses` failed for a good reason: a reissued code inherits the
  count and the window of its predecessor, and when that window ends the count
  starts again. Until then it sees at most `MaxGuesses - 1` guesses, and its own
  window outlasts it, which gives `2 * MaxGuesses - 1`. TLC did not see this with
  a limit of one; the run has a limit of two now.
- `KeepsPromise`: the refinement. Every step of the workers, of those who queue
  and of those who cancel is a step of `OutboxPromise` or leaves the mapped rows
  alone. `OutboxInv` says why: deliveries and the workers still carrying a message
  together never exceed its attempts (`RowsCounted`), a worker that has sent knows
  of a delivery (`JobsGood`), and a command's answer belongs to a completed update
  (`Answered`).

- `BulkJobsHonest`: `BulkSound` under `BulkSpec`, from `BulkInv`. What makes it
  inductive: the claims under way for a target and its deliveries together never
  exceed its attempts (`AttemptsCounted`), a worker that has sent is on record as
  having sent (`SentMails`), and only one exporter is at a job whose lease was never
  overrun (`ExportsSound`); of an overrun job the invariant promises less, and
  `BulkSound` asks less. Assumption `BulkConstants`: users and jobs are numbered.

### 6.6 Ledgers (`LedgerProofs`)

Assumptions `VoucherConstants`, `TrafficConstants`, `DistributorConstants` and
`DeviceConstants`: positive scales and limits, an inviter is a user, finitely many users and a largest rate,
months of at least one day, a plan sells only periods that the code knows
(`orders.go:28`), and an operation on device state is over before a throttle period is.
Each theorem is about the component alone
(`VouchersSpec`, `TrafficSpec`, `DistributorsSpec`, `DevicesSpec`); `MCLedgers` runs the same
actions.

- `VouchersHold`: `VouchersAccounted`. Uses and orders are books that only grow at
  their end; general lemmas say what an append does to the places that name a code
  and to the sum of what was given. The invariant adds what the handlers hold
  between read and write (`SnapsSound`): a form saved over redemptions still
  has the count, since the code's count is never written from the form.
- `TrafficStaysAccounted`: `TrafficAccounted` for every sequence of months. First
  the calendar: the start of a month is a sum, so induction over an interval gives
  that months follow on each other without a gap and every day is in exactly one
  (`MonthFound`, `MonthOnly`); the anchor of a month lies in it (`AnchorDay`);
  years are the remainder by the number of months. From these follows, for each
  method, that `CalculateNextTrafficReset` is the first day after the reckoning
  that the method names (`NextReset`). `TrafficInv` then says that a receipt is
  there as long as the report may come again (`ReceiptsTrue`), which is why a
  repetition is not counted twice, and what was wiped as a sum over the log of resets.
- `DealsStaySound`: `DealsSound`, from `DealsInv`. The first order of a subscription
  is its origin and comes before all its renewals (`Origins`), an answered key has
  its order (`Answered`), a key is used once by a distributor (`KeysOnce`), an
  order is paid by no settlement that does not exist (`PaidKnown`), and of a
  subscription that no administrator edited the entitlement ends where its last order
  ends (`ChainSound`). An order is only ever added at the end or paid, so each of
  these is a comparison with the orders before the step. That a renewal ends in
  the month it was sold for rests on the calendar's lemmas.
- `SummariesStayHonest`: `SummariesHonest` for any panels, nodes, users and addresses,
  from `DevicesInv`, which is about one user at a time (`UserSound`). At most one
  operation counts a user, because whoever reserved the write holds the throttle
  period for longer than an operation may take (`WriteTaken`, `CountedOnce`). Its tally
  is right at the moment it began unless the user was stirred since (`TallyRight`):
  dropped, put off to a later flush, or about to be counted by an operation that
  changed the entries. Once nobody tallies and nothing stirs, the count and the
  expiry in the database are right at some past moment (`SummaryRight`), which the
  expiry carries to the present until it is due. The hard part is the end of a flush: it strikes
  off only what its own count has settled, or what another counted meanwhile
  (`PutOff`, `Outrun`). A step is therefore split per user into `Mild` (the
  operation does not count the user) and the stages of the one count; TLC
  checked `DevicesInv` before the proof.

### 6.7 Attachments, backups, deployment (`DeploymentProofs`)

Assumptions `AttachmentConstants`, `BackupConstants`, `LifecycleConstants`: names
are distinct, bounds are numbers.

- `AttachmentsStayKept`, from `AttachmentsInv`: who holds which lock (`Locks`),
  what a request is about to do (`Hands`), which states of session, row and file
  go together (`RowsGood`, `FilesKept`), that what the sweep is about to purge is no
  draft and may be lost (`SweepGood`), that a file which the sweep is about to remove as
  an orphan gets no row meanwhile unless it is forfeited (`OrphanGood`), and the
  quota as cardinalities (`Counted`).
- `RestoresWhole`, from `BackupsInv`: archives and replica (`StoresGood`), what
  each command has in its hands (`JobsGood`), and which command a restored root
  belongs to (`RootOwned`).
- `LifecycleStaysSafe`, from `LifecycleInv`: the database in use has the
  acknowledged changes (`InUse`), what the journal promises to undo has its archive
  (`JournalGood`), a running command's progress agrees with containers, archives
  and journal after every possible failure (`CommandGood`), and success is
  reported with a true journal only (`ProudOfIt`).

### 6.8 Only model-checked

- Liveness (`PendingEnds`, `NodeSetsConverge`, `LostLeaseCloses`,
  `EveryMessageEnds`, `BulkEnds`, `OrderCompletes`): liveness under fairness
  and `ENABLED` are out of the prover's reach.
- `TargetConsistent`, `WayBack`, `UndoesOneSlice`: a fixed, finite list of slices.

## 7. Not modelled

The components with status `not_modelled` in `PROJECT.json`, each with its
reason: plans, groups and visibility, node and machine definitions, tickets,
notices and knowledge texts, and settings are rows edited one at a time under a
revision, and the hazard of a stale form is modelled for users in `Orders` and
`Commissions`; the scheduler is the fairness of the batches it starts; diagnostics
storage and collector are files behind the lease service; formatters,
configuration, the HTTP layer and the web UI are text generation, plain reads and
single-row writes. The providers' own behaviour is external: `Checkout` assumes
only that a page may be paid at any time after it was made and that a verified
notification names its attempt. Parts that a modelled component leaves out are
named with its module in section 3 and with its component in `PROJECT.json`.

In the map, a helper that only names a part of an operation is covered by the
lines of that operation and has no entry of its own.
