# Verification of the warehouse CRM

This directory holds TLA+ models of the Go service (`core/`, `pkg/`, `cmd/`,
`api/`) of the warehouse CRM and of the token refresh of its web client
(`src/lib/`), TLC configurations that check them on small instances, and theorems
about them that TLAPS checks. Paths below are relative to the
repository.

## The system

A Fiber HTTP server in front of MongoDB. Every request is served by its own
goroutine. The services use **no database transactions**: a request is a
sequence of repository calls, each of which MongoDB makes atomic for one
document, and calls of different requests interleave freely. There is no lock in
the process either. What protects the data are filters inside single updates
(`UpdateStatus` on the old status, `MarkReversed` on ACTIVE, `AtomicAddPicked` on
the planned quantity) and unique indexes; everything else is check-then-act.

### Inventory

| Component | State | Operations | Talks to | Hard behaviour | What makes it correct |
|---|---|---|---|---|---|
| Stock (`core/stock`) | one row per (product, location, lot) with a quantity | AddStock, RemoveStock, AdjustStock, listings | called by inbound, outbound, adjustment, returns, order shipping | RemoveStock reads, compares, then decrements unconditionally; a leftover (product, location) unique index | stock equals the sum of the active records; overdrawn by no more than what overlaps where only guarded operations drain it |
| Inbound, outbound, adjustment | append-only records with status ACTIVE/REVERSED | Create, Reverse | stock, history, lot | record and stock are written by two calls in an order that differs per service; reversal races; crash in between | every movement has one record, a record is reversed at most once |
| Orders (`core/order`) | order document: status, item lines | Create, Update, Confirm, Cancel, StartPick, Ship | reservation, picking, outbound, notify | five multi-step requests racing on one document, each with its own rollback or none | status path with one winner per transition; lines fixed by the confirmation; reservations freed at the end; only what was picked is shipped |
| Reservations (`core/reservation`) | ACTIVE/RELEASED documents | Reserve, ReleaseByOrder, ReleaseOne | stock, order | availability is two reads before an insert; release is by order, not by request | over-reserved by the confirmations that overlap only; none left on a finished order |
| Picking (`core/picking`) | pick tasks, pick events | GeneratePlan (FEFO), Scan, Assign, CancelByOrder, AllDoneForOrder | stock, lot, order | plan from stock that others also plan from; concurrent scans; event insert whose error is dropped | no task overpicked; events account for picks; plan covers the request and respects expiry |
| Returns (`core/returns`) | RMA counter, returns, items, QC holds | Create, AddItem, Receive, Cancel | order, stock, outbound, notify | the quantity already returned and the return's status are read before the item is inserted; the effect on the stock is a later call | an item's effect happens once; over-returns bounded by what overlaps; a return is closed once |
| Lots (`core/lot`) | lot documents | Create, FindOrCreate | inbound, picking | one upsert under a unique index | one lot per (product, number) |
| Sessions and authentication (`core/session`, `core/auth`, `pkg/jwt`) | accounts, refresh sessions, login attempts, reset tokens | Login, Login2FA, Refresh, Logout, LogoutAll, reset, 2FA settings, account updates | web client | rotation is look-up, revoke, insert; a reset token is validated in one call and consumed in another; errors are dropped; the lock fails open | a token is honoured once; logging out everywhere is final; the lock holds but for what overlaps or fails |
| Tenants and their guards (`core/tenant`, `core/middleware/tenant_guard.go`) | tenant document, one cache per process | RequireTenantActive, RequireFeature, EnforceLimit, administration | billing | cache fills that race with invalidation; several processes; count-then-create limits; guards that fail open; creations no guard counts | the cache follows the document; limits exceeded by what overlaps or bypasses the guard only |
| Billing (`core/billing`) | Stripe customer in the tenant, event log | checkout, five webhook handlers | Stripe, tenants | webhooks repeated, reordered and concurrent; recorded after they are handled | an event is applied and then recorded; applied in order they give Stripe's view |
| Warehouses and access (`core/warehouse`, `core/location`, `core/middleware/warehouse.go`, account administration, `cmd/migrate-*`) | tenants, warehouses, locations, users | EnsureDefault, EnsureSuperAdmin, create, update, delete, the list of warehouses, WarehouseContext, migrations | every request passes WarehouseContext | look-up-then-insert without unique index by processes that start together; deletion races with creation | one default; no location without its warehouse; an administrator is shown what the context grants |
| Notifications (`core/notify`) | settings, alert marks, an in-memory queue | events, low-stock check, expiry digest, Telegram worker | orders, picking, returns, Telegram | check-then-send-then-mark; bounded queue; retries after lost answers; settings written whole, by pages that hold old ones | an alert is not repeated; the token survives the settings page |
| Web client (`src/lib/api.ts`, `src/lib/auth.ts`, `AuthGuard.tsx`, login and security pages) | cookies and localStorage shared by tabs; a refresh flag and queue per tab | request and response interceptors, the guard of the pages, signing in and out | sessions | many 401s and one refresh; several tabs; lost answers; cookies and localStorage written at different moments | every request settles; nobody is signed out without a cause |
| CSV import, catalogue, history, reports, pages | - | - | - | see PROJECT.json | - |

`PROJECT.json` lists every component with its status and every hazard with its
line and the properties aimed at it.

## Modules

| Module | What it is |
|---|---|
| `StockLedger` | stock, inbounds, outbounds, adjustments and reversals, one action per repository call |
| `StockLedgerProofs` | theorems about `StockLedger` |
| `Collections` | lemmas about sequences of documents, counts and sums, which the proof modules share |
| `FefoPlan` | the FEFO pick plan of one order line as an operator, and what such a plan has to be |
| `OrderStore` | collections, repository calls and request machinery of order fulfilment |
| `Reserving`, `Picking`, `Ordering` | the actions of `core/reservation`, `core/picking`, `core/order` on that store |
| `Fulfilment` | their composition with failures and outside stock movements; properties |
| `OrderLifecycle` | the abstract life of an order, which `Fulfilment` implements |
| `FulfilmentProofs` | theorems about `Fulfilment` |
| `Returns` | `core/returns`: RMA documents, items and their effects |
| `ReturnsProofs` | theorems about `Returns` |
| `Sessions` | `core/session` and `core/auth`: logins, refresh rotation, logouts, resets, second factor |
| `SessionsProofs` | theorems about `Sessions` |
| `WebClient` | the browser's side of the token refresh, with the server as it sees it |
| `WebClientProofs` | theorems about `WebClient` |
| `TenantStore` | the tenant document, the process caches, the administrator's requests |
| `TenantGuard`, `Billing` | the guards of user requests and the Stripe webhooks on that store |
| `Tenancy` | their composition with restarts and failures; properties |
| `TenancyProofs` | theorems about `Tenancy` |
| `Goroutines` | goroutines with one operation each, failures, and a history of overlaps |
| `Access` | tenants, warehouses, locations, accounts, start-up, migrations, WarehouseContext |
| `Alerts` | notification settings, low-stock alerts, digest, Telegram worker |
| `Administration` | composition of `Access` and `Alerts` on `Goroutines` |
| `AdministrationProofs` | theorems about `Administration` |
| `MC*` | instances for TLC |

### How state and actions correspond to the code

All server models are built the same way. A *worker* is a request goroutine;
`pc[w]` names the next repository call it makes and `req[w]` (`StockLedger`) or
`loc[w]` (all others) holds the local variables the rest of the handler still
needs, notably the values it read earlier. The first action of a request
performs its first read with the early returns that follow it as guard: a
request that is refused there changes nothing and is not a step. Every later
action is one repository call with all code up to the next one. `GiveUp`,
`Crash` and `CallFails` end a request between two calls, or take the error path
the code has for that call (Confirm rolls back, Cancel and Ship ignore the error
and go on, a scan drops its event).

`StockLedger`: the order of the two writes is kept as it is in the code.
Inbound writes the record first, outbound and adjustment the stock first,
reversal marks the record first. `IndexRejects` is the second unique index of
`EnsureIndexes`; its creation may fail on existing data and is only logged, so
`PairIndex` is a constant. `drift` and `undone` are history variables: what
abandoned requests left behind, and how often a record's effect was given back.

`Fulfilment`: Confirm is one pass (read stock, sum reservations, insert) per
line before the status update; StartPick checks every line, plans every line,
inserts the tasks one after the other and then updates the status; Ship makes
two counts, reads the events, and for every row checks, decrements and records
before it releases and updates the status. Write-backs of whole item lists that
were read earlier are modelled as such. Fields of the task record `events` (the
sum of the task's pick events, which the code only ever sums) and the history
fields `lost` and `byHand` are explained in `OrderStore`. History too are `halted`
(how many Ships of an order ended after they had begun to write outbounds),
`peak` (the most there has been of a product) and the field `timely` of a task
(it was there when the picking of its order began).

Abstractions of these two: `UpdateMany` is one step; a failing call has no
effect; order numbers, client data, assignees, history records and notifications
are left out since no decision reads them; who is calling matters only for early
returns and is a free choice; stock movements from outside an order are one step
(`Move`) here and modelled in full in `StockLedger`.

`Returns`: `Receive` and `Cancel` are one filtered update each (`CasMatches`).
`Create` takes a number from the counter (`NextSeq`) before it inserts, and
`AddItem` reads the return (`Addable`), the other returns of the order and their
items in two calls (`LiveReturns`, then the sum), inserts the item and only then
restocks or holds (`HasEffect`). `stranded` and `late` are history. Of two lines
of one product the code looks at the first, and so does the model. The code
hands `item.WarehouseID` to the restock, a field it never sets; warehouses are
left out here. The statuses CLOSED and the QC release are declared in the code
and reached by nothing.

`Sessions`: a session, a reset token, a failure and a second-factor token expire
by actions of their own, at any moment. `from` and `born` tell which session a
refresh came from and how many logout-alls preceded its login. Errors the code
drops (the revocation inside a refresh, the consumption of a reset token) let
the request go on, a count of failures that fails is "not locked" (`LoginCheck`),
and a look-up that fails is recorded as an attempt with wrong credentials
(`LoginLookup`). `overlapped[u]` records that a session of the user was being
created at the moment of a logout-all, the one case in which it survives.

`WebClient`: `req[t][r]` is one axios request with its `_retry` flag, each slot
used once; `isRefreshing` and the queue belong to a tab, cookies and localStorage
to the browser. The browser applies the cookies of an answer in one step
(`RefreshAnswered`, `LoginAnswer`, `Logout`, `LogoutAll`) and the script writes
localStorage in a later one (`RefreshOk`, `RefreshFailed`, `LoginStore`,
`LogoutLeave`), with the steps of other tabs in between; for the security page's
sign-out everywhere the two are 1500 ms apart. A logout goes on when its POST
fails, before or after the server handled it. `AuthGuard` is the mount of a page
whose access token has expired: it goes to `/login` though the session could be
refreshed. The server is reduced to what the client can tell apart: has the access
token expired, is the session of the cookie still live; the refresh is two steps
(`RefreshFind`, `RefreshRotate`) as it is in `Sessions`. A document that is left
loses its requests, its refresh and its timers (`Unload`); the server may still
rotate the session for it (`Abort`), and since nobody gets the new one it takes no
number. A reload is a step of its own only while the tab refreshes, at other times
it is what time-outs and `AuthGuard` do. One number stands for the cookies of a
session and the access token issued with it; the cookie domain is the same for
all cookies.

`TenantStore`, `TenantGuard`, `Billing`, `Tenancy`: one tenant, since
collections, cache and limits are keyed by tenant. `doc` is the document, the
plan's limits and feature flags abstracted to one limit and the plan that
supplied the flags. `Update` sets one of the fields in `Settable`, the ones the
run at hand looks at. An entry of a cache is fresh until `EntryAges`; a fill reads
the document in one step and stores it in the next. A guard that cannot read
lets the request pass, as in the code, and so does a registration that does not
get the tenant's document (`RegisterRead`). `CreateUncounted` is what nothing
compares with the limit: requests of a superadmin, the creating routes of
`api/index.go`, which carry no `EnforceLimit`, and an account that `UpdateUser`
moves into the tenant. The history `bypassed` counts the documents of all these.
Stripe's side is a subscription and a sequence of events it delivers to any
worker in any order until answered; a webhook looks the event up, applies it and
records it. A price that `planFromPriceID` does not know makes the plan FREE; a
subscription lapses to CANCELED or to a status that `mapStripeStatus` passes on as it
is (UNPAID stands for these). The handlers find the tenant and update it in two
calls; the model takes these together, since the tenant's id does not change.
TRIALING is not told from ACTIVE. Not modelled: a TTL of zero, which switches the
cache off; an import of many rows, which checks the limit once, is a `Batches`
larger than one, not used by the runs.

`Access`: what a starting process does (`StartUp`), the migrations, and the
requests of administrators, each as its look-ups and writes. A look-up that fails
counts as "not found" where the code takes it so (`Found`, `Absent`). `Goroutines`
keeps a history `overlapped` of the kinds of check-then-write that two goroutines
had entered at once, which is what the properties exempt. The requests start once
both defaults exist; `api/index.go` serves regardless. Role and tenant of a caller
come from the document, not from the token issued at login. Registration and
`UpdateUser` accept every role, the superadmin's included, as in the code. Names are
registered once; a location is unique by its code and by its zone, rack and level
(`Racks`), by one index each; and the warehouses an update names need not exist.
`ListedOf` is the list that `warehouse/handler.go` serves to administrators;
`Service.ListForUser` has no caller and is not modelled. Locations stand for all the
data of a warehouse: for the ten collections that a deletion looks into. The
migration gives a warehouse to four more (pick events, return items, QC holds,
alerts), which are left out.

`Alerts`: the settings page (`DisplaySettings` gives a page the settings,
`SaveSettings` reads the document and merges it with what a page sends, whose
token field holds the text displayed by any earlier GET or what was typed,
`WriteSettings` writes everything), event messages, the low-stock alert and the
digest as check, send and mark, the worker with its attempts. `displayed` keeps
every token that some page may still show. A token is its length, and the masked
text of a token its negative, which is all that decides whether `***` is in it. A
process that is started for a digest delivers it up to `MaxRetries` times before it
ends, or never. One chat stands for the list; day and time of the digest,
thresholds and texts are left out.

## Runs

Bounds are named in the configurations: `MaxRequests` limits the requests of one
behaviour, `MaxFaults` failing calls and deaths, `MaxIncidents` what users, pages
and the network do to the web client, the sets limit workers, rows, orders and
quantities. Two workers are enough for every race between two requests, which all
hazards of the list are; five to seven requests reach SHIPPED and leave at least
one more to race with each of its steps. Bounds that a property mentions are
expressed by the constants (number of workers, largest quantity, number of
attempts), not by numbers.

| Run | Checks | Instance |
|---|---|---|
| `Ledger_concurrent` | `LedgerBalance`, `ReversedOnce` | 2 workers, 2 lots in one bin, all operations, abandoned requests, 5 requests |
| `Ledger_guarded` | `OverdraftBounded`, `ReversalCompletes` | 2 workers, 2 bins, all operations but forced adjustments, quantities 1 and 2, fair, 4 requests |
| `FefoPlan` | `PlanIsCorrect` | every quantity -1..3 and expiry of three rows, every request up to 6 |
| `Order_serial` | `ConfirmedIsReserved`, `OutboundsMatchPicks` | 1 worker, 2 orders, 3 rows of 2 products, movements that take a unit away, 8 requests |
| `Order_concurrent` | `PicksAccounted`, `OverReserveBounded`, `OutboundsBounded`, `LifecycleSpec`, `ShippedIsPicked` | 2 workers, 1 order, 2 different item lists, all operations, movements of one unit either way, failures, 7 requests |
| `Order_live` | `NoStrandedReservation`, `CancelledIsClosed`, `ReservationsFreed` | 2 workers, 2 orders competing for one row, no failures, fair, 5 requests |
| `Returns_concurrent` | `ReturnsWellFormed`, `OverReturnBounded`, `EffectsAccounted`, `LateItemsBounded`, `ClosedOnce` | 2 workers, 2 returns of one order, 3 items, quantities 1 and 2, failures |
| `Sessions_concurrent` | `SessionsWellFormed`, `HonouredOnce`, `LogoutAllIsFinal`, `ResetUsesBounded`, `FailuresBounded` | 2 workers, 1 account, all 13 operations, 5 requests, 1 failure |
| `WebClient_refresh` | `ClientWellFormed`, `NoSpuriousSignOut`, `RequestsSettle` | 2 tabs with 2 and 1 requests, 1 expiry, 2 incidents, fair |
| `Tenancy_billing` | `TenancyWellFormed`, `InOrderAgrees`, `EventsAreApplied` | 2 workers, 1 process, 2 plans, 3 events, 4 requests, 1 failure; an update sets plan or features |
| `Tenancy_guard` | `CleanCacheIsCurrent`, `LimitOvershootBounded`, `CacheConverges` | 2 workers, 2 processes, 2 plans, 3 requests, 1 failure; an update sets status or limit; fair |
| `Administration` | `AdministrationWellFormed`, `NoOrphans`, `DefaultIsAllowed`, `ListAgreesWithContext`, `AlertsAreNotRepeated`, `TokenIsKept` | 2 workers, an empty and a used database, 3 warehouses, one place with one rack, 2 days, tokens of usual length and of nine characters, 3 operations, 1 failure |

What they show:

* **Under every interleaving and failure** the stock is explained unit by unit
  (`LedgerBalance`), a record is reversed once, an order keeps its life cycle and
  its agreed lines (`LifecycleSpec`), a task is never overpicked and its events
  account for it (`PicksAccounted`), and an order is shipped only when all tasks
  its picking began with are done (`ShippedIsPicked`); a returned item reaches the
  stock or a hold once (`EffectsAccounted`) and a return is closed once
  (`ClosedOnce`); recorded Stripe events were applied (`EventsAreApplied`), caches
  converge (`CacheConverges`), a web client's request is queued only behind a
  refresh that will serve it (`ClientWellFormed`), and its requests settle
  (`RequestsSettle`).
* **If requests run to their end**, reservations do not outlive their order
  whatever races with it (`NoStrandedReservation`, `ReservationsFreed`), and a
  cancelled order has no task left to scan of those its picking began with
  (`CancelledIsClosed`).
* **How far check-then-act can be exceeded.** Where the code compares in one call
  and writes in another, and nothing restores the limit, the properties state the
  exact slack: one request's quantity per other worker for stock that is drained
  (`OverdraftBounded`, on top of what reversed inbounds took out, which look at no
  stock), for reservations (`OverReserveBounded`, on top of the most stock there
  was) and for returns (`OverReturnBounded`), one item per worker on a closed
  return (`LateItemsBounded`), what was picked once per Ship that stopped half way
  and once per worker for the outbounds of an order (`OutboundsBounded`), one use
  per worker or failure for refresh and reset tokens (`HonouredOnce`,
  `ResetUsesBounded`), the logins under way and the failed calls for the lock
  (`FailuresBounded`), the requests under way and what bypassed the guard for plan
  limits (`LimitOvershootBounded`). With one worker, no failure and no bypass each
  bound is the limit itself. A missing check breaks them.
* **Unless two of them overlapped**, which the models record in history
  variables: a logout-all leaves no session alive (`LogoutAllIsFinal`), the paying
  customer is known (`TenancyWellFormed`), defaults and codes are unique
  (`AdministrationWellFormed`), a location keeps its warehouse (`NoOrphans`), a
  default is allowed (`DefaultIsAllowed`), alerts are not repeated
  (`AlertsAreNotRepeated`), the bot token is kept however old what a page displays
  (`TokenIsKept`).
* **Only if requests do not overlap** do confirmed orders hold the reservations
  their lines ask for (`ConfirmedIsReserved`), and are the outbounds of a shipped
  order exactly its picks, which also needs that no earlier Ship of it stopped half
  way (`OutboundsMatchPicks`).

`Order_serial` uses one worker: that requests do not overlap is the assumption
under which the repository's own shell tests run, not one the server makes. What
remains of its two properties when requests race is in `Order_concurrent`.

`CHECK_DEADLOCK FALSE` is set where the last request, expiry or failure the
bounds allow leaves nothing to do. The stock and order models have an action for
the resting system (`Drained`, `Idle`), so that there a request in flight that
cannot go on would be a deadlock.

### Where the code departs from what it says

Met while modelling. The races among them follow from the same models with two
workers, the others from reading. No run states that they do not happen; where a
property bounds one of them it is named.

* Two outbounds that both read the stock before either removes drive it negative
  (`core/stock/service.go:39` compares, line 44 increments unconditionally),
  against `ACCEPTANCE.md:60` "Outbound rejects if quantity > available stock";
  `OverdraftBounded` says by how much.
* The unique index on (product, location) of `pkg/database/indexes.go:76` rejects
  the upsert of a second lot in a location after the inbound record was written
  (`PairIndex = TRUE`, two slots in one bin); `scripts/test-lots.sh:75` expects two rows.
* Two confirmations that read the same availability both reserve it
  (`core/reservation/service.go:54`); `OverReserveBounded` says by how much.
* The rollback of a confirmation that lost the race releases, by order, the
  reservations of the one that won (`core/order/service.go:208`): the order is
  CONFIRMED and holds none. No property covers this one, `ConfirmedIsReserved` is
  checked without overlaps.
* A Ship that is refused at one row after it has written the outbounds of others
  leaves them, and the next Ship writes all rows again (`core/order/service.go:387`,
  no look at what is there), against line 332 there, "Creates outbound records from
  actual pick events". `Order_serial` reaches it with a movement that takes stock
  of a picked row away: hence `halted` in `OutboundsMatchPicks`.
  `OutboundsBounded` says how often it can happen.
* Two Ship requests both write outbounds and take the stock before one status
  update decides (`core/order/service.go:387`), once each (`OutboundsBounded`).
* Two lines of one product are each compared with the whole stock
  (`core/picking/service.go:78`), against line 63 there, "Returns error with
  shortage details if any product cannot be fully covered".
* A second StartPick adds tasks to an order that is being shipped, and one that
  is still inserting leaves scannable tasks on a cancelled order: hence `timely` in
  `ShippedIsPicked` and `CancelledIsClosed`.
* The lock of an account opens when its failures cannot be counted
  (`core/session/service.go:144`), hence the failures in `FailuresBounded`.
* Plan limits: a superadmin, the creating routes of `api/index.go`, an account that
  is moved into the tenant and a registration whose look-up of the tenant fails are
  compared with no limit, hence `bypassed` in `LimitOvershootBounded`.
* A page that mounts while the access token has expired goes to `/login` although
  the session could be refreshed (`src/lib/auth.ts:97`), which is one of the causes
  in `NoSpuriousSignOut`.
* A look-up of a default that fails counts as "none exists" and creates a second
  one (`core/warehouse/service.go:25`, `core/tenant/service.go:29`).
* The default warehouse has no tenant: WarehouseContext grants it to the
  administrators of every tenant, the list of `core/warehouse/handler.go:39` shows it
  to none of them, which is the exception in `ListAgreesWithContext`. Operators are
  granted warehouses and shown no list: the route is for administrators, and
  `ListForUser` (`core/warehouse/service.go:66`), which would filter by the allowed
  list, is called by nothing.
* `DeleteWarehouse` looks into ten of the fourteen collections that
  `cmd/migrate-warehouse` gives a warehouse to.
* `cmd/migrate-warehouse` creates the default warehouse under `--dry-run` too,
  which it announces as a "read-only preview".
* EnsureSuperAdmin may set a default outside the account's allowed list, so
  `DefaultIsAllowed` is about registered accounts.
* Tokens of nine or ten characters are masked with fewer than three stars, so
  that saving the settings page stores the mask, over any newer token when the page
  is an old one; real bot tokens are longer.
* The low-stock alert is marked as sent also when the sending was skipped or the
  queue was full, and the subcommand `expiry-digest` exits right after queueing.
* `invoice.payment_succeeded` reactivates a tenant that an administrator
  suspended, and `UpdatePlan` and `Delete` of a tenant do not invalidate the
  cache; a deleted tenant's requests pass, since the guards fail open.

### Fairness

`Fulfilment` and `StockLedger`: `FairSpec` assumes weak fairness of `Continue(w)`
for every worker: a goroutine that was started is scheduled by the Go runtime and
its next MongoDB call returns. No request waits for another, so weak fairness is
enough. Failures are switched off in these liveness runs because the code has no
recovery from a request that died.

`WebClient`: the server answers a request or a refresh and the tab's event loop
handles the answer; nothing is assumed about users or about tokens expiring.
`Timeout`, `Reload`, a mounting page and lost answers stay possible without being
assumed.

`Tenancy`: a cache fill under way is stored, and a cache entry gets old, which is
the passing of time. Nothing is assumed about clients anywhere.

## Proofs

Every theorem holds for all values of the constants that satisfy the named
assumptions of the modules. These say what the code or its deployment gives:
finitely many goroutines (at least one), rows and batch sizes, at least one order
and one row, the plans FREE and PRO and a warehouse code C2 that can be asked for, at
least two warehouse ids, quantities that have a largest one, the super administrator
not among the accounts that register, a queue and a number of attempts of at least
one. No theorem limits the number of goroutines. Two theorems need that no request
dies and no call fails and one that no adjustment is forced; they say so.

The proofs have one lemma per service or handler and one step per action. An
action that leaves alone what an invariant is about shares a lemma with the
others that do (`QuietStep`, `AsideKeeps`, `AsideStep`, `StepsAside`, ...). Sums
and counts over documents and goroutines are folds with a recursive function;
`Collections` proves what they return when an element changes, appears or goes.
The library's induction rules take an operator, which the provers cannot
instantiate, so induction is done on the set of numbers at which a claim fails:
if it is not empty it has a least element (`LeastOfNat`).

### `StockLedgerProofs`

* `ReversalIsSafe`: `Spec => [](TypeOK /\ ReversedOnce)`. `ReversedOnce` is made
  inductive by its second and third conjunct: a worker past the mark holds a
  REVERSED record that was not given back yet, and no two hold the same. The step
  that matters is `ReverseMark`: its filter on ACTIVE implies that no other worker
  is past the mark of that record.
* `HistoryIsKept`: `Spec => RecordsKept`, action by action, from the types.
* `OverdraftIsBounded`: without forced adjustments, `Spec => []OverdraftBounded`,
  with abandoned requests and rejected upserts. The property alone is not
  inductive: what matters is what the requests are about to take. `Awaited(s)` is
  the sum of the removals that passed their check of slot s and are not written
  yet, and the invariant is that the slot, what reversed inbounds took out of it
  and m, the largest quantity once per *other* worker, still cover all of it
  (`Room(m)`). A step either takes no more than its request was about to take
  (`RoomMoves`), or it is a check that has just found its quantity in the slot, and
  then the other workers' removals are at most m together (`RoomFound`, from
  `SumFunctionOthers`). A reversed inbound moves its quantity from the stock to the
  sum `TakenBack` once, by `ReversalIsSafe`. The bound is exact: the run reaches it
  with two workers. Forced adjustments have to be excluded, the code lets them
  through on purpose.
* `LedgerBalances`: `Spec => []LedgerBalance`, with abandoned requests and rejected
  upserts. Each step is shown to move `stock`, the sum over the active records,
  the sum over the requests in flight and `drift` of one slot by amounts that
  cancel. `ReversalKnows` is needed: the reversal of a record moves the slot that
  record names, and only inbounds and outbounds are reversed; that a
  record is undone once comes from `ReversalIsSafe`.

### `FulfilmentProofs`

* `LifecycleIsKept`: `Spec => LifecycleSpec`, i.e. `Fulfilment` implements
  `OrderLifecycle` however many requests race, die or fail. The mapping forgets
  everything but each order's status and lines. The inductive invariant `LInv`
  says what a request's local copy of the items is worth when it is written back:
  an Update or Confirm holds an item list that some client agreed on, and a Ship
  holds the very lines of its order. The second is inductive because the order of
  a running Ship is PICKING, SHIPPED or CANCELLED, and the compare-and-sets let no
  edit or confirmation reach such an order. It is needed because `Confirm` and
  `Ship` replace the whole `items` field with what they read several calls before.
* `NothingStranded`: with `MayFail = FALSE`, `Spec => []NoStrandedReservation`. The
  invariant `NInv` adds to it that a request about to write SHIPPED sees the
  order's reservations released, or any newer one covered by a Confirm that is
  still running; that Confirm must find the order out of DRAFT (by `LInv`), so it
  rolls back. `NInv` also carries the type of the reservation collection, which
  needs that the index of a running Confirm stays within its items. The assumption
  is necessary: a request that dies after its reservations strands them, and so
  does a rollback whose release fails.
* `PlansAreCorrect`: every member of `Plans(S, want, qty, exp)` satisfies
  `IsCorrect`, for every finite set of rows. What remains to be found is a
  falling function on the positions (`RemainingShrinks`), so that the positions
  with a task are an initial part of the sorted rows (`GreedyIsPlan`); the amounts
  are the falls of that function and their sum telescopes (`SumOfFalls`). A row
  that expires earlier stands earlier, and all rows before the last task are empty.
  The run `FefoPlan` checks the same predicate on three rows.
* `PicksAreAccounted`: `Spec => []PicksAccounted`, with failures. `TInv` is the type
  of every document and local (it rests on `LInv`, and on `GreedyIsPlan` for the
  tasks of a plan: positive quantities of existing rows); a scan names a task that
  exists and a positive quantity. Then each action is a move of one task's account
  (`Balanced`): `AddPicked` moves its quantity from the planned rest to the scans
  under way, the event takes it from there, a dropped event puts it in `lost`.

The last four are about any number of requests at a time. They share the ways in
which a step can change status, tasks, reservations and outbounds at all: what a
step of a worker can be (`StepIs`), that the others wait meanwhile (`OthersWait`),
from which label a worker came (`ComesFrom`), and `StatusMoves`, `TasksMoved`,
`ResvMoves`.

* `OnlyPickedIsShipped`: `Spec => ShippedIsPicked`, with failures. The tasks that
  were there when picking began (`timely`) belong to an order that is PICKING or
  past it (`Timely`); no more of them come and none opens again (`InTimeStays`).
  So once a Ship has counted no open task, all of them are DONE for good, whoever
  inserts others (`Counted`).
* `CancelledStaysClosed`: without failures, `Spec => []CancelledIsClosed`. Of the
  orders that are cancelled only those that were PICKING have timely tasks, and the
  cancellation that took them out of PICKING closes them or is about to (`Closed`).
  A Cancel that dies in between leaves them open, so the assumption is needed.
* `OverReservationIsBounded`: `Spec => []OverReserveBounded`, with failures,
  releases and stock movements. What a Confirm has read of the stock is at most
  `peak` (`Peaked`). What is reserved and what has passed its comparison and is
  still to be inserted is at most `peak` and one largest item per *other* worker
  (`Fitting`): a comparison that passes finds room for its own item next to the
  reservations it summed up, and the pending ones are at most one per other worker
  (`PassesCheck`).
* `OutboundsAreBounded`: `Spec => []OutboundsBounded`, with failures. What a Ship
  still has to take from a row is at most what was picked there (`Rows`). Each
  unit of the outbounds of an order is owed to a Ship that stopped half way, to one
  that is going through the rows, as far as it has got, or to a worker that may
  have been the one that finished (`Took`, `Outs`). The last is what makes it
  inductive: the order is then at its end, so that no worker owes it twice.

### `ReturnsProofs`

* `NumbersAreUnique`: `Spec => []ReturnsWellFormed`. Types and uniqueness become
  inductive with what is known of a number on its way (`NumbersTaken`): the
  counter is ahead of every number in use, and a number that waits to be inserted
  belongs to one request and to no return. It rests on `$inc` returning the value
  it wrote.
* `ClosedStaysClosed`: `Spec => ClosedOnce`, from the types: returns are only
  appended or written by `UpdateStatus`, whose filter asks for OPEN.
* `LateItemsAreFew`: `Spec => []LateItemsBounded`. The late items of a return and
  the workers still standing at it never outnumber the workers: closing the
  return finds no late item, nobody arrives afterwards, and an item that goes in
  late takes its worker away (`LateInv`).
* `EffectsAreAccounted`: `Spec => []EffectsAccounted`, three sums that move
  together: an insertion adds to the items and to what its request owes, the
  effect or the death of the request moves it on.
* `OverReturnIsBounded`: `Spec => []OverReturnBounded`. The invariant counts for each
  order and product the items of returns that are not cancelled and what is
  promised: the quantities of requests past the guard, and of those still before
  it that would pass with the list of returns they hold (`Taken`). Either nothing
  is taken, or no more than was shipped plus one largest quantity per other
  worker. The second kind of promise is what makes it inductive: the list
  is read before the sum is compared.

### `SessionsProofs`

All from `Basic`: the types, and that a request refers to documents that exist.

* `SessionsAreWellFormed`: a request about to enable 2FA has a secret to enable it
  with, or the disabling that overtook it is on record.
* `FailuresAreBounded`: failures recorded plus all logins between the check of the
  lock and the record; the check lets a login in below the limit, or at the price of
  a failed call.
* `LogoutAllStaysFinal`: not only the live sessions of a user but also every
  rotation and session on its way is of the current epoch, or one was under way at
  the logout.
* `ResetUsesAreBounded`, `TokensAreHonouredOnce`: while a token is still valid
  (a session not revoked) each use is owed to a request that is about to spoil it
  or to a failure, so that the number at the moment it is spoiled plus those past
  the look-up is bounded by workers and failures.

### `WebClientProofs`

`QueueIsServed` and `SignOutsHaveACause` share one invariant, `Inv`. A tab is
refreshing exactly when one of its requests waits for the refresh, only one does,
and none is queued otherwise (`TabOK`); this holds whatever happens. As long as there
is no cause to sign out, no tab is signing in or out, at most one refreshes, with
the token of the cookie, and the session of the cookie is live or the answer that
replaces it is on its way (`Calm`). A request that is retried carries a token, and
if it was refused that token has expired (`RequestOK`), which is the cause on record
when a second 401 signs out.

### `TenancyProofs`

* `CleanCacheStaysCurrent`: `Spec => []CleanCacheIsCurrent`. `Current` adds what
  makes it inductive: on a clean process not only the entry but also every fill
  that is under way carries the configuration of the document. A write makes no
  process clean; an invalidation makes its process clean only when no fill is
  under way there. Of the types it needs only that documents, entries and
  locals are records with the right fields (`Shapes`).
* `EventsAreAppliedAlways`: as long as an event is not recorded, each application
  of it is owed to a delivery that is past it or to a failure (`EventAt`).
  A failure is worth as many applications as there are workers: a restart ends
  every request of its process between the application and the record.
* `LimitOvershootIsBounded`: no copy of the limit, in a cache or in a request, is
  above `peak`; whoever creates compared less than `peak` documents, or is counted
  in `bypassed` from the moment it passed the guard (`Room`).
* `TenancyIsWellFormed`: checkouts of the tenant have one customer between them as
  long as the look-ups do not overlap (`OneCustomer`).
* `InOrderAlwaysAgrees`: of the events applied so far the last one that decides
  about plan and status agrees with the document (`Followed`), and the last one
  that Stripe generated is Stripe's view (`LastWord`).

### `AdministrationProofs`

* `DocumentsAreUnique`: two look-ups of one kind under way are an overlap, so that
  without overlaps and failed look-ups a pending insertion has its kind to itself
  and what it inserts is not there (`TenantsOnce`, `DefaultsOnce`, `CodesOnce`).
* `NoLocationIsOrphaned`: a pending insertion has its warehouse and a pending
  deletion no location, and the two are not pending at once (`Homes`).
* `DefaultIsAlwaysAllowed`: accounts, also the copies that pending updates write
  back; an account whose updates overlapped, or that has no list, is exempt, as in
  the property.
* `ListAlwaysAgrees`: two definitions that decide by the same documents, of all
  typed states.
* `AlertsAreNeverRepeated`: the argument for the check-then-write of accounts, for
  the check-then-mark of alerts; deliveries are counted against the attempts that are
  left, `MaxRetries` for each message that is queued.
* `TokenIsAlwaysKept`: an update that is about to be written carries the token that
  was typed, or one that is kept (`CarriesToken`); what is displayed and looks like a
  mask is the mask of a displayed token of nine or ten characters (`MasksKnown`), so
  that a mask that gets through, however old the page, is one of these.

### Only model-checked

* Liveness (`ReversalCompletes`, `ReservationsFreed`, `CacheConverges`,
  `RequestsSettle`): fairness and ENABLED are out of the prover's reach.
* `ConfirmedIsReserved` and `OutboundsMatchPicks`, equalities that hold when requests
  do not overlap. `OverReservationIsBounded` and `OutboundsAreBounded` prove what holds
  when they do.
* `PlanIsCorrect` is the operator `IsCorrect` at the states of a little machine that
  enumerates inputs of three rows; `PlansAreCorrect` proves `IsCorrect` for all inputs.

`RecordsKept` (records are never lost, moved, requantified or revived) is the other
way round: it is proved, from the types alone, and no run checks it.

## Not modelled

* Lots as documents: a lot is part of a slot; `FindOrCreate` is a single upsert.
* Products, history, reports, dashboard, documents, labels, exports and pages:
  reads, layout, or single-document writes without a rule that spans steps.
* `ImportProducts`, and the rows of an import as one request: one row is an
  insertion of its own.
* The billing portal and status pages, which change nothing; Stripe's own
  behaviour beyond repeating and reordering events.
* Wiring, logging, metrics and CORS.
* Wall-clock durations: everything that expires does so at any moment.

## Plan

Modelled: stock, orders, reservations, picking, returns, sessions, the web
client's refresh, tenants, guards, billing, warehouses, migrations, accounts and
notifications. Proved: all invariants and action properties of these but the two
that hold for one request at a time. What is left, in this order:

1. Stock movements from outside as the full operations of `StockLedger` in one
   module with the orders, and a ledger that includes the outbounds of Ship.
2. What a confirmed order still holds when a losing Confirm rolls back: how much it
   is short of at most.
3. `ImportProducts` and the rest of the catalogue.
