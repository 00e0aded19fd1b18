# A TLA+ model of the adwar backend

The repository is the backend of a logistics platform: a NestJS application over
PostgreSQL (through Prisma) and Redis.  Customers open orders, operations staff
bundle them into pickups, and scanners in the warehouse and in vans move each
order through the stages of its journey.  This directory models the parts of
it whose correctness depends on the order in which things happen: request
handlers that suspend at every `await`, statements that are not in one
transaction, and clients that do not wait for each other.

## 1. The system

| Component | State it keeps | Operations | Talks to | What makes it correct |
|---|---|---|---|---|
| Order scanning (`modules/order/order.service.ts`) | none of its own | `scanItem`, `scanUpdateStatus`, `scanCompleteOrder`, `bulkScanItems`, `bulkScanUpdate`, `resetOrderScanStatus`, completion status | orders, order items, tracking events; scanner devices | a scan takes an order along the table of transitions from the status it read, which is the status the order has unless somebody was faster; batches do not ask; every timestamp is accounted for in the audit trail; a completed order moves on |
| Order repository (`order.repository.ts`) | `orders`, `order_items`, `products` | create, update, replace items, update items | products | one row per product; replaced rows start unscanned |
| Base repository (`shared/factory`) and list queries (`common/utils/api-features.util.ts`) | none; the pool of connections | create, update, delete, restore, upsert, each with its transaction; filters, search, order, pages | every table | connections return; an answer is true of the table; lists keep to their scope; pages fit together |
| Pickups (`modules/pickup`) | `pickups`, `orders.pickupId` | create, update, status of pickup and orders, delete | orders, addresses, notifications | an order is taken from a pickup only in a race of two claims; nothing is written to a deleted row |
| Notifications and websocket (`shared/notification`, `shared/websocket`) | `notifications`, `notification_recipients`; two maps of sockets | create, deliver, mark read; connect, disconnect | pickups, browsers | nothing falls between the push and the list; what is stamped was sent; the two maps agree |
| Sessions and the cached user (`modules/auth`, `SessionGuard`) | `sess:*` and `auth:user:*` in Redis | login, refresh, logout, the session guard | users, roles | a destroyed session stays destroyed; a cached user catches up |
| Response cache (`common/interceptors/cache.interceptor.ts`) | `cache:*` in Redis | fill on GET, invalidate on a write | the users controller | a cached answer is stale only if its reader was overtaken or it shows a tenant that was written since, and not for good |
| Audit log (`common/interceptors/audit.interceptor.ts`) | `audit_logs` | a snapshot before and after an edit | orders | an entry encloses the edit it is about |
| Users, roles, memberships, tenants, branches, addresses | their tables, the store of logos | create with role and addresses, update, toggle, delete | each other | constraints hold what the checks miss; success means all rows; rights follow the rows |
| Cluster of workers (`common/services/cluster.service.ts`) | registry of workers, restarts, timers; in a worker its connections and pending calls | three balancers; fork, health check, restart, scale, monitor, shutdown; drain and exit | the operating system, the messages between primary and workers | restarts are bounded, the balancer has the right workers, the number of workers comes back, everything ends |
| The process and its databases (`main.ts`, `src/db`) | connections to PostgreSQL and Redis | start, reconnect, queue commands | both servers | what listens is connected; an outage of Redis ends neither the process nor, when it is over, its service; one of PostgreSQL ends the process only in its start or through the check of a scanner device that nobody awaits |
| Requests, scanner devices, shipments, customers, map, attachments | their tables | one-row operations | | nothing beyond a single statement |

What is hard here:

- **Interleaving.**  A handler reads, awaits, and decides on what it read.  Two
  scanners work on the same order; an edit replaces the items of an order a
  scan is in the middle of; operations staff change the status meanwhile.
- **Partial failure.**  Most handlers write several tables in several statements
  and no transaction.  `verifyWebhook` is called without `await`, so that a
  rejected device, or an outage of PostgreSQL during the check, is an unhandled
  rejection, which ends the process while other handlers are between two writes.
- **Stale state.**  Status snapshots, a cached user, cached responses, counts of
  connections copied out of an object when a message came, an index written
  against one list of workers and read against another.
- **Timers.**  The cluster works by them: a health check that times out and is
  answered after all, a restart that is postponed, a shutdown in the middle of
  both.
- **Outages.**  Redis may leave at any command of a request, and comes back to a
  client that kept some commands and rejected others.
- **Resources.**  Every repository write holds one connection while it asks the
  same pool for a second one.

## 2. Modules

| Module | What it models |
|---|---|
| `OrderStatus` | the statuses, the table `VALID_STATUS_TRANSITIONS`, the arithmetic of completion, the timestamps a status sets |
| `OrderScan` | the order service: orders, their rows and marks, tracking events, and the handlers that scan |
| `MCOrderScan` | the constants of the TLC instances of `OrderScan` |
| `OrderLifecycle` | the abstract life cycle of an order: scanners look at it and move it later, among overrides and batches; a move is entered in a trail unless its scanner dies |
| `BulkScan` | the two bulk scans, each a batch in one interactive transaction, over a database with row locks |
| `MCBulkScan` | the batches and constants of the TLC instances of `BulkScan` |
| `PickupOrders` | the pickup service: pickups, the orders they hold, and the handlers that claim, exchange and move them |
| `PickupLedger` | the abstract ledger of pickups: the same operations, each at once |
| `MCPickupOrders` | the constants of the TLC instances of `PickupOrders` |
| `ListQuery` | from the query string of a list to what the database is asked, and what it answers |
| `Repository` | the writes of `BaseRepository` with their connections and timeouts, and clients that walk through the pages of `ListQuery` |
| `Permissions` | the merge of the rows of a role and of a membership, and the decision of the guard |
| `Accounts` | users, roles, memberships, addresses, tenants and branches, over `Permissions` |
| `Notifications` | rows, push and stamp of notifications; the sockets and the browsers behind them |
| `RequestPipeline` | sessions, the cached user, the response cache and the audit log around the handlers |
| `LoadBalancer` | the three balancers |
| `WorkerCluster` | the primary: workers, health checks, restarts, monitor, scaling, shutdown |
| `WorkerProcess` | one worker from inside: connections, drain, exit, calls of `getStats` |
| `Server` | the process over PostgreSQL and Redis, through outages |
| `MCRepository`, `MCAccounts`, `MCNotifications`, `MCRequestPipeline`, `MCWorkerCluster` | the constants of their TLC instances |
| `MCProcesses` | `LoadBalancer`, `WorkerProcess` and `Server` side by side, one of them per behaviour |
| `OrderScan_proofs`, `BulkScan_proofs`, `PickupOrders_proofs`, `Notifications_proofs`, `RequestPipeline_proofs`, `Accounts_proofs`, `Repository_proofs` | the theorems about the module of that name |
| `Processes_proofs` | the theorems about `WorkerCluster`, `LoadBalancer`, `WorkerProcess` and `Server` |

### OrderScan and the code

A variable is a table or the suspended handlers.

| TLA+ | Code |
|---|---|
| `created` | orders, numbered in the order of `createdAt` (the SKU lookup takes the newest) |
| `status`, `stamps`, `deleted` | `orders.status`; which of `pickedAt`, `deliveredAt`, `cancelledAt` are set; `deletedAt` |
| `lines`, `scanned`, `generation` | `order_items`: the product of each row, the rows with `scannedAt`, and a number for the set of rows, since `updateWithProducts` deletes all rows and creates others with new ids |
| `log` | `tracking_events`, with `eventType`, `status`, `metadata.previousStatus` (`prev`) and the scanned row |
| `pc`, `call` | where a handler is suspended and its locals: the status in the snapshot (`snap`), the status asked for (`want`), the row |
| `unanswered`, `waived`, `overtaken` | history, read by properties only |

Each `await` on the database is one action:

    ScanUpdateStatus / ScanItem     findFirst, the row of the SKU
      MarkItem | MarkMissingItem      orderItem.update; the row may be gone
      TrackItemScan                   trackingEvent.create ITEM_SCAN
      CheckCompletion                 findUnique with items, and the decision
      WriteAutoStatus | WriteToDeletedOrder
      TrackAutoStatus                 trackingEvent.create AUTO_STATUS_UPDATE
    ScanCompleteOrder               findFirst and the look at the table
      CommitCompleteOrder             the transaction
    BulkScanUpdate                  one code of a batch that is a whole order: findFirst,
                                    no look at the table; then CommitCompleteOrder
    ResetOrderScanStatus            findOne
      ResetItems, TrackReset
    Create, Update, UpdateWithProducts, UpdateItemsInOrder, Delete
    Abort                           a handler that stops between two steps

The decision in `CheckCompletion` reads the items afresh and the status from the
snapshot, as the code does.  `BulkScanUpdate` is here, next to the module `BulkScan`,
because a whole order in a batch writes the same column and the same trail as the
single scans it runs beside, and writes them without asking the table.  `Complete` is
the code's condition with its
rounded percentage, not "all rows are marked"; that the two agree is a theorem.

A transaction whose statements only write (`scanCompleteOrder`,
`updateItemsInOrder`) is one step, its commit: under Read Committed its rows are
locked from their first write and nothing it wrote is seen before.  The one
behaviour this leaves out is a replacement of the items that commits between the
first statement of `scanCompleteOrder` and its commit, which would leave the new
rows unmarked.  A read with `include` is one step too, although Prisma sends one
query per table.

`PUT /orders/:id` always writes a status: `UpdateOrderDto` is a partial type of
`CreateOrderDto` and inherits the initializer `PENDING`, which the validation
pipe passes on.  `EditStatuses` are the values after the pipe.  `UpdateItemsInOrder`
and `scanItem` and the reset are modelled as the service offers them, although no
route reaches `scanItem` and the reset, and the pipe refuses the body of
`PUT /orders/:id/items` (its DTO has no decorators).

`OrderLifecycle` knows scanners, and neither rows nor requests.  A handler that may
still write a status, or has written it and not entered it yet, is a scanner with a
job (`Jobs`, `Moved`); the trail of an order is those events of its log that record a
change of status (`Trail`); `overtaken` are the handlers whose order got a status from
somebody else after they read it.  Creations, edits, item marks and deaths map to
its steps or to none, so that what it says of moves holds for handlers that
interleave in any way: a scan that was not overtaken moves the order from the status
it has, along the table; one that was overtaken, an edit and a batch are the three
ways around that, and `TerminalIsSticky` names them.

### BulkScan and the code

`bulkScanItems` and `bulkScanUpdate` run a whole batch in one interactive
transaction, and catch the error of each item inside it.  So the module has a
database with transactions, where `OrderScan` has statements that commit at once.

| TLA+ | Code |
|---|---|
| `status`, `stamps`, `scanned`, `log` | the tables, as committed, events with their `previousStatus` (`prev`); the row of an item is `<<o, sku>>`, the row of order `o` itself is `<<o, None>>` |
| `tx[r]` | the open transaction of a call and its locals: the rows it has locked and written, the events it has added, `processedOrders` (`todo`) and `orderToStatus` (`intended`), `results.success` (`ok`) and `ordersUpdated` (`updated`) |
| `reports` | what the calls answered, and whether their transaction was committed |

    Start
      FindOrder | SkipItem            findFirst of the next item
      MarkRow, once for each row      orderItem.update / updateMany; waits for the lock
      FinishItem | FinishOrder        trackingEvent.create, order.update of a whole order
    EndOfItems
      CheckCompletion                 the items of the next processed order
      ReadStatus, SaveStatus          findUnique and the table, order.update
    Commit | CommitOfBroken
    StatementFails, DeadlockVictim, TimesOut

What PostgreSQL and Prisma do is external to the repository, and modelled from
how the code depends on it: a statement sees what is committed and what its own
transaction wrote (Read Committed, the default); an update locks its row to the
end of the transaction; a circle of waiting transactions is broken by failing a
statement of one of them; a failed statement aborts its transaction, releases
its locks, makes every later statement fail too, and turns COMMIT into ROLLBACK
without an error; a transaction that takes too long is rolled back and its call
rejected.

A code that is a whole order is moved whatever its status is (`FinishOrder`), and its
event records both, so the trail can hold a move that is no edge of the table.
`bulkScanItems` has no route in the controller; it is modelled as the service
offers it.  The orders and their items are fixed (`Contents`), and single scans
do not run beside the batches: `OrderScan` has those.  `updateMany` may take its
rows in any order.  A read with `include` is one step.

### PickupOrders and the code

`made`, `pstatus` and `deletedPickups` are the table `pickups`; `assigned`, `ostatus` and
`deletedOrders` are the columns `pickupId`, `status` and `deletedAt` of `orders`.  Every
statement of the service commits by itself, so every `await` on the database is
one action:

    CreatePickup                    findMany of orders that have a pickup
      InsertPickup, AttachToNew       pickupRepo.create, orderRepo.updateMany
    UpdatePickup                    findOne and the look at the customer's role
      CheckOrders                     findMany of orders of other pickups
      ListCurrent, Detach, Attach     the current orders go, the new ones come
      Save                            pickupRepo.update with the rest of the body
    UpdateStatus                    findOne; both routes that set the two statuses
      WritePickupStatus, ListOrders, WriteOrderStatuses
    DeletePickup, DeleteOrder       one statement each
    Abort                           a statement fails, the ones before it stay

`LiveOrders` and `Live` are the filter on `deletedAt` that the repositories add to
every statement.  An edit may carry a status, none, or a body that the DTO admits
and Prisma does not (`"unusable"`: an address, a date without a time), with which
`Save` fails after the orders have been exchanged.  Orders exist from the start
and are moved on by scans elsewhere (`OrderScan`).  The address `createPickup` may
store first is not in this module, nor are the notifications sent after a
status update; `opsRespondOnPickupRequest` sends none in fact, since the fields
`OrderRepository` selects by default do not include the `customerId` it asks for.

`PickupLedger` makes each operation one step.  `PickupOrders` maps to it by looking
ahead: a handler that has begun to write has, for the ledger, written
everything (`AssignedView`, `PickupStatusView`, `OrderStatusView`).  A creation
happens at `InsertPickup`, an exchange at `ListCurrent`, a change of both statuses
at `WritePickupStatus`.  That holds of handlers that run one after the other; what
remains true when they overlap is said of `PickupOrders` itself, where the field
`raced` of a handler, read by properties only, holds the orders somebody else has
attached since it found them free.

### ListQuery, Repository and the code

`table` is one table, `free` the connections left in the pool, `op[w]` a write in flight
and `walk` a client that follows `nextPage`.  `executeWrite` opens a transaction
and calls a function that does not use it:

    Begin, OpenTransaction          a connection is held
      Statement                       the check and the write, on a second one
      Select                          the rows of the answer of a createMany, ...
    Expire | GiveUp                 the transaction times out; no connection comes in time
    End                             commit or roll back, and the answer

The look for a row and the statement itself are one action where the code has one
statement.  The errors of Prisma become a status by `handleError`.  The total and
the rows of a page are two reads, so rows may come and go in between.

`ListQuery` has the builder as operators: a condition is the values a text of the
query string stands for and how they are compared, texts are told apart by what
they look like (a number, a date, true, anything else), and `deepMerge` puts the
filters, the search, the soft-delete filter and the scope of the tenant together
in the order of the code.  Which fields of a row an answer shows is left out: what a
walk has `seen` are the rows.

### Permissions, Accounts and the code

The tables are sequences of rows.  A handler is a record with its locals and the
statement that comes next; every statement is one action: `CheckEmail`,
`FindRole`, `CreateRole`, `InsertUser`, then one `CreateAddress`/`AttachToUser` pair per
address for users, which `createMany` runs at the same time; `CheckUnique`, `Upload`,
`CreateAddress`, `InsertTenant` for tenants; `DropLogo`, `Upload`, `OwnAddress`,
`WriteTenant` for an update.  `Fail` is a statement or an upload that fails; what came
before stays.  The body of a tenant may name a `logoUrl` in place of a file (`Urls`):
that of any upload, or of no upload of this service (`Elsewhere`), and nobody checks it.
`named`, read by properties only, holds the uploads a body named.  The unique columns and foreign keys of the schema are operators of
their own (`EmailFree`, `RoleUnused`, `SlugFree`, `AddressFree`).

### Notifications and the code

`Create` commits the notification with its rows, `Deliver` emits it to the sockets of
its recipients, `Stamp` writes `deliveredAt`.  A socket goes through the session
middleware (`handshake`) and is then in both maps, `clients` and `userClients`.
`known` and `listed` are the browser: what it was pushed or listed since it
connected.  `todo` is the loop of a pickup handler over the customers it notifies.

### RequestPipeline and the code

A request passes the guard (`sess:*`, then `auth:user:*` or the table), the
interceptor that looks for a cached answer, the handler, and after the answer
whatever the interceptors started without waiting for it.  Data is the number of
the write it shows.  What a cached answer shows of users includes their tenant, so a
write of a tenant (`TenantWrite`) is a write of what these keys show, one that invalidates
none of them; `silent`, read by properties only, is the number of the last.  The guard
refuses users who are not active (`inactive`); no route makes one so, since the one that
should always fails.  `Expire...` are keys that run out.  What a workload has (reads
and updates, a tenant, the list, a deletion, edits of an order, two sessions of a browser)
is chosen once, since the routes of one do not touch the stores of another.

### LoadBalancer, WorkerCluster, WorkerProcess and the code

All three are `cluster.service.ts`.  The start of the service is commented out in
`main.ts`, so this is the service as it would run.  `LoadBalancer` has the calls
`addWorker`, `removeWorker`, `updateWorkerLoad` and `selectWorker`
for each of the three algorithms; `waited` is kept for the property only, and
`Lightest` and `Heaviest` say how far apart the weights are that its loads give.  Its `list`
is a set: `createWorker` adds a worker right after the fork that gives it the next
id, and a filter keeps the order, so the place of a worker is the number of ids up to
its own.  `WorkerCluster` is the
primary: `status` is `workerStats`, `restart[w]` is where `restartWorkerGracefully` is
suspended, every `setTimeout` is a variable that says it is set, and a timer fires
at any time after that.  Its own balancer is a set.  A stop that takes too long
is a `disconnect`, which marks the exit as voluntary, and then a SIGKILL; a worker that
cannot be told to stop gets a SIGTERM (`terminated`).  `selectWorkerForRequest` is
called by nobody.  `WorkerProcess` is the other
end of its messages: the middleware that counts requests, which sits behind the
parsers, the session and CORS, so that a request is first `arrived` and not counted
(`Count`), or closed before and perhaps counted for good (`CountLost`); the drain that polls a
count copied when its message came, the exit that polls another, the timers that
end the process, and `requestStatsFromPrimary` with its `pendingMessages`.

### Server and the code

`Boots` is the start: the two `onModuleInit` in the order of the modules, each
waiting for its server, and the health check after them.  `client`, `retries` and
`cmd` are the client of Redis: while it reconnects, commands queue; when the link
breaks, those that were sent are rejected and those that queue stay.  A request is
the stores it needs, in order: session, throttler, cached user, the handler's
rows, the session again.  `lost` says which of them failed.  A scan also starts the
check of its device and goes on (`Verify`); the check ends later, and when it fails
the process does too (`CheckEnds`).

## 3. Runs

Every run bounds its calls, failures and rows by constants; the modules say in
their CONSTANTS which ones are bounds.  Deadlock is not checked: when the calls
are used up the model stops, as a server without clients does.

| Run | Question | Instance |
|---|---|---|
| `order_race` | do marks, timestamps and progress survive any interleaving, is every completed order answered, and do the handlers implement `OrderLifecycle`? | 2 handlers, 2 orders, 2 rows, 2 SKUs, 4 calls, 1 failure |
| `bulk_race` | does what batches commit agree with the audit trail and with their answers? | 2 slots, 3 batches, of those that lock the same rows in opposite orders, 1 error or timeout |
| `bulk_skew` | (violated) is every order that batches complete moved on? | 2 slots, 2 calls, no errors |
| `pickup_race` | is anything written to a deleted row; is an order taken from its pickup other than in a race of two claims? | 2 handlers, 2 orders, 2 pickups, 3 calls, 1 failure |
| `pickup_claims` | (violated) is no order taken from its pickup? | 2 handlers, 2 orders, 2 pickups, 2 calls, no failures |
| `pickup_serial` | does one handler at a time implement `PickupLedger`? | 1 handler, 2 orders, 2 pickups, 5 calls |
| `repository` | do connections return, are answers true, do pages fit together and keep to the scope? | a pool of 2, 2 writes, 6 ids, 2 tenants, 1 walk; four workloads: one-row writes, many-row writes, every form of query, a walk while rows come and go |
| `accounts` | do the constraints hold what the checks miss; what does success mean; do rights follow the rows? | 2 handlers, 2 e-mails, 2 slugs, up to 3 calls, 1 failure; eight workloads |
| `notifications` | do the maps agree, is there a gap between push and list, is everything delivered? | 2 users, 2 sockets, lists of 1, 2 notifications, 2 handshakes, 1 failure or end of the process |
| `pipeline` | which cached answers are stale and for how long; do destroyed sessions stay so; are audit entries right? | 2 requests at a time, 2 writes, 1 fault; six workloads |
| `cluster` | are restarts bounded and the balancer right; does the cluster recover, replace hung workers, end? | a target of 2 workers, 3 forks, 2 troubles, restarts one at a time |
| `processes` | do selections reach everybody; does a worker drain and end as it says; does the server survive outages? | 3 workers of weights 2 and 5; 2 connections and 1 call; 1 request, 3 outages, 2 starts, 2 attempts told apart |

Why these bounds.  The races need two actors and, mostly, two or three calls: a
creation, and two handlers that overlap on what it made.  Two rows and two orders
are the smallest instance with two scanners of different items of one order and
an SKU that is in an old and a new order.  Two connections are the smallest pool
in which one write can pass another and two can wait for each other.  A list that
is shorter than the number of notifications is what makes a gap possible.  Three
forks are two workers and one replacement; three outages are two of one server
and one of the other, in any order.  The bound that `NobodyStarves` has from
`Lightest` and `Heaviest` is 20 requests here, and the longest wait TLC meets is 6:
the run shows that the reports and the removals do not make it grow, and the
theorem that nothing of any size does.  All invariants and action properties of the
passing runs, and `ImplementsLifecycle`, are proved for every size (section 4);
`ImplementsLedger` and liveness are checked here only.  A ledger of single handlers
says nothing of two at a time: for these there are `TakenOnlyInRace`, proved, and
`pickup_claims`.

A workload is a set of operations that come together; it is chosen in the initial
state.  Two that share no table are kept apart, since their interleavings say
nothing, and all are in one run because each asks the same question.  In
`processes` the same is done with three modules that share no variable.

Some properties are conjunctions of named parts: `RowsAreSound` (types, unique
e-mails, roles that exist, unique slugs and addresses of tenants), `RowsDecide`
(what is denied is refused, what is granted is in a row), `WritesHold` and
`WalkHolds`, `BalancerRight`, `SelectionIsFair`, `WorkerHolds`, `WorkerSettles`,
`ServerHolds`.  Each part has its own comment in its module.

Some properties excuse something the code does, and name exactly that:

| Property | Excused | Remembered in |
|---|---|---|
| `ImplementsLifecycle` | moves of a scan that was overtaken, and of batches | `overtaken` |
| `TakenOnlyInRace` | orders attached by somebody else since a handler found them free | `raced` |
| `LogoExists` | tenants whose update ended between dropping the old logo and writing the row; logos a body named | `spoiled`, `named` |
| `LogoutHolds` | sessions a refresh stored again | `refreshed` |
| `FreshUnlessExcused` | answers whose reader was overtaken by a write, or whose tenant was written since | `late`, `silent` |
| `HungWorkerIsReplaced` | workers that were sent a SIGTERM | `terminated` |
| `WorkerHolds` | requests that have not come to the counter | `Uncounted`, `unseen` |
| `OutagesSurvived` | the start without PostgreSQL, and checks of scanner devices | `checking` |

Fairness.  `OrderScan`, `Notifications`, `Repository`, `RequestPipeline`: weak
fairness of the steps of each handler that has started, since the event loop
resumes a handler whose call has returned; in `Repository` also of the timeouts (`GiveUp`), in `RequestPipeline` of keys that
run out, which all have a time to live.  `BulkScan` has none: that a batch ends rests on
PostgreSQL's detection of deadlocks, not on this code.  `WorkerCluster`, `WorkerProcess`: timers that are set fire,
and processes that were killed end.  `Server`: outages end, the socket of a broken
link reports its error, a client that can reconnect does, and the start and the
requests go on.  Nothing is asked of clients; nobody owes a failure, a crash or an
error.

### What the violated runs show

`bulk_skew`: two batches scan the two items of an order; each counts one item
short, because it does not see the mark the other has not committed, and no one
looks again.  The comments of the method promise the progress.

`pickup_claims`: two creations name one order.  Both look for orders that have a pickup
(`pickup.service.ts:71`) and find none; both insert their pickup and attach its orders
by id (line 97); the second takes the order from the first, and both are answered
with success, though the service means to refuse it ("Some orders are already
assigned to a pickup", line 78).  See `findings` in `PROJECT.json` for both.

### What the code does and no property rules out

The modules have these behaviours, faithfully, and no run asks about them,
because the repository does not say clearly that they should not happen.

Orders and pickups:

- Two `scanCompleteOrder` read OUT_FOR_DELIVERY, one writes DELIVERED, the other
  FAILED.  The audit trail does not show it, since both events record
  OUT_FOR_DELIVERY as the previous status.
- A batch of `bulkScanUpdate` that names a whole order writes the status asked for,
  whatever the order has, and enters that move, which may be no edge of the table.
  `ImplementsLifecycle` says that this, an overtaken scan and an edit are the
  only ways.
- An edit that mentions no status puts an order back to PENDING.
- A batch that loses a deadlock has everything rolled back and still answers that
  its first items succeeded.
- Marks are cleared by no change of status.  After an order was scanned as a
  whole into PICKED_UP, the scan of one of its items moves it to
  RECEIVED_IN_WAREHOUSE.
- Two answers to a request that cross leave the pickup with the status of one and its
  orders with the status of the other; a customer's edit that was allowed while the
  pickup was CREATED may write after it has moved on.
- The orders of a deleted pickup keep its id and cannot be claimed again.
- An edit whose last statement fails has already exchanged the orders, and a
  notification that fails ends the loop of a pickup that is already committed.

Writes and lists:

- A write may commit and be answered with 500, because its statement is not part
  of the transaction that timed out.
- A page past the end is served as the last page; a row added between the total
  and the rows of a page pushes another past the end of a walk.
- true and false as filter of a text column, a malformed date, a fraction as page:
  the error of Prisma or of the parser reaches the client as 500.

Accounts:

- A user or tenant that fails leaves the role, the upload or the address made for
  it; two creations of one role make two roles of one name.
- `updateUser` is refused while any living user exists if the body has no e-mail,
  because the look for a duplicate then asks for nothing; the look of `createUser`
  does not see deleted users, whose e-mails stay taken.
- `updateStatus` of a user passes the status where an object of columns belongs,
  and always fails.  The default selection of the scanner repository names a
  column that does not exist, and every query of it fails.
- Two toggles of a tenant at a time may count as one.  The old logo goes before
  the new one is stored.  A `logoUrl` in the body of a tenant is stored unchecked; if
  it is the logo of another tenant, the next upload of one of the two drops it for both.
- The rights of a user with several memberships are those of whichever comes first.
- `RolesGuard` and `DomainAccessGuard` are attached to no route.

Caches and notifications:

- Nobody drops `auth:user:*`: a changed or deleted user keeps old rights until the key
  runs out.  A reader that was overtaken stores a stale answer.  An update of a tenant
  drops no cached answer about its users, which show the old one until they run out.
- A refresh that was let in before a logout stores the session again.
- Nothing resumes a delivery that an error or the end of the process cut off.

Cluster and server:

- The limit of restarts is counted per worker id, which dies once, so a worker
  that dies at once is replaced for ever.  A restart goes on after its worker
  died, while the limit has already forgotten it.
- An idle worker told to stop exits before it is disconnected; its exit looks like
  a crash and is made up for, so every graceful restart of an idle worker adds one.
- A report after the exit of a worker makes an entry that stays and counts as a
  healthy worker.  A report of a draining worker calls it healthy.
- The count a drain polls is a copy: a worker that is busy when the message comes
  never reports that it drained, and one that is told to stop while busy always
  takes the eight seconds of the timer.
- A request that waits for its body or for its session is not counted yet: a worker
  can report that it drained, or leave, and cut it.
- A scan during a short outage of PostgreSQL can end the process: the rejection of its
  unawaited `verifyWebhook` is handled by nobody.
- MAX_WORKERS of 0 is no limit for the start and a limit of none for scaling up.
- The shutdown hooks of the databases are never enabled, and the health check
  after the start only logs.

## 4. Proofs

For all values of the constants, under `OrderScanAssumption` (finitely many row
ids, statuses in the requests are statuses, `None` is not a SKU or a row id):

- `TypeCorrect`: `Spec => []TypeOK`.  `TypeOK` is inductive because it says, next to
  the types, that marks are on rows that exist, that rows belong to orders that
  exist and that a suspended handler works on an order that exists.
- `StampsAreTraced`: `StampIsTraced`, with the strengthening that a handler past
  its ITEM_SCAN event has left one with the status it will write
  (`ScanIsTraced`); events are never removed (`TrackKeepsTraces`).
- `CompletionIsExact`: the rounded percentage together with the comparison of the
  counters holds exactly when every row is marked (cardinalities, and
  `FullCountIsHundred` for the rounding).
- `CompletedScansAreCarriedOn`: `NoCompletedScanForgotten` is inductive by itself
  over `TypeOK`: a handler becomes responsible in `MarkItem`, and gives the
  responsibility up only when the items it reads are not all marked (here
  `CompletionIsExact` is used), when it writes the status, or when it dies.
- `HandlersImplementLifecycle`: `Spec => ImplementsLifecycle`, with any number of
  handlers, edits, batches and failures.  The invariant is `LifeInv`: a handler about to
  write asked the table about its snapshot, unless it is a batch
  (`CheckedBeforeWrite`); until it writes, and unless it was overtaken, its snapshot is
  the status of the order (`SnapshotHolds`); who was overtaken has yet to write
  (`OvertakenDecide`).  The trail of an order is the entries of its log that record a
  change of status; the k-th of them is found by counting, and that each count has its
  entry is kept from step to step (`LogsCounted`), since what a filter makes of
  every sequence could only be proved by induction.  An entry that is added is the
  last (`MovesGrow`).  Each kind of step has a lemma that says which step of the
  life cycle it is, or that it is none (`LookCarries`, `WriteCarries`,
  `EditCarries`, ...).
- `TerminalStatusIsSticky`: what the life cycle promises of terminal statuses, for the
  service: `Spec => Lifecycle!TerminalIsSticky`.

For all values of the constants, under `BulkScanAssumption` (finitely many orders
and products, batches are sequences of items, `None` is none of them):

- `BulkTypeCorrect`, `BulkMarksAreTraced`, `BulkStatusIsTraced`,
  `CommittedBatchesAreComplete`: the four invariants of `bulk_race`.  They hold of
  committed state, but what is committed was put together in an open
  transaction, so the inductive invariant says of every open transaction what
  the properties say of the tables: each row it has locked has an event it will
  commit or is the row it is working on (`TracedMarks`), each status and
  timestamp it has written has such an event (`TracedWrites`), each status in
  `orderToStatus` has one (`TracedIntents`), its program counter agrees with its
  item (`Position`), and unless it is broken its `results.success` is exactly the
  items before the current one that exist, with all their rows marked
  (`Recorded`).  A broken transaction has nothing left to commit.  Each action
  changes one transaction, so each has a lemma about a single record, and one
  lemma (`LocalStep`) carries them to the state.

For all values of the constants, under `PickupOrdersAssumption` (the statuses asked
for are statuses, `None` is no pickup and no status):

- `PickupsTypeCorrect`, `DeletedRowsStayFrozen`: for any number of handlers, with
  the strengthening that a handler past its first read works on a pickup that
  was made (`HasPickup`).
- `TakenOnlyInRaceAlways`: for any number of handlers, edits, deletions and failures, an
  order goes from one pickup to another only when the handler that attaches it had
  found it free, or its own, and another handler has attached it since.  The
  invariant is `Found`: the orders a claiming handler wants, unless they were raced
  or deleted, are free or of its own pickup.

For all values of the constants, under `NotificationsAssumption` (the letters are
sequences of sets of users, `Take` is positive, `None` is no user):

- `SocketMapsAgreeAlways`: inductive once a socket past the start of its handshake
  has a user (`Gateway`), so that a disconnection in the middle of the handshake
  takes nothing out of the set of somebody else.
- `NothingMissedAlways`: the strengthening is that a notification whose rows are
  about to be stamped was emitted (`Handling`).  A creation only pushes older
  notifications down the list of a user, and the new one is not emitted yet; the
  push reaches every listed browser because the maps agree.

For all values of the constants, under `WorkerClusterAssumption` (the
configuration and the bounds are natural numbers, `Nobody` is no worker):

- `RestartsBoundedAlways`: `currentlyRestarting` is exactly the living workers
  whose restart is under way, and ids that are still to come have none
  (`RestartsOnRecord`); without the second half a restart that goes on after its
  worker died could count for a new one.
- `BalancerRightAlways`: a worker that waits to be stopped is in `stopping`,
  disconnected, killed or sent a SIGTERM (`StopsFollow`), and in a shutdown the balancer is empty
  (`NobodyInShutdown`).

For all values of the constants, under `LoadBalancerAssumption` (`MaxAdded`, the
workers ever added, is a natural number; loads are tenths from 0 to 10; the weights
that they give, and the 5 that workers begin with, are between `Lightest` and
`Heaviest`, which 1 and 10 always satisfy):

- `RoundRobinHolds`: `RoundRobinIsFair` and `IndexInList`, two parts of
  `SelectionIsFair`.  With `n` live workers and the index at `c < n`, who has the
  place `a` has waited no longer than the index has
  moved since it left `a`: `waited` is at most `c - a - 1`, plus `n` if
  that place is not before the index (`Waits`).  An index that is `n` or more is read
  modulo `n`; it is met only while nobody has waited since the live workers changed, and
  the selection that reads it puts it below `n` (`TurnsPass`, from the arithmetic in
  `NextMod`).  Live workers have one place each (`PlacesAre`) and every place is taken
  (`EveryPlaceIsTaken`, the pigeonhole), so the selection never comes out empty
  (`RoundRobinChoiceIs`).
- `WeightedStarvesNobody`: while no more than `n` of its workers live at a time,
  however many are forked, a weighted round robin passes none of them over for more
  than `4 * (n - 1) * Heaviest / Lightest` requests (`WaitsBounded`).  No invariant
  on single current weights is inductive, as the charge of a selection is the sum of
  all weights, and those change between selections and leave with their
  workers.  `Level` is inductive: any `j` of the live workers, taken
  together, are no further from where they began than `Room(j, n)`, which is
  `Heaviest * j * (2n - 1 - j)`.  The chosen one has the highest current weight.  A set without it
  gains its own weights; it has room for them, since with the chosen one it was within
  `Room(j + 1, n)` (`GainFits`).  A set with it pays the weights of the rest, and has
  room for that: the rest is not above the chosen one, the set without the chosen one was
  within `Room(j - 1, n)`, all the workers were within theirs, and `Room` bends
  (`ChargeFits`, `RoomBends`).  A worker that leaves leaves fewer sets; one that
  comes begins in the middle, and the sets it joins get more room (`AdditionLevels`).
  `Patient` is the rest: every request that goes to somebody else adds at least `Lightest`
  to a current weight, which cannot have begun below the least that `Level` allows, nor
  end above the most.
- `SelectionIsFairAlways`: `SelectionIsFair`, all of it: both of the above, with `MaxAdded`
  for `n`, and the types, of which the range of the index is a consequence of
  `IndexInList`.

The total of the weights is a fold, and what it is for a set of any size needs an
induction.  It is made on a set of numbers instead of a formula: a set of numbers has
a least member (`LeastNumber`), so one that has 0 and the successors of its
members has all of them (`Inductive`), and likewise for sets of subsets of a finite set
(`SubsetInduction`).  With it there is a function that adds up the
values of each set of workers (`SumExists`), the fold has its value in whatever order it
takes the workers (`SumIs`), and sums can be split, added and bounded.

For all values of the constants, under `WorkerProcessAssumption` (finitely many
connections):

- `WorkerHoldsAlways`: the counter is no less than the number of busy connections
  (`BusyAreCounted`), and no equality holds, since a closed connection may be counted
  for good; when a count of zero was copied the server was closed, and whoever is
  still connected had not come to the counter then (`OnlyUnseenLeft`).

For all values of the constants, under `ServerAssumption` (`MaxRetries` is a natural
number):

- `ServerHoldsAlways`: the links, the client's state, its retries and the requests
  it holds fit together (`Shapes`, `Connections`), and each error is explained by
  an outage that counts (`Excused`).
- `ProcessSurvives`: what ends the process is a signal, a start without PostgreSQL or a
  running check of a scanner device, and nothing else; from the same invariant, since
  the strategy of reconnection always gives a delay.

For all values of the constants, under `PipelineAssumption` and
`WorkloadsAssumption` (the key of the page is no user, `None` is no user and no
session, a workload is of the operations of the module):

- `LogoutHoldsAlways`, `AuditEnclosesAlways`: a request past its guard carries a
  session that was stored (`SlotOK`), only a refresh writes one back, and marks it; an
  edit reads the row before it writes it and reads it again afterwards, so the
  number of its write is between the two.
- `FreshUnlessExcusedAlways`: the strengthening, `StaleIsDue`, says of every cached answer
  that is behind its table, before anything has failed, that its reader was
  overtaken (`late`), that a tenant in it was written since (`silent`), or that an
  invalidation under way has yet to drop its key
  (`Due`); without the second half it is not inductive, since a write commits before
  it invalidates.

For all values of the constants, under `AccountsAssumption` and
`PermissionsAssumption` (there are slugs and e-mails, a workload names numbers of
addresses, `ALL` is no action):

- `RowsAreSoundAlways`, `SuccessMeansAddressesAlways`, `LogoExistsAlways`: the invariant
  says where each handler stands (`SlotsOK`), that the rows of users, roles, tenants
  and branches refer to rows that exist (`PeopleOK`, `PlacesOK`), that the addresses
  counted for each user and those its handlers have inserted and not attached yet
  are not more than the rows of the table (`CountsOK`), and that two tenants, or a tenant
  and a handler before its last write, share a logo only if a body named it
  (`LogosOK`): where one is shared, the update of one tenant drops the logo of another.
- `RowsDecideAlways`: from `PermissionsAssumption` alone, whatever the rows are.

For all values of the constants, under `RepositoryAssumption` and
`ListQueryAssumption` (rows have an id, an age and a tenant, a body names finitely many,
limits are positive and in order):

- `WritesHoldAlways`: the free connections and the transactions that are open add up
  to the pool (`PoolOK`); a transaction is open only from its opening to its end, and
  a statement that failed has written nothing (`OpOK`).
- `ScopeHoldsAlways`: `mergeFilter` lays the tenant and `deletedAt` over whatever the
  query string asks of these two fields, and a page is a part of the list.
- `WalkHoldsAlways`: before each page, the rows the walk began with that have fewer
  than `(page - 1) * limit` rows before them have been seen; while none is added, they
  were seen one rank after the other (`SeenInOrder`).  `paginate` does not clamp a
  page the list has (`PaginateIs`), the rows a page may show are those of the next
  ranks, one each (`PageInOrder`, by counting those before and those not after a row),
  and a write that moves nothing only raises ranks (`WriteKeepsCourse`).  Rows of
  one age would share a rank: hence `Distinct`.  That the ages are numbers rests on
  there being a newest row, which is the one of the least rank (`NewestExists`).

Not proved, and checked by TLC only: all liveness (`CompletedScanAnswered`,
`EveryWriteEnds`, `DeliveredInTheEnd`, `CachesCatchUp`, `Recovers`,
`HungWorkerIsReplaced`, `ShutdownEnds`, `WorkerSettles`, `ServesAgain`), out of the
prover's reach; and `ImplementsLedger`, which is about a service with one handler and
so a check of the model more than a promise of the code.

## 5. Plan

`LoadBalancer` and `WorkerCluster` composed, with the list of the balancer in the
place of the set that `WorkerCluster` keeps.

## 6. Not modelled

Formatting of responses, Swagger, CSRF, seeds, the masks of the audit log, metrics
and reports of the cluster.  Prices and weights of products.  What an update
writes into an address that exists, and the address a pickup may create first.
Customers and the map of drivers keep no state of their own; requests are one-row
status updates without a look at the current status; attachments are one-row
writes no other module calls.  The route of register is commented out.  The
signature check of `verifyWebhook`: where it is awaited its outcome decides whether a
handler starts, and where it is not, whether the process ends (`Abort` in `OrderScan`,
`CheckEnds` in `Server`).  Some operations have no route or no caller and are modelled as the
services offer them: `markRead` and `broadcast` of the notifications, and the balancers,
which only `selectWorkerForRequest` asks; `listForUser` is reached through the two lists of pickup
notifications (`pickup.controller.ts:122`, `customer.controller.ts:57`).
