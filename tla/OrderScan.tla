------------------------------ MODULE OrderScan ------------------------------
(***************************************************************************)
(* The order service and the handlers that scan a parcel or an order       *)
(* (src/modules/order/order.service.ts, order.repository.ts).              *)
(*                                                                         *)
(* Every await on the database is a step of its own, so that any number of *)
(* handlers interleave between them; a $transaction whose statements only  *)
(* write is one step, its commit.  A request slot runs one handler at a    *)
(* time and is used again.  The product catalogue, prices and weights are  *)
(* left out: a line of an order carries the SKU it is scanned by.          *)
(***************************************************************************)
EXTENDS OrderStatus, Sequences

CONSTANTS
  Requests,        \* slots for handlers in flight
  MaxOrders,       \* orders are numbered 1..MaxOrders in the order of createdAt
  LineIds,         \* ids for the order_items rows of one order
  Skus,            \* product codes
  None,            \* no product, no row
  CreateStatuses,  \* values of dto.status in POST /orders
  EditStatuses,    \* values of dto.status in PUT /orders/:id: DefaultStatus when the
                   \* body has none; and of dto.orderStatus in pickup updates
  ScanStatuses,    \* values of dto.status in a scan
  MaxCalls,        \* bound: handlers started
  MaxAborts        \* bound: handlers that die between two steps

ASSUME OrderScanAssumption ==
  /\ MaxOrders \in Nat
  /\ IsFiniteSet(LineIds)
  /\ None \notin Skus \cup LineIds
  /\ CreateStatuses \subseteq Status
  /\ EditStatuses \subseteq Status
  /\ ScanStatuses \subseteq Status
  /\ MaxCalls \in Nat
  /\ MaxAborts \in Nat

Orders == 1..MaxOrders

\* The initializer of CreateOrderDto.status.  UpdateOrderDto is a PartialType of
\* it, and both the partial class and the validation pipe keep initializers, so
\* an update whose body has no status arrives with this one.
DefaultStatus == "PENDING"

VARIABLES
  created,    \* number of orders created so far: order o exists iff o <= created
  status,     \* status[o], the column of the orders table
  stamps,     \* stamps[o], which of pickedAt, deliveredAt, cancelledAt are set
  deleted,    \* orders with deletedAt set
  lines,      \* lines[o][l], the SKU of row l of order o, or None
  scanned,    \* scanned[o], the rows of order o with scannedAt set
  generation, \* generation[o], which set of rows order o has: replaced rows get new ids
  log,        \* log[o], the tracking events of order o, oldest first
  pc,         \* where the handler of a slot is suspended
  call,       \* the locals of that handler
  calls,      \* handlers started
  aborts      \* handlers that died

\* What the properties remember and the program does not.
VARIABLES
  unanswered, \* orders with an item scanned since a scan last wrote their status
  waived,     \* orders the service owes no progress: see NoCompletedScanForgotten
  overtaken   \* handlers about to write the status of an order whose status was
              \* written since they read it: see ImplementsLifecycle

orderRows == <<created, status, stamps, deleted>>
itemRows  == <<lines, scanned, generation>>
handlers  == <<pc, call, overtaken>>
budgets   == <<calls, aborts>>
history   == <<unanswered, waived>>
vars == <<orderRows, itemRows, log, handlers, budgets, history>>

Exists(o) == o <= created
LinesOf(o) == {l \in LineIds : lines[o][l] # None}

\* Contents of an order: the unique index on (orderId, productId) allows a
\* product once per order.
OneLinePerSku(ls) ==
  \A l, m \in LineIds : ls[l] = ls[m] /\ ls[l] # None => l = m
Contents == {ls \in [LineIds -> Skus \cup {None}] : OneLinePerSku(ls)}

EventTypes == {"ITEM_SCAN", "AUTO_STATUS_UPDATE", "COMPLETE_ORDER_SCAN",
               "SCAN_STATUS_RESET"}
StatusEvents == {"AUTO_STATUS_UPDATE", "COMPLETE_ORDER_SCAN"}

\* prev is metadata.previousStatus (the event's own status where the code
\* records none) and line is metadata.scannedItem of an ITEM_SCAN.
Event == [type : EventTypes, status : Status, prev : Status, line : LineIds \cup {None}]

\* The locals of a handler: the order as it was read (snap is its status), what
\* the request asks for and, when one item is scanned, the row that was found.
ItemCall == [op : {"scanUpdateStatus", "scanItem"}, order : Orders, snap : Status,
             want : Status, gen : Nat, line : LineIds]
OrderCall == [op : {"scanCompleteOrder", "bulkScanUpdate", "resetOrderScanStatus"},
              order : Orders, snap : Status, want : Status]
NoCall == [op |-> "none"]

\* Where a handler may be suspended while it scans an item, or an order.
ItemSteps == {"mark", "trackScan", "check", "write", "trackStatus"}
OrderSteps == {"commit", "resetItems", "trackReset"}
PC == {"idle"} \cup ItemSteps \cup OrderSteps

\* Where a handler has read an order and may still write its status, and which
\* handlers are overtaken once the status of order o is written.
Deciding == (ItemSteps \ {"trackStatus"}) \cup {"commit"}
Overtaken(o) ==
  overtaken \cup {r \in Requests : pc[r] \in Deciding /\ call[r].order = o}

Return(r) ==
  /\ pc' = [pc EXCEPT ![r] = "idle"]
  /\ call' = [call EXCEPT ![r] = NoCall]

Finish(r) == Return(r) /\ overtaken' = overtaken \ {r}

Goto(r, where) ==
  /\ pc' = [pc EXCEPT ![r] = where]
  /\ UNCHANGED call

Start(r, where, c) ==
  /\ pc[r] = "idle"
  /\ calls < MaxCalls
  /\ calls' = calls + 1
  /\ pc' = [pc EXCEPT ![r] = where]
  /\ call' = [call EXCEPT ![r] = c]
  /\ UNCHANGED <<aborts, overtaken>>

\* The call that creates the event is missing.
TrackForgotten(o, type, s, prev, line) == UNCHANGED log

Track(o, type, s, prev, line) ==
  log' = [log EXCEPT ![o] = Append(@, [type |-> type, status |-> s, prev |-> prev,
                                       line |-> line])]

-----------------------------------------------------------------------------
(* Plain order operations: each is one statement or one transaction.       *)

Init ==
  /\ created = 0
  /\ status = [o \in Orders |-> DefaultStatus]
  /\ stamps = [o \in Orders |-> {}]
  /\ deleted = {}
  /\ lines = [o \in Orders |-> [l \in LineIds |-> None]]
  /\ scanned = [o \in Orders |-> {}]
  /\ generation = [o \in Orders |-> 0]
  /\ log = [o \in Orders |-> <<>>]
  /\ pc = [r \in Requests |-> "idle"]
  /\ call = [r \in Requests |-> NoCall]
  /\ calls = 0
  /\ aborts = 0
  /\ unanswered = {}
  /\ waived = {}
  /\ overtaken = {}

Spend ==
  /\ calls < MaxCalls
  /\ calls' = calls + 1
  /\ UNCHANGED aborts

\* POST /orders: createWithProducts.
Create(ls, s) ==
  LET o == created + 1 IN
  /\ Spend
  /\ created < MaxOrders
  /\ created' = o
  /\ status' = [status EXCEPT ![o] = s]
  /\ lines' = [lines EXCEPT ![o] = ls]
  /\ UNCHANGED <<stamps, deleted, scanned, generation, log, handlers, history>>

\* PUT /orders/:id without items: orderRepo.update, no look at the table.
\* The pickup service writes the status of its orders in the same way.
Update(o, s) ==
  /\ Spend
  /\ Exists(o)
  /\ o \notin deleted
  /\ status' = [status EXCEPT ![o] = s]
  /\ overtaken' = Overtaken(o)
  /\ UNCHANGED <<created, stamps, deleted, itemRows, log, pc, call, history>>

\* The new rows keep the marks of the rows they replace.
ScannedAfterReplaceKept(o) == scanned[o]

\* deleteMany and create: the new rows have no scannedAt.
ScannedAfterReplace(o) == {}

\* PUT /orders/:id with items: updateWithProducts.  It does not look at deletedAt.
UpdateWithProducts(o, ls, s) ==
  /\ Spend
  /\ Exists(o)
  /\ lines' = [lines EXCEPT ![o] = ls]
  /\ scanned' = [scanned EXCEPT ![o] = ScannedAfterReplace(o)]
  /\ generation' = [generation EXCEPT ![o] = @ + 1]
  /\ status' = [status EXCEPT ![o] = s]
  /\ overtaken' = Overtaken(o)
  /\ UNCHANGED <<created, stamps, deleted, log, pc, call, history>>

\* PUT /orders/:id/items: updateItemsInOrder gives a row another product and
\* keeps its scannedAt; the unique index refuses a product the order has.
UpdateItemsInOrder(o, l, sku) ==
  LET ls == [lines[o] EXCEPT ![l] = sku] IN
  /\ Spend
  /\ Exists(o)
  /\ l \in LinesOf(o)
  /\ OneLinePerSku(ls)
  /\ lines' = [lines EXCEPT ![o] = ls]
  /\ UNCHANGED <<orderRows, scanned, generation, log, handlers, history>>

\* DELETE /orders/:id: BaseRepository.delete sets deletedAt.
Delete(o) ==
  /\ Spend
  /\ Exists(o)
  /\ o \notin deleted
  /\ deleted' = deleted \cup {o}
  /\ UNCHANGED <<created, status, stamps, itemRows, log, handlers, history>>

-----------------------------------------------------------------------------
(* A scan of one item.  scanUpdateStatus looks the order up by the SKU,    *)
(* scanItem by its id or number; the rest is the same four steps.  The     *)
(* order read first is a snapshot: status and row id come from it.         *)

HasSku(o, sku) == \E l \in LineIds : lines[o][l] = sku

\* findFirst with orderBy createdAt desc; deletedAt is not filtered.
NewestWith(sku) ==
  {o \in 1..created : HasSku(o, sku) /\ \A n \in 1..created : HasSku(n, sku) => n <= o}

ReadForItemScan(r, op, o, sku, want) ==
  \E l \in LineIds :
    /\ lines[o][l] = sku
    /\ Start(r, "mark", [op |-> op, order |-> o, snap |-> status[o], want |-> want,
                         gen |-> generation[o], line |-> l])
    /\ UNCHANGED <<orderRows, itemRows, log, history>>

ScanUpdateStatus(r, sku, want) ==
  \E o \in NewestWith(sku) : ReadForItemScan(r, "scanUpdateStatus", o, sku, want)

ScanItem(r, o, sku, want) ==
  /\ Exists(o)
  /\ ReadForItemScan(r, "scanItem", o, sku, want)

\* orderItem.update by id: an update of a row that was replaced meanwhile
\* fails, and with it the handler.
RowIsThere(r) ==
  LET c == call[r] IN generation[c.order] = c.gen /\ c.line \in LinesOf(c.order)

MarkItem(r) ==
  LET c == call[r] IN
  /\ pc[r] = "mark"
  /\ RowIsThere(r)
  /\ scanned' = [scanned EXCEPT ![c.order] = @ \cup {c.line}]
  /\ Goto(r, "trackScan")
  /\ unanswered' = unanswered \cup {c.order}
  /\ waived' = IF TransitionAllowed(c.snap, c.want) THEN waived
               ELSE waived \cup {c.order}
  /\ UNCHANGED <<orderRows, lines, generation, log, budgets, overtaken>>

MarkMissingItem(r) ==
  /\ pc[r] = "mark"
  /\ ~RowIsThere(r)
  /\ Finish(r)
  /\ UNCHANGED <<orderRows, itemRows, log, budgets, history>>

\* trackingEvent.create, before the completion is looked at.
TrackItemScan(r) ==
  LET c == call[r] IN
  /\ pc[r] = "trackScan"
  /\ Track(c.order, "ITEM_SCAN", c.want, c.want, c.line)
  /\ Goto(r, "check")
  /\ UNCHANGED <<orderRows, itemRows, budgets, history, overtaken>>

\* getOrderCompletionStatus: a fresh read of the items.
Complete(o) ==
  AllItemsScanned(Cardinality(scanned[o] \cap LinesOf(o)), Cardinality(LinesOf(o)))

\* The decision: items as they are now, status as it was in the snapshot.
Progresses(r) ==
  LET c == call[r] IN Complete(c.order) /\ TransitionAllowed(c.snap, c.want)

CheckCompletion(r) ==
  /\ pc[r] = "check"
  /\ IF Progresses(r) THEN Goto(r, "write") /\ UNCHANGED overtaken ELSE Finish(r)
  /\ UNCHANGED <<orderRows, itemRows, log, budgets, history>>

WriteStatus(r, o, s, st) ==
  /\ status' = [status EXCEPT ![o] = s]
  /\ stamps' = [stamps EXCEPT ![o] = @ \cup st]
  /\ unanswered' = unanswered \ {o}
  /\ waived' = waived \ {o}
  /\ overtaken' = Overtaken(o) \ {r}

\* prisma.order.update by id; scanItem goes through orderRepo.update, which
\* does not see a deleted order and fails.
WriteAutoStatus(r) ==
  LET c == call[r] IN
  /\ pc[r] = "write"
  /\ c.op = "scanItem" => c.order \notin deleted
  /\ WriteStatus(r, c.order, c.want, AutoStamps(c.want))
  /\ Goto(r, "trackStatus")
  /\ UNCHANGED <<created, deleted, itemRows, log, budgets>>

WriteToDeletedOrder(r) ==
  LET c == call[r] IN
  /\ pc[r] = "write"
  /\ c.op = "scanItem"
  /\ c.order \in deleted
  /\ Finish(r)
  /\ UNCHANGED <<orderRows, itemRows, log, budgets, history>>

TrackAutoStatus(r) ==
  LET c == call[r] IN
  /\ pc[r] = "trackStatus"
  /\ Track(c.order, "AUTO_STATUS_UPDATE", c.want, c.snap, None)
  /\ Finish(r)
  /\ UNCHANGED <<orderRows, itemRows, budgets, history>>
-----------------------------------------------------------------------------
(* A scan of a whole order, and the reset of its marks.                    *)

\* scanCompleteOrder up to the transaction: the table is consulted outside it.
ScanCompleteOrder(r, o, want) ==
  /\ Exists(o)
  /\ TransitionAllowed(status[o], want)
  /\ Start(r, "commit", [op |-> "scanCompleteOrder", order |-> o, snap |-> status[o],
                         want |-> want])
  /\ UNCHANGED <<orderRows, itemRows, log, history>>

\* bulkScanUpdate with one code, of a whole order: its branch for orders does not
\* consult the table, and the automatic progress at the end of the batch finds
\* the status it has just written, from which the table never leads back to it.
\* Batches of several codes, and their locks, are in BulkScan.
BulkScanUpdate(r, o, want) ==
  /\ Exists(o)
  /\ Start(r, "commit", [op |-> "bulkScanUpdate", order |-> o, snap |-> status[o],
                         want |-> want])
  /\ UNCHANGED <<orderRows, itemRows, log, history>>

\* The statements of both transactions are the same.
CommitCompleteOrder(r) ==
  LET c == call[r] IN
  /\ pc[r] = "commit"
  /\ scanned' = [scanned EXCEPT ![c.order] = LinesOf(c.order)]
  /\ WriteStatus(r, c.order, c.want, WholeOrderStamps(c.want))
  /\ Track(c.order, "COMPLETE_ORDER_SCAN", c.want, c.snap, None)
  /\ Return(r)
  /\ UNCHANGED <<created, deleted, lines, generation, budgets>>

\* resetOrderScanStatus: orderRepo.findOne does not see a deleted order.
ResetOrderScanStatus(r, o) ==
  /\ Exists(o)
  /\ o \notin deleted
  /\ Start(r, "resetItems", [op |-> "resetOrderScanStatus", order |-> o,
                             snap |-> status[o], want |-> status[o]])
  /\ UNCHANGED <<orderRows, itemRows, log, history>>

ResetItems(r) ==
  /\ pc[r] = "resetItems"
  /\ scanned' = [scanned EXCEPT ![call[r].order] = {}]
  /\ Goto(r, "trackReset")
  /\ UNCHANGED <<orderRows, lines, generation, log, budgets, history, overtaken>>

TrackReset(r) ==
  LET c == call[r] IN
  /\ pc[r] = "trackReset"
  /\ Track(c.order, "SCAN_STATUS_RESET", c.snap, c.snap, None)
  /\ Finish(r)
  /\ UNCHANGED <<orderRows, itemRows, budgets, history>>

\* A handler dies between two steps: a database error, a lost connection, or
\* the end of the process (the promise of verifyWebhook is not awaited, and
\* its rejection is not handled).  What it wrote stays written.
Abort(r) ==
  /\ pc[r] # "idle"
  /\ aborts < MaxAborts
  /\ aborts' = aborts + 1
  /\ waived' = waived \cup {call[r].order}
  /\ Finish(r)
  /\ UNCHANGED <<orderRows, itemRows, log, calls, unanswered>>
-----------------------------------------------------------------------------
HandlerStep(r) ==
  \/ MarkItem(r)
  \/ MarkMissingItem(r)
  \/ TrackItemScan(r)
  \/ CheckCompletion(r)
  \/ WriteAutoStatus(r)
  \/ WriteToDeletedOrder(r)
  \/ TrackAutoStatus(r)
  \/ CommitCompleteOrder(r)
  \/ ResetItems(r)
  \/ TrackReset(r)

OrderOperation ==
  \/ \E ls \in Contents, s \in CreateStatuses : Create(ls, s)
  \/ \E o \in Orders, s \in EditStatuses : Update(o, s)
  \/ \E o \in Orders, ls \in Contents, s \in EditStatuses : UpdateWithProducts(o, ls, s)
  \/ \E o \in Orders, l \in LineIds, sku \in Skus : UpdateItemsInOrder(o, l, sku)
  \/ \E o \in Orders : Delete(o)

ScanRequest(r) ==
  \/ \E sku \in Skus, want \in ScanStatuses : ScanUpdateStatus(r, sku, want)
  \/ \E o \in Orders, sku \in Skus, want \in ScanStatuses : ScanItem(r, o, sku, want)
  \/ \E o \in Orders, want \in ScanStatuses : ScanCompleteOrder(r, o, want)
  \/ \E o \in Orders, want \in ScanStatuses : BulkScanUpdate(r, o, want)
  \/ \E o \in Orders : ResetOrderScanStatus(r, o)

Next ==
  \/ OrderOperation
  \/ \E r \in Requests : ScanRequest(r) \/ HandlerStep(r) \/ Abort(r)

Spec == Init /\ [][Next]_vars

\* Clients need not send anything and nothing need fail, but the event loop
\* resumes a handler whose database call has returned.
FairSpec == Spec /\ \A r \in Requests : WF_vars(HandlerStep(r))
-----------------------------------------------------------------------------
(* Correctness.                                                            *)

RowTypes ==
  /\ created \in 0..MaxOrders
  /\ status \in [Orders -> Status]
  /\ stamps \in [Orders -> SUBSET Stamp]
  /\ deleted \subseteq 1..created
  /\ lines \in [Orders -> [LineIds -> Skus \cup {None}]]
  /\ scanned \in [Orders -> SUBSET LineIds]
  /\ generation \in [Orders -> Nat]
  /\ log \in [Orders -> Seq(Event)]

MarksOnRows ==
  \A o \in Orders :
    /\ scanned[o] \subseteq LinesOf(o)
    /\ ~Exists(o) => LinesOf(o) = {}

HandlerTypes ==
  /\ pc \in [Requests -> PC]
  /\ call \in [Requests -> ItemCall \cup OrderCall \cup {NoCall}]
  /\ \A r \in Requests :
       /\ pc[r] \in ItemSteps => call[r] \in ItemCall
       /\ pc[r] \in OrderSteps => call[r] \in OrderCall
       /\ pc[r] # "idle" => Exists(call[r].order)

\* The database rows and the locals of the handlers have their types; marks are
\* on rows that exist, rows belong to orders that exist, and a handler between
\* two steps works on an order that exists.
TypeOK ==
  /\ RowTypes
  /\ MarksOnRows
  /\ HandlerTypes
  /\ calls \in 0..MaxCalls /\ aborts \in 0..MaxAborts
  /\ unanswered \subseteq Orders /\ waived \subseteq Orders
  /\ overtaken \subseteq Requests

\* A delivered, picked or cancelled timestamp always has a tracking event that
\* accounts for it, even when the handler that set it died right after.
StampIsTraced ==
  \A o \in Orders : \A st \in stamps[o] :
    \E i \in DOMAIN log[o] : log[o][i].status = StampedStatus(st)

AllLinesScanned(o) == LinesOf(o) # {} /\ LinesOf(o) \subseteq scanned[o]

\* A handler that has marked its item and will still write the status, unless
\* the items it reads are not all scanned.
WillProgress(r, o) ==
  /\ pc[r] \in {"trackScan", "check", "write"}
  /\ call[r].order = o
  /\ call[r].want \in VALID_STATUS_TRANSITIONS[call[r].snap]

Owed(o) ==
  /\ AllLinesScanned(o)
  /\ o \in unanswered
  /\ o \notin waived
  /\ o \notin deleted

\* Scanners that work on different items of one order cannot all conclude that
\* somebody else will move it: while every item is scanned and no scan has
\* written the status since the last mark, some handler is on its way to do so.
\* Exempt are orders a handler died on, orders marked by a scan whose status
\* the table refuses, and deleted orders.
NoCompletedScanForgotten ==
  \A o \in Orders : Owed(o) => \E r \in Requests : WillProgress(r, o)

\* The same promise over time: a completed order does get its status.
CompletedScanAnswered ==
  \A o \in Orders : Owed(o) ~> ~Owed(o)

-----------------------------------------------------------------------------
(* What the handlers implement: scanners that look at an order and move it  *)
(* later, among edits, batches and failures.                               *)

StatusEntries(es) == {i \in DOMAIN es : es[i].type \in StatusEvents}

\* The k-th of a set of numbers.
Nth(S, k) == CHOOSE i \in {x \in S : Cardinality({y \in S : y <= x}) = k} : TRUE

\* The moves some events tell of.
Moves(es) ==
  [k \in 1..Cardinality(StatusEntries(es)) |->
     LET e == es[Nth(StatusEntries(es), k)] IN [from |-> e.prev, to |-> e.status]]

Trail == [o \in Orders |-> Moves(log[o])]

\* A handler that may still write a status, or that has just written it and not
\* created the event yet, is a scanner with a job.
JobOf(r) ==
  LET c == call[r] IN
  IF pc[r] \notin ItemSteps \cup {"commit"} THEN [kind |-> "none"]
  ELSE [kind |-> IF c.op = "bulkScanUpdate" THEN "batch" ELSE "scan", order |-> c.order,
        from |-> c.snap, to |-> c.want]

Jobs == [r \in Requests |-> JobOf(r)]
Moved == {r \in Requests : pc[r] = "trackStatus"}

Lifecycle ==
  INSTANCE OrderLifecycle
    WITH Orders <- Orders, Scanners <- Requests, opened <- 1..created, status <- status,
         trail <- Trail, job <- Jobs, moved <- Moved, overtaken <- overtaken

\* Any number of handlers, with edits, batches and failures among them, implement
\* the life cycle: a scan takes an order along an edge of the table from the
\* status the order has, unless somebody wrote its status while the scan was
\* under way; and it enters that move in the trail unless it dies.
ImplementsLifecycle == Lifecycle!Spec
=============================================================================
