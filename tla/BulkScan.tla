------------------------------ MODULE BulkScan ------------------------------
(***************************************************************************)
(* The two bulk scans of src/modules/order/order.service.ts, bulkScanItems *)
(* and bulkScanUpdate.  Each runs a whole batch inside one interactive     *)
(* transaction and catches the errors of an item, and of the automatic     *)
(* progress of an order, inside it.                                        *)
(*                                                                         *)
(* The database is PostgreSQL under Read Committed: a statement sees what  *)
(* is committed and what its own transaction wrote, an update locks its    *)
(* row until the transaction ends, a failed statement aborts the           *)
(* transaction, and COMMIT of an aborted transaction rolls back without an *)
(* error.  The orders and their items do not change meanwhile.             *)
(***************************************************************************)
EXTENDS OrderStatus, Sequences

CONSTANTS
  Requests,     \* slots for calls in flight
  Orders,       \* numbers of the orders, the newest has the greatest
  Skus,         \* product codes
  Contents,     \* Contents[o], the SKUs of the items of order o
  FirstStatus,  \* the status every order has before the batches
  Batches,      \* the batches clients send
  None,         \* no order, no SKU, no status
  MaxCalls,     \* bound: calls started
  MaxErrors     \* bound: statements that fail and transactions that time out

\* by tells how the code of an item is read: "item" is a line of bulkScanItems
\* (order and SKU), "sku" and "order" are the code types of bulkScanUpdate.
Item == [by : {"item", "sku", "order"}, order : Orders \cup {None},
         sku : Skus \cup {None}, status : Status]

ASSUME BulkScanAssumption ==
  /\ Orders \subseteq Nat
  /\ IsFiniteSet(Orders)
  /\ Contents \in [Orders -> SUBSET Skus]
  /\ IsFiniteSet(Skus)
  /\ FirstStatus \in Status
  /\ None \notin Orders /\ None \notin Skus /\ None \notin Status
  /\ Batches \subseteq [op : {"bulkScanItems", "bulkScanUpdate"}, items : Seq(Item)]
  /\ MaxCalls \in Nat
  /\ MaxErrors \in Nat

VARIABLES
  status,   \* status[o], as committed
  stamps,   \* stamps[o], the timestamps set on order o, as committed
  scanned,  \* rows of order_items with scannedAt set, as committed
  log,      \* log[o], the tracking events of order o, as committed
  pc,       \* where the call of a slot is suspended
  tx,       \* its transaction and its locals
  calls,    \* calls started
  errors,   \* statements that failed and transactions that timed out
  reports   \* what the finished calls answered, and what became of their writes

committed == <<status, stamps, scanned, log>>
vars == <<committed, pc, tx, calls, errors, reports>>

\* A row of order_items is <<o, sku>>; <<o, None>> is the row of order o itself.
ItemRows == UNION {{o} \X Contents[o] : o \in Orders}
OrderRow(o) == <<o, None>>
Rows == ItemRows \cup {OrderRow(o) : o \in Orders}

\* prev is metadata.previousStatus, or the event's own status where the code
\* records none.
Event == [type : {"BULK_ITEM_SCAN", "COMPLETE_ORDER_SCAN", "BULK_AUTO_STATUS_UPDATE"},
          status : Status, prev : Status, sku : Skus \cup {None}]

PC == {"idle", "item", "mark", "progress", "lookup", "save"}

\* No transaction: nothing written, nothing locked.  prev is order.status of the
\* order that was read last.
Empty == [op |-> "none", items |-> <<>>, k |-> 1, order |-> None, prev |-> FirstStatus,
          left |-> {},
          locks |-> {}, wrote |-> [o \in Orders |-> None],
          set |-> [o \in Orders |-> {}], events |-> [o \in Orders |-> <<>>],
          ok |-> {}, todo |-> <<>>, intended |-> [o \in Orders |-> None],
          updated |-> {}, broken |-> FALSE]

Init ==
  /\ status = [o \in Orders |-> FirstStatus]
  /\ stamps = [o \in Orders |-> {}]
  /\ scanned = {}
  /\ log = [o \in Orders |-> <<>>]
  /\ pc = [r \in Requests |-> "idle"]
  /\ tx = [r \in Requests |-> Empty]
  /\ calls = 0
  /\ errors = 0
  /\ reports = {}

-----------------------------------------------------------------------------
(* The database.                                                           *)

\* What the statements of r see.
Marked(r) == scanned \cup (tx[r].locks \cap ItemRows)
StatusSeen(r, o) == IF tx[r].wrote[o] = None THEN status[o] ELSE tx[r].wrote[o]

CurrentItem(r) == tx[r].items[tx[r].k]

\* The rows of which the running statement of r must lock one to go on.
Wants(r) ==
  CASE pc[r] = "mark" /\ tx[r].left # {}               -> tx[r].left
    [] pc[r] = "mark" /\ tx[r].left = {}
         /\ CurrentItem(r).by = "order"                -> {OrderRow(tx[r].order)}
    [] pc[r] = "save"                                  -> {OrderRow(Head(tx[r].todo))}
    [] OTHER                                           -> {}

Free(r, row) == \A q \in Requests \ {r} : row \notin tx[q].locks
Blocked(r) == Wants(r) # {} /\ \A row \in Wants(r) : ~Free(r, row)
BlockedBy(r) == {q \in Requests \ {r} : Wants(r) \cap tx[q].locks # {}}

\* r waits in a circle of transactions that wait for each other.
Deadlocked(r) ==
  \E circle \in SUBSET Requests :
    /\ r \in circle
    /\ \A q \in circle : Blocked(q) /\ BlockedBy(q) \subseteq circle
    /\ \A q \in circle : \E p \in circle : q \in BlockedBy(p)

-----------------------------------------------------------------------------
(* The items of a batch.                                                   *)

Start(r, b) ==
  /\ pc[r] = "idle"
  /\ calls < MaxCalls
  /\ calls' = calls + 1
  /\ pc' = [pc EXCEPT ![r] = "item"]
  /\ tx' = [tx EXCEPT ![r] = [Empty EXCEPT !.op = b.op, !.items = b.items]]
  /\ UNCHANGED <<committed, errors, reports>>

\* The order an item is about, if there is one and it has the product.
TargetOf(it) ==
  CASE it.by = "item"  -> {o \in Orders : o = it.order /\ it.sku \in Contents[o]}
    [] it.by = "sku"   -> {o \in Orders : /\ it.sku \in Contents[o]
                                          /\ \A n \in Orders : it.sku \in Contents[n] => n <= o}
    [] it.by = "order" -> {o \in Orders : o = it.order}

\* Every code is taken for the code of an item.
RowsOfOneItem(o, it) == {<<o, it.sku>>}

RowsOf(o, it) == IF it.by = "order" THEN {o} \X Contents[o] ELSE {<<o, it.sku>>}

ItemsLeft(r) == tx[r].k <= Len(tx[r].items)

\* findFirst finds the order.
FindOrder(r) ==
  /\ pc[r] = "item"
  /\ ItemsLeft(r)
  /\ \E o \in TargetOf(CurrentItem(r)) :
       tx' = [tx EXCEPT ![r].order = o, ![r].left = RowsOf(o, CurrentItem(r)),
                        ![r].prev = StatusSeen(r, o)]
  /\ pc' = [pc EXCEPT ![r] = "mark"]
  /\ UNCHANGED <<committed, calls, errors, reports>>

\* No such order or no such item: results.failed, and on to the next item.
SkipItem(r) ==
  /\ pc[r] = "item"
  /\ ItemsLeft(r)
  /\ TargetOf(CurrentItem(r)) = {}
  /\ tx' = [tx EXCEPT ![r].k = @ + 1]
  /\ UNCHANGED <<committed, pc, calls, errors, reports>>

\* The mark goes through this.prisma instead of the transaction.
MarkRowOutside(r) ==
  /\ pc[r] = "mark"
  /\ \E row \in tx[r].left :
       /\ Free(r, row)
       /\ tx' = [tx EXCEPT ![r].left = @ \ {row}]
       /\ scanned' = scanned \cup {row}
  /\ UNCHANGED <<status, stamps, log, pc, calls, errors, reports>>

\* orderItem.update, or one row of orderItem.updateMany, which may take its
\* rows in any order.
MarkRow(r) ==
  /\ pc[r] = "mark"
  /\ \E row \in tx[r].left :
       /\ Free(r, row)
       /\ tx' = [tx EXCEPT ![r].left = @ \ {row}, ![r].locks = @ \cup {row}]
  /\ UNCHANGED <<committed, pc, calls, errors, reports>>

\* The call that creates the event is missing.
ProcessedUntracked(t, type, prev, sku) ==
  [t EXCEPT !.ok = @ \cup {t.k},
            !.k = @ + 1,
            !.todo = IF t.intended[t.order] = None THEN Append(@, t.order) ELSE @,
            !.intended[t.order] = t.items[t.k].status,
            !.order = None]

\* results.success, processedOrders (a Set keeps the order of insertion) and
\* orderToStatus (the last item of an order wins).
Processed(t, type, prev, sku) ==
  LET it == t.items[t.k]
      o  == t.order IN
  [t EXCEPT !.events[o] = Append(@, [type |-> type, status |-> it.status,
                                       prev |-> prev, sku |-> sku]),
            !.ok = @ \cup {t.k},
            !.k = @ + 1,
            !.todo = IF t.intended[o] = None THEN Append(@, o) ELSE @,
            !.intended[o] = it.status,
            !.order = None]

FinishItem(r) ==
  /\ pc[r] = "mark"
  /\ tx[r].left = {}
  /\ CurrentItem(r).by # "order"
  /\ tx' = [tx EXCEPT ![r] = Processed(@, "BULK_ITEM_SCAN", CurrentItem(r).status,
                                       CurrentItem(r).sku)]
  /\ pc' = [pc EXCEPT ![r] = "item"]
  /\ UNCHANGED <<committed, calls, errors, reports>>

\* order.update of a transaction: row, status and timestamps.
Write(t, o, s, st) ==
  [t EXCEPT !.locks = @ \cup {OrderRow(o)}, !.wrote[o] = s, !.set[o] = @ \cup st]

\* A whole order: its row is written without a look at the table, so the event
\* may tell of a move the table does not have.
FinishOrder(r) ==
  LET t == tx[r]
      s == CurrentItem(r).status IN
  /\ pc[r] = "mark"
  /\ t.left = {}
  /\ CurrentItem(r).by = "order"
  /\ Free(r, OrderRow(t.order))
  /\ tx' = [tx EXCEPT ![r] = Write(Processed(t, "COMPLETE_ORDER_SCAN", t.prev, None),
                                   t.order, s, WholeOrderStamps(s))]
  /\ pc' = [pc EXCEPT ![r] = "item"]
  /\ UNCHANGED <<committed, calls, errors, reports>>

EndOfItems(r) ==
  /\ pc[r] = "item"
  /\ ~ItemsLeft(r)
  /\ pc' = [pc EXCEPT ![r] = "progress"]
  /\ UNCHANGED <<committed, tx, calls, errors, reports>>
-----------------------------------------------------------------------------
(* The automatic progress of the orders of a batch.                        *)

\* getOrderCompletionStatusInTransaction.
Complete(r, o) ==
  LET rows == {o} \X Contents[o] IN
  AllItemsScanned(Cardinality(rows \cap Marked(r)), Cardinality(rows))

NextOrder(r) ==
  /\ tx' = [tx EXCEPT ![r].todo = Tail(@)]
  /\ pc' = [pc EXCEPT ![r] = "progress"]

CheckCompletion(r) ==
  /\ pc[r] = "progress"
  /\ tx[r].todo # <<>>
  /\ IF Complete(r, Head(tx[r].todo))
       THEN pc' = [pc EXCEPT ![r] = "lookup"] /\ UNCHANGED tx
       ELSE NextOrder(r)
  /\ UNCHANGED <<committed, calls, errors, reports>>

\* order.findUnique and the look at the table.
ReadStatus(r) ==
  LET o == Head(tx[r].todo) IN
  /\ pc[r] = "lookup"
  /\ IF TransitionAllowed(StatusSeen(r, o), tx[r].intended[o])
       THEN /\ pc' = [pc EXCEPT ![r] = "save"]
            /\ tx' = [tx EXCEPT ![r].prev = StatusSeen(r, o)]
       ELSE NextOrder(r)
  /\ UNCHANGED <<committed, calls, errors, reports>>

\* Only bulkScanItems records the automatic progress.
AutoEvents(op, s, prev) ==
  IF op = "bulkScanItems"
  THEN <<[type |-> "BULK_AUTO_STATUS_UPDATE", status |-> s, prev |-> prev, sku |-> None]>>
  ELSE <<>>

SaveStatus(r) ==
  LET t == tx[r]
      o == Head(t.todo)
      s == t.intended[o]
      w == Write([t EXCEPT !.todo = Tail(@)], o, s, AutoStamps(s)) IN
  /\ pc[r] = "save"
  /\ Free(r, OrderRow(o))
  /\ tx' = [tx EXCEPT ![r] = [w EXCEPT !.events[o] = @ \o AutoEvents(t.op, s, t.prev),
                                       !.updated = @ \cup {o}]]
  /\ pc' = [pc EXCEPT ![r] = "progress"]
  /\ UNCHANGED <<committed, calls, errors, reports>>
-----------------------------------------------------------------------------
(* The end of a call.                                                      *)

Answer(r, outcome) ==
  /\ reports' = reports \cup {[items |-> tx[r].items, ok |-> tx[r].ok,
                               updated |-> tx[r].updated, outcome |-> outcome]}
  /\ pc' = [pc EXCEPT ![r] = "idle"]
  /\ tx' = [tx EXCEPT ![r] = Empty]

Done(r) == pc[r] = "progress" /\ tx[r].todo = <<>>

Commit(r) ==
  LET t == tx[r] IN
  /\ Done(r)
  /\ ~t.broken
  /\ status' = [o \in Orders |-> StatusSeen(r, o)]
  /\ stamps' = [o \in Orders |-> stamps[o] \cup t.set[o]]
  /\ scanned' = Marked(r)
  /\ log' = [o \in Orders |-> log[o] \o t.events[o]]
  /\ Answer(r, "committed")
  /\ UNCHANGED <<calls, errors>>

\* The call answers with the results it collected all the same.
CommitOfBroken(r) ==
  /\ Done(r)
  /\ tx[r].broken
  /\ Answer(r, "rolledback")
  /\ UNCHANGED <<committed, calls, errors>>

\* A failed statement gives up the locks at once.  It fails its item or order,
\* and so does every later statement; the catch of each goes on to the next.
Break(r) ==
  /\ ~tx[r].broken
  /\ tx' = [tx EXCEPT ![r].broken = TRUE, ![r].locks = {}, ![r].left = {},
                      ![r].wrote = Empty.wrote, ![r].set = Empty.set,
                      ![r].events = Empty.events, ![r].order = None,
                      ![r].todo = <<>>]
  /\ pc' = [pc EXCEPT ![r] = "progress"]
  /\ UNCHANGED <<committed, calls, reports>>

InStatement(r) ==
  \/ pc[r] = "item" /\ ItemsLeft(r)
  \/ pc[r] \in {"mark", "lookup", "save"}
  \/ pc[r] = "progress" /\ tx[r].todo # <<>>

StatementFails(r) ==
  /\ InStatement(r)
  /\ errors < MaxErrors
  /\ errors' = errors + 1
  /\ Break(r)

\* deadlock_timeout: PostgreSQL fails the statement of one of the circle.
DeadlockVictim(r) ==
  /\ Deadlocked(r)
  /\ Break(r)
  /\ UNCHANGED errors

\* The transaction is rolled back after its timeout, or the process dies: the
\* call is answered with an error or not at all.
TimesOut(r) ==
  /\ pc[r] # "idle"
  /\ errors < MaxErrors
  /\ errors' = errors + 1
  /\ Answer(r, "rejected")
  /\ UNCHANGED <<committed, calls>>

Step(r) ==
  \/ FindOrder(r) \/ SkipItem(r) \/ MarkRow(r) \/ FinishItem(r) \/ FinishOrder(r)
  \/ EndOfItems(r) \/ CheckCompletion(r) \/ ReadStatus(r) \/ SaveStatus(r)
  \/ Commit(r) \/ CommitOfBroken(r) \/ DeadlockVictim(r)

Next ==
  \E r \in Requests :
    \/ \E b \in Batches : Start(r, b)
    \/ Step(r)
    \/ StatementFails(r)
    \/ TimesOut(r)

Spec == Init /\ [][Next]_vars
-----------------------------------------------------------------------------
(* Properties.                                                             *)

TxType ==
  [op : {"none", "bulkScanItems", "bulkScanUpdate"}, items : Seq(Item), k : Nat \ {0},
   order : Orders \cup {None}, prev : Status, left : SUBSET ItemRows, locks : SUBSET Rows,
   wrote : [Orders -> Status \cup {None}], set : [Orders -> SUBSET Stamp],
   events : [Orders -> Seq(Event)], ok : SUBSET Nat, todo : Seq(Orders),
   intended : [Orders -> Status \cup {None}], updated : SUBSET Orders,
   broken : BOOLEAN]

Outcomes == {"committed", "rolledback", "rejected"}

\* Type invariant of the bulk scans.
TypeOK ==
  /\ status \in [Orders -> Status]
  /\ stamps \in [Orders -> SUBSET Stamp]
  /\ scanned \subseteq ItemRows
  /\ log \in [Orders -> Seq(Event)]
  /\ pc \in [Requests -> PC]
  /\ tx \in [Requests -> TxType]
  /\ calls \in 0..MaxCalls
  /\ errors \in 0..MaxErrors
  /\ reports \subseteq [items : Seq(Item), ok : SUBSET Nat, updated : SUBSET Orders,
                        outcome : Outcomes]

\* An event of a sequence has status s; or is a scan of sku, or of everything.
HasStatus(events, s) == \E i \in 1..Len(events) : events[i].status = s
HasScan(events, sku) ==
  \E i \in 1..Len(events) : \/ events[i].type = "COMPLETE_ORDER_SCAN"
                            \/ events[i].sku = sku

\* Whatever transactions fail, deadlock or interleave, the committed rows agree
\* with the audit trail: a scanned item has the event of a scan that names it,
\* or of a scan of its whole order.
MarksAreTraced ==
  \A row \in scanned : HasScan(log[row[1]], row[2])

\* An order that left its first status, or has a timestamp, has an event of
\* that status.  The automatic progress of bulkScanUpdate writes no event of
\* its own, so the event is that of an item, committed with it.
StatusIsTraced ==
  \A o \in Orders :
    /\ status[o] # FirstStatus => HasStatus(log[o], status[o])
    /\ \A st \in stamps[o] : HasStatus(log[o], StampedStatus(st))

\* When a batch commits, the errors caught inside it were only those of items
\* that do not exist: results.success names every other item, each of them is
\* scanned, and every order named in ordersUpdated was completely scanned.  A
\* batch of which a part was written and another part failed cannot commit.
CommittedReportIsComplete ==
  \A rep \in {p \in reports : p.outcome = "committed"} :
    /\ rep.ok = {k \in 1..Len(rep.items) : TargetOf(rep.items[k]) # {}}
    /\ \A k \in rep.ok : \A o \in TargetOf(rep.items[k]) :
         RowsOf(o, rep.items[k]) \subseteq scanned
    /\ \A o \in rep.updated : Contents[o] # {} /\ {o} \X Contents[o] \subseteq scanned

\* With no call in flight, an order whose items are all scanned has left its
\* first status, unless an item asked for a status the table does not allow.
\* Holds for batches one at a time; two at a time each miss the marks of the
\* other, and the last one to commit does not look again.
CompleteOrderProgressed ==
  (\A r \in Requests : pc[r] = "idle") =>
    \A o \in Orders :
      Contents[o] # {} /\ {o} \X Contents[o] \subseteq scanned =>
        \/ status[o] # FirstStatus
        \/ \E i \in 1..Len(log[o]) : ~TransitionAllowed(FirstStatus, log[o][i].status)
=============================================================================
