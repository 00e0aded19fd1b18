--------------------------- MODULE OrderScan_proofs ---------------------------
(***************************************************************************)
(* Proofs about OrderScan, for any number of handlers, orders, rows and    *)
(* products, and any statuses in the requests.                             *)
(***************************************************************************)
EXTENDS OrderScan, FiniteSetTheorems, SequenceTheorems, TLAPS

-----------------------------------------------------------------------------
(* Handlers: what starting, resuming and ending one does to their types.   *)

LEMMA FinishKeepsHandlers ==
  ASSUME HandlerTypes, NEW r \in Requests, Return(r), created' = created
  PROVE  HandlerTypes'
BY DEF HandlerTypes, Return, Exists, PC, ItemSteps, OrderSteps

LEMMA GotoKeepsHandlers ==
  ASSUME HandlerTypes, NEW r \in Requests, NEW where, Goto(r, where), created' = created,
         \/ pc[r] \in ItemSteps /\ where \in ItemSteps
         \/ pc[r] \in OrderSteps /\ where \in OrderSteps
  PROVE  HandlerTypes'
BY DEF HandlerTypes, Goto, Exists, PC, ItemSteps, OrderSteps

LEMMA StartKeepsHandlers ==
  ASSUME HandlerTypes, NEW r \in Requests, NEW where, NEW c, Start(r, where, c),
         Exists(c.order), created' = created,
         \/ where \in ItemSteps /\ c \in ItemCall
         \/ where \in OrderSteps /\ c \in OrderCall
  PROVE  HandlerTypes'
BY DEF HandlerTypes, Start, Exists, PC, ItemSteps, OrderSteps

\* A handler that scans an item knows the order, the row and the statuses.
LEMMA ItemCallTypes ==
  ASSUME TypeOK, NEW r \in Requests, pc[r] \in ItemSteps
  PROVE  /\ call[r] \in ItemCall
         /\ call[r].order \in Orders /\ Exists(call[r].order)
         /\ call[r].snap \in Status /\ call[r].want \in Status
         /\ call[r].gen \in Nat /\ call[r].line \in LineIds
<1>1. call[r] \in ItemCall /\ Exists(call[r].order)
  BY DEF TypeOK, HandlerTypes, ItemSteps
<1>2. QED
  BY <1>1 DEF ItemCall

LEMMA OrderCallTypes ==
  ASSUME TypeOK, NEW r \in Requests, pc[r] \in OrderSteps
  PROVE  /\ call[r] \in OrderCall
         /\ call[r].order \in Orders /\ Exists(call[r].order)
         /\ call[r].snap \in Status /\ call[r].want \in Status
<1>1. call[r] \in OrderCall /\ Exists(call[r].order)
  BY DEF TypeOK, HandlerTypes, OrderSteps
<1>2. QED
  BY <1>1 DEF OrderCall

\* An event that is created has the type of an event.
LEMMA TrackKeepsLog ==
  ASSUME log \in [Orders -> Seq(Event)], NEW o \in Orders, NEW type \in EventTypes,
         NEW s \in Status, NEW prev \in Status, NEW line \in LineIds \cup {None},
         Track(o, type, s, prev, line)
  PROVE  log' \in [Orders -> Seq(Event)]
<1>1. [type |-> type, status |-> s, prev |-> prev, line |-> line] \in Event
  BY DEF Event
<1>2. QED
  BY <1>1 DEF Track

-----------------------------------------------------------------------------
(* Types.                                                                  *)

\* The empty database with all slots idle is well typed.
LEMMA InitTypeOK == Init => TypeOK
<1> SUFFICES ASSUME Init PROVE TypeOK
  OBVIOUS
<1> USE OrderScanAssumption DEF Init
<1>1. RowTypes
  BY DEF RowTypes, Orders, Status, Stamp, DefaultStatus
<1>2. MarksOnRows
  BY DEF MarksOnRows, LinesOf
<1>3. HandlerTypes
  BY DEF HandlerTypes, PC, ItemSteps, OrderSteps
<1>4. QED
  BY <1>1, <1>2, <1>3 DEF TypeOK

\* The operations that are one statement or one transaction keep the types.
LEMMA OrderOperationTypeOK == TypeOK /\ OrderOperation => TypeOK'
<1> SUFFICES ASSUME TypeOK, OrderOperation PROVE TypeOK'
  OBVIOUS
<1> USE OrderScanAssumption DEF TypeOK, Spend
<1>1. ASSUME NEW ls \in Contents, NEW s \in CreateStatuses, Create(ls, s)
      PROVE  TypeOK'
  <2>1. RowTypes'
    BY <1>1 DEF Create, RowTypes, Contents, Orders
  <2>2. MarksOnRows'
    BY <1>1 DEF Create, MarksOnRows, RowTypes, LinesOf, Exists, Orders
  <2>3. HandlerTypes'
    BY <1>1 DEF Create, HandlerTypes, RowTypes, Exists, handlers, ItemCall, OrderCall,
                Orders, PC, ItemSteps, OrderSteps
  <2>4. QED
    BY <1>1, <2>1, <2>2, <2>3 DEF Create, history, handlers
<1>2. ASSUME NEW o \in Orders, NEW s \in EditStatuses, Update(o, s)
      PROVE  TypeOK'
  BY <1>2 DEF Update, RowTypes, MarksOnRows, HandlerTypes, LinesOf, Exists,
              Overtaken, itemRows, history
<1>3. ASSUME NEW o \in Orders, NEW ls \in Contents, NEW s \in Status,
             UpdateWithProducts(o, ls, s)
      PROVE  TypeOK'
  <2>1. RowTypes'
    BY <1>3 DEF UpdateWithProducts, ScannedAfterReplace, RowTypes, Contents
  <2>2. MarksOnRows'
    BY <1>3 DEF UpdateWithProducts, ScannedAfterReplace, MarksOnRows, RowTypes,
                LinesOf, Exists
  <2>3. QED
    BY <1>3, <2>1, <2>2 DEF UpdateWithProducts, HandlerTypes, Exists, Overtaken, history
<1>4. ASSUME NEW o \in Orders, NEW l \in LineIds, NEW sku \in Skus,
             UpdateItemsInOrder(o, l, sku)
      PROVE  TypeOK'
  <2>1. RowTypes'
    BY <1>4 DEF UpdateItemsInOrder, RowTypes, orderRows
  <2>2. MarksOnRows'
    BY <1>4 DEF UpdateItemsInOrder, MarksOnRows, RowTypes, LinesOf, Exists, orderRows
  <2>3. QED
    BY <1>4, <2>1, <2>2 DEF UpdateItemsInOrder, HandlerTypes, Exists, handlers, history,
                            orderRows
<1>5. ASSUME NEW o \in Orders, Delete(o)
      PROVE  TypeOK'
  BY <1>5 DEF Delete, RowTypes, MarksOnRows, HandlerTypes, LinesOf, Exists, Orders,
              itemRows, handlers, history
<1>6. ASSUME NEW o \in Orders
      PROVE  status[o] \in Status
  BY <1>6 DEF RowTypes
<1>7. QED
  BY <1>1, <1>2, <1>3, <1>4, <1>5, <1>6 DEF OrderOperation

\* Reading the order and starting a handler keeps the types.
LEMMA ScanRequestTypeOK ==
  ASSUME TypeOK, NEW r \in Requests, ScanRequest(r)
  PROVE  TypeOK'
<1> USE OrderScanAssumption
<1>1. ASSUME UNCHANGED <<orderRows, itemRows, log, history>>, HandlerTypes',
             calls' \in 0..MaxCalls, UNCHANGED <<aborts, overtaken>>
      PROVE  TypeOK'
  BY <1>1 DEF TypeOK, RowTypes, MarksOnRows, LinesOf, Exists, orderRows, itemRows, history
<1>2. ASSUME NEW where, NEW c, Start(r, where, c)
      PROVE  calls' \in 0..MaxCalls /\ UNCHANGED <<aborts, overtaken>>
  BY <1>2 DEF Start, TypeOK
<1>3. ASSUME NEW op \in {"scanUpdateStatus", "scanItem"}, NEW o \in Orders, Exists(o),
             NEW sku \in Skus, NEW want \in ScanStatuses,
             ReadForItemScan(r, op, o, sku, want)
      PROVE  TypeOK'
  <2>1. PICK l \in LineIds :
          /\ Start(r, "mark", [op |-> op, order |-> o, snap |-> status[o], want |-> want,
                               gen |-> generation[o], line |-> l])
          /\ UNCHANGED <<orderRows, itemRows, log, history>>
    BY <1>3 DEF ReadForItemScan
  <2>2. [op |-> op, order |-> o, snap |-> status[o], want |-> want,
         gen |-> generation[o], line |-> l] \in ItemCall
    BY <1>3 DEF ItemCall, TypeOK, RowTypes
  <2>3. HandlerTypes'
    BY <1>3, <2>1, <2>2, StartKeepsHandlers DEF TypeOK, ItemSteps, orderRows
  <2>4. QED
    BY <1>1, <1>2, <2>1, <2>3
<1>4. ASSUME NEW sku \in Skus, NEW want \in ScanStatuses, ScanUpdateStatus(r, sku, want)
      PROVE  TypeOK'
  <2>1. PICK o \in NewestWith(sku) : ReadForItemScan(r, "scanUpdateStatus", o, sku, want)
    BY <1>4 DEF ScanUpdateStatus
  <2>2. o \in Orders /\ Exists(o)
    BY DEF NewestWith, Exists, TypeOK, RowTypes, Orders
  <2>3. QED
    BY <1>3, <2>1, <2>2
<1>5. ASSUME NEW o \in Orders, NEW want \in Status, NEW where \in OrderSteps,
             NEW op \in {"scanCompleteOrder", "bulkScanUpdate", "resetOrderScanStatus"},
             Exists(o),
             Start(r, where, [op |-> op, order |-> o, snap |-> status[o], want |-> want]),
             UNCHANGED <<orderRows, itemRows, log, history>>
      PROVE  TypeOK'
  <2>1. [op |-> op, order |-> o, snap |-> status[o], want |-> want] \in OrderCall
    BY <1>5 DEF OrderCall, TypeOK, RowTypes
  <2>2. HandlerTypes'
    BY <1>5, <2>1, StartKeepsHandlers DEF TypeOK, orderRows
  <2>3. QED
    BY <1>1, <1>2, <1>5, <2>2
<1>6. ASSUME NEW o \in Orders, NEW want \in ScanStatuses, ScanCompleteOrder(r, o, want)
      PROVE  TypeOK'
  BY <1>5, <1>6 DEF ScanCompleteOrder, OrderSteps
<1>7. ASSUME NEW o \in Orders, NEW want \in ScanStatuses, BulkScanUpdate(r, o, want)
      PROVE  TypeOK'
  BY <1>5, <1>7 DEF BulkScanUpdate, OrderSteps
<1>8. ASSUME NEW o \in Orders, ResetOrderScanStatus(r, o)
      PROVE  TypeOK'
  BY <1>5, <1>8 DEF ResetOrderScanStatus, OrderSteps, TypeOK, RowTypes
<1>9. QED
  BY <1>3, <1>4, <1>6, <1>7, <1>8 DEF ScanRequest, ScanItem

\* Resuming a handler, or losing it, keeps the types.
LEMMA HandlerTypeOK ==
  ASSUME TypeOK, NEW r \in Requests, HandlerStep(r) \/ Abort(r)
  PROVE  TypeOK'
<1> USE DEF Finish
<1>1. CASE MarkItem(r)
  <2>1. call[r].order \in Orders /\ call[r].line \in LineIds /\ pc[r] \in ItemSteps
    BY <1>1, ItemCallTypes DEF MarkItem, ItemSteps
  <2>2. RowTypes' /\ MarksOnRows'
    BY <1>1, <2>1 DEF MarkItem, RowIsThere, TypeOK, RowTypes, MarksOnRows, LinesOf, Exists,
                      orderRows
  <2>3. HandlerTypes'
    BY <1>1, <2>1, GotoKeepsHandlers DEF MarkItem, TypeOK, ItemSteps, orderRows
  <2>4. QED
    BY <1>1, <2>1, <2>2, <2>3 DEF MarkItem, TypeOK, budgets
<1>2. CASE MarkMissingItem(r) \/ WriteToDeletedOrder(r)
  <2>1. Finish(r) /\ UNCHANGED <<orderRows, itemRows, log, budgets, history>>
    BY <1>2 DEF MarkMissingItem, WriteToDeletedOrder
  <2>2. HandlerTypes'
    BY <2>1, FinishKeepsHandlers DEF TypeOK, orderRows
  <2>3. QED
    BY <2>1, <2>2 DEF TypeOK, RowTypes, MarksOnRows, LinesOf, Exists, orderRows, itemRows,
                      budgets, history
<1>3. CASE TrackItemScan(r)
  <2>1. /\ pc[r] \in ItemSteps /\ call[r].order \in Orders
        /\ call[r].want \in Status /\ call[r].line \in LineIds
    BY <1>3, ItemCallTypes DEF TrackItemScan, ItemSteps
  <2>2. log' \in [Orders -> Seq(Event)]
    BY <1>3, <2>1, TrackKeepsLog DEF TrackItemScan, TypeOK, RowTypes, EventTypes
  <2>3. HandlerTypes'
    BY <1>3, <2>1, GotoKeepsHandlers DEF TrackItemScan, TypeOK, ItemSteps, orderRows
  <2>4. QED
    BY <1>3, <2>2, <2>3 DEF TrackItemScan, TypeOK, RowTypes, MarksOnRows, LinesOf, Exists,
                            orderRows, itemRows, budgets, history
<1>4. CASE CheckCompletion(r)
  <2>1. HandlerTypes'
    BY <1>4, FinishKeepsHandlers, GotoKeepsHandlers
    DEF CheckCompletion, TypeOK, ItemSteps, orderRows
  <2>2. QED
    BY <1>4, <2>1 DEF CheckCompletion, TypeOK, RowTypes, MarksOnRows, LinesOf, Exists,
                      orderRows, itemRows, budgets, history
<1>5. CASE WriteAutoStatus(r)
  <2>1. pc[r] \in ItemSteps /\ call[r].order \in Orders /\ call[r].want \in Status
    BY <1>5, ItemCallTypes DEF WriteAutoStatus, ItemSteps
  <2>2. AutoStamps(call[r].want) \subseteq Stamp
    BY DEF AutoStamps, Stamp
  <2>3. RowTypes' /\ MarksOnRows'
    BY <1>5, <2>1, <2>2 DEF WriteAutoStatus, WriteStatus, TypeOK, RowTypes, MarksOnRows,
                            LinesOf, Exists, itemRows
  <2>4. HandlerTypes'
    BY <1>5, <2>1, GotoKeepsHandlers DEF WriteAutoStatus, TypeOK, ItemSteps
  <2>5. QED
    BY <1>5, <2>3, <2>4 DEF WriteAutoStatus, WriteStatus, Overtaken, TypeOK, budgets
<1>6. CASE TrackAutoStatus(r)
  <2>1. /\ call[r].order \in Orders
        /\ call[r].want \in Status /\ call[r].snap \in Status
    BY <1>6, ItemCallTypes DEF TrackAutoStatus, ItemSteps
  <2>2. log' \in [Orders -> Seq(Event)]
    BY <1>6, <2>1, TrackKeepsLog DEF TrackAutoStatus, TypeOK, RowTypes, EventTypes
  <2>3. HandlerTypes'
    BY <1>6, FinishKeepsHandlers DEF TrackAutoStatus, TypeOK, orderRows
  <2>4. QED
    BY <1>6, <2>2, <2>3 DEF TrackAutoStatus, TypeOK, RowTypes, MarksOnRows, LinesOf, Exists,
                            orderRows, itemRows, budgets, history
<1>7. CASE CommitCompleteOrder(r)
  <2>1. /\ call[r].order \in Orders /\ Exists(call[r].order)
        /\ call[r].want \in Status /\ call[r].snap \in Status
    BY <1>7, OrderCallTypes DEF CommitCompleteOrder, OrderSteps
  <2>2. WholeOrderStamps(call[r].want) \subseteq Stamp
    BY DEF WholeOrderStamps, AutoStamps, Stamp
  <2>3. log' \in [Orders -> Seq(Event)]
    BY <1>7, <2>1, TrackKeepsLog DEF CommitCompleteOrder, TypeOK, RowTypes, EventTypes
  <2>4. RowTypes' /\ MarksOnRows'
    BY <1>7, <2>1, <2>2, <2>3 DEF CommitCompleteOrder, WriteStatus, TypeOK, RowTypes,
                                  MarksOnRows, LinesOf, Exists
  <2>5. HandlerTypes'
    BY <1>7, FinishKeepsHandlers DEF CommitCompleteOrder, TypeOK
  <2>6. QED
    BY <1>7, <2>4, <2>5 DEF CommitCompleteOrder, WriteStatus, Overtaken, TypeOK, budgets
<1>8. CASE ResetItems(r)
  <2>1. pc[r] \in OrderSteps /\ call[r].order \in Orders
    BY <1>8, OrderCallTypes DEF ResetItems, OrderSteps
  <2>2. HandlerTypes'
    BY <1>8, <2>1, GotoKeepsHandlers DEF ResetItems, TypeOK, OrderSteps, orderRows
  <2>3. RowTypes' /\ MarksOnRows'
    BY <1>8, <2>1 DEF ResetItems, TypeOK, RowTypes, MarksOnRows, LinesOf, Exists, orderRows
  <2>4. QED
    BY <1>8, <2>2, <2>3 DEF ResetItems, TypeOK, budgets, history
<1>9. CASE TrackReset(r)
  <2>1. call[r].order \in Orders /\ call[r].snap \in Status
    BY <1>9, OrderCallTypes DEF TrackReset, OrderSteps
  <2>2. log' \in [Orders -> Seq(Event)]
    BY <1>9, <2>1, TrackKeepsLog DEF TrackReset, TypeOK, RowTypes, EventTypes
  <2>3. HandlerTypes'
    BY <1>9, FinishKeepsHandlers DEF TrackReset, TypeOK, orderRows
  <2>4. QED
    BY <1>9, <2>2, <2>3 DEF TrackReset, TypeOK, RowTypes, MarksOnRows, LinesOf, Exists,
                            orderRows, itemRows, budgets, history
<1>10. CASE Abort(r)
  <2>1. call[r].order \in Orders
    BY <1>10, ItemCallTypes, OrderCallTypes DEF Abort, TypeOK, HandlerTypes, PC
  <2>2. HandlerTypes'
    BY <1>10, FinishKeepsHandlers DEF Abort, TypeOK, orderRows
  <2>3. QED
    BY <1>10, <2>1, <2>2, OrderScanAssumption
    DEF Abort, TypeOK, RowTypes, MarksOnRows, LinesOf, Exists, orderRows, itemRows
<1>11. QED
  BY <1>1, <1>2, <1>3, <1>4, <1>5, <1>6, <1>7, <1>8, <1>9, <1>10 DEF HandlerStep

\* A step that changes nothing keeps the types.
LEMMA StutterTypeOK == TypeOK /\ UNCHANGED vars => TypeOK'
BY DEF TypeOK, RowTypes, MarksOnRows, HandlerTypes, LinesOf, Exists, vars, orderRows,
       itemRows, handlers, budgets, history

LEMMA NextTypeOK == TypeOK /\ [Next]_vars => TypeOK'
BY OrderOperationTypeOK, ScanRequestTypeOK, HandlerTypeOK, StutterTypeOK DEF Next

\* The database and the handlers always have their types: marks are on rows
\* that exist whatever edits race with a scan, and a suspended handler never
\* holds an order that does not exist (TypeOK).
THEOREM TypeCorrect == Spec => []TypeOK
BY InitTypeOK, NextTypeOK, PTL DEF Spec
-----------------------------------------------------------------------------
(* Timestamps and the events that account for them.                        *)

Traced(o, s) == \E i \in DOMAIN log[o] : log[o][i].status = s
TracedAfter(o, s) == \E i \in DOMAIN log'[o] : log'[o][i].status = s

\* A handler that has recorded its item scan left an event with the status it
\* is going to write: the event that will account for the timestamp.
ScanIsTraced ==
  \A r \in Requests :
    pc[r] \in {"check", "write", "trackStatus"} => Traced(call[r].order, call[r].want)

TraceInv == TypeOK /\ ScanIsTraced /\ StampIsTraced

\* Events are only added.
LEMMA TrackKeepsTraces ==
  ASSUME TypeOK, NEW o \in Orders, NEW type, NEW s, NEW prev, NEW line,
         Track(o, type, s, prev, line)
  PROVE  /\ \A p \in Orders, t \in Status : Traced(p, t) => TracedAfter(p, t)
         /\ TracedAfter(o, s)
<1> DEFINE e == [type |-> type, status |-> s, prev |-> prev, line |-> line]
<1>1. log \in [Orders -> Seq(Event)]
  BY DEF TypeOK, RowTypes
<1>2. log' = [log EXCEPT ![o] = Append(@, e)]
  BY DEF Track
<1>3. ASSUME NEW p \in Orders
      PROVE  \A i \in DOMAIN log[p] : i \in DOMAIN log'[p] /\ log'[p][i] = log[p][i]
  BY <1>1, <1>2
<1>4. Len(log[o]) + 1 \in DOMAIN log'[o] /\ log'[o][Len(log[o]) + 1] = e
  BY <1>1, <1>2
<1>5. TracedAfter(o, s)
  BY <1>4 DEF Traced, TracedAfter
<1>6. QED
  BY <1>3, <1>5 DEF Traced, TracedAfter

\* The timestamps a status sets all stand for that status.
LEMMA StampsStandForStatus ==
  \A s \in Status : \A st \in WholeOrderStamps(s) : StampedStatus(st) = s
BY DEF WholeOrderStamps, AutoStamps, StampedStatus

LEMMA InitTrace == Init => TraceInv
BY InitTypeOK DEF Init, TraceInv, ScanIsTraced, StampIsTraced

LEMMA NextTrace == TraceInv /\ [Next]_vars => TraceInv'
<1> SUFFICES ASSUME TraceInv, [Next]_vars PROVE TraceInv'
  OBVIOUS
<1> USE DEF TraceInv
<1> DEFINE Kept == \A p \in Orders, t \in Status : Traced(p, t) => TracedAfter(p, t)
<1>1. TypeOK'
  BY NextTypeOK
<1>2. \A r \in Requests : pc[r] \in {"check", "write", "trackStatus"} =>
        call[r].order \in Orders /\ call[r].want \in Status
  BY ItemCallTypes DEF ItemSteps
<1>3. \A st \in Stamp : StampedStatus(st) \in Status
  BY DEF Stamp, StampedStatus, Status
<1>4. \A o \in Orders : stamps[o] \subseteq Stamp
  BY DEF TypeOK, RowTypes
<1>5. UNCHANGED log => Kept
  BY DEF Traced, TracedAfter
<1>6. ASSUME Kept, UNCHANGED <<pc, call>> \/ (\E r \in Requests : Return(r))
      PROVE  ScanIsTraced'
  BY <1>2, <1>6 DEF ScanIsTraced, Return, TypeOK, HandlerTypes, Traced, TracedAfter
<1>7. ASSUME Kept, NEW r \in Requests, NEW where, Goto(r, where),
             where \in {"check", "write", "trackStatus"} =>
               TracedAfter(call[r].order, call[r].want)
      PROVE  ScanIsTraced'
  BY <1>2, <1>7 DEF ScanIsTraced, Goto, TypeOK, HandlerTypes, Traced, TracedAfter
<1>8. ASSUME Kept, NEW r \in Requests, NEW where, NEW c, Start(r, where, c),
             where \in {"mark", "commit", "resetItems"}
      PROVE  ScanIsTraced'
  BY <1>2, <1>8 DEF ScanIsTraced, Start, TypeOK, HandlerTypes, Traced, TracedAfter
<1>9. ASSUME Kept, UNCHANGED stamps
      PROVE  StampIsTraced'
  BY <1>3, <1>4, <1>9 DEF StampIsTraced, Traced, TracedAfter
<1>10. ASSUME Kept, NEW o \in Orders, NEW s \in Status, NEW st, st \subseteq WholeOrderStamps(s),
              TracedAfter(o, s), \E r : WriteStatus(r, o, s, st)
       PROVE  StampIsTraced'
  <2>1. stamps' = [stamps EXCEPT ![o] = @ \cup st] /\ stamps \in [Orders -> SUBSET Stamp]
    BY <1>10 DEF WriteStatus, TypeOK, RowTypes
  <2>2. ASSUME NEW p \in Orders, NEW x \in stamps'[p]
        PROVE  TracedAfter(p, StampedStatus(x))
    <3>1. CASE x \in stamps[p]
      BY <1>3, <1>4, <1>10, <3>1 DEF StampIsTraced, Traced, TracedAfter
    <3>2. CASE x \notin stamps[p]
      <4>1. p = o /\ x \in st
        BY <2>1, <2>2, <3>2
      <4>2. StampedStatus(x) = s
        BY <1>10, <4>1, StampsStandForStatus
      <4>3. QED
        BY <1>10, <4>1, <4>2
    <3>3. QED
      BY <3>1, <3>2
  <2>3. QED
    BY <2>2 DEF StampIsTraced, Traced, TracedAfter
<1>11. CASE OrderOperation
  <2>1. UNCHANGED <<log, stamps, pc, call>>
    BY <1>11 DEF OrderOperation, Create, Update, UpdateWithProducts, UpdateItemsInOrder,
                 Delete, handlers, orderRows
  <2>2. QED
    BY <1>1, <1>5, <1>6, <1>9, <2>1
<1>12. ASSUME NEW r \in Requests, ScanRequest(r)
       PROVE  TraceInv'
  <2>1. UNCHANGED <<log, stamps>>
    BY <1>12 DEF ScanRequest, ScanUpdateStatus, ScanItem, ReadForItemScan,
                 ScanCompleteOrder, BulkScanUpdate, ResetOrderScanStatus, orderRows
  <2>2. \E where \in {"mark", "commit", "resetItems"} : \E c : Start(r, where, c)
    BY <1>12 DEF ScanRequest, ScanUpdateStatus, ScanItem, ReadForItemScan,
                 ScanCompleteOrder, BulkScanUpdate, ResetOrderScanStatus
  <2>3. QED
    BY <1>1, <1>5, <1>8, <1>9, <2>1, <2>2
<1>13. ASSUME NEW r \in Requests, HandlerStep(r) \/ Abort(r)
       PROVE  TraceInv'
  <2> USE DEF Finish
  <2>1. CASE MarkItem(r) \/ ResetItems(r)
    BY <1>1, <1>5, <1>7, <1>9, <2>1 DEF MarkItem, ResetItems, orderRows
  <2>2. CASE MarkMissingItem(r) \/ WriteToDeletedOrder(r) \/ Abort(r)
    BY <1>1, <1>5, <1>6, <1>9, <2>2 DEF MarkMissingItem, WriteToDeletedOrder, Abort,
       orderRows
  <2>3. CASE TrackItemScan(r)
    <3>1. call[r].order \in Orders
      BY <2>3, ItemCallTypes DEF TrackItemScan, ItemSteps
    <3>2. Kept /\ TracedAfter(call[r].order, call[r].want)
      BY <2>3, <3>1, TrackKeepsTraces DEF TrackItemScan, Goto, Traced, TracedAfter
    <3>3. ScanIsTraced'
      BY <1>7, <2>3, <3>2 DEF TrackItemScan, Goto, Traced, TracedAfter
    <3>4. QED
      BY <1>1, <1>9, <2>3, <3>2, <3>3 DEF TrackItemScan, orderRows
  <2>4. CASE CheckCompletion(r)
    <3>1. TracedAfter(call[r].order, call[r].want) /\ Kept
      BY <1>5, <2>4 DEF CheckCompletion, ScanIsTraced, Traced, TracedAfter, Goto, Finish, Return
    <3>2. QED
      BY <1>1, <1>6, <1>7, <1>9, <2>4, <3>1 DEF CheckCompletion, orderRows, Traced, TracedAfter
  <2>5. CASE WriteAutoStatus(r)
    <3>1. call[r].order \in Orders /\ call[r].want \in Status
      BY <1>2, <2>5 DEF WriteAutoStatus
    <3>2. Kept /\ TracedAfter(call[r].order, call[r].want)
      BY <1>5, <2>5 DEF WriteAutoStatus, ScanIsTraced, Traced, TracedAfter, Goto
    <3>3. AutoStamps(call[r].want) \subseteq WholeOrderStamps(call[r].want)
      BY DEF WholeOrderStamps
    <3>4. StampIsTraced'
      BY <1>10, <2>5, <3>1, <3>2, <3>3 DEF WriteAutoStatus, Goto, Traced, TracedAfter
    <3>5. ScanIsTraced'
      BY <1>7, <2>5, <3>2 DEF WriteAutoStatus, Goto, Traced, TracedAfter
    <3>6. QED
      BY <1>1, <3>4, <3>5
  <2>6. CASE TrackAutoStatus(r)
    <3>1. call[r].order \in Orders
      BY <2>6, ItemCallTypes DEF TrackAutoStatus, ItemSteps
    <3>2. Kept
      BY <2>6, <3>1, TrackKeepsTraces DEF TrackAutoStatus
    <3>3. QED
      BY <1>1, <1>6, <1>9, <2>6, <3>2 DEF TrackAutoStatus, orderRows
  <2>7. CASE CommitCompleteOrder(r)
    <3> DEFINE o == call[r].order
               s == call[r].want
    <3>1. o \in Orders /\ s \in Status
      BY <2>7, OrderCallTypes DEF CommitCompleteOrder, OrderSteps
    <3>2. Track(o, "COMPLETE_ORDER_SCAN", s, call[r].snap, None)
      BY <2>7 DEF CommitCompleteOrder
    <3>3. Kept
      BY <3>1, <3>2, TrackKeepsTraces
    <3>4. TracedAfter(o, s)
      BY <3>1, <3>2, TrackKeepsTraces
    <3>5. StampIsTraced'
      BY <1>10, <2>7, <3>1, <3>3, <3>4 DEF CommitCompleteOrder, Traced, TracedAfter
    <3>6. QED
      BY <1>1, <1>6, <2>7, <3>3, <3>5 DEF CommitCompleteOrder
  <2>8. CASE TrackReset(r)
    <3>1. call[r].order \in Orders
      BY <2>8, OrderCallTypes DEF TrackReset, OrderSteps
    <3>2. Kept
      BY <2>8, <3>1, TrackKeepsTraces DEF TrackReset
    <3>3. QED
      BY <1>1, <1>6, <1>9, <2>8, <3>2 DEF TrackReset, orderRows
  <2>9. QED
    BY <1>13, <2>1, <2>2, <2>3, <2>4, <2>5, <2>6, <2>7, <2>8 DEF HandlerStep
<1>14. CASE UNCHANGED vars
  BY <1>1, <1>5, <1>6, <1>9, <1>14 DEF vars, handlers, orderRows
<1>15. QED
  BY <1>11, <1>12, <1>13, <1>14 DEF Next

\* A pickedAt, deliveredAt or cancelledAt always has a tracking event that
\* accounts for it, even when the handler that set it died right after.
THEOREM StampsAreTraced == Spec => []StampIsTraced
<1>1. TraceInv => StampIsTraced
  BY DEF TraceInv
<1>2. QED
  BY <1>1, InitTrace, NextTrace, PTL DEF Spec
-----------------------------------------------------------------------------
(* Completed scans.                                                        *)

\* Rounding is exact where it matters: n of n items are one hundred per cent.
LEMMA FullCountIsHundred == \A n \in Nat \ {0} : Round(100 * n, n) = 100
<1> SUFFICES ASSUME NEW n \in Nat \ {0} PROVE (201 * n) \div (2 * n) = 100
  BY DEF Round
<1>1. 201 * n = 100 * (2 * n) + n /\ 0 <= n /\ n < 2 * n
  OBVIOUS
<1>2. QED
  BY <1>1

\* The two counters and the percentage of getOrderCompletionStatus decide
\* exactly whether every row of the order is marked, in any order of any size.
THEOREM CompletionIsExact ==
  ASSUME TypeOK, NEW o \in Orders
  PROVE  Complete(o) <=> AllLinesScanned(o)
<1> DEFINE L == LinesOf(o)
           S == scanned[o] \cap L
<1>1. IsFiniteSet(L) /\ S \subseteq L
  BY OrderScanAssumption, FS_Subset DEF LinesOf
<1>2. /\ IsFiniteSet(S) /\ Cardinality(L) \in Nat /\ Cardinality(S) \in Nat
      /\ Cardinality(S) = Cardinality(L) <=> S = L
      /\ Cardinality(L) = 0 <=> L = {}
  BY <1>1, FS_Subset, FS_CardinalityType, FS_EmptySet
<1>3. ASSUME NEW n \in Nat PROVE canProgressStatus(n, n) <=> n # 0
  BY <1>3, FullCountIsHundred DEF canProgressStatus, completionPercentage
<1>4. Complete(o) <=> Cardinality(S) = Cardinality(L) /\ Cardinality(L) # 0
  BY <1>2, <1>3 DEF Complete, AllItemsScanned
<1>5. QED
  BY <1>2, <1>4 DEF AllLinesScanned

ForgottenInv == TypeOK /\ NoCompletedScanForgotten

LEMMA InitForgotten == Init => ForgottenInv
BY InitTypeOK DEF Init, ForgottenInv, NoCompletedScanForgotten, Owed

LEMMA NextForgotten == ForgottenInv /\ [Next]_vars => ForgottenInv'
<1> SUFFICES ASSUME ForgottenInv, [Next]_vars PROVE ForgottenInv'
  OBVIOUS
<1> USE DEF ForgottenInv
<1>1. TypeOK'
  BY NextTypeOK
\* It is enough that nothing becomes owed, and that whoever gives an obligation
\* up leaves nothing owed behind.
<1>2. ASSUME \A o \in Orders : Owed(o)' => Owed(o),
             \A o \in Orders, r \in Requests :
               Owed(o)' /\ WillProgress(r, o) => WillProgress(r, o)'
      PROVE  NoCompletedScanForgotten'
  BY <1>2 DEF NoCompletedScanForgotten
<1>3. ASSUME UNCHANGED <<pc, call>>
      PROVE  \A o \in Orders, r \in Requests : WillProgress(r, o) => WillProgress(r, o)'
  BY <1>3 DEF WillProgress
<1>4. ASSUME NEW r \in Requests,
             Return(r) \/ (\E where : Goto(r, where)) \/ (\E where, c : Start(r, where, c))
      PROVE  \A o \in Orders, q \in Requests \ {r} :
               WillProgress(q, o) => WillProgress(q, o)'
  BY <1>4 DEF WillProgress, Return, Goto, Start, TypeOK, HandlerTypes
<1>5. ASSUME UNCHANGED <<lines, scanned, deleted, unanswered, waived>>
      PROVE  \A o \in Orders : Owed(o)' => Owed(o)
  BY <1>5 DEF Owed, AllLinesScanned, LinesOf
<1>6. CASE OrderOperation
  <2>1. UNCHANGED <<pc, call>>
    BY <1>6 DEF OrderOperation, Create, Update, UpdateWithProducts, UpdateItemsInOrder,
                Delete, handlers
  <2>2. ASSUME NEW ls \in Contents, NEW s \in CreateStatuses, Create(ls, s)
        PROVE  \A o \in Orders : Owed(o)' => Owed(o)
    <3>1. /\ created + 1 \in Orders /\ ~Exists(created + 1)
          /\ scanned' = scanned /\ lines' = [lines EXCEPT ![created + 1] = ls]
          /\ UNCHANGED <<deleted, unanswered, waived>>
      BY <2>2, OrderScanAssumption DEF Create, Exists, Orders, TypeOK, RowTypes, history
    <3>2. scanned[created + 1] = {}
      BY <3>1 DEF TypeOK, MarksOnRows
    <3>3. QED
      BY <3>1, <3>2 DEF Owed, AllLinesScanned, LinesOf, TypeOK, RowTypes
  <2>3. ASSUME NEW p \in Orders, NEW s \in EditStatuses, Update(p, s)
        PROVE  \A o \in Orders : Owed(o)' => Owed(o)
    BY <1>5, <2>3 DEF Update, itemRows, history
  <2>4. ASSUME NEW p \in Orders, NEW ls \in Contents, NEW s \in Status,
               UpdateWithProducts(p, ls, s)
        PROVE  \A o \in Orders : Owed(o)' => Owed(o)
    BY <2>4 DEF UpdateWithProducts, ScannedAfterReplace, Owed, AllLinesScanned, LinesOf,
                TypeOK, RowTypes, history
  <2>5. ASSUME NEW p \in Orders, NEW l \in LineIds, NEW sku \in Skus,
               UpdateItemsInOrder(p, l, sku)
        PROVE  \A o \in Orders : Owed(o)' => Owed(o)
    <3>1. \A o \in Orders : LinesOf(o)' = LinesOf(o)
      BY <2>5, OrderScanAssumption DEF UpdateItemsInOrder, LinesOf, TypeOK, RowTypes
    <3>2. QED
      BY <2>5, <3>1 DEF UpdateItemsInOrder, Owed, AllLinesScanned, orderRows, history
  <2>6. ASSUME NEW p \in Orders, Delete(p)
        PROVE  \A o \in Orders : Owed(o)' => Owed(o)
    BY <2>6 DEF Delete, Owed, AllLinesScanned, LinesOf, itemRows, history
  <2>7. \A o \in Orders : Owed(o)' => Owed(o)
    BY <1>6, <2>2, <2>3, <2>4, <2>5, <2>6, OrderScanAssumption
    DEF OrderOperation, TypeOK, RowTypes
  <2>8. QED
    BY <1>1, <1>2, <1>3, <2>1, <2>7
<1>7. ASSUME NEW r \in Requests, ScanRequest(r)
      PROVE  ForgottenInv'
  <2>1. /\ pc[r] = "idle" /\ UNCHANGED <<orderRows, itemRows, log, history>>
        /\ \E where, c : Start(r, where, c)
    BY <1>7 DEF ScanRequest, ScanUpdateStatus, ScanItem, ReadForItemScan,
                ScanCompleteOrder, BulkScanUpdate, ResetOrderScanStatus, Start
  <2>2. \A o \in Orders : ~WillProgress(r, o)
    BY <2>1 DEF WillProgress
  <2>3. \A o \in Orders : Owed(o)' => Owed(o)
    BY <1>5, <2>1 DEF orderRows, itemRows, history
  <2>4. \A o \in Orders, q \in Requests : WillProgress(q, o) => WillProgress(q, o)'
    BY <1>4, <2>1, <2>2
  <2>5. QED
    BY <1>1, <1>2, <2>3, <2>4
<1>8. ASSUME NEW r \in Requests, HandlerStep(r) \/ Abort(r)
      PROVE  ForgottenInv'
  <2> USE DEF Finish
  \* r either goes on to write, or leaves nothing owed on the order it worked on.
  <2>1. ASSUME \A o \in Orders : Owed(o)' => Owed(o),
               Return(r) \/ (\E where : Goto(r, where)),
               \A o \in Orders : Owed(o)' /\ WillProgress(r, o) => WillProgress(r, o)'
        PROVE  ForgottenInv'
    <3>1. \A o \in Orders, q \in Requests :
            Owed(o)' /\ WillProgress(q, o) => WillProgress(q, o)'
      BY <1>4, <2>1
    <3>2. QED
      BY <1>1, <1>2, <2>1, <3>1
  <2>2. CASE MarkItem(r)
    <3> DEFINE p == call[r].order
    <3>1. p \in Orders /\ pc[r] = "mark"
      BY <2>2, ItemCallTypes DEF MarkItem, ItemSteps
    <3>2. \A o \in Orders : Owed(o)' => Owed(o) \/ o = p
      <4>1. /\ UNCHANGED <<lines, deleted>> /\ waived \subseteq waived'
            /\ unanswered' = unanswered \cup {p}
            /\ \A o \in Orders : o # p => scanned'[o] = scanned[o]
        BY <2>2, <3>1 DEF MarkItem, orderRows, TypeOK, RowTypes
      <4>2. QED
        BY <4>1 DEF Owed, AllLinesScanned, LinesOf
    <3>3. \A o \in Orders, q \in Requests : WillProgress(q, o) => WillProgress(q, o)'
      BY <1>4, <2>2, <3>1 DEF MarkItem, WillProgress
    <3>4. \A o \in Orders : o = p /\ Owed(o)' => WillProgress(r, o)'
      BY <2>2, <3>1 DEF MarkItem, Owed, Goto, WillProgress, TransitionAllowed, TypeOK,
                        HandlerTypes
    <3>5. QED
      BY <1>1, <3>2, <3>3, <3>4 DEF NoCompletedScanForgotten
  <2>3. CASE MarkMissingItem(r)
    BY <1>5, <2>1, <2>3 DEF MarkMissingItem, WillProgress, orderRows, itemRows, history
  <2>4. CASE TrackItemScan(r)
    <3>1. \A o \in Orders : WillProgress(r, o) => WillProgress(r, o)'
      BY <2>4 DEF TrackItemScan, WillProgress, Goto, TypeOK, HandlerTypes
    <3>2. QED
      BY <1>5, <2>1, <2>4, <3>1 DEF TrackItemScan, orderRows, itemRows, history
  <2>5. CASE CheckCompletion(r)
    <3>1. \A o \in Orders : Owed(o)' => Owed(o)
      BY <1>5, <2>5 DEF CheckCompletion, orderRows, itemRows, history
    <3>2. CASE Progresses(r)
      <4>1. \A o \in Orders : WillProgress(r, o) => WillProgress(r, o)'
        BY <2>5, <3>2 DEF CheckCompletion, WillProgress, Goto, TypeOK, HandlerTypes
      <4>2. QED
        BY <2>1, <2>5, <3>1, <3>2, <4>1 DEF CheckCompletion
    <3>3. CASE ~Progresses(r)
      <4>1. \A o \in Orders : WillProgress(r, o) => ~Owed(o)
        BY <3>3, CompletionIsExact DEF WillProgress, Progresses, TransitionAllowed, Owed
      <4>2. QED
        BY <2>1, <2>5, <3>1, <3>3, <4>1 DEF CheckCompletion
    <3>4. QED
      BY <3>2, <3>3
  <2>6. CASE WriteAutoStatus(r)
    <3>1. \A o \in Orders : Owed(o)' => Owed(o) /\ o # call[r].order
      BY <2>6 DEF WriteAutoStatus, WriteStatus, Owed, AllLinesScanned, LinesOf, itemRows
    <3>2. QED
      BY <2>1, <2>6, <3>1 DEF WriteAutoStatus, WillProgress
  <2>7. CASE WriteToDeletedOrder(r)
    <3>1. \A o \in Orders : Owed(o)' => Owed(o)
      BY <1>5, <2>7 DEF WriteToDeletedOrder, orderRows, itemRows, history
    <3>2. \A o \in Orders : WillProgress(r, o) => ~Owed(o)
      BY <2>7 DEF WriteToDeletedOrder, WillProgress, Owed
    <3>3. QED
      BY <2>1, <2>7, <3>1, <3>2 DEF WriteToDeletedOrder
  <2>8. CASE TrackAutoStatus(r)
    BY <1>5, <2>1, <2>8 DEF TrackAutoStatus, WillProgress, orderRows, itemRows, history
  <2>9. CASE CommitCompleteOrder(r)
    <3>1. call[r].order \in Orders
      BY <2>9, OrderCallTypes DEF CommitCompleteOrder, OrderSteps
    <3>2. \A o \in Orders : Owed(o)' => Owed(o)
      BY <2>9, <3>1 DEF CommitCompleteOrder, WriteStatus, Owed, AllLinesScanned, LinesOf,
                        TypeOK, RowTypes
    <3>3. QED
      BY <2>1, <2>9, <3>2 DEF CommitCompleteOrder, WillProgress
  <2>10. CASE ResetItems(r)
    <3>1. call[r].order \in Orders
      BY <2>10, OrderCallTypes DEF ResetItems, OrderSteps
    <3>2. \A o \in Orders : Owed(o)' => Owed(o)
      BY <2>10, <3>1 DEF ResetItems, Owed, AllLinesScanned, LinesOf, orderRows, history,
                         TypeOK, RowTypes
    <3>3. QED
      BY <2>1, <2>10, <3>2 DEF ResetItems, WillProgress
  <2>11. CASE TrackReset(r)
    BY <1>5, <2>1, <2>11 DEF TrackReset, WillProgress, orderRows, itemRows, history
  <2>12. CASE Abort(r)
    <3>1. \A o \in Orders : Owed(o)' => Owed(o) /\ o # call[r].order
      BY <2>12 DEF Abort, Owed, AllLinesScanned, LinesOf, orderRows, itemRows
    <3>2. QED
      BY <2>1, <2>12, <3>1 DEF Abort, WillProgress
  <2>13. QED
    BY <1>8, <2>2, <2>3, <2>4, <2>5, <2>6, <2>7, <2>8, <2>9, <2>10, <2>11, <2>12
    DEF HandlerStep
<1>9. CASE UNCHANGED vars
  BY <1>1, <1>2, <1>3, <1>5, <1>9 DEF vars, orderRows, itemRows, handlers, history
<1>10. QED
  BY <1>6, <1>7, <1>8, <1>9 DEF Next

\* Any number of scanners may work on the items of one order: they never all
\* conclude that somebody else will move it.
THEOREM CompletedScansAreCarriedOn == Spec => []NoCompletedScanForgotten
<1>1. ForgottenInv => NoCompletedScanForgotten
  BY DEF ForgottenInv
<1>2. QED
  BY <1>1, InitForgotten, NextForgotten, PTL DEF Spec
-----------------------------------------------------------------------------
(* The moves a log tells of.  The k-th entry is found by counting, and that  *)
(* it is there is kept from step to step.                                    *)

LEMMA NthGrows ==
  ASSUME NEW n \in Nat, NEW S \in SUBSET (1..n)
  PROVE  /\ Cardinality(S) \in Nat
         /\ Cardinality(S \cup {n + 1}) = Cardinality(S) + 1
         /\ \A k \in 1..Cardinality(S) : Nth(S \cup {n + 1}, k) = Nth(S, k)
         /\ Nth(S \cup {n + 1}, Cardinality(S) + 1) = n + 1
<1> DEFINE T == S \cup {n + 1}
           UpTo(A, x) == {y \in A : y <= x}
           At(A, k) == {x \in A : Cardinality(UpTo(A, x)) = k}
<1>1. IsFiniteSet(S) /\ n + 1 \notin S
  <2>1. IsFiniteSet(1..n)
    BY FS_Interval
  <2>2. IsFiniteSet(S)
    BY <2>1, FS_Subset
  <2>3. n + 1 \notin S
    OBVIOUS
  <2>4. QED
    BY <2>2, <2>3
<1>2. Cardinality(S) \in Nat /\ Cardinality(T) = Cardinality(S) + 1
  BY <1>1, FS_CardinalityType, FS_AddElement
<1>3. \A x \in S : UpTo(T, x) = UpTo(S, x) /\ Cardinality(UpTo(S, x)) <= Cardinality(S)
  <2>1. ASSUME NEW x \in S PROVE UpTo(T, x) = UpTo(S, x)
    OBVIOUS
  <2>2. ASSUME NEW x \in S PROVE Cardinality(UpTo(S, x)) <= Cardinality(S)
    BY <1>1, FS_Subset
  <2>3. QED
    BY <2>1, <2>2
<1>4. UpTo(T, n + 1) = T
  <2>1. \A y \in T : y <= n + 1
    OBVIOUS
  <2>2. QED
    BY <2>1
<1> HIDE DEF UpTo
<1>5. \A k \in 1..Cardinality(S) : At(T, k) = At(S, k)
  <2>1. ASSUME NEW k \in 1..Cardinality(S) PROVE At(T, k) = At(S, k)
    <3>1. Cardinality(UpTo(T, n + 1)) # k
      BY <1>2, <1>4
    <3>2. \A x \in S : Cardinality(UpTo(T, x)) = Cardinality(UpTo(S, x))
      BY <1>3
    <3>3. QED
      BY <3>1, <3>2
  <2>2. QED
    BY <2>1
<1>6. At(T, Cardinality(S) + 1) = {n + 1}
  <2>1. \A x \in S : Cardinality(UpTo(T, x)) # Cardinality(S) + 1
    <3>1. \A x \in S : Cardinality(UpTo(S, x)) \in Int
      <4>1. ASSUME NEW x \in S PROVE Cardinality(UpTo(S, x)) \in Int
        BY <1>1, FS_Subset, FS_CardinalityType DEF UpTo
      <4>2. QED
        BY <4>1
    <3>2. QED
      BY <1>2, <1>3, <3>1
  <2>2. QED
    BY <1>2, <1>4, <2>1
<1>7. \A A, k : Nth(A, k) = CHOOSE i \in At(A, k) : TRUE
  BY DEF Nth, UpTo
<1> HIDE DEF At, T
<1>8. \A k \in 1..Cardinality(S) : Nth(T, k) = Nth(S, k)
  BY <1>5, <1>7
<1>9. Nth(T, Cardinality(S) + 1) = n + 1
  BY <1>6, <1>7
<1>10. QED
  BY <1>2, <1>8, <1>9 DEF T

\* There is a k-th entry for each k up to their number.
Counted(es) ==
  \A k \in 1..Cardinality(StatusEntries(es)) :
    Nth(StatusEntries(es), k) \in StatusEntries(es)

EntryMove == [from : Status, to : Status]

LEMMA EntriesAreFinite ==
  ASSUME NEW es \in Seq(Event)
  PROVE  /\ StatusEntries(es) \subseteq 1..Len(es)
         /\ Len(es) \in Nat /\ DOMAIN es = 1..Len(es)
         /\ Cardinality(StatusEntries(es)) \in Nat
<1>1. Len(es) \in Nat /\ DOMAIN es = 1..Len(es)
  OBVIOUS
<1>2. StatusEntries(es) \subseteq 1..Len(es)
  BY <1>1 DEF StatusEntries
<1>3. IsFiniteSet(1..Len(es))
  BY <1>1, FS_Interval
<1>4. QED
  BY <1>1, <1>2, <1>3, FS_Subset, FS_CardinalityType

LEMMA MovesAreMoves ==
  ASSUME NEW es \in Seq(Event), Counted(es)
  PROVE  Moves(es) \in Seq(EntryMove) /\ Len(Moves(es)) = Cardinality(StatusEntries(es))
<1>1. Cardinality(StatusEntries(es)) \in Nat
  BY EntriesAreFinite
<1>2. ASSUME NEW k \in 1..Cardinality(StatusEntries(es))
      PROVE  Moves(es)[k] \in EntryMove
  <2>1. es[Nth(StatusEntries(es), k)] \in Event
    BY EntriesAreFinite DEF Counted
  <2>2. QED
    BY <2>1 DEF Moves, Event, EntryMove
<1>3. DOMAIN Moves(es) = 1..Cardinality(StatusEntries(es))
  BY DEF Moves
<1>4. Moves(es) = [k \in 1..Cardinality(StatusEntries(es)) |-> Moves(es)[k]]
  BY DEF Moves
<1>5. QED
  BY <1>1, <1>2, <1>3, <1>4

\* An event that tells of no move.
LEMMA MovesStay ==
  ASSUME NEW es \in Seq(Event), Counted(es), NEW e \in Event, e.type \notin StatusEvents
  PROVE  Moves(Append(es, e)) = Moves(es) /\ Counted(Append(es, e))
<1>1. \A i \in 1..Len(es) : Append(es, e)[i] = es[i]
  OBVIOUS
<1>2. StatusEntries(Append(es, e)) = StatusEntries(es)
  BY <1>1, EntriesAreFinite DEF StatusEntries
<1>3. \A k \in 1..Cardinality(StatusEntries(es)) :
        Append(es, e)[Nth(StatusEntries(es), k)] = es[Nth(StatusEntries(es), k)]
  BY <1>1, EntriesAreFinite DEF Counted
<1>4. Counted(Append(es, e))
  BY <1>2 DEF Counted
<1>5. QED
  BY <1>2, <1>3, <1>4 DEF Moves

\* One that does adds its move at the end.
LEMMA MovesGrow ==
  ASSUME NEW es \in Seq(Event), Counted(es), NEW e \in Event, e.type \in StatusEvents
  PROVE  /\ Moves(Append(es, e)) = Append(Moves(es), [from |-> e.prev, to |-> e.status])
         /\ Counted(Append(es, e))
<1> DEFINE n == Len(es)
           S == StatusEntries(es)
           T == S \cup {n + 1}
           c == Cardinality(S)
           fs == Append(es, e)
           m == [from |-> e.prev, to |-> e.status]
<1>1. n \in Nat /\ S \subseteq 1..n /\ DOMAIN es = 1..n /\ c \in Nat
  BY EntriesAreFinite
<1>2. DOMAIN fs = 1..(n + 1) /\ fs[n + 1] = e /\ \A i \in 1..n : fs[i] = es[i]
  OBVIOUS
<1>3. StatusEntries(fs) = T
  BY <1>1, <1>2 DEF StatusEntries
<1>4. /\ Cardinality(T) = c + 1
      /\ \A k \in 1..c : Nth(T, k) = Nth(S, k)
      /\ Nth(T, c + 1) = n + 1
  BY <1>1, NthGrows
<1>5. \A k \in 1..c : Nth(S, k) \in S
  BY DEF Counted
<1>6. Moves(es) \in Seq(EntryMove) /\ Len(Moves(es)) = c
  BY MovesAreMoves
<1>7. m \in EntryMove
  BY DEF Event, EntryMove
<1>8. /\ DOMAIN Append(Moves(es), m) = 1..(c + 1)
      /\ Append(Moves(es), m)[c + 1] = m
      /\ \A k \in 1..c : Append(Moves(es), m)[k] = Moves(es)[k]
      /\ Append(Moves(es), m) \in Seq(EntryMove)
  BY <1>1, <1>6, <1>7
<1> HIDE DEF n, S, T, c, fs, m
<1>9. Moves(fs) = [k \in 1..(c + 1) |->
                     [from |-> fs[Nth(T, k)].prev, to |-> fs[Nth(T, k)].status]]
  BY <1>3, <1>4 DEF Moves
<1>10. ASSUME NEW k \in 1..(c + 1) PROVE Moves(fs)[k] = Append(Moves(es), m)[k]
  <2>1. CASE k = c + 1
    BY <1>2, <1>4, <1>8, <1>9, <2>1 DEF m
  <2>2. CASE k # c + 1
    <3>1. k \in 1..c
      BY <1>1, <2>2
    <3>2. fs[Nth(T, k)] = es[Nth(S, k)]
      BY <1>1, <1>2, <1>4, <1>5, <3>1
    <3>3. Moves(es)[k] = [from |-> es[Nth(S, k)].prev, to |-> es[Nth(S, k)].status]
      BY <3>1 DEF Moves, S, c
    <3>4. QED
      BY <1>8, <1>9, <3>1, <3>2, <3>3
  <2>3. QED
    BY <2>1, <2>2
<1>11. Counted(fs)
  <2>1. ASSUME NEW k \in 1..(c + 1) PROVE Nth(T, k) \in T
    <3>1. CASE k = c + 1
      BY <1>4, <3>1 DEF T
    <3>2. CASE k # c + 1
      <4>1. k \in 1..c
        BY <1>1, <3>2
      <4>2. QED
        BY <1>4, <1>5, <4>1 DEF T
    <3>3. QED
      BY <3>1, <3>2
  <2>2. QED
    BY <1>3, <1>4, <2>1 DEF Counted
<1>12. Moves(fs) = Append(Moves(es), m)
  <2>1. fs \in Seq(Event)
    BY DEF fs
  <2>2. Moves(fs) \in Seq(EntryMove) /\ Len(Moves(fs)) = c + 1
    BY <1>3, <1>4, <1>11, <2>1, MovesAreMoves
  <2>3. Len(Append(Moves(es), m)) = c + 1
    BY <1>6, <1>7
  <2>4. QED
    BY <1>8, <1>10, <2>2, <2>3, SeqEqual
<1>13. QED
  BY <1>11, <1>12 DEF fs, m

-----------------------------------------------------------------------------
(* Any number of handlers implement the life cycle, step by step.           *)

\* A handler on its way to write a status asked the table about it, unless it
\* is a batch.
CheckedBeforeWrite ==
  \A r \in Requests :
    pc[r] \in {"write", "commit"} /\ call[r].op # "bulkScanUpdate" =>
      call[r].want \in VALID_STATUS_TRANSITIONS[call[r].snap]

\* Until it writes, and unless it is overtaken, the status a handler has read is
\* the one the order has.
SnapshotHolds ==
  \A r \in Requests :
    pc[r] \in Deciding /\ r \notin overtaken => call[r].snap = status[call[r].order]

OvertakenDecide == \A r \in overtaken : pc[r] \in Deciding

LogsCounted == \A o \in Orders : Counted(log[o])

LifeInv ==
  TypeOK /\ CheckedBeforeWrite /\ SnapshotHolds /\ OvertakenDecide /\ LogsCounted

LEMMA SameStatuses ==
  /\ Lifecycle!Status = Status
  /\ Lifecycle!VALID_STATUS_TRANSITIONS = VALID_STATUS_TRANSITIONS
BY DEF Lifecycle!Status, Status, Lifecycle!VALID_STATUS_TRANSITIONS, VALID_STATUS_TRANSITIONS

LEMMA SameNoJob == Lifecycle!NoJob = [kind |-> "none"]
BY DEF Lifecycle!NoJob

LEMMA InitLife == Init => LifeInv /\ Lifecycle!Init
<1> SUFFICES ASSUME Init PROVE LifeInv /\ Lifecycle!Init
  OBVIOUS
<1>1. StatusEntries(<<>>) = {}
  BY DEF StatusEntries
<1>2. Cardinality(StatusEntries(<<>>)) = 0
  BY <1>1, FS_EmptySet
<1>3. Counted(<<>>) /\ Moves(<<>>) = <<>>
  BY <1>2 DEF Counted, Moves
<1>4. LifeInv
  BY <1>3, InitTypeOK
  DEF Init, LifeInv, CheckedBeforeWrite, SnapshotHolds, OvertakenDecide, LogsCounted, Deciding,
      ItemSteps
<1>5. Lifecycle!Init
  <2>1. Trail = [o \in Orders |-> <<>>]
    BY <1>3 DEF Init, Trail
  <2>2. 1..created = {}
    BY DEF Init
  <2>3. status \in [Orders -> Lifecycle!Status]
    BY SameStatuses DEF Init, DefaultStatus, Status
  <2>4. Jobs = [r \in Requests |-> Lifecycle!NoJob]
    BY SameNoJob DEF Init, Jobs, JobOf, ItemSteps
  <2>5. Moved = {}
    BY DEF Init, Moved
  <2>6. QED
    BY <2>1, <2>2, <2>3, <2>4, <2>5 DEF Init, Lifecycle!Init
<1>6. QED
  BY <1>4, <1>5

\* What a handler between two steps knows of its order.
LEMMA BusyCall ==
  ASSUME TypeOK, NEW r \in Requests, pc[r] # "idle"
  PROVE  /\ call[r].order \in Orders /\ call[r].order \in 1..created
         /\ call[r].snap \in Status /\ call[r].want \in Status
         /\ pc[r] \in ItemSteps => call[r].op # "bulkScanUpdate" /\ call[r].line \in LineIds
<1>1. pc[r] \in ItemSteps \cup OrderSteps
  BY DEF TypeOK, HandlerTypes, PC
<1>2. /\ call[r].order \in Orders /\ Exists(call[r].order)
      /\ call[r].snap \in Status /\ call[r].want \in Status
      /\ pc[r] \in ItemSteps => call[r] \in ItemCall /\ call[r].line \in LineIds
  BY <1>1, ItemCallTypes, OrderCallTypes
<1>3. call[r].order \in 1..created
  BY <1>2, OrderScanAssumption DEF Exists, Orders, TypeOK, RowTypes
<1>4. pc[r] \in ItemSteps => call[r].op # "bulkScanUpdate"
  BY <1>2 DEF ItemCall
<1>5. QED
  BY <1>2, <1>3, <1>4

\* The handlers that decide about an order are the scanners that do.
LEMMA SameDeciding ==
  ASSUME NEW o
  PROVE  Lifecycle!Deciding(o) = {r \in Requests : pc[r] \in Deciding /\ call[r].order = o}
<1>1. ASSUME NEW r \in Requests
      PROVE  (Jobs[r] # Lifecycle!NoJob /\ Jobs[r].order = o /\ r \notin Moved)
               <=> (pc[r] \in Deciding /\ call[r].order = o)
  <2>1. CASE pc[r] \in ItemSteps \cup {"commit"}
    BY <2>1, SameNoJob DEF Jobs, JobOf, Moved, Deciding
  <2>2. CASE pc[r] \notin ItemSteps \cup {"commit"}
    BY <2>2, SameNoJob DEF Jobs, JobOf, Deciding
  <2>3. QED
    BY <2>1, <2>2
<1>2. QED
  BY <1>1 DEF Lifecycle!Deciding

\* An event a handler creates, which may tell of a move.
LEMMA TrackOfMove ==
  ASSUME TypeOK, LogsCounted, NEW o \in Orders,
         NEW type \in EventTypes, NEW s \in Status, NEW prev \in Status,
         NEW line \in LineIds \cup {None}, Track(o, type, s, prev, line)
  PROVE  /\ LogsCounted'
         /\ Trail' = IF type \in StatusEvents
                     THEN [Trail EXCEPT ![o] = Append(@, [from |-> prev, to |-> s])]
                     ELSE Trail
<1> DEFINE m == [from |-> prev, to |-> s]
<1>1. PICK e \in Event : e = [type |-> type, status |-> s, prev |-> prev, line |-> line]
  BY DEF Event
<1>2. log \in [Orders -> Seq(Event)] /\ log' = [log EXCEPT ![o] = Append(@, e)]
  BY <1>1 DEF Track, TypeOK, RowTypes
<1>3. log'[o] = Append(log[o], e) /\ \A p \in Orders \ {o} : log'[p] = log[p]
  BY <1>2
<1>4. log[o] \in Seq(Event) /\ Counted(log[o])
  BY <1>2 DEF LogsCounted
<1>5. Counted(log'[o]) /\ Moves(log'[o]) = IF type \in StatusEvents
                                           THEN Append(Moves(log[o]), m) ELSE Moves(log[o])
  <2>1. CASE type \in StatusEvents
    <3>1. e.type \in StatusEvents /\ e.prev = prev /\ e.status = s
      BY <1>1, <2>1
    <3>2. /\ Moves(Append(log[o], e)) = Append(Moves(log[o]), [from |-> e.prev, to |-> e.status])
          /\ Counted(Append(log[o], e))
      BY <1>4, <3>1, MovesGrow
    <3>3. QED
      BY <1>3, <2>1, <3>1, <3>2
  <2>2. CASE type \notin StatusEvents
    <3>1. e.type \notin StatusEvents
      BY <1>1, <2>2
    <3>2. Moves(Append(log[o], e)) = Moves(log[o]) /\ Counted(Append(log[o], e))
      BY <1>4, <3>1, MovesStay
    <3>3. QED
      BY <1>3, <2>2, <3>2
  <2>3. QED
    BY <2>1, <2>2
<1>6. LogsCounted'
  BY <1>3, <1>5 DEF LogsCounted
<1>7. ASSUME NEW p \in Orders
      PROVE  Moves(log'[p]) = IF p = o /\ type \in StatusEvents
                              THEN Append(Moves(log[p]), m) ELSE Moves(log[p])
  BY <1>3, <1>5
<1>8. QED
  BY <1>6, <1>7 DEF Trail

\* Only the job of the handler that takes a step changes.
OnlyHandler(r) ==
  /\ pc' = [pc EXCEPT ![r] = pc'[r]]
  /\ call' = [call EXCEPT ![r] = call'[r]]

LEMMA HandlerFields ==
  ASSUME TypeOK, NEW r \in Requests
  PROVE  /\ \A where : Goto(r, where) => OnlyHandler(r) /\ pc'[r] = where /\ call'[r] = call[r]
         /\ Return(r) => OnlyHandler(r) /\ pc'[r] = "idle"
         /\ \A where, c : Start(r, where, c) =>
              /\ OnlyHandler(r) /\ pc[r] = "idle" /\ pc'[r] = where /\ call'[r] = c
              /\ UNCHANGED overtaken
BY DEF Goto, Return, Start, OnlyHandler, TypeOK, HandlerTypes

LEMMA JobChange ==
  ASSUME TypeOK, NEW r \in Requests, OnlyHandler(r)
  PROVE  /\ Jobs' = [Jobs EXCEPT ![r] = JobOf(r)']
         /\ Moved' = IF pc'[r] = "trackStatus" THEN Moved \cup {r} ELSE Moved \ {r}
<1>1. ASSUME NEW q \in Requests, q # r
      PROVE  pc'[q] = pc[q] /\ call'[q] = call[q]
  BY <1>1 DEF OnlyHandler, TypeOK, HandlerTypes
<1>2. ASSUME NEW q \in Requests, q # r
      PROVE  JobOf(q)' = JobOf(q)
  BY <1>1, <1>2 DEF JobOf
<1>3. Moved' = IF pc'[r] = "trackStatus" THEN Moved \cup {r} ELSE Moved \ {r}
  BY <1>1 DEF Moved
<1>4. QED
  BY <1>2, <1>3 DEF Jobs

\* A step of a handler that writes no status.
LEMMA QuietStep ==
  ASSUME LifeInv, NEW r \in Requests, OnlyHandler(r), UNCHANGED status,
         \/ overtaken' = overtaken /\ (pc[r] \in Deciding => pc'[r] \in Deciding)
         \/ overtaken' = overtaken \ {r} /\ pc'[r] \notin Deciding,
         pc'[r] \in Deciding =>
           \/ pc[r] \in Deciding /\ call'[r] = call[r]
           \/ call'[r].snap = status[call'[r].order],
         pc'[r] \in {"write", "commit"} /\ call'[r].op # "bulkScanUpdate" =>
           call'[r].want \in VALID_STATUS_TRANSITIONS[call'[r].snap]
  PROVE  CheckedBeforeWrite' /\ SnapshotHolds' /\ OvertakenDecide'
<1>1. ASSUME NEW q \in Requests, q # r
      PROVE  pc'[q] = pc[q] /\ call'[q] = call[q]
  BY <1>1 DEF OnlyHandler, LifeInv, TypeOK, HandlerTypes
<1>2. CheckedBeforeWrite'
  BY <1>1 DEF LifeInv, CheckedBeforeWrite
<1>3. SnapshotHolds'
  BY <1>1 DEF LifeInv, SnapshotHolds
<1>4. OvertakenDecide'
  BY <1>1 DEF LifeInv, OvertakenDecide, TypeOK
<1>5. QED
  BY <1>2, <1>3, <1>4

\* A step that writes a status overtakes all who have read another one.
LEMMA WritingStep ==
  ASSUME LifeInv, NEW o \in Orders, NEW s, status' = [status EXCEPT ![o] = s],
         \/ UNCHANGED <<pc, call>> /\ overtaken' = Overtaken(o)
         \/ \E r \in Requests : /\ OnlyHandler(r) /\ overtaken' = Overtaken(o) \ {r}
                                /\ pc'[r] \notin Deciding
  PROVE  CheckedBeforeWrite' /\ SnapshotHolds' /\ OvertakenDecide'
<1>1. PICK R \in SUBSET Requests :
        /\ overtaken' = Overtaken(o) \ R
        /\ \A r \in R : pc'[r] \notin Deciding
        /\ \A q \in Requests \ R : pc'[q] = pc[q] /\ call'[q] = call[q]
  <2>1. CASE UNCHANGED <<pc, call>> /\ overtaken' = Overtaken(o)
    <3> WITNESS {} \in SUBSET Requests
    <3>1. QED
      BY <2>1
  <2>2. ASSUME NEW r \in Requests, OnlyHandler(r), overtaken' = Overtaken(o) \ {r},
               pc'[r] \notin Deciding
        PROVE  \E R \in SUBSET Requests :
                 /\ overtaken' = Overtaken(o) \ R
                 /\ \A q \in R : pc'[q] \notin Deciding
                 /\ \A q \in Requests \ R : pc'[q] = pc[q] /\ call'[q] = call[q]
    <3>1. {r} \in SUBSET Requests
      OBVIOUS
    <3>2. \A q \in Requests \ {r} : pc'[q] = pc[q] /\ call'[q] = call[q]
      BY <2>2 DEF OnlyHandler, LifeInv, TypeOK, HandlerTypes
    <3> WITNESS {r} \in SUBSET Requests
    <3>3. QED
      BY <2>2, <3>2
  <2>3. QED
    BY <2>1, <2>2
<1>2. CheckedBeforeWrite'
  BY <1>1 DEF LifeInv, CheckedBeforeWrite, Deciding, ItemSteps
<1>3. SnapshotHolds'
  <2>1. ASSUME NEW q \in Requests, pc'[q] \in Deciding, q \notin overtaken'
        PROVE  call'[q].snap = status'[call'[q].order]
    <3>1. pc'[q] = pc[q] /\ call'[q] = call[q] /\ q \notin Overtaken(o)
      BY <1>1, <2>1
    <3>2. q \notin overtaken /\ call[q].order # o
      BY <2>1, <3>1 DEF Overtaken
    <3>3. status \in [Orders -> Status] /\ call[q].order \in Orders
      BY <2>1, <3>1, BusyCall DEF LifeInv, TypeOK, RowTypes, Deciding, ItemSteps
    <3>4. QED
      BY <2>1, <3>1, <3>2, <3>3 DEF LifeInv, SnapshotHolds
  <2>2. QED
    BY <2>1 DEF SnapshotHolds
<1>4. OvertakenDecide'
  <2>1. \A q \in Overtaken(o) : q \in Requests /\ pc[q] \in Deciding
    BY DEF LifeInv, TypeOK, OvertakenDecide, Overtaken
  <2>2. QED
    BY <1>1, <2>1 DEF OvertakenDecide
<1>5. QED
  BY <1>2, <1>3, <1>4

\* What is left to show of a step.
Carried == LifeInv' /\ [Lifecycle!Next]_(Lifecycle!vars)

\* Orders are opened, edited and deleted beside the handlers.
LEMMA CreateCarries ==
  ASSUME LifeInv, TypeOK', NEW ls, NEW s \in Status, Create(ls, s)
  PROVE  Carried
<1> DEFINE o == created + 1
<1>1. created \in Nat /\ o \in Orders /\ status \in [Orders -> Status]
  BY OrderScanAssumption DEF Create, LifeInv, TypeOK, RowTypes, Orders
<1>2. /\ created' = o /\ status' = [status EXCEPT ![o] = s]
      /\ UNCHANGED <<log, pc, call, overtaken>>
  BY DEF Create, handlers
<1>3. SnapshotHolds'
  <2>1. ASSUME NEW q \in Requests, pc[q] \in Deciding
        PROVE  status'[call[q].order] = status[call[q].order]
    <3>1. call[q].order \in Orders /\ call[q].order \in 1..created
      BY <2>1, BusyCall DEF LifeInv, Deciding, ItemSteps
    <3>2. call[q].order # o
      BY <1>1, <3>1
    <3>3. QED
      BY <1>1, <1>2, <3>1, <3>2
  <2>2. QED
    BY <1>2, <2>1 DEF LifeInv, SnapshotHolds
<1>4. LifeInv'
  BY <1>2, <1>3 DEF LifeInv, CheckedBeforeWrite, OvertakenDecide, LogsCounted
<1>5. Trail' = Trail /\ Jobs' = Jobs /\ Moved' = Moved
  BY <1>2 DEF Trail, Jobs, JobOf, Moved
<1>6. o \notin 1..created /\ (1..created)' = 1..created \cup {o}
  BY <1>1, <1>2
<1>7. Lifecycle!Open(o, s)
  BY <1>2, <1>5, <1>6 DEF Lifecycle!Open
<1>8. QED
  BY <1>1, <1>4, <1>7, SameStatuses DEF Carried, Lifecycle!Next

LEMMA EditCarries ==
  ASSUME LifeInv, TypeOK', NEW o \in Orders, Exists(o), NEW s \in Status,
         status' = [status EXCEPT ![o] = s], overtaken' = Overtaken(o),
         UNCHANGED <<created, log, pc, call>>
  PROVE  Carried
<1>1. CheckedBeforeWrite' /\ SnapshotHolds' /\ OvertakenDecide'
  BY WritingStep
<1>2. LifeInv'
  BY <1>1 DEF LifeInv, LogsCounted
<1>3. Trail' = Trail /\ Jobs' = Jobs /\ Moved' = Moved
  BY DEF Trail, Jobs, JobOf, Moved
<1>4. o \in 1..created /\ (1..created)' = 1..created
  BY OrderScanAssumption DEF Exists, Orders, LifeInv, TypeOK, RowTypes
<1>5. overtaken' = overtaken \cup Lifecycle!Deciding(o)
  BY SameDeciding DEF Overtaken
<1>6. Lifecycle!Override(o, s)
  BY <1>3, <1>4, <1>5 DEF Lifecycle!Override
<1>7. QED
  BY <1>2, <1>6, SameStatuses DEF Carried, Lifecycle!Next

LEMMA AsideCarries ==
  ASSUME LifeInv, TypeOK', UNCHANGED <<created, status, log, pc, call, overtaken>>
  PROVE  Carried
<1>1. LifeInv'
  BY DEF LifeInv, CheckedBeforeWrite, SnapshotHolds, OvertakenDecide, LogsCounted
<1>2. UNCHANGED Lifecycle!vars
  BY DEF Lifecycle!vars, Trail, Jobs, JobOf, Moved
<1>3. QED
  BY <1>1, <1>2 DEF Carried

\* A step of a handler the life cycle does not see.
LEMMA UnseenCarries ==
  ASSUME LifeInv, TypeOK', NEW r \in Requests, OnlyHandler(r),
         CheckedBeforeWrite', SnapshotHolds', OvertakenDecide', LogsCounted',
         UNCHANGED <<created, status, overtaken>>, Trail' = Trail, JobOf(r)' = JobOf(r),
         pc[r] # "trackStatus", pc'[r] # "trackStatus"
  PROVE  Carried
<1>1. Jobs' = Jobs /\ Moved' = Moved
  BY JobChange DEF Jobs, Moved, LifeInv
<1>2. UNCHANGED Lifecycle!vars
  BY <1>1 DEF Lifecycle!vars
<1>3. QED
  BY <1>2 DEF Carried, LifeInv

LEMMA LookCarries ==
  ASSUME LifeInv, TypeOK', NEW r \in Requests, ScanRequest(r)
  PROVE  Carried
<1>1. PICK where, c :
        /\ where \in {"mark", "commit", "resetItems"}
        /\ Start(r, where, c) /\ c.snap = status[c.order]
        /\ UNCHANGED <<created, status, log>>
        /\ where = "commit" /\ c.op # "bulkScanUpdate" =>
             c.want \in VALID_STATUS_TRANSITIONS[c.snap]
  <2>1. ASSUME NEW op \in {"scanUpdateStatus", "scanItem"}, NEW o, NEW sku, NEW want,
               ReadForItemScan(r, op, o, sku, want)
        PROVE  \E c : Start(r, "mark", c) /\ c.snap = status[c.order]
                      /\ UNCHANGED <<created, status, log>>
    BY <2>1 DEF ReadForItemScan, orderRows
  <2>2. ASSUME NEW o, NEW want, ScanCompleteOrder(r, o, want)
        PROVE  \E c : Start(r, "commit", c) /\ c.snap = status[c.order]
                      /\ UNCHANGED <<created, status, log>>
                      /\ c.want \in VALID_STATUS_TRANSITIONS[c.snap]
    BY <2>2 DEF ScanCompleteOrder, TransitionAllowed, orderRows
  <2>3. ASSUME NEW o, NEW want, BulkScanUpdate(r, o, want)
        PROVE  \E c : Start(r, "commit", c) /\ c.snap = status[c.order]
                      /\ UNCHANGED <<created, status, log>> /\ c.op = "bulkScanUpdate"
    BY <2>3 DEF BulkScanUpdate, orderRows
  <2>4. ASSUME NEW o, ResetOrderScanStatus(r, o)
        PROVE  \E c : Start(r, "resetItems", c) /\ c.snap = status[c.order]
                      /\ UNCHANGED <<created, status, log>>
    BY <2>4 DEF ResetOrderScanStatus, orderRows
  <2>5. QED
    BY <2>1, <2>2, <2>3, <2>4 DEF ScanRequest, ScanUpdateStatus, ScanItem
<1>2. /\ where \in {"mark", "commit", "resetItems"}
      /\ OnlyHandler(r) /\ pc[r] = "idle" /\ pc'[r] = where /\ call'[r] = c
      /\ UNCHANGED overtaken
  BY <1>1, HandlerFields DEF LifeInv
<1>3. CheckedBeforeWrite' /\ SnapshotHolds' /\ OvertakenDecide'
  BY <1>1, <1>2, QuietStep DEF Deciding, ItemSteps
<1>4. LogsCounted' /\ Trail' = Trail
  BY <1>1 DEF LifeInv, LogsCounted, Trail
<1>5. JobOf(r) = Lifecycle!NoJob
  BY <1>2, SameNoJob DEF JobOf, ItemSteps
<1>6. CASE where = "resetItems"
  <2>1. JobOf(r)' = JobOf(r)
    BY <1>2, <1>6 DEF JobOf, ItemSteps
  <2>2. QED
    BY <1>1, <1>2, <1>3, <1>4, <2>1, UnseenCarries
<1>7. CASE where # "resetItems"
  <2> DEFINE kind == IF c.op = "bulkScanUpdate" THEN "batch" ELSE "scan"
  <2>1. JobOf(r)' = [kind |-> kind, order |-> c.order, from |-> status[c.order],
                     to |-> c.want]
    BY <1>1, <1>2, <1>7 DEF JobOf, ItemSteps
  <2>2. c.order \in Orders /\ c.order \in 1..created /\ c.want \in Status
    <3>1. pc'[r] # "idle"
      BY <1>2
    <3>2. call'[r].order \in Orders /\ call'[r].order \in 1..created' /\ call'[r].want \in Status
      <4>1. pc'[r] \in ItemSteps => call'[r] \in ItemCall
        BY DEF TypeOK, HandlerTypes
      <4>2. pc'[r] \in OrderSteps => call'[r] \in OrderCall
        BY DEF TypeOK, HandlerTypes
      <4>3. call'[r].order <= created'
        BY <3>1 DEF TypeOK, HandlerTypes, Exists
      <4>4. call'[r].order \in Orders /\ call'[r].want \in Status
        BY <1>2, <4>1, <4>2 DEF ItemCall, OrderCall, ItemSteps, OrderSteps
      <4>5. call'[r].order \in 1..created'
        BY <4>3, <4>4, OrderScanAssumption DEF Orders, TypeOK, RowTypes
      <4>6. QED
        BY <4>4, <4>5
    <3>3. QED
      BY <1>1, <1>2, <3>2
  <2>3. Jobs' = [Jobs EXCEPT ![r] = JobOf(r)'] /\ Moved' = Moved
    BY <1>2, JobChange DEF LifeInv, Moved
  <2>4. Jobs[r] = Lifecycle!NoJob
    BY <1>5 DEF Jobs
  <2>5. Lifecycle!Look(r, c.order)
    <3>1. kind \in {"scan", "batch"} /\ c.want \in Lifecycle!Status
      BY <2>2, SameStatuses
    <3>2. Jobs' = [Jobs EXCEPT ![r] = [kind |-> kind, order |-> c.order,
                                       from |-> status[c.order], to |-> c.want]]
      BY <2>1, <2>3
    <3>3. QED
      BY <1>1, <1>2, <1>4, <2>2, <2>3, <2>4, <3>1, <3>2 DEF Lifecycle!Look
  <2>6. LifeInv'
    BY <1>3, <1>4 DEF LifeInv
  <2>7. Lifecycle!Next
    BY <2>2, <2>5 DEF Lifecycle!Next
  <2>8. QED
    BY <2>6, <2>7 DEF Carried
<1>8. QED
  BY <1>6, <1>7

\* A scan on its way: it marks its item, records it and finds the order complete.
LEMMA OnTheWayCarries ==
  ASSUME LifeInv, TypeOK', NEW r \in Requests,
         \/ MarkItem(r) \/ TrackItemScan(r)
         \/ CheckCompletion(r) /\ Progresses(r)
  PROVE  Carried
<1>1. \E where \in {"trackScan", "check", "write"} :
        /\ Goto(r, where)
        /\ where = "write" => TransitionAllowed(call[r].snap, call[r].want)
  BY DEF MarkItem, TrackItemScan, CheckCompletion, Progresses
<1>2. /\ OnlyHandler(r) /\ pc'[r] \in {"trackScan", "check", "write"} /\ call'[r] = call[r]
      /\ pc'[r] = "write" => call[r].want \in VALID_STATUS_TRANSITIONS[call[r].snap]
  BY <1>1, HandlerFields DEF LifeInv, TransitionAllowed
<1>3. pc[r] \in {"mark", "trackScan", "check"} /\ UNCHANGED <<created, status, overtaken>>
  BY DEF MarkItem, TrackItemScan, CheckCompletion, orderRows
<1>4. CheckedBeforeWrite' /\ SnapshotHolds' /\ OvertakenDecide'
  BY <1>2, <1>3, QuietStep DEF Deciding, ItemSteps
<1>5. LogsCounted' /\ Trail' = Trail
  <2>1. CASE UNCHANGED log
    BY <2>1 DEF LifeInv, LogsCounted, Trail
  <2>2. CASE TrackItemScan(r)
    <3>1. Track(call[r].order, "ITEM_SCAN", call[r].want, call[r].want, call[r].line)
      BY <2>2 DEF TrackItemScan
    <3>2. call[r].order \in Orders /\ call[r].want \in Status /\ call[r].line \in LineIds
      BY <1>3, BusyCall DEF LifeInv, ItemSteps
    <3>3. QED
      BY <3>1, <3>2, TrackOfMove DEF LifeInv, EventTypes, StatusEvents
  <2>3. QED
    BY <2>1, <2>2 DEF MarkItem, CheckCompletion
<1>6. JobOf(r)' = JobOf(r)
  BY <1>2, <1>3 DEF JobOf, ItemSteps
<1>7. QED
  BY <1>2, <1>3, <1>4, <1>5, <1>6, UnseenCarries

\* A handler that has nothing to write, or dies.
LEMMA LeaveCarries ==
  ASSUME LifeInv, TypeOK', NEW r \in Requests,
         \/ MarkMissingItem(r) \/ WriteToDeletedOrder(r) \/ Abort(r)
         \/ CheckCompletion(r) /\ ~Progresses(r)
  PROVE  Carried
<1>1. /\ pc[r] # "idle" /\ Return(r) /\ overtaken' = overtaken \ {r}
      /\ UNCHANGED <<created, status, log>>
  BY DEF MarkMissingItem, WriteToDeletedOrder, Abort, CheckCompletion, Finish, orderRows
<1>2. OnlyHandler(r) /\ pc'[r] = "idle"
  BY <1>1, HandlerFields DEF LifeInv
<1>3. CheckedBeforeWrite' /\ SnapshotHolds' /\ OvertakenDecide'
  BY <1>1, <1>2, QuietStep DEF Deciding, ItemSteps
<1>4. LogsCounted' /\ Trail' = Trail
  BY <1>1 DEF LifeInv, LogsCounted, Trail
<1>5. JobOf(r)' = Lifecycle!NoJob
  BY <1>2, SameNoJob DEF JobOf, ItemSteps
<1>6. CASE pc[r] \in ItemSteps \cup {"commit"}
  <2>1. Jobs[r] # Lifecycle!NoJob
    <3>1. Jobs[r].kind \in {"scan", "batch"} /\ Lifecycle!NoJob.kind = "none"
      BY <1>6, SameNoJob DEF Jobs, JobOf
    <3>2. QED
      BY <3>1
  <2>2. Jobs' = [Jobs EXCEPT ![r] = Lifecycle!NoJob] /\ Moved' = Moved \ {r}
    BY <1>2, <1>5, JobChange DEF LifeInv
  <2>3. Lifecycle!Leave(r)
    BY <1>1, <1>4, <2>1, <2>2 DEF Lifecycle!Leave
  <2>4. LifeInv'
    BY <1>3, <1>4 DEF LifeInv
  <2>5. QED
    BY <2>3, <2>4 DEF Carried, Lifecycle!Next, Lifecycle!Scan
<1>7. CASE pc[r] \notin ItemSteps \cup {"commit"}
  <2>1. overtaken' = overtaken
    BY <1>1, <1>7 DEF LifeInv, OvertakenDecide, Deciding
  <2>2. JobOf(r)' = JobOf(r)
    BY <1>5, <1>7, SameNoJob DEF JobOf
  <2>3. pc[r] # "trackStatus" /\ pc'[r] # "trackStatus"
    BY <1>2, <1>7 DEF ItemSteps
  <2>4. QED
    BY <1>1, <1>2, <1>3, <1>4, <2>1, <2>2, <2>3, UnseenCarries
<1>8. QED
  BY <1>6, <1>7

LEMMA ResetCarries ==
  ASSUME LifeInv, TypeOK', NEW r \in Requests, ResetItems(r) \/ TrackReset(r)
  PROVE  Carried
<1>1. /\ pc[r] \in {"resetItems", "trackReset"} /\ UNCHANGED <<created, status>>
      /\ Goto(r, "trackReset") \/ Return(r)
  BY DEF ResetItems, TrackReset, Finish, orderRows
<1>2. overtaken' = overtaken
  BY DEF ResetItems, TrackReset, Finish, LifeInv, OvertakenDecide, Deciding, ItemSteps
<1>3. OnlyHandler(r) /\ pc'[r] \in {"idle", "trackReset"}
  BY <1>1, HandlerFields DEF LifeInv
<1>4. CheckedBeforeWrite' /\ SnapshotHolds' /\ OvertakenDecide'
  BY <1>1, <1>2, <1>3, QuietStep DEF Deciding, ItemSteps
<1>5. LogsCounted' /\ Trail' = Trail
  <2>1. CASE ResetItems(r)
    BY <2>1 DEF ResetItems, LifeInv, LogsCounted, Trail
  <2>2. CASE TrackReset(r)
    <3>1. Track(call[r].order, "SCAN_STATUS_RESET", call[r].snap, call[r].snap, None)
      BY <2>2 DEF TrackReset
    <3>2. call[r].order \in Orders /\ call[r].snap \in Status
      BY <1>1, BusyCall DEF LifeInv
    <3>3. QED
      BY <3>1, <3>2, TrackOfMove DEF LifeInv, EventTypes, StatusEvents
  <2>3. QED
    BY <2>1, <2>2
<1>6. JobOf(r)' = JobOf(r)
  BY <1>1, <1>3 DEF JobOf, ItemSteps
<1>7. QED
  BY <1>1, <1>2, <1>3, <1>4, <1>5, <1>6, UnseenCarries

\* A write of a status is a move: along the table, from the status the order has
\* unless the handler was overtaken, or of a batch.
LEMMA MoveOfWrite ==
  ASSUME LifeInv, NEW r \in Requests, pc[r] \in {"write", "commit"},
         status' = [status EXCEPT ![call[r].order] = call[r].want],
         overtaken' = Overtaken(call[r].order) \ {r}, created' = created
  PROVE  /\ Lifecycle!MoveOrder(r) /\ call[r].order \in Orders
         /\ Jobs[r] = [kind |-> IF call[r].op = "bulkScanUpdate" THEN "batch" ELSE "scan",
                       order |-> call[r].order, from |-> call[r].snap, to |-> call[r].want]
<1> DEFINE o == call[r].order
<1>1. o \in Orders
  BY BusyCall DEF LifeInv
<1>2. Jobs[r] = [kind |-> IF call[r].op = "bulkScanUpdate" THEN "batch" ELSE "scan",
                 order |-> o, from |-> call[r].snap, to |-> call[r].want]
  BY DEF Jobs, JobOf, ItemSteps
<1>3. Jobs[r] # Lifecycle!NoJob /\ r \notin Moved
  <2>1. Jobs[r].kind \in {"scan", "batch"} /\ Lifecycle!NoJob.kind = "none"
    BY <1>2, SameNoJob
  <2>2. QED
    BY <2>1 DEF Moved
<1>4. Jobs[r].kind = "batch" \/ Lifecycle!AlongTable(r)
  <2>1. CASE call[r].op = "bulkScanUpdate"
    BY <1>2, <2>1
  <2>2. CASE call[r].op # "bulkScanUpdate"
    <3>1. call[r].want \in VALID_STATUS_TRANSITIONS[call[r].snap]
      BY <2>2 DEF LifeInv, CheckedBeforeWrite
    <3>2. r \notin overtaken => status[o] = call[r].snap
      BY DEF LifeInv, SnapshotHolds, Deciding, ItemSteps
    <3>3. QED
      BY <1>2, <3>1, <3>2, SameStatuses DEF Lifecycle!AlongTable
  <2>3. QED
    BY <2>1, <2>2
<1>5. overtaken' = (overtaken \cup Lifecycle!Deciding(o)) \ {r}
  BY SameDeciding DEF Overtaken
<1>6. QED
  BY <1>1, <1>2, <1>3, <1>4, <1>5 DEF Lifecycle!MoveOrder

LEMMA WriteCarries ==
  ASSUME LifeInv, TypeOK', NEW r \in Requests, WriteAutoStatus(r)
  PROVE  Carried
<1>1. /\ pc[r] = "write" /\ Goto(r, "trackStatus") /\ UNCHANGED <<created, log>>
      /\ status' = [status EXCEPT ![call[r].order] = call[r].want]
      /\ overtaken' = Overtaken(call[r].order) \ {r}
  BY DEF WriteAutoStatus, WriteStatus
<1>2. OnlyHandler(r) /\ pc'[r] = "trackStatus" /\ call'[r] = call[r]
  BY <1>1, HandlerFields DEF LifeInv
<1>3. Lifecycle!MoveOrder(r) /\ call[r].order \in Orders
      /\ Jobs[r] = [kind |-> IF call[r].op = "bulkScanUpdate" THEN "batch" ELSE "scan",
                    order |-> call[r].order, from |-> call[r].snap, to |-> call[r].want]
  BY <1>1, MoveOfWrite
<1>4. CheckedBeforeWrite' /\ SnapshotHolds' /\ OvertakenDecide'
  <2>1. pc'[r] \notin Deciding
    BY <1>2 DEF Deciding, ItemSteps
  <2>2. QED
    BY <1>1, <1>2, <1>3, <2>1, WritingStep
<1>5. LifeInv'
  BY <1>1, <1>4 DEF LifeInv, LogsCounted
<1>6. JobOf(r)' = JobOf(r)
  BY <1>1, <1>2 DEF JobOf, ItemSteps
<1>7. Jobs' = Jobs /\ Moved' = Moved \cup {r}
  BY <1>2, <1>6, JobChange DEF LifeInv, Jobs
<1>8. Trail' = Trail
  BY <1>1 DEF Trail
<1>9. Lifecycle!Advance(r)
  BY <1>3, <1>7, <1>8 DEF Lifecycle!Advance
<1>10. QED
  BY <1>5, <1>9 DEF Carried, Lifecycle!Next, Lifecycle!Scan

LEMMA CommitCarries ==
  ASSUME LifeInv, TypeOK', NEW r \in Requests, CommitCompleteOrder(r)
  PROVE  Carried
<1> DEFINE o == call[r].order
           m == [from |-> call[r].snap, to |-> call[r].want]
<1>1. /\ pc[r] = "commit" /\ Return(r) /\ UNCHANGED created
      /\ status' = [status EXCEPT ![o] = call[r].want]
      /\ overtaken' = Overtaken(o) \ {r}
      /\ Track(o, "COMPLETE_ORDER_SCAN", call[r].want, call[r].snap, None)
  BY DEF CommitCompleteOrder, WriteStatus
<1>2. OnlyHandler(r) /\ pc'[r] = "idle"
  BY <1>1, HandlerFields DEF LifeInv
<1>3. Lifecycle!MoveOrder(r) /\ o \in Orders
      /\ Jobs[r] = [kind |-> IF call[r].op = "bulkScanUpdate" THEN "batch" ELSE "scan",
                    order |-> o, from |-> call[r].snap, to |-> call[r].want]
  BY <1>1, MoveOfWrite
<1>4. CheckedBeforeWrite' /\ SnapshotHolds' /\ OvertakenDecide'
  <2>1. pc'[r] \notin Deciding
    BY <1>2 DEF Deciding, ItemSteps
  <2>2. QED
    BY <1>1, <1>2, <1>3, <2>1, WritingStep
<1>5. LogsCounted' /\ Trail' = [Trail EXCEPT ![o] = Append(@, m)]
  <2>1. o \in Orders /\ call[r].snap \in Status /\ call[r].want \in Status
    BY <1>1, BusyCall DEF LifeInv
  <2>2. QED
    BY <1>1, <2>1, TrackOfMove DEF LifeInv, EventTypes, StatusEvents
<1>6. LifeInv'
  BY <1>4, <1>5 DEF LifeInv
<1>7. JobOf(r)' = Lifecycle!NoJob
  BY <1>2, SameNoJob DEF JobOf, ItemSteps
<1>8. Jobs' = [Jobs EXCEPT ![r] = Lifecycle!NoJob] /\ Moved' = Moved
  BY <1>1, <1>2, <1>7, JobChange DEF LifeInv, Moved
<1>9. Lifecycle!EnterMove(r)
  BY <1>3, <1>5, <1>8 DEF Lifecycle!EnterMove
<1>10. Lifecycle!AdvanceAndEnter(r)
  BY <1>3, <1>8, <1>9 DEF Lifecycle!AdvanceAndEnter
<1>11. QED
  BY <1>6, <1>10 DEF Carried, Lifecycle!Next, Lifecycle!Scan

LEMMA EnterCarries ==
  ASSUME LifeInv, TypeOK', NEW r \in Requests, TrackAutoStatus(r)
  PROVE  Carried
<1> DEFINE o == call[r].order
           m == [from |-> call[r].snap, to |-> call[r].want]
<1>1. /\ pc[r] = "trackStatus" /\ Return(r) /\ UNCHANGED <<created, status>>
      /\ overtaken' = overtaken \ {r}
      /\ Track(o, "AUTO_STATUS_UPDATE", call[r].want, call[r].snap, None)
  BY DEF TrackAutoStatus, Finish, orderRows
<1>2. OnlyHandler(r) /\ pc'[r] = "idle"
  BY <1>1, HandlerFields DEF LifeInv
<1>3. CheckedBeforeWrite' /\ SnapshotHolds' /\ OvertakenDecide'
  BY <1>1, <1>2, QuietStep DEF Deciding, ItemSteps
<1>4. overtaken' = overtaken
  BY <1>1 DEF LifeInv, OvertakenDecide, Deciding, ItemSteps
<1>5. LogsCounted' /\ Trail' = [Trail EXCEPT ![o] = Append(@, m)]
  <2>1. o \in Orders /\ call[r].snap \in Status /\ call[r].want \in Status
    BY <1>1, BusyCall DEF LifeInv
  <2>2. QED
    BY <1>1, <2>1, TrackOfMove DEF LifeInv, EventTypes, StatusEvents
<1>6. LifeInv'
  BY <1>3, <1>5 DEF LifeInv
<1>7. Jobs[r] = [kind |-> IF call[r].op = "bulkScanUpdate" THEN "batch" ELSE "scan",
                 order |-> o, from |-> call[r].snap, to |-> call[r].want]
  BY <1>1 DEF Jobs, JobOf, ItemSteps
<1>8. Jobs[r] # Lifecycle!NoJob /\ r \in Moved
  <2>1. Jobs[r].kind \in {"scan", "batch"} /\ Lifecycle!NoJob.kind = "none"
    BY <1>7, SameNoJob
  <2>2. QED
    BY <1>1, <2>1 DEF Moved
<1>9. Jobs' = [Jobs EXCEPT ![r] = Lifecycle!NoJob] /\ Moved' = Moved \ {r}
  <2>1. JobOf(r)' = Lifecycle!NoJob
    BY <1>2, SameNoJob DEF JobOf, ItemSteps
  <2>2. QED
    BY <1>2, <2>1, JobChange DEF LifeInv
<1>10. Lifecycle!Enter(r)
  BY <1>1, <1>4, <1>5, <1>7, <1>8, <1>9 DEF Lifecycle!Enter, Lifecycle!EnterMove
<1>11. QED
  BY <1>6, <1>10 DEF Carried, Lifecycle!Next, Lifecycle!Scan

LEMMA NextLife == LifeInv /\ [Next]_vars => LifeInv' /\ [Lifecycle!Next]_(Lifecycle!vars)
<1> SUFFICES ASSUME LifeInv, [Next]_vars PROVE Carried
  BY DEF Carried
<1>1. TypeOK'
  BY NextTypeOK DEF LifeInv
<1>2. CreateStatuses \subseteq Status /\ EditStatuses \subseteq Status
  BY OrderScanAssumption
<1>3. CASE OrderOperation
  <2>1. ASSUME NEW ls, NEW s \in CreateStatuses, Create(ls, s) PROVE Carried
    BY <1>1, <1>2, <2>1, CreateCarries
  <2>2. ASSUME NEW o \in Orders, NEW s \in EditStatuses, Update(o, s) PROVE Carried
    BY <1>1, <1>2, <2>2, EditCarries DEF Update
  <2>3. ASSUME NEW o \in Orders, NEW ls, NEW s \in EditStatuses, UpdateWithProducts(o, ls, s)
        PROVE  Carried
    BY <1>1, <1>2, <2>3, EditCarries DEF UpdateWithProducts
  <2>4. ASSUME NEW o, NEW l, NEW sku, UpdateItemsInOrder(o, l, sku) PROVE Carried
    BY <1>1, <2>4, AsideCarries DEF UpdateItemsInOrder, orderRows, handlers
  <2>5. ASSUME NEW o, Delete(o) PROVE Carried
    BY <1>1, <2>5, AsideCarries DEF Delete, handlers
  <2>6. QED
    BY <1>3, <2>1, <2>2, <2>3, <2>4, <2>5 DEF OrderOperation
<1>4. ASSUME NEW r \in Requests, ScanRequest(r) PROVE Carried
  BY <1>1, <1>4, LookCarries
<1>5. ASSUME NEW r \in Requests, HandlerStep(r) \/ Abort(r) PROVE Carried
  BY <1>1, <1>5, OnTheWayCarries, LeaveCarries, ResetCarries, WriteCarries, CommitCarries,
     EnterCarries DEF HandlerStep
<1>6. CASE UNCHANGED vars
  BY <1>1, <1>6, AsideCarries DEF vars, orderRows, handlers
<1>7. QED
  BY <1>3, <1>4, <1>5, <1>6 DEF Next

\* Any number of handlers, with edits, batches and failures among them, implement
\* the life cycle: the only scans that take an order along an edge its status
\* does not have are those somebody overtook between their read and their write.
THEOREM HandlersImplementLifecycle == Spec => ImplementsLifecycle
BY InitLife, NextLife, PTL DEF Spec, ImplementsLifecycle, Lifecycle!Spec

-----------------------------------------------------------------------------
(* What the life cycle guarantees to whoever implements it.                 *)

LEMMA StickyStep ==
  ASSUME Lifecycle!Next, status \in [Orders -> Status],
         NEW o \in 1..created, o \in Orders, status[o] \in Lifecycle!Terminal,
         status'[o] # status[o]
  PROVE  Lifecycle!LeavesTerminal(o)
<1>1. VALID_STATUS_TRANSITIONS[status[o]] = {}
  BY SameStatuses DEF Lifecycle!Terminal
<1>2. ASSUME NEW p \in Orders, NEW s \in Lifecycle!Status, Lifecycle!Open(p, s)
      PROVE  FALSE
  BY <1>2 DEF Lifecycle!Open
<1>3. ASSUME NEW p \in Orders, NEW s \in Lifecycle!Status, Lifecycle!Override(p, s)
      PROVE  Lifecycle!LeavesTerminal(o)
  <2>1. p = o
    BY <1>3 DEF Lifecycle!Override
  <2>2. QED
    BY <1>3, <2>1 DEF Lifecycle!LeavesTerminal
<1>4. ASSUME NEW r \in Requests, Lifecycle!MoveOrder(r)
      PROVE  Lifecycle!LeavesTerminal(o)
  <2>1. Jobs[r].order = o
    BY <1>4 DEF Lifecycle!MoveOrder
  <2>2. Jobs[r].kind = "batch" \/ (r \in overtaken /\ Jobs[r].from # status[o])
    BY <1>1, <1>4, <2>1, SameStatuses DEF Lifecycle!MoveOrder, Lifecycle!AlongTable
  <2>3. QED
    BY <1>4, <2>1, <2>2 DEF Lifecycle!LeavesTerminal
<1>5. \A r \in Requests :
        Lifecycle!Scan(r) => Lifecycle!MoveOrder(r) \/ UNCHANGED status
  BY DEF Lifecycle!Scan, Lifecycle!Advance, Lifecycle!AdvanceAndEnter, Lifecycle!Enter,
         Lifecycle!Leave
<1>6. \A r \in Requests, p \in Orders : Lifecycle!Look(r, p) => UNCHANGED status
  BY DEF Lifecycle!Look
<1>7. QED
  BY <1>2, <1>3, <1>4, <1>5, <1>6 DEF Lifecycle!Next

\* A delivered, cancelled or returned order keeps its status until somebody
\* overrides it, a batch moves it, or a scan writes that had read another status
\* and was overtaken: no scan that reads the final status ever leaves it.
THEOREM TerminalStatusIsSticky == Spec => Lifecycle!TerminalIsSticky
<1>1. ASSUME TypeOK, Lifecycle!Next
      PROVE  \A o \in 1..created :
               status[o] \in Lifecycle!Terminal /\ status'[o] # status[o] =>
                 Lifecycle!LeavesTerminal(o)
  <2>1. 1..created \subseteq Orders /\ status \in [Orders -> Status]
    BY <1>1, OrderScanAssumption DEF TypeOK, RowTypes, Orders
  <2>2. QED
    BY <1>1, <2>1, StickyStep
<1>2. TypeOK /\ [Lifecycle!Next]_(Lifecycle!vars) =>
        [\A o \in 1..created :
           status[o] \in Lifecycle!Terminal /\ status'[o] # status[o] =>
             Lifecycle!LeavesTerminal(o)]_(Lifecycle!vars)
  BY <1>1
<1>3. QED
  BY <1>2, TypeCorrect, HandlersImplementLifecycle, PTL
  DEF ImplementsLifecycle, Lifecycle!Spec, Lifecycle!TerminalIsSticky
=============================================================================
