--------------------------- MODULE BulkScan_proofs ---------------------------
(***************************************************************************)
(* Proofs about BulkScan, for any number of batches in flight, and any     *)
(* orders, contents, batches and statuses in them.                         *)
(***************************************************************************)
EXTENDS BulkScan, FiniteSetTheorems, TLAPS

-----------------------------------------------------------------------------
(* The inductive invariant: what an open transaction t knows, whose call   *)
(* is suspended at p, while the rows sc are marked by committed ones.      *)

\* Every mark has its event, but those the running statement is setting.
TracedMarks(t, p) ==
  \A row \in t.locks \cap ItemRows :
    \/ HasScan(t.events[row[1]], row[2])
    \/ p = "mark" /\ row \in RowsOf(t.order, t.items[t.k])

\* Every status and timestamp written has its event.
TracedWrites(t) ==
  \A o \in Orders :
    /\ t.wrote[o] # None => HasStatus(t.events[o], t.wrote[o])
    /\ \A st \in t.set[o] : HasStatus(t.events[o], StampedStatus(st))

\* So does every status an order is about to be given.
TracedIntents(t) ==
  /\ ~t.broken => \A o \in Orders :
                    t.intended[o] # None => HasStatus(t.events[o], t.intended[o])
  /\ \A i \in 1..Len(t.todo) : t.intended[t.todo[i]] # None

ScannedWhole(o, t, sc) == Contents[o] # {} /\ {o} \X Contents[o] \subseteq sc \cup t.locks

\* How far the call got.
Position(t, p, sc) ==
  /\ p = "item" => t.k <= Len(t.items) + 1
  /\ p = "mark" => /\ t.k <= Len(t.items)
                   /\ t.order \in TargetOf(t.items[t.k])
                   /\ t.left \subseteq RowsOf(t.order, t.items[t.k])
                   /\ RowsOf(t.order, t.items[t.k]) \ t.left \subseteq t.locks
  /\ p \in {"progress", "lookup", "save"} /\ ~t.broken => t.k = Len(t.items) + 1
  /\ p \in {"lookup", "save"} => t.todo # <<>> /\ ScannedWhole(Head(t.todo), t, sc)
  /\ t.broken => p = "progress" /\ t.todo = <<>>

\* What it will answer is so, unless the transaction is broken.
Recorded(t, sc) ==
  ~t.broken =>
    /\ t.ok = {j \in 1..(t.k - 1) : TargetOf(t.items[j]) # {}}
    /\ \A j \in t.ok : \A o \in TargetOf(t.items[j]) : RowsOf(o, t.items[j]) \subseteq t.locks
    /\ \A o \in t.updated : ScannedWhole(o, t, sc)

TxInv(t, p, sc) ==
  TracedMarks(t, p) /\ TracedWrites(t) /\ TracedIntents(t) /\ Position(t, p, sc)
    /\ Recorded(t, sc)

IInv ==
  /\ TypeOK
  /\ \A r \in Requests : TxInv(tx[r], pc[r], scanned)
  /\ MarksAreTraced
  /\ StatusIsTraced
  /\ CommittedReportIsComplete

-----------------------------------------------------------------------------
(* Rows, targets and sequences of events.                                  *)

\* An item is about one order at most, and its rows are rows of that order.
LEMMA TargetIsOne ==
  ASSUME NEW it \in Item, NEW o \in TargetOf(it)
  PROVE  /\ o \in Orders
         /\ \A n \in TargetOf(it) : n = o
         /\ RowsOf(o, it) \subseteq ItemRows
<1>1. it.by \in {"item", "sku", "order"}
  BY DEF Item
<1>2. o \in Orders /\ o \in Nat
  BY <1>1, BulkScanAssumption DEF TargetOf
<1>3. ASSUME NEW n \in TargetOf(it) PROVE n = o
  <2>1. n \in Orders /\ n \in Nat
    BY <1>1, BulkScanAssumption DEF TargetOf
  <2>2. QED
    BY <1>1, <1>2, <2>1 DEF TargetOf
<1>4. RowsOf(o, it) \subseteq {o} \X Contents[o]
  BY <1>1 DEF TargetOf, RowsOf
<1>5. QED
  BY <1>2, <1>3, <1>4 DEF ItemRows

\* Nothing is lost from the trail when events are added to it.
LEMMA ConcatHas ==
  ASSUME NEW s \in Seq(Event), NEW t \in Seq(Event)
  PROVE  /\ s \o t \in Seq(Event)
         /\ \A x : HasStatus(s, x) \/ HasStatus(t, x) => HasStatus(s \o t, x)
         /\ \A x : HasScan(s, x) \/ HasScan(t, x) => HasScan(s \o t, x)
<1>1. /\ s \o t \in Seq(Event) /\ Len(s \o t) = Len(s) + Len(t)
      /\ Len(s) \in Nat /\ Len(t) \in Nat
      /\ \A i \in 1..Len(s) : i \in 1..Len(s \o t) /\ (s \o t)[i] = s[i]
      /\ \A i \in 1..Len(t) : i + Len(s) \in 1..Len(s \o t) /\ (s \o t)[i + Len(s)] = t[i]
  OBVIOUS
<1>2. QED
  BY <1>1 DEF HasStatus, HasScan

LEMMA AppendHas ==
  ASSUME NEW s \in Seq(Event), NEW e \in Event
  PROVE  /\ Append(s, e) \in Seq(Event)
         /\ HasStatus(Append(s, e), e.status)
         /\ \A x : HasStatus(s, x) => HasStatus(Append(s, e), x)
         /\ \A x : HasScan(s, x) => HasScan(Append(s, e), x)
         /\ \A x : e.type = "COMPLETE_ORDER_SCAN" \/ e.sku = x => HasScan(Append(s, e), x)
<1>1. /\ Append(s, e) \in Seq(Event) /\ Len(Append(s, e)) = Len(s) + 1 /\ Len(s) \in Nat
      /\ \A i \in 1..Len(s) : i \in 1..Len(Append(s, e)) /\ Append(s, e)[i] = s[i]
      /\ Len(s) + 1 \in 1..Len(Append(s, e)) /\ Append(s, e)[Len(s) + 1] = e
  OBVIOUS
<1>2. QED
  BY <1>1 DEF HasStatus, HasScan

\* Orders and SKUs of one order are finite, so counting its rows is exact.
LEMMA CompleteIsExact ==
  ASSUME NEW r \in Requests, NEW o \in Orders, Complete(r, o)
  PROVE  Contents[o] # {} /\ {o} \X Contents[o] \subseteq Marked(r)
<1> DEFINE rows == {o} \X Contents[o]
           seen == rows \cap Marked(r)
<1>1. IsFiniteSet(rows)
  <2>1. Contents[o] \subseteq Skus /\ IsFiniteSet(Contents[o])
    BY BulkScanAssumption, FS_Subset
  <2>2. QED
    BY <2>1, FS_Singleton, FS_Product
<1>2. /\ Cardinality(rows) \in Nat /\ Cardinality(seen) \in Nat
      /\ Cardinality(seen) = Cardinality(rows) => seen = rows
      /\ Cardinality(rows) = 0 <=> rows = {}
  BY <1>1, FS_Subset, FS_CardinalityType, FS_EmptySet
<1>3. Cardinality(seen) = Cardinality(rows) /\ Cardinality(rows) # 0
  BY <1>2 DEF Complete, AllItemsScanned, canProgressStatus, completionPercentage
<1>4. QED
  BY <1>2, <1>3

\* Marks that are committed later do not disturb an open transaction.
LEMMA MoreMarks ==
  ASSUME NEW t, NEW p, NEW sc, NEW more, sc \subseteq more, TxInv(t, p, sc)
  PROVE  TxInv(t, p, more)
BY DEF TxInv, Position, Recorded, ScannedWhole

\* A step that only concerns its own transaction.
LEMMA LocalStep ==
  ASSUME IInv, NEW r \in Requests, NEW t \in TxType, NEW p \in PC,
         tx' = [tx EXCEPT ![r] = t], pc' = [pc EXCEPT ![r] = p],
         UNCHANGED <<committed, reports>>,
         calls' \in 0..MaxCalls, errors' \in 0..MaxErrors,
         TxInv(t, p, scanned)
  PROVE  IInv'
<1> USE DEF IInv, committed
<1>1. TypeOK'
  BY DEF TypeOK
<1>2. \A q \in Requests : TxInv(tx[q], pc[q], scanned)'
  BY DEF TypeOK
<1>3. MarksAreTraced' /\ StatusIsTraced' /\ CommittedReportIsComplete'
  BY DEF MarksAreTraced, StatusIsTraced, CommittedReportIsComplete
<1>4. QED
  BY <1>1, <1>2, <1>3

-----------------------------------------------------------------------------
(* Each step keeps the invariant.                                          *)

LEMMA EmptyType == Empty \in TxType
BY BulkScanAssumption DEF Empty, TxType

LEMMA EmptyInv == TxInv(Empty, "idle", scanned)
BY DEF TxInv, Empty, TracedMarks, TracedWrites, TracedIntents, Position, Recorded

LEMMA InitIInv == Init => IInv
<1> SUFFICES ASSUME Init PROVE IInv
  OBVIOUS
<1>1. TypeOK
  BY EmptyType, BulkScanAssumption DEF Init, TypeOK, PC
<1>2. \A r \in Requests : TxInv(tx[r], pc[r], scanned)
  BY EmptyInv DEF Init
<1>3. QED
  BY <1>1, <1>2 DEF Init, IInv, MarksAreTraced, StatusIsTraced, CommittedReportIsComplete

\* The fields of a record of type TxType, one by one.
LEMMA TxFields ==
  ASSUME NEW u \in TxType
  PROVE  /\ u.items \in Seq(Item) /\ Len(u.items) \in Nat /\ u.k \in Nat /\ u.k # 0
         /\ u.order \in Orders \cup {None} /\ u.prev \in Status
         /\ u.left \subseteq ItemRows /\ u.locks \subseteq Rows
         /\ u.wrote \in [Orders -> Status \cup {None}]
         /\ u.set \in [Orders -> SUBSET Stamp]
         /\ u.events \in [Orders -> Seq(Event)]
         /\ u.ok \subseteq Nat /\ u.todo \in Seq(Orders)
         /\ u.intended \in [Orders -> Status \cup {None}]
         /\ u.updated \subseteq Orders /\ u.broken \in BOOLEAN
BY DEF TxType

LEMMA StartInv ==
  ASSUME IInv, NEW r \in Requests, NEW b \in Batches, Start(r, b)
  PROVE  IInv'
<1> DEFINE t == [Empty EXCEPT !.op = b.op, !.items = b.items]
<1>1. b.op \in {"bulkScanItems", "bulkScanUpdate"} /\ b.items \in Seq(Item)
  BY BulkScanAssumption
<1>2. t \in TxType
  BY <1>1, EmptyType DEF TxType
<1>3. TxInv(t, "item", scanned)
  BY <1>1 DEF Empty, TxInv, TracedMarks, TracedWrites, TracedIntents, Position, Recorded
<1>4. /\ tx' = [tx EXCEPT ![r] = t] /\ pc' = [pc EXCEPT ![r] = "item"] /\ "item" \in PC
      /\ UNCHANGED <<committed, errors, reports>> /\ calls' = calls + 1 /\ calls < MaxCalls
  BY DEF Start, PC
<1>5. calls' \in 0..MaxCalls /\ errors' \in 0..MaxErrors
  BY <1>4, BulkScanAssumption DEF IInv, TypeOK
<1> HIDE DEF t
<1>6. QED
  BY <1>2, <1>3, <1>4, <1>5, LocalStep

LEMMA FindOrderTx ==
  ASSUME NEW u \in TxType, NEW sc, TxInv(u, "item", sc), u.k <= Len(u.items),
         NEW o \in TargetOf(u.items[u.k]), NEW prev \in Status, NEW t,
         t = [u EXCEPT !.order = o, !.left = RowsOf(o, u.items[u.k]), !.prev = prev]
  PROVE  t \in TxType /\ TxInv(t, "mark", sc)
<1>1. u.items[u.k] \in Item
  BY TxFields
<1>2. o \in Orders /\ RowsOf(o, u.items[u.k]) \subseteq ItemRows
  BY <1>1, TargetIsOne
<1>3. t \in TxType
  BY <1>2 DEF TxType
<1>4. /\ t.items = u.items /\ t.k = u.k /\ t.order = o /\ t.left = RowsOf(o, u.items[u.k])
      /\ t.locks = u.locks /\ t.wrote = u.wrote /\ t.set = u.set /\ t.events = u.events
      /\ t.ok = u.ok /\ t.todo = u.todo /\ t.intended = u.intended
      /\ t.updated = u.updated /\ t.broken = u.broken
  BY DEF TxType
<1>5. TxInv(t, "mark", sc)
  BY <1>4 DEF TxInv, TracedMarks, TracedWrites, TracedIntents, Position, Recorded, ScannedWhole
<1>6. QED
  BY <1>3, <1>5

LEMMA SkipItemTx ==
  ASSUME NEW u \in TxType, NEW sc, TxInv(u, "item", sc), u.k <= Len(u.items),
         TargetOf(u.items[u.k]) = {}, NEW t, t = [u EXCEPT !.k = @ + 1]
  PROVE  t \in TxType /\ TxInv(t, "item", sc)
<1>1. u.k + 1 \in Nat \ {0}
  BY TxFields
<1>2. t \in TxType
  BY <1>1 DEF TxType
<1>3. /\ t.items = u.items /\ t.k = u.k + 1 /\ t.order = u.order /\ t.left = u.left
      /\ t.locks = u.locks /\ t.wrote = u.wrote /\ t.set = u.set /\ t.events = u.events
      /\ t.ok = u.ok /\ t.todo = u.todo /\ t.intended = u.intended
      /\ t.updated = u.updated /\ t.broken = u.broken
  BY DEF TxType
<1>4. Position(t, "item", sc)
  BY <1>3, TxFields DEF TxInv, Position
<1>5. Recorded(t, sc)
  <2>1. {j \in 1..(t.k - 1) : TargetOf(t.items[j]) # {}}
          = {j \in 1..(u.k - 1) : TargetOf(u.items[j]) # {}}
    <3>1. \A j : j \in 1..(t.k - 1) <=> j \in 1..(u.k - 1) \/ j = u.k
      BY <1>3, TxFields
    <3>2. QED
      BY <1>3, <3>1
  <2>2. QED
    BY <1>3, <2>1 DEF TxInv, Recorded, ScannedWhole
<1>6. QED
  BY <1>2, <1>3, <1>4, <1>5 DEF TxInv, TracedMarks, TracedWrites, TracedIntents

LEMMA MarkRowTx ==
  ASSUME NEW u \in TxType, NEW sc, TxInv(u, "mark", sc), NEW row \in u.left,
         NEW t, t = [u EXCEPT !.left = @ \ {row}, !.locks = @ \cup {row}]
  PROVE  t \in TxType /\ TxInv(t, "mark", sc)
<1>1. row \in ItemRows
  BY TxFields
<1>2. t \in TxType
  BY <1>1 DEF TxType, Rows
<1>3. /\ t.items = u.items /\ t.k = u.k /\ t.order = u.order /\ t.left = u.left \ {row}
      /\ t.locks = u.locks \cup {row} /\ t.wrote = u.wrote /\ t.set = u.set
      /\ t.events = u.events /\ t.ok = u.ok /\ t.todo = u.todo /\ t.intended = u.intended
      /\ t.updated = u.updated /\ t.broken = u.broken
  BY DEF TxType
<1>4. TracedMarks(t, "mark")
  BY <1>3 DEF TxInv, TracedMarks, Position
<1>5. Position(t, "mark", sc)
  BY <1>3 DEF TxInv, Position
<1>6. Recorded(t, sc)
  BY <1>3 DEF TxInv, Recorded, ScannedWhole
<1>7. QED
  BY <1>2, <1>3, <1>4, <1>5, <1>6 DEF TxInv, TracedWrites, TracedIntents

\* The event of an item names the status it asked for and the rows it marked.
LEMMA ProcessedTx ==
  ASSUME NEW u \in TxType, NEW sc, TxInv(u, "mark", sc), u.left = {},
         NEW type, NEW prev \in Status, NEW sku, NEW t, t = Processed(u, type, prev, sku),
         \/ type = "BULK_ITEM_SCAN" /\ u.items[u.k].by # "order" /\ sku = u.items[u.k].sku
         \/ type = "COMPLETE_ORDER_SCAN" /\ sku = None
  PROVE  t \in TxType /\ TxInv(t, "item", sc)
<1> DEFINE it == u.items[u.k]
           o  == u.order
           e  == [type |-> type, status |-> it.status, prev |-> prev, sku |-> sku]
<1>1. u.k <= Len(u.items) /\ o \in TargetOf(it) /\ RowsOf(o, it) \subseteq u.locks
  BY DEF TxInv, Position
<1>2. it \in Item
  BY <1>1, TxFields
<1>3. /\ o \in Orders /\ RowsOf(o, it) \subseteq ItemRows
      /\ \A n \in TargetOf(it) : n = o
  BY <1>1, <1>2, TargetIsOne
<1>4. e \in Event /\ it.status \in Status
  BY <1>2 DEF Event, Item
<1>5. /\ t.op = u.op /\ t.items = u.items /\ t.k = u.k + 1 /\ t.order = None
      /\ t.prev = u.prev
      /\ t.left = u.left /\ t.locks = u.locks /\ t.wrote = u.wrote /\ t.set = u.set
      /\ t.events = [u.events EXCEPT ![o] = Append(@, e)] /\ t.ok = u.ok \cup {u.k}
      /\ t.todo = (IF u.intended[o] = None THEN Append(u.todo, o) ELSE u.todo)
      /\ t.intended = [u.intended EXCEPT ![o] = it.status]
      /\ t.updated = u.updated /\ t.broken = u.broken
  BY DEF TxType, Processed
<1>6. /\ Append(u.events[o], e) \in Seq(Event)
      /\ HasStatus(Append(u.events[o], e), it.status)
      /\ \A x : HasStatus(u.events[o], x) => HasStatus(Append(u.events[o], e), x)
      /\ \A x : HasScan(u.events[o], x) => HasScan(Append(u.events[o], e), x)
      /\ \A x : type = "COMPLETE_ORDER_SCAN" \/ sku = x => HasScan(Append(u.events[o], e), x)
  BY <1>3, <1>4, TxFields, AppendHas
<1>7. t \in TxType
  <2>1. u.k + 1 \in Nat \ {0} /\ u.ok \cup {u.k} \subseteq Nat
    BY TxFields
  <2>2. t.todo \in Seq(Orders)
    BY <1>3, <1>5, TxFields
  <2>3. t.events \in [Orders -> Seq(Event)]
    <3>1. u.events \in [Orders -> Seq(Event)]
      BY TxFields
    <3>2. [u.events EXCEPT ![o] = Append(@, e)] \in [Orders -> Seq(Event)]
      BY <1>6, <3>1
    <3>3. QED
      BY <1>5, <3>2
  <2>6. t.intended \in [Orders -> Status \cup {None}]
    <3>1. u.intended \in [Orders -> Status \cup {None}]
      BY TxFields
    <3>2. [u.intended EXCEPT ![o] = it.status] \in [Orders -> Status \cup {None}]
      BY <1>4, <3>1
    <3>3. QED
      BY <1>5, <3>2
  <2>4. t = [op |-> t.op, items |-> t.items, k |-> t.k, order |-> t.order,
             prev |-> t.prev, left |-> t.left, locks |-> t.locks, wrote |-> t.wrote, set |-> t.set, events |-> t.events,
             ok |-> t.ok, todo |-> t.todo, intended |-> t.intended, updated |-> t.updated,
             broken |-> t.broken]
    BY DEF TxType, Processed
  <2>5. QED
    BY <1>5, <2>1, <2>2, <2>3, <2>4, <2>6 DEF TxType
<1>8. TracedMarks(t, "item")
  <2> SUFFICES ASSUME NEW row \in u.locks \cap ItemRows
               PROVE  HasScan(t.events[row[1]], row[2])
    BY <1>5 DEF TracedMarks
  <2>1. row[1] \in Orders /\ row = <<row[1], row[2]>>
    BY DEF ItemRows
  <2>2. CASE HasScan(u.events[row[1]], row[2])
    BY <1>5, <1>6, <2>1, <2>2, TxFields
  <2>3. CASE row \in RowsOf(o, it)
    <3>1. row[1] = o /\ (it.by # "order" => row[2] = it.sku)
      BY <2>3 DEF RowsOf
    <3>2. t.events[o] = Append(u.events[o], e)
      BY <1>3, <1>5, TxFields
    <3>3. QED
      BY <1>6, <3>1, <3>2
  <2>4. QED
    BY <2>2, <2>3 DEF TxInv, TracedMarks
<1>9. TracedWrites(t)
  BY <1>3, <1>5, <1>6, TxFields DEF TxInv, TracedWrites
<1>10. TracedIntents(t)
  <2>1. ~t.broken => \A n \in Orders :
                      t.intended[n] # None => HasStatus(t.events[n], t.intended[n])
    BY <1>3, <1>5, <1>6, TxFields DEF TxInv, TracedIntents
  <2>2. \A i \in 1..Len(t.todo) : t.intended[t.todo[i]] # None
    <3>1. it.status # None /\ \A n \in Orders : u.intended[n] # None => t.intended[n] # None
      BY <1>3, <1>4, <1>5, BulkScanAssumption, TxFields
    <3>2. t.intended[o] # None
      BY <1>3, <1>5, <3>1, TxFields
    <3>3. \A i \in 1..Len(u.todo) : u.todo[i] \in Orders /\ t.intended[u.todo[i]] # None
      BY <3>1, TxFields DEF TxInv, TracedIntents
    <3>4. CASE u.intended[o] = None
      <4>1. /\ t.todo = Append(u.todo, o) /\ Len(u.todo) \in Nat
            /\ Len(t.todo) = Len(u.todo) + 1 /\ t.todo[Len(u.todo) + 1] = o
            /\ \A i \in 1..Len(u.todo) : t.todo[i] = u.todo[i]
        BY <1>3, <1>5, <3>4, TxFields
      <4>2. QED
        BY <3>2, <3>3, <4>1
    <3>5. CASE u.intended[o] # None
      BY <1>5, <3>3, <3>5
    <3>6. QED
      BY <3>4, <3>5
  <2>3. QED
    BY <2>1, <2>2 DEF TracedIntents
<1>11. Position(t, "item", sc)
  BY <1>1, <1>5, TxFields DEF TxInv, Position
<1>12. Recorded(t, sc)
  <2>1. ~u.broken
    BY DEF TxInv, Position
  <2>2. \A j : j \in 1..(t.k - 1) <=> j \in 1..(u.k - 1) \/ j = u.k
    BY <1>5, TxFields
  <2>3. t.ok = {j \in 1..(t.k - 1) : TargetOf(t.items[j]) # {}}
    BY <1>1, <1>5, <2>1, <2>2 DEF TxInv, Recorded
  <2>4. \A j \in t.ok : \A n \in TargetOf(t.items[j]) : RowsOf(n, t.items[j]) \subseteq t.locks
    BY <1>1, <1>3, <1>5, <2>1 DEF TxInv, Recorded
  <2>5. QED
    BY <1>5, <2>1, <2>3, <2>4 DEF TxInv, Recorded, ScannedWhole
<1>13. QED
  BY <1>7, <1>8, <1>9, <1>10, <1>11, <1>12 DEF TxInv

\* A status is written when an event of it is there.
LEMMA WriteTx ==
  ASSUME NEW u \in TxType, NEW p, NEW sc, TxInv(u, p, sc), NEW o \in Orders, NEW s \in Status,
         HasStatus(u.events[o], s), NEW st \in SUBSET Stamp, \A x \in st : StampedStatus(x) = s,
         NEW t, t = Write(u, o, s, st)
  PROVE  t \in TxType /\ TxInv(t, p, sc)
<1>1. /\ t.op = u.op /\ t.items = u.items /\ t.k = u.k /\ t.order = u.order
      /\ t.prev = u.prev /\ t.left = u.left /\ t.locks = u.locks \cup {OrderRow(o)}
      /\ t.wrote = [u.wrote EXCEPT ![o] = s] /\ t.set = [u.set EXCEPT ![o] = @ \cup st]
      /\ t.events = u.events /\ t.ok = u.ok /\ t.todo = u.todo /\ t.intended = u.intended
      /\ t.updated = u.updated /\ t.broken = u.broken
  BY DEF TxType, Write
<1>2. OrderRow(o) \in Rows /\ OrderRow(o) \notin ItemRows
  <2>1. OrderRow(o) \in Rows
    BY DEF Rows
  <2>2. \A n \in Orders : None \notin Contents[n]
    BY BulkScanAssumption
  <2>3. QED
    BY <2>1, <2>2 DEF OrderRow, ItemRows
<1>3. t \in TxType
  <2>1. t.wrote \in [Orders -> Status \cup {None}]
    BY <1>1, TxFields
  <2>2. t.set \in [Orders -> SUBSET Stamp]
    BY <1>1, TxFields
  <2>3. t.locks \subseteq Rows
    BY <1>1, <1>2, TxFields
  <2>4. t = [op |-> t.op, items |-> t.items, k |-> t.k, order |-> t.order,
             prev |-> t.prev, left |-> t.left, locks |-> t.locks, wrote |-> t.wrote, set |-> t.set, events |-> t.events,
             ok |-> t.ok, todo |-> t.todo, intended |-> t.intended, updated |-> t.updated,
             broken |-> t.broken]
    BY DEF TxType, Write
  <2>5. QED
    BY <1>1, <2>1, <2>2, <2>3, <2>4 DEF TxType
<1>4. TracedMarks(t, p)
  BY <1>1, <1>2 DEF TxInv, TracedMarks
<1>5. TracedWrites(t)
  <2> SUFFICES ASSUME NEW n \in Orders
               PROVE  /\ t.wrote[n] # None => HasStatus(t.events[n], t.wrote[n])
                      /\ \A x \in t.set[n] : HasStatus(t.events[n], StampedStatus(x))
    BY DEF TracedWrites
  <2>1. CASE n = o
    BY <1>1, <2>1, TxFields DEF TxInv, TracedWrites
  <2>2. CASE n # o
    BY <1>1, <2>2, TxFields DEF TxInv, TracedWrites
  <2>3. QED
    BY <2>1, <2>2
<1>6. TracedIntents(t)
  BY <1>1 DEF TxInv, TracedIntents
<1>7. Position(t, p, sc)
  BY <1>1 DEF TxInv, Position, ScannedWhole
<1>8. Recorded(t, sc)
  <2>1. u.locks \subseteq t.locks
    BY <1>1
  <2>2. \A n \in Orders : ScannedWhole(n, u, sc) => ScannedWhole(n, t, sc)
    BY <2>1 DEF ScannedWhole
  <2>3. t.k = u.k /\ t.ok = u.ok /\ t.items = u.items /\ t.updated = u.updated
          /\ t.broken = u.broken /\ u.updated \subseteq Orders
    BY <1>1, TxFields
  <2>4. QED
    BY <2>1, <2>2, <2>3 DEF TxInv, Recorded
<1>9. QED
  BY <1>3, <1>4, <1>5, <1>6, <1>7, <1>8 DEF TxInv

\* The next order of the automatic progress, when the one before it stays.
LEMMA NextOrderTx ==
  ASSUME NEW u \in TxType, NEW p \in {"progress", "lookup", "save"}, NEW sc, TxInv(u, p, sc),
         u.todo # <<>>, NEW t, t = [u EXCEPT !.todo = Tail(@)]
  PROVE  t \in TxType /\ TxInv(t, "progress", sc)
<1>1. /\ Tail(u.todo) \in Seq(Orders) /\ Len(u.todo) \in Nat
      /\ Len(Tail(u.todo)) = Len(u.todo) - 1
      /\ \A i \in 1..Len(Tail(u.todo)) : i + 1 \in 1..Len(u.todo) /\ Tail(u.todo)[i] = u.todo[i + 1]
  BY TxFields
<1>2. t \in TxType
  BY <1>1 DEF TxType
<1>3. /\ t.items = u.items /\ t.k = u.k /\ t.order = u.order /\ t.left = u.left
      /\ t.locks = u.locks /\ t.wrote = u.wrote /\ t.set = u.set /\ t.events = u.events
      /\ t.ok = u.ok /\ t.todo = Tail(u.todo) /\ t.intended = u.intended
      /\ t.updated = u.updated /\ t.broken = u.broken
  BY DEF TxType
<1>4. TracedMarks(t, "progress") /\ TracedWrites(t)
  BY <1>3 DEF TxInv, TracedMarks, TracedWrites
<1>5. TracedIntents(t)
  BY <1>1, <1>3 DEF TxInv, TracedIntents
<1>6. Position(t, "progress", sc)
  BY <1>3 DEF TxInv, Position
<1>7. Recorded(t, sc)
  BY <1>3 DEF TxInv, Recorded, ScannedWhole
<1>8. QED
  BY <1>2, <1>4, <1>5, <1>6, <1>7 DEF TxInv

\* ordersUpdated and the event of the automatic progress.
LEMMA RecordProgressTx ==
  ASSUME NEW u \in TxType, NEW sc, TxInv(u, "progress", sc), ~u.broken,
         NEW o \in Orders, ScannedWhole(o, u, sc), NEW auto \in Seq(Event),
         NEW t, t = [u EXCEPT !.events[o] = @ \o auto, !.updated = @ \cup {o}]
  PROVE  t \in TxType /\ TxInv(t, "progress", sc)
<1>1. /\ u.events[o] \o auto \in Seq(Event)
      /\ \A x : HasStatus(u.events[o], x) => HasStatus(u.events[o] \o auto, x)
      /\ \A x : HasScan(u.events[o], x) => HasScan(u.events[o] \o auto, x)
  BY TxFields, ConcatHas
<1>2. t \in TxType
  <2>1. [u.events EXCEPT ![o] = @ \o auto] \in [Orders -> Seq(Event)]
    BY <1>1, TxFields
  <2>2. u.updated \cup {o} \subseteq Orders
    BY TxFields
  <2>3. QED
    BY <2>1, <2>2 DEF TxType
<1>3. /\ t.items = u.items /\ t.k = u.k /\ t.order = u.order /\ t.left = u.left
      /\ t.locks = u.locks /\ t.wrote = u.wrote /\ t.set = u.set
      /\ t.events = [u.events EXCEPT ![o] = @ \o auto]
      /\ t.ok = u.ok /\ t.todo = u.todo /\ t.intended = u.intended
      /\ t.updated = u.updated \cup {o} /\ t.broken = u.broken
  BY DEF TxType
<1>4. \A n \in Orders : /\ \A x : HasStatus(u.events[n], x) => HasStatus(t.events[n], x)
                        /\ \A x : HasScan(u.events[n], x) => HasScan(t.events[n], x)
  BY <1>1, <1>3, TxFields
<1>5. TracedMarks(t, "progress")
  BY <1>3, <1>4 DEF TxInv, TracedMarks, ItemRows
<1>6. TracedWrites(t) /\ TracedIntents(t)
  BY <1>3, <1>4 DEF TxInv, TracedWrites, TracedIntents
<1>7. Position(t, "progress", sc)
  BY <1>3 DEF TxInv, Position
<1>8. Recorded(t, sc)
  BY <1>3 DEF TxInv, Recorded, ScannedWhole
<1>9. QED
  BY <1>2, <1>5, <1>6, <1>7, <1>8 DEF TxInv

\* A transaction that is broken has nothing to lose.
LEMMA BreakTx ==
  ASSUME NEW u \in TxType, NEW sc, NEW t,
         t = [u EXCEPT !.broken = TRUE, !.locks = {}, !.left = {}, !.wrote = Empty.wrote,
                       !.set = Empty.set, !.events = Empty.events, !.order = None,
                       !.todo = <<>>]
  PROVE  t \in TxType /\ TxInv(t, "progress", sc)
<1>1. /\ t.locks = {} /\ t.wrote = [n \in Orders |-> None] /\ t.set = [n \in Orders |-> {}]
      /\ t.broken = TRUE /\ t.todo = <<>>
  BY DEF TxType, Empty
<1>2. t \in TxType
  <2>1. /\ Empty.wrote \in [Orders -> Status \cup {None}]
        /\ Empty.set \in [Orders -> SUBSET Stamp] /\ Empty.events \in [Orders -> Seq(Event)]
    BY DEF Empty
  <2>2. t = [op |-> u.op, items |-> u.items, k |-> u.k, order |-> None,
             prev |-> u.prev, left |-> {}, locks |-> {}, wrote |-> Empty.wrote, set |-> Empty.set,
             events |-> Empty.events, ok |-> u.ok, todo |-> <<>>,
             intended |-> u.intended, updated |-> u.updated, broken |-> TRUE]
    BY DEF TxType
  <2>3. /\ u.op \in {"none", "bulkScanItems", "bulkScanUpdate"} /\ u.items \in Seq(Item)
        /\ u.k \in Nat \ {0} /\ u.prev \in Status /\ u.ok \subseteq Nat /\ u.updated \subseteq Orders
        /\ u.intended \in [Orders -> Status \cup {None}]
    BY DEF TxType
  <2>4. <<>> \in Seq(Orders)
    OBVIOUS
  <2>5. QED
    BY <2>1, <2>2, <2>3, <2>4 DEF TxType
<1>3. QED
  BY <1>1, <1>2 DEF TxInv, TracedMarks, TracedWrites, TracedIntents, Position, Recorded

-----------------------------------------------------------------------------
(* The steps of a call, one by one.                                        *)

\* A read of an order returns a status.
LEMMA StatusSeenType ==
  ASSUME IInv, NEW r \in Requests, NEW o \in Orders
  PROVE  StatusSeen(r, o) \in Status
<1>1. tx[r] \in TxType /\ status[o] \in Status
  BY DEF IInv, TypeOK
<1>2. tx[r].wrote[o] \in Status \cup {None}
  BY <1>1, TxFields
<1>3. QED
  BY <1>1, <1>2 DEF StatusSeen

LEMMA FindOrderInv ==
  ASSUME IInv, NEW r \in Requests, FindOrder(r)
  PROVE  IInv'
<1>1. PICK o \in TargetOf(CurrentItem(r)) :
        tx' = [tx EXCEPT ![r].order = o, ![r].left = RowsOf(o, CurrentItem(r)),
                         ![r].prev = StatusSeen(r, o)]
  BY DEF FindOrder
<1> DEFINE t == [tx[r] EXCEPT !.order = o, !.left = RowsOf(o, CurrentItem(r)),
                              !.prev = StatusSeen(r, o)]
<1>2. /\ tx' = [tx EXCEPT ![r] = t] /\ pc' = [pc EXCEPT ![r] = "mark"] /\ "mark" \in PC
      /\ UNCHANGED <<committed, calls, errors, reports>>
  BY <1>1 DEF IInv, TypeOK, FindOrder, PC
<1>3. tx[r] \in TxType /\ TxInv(tx[r], "item", scanned) /\ tx[r].k <= Len(tx[r].items)
  BY DEF IInv, TypeOK, FindOrder, ItemsLeft
<1>4. t \in TxType /\ TxInv(t, "mark", scanned)
  <2>1. tx[r].items[tx[r].k] \in Item
    BY <1>3, TxFields
  <2>2. o \in Orders
    BY <2>1, TargetIsOne DEF CurrentItem
  <2>3. StatusSeen(r, o) \in Status
    BY <2>2, StatusSeenType
  <2>4. QED
    BY <1>3, <2>3, FindOrderTx DEF CurrentItem
<1> HIDE DEF t
<1>5. QED
  BY <1>2, <1>4, LocalStep DEF IInv, TypeOK

LEMMA SkipItemInv ==
  ASSUME IInv, NEW r \in Requests, SkipItem(r)
  PROVE  IInv'
<1> DEFINE t == [tx[r] EXCEPT !.k = @ + 1]
<1>1. /\ tx' = [tx EXCEPT ![r] = t] /\ pc' = [pc EXCEPT ![r] = "item"] /\ "item" \in PC
      /\ UNCHANGED <<committed, calls, errors, reports>>
  BY DEF IInv, TypeOK, SkipItem, PC
<1>2. tx[r] \in TxType /\ TxInv(tx[r], "item", scanned) /\ tx[r].k <= Len(tx[r].items)
  BY DEF IInv, TypeOK, SkipItem, ItemsLeft
<1>3. t \in TxType /\ TxInv(t, "item", scanned)
  BY <1>2, SkipItemTx DEF CurrentItem, SkipItem
<1> HIDE DEF t
<1>4. QED
  BY <1>1, <1>3, LocalStep DEF IInv, TypeOK

LEMMA MarkRowInv ==
  ASSUME IInv, NEW r \in Requests, MarkRow(r)
  PROVE  IInv'
<1>1. PICK row \in tx[r].left :
        tx' = [tx EXCEPT ![r].left = @ \ {row}, ![r].locks = @ \cup {row}]
  BY DEF MarkRow
<1> DEFINE t == [tx[r] EXCEPT !.left = @ \ {row}, !.locks = @ \cup {row}]
<1>2. /\ tx' = [tx EXCEPT ![r] = t] /\ pc' = [pc EXCEPT ![r] = "mark"] /\ "mark" \in PC
      /\ UNCHANGED <<committed, calls, errors, reports>>
  BY <1>1 DEF IInv, TypeOK, MarkRow, PC
<1>3. tx[r] \in TxType /\ TxInv(tx[r], "mark", scanned)
  BY DEF IInv, TypeOK, MarkRow
<1>4. t \in TxType /\ TxInv(t, "mark", scanned)
  BY <1>3, MarkRowTx
<1> HIDE DEF t
<1>5. QED
  BY <1>2, <1>4, LocalStep DEF IInv, TypeOK

LEMMA FinishItemInv ==
  ASSUME IInv, NEW r \in Requests, FinishItem(r)
  PROVE  IInv'
<1> DEFINE t == Processed(tx[r], "BULK_ITEM_SCAN", CurrentItem(r).status, CurrentItem(r).sku)
<1>1. /\ tx' = [tx EXCEPT ![r] = t] /\ pc' = [pc EXCEPT ![r] = "item"] /\ "item" \in PC
      /\ UNCHANGED <<committed, calls, errors, reports>>
  BY DEF IInv, TypeOK, FinishItem, PC
<1>2. tx[r] \in TxType /\ TxInv(tx[r], "mark", scanned) /\ tx[r].left = {}
  BY DEF IInv, TypeOK, FinishItem
<1>3. t \in TxType /\ TxInv(t, "item", scanned)
  <2>1. tx[r].k <= Len(tx[r].items)
    BY <1>2 DEF TxInv, Position
  <2>2. CurrentItem(r) \in Item
    BY <1>2, <2>1, TxFields DEF CurrentItem
  <2>3. CurrentItem(r).status \in Status
    BY <2>2 DEF Item
  <2>4. QED
    BY <1>2, <2>3, ProcessedTx DEF CurrentItem, FinishItem
<1> HIDE DEF t
<1>4. QED
  BY <1>1, <1>3, LocalStep DEF IInv, TypeOK

\* A timestamp stands for the status it is set with.
LEMMA StampsStandForStatus ==
  ASSUME NEW s \in Status
  PROVE  /\ AutoStamps(s) \in SUBSET Stamp /\ WholeOrderStamps(s) \in SUBSET Stamp
         /\ \A x \in WholeOrderStamps(s) : StampedStatus(x) = s
         /\ \A x \in AutoStamps(s) : StampedStatus(x) = s
BY DEF AutoStamps, WholeOrderStamps, StampedStatus, Stamp

LEMMA FinishOrderInv ==
  ASSUME IInv, NEW r \in Requests, FinishOrder(r)
  PROVE  IInv'
<1> DEFINE u == tx[r]
           o == u.order
           s == CurrentItem(r).status
           v == Processed(u, "COMPLETE_ORDER_SCAN", u.prev, None)
           t == Write(v, o, s, WholeOrderStamps(s))
<1>1. /\ tx' = [tx EXCEPT ![r] = t] /\ pc' = [pc EXCEPT ![r] = "item"] /\ "item" \in PC
      /\ UNCHANGED <<committed, calls, errors, reports>>
  BY DEF IInv, TypeOK, FinishOrder, PC
<1>2. /\ u \in TxType /\ TxInv(u, "mark", scanned) /\ u.left = {}
      /\ u.k <= Len(u.items) /\ o \in TargetOf(u.items[u.k])
  BY DEF IInv, TypeOK, FinishOrder, TxInv, Position
<1>3. u.items[u.k] \in Item
  BY <1>2, TxFields
<1>4. o \in Orders /\ s \in Status
  BY <1>2, <1>3, TargetIsOne DEF CurrentItem, Item
<1>5. v \in TxType /\ TxInv(v, "item", scanned)
  BY <1>2, TxFields, ProcessedTx
<1>6. HasStatus(v.events[o], s)
  <2> DEFINE e == [type |-> "COMPLETE_ORDER_SCAN", status |-> s, prev |-> u.prev, sku |-> None]
  <2>1. v.events = [u.events EXCEPT ![o] = Append(@, e)]
    BY <1>2 DEF Processed, TxType, CurrentItem
  <2>2. e \in Event /\ e.status = s
    BY <1>2, <1>4, TxFields DEF Event
  <2>3. u.events \in [Orders -> Seq(Event)]
    BY <1>2, TxFields
  <2> HIDE DEF e
  <2>4. HasStatus(Append(u.events[o], e), s)
    BY <1>4, <2>2, <2>3, AppendHas
  <2>5. QED
    BY <1>4, <2>1, <2>3, <2>4
<1> HIDE DEF v
<1>7. t \in TxType /\ TxInv(t, "item", scanned)
  BY <1>4, <1>5, <1>6, StampsStandForStatus, WriteTx
<1> HIDE DEF t
<1>8. QED
  BY <1>1, <1>7, LocalStep DEF IInv, TypeOK

LEMMA EndOfItemsInv ==
  ASSUME IInv, NEW r \in Requests, EndOfItems(r)
  PROVE  IInv'
<1> DEFINE t == tx[r]
<1>1. /\ tx' = [tx EXCEPT ![r] = t] /\ pc' = [pc EXCEPT ![r] = "progress"]
      /\ "progress" \in PC /\ UNCHANGED <<committed, calls, errors, reports>>
  BY DEF IInv, TypeOK, EndOfItems, PC
<1>2. t \in TxType /\ TxInv(t, "item", scanned) /\ ~(t.k <= Len(t.items))
  BY DEF IInv, TypeOK, EndOfItems, ItemsLeft
<1>3. TracedMarks(t, "progress") /\ Position(t, "progress", scanned)
  BY <1>2, TxFields DEF TxInv, TracedMarks, Position
<1>4. TxInv(t, "progress", scanned)
  BY <1>2, <1>3 DEF TxInv
<1> HIDE DEF t
<1>5. QED
  BY <1>1, <1>2, <1>4, LocalStep DEF IInv, TypeOK

\* Both decisions of the automatic progress leave an order behind.
LEMMA NextOrderInv ==
  ASSUME IInv, NEW r \in Requests, pc[r] \in {"progress", "lookup"}, tx[r].todo # <<>>,
         NextOrder(r), UNCHANGED <<committed, calls, errors, reports>>
  PROVE  IInv'
<1> DEFINE t == [tx[r] EXCEPT !.todo = Tail(@)]
<1>1. /\ tx' = [tx EXCEPT ![r] = t] /\ pc' = [pc EXCEPT ![r] = "progress"]
      /\ "progress" \in PC
  BY DEF IInv, TypeOK, NextOrder, PC
<1>2. tx[r] \in TxType /\ TxInv(tx[r], pc[r], scanned)
  BY DEF IInv, TypeOK
<1>3. t \in TxType /\ TxInv(t, "progress", scanned)
  BY <1>2, NextOrderTx
<1> HIDE DEF t
<1>4. QED
  BY <1>1, <1>3, LocalStep DEF IInv, TypeOK

LEMMA CheckCompletionInv ==
  ASSUME IInv, NEW r \in Requests, CheckCompletion(r)
  PROVE  IInv'
<1> DEFINE t == tx[r]
           o == Head(t.todo)
<1>1. /\ t \in TxType /\ TxInv(t, "progress", scanned) /\ t.todo # <<>>
      /\ UNCHANGED <<committed, calls, errors, reports>>
  BY DEF IInv, TypeOK, CheckCompletion
<1>2. CASE ~Complete(r, o)
  BY <1>1, <1>2, NextOrderInv DEF CheckCompletion
<1>3. CASE Complete(r, o)
  <2>1. /\ tx' = [tx EXCEPT ![r] = t] /\ pc' = [pc EXCEPT ![r] = "lookup"] /\ "lookup" \in PC
    BY <1>3 DEF IInv, TypeOK, CheckCompletion, PC
  <2>2. o \in Orders
    BY <1>1, TxFields
  <2>3. ScannedWhole(o, t, scanned)
    BY <1>3, <2>2, CompleteIsExact DEF ScannedWhole, Marked
  <2>4. TracedMarks(t, "lookup") /\ Position(t, "lookup", scanned)
    BY <1>1, <2>3 DEF TxInv, TracedMarks, Position
  <2>5. TxInv(t, "lookup", scanned)
    BY <1>1, <2>4 DEF TxInv
  <2> HIDE DEF t
  <2>6. QED
    BY <1>1, <2>1, <2>5, LocalStep DEF IInv, TypeOK
<1>4. QED
  BY <1>2, <1>3

LEMMA ReadStatusInv ==
  ASSUME IInv, NEW r \in Requests, ReadStatus(r)
  PROVE  IInv'
<1> DEFINE t == tx[r]
           o == Head(t.todo)
           ok == TransitionAllowed(StatusSeen(r, o), t.intended[o])
<1>1. /\ t \in TxType /\ TxInv(t, "lookup", scanned) /\ t.todo # <<>>
      /\ UNCHANGED <<committed, calls, errors, reports>>
  BY DEF IInv, TypeOK, ReadStatus, TxInv, Position
<1>2. CASE ~ok
  BY <1>1, <1>2, NextOrderInv DEF ReadStatus
<1>3. CASE ok
  <2> DEFINE n == [t EXCEPT !.prev = StatusSeen(r, o)]
  <2>1. /\ tx' = [tx EXCEPT ![r] = n] /\ pc' = [pc EXCEPT ![r] = "save"] /\ "save" \in PC
    BY <1>3 DEF IInv, TypeOK, ReadStatus, PC
  <2>2. StatusSeen(r, o) \in Status
    BY <1>1, TxFields, StatusSeenType
  <2>3. n \in TxType
    BY <1>1, <2>2 DEF TxType
  <2>4. /\ n.items = t.items /\ n.k = t.k /\ n.order = t.order /\ n.left = t.left
        /\ n.locks = t.locks /\ n.wrote = t.wrote /\ n.set = t.set /\ n.events = t.events
        /\ n.ok = t.ok /\ n.todo = t.todo /\ n.intended = t.intended
        /\ n.updated = t.updated /\ n.broken = t.broken
    BY <1>1 DEF TxType
  <2> HIDE DEF n
  <2>5. TracedMarks(n, "save") /\ Position(n, "save", scanned)
    BY <1>1, <2>4 DEF TxInv, TracedMarks, Position, ScannedWhole
  <2>6. TxInv(n, "save", scanned)
    BY <1>1, <2>4, <2>5 DEF TxInv, TracedWrites, TracedIntents, Recorded, ScannedWhole
  <2>7. QED
    BY <1>1, <2>1, <2>3, <2>6, LocalStep DEF IInv, TypeOK
<1>4. QED
  BY <1>2, <1>3

LEMMA SaveStatusInv ==
  ASSUME IInv, NEW r \in Requests, SaveStatus(r)
  PROVE  IInv'
<1> DEFINE u == tx[r]
           o == Head(u.todo)
           s == u.intended[o]
           auto == AutoEvents(u.op, s, u.prev)
           n == [u EXCEPT !.todo = Tail(@)]
           w == Write(n, o, s, AutoStamps(s))
           t == [w EXCEPT !.events[o] = @ \o auto, !.updated = @ \cup {o}]
<1>1. /\ u \in TxType /\ TxInv(u, "save", scanned) /\ u.todo # <<>> /\ ~u.broken
      /\ ScannedWhole(o, u, scanned) /\ UNCHANGED <<committed, calls, errors, reports>>
      /\ pc' = [pc EXCEPT ![r] = "progress"] /\ "progress" \in PC
  BY DEF IInv, TypeOK, SaveStatus, TxInv, Position, PC
<1>2. tx' = [tx EXCEPT ![r] = t]
  BY DEF SaveStatus
<1>3. o \in Orders /\ s \in Status /\ HasStatus(u.events[o], s)
  <2>1. o \in Orders /\ o = u.todo[1] /\ Len(u.todo) \in Nat /\ Len(u.todo) # 0
    BY <1>1, TxFields
  <2>2. u.intended \in [Orders -> Status \cup {None}] /\ u.intended[u.todo[1]] # None
    BY <1>1, <2>1, TxFields DEF TxInv, TracedIntents
  <2>3. QED
    BY <1>1, <2>1, <2>2 DEF TxInv, TracedIntents
<1>4. n \in TxType /\ TxInv(n, "progress", scanned)
  BY <1>1, NextOrderTx
<1>5. n.events = u.events /\ n.locks = u.locks /\ n.broken = u.broken
  BY <1>1 DEF TxType
<1>6. auto \in Seq(Event)
  <2>1. [type |-> "BULK_AUTO_STATUS_UPDATE", status |-> s, prev |-> u.prev, sku |-> None] \in Event
    BY <1>1, <1>3, TxFields DEF Event
  <2>2. QED
    BY <2>1 DEF AutoEvents
<1> HIDE DEF n, auto
<1>7. w \in TxType /\ TxInv(w, "progress", scanned)
  BY <1>3, <1>4, <1>5, StampsStandForStatus, WriteTx
<1>8. w.broken = u.broken /\ u.locks \subseteq w.locks
  BY <1>4, <1>5 DEF Write, TxType
<1>9. ScannedWhole(o, w, scanned)
  BY <1>1, <1>8 DEF ScannedWhole
<1> HIDE DEF w
<1>10. t \in TxType /\ TxInv(t, "progress", scanned)
  BY <1>1, <1>3, <1>6, <1>7, <1>8, <1>9, RecordProgressTx
<1> HIDE DEF t
<1>11. QED
  BY <1>1, <1>2, <1>10, LocalStep DEF IInv, TypeOK

\* Errors: a broken transaction is of no consequence.
LEMMA BreakInv ==
  ASSUME IInv, NEW r \in Requests, Break(r), errors' \in 0..MaxErrors
  PROVE  IInv'
<1> DEFINE t == [tx[r] EXCEPT !.broken = TRUE, !.locks = {}, !.left = {},
                              !.wrote = Empty.wrote, !.set = Empty.set,
                              !.events = Empty.events, !.order = None, !.todo = <<>>]
<1>1. /\ tx' = [tx EXCEPT ![r] = t] /\ pc' = [pc EXCEPT ![r] = "progress"]
      /\ "progress" \in PC /\ UNCHANGED <<committed, calls, reports>>
  BY DEF IInv, TypeOK, Break, PC
<1>2. t \in TxType /\ TxInv(t, "progress", scanned)
  BY BreakTx DEF IInv, TypeOK
<1> HIDE DEF t
<1>3. QED
  BY <1>1, <1>2, LocalStep DEF IInv, TypeOK

\* An answer of a transaction that was rolled back.
LEMMA RolledBackInv ==
  ASSUME IInv, NEW r \in Requests, NEW outcome \in Outcomes \ {"committed"},
         Answer(r, outcome), UNCHANGED <<committed, calls>>, errors' \in 0..MaxErrors
  PROVE  IInv'
<1> DEFINE rep == [items |-> tx[r].items, ok |-> tx[r].ok, updated |-> tx[r].updated,
                   outcome |-> outcome]
<1>1. tx' = [tx EXCEPT ![r] = Empty] /\ pc' = [pc EXCEPT ![r] = "idle"]
        /\ reports' = reports \cup {rep}
  BY DEF Answer
<1>2. rep.items \in Seq(Item) /\ rep.ok \subseteq Nat /\ rep.updated \subseteq Orders
        /\ rep.outcome \in Outcomes
  BY TxFields DEF IInv, TypeOK
<1>3. TypeOK'
  BY <1>1, <1>2, EmptyType DEF IInv, TypeOK, committed, PC
<1>4. \A q \in Requests : TxInv(tx[q], pc[q], scanned)'
  BY <1>1, EmptyInv DEF IInv, TypeOK, committed
<1>5. CommittedReportIsComplete'
  <2>1. {p \in reports' : p.outcome = "committed"} = {p \in reports : p.outcome = "committed"}
    BY <1>1
  <2>2. QED
    BY <2>1 DEF IInv, CommittedReportIsComplete, committed
<1>6. QED
  BY <1>3, <1>4, <1>5 DEF IInv, MarksAreTraced, StatusIsTraced, committed

\* A commit publishes writes and the events they have in the transaction.
LEMMA CommitInv ==
  ASSUME IInv, NEW r \in Requests, Commit(r)
  PROVE  IInv'
<1> DEFINE t == tx[r]
           rep == [items |-> t.items, ok |-> t.ok, updated |-> t.updated,
                   outcome |-> "committed"]
<1>1. /\ t \in TxType /\ TxInv(t, "progress", scanned) /\ ~t.broken
      /\ t.todo = <<>> /\ t.k = Len(t.items) + 1
  BY DEF IInv, TypeOK, Commit, Done, TxInv, Position
<1>2. /\ status' = [o \in Orders |-> StatusSeen(r, o)]
      /\ stamps' = [o \in Orders |-> stamps[o] \cup t.set[o]]
      /\ scanned' = scanned \cup (t.locks \cap ItemRows)
      /\ log' = [o \in Orders |-> log[o] \o t.events[o]]
      /\ tx' = [tx EXCEPT ![r] = Empty] /\ pc' = [pc EXCEPT ![r] = "idle"]
      /\ reports' = reports \cup {rep} /\ UNCHANGED <<calls, errors>>
  BY DEF Commit, Answer, Marked
<1>3. ASSUME NEW o \in Orders
      PROVE  /\ log'[o] \in Seq(Event)
             /\ \A x : HasStatus(log[o], x) \/ HasStatus(t.events[o], x) => HasStatus(log'[o], x)
             /\ \A x : HasScan(log[o], x) \/ HasScan(t.events[o], x) => HasScan(log'[o], x)
  <2>1. log[o] \in Seq(Event) /\ t.events[o] \in Seq(Event)
    BY <1>1, TxFields DEF IInv, TypeOK
  <2>2. QED
    BY <1>2, <2>1, ConcatHas
<1>4. TypeOK'
  <2>1. status' \in [Orders -> Status]
    BY <1>1, <1>2, TxFields DEF IInv, TypeOK, StatusSeen
  <2>2. stamps' \in [Orders -> SUBSET Stamp]
    BY <1>1, <1>2, TxFields DEF IInv, TypeOK
  <2>3. log' \in [Orders -> Seq(Event)]
    BY <1>2, <1>3
  <2>4. rep.items \in Seq(Item) /\ rep.ok \subseteq Nat /\ rep.updated \subseteq Orders
          /\ rep.outcome \in Outcomes
    BY <1>1, TxFields DEF Outcomes
  <2>5. reports' \subseteq [items : Seq(Item), ok : SUBSET Nat, updated : SUBSET Orders,
                            outcome : Outcomes]
    BY <1>2, <2>4 DEF IInv, TypeOK
  <2>6. scanned' \subseteq ItemRows
    BY <1>2 DEF IInv, TypeOK
  <2>7. tx' \in [Requests -> TxType] /\ pc' \in [Requests -> PC]
    BY <1>2, EmptyType DEF IInv, TypeOK, PC
  <2>8. QED
    BY <1>2, <2>1, <2>2, <2>3, <2>5, <2>6, <2>7 DEF IInv, TypeOK
<1>5. \A q \in Requests : TxInv(tx[q], pc[q], scanned)'
  <2> SUFFICES ASSUME NEW q \in Requests PROVE TxInv(tx'[q], pc'[q], scanned')
    OBVIOUS
  <2>1. CASE q = r
    <3>1. TxInv(Empty, "idle", scanned')
      BY EmptyInv, <1>2, MoreMarks
    <3>2. QED
      BY <1>2, <2>1, <3>1 DEF IInv, TypeOK
  <2>2. CASE q # r
    <3>1. TxInv(tx[q], pc[q], scanned')
      BY <1>2, MoreMarks DEF IInv
    <3>2. QED
      BY <1>2, <2>2, <3>1 DEF IInv, TypeOK
  <2>3. QED
    BY <2>1, <2>2
<1>6. MarksAreTraced'
  <2> SUFFICES ASSUME NEW row \in scanned' PROVE HasScan(log'[row[1]], row[2])
    BY DEF MarksAreTraced
  <2>1. row \in scanned \/ row \in t.locks \cap ItemRows
    BY <1>2
  <2>2. row[1] \in Orders
    BY <2>1 DEF IInv, TypeOK, ItemRows
  <2>3. HasScan(log[row[1]], row[2]) \/ HasScan(t.events[row[1]], row[2])
    BY <1>1, <2>1 DEF IInv, MarksAreTraced, TxInv, TracedMarks
  <2>4. QED
    BY <1>3, <2>2, <2>3
<1>7. StatusIsTraced'
  <2> SUFFICES ASSUME NEW o \in Orders
               PROVE  /\ status'[o] # FirstStatus => HasStatus(log'[o], status'[o])
                      /\ \A st \in stamps'[o] : HasStatus(log'[o], StampedStatus(st))
    BY DEF StatusIsTraced
  <2>1. status'[o] # FirstStatus => HasStatus(log[o], status'[o]) \/ HasStatus(t.events[o], status'[o])
    BY <1>1, <1>2 DEF IInv, StatusIsTraced, StatusSeen, TxInv, TracedWrites
  <2>2. \A st \in stamps'[o] : HasStatus(log[o], StampedStatus(st))
                                 \/ HasStatus(t.events[o], StampedStatus(st))
    BY <1>1, <1>2 DEF IInv, StatusIsTraced, TxInv, TracedWrites
  <2>3. QED
    BY <1>3, <2>1, <2>2
<1>8. CommittedReportIsComplete'
  <2>1. ASSUME NEW p \in reports, p.outcome = "committed"
        PROVE  /\ p.ok = {k \in 1..Len(p.items) : TargetOf(p.items[k]) # {}}
               /\ \A k \in p.ok : \A o \in TargetOf(p.items[k]) :
                    RowsOf(o, p.items[k]) \subseteq scanned'
               /\ \A o \in p.updated : Contents[o] # {} /\ {o} \X Contents[o] \subseteq scanned'
    BY <1>2, <2>1 DEF IInv, CommittedReportIsComplete
  <2>2. t.ok = {k \in 1..Len(t.items) : TargetOf(t.items[k]) # {}}
    <3>1. t.k - 1 = Len(t.items)
      BY <1>1, TxFields
    <3>2. QED
      BY <1>1, <3>1 DEF TxInv, Recorded
  <2>3. \A k \in t.ok : \A o \in TargetOf(t.items[k]) : RowsOf(o, t.items[k]) \subseteq scanned'
    <3> SUFFICES ASSUME NEW k \in t.ok, NEW o \in TargetOf(t.items[k])
                 PROVE  RowsOf(o, t.items[k]) \subseteq scanned'
      OBVIOUS
    <3>1. t.items[k] \in Item
      BY <1>1, <2>2, TxFields
    <3>2. RowsOf(o, t.items[k]) \subseteq t.locks
      BY <1>1 DEF TxInv, Recorded
    <3>3. QED
      BY <1>2, <3>1, <3>2, TargetIsOne
  <2>4. \A o \in t.updated : Contents[o] # {} /\ {o} \X Contents[o] \subseteq scanned'
    <3> SUFFICES ASSUME NEW o \in t.updated
                 PROVE  Contents[o] # {} /\ {o} \X Contents[o] \subseteq scanned'
      OBVIOUS
    <3>1. ScannedWhole(o, t, scanned) /\ o \in Orders
      BY <1>1, TxFields DEF TxInv, Recorded
    <3>2. {o} \X Contents[o] \subseteq ItemRows
      BY <3>1 DEF ItemRows
    <3>3. QED
      BY <1>2, <3>1, <3>2 DEF ScannedWhole
  <2>5. rep.items = t.items /\ rep.ok = t.ok /\ rep.updated = t.updated
    OBVIOUS
  <2> HIDE DEF rep, t
  <2>6. ASSUME NEW p \in {q \in reports' : q.outcome = "committed"}
        PROVE  /\ p.ok = {k \in 1..Len(p.items) : TargetOf(p.items[k]) # {}}
               /\ \A k \in p.ok : \A o \in TargetOf(p.items[k]) :
                    RowsOf(o, p.items[k]) \subseteq scanned'
               /\ \A o \in p.updated : Contents[o] # {} /\ {o} \X Contents[o] \subseteq scanned'
    <3>1. p = rep \/ (p \in reports /\ p.outcome = "committed")
      BY <1>2
    <3>2. CASE p \in reports /\ p.outcome = "committed"
      BY <2>1, <3>2
    <3>3. CASE p = rep
      BY <2>2, <2>3, <2>4, <2>5, <3>3
    <3>4. QED
      BY <3>1, <3>2, <3>3
  <2>7. QED
    BY <2>6 DEF CommittedReportIsComplete
<1>9. QED
  BY <1>4, <1>5, <1>6, <1>7, <1>8 DEF IInv

LEMMA NextIInv == IInv /\ [Next]_vars => IInv'
<1> SUFFICES ASSUME IInv, [Next]_vars PROVE IInv'
  OBVIOUS
<1>0. calls \in 0..MaxCalls /\ errors \in 0..MaxErrors
  BY DEF IInv, TypeOK
<1>1. ASSUME NEW r \in Requests, Step(r) PROVE IInv'
  <2>1. CASE FindOrder(r)
    BY <2>1, FindOrderInv
  <2>2. CASE SkipItem(r)
    BY <2>2, SkipItemInv
  <2>3. CASE MarkRow(r)
    BY <2>3, MarkRowInv
  <2>4. CASE FinishItem(r)
    BY <2>4, FinishItemInv
  <2>5. CASE FinishOrder(r)
    BY <2>5, FinishOrderInv
  <2>6. CASE EndOfItems(r)
    BY <2>6, EndOfItemsInv
  <2>7. CASE CheckCompletion(r)
    BY <2>7, CheckCompletionInv
  <2>8. CASE ReadStatus(r)
    BY <2>8, ReadStatusInv
  <2>9. CASE SaveStatus(r)
    BY <2>9, SaveStatusInv
  <2>10. CASE Commit(r)
    BY <2>10, CommitInv
  <2>11. CASE CommitOfBroken(r)
    BY <1>0, <2>11, RolledBackInv DEF CommitOfBroken, Outcomes
  <2>12. CASE DeadlockVictim(r)
    BY <1>0, <2>12, BreakInv DEF DeadlockVictim
  <2>13. QED
    BY <1>1, <2>1, <2>2, <2>3, <2>4, <2>5, <2>6, <2>7, <2>8, <2>9, <2>10, <2>11, <2>12 DEF Step
<1>2. ASSUME NEW r \in Requests, NEW b \in Batches, Start(r, b) PROVE IInv'
  BY <1>2, StartInv
<1>3. ASSUME errors < MaxErrors, errors' = errors + 1 PROVE errors' \in 0..MaxErrors
  BY <1>0, <1>3, BulkScanAssumption
<1>4. ASSUME NEW r \in Requests, StatementFails(r) PROVE IInv'
  BY <1>3, <1>4, BreakInv DEF StatementFails
<1>5. ASSUME NEW r \in Requests, TimesOut(r) PROVE IInv'
  BY <1>3, <1>5, RolledBackInv DEF TimesOut, Outcomes
<1>6. CASE UNCHANGED vars
  <2>1. TypeOK' /\ MarksAreTraced' /\ StatusIsTraced' /\ CommittedReportIsComplete'
    BY <1>6 DEF vars, committed, IInv, TypeOK, MarksAreTraced, StatusIsTraced,
                CommittedReportIsComplete
  <2>2. \A r \in Requests : TxInv(tx[r], pc[r], scanned)'
    BY <1>6 DEF vars, committed, IInv
  <2>3. QED
    BY <2>1, <2>2 DEF IInv
<1>7. QED
  BY <1>1, <1>2, <1>4, <1>5, <1>6 DEF Next

LEMMA BatchInvariant == Spec => []IInv
<1>1. Init => IInv
  BY InitIInv
<1>2. IInv /\ [Next]_vars => IInv'
  BY NextIInv
<1>3. QED
  BY <1>1, <1>2, PTL DEF Spec

\* The committed rows, the transactions in flight and the answers have their
\* types; above all, the status an order is given is always one it was asked for.
THEOREM BulkTypeCorrect == Spec => []TypeOK
<1>1. IInv => TypeOK
  BY DEF IInv
<1>2. QED
  BY <1>1, BatchInvariant, PTL

\* However batches interleave, deadlock, fail or time out, a committed mark has
\* a committed event of a scan of its item or of its whole order.
THEOREM BulkMarksAreTraced == Spec => []MarksAreTraced
<1>1. IInv => MarksAreTraced
  BY DEF IInv
<1>2. QED
  BY <1>1, BatchInvariant, PTL

\* An order that left its first status, or has a timestamp, has an event of
\* that status, although the automatic progress of bulkScanUpdate creates none.
THEOREM BulkStatusIsTraced == Spec => []StatusIsTraced
<1>1. IInv => StatusIsTraced
  BY DEF IInv
<1>2. QED
  BY <1>1, BatchInvariant, PTL

\* A batch that commits has scanned every item it found and answers so, and an
\* order it reports as updated is completely scanned: catching the errors of
\* single items inside the transaction never commits a part of a batch.
THEOREM CommittedBatchesAreComplete == Spec => []CommittedReportIsComplete
<1>1. IInv => CommittedReportIsComplete
  BY DEF IInv
<1>2. QED
  BY <1>1, BatchInvariant, PTL
=============================================================================
