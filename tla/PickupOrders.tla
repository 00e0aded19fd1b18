---------------------------- MODULE PickupOrders ----------------------------
(***************************************************************************)
(* Pickups and their orders: src/modules/pickup/pickup.service.ts over the *)
(* writes of src/shared/factory/base.repository.ts.  Every statement       *)
(* commits by itself and a handler suspends between two of them, so        *)
(* handlers run into each other, and into the deletion of the orders and   *)
(* the pickup they work on.                                                *)
(***************************************************************************)
EXTENDS OrderStatus

CONSTANTS
  Requests,        \* slots for handlers in flight
  Orders,          \* the orders there are; customers open them elsewhere
  MaxPickups,      \* bound: pickups made
  Edits,           \* what the body of an edit asks of the pickup's own row
  StatusRequests,  \* pairs of statuses asked for a pickup and its orders
  FirstStatus,     \* the status of the orders before
  None,            \* no pickup; in an edit, no status
  MaxCalls,        \* bound: handlers started
  MaxAborts        \* bound: handlers that stop half way

Pickups == 1..MaxPickups

PickupStatus == {"CREATED", "PENDING", "SCHEDULED", "APPROVED", "REJECTED",
                 "ASSIGNED", "IN_PROGRESS", "COMPLETED", "CANCELLED", "FAILED",
                 "RESCHEDULED"}

\* "unusable": a body the DTO admits and the update of the row does not, an
\* address, or a date without a time in scheduledFor.
EditAsked == PickupStatus \cup {None, "unusable"}

ASSUME PickupOrdersAssumption ==
  /\ MaxPickups \in Nat
  /\ Edits \subseteq EditAsked
  /\ StatusRequests \subseteq PickupStatus \X Status
  /\ FirstStatus \in Status
  /\ None \notin Nat /\ None \notin PickupStatus
  /\ MaxCalls \in Nat /\ MaxAborts \in Nat

VARIABLES
  made,            \* pickups made so far are 1..made
  pstatus,         \* pickups.status
  assigned,        \* orders.pickupId
  ostatus,         \* orders.status
  deletedOrders,   \* orders with deletedAt
  deletedPickups,  \* pickups with deletedAt
  pc,              \* where the handler of a slot is suspended
  call,            \* its locals
  calls,           \* handlers started
  aborts           \* handlers that stopped half way

tables == <<made, pstatus, assigned, ostatus, deletedOrders, deletedPickups>>
vars == <<tables, pc, call, calls, aborts>>

PC == {"idle", "create", "attachNew", "check", "current", "detach", "attach",
       "save", "status", "list", "statuses"}

\* pickup: the one the handler works on; orders: dto.orderIds; current: the
\* orders it listed; edit, status: what it will write; customer: who asks;
\* raced, kept to state TakenOnlyInRace: the orders that another handler has
\* attached since this one found them free.
NoCall == [pickup |-> None, orders |-> {}, current |-> {}, edit |-> None,
           status |-> FirstStatus, customer |-> FALSE, raced |-> {}]

Init ==
  /\ made = 0
  /\ pstatus = [p \in Pickups |-> "CREATED"]
  /\ assigned = [o \in Orders |-> None]
  /\ ostatus = [o \in Orders |-> FirstStatus]
  /\ deletedOrders = {}
  /\ deletedPickups = {}
  /\ pc = [r \in Requests |-> "idle"]
  /\ call = [r \in Requests |-> NoCall]
  /\ calls = 0
  /\ aborts = 0

-----------------------------------------------------------------------------
(* The tables.                                                             *)

\* applySoftDelete: reads and writes of the repositories pass deleted rows by.
LiveOrders == Orders \ deletedOrders
Live(p) == p <= made /\ p \notin deletedPickups
OrdersOf(p) == {o \in LiveOrders : assigned[o] = p}

\* updateMany without applySoftDelete.
UpdateAllOrders(column, S, value) ==
  [o \in Orders |-> IF o \in S THEN value ELSE column[o]]

\* updateMany of the orders S.
UpdateOrders(column, S, value) ==
  [o \in Orders |-> IF o \in S \cap LiveOrders THEN value ELSE column[o]]

Arrive(r, step, c) ==
  /\ pc[r] = "idle"
  /\ calls < MaxCalls
  /\ calls' = calls + 1
  /\ pc' = [pc EXCEPT ![r] = step]
  /\ call' = [call EXCEPT ![r] = c]
  /\ UNCHANGED aborts

Goto(r, step) ==
  /\ pc' = [pc EXCEPT ![r] = step]
  /\ UNCHANGED <<calls, aborts>>

\* An answer or an error, the handler is over.
End(r) ==
  /\ Goto(r, "idle")
  /\ call' = [call EXCEPT ![r] = NoCall]
-----------------------------------------------------------------------------
(* createPickup                                                            *)

\* The look at the orders is left out.
CreatePickupUnchecked(r, S) ==
  /\ Arrive(r, "create", [NoCall EXCEPT !.orders = S])
  /\ UNCHANGED tables

\* findMany finds none of the orders with a pickup.
CreatePickup(r, S) ==
  /\ \A o \in S \cap LiveOrders : assigned[o] = None
  /\ Arrive(r, "create", [NoCall EXCEPT !.orders = S])
  /\ UNCHANGED tables

InsertPickup(r) ==
  /\ pc[r] = "create"
  /\ made < MaxPickups
  /\ made' = made + 1
  /\ call' = [call EXCEPT ![r].pickup = made + 1]
  /\ Goto(r, "attachNew")
  /\ UNCHANGED <<pstatus, assigned, ostatus, deletedOrders, deletedPickups>>

\* r attaches its orders, which others have looked at before they attach theirs.
Claiming == {"create", "attachNew", "current", "detach", "attach"}
Raced(r) ==
  [x \in Requests |->
     IF x # r /\ pc[x] \in Claiming
       THEN [call[x] EXCEPT !.raced = @ \cup (call[r].orders \cap call[x].orders)]
       ELSE call[x]]

AttachToNew(r) ==
  /\ pc[r] = "attachNew"
  /\ assigned' = UpdateOrders(assigned, call[r].orders, call[r].pickup)
  /\ Goto(r, "idle")
  /\ call' = [Raced(r) EXCEPT ![r] = NoCall]
  /\ UNCHANGED <<made, pstatus, ostatus, deletedOrders, deletedPickups>>
-----------------------------------------------------------------------------
(* updatePickup                                                            *)

\* findOne; a customer may edit a pickup that is CREATED.
UpdatePickup(r, p, S, e, customer) ==
  /\ Live(p)
  /\ customer => pstatus[p] = "CREATED"
  /\ Arrive(r, IF S = {} THEN "save" ELSE "check",
            [NoCall EXCEPT !.pickup = p, !.orders = S, !.edit = e, !.customer = customer])
  /\ UNCHANGED tables

\* Refused only when every order has another pickup.
CheckAnyOrder(r) ==
  LET taken == {o \in call[r].orders \cap LiveOrders :
                  assigned[o] \notin {None, call[r].pickup}} IN
  /\ pc[r] = "check"
  /\ IF taken # call[r].orders THEN Goto(r, "current") /\ UNCHANGED call ELSE End(r)
  /\ UNCHANGED tables

\* pickupId: { not: p } leaves out orders without a pickup, as NULL does in SQL.
CheckOrders(r) ==
  LET taken == {o \in call[r].orders \cap LiveOrders :
                  assigned[o] \notin {None, call[r].pickup}} IN
  /\ pc[r] = "check"
  /\ IF taken = {} THEN Goto(r, "current") /\ UNCHANGED call ELSE End(r)
  /\ UNCHANGED tables

ListCurrent(r) ==
  LET mine == OrdersOf(call[r].pickup) IN
  /\ pc[r] = "current"
  /\ call' = [call EXCEPT ![r].current = mine]
  /\ Goto(r, IF mine = {} THEN "attach" ELSE "detach")
  /\ UNCHANGED tables

Detach(r) ==
  /\ pc[r] = "detach"
  /\ assigned' = UpdateOrders(assigned, call[r].current, None)
  /\ Goto(r, "attach")
  /\ UNCHANGED <<made, pstatus, ostatus, deletedOrders, deletedPickups, call>>

Attach(r) ==
  /\ pc[r] = "attach"
  /\ assigned' = UpdateOrders(assigned, call[r].orders, call[r].pickup)
  /\ Goto(r, "save")
  /\ call' = Raced(r)
  /\ UNCHANGED <<made, pstatus, ostatus, deletedOrders, deletedPickups>>

\* pickupRepo.update, which fails on a row that is gone or on an unusable body.
Save(r) ==
  LET p == call[r].pickup
      e == call[r].edit IN
  /\ pc[r] = "save"
  /\ IF Live(p) /\ e \in PickupStatus
       THEN pstatus' = [pstatus EXCEPT ![p] = e]
       ELSE UNCHANGED pstatus
  /\ End(r)
  /\ UNCHANGED <<made, assigned, ostatus, deletedOrders, deletedPickups>>
-----------------------------------------------------------------------------
(* updatePickupStatusAndOrders and opsRespondOnPickupRequest               *)

UpdateStatus(r, p, ps, os) ==
  /\ Live(p)
  /\ Arrive(r, "status", [NoCall EXCEPT !.pickup = p, !.edit = ps, !.status = os])
  /\ UNCHANGED tables

WritePickupStatus(r) ==
  LET p == call[r].pickup IN
  /\ pc[r] = "status"
  /\ IF Live(p)
       THEN /\ pstatus' = [pstatus EXCEPT ![p] = call[r].edit]
            /\ Goto(r, "list")
            /\ UNCHANGED call
       ELSE End(r) /\ UNCHANGED pstatus
  /\ UNCHANGED <<made, assigned, ostatus, deletedOrders, deletedPickups>>

ListOrders(r) ==
  LET mine == OrdersOf(call[r].pickup) IN
  /\ pc[r] = "list"
  /\ IF mine = {}
       THEN End(r)
       ELSE /\ call' = [call EXCEPT ![r].current = mine]
            /\ Goto(r, "statuses")
  /\ UNCHANGED tables

WriteOrderStatuses(r) ==
  /\ pc[r] = "statuses"
  /\ ostatus' = UpdateOrders(ostatus, call[r].current, call[r].status)
  /\ End(r)
  /\ UNCHANGED <<made, pstatus, assigned, deletedOrders, deletedPickups>>
-----------------------------------------------------------------------------
\* deletePickup: a soft delete, which no foreign key notices.
DeletePickup(r, p) ==
  /\ Live(p)
  /\ deletedPickups' = deletedPickups \cup {p}
  /\ Arrive(r, "idle", NoCall)
  /\ UNCHANGED <<made, pstatus, assigned, ostatus, deletedOrders>>

\* DELETE /orders/:id of the order service.
DeleteOrder(r, o) ==
  /\ o \in LiveOrders
  /\ deletedOrders' = deletedOrders \cup {o}
  /\ Arrive(r, "idle", NoCall)
  /\ UNCHANGED <<made, pstatus, assigned, ostatus, deletedPickups>>

\* A statement fails, or the process dies: the writes before it stay.
Abort(r) ==
  /\ pc[r] # "idle"
  /\ aborts < MaxAborts
  /\ aborts' = aborts + 1
  /\ pc' = [pc EXCEPT ![r] = "idle"]
  /\ call' = [call EXCEPT ![r] = NoCall]
  /\ UNCHANGED <<tables, calls>>

Step(r) ==
  \/ InsertPickup(r) \/ AttachToNew(r)
  \/ CheckOrders(r) \/ ListCurrent(r) \/ Detach(r) \/ Attach(r) \/ Save(r)
  \/ WritePickupStatus(r) \/ ListOrders(r) \/ WriteOrderStatuses(r)

Next ==
  \E r \in Requests :
    \/ \E S \in (SUBSET Orders) \ {{}} : CreatePickup(r, S)
    \/ \E p \in Pickups, S \in SUBSET Orders, e \in Edits, customer \in BOOLEAN :
         UpdatePickup(r, p, S, e, customer)
    \/ \E p \in Pickups, req \in StatusRequests : UpdateStatus(r, p, req[1], req[2])
    \/ \E p \in Pickups : DeletePickup(r, p)
    \/ \E o \in Orders : DeleteOrder(r, o)
    \/ Step(r)
    \/ Abort(r)

Spec == Init /\ [][Next]_vars
-----------------------------------------------------------------------------
(* Properties.                                                             *)

CallType ==
  [pickup : Pickups \cup {None}, orders : SUBSET Orders, current : SUBSET Orders,
   edit : EditAsked, status : Status, customer : BOOLEAN, raced : SUBSET Orders]

\* Type invariant of the pickups and of the handlers that work on them.
TypeOK ==
  /\ made \in 0..MaxPickups
  /\ pstatus \in [Pickups -> PickupStatus]
  /\ assigned \in [Orders -> Pickups \cup {None}]
  /\ ostatus \in [Orders -> Status]
  /\ deletedOrders \subseteq Orders
  /\ deletedPickups \subseteq 1..made
  /\ pc \in [Requests -> PC]
  /\ call \in [Requests -> CallType]
  /\ calls \in 0..MaxCalls
  /\ aborts \in 0..MaxAborts

\* A handler decides on rows that were live, and writes when they may have been
\* deleted: no row that is deleted is changed any more.
DeletedRowsAreFrozen ==
  [][/\ \A o \in deletedOrders : assigned'[o] = assigned[o] /\ ostatus'[o] = ostatus[o]
     /\ \A p \in deletedPickups : pstatus'[p] = pstatus[p]]_vars

\* An order with a pickup is never given to another one: "Some orders are already
\* assigned to a pickup" is all a handler that asks for it gets.
NoOrderTaken ==
  [][\A o \in Orders : assigned[o] # None /\ assigned'[o] # None
                         => assigned'[o] = assigned[o]]_vars

\* The handler h attaches orders, among them o, which another has attached since h
\* found it free.
AttachesRaced(h, o) ==
  /\ pc[h] \in {"attachNew", "attach"} /\ pc'[h] # pc[h]
  /\ o \in call[h].orders \cap call[h].raced

\* What is left of NoOrderTaken when handlers meet: an order is taken from a pickup
\* only in the race of two claims.  Whatever is edited, deleted or stopped half way,
\* the one that takes it found it free, or its own, and it was attached since then.
TakenOnlyInRace ==
  [][\A o \in Orders : assigned[o] # None /\ assigned'[o] # None
                         /\ assigned'[o] # assigned[o]
                         => \E h \in Requests : AttachesRaced(h, o)]_vars

-----------------------------------------------------------------------------
(* One handler at a time implements PickupLedger.  A handler that has      *)
(* begun to write has, for the ledger, written everything.                 *)

Exchanging(r) == pc[r] \in {"detach", "attach"}

\* The pickup of order o once the running handlers are through.
AssignedView(o) ==
  IF o \notin LiveOrders THEN assigned[o]
  ELSE IF \E r \in Requests : (Exchanging(r) \/ pc[r] = "attachNew") /\ o \in call[r].orders
    THEN call[CHOOSE r \in Requests :
                (Exchanging(r) \/ pc[r] = "attachNew") /\ o \in call[r].orders].pickup
  ELSE IF \E r \in Requests : Exchanging(r) /\ o \in call[r].current
    THEN None
  ELSE assigned[o]

PickupStatusView(p) ==
  IF \E r \in Requests : /\ Exchanging(r) \/ pc[r] = "save"
                         /\ call[r].pickup = p /\ call[r].edit \in PickupStatus
    THEN call[CHOOSE r \in Requests :
                /\ Exchanging(r) \/ pc[r] = "save"
                /\ call[r].pickup = p /\ call[r].edit \in PickupStatus].edit
    ELSE pstatus[p]

OrderStatusView(o) ==
  IF \E r \in Requests : /\ pc[r] \in {"list", "statuses"} /\ o \in LiveOrders
                         /\ assigned[o] = call[r].pickup
    THEN call[CHOOSE r \in Requests :
                /\ pc[r] \in {"list", "statuses"} /\ o \in LiveOrders
                /\ assigned[o] = call[r].pickup].status
    ELSE ostatus[o]

Ledger == INSTANCE PickupLedger WITH
  assigned <- [o \in Orders |-> AssignedView(o)],
  pstatus <- [p \in Pickups |-> PickupStatusView(p)],
  ostatus <- [o \in Orders |-> OrderStatusView(o)]

\* Handlers that run one after the other, and to their end, are the atomic
\* operations of the ledger.
ImplementsLedger == Ledger!Spec
=============================================================================
