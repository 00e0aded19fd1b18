---------------------------- MODULE PickupLedger ----------------------------
(***************************************************************************)
(* What src/modules/pickup/pickup.service.ts promises when nothing comes   *)
(* between the steps of a handler: every operation happens at once.  A     *)
(* pickup claims orders that no pickup has, an edit exchanges the orders   *)
(* of its own pickup, and a status is given to a pickup and its orders     *)
(* together.                                                               *)
(***************************************************************************)
EXTENDS OrderStatus

CONSTANTS
  Orders,        \* the orders there are
  Pickups,       \* pickups that can be made: 1..n
  PickupStatus,  \* the statuses of a pickup
  None           \* no pickup

VARIABLES
  made,           \* how many pickups have been made
  pstatus,        \* pstatus[p]
  assigned,       \* assigned[o], the pickup of order o, or None
  ostatus,        \* ostatus[o]
  deletedOrders,
  deletedPickups

vars == <<made, pstatus, assigned, ostatus, deletedOrders, deletedPickups>>

Live(p) == p \in Pickups /\ p <= made /\ p \notin deletedPickups
LiveOrders == Orders \ deletedOrders
OrdersOf(p) == {o \in LiveOrders : assigned[o] = p}

Init ==
  /\ made = 0
  /\ pstatus = [p \in Pickups |-> "CREATED"]
  /\ assigned = [o \in Orders |-> None]
  /\ ostatus \in [Orders -> Status]
  /\ deletedOrders = {}
  /\ deletedPickups = {}

Claim(S) ==
  /\ made + 1 \in Pickups
  /\ \A o \in S \cap LiveOrders : assigned[o] = None
  /\ made' = made + 1
  /\ assigned' = [o \in Orders |-> IF o \in S \cap LiveOrders THEN made + 1 ELSE assigned[o]]
  /\ UNCHANGED <<pstatus, ostatus, deletedOrders, deletedPickups>>

\* S replaces the orders of p.
Exchange(p, S, s) ==
  /\ Live(p)
  /\ \A o \in S \cap LiveOrders : assigned[o] \in {None, p}
  /\ assigned' = [o \in Orders |-> CASE o \in S \cap LiveOrders    -> p
                                     [] o \in OrdersOf(p) \ S      -> None
                                     [] OTHER                      -> assigned[o]]
  /\ pstatus' = [pstatus EXCEPT ![p] = s]
  /\ UNCHANGED <<made, ostatus, deletedOrders, deletedPickups>>

\* An edit that names no orders.
Edit(p, s) ==
  /\ Live(p)
  /\ pstatus' = [pstatus EXCEPT ![p] = s]
  /\ UNCHANGED <<made, assigned, ostatus, deletedOrders, deletedPickups>>

SetStatus(p, ps, os) ==
  /\ Live(p)
  /\ pstatus' = [pstatus EXCEPT ![p] = ps]
  /\ ostatus' = [o \in Orders |-> IF o \in OrdersOf(p) THEN os ELSE ostatus[o]]
  /\ UNCHANGED <<made, assigned, deletedOrders, deletedPickups>>

Delete(p) ==
  /\ Live(p)
  /\ deletedPickups' = deletedPickups \cup {p}
  /\ UNCHANGED <<made, pstatus, assigned, ostatus, deletedOrders>>

DeleteOrder(o) ==
  /\ o \in LiveOrders
  /\ deletedOrders' = deletedOrders \cup {o}
  /\ UNCHANGED <<made, pstatus, assigned, ostatus, deletedPickups>>

Next ==
  \/ \E S \in (SUBSET Orders) \ {{}} : Claim(S)
  \/ \E p \in Pickups, S \in (SUBSET Orders) \ {{}}, s \in PickupStatus : Exchange(p, S, s)
  \/ \E p \in Pickups, s \in PickupStatus : Edit(p, s)
  \/ \E p \in Pickups, ps \in PickupStatus, os \in Status : SetStatus(p, ps, os)
  \/ \E p \in Pickups : Delete(p)
  \/ \E o \in Orders : DeleteOrder(o)

Spec == Init /\ [][Next]_vars
-----------------------------------------------------------------------------
\* An order goes from one pickup to another only by being released first.
Released ==
  [][\A o \in Orders : assigned[o] # None /\ assigned'[o] # None
                         => assigned'[o] = assigned[o]]_vars
=============================================================================
