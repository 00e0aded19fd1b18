------------------------ MODULE PickupOrders_proofs ------------------------
(***************************************************************************)
(* Theorems about PickupOrders, for any number of handlers, orders,        *)
(* pickups and failures.                                                   *)
(***************************************************************************)
EXTENDS PickupOrders, TLAPS

USE DEF PC, Pickups

LEMMA StatusesTyped ==
  /\ "CREATED" \in PickupStatus
  /\ PickupStatus \subseteq EditAsked
  /\ None \in EditAsked
  /\ None \notin PickupStatus /\ None \notin Pickups
BY PickupOrdersAssumption DEF PickupStatus, EditAsked

LEMMA NoCallTyped == NoCall \in CallType
BY PickupOrdersAssumption, StatusesTyped DEF NoCall, CallType

\* A write of many orders keeps the type of the column.
LEMMA UpdateOrdersType ==
  ASSUME NEW T, NEW column \in [Orders -> T], NEW S, NEW value \in T
  PROVE  UpdateOrders(column, S, value) \in [Orders -> T]
BY DEF UpdateOrders

LEMMA ArriveTyped ==
  ASSUME TypeOK, NEW r \in Requests, NEW step \in PC, NEW c \in CallType, Arrive(r, step, c)
  PROVE  /\ pc' \in [Requests -> PC]
         /\ call' \in [Requests -> CallType]
         /\ calls' \in 0..MaxCalls
         /\ aborts' \in 0..MaxAborts
BY PickupOrdersAssumption DEF Arrive, TypeOK

LEMMA GotoTyped ==
  ASSUME TypeOK, NEW r \in Requests, NEW step \in PC, Goto(r, step)
  PROVE  /\ pc' \in [Requests -> PC]
         /\ calls' \in 0..MaxCalls
         /\ aborts' \in 0..MaxAborts
BY DEF Goto, TypeOK

LEMMA EndTyped ==
  ASSUME TypeOK, NEW r \in Requests, End(r)
  PROVE  /\ pc' \in [Requests -> PC]
         /\ call' \in [Requests -> CallType]
         /\ calls' \in 0..MaxCalls
         /\ aborts' \in 0..MaxAborts
<1>1. "idle" \in PC  OBVIOUS
<1>2. Goto(r, "idle")  BY DEF End
<1>3. call' \in [Requests -> CallType]  BY NoCallTyped DEF End, TypeOK
<1> QED  BY <1>1, <1>2, <1>3, GotoTyped

\* Where a handler is suspended it works on a pickup, unless it has none yet.
HasPickup(r) == pc[r] \notin {"idle", "create"} => call[r].pickup \in 1..made

\* A handler asks for a status of a pickup's own when it changes both statuses.
HasStatus(r) == pc[r] = "status" => call[r].edit \in PickupStatus

\* The step sets where the handler of r is suspended, and its locals.
Moves(r, step, t) ==
  /\ pc' = [pc EXCEPT ![r] = step]
  /\ call' = [call EXCEPT ![r] = t]

TablesTyped ==
  /\ made \in 0..MaxPickups
  /\ pstatus \in [Pickups -> PickupStatus]
  /\ assigned \in [Orders -> Pickups \cup {None}]
  /\ ostatus \in [Orders -> Status]
  /\ deletedOrders \subseteq Orders
  /\ deletedPickups \subseteq 1..made

TypeInv == TypeOK /\ \A r \in Requests : HasPickup(r) /\ HasStatus(r)
-----------------------------------------------------------------------------
LEMMA InitTyped == Init => TypeInv
<1> SUFFICES ASSUME Init PROVE TypeInv  OBVIOUS
<1>1. call \in [Requests -> CallType]  BY NoCallTyped DEF Init
<1>2. \A r \in Requests : pc[r] = "idle"  BY DEF Init
<1> QED  BY <1>1, <1>2, PickupOrdersAssumption, StatusesTyped
         DEF Init, TypeInv, TypeOK, HasPickup, HasStatus

\* Handlers that do not take the step keep what they have.
SameWork(q) == call'[q].pickup = call[q].pickup /\ call'[q].edit = call[q].edit

LEMMA OthersKeep ==
  ASSUME TypeInv, NEW r \in Requests, NEW step \in PC, made' \in Nat, made' >= made,
         pc' = [pc EXCEPT ![r] = step],
         \A q \in Requests \ {r} : SameWork(q)
  PROVE  \A q \in Requests \ {r} : HasPickup(q)' /\ HasStatus(q)'
<1> SUFFICES ASSUME NEW q \in Requests \ {r} PROVE HasPickup(q)' /\ HasStatus(q)'  OBVIOUS
<1>1. pc'[q] = pc[q] /\ SameWork(q)  BY DEF TypeInv, TypeOK
<1>2. HasPickup(q) /\ HasStatus(q)  BY DEF TypeInv
<1>3. made \in Nat  BY PickupOrdersAssumption DEF TypeInv, TypeOK
<1> QED  BY <1>1, <1>2, <1>3 DEF HasPickup, HasStatus, SameWork

LEMMA StepTyped == TypeInv /\ [Next]_vars => TypeInv'
<1> SUFFICES ASSUME TypeInv, [Next]_vars PROVE TypeInv'  OBVIOUS
<1> USE PickupOrdersAssumption, StatusesTyped, NoCallTyped
<1>0. TypeOK /\ made \in Nat  BY DEF TypeInv, TypeOK
<1>1. CASE UNCHANGED vars
  BY <1>1 DEF TypeInv, TypeOK, HasPickup, HasStatus, vars, tables
<1>2. CASE Next
  <2>1. PICK r \in Requests :
          \/ \E S \in (SUBSET Orders) \ {{}} : CreatePickup(r, S)
          \/ \E p \in Pickups, S \in SUBSET Orders, e \in Edits, customer \in BOOLEAN :
               UpdatePickup(r, p, S, e, customer)
          \/ \E p \in Pickups, req \in StatusRequests : UpdateStatus(r, p, req[1], req[2])
          \/ \E p \in Pickups : DeletePickup(r, p)
          \/ \E o \in Orders : DeleteOrder(r, o)
          \/ Step(r)
          \/ Abort(r)
    BY <1>2 DEF Next
  \* Every step of r sets its program counter and its locals, and no one else's.
  <2> DEFINE Frame == /\ \E step \in PC : pc' = [pc EXCEPT ![r] = step]
                      /\ \A q \in Requests \ {r} : SameWork(q)
                      /\ made' \in Nat /\ made' >= made
  <2>2. ASSUME Frame, TypeOK', HasPickup(r)', HasStatus(r)' PROVE TypeInv'
    BY <2>2, OthersKeep DEF TypeInv
  <2>27. ASSUME NEW st \in PC, NEW t, Moves(r, st, t), made' \in Nat, made' >= made
         PROVE  Frame /\ pc'[r] = st /\ call'[r] = t
    <3>1. \A q \in Requests \ {r} : SameWork(q)
      BY <1>0, <2>27 DEF TypeOK, Moves, SameWork
    <3>2. pc'[r] = st /\ call'[r] = t  BY <1>0, <2>27 DEF TypeOK, Moves
    <3>3. \E step \in PC : pc' = [pc EXCEPT ![r] = step]  BY <2>27 DEF Moves
    <3> QED  BY <2>27, <3>1, <3>2, <3>3
  <2> HIDE DEF Frame
  <2>3. ASSUME NEW S \in SUBSET Orders, CreatePickup(r, S) PROVE TypeInv'
    <3>1. [NoCall EXCEPT !.orders = S] \in CallType  BY DEF NoCall, CallType
    <3>2. TypeOK'  BY <1>0, <2>3, <3>1, ArriveTyped DEF CreatePickup, TypeOK, tables
    <3>3. pc'[r] = "create"  BY <1>0, <2>3 DEF CreatePickup, Arrive, TypeOK
    <3>4. Frame  BY <1>0, <2>3 DEF Frame, SameWork, CreatePickup, Arrive, TypeOK, tables
    <3> QED  BY <2>2, <3>2, <3>3, <3>4 DEF HasPickup, HasStatus
  <2>4. ASSUME NEW p \in Pickups, NEW S \in SUBSET Orders, NEW e \in Edits,
               NEW customer \in BOOLEAN, UpdatePickup(r, p, S, e, customer)
        PROVE  TypeInv'
    <3> DEFINE c == [NoCall EXCEPT !.pickup = p, !.orders = S, !.edit = e,
                                   !.customer = customer]
               step == IF S = {} THEN "save" ELSE "check"
    <3>1. c \in CallType /\ c.pickup = p  BY DEF NoCall, CallType
    <3>2. Arrive(r, step, c) /\ UNCHANGED tables /\ Live(p)  BY <2>4 DEF UpdatePickup
    <3>3. step \in PC /\ step # "status"  OBVIOUS
    <3> HIDE DEF c, step
    <3>4. TypeOK'  BY <1>0, <3>1, <3>2, <3>3, ArriveTyped DEF TypeOK, tables
    <3>5. pc'[r] = step /\ call'[r] = c  BY <1>0, <3>2 DEF Arrive, TypeOK
    <3>6. p \in 1..made'  BY <1>0, <3>2 DEF Live, tables
    <3>7. Moves(r, step, c) /\ made' = made  BY <3>2 DEF Arrive, tables, Moves
    <3>8. Frame  BY <1>0, <2>27, <3>3, <3>7
    <3> QED  BY <2>2, <3>1, <3>3, <3>4, <3>5, <3>6, <3>8 DEF HasPickup, HasStatus
  <2>5. ASSUME NEW p \in Pickups, NEW req \in StatusRequests,
               UpdateStatus(r, p, req[1], req[2])
        PROVE  TypeInv'
    <3> DEFINE c == [NoCall EXCEPT !.pickup = p, !.edit = req[1], !.status = req[2]]
    <3>1. req[1] \in PickupStatus /\ req[2] \in Status  OBVIOUS
    <3>2. c \in CallType /\ c.pickup = p /\ c.edit = req[1]
      BY <3>1 DEF NoCall, CallType
    <3>3. Arrive(r, "status", c) /\ UNCHANGED tables /\ Live(p)  BY <2>5 DEF UpdateStatus
    <3> HIDE DEF c
    <3>4. TypeOK'  BY <1>0, <3>2, <3>3, ArriveTyped DEF TypeOK, tables
    <3>5. call'[r] = c  BY <1>0, <3>3 DEF Arrive, TypeOK
    <3>6. p \in 1..made'  BY <1>0, <3>3 DEF Live, tables
    <3>7. Frame  BY <1>0, <3>3 DEF Frame, SameWork, Arrive, TypeOK, tables
    <3> QED  BY <2>2, <3>1, <3>2, <3>4, <3>5, <3>6, <3>7 DEF HasPickup, HasStatus
  <2>6. ASSUME NEW p \in Pickups, DeletePickup(r, p) PROVE TypeInv'
    <3>1. TypeOK'  BY <1>0, <2>6, ArriveTyped DEF DeletePickup, TypeOK, Live
    <3>2. pc'[r] = "idle"  BY <1>0, <2>6 DEF DeletePickup, Arrive, TypeOK
    <3>3. Frame  BY <1>0, <2>6 DEF Frame, SameWork, DeletePickup, Arrive, TypeOK
    <3> QED  BY <2>2, <3>1, <3>2, <3>3 DEF HasPickup, HasStatus
  <2>7. ASSUME NEW o \in Orders, DeleteOrder(r, o) PROVE TypeInv'
    <3>1. TypeOK'  BY <1>0, <2>7, ArriveTyped DEF DeleteOrder, TypeOK
    <3>2. pc'[r] = "idle"  BY <1>0, <2>7 DEF DeleteOrder, Arrive, TypeOK
    <3>3. Frame  BY <1>0, <2>7 DEF Frame, SameWork, DeleteOrder, Arrive, TypeOK
    <3> QED  BY <2>2, <3>1, <3>2, <3>3 DEF HasPickup, HasStatus
  <2>8. CASE Abort(r)
    <3>1. TypeOK'  BY <1>0, <2>8 DEF Abort, TypeOK, tables
    <3>2. pc'[r] = "idle"  BY <1>0, <2>8 DEF Abort, TypeOK
    <3>3. Frame  BY <1>0, <2>8 DEF Frame, SameWork, Abort, TypeOK, tables
    <3> QED  BY <2>2, <3>1, <3>2, <3>3 DEF HasPickup, HasStatus
  \* The locals of r.
  <2>9. call[r] \in CallType  BY <1>0 DEF TypeOK
  <2>10. ASSUME End(r), made' \in Nat, made' >= made,
                TablesTyped'
         PROVE  TypeInv'
    <3>1. TypeOK'  BY <1>0, <2>10, EndTyped DEF TypeOK, TablesTyped
    <3>2. pc'[r] = "idle"  BY <1>0, <2>10 DEF End, Goto, TypeOK
    <3>3. Frame  BY <1>0, <2>10 DEF Frame, SameWork, End, Goto, TypeOK
    <3> QED  BY <2>2, <3>1, <3>2, <3>3 DEF HasPickup, HasStatus
  \* A step that goes on, and does not change which pickup it works on.
  <2>11. ASSUME NEW step \in PC \ {"idle", "create", "status"}, Goto(r, step),
                NEW t \in CallType, Moves(r, step, t),
                t.pickup \in 1..made', made' >= made, TablesTyped'
         PROVE  TypeInv'
    <3>1. TypeOK'  BY <1>0, <2>11, GotoTyped DEF TypeOK, TablesTyped, Moves
    <3>2. made' \in Nat  BY <2>11 DEF TablesTyped
    <3>3. Frame /\ pc'[r] = step /\ call'[r] = t  BY <2>11, <2>27, <3>2
    <3> QED  BY <2>2, <2>11, <3>1, <3>2, <3>3 DEF HasPickup, HasStatus
  <2>12. TablesTyped  BY <1>0 DEF TypeOK, TablesTyped
  <2>28. UNCHANGED tables => TablesTyped' /\ made' = made
    BY <2>12 DEF TablesTyped, tables
  <2>13. pc[r] \notin {"idle", "create"} => call[r].pickup \in 1..made
    BY DEF TypeInv, HasPickup
  <2>14. \A S \in SUBSET Orders : [call[r] EXCEPT !.current = S] \in CallType
                                  /\ [call[r] EXCEPT !.current = S].pickup = call[r].pickup
    BY <2>9 DEF CallType
  <2>15. call = [call EXCEPT ![r] = call[r]]  BY <1>0 DEF TypeOK
  <2>16. CASE InsertPickup(r)
    <3> DEFINE t == [call[r] EXCEPT !.pickup = made + 1]
    <3>1. TablesTyped' /\ made' >= made /\ made + 1 \in 1..made' /\ made + 1 \in Pickups
      BY <1>0, <2>12, <2>16 DEF InsertPickup, TablesTyped
    <3>2. t \in CallType /\ t.pickup = made + 1  BY <2>9, <3>1 DEF CallType
    <3>3. Moves(r, "attachNew", t) /\ Goto(r, "attachNew")
      BY <2>16 DEF InsertPickup, Moves, Goto
    <3> HIDE DEF t
    <3> QED  BY <2>11, <3>1, <3>2, <3>3
  \* An attachment, of which the others take note.
  <2>29. ASSUME NEW step \in PC \ {"create", "status"}, Goto(r, step),
                (step = "idle" /\ call' = [Raced(r) EXCEPT ![r] = NoCall]) \/ call' = Raced(r),
                call[r].pickup \in 1..made', made' = made, TablesTyped'
         PROVE  TypeInv'
    <3>1. \A x \in Requests : /\ Raced(r)[x] \in CallType
                              /\ Raced(r)[x].pickup = call[x].pickup
                              /\ Raced(r)[x].edit = call[x].edit
      <4> SUFFICES ASSUME NEW x \in Requests
                   PROVE  /\ Raced(r)[x] \in CallType
                          /\ Raced(r)[x].pickup = call[x].pickup
                          /\ Raced(r)[x].edit = call[x].edit
        OBVIOUS
      <4>1. call[x] \in CallType /\ call[r] \in CallType  BY <1>0 DEF TypeOK
      <4>2. call[x].raced \cup (call[r].orders \cap call[x].orders) \in SUBSET Orders
        BY <4>1 DEF CallType
      <4>3. \A S \in SUBSET Orders : /\ [call[x] EXCEPT !.raced = S] \in CallType
                                     /\ [call[x] EXCEPT !.raced = S].pickup = call[x].pickup
                                     /\ [call[x] EXCEPT !.raced = S].edit = call[x].edit
        BY <4>1 DEF CallType
      <4> QED  BY <4>1, <4>2, <4>3 DEF Raced
    <3>2. Raced(r) \in [Requests -> CallType] /\ DOMAIN Raced(r) = Requests
      BY <3>1 DEF Raced
    <3>3. call' \in [Requests -> CallType]  BY <2>29, <3>2
    <3>4. TypeOK'  BY <1>0, <2>29, <3>3, GotoTyped DEF TypeOK, TablesTyped
    <3>5. pc' = [pc EXCEPT ![r] = step] /\ pc'[r] = step  BY <1>0, <2>29 DEF Goto, TypeOK
    <3>6. \A q \in Requests \ {r} : SameWork(q)
      <4> SUFFICES ASSUME NEW q \in Requests \ {r} PROVE SameWork(q)  OBVIOUS
      <4>1. call'[q] = Raced(r)[q]  BY <2>29, <3>2
      <4> QED  BY <3>1, <4>1, Zenon DEF SameWork
    <3>7. Frame
      <4>1. made' \in Nat /\ made' >= made  BY <1>0, <2>29
      <4>2. step \in PC /\ pc' = [pc EXCEPT ![r] = step]  BY <3>5
      <4> QED  BY <3>6, <4>1, <4>2, Zenon DEF Frame
    <3>8. HasPickup(r)'
      <4>1. CASE step = "idle"  BY <3>5, <4>1 DEF HasPickup
      <4>2. CASE call' = Raced(r)  BY <2>29, <3>1, <4>2 DEF HasPickup
      <4> QED  BY <2>29, <4>1, <4>2
    <3>9. HasStatus(r)'  BY <3>5 DEF HasStatus
    <3> QED  BY <2>2, <3>4, <3>7, <3>8, <3>9
  <2>17. CASE AttachToNew(r)
    <3>1. call[r].pickup \in Pickups \cup {None}  BY <2>9 DEF CallType
    <3>2. assigned' \in [Orders -> Pickups \cup {None}]
      BY <2>12, <2>17, <3>1, UpdateOrdersType DEF AttachToNew, TablesTyped
    <3>3. TablesTyped' /\ made' = made  BY <2>12, <2>17, <3>2 DEF AttachToNew, TablesTyped
    <3>4. call[r].pickup \in 1..made'  BY <2>13, <2>17, <3>3 DEF AttachToNew
    <3> QED  BY <2>17, <2>29, <3>3, <3>4 DEF AttachToNew
  <2>18. CASE CheckOrders(r)
    <3>1. TablesTyped' /\ made' = made  BY <2>18, <2>28 DEF CheckOrders
    <3>2. CASE End(r)  BY <1>0, <2>10, <3>1, <3>2
    <3>3. CASE Goto(r, "current") /\ UNCHANGED call
      <4>1. call[r].pickup \in 1..made'  BY <2>13, <2>18, <3>1 DEF CheckOrders
      <4>2. Moves(r, "current", call[r])  BY <2>15, <3>3 DEF Moves, Goto
      <4> QED  BY <1>0, <2>9, <2>11, <3>1, <3>3, <4>1, <4>2
    <3> QED  BY <2>18, <3>2, <3>3 DEF CheckOrders
  <2>19. CASE ListCurrent(r)
    <3> DEFINE mine == OrdersOf(call[r].pickup)
               t == [call[r] EXCEPT !.current = mine]
               step == IF mine = {} THEN "attach" ELSE "detach"
    <3>1. t \in CallType /\ t.pickup = call[r].pickup
      BY <2>14 DEF OrdersOf, LiveOrders
    <3>2. Moves(r, step, t) /\ Goto(r, step)  BY <2>19 DEF ListCurrent, Moves, Goto
    <3>3. step \in PC \ {"idle", "create", "status"}  OBVIOUS
    <3>4. TablesTyped' /\ made' = made  BY <2>19, <2>28 DEF ListCurrent
    <3>5. t.pickup \in 1..made'  BY <2>13, <2>19, <3>1, <3>4 DEF ListCurrent
    <3> HIDE DEF mine, t, step
    <3> QED  BY <1>0, <2>11, <3>1, <3>2, <3>3, <3>4, <3>5
  <2>20. CASE Detach(r)
    <3>1. assigned' \in [Orders -> Pickups \cup {None}]
      BY <2>12, <2>20, UpdateOrdersType DEF Detach, TablesTyped
    <3>2. TablesTyped' /\ made' = made  BY <2>12, <2>20, <3>1 DEF Detach, TablesTyped
    <3>3. call[r].pickup \in 1..made'  BY <2>13, <2>20, <3>2 DEF Detach
    <3>4. Moves(r, "attach", call[r]) /\ Goto(r, "attach")
      BY <2>15, <2>20 DEF Detach, Moves, Goto
    <3> QED  BY <1>0, <2>9, <2>11, <3>2, <3>3, <3>4
  <2>21. CASE Attach(r)
    <3>1. call[r].pickup \in Pickups \cup {None}  BY <2>9 DEF CallType
    <3>2. assigned' \in [Orders -> Pickups \cup {None}]
      BY <2>12, <2>21, <3>1, UpdateOrdersType DEF Attach, TablesTyped
    <3>3. TablesTyped' /\ made' = made  BY <2>12, <2>21, <3>2 DEF Attach, TablesTyped
    <3>4. call[r].pickup \in 1..made'  BY <2>13, <2>21, <3>3 DEF Attach
    <3> QED  BY <2>21, <2>29, <3>3, <3>4 DEF Attach
  <2>22. CASE Save(r)
    <3>1. pstatus' \in [Pickups -> PickupStatus]  BY <2>12, <2>22 DEF Save, TablesTyped
    <3>2. TablesTyped' /\ made' = made  BY <2>12, <2>22, <3>1 DEF Save, TablesTyped
    <3> QED  BY <1>0, <2>10, <2>22, <3>2 DEF Save
  <2>23. CASE WritePickupStatus(r)
    <3>1. call[r].edit \in PickupStatus  BY <2>23 DEF TypeInv, HasStatus, WritePickupStatus
    <3>2. pstatus' \in [Pickups -> PickupStatus]
      BY <2>12, <2>23, <3>1 DEF WritePickupStatus, TablesTyped
    <3>3. TablesTyped' /\ made' = made
      BY <2>12, <2>23, <3>2 DEF WritePickupStatus, TablesTyped
    <3>4. CASE End(r)  BY <1>0, <2>10, <3>3, <3>4
    <3>5. CASE Goto(r, "list") /\ UNCHANGED call
      <4>1. call[r].pickup \in 1..made'  BY <2>13, <2>23, <3>3 DEF WritePickupStatus
      <4>2. Moves(r, "list", call[r])  BY <2>15, <3>5 DEF Moves, Goto
      <4> QED  BY <1>0, <2>9, <2>11, <3>3, <3>5, <4>1, <4>2
    <3> QED  BY <2>23, <3>4, <3>5 DEF WritePickupStatus
  <2>24. CASE ListOrders(r)
    <3> DEFINE mine == OrdersOf(call[r].pickup)
               t == [call[r] EXCEPT !.current = mine]
    <3>1. t \in CallType /\ t.pickup = call[r].pickup
      BY <2>14 DEF OrdersOf, LiveOrders
    <3>2. TablesTyped' /\ made' = made  BY <2>24, <2>28 DEF ListOrders
    <3>3. t.pickup \in 1..made'  BY <2>13, <2>24, <3>1, <3>2 DEF ListOrders
    <3>4. CASE End(r)  BY <1>0, <2>10, <3>2, <3>4
    <3>5. CASE call' = [call EXCEPT ![r] = t] /\ Goto(r, "statuses")
      <4>1. Moves(r, "statuses", t)  BY <3>5 DEF Moves, Goto
      <4> HIDE DEF t
      <4> QED  BY <1>0, <2>11, <3>1, <3>2, <3>3, <3>5, <4>1
    <3> QED  BY <2>24, <3>4, <3>5 DEF ListOrders
  <2>25. CASE WriteOrderStatuses(r)
    <3>1. call[r].status \in Status  BY <2>9 DEF CallType
    <3>2. ostatus' \in [Orders -> Status]
      BY <2>12, <2>25, <3>1, UpdateOrdersType DEF WriteOrderStatuses, TablesTyped
    <3>3. TablesTyped' /\ made' = made
      BY <2>12, <2>25, <3>2 DEF WriteOrderStatuses, TablesTyped
    <3> QED  BY <1>0, <2>10, <2>25, <3>3 DEF WriteOrderStatuses
  <2>26. CASE Step(r)
    BY <2>16, <2>17, <2>18, <2>19, <2>20, <2>21, <2>22, <2>23, <2>24, <2>25, <2>26 DEF Step
  <2> QED  BY <2>1, <2>3, <2>4, <2>5, <2>6, <2>7, <2>8, <2>26
<1> QED  BY <1>1, <1>2

\* Tables and handlers keep their types, and no deletion is of a pickup that was
\* never made.
THEOREM PickupsTypeCorrect == Spec => []TypeOK
<1>1. TypeInv => TypeOK  BY DEF TypeInv
<1> QED  BY InitTyped, StepTyped, <1>1, PTL DEF Spec
-----------------------------------------------------------------------------
LEMMA DeletedKept ==
  ASSUME TypeInv, [Next]_vars
  PROVE  /\ \A o \in deletedOrders : assigned'[o] = assigned[o] /\ ostatus'[o] = ostatus[o]
         /\ \A p \in deletedPickups : pstatus'[p] = pstatus[p]
<1>1. /\ assigned \in [Orders -> Pickups \cup {None}]
      /\ ostatus \in [Orders -> Status]
      /\ pstatus \in [Pickups -> PickupStatus]
      /\ deletedOrders \subseteq Orders /\ deletedPickups \subseteq 1..made
      /\ made \in 0..MaxPickups
  BY DEF TypeInv, TypeOK
<1>2. CASE UNCHANGED <<assigned, ostatus, pstatus>>  BY <1>2
\* updateMany passes deleted orders by.
<1>4. ASSUME NEW r \in Requests, AttachToNew(r) \/ Detach(r) \/ Attach(r)
      PROVE  /\ \A o \in deletedOrders : assigned'[o] = assigned[o]
             /\ UNCHANGED <<ostatus, pstatus>>
  BY <1>1, <1>4 DEF AttachToNew, Detach, Attach, UpdateOrders, LiveOrders
<1>5. ASSUME NEW r \in Requests, WriteOrderStatuses(r)
      PROVE  /\ \A o \in deletedOrders : ostatus'[o] = ostatus[o]
             /\ UNCHANGED <<assigned, pstatus>>
  BY <1>1, <1>5 DEF WriteOrderStatuses, UpdateOrders, LiveOrders
\* update finds no deleted row.
<1>6. ASSUME NEW r \in Requests, Save(r) \/ WritePickupStatus(r)
      PROVE  /\ \A p \in deletedPickups : pstatus'[p] = pstatus[p]
             /\ UNCHANGED <<assigned, ostatus>>
  <2>1. UNCHANGED <<assigned, ostatus>>  BY <1>6 DEF Save, WritePickupStatus
  <2>2. \/ UNCHANGED pstatus
        \/ \E v : /\ call[r].pickup \notin deletedPickups
                  /\ pstatus' = [pstatus EXCEPT ![call[r].pickup] = v]
    BY <1>6 DEF Save, WritePickupStatus, Live
  <2>3. \A p \in deletedPickups : p \in Pickups  BY <1>1, PickupOrdersAssumption
  <2> QED  BY <1>1, <2>1, <2>2, <2>3
<1>7. ASSUME NEW r \in Requests,
             \/ InsertPickup(r) \/ CheckOrders(r) \/ ListCurrent(r) \/ ListOrders(r)
             \/ Abort(r)
      PROVE  UNCHANGED <<assigned, ostatus, pstatus>>
  BY <1>7 DEF InsertPickup, CheckOrders, ListCurrent, ListOrders, Abort, tables
<1>8. ASSUME NEW r \in Requests,
             \/ \E S \in (SUBSET Orders) \ {{}} : CreatePickup(r, S)
             \/ \E p \in Pickups, S \in SUBSET Orders, e \in Edits, customer \in BOOLEAN :
                  UpdatePickup(r, p, S, e, customer)
             \/ \E p \in Pickups, req \in StatusRequests : UpdateStatus(r, p, req[1], req[2])
             \/ \E p \in Pickups : DeletePickup(r, p)
             \/ \E o \in Orders : DeleteOrder(r, o)
      PROVE  UNCHANGED <<assigned, ostatus, pstatus>>
  BY <1>8 DEF CreatePickup, UpdatePickup, UpdateStatus, DeletePickup, DeleteOrder, tables
<1>9. CASE Next
  BY <1>2, <1>4, <1>5, <1>6, <1>7, <1>8, <1>9 DEF Next, Step
<1>10. CASE UNCHANGED vars  BY <1>2, <1>10 DEF vars, tables
<1> QED  BY <1>9, <1>10

\* A handler decides on rows that were live when it read them; whatever was
\* deleted in between is not written any more, for any number of handlers.
THEOREM DeletedRowsStayFrozen == Spec => DeletedRowsAreFrozen
<1>1. TypeInv /\ [Next]_vars =>
        /\ \A o \in deletedOrders : assigned'[o] = assigned[o] /\ ostatus'[o] = ostatus[o]
        /\ \A p \in deletedPickups : pstatus'[p] = pstatus[p]
  BY DeletedKept
<1> QED  BY InitTyped, StepTyped, <1>1, PTL DEF Spec, DeletedRowsAreFrozen
-----------------------------------------------------------------------------
(* The race of two claims.                                                 *)

\* Of the orders a handler has looked at and still wants, those that nobody has
\* attached since are free, or its own.
Found(r) ==
  pc[r] \in Claiming =>
    \A o \in (call[r].orders \cap LiveOrders) \ call[r].raced :
      \/ assigned[o] = None
      \/ pc[r] \in {"current", "detach", "attach"} /\ assigned[o] = call[r].pickup

AllFound == \A r \in Requests : Found(r)

\* The step takes no order from a pickup but in a race.
TakesOnlyInRace ==
  \A o \in Orders : assigned[o] # None /\ assigned'[o] # None /\ assigned'[o] # assigned[o]
                     => \E h \in Requests : AttachesRaced(h, o)

\* Nobody attaches an order, and x goes on wanting what it wanted.
LEMMA FoundKept ==
  ASSUME AllFound, NEW x \in Requests, pc'[x] = pc[x] /\ call'[x] = call[x],
         LiveOrders' \subseteq LiveOrders,
         \A o \in Orders : assigned'[o] \in {assigned[o], None}
  PROVE  Found(x)'
BY DEF AllFound, Found, LiveOrders

\* Where a handler is done with its orders, or has not looked, nothing is to be found.
LEMMA FoundElsewhere ==
  ASSUME NEW x \in Requests, pc'[x] \notin Claiming
  PROVE  Found(x)'
BY DEF Found

LEMMA NothingTaken ==
  ASSUME \A o \in Orders : assigned'[o] \in {assigned[o], None}
  PROVE  TakesOnlyInRace
BY DEF TakesOnlyInRace

\* An attachment: what the others had found free is raced, and what was not raced
\* was free.
LEMMA AttachRaces ==
  ASSUME TypeInv, AllFound, NEW r \in Requests, AttachToNew(r) \/ Attach(r)
  PROVE  AllFound' /\ TakesOnlyInRace
<1> USE DEF AttachToNew, Attach
<1>1. /\ assigned' = [o \in Orders |-> IF o \in call[r].orders \cap LiveOrders
                                       THEN call[r].pickup ELSE assigned[o]]
      /\ LiveOrders' = LiveOrders
  BY DEF UpdateOrders, LiveOrders
<1>2. /\ pc \in [Requests -> PC] /\ call \in [Requests -> CallType]
      /\ assigned \in [Orders -> Pickups \cup {None}]
  BY DEF TypeInv, TypeOK
<1>3. \E step \in {"idle", "save"} : pc' = [pc EXCEPT ![r] = step]
  BY DEF Goto
<1>4. pc'[r] \notin Claiming /\ \A x \in Requests \ {r} : pc'[x] = pc[x]
  BY <1>2, <1>3 DEF Claiming
<1>5. \A x \in Requests \ {r} : call'[x] = Raced(r)[x]
  BY DEF Raced
<1>6. ASSUME NEW x \in Requests \ {r} PROVE Found(x)'
  <2>1. CASE pc[x] \in Claiming
    <3>1. call'[x] = [call[x] EXCEPT !.raced = @ \cup (call[r].orders \cap call[x].orders)]
      BY <1>5, <2>1 DEF Raced
    <3>2. /\ call'[x].orders = call[x].orders /\ call'[x].pickup = call[x].pickup
          /\ call'[x].raced = call[x].raced \cup (call[r].orders \cap call[x].orders)
      BY <1>2, <3>1 DEF CallType
    <3>3. ASSUME NEW o \in (call'[x].orders \cap LiveOrders) \ call'[x].raced
          PROVE  assigned'[o] = assigned[o] /\ o \in (call[x].orders \cap LiveOrders) \ call[x].raced
      BY <1>1, <3>2, <3>3 DEF LiveOrders
    <3> QED  BY <1>1, <1>4, <2>1, <3>2, <3>3 DEF AllFound, Found
  <2>2. CASE pc[x] \notin Claiming
    BY <1>4, <2>2, FoundElsewhere
  <2> QED  BY <2>1, <2>2
<1>7. AllFound'  BY <1>4, <1>6, FoundElsewhere DEF AllFound
<1>8. ASSUME NEW o \in Orders, assigned[o] # None, assigned'[o] # None,
             assigned'[o] # assigned[o]
      PROVE  AttachesRaced(r, o)
  <2>1. o \in call[r].orders \cap LiveOrders /\ assigned[o] # call[r].pickup
    BY <1>1, <1>8
  <2>2. pc[r] \in {"attachNew", "attach"} /\ pc[r] \in Claiming  BY DEF Claiming
  <2>3. o \in call[r].raced  BY <1>8, <2>1, <2>2 DEF AllFound, Found
  <2>4. pc'[r] # pc[r]  BY <1>2, <1>3, <2>2
  <2> QED  BY <2>1, <2>2, <2>3, <2>4 DEF AttachesRaced
<1> QED  BY <1>7, <1>8 DEF TakesOnlyInRace

\* The steps that only let go of orders, or touch none.
LEMMA LetGo ==
  ASSUME TypeInv, AllFound, NEW r \in Requests,
         LiveOrders' \subseteq LiveOrders,
         \A o \in Orders : assigned'[o] \in {assigned[o], None},
         \A x \in Requests \ {r} : pc'[x] = pc[x] /\ call'[x] = call[x],
         Found(r)'
  PROVE  AllFound' /\ TakesOnlyInRace
BY FoundKept, NothingTaken DEF AllFound

LEMMA ClaimsStep ==
  ASSUME TypeInv, AllFound, [Next]_vars
  PROVE  AllFound' /\ TakesOnlyInRace
<1>0. /\ pc \in [Requests -> PC] /\ call \in [Requests -> CallType]
      /\ assigned \in [Orders -> Pickups \cup {None}]
  BY DEF TypeInv, TypeOK
<1>1. CASE UNCHANGED vars
  BY <1>1 DEF vars, tables, AllFound, Found, LiveOrders, TakesOnlyInRace
<1>2. ASSUME NEW r \in Requests, NEW S \in SUBSET Orders, CreatePickup(r, S)
      PROVE  AllFound' /\ TakesOnlyInRace
  <2> USE <1>2 DEF CreatePickup, Arrive, tables
  <2>1. LiveOrders' = LiveOrders /\ assigned' = assigned  BY DEF LiveOrders
  <2>2. \A x \in Requests \ {r} : pc'[x] = pc[x] /\ call'[x] = call[x]  BY <1>0
  <2>3. call'[r].orders = S  BY <1>0 DEF NoCall
  <2>4. Found(r)'  BY <2>1, <2>3 DEF Found
  <2> QED  BY <2>1, <2>2, <2>4, LetGo
<1>3. ASSUME NEW r \in Requests,
             \/ \E p \in Pickups, S \in SUBSET Orders, e \in Edits, customer \in BOOLEAN :
                  UpdatePickup(r, p, S, e, customer)
             \/ \E p \in Pickups, req \in StatusRequests : UpdateStatus(r, p, req[1], req[2])
             \/ \E p \in Pickups : DeletePickup(r, p)
             \/ \E o \in Orders : DeleteOrder(r, o)
      PROVE  AllFound' /\ TakesOnlyInRace
  <2>1. LiveOrders' \subseteq LiveOrders /\ assigned' = assigned
    BY <1>3 DEF UpdatePickup, UpdateStatus, DeletePickup, DeleteOrder, tables, LiveOrders
  <2>2. \E step \in {"save", "check", "status", "idle"} : \E c : Arrive(r, step, c)
    BY <1>3 DEF UpdatePickup, UpdateStatus, DeletePickup, DeleteOrder
  <2>3. /\ \A x \in Requests \ {r} : pc'[x] = pc[x] /\ call'[x] = call[x]
        /\ pc'[r] \notin Claiming
    BY <1>0, <2>2 DEF Arrive, Claiming
  <2> QED  BY <2>1, <2>3, FoundElsewhere, LetGo
<1>4. ASSUME NEW r \in Requests, InsertPickup(r)
      PROVE  AllFound' /\ TakesOnlyInRace
  <2> USE <1>4 DEF InsertPickup, Goto
  <2>1. LiveOrders' = LiveOrders /\ assigned' = assigned  BY DEF LiveOrders
  <2>2. \A x \in Requests \ {r} : pc'[x] = pc[x] /\ call'[x] = call[x]  BY <1>0
  <2>3. /\ call'[r].orders = call[r].orders /\ call'[r].raced = call[r].raced
        /\ pc[r] = "create" /\ pc'[r] = "attachNew"
    BY <1>0 DEF CallType
  <2>4. Found(r)'  BY <2>1, <2>3 DEF AllFound, Found, Claiming
  <2> QED  BY <2>1, <2>2, <2>4, LetGo
<1>5. ASSUME NEW r \in Requests, CheckOrders(r)
      PROVE  AllFound' /\ TakesOnlyInRace
  <2> USE <1>5 DEF CheckOrders, tables
  <2>1. LiveOrders' = LiveOrders /\ assigned' = assigned  BY DEF LiveOrders
  <2>2. CASE End(r)
    BY <1>0, <2>1, <2>2, FoundElsewhere, LetGo DEF End, Goto, Claiming
  <2>3. CASE /\ Goto(r, "current") /\ UNCHANGED call
             /\ \A o \in call[r].orders \cap LiveOrders : assigned[o] \in {None, call[r].pickup}
    <3>1. pc'[r] = "current" /\ \A x \in Requests \ {r} : pc'[x] = pc[x]
      BY <1>0, <2>3 DEF Goto
    <3>2. Found(r)'  BY <2>1, <2>3, <3>1 DEF Found
    <3> QED  BY <2>1, <2>3, <3>1, <3>2, LetGo
  <2> QED  BY <2>2, <2>3
<1>6. ASSUME NEW r \in Requests, ListCurrent(r)
      PROVE  AllFound' /\ TakesOnlyInRace
  <2> USE <1>6 DEF ListCurrent, tables
  <2>1. LiveOrders' = LiveOrders /\ assigned' = assigned  BY DEF LiveOrders
  <2>2. /\ pc[r] = "current" /\ pc'[r] \in {"attach", "detach"}
        /\ \A x \in Requests \ {r} : pc'[x] = pc[x] /\ call'[x] = call[x]
    BY <1>0 DEF Goto
  <2>3. /\ call'[r].orders = call[r].orders /\ call'[r].raced = call[r].raced
        /\ call'[r].pickup = call[r].pickup
    BY <1>0 DEF CallType
  <2>4. Found(r)'  BY <2>1, <2>2, <2>3 DEF AllFound, Found, Claiming
  <2> QED  BY <2>1, <2>2, <2>4, LetGo
<1>7. ASSUME NEW r \in Requests, Detach(r)
      PROVE  AllFound' /\ TakesOnlyInRace
  <2> USE <1>7 DEF Detach
  <2>1. LiveOrders' = LiveOrders /\ \A o \in Orders : assigned'[o] \in {assigned[o], None}
    BY DEF LiveOrders, UpdateOrders
  <2>2. /\ pc[r] = "detach" /\ pc'[r] = "attach" /\ call' = call
        /\ \A x \in Requests \ {r} : pc'[x] = pc[x]
    BY <1>0 DEF Goto
  <2>3. Found(r)'
    BY <2>1, <2>2 DEF AllFound, Found, Claiming, LiveOrders
  <2> QED  BY <2>1, <2>2, <2>3, LetGo
<1>8. ASSUME NEW r \in Requests,
             \/ Save(r) \/ WritePickupStatus(r) \/ ListOrders(r) \/ WriteOrderStatuses(r)
             \/ Abort(r)
      PROVE  AllFound' /\ TakesOnlyInRace
  <2>1. LiveOrders' = LiveOrders /\ assigned' = assigned
    BY <1>8 DEF Save, WritePickupStatus, ListOrders, WriteOrderStatuses, Abort, tables, LiveOrders
  <2>2. \E step \in {"idle", "list", "statuses"} : pc' = [pc EXCEPT ![r] = step]
    BY <1>8 DEF Save, WritePickupStatus, ListOrders, WriteOrderStatuses, Abort, End, Goto
  <2>3. \E c : call' = [call EXCEPT ![r] = c]
    <3>1. call' = call => call' = [call EXCEPT ![r] = call[r]]  BY <1>0
    <3> QED
      BY <1>8, <3>1 DEF Save, WritePickupStatus, ListOrders, WriteOrderStatuses, Abort, End
  <2>4. /\ \A x \in Requests \ {r} : pc'[x] = pc[x] /\ call'[x] = call[x]
        /\ pc'[r] \notin Claiming
    BY <1>0, <2>2, <2>3 DEF Claiming
  <2> QED  BY <2>1, <2>4, FoundElsewhere, LetGo
<1>9. CASE Next
  <2>1. PICK r \in Requests :
          \/ \E S \in (SUBSET Orders) \ {{}} : CreatePickup(r, S)
          \/ \E p \in Pickups, S \in SUBSET Orders, e \in Edits, customer \in BOOLEAN :
               UpdatePickup(r, p, S, e, customer)
          \/ \E p \in Pickups, req \in StatusRequests : UpdateStatus(r, p, req[1], req[2])
          \/ \E p \in Pickups : DeletePickup(r, p)
          \/ \E o \in Orders : DeleteOrder(r, o)
          \/ Step(r)
          \/ Abort(r)
    BY <1>9 DEF Next
  <2>2. CASE Step(r)
    BY <1>4, <1>5, <1>6, <1>7, <1>8, <2>2, AttachRaces DEF Step
  <2> QED  BY <1>2, <1>3, <1>8, <2>1, <2>2
<1> QED  BY <1>1, <1>9

\* However many handlers meet, and wherever they stop, an order is taken from the
\* pickup that has it only by a handler that found it free, or its own, and was
\* overtaken before it attached it.
THEOREM TakenOnlyInRaceAlways == Spec => TakenOnlyInRace
<1>1. Init => AllFound  BY DEF Init, AllFound, Found, Claiming
<1>2. TypeInv /\ AllFound /\ [Next]_vars => AllFound' /\ TakesOnlyInRace
  BY ClaimsStep
<1>3. [][TakesOnlyInRace]_vars => TakenOnlyInRace
  BY PTL DEF TakenOnlyInRace, TakesOnlyInRace
<1> QED  BY InitTyped, StepTyped, <1>1, <1>2, <1>3, PTL DEF Spec
=============================================================================
