--------------------------- MODULE MCPickupOrders ---------------------------
(* Instances of PickupOrders for TLC: two orders, two pickups.              *)
EXTENDS PickupOrders, TLC

CONSTANTS o1, o2, r1, r2

TwoOrders == {o1, o2}
OneRequest == {r1}
TwoRequests == {r1, r2}

\* Edits that leave the status, that set it, and that fail.
SomeEdits == {None, "PENDING", "unusable"}

\* A request by the customer and the two answers of operations.
Asked == {<<"PENDING", "PENDING">>, <<"APPROVED", "ASSIGNED_FOR_PICKUP">>,
          <<"REJECTED", "CANCELLED">>}
=============================================================================
