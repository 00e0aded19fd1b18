----------------------------- MODULE OrderStatus -----------------------------
(***************************************************************************)
(* The order statuses, the table of transitions the scan handlers consult  *)
(* (constants/status-transitions.const.ts) and the arithmetic that decides *)
(* whether every item of an order has been scanned.  Nothing here has      *)
(* state: OrderScan and BulkScan both extend this module.                  *)
(***************************************************************************)
EXTENDS Integers, FiniteSets

Status == {"DRAFT", "CREATED", "PENDING", "APPROVED", "ASSIGNED_FOR_PICKUP",
           "PICKED_UP", "RECEIVED_IN_WAREHOUSE", "STORED_ON_SHELVES",
           "READY_FOR_DISPATCH", "OUT_FOR_DELIVERY", "DELIVERED", "FAILED",
           "RESCHEDULED", "CANCELLED", "RETURNED_TO_OPERATION",
           "READY_TO_RETURN_TO_ORIGIN", "RETURNED_TO_ORIGIN"}

VALID_STATUS_TRANSITIONS ==
  [from \in Status |->
     CASE from = "DRAFT"                     -> {"CREATED", "CANCELLED"}
       [] from = "CREATED"                   -> {"PENDING", "CANCELLED"}
       [] from = "PENDING"                   -> {"APPROVED", "CANCELLED"}
       [] from = "APPROVED"                  -> {"ASSIGNED_FOR_PICKUP", "CANCELLED"}
       [] from = "ASSIGNED_FOR_PICKUP"       -> {"PICKED_UP", "FAILED", "CANCELLED"}
       [] from = "PICKED_UP"                 -> {"RECEIVED_IN_WAREHOUSE", "FAILED"}
       [] from = "RECEIVED_IN_WAREHOUSE"     -> {"STORED_ON_SHELVES", "FAILED"}
       [] from = "STORED_ON_SHELVES"         -> {"READY_FOR_DISPATCH", "FAILED"}
       [] from = "READY_FOR_DISPATCH"        -> {"OUT_FOR_DELIVERY", "FAILED"}
       [] from = "OUT_FOR_DELIVERY"          -> {"DELIVERED", "FAILED", "RESCHEDULED"}
       [] from = "FAILED"                    -> {"RESCHEDULED", "RETURNED_TO_OPERATION"}
       [] from = "RESCHEDULED"               -> {"ASSIGNED_FOR_PICKUP", "CANCELLED"}
       [] from = "RETURNED_TO_OPERATION"     -> {"READY_TO_RETURN_TO_ORIGIN"}
       [] from = "READY_TO_RETURN_TO_ORIGIN" -> {"RETURNED_TO_ORIGIN"}
       [] OTHER                              -> {}]

\* A check that was left out: the table is not consulted.
TransitionUnchecked(from, to) == TRUE

\* VALID_STATUS_TRANSITIONS[order.status]?.includes(dto.status)
TransitionAllowed(from, to) == to \in VALID_STATUS_TRANSITIONS[from]

\* Statuses from which the table leads nowhere.
Terminal == {s \in Status : VALID_STATUS_TRANSITIONS[s] = {}}

(***************************************************************************)
(* Completion of an order.  Math.round rounds a half up, so the percentage *)
(* of a positive total is floor(100 * scanned / total + 1/2).              *)
(***************************************************************************)
Round(num, den) == (2 * num + den) \div (2 * den)

completionPercentage(scannedItems, totalItems) ==
  IF totalItems > 0 THEN Round(100 * scannedItems, totalItems) ELSE 0

canProgressStatus(scannedItems, totalItems) ==
  completionPercentage(scannedItems, totalItems) = 100

\* Only one item short, as a comparison that is off by one would have it.
AllItemsScannedOffByOne(scannedItems, totalItems) ==
  /\ totalItems > 0
  /\ scannedItems = totalItems - 1

\* The condition of the automatic update: the rounded percentage AND the
\* exact comparison of the two counters.
AllItemsScanned(scannedItems, totalItems) ==
  /\ canProgressStatus(scannedItems, totalItems)
  /\ scannedItems = totalItems

(***************************************************************************)
(* Timestamps a status write sets besides the status.  The whole-order     *)
(* scans also set cancelledAt, the automatic updates do not.               *)
(***************************************************************************)
Stamp == {"pickedAt", "deliveredAt", "cancelledAt"}

AutoStamps(s) ==
  CASE s = "PICKED_UP" -> {"pickedAt"}
    [] s = "DELIVERED" -> {"deliveredAt"}
    [] OTHER           -> {}

WholeOrderStamps(s) ==
  AutoStamps(s) \cup (IF s = "CANCELLED" THEN {"cancelledAt"} ELSE {})

\* The status a timestamp stands for.
StampedStatus(stamp) ==
  CASE stamp = "pickedAt"    -> "PICKED_UP"
    [] stamp = "deliveredAt" -> "DELIVERED"
    [] OTHER                 -> "CANCELLED"
=============================================================================
