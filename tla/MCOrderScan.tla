----------------------------- MODULE MCOrderScan -----------------------------
(* Instances of OrderScan for TLC: the order has reached the warehouse side   *)
(* of its journey, where each scan of a stage is followed by the next one.    *)
EXTENDS OrderScan, TLC

CONSTANTS l1, l2, a, b, r1, r2

MCLineIds == {l1, l2}
MCSkus == {a, b}
TwoRequests == {r1, r2}

InTransit == {"OUT_FOR_DELIVERY"}
OnlyDeliver == {"DELIVERED"}
NoStatusInBody == {DefaultStatus}
=============================================================================
