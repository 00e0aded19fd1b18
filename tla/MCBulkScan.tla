----------------------------- MODULE MCBulkScan -----------------------------
(* Instances of BulkScan for TLC: a parcel of one item and a newer one of two *)
(* items, scanned item by item in either order, or whole.                     *)
EXTENDS BulkScan, TLC

CONSTANTS r1, r2

MCOrders == 1..2
MCSkus == {"a", "b", "c"}
MCContents == <<{"a"}, {"a", "b"}>>
TwoRequests == {r1, r2}

Line(o, sku, s) == [by |-> "item", order |-> o, sku |-> sku, status |-> s]
Sku(sku, s) == [by |-> "sku", order |-> None, sku |-> sku, status |-> s]
Whole(o, s) == [by |-> "order", order |-> o, sku |-> None, status |-> s]

Items(is) == [op |-> "bulkScanItems", items |-> is]
Update(is) == [op |-> "bulkScanUpdate", items |-> is]

\* The items of order 2 apart, together, and with one that does not exist.
Deliveries ==
  {Update(<<Sku("a", "DELIVERED")>>),
   Update(<<Sku("b", "DELIVERED")>>),
   Update(<<Sku("b", "DELIVERED"), Sku("c", "DELIVERED"), Sku("a", "DELIVERED")>>),
   Items(<<Line(1, "a", "DELIVERED"), Line(2, "b", "DELIVERED")>>)}

\* The same rows locked in both orders, by way of a whole order too; one batch
\* leaves order 2 one item short.
Crossing ==
  {Items(<<Line(2, "b", "DELIVERED"), Line(1, "a", "DELIVERED")>>),
   Update(<<Sku("b", "FAILED"), Sku("c", "FAILED"), Sku("a", "FAILED")>>),
   Update(<<Sku("a", "FAILED"), Whole(2, "DELIVERED"), Sku("b", "FAILED")>>),
   Update(<<Whole(2, "CANCELLED"), Whole(1, "DELIVERED")>>)}
=============================================================================
