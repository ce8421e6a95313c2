-------------------------- MODULE MCStockDocument --------------------------
(* Small instances of StockDocument: a receipt, an issue and a count of two   *)
(* items, one of which costs nothing.                                         *)
EXTENDS StockDocument, TLC

CONSTANTS r1, r2, i1, i2, receipt, issue, count

Line(c, n, unitCost) == [item |-> c, qty |-> n, cost |-> unitCost]

DearAndFree == i1 :> {1, 2} @@ i2 :> {0}
OneEach == i1 :> 1 @@ i2 :> 1

MCKind == receipt :> "in" @@ issue :> "out" @@ count :> "count"

\* The receipt carries both items, one at a typed cost, the issue the one that costs nothing;
\* the count names one item once, short after the receipt and over before it, and the other
\* on two lines, as two lots of it are counted.
MCLines ==
    receipt :> <<Line(i1, 2, 2), Line(i2, 1, Untyped)>>
    @@ issue :> <<Line(i2, 2, Untyped)>>
    @@ count :> <<Line(i1, 2, Untyped), Line(i2, 1, Untyped), Line(i2, 1, 1)>>
=============================================================================
