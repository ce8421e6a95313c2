--------------------------- MODULE MCStockLedger ---------------------------
(* Small instances of StockLedger: two cells, a few requests, and jobs chosen *)
(* so that requests contend for rows in both orders.                          *)
EXTENDS StockLedger

CONSTANTS r1, r2, r3, c1, c2

In(c, n) == [cell |-> c, direction |-> "in", qty |-> n]
Out(c, n) == [cell |-> c, direction |-> "out", qty |-> n]
Document(lines) == [kind |-> "record", lines |-> lines, allowNegative |-> FALSE]
Override(lines) == [kind |-> "record", lines |-> lines, allowNegative |-> TRUE]
Count(c, n) == [kind |-> "adjust", cell |-> c, counted |-> n]
Recompute(cells) == [kind |-> "recompute", filter |-> cells]

TwoCells == {c1, c2}
ThreeRequests == {r1, r2, r3}

\* Receipts and transfers that lock the two rows in opposite orders, a count, an
\* override, a recompute of everything, a document with no line and one with a
\* quantity of zero.
MixedJobs ==
    { Document(<<In(c1, 2), In(c2, 1)>>),
      Document(<<Out(c2, 1), In(c1, 1)>>),
      Document(<<Out(c1, 1), Out(c1, 1)>>),
      Document(<<>>),
      Document(<<In(c1, 1), Out(c2, 0)>>),
      Override(<<Out(c2, 2)>>),
      Count(c1, 1),
      Recompute({c1, c2}) }
=============================================================================
