-------------------------- MODULE MCStockTransfer --------------------------
(* Small instances of StockTransfer: two lines, two requests at once. *)
EXTENDS StockTransfer, TLC

CONSTANTS r1, r2, l1, l2

TwoRequests == {r1, r2}
TwoLines == {l1, l2}

OneThenTwo == l1 :> 1 @@ l2 :> 2
Priced == [l \in Lines |-> 1]

Entry(l, n) == [line |-> l, qty |-> n]
Send == [kind |-> "send", allowNegative |-> FALSE]
Override == [kind |-> "send", allowNegative |-> TRUE]
Receive(list) == [kind |-> "receive", list |-> list]
Return == [kind |-> "close", mode |-> "return"]
Shortage == [kind |-> "close", mode |-> "shortage"]
Cancel == [kind |-> "cancel"]

\* Everything a clerk can do to two lines of 1 and 2 units; one receipt names a line
\* twice, with more than the line has left.
ClerkOps == { Send, Override, Return, Shortage, Cancel,
              Receive(<<Entry(l1, 1)>>),
              Receive(<<Entry(l2, 1)>>),
              Receive(<<Entry(l2, 1), Entry(l2, 2)>>),
              Receive(<<Entry(l1, 1), Entry(l2, 2)>>) }
=============================================================================
