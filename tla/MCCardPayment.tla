--------------------------- MODULE MCCardPayment ---------------------------
(* A small instance of CardPayment with SalesInvoice: two requests at once. *)
EXTENDS CardPayment, TLC

CONSTANTS r1, r2, cash, card

TwoRequests == {r1, r2}
PaymentKeys == {cash, card}
Cards == {card}

Body(a, d, n, f, s) == [as |-> a, of |-> d, units |-> n, free |-> f, stocked |-> s]
FirstDrafts == {Body("sale", 0, 2, FALSE, TRUE), Body("sale", 0, 2, FALSE, FALSE),
                Body("sale", 0, 2, TRUE, TRUE)}
PlainBodies == {Body("return", 1, 1, FALSE, TRUE)}

Post(d, c, given) == [kind |-> "post", doc |-> d, cash |-> c, given |-> given]
Void(d) == [kind |-> "void", doc |-> d]
Pay(k, n) == [kind |-> "pay", doc |-> 1, key |-> k, amount |-> n]
Return(n) == [kind |-> "return", doc |-> 1, body |-> Body("return", 1, n, FALSE, TRUE)]
Edit(n) == [kind |-> "edit", doc |-> 1, body |-> Body("sale", 0, n, FALSE, TRUE)]

CounterOps == { Post(1, FALSE, {}), Post(1, TRUE, {}), Post(1, TRUE, {"journal"}),
                Post(1, FALSE, {"stock"}), Post(2, FALSE, {}),
                Void(1), Void(2), Pay(cash, 1), Pay(card, 1), Return(1), Return(2), Edit(1) }
=============================================================================
