-------------------------- MODULE MCEInvoiceChain --------------------------
(* A small instance of EInvoiceChain: two requests at once on two invoices. *)
EXTENDS EInvoiceChain, TLC

CONSTANTS r1, r2, i1, i2, simulation, production

TwoRequests == {r1, r2}
TwoInvoices == {i1, i2}
BothEnvironments == {simulation, production}
SomeGates == {"NO_CREDENTIALS", "open"}

Submit(i, e) == [kind |-> "submit", invoice |-> i, env |-> e]
Sync(list) == [kind |-> "sync", list |-> list]
Void(i) == [kind |-> "void", invoice |-> i]

ClerkOps == { Submit(i1, None), Submit(i1, production), Sync(<<i2, i1>>), Void(i1), RetryOp }

Slots2 == Permutations(TwoRequests)
=============================================================================
