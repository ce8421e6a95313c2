----------------------------- MODULE MCTreasury -----------------------------
(* A small instance of Treasury: two safes, a receipt and a payment, one transfer, the
   shifts of two cashiers, and two charts of accounts. *)
EXTENDS Treasury, TLC

CONSTANTS r1, r2, receipt, payment, moved, till, bank, ann, bob

TwoRequests == {r1, r2}
TwoVouchers == {receipt, payment}
OneTransfer == {moved}
TwoSafes == {till, bank}
TwoUsers == {ann, bob}

Cards == receipt :> [sign |-> 1, safe |-> till] @@ payment :> [sign |-> -1, safe |-> till]
         @@ moved :> [from |-> till, to |-> bank, amount |-> 4]

CashOrCheque == {[method |-> m, amount |-> 2] : m \in Methods}

Apart == {"cash", "bank", "cheques", "clients", "transit", "custody", "difference"}

\* Cheques in hand are set for receipts only, and every role has an account of its own.
Separate ==
    [safe |-> till :> "cash" @@ bank :> "bank", cash |-> [v \in TwoVouchers |-> None],
     inHand |-> receipt :> "cheques" @@ payment :> None,
     counter |-> [v \in TwoVouchers |-> "clients"], transit |-> "transit", till |-> "cash",
     custody |-> "custody", difference |-> "difference"]

\* The till has no account of its own, payments have cheques in hand, and the custody is
\* where money in transit is booked and what the vouchers clear.
Shared ==
    [safe |-> till :> None @@ bank :> "bank", cash |-> [v \in TwoVouchers |-> "bank"],
     inHand |-> receipt :> None @@ payment :> "cheques",
     counter |-> [v \in TwoVouchers |-> "custody"], transit |-> "custody", till |-> "bank",
     custody |-> "custody", difference |-> None]

TwoCharts == {Separate, Shared}

Given == [a \in Apart |-> CASE a = "bank" -> 1 [] a = "clients" -> -1 [] OTHER -> 0]
OneBody == {Given}

Do(k, d) == [kind |-> k, doc |-> d]
Close(k, n) == [kind |-> "close", doc |-> k, count |-> n]

TreasuryOps ==
    {[kind |-> "edit", doc |-> receipt, amount |-> 3, method |-> m] : m \in Methods}
    \cup {Do(k, receipt) : k \in {"void", "cleared", "collected", "bounced"}}
    \cup {[kind |-> "post", doc |-> v, lines |-> None] : v \in TwoVouchers}
    \cup {[kind |-> "post", doc |-> payment, lines |-> Given], Do("cleared", payment)}
    \cup {Do(k, moved) : k \in {"send", "receive", "cancel"}}
    \cup {Close(1, 1), Close(2, 2), Do("enter", 1)}

Alike == Permutations(TwoRequests) \cup Permutations(TwoUsers)
=============================================================================
