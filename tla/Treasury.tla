------------------------------ MODULE Treasury ------------------------------
(***************************************************************************)
(* The treasury of a branch (treasury.service.ts): vouchers in cash or by  *)
(* cheque, transfers between two safes, and the shifts of its cashiers.    *)
(*                                                                         *)
(* Money is kept twice: as the balance of each safe, moved by              *)
(* bumpBalance, and in the ledger, by the journal entry of each step.  The *)
(* accounts of an entry come from the cash locations, the parties and the  *)
(* posting profiles as they are at that moment: the settings may change    *)
(* between two steps of one document, and two roles may name one account,  *)
(* so every entry is written under some chart of Charts.  A                *)
(* request reads its document without a lock, here or in a transaction     *)
(* before, and most of the updates at the end do not look at the status    *)
(* again; what stands between two requests is the unique key of an entry,  *)
(* where it has one, and the number row of the journal, held to the end.   *)
(*                                                                         *)
(* The safe of a voucher is fixed; allocations to invoices, currencies,    *)
(* and the sales a shift takes beside the vouchers are left out.           *)
(***************************************************************************)
EXTENDS Integers, FiniteSets, FiniteSetsExt

CONSTANTS
    Requests,        \* request slots
    MaxRequests,     \* how many requests are made in all (a bound)
    Vouchers,
    Transfers,
    MaxShifts,       \* how many shifts there can be (a bound)
    Users,           \* the cashiers of the branch
    Safes,
    Card,            \* sign and safe of each voucher, the way and amount of each transfer
    Drafts,          \* method and amount a voucher may be created with
    Accounts,
    Charts,          \* the accounts the settings may name for each role
    Bodies,          \* entries a caller may give with a posting
    Ops,             \* the requests that may be made
    None

Shifts == 1..MaxShifts
Methods == {"cash", "cheque"}
Targets == {"cleared", "collected", "bounced"}
Docs == Vouchers \cup Transfers \cup Shifts

\* The account of a safe, of the cash or bank and of the cheques in hand in the profile of
\* each voucher's kind, and of its counterpart; None is an account nobody has set.
Settings ==
    LET Account == Accounts \cup {None}
    IN [safe : [Safes -> Account], cash : [Vouchers -> Account],
        inHand : [Vouchers -> Account], counter : [Vouchers -> Account], transit : Account,
        till : Account, custody : Account, difference : Account]

Edits == [kind : {"edit"}, doc : Vouchers, amount : Nat \ {0}, method : Methods]
Posts == [kind : {"post"}, doc : Vouchers, lines : Bodies \cup {None}]
OnVoucher == [kind : {"void"} \cup Targets, doc : Vouchers]
OnTransfer == [kind : {"send", "receive", "cancel"}, doc : Transfers]
Closes == [kind : {"close"}, doc : Shifts, count : Nat]
Enters == [kind : {"enter"}, doc : Shifts]

ASSUME TreasuryAssumption ==
    /\ MaxRequests \in Nat /\ MaxShifts \in Nat /\ None \notin Requests
    /\ \A v \in Vouchers : Card[v].sign \in {1, -1} /\ Card[v].safe \in Safes
    /\ \A t \in Transfers : /\ Card[t].from \in Safes /\ Card[t].to \in Safes \ {Card[t].from}
                            /\ Card[t].amount \in Nat \ {0}
    /\ Drafts \subseteq [method : Methods, amount : Nat \ {0}]
    /\ Charts \subseteq Settings /\ None \notin Charts /\ None \notin Accounts
    /\ Bodies \subseteq [Accounts -> Int] /\ None \notin Bodies
    /\ \A o \in Ops : o \in Edits \/ o \in Posts \/ o \in OnVoucher \/ o \in OnTransfer
                      \/ o \in Closes \/ o \in Enters
    /\ IsFiniteSet(Vouchers) /\ IsFiniteSet(Transfers)
    /\ Vouchers \cap Transfers = {} /\ (Vouchers \cup Transfers) \cap Shifts = {}

VARIABLES
    voucher,     \* rows of vouchers
    transfer,    \* status of each row of cash_transfers
    shift,       \* rows of shift_closes
    balance,     \* cash_location_balances
    ledger,      \* what the posted entries of each document come to on each account
    keys,        \* idempotency keys of the committed entries
    journal,     \* the request that holds the number row of the journal
    pc, op,
    seen,        \* the row it has read
    drawer,      \* what a close expects in the drawer, and when a post is stamped
    clock,       \* the time: how often a shift was opened or closed
    started,     \* requests made so far
    overtaken,   \* history: requests another has committed past since they read
    stale,       \* history: documents on which an overtaken request has committed
    late,        \* history: vouchers posted or voided while a close was under way
    under        \* history: the charts each document's entries were written under, None
                 \* for an entry a caller gave

rows == <<voucher, transfer, shift>>
books == <<balance, ledger, keys, under>>
request == <<pc, op, seen, drawer>>
vars == <<rows, books, journal, request, clock, started, overtaken, stale, late>>

-----------------------------------------------------------------------------

Nothing == [a \in Accounts |-> 0]

Idle == [taken |-> {}, expected |-> 0, at |-> 0]

\* createVoucher: net_amount is the amount, and a cheque is pending.
New(d) == [status |-> "draft", method |-> d.method, amount |-> d.amount, net |-> d.amount,
           cheque |-> IF d.method = "cheque" THEN "pending" ELSE "none", at |-> 0]

Init ==
    /\ voucher \in [Vouchers -> {New(d) : d \in Drafts}]
    /\ transfer = [t \in Transfers |-> "draft"]
    /\ shift = [k \in Shifts |-> [status |-> "none", user |-> None, opened |-> 0, closed |-> 0,
                                  taken |-> {}, expected |-> 0, count |-> 0, entered |-> FALSE]]
    /\ balance = [s \in Safes |-> 0]
    /\ ledger = [d \in Docs |-> Nothing]
    /\ keys = {} /\ under = [d \in Docs |-> {}]
    /\ journal = None
    /\ pc = [r \in Requests |-> "idle"]
    /\ op = [r \in Requests |-> None]
    /\ seen = [r \in Requests |-> None]
    /\ drawer = [r \in Requests |-> Idle]
    /\ clock = 0 /\ started = 0
    /\ overtaken = {} /\ stale = {} /\ late = {}

Signed(v, n) == Card[v].sign * n

Goto(r, label) == pc' = [pc EXCEPT ![r] = label]

\* An entry that moves n from account b to account a.
Moves(a, b, n) == [x \in Accounts |-> (IF x = a THEN n ELSE 0) - (IF x = b THEN n ELSE 0)]

\* The entry of a document is posted under a chart.
Book(d, lines, chart) ==
    /\ ledger' = [ledger EXCEPT ![d] = [a \in Accounts |-> ledger[d][a] + lines[a]]]
    /\ under' = [under EXCEPT ![d] = @ \cup {chart}]

Bump(s, n) == balance' = [balance EXCEPT ![s] = @ + n]

\* voucherAccounts: the account of the safe, else the one in the profile; both it and the
\* account of the counterpart must be set.
Cash(v, c) == IF c.safe[Card[v].safe] # None THEN c.safe[Card[v].safe] ELSE c.cash[v]
HasAccounts(v, c) == Cash(v, c) # None /\ c.counter[v] # None

\* The account a cheque waits on, or that of the safe if the profile has none.
InHand(v, c) == IF c.inHand[v] # None THEN c.inHand[v] ELSE Cash(v, c)

-----------------------------------------------------------------------------

\* The first read of a request and the refusals that follow from it.
Accepts(o) ==
    \/ o.kind \in {"edit", "post"} /\ voucher[o.doc].status = "draft"
    \/ o.kind = "void" /\ voucher[o.doc].status = "posted"
    \/ /\ o.kind \in Targets /\ voucher[o.doc].status = "posted"
       /\ voucher[o.doc].method = "cheque" /\ voucher[o.doc].cheque = "pending"
    \/ o.kind \in {"send", "cancel"} /\ transfer[o.doc] = "draft"
    \/ o.kind = "receive" /\ transfer[o.doc] = "sent"
    \/ o.kind = "close" /\ shift[o.doc].status = "open"
    \/ o.kind = "enter" /\ shift[o.doc].status = "closed" /\ ~ shift[o.doc].entered

\* shiftTakings: the cash vouchers posted since the shift was opened.
Takings(k) ==
    {v \in Vouchers : /\ voucher[v].status = "posted" /\ voucher[v].method = "cash"
                      /\ voucher[v].at >= shift[k].opened}

Expected(k) == MapThenSumSet(LAMBDA v : Signed(v, voucher[v].amount), Takings(k))

Closing(r) == pc[r] # "idle" /\ op[r].kind = "close"
Underway == {op[u].doc : u \in {u \in Requests : pc[u] # "idle" /\ op[u].doc \in Vouchers}}

\* A request reads the row of its document; a close adds up its takings as well.
Begin(r, o) ==
    /\ pc[r] = "idle" /\ started < MaxRequests /\ Accepts(o)
    /\ started' = started + 1
    /\ Goto(r, "read")
    /\ op' = [op EXCEPT ![r] = o]
    /\ seen' = [seen EXCEPT ![r] = CASE o.doc \in Vouchers -> voucher[o.doc]
                                     [] o.doc \in Shifts -> shift[o.doc]
                                     [] OTHER -> None]
    /\ drawer' = IF o.kind = "close"
                 THEN [drawer EXCEPT ![r].taken = Takings(o.doc), ![r].expected = Expected(o.doc)]
                 ELSE drawer
    /\ late' = late \cup (IF o.kind = "close" THEN Underway ELSE {})
                    \cup (IF o.doc \in Vouchers /\ (\E u \in Requests : Closing(u))
                          THEN {o.doc} ELSE {})
    /\ UNCHANGED <<rows, books, journal, clock, overtaken, stale>>

Key(o) == <<o.kind, o.doc>>
Keyed(o) == o.kind \in Targets \cup {"send", "receive"}
Entered(o) == Keyed(o) \/ o.kind \in {"post", "enter"}

\* Fault: the entry of a transfer or of a cheque carries no key.
PostEntryWithoutKey(r) ==
    /\ pc[r] = "read" /\ Entered(op[r])
    /\ op[r].kind = "enter" => seen[r].expected # 0 \/ seen[r].count # 0
    /\ journal = None /\ journal' = r
    /\ drawer' = [drawer EXCEPT ![r].at = IF op[r].kind = "post" THEN clock ELSE 0]
    /\ Goto(r, "entered")
    /\ UNCHANGED <<rows, books, op, seen, clock, started, overtaken, stale, late>>

\* postJournalInTx takes the next number of the branch, a row locked to the end, and the
\* key of the entry, if it has one, must be new; a drawer with nothing in it and nothing
\* expected is refused.  Then a voucher is stamped with the time.
PostEntry(r) ==
    /\ pc[r] = "read" /\ Entered(op[r])
    /\ Keyed(op[r]) => Key(op[r]) \notin keys
    /\ op[r].kind = "enter" => seen[r].expected # 0 \/ seen[r].count # 0
    /\ journal = None /\ journal' = r
    /\ drawer' = [drawer EXCEPT ![r].at = IF op[r].kind = "post" THEN clock ELSE 0]
    /\ Goto(r, "entered")
    /\ UNCHANGED <<rows, books, op, seen, clock, started, overtaken, stale, late>>

\* The slot is free again, and the number row with it.
End(r) ==
    /\ Goto(r, "idle")
    /\ op' = [op EXCEPT ![r] = None]
    /\ seen' = [seen EXCEPT ![r] = None]
    /\ drawer' = [drawer EXCEPT ![r] = Idle]
    /\ journal' = IF journal = r THEN None ELSE journal

\* A commit overtakes every request on the same document that has read it.
Commits(r) ==
    /\ overtaken' = (overtaken \cup {u \in Requests \ {r} :
                        pc[u] # "idle" /\ op[u].doc = op[r].doc}) \ {r}
    /\ stale' = stale \cup IF r \in overtaken THEN {op[r].doc} ELSE {}
    /\ End(r)
    /\ UNCHANGED <<started, late>>

Does(r, kinds, label) == pc[r] = label /\ op[r].kind \in kinds

-----------------------------------------------------------------------------
(* Vouchers *)

\* updateDraftVoucher writes what it is given over the row, whatever its status is by
\* now; net_amount and the state of the cheque stay as they were created.
Edit(r) ==
    /\ Does(r, {"edit"}, "read")
    /\ voucher' = [voucher EXCEPT ![op[r].doc].amount = op[r].amount,
                                  ![op[r].doc].method = op[r].method]
    /\ Commits(r)
    /\ UNCHANGED <<transfer, shift, books, clock>>

\* Fault: a cheque moves the safe when its voucher is posted.
SafeMovesAlways(method) == TRUE

\* A cheque does not move the safe before it is settled.
SafeMoves(method) == method # "cheque"

\* The entry, unless the caller gives one, carries the net amount; the safe moves by the
\* amount.
PostVoucher(r, c) ==
    LET v == op[r].doc
        byHand == op[r].lines # None
        account == IF seen[r].method = "cheque" THEN InHand(v, c) ELSE Cash(v, c)
    IN /\ Does(r, {"post"}, "entered") /\ (byHand \/ HasAccounts(v, c))
       /\ voucher' = [voucher EXCEPT ![v].status = "posted", ![v].at = drawer[r].at]
       /\ IF byHand THEN Book(v, op[r].lines, None)
                    ELSE Book(v, Moves(account, c.counter[v], Signed(v, seen[r].net)), c)
       /\ Bump(Card[v].safe, IF SafeMoves(seen[r].method) THEN Signed(v, seen[r].amount) ELSE 0)
       /\ Commits(r)
       /\ UNCHANGED <<transfer, shift, keys, clock>>

\* The safe is given back what it took; the entry stays posted, and a cheque stays where
\* it is.
VoidVoucher(r) ==
    LET v == op[r].doc
    IN /\ Does(r, {"void"}, "read")
       /\ voucher' = [voucher EXCEPT ![v].status = "voided"]
       /\ Bump(Card[v].safe, IF SafeMoves(seen[r].method) THEN 0 - Signed(v, seen[r].amount) ELSE 0)
       /\ Commits(r)
       /\ UNCHANGED <<transfer, shift, ledger, keys, under, clock>>

\* Fault: a cheque that bounced is booked as money in the safe.
SettledInSafe(v, target, c) == Cash(v, c)

\* Money comes of the cheque, or the debt it was meant to settle returns.
SettledOn(v, target, c) == IF target = "bounced" THEN c.counter[v] ELSE Cash(v, c)

\* transitionCheque reads the settings anew; the state is changed only if it is still
\* pending, and nobody looks whether it was.
SettleCheque(r, c) ==
    LET v == op[r].doc
        target == op[r].kind
    IN /\ Does(r, Targets, "entered") /\ HasAccounts(v, c)
       /\ voucher' = [voucher EXCEPT ![v].cheque = IF @ = "pending" THEN target ELSE @]
       /\ Book(v, Moves(SettledOn(v, target, c), InHand(v, c), Signed(v, seen[r].net)), c)
       /\ Bump(Card[v].safe, IF target = "bounced" THEN 0 ELSE Signed(v, seen[r].amount))
       /\ keys' = keys \cup {Key(op[r])}
       /\ Commits(r)
       /\ UNCHANGED <<transfer, shift, clock>>

-----------------------------------------------------------------------------
(* Transfers between safes *)

\* The amount leaves one safe for the transit account, and that for the other safe.
Move(r, kind, from, to, c, safe, n, status) ==
    /\ Does(r, {kind}, "entered") /\ None \notin {from, to}
    /\ transfer' = [transfer EXCEPT ![op[r].doc] = status]
    /\ Book(op[r].doc, Moves(to, from, Card[op[r].doc].amount), c)
    /\ Bump(safe, n * Card[op[r].doc].amount)
    /\ keys' = keys \cup {Key(op[r])}
    /\ Commits(r)
    /\ UNCHANGED <<voucher, shift, clock>>

SendTransfer(r, c) ==
    LET from == Card[op[r].doc].from
    IN Move(r, "send", c.safe[from], c.transit, c, from, -1, "sent")

ReceiveTransfer(r, c) ==
    LET to == Card[op[r].doc].to
    IN Move(r, "receive", c.transit, c.safe[to], c, to, 1, "received")

CancelTransfer(r) ==
    /\ Does(r, {"cancel"}, "read")
    /\ transfer' = [transfer EXCEPT ![op[r].doc] = "voided"]
    /\ Commits(r)
    /\ UNCHANGED <<voucher, shift, books, clock>>

-----------------------------------------------------------------------------
(* Shifts *)

\* Fault: a cashier may open a shift beside his open one.
OpenShiftAgain(k, u) ==
    /\ shift[k].status = "none" /\ \A j \in 1..(k - 1) : shift[j].status # "none"
    /\ clock' = clock + 1
    /\ shift' = [shift EXCEPT ![k].status = "open", ![k].user = u, ![k].opened = clock + 1]
    /\ UNCHANGED <<voucher, transfer, books, journal, request, started, overtaken, stale, late>>

\* openShift: the unique index lets each cashier have one shift open in the branch.
OpenShift(k, u) ==
    /\ shift[k].status = "none" /\ \A j \in 1..(k - 1) : shift[j].status # "none"
    /\ \A j \in Shifts : shift[j].status = "open" => shift[j].user # u
    /\ clock' = clock + 1
    /\ shift' = [shift EXCEPT ![k].status = "open", ![k].user = u, ![k].opened = clock + 1]
    /\ UNCHANGED <<voucher, transfer, books, journal, request, started, overtaken, stale, late>>

\* The lines of a close are keyed by shift and number, so that a shift is closed once.
CloseShift(r) ==
    LET k == op[r].doc
    IN /\ Does(r, {"close"}, "read") /\ shift[k].status = "open"
       /\ clock' = clock + 1
       /\ shift' = [shift EXCEPT ![k] =
             [@ EXCEPT !.status = "closed", !.closed = clock + 1, !.taken = drawer[r].taken,
                       !.expected = drawer[r].expected, !.count = op[r].count]]
       /\ Commits(r)
       /\ UNCHANGED <<voucher, transfer, books>>

\* What was counted goes from the account of the drawer to the custody of the cashier, and
\* the rest of what was expected to the account of differences.
Handed(row, c) ==
    LET short == row.expected - row.count
    IN [a \in Accounts |-> Moves(c.custody, c.till, row.count)[a]
                          + Moves(c.difference, c.till, short)[a]]

\* postShiftClose: its entry has no key.
EnterShift(r, c) ==
    /\ Does(r, {"enter"}, "entered") /\ None \notin {c.till, c.custody}
    /\ seen[r].expected = seen[r].count \/ c.difference # None
    /\ shift' = [shift EXCEPT ![op[r].doc].entered = TRUE]
    /\ Book(op[r].doc, Handed(seen[r], c), c)
    /\ Commits(r)
    /\ UNCHANGED <<voucher, transfer, balance, keys, clock>>

-----------------------------------------------------------------------------

\* An error, a refusal by a unique index or a crash: the transaction rolls back.
Fail(r) ==
    /\ pc[r] # "idle"
    /\ End(r)
    /\ overtaken' = overtaken \ {r}
    /\ UNCHANGED <<rows, books, clock, started, stale, late>>

Next ==
    \/ \E r \in Requests :
          \/ \E o \in Ops : Begin(r, o)
          \/ PostEntry(r) \/ Edit(r) \/ VoidVoucher(r) \/ CancelTransfer(r)
          \/ \E c \in Charts : \/ PostVoucher(r, c) \/ SettleCheque(r, c)
                             \/ SendTransfer(r, c) \/ ReceiveTransfer(r, c)
                             \/ EnterShift(r, c)
          \/ CloseShift(r) \/ Fail(r)
    \/ \E k \in Shifts, u \in Users : OpenShift(k, u)

Spec == Init /\ [][Next]_vars

-----------------------------------------------------------------------------
(* Properties *)

TypeOK ==
    /\ voucher \in [Vouchers -> [status : {"draft", "posted", "voided"}, method : Methods,
                                 amount : Nat \ {0}, net : Nat \ {0}, at : Nat,
                                 cheque : {"none", "pending"} \cup Targets]]
    /\ transfer \in [Transfers -> {"draft", "sent", "received", "voided"}]
    /\ shift \in [Shifts -> [status : {"none", "open", "closed"}, user : Users \cup {None},
                             opened : Nat, closed : Nat, taken : SUBSET Vouchers,
                             expected : Int, count : Nat, entered : BOOLEAN]]
    /\ balance \in [Safes -> Int] /\ ledger \in [Docs -> [Accounts -> Int]]
    /\ under \in [Docs -> SUBSET (Charts \cup {None})]
    /\ keys \in SUBSET {Key(o) : o \in {o \in Ops : Keyed(o)}}
    /\ journal \in Requests \cup {None}
    /\ pc \in [Requests -> {"idle", "read", "entered"}]
    /\ op \in [Requests -> Ops \cup {None}]
    /\ drawer \in [Requests -> [taken : SUBSET Vouchers, expected : Int, at : Nat]]
    /\ clock \in Nat /\ started \in 0..MaxRequests
    /\ overtaken \in SUBSET Requests
    /\ stale \in SUBSET Docs /\ late \in SUBSET Vouchers

\* What a cheque has become counts, or the status of a voucher in cash.
InSafe(v) == IF voucher[v].method = "cheque" THEN voucher[v].cheque \in {"cleared", "collected"}
             ELSE voucher[v].status = "posted"

Sum(V) == MapThenSumSet(LAMBDA v : Signed(v, voucher[v].amount), V)
Amounts(T) == MapThenSumSet(LAMBDA t : Card[t].amount, T)

Of(s) == {v \in Vouchers : Card[v].safe = s}
Left(s) == {t \in Transfers : Card[t].from = s /\ transfer[t] \in {"sent", "received"}}
Arrived(s) == {t \in Transfers : Card[t].to = s /\ transfer[t] = "received"}

\* No request has written on a document of the safe past another.
Clear(s) == (Of(s) \cup {t \in Transfers : s \in {Card[t].from, Card[t].to}}) \cap stale = {}

\* The types, and: the balance of a safe is what its documents say of it: vouchers posted
\* and not voided, cheques cleared or collected, transfers sent and received.
BalanceTellsDocuments ==
    TypeOK /\ \A s \in Safes : Clear(s) =>
        balance[s] = Sum({v \in Of(s) : InSafe(v)}) + Amounts(Arrived(s)) - Amounts(Left(s))

Waiting(v) == /\ voucher[v].status # "draft" /\ voucher[v].method = "cheque"
              /\ voucher[v].cheque \notin Targets
Returned(v) == voucher[v].method = "cheque" /\ voucher[v].cheque = "bounced"

\* Where the money of a voucher is, by a chart: with the counterpart as long as it is a
\* draft and when its cheque bounced, else on the account where cheques wait or on that of
\* the safe, where it stays when the voucher is voided.
Kept(v, c) == CASE voucher[v].status = "draft" \/ Returned(v) -> c.counter[v]
                [] Waiting(v) -> InHand(v, c)
                [] OTHER -> Cash(v, c)

VoucherSays(v, c) == Moves(Kept(v, c), c.counter[v], Signed(v, voucher[v].net))
ShiftSays(k, c) == IF shift[k].entered THEN Handed(shift[k], c) ELSE Nothing

\* The ledger tells the vouchers and the shifts too.  Whatever the entries of a voucher
\* were, posted, cleared, collected or bounced, if one chart was in force for all of them
\* they come to its net amount, moved from the counterpart to the one account where its
\* status says the money is, also where roles share an account; those of a shift entered
\* hand its count to the custody.
LedgerTellsDocuments ==
    \A c \in Charts :
        /\ \A v \in Vouchers \ stale : under[v] \subseteq {c} => ledger[v] = VoucherSays(v, c)
        /\ \A k \in Shifts \ stale : under[k] \subseteq {c} => ledger[k] = ShiftSays(k, c)

\* Where the entries of a transfer have left its money.
Place(t) == IF <<"receive", t>> \in keys THEN "received"
            ELSE IF <<"send", t>> \in keys THEN "sent" ELSE "draft"

TransferSays(t, c) ==
    LET from == c.safe[Card[t].from]
        at == CASE Place(t) = "draft" -> from
                [] Place(t) = "sent" -> c.transit
                [] Place(t) = "received" -> c.safe[Card[t].to]
    IN Moves(at, from, Card[t].amount)

\* Under every interleaving the money of a transfer is in exactly one place: if its entries
\* were written under one chart it is in the first safe, on the transit account when it was
\* sent and not received, or in the second; the status tells the place unless it says
\* voided, and a voided transfer was never sent unless a cancellation was overtaken.
MoneyInOnePlace ==
    \A t \in Transfers :
        /\ \A c \in Charts : under[t] \subseteq {c} => ledger[t] = TransferSays(t, c)
        /\ <<"receive", t>> \in keys => <<"send", t>> \in keys
        /\ transfer[t] = Place(t) \/ transfer[t] = "voided"
        /\ transfer[t] = "voided" => Place(t) = "draft" \/ t \in stale

Open(k, at) == shift[k].opened <= at /\ at < shift[k].closed

\* A shift takes only vouchers posted while it was open, every one in cash that was not
\* posted or voided while some drawer was being closed, and no cashier counts a voucher in
\* two of his shifts; the shifts of two cashiers may both take it.
TakingsTellShifts ==
    \A k \in {k \in Shifts : shift[k].status = "closed"}, v \in Vouchers \ stale :
        /\ v \in shift[k].taken => Open(k, voucher[v].at)
        /\ /\ voucher[v].status = "posted" /\ voucher[v].method = "cash"
           /\ v \notin late /\ Open(k, voucher[v].at)
           => v \in shift[k].taken
        /\ \A j \in Shifts : /\ j # k /\ shift[j].status = "closed"
                            /\ v \in shift[j].taken \cap shift[k].taken
                            => shift[j].user # shift[k].user
=============================================================================
