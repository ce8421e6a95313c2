---------------------------- MODULE TreasuryProofs ----------------------------
(***************************************************************************)
(* Proofs about Treasury, for any requests, vouchers, transfers, safes and *)
(* shifts.                                                                 *)
(***************************************************************************)
EXTENDS Treasury, SumTheorems

-----------------------------------------------------------------------------
(* The inductive invariant *)

VoucherRow == [status : {"draft", "posted", "voided"}, method : Methods,
               amount : Nat \ {0}, net : Nat \ {0}, at : Nat,
               cheque : {"none", "pending"} \cup Targets]

ShiftRow == [status : {"none", "open", "closed"}, user : Users \cup {None},
             opened : Nat, closed : Nat, taken : SUBSET Vouchers,
             expected : Int, count : Nat, entered : BOOLEAN]

Busy(r, kinds) == pc[r] # "idle" /\ op[r].kind \in kinds

\* What a request that is under way has found and holds, whoever overtook it: rows do not
\* go back to draft, entries stay, and the number row of the journal is its own.
SlotOK(r) ==
    /\ pc[r] # "idle" => op[r] \in Ops
    /\ pc[r] = "entered" => /\ journal = r /\ Entered(op[r])
                            /\ Keyed(op[r]) => Key(op[r]) \notin keys
                            /\ drawer[r].at <= clock
    /\ Busy(r, {"post", "void"} \cup Targets) => seen[r] \in VoucherRow
    /\ Busy(r, {"void"} \cup Targets) => voucher[op[r].doc].status # "draft"
    /\ Busy(r, {"receive"}) => <<"send", op[r].doc>> \in keys
    /\ Busy(r, {"close"}) => shift[op[r].doc].status # "none" /\ pc[r] = "read"
    /\ Busy(r, {"enter"}) => shift[op[r].doc].status = "closed" /\ seen[r] \in ShiftRow

\* What it has read still is so, as long as nobody has overtaken it.
Current(r) ==
    pc[r] # "idle" =>
        /\ Accepts(op[r])
        /\ op[r].doc \in Vouchers => seen[r] = voucher[op[r].doc]
        /\ op[r].doc \in Shifts => seen[r] = shift[op[r].doc]

\* A shift has its times from the clock, and has taken what was posted.
ShiftOK(k) ==
    /\ shift[k].status # "none" => shift[k].opened <= clock
    /\ shift[k].status = "closed" => shift[k].closed <= clock
    /\ shift[k].entered => shift[k].status = "closed"
    /\ \A v \in shift[k].taken : voucher[v].status # "draft"

Before(j, k) == shift[j].status = "closed" /\ shift[j].closed < shift[k].opened

\* One cashier has one shift after the other.
InTurn(j, k) ==
    /\ j # k /\ shift[j].user = shift[k].user
    /\ shift[j].status # "none" /\ shift[k].status # "none"
    => Before(j, k) \/ Before(k, j)

VoucherOK(v) ==
    /\ voucher[v].status = "draft" => voucher[v].cheque \in {"none", "pending"}
    /\ voucher[v].at <= clock

\* A shift that is closed has taken what was posted while it was open.
Told(k, v) ==
    shift[k].status = "closed" /\ v \notin stale =>
        /\ v \in shift[k].taken => Open(k, voucher[v].at)
        /\ /\ voucher[v].status = "posted" /\ voucher[v].method = "cash"
           /\ v \notin late /\ Open(k, voucher[v].at)
           => v \in shift[k].taken

\* What a close has added up, and what a post that no close has met is stamped with.
ClosingOK(r) ==
    /\ Closing(r) => \A v \in drawer[r].taken :
          /\ voucher[v].status # "draft"
          /\ v \notin stale => shift[op[r].doc].opened <= voucher[v].at
    /\ Closing(r) => \A v \in Vouchers \ late :
          v \notin Underway /\ (v \in drawer[r].taken <=> v \in Takings(op[r].doc))
    /\ pc[r] = "entered" /\ op[r].kind = "post" /\ op[r].doc \notin late =>
          \A k \in Shifts : shift[k].status = "closed" => shift[k].closed <= drawer[r].at

Types == TypeOK /\ seen \in [Requests -> VoucherRow \cup ShiftRow \cup {None}]

Slots ==
    /\ Types
    /\ \A r \in Requests : SlotOK(r) /\ (r \notin overtaken => Current(r))

Clocks ==
    /\ \A k \in Shifts : ShiftOK(k)
    /\ \A j \in Shifts, k \in Shifts : InTurn(j, k)
    /\ \A v \in Vouchers : VoucherOK(v)
    /\ \A r \in Requests : ClosingOK(r)
    /\ \A k \in Shifts, v \in Vouchers : Told(k, v)

IInv == Slots /\ Clocks /\ MoneyInOnePlace /\ BalanceTellsDocuments /\ LedgerTellsDocuments

-----------------------------------------------------------------------------
(* The requests and what they do *)

\* What kind of document a request is about.
LEMMA OpKinds ==
    ASSUME NEW o \in Ops
    PROVE  \/ /\ o.kind = "edit" /\ o.doc \in Vouchers
              /\ o.amount \in Nat \ {0} /\ o.method \in Methods
           \/ o.kind = "post" /\ o.doc \in Vouchers /\ o.lines \in Bodies \cup {None}
           \/ o.kind \in {"void"} \cup Targets /\ o.doc \in Vouchers
           \/ o.kind \in {"send", "receive", "cancel"} /\ o.doc \in Transfers
           \/ o.kind = "close" /\ o.doc \in Shifts /\ o.count \in Nat
           \/ o.kind = "enter" /\ o.doc \in Shifts
<1>1. o \in Edits \/ o \in Posts \/ o \in OnVoucher \/ o \in OnTransfer \/ o \in Closes
      \/ o \in Enters
  BY TreasuryAssumption
<1>2. CASE o \in Edits
  BY <1>2 DEF Edits
<1>3. CASE o \in OnVoucher
  BY <1>3 DEF OnVoucher
<1>4. CASE o \in OnTransfer
  BY <1>4 DEF OnTransfer
<1>5. CASE o \in Closes
  BY <1>5 DEF Closes
<1>6. CASE o \in Enters
  BY <1>6 DEF Enters
<1>7. CASE o \in Posts
  BY <1>7 DEF Posts
<1> QED BY <1>1, <1>2, <1>3, <1>4, <1>5, <1>6, <1>7

LEMMA DocKinds ==
    ASSUME NEW o \in Ops
    PROVE  /\ o.kind \in {"edit", "post", "void"} \cup Targets <=> o.doc \in Vouchers
           /\ o.kind \in {"send", "receive", "cancel"} <=> o.doc \in Transfers
           /\ o.kind \in {"close", "enter"} <=> o.doc \in Shifts
           /\ o.kind = "edit" => o.amount \in Nat \ {0} /\ o.method \in Methods
           /\ o.kind = "post" => o.lines \in Bodies \cup {None}
           /\ o.kind = "close" => o.count \in Nat
<1>1. Vouchers \cap Transfers = {} /\ (Vouchers \cup Transfers) \cap Shifts = {}
  BY TreasuryAssumption
<1> QED BY <1>1, OpKinds DEF Targets

LEMMA SignedInt ==
    ASSUME NEW v \in Vouchers, NEW n \in Nat
    PROVE  Signed(v, n) \in Int
<1>1. Card[v].sign = 1 \/ Card[v].sign = -1
  BY TreasuryAssumption
<1> QED BY <1>1 DEF Signed

LEMMA CardSafes ==
    /\ \A v \in Vouchers : Card[v].safe \in Safes
    /\ \A t \in Transfers : /\ Card[t].from \in Safes /\ Card[t].to \in Safes
                            /\ Card[t].to # Card[t].from /\ Card[t].amount \in Nat
BY TreasuryAssumption

\* The types without the history, and those of the slots.
LEMMA TypesFields ==
    ASSUME Types
    PROVE  /\ voucher \in [Vouchers -> VoucherRow]
           /\ transfer \in [Transfers -> {"draft", "sent", "received", "voided"}]
           /\ shift \in [Shifts -> ShiftRow]
           /\ balance \in [Safes -> Int] /\ ledger \in [Docs -> [Accounts -> Int]]
           /\ under \in [Docs -> SUBSET (Charts \cup {None})]
           /\ pc \in [Requests -> {"idle", "read", "entered"}]
           /\ op \in [Requests -> Ops \cup {None}]
           /\ seen \in [Requests -> VoucherRow \cup ShiftRow \cup {None}]
           /\ drawer \in [Requests -> [taken : SUBSET Vouchers, expected : Int, at : Nat]]
           /\ clock \in Nat /\ journal \in Requests \cup {None}
BY TreasuryAssumption DEF Types, TypeOK, VoucherRow, ShiftRow

\* A slot that ends is empty, and no other has changed.
LEMMA Ended ==
    ASSUME Types, NEW r \in Requests, End(r)
    PROVE  /\ pc' \in [Requests -> {"idle", "read", "entered"}]
           /\ op' \in [Requests -> Ops \cup {None}]
           /\ seen' \in [Requests -> VoucherRow \cup ShiftRow \cup {None}]
           /\ drawer' \in [Requests -> [taken : SUBSET Vouchers, expected : Int, at : Nat]]
           /\ journal' \in Requests \cup {None}
           /\ pc'[r] = "idle" /\ journal' = IF journal = r THEN None ELSE journal
           /\ \A u \in Requests \ {r} : /\ pc'[u] = pc[u] /\ op'[u] = op[u]
                                        /\ seen'[u] = seen[u] /\ drawer'[u] = drawer[u]
<1> USE TypesFields
<1>1. pc' = [pc EXCEPT ![r] = "idle"]
  BY DEF End, Goto
<1>2. Idle \in [taken : SUBSET Vouchers, expected : Int, at : Nat]
  BY DEF Idle
<1>3. drawer' = [drawer EXCEPT ![r] = Idle]
  BY DEF End
<1>4. drawer' \in [Requests -> [taken : SUBSET Vouchers, expected : Int, at : Nat]]
  BY <1>2, <1>3
<1>5. op' \in [Requests -> Ops \cup {None}]
  BY DEF End
<1>6. seen' \in [Requests -> VoucherRow \cup ShiftRow \cup {None}]
  BY DEF End
<1>7. \A u \in Requests \ {r} : op'[u] = op[u] /\ seen'[u] = seen[u]
  BY DEF End
<1>8. \A u \in Requests \ {r} : pc'[u] = pc[u] /\ drawer'[u] = drawer[u]
  BY <1>1, <1>3
<1>9. journal' = IF journal = r THEN None ELSE journal
  BY DEF End
<1> QED BY <1>1, <1>4, <1>5, <1>6, <1>7, <1>8, <1>9

\* What a commit does to the history.
LEMMA Committed ==
    ASSUME Types, NEW r \in Requests, Commits(r)
    PROVE  /\ End(r) /\ started' = started /\ late' = late
           /\ overtaken' = (overtaken \cup {u \in Requests \ {r} :
                              pc[u] # "idle" /\ op[u].doc = op[r].doc}) \ {r}
           /\ stale \subseteq stale' /\ stale' \subseteq stale \cup {op[r].doc}
           /\ r \in overtaken => op[r].doc \in stale'
BY DEF Commits

\* A document is booked, and no other.
Wrote(d) == /\ ledger' \in [Docs -> [Accounts -> Int]]
            /\ under' \in [Docs -> SUBSET (Charts \cup {None})]
            /\ \A e \in Docs \ {d} : ledger'[e] = ledger[e] /\ under'[e] = under[e]

LEMMA BookDoes ==
    ASSUME Types, NEW d \in Docs, NEW lines \in [Accounts -> Int],
           NEW chart \in Charts \cup {None}, Book(d, lines, chart)
    PROVE  /\ Wrote(d)
           /\ under'[d] = under[d] \cup {chart}
           /\ \A a \in Accounts : ledger'[d][a] = ledger[d][a] + lines[a]
<1>1. ledger \in [Docs -> [Accounts -> Int]] /\ under \in [Docs -> SUBSET (Charts \cup {None})]
  BY TypesFields
<1> DEFINE row == [a \in Accounts |-> ledger[d][a] + lines[a]]
<1>2. row \in [Accounts -> Int] /\ \A a \in Accounts : row[a] = ledger[d][a] + lines[a]
  <2>1. ledger[d] \in [Accounts -> Int]
    BY <1>1
  <2> QED BY <2>1
<1>3. ledger' = [ledger EXCEPT ![d] = row] /\ under' = [under EXCEPT ![d] = @ \cup {chart}]
  BY DEF Book
<1> HIDE DEF row
<1>4. /\ ledger' \in [Docs -> [Accounts -> Int]] /\ ledger'[d] = row
      /\ \A e \in Docs \ {d} : ledger'[e] = ledger[e]
  BY <1>1, <1>2, <1>3
<1>5. /\ under' \in [Docs -> SUBSET (Charts \cup {None})]
      /\ under'[d] = under[d] \cup {chart}
      /\ \A e \in Docs \ {d} : under'[e] = under[e]
  BY <1>1, <1>3
<1> QED BY <1>2, <1>4, <1>5 DEF Wrote

LEMMA MovesType ==
    ASSUME NEW a, NEW b, NEW n \in Int
    PROVE  /\ Moves(a, b, n) \in [Accounts -> Int]
           /\ \A x \in Accounts :
                 Moves(a, b, n)[x] = (IF x = a THEN n ELSE 0) - (IF x = b THEN n ELSE 0)
BY DEF Moves

LEMMA DocsAll == Vouchers \subseteq Docs /\ Transfers \subseteq Docs /\ Shifts \subseteq Docs
BY DEF Docs

LEMMA EditDoes ==
    ASSUME Types, NEW r \in Requests, SlotOK(r), NEW d, d = op[r].doc, Edit(r)
    PROVE  /\ d \in Vouchers /\ pc[r] = "read" /\ op[r].kind = "edit" /\ op[r] \in Ops
           /\ voucher' \in [Vouchers -> VoucherRow]
           /\ \A v \in Vouchers \ {d} : voucher'[v] = voucher[v]
           /\ \A f \in {"status", "net", "cheque", "at"} : voucher'[d][f] = voucher[d][f]
           /\ Commits(r)
           /\ UNCHANGED <<transfer, shift, balance, ledger, keys, under, clock>>
<1>1. pc[r] = "read" /\ op[r].kind = "edit" /\ op[r] \in Ops
  BY DEF Edit, Does, SlotOK
<1>2. d \in Vouchers /\ op[r].amount \in Nat \ {0} /\ op[r].method \in Methods
  BY <1>1, DocKinds
<1>3. voucher' = [voucher EXCEPT ![d].amount = op[r].amount, ![d].method = op[r].method]
  BY DEF Edit
<1>4. voucher \in [Vouchers -> VoucherRow]
  BY TypesFields
<1>5. voucher'[d] = [voucher[d] EXCEPT !.amount = op[r].amount, !.method = op[r].method]
  BY <1>2, <1>3, <1>4 DEF VoucherRow
<1>6. voucher'[d] \in VoucherRow /\ voucher[d] \in VoucherRow
  BY <1>2, <1>4, <1>5 DEF VoucherRow
<1>7. \A v \in Vouchers \ {d} : voucher'[v] = voucher[v]
  BY <1>3, <1>4
<1>8. voucher' \in [Vouchers -> VoucherRow]
  BY <1>3, <1>4, <1>6, <1>7
<1>9. \A f \in {"status", "net", "cheque", "at"} : voucher'[d][f] = voucher[d][f]
  BY <1>5, <1>6 DEF VoucherRow
<1>10. Commits(r) /\ UNCHANGED <<transfer, shift, balance, ledger, keys, under, clock>>
  BY DEF Edit, books
<1> QED BY <1>1, <1>2, <1>7, <1>8, <1>9, <1>10

\* The entry of a post, its chart, and what the safe moves by.
PostAccount(r, c) == IF seen[r].method = "cheque" THEN InHand(op[r].doc, c) ELSE Cash(op[r].doc, c)
PostLines(r, c) == IF op[r].lines # None THEN op[r].lines
                   ELSE Moves(PostAccount(r, c), c.counter[op[r].doc],
                              Signed(op[r].doc, seen[r].net))
PostChart(r, c) == IF op[r].lines # None THEN None ELSE c
PostMoves(r) == IF seen[r].method # "cheque" THEN Signed(op[r].doc, seen[r].amount) ELSE 0

LEMMA PostDoes ==
    ASSUME Types, NEW r \in Requests, SlotOK(r), NEW d, d = op[r].doc, NEW c \in Charts,
           PostVoucher(r, c)
    PROVE  /\ d \in Vouchers /\ pc[r] = "entered" /\ op[r].kind = "post" /\ op[r] \in Ops
           /\ seen[r] \in VoucherRow /\ drawer[r].at \in Nat /\ drawer[r].at <= clock
           /\ voucher' \in [Vouchers -> VoucherRow]
           /\ \A v \in Vouchers \ {d} : voucher'[v] = voucher[v]
           /\ \A f \in {"method", "amount", "net", "cheque"} : voucher'[d][f] = voucher[d][f]
           /\ voucher'[d].status = "posted" /\ voucher'[d].at = drawer[r].at
           /\ PostLines(r, c) \in [Accounts -> Int] /\ PostChart(r, c) \in Charts \cup {None}
           /\ under'[d] = under[d] \cup {PostChart(r, c)}
           /\ \A a \in Accounts : ledger'[d][a] = ledger[d][a] + PostLines(r, c)[a]
           /\ Wrote(d)
           /\ balance' = [balance EXCEPT ![Card[d].safe] = @ + PostMoves(r)]
           /\ Commits(r)
           /\ UNCHANGED <<transfer, shift, keys, clock>>
<1>1. pc[r] = "entered" /\ op[r].kind = "post" /\ op[r] \in Ops
  BY DEF PostVoucher, Does, SlotOK
<1>2. d \in Vouchers
  BY <1>1, DocKinds
<1>3. seen[r] \in VoucherRow /\ drawer[r].at <= clock
  BY <1>1 DEF SlotOK, Busy
<1> DEFINE n == drawer[r].at
<1>4. n \in Nat
  BY TypesFields
<1>5. voucher' = [voucher EXCEPT ![d].status = "posted", ![d].at = n]
  BY DEF PostVoucher
<1> HIDE DEF n
<1>6. voucher \in [Vouchers -> VoucherRow]
  BY TypesFields
<1>7. voucher'[d] = [voucher[d] EXCEPT !.status = "posted", !.at = n]
  BY <1>2, <1>5, <1>6 DEF VoucherRow
<1>8. voucher'[d] \in VoucherRow /\ voucher[d] \in VoucherRow
  <2>1. voucher[d] \in VoucherRow
    BY <1>2, <1>6
  <2>2. /\ voucher[d].method \in Methods /\ voucher[d].amount \in Nat \ {0}
        /\ voucher[d].net \in Nat \ {0}
        /\ voucher[d].cheque \in {"none", "pending"} \cup Targets
    BY <2>1 DEF VoucherRow
  <2>3. voucher'[d] = [status |-> "posted", method |-> voucher[d].method,
                       amount |-> voucher[d].amount, net |-> voucher[d].net, at |-> n,
                       cheque |-> voucher[d].cheque]
    BY <1>7, <2>1 DEF VoucherRow
  <2> QED BY <1>4, <2>1, <2>2, <2>3 DEF VoucherRow
<1>9. \A v \in Vouchers \ {d} : voucher'[v] = voucher[v]
  BY <1>5, <1>6
<1>10. voucher' \in [Vouchers -> VoucherRow]
  BY <1>5, <1>6, <1>8, <1>9
<1>11. /\ \A f \in {"method", "amount", "net", "cheque"} : voucher'[d][f] = voucher[d][f]
       /\ voucher'[d].status = "posted" /\ voucher'[d].at = n
  BY <1>7, <1>8 DEF VoucherRow
<1>12. balance' = [balance EXCEPT ![Card[d].safe] = @ + PostMoves(r)]
  BY DEF PostVoucher, PostMoves, Bump, SafeMoves
<1>14. Book(d, PostLines(r, c), PostChart(r, c))
  <2>1. CASE op[r].lines # None
    BY <2>1 DEF PostVoucher, PostLines, PostChart
  <2>2. CASE op[r].lines = None
    BY <2>2 DEF PostVoucher, PostLines, PostChart, PostAccount
  <2> QED BY <2>1, <2>2
<1>15. PostLines(r, c) \in [Accounts -> Int]
  <2>1. CASE op[r].lines # None
    <3>1. op[r].lines \in Bodies
      BY <1>1, <2>1, DocKinds
    <3> QED BY <2>1, <3>1, TreasuryAssumption DEF PostLines
  <2>2. CASE op[r].lines = None
    <3>1. seen[r].net \in Nat
      BY <1>3 DEF VoucherRow
    <3>2. Signed(d, seen[r].net) \in Int
      BY <1>2, <3>1, SignedInt
    <3> QED BY <2>2, <3>2, MovesType DEF PostLines
  <2> QED BY <2>1, <2>2
<1>16. PostChart(r, c) \in Charts \cup {None}
  BY DEF PostChart
<1>17. /\ Wrote(d)
       /\ under'[d] = under[d] \cup {PostChart(r, c)}
       /\ \A a \in Accounts : ledger'[d][a] = ledger[d][a] + PostLines(r, c)[a]
  BY <1>2, <1>14, <1>15, <1>16, BookDoes, DocsAll
<1>13. Commits(r) /\ UNCHANGED <<transfer, shift, keys, clock>>
  BY DEF PostVoucher
<1> QED BY <1>1, <1>2, <1>3, <1>4, <1>9, <1>10, <1>11, <1>12, <1>13, <1>14, <1>15, <1>16, <1>17 DEF n

VoidMoves(r) == IF seen[r].method # "cheque" THEN 0 - Signed(op[r].doc, seen[r].amount) ELSE 0

LEMMA VoidDoes ==
    ASSUME Types, NEW r \in Requests, SlotOK(r), NEW d, d = op[r].doc, VoidVoucher(r)
    PROVE  /\ d \in Vouchers /\ pc[r] = "read" /\ op[r].kind = "void" /\ op[r] \in Ops
           /\ seen[r] \in VoucherRow
           /\ voucher' \in [Vouchers -> VoucherRow]
           /\ \A v \in Vouchers \ {d} : voucher'[v] = voucher[v]
           /\ \A f \in {"method", "amount", "net", "cheque", "at"} : voucher'[d][f] = voucher[d][f]
           /\ voucher'[d].status = "voided"
           /\ balance' = [balance EXCEPT ![Card[d].safe] = @ + VoidMoves(r)]
           /\ Commits(r)
           /\ UNCHANGED <<transfer, shift, ledger, keys, under, clock>>
<1>1. pc[r] = "read" /\ op[r].kind = "void" /\ op[r] \in Ops
  BY DEF VoidVoucher, Does, SlotOK
<1>2. d \in Vouchers
  BY <1>1, DocKinds
<1>3. seen[r] \in VoucherRow
  BY <1>1 DEF SlotOK, Busy
<1>5. voucher' = [voucher EXCEPT ![d].status = "voided"]
  BY DEF VoidVoucher
<1>6. voucher \in [Vouchers -> VoucherRow]
  BY TypesFields
<1>7. voucher'[d] = [voucher[d] EXCEPT !.status = "voided"]
  BY <1>2, <1>5, <1>6 DEF VoucherRow
<1>8. voucher'[d] \in VoucherRow /\ voucher[d] \in VoucherRow
  BY <1>2, <1>6, <1>7 DEF VoucherRow
<1>9. \A v \in Vouchers \ {d} : voucher'[v] = voucher[v]
  BY <1>5, <1>6
<1>10. voucher' \in [Vouchers -> VoucherRow]
  BY <1>5, <1>6, <1>8, <1>9
<1>11. /\ \A f \in {"method", "amount", "net", "cheque", "at"} : voucher'[d][f] = voucher[d][f]
       /\ voucher'[d].status = "voided"
  BY <1>7, <1>8 DEF VoucherRow
<1>12. balance' = [balance EXCEPT ![Card[d].safe] = @ + VoidMoves(r)]
  BY DEF VoidVoucher, VoidMoves, Bump, SafeMoves
<1>13. Commits(r) /\ UNCHANGED <<transfer, shift, ledger, keys, under, clock>>
  BY DEF VoidVoucher
<1> QED BY <1>1, <1>2, <1>3, <1>9, <1>10, <1>11, <1>12, <1>13

SettleLines(r, c) == Moves(SettledOn(op[r].doc, op[r].kind, c), InHand(op[r].doc, c),
                           Signed(op[r].doc, seen[r].net))
SettleMoves(r) == IF op[r].kind = "bounced" THEN 0 ELSE Signed(op[r].doc, seen[r].amount)

LEMMA SettleDoes ==
    ASSUME Types, NEW r \in Requests, SlotOK(r), NEW d, d = op[r].doc, NEW c \in Charts,
           SettleCheque(r, c)
    PROVE  /\ d \in Vouchers /\ pc[r] = "entered" /\ op[r].kind \in Targets /\ op[r] \in Ops
           /\ seen[r] \in VoucherRow
           /\ voucher' \in [Vouchers -> VoucherRow]
           /\ \A v \in Vouchers \ {d} : voucher'[v] = voucher[v]
           /\ \A f \in {"status", "method", "amount", "net", "at"} : voucher'[d][f] = voucher[d][f]
           /\ voucher'[d].cheque = IF voucher[d].cheque = "pending" THEN op[r].kind
                                   ELSE voucher[d].cheque
           /\ under'[d] = under[d] \cup {c}
           /\ \A a \in Accounts : ledger'[d][a] = ledger[d][a] + SettleLines(r, c)[a]
           /\ SettleLines(r, c) \in [Accounts -> Int] /\ Wrote(d)
           /\ balance' = [balance EXCEPT ![Card[d].safe] = @ + SettleMoves(r)]
           /\ keys' = keys \cup {Key(op[r])}
           /\ Commits(r)
           /\ UNCHANGED <<transfer, shift, clock>>
<1>1. pc[r] = "entered" /\ op[r].kind \in Targets /\ op[r] \in Ops
  BY DEF SettleCheque, Does, SlotOK
<1>2. d \in Vouchers
  BY <1>1, DocKinds
<1>3. seen[r] \in VoucherRow
  BY <1>1 DEF SlotOK, Busy
<1> DEFINE q == IF voucher[d].cheque = "pending" THEN op[r].kind ELSE voucher[d].cheque
<1>6. voucher \in [Vouchers -> VoucherRow]
  BY TypesFields
<1>5. voucher' = [voucher EXCEPT ![d].cheque = q]
  BY <1>2, <1>6 DEF SettleCheque
<1>4. voucher[d] \in VoucherRow /\ q \in {"none", "pending"} \cup Targets
  BY <1>1, <1>2, <1>6 DEF VoucherRow
<1> HIDE DEF q
<1>7. voucher'[d] = [voucher[d] EXCEPT !.cheque = q]
  BY <1>2, <1>5, <1>6 DEF VoucherRow
<1>8. voucher'[d] \in VoucherRow
  BY <1>4, <1>7 DEF VoucherRow
<1>9. \A v \in Vouchers \ {d} : voucher'[v] = voucher[v]
  BY <1>5, <1>6
<1>10. voucher' \in [Vouchers -> VoucherRow]
  BY <1>5, <1>6, <1>8, <1>9
<1>11. /\ \A f \in {"status", "method", "amount", "net", "at"} : voucher'[d][f] = voucher[d][f]
       /\ voucher'[d].cheque = q
  BY <1>4, <1>7, <1>8 DEF VoucherRow
<1>12. /\ Book(d, SettleLines(r, c), c)
       /\ balance' = [balance EXCEPT ![Card[d].safe] = @ + SettleMoves(r)]
       /\ keys' = keys \cup {Key(op[r])}
  BY DEF SettleCheque, SettleLines, SettleMoves, Bump
<1>13. Commits(r) /\ UNCHANGED <<transfer, shift, clock>>
  BY DEF SettleCheque
<1>14. SettleLines(r, c) \in [Accounts -> Int]
  <2>1. seen[r].net \in Nat
    BY <1>3 DEF VoucherRow
  <2>2. Signed(d, seen[r].net) \in Int
    BY <1>2, <2>1, SignedInt
  <2> QED BY <2>2, MovesType DEF SettleLines
<1>15. /\ Wrote(d)
       /\ under'[d] = under[d] \cup {c}
       /\ \A a \in Accounts : ledger'[d][a] = ledger[d][a] + SettleLines(r, c)[a]
  BY <1>2, <1>12, <1>14, BookDoes, DocsAll
<1> QED BY <1>1, <1>2, <1>3, <1>9, <1>10, <1>11, <1>12, <1>13, <1>14, <1>15 DEF q

LEMMA SendDoes ==
    ASSUME Types, NEW r \in Requests, SlotOK(r), NEW d, d = op[r].doc, NEW c \in Charts,
           SendTransfer(r, c)
    PROVE  /\ d \in Transfers /\ pc[r] = "entered" /\ op[r].kind = "send" /\ op[r] \in Ops
           /\ transfer' \in [Transfers -> {"draft", "sent", "received", "voided"}]
           /\ \A t \in Transfers \ {d} : transfer'[t] = transfer[t]
           /\ transfer'[d] = "sent"
           /\ under'[d] = under[d] \cup {c}
           /\ \A a \in Accounts :
                 ledger'[d][a] = ledger[d][a] + Moves(c.transit, c.safe[Card[d].from], Card[d].amount)[a]
           /\ Wrote(d)
           /\ balance' = [balance EXCEPT ![Card[d].from] = @ - Card[d].amount]
           /\ keys' = keys \cup {<<"send", d>>} /\ Key(op[r]) = <<"send", d>>
           /\ Commits(r)
           /\ UNCHANGED <<voucher, shift, clock>>
<1>1. pc[r] = "entered" /\ op[r].kind = "send" /\ op[r] \in Ops
  BY DEF SendTransfer, Move, Does, SlotOK
<1>2. d \in Transfers
  BY <1>1, DocKinds
<1>3. transfer \in [Transfers -> {"draft", "sent", "received", "voided"}]
  BY TypesFields
<1>4. transfer' = [transfer EXCEPT ![d] = "sent"]
  BY DEF SendTransfer, Move
<1>5. Book(d, Moves(c.transit, c.safe[Card[d].from], Card[d].amount), c)
  BY DEF SendTransfer, Move
<1>6. Card[d].amount \in Int /\ Card[d].from \in Safes
  BY <1>2, CardSafes
<1>7. /\ Wrote(d) /\ under'[d] = under[d] \cup {c}
      /\ \A a \in Accounts :
            ledger'[d][a] = ledger[d][a] + Moves(c.transit, c.safe[Card[d].from], Card[d].amount)[a]
  BY <1>2, <1>5, <1>6, MovesType, BookDoes, DocsAll
<1>8. Key(op[r]) = <<"send", d>> /\ keys' = keys \cup {Key(op[r])}
  BY <1>1 DEF SendTransfer, Move, Key
<1>9. Commits(r) /\ UNCHANGED <<voucher, shift, clock>>
  BY DEF SendTransfer, Move
<1>10. balance' = [balance EXCEPT ![Card[d].from] = @ - Card[d].amount]
  <2>1. balance' = [balance EXCEPT ![Card[d].from] = @ + (-1) * Card[d].amount]
    BY DEF SendTransfer, Move, Bump
  <2>2. balance[Card[d].from] + (-1) * Card[d].amount = balance[Card[d].from] - Card[d].amount
    BY <1>6, TypesFields
  <2> QED BY <2>1, <2>2
<1> QED BY <1>1, <1>2, <1>3, <1>4, <1>7, <1>8, <1>9, <1>10

LEMMA ReceiveDoes ==
    ASSUME Types, NEW r \in Requests, SlotOK(r), NEW d, d = op[r].doc, NEW c \in Charts,
           ReceiveTransfer(r, c)
    PROVE  /\ d \in Transfers /\ pc[r] = "entered" /\ op[r].kind = "receive" /\ op[r] \in Ops
           /\ transfer' \in [Transfers -> {"draft", "sent", "received", "voided"}]
           /\ \A t \in Transfers \ {d} : transfer'[t] = transfer[t]
           /\ transfer'[d] = "received"
           /\ under'[d] = under[d] \cup {c}
           /\ \A a \in Accounts :
                 ledger'[d][a] = ledger[d][a] + Moves(c.safe[Card[d].to], c.transit, Card[d].amount)[a]
           /\ Wrote(d)
           /\ balance' = [balance EXCEPT ![Card[d].to] = @ + Card[d].amount]
           /\ keys' = keys \cup {<<"receive", d>>} /\ Key(op[r]) = <<"receive", d>>
           /\ Commits(r)
           /\ UNCHANGED <<voucher, shift, clock>>
<1>1. pc[r] = "entered" /\ op[r].kind = "receive" /\ op[r] \in Ops
  BY DEF ReceiveTransfer, Move, Does, SlotOK
<1>2. d \in Transfers
  BY <1>1, DocKinds
<1>3. transfer \in [Transfers -> {"draft", "sent", "received", "voided"}]
  BY TypesFields
<1>4. transfer' = [transfer EXCEPT ![d] = "received"]
  BY DEF ReceiveTransfer, Move
<1>5. Book(d, Moves(c.safe[Card[d].to], c.transit, Card[d].amount), c)
  BY DEF ReceiveTransfer, Move
<1>6. Card[d].amount \in Int /\ Card[d].to \in Safes
  BY <1>2, CardSafes
<1>7. /\ Wrote(d) /\ under'[d] = under[d] \cup {c}
      /\ \A a \in Accounts :
            ledger'[d][a] = ledger[d][a] + Moves(c.safe[Card[d].to], c.transit, Card[d].amount)[a]
  BY <1>2, <1>5, <1>6, MovesType, BookDoes, DocsAll
<1>8. Key(op[r]) = <<"receive", d>> /\ keys' = keys \cup {Key(op[r])}
  BY <1>1 DEF ReceiveTransfer, Move, Key
<1>9. Commits(r) /\ UNCHANGED <<voucher, shift, clock>>
  BY DEF ReceiveTransfer, Move
<1>10. balance' = [balance EXCEPT ![Card[d].to] = @ + Card[d].amount]
  <2>1. balance' = [balance EXCEPT ![Card[d].to] = @ + 1 * Card[d].amount]
    BY DEF ReceiveTransfer, Move, Bump
  <2>2. balance[Card[d].to] + 1 * Card[d].amount = balance[Card[d].to] + Card[d].amount
    BY <1>6, TypesFields
  <2> QED BY <2>1, <2>2
<1> QED BY <1>1, <1>2, <1>3, <1>4, <1>7, <1>8, <1>9, <1>10

LEMMA CancelDoes ==
    ASSUME Types, NEW r \in Requests, SlotOK(r), NEW d, d = op[r].doc, CancelTransfer(r)
    PROVE  /\ d \in Transfers /\ pc[r] = "read" /\ op[r].kind = "cancel" /\ op[r] \in Ops
           /\ transfer' \in [Transfers -> {"draft", "sent", "received", "voided"}]
           /\ \A t \in Transfers \ {d} : transfer'[t] = transfer[t]
           /\ transfer'[d] = "voided"
           /\ Commits(r)
           /\ UNCHANGED <<voucher, shift, balance, ledger, keys, under, clock>>
<1>1. pc[r] = "read" /\ op[r].kind = "cancel" /\ op[r] \in Ops
  BY DEF CancelTransfer, Does, SlotOK
<1>2. d \in Transfers
  BY <1>1, DocKinds
<1>3. transfer \in [Transfers -> {"draft", "sent", "received", "voided"}]
  BY TypesFields
<1>4. transfer' = [transfer EXCEPT ![d] = "voided"]
  BY DEF CancelTransfer
<1>5. Commits(r) /\ UNCHANGED <<voucher, shift, balance, ledger, keys, under, clock>>
  BY DEF CancelTransfer, books
<1> QED BY <1>1, <1>2, <1>3, <1>4, <1>5

LEMMA CloseDoes ==
    ASSUME Types, NEW r \in Requests, SlotOK(r), NEW d, d = op[r].doc, CloseShift(r)
    PROVE  /\ d \in Shifts /\ pc[r] = "read" /\ op[r].kind = "close" /\ op[r] \in Ops
           /\ shift[d].status = "open" /\ clock' = clock + 1
           /\ shift' \in [Shifts -> ShiftRow]
           /\ \A k \in Shifts \ {d} : shift'[k] = shift[k]
           /\ shift'[d].status = "closed" /\ shift'[d].closed = clock + 1
           /\ shift'[d].taken = drawer[r].taken /\ shift'[d].opened = shift[d].opened
           /\ shift'[d].entered = shift[d].entered /\ shift'[d].user = shift[d].user
           /\ Commits(r)
           /\ UNCHANGED <<voucher, transfer, balance, ledger, keys, under>>
<1>1. pc[r] = "read" /\ op[r].kind = "close" /\ op[r] \in Ops
  BY DEF CloseShift, Does, SlotOK
<1>2. d \in Shifts /\ op[r].count \in Nat
  BY <1>1, DocKinds
<1>3. shift \in [Shifts -> ShiftRow] /\ clock \in Nat
  BY TypesFields
<1>4. drawer[r].taken \in SUBSET Vouchers /\ drawer[r].expected \in Int
  BY TypesFields
<1>5. PICK s \in ShiftRow, c \in Nat, T \in SUBSET Vouchers, e \in Int, n \in Nat :
         s = shift[d] /\ c = clock + 1 /\ T = drawer[r].taken /\ e = drawer[r].expected
         /\ n = op[r].count
  <2>1. shift[d] \in ShiftRow /\ clock + 1 \in Nat
    BY <1>2, <1>3
  <2> QED BY <1>2, <1>4, <2>1
<1>6. PICK row : row = [s EXCEPT !.status = "closed", !.closed = c, !.taken = T,
                                 !.expected = e, !.count = n]
  OBVIOUS
<1>7. /\ row \in ShiftRow /\ row.status = "closed" /\ row.closed = c
      /\ row.taken = T /\ row.opened = s.opened /\ row.entered = s.entered /\ row.user = s.user
  BY <1>6 DEF ShiftRow
<1>8. shift' = [shift EXCEPT ![d] = row]
  BY <1>2, <1>3, <1>5, <1>6 DEF CloseShift
<1>9. /\ shift' \in [Shifts -> ShiftRow] /\ shift'[d] = row
      /\ \A k \in Shifts \ {d} : shift'[k] = shift[k]
  BY <1>2, <1>3, <1>7, <1>8
<1>10. shift[d].status = "open" /\ clock' = clock + 1
  BY DEF CloseShift
<1>11. Commits(r) /\ UNCHANGED <<voucher, transfer, balance, ledger, keys, under>>
  BY DEF CloseShift, books
<1> QED BY <1>1, <1>2, <1>5, <1>7, <1>9, <1>10, <1>11

LEMMA HandedType ==
    ASSUME NEW row \in ShiftRow, NEW c
    PROVE  Handed(row, c) \in [Accounts -> Int]
<1>1. row.count \in Int /\ row.expected \in Int
  BY DEF ShiftRow
<1>2. row.expected - row.count \in Int
  BY <1>1
<1>3. \A a \in Accounts : /\ Moves(c.custody, c.till, row.count)[a] \in Int
                          /\ Moves(c.difference, c.till, row.expected - row.count)[a] \in Int
  BY <1>1, <1>2, MovesType
<1> QED BY <1>3 DEF Handed

LEMMA EnterDoes ==
    ASSUME Types, NEW r \in Requests, SlotOK(r), NEW d, d = op[r].doc, NEW c \in Charts,
           EnterShift(r, c)
    PROVE  /\ d \in Shifts /\ pc[r] = "entered" /\ op[r].kind = "enter" /\ op[r] \in Ops
           /\ seen[r] \in ShiftRow /\ shift[d].status = "closed"
           /\ shift' \in [Shifts -> ShiftRow]
           /\ \A k \in Shifts \ {d} : shift'[k] = shift[k]
           /\ shift'[d].status = shift[d].status /\ shift'[d].opened = shift[d].opened
           /\ shift'[d].closed = shift[d].closed /\ shift'[d].taken = shift[d].taken
           /\ shift'[d].count = shift[d].count /\ shift'[d].expected = shift[d].expected
           /\ shift'[d].user = shift[d].user /\ shift'[d].entered = TRUE
           /\ Commits(r)
           /\ UNCHANGED <<voucher, transfer, balance, keys, clock>>
<1>1. pc[r] = "entered" /\ op[r].kind = "enter" /\ op[r] \in Ops
  BY DEF EnterShift, Does, SlotOK
<1>2. d \in Shifts
  BY <1>1, DocKinds
<1>3. seen[r] \in ShiftRow /\ shift[d].status = "closed"
  BY <1>1 DEF SlotOK, Busy
<1>4. shift \in [Shifts -> ShiftRow]
  BY TypesFields
<1>5. shift' = [shift EXCEPT ![d].entered = TRUE]
  BY DEF EnterShift
<1>6. shift'[d] = [shift[d] EXCEPT !.entered = TRUE]
  BY <1>2, <1>4, <1>5 DEF ShiftRow
<1>7. shift'[d] \in ShiftRow /\ shift[d] \in ShiftRow
  <2>1. shift[d] \in ShiftRow
    BY <1>2, <1>4
  <2>2. /\ shift[d].status \in {"none", "open", "closed"} /\ shift[d].opened \in Nat
        /\ shift[d].user \in Users \cup {None}
        /\ shift[d].closed \in Nat /\ shift[d].taken \in SUBSET Vouchers
        /\ shift[d].expected \in Int /\ shift[d].count \in Nat
    BY <2>1 DEF ShiftRow
  <2>3. shift'[d] = [status |-> shift[d].status, user |-> shift[d].user,
                     opened |-> shift[d].opened, closed |-> shift[d].closed, taken |-> shift[d].taken,
                     expected |-> shift[d].expected, count |-> shift[d].count, entered |-> TRUE]
    BY <1>6, <2>1 DEF ShiftRow
  <2> QED BY <2>1, <2>2, <2>3 DEF ShiftRow
<1>8. /\ shift' \in [Shifts -> ShiftRow]
      /\ \A k \in Shifts \ {d} : shift'[k] = shift[k]
  BY <1>4, <1>5, <1>7
<1>9. /\ shift'[d].status = shift[d].status /\ shift'[d].opened = shift[d].opened
      /\ shift'[d].closed = shift[d].closed /\ shift'[d].taken = shift[d].taken
      /\ shift'[d].count = shift[d].count /\ shift'[d].expected = shift[d].expected
      /\ shift'[d].user = shift[d].user /\ shift'[d].entered = TRUE
  BY <1>6, <1>7 DEF ShiftRow
<1>11. Commits(r) /\ UNCHANGED <<voucher, transfer, balance, keys, clock>>
  BY DEF EnterShift
<1> QED BY <1>1, <1>2, <1>3, <1>8, <1>9, <1>11

LEMMA EnterBooks ==
    ASSUME Types, NEW r \in Requests, SlotOK(r), NEW d, d = op[r].doc, NEW c \in Charts,
           EnterShift(r, c)
    PROVE  /\ Wrote(d) /\ under'[d] = under[d] \cup {c}
           /\ \A a \in Accounts : ledger'[d][a] = ledger[d][a] + Handed(seen[r], c)[a]
<1>1. d \in Shifts /\ seen[r] \in ShiftRow
  BY EnterDoes
<1>2. Book(d, Handed(seen[r], c), c)
  BY DEF EnterShift
<1>3. Handed(seen[r], c) \in [Accounts -> Int]
  BY <1>1, HandedType
<1> QED BY <1>1, <1>2, <1>3, BookDoes, DocsAll

LEMMA ShiftsFinite == IsFiniteSet(Shifts) /\ Shifts \subseteq Nat
<1>1. MaxShifts \in Int
  BY TreasuryAssumption
<1>2. IsFiniteSet(1..MaxShifts)
  BY <1>1, FS_Interval
<1>3. 1..MaxShifts \subseteq Nat
  BY <1>1
<1> QED BY <1>2, <1>3 DEF Shifts

AmountOf(w, V) == [v \in V |-> Signed(v, w[v].amount)]

LEMMA AmountSum ==
    \A w, V : MapThenSumSet(LAMBDA v : Signed(v, w[v].amount), V) = SumOf(AmountOf(w, V), V)
BY DEF SumOf, AmountOf, MapThenSumSet, MapThenFoldSet

LEMMA ExpectedInt ==
    ASSUME Types, NEW k
    PROVE  Expected(k) \in Int
<1> DEFINE T == Takings(k)
<1>1. T \subseteq Vouchers
  BY DEF Takings
<1> HIDE DEF T
<1>2. IsFiniteSet(T)
  BY <1>1, TreasuryAssumption, FS_Subset
<1>3. \A v \in T : AmountOf(voucher, T)[v] \in Int
  <2> TAKE v \in T
  <2>1. v \in Vouchers /\ voucher[v] \in VoucherRow
    BY <1>1, TypesFields
  <2>2. voucher[v].amount \in Nat
    BY <2>1 DEF VoucherRow
  <2> QED BY <2>1, <2>2, SignedInt DEF AmountOf
<1>4. SumOf(AmountOf(voucher, T), T) \in Int
  BY <1>2, <1>3, SumInt
<1>5. Expected(k) = SumOf(AmountOf(voucher, T), T)
  BY AmountSum DEF Expected, T
<1> QED BY <1>4, <1>5

LEMMA BeginDoes ==
    ASSUME Types, NEW r \in Requests, NEW o \in Ops, Begin(r, o)
    PROVE  /\ pc[r] = "idle" /\ Accepts(o)
           /\ pc' \in [Requests -> {"idle", "read", "entered"}]
           /\ op' \in [Requests -> Ops \cup {None}]
           /\ seen' \in [Requests -> VoucherRow \cup ShiftRow \cup {None}]
           /\ drawer' \in [Requests -> [taken : SUBSET Vouchers, expected : Int, at : Nat]]
           /\ pc'[r] = "read" /\ op'[r] = o
           /\ o.doc \in Vouchers => seen'[r] = voucher[o.doc] /\ seen'[r] \in VoucherRow
           /\ o.doc \in Shifts => seen'[r] = shift[o.doc] /\ seen'[r] \in ShiftRow
           /\ o.kind = "close" => drawer'[r].taken = Takings(o.doc)
           /\ \A u \in Requests \ {r} : /\ pc'[u] = pc[u] /\ op'[u] = op[u]
                                        /\ seen'[u] = seen[u] /\ drawer'[u] = drawer[u]
           /\ late' = late \cup (IF o.kind = "close" THEN Underway ELSE {})
                           \cup (IF o.doc \in Vouchers /\ (\E u \in Requests : Closing(u))
                                 THEN {o.doc} ELSE {})
           /\ UNCHANGED <<voucher, transfer, shift, balance, ledger, keys, under, journal, clock,
                          overtaken, stale>>
<1> USE TypesFields
<1>1. pc' = [pc EXCEPT ![r] = "read"] /\ op' = [op EXCEPT ![r] = o] /\ pc[r] = "idle"
  BY DEF Begin, Goto
<1> DEFINE row == CASE o.doc \in Vouchers -> voucher[o.doc]
                    [] o.doc \in Shifts -> shift[o.doc]
                    [] OTHER -> None
<1>2. seen' = [seen EXCEPT ![r] = row]
  BY DEF Begin
<1>3. /\ o.doc \in Vouchers => row = voucher[o.doc] /\ row \in VoucherRow
      /\ o.doc \in Shifts => row = shift[o.doc] /\ row \in ShiftRow
      /\ o.doc \notin Vouchers \cup Shifts => row = None
  BY TreasuryAssumption
<1>4. row \in VoucherRow \cup ShiftRow \cup {None}
  BY <1>3
<1> HIDE DEF row
<1>5. /\ seen' \in [Requests -> VoucherRow \cup ShiftRow \cup {None}] /\ seen'[r] = row
      /\ \A u \in Requests \ {r} : seen'[u] = seen[u]
  BY <1>2, <1>4
<1>6. /\ drawer' \in [Requests -> [taken : SUBSET Vouchers, expected : Int, at : Nat]]
      /\ o.kind = "close" => drawer'[r].taken = Takings(o.doc)
      /\ \A u \in Requests \ {r} : drawer'[u] = drawer[u]
  <2>1. CASE o.kind # "close"
    BY <2>1 DEF Begin
  <2>2. CASE o.kind = "close"
    <3>1. PICK T, e : T = Takings(o.doc) /\ e = Expected(o.doc)
      OBVIOUS
    <3>2. T \in SUBSET Vouchers /\ e \in Int
      BY <3>1, ExpectedInt DEF Takings
    <3>3. drawer' = [drawer EXCEPT ![r].taken = T, ![r].expected = e]
      BY <2>2, <3>1 DEF Begin
    <3>4. drawer'[r] = [drawer[r] EXCEPT !.taken = T, !.expected = e]
      BY <3>3
    <3>5. /\ drawer'[r] \in [taken : SUBSET Vouchers, expected : Int, at : Nat]
          /\ drawer'[r].taken = T
      BY <3>2, <3>4
    <3> QED BY <3>1, <3>3, <3>5
  <2> QED BY <2>1, <2>2
<1>7. late' = late \cup (IF o.kind = "close" THEN Underway ELSE {})
                   \cup (IF o.doc \in Vouchers /\ (\E u \in Requests : Closing(u))
                         THEN {o.doc} ELSE {})
  BY DEF Begin
<1>8. /\ Accepts(o)
      /\ UNCHANGED <<voucher, transfer, shift, balance, ledger, keys, under, journal, clock,
                     overtaken, stale>>
  BY DEF Begin, rows, books
<1>9. /\ pc' \in [Requests -> {"idle", "read", "entered"}] /\ op' \in [Requests -> Ops \cup {None}]
      /\ pc'[r] = "read" /\ op'[r] = o
      /\ \A u \in Requests \ {r} : pc'[u] = pc[u] /\ op'[u] = op[u]
  BY <1>1
<1> QED BY <1>1, <1>3, <1>5, <1>6, <1>7, <1>8, <1>9

LEMMA EntryDoes ==
    ASSUME Types, NEW r \in Requests, PostEntry(r)
    PROVE  /\ pc[r] = "read" /\ Entered(op[r]) /\ journal = None /\ journal' = r
           /\ Keyed(op[r]) => Key(op[r]) \notin keys
           /\ pc' \in [Requests -> {"idle", "read", "entered"}] /\ pc'[r] = "entered"
           /\ drawer' \in [Requests -> [taken : SUBSET Vouchers, expected : Int, at : Nat]]
           /\ drawer'[r].at <= clock /\ drawer'[r].taken = drawer[r].taken
           /\ op[r].kind = "post" => drawer'[r].at = clock
           /\ \A u \in Requests \ {r} : pc'[u] = pc[u] /\ drawer'[u] = drawer[u]
           /\ UNCHANGED <<voucher, transfer, shift, balance, ledger, keys, under, op, seen, clock,
                          started, overtaken, stale, late>>
<1> USE TypesFields
<1>1. PICK n \in Nat : n = IF op[r].kind = "post" THEN clock ELSE 0
  OBVIOUS
<1>2. drawer' = [drawer EXCEPT ![r].at = n]
  BY <1>1 DEF PostEntry
<1>3. drawer'[r] = [drawer[r] EXCEPT !.at = n]
  BY <1>2
<1>4. /\ drawer'[r] \in [taken : SUBSET Vouchers, expected : Int, at : Nat]
      /\ drawer'[r].taken = drawer[r].taken /\ drawer'[r].at = n
  BY <1>3
<1>5. /\ drawer' \in [Requests -> [taken : SUBSET Vouchers, expected : Int, at : Nat]]
      /\ \A u \in Requests \ {r} : drawer'[u] = drawer[u]
  BY <1>2, <1>4
<1>6. pc' = [pc EXCEPT ![r] = "entered"]
  BY DEF PostEntry, Goto
<1>7. /\ pc[r] = "read" /\ Entered(op[r]) /\ journal = None /\ journal' = r
      /\ Keyed(op[r]) => Key(op[r]) \notin keys
      /\ UNCHANGED <<voucher, transfer, shift, balance, ledger, keys, under, op, seen, clock,
                     started, overtaken, stale, late>>
  BY DEF PostEntry, rows, books
<1>8. n <= clock
  BY <1>1
<1> QED BY <1>1, <1>4, <1>5, <1>6, <1>7, <1>8

LEMMA OpenDoes ==
    ASSUME Types, NEW k \in Shifts, NEW w \in Users, OpenShift(k, w)
    PROVE  /\ shift[k].status = "none"
           /\ \A j \in Shifts : shift[j].status = "open" => shift[j].user # w
           /\ clock' = clock + 1
           /\ shift' \in [Shifts -> ShiftRow]
           /\ \A j \in Shifts \ {k} : shift'[j] = shift[j]
           /\ shift'[k].status = "open" /\ shift'[k].opened = clock + 1
           /\ shift'[k].user = w
           /\ shift'[k].taken = shift[k].taken /\ shift'[k].entered = shift[k].entered
           /\ UNCHANGED <<voucher, transfer, balance, ledger, keys, under, journal, pc, op, seen, drawer,
                          started, overtaken, stale, late>>
<1>1. shift \in [Shifts -> ShiftRow] /\ clock \in Nat
  BY TypesFields
<1>2. shift' = [shift EXCEPT ![k].status = "open", ![k].user = w, ![k].opened = clock + 1]
  BY DEF OpenShift
<1>3. PICK s \in ShiftRow, n \in Nat : s = shift[k] /\ n = clock + 1
  <2>1. shift[k] \in ShiftRow /\ clock + 1 \in Nat
    BY <1>1
  <2> QED BY <2>1
<1>4. PICK t : t = [s EXCEPT !.status = "open", !.user = w, !.opened = n]
  OBVIOUS
<1>5. /\ t \in ShiftRow /\ t.status = "open" /\ t.opened = n /\ t.user = w
      /\ t.taken = s.taken /\ t.entered = s.entered
  BY <1>4 DEF ShiftRow
<1>6. shift' = [shift EXCEPT ![k] = t]
  BY <1>1, <1>2, <1>3, <1>4
<1>7. /\ shift' \in [Shifts -> ShiftRow] /\ shift'[k] = t
      /\ \A j \in Shifts \ {k} : shift'[j] = shift[j]
  BY <1>1, <1>5, <1>6
<1>8. /\ shift[k].status = "none"
      /\ \A j \in Shifts : shift[j].status = "open" => shift[j].user # w
      /\ clock' = clock + 1
      /\ UNCHANGED <<voucher, transfer, balance, ledger, keys, under, journal, pc, op, seen, drawer,
                     started, overtaken, stale, late>>
  BY DEF OpenShift, books, request
<1> QED BY <1>3, <1>5, <1>7, <1>8

LEMMA FailDoes ==
    ASSUME Types, NEW r \in Requests, Fail(r)
    PROVE  /\ pc[r] # "idle" /\ End(r) /\ overtaken' = overtaken \ {r}
           /\ UNCHANGED <<voucher, transfer, shift, balance, ledger, keys, under, clock, started,
                          stale, late>>
BY DEF Fail, rows, books

-----------------------------------------------------------------------------
(* What a request has found out stays so *)

\* The row of the document is left as it is.
Same(d) == /\ d \in Vouchers => voucher'[d] = voucher[d]
           /\ d \in Transfers => transfer'[d] = transfer[d]
           /\ d \in Shifts => shift'[d] = shift[d]

LEMMA SameAccepts ==
    ASSUME NEW o \in Ops, Same(o.doc), Accepts(o)
    PROVE  Accepts(o)'
BY DocKinds DEF Accepts, Same

LEMMA SameSlot ==
    ASSUME Types, NEW u \in Requests, SlotOK(u),
           pc'[u] = pc[u] /\ op'[u] = op[u] /\ seen'[u] = seen[u] /\ drawer'[u] = drawer[u],
           \A v \in Vouchers : voucher[v].status # "draft" => voucher'[v].status # "draft",
           \A k \in Shifts : /\ shift[k].status # "none" => shift'[k].status # "none"
                             /\ shift[k].status = "closed" => shift'[k].status = "closed",
           clock' \in Nat /\ clock <= clock', keys \subseteq keys',
           pc[u] = "entered" => journal' = u /\ keys' = keys
    PROVE  SlotOK(u)'
<1>1. CASE pc[u] = "idle"
  BY <1>1 DEF SlotOK, Busy
<1>2. CASE pc[u] # "idle"
  <2>1. PICK o \in Ops : o = op[u]
    BY <1>2 DEF SlotOK
  <2>2. pc[u] = "entered" => drawer[u].at \in Nat /\ drawer'[u].at <= clock'
    BY TypesFields DEF SlotOK
  <2>3. pc'[u] = "entered" => /\ journal' = u /\ Entered(o)
                              /\ Keyed(o) => Key(o) \notin keys'
                              /\ drawer'[u].at <= clock'
    BY <2>1, <2>2 DEF SlotOK
  <2>4. o.kind \in {"post", "void"} \cup Targets => seen'[u] \in VoucherRow
    BY <1>2, <2>1 DEF SlotOK, Busy
  <2>5. o.kind \in {"void"} \cup Targets => voucher'[o.doc].status # "draft"
    BY <1>2, <2>1, DocKinds DEF SlotOK, Busy
  <2>6. o.kind \in {"receive"} => <<"send", o.doc>> \in keys'
    BY <1>2, <2>1 DEF SlotOK, Busy
  <2>7. o.kind \in {"close"} => shift'[o.doc].status # "none" /\ pc'[u] = "read"
    BY <1>2, <2>1, DocKinds DEF SlotOK, Busy
  <2>8. o.kind \in {"enter"} => shift'[o.doc].status = "closed" /\ seen'[u] \in ShiftRow
    BY <1>2, <2>1, DocKinds DEF SlotOK, Busy
  <2> QED BY <2>1, <2>3, <2>4, <2>5, <2>6, <2>7, <2>8 DEF SlotOK, Busy
<1> QED BY <1>1, <1>2

LEMMA SameCurrent ==
    ASSUME NEW u \in Requests, SlotOK(u), Current(u), pc[u] # "idle" => Same(op[u].doc),
           pc'[u] = pc[u] /\ op'[u] = op[u] /\ seen'[u] = seen[u]
    PROVE  Current(u)'
<1>1. CASE pc[u] = "idle"
  BY <1>1 DEF Current
<1>2. CASE pc[u] # "idle"
  <2>1. PICK o \in Ops : o = op[u]
    BY <1>2 DEF SlotOK
  <2>2. Accepts(o)'
    BY <1>2, <2>1, SameAccepts DEF Current
  <2>3. /\ o.doc \in Vouchers => seen'[u] = voucher'[o.doc]
        /\ o.doc \in Shifts => seen'[u] = shift'[o.doc]
    BY <1>2, <2>1 DEF Current, Same
  <2> QED BY <2>1, <2>2, <2>3 DEF Current
<1> QED BY <1>1, <1>2

\* A step that ends request r.
LEMMA EndKeepsSlots ==
    ASSUME Slots, NEW r \in Requests, pc[r] # "idle", End(r),
           \A v \in Vouchers : voucher[v].status # "draft" => voucher'[v].status # "draft",
           \A k \in Shifts : /\ shift[k].status # "none" => shift'[k].status # "none"
                             /\ shift[k].status = "closed" => shift'[k].status = "closed",
           clock' \in Nat /\ clock <= clock', keys \subseteq keys',
           keys' # keys => pc[r] = "entered",
           \A u \in Requests \ {r} :
              u \notin overtaken' /\ pc[u] # "idle" => u \notin overtaken /\ Same(op[u].doc)
    PROVE  \A u \in Requests : SlotOK(u)' /\ (u \notin overtaken' => Current(u)')
<1>0. Types
  BY DEF Slots
<1>1. SlotOK(r)' /\ Current(r)'
  BY <1>0, Ended DEF SlotOK, Current, Busy
<1>2. ASSUME NEW u \in Requests \ {r} PROVE SlotOK(u)' /\ (u \notin overtaken' => Current(u)')
  <2>1. SlotOK(u) /\ (u \notin overtaken => Current(u)) /\ SlotOK(r)
    BY DEF Slots
  <2>2. /\ pc'[u] = pc[u] /\ op'[u] = op[u] /\ seen'[u] = seen[u] /\ drawer'[u] = drawer[u]
        /\ journal' = IF journal = r THEN None ELSE journal
    BY <1>0, Ended
  <2>3. pc[u] = "entered" => journal = u /\ pc[r] # "entered"
    BY <2>1 DEF SlotOK
  <2>4. pc[u] = "entered" => journal' = u /\ keys' = keys
    BY <2>2, <2>3
  <2>5. SlotOK(u)'
    BY <1>0, <2>1, <2>2, <2>4, SameSlot
  <2>6. ASSUME u \notin overtaken' PROVE Current(u)'
    <3>1. CASE pc[u] = "idle"
      BY <2>2, <3>1 DEF Current
    <3>2. CASE pc[u] # "idle"
      BY <2>1, <2>2, <2>6, <3>2, SameCurrent
    <3> QED BY <3>1, <3>2
  <2> QED BY <2>5, <2>6
<1> QED BY <1>1, <1>2

\* A commit of r that touches only the row of its document d.
LEMMA CommitKeepsSlots ==
    ASSUME Slots, NEW r \in Requests, pc[r] # "idle", Commits(r), NEW d, d = op[r].doc,
           \A v \in Vouchers \ {d} : voucher'[v] = voucher[v],
           \A t \in Transfers \ {d} : transfer'[t] = transfer[t],
           \A k \in Shifts \ {d} : shift'[k] = shift[k],
           d \in Vouchers => (voucher[d].status # "draft" => voucher'[d].status # "draft"),
           d \in Shifts => /\ shift[d].status # "none" => shift'[d].status # "none"
                           /\ shift[d].status = "closed" => shift'[d].status = "closed",
           clock' \in Nat /\ clock <= clock', keys \subseteq keys',
           keys' # keys => pc[r] = "entered"
    PROVE  \A u \in Requests : SlotOK(u)' /\ (u \notin overtaken' => Current(u)')
<1>1. /\ End(r)
      /\ overtaken' = (overtaken \cup {u \in Requests \ {r} :
                          pc[u] # "idle" /\ op[u].doc = op[r].doc}) \ {r}
  BY DEF Commits
<1>2. ASSUME NEW u \in Requests \ {r}, u \notin overtaken', pc[u] # "idle"
      PROVE  u \notin overtaken /\ Same(op[u].doc)
  <2>1. u \notin overtaken /\ op[u].doc # d
    BY <1>1, <1>2
  <2> QED BY <2>1 DEF Same
<1>3. \A v \in Vouchers : voucher[v].status # "draft" => voucher'[v].status # "draft"
  OBVIOUS
<1>4. \A k \in Shifts : /\ shift[k].status # "none" => shift'[k].status # "none"
                        /\ shift[k].status = "closed" => shift'[k].status = "closed"
  OBVIOUS
<1> QED BY <1>1, <1>2, <1>3, <1>4, EndKeepsSlots

-----------------------------------------------------------------------------
(* Types and slots *)

LEMMA TypesFromFields ==
    ASSUME voucher' \in [Vouchers -> VoucherRow],
           transfer' \in [Transfers -> {"draft", "sent", "received", "voided"}],
           shift' \in [Shifts -> ShiftRow],
           balance' \in [Safes -> Int], ledger' \in [Docs -> [Accounts -> Int]],
           under' \in [Docs -> SUBSET (Charts \cup {None})],
           keys' \in SUBSET {Key(o) : o \in {o \in Ops : Keyed(o)}},
           journal' \in Requests \cup {None},
           pc' \in [Requests -> {"idle", "read", "entered"}],
           op' \in [Requests -> Ops \cup {None}],
           seen' \in [Requests -> VoucherRow \cup ShiftRow \cup {None}],
           drawer' \in [Requests -> [taken : SUBSET Vouchers, expected : Int, at : Nat]],
           clock' \in Nat, started' \in 0..MaxRequests,
           overtaken' \in SUBSET Requests,
           stale' \in SUBSET Docs, late' \in SUBSET Vouchers
    PROVE  Types'
BY DEF Types, TypeOK, VoucherRow, ShiftRow

LEMMA CommitTypes ==
    ASSUME Types, NEW r \in Requests, op[r] \in Ops, Commits(r),
           voucher' \in [Vouchers -> VoucherRow],
           transfer' \in [Transfers -> {"draft", "sent", "received", "voided"}],
           shift' \in [Shifts -> ShiftRow],
           balance' \in [Safes -> Int], ledger' \in [Docs -> [Accounts -> Int]],
           under' \in [Docs -> SUBSET (Charts \cup {None})],
           keys' = keys \/ (Keyed(op[r]) /\ keys' = keys \cup {Key(op[r])}),
           clock' \in Nat
    PROVE  Types'
<1>1. /\ pc' \in [Requests -> {"idle", "read", "entered"}]
      /\ op' \in [Requests -> Ops \cup {None}]
      /\ seen' \in [Requests -> VoucherRow \cup ShiftRow \cup {None}]
      /\ drawer' \in [Requests -> [taken : SUBSET Vouchers, expected : Int, at : Nat]]
      /\ journal' \in Requests \cup {None}
  BY Committed, Ended
<1>2. /\ keys \in SUBSET {Key(o) : o \in {o \in Ops : Keyed(o)}} /\ started \in 0..MaxRequests
      /\ overtaken \in SUBSET Requests
      /\ stale \in SUBSET Docs /\ late \in SUBSET Vouchers
  BY DEF Types, TypeOK
<1>3. keys' \in SUBSET {Key(o) : o \in {o \in Ops : Keyed(o)}}
  BY <1>2
<1>4. op[r].doc \in Docs
  BY OpKinds DEF Docs
<1>5. /\ started' = started /\ late' = late
      /\ overtaken' = (overtaken \cup {u \in Requests \ {r} :
                          pc[u] # "idle" /\ op[u].doc = op[r].doc}) \ {r}
      /\ stale' \subseteq stale \cup {op[r].doc}
  BY Committed
<1>6. overtaken' \in SUBSET Requests /\ stale' \in SUBSET Docs
  BY <1>2, <1>4, <1>5
<1>7. started' \in 0..MaxRequests /\ late' \in SUBSET Vouchers
  BY <1>2, <1>5
<1> QED BY <1>1, <1>3, <1>6, <1>7, TypesFromFields

LEMMA BumpTypes ==
    ASSUME Types
    PROVE  \A s \in Safes : \A n \in Int : [balance EXCEPT ![s] = @ + n] \in [Safes -> Int]
<1>1. balance \in [Safes -> Int]
  BY TypesFields
<1> QED BY <1>1

\* What the entries and the safes move by are integers.
LEMMA MovesInt ==
    ASSUME NEW r \in Requests, op[r].doc \in Vouchers, seen[r] \in VoucherRow
    PROVE  /\ Signed(op[r].doc, seen[r].net) \in Int /\ Signed(op[r].doc, seen[r].amount) \in Int
           /\ PostMoves(r) \in Int /\ VoidMoves(r) \in Int /\ SettleMoves(r) \in Int
<1>1. seen[r].net \in Nat /\ seen[r].amount \in Nat
  BY DEF VoucherRow
<1>2. Signed(op[r].doc, seen[r].net) \in Int /\ Signed(op[r].doc, seen[r].amount) \in Int
  BY <1>1, SignedInt
<1> QED BY <1>2 DEF PostMoves, VoidMoves, SettleMoves

\* The commits on vouchers and transfers.
LEMMA CommitsKeepSlots ==
    ASSUME Slots, NEW r \in Requests,
           \/ Edit(r) \/ VoidVoucher(r) \/ CancelTransfer(r)
           \/ \E c \in Charts : \/ PostVoucher(r, c) \/ SettleCheque(r, c)
                              \/ SendTransfer(r, c) \/ ReceiveTransfer(r, c)
    PROVE  Slots'
<1>0. Types /\ SlotOK(r)
  BY DEF Slots
<1> PICK d : d = op[r].doc
  OBVIOUS
<1>1. /\ clock \in Nat /\ clock <= clock
      /\ Vouchers \cap Transfers = {} /\ (Vouchers \cup Transfers) \cap Shifts = {}
  BY <1>0, TypesFields, TreasuryAssumption DEF Types, TypeOK
<1> USE <1>0, <1>1
<1> USE TypesFields
<1> SUFFICES Types' /\ \A u \in Requests : SlotOK(u)' /\ (u \notin overtaken' => Current(u)')
  BY DEF Slots
<1>2. CASE Edit(r)
  <2>1. /\ op[r] \in Ops /\ pc[r] # "idle" /\ Commits(r)
        /\ d \in Vouchers /\ voucher'[d].status = voucher[d].status
        /\ voucher' \in [Vouchers -> VoucherRow]
        /\ \A v \in Vouchers \ {d} : voucher'[v] = voucher[v]
        /\ UNCHANGED <<transfer, shift, balance, ledger, keys, under, clock>>
    BY <1>2, EditDoes
  <2>2. Types'
    BY <2>1, CommitTypes
  <2> QED BY <2>1, <2>2, CommitKeepsSlots
<1>3. ASSUME NEW c \in Charts, PostVoucher(r, c) PROVE Types' /\ \A u \in Requests : SlotOK(u)' /\ (u \notin overtaken' => Current(u)')
  <2>1. /\ op[r] \in Ops /\ pc[r] # "idle" /\ Commits(r)
        /\ d \in Vouchers /\ voucher'[d].status = "posted"
        /\ voucher' \in [Vouchers -> VoucherRow]
        /\ \A v \in Vouchers \ {d} : voucher'[v] = voucher[v]
        /\ seen[r] \in VoucherRow /\ balance' = [balance EXCEPT ![Card[d].safe] = @ + PostMoves(r)]
        /\ Wrote(d)
        /\ UNCHANGED <<transfer, shift, keys, clock>>
    BY <1>3, PostDoes
  <2>2. balance' \in [Safes -> Int]
    <3>1. balance' = [balance EXCEPT ![Card[d].safe] = @ + PostMoves(r)] /\ PostMoves(r) \in Int
      BY <2>1, MovesInt
    <3>2. Card[d].safe \in Safes
      BY <2>1, CardSafes
    <3> QED BY <3>1, <3>2, BumpTypes
  <2>3. ledger' \in [Docs -> [Accounts -> Int]] /\ under' \in [Docs -> SUBSET (Charts \cup {None})]
    BY <2>1 DEF Wrote
  <2>4. Types'
    BY <2>1, <2>2, <2>3, CommitTypes
  <2> QED BY <2>1, <2>2, <2>3, <2>4, CommitKeepsSlots
<1>4. CASE VoidVoucher(r)
  <2>1. /\ op[r] \in Ops /\ pc[r] # "idle" /\ Commits(r)
        /\ d \in Vouchers /\ voucher'[d].status = "voided"
        /\ voucher' \in [Vouchers -> VoucherRow]
        /\ \A v \in Vouchers \ {d} : voucher'[v] = voucher[v]
        /\ seen[r] \in VoucherRow /\ balance' = [balance EXCEPT ![Card[d].safe] = @ + VoidMoves(r)]
        /\ UNCHANGED <<transfer, shift, ledger, keys, under, clock>>
    BY <1>4, VoidDoes
  <2>2. balance' \in [Safes -> Int]
    <3>1. balance' = [balance EXCEPT ![Card[d].safe] = @ + VoidMoves(r)] /\ VoidMoves(r) \in Int
      BY <2>1, MovesInt
    <3>2. Card[d].safe \in Safes
      BY <2>1, CardSafes
    <3> QED BY <3>1, <3>2, BumpTypes
  <2>3. Types'
    BY <2>1, <2>2, CommitTypes
  <2> QED BY <2>1, <2>2, <2>3, CommitKeepsSlots
<1>5. ASSUME NEW c \in Charts, SettleCheque(r, c) PROVE Types' /\ \A u \in Requests : SlotOK(u)' /\ (u \notin overtaken' => Current(u)')
  <2>1. /\ op[r] \in Ops /\ pc[r] # "idle" /\ Commits(r)
        /\ op[r].kind \in Targets
        /\ pc[r] = "entered" /\ keys' = keys \cup {Key(op[r])}
        /\ d \in Vouchers /\ voucher'[d].status = voucher[d].status
        /\ voucher' \in [Vouchers -> VoucherRow]
        /\ \A v \in Vouchers \ {d} : voucher'[v] = voucher[v]
        /\ seen[r] \in VoucherRow /\ balance' = [balance EXCEPT ![Card[d].safe] = @ + SettleMoves(r)]
        /\ Wrote(d)
        /\ UNCHANGED <<transfer, shift, clock>>
    BY <1>5, SettleDoes
  <2>2. balance' \in [Safes -> Int]
    <3>1. balance' = [balance EXCEPT ![Card[d].safe] = @ + SettleMoves(r)] /\ SettleMoves(r) \in Int
      BY <2>1, MovesInt
    <3>2. Card[d].safe \in Safes
      BY <2>1, CardSafes
    <3> QED BY <3>1, <3>2, BumpTypes
  <2>3. ledger' \in [Docs -> [Accounts -> Int]] /\ under' \in [Docs -> SUBSET (Charts \cup {None})]
    BY <2>1 DEF Wrote
  <2>4. Keyed(op[r])
    BY <2>1 DEF Keyed
  <2>5. Types'
    BY <2>1, <2>2, <2>3, <2>4, CommitTypes
  <2> QED BY <2>1, <2>2, <2>3, <2>4, <2>5, CommitKeepsSlots
<1>6. ASSUME NEW c \in Charts, SendTransfer(r, c) PROVE Types' /\ \A u \in Requests : SlotOK(u)' /\ (u \notin overtaken' => Current(u)')
  <2>1. /\ op[r] \in Ops /\ pc[r] # "idle" /\ Commits(r)
        /\ op[r].kind = "send"
        /\ pc[r] = "entered" /\ keys' = keys \cup {Key(op[r])}
        /\ d \in Transfers
        /\ transfer' \in [Transfers -> {"draft", "sent", "received", "voided"}]
        /\ \A t \in Transfers \ {d} : transfer'[t] = transfer[t]
        /\ Wrote(d)
        /\ balance' = [balance EXCEPT ![Card[d].from] = @ - Card[d].amount]
        /\ UNCHANGED <<voucher, shift, clock>>
    BY <1>6, SendDoes
  <2>2. balance' \in [Safes -> Int]
    <3>1. Card[d].amount \in Int /\ Card[d].from \in Safes
      BY <2>1, CardSafes
    <3> QED BY <2>1, <3>1
  <2>3. ledger' \in [Docs -> [Accounts -> Int]] /\ under' \in [Docs -> SUBSET (Charts \cup {None})]
    BY <2>1 DEF Wrote
  <2>4. Keyed(op[r])
    BY <2>1 DEF Keyed
  <2>5. Types'
    BY <2>1, <2>2, <2>3, <2>4, CommitTypes
  <2> QED BY <2>1, <2>2, <2>3, <2>4, <2>5, CommitKeepsSlots
<1>7. ASSUME NEW c \in Charts, ReceiveTransfer(r, c) PROVE Types' /\ \A u \in Requests : SlotOK(u)' /\ (u \notin overtaken' => Current(u)')
  <2>1. /\ op[r] \in Ops /\ pc[r] # "idle" /\ Commits(r)
        /\ op[r].kind = "receive"
        /\ pc[r] = "entered" /\ keys' = keys \cup {Key(op[r])}
        /\ d \in Transfers
        /\ transfer' \in [Transfers -> {"draft", "sent", "received", "voided"}]
        /\ \A t \in Transfers \ {d} : transfer'[t] = transfer[t]
        /\ Wrote(d)
        /\ balance' = [balance EXCEPT ![Card[d].to] = @ + Card[d].amount]
        /\ UNCHANGED <<voucher, shift, clock>>
    BY <1>7, ReceiveDoes
  <2>2. balance' \in [Safes -> Int]
    <3>1. Card[d].amount \in Int /\ Card[d].to \in Safes
      BY <2>1, CardSafes
    <3> QED BY <2>1, <3>1
  <2>3. ledger' \in [Docs -> [Accounts -> Int]] /\ under' \in [Docs -> SUBSET (Charts \cup {None})]
    BY <2>1 DEF Wrote
  <2>4. Keyed(op[r])
    BY <2>1 DEF Keyed
  <2>5. Types'
    BY <2>1, <2>2, <2>3, <2>4, CommitTypes
  <2> QED BY <2>1, <2>2, <2>3, <2>4, <2>5, CommitKeepsSlots
<1>8. CASE CancelTransfer(r)
  <2>1. /\ op[r] \in Ops /\ pc[r] # "idle" /\ Commits(r)
        /\ d \in Transfers
        /\ transfer' \in [Transfers -> {"draft", "sent", "received", "voided"}]
        /\ \A t \in Transfers \ {d} : transfer'[t] = transfer[t]
        /\ UNCHANGED <<voucher, shift, balance, ledger, keys, under, clock>>
    BY <1>8, CancelDoes
  <2>2. Types'
    BY <2>1, CommitTypes
  <2> QED BY <2>1, <2>2, CommitKeepsSlots
<1> QED BY <1>2, <1>3, <1>4, <1>5, <1>6, <1>7, <1>8

LEMMA EnterKeepsSlots ==
    ASSUME Slots, NEW r \in Requests, NEW c \in Charts, EnterShift(r, c)
    PROVE  Slots'
<1>0. Types /\ SlotOK(r)
  BY DEF Slots
<1> PICK d : d = op[r].doc
  OBVIOUS
<1>1. /\ d \in Shifts /\ Commits(r) /\ op[r] \in Ops /\ pc[r] = "entered"
      /\ shift' \in [Shifts -> ShiftRow]
      /\ \A k \in Shifts \ {d} : shift'[k] = shift[k]
      /\ shift'[d].status = shift[d].status
      /\ UNCHANGED <<voucher, transfer, balance, keys, clock>>
  BY <1>0, EnterDoes
<1>2. ledger' \in [Docs -> [Accounts -> Int]] /\ under' \in [Docs -> SUBSET (Charts \cup {None})]
  BY <1>0, EnterBooks DEF Wrote
<1>3. clock' \in Nat /\ clock <= clock'
  BY <1>0, <1>1, TypesFields DEF Types, TypeOK
<1>4. Types'
  BY <1>0, <1>1, <1>2, <1>3, TypesFields, CommitTypes
<1>5. \A u \in Requests : SlotOK(u)' /\ (u \notin overtaken' => Current(u)')
  <2>1. /\ \A v \in Vouchers \ {d} : voucher'[v] = voucher[v]
        /\ \A t \in Transfers \ {d} : transfer'[t] = transfer[t]
        /\ d \notin Vouchers
    BY <1>1, TreasuryAssumption
  <2> QED BY <1>1, <1>3, <2>1, CommitKeepsSlots
<1> QED BY <1>4, <1>5 DEF Slots

LEMMA CloseKeepsSlots ==
    ASSUME Slots, NEW r \in Requests, CloseShift(r)
    PROVE  Slots'
<1>0. Types /\ SlotOK(r)
  BY DEF Slots
<1> PICK d : d = op[r].doc
  OBVIOUS
<1>1. /\ d \in Shifts /\ pc[r] = "read" /\ op[r] \in Ops /\ Commits(r)
      /\ shift[d].status = "open" /\ clock' = clock + 1
      /\ shift' \in [Shifts -> ShiftRow]
      /\ \A k \in Shifts \ {d} : shift'[k] = shift[k]
      /\ shift'[d].status = "closed"
      /\ UNCHANGED <<voucher, transfer, balance, ledger, keys, under>>
  BY <1>0, CloseDoes
<1>2. clock' \in Nat /\ clock <= clock'
  BY <1>0, <1>1, TypesFields
<1>3. Types'
  BY <1>0, <1>1, <1>2, TypesFields, CommitTypes
<1>4. \A u \in Requests : SlotOK(u)' /\ (u \notin overtaken' => Current(u)')
  BY <1>1, <1>2, CommitKeepsSlots
<1> QED BY <1>3, <1>4 DEF Slots

LEMMA FailKeepsSlots ==
    ASSUME Slots, NEW r \in Requests, Fail(r)
    PROVE  Slots'
<1>0. Types
  BY DEF Slots
<1>1. /\ pc[r] # "idle" /\ End(r) /\ overtaken' = overtaken \ {r}
      /\ UNCHANGED <<voucher, transfer, shift, balance, ledger, keys, under, clock, started,
                     stale, late>>
  BY <1>0, FailDoes
<1>2. Types'
  <2>1. /\ pc' \in [Requests -> {"idle", "read", "entered"}]
        /\ op' \in [Requests -> Ops \cup {None}]
        /\ seen' \in [Requests -> VoucherRow \cup ShiftRow \cup {None}]
        /\ drawer' \in [Requests -> [taken : SUBSET Vouchers, expected : Int, at : Nat]]
        /\ journal' \in Requests \cup {None}
    BY <1>0, <1>1, Ended
  <2>2. /\ keys \in SUBSET {Key(o) : o \in {o \in Ops : Keyed(o)}} /\ started \in 0..MaxRequests
        /\ overtaken \in SUBSET Requests /\ clock \in Nat
        /\ stale \in SUBSET Docs /\ late \in SUBSET Vouchers
    BY <1>0 DEF Types, TypeOK
  <2> QED BY <1>0, <1>1, <2>1, <2>2, TypesFields, TypesFromFields
<1>3. clock' \in Nat /\ clock <= clock'
  BY <1>0, <1>1, TypesFields
<1>4. \A u \in Requests \ {r} :
         u \notin overtaken' /\ pc[u] # "idle" => u \notin overtaken /\ Same(op[u].doc)
  BY <1>1 DEF Same
<1>5. \A u \in Requests : SlotOK(u)' /\ (u \notin overtaken' => Current(u)')
  BY <1>1, <1>3, <1>4, EndKeepsSlots
<1> QED BY <1>2, <1>5 DEF Slots

LEMMA OpenKeepsSlots ==
    ASSUME Slots, NEW k \in Shifts, NEW w \in Users, OpenShift(k, w)
    PROVE  Slots'
<1>0. Types
  BY DEF Slots
<1>1. /\ shift[k].status = "none"
      /\ clock' = clock + 1
      /\ shift' \in [Shifts -> ShiftRow]
      /\ \A j \in Shifts \ {k} : shift'[j] = shift[j]
      /\ shift'[k].status = "open"
      /\ UNCHANGED <<voucher, transfer, balance, ledger, keys, under, journal, pc, op, seen, drawer,
                     started, overtaken, stale, late>>
  BY <1>0, OpenDoes
<1>2. clock' \in Nat /\ clock <= clock'
  BY <1>0, <1>1, TypesFields
<1>3. Types'
  <2>1. /\ keys \in SUBSET {Key(o) : o \in {o \in Ops : Keyed(o)}} /\ started \in 0..MaxRequests
        /\ overtaken \in SUBSET Requests
        /\ stale \in SUBSET Docs /\ late \in SUBSET Vouchers
    BY <1>0 DEF Types, TypeOK
  <2> QED BY <1>0, <1>1, <1>2, <2>1, TypesFields, TypesFromFields
<1>4. \A j \in Shifts : /\ shift[j].status # "none" => shift'[j].status # "none"
                        /\ shift[j].status = "closed" => shift'[j].status = "closed"
  BY <1>1
<1>5. ASSUME NEW u \in Requests PROVE SlotOK(u)' /\ (u \notin overtaken' => Current(u)')
  <2>1. SlotOK(u) /\ (u \notin overtaken => Current(u))
    BY DEF Slots
  <2>2. pc[u] = "entered" => journal' = u /\ keys' = keys
    BY <1>1, <2>1 DEF SlotOK
  <2>3. SlotOK(u)'
    BY <1>0, <1>1, <1>2, <1>4, <2>1, <2>2, SameSlot
  <2>4. ASSUME u \notin overtaken' PROVE Current(u)'
    <3>1. pc[u] # "idle" => Same(op[u].doc)
      <4> SUFFICES ASSUME pc[u] # "idle" PROVE Same(op[u].doc)
        OBVIOUS
      <4>1. Accepts(op[u]) /\ op[u] \in Ops
        BY <1>1, <2>1, <2>4 DEF Current, SlotOK
      <4>2. op[u].doc \in Shifts => shift[op[u].doc].status # "none"
        BY <4>1, DocKinds DEF Accepts, Targets
      <4> QED BY <1>1, <4>2 DEF Same
    <3> QED BY <1>1, <2>1, <2>4, <3>1, SameCurrent
  <2> QED BY <2>3, <2>4
<1> QED BY <1>3, <1>5 DEF Slots

LEMMA EntryKeepsSlots ==
    ASSUME Slots, NEW r \in Requests, PostEntry(r)
    PROVE  Slots'
<1>0. Types /\ SlotOK(r) /\ (r \notin overtaken => Current(r))
  BY DEF Slots
<1>1. /\ pc[r] = "read" /\ Entered(op[r]) /\ journal = None /\ journal' = r
      /\ Keyed(op[r]) => Key(op[r]) \notin keys
      /\ pc' \in [Requests -> {"idle", "read", "entered"}] /\ pc'[r] = "entered"
      /\ drawer' \in [Requests -> [taken : SUBSET Vouchers, expected : Int, at : Nat]]
      /\ drawer'[r].at <= clock
      /\ \A u \in Requests \ {r} : pc'[u] = pc[u] /\ drawer'[u] = drawer[u]
      /\ UNCHANGED <<voucher, transfer, shift, balance, ledger, keys, under, op, seen, clock,
                     started, overtaken, stale, late>>
  BY <1>0, EntryDoes
<1>2. Types'
  <2>1. /\ keys \in SUBSET {Key(o) : o \in {o \in Ops : Keyed(o)}} /\ started \in 0..MaxRequests
        /\ overtaken \in SUBSET Requests /\ clock \in Nat
        /\ stale \in SUBSET Docs /\ late \in SUBSET Vouchers
    BY <1>0 DEF Types, TypeOK
  <2> QED BY <1>0, <1>1, <2>1, TypesFields, TypesFromFields
<1>3. ASSUME NEW u \in Requests \ {r} PROVE SlotOK(u)' /\ (u \notin overtaken' => Current(u)')
  <2>1. SlotOK(u) /\ (u \notin overtaken => Current(u))
    BY DEF Slots
  <2>2. pc[u] # "entered"
    BY <1>1, <2>1, TreasuryAssumption DEF SlotOK
  <2>3. clock' \in Nat /\ clock <= clock'
    BY <1>0, <1>1, TypesFields
  <2>4. SlotOK(u)'
    BY <1>0, <1>1, <2>1, <2>2, <2>3, SameSlot
  <2>5. pc[u] # "idle" => Same(op[u].doc)
    BY <1>1 DEF Same
  <2> QED BY <1>1, <2>1, <2>4, <2>5, SameCurrent
<1>4. SlotOK(r)' /\ (r \notin overtaken' => Current(r)')
  <2>1. PICK o \in Ops : o = op[r]
    BY <1>0, <1>1 DEF SlotOK
  <2>2. r \notin overtaken => Accepts(o)'
    <3>1. Same(o.doc)
      BY <1>1 DEF Same
    <3> QED BY <1>0, <1>1, <2>1, <3>1, SameAccepts DEF Current
  <2>3. r \notin overtaken' => Current(r)'
    BY <1>0, <1>1, <2>1, <2>2 DEF Current
  <2>4. o.kind # "close"
    BY <1>1, <2>1 DEF Entered, Keyed, Targets
  <2>5. /\ o.kind \in {"post", "void"} \cup Targets => seen'[r] \in VoucherRow
        /\ o.kind \in {"void"} \cup Targets => voucher'[o.doc].status # "draft"
        /\ o.kind \in {"receive"} => <<"send", o.doc>> \in keys'
        /\ o.kind \in {"enter"} => shift'[o.doc].status = "closed" /\ seen'[r] \in ShiftRow
    BY <1>0, <1>1, <2>1 DEF SlotOK, Busy
  <2> QED BY <1>1, <2>1, <2>3, <2>4, <2>5 DEF SlotOK, Busy
<1> QED BY <1>2, <1>3, <1>4 DEF Slots

LEMMA BeginKeepsSlots ==
    ASSUME Slots, MoneyInOnePlace, NEW r \in Requests, NEW o \in Ops, Begin(r, o)
    PROVE  Slots'
<1>0. Types /\ SlotOK(r)
  BY DEF Slots
<1>1. /\ pc[r] = "idle" /\ Accepts(o)
      /\ pc' \in [Requests -> {"idle", "read", "entered"}]
      /\ op' \in [Requests -> Ops \cup {None}]
      /\ seen' \in [Requests -> VoucherRow \cup ShiftRow \cup {None}]
      /\ drawer' \in [Requests -> [taken : SUBSET Vouchers, expected : Int, at : Nat]]
      /\ pc'[r] = "read" /\ op'[r] = o
      /\ o.doc \in Vouchers => seen'[r] = voucher[o.doc] /\ seen'[r] \in VoucherRow
      /\ o.doc \in Shifts => seen'[r] = shift[o.doc] /\ seen'[r] \in ShiftRow
      /\ \A u \in Requests \ {r} : /\ pc'[u] = pc[u] /\ op'[u] = op[u]
                                   /\ seen'[u] = seen[u] /\ drawer'[u] = drawer[u]
      /\ UNCHANGED <<voucher, transfer, shift, balance, ledger, keys, under, journal, clock,
                     overtaken, stale>>
  BY <1>0, BeginDoes
<1>2. Types'
  <2>1. /\ keys \in SUBSET {Key(p) : p \in {p \in Ops : Keyed(p)}} /\ started \in 0..MaxRequests
        /\ overtaken \in SUBSET Requests /\ clock \in Nat
        /\ stale \in SUBSET Docs /\ late \in SUBSET Vouchers
    BY <1>0 DEF Types, TypeOK
  <2>2. started' \in 0..MaxRequests
    BY <2>1, TreasuryAssumption DEF Begin
  <2>3. late' \in SUBSET Vouchers
    <3>1. late' = late \cup (IF o.kind = "close" THEN Underway ELSE {})
                       \cup (IF o.doc \in Vouchers /\ (\E u \in Requests : Closing(u))
                             THEN {o.doc} ELSE {})
      BY <1>0, BeginDoes
    <3>2. Underway \subseteq Vouchers
      BY DEF Underway
    <3> QED BY <2>1, <3>1, <3>2
  <2> QED BY <1>0, <1>1, <2>1, <2>2, <2>3, TypesFields, TypesFromFields
<1>3. ASSUME NEW u \in Requests \ {r} PROVE SlotOK(u)' /\ (u \notin overtaken' => Current(u)')
  <2>1. SlotOK(u) /\ (u \notin overtaken => Current(u))
    BY DEF Slots
  <2>2. pc[u] = "entered" => journal' = u /\ keys' = keys
    BY <1>1, <2>1 DEF SlotOK
  <2>3. clock' \in Nat /\ clock <= clock'
    BY <1>0, <1>1, TypesFields
  <2>4. SlotOK(u)'
    BY <1>0, <1>1, <2>1, <2>2, <2>3, SameSlot
  <2>5. pc[u] # "idle" => Same(op[u].doc)
    BY <1>1 DEF Same
  <2> QED BY <1>1, <2>1, <2>4, <2>5, SameCurrent
<1>4. SlotOK(r)' /\ Current(r)'
  <2>1. Accepts(o)'
    <3>1. Same(o.doc)
      BY <1>1 DEF Same
    <3> QED BY <1>1, <3>1, SameAccepts
  <2>2. Current(r)'
    BY <1>1, <2>1 DEF Current
  <2>3. o.kind \in {"post", "void"} \cup Targets => seen'[r] \in VoucherRow
    BY <1>1, DocKinds
  <2>4. o.kind \in {"void"} \cup Targets => voucher'[o.doc].status # "draft"
    BY <1>1 DEF Accepts, Targets
  <2>5. o.kind = "receive" => <<"send", o.doc>> \in keys'
    <3> SUFFICES ASSUME o.kind = "receive" PROVE <<"send", o.doc>> \in keys
      BY <1>1
    <3>1. o.doc \in Transfers /\ transfer[o.doc] = "sent"
      BY <1>1, DocKinds DEF Accepts, Targets
    <3>2. Place(o.doc) = "sent"
      BY <3>1 DEF MoneyInOnePlace
    <3> QED BY <3>2 DEF Place
  <2>6. o.kind = "close" => shift'[o.doc].status # "none"
    BY <1>1 DEF Accepts, Targets
  <2>7. o.kind = "enter" => shift'[o.doc].status = "closed" /\ seen'[r] \in ShiftRow
    BY <1>1, DocKinds DEF Accepts, Targets
  <2> QED BY <1>1, <2>2, <2>3, <2>4, <2>5, <2>6, <2>7 DEF SlotOK, Busy
<1> QED BY <1>2, <1>3, <1>4 DEF Slots

LEMMA StutterKeepsSlots ==
    ASSUME Slots, UNCHANGED vars
    PROVE  Slots'
<1>1. UNCHANGED <<voucher, transfer, shift, balance, ledger, keys, under, journal, pc, op, seen, drawer,
                  clock, started, overtaken, stale, late>>
  BY DEF vars, rows, books, request
<1>2. Types'
  BY <1>1 DEF Slots, Types, TypeOK
<1>3. ASSUME NEW u \in Requests PROVE SlotOK(u)' /\ (u \notin overtaken' => Current(u)')
  <2>1. SlotOK(u) /\ (u \notin overtaken => Current(u)) /\ Types
    BY DEF Slots
  <2>2. pc[u] = "entered" => journal' = u /\ keys' = keys
    BY <1>1, <2>1 DEF SlotOK
  <2>3. clock' \in Nat /\ clock <= clock'
    BY <1>1, <2>1, TypesFields
  <2>4. SlotOK(u)'
    BY <1>1, <2>1, <2>2, <2>3, SameSlot
  <2>5. pc[u] # "idle" => Same(op[u].doc)
    BY <1>1 DEF Same
  <2> QED BY <1>1, <2>1, <2>4, <2>5, SameCurrent
<1> QED BY <1>2, <1>3 DEF Slots

-----------------------------------------------------------------------------
(* The shifts, the clock and the takings *)

LEMMA UnderwayIs ==
    /\ \A v : v \in Underway <=> \E u \in Requests : /\ pc[u] # "idle" /\ op[u].doc = v
                                                     /\ v \in Vouchers
    /\ \A v : v \in Underway' <=> \E u \in Requests : /\ pc'[u] # "idle" /\ op'[u].doc = v
                                                      /\ v \in Vouchers
BY DEF Underway

\* A request that ends leaves the closes that are under way as they are.
LEMMA EndKeepsClosing ==
    ASSUME Slots, NEW r \in Requests, pc[r] # "idle", End(r), late' = late, stale \subseteq stale',
           \A u \in Requests : ClosingOK(u),
           \A v \in Vouchers :
              voucher[v].status # "draft" /\ v \notin stale' => voucher'[v].at = voucher[v].at,
           \A v \in Vouchers \ {op[r].doc} : voucher'[v] = voucher[v],
           \A v \in Vouchers : voucher[v].status # "draft" => voucher'[v].status # "draft",
           \A k \in Shifts : shift'[k].opened = shift[k].opened,
           \A k \in Shifts : shift'[k].status = "closed" =>
              (shift[k].status = "closed" /\ shift'[k].closed = shift[k].closed) \/ Closing(r)
    PROVE  \A u \in Requests : ClosingOK(u)'
<1>0. Types
  BY DEF Slots
<1>1. /\ pc'[r] = "idle"
      /\ \A u \in Requests \ {r} : /\ pc'[u] = pc[u] /\ op'[u] = op[u] /\ drawer'[u] = drawer[u]
  BY <1>0, Ended
<1>2. Underway' \subseteq Underway
  BY <1>1, UnderwayIs
<1>3. ClosingOK(r)'
  BY <1>1 DEF ClosingOK, Closing
<1>4. ASSUME NEW u \in Requests \ {r} PROVE ClosingOK(u)'
  <2>1. Closing(u)' <=> Closing(u)
    BY <1>1 DEF Closing
  <2>2. ClosingOK(u) /\ SlotOK(u)
    BY DEF Slots
  <2>3. drawer[u].taken \subseteq Vouchers
    BY <1>0, TypesFields
  <2>4. ASSUME Closing(u), NEW v \in drawer[u].taken
        PROVE  /\ voucher'[v].status # "draft"
               /\ v \notin stale' => shift'[op[u].doc].opened <= voucher'[v].at
    <3>1. op[u].doc \in Shifts
      <4>1. op[u] \in Ops /\ op[u].kind = "close"
        BY <2>2, <2>4 DEF SlotOK, Closing
      <4> QED BY <4>1, DocKinds
    <3> QED BY <2>2, <2>3, <2>4, <3>1 DEF ClosingOK
  <2>5. ASSUME Closing(u), NEW v \in Vouchers \ late
        PROVE  v \notin Underway' /\ (v \in drawer'[u].taken <=> v \in Takings(op[u].doc)')
    <3>1. v \notin Underway /\ (v \in drawer[u].taken <=> v \in Takings(op[u].doc))
      BY <2>2, <2>5 DEF ClosingOK
    <3>2. v # op[r].doc
      BY <3>1, UnderwayIs
    <3>3. PICK k \in Shifts : k = op[u].doc
      <4>1. op[u] \in Ops /\ op[u].kind = "close"
        BY <2>2, <2>5 DEF SlotOK, Closing
      <4> QED BY <4>1, DocKinds
    <3>4. v \in Takings(op[u].doc)' <=> v \in Takings(k)
      BY <1>1, <3>2, <3>3 DEF Takings
    <3> QED BY <1>1, <1>2, <3>1, <3>3, <3>4
  <2>6. ASSUME pc[u] = "entered", op[u].kind = "post", op[u].doc \notin late, NEW k \in Shifts,
               shift'[k].status = "closed"
        PROVE  shift'[k].closed <= drawer'[u].at
    <3>1. op[u].doc \in Vouchers /\ op[u].doc \in Underway
      <4>1. op[u] \in Ops
        BY <2>2, <2>6 DEF SlotOK
      <4>2. op[u].doc \in Vouchers
        BY <2>6, <4>1, DocKinds
      <4> QED BY <2>6, <4>2, UnderwayIs
    <3>2. ~ Closing(r)
      BY <3>1, <2>6 DEF ClosingOK
    <3> QED BY <1>1, <2>2, <2>6, <3>2 DEF ClosingOK
  <2>7. op'[u] = op[u] /\ pc'[u] = pc[u] /\ drawer'[u] = drawer[u] /\ late' = late
    BY <1>1
  <2> QED BY <2>1, <2>4, <2>5, <2>6, <2>7 DEF ClosingOK
<1> QED BY <1>3, <1>4

\* Shifts whose rows do not move, but for the mark that they are entered.
LEMMA ShiftsStay ==
    ASSUME Types, \A k \in Shifts : ShiftOK(k), \A j \in Shifts, k \in Shifts : InTurn(j, k),
           \A k \in Shifts : \A f \in {"status", "user", "opened", "closed", "taken"} :
              shift'[k][f] = shift[k][f],
           \A k \in Shifts : shift'[k].entered => shift[k].status = "closed",
           \A v \in Vouchers : voucher[v].status # "draft" => voucher'[v].status # "draft",
           clock' = clock
    PROVE  /\ \A k \in Shifts : ShiftOK(k)'
           /\ \A j \in Shifts, k \in Shifts : InTurn(j, k)'
<1>1. ASSUME NEW k \in Shifts
      PROVE  /\ shift'[k].status = shift[k].status /\ shift'[k].user = shift[k].user
             /\ shift'[k].opened = shift[k].opened /\ shift'[k].closed = shift[k].closed
             /\ shift'[k].taken = shift[k].taken
  OBVIOUS
<1>2. ASSUME NEW k \in Shifts PROVE ShiftOK(k)'
  <2>1. ShiftOK(k) /\ (shift'[k].entered => shift[k].status = "closed")
    OBVIOUS
  <2>2. shift[k].taken \subseteq Vouchers
    <3>1. shift[k] \in ShiftRow
      BY TypesFields
    <3> QED BY <3>1 DEF ShiftRow
  <2> QED BY <1>1, <2>1, <2>2 DEF ShiftOK
<1>3. ASSUME NEW j \in Shifts, NEW k \in Shifts PROVE InTurn(j, k)'
  <2>1. InTurn(j, k)
    OBVIOUS
  <2> QED BY <1>1, <2>1 DEF InTurn, Before
<1> QED BY <1>2, <1>3

\* The commits that leave the vouchers alone.
LEMMA OthersKeepClocks ==
    ASSUME Slots, Clocks, NEW r \in Requests, pc[r] # "idle", End(r), late' = late,
           stale \subseteq stale', voucher' = voucher, clock' = clock,
           \A k \in Shifts : \A f \in {"status", "user", "opened", "closed", "taken"} :
              shift'[k][f] = shift[k][f],
           \A k \in Shifts : shift'[k].entered => shift[k].status = "closed"
    PROVE  Clocks'
<1>1. /\ Types /\ \A k \in Shifts : ShiftOK(k)
      /\ \A j \in Shifts, k \in Shifts : InTurn(j, k)
      /\ \A v \in Vouchers : VoucherOK(v)
      /\ \A u \in Requests : ClosingOK(u)
      /\ \A k \in Shifts, v \in Vouchers : Told(k, v)
  BY DEF Slots, Clocks
<1>2. /\ \A k \in Shifts : ShiftOK(k)'
      /\ \A j \in Shifts, k \in Shifts : InTurn(j, k)'
  BY <1>1, ShiftsStay
<1>3. \A v \in Vouchers : VoucherOK(v)'
  BY <1>1 DEF VoucherOK
<1>4. \A k \in Shifts : /\ shift'[k].opened = shift[k].opened
                        /\ shift'[k].status = shift[k].status
                        /\ shift'[k].closed = shift[k].closed
                        /\ shift'[k].taken = shift[k].taken
  OBVIOUS
<1>5. \A u \in Requests : ClosingOK(u)'
  BY <1>1, <1>4, EndKeepsClosing
<1>6. ASSUME NEW k \in Shifts, NEW v \in Vouchers PROVE Told(k, v)'
  <2>1. Told(k, v)
    BY <1>1
  <2> QED BY <1>4, <2>1 DEF Told, Open
<1> QED BY <1>2, <1>3, <1>5, <1>6 DEF Clocks

\* The commits on the row of voucher d.
LEMMA VoucherKeepsClocks ==
    ASSUME Slots, Clocks, NEW r \in Requests, pc[r] # "idle", Commits(r),
           NEW d \in Vouchers, d = op[r].doc,
           \A v \in Vouchers \ {d} : voucher'[v] = voucher[v],
           voucher[d].status # "draft" => voucher'[d].status # "draft",
           voucher[d].status # "draft" /\ d \notin stale' => voucher'[d].at = voucher[d].at,
           shift' = shift, clock' = clock,
           VoucherOK(d)',
           \A k \in Shifts : shift[k].status = "closed" /\ d \notin stale' =>
              /\ d \in shift[k].taken => Open(k, voucher'[d].at)
              /\ /\ voucher'[d].status = "posted" /\ voucher'[d].method = "cash"
                 /\ d \notin late /\ Open(k, voucher'[d].at)
                 => d \in shift[k].taken
    PROVE  Clocks'
<1>1. /\ Types /\ \A k \in Shifts : ShiftOK(k)
      /\ \A j \in Shifts, k \in Shifts : InTurn(j, k)
      /\ \A v \in Vouchers : VoucherOK(v)
      /\ \A u \in Requests : ClosingOK(u)
      /\ \A k \in Shifts, v \in Vouchers : Told(k, v)
  BY DEF Slots, Clocks
<1>2. End(r) /\ late' = late /\ stale \subseteq stale'
  BY <1>1, Committed
<1>3. /\ \A v \in Vouchers : voucher[v].status # "draft" => voucher'[v].status # "draft"
      /\ \A v \in Vouchers :
            voucher[v].status # "draft" /\ v \notin stale' => voucher'[v].at = voucher[v].at
  OBVIOUS
<1>4. /\ \A k \in Shifts : ShiftOK(k)'
      /\ \A j \in Shifts, k \in Shifts : InTurn(j, k)'
  <2>1. \A k \in Shifts : shift[k].entered => shift[k].status = "closed"
    BY <1>1 DEF ShiftOK
  <2>2. /\ \A k \in Shifts : \A f \in {"status", "user", "opened", "closed", "taken"} :
              shift'[k][f] = shift[k][f]
        /\ \A k \in Shifts : shift'[k].entered => shift[k].status = "closed"
    BY <2>1
  <2> QED BY <1>1, <1>3, <2>2, ShiftsStay
<1>5. \A v \in Vouchers : VoucherOK(v)'
  <2> TAKE v \in Vouchers
  <2>1. CASE v = d
    BY <2>1
  <2>2. CASE v # d
    BY <1>1, <2>2 DEF VoucherOK
  <2> QED BY <2>1, <2>2
<1>6. \A u \in Requests : ClosingOK(u)'
  BY <1>1, <1>2, <1>3, EndKeepsClosing
<1>7. ASSUME NEW k \in Shifts, NEW v \in Vouchers PROVE Told(k, v)'
  <2>1. CASE v = d
    BY <1>2, <2>1 DEF Told, Open
  <2>2. CASE v # d
    <3>1. Told(k, v) /\ voucher'[v] = voucher[v]
      BY <1>1, <2>2
    <3> QED BY <1>2, <3>1 DEF Told, Open
  <2> QED BY <2>1, <2>2
<1> QED BY <1>4, <1>5, <1>6, <1>7 DEF Clocks

\* Whoever finds the document as it read it was not overtaken.
LEMMA StaleOrCurrent ==
    ASSUME Slots, NEW r \in Requests, pc[r] # "idle", Commits(r), op[r].doc \notin stale'
    PROVE  /\ Accepts(op[r])
           /\ op[r].doc \in Vouchers => seen[r] = voucher[op[r].doc]
           /\ op[r].doc \in Shifts => seen[r] = shift[op[r].doc]
<1>1. r \notin overtaken
  BY Committed DEF Slots
<1> QED BY <1>1 DEF Slots, Current

LEMMA EditKeepsClocks ==
    ASSUME Slots, Clocks, NEW r \in Requests, Edit(r)
    PROVE  Clocks'
<1>0. Types /\ SlotOK(r)
  BY DEF Slots
<1> PICK d : d = op[r].doc
  OBVIOUS
<1>1. /\ d \in Vouchers /\ pc[r] = "read" /\ op[r].kind = "edit" /\ Commits(r)
      /\ \A v \in Vouchers \ {d} : voucher'[v] = voucher[v]
      /\ \A f \in {"status", "net", "cheque", "at"} : voucher'[d][f] = voucher[d][f]
      /\ UNCHANGED <<transfer, shift, balance, ledger, keys, under, clock>>
  BY <1>0, EditDoes
<1>2. /\ voucher'[d].status = voucher[d].status /\ voucher'[d].cheque = voucher[d].cheque
      /\ voucher'[d].at = voucher[d].at
  BY <1>1
<1>3. VoucherOK(d)'
  BY <1>1, <1>2 DEF VoucherOK, Clocks
<1>4. d \notin stale' => voucher[d].status = "draft"
  BY <1>1, StaleOrCurrent DEF Accepts, Targets
<1>5. ASSUME NEW k \in Shifts, d \notin stale' PROVE d \notin shift[k].taken
  BY <1>4, <1>5 DEF Clocks, ShiftOK
<1> QED BY <1>1, <1>2, <1>3, <1>4, <1>5, VoucherKeepsClocks

LEMMA PostKeepsClocks ==
    ASSUME Slots, Clocks, NEW r \in Requests, NEW c \in Charts, PostVoucher(r, c)
    PROVE  Clocks'
<1>0. Types /\ SlotOK(r)
  BY DEF Slots
<1> PICK d : d = op[r].doc
  OBVIOUS
<1>1. /\ d \in Vouchers /\ pc[r] = "entered" /\ op[r].kind = "post" /\ Commits(r)
      /\ drawer[r].at \in Nat /\ drawer[r].at <= clock
      /\ \A v \in Vouchers \ {d} : voucher'[v] = voucher[v]
      /\ \A f \in {"method", "amount", "net", "cheque"} : voucher'[d][f] = voucher[d][f]
      /\ voucher'[d].status = "posted" /\ voucher'[d].at = drawer[r].at
      /\ UNCHANGED <<transfer, shift, keys, clock>>
  BY <1>0, PostDoes
<1>3. VoucherOK(d)'
  BY <1>1 DEF VoucherOK
<1>4. d \notin stale' => voucher[d].status = "draft"
  BY <1>1, StaleOrCurrent DEF Accepts, Targets
<1>5. ASSUME NEW k \in Shifts, shift[k].status = "closed", d \notin stale'
      PROVE  d \notin shift[k].taken /\ (d \notin late => ~ Open(k, voucher'[d].at))
  <2>1. d \notin shift[k].taken
    BY <1>4, <1>5 DEF Clocks, ShiftOK
  <2>2. d \notin late => shift[k].closed <= drawer[r].at
    BY <1>1, <1>5 DEF Clocks, ClosingOK
  <2>3. shift[k].closed \in Nat
    <3>1. shift[k] \in ShiftRow
      BY <1>0, TypesFields
    <3> QED BY <3>1 DEF ShiftRow
  <2> QED BY <1>1, <2>1, <2>2, <2>3 DEF Open
<1> QED BY <1>1, <1>3, <1>4, <1>5, VoucherKeepsClocks

LEMMA VoidKeepsClocks ==
    ASSUME Slots, Clocks, NEW r \in Requests, VoidVoucher(r)
    PROVE  Clocks'
<1>0. Types /\ SlotOK(r)
  BY DEF Slots
<1> PICK d : d = op[r].doc
  OBVIOUS
<1>1. /\ d \in Vouchers /\ pc[r] = "read" /\ op[r].kind = "void" /\ Commits(r)
      /\ \A v \in Vouchers \ {d} : voucher'[v] = voucher[v]
      /\ \A f \in {"method", "amount", "net", "cheque", "at"} : voucher'[d][f] = voucher[d][f]
      /\ voucher'[d].status = "voided"
      /\ UNCHANGED <<transfer, shift, ledger, keys, under, clock>>
  BY <1>0, VoidDoes
<1>2. voucher'[d].at = voucher[d].at /\ stale \subseteq stale'
  BY <1>0, <1>1, Committed
<1>3. VoucherOK(d)'
  BY <1>1, <1>2 DEF VoucherOK, Clocks
<1>4. \A k \in Shifts : shift[k].status = "closed" /\ d \notin stale' /\ d \in shift[k].taken
         => Open(k, voucher[d].at)
  BY <1>1, <1>2 DEF Clocks, Told
<1> QED BY <1>1, <1>2, <1>3, <1>4, VoucherKeepsClocks

LEMMA SettleKeepsClocks ==
    ASSUME Slots, Clocks, NEW r \in Requests, NEW c \in Charts, SettleCheque(r, c)
    PROVE  Clocks'
<1>0. Types /\ SlotOK(r)
  BY DEF Slots
<1> PICK d : d = op[r].doc
  OBVIOUS
<1>1. /\ d \in Vouchers /\ pc[r] = "entered" /\ op[r].kind \in Targets /\ Commits(r)
      /\ \A v \in Vouchers \ {d} : voucher'[v] = voucher[v]
      /\ \A f \in {"status", "method", "amount", "net", "at"} : voucher'[d][f] = voucher[d][f]
      /\ UNCHANGED <<transfer, shift, clock>>
  BY <1>0, SettleDoes
<1>2. /\ voucher'[d].status = voucher[d].status /\ voucher'[d].method = voucher[d].method
      /\ voucher'[d].at = voucher[d].at
  BY <1>1
<1>3. voucher[d].status # "draft"
  BY <1>0, <1>1 DEF SlotOK, Busy
<1>4. VoucherOK(d)'
  BY <1>1, <1>2, <1>3 DEF VoucherOK, Clocks
<1>5. stale \subseteq stale'
  BY <1>0, <1>1, Committed
<1>6. \A k \in Shifts : shift[k].status = "closed" /\ d \notin stale' =>
         /\ d \in shift[k].taken => Open(k, voucher[d].at)
         /\ /\ voucher[d].status = "posted" /\ voucher[d].method = "cash"
            /\ d \notin late /\ Open(k, voucher[d].at)
            => d \in shift[k].taken
  BY <1>1, <1>5 DEF Clocks, Told
<1> QED BY <1>1, <1>2, <1>4, <1>5, <1>6, VoucherKeepsClocks

LEMMA TransfersKeepClocks ==
    ASSUME Slots, Clocks, NEW r \in Requests,
           \/ \E c \in Charts : SendTransfer(r, c) \/ ReceiveTransfer(r, c)
           \/ CancelTransfer(r) \/ Fail(r)
    PROVE  Clocks'
<1>0. Types /\ SlotOK(r)
  BY DEF Slots
<1>1. CASE Fail(r)
  <2>1. /\ pc[r] # "idle" /\ End(r)
        /\ UNCHANGED <<voucher, transfer, shift, balance, ledger, keys, under, clock, started, stale, late>>
    BY <1>0, <1>1, FailDoes
  <2>2. \A k \in Shifts : shift'[k].entered => shift[k].status = "closed"
    BY <2>1 DEF Clocks, ShiftOK
  <2> QED BY <2>1, <2>2, OthersKeepClocks
<1>2. CASE (\E c \in Charts : SendTransfer(r, c) \/ ReceiveTransfer(r, c)) \/ CancelTransfer(r)
  <2>1. pc[r] # "idle" /\ Commits(r) /\ UNCHANGED <<voucher, shift, clock>>
    <3>1. ASSUME NEW c \in Charts, SendTransfer(r, c)
          PROVE  pc[r] # "idle" /\ Commits(r) /\ UNCHANGED <<voucher, shift, clock>>
      BY <1>0, <3>1, SendDoes
    <3>2. ASSUME NEW c \in Charts, ReceiveTransfer(r, c)
          PROVE  pc[r] # "idle" /\ Commits(r) /\ UNCHANGED <<voucher, shift, clock>>
      BY <1>0, <3>2, ReceiveDoes
    <3>3. CASE CancelTransfer(r)
      BY <1>0, <3>3, CancelDoes
    <3> QED BY <1>2, <3>1, <3>2, <3>3
  <2>2. End(r) /\ late' = late /\ stale \subseteq stale'
    BY <1>0, <2>1, Committed
  <2>3. \A k \in Shifts : shift'[k].entered => shift[k].status = "closed"
    BY <2>1 DEF Clocks, ShiftOK
  <2> QED BY <2>1, <2>2, <2>3, OthersKeepClocks
<1> QED BY <1>1, <1>2

LEMMA EnterKeepsClocks ==
    ASSUME Slots, Clocks, NEW r \in Requests, NEW c \in Charts, EnterShift(r, c)
    PROVE  Clocks'
<1>0. Types /\ SlotOK(r)
  BY DEF Slots
<1> PICK d : d = op[r].doc
  OBVIOUS
<1>1. /\ d \in Shifts /\ pc[r] = "entered" /\ Commits(r) /\ shift[d].status = "closed"
      /\ \A k \in Shifts \ {d} : shift'[k] = shift[k]
      /\ shift'[d].status = shift[d].status /\ shift'[d].opened = shift[d].opened
      /\ shift'[d].closed = shift[d].closed /\ shift'[d].taken = shift[d].taken
      /\ shift'[d].user = shift[d].user
      /\ UNCHANGED <<voucher, transfer, balance, keys, clock>>
  <2>1. pc[r] = "entered" /\ Commits(r) /\ UNCHANGED <<voucher, transfer, balance, keys, clock>>
    BY DEF EnterShift, Does
  <2>2. op[r] \in Ops /\ op[r].kind = "enter" /\ shift[d].status = "closed"
    BY <1>0 DEF EnterShift, Does, SlotOK, Busy
  <2>3. d \in Shifts
    BY <2>2, DocKinds
  <2>4. shift' = [shift EXCEPT ![d].entered = TRUE] /\ shift \in [Shifts -> ShiftRow]
    BY <1>0, TypesFields DEF EnterShift
  <2>5. shift'[d] = [shift[d] EXCEPT !.entered = TRUE] /\ shift[d] \in ShiftRow
    BY <2>3, <2>4
  <2> QED BY <2>1, <2>2, <2>3, <2>4, <2>5 DEF ShiftRow
<1>2. End(r) /\ late' = late /\ stale \subseteq stale'
  BY <1>0, <1>1, Committed
<1>3. \A k \in Shifts : \A f \in {"status", "user", "opened", "closed", "taken"} :
         shift'[k][f] = shift[k][f]
  BY <1>1
<1>4. \A k \in Shifts : shift'[k].entered => shift[k].status = "closed"
  BY <1>1 DEF Clocks, ShiftOK
<1> QED BY <1>1, <1>2, <1>3, <1>4, OthersKeepClocks

LEMMA CloseKeepsClocks ==
    ASSUME Slots, Clocks, NEW r \in Requests, CloseShift(r)
    PROVE  Clocks'
<1>0. /\ Types /\ SlotOK(r) /\ \A k \in Shifts : ShiftOK(k)
      /\ \A j \in Shifts, k \in Shifts : InTurn(j, k)
      /\ \A v \in Vouchers : VoucherOK(v)
      /\ \A u \in Requests : ClosingOK(u)
      /\ \A k \in Shifts, v \in Vouchers : Told(k, v)
  BY DEF Slots, Clocks
<1> PICK d : d = op[r].doc
  OBVIOUS
<1>1. /\ d \in Shifts /\ pc[r] = "read" /\ op[r].kind = "close" /\ op[r] \in Ops /\ Commits(r)
      /\ shift[d].status = "open" /\ clock' = clock + 1
      /\ shift' \in [Shifts -> ShiftRow]
      /\ \A k \in Shifts \ {d} : shift'[k] = shift[k]
      /\ shift'[d].status = "closed" /\ shift'[d].closed = clock + 1
      /\ shift'[d].taken = drawer[r].taken /\ shift'[d].opened = shift[d].opened
      /\ shift'[d].entered = shift[d].entered /\ shift'[d].user = shift[d].user
      /\ UNCHANGED <<voucher, transfer, balance, ledger, keys, under>>
  BY <1>0, CloseDoes
<1>2. clock \in Nat
  BY <1>0, TypesFields
<1>3. ASSUME NEW k \in Shifts
      PROVE  shift[k].opened \in Nat /\ shift[k].closed \in Nat /\ shift[k].taken \subseteq Vouchers
  <2>1. shift[k] \in ShiftRow
    BY <1>0, TypesFields
  <2> QED BY <2>1 DEF ShiftRow
<1>4. /\ Closing(r) /\ drawer[r].taken \subseteq Vouchers
      /\ \A v \in drawer[r].taken :
            voucher[v].status # "draft" /\ (v \notin stale => shift[d].opened <= voucher[v].at)
  BY <1>0, <1>1, TypesFields DEF ClosingOK, Closing
<1>5. ASSUME NEW k \in Shifts PROVE ShiftOK(k)'
  <2>1. ShiftOK(k)
    BY <1>0
  <2>2. CASE k # d
    BY <1>1, <1>2, <1>3, <2>1, <2>2 DEF ShiftOK
  <2>3. CASE k = d
    <3>1. shift[d].opened <= clock /\ ~ shift[d].entered
      BY <1>1, <2>1, <2>3 DEF ShiftOK
    <3>2. shift'[d].opened <= clock' /\ shift'[d].closed <= clock'
      BY <1>1, <1>2, <1>3, <3>1
    <3> QED BY <1>1, <1>4, <2>3, <3>1, <3>2 DEF ShiftOK
  <2> QED BY <2>2, <2>3
<1>6. ASSUME NEW j \in Shifts, NEW k \in Shifts PROVE InTurn(j, k)'
  <2>1. InTurn(j, k)
    BY <1>0
  <2>2. ASSUME NEW i \in Shifts
        PROVE  /\ shift'[i].opened = shift[i].opened /\ shift'[i].user = shift[i].user
               /\ shift'[i].status # "none" => shift[i].status # "none"
               /\ shift[i].status = "closed" =>
                     shift'[i].status = "closed" /\ shift'[i].closed = shift[i].closed
    BY <1>1
  <2>3. \A i, h \in Shifts : Before(i, h) => Before(i, h)'
    BY <2>2 DEF Before
  <2> QED BY <2>1, <2>2, <2>3 DEF InTurn
<1>7. ASSUME NEW v \in Vouchers PROVE VoucherOK(v)' /\ voucher[v].at \in Nat /\ voucher[v].at < clock + 1
  <2>1. VoucherOK(v)
    BY <1>0
  <2>2. voucher[v].at \in Nat
    <3>1. voucher[v] \in VoucherRow
      BY <1>0, TypesFields
    <3> QED BY <3>1 DEF VoucherRow
  <2> QED BY <1>1, <1>2, <2>1, <2>2 DEF VoucherOK
<1>8. End(r) /\ late' = late /\ stale \subseteq stale'
  BY <1>0, <1>1, Committed
<1>9. \A u \in Requests : ClosingOK(u)'
  <2>1. /\ \A k \in Shifts : shift'[k].opened = shift[k].opened
        /\ \A k \in Shifts : shift'[k].status = "closed" =>
              (shift[k].status = "closed" /\ shift'[k].closed = shift[k].closed) \/ Closing(r)
    BY <1>1, <1>4
  <2> QED BY <1>0, <1>1, <1>8, <2>1, EndKeepsClosing
<1>10. ASSUME NEW k \in Shifts, NEW v \in Vouchers PROVE Told(k, v)'
  <2>1. CASE k # d
    <3>1. Told(k, v) /\ shift'[k] = shift[k]
      BY <1>0, <1>1, <2>1
    <3> QED BY <1>1, <1>8, <3>1 DEF Told, Open
  <2>2. CASE k = d
    <3>1. v \in drawer[r].taken /\ v \notin stale' => Open(d, voucher[v].at)'
      BY <1>1, <1>4, <1>7, <1>8 DEF Open
    <3>2. ASSUME voucher[v].status = "posted", voucher[v].method = "cash", v \notin late,
                 Open(d, voucher[v].at)'
          PROVE  v \in drawer[r].taken
      <4>1. v \in drawer[r].taken <=> v \in Takings(d)
        BY <1>0, <1>4, <3>2 DEF ClosingOK
      <4>2. shift[d].opened <= voucher[v].at
        BY <1>1, <3>2 DEF Open
      <4>3. voucher[v].at >= shift[d].opened
        BY <1>1, <1>3, <1>7, <4>2
      <4> QED BY <3>2, <4>1, <4>3 DEF Takings
    <3> QED BY <1>1, <1>8, <2>2, <3>1, <3>2 DEF Told
  <2> QED BY <2>1, <2>2
<1> QED BY <1>5, <1>6, <1>7, <1>9, <1>10 DEF Clocks

LEMMA OpenKeepsClocks ==
    ASSUME Slots, Clocks, NEW d \in Shifts, NEW w \in Users, OpenShift(d, w)
    PROVE  Clocks'
<1>0. /\ Types /\ \A k \in Shifts : ShiftOK(k)
      /\ \A j \in Shifts, k \in Shifts : InTurn(j, k)
      /\ \A v \in Vouchers : VoucherOK(v)
      /\ \A u \in Requests : ClosingOK(u) /\ SlotOK(u)
      /\ \A k \in Shifts, v \in Vouchers : Told(k, v)
  BY DEF Slots, Clocks
<1>1. /\ shift[d].status = "none"
      /\ \A j \in Shifts : shift[j].status = "open" => shift[j].user # w
      /\ clock' = clock + 1
      /\ shift' \in [Shifts -> ShiftRow]
      /\ \A j \in Shifts \ {d} : shift'[j] = shift[j]
      /\ shift'[d].status = "open" /\ shift'[d].opened = clock + 1
      /\ shift'[d].user = w
      /\ shift'[d].taken = shift[d].taken /\ shift'[d].entered = shift[d].entered
      /\ UNCHANGED <<voucher, transfer, balance, ledger, keys, under, journal, pc, op, seen, drawer,
                     started, overtaken, stale, late>>
  BY <1>0, OpenDoes
<1>2. clock \in Nat
  BY <1>0, TypesFields
<1>3. ASSUME NEW k \in Shifts
      PROVE  /\ shift[k].opened \in Nat /\ shift[k].closed \in Nat
             /\ shift[k].status \in {"none", "open", "closed"}
  <2>1. shift[k] \in ShiftRow
    BY <1>0, TypesFields
  <2> QED BY <2>1 DEF ShiftRow
<1>4. ASSUME NEW k \in Shifts PROVE ShiftOK(k)'
  <2>1. ShiftOK(k)
    BY <1>0
  <2>2. CASE k # d
    BY <1>1, <1>2, <1>3, <2>1, <2>2 DEF ShiftOK
  <2>3. CASE k = d
    BY <1>1, <1>2, <2>1, <2>3 DEF ShiftOK
  <2> QED BY <2>2, <2>3
<1>5. ASSUME NEW v \in Vouchers PROVE VoucherOK(v)'
  <2>1. VoucherOK(v)
    BY <1>0
  <2>2. voucher[v].at \in Nat
    <3>1. voucher[v] \in VoucherRow
      BY <1>0, TypesFields
    <3> QED BY <3>1 DEF VoucherRow
  <2> QED BY <1>1, <1>2, <2>1, <2>2 DEF VoucherOK
<1>6. ASSUME NEW i \in Shifts \ {d}, shift'[i].status # "none", shift'[i].user = w
      PROVE  Before(i, d)'
  <2>1. shift[i].status = "closed" /\ shift'[i] = shift[i]
    BY <1>1, <1>3, <1>6
  <2>2. shift[i].closed <= clock
    BY <1>0, <2>1 DEF ShiftOK
  <2>3. shift[i].closed < clock + 1
    BY <1>2, <1>3, <2>2
  <2> QED BY <1>1, <2>1, <2>3 DEF Before
<1>7. ASSUME NEW j \in Shifts, NEW k \in Shifts PROVE InTurn(j, k)'
  <2>1. InTurn(j, k)
    BY <1>0
  <2>2. CASE j # d /\ k # d
    BY <1>1, <2>1, <2>2 DEF InTurn, Before
  <2>3. CASE j = d
    BY <1>1, <1>6, <2>3 DEF InTurn
  <2>4. CASE k = d
    BY <1>1, <1>6, <2>4 DEF InTurn
  <2> QED BY <2>2, <2>3, <2>4
<1>8. ASSUME NEW u \in Requests PROVE ClosingOK(u)'
  <2>1. Closing(u)' <=> Closing(u)
    BY <1>1 DEF Closing
  <2>2. Underway' = Underway
    BY <1>1 DEF Underway
  <2>3. ASSUME Closing(u) PROVE shift'[op[u].doc] = shift[op[u].doc] /\ op[u].doc \in Shifts
    <3>1. op[u] \in Ops /\ op[u].kind = "close" /\ shift[op[u].doc].status # "none"
      BY <1>0, <2>3 DEF SlotOK, Closing, Busy
    <3> QED BY <1>1, <3>1, DocKinds
  <2>4. ASSUME Closing(u), NEW v \in Vouchers \ late
        PROVE  v \notin Underway' /\ (v \in drawer'[u].taken <=> v \in Takings(op[u].doc)')
    <3>1. PICK k \in Shifts : k = op[u].doc /\ shift'[k] = shift[k]
      BY <2>3, <2>4
    <3>2. v \in Takings(op[u].doc)' <=> v \in Takings(k)
      BY <1>1, <3>1 DEF Takings
    <3> QED BY <1>0, <1>1, <2>2, <2>4, <3>1, <3>2 DEF ClosingOK
  <2>5. Closing(u) => \A v \in drawer[u].taken :
           /\ voucher[v].status # "draft"
           /\ v \notin stale => shift'[op[u].doc].opened <= voucher[v].at
    BY <1>0, <2>3 DEF ClosingOK
  <2>6. pc[u] = "entered" /\ op[u].kind = "post" /\ op[u].doc \notin late =>
          \A k \in Shifts : shift'[k].status = "closed" => shift'[k].closed <= drawer[u].at
    BY <1>0, <1>1 DEF ClosingOK
  <2>7. UNCHANGED <<voucher, pc, op, drawer, late, stale>>
    BY <1>1
  <2> QED BY <2>1, <2>4, <2>5, <2>6, <2>7 DEF ClosingOK
<1>9. ASSUME NEW k \in Shifts, NEW v \in Vouchers PROVE Told(k, v)'
  <2>1. Told(k, v) /\ (shift'[k].status = "closed" => shift'[k] = shift[k])
    BY <1>0, <1>1
  <2> QED BY <1>1, <2>1 DEF Told, Open
<1> QED BY <1>4, <1>5, <1>7, <1>8, <1>9 DEF Clocks

LEMMA BeginKeepsClocks ==
    ASSUME Slots, Clocks, NEW r \in Requests, NEW o \in Ops, Begin(r, o)
    PROVE  Clocks'
<1>0. /\ Types /\ \A k \in Shifts : ShiftOK(k)
      /\ \A j \in Shifts, k \in Shifts : InTurn(j, k)
      /\ \A v \in Vouchers : VoucherOK(v)
      /\ \A u \in Requests : ClosingOK(u) /\ SlotOK(u)
      /\ \A k \in Shifts, v \in Vouchers : Told(k, v)
  BY DEF Slots, Clocks
<1>1. /\ pc[r] = "idle"
      /\ pc'[r] = "read" /\ op'[r] = o
      /\ o.kind = "close" => drawer'[r].taken = Takings(o.doc)
      /\ \A u \in Requests \ {r} : /\ pc'[u] = pc[u] /\ op'[u] = op[u] /\ drawer'[u] = drawer[u]
      /\ UNCHANGED <<voucher, shift, clock, stale>>
  BY <1>0, BeginDoes
<1>2. late' = late \cup (IF o.kind = "close" THEN Underway ELSE {})
                   \cup (IF o.doc \in Vouchers /\ (\E u \in Requests : Closing(u))
                         THEN {o.doc} ELSE {})
  BY <1>0, BeginDoes
<1>3. /\ late \subseteq late'
      /\ o.kind = "close" => Underway \subseteq late'
      /\ o.doc \in Vouchers /\ (\E u \in Requests : Closing(u)) => o.doc \in late'
  BY <1>2
<1>4. Underway' \subseteq Underway \cup {o.doc}
  BY <1>1, UnderwayIs
<1>5. \A k : Takings(k)' = Takings(k)
  BY <1>1 DEF Takings
<1>6. \A j \in Shifts, k \in Shifts : InTurn(j, k)'
  BY <1>0, <1>1 DEF InTurn, Before
<1>7. (\A k \in Shifts : ShiftOK(k)') /\ (\A v \in Vouchers : VoucherOK(v)')
  BY <1>0, <1>1 DEF ShiftOK, VoucherOK
<1>8. ASSUME NEW k \in Shifts, NEW v \in Vouchers PROVE Told(k, v)'
  <2>1. Told(k, v)
    BY <1>0
  <2> QED BY <1>1, <1>3, <2>1 DEF Told, Open
<1>9. ClosingOK(r)'
  <2>1. ASSUME o.kind = "close"
        PROVE  /\ \A v \in drawer'[r].taken :
                     voucher'[v].status # "draft" /\ shift'[o.doc].opened <= voucher'[v].at
               /\ \A v \in Vouchers \ late' : v \notin Underway' /\ (v \in drawer'[r].taken <=> v \in Takings(o.doc))
    <3>1. ASSUME NEW v \in drawer'[r].taken
          PROVE  voucher'[v].status # "draft" /\ shift'[o.doc].opened <= voucher'[v].at
      <4>1. v \in Takings(o.doc) /\ o.doc \in Shifts
        BY <1>1, <2>1, <3>1, DocKinds
      <4>2. v \in Vouchers /\ voucher[v].status = "posted" /\ voucher[v].at >= shift[o.doc].opened
        BY <4>1 DEF Takings
      <4>3. voucher[v] \in VoucherRow /\ shift[o.doc] \in ShiftRow
        BY <1>0, <4>1, <4>2, TypesFields
      <4>4. voucher[v].at \in Nat /\ shift[o.doc].opened \in Nat
        BY <4>3 DEF VoucherRow, ShiftRow
      <4> QED BY <1>1, <4>2, <4>4
    <3>2. o.doc \notin Vouchers
      BY <2>1, DocKinds DEF Targets
    <3> QED BY <1>1, <1>3, <1>4, <2>1, <3>1, <3>2
  <2>2. Closing(r)' => o.kind = "close"
    BY <1>1 DEF Closing
  <2>3. Takings(op[r].doc)' = Takings(o.doc)
    BY <1>1 DEF Takings
  <2> QED BY <1>1, <2>1, <2>2, <2>3 DEF ClosingOK
<1>10. ASSUME NEW u \in Requests \ {r} PROVE ClosingOK(u)'
  <2>1. Closing(u)' <=> Closing(u)
    BY <1>1 DEF Closing
  <2>2. ClosingOK(u)
    BY <1>0
  <2>3. ASSUME Closing(u), NEW v \in Vouchers \ late'
        PROVE  v \notin Underway' /\ (v \in drawer'[u].taken <=> v \in Takings(op[u].doc)')
    <3>1. v # o.doc
      BY <1>3, <2>3
    <3>2. Takings(op[u].doc)' = Takings(op[u].doc)
      BY <1>1 DEF Takings
    <3>3. v \in Vouchers \ late
      BY <1>3
    <3>4. v \notin Underway /\ (v \in drawer[u].taken <=> v \in Takings(op[u].doc))
      BY <2>2, <2>3, <3>3 DEF ClosingOK
    <3> QED BY <1>1, <1>4, <3>1, <3>2, <3>4
  <2>4. Closing(u) => \A v \in drawer'[u].taken :
           /\ voucher'[v].status # "draft"
           /\ v \notin stale' => shift'[op'[u].doc].opened <= voucher'[v].at
    BY <1>1, <2>2 DEF ClosingOK
  <2>5. pc'[u] = "entered" /\ op'[u].kind = "post" /\ op'[u].doc \notin late' =>
          \A k \in Shifts : shift'[k].status = "closed" => shift'[k].closed <= drawer'[u].at
    BY <1>1, <1>3, <2>2 DEF ClosingOK
  <2> QED BY <2>1, <2>3, <2>4, <2>5 DEF ClosingOK
<1> QED BY <1>6, <1>7, <1>8, <1>9, <1>10 DEF Clocks

LEMMA EntryKeepsClocks ==
    ASSUME Slots, Clocks, NEW r \in Requests, PostEntry(r)
    PROVE  Clocks'
<1>0. /\ Types /\ \A k \in Shifts : ShiftOK(k)
      /\ \A j \in Shifts, k \in Shifts : InTurn(j, k)
      /\ \A v \in Vouchers : VoucherOK(v)
      /\ \A u \in Requests : ClosingOK(u) /\ SlotOK(u)
      /\ \A k \in Shifts, v \in Vouchers : Told(k, v)
  BY DEF Slots, Clocks
<1>1. /\ pc[r] = "read" /\ Entered(op[r]) /\ pc'[r] = "entered"
      /\ op[r].kind = "post" => drawer'[r].at = clock
      /\ \A u \in Requests \ {r} : pc'[u] = pc[u] /\ drawer'[u] = drawer[u]
      /\ UNCHANGED <<voucher, shift, op, clock, stale, late>>
  BY <1>0, EntryDoes
<1>2. \A j \in Shifts, k \in Shifts : InTurn(j, k)'
  BY <1>0, <1>1 DEF InTurn, Before
<1>3. (\A k \in Shifts : ShiftOK(k)') /\ (\A v \in Vouchers : VoucherOK(v)')
  BY <1>0, <1>1 DEF ShiftOK, VoucherOK
<1>4. ASSUME NEW k \in Shifts, NEW v \in Vouchers PROVE Told(k, v)'
  <2>1. Told(k, v)
    BY <1>0
  <2> QED BY <1>1, <2>1 DEF Told, Open
<1>5. Underway' \subseteq Underway
  BY <1>1, UnderwayIs
<1>6. ClosingOK(r)'
  <2>1. ~ Closing(r)'
    BY <1>1 DEF Closing, Entered, Keyed, Targets
  <2>2. \A k \in Shifts : shift[k].status = "closed" => shift[k].closed <= clock
    BY <1>0 DEF ShiftOK
  <2> QED BY <1>1, <2>1, <2>2 DEF ClosingOK
<1>7. ASSUME NEW u \in Requests \ {r} PROVE ClosingOK(u)'
  <2>1. (Closing(u)' <=> Closing(u)) /\ drawer'[u] = drawer[u] /\ pc'[u] = pc[u]
    BY <1>1 DEF Closing
  <2>2. Takings(op[u].doc)' = Takings(op[u].doc)
    BY <1>1 DEF Takings
  <2>3. ClosingOK(u)
    BY <1>0
  <2> QED BY <1>1, <1>5, <2>1, <2>2, <2>3 DEF ClosingOK
<1> QED BY <1>2, <1>3, <1>4, <1>6, <1>7 DEF Clocks

LEMMA StutterKeepsClocks ==
    ASSUME Clocks, UNCHANGED vars
    PROVE  Clocks'
<1>1. UNCHANGED <<voucher, transfer, shift, pc, op, drawer, clock, stale, late>>
  BY DEF vars, rows, request
<1>2. /\ \A j \in Shifts, k \in Shifts : InTurn(j, k)'
      /\ \A k \in Shifts, v \in Vouchers : Told(k, v)'
  BY <1>1 DEF Clocks, InTurn, Before, Told, Open
<1>3. (\A k \in Shifts : ShiftOK(k)') /\ (\A v \in Vouchers : VoucherOK(v)')
  BY <1>1 DEF Clocks, ShiftOK, VoucherOK
<1>4. ASSUME NEW u \in Requests PROVE ClosingOK(u)'
  <2>1. Underway' = Underway /\ Takings(op[u].doc)' = Takings(op[u].doc)
    BY <1>1 DEF Underway, Takings
  <2>2. ClosingOK(u) /\ (Closing(u)' <=> Closing(u))
    BY <1>1 DEF Clocks, Closing
  <2> QED BY <1>1, <2>1, <2>2 DEF ClosingOK
<1> QED BY <1>2, <1>3, <1>4 DEF Clocks

-----------------------------------------------------------------------------
(* The sums that the balances are told by *)

HasRow(w) == IF w.method = "cheque" THEN w.cheque \in {"cleared", "collected"}
             ELSE w.status = "posted"

\* The sums of the model, of rows w and statuses x.
AmountsOf(w, V) == MapThenSumSet(LAMBDA v : Signed(v, w[v].amount), V)
SafeSum(w, s) == AmountsOf(w, {v \in {v \in Vouchers : Card[v].safe = s} : HasRow(w[v])})
ArrivedSum(x, s) == Amounts({t \in Transfers : Card[t].to = s /\ x[t] = "received"})
LeftSum(x, s) == Amounts({t \in Transfers : Card[t].from = s /\ x[t] \in {"sent", "received"}})

\* What the sums of the model are, in a state and in the next.
LEMMA SafeRead ==
    \A s : /\ Sum({v \in Of(s) : InSafe(v)}) = SafeSum(voucher, s)
           /\ Sum({v \in Of(s) : InSafe(v)})' = SafeSum(voucher', s)
<1> TAKE s
<1>1. Sum({v \in Of(s) : InSafe(v)}) = SafeSum(voucher, s)
  BY DEF Sum, Of, InSafe, SafeSum, HasRow, AmountsOf
<1>2. Sum({v \in Of(s) : InSafe(v)})' = SafeSum(voucher', s)
  BY DEF Sum, Of, InSafe, SafeSum, HasRow, AmountsOf, MapThenSumSet, MapThenFoldSet
<1> QED BY <1>1, <1>2

LEMMA TransfersRead ==
    \A s : /\ Amounts(Arrived(s)) = ArrivedSum(transfer, s)
           /\ Amounts(Arrived(s))' = ArrivedSum(transfer', s)
           /\ Amounts(Left(s)) = LeftSum(transfer, s)
           /\ Amounts(Left(s))' = LeftSum(transfer', s)
BY DEF Amounts, Arrived, Left, ArrivedSum, LeftSum, MapThenSumSet, MapThenFoldSet

\* The terms of these sums, over all documents.
SafeTerm(w, s) ==
    [v \in Vouchers |-> IF Card[v].safe = s /\ HasRow(w[v]) THEN Signed(v, w[v].amount) ELSE 0]
ArrivedTerm(x, s) ==
    [t \in Transfers |-> IF Card[t].to = s /\ x[t] = "received" THEN Card[t].amount ELSE 0]
LeftTerm(x, s) ==
    [t \in Transfers |-> IF Card[t].from = s /\ x[t] \in {"sent", "received"}
                         THEN Card[t].amount ELSE 0]

CardOf(T) == [t \in T |-> Card[t].amount]

LEMMA CardSum == \A T : Amounts(T) = SumOf(CardOf(T), T)
BY DEF Amounts, SumOf, CardOf, MapThenSumSet, MapThenFoldSet

LEMMA TermsInt ==
    /\ \A w \in [Vouchers -> VoucherRow] : \A s : \A v \in Vouchers : SafeTerm(w, s)[v] \in Int
    /\ \A x, s : \A t \in Transfers : ArrivedTerm(x, s)[t] \in Int /\ LeftTerm(x, s)[t] \in Int
<1>1. ASSUME NEW w \in [Vouchers -> VoucherRow], NEW v \in Vouchers
      PROVE  Signed(v, w[v].amount) \in Int
  <2>1. w[v].amount \in Nat
    <3>1. w[v] \in VoucherRow
      OBVIOUS
    <3> QED BY <3>1 DEF VoucherRow
  <2> QED BY <2>1, SignedInt
<1>2. ASSUME NEW w \in [Vouchers -> VoucherRow], NEW s, NEW v \in Vouchers
      PROVE  SafeTerm(w, s)[v] \in Int
  BY <1>1 DEF SafeTerm
<1>3. \A t \in Transfers : Card[t].amount \in Int
  BY CardSafes
<1>4. \A x, s : \A t \in Transfers : ArrivedTerm(x, s)[t] \in Int /\ LeftTerm(x, s)[t] \in Int
  BY <1>3 DEF ArrivedTerm, LeftTerm
<1> QED BY <1>2, <1>4

LEMMA SafeSumTerm ==
    ASSUME NEW w \in [Vouchers -> VoucherRow], NEW s
    PROVE  SafeSum(w, s) = SumOf(SafeTerm(w, s), Vouchers)
<1> DEFINE T == {v \in {v \in Vouchers : Card[v].safe = s} : HasRow(w[v])}
           f == AmountOf(w, T)
           g == SafeTerm(w, s)
<1>1. T \in SUBSET Vouchers /\ IsFiniteSet(Vouchers)
  BY TreasuryAssumption
<1>2. \A x \in Vouchers : g[x] \in Int
  BY TermsInt
<1>3. (\A x \in T : f[x] = g[x]) /\ (\A x \in Vouchers \ T : g[x] = 0)
  BY DEF AmountOf, SafeTerm
<1>4. SafeSum(w, s) = SumOf(f, T)
  BY AmountSum DEF SafeSum, AmountsOf
<1> HIDE DEF T, f, g
<1>5. SumOf(f, T) = SumOf(g, Vouchers)
  BY <1>1, <1>2, <1>3, SumWhere
<1> QED BY <1>4, <1>5 DEF g

LEMMA ArrivedSumTerm ==
    ASSUME NEW x, NEW s
    PROVE  ArrivedSum(x, s) = SumOf(ArrivedTerm(x, s), Transfers)
<1> DEFINE T == {t \in Transfers : Card[t].to = s /\ x[t] = "received"}
           f == CardOf(T)
           g == ArrivedTerm(x, s)
<1>1. T \in SUBSET Transfers /\ IsFiniteSet(Transfers)
  BY TreasuryAssumption
<1>2. \A t \in Transfers : g[t] \in Int
  BY TermsInt
<1>3. (\A t \in T : f[t] = g[t]) /\ (\A t \in Transfers \ T : g[t] = 0)
  BY DEF CardOf, ArrivedTerm
<1>4. ArrivedSum(x, s) = SumOf(f, T)
  BY CardSum DEF ArrivedSum
<1> HIDE DEF T, f, g
<1>5. SumOf(f, T) = SumOf(g, Transfers)
  BY <1>1, <1>2, <1>3, SumWhere
<1> QED BY <1>4, <1>5 DEF g

LEMMA LeftSumTerm ==
    ASSUME NEW x, NEW s
    PROVE  LeftSum(x, s) = SumOf(LeftTerm(x, s), Transfers)
<1> DEFINE T == {t \in Transfers : Card[t].from = s /\ x[t] \in {"sent", "received"}}
           f == CardOf(T)
           g == LeftTerm(x, s)
<1>1. T \in SUBSET Transfers /\ IsFiniteSet(Transfers)
  BY TreasuryAssumption
<1>2. \A t \in Transfers : g[t] \in Int
  BY TermsInt
<1>3. (\A t \in T : f[t] = g[t]) /\ (\A t \in Transfers \ T : g[t] = 0)
  BY DEF CardOf, LeftTerm
<1>4. LeftSum(x, s) = SumOf(f, T)
  BY CardSum DEF LeftSum
<1> HIDE DEF T, f, g
<1>5. SumOf(f, T) = SumOf(g, Transfers)
  BY <1>1, <1>2, <1>3, SumWhere
<1> QED BY <1>4, <1>5 DEF g

\* A sum changes at the one document whose row has changed.
LEMMA VoucherChange ==
    ASSUME NEW w \in [Vouchers -> VoucherRow], NEW y \in [Vouchers -> VoucherRow],
           NEW d \in Vouchers, \A v \in Vouchers \ {d} : y[v] = w[v], NEW s
    PROVE  /\ SafeSum(w, s) \in Int
           /\ SafeSum(y, s) = SafeSum(w, s) + SafeTerm(y, s)[d] - SafeTerm(w, s)[d]
<1>0. IsFiniteSet(Vouchers)
  BY TreasuryAssumption
<1> DEFINE f == SafeTerm(w, s)
           g == SafeTerm(y, s)
<1>1. \A v \in Vouchers : f[v] \in Int /\ g[v] \in Int
  BY TermsInt
<1>2. \A v \in Vouchers \ {d} : f[v] = g[v]
  BY DEF SafeTerm
<1>3. SafeSum(w, s) = SumOf(f, Vouchers) /\ SafeSum(y, s) = SumOf(g, Vouchers)
  BY SafeSumTerm
<1> HIDE DEF f, g
<1>4. SumOf(g, Vouchers) = SumOf(f, Vouchers) + g[d] - f[d]
  BY <1>0, <1>1, <1>2, SumChange
<1>5. SumOf(f, Vouchers) \in Int
  BY <1>0, <1>1, SumInt
<1> QED BY <1>3, <1>4, <1>5 DEF f, g

LEMMA TransferChange ==
    ASSUME NEW x \in [Transfers -> {"draft", "sent", "received", "voided"}],
           NEW y \in [Transfers -> {"draft", "sent", "received", "voided"}],
           NEW d \in Transfers, \A t \in Transfers \ {d} : y[t] = x[t], NEW s
    PROVE  /\ ArrivedSum(x, s) \in Int /\ LeftSum(x, s) \in Int
           /\ ArrivedSum(y, s) = ArrivedSum(x, s) + ArrivedTerm(y, s)[d] - ArrivedTerm(x, s)[d]
           /\ LeftSum(y, s) = LeftSum(x, s) + LeftTerm(y, s)[d] - LeftTerm(x, s)[d]
<1>0. IsFiniteSet(Transfers)
  BY TreasuryAssumption
<1>1. \A t \in Transfers \ {d} : /\ ArrivedTerm(x, s)[t] = ArrivedTerm(y, s)[t]
                                 /\ LeftTerm(x, s)[t] = LeftTerm(y, s)[t]
  BY DEF ArrivedTerm, LeftTerm
<1>2. ArrivedSum(y, s) = ArrivedSum(x, s) + ArrivedTerm(y, s)[d] - ArrivedTerm(x, s)[d]
  <2> DEFINE f == ArrivedTerm(x, s)
             g == ArrivedTerm(y, s)
  <2>1. \A t \in Transfers : f[t] \in Int /\ g[t] \in Int
    BY TermsInt
  <2>2. \A t \in Transfers \ {d} : f[t] = g[t]
    BY <1>1
  <2>3. ArrivedSum(x, s) = SumOf(f, Transfers) /\ ArrivedSum(y, s) = SumOf(g, Transfers)
    BY ArrivedSumTerm
  <2> HIDE DEF f, g
  <2>4. SumOf(g, Transfers) = SumOf(f, Transfers) + g[d] - f[d]
    BY <1>0, <2>1, <2>2, SumChange
  <2> QED BY <2>3, <2>4 DEF f, g
<1>3. LeftSum(y, s) = LeftSum(x, s) + LeftTerm(y, s)[d] - LeftTerm(x, s)[d]
  <2> DEFINE f == LeftTerm(x, s)
             g == LeftTerm(y, s)
  <2>1. \A t \in Transfers : f[t] \in Int /\ g[t] \in Int
    BY TermsInt
  <2>2. \A t \in Transfers \ {d} : f[t] = g[t]
    BY <1>1
  <2>3. LeftSum(x, s) = SumOf(f, Transfers) /\ LeftSum(y, s) = SumOf(g, Transfers)
    BY LeftSumTerm
  <2> HIDE DEF f, g
  <2>4. SumOf(g, Transfers) = SumOf(f, Transfers) + g[d] - f[d]
    BY <1>0, <2>1, <2>2, SumChange
  <2> QED BY <2>3, <2>4 DEF f, g
<1>4. ArrivedSum(x, s) \in Int /\ LeftSum(x, s) \in Int
  BY <1>0, TermsInt, ArrivedSumTerm, LeftSumTerm, SumInt
<1> QED BY <1>2, <1>3, <1>4

-----------------------------------------------------------------------------
(* What the balances tell *)

BalanceOf(s) ==
    Clear(s) => balance[s] = SafeSum(voucher, s) + ArrivedSum(transfer, s) - LeftSum(transfer, s)

Tells == \A s \in Safes : BalanceOf(s)

LEMMA TellsRead ==
    /\ BalanceTellsDocuments <=> TypeOK /\ Tells
    /\ BalanceTellsDocuments' <=> TypeOK' /\ Tells'
<1>1. BalanceTellsDocuments <=> TypeOK /\ Tells
  BY SafeRead, TransfersRead DEF BalanceTellsDocuments, Tells, BalanceOf
<1>2. BalanceTellsDocuments' <=> TypeOK' /\ \A s \in Safes : BalanceOf(s)'
  BY SafeRead, TransfersRead DEF BalanceTellsDocuments, BalanceOf
<1> QED BY <1>1, <1>2 DEF Tells

\* A step that changes neither the rows that count nor the balances.
LEMMA TellsStay ==
    ASSUME Tells, stale \subseteq stale', voucher' = voucher, transfer' = transfer,
           balance' = balance
    PROVE  Tells'
<1>1. \A s \in Safes : Clear(s)' => Clear(s)
  BY DEF Clear, Of
<1> QED BY <1>1 DEF Tells, BalanceOf

\* A step on the row of voucher d.
LEMMA VoucherTells ==
    ASSUME Tells, voucher \in [Vouchers -> VoucherRow], voucher' \in [Vouchers -> VoucherRow],
           stale \subseteq stale', NEW d \in Vouchers,
           \A v \in Vouchers \ {d} : voucher'[v] = voucher[v], transfer' = transfer,
           \A s \in Safes : balance[s] \in Int,
           \A s \in Safes \ {Card[d].safe} : balance'[s] = balance[s],
           d \notin stale' =>
              balance'[Card[d].safe] = balance[Card[d].safe]
                    + SafeTerm(voucher', Card[d].safe)[d] - SafeTerm(voucher, Card[d].safe)[d]
    PROVE  Tells'
<1>1. PICK w \in [Vouchers -> VoucherRow], y \in [Vouchers -> VoucherRow] :
         w = voucher /\ y = voucher'
  OBVIOUS
<1>2. \A v \in Vouchers \ {d} : y[v] = w[v]
  BY <1>1
<1>3. ASSUME NEW s \in Safes PROVE BalanceOf(s)'
  <2>1. Clear(s)' => Clear(s)
    BY DEF Clear, Of
  <2>2. /\ SafeSum(w, s) \in Int
        /\ SafeSum(y, s) = SafeSum(w, s) + SafeTerm(y, s)[d] - SafeTerm(w, s)[d]
    BY <1>2, VoucherChange
  <2>3. SafeTerm(y, s)[d] \in Int /\ SafeTerm(w, s)[d] \in Int
    BY TermsInt
  <2>4. ArrivedSum(transfer, s) \in Int /\ LeftSum(transfer, s) \in Int
    BY TreasuryAssumption, TermsInt, ArrivedSumTerm, LeftSumTerm, SumInt
  <2>5. CASE s = Card[d].safe
    <3>1. Clear(s)' => d \notin stale'
      BY <2>5 DEF Clear, Of
    <3>2. Clear(s)' => balance'[s] = balance[s] + SafeTerm(y, s)[d] - SafeTerm(w, s)[d]
      BY <1>1, <2>5, <3>1
    <3> QED BY <1>1, <2>1, <2>2, <2>3, <2>4, <3>2 DEF Tells, BalanceOf
  <2>6. CASE s # Card[d].safe
    <3>1. SafeTerm(y, s)[d] = 0 /\ SafeTerm(w, s)[d] = 0
      BY <2>6 DEF SafeTerm
    <3>2. balance'[s] = balance[s]
      BY <2>6
    <3>3. SafeSum(y, s) = SafeSum(w, s)
      BY <2>2, <3>1
    <3> QED BY <1>1, <2>1, <3>2, <3>3 DEF Tells, BalanceOf
  <2> QED BY <2>5, <2>6
<1> QED BY <1>3 DEF Tells

\* The term of a voucher in the sum of its own safe; that of a draft is nothing.
LEMMA RowTerm ==
    ASSUME NEW w, NEW d \in Vouchers
    PROVE  SafeTerm(w, Card[d].safe)[d] = IF HasRow(w[d]) THEN Signed(d, w[d].amount) ELSE 0
BY DEF SafeTerm

LEMMA DraftRow ==
    ASSUME NEW w, w.status = "draft", w.cheque \in {"none", "pending"}
    PROVE  ~ HasRow(w)
BY DEF HasRow

LEMMA EditTells ==
    ASSUME Slots, Clocks, Tells, NEW r \in Requests, Edit(r)
    PROVE  Tells'
<1>0. Types /\ SlotOK(r)
  BY DEF Slots
<1> PICK d : d = op[r].doc
  OBVIOUS
<1>1. /\ d \in Vouchers /\ pc[r] = "read" /\ op[r].kind = "edit" /\ Commits(r)
      /\ voucher' \in [Vouchers -> VoucherRow]
      /\ \A v \in Vouchers \ {d} : voucher'[v] = voucher[v]
      /\ \A f \in {"status", "net", "cheque", "at"} : voucher'[d][f] = voucher[d][f]
      /\ UNCHANGED <<transfer, shift, balance, ledger, keys, under, clock>>
  BY <1>0, EditDoes
<1>2. voucher'[d].status = voucher[d].status /\ voucher'[d].cheque = voucher[d].cheque
  BY <1>1
<1>3. stale \subseteq stale'
  BY <1>0, <1>1, Committed
<1>4. ASSUME d \notin stale'
      PROVE  /\ SafeTerm(voucher', Card[d].safe)[d] = 0
             /\ SafeTerm(voucher, Card[d].safe)[d] = 0
  <2>1. voucher[d].status = "draft"
    BY <1>1, <1>4, StaleOrCurrent DEF Accepts, Targets
  <2>2. voucher[d].cheque \in {"none", "pending"}
    BY <1>1, <2>1 DEF Clocks, VoucherOK
  <2>3. ~ HasRow(voucher[d])
    BY <2>1, <2>2, DraftRow
  <2>4. ~ HasRow(voucher'[d])
    BY <1>2, <2>1, <2>2, DraftRow
  <2> QED BY <1>1, <2>3, <2>4, RowTerm
<1>5. voucher \in [Vouchers -> VoucherRow] /\ \A s \in Safes : balance[s] \in Int
  BY <1>0, TypesFields
<1>6. Card[d].safe \in Safes
  BY <1>1, CardSafes
<1>7. d \notin stale' =>
         balance'[Card[d].safe] = balance[Card[d].safe]
               + SafeTerm(voucher', Card[d].safe)[d] - SafeTerm(voucher, Card[d].safe)[d]
  BY <1>1, <1>4, <1>5, <1>6
<1>8. \A s \in Safes \ {Card[d].safe} : balance'[s] = balance[s]
  BY <1>1
<1> QED BY <1>1, <1>3, <1>5, <1>7, <1>8, VoucherTells

LEMMA PostTells ==
    ASSUME Slots, Clocks, Tells, NEW r \in Requests, NEW c \in Charts, PostVoucher(r, c)
    PROVE  Tells'
<1>0. Types /\ SlotOK(r)
  BY DEF Slots
<1> PICK d : d = op[r].doc
  OBVIOUS
<1>1. /\ d \in Vouchers /\ pc[r] = "entered" /\ op[r].kind = "post" /\ Commits(r)
      /\ seen[r] \in VoucherRow
      /\ voucher' \in [Vouchers -> VoucherRow]
      /\ \A v \in Vouchers \ {d} : voucher'[v] = voucher[v]
      /\ \A f \in {"method", "amount", "net", "cheque"} : voucher'[d][f] = voucher[d][f]
      /\ voucher'[d].status = "posted"
      /\ balance' = [balance EXCEPT ![Card[d].safe] = @ + PostMoves(r)]
      /\ UNCHANGED <<transfer, shift, keys, clock>>
  BY <1>0, PostDoes
<1>2. /\ voucher'[d].method = voucher[d].method /\ voucher'[d].amount = voucher[d].amount
      /\ voucher'[d].cheque = voucher[d].cheque
  BY <1>1
<1>3. stale \subseteq stale'
  BY <1>0, <1>1, Committed
<1>4. /\ voucher \in [Vouchers -> VoucherRow] /\ balance \in [Safes -> Int]
      /\ \A s \in Safes : balance[s] \in Int
  BY <1>0, TypesFields
<1>5. Card[d].safe \in Safes
  BY <1>1, CardSafes
<1>6. PICK m \in Int : m = Signed(d, seen[r].amount)
  BY <1>1, MovesInt
<1>9. /\ \A s \in Safes \ {Card[d].safe} : balance'[s] = balance[s]
      /\ balance'[Card[d].safe] = balance[Card[d].safe] + PostMoves(r)
  BY <1>1, <1>4, <1>5
<1>10. ASSUME d \notin stale'
       PROVE  balance'[Card[d].safe] = balance[Card[d].safe]
                    + SafeTerm(voucher', Card[d].safe)[d] - SafeTerm(voucher, Card[d].safe)[d]
  <2>1. voucher[d].status = "draft" /\ seen[r] = voucher[d]
    BY <1>1, <1>10, StaleOrCurrent DEF Accepts, Targets
  <2>2. voucher[d].cheque \in {"none", "pending"}
    BY <1>1, <2>1 DEF Clocks, VoucherOK
  <2>3. SafeTerm(voucher, Card[d].safe)[d] = 0
    <3>1. ~ HasRow(voucher[d])
      BY <2>1, <2>2, DraftRow
    <3> QED BY <1>1, <3>1, RowTerm
  <2>5. SafeTerm(voucher', Card[d].safe)[d] = IF HasRow(voucher'[d]) THEN m ELSE 0
    <3>1. Signed(d, voucher'[d].amount) = m
      BY <1>2, <1>6, <2>1
    <3> QED BY <1>1, <3>1, RowTerm
  <2>6. CASE voucher[d].method = "cheque"
    <3>1. ~ HasRow(voucher'[d])
      BY <1>1, <1>2, <2>2, <2>6 DEF HasRow
    <3>2. PostMoves(r) = 0
      BY <2>1, <2>6 DEF PostMoves
    <3> QED BY <1>4, <1>5, <1>9, <2>3, <2>5, <3>1, <3>2
  <2>7. CASE voucher[d].method # "cheque"
    <3>1. HasRow(voucher'[d])
      BY <1>1, <1>2, <2>7 DEF HasRow
    <3>2. PostMoves(r) = m
      BY <1>6, <2>1, <2>7 DEF PostMoves
    <3> QED BY <1>4, <1>5, <1>9, <2>3, <2>5, <3>1, <3>2
  <2> QED BY <2>6, <2>7
<1> QED BY <1>1, <1>3, <1>4, <1>9, <1>10, VoucherTells

LEMMA VoidTells ==
    ASSUME Slots, Clocks, Tells, NEW r \in Requests, VoidVoucher(r)
    PROVE  Tells'
<1>0. Types /\ SlotOK(r)
  BY DEF Slots
<1> PICK d : d = op[r].doc
  OBVIOUS
<1>1. /\ d \in Vouchers /\ pc[r] = "read" /\ op[r].kind = "void" /\ Commits(r)
      /\ seen[r] \in VoucherRow
      /\ voucher' \in [Vouchers -> VoucherRow]
      /\ \A v \in Vouchers \ {d} : voucher'[v] = voucher[v]
      /\ \A f \in {"method", "amount", "net", "cheque", "at"} : voucher'[d][f] = voucher[d][f]
      /\ voucher'[d].status = "voided"
      /\ balance' = [balance EXCEPT ![Card[d].safe] = @ + VoidMoves(r)]
      /\ UNCHANGED <<transfer, shift, ledger, keys, under, clock>>
  BY <1>0, VoidDoes
<1>2. /\ voucher'[d].method = voucher[d].method /\ voucher'[d].amount = voucher[d].amount
      /\ voucher'[d].cheque = voucher[d].cheque
  BY <1>1
<1>3. stale \subseteq stale'
  BY <1>0, <1>1, Committed
<1>4. /\ voucher \in [Vouchers -> VoucherRow] /\ balance \in [Safes -> Int]
      /\ \A s \in Safes : balance[s] \in Int
  BY <1>0, TypesFields
<1>5. Card[d].safe \in Safes
  BY <1>1, CardSafes
<1>6. PICK m \in Int : m = Signed(d, seen[r].amount)
  BY <1>1, MovesInt
<1>9. /\ \A s \in Safes \ {Card[d].safe} : balance'[s] = balance[s]
      /\ balance'[Card[d].safe] = balance[Card[d].safe] + VoidMoves(r)
  BY <1>1, <1>4, <1>5
<1>10. ASSUME d \notin stale'
       PROVE  balance'[Card[d].safe] = balance[Card[d].safe]
                    + SafeTerm(voucher', Card[d].safe)[d] - SafeTerm(voucher, Card[d].safe)[d]
  <2>1. voucher[d].status = "posted" /\ seen[r] = voucher[d]
    BY <1>1, <1>10, StaleOrCurrent DEF Accepts, Targets
  <2>2. Signed(d, voucher'[d].amount) = m /\ Signed(d, voucher[d].amount) = m
    BY <1>2, <1>6, <2>1
  <2>3. /\ SafeTerm(voucher', Card[d].safe)[d] = IF HasRow(voucher'[d]) THEN m ELSE 0
        /\ SafeTerm(voucher, Card[d].safe)[d] = IF HasRow(voucher[d]) THEN m ELSE 0
    BY <1>1, <2>2, RowTerm
  <2>6. CASE voucher[d].method = "cheque"
    <3>1. HasRow(voucher'[d]) <=> HasRow(voucher[d])
      BY <1>2, <2>6 DEF HasRow
    <3>2. VoidMoves(r) = 0
      BY <2>1, <2>6 DEF VoidMoves
    <3>3. SafeTerm(voucher', Card[d].safe)[d] = SafeTerm(voucher, Card[d].safe)[d]
      BY <2>3, <3>1
    <3>4. SafeTerm(voucher, Card[d].safe)[d] \in Int
      BY <2>3
    <3> QED BY <1>4, <1>5, <1>9, <3>2, <3>3, <3>4
  <2>7. CASE voucher[d].method # "cheque"
    <3>1. HasRow(voucher[d]) /\ ~ HasRow(voucher'[d])
      BY <1>1, <1>2, <2>1, <2>7 DEF HasRow
    <3>2. VoidMoves(r) = 0 - m
      BY <1>6, <2>1, <2>7 DEF VoidMoves
    <3> QED BY <1>4, <1>5, <1>9, <2>3, <3>1, <3>2
  <2> QED BY <2>6, <2>7
<1> QED BY <1>1, <1>3, <1>4, <1>9, <1>10, VoucherTells

LEMMA SettleTells ==
    ASSUME Slots, Clocks, Tells, NEW r \in Requests, NEW c \in Charts, SettleCheque(r, c)
    PROVE  Tells'
<1>0. Types /\ SlotOK(r)
  BY DEF Slots
<1> PICK d : d = op[r].doc
  OBVIOUS
<1>1. /\ d \in Vouchers /\ pc[r] = "entered" /\ op[r].kind \in Targets /\ Commits(r)
      /\ seen[r] \in VoucherRow
      /\ voucher' \in [Vouchers -> VoucherRow]
      /\ \A v \in Vouchers \ {d} : voucher'[v] = voucher[v]
      /\ \A f \in {"status", "method", "amount", "net", "at"} : voucher'[d][f] = voucher[d][f]
      /\ voucher'[d].cheque = IF voucher[d].cheque = "pending" THEN op[r].kind
                              ELSE voucher[d].cheque
      /\ balance' = [balance EXCEPT ![Card[d].safe] = @ + SettleMoves(r)]
      /\ UNCHANGED <<transfer, shift, clock>>
  BY <1>0, SettleDoes
<1>2. voucher'[d].method = voucher[d].method /\ voucher'[d].amount = voucher[d].amount
  BY <1>1
<1>3. stale \subseteq stale'
  BY <1>0, <1>1, Committed
<1>4. /\ voucher \in [Vouchers -> VoucherRow] /\ balance \in [Safes -> Int]
      /\ \A s \in Safes : balance[s] \in Int
  BY <1>0, TypesFields
<1>5. Card[d].safe \in Safes
  BY <1>1, CardSafes
<1>6. PICK m \in Int : m = Signed(d, seen[r].amount)
  BY <1>1, MovesInt
<1>9. /\ \A s \in Safes \ {Card[d].safe} : balance'[s] = balance[s]
      /\ balance'[Card[d].safe] = balance[Card[d].safe] + SettleMoves(r)
  BY <1>1, <1>4, <1>5
<1>10. ASSUME d \notin stale'
       PROVE  balance'[Card[d].safe] = balance[Card[d].safe]
                    + SafeTerm(voucher', Card[d].safe)[d] - SafeTerm(voucher, Card[d].safe)[d]
  <2>1. voucher[d].method = "cheque" /\ voucher[d].cheque = "pending" /\ seen[r] = voucher[d]
    BY <1>1, <1>10, StaleOrCurrent DEF Accepts, Targets
  <2>2. Signed(d, voucher'[d].amount) = m
    BY <1>2, <1>6, <2>1
  <2>3. ~ HasRow(voucher[d])
    BY <2>1 DEF HasRow
  <2>4. HasRow(voucher'[d]) <=> op[r].kind # "bounced"
    BY <1>1, <1>2, <2>1 DEF HasRow, Targets
  <2>5. /\ SafeTerm(voucher', Card[d].safe)[d] = IF HasRow(voucher'[d]) THEN m ELSE 0
        /\ SafeTerm(voucher, Card[d].safe)[d] = 0
    BY <1>1, <2>2, <2>3, RowTerm
  <2>6. SettleMoves(r) = IF op[r].kind = "bounced" THEN 0 ELSE m
    BY <1>6 DEF SettleMoves
  <2> QED BY <1>4, <1>5, <1>9, <2>4, <2>5, <2>6
<1> QED BY <1>1, <1>3, <1>4, <1>9, <1>10, VoucherTells

\* A step on the status of transfer d.
LEMMA TransferTells ==
    ASSUME Tells, stale \subseteq stale', NEW d \in Transfers,
           \A t \in Transfers \ {d} : transfer'[t] = transfer[t],
           transfer \in [Transfers -> {"draft", "sent", "received", "voided"}],
           transfer' \in [Transfers -> {"draft", "sent", "received", "voided"}],
           voucher \in [Vouchers -> VoucherRow], voucher' = voucher,
           \A s \in Safes : balance[s] \in Int,
           \A s \in Safes \ {Card[d].from, Card[d].to} : balance'[s] = balance[s],
           \A s \in {Card[d].from, Card[d].to} : d \notin stale' =>
              balance'[s] = balance[s] + (ArrivedTerm(transfer', s)[d] - ArrivedTerm(transfer, s)[d])
                                       - (LeftTerm(transfer', s)[d] - LeftTerm(transfer, s)[d])
    PROVE  Tells'
<1>1. PICK x \in [Transfers -> {"draft", "sent", "received", "voided"}],
           y \in [Transfers -> {"draft", "sent", "received", "voided"}] :
         x = transfer /\ y = transfer'
  OBVIOUS
<1>2. \A t \in Transfers \ {d} : y[t] = x[t]
  BY <1>1
<1>3. ASSUME NEW s \in Safes PROVE BalanceOf(s)'
  <2>1. Clear(s)' => Clear(s)
    BY DEF Clear, Of
  <2>2. /\ ArrivedSum(x, s) \in Int /\ LeftSum(x, s) \in Int
        /\ ArrivedSum(y, s) = ArrivedSum(x, s) + ArrivedTerm(y, s)[d] - ArrivedTerm(x, s)[d]
        /\ LeftSum(y, s) = LeftSum(x, s) + LeftTerm(y, s)[d] - LeftTerm(x, s)[d]
    BY <1>2, TransferChange
  <2>3. /\ ArrivedTerm(y, s)[d] \in Int /\ ArrivedTerm(x, s)[d] \in Int
        /\ LeftTerm(y, s)[d] \in Int /\ LeftTerm(x, s)[d] \in Int
    BY TermsInt
  <2>4. SafeSum(voucher, s) \in Int
    BY TreasuryAssumption, TermsInt, SafeSumTerm, SumInt
  <2>5. CASE s \in {Card[d].from, Card[d].to}
    <3>1. Clear(s)' => d \notin stale'
      BY <2>5 DEF Clear
    <3>2. Clear(s)' =>
            balance'[s] = balance[s] + (ArrivedTerm(y, s)[d] - ArrivedTerm(x, s)[d])
                                     - (LeftTerm(y, s)[d] - LeftTerm(x, s)[d])
      BY <1>1, <2>5, <3>1
    <3> QED BY <1>1, <2>1, <2>2, <2>3, <2>4, <3>2 DEF Tells, BalanceOf
  <2>6. CASE s \notin {Card[d].from, Card[d].to}
    <3>1. /\ ArrivedTerm(y, s)[d] = 0 /\ ArrivedTerm(x, s)[d] = 0
          /\ LeftTerm(y, s)[d] = 0 /\ LeftTerm(x, s)[d] = 0
      BY <2>6 DEF ArrivedTerm, LeftTerm
    <3>2. balance'[s] = balance[s]
      BY <2>6
    <3>3. ArrivedSum(y, s) = ArrivedSum(x, s) /\ LeftSum(y, s) = LeftSum(x, s)
      BY <2>2, <3>1
    <3> QED BY <1>1, <2>1, <3>2, <3>3 DEF Tells, BalanceOf
  <2> QED BY <2>5, <2>6
<1> QED BY <1>3 DEF Tells

\* The terms of a transfer in the sums of a safe.
LEMMA TransferTerms ==
    ASSUME NEW x, NEW d \in Transfers, NEW s
    PROVE  /\ ArrivedTerm(x, s)[d] = IF Card[d].to = s /\ x[d] = "received"
                                     THEN Card[d].amount ELSE 0
           /\ LeftTerm(x, s)[d] = IF Card[d].from = s /\ x[d] \in {"sent", "received"}
                                  THEN Card[d].amount ELSE 0
BY DEF ArrivedTerm, LeftTerm

LEMMA SendTells ==
    ASSUME Slots, Tells, NEW r \in Requests, NEW c \in Charts, SendTransfer(r, c)
    PROVE  Tells'
<1>0. Types /\ SlotOK(r)
  BY DEF Slots
<1> PICK d : d = op[r].doc
  OBVIOUS
<1>1. /\ d \in Transfers /\ pc[r] = "entered" /\ op[r].kind = "send" /\ Commits(r)
      /\ transfer' \in [Transfers -> {"draft", "sent", "received", "voided"}]
      /\ \A t \in Transfers \ {d} : transfer'[t] = transfer[t]
      /\ transfer'[d] = "sent"
      /\ balance' = [balance EXCEPT ![Card[d].from] = @ - Card[d].amount]
      /\ UNCHANGED <<voucher, shift, clock>>
  BY <1>0, SendDoes
<1>2. stale \subseteq stale'
  BY <1>0, <1>1, Committed
<1>3. /\ transfer \in [Transfers -> {"draft", "sent", "received", "voided"}]
      /\ voucher \in [Vouchers -> VoucherRow] /\ balance \in [Safes -> Int]
      /\ \A s \in Safes : balance[s] \in Int
  BY <1>0, TypesFields
<1>4. PICK a \in Safes, b \in Safes, n \in Int :
         a = Card[d].from /\ b = Card[d].to /\ b # a /\ n = Card[d].amount
  BY <1>1, CardSafes
<1>7. \A s \in Safes : balance'[s] = balance[s] - (IF s = a THEN n ELSE 0)
  BY <1>1, <1>3, <1>4
<1>8. ASSUME NEW s \in {a, b}, d \notin stale'
      PROVE  balance'[s] = balance[s] + (ArrivedTerm(transfer', s)[d] - ArrivedTerm(transfer, s)[d])
                                      - (LeftTerm(transfer', s)[d] - LeftTerm(transfer, s)[d])
  <2>1. transfer[d] = "draft"
    BY <1>1, <1>8, StaleOrCurrent DEF Accepts, Targets
  <2>2. ArrivedTerm(transfer, s)[d] = 0 /\ LeftTerm(transfer, s)[d] = 0
    BY <1>1, <2>1, TransferTerms
  <2>3. /\ ArrivedTerm(transfer', s)[d] = 0
        /\ LeftTerm(transfer', s)[d] = IF s = a THEN n ELSE 0
    BY <1>1, <1>4, TransferTerms
  <2> QED BY <1>3, <1>7, <2>2, <2>3
<1>9. \A s \in {Card[d].from, Card[d].to} : d \notin stale' =>
         balance'[s] = balance[s] + (ArrivedTerm(transfer', s)[d] - ArrivedTerm(transfer, s)[d])
                                  - (LeftTerm(transfer', s)[d] - LeftTerm(transfer, s)[d])
  BY <1>4, <1>8
<1>10. \A s \in Safes \ {Card[d].from, Card[d].to} : balance'[s] = balance[s]
  BY <1>3, <1>4, <1>7
<1> QED BY <1>1, <1>2, <1>3, <1>9, <1>10, TransferTells

LEMMA ReceiveTells ==
    ASSUME Slots, Tells, NEW r \in Requests, NEW c \in Charts, ReceiveTransfer(r, c)
    PROVE  Tells'
<1>0. Types /\ SlotOK(r)
  BY DEF Slots
<1> PICK d : d = op[r].doc
  OBVIOUS
<1>1. /\ d \in Transfers /\ pc[r] = "entered" /\ op[r].kind = "receive" /\ Commits(r)
      /\ transfer' \in [Transfers -> {"draft", "sent", "received", "voided"}]
      /\ \A t \in Transfers \ {d} : transfer'[t] = transfer[t]
      /\ transfer'[d] = "received"
      /\ balance' = [balance EXCEPT ![Card[d].to] = @ + Card[d].amount]
      /\ UNCHANGED <<voucher, shift, clock>>
  BY <1>0, ReceiveDoes
<1>2. stale \subseteq stale'
  BY <1>0, <1>1, Committed
<1>3. /\ transfer \in [Transfers -> {"draft", "sent", "received", "voided"}]
      /\ voucher \in [Vouchers -> VoucherRow] /\ balance \in [Safes -> Int]
      /\ \A s \in Safes : balance[s] \in Int
  BY <1>0, TypesFields
<1>4. PICK a \in Safes, b \in Safes, n \in Int :
         a = Card[d].from /\ b = Card[d].to /\ b # a /\ n = Card[d].amount
  BY <1>1, CardSafes
<1>7. \A s \in Safes : balance'[s] = balance[s] + (IF s = b THEN n ELSE 0)
  BY <1>1, <1>3, <1>4
<1>8. ASSUME NEW s \in {a, b}, d \notin stale'
      PROVE  balance'[s] = balance[s] + (ArrivedTerm(transfer', s)[d] - ArrivedTerm(transfer, s)[d])
                                      - (LeftTerm(transfer', s)[d] - LeftTerm(transfer, s)[d])
  <2>1. transfer[d] = "sent"
    BY <1>1, <1>8, StaleOrCurrent DEF Accepts, Targets
  <2>2. ArrivedTerm(transfer, s)[d] = 0 /\ LeftTerm(transfer, s)[d] = IF s = a THEN n ELSE 0
    BY <1>1, <1>4, <2>1, TransferTerms
  <2>3. /\ ArrivedTerm(transfer', s)[d] = (IF s = b THEN n ELSE 0)
        /\ LeftTerm(transfer', s)[d] = (IF s = a THEN n ELSE 0)
    BY <1>1, <1>4, TransferTerms
  <2> QED BY <1>3, <1>7, <2>2, <2>3
<1>9. \A s \in {Card[d].from, Card[d].to} : d \notin stale' =>
         balance'[s] = balance[s] + (ArrivedTerm(transfer', s)[d] - ArrivedTerm(transfer, s)[d])
                                  - (LeftTerm(transfer', s)[d] - LeftTerm(transfer, s)[d])
  BY <1>4, <1>8
<1>10. \A s \in Safes \ {Card[d].from, Card[d].to} : balance'[s] = balance[s]
  BY <1>3, <1>4, <1>7
<1> QED BY <1>1, <1>2, <1>3, <1>9, <1>10, TransferTells

LEMMA CancelTells ==
    ASSUME Slots, Tells, NEW r \in Requests, CancelTransfer(r)
    PROVE  Tells'
<1>0. Types /\ SlotOK(r)
  BY DEF Slots
<1> PICK d : d = op[r].doc
  OBVIOUS
<1>1. /\ d \in Transfers /\ pc[r] = "read" /\ op[r].kind = "cancel" /\ Commits(r)
      /\ transfer' \in [Transfers -> {"draft", "sent", "received", "voided"}]
      /\ \A t \in Transfers \ {d} : transfer'[t] = transfer[t]
      /\ transfer'[d] = "voided"
      /\ UNCHANGED <<voucher, shift, balance, ledger, keys, under, clock>>
  BY <1>0, CancelDoes
<1>2. stale \subseteq stale'
  BY <1>0, <1>1, Committed
<1>3. /\ transfer \in [Transfers -> {"draft", "sent", "received", "voided"}]
      /\ voucher \in [Vouchers -> VoucherRow]
      /\ \A s \in Safes : balance[s] \in Int
  BY <1>0, TypesFields
<1>4. Card[d].from \in Safes /\ Card[d].to \in Safes
  BY <1>1, CardSafes
<1>5. ASSUME NEW s \in {Card[d].from, Card[d].to}, d \notin stale'
      PROVE  balance'[s] = balance[s] + (ArrivedTerm(transfer', s)[d] - ArrivedTerm(transfer, s)[d])
                                      - (LeftTerm(transfer', s)[d] - LeftTerm(transfer, s)[d])
  <2>1. transfer[d] = "draft"
    BY <1>1, <1>5, StaleOrCurrent DEF Accepts, Targets
  <2>2. ArrivedTerm(transfer, s)[d] = 0 /\ LeftTerm(transfer, s)[d] = 0
    BY <1>1, <2>1, TransferTerms
  <2>3. ArrivedTerm(transfer', s)[d] = 0 /\ LeftTerm(transfer', s)[d] = 0
    BY <1>1, TransferTerms
  <2> QED BY <1>1, <1>3, <1>4, <2>2, <2>3
<1> QED BY <1>1, <1>2, <1>3, <1>5, TransferTells

\* The steps that are not about the money of a safe.
LEMMA OthersTell ==
    ASSUME Slots, Tells, NEW r \in Requests,
           \/ (\E o \in Ops : Begin(r, o)) \/ PostEntry(r) \/ Fail(r) \/ CloseShift(r)
           \/ \E c \in Charts : EnterShift(r, c)
    PROVE  Tells'
<1>0. Types /\ SlotOK(r)
  BY DEF Slots
<1>1. UNCHANGED <<voucher, transfer, balance>> /\ stale \subseteq stale'
  <2>1. ASSUME NEW o \in Ops, Begin(r, o)
        PROVE  UNCHANGED <<voucher, transfer, balance>> /\ stale \subseteq stale'
    BY <1>0, <2>1, BeginDoes
  <2>2. CASE PostEntry(r)
    BY <1>0, <2>2, EntryDoes
  <2>3. CASE Fail(r)
    BY <1>0, <2>3, FailDoes
  <2>4. CASE CloseShift(r)
    BY <1>0, <2>4, CloseDoes, Committed
  <2>5. ASSUME NEW c \in Charts, EnterShift(r, c)
        PROVE  UNCHANGED <<voucher, transfer, balance>> /\ stale \subseteq stale'
    BY <1>0, <2>5, EnterDoes, Committed
  <2> QED BY <2>1, <2>2, <2>3, <2>4, <2>5
<1> QED BY <1>1, TellsStay

LEMMA OpenTells ==
    ASSUME Slots, Tells, NEW k \in Shifts, NEW u \in Users, OpenShift(k, u)
    PROVE  Tells'
<1>1. UNCHANGED <<voucher, transfer, balance, stale>>
  BY OpenDoes DEF Slots
<1> QED BY <1>1, TellsStay

-----------------------------------------------------------------------------
(* What the ledger tells *)

LEMMA SameLines ==
    ASSUME NEW f \in [Accounts -> Int], NEW g \in [Accounts -> Int],
           \A a \in Accounts : f[a] = g[a]
    PROVE  f = g
OBVIOUS

\* An entry takes the money of a document on from where its entries have left it.
LEMMA MovesOn ==
    ASSUME NEW d \in Docs, NEW n \in Int, NEW a, NEW b, NEW e, Wrote(d), ledger[d] = Moves(a, b, n),
           \A x \in Accounts : ledger'[d][x] = ledger[d][x] + Moves(e, a, n)[x]
    PROVE  ledger'[d] = Moves(e, b, n)
<1>1. ledger'[d] \in [Accounts -> Int] /\ Moves(e, b, n) \in [Accounts -> Int]
  BY MovesType DEF Wrote
<1>2. ASSUME NEW x \in Accounts PROVE ledger'[d][x] = Moves(e, b, n)[x]
  <2>1. Moves(a, b, n)[x] = (IF x = a THEN n ELSE 0) - (IF x = b THEN n ELSE 0)
    BY DEF Moves
  <2>2. Moves(e, a, n)[x] = (IF x = e THEN n ELSE 0) - (IF x = a THEN n ELSE 0)
    BY MovesType
  <2>3. Moves(e, b, n)[x] = (IF x = e THEN n ELSE 0) - (IF x = b THEN n ELSE 0)
    BY MovesType
  <2> QED BY <2>1, <2>2, <2>3
<1> QED BY <1>1, <1>2, SameLines

VoucherTold(v) ==
    v \notin stale => \A c \in Charts : under[v] \subseteq {c} => ledger[v] = VoucherSays(v, c)
ShiftTold(k) ==
    k \notin stale => \A c \in Charts : under[k] \subseteq {c} => ledger[k] = ShiftSays(k, c)

LEMMA LedgerRead ==
    /\ LedgerTellsDocuments <=> /\ \A v \in Vouchers : VoucherTold(v)
                                /\ \A k \in Shifts : ShiftTold(k)
    /\ LedgerTellsDocuments' <=> /\ \A v \in Vouchers : VoucherTold(v)'
                                 /\ \A k \in Shifts : ShiftTold(k)'
BY DEF LedgerTellsDocuments, VoucherTold, ShiftTold

\* A document nobody has booked and whose row is as it was.
LEMMA VoucherStays ==
    ASSUME stale \subseteq stale', NEW v \in Vouchers, VoucherTold(v), voucher'[v] = voucher[v],
           ledger'[v] = ledger[v], under'[v] = under[v]
    PROVE  VoucherTold(v)'
<1>1. \A c : VoucherSays(v, c)' = VoucherSays(v, c)
  BY DEF VoucherSays, Kept, Waiting, Returned
<1> QED BY <1>1 DEF VoucherTold

LEMMA ShiftStays ==
    ASSUME stale \subseteq stale', NEW k \in Shifts, ShiftTold(k), shift'[k] = shift[k],
           ledger'[k] = ledger[k], under'[k] = under[k]
    PROVE  ShiftTold(k)'
<1>1. \A c : ShiftSays(k, c)' = ShiftSays(k, c)
  BY DEF ShiftSays
<1> QED BY <1>1 DEF ShiftTold

\* A shift that is not entered before a step on it and not after it tells nothing.
LEMMA UnenteredStays ==
    ASSUME stale \subseteq stale', NEW k \in Shifts, ShiftTold(k),
           ~ shift[k].entered, ~ shift'[k].entered, ledger'[k] = ledger[k], under'[k] = under[k]
    PROVE  ShiftTold(k)'
<1>1. \A c : ShiftSays(k, c)' = ShiftSays(k, c)
  BY DEF ShiftSays
<1> QED BY <1>1 DEF ShiftTold

\* A step on voucher d, on shift d, and on neither.
LEMMA VoucherBooks ==
    ASSUME LedgerTellsDocuments, stale \subseteq stale', NEW d \in Vouchers,
           \A v \in Vouchers \ {d} : voucher'[v] = voucher[v], shift' = shift,
           \A e \in Docs \ {d} : ledger'[e] = ledger[e] /\ under'[e] = under[e],
           VoucherTold(d)'
    PROVE  LedgerTellsDocuments'
<1>1. d \notin Shifts
  BY TreasuryAssumption
<1>2. \A v \in Vouchers : VoucherTold(v)'
  BY LedgerRead, VoucherStays, DocsAll
<1>3. ASSUME NEW k \in Shifts PROVE ShiftTold(k)'
  <2>1. ledger'[k] = ledger[k] /\ under'[k] = under[k] /\ shift'[k] = shift[k] /\ ShiftTold(k)
    BY <1>1, LedgerRead, DocsAll
  <2> QED BY <2>1, ShiftStays
<1> QED BY <1>2, <1>3, LedgerRead

LEMMA ShiftBooks ==
    ASSUME LedgerTellsDocuments, stale \subseteq stale', NEW d \in Shifts,
           \A k \in Shifts \ {d} : shift'[k] = shift[k], voucher' = voucher,
           \A e \in Docs \ {d} : ledger'[e] = ledger[e] /\ under'[e] = under[e],
           ShiftTold(d)'
    PROVE  LedgerTellsDocuments'
<1>1. d \notin Vouchers
  BY TreasuryAssumption
<1>2. \A v \in Vouchers : VoucherTold(v)'
  BY <1>1, LedgerRead, VoucherStays, DocsAll
<1>3. ASSUME NEW k \in Shifts \ {d} PROVE ShiftTold(k)'
  <2>1. ledger'[k] = ledger[k] /\ under'[k] = under[k] /\ shift'[k] = shift[k] /\ ShiftTold(k)
    BY LedgerRead, DocsAll
  <2> QED BY <2>1, ShiftStays
<1> QED BY <1>2, <1>3, LedgerRead

LEMMA OtherBooks ==
    ASSUME LedgerTellsDocuments, stale \subseteq stale', voucher' = voucher, shift' = shift,
           \A e \in Vouchers \cup Shifts : ledger'[e] = ledger[e] /\ under'[e] = under[e]
    PROVE  LedgerTellsDocuments'
<1>2. \A v \in Vouchers : VoucherTold(v)'
  BY LedgerRead, VoucherStays
<1>3. ASSUME NEW k \in Shifts PROVE ShiftTold(k)'
  <2>1. ledger'[k] = ledger[k] /\ under'[k] = under[k] /\ shift'[k] = shift[k] /\ ShiftTold(k)
    BY LedgerRead
  <2> QED BY <2>1, ShiftStays
<1> QED BY <1>2, <1>3, LedgerRead

LEMMA EditBooks ==
    ASSUME Slots, LedgerTellsDocuments, NEW r \in Requests, Edit(r)
    PROVE  LedgerTellsDocuments'
<1>0. Types /\ SlotOK(r)
  BY DEF Slots
<1> PICK d : d = op[r].doc
  OBVIOUS
<1>1. /\ d \in Vouchers /\ pc[r] = "read" /\ op[r].kind = "edit" /\ Commits(r)
      /\ \A v \in Vouchers \ {d} : voucher'[v] = voucher[v]
      /\ \A f \in {"status", "net", "cheque", "at"} : voucher'[d][f] = voucher[d][f]
      /\ UNCHANGED <<transfer, shift, balance, ledger, keys, under, clock>>
  BY <1>0, EditDoes
<1>2. stale \subseteq stale'
  BY <1>0, <1>1, Committed
<1>3. voucher'[d].status = voucher[d].status /\ voucher'[d].net = voucher[d].net
  BY <1>1
<1>4. ASSUME d \notin stale' PROVE \A c : VoucherSays(d, c)' = VoucherSays(d, c)
  <2>1. voucher[d].status = "draft"
    BY <1>1, <1>4, StaleOrCurrent DEF Accepts, Targets
  <2>2. ASSUME NEW c PROVE Kept(d, c) = c.counter[d] /\ Kept(d, c)' = c.counter[d]
    BY <1>3, <2>1 DEF Kept, Waiting
  <2> QED BY <1>3, <2>2 DEF VoucherSays
<1>5. VoucherTold(d)'
  BY <1>1, <1>2, <1>4, LedgerRead DEF VoucherTold
<1> QED BY <1>1, <1>2, <1>5, VoucherBooks

LEMMA PostBooks ==
    ASSUME Slots, Clocks, LedgerTellsDocuments, NEW r \in Requests, NEW c \in Charts,
           PostVoucher(r, c)
    PROVE  LedgerTellsDocuments'
<1>0. Types /\ SlotOK(r)
  BY DEF Slots
<1> PICK d : d = op[r].doc
  OBVIOUS
<1>1. /\ d \in Vouchers /\ pc[r] = "entered" /\ op[r].kind = "post" /\ Commits(r)
      /\ seen[r] \in VoucherRow
      /\ \A v \in Vouchers \ {d} : voucher'[v] = voucher[v]
      /\ \A f \in {"method", "amount", "net", "cheque"} : voucher'[d][f] = voucher[d][f]
      /\ voucher'[d].status = "posted"
      /\ under'[d] = under[d] \cup {PostChart(r, c)}
      /\ \A a \in Accounts : ledger'[d][a] = ledger[d][a] + PostLines(r, c)[a]
      /\ Wrote(d) /\ UNCHANGED <<transfer, shift, keys, clock>>
  BY <1>0, PostDoes
<1>2. stale \subseteq stale'
  BY <1>0, <1>1, Committed
<1>3. /\ voucher'[d].method = voucher[d].method /\ voucher'[d].net = voucher[d].net
      /\ voucher'[d].cheque = voucher[d].cheque
  BY <1>1
<1>4. ASSUME d \notin stale', NEW e \in Charts, under'[d] \subseteq {e}
      PROVE  ledger'[d] = Moves(Kept(d, e)', e.counter[d], Signed(d, voucher'[d].net))
  <2>1. voucher[d].status = "draft" /\ seen[r] = voucher[d]
    BY <1>1, <1>4, StaleOrCurrent DEF Accepts, Targets
  <2>2. voucher[d].cheque \in {"none", "pending"}
    BY <1>1, <2>1 DEF Clocks, VoucherOK
  <2>3. PostChart(r, c) = e /\ under[d] \subseteq {e}
    BY <1>1, <1>4
  <2>4. op[r].lines = None /\ c = e
    BY <2>3, TreasuryAssumption DEF PostChart
  <2>5. PICK n \in Int : n = Signed(d, voucher[d].net)
    BY <1>1, <2>1, MovesInt
  <2>6. ledger[d] = Moves(e.counter[d], e.counter[d], n)
    <3>1. Kept(d, e) = e.counter[d]
      BY <2>1 DEF Kept, Waiting
    <3> QED BY <1>1, <1>2, <1>4, <2>3, <2>5, <3>1, LedgerRead DEF VoucherTold, VoucherSays
  <2>7. PostLines(r, c) = Moves(PostAccount(r, e), e.counter[d], n)
    BY <2>1, <2>4, <2>5 DEF PostLines
  <2>8. Kept(d, e)' = PostAccount(r, e)
    <3>1. CASE voucher[d].method = "cheque"
      BY <1>1, <1>3, <2>1, <2>2, <3>1 DEF Kept, Waiting, Returned, PostAccount, Targets
    <3>2. CASE voucher[d].method # "cheque"
      BY <1>1, <1>3, <2>1, <3>2 DEF Kept, Waiting, Returned, PostAccount
    <3> QED BY <3>1, <3>2
  <2>9. ledger'[d] = Moves(PostAccount(r, e), e.counter[d], n)
    BY <1>1, <2>6, <2>7, MovesOn, DocsAll
  <2> QED BY <1>3, <2>5, <2>8, <2>9
<1>5. VoucherTold(d)'
  BY <1>4 DEF VoucherTold, VoucherSays
<1> QED BY <1>1, <1>2, <1>5, VoucherBooks DEF Wrote

LEMMA VoidBooks ==
    ASSUME Slots, LedgerTellsDocuments, NEW r \in Requests, VoidVoucher(r)
    PROVE  LedgerTellsDocuments'
<1>0. Types /\ SlotOK(r)
  BY DEF Slots
<1> PICK d : d = op[r].doc
  OBVIOUS
<1>1. /\ d \in Vouchers /\ pc[r] = "read" /\ op[r].kind = "void" /\ Commits(r)
      /\ \A v \in Vouchers \ {d} : voucher'[v] = voucher[v]
      /\ \A f \in {"method", "amount", "net", "cheque", "at"} : voucher'[d][f] = voucher[d][f]
      /\ voucher'[d].status = "voided"
      /\ UNCHANGED <<transfer, shift, ledger, keys, under, clock>>
  BY <1>0, VoidDoes
<1>2. stale \subseteq stale'
  BY <1>0, <1>1, Committed
<1>3. /\ voucher'[d].method = voucher[d].method /\ voucher'[d].net = voucher[d].net
      /\ voucher'[d].cheque = voucher[d].cheque
  BY <1>1
<1>4. ASSUME d \notin stale' PROVE \A c : VoucherSays(d, c)' = VoucherSays(d, c)
  <2>1. voucher[d].status = "posted"
    BY <1>1, <1>4, StaleOrCurrent DEF Accepts, Targets
  <2>2. (Waiting(d)' <=> Waiting(d)) /\ (Returned(d)' <=> Returned(d))
    BY <1>1, <1>3, <2>1 DEF Waiting, Returned
  <2>3. ASSUME NEW c PROVE Kept(d, c)' = Kept(d, c)
    BY <1>1, <2>1, <2>2 DEF Kept
  <2> QED BY <1>3, <2>3 DEF VoucherSays
<1>5. VoucherTold(d)'
  BY <1>1, <1>2, <1>4, LedgerRead DEF VoucherTold
<1> QED BY <1>1, <1>2, <1>5, VoucherBooks

LEMMA SettleBooks ==
    ASSUME Slots, LedgerTellsDocuments, NEW r \in Requests, NEW c \in Charts, SettleCheque(r, c)
    PROVE  LedgerTellsDocuments'
<1>0. Types /\ SlotOK(r)
  BY DEF Slots
<1> PICK d : d = op[r].doc
  OBVIOUS
<1>1. /\ d \in Vouchers /\ pc[r] = "entered" /\ op[r].kind \in Targets /\ Commits(r)
      /\ seen[r] \in VoucherRow
      /\ \A v \in Vouchers \ {d} : voucher'[v] = voucher[v]
      /\ \A f \in {"status", "method", "amount", "net", "at"} : voucher'[d][f] = voucher[d][f]
      /\ voucher'[d].cheque = IF voucher[d].cheque = "pending" THEN op[r].kind
                              ELSE voucher[d].cheque
      /\ under'[d] = under[d] \cup {c}
      /\ \A a \in Accounts : ledger'[d][a] = ledger[d][a] + SettleLines(r, c)[a]
      /\ Wrote(d) /\ UNCHANGED <<transfer, shift, clock>>
  BY <1>0, SettleDoes
<1>2. stale \subseteq stale'
  BY <1>0, <1>1, Committed
<1>3. /\ voucher'[d].method = voucher[d].method /\ voucher'[d].net = voucher[d].net
      /\ voucher'[d].status = voucher[d].status
  BY <1>1
<1>4. ASSUME d \notin stale', NEW e \in Charts, under'[d] \subseteq {e}
      PROVE  ledger'[d] = Moves(Kept(d, e)', e.counter[d], Signed(d, voucher'[d].net))
  <2>1. /\ voucher[d].status = "posted" /\ voucher[d].method = "cheque"
        /\ voucher[d].cheque = "pending" /\ seen[r] = voucher[d]
    BY <1>1, <1>4, StaleOrCurrent DEF Accepts, Targets
  <2>3. c = e /\ under[d] \subseteq {e}
    BY <1>1, <1>4
  <2>5. PICK n \in Int : n = Signed(d, voucher[d].net)
    BY <1>1, <2>1, MovesInt
  <2>6. ledger[d] = Moves(InHand(d, e), e.counter[d], n)
    <3>1. Kept(d, e) = InHand(d, e)
      BY <2>1 DEF Kept, Waiting, Returned, Targets
    <3> QED BY <1>1, <1>2, <1>4, <2>3, <2>5, <3>1, LedgerRead DEF VoucherTold, VoucherSays
  <2>7. SettleLines(r, c) = Moves(SettledOn(d, op[r].kind, e), InHand(d, e), n)
    BY <2>1, <2>3, <2>5 DEF SettleLines
  <2>8. Kept(d, e)' = SettledOn(d, op[r].kind, e)
    BY <1>1, <1>3, <2>1 DEF Kept, Waiting, Returned, SettledOn, Targets
  <2>9. ledger'[d] = Moves(SettledOn(d, op[r].kind, e), e.counter[d], n)
    BY <1>1, <2>6, <2>7, MovesOn, DocsAll
  <2> QED BY <1>3, <2>5, <2>8, <2>9
<1>5. VoucherTold(d)'
  BY <1>4 DEF VoucherTold, VoucherSays
<1> QED BY <1>1, <1>2, <1>5, VoucherBooks DEF Wrote

LEMMA EnterLedger ==
    ASSUME Slots, LedgerTellsDocuments, NEW r \in Requests, NEW c \in Charts, EnterShift(r, c)
    PROVE  LedgerTellsDocuments'
<1>0. Types /\ SlotOK(r)
  BY DEF Slots
<1> PICK d : d = op[r].doc
  OBVIOUS
<1>1. /\ d \in Shifts /\ pc[r] = "entered" /\ op[r].kind = "enter" /\ Commits(r)
      /\ seen[r] \in ShiftRow
      /\ \A k \in Shifts \ {d} : shift'[k] = shift[k]
      /\ shift'[d].count = shift[d].count /\ shift'[d].expected = shift[d].expected
      /\ shift'[d].entered = TRUE
      /\ UNCHANGED <<voucher, transfer, balance, keys, clock>>
  BY <1>0, EnterDoes
<1>2. /\ Wrote(d) /\ under'[d] = under[d] \cup {c}
      /\ \A a \in Accounts : ledger'[d][a] = ledger[d][a] + Handed(seen[r], c)[a]
  BY <1>0, EnterBooks
<1>3. stale \subseteq stale'
  BY <1>0, <1>1, Committed
<1>4. ASSUME d \notin stale', NEW e \in Charts, under'[d] \subseteq {e}
      PROVE  ledger'[d] = ShiftSays(d, e)'
  <2>1. seen[r] = shift[d] /\ ~ shift[d].entered
    BY <1>1, <1>4, StaleOrCurrent DEF Accepts, Targets
  <2>2. c = e /\ under[d] \subseteq {e}
    BY <1>2, <1>4
  <2>3. ledger[d] = Nothing
    BY <1>1, <1>3, <1>4, <2>1, <2>2, LedgerRead DEF ShiftTold, ShiftSays
  <2>4. Handed(seen[r], e) \in [Accounts -> Int] /\ ledger'[d] \in [Accounts -> Int]
    BY <1>1, <1>2, HandedType, DocsAll DEF Wrote
  <2>5. \A a \in Accounts : ledger'[d][a] = Handed(seen[r], e)[a]
    BY <1>2, <2>2, <2>3, <2>4 DEF Nothing
  <2>6. ledger'[d] = Handed(seen[r], e)
    BY <2>4, <2>5, SameLines
  <2>7. ShiftSays(d, e)' = Handed(seen[r], e)
    BY <1>1, <2>1 DEF ShiftSays, Handed
  <2> QED BY <2>6, <2>7
<1>5. ShiftTold(d)'
  BY <1>4 DEF ShiftTold
<1> QED BY <1>1, <1>2, <1>3, <1>5, ShiftBooks DEF Wrote

LEMMA CloseBooks ==
    ASSUME Slots, Clocks, LedgerTellsDocuments, NEW r \in Requests, CloseShift(r)
    PROVE  LedgerTellsDocuments'
<1>0. Types /\ SlotOK(r)
  BY DEF Slots
<1> PICK d : d = op[r].doc
  OBVIOUS
<1>1. /\ d \in Shifts /\ shift[d].status = "open" /\ Commits(r)
      /\ \A k \in Shifts \ {d} : shift'[k] = shift[k]
      /\ shift'[d].entered = shift[d].entered
      /\ UNCHANGED <<voucher, transfer, balance, ledger, keys, under>>
  BY <1>0, CloseDoes
<1>2. stale \subseteq stale'
  BY <1>0, <1>1, Committed
<1>3. ~ shift[d].entered
  BY <1>1 DEF Clocks, ShiftOK
<1>4. ShiftTold(d)'
  BY <1>1, <1>2, <1>3, LedgerRead, UnenteredStays
<1> QED BY <1>1, <1>2, <1>4, ShiftBooks

LEMMA OpenBooks ==
    ASSUME Slots, Clocks, LedgerTellsDocuments, NEW d \in Shifts, NEW u \in Users,
           OpenShift(d, u)
    PROVE  LedgerTellsDocuments'
<1>1. /\ shift[d].status = "none"
      /\ \A k \in Shifts \ {d} : shift'[k] = shift[k]
      /\ shift'[d].entered = shift[d].entered
      /\ UNCHANGED <<voucher, ledger, under, stale>>
  BY OpenDoes DEF Slots
<1>2. ~ shift[d].entered
  BY <1>1 DEF Clocks, ShiftOK
<1>3. ShiftTold(d)'
  BY <1>1, <1>2, LedgerRead, UnenteredStays
<1> QED BY <1>1, <1>3, ShiftBooks

\* The steps that book no voucher and no shift.
LEMMA OthersKeepBooks ==
    ASSUME Slots, LedgerTellsDocuments, NEW r \in Requests,
           \/ (\E o \in Ops : Begin(r, o)) \/ PostEntry(r) \/ Fail(r) \/ CancelTransfer(r)
           \/ \E c \in Charts : SendTransfer(r, c) \/ ReceiveTransfer(r, c)
    PROVE  LedgerTellsDocuments'
<1>0. Types /\ SlotOK(r)
  BY DEF Slots
<1>1. ASSUME UNCHANGED <<voucher, shift, ledger, under>>, stale \subseteq stale'
      PROVE  LedgerTellsDocuments'
  BY <1>1, OtherBooks
<1>2. ASSUME NEW o \in Ops, Begin(r, o) PROVE LedgerTellsDocuments'
  BY <1>0, <1>1, <1>2, BeginDoes
<1>3. CASE PostEntry(r)
  BY <1>0, <1>1, <1>3, EntryDoes
<1>4. CASE Fail(r)
  BY <1>0, <1>1, <1>4, FailDoes
<1>5. CASE CancelTransfer(r)
  BY <1>0, <1>1, <1>5, CancelDoes, Committed
<1>6. ASSUME NEW d \in Transfers, Wrote(d), voucher' = voucher, shift' = shift, Commits(r)
      PROVE  LedgerTellsDocuments'
  <2>1. \A e \in Vouchers \cup Shifts : e \in Docs \ {d}
    BY TreasuryAssumption, DocsAll
  <2>2. \A e \in Vouchers \cup Shifts : ledger'[e] = ledger[e] /\ under'[e] = under[e]
    BY <1>6, <2>1 DEF Wrote
  <2>3. stale \subseteq stale'
    BY <1>0, <1>6, Committed
  <2> QED BY <1>6, <2>2, <2>3, OtherBooks
<1>7. ASSUME NEW c \in Charts, SendTransfer(r, c) PROVE LedgerTellsDocuments'
  BY <1>0, <1>6, <1>7, SendDoes
<1>8. ASSUME NEW c \in Charts, ReceiveTransfer(r, c) PROVE LedgerTellsDocuments'
  BY <1>0, <1>6, <1>8, ReceiveDoes
<1> QED BY <1>2, <1>3, <1>4, <1>5, <1>7, <1>8

-----------------------------------------------------------------------------
(* The money of a transfer *)

PlaceOK(t) ==
    /\ \A c \in Charts : under[t] \subseteq {c} => ledger[t] = TransferSays(t, c)
    /\ <<"receive", t>> \in keys => <<"send", t>> \in keys
    /\ transfer[t] = Place(t) \/ transfer[t] = "voided"
    /\ transfer[t] = "voided" => Place(t) = "draft" \/ t \in stale

LEMMA MoneyRead ==
    /\ MoneyInOnePlace <=> \A t \in Transfers : PlaceOK(t)
    /\ MoneyInOnePlace' <=> \A t \in Transfers : PlaceOK(t)'
BY DEF MoneyInOnePlace, PlaceOK

\* A transfer whose money has not moved.
LEMMA PlaceStays ==
    ASSUME NEW t \in Transfers, PlaceOK(t), stale \subseteq stale',
           ledger'[t] = ledger[t], under'[t] = under[t],
           <<"send", t>> \in keys' <=> <<"send", t>> \in keys,
           <<"receive", t>> \in keys' <=> <<"receive", t>> \in keys,
           \/ transfer'[t] = transfer[t]
           \/ transfer'[t] = "voided" /\ (transfer[t] = "draft" \/ t \in stale')
    PROVE  PlaceOK(t)'
<1>1. Place(t)' = Place(t)
  BY DEF Place
<1>2. \A c : TransferSays(t, c)' = TransferSays(t, c)
  BY <1>1 DEF TransferSays
<1>3. transfer[t] = "draft" => Place(t) = "draft"
  BY DEF PlaceOK
<1> QED BY <1>1, <1>2, <1>3 DEF PlaceOK

\* A step that books none of the transfers, and one that moves the money of transfer d.
LEMMA MoneyStays ==
    ASSUME MoneyInOnePlace, stale \subseteq stale', transfer' = transfer,
           \A t \in Transfers : /\ ledger'[t] = ledger[t] /\ under'[t] = under[t]
                                /\ <<"send", t>> \in keys' <=> <<"send", t>> \in keys
                                /\ <<"receive", t>> \in keys' <=> <<"receive", t>> \in keys
    PROVE  MoneyInOnePlace'
BY MoneyRead, PlaceStays

LEMMA MoneyMoves ==
    ASSUME MoneyInOnePlace, NEW d \in Transfers, stale \subseteq stale', Wrote(d),
           \A t \in Transfers \ {d} : transfer'[t] = transfer[t],
           NEW k \in {"send", "receive"}, keys' = keys \cup {<<k, d>>}, PlaceOK(d)'
    PROVE  MoneyInOnePlace'
<1>1. ASSUME NEW t \in Transfers \ {d} PROVE PlaceOK(t)'
  <2>1. /\ <<"send", t>> \in keys' <=> <<"send", t>> \in keys
        /\ <<"receive", t>> \in keys' <=> <<"receive", t>> \in keys
    OBVIOUS
  <2>2. ledger'[t] = ledger[t] /\ under'[t] = under[t]
    BY DocsAll DEF Wrote
  <2> QED BY <2>1, <2>2, MoneyRead, PlaceStays
<1> QED BY <1>1, MoneyRead

LEMMA SendKeepsMoney ==
    ASSUME Slots, MoneyInOnePlace, NEW r \in Requests, NEW c \in Charts, SendTransfer(r, c)
    PROVE  MoneyInOnePlace'
<1>0. Types /\ SlotOK(r)
  BY DEF Slots
<1> PICK d : d = op[r].doc
  OBVIOUS
<1>1. /\ d \in Transfers /\ pc[r] = "entered" /\ op[r].kind = "send" /\ Commits(r)
      /\ \A t \in Transfers \ {d} : transfer'[t] = transfer[t]
      /\ transfer'[d] = "sent" /\ Wrote(d) /\ under'[d] = under[d] \cup {c}
      /\ \A a \in Accounts :
            ledger'[d][a] = ledger[d][a] + Moves(c.transit, c.safe[Card[d].from], Card[d].amount)[a]
      /\ keys' = keys \cup {<<"send", d>>} /\ Key(op[r]) = <<"send", d>>
  BY <1>0, SendDoes
<1>2. stale \subseteq stale'
  BY <1>0, <1>1, Committed
<1>3. <<"send", d>> \notin keys /\ <<"receive", d>> \notin keys
  <2>1. Keyed(op[r])
    BY <1>1 DEF Keyed
  <2>2. <<"send", d>> \notin keys
    BY <1>0, <1>1, <2>1 DEF SlotOK
  <2> QED BY <1>1, <2>2, MoneyRead DEF PlaceOK
<1>4. <<"send", d>> \in keys' /\ <<"receive", d>> \notin keys'
  BY <1>1, <1>3
<1>5. Place(d) = "draft" /\ Place(d)' = "sent"
  BY <1>3, <1>4 DEF Place
<1>6. ASSUME NEW e \in Charts, under'[d] \subseteq {e} PROVE ledger'[d] = TransferSays(d, e)'
  <2>1. c = e /\ under[d] \subseteq {e}
    BY <1>1, <1>6
  <2>2. ledger[d] = Moves(e.safe[Card[d].from], e.safe[Card[d].from], Card[d].amount)
    BY <1>1, <1>5, <2>1, MoneyRead DEF PlaceOK, TransferSays
  <2>3. Card[d].amount \in Int
    BY <1>1, CardSafes
  <2>4. ledger'[d] = Moves(e.transit, e.safe[Card[d].from], Card[d].amount)
    BY <1>1, <2>1, <2>2, <2>3, MovesOn, DocsAll
  <2> QED BY <1>5, <2>4 DEF TransferSays
<1>7. PlaceOK(d)'
  BY <1>1, <1>4, <1>5, <1>6 DEF PlaceOK
<1> QED BY <1>1, <1>2, <1>7, MoneyMoves

LEMMA ReceiveKeepsMoney ==
    ASSUME Slots, MoneyInOnePlace, NEW r \in Requests, NEW c \in Charts, ReceiveTransfer(r, c)
    PROVE  MoneyInOnePlace'
<1>0. Types /\ SlotOK(r)
  BY DEF Slots
<1> PICK d : d = op[r].doc
  OBVIOUS
<1>1. /\ d \in Transfers /\ pc[r] = "entered" /\ op[r].kind = "receive" /\ Commits(r)
      /\ \A t \in Transfers \ {d} : transfer'[t] = transfer[t]
      /\ transfer'[d] = "received" /\ Wrote(d) /\ under'[d] = under[d] \cup {c}
      /\ \A a \in Accounts :
            ledger'[d][a] = ledger[d][a] + Moves(c.safe[Card[d].to], c.transit, Card[d].amount)[a]
      /\ keys' = keys \cup {<<"receive", d>>} /\ Key(op[r]) = <<"receive", d>>
  BY <1>0, ReceiveDoes
<1>2. stale \subseteq stale'
  BY <1>0, <1>1, Committed
<1>3. <<"receive", d>> \notin keys /\ <<"send", d>> \in keys
  <2>1. Keyed(op[r])
    BY <1>1 DEF Keyed
  <2>2. <<"receive", d>> \notin keys
    BY <1>0, <1>1, <2>1 DEF SlotOK
  <2>3. <<"send", d>> \in keys
    BY <1>0, <1>1 DEF SlotOK, Busy
  <2> QED BY <2>2, <2>3
<1>4. <<"send", d>> \in keys' /\ <<"receive", d>> \in keys'
  BY <1>1, <1>3
<1>5. Place(d) = "sent" /\ Place(d)' = "received"
  BY <1>3, <1>4 DEF Place
<1>6. ASSUME NEW e \in Charts, under'[d] \subseteq {e} PROVE ledger'[d] = TransferSays(d, e)'
  <2>1. c = e /\ under[d] \subseteq {e}
    BY <1>1, <1>6
  <2>2. ledger[d] = Moves(e.transit, e.safe[Card[d].from], Card[d].amount)
    BY <1>1, <1>5, <2>1, MoneyRead DEF PlaceOK, TransferSays
  <2>3. Card[d].amount \in Int
    BY <1>1, CardSafes
  <2>4. ledger'[d] = Moves(e.safe[Card[d].to], e.safe[Card[d].from], Card[d].amount)
    BY <1>1, <2>1, <2>2, <2>3, MovesOn, DocsAll
  <2> QED BY <1>5, <2>4 DEF TransferSays
<1>7. PlaceOK(d)'
  BY <1>1, <1>4, <1>5, <1>6 DEF PlaceOK
<1> QED BY <1>1, <1>2, <1>7, MoneyMoves

LEMMA CancelKeepsMoney ==
    ASSUME Slots, MoneyInOnePlace, NEW r \in Requests, CancelTransfer(r)
    PROVE  MoneyInOnePlace'
<1>0. Types /\ SlotOK(r)
  BY DEF Slots
<1> PICK d : d = op[r].doc
  OBVIOUS
<1>1. /\ d \in Transfers /\ pc[r] = "read" /\ op[r].kind = "cancel" /\ Commits(r)
      /\ \A t \in Transfers \ {d} : transfer'[t] = transfer[t]
      /\ transfer'[d] = "voided"
      /\ UNCHANGED <<ledger, keys, under>>
  BY <1>0, CancelDoes
<1>2. stale \subseteq stale'
  BY <1>0, <1>1, Committed
<1>3. transfer[d] = "draft" \/ d \in stale'
  BY <1>1, StaleOrCurrent DEF Accepts, Targets
<1>4. \A t \in Transfers : PlaceOK(t)'
  BY <1>1, <1>2, <1>3, MoneyRead, PlaceStays
<1> QED BY <1>4, MoneyRead

\* The steps that are not about transfers.
LEMMA OthersKeepMoney ==
    ASSUME Slots, MoneyInOnePlace, NEW r \in Requests,
           \/ \E o \in Ops : Begin(r, o)
           \/ PostEntry(r) \/ Edit(r) \/ VoidVoucher(r) \/ CloseShift(r) \/ Fail(r)
           \/ \E c \in Charts : PostVoucher(r, c) \/ SettleCheque(r, c) \/ EnterShift(r, c)
    PROVE  MoneyInOnePlace'
<1>0. Types /\ SlotOK(r)
  BY DEF Slots
<1> PICK d : d = op[r].doc
  OBVIOUS
<1>1. ASSUME UNCHANGED <<transfer, keys, ledger, under>>, stale \subseteq stale'
      PROVE  MoneyInOnePlace'
  BY <1>1, MoneyStays
<1>2. ASSUME NEW o \in Ops, Begin(r, o) PROVE MoneyInOnePlace'
  BY <1>0, <1>1, <1>2, BeginDoes
<1>3. CASE PostEntry(r)
  BY <1>0, <1>1, <1>3, EntryDoes
<1>4. CASE Edit(r)
  BY <1>0, <1>1, <1>4, EditDoes, Committed
<1>5. CASE VoidVoucher(r)
  BY <1>0, <1>1, <1>5, VoidDoes, Committed
<1>6. CASE CloseShift(r)
  BY <1>0, <1>1, <1>6, CloseDoes, Committed
<1>7. CASE Fail(r)
  BY <1>0, <1>1, <1>7, FailDoes
<1>8. ASSUME d \in Vouchers \cup Shifts, Wrote(d), transfer' = transfer, Commits(r),
             \A t : <<"send", t>> \in keys' <=> <<"send", t>> \in keys,
             \A t : <<"receive", t>> \in keys' <=> <<"receive", t>> \in keys
      PROVE  MoneyInOnePlace'
  <2>1. \A t \in Transfers : t \in Docs \ {d}
    BY <1>8, TreasuryAssumption, DocsAll
  <2>2. \A t \in Transfers : ledger'[t] = ledger[t] /\ under'[t] = under[t]
    BY <1>8, <2>1 DEF Wrote
  <2>3. stale \subseteq stale'
    BY <1>0, <1>8, Committed
  <2> QED BY <1>8, <2>2, <2>3, MoneyStays
<1>9. ASSUME NEW c \in Charts, PostVoucher(r, c) PROVE MoneyInOnePlace'
  BY <1>0, <1>8, <1>9, PostDoes
<1>10. ASSUME NEW c \in Charts, SettleCheque(r, c) PROVE MoneyInOnePlace'
  <2>1. /\ d \in Vouchers /\ Commits(r) /\ op[r].kind \in Targets /\ Wrote(d)
        /\ transfer' = transfer /\ keys' = keys \cup {Key(op[r])}
    BY <1>0, <1>10, SettleDoes
  <2>2. \A t : Key(op[r]) # <<"send", t>> /\ Key(op[r]) # <<"receive", t>>
    BY <2>1 DEF Key, Targets
  <2> QED BY <1>8, <2>1, <2>2
<1>11. ASSUME NEW c \in Charts, EnterShift(r, c) PROVE MoneyInOnePlace'
  BY <1>0, <1>8, <1>11, EnterDoes, EnterBooks
<1> QED BY <1>2, <1>3, <1>4, <1>5, <1>6, <1>7, <1>9, <1>10, <1>11

-----------------------------------------------------------------------------
(* The invariant holds at the start, and every step keeps it *)

LEMMA OpenKeepsMoney ==
    ASSUME Slots, MoneyInOnePlace, NEW k \in Shifts, NEW u \in Users, OpenShift(k, u)
    PROVE  MoneyInOnePlace'
<1>1. UNCHANGED <<transfer, keys, ledger, under, stale>>
  BY OpenDoes DEF Slots
<1> QED BY <1>1, MoneyStays

LEMMA StutterKeepsBooks ==
    ASSUME MoneyInOnePlace, Tells, LedgerTellsDocuments, UNCHANGED vars
    PROVE  MoneyInOnePlace' /\ Tells' /\ LedgerTellsDocuments'
<1>1. UNCHANGED <<voucher, transfer, shift, balance, ledger, keys, under, stale>>
  BY DEF vars, rows, books
<1>2. MoneyInOnePlace'
  BY <1>1, MoneyStays
<1>3. Tells'
  BY <1>1, TellsStay
<1>4. LedgerTellsDocuments'
  BY <1>1, OtherBooks
<1> QED BY <1>2, <1>3, <1>4

LEMMA InitTypes ==
    ASSUME Init
    PROVE  /\ Types
           /\ \A v \in Vouchers : /\ voucher[v].status = "draft" /\ voucher[v].at = 0
                                  /\ voucher[v].cheque \in {"none", "pending"}
           /\ \A k \in Shifts : /\ shift[k].status = "none" /\ ~ shift[k].entered
                                /\ shift[k].taken = {}
<1>1. ASSUME NEW d \in Drafts
      PROVE  /\ New(d) \in VoucherRow /\ New(d).status = "draft" /\ New(d).at = 0
             /\ New(d).cheque \in {"none", "pending"}
  <2>1. d \in [method : Methods, amount : Nat \ {0}]
    BY TreasuryAssumption
  <2>2. d.method \in Methods /\ d.amount \in Nat \ {0}
    BY <2>1
  <2>3. PICK m \in Methods, n \in Nat \ {0} : m = d.method /\ n = d.amount
    BY <2>2
  <2>4. PICK c \in {"none", "pending"} : c = IF m = "cheque" THEN "pending" ELSE "none"
    OBVIOUS
  <2>5. New(d) = [status |-> "draft", method |-> m, amount |-> n, net |-> n, cheque |-> c, at |-> 0]
    BY <2>3, <2>4 DEF New
  <2> QED BY <2>5 DEF VoucherRow
<1>2. voucher \in [Vouchers -> {New(d) : d \in Drafts}]
  BY DEF Init
<1>3. ASSUME NEW v \in Vouchers
      PROVE  /\ voucher[v] \in VoucherRow /\ voucher[v].status = "draft" /\ voucher[v].at = 0
             /\ voucher[v].cheque \in {"none", "pending"}
  <2>1. PICK d \in Drafts : voucher[v] = New(d)
    BY <1>2
  <2> QED BY <1>1, <2>1
<1>4. voucher \in [Vouchers -> VoucherRow]
  BY <1>2, <1>3
<1> DEFINE z == [status |-> "none", user |-> None, opened |-> 0, closed |-> 0, taken |-> {},
                 expected |-> 0, count |-> 0, entered |-> FALSE]
<1>5. z \in ShiftRow /\ z.status = "none" /\ ~ z.entered /\ z.taken = {}
  BY DEF ShiftRow
<1>6. shift = [k \in Shifts |-> z]
  BY DEF Init
<1> HIDE DEF z
<1>7. shift \in [Shifts -> ShiftRow] /\ \A k \in Shifts : shift[k] = z
  BY <1>5, <1>6
<1>8. drawer \in [Requests -> [taken : SUBSET Vouchers, expected : Int, at : Nat]]
  <2>1. Idle \in [taken : SUBSET Vouchers, expected : Int, at : Nat]
    BY DEF Idle
  <2>2. drawer = [r \in Requests |-> Idle]
    BY DEF Init
  <2> QED BY <2>1, <2>2
<1>9. /\ transfer \in [Transfers -> {"draft", "sent", "received", "voided"}]
      /\ balance \in [Safes -> Int]
      /\ under \in [Docs -> SUBSET (Charts \cup {None})]
      /\ keys = {} /\ journal \in Requests \cup {None}
      /\ pc \in [Requests -> {"idle", "read", "entered"}]
      /\ op \in [Requests -> Ops \cup {None}]
      /\ seen \in [Requests -> VoucherRow \cup ShiftRow \cup {None}]
      /\ overtaken \in SUBSET Requests
      /\ stale \in SUBSET Docs /\ late \in SUBSET Vouchers
  BY DEF Init
<1>10. clock \in Nat /\ started \in 0..MaxRequests
  BY TreasuryAssumption DEF Init
<1>11. ledger \in [Docs -> [Accounts -> Int]]
  <2>1. Nothing \in [Accounts -> Int]
    BY DEF Nothing
  <2>2. ledger = [d \in Docs |-> Nothing]
    BY DEF Init
  <2> QED BY <2>1, <2>2
<1>12. TypeOK
  BY <1>4, <1>7, <1>8, <1>9, <1>10, <1>11 DEF TypeOK, VoucherRow, ShiftRow
<1>13. Types
  BY <1>9, <1>12 DEF Types
<1> QED BY <1>3, <1>5, <1>7, <1>13

LEMMA InitSlots ==
    ASSUME Init
    PROVE  Slots /\ Clocks
<1>1. /\ Types
      /\ \A v \in Vouchers : /\ voucher[v].status = "draft" /\ voucher[v].at = 0
                             /\ voucher[v].cheque \in {"none", "pending"}
      /\ \A k \in Shifts : /\ shift[k].status = "none" /\ ~ shift[k].entered
                           /\ shift[k].taken = {}
  BY InitTypes
<1>2. clock = 0 /\ \A r \in Requests : pc[r] = "idle"
  BY DEF Init
<1>3. Slots
  BY <1>1, <1>2 DEF Slots, SlotOK, Current, Busy
<1>4. (\A k \in Shifts : ShiftOK(k)) /\ (\A v \in Vouchers : VoucherOK(v))
  BY <1>1, <1>2 DEF ShiftOK, VoucherOK
<1>5. /\ \A j \in Shifts, k \in Shifts : InTurn(j, k)
      /\ \A k \in Shifts, v \in Vouchers : Told(k, v)
  BY <1>1 DEF InTurn, Told
<1>6. \A r \in Requests : ClosingOK(r)
  BY <1>2 DEF ClosingOK, Closing
<1> QED BY <1>3, <1>4, <1>5, <1>6 DEF Clocks

LEMMA InitBooks ==
    ASSUME Init
    PROVE  MoneyInOnePlace /\ Tells /\ LedgerTellsDocuments
<1>1. /\ Types
      /\ \A v \in Vouchers : /\ voucher[v].status = "draft"
                             /\ voucher[v].cheque \in {"none", "pending"}
      /\ \A k \in Shifts : ~ shift[k].entered
  BY InitTypes
<1>2. /\ \A t \in Transfers : transfer[t] = "draft"
      /\ \A s \in Safes : balance[s] = 0
      /\ \A d \in Docs : ledger[d] = Nothing
      /\ keys = {}
  BY DEF Init
<1>3. IsFiniteSet(Vouchers) /\ IsFiniteSet(Transfers)
  BY TreasuryAssumption
<1>4. PICK w \in [Vouchers -> VoucherRow],
           x \in [Transfers -> {"draft", "sent", "received", "voided"}] :
         w = voucher /\ x = transfer
  BY <1>1, TypesFields
<1>5. \A v \in Vouchers : ~ HasRow(w[v])
  BY <1>1, <1>4, DraftRow
<1>6. ASSUME NEW s PROVE SafeSum(w, s) = 0
  <2>1. \A v \in Vouchers : SafeTerm(w, s)[v] = 0
    BY <1>5 DEF SafeTerm
  <2>2. SumOf(SafeTerm(w, s), Vouchers) = 0
    BY <1>3, <2>1, SumZero
  <2> QED BY <2>2, SafeSumTerm
<1>7. ASSUME NEW s PROVE ArrivedSum(x, s) = 0 /\ LeftSum(x, s) = 0
  <2>1. /\ \A t \in Transfers : ArrivedTerm(x, s)[t] = 0
        /\ \A t \in Transfers : LeftTerm(x, s)[t] = 0
    BY <1>2, <1>4 DEF ArrivedTerm, LeftTerm
  <2>2. SumOf(ArrivedTerm(x, s), Transfers) = 0
    BY <1>3, <2>1, SumZero
  <2>3. SumOf(LeftTerm(x, s), Transfers) = 0
    BY <1>3, <2>1, SumZero
  <2> QED BY <2>2, <2>3, ArrivedSumTerm, LeftSumTerm
<1>8. Tells
  BY <1>2, <1>4, <1>6, <1>7 DEF Tells, BalanceOf
<1>9. ASSUME NEW a, NEW n \in Int PROVE Moves(a, a, n) = Nothing
  <2>1. Nothing \in [Accounts -> Int] /\ Moves(a, a, n) \in [Accounts -> Int]
    BY MovesType DEF Nothing
  <2>2. \A y \in Accounts : Moves(a, a, n)[y] = 0 /\ Nothing[y] = 0
    BY DEF Moves, Nothing
  <2> QED BY <2>1, <2>2, SameLines
<1>10. MoneyInOnePlace
  <2>1. \A t \in Transfers : Place(t) = "draft"
    BY <1>2 DEF Place
  <2>2. ASSUME NEW t \in Transfers, NEW c \in Charts PROVE ledger[t] = TransferSays(t, c)
    <3>1. Card[t].amount \in Int
      BY CardSafes
    <3>2. TransferSays(t, c) = Moves(c.safe[Card[t].from], c.safe[Card[t].from], Card[t].amount)
      BY <2>1 DEF TransferSays
    <3> QED BY <1>2, <1>9, <3>1, <3>2, DocsAll
  <2> QED BY <1>2, <2>1, <2>2 DEF MoneyInOnePlace
<1>11. LedgerTellsDocuments
  <2>1. ASSUME NEW v \in Vouchers, NEW c \in Charts PROVE ledger[v] = VoucherSays(v, c)
    <3>1. voucher[v].net \in Nat
      <4>1. voucher[v] \in VoucherRow
        BY <1>1, TypesFields
      <4> QED BY <4>1 DEF VoucherRow
    <3>2. Signed(v, voucher[v].net) \in Int
      BY <3>1, SignedInt
    <3>3. VoucherSays(v, c) = Moves(c.counter[v], c.counter[v], Signed(v, voucher[v].net))
      BY <1>1 DEF VoucherSays, Kept, Waiting
    <3> QED BY <1>2, <1>9, <3>2, <3>3, DocsAll
  <2>2. ASSUME NEW k \in Shifts, NEW c \in Charts PROVE ledger[k] = ShiftSays(k, c)
    BY <1>1, <1>2, DocsAll DEF ShiftSays
  <2> QED BY <2>1, <2>2 DEF LedgerTellsDocuments
<1> QED BY <1>8, <1>10, <1>11

LEMMA Invariance ==
    ASSUME IInv, [Next]_vars
    PROVE  IInv'
<1>0. Slots /\ Clocks /\ MoneyInOnePlace /\ Tells /\ LedgerTellsDocuments
  BY TellsRead DEF IInv
<1>1. ASSUME Slots', Clocks', MoneyInOnePlace', Tells', LedgerTellsDocuments' PROVE IInv'
  <2>1. TypeOK'
    BY <1>1 DEF Slots, Types
  <2> QED BY <1>1, <2>1, TellsRead DEF IInv
<1>2. ASSUME NEW r \in Requests, NEW o \in Ops, Begin(r, o) PROVE IInv'
  BY <1>0, <1>1, <1>2, BeginKeepsSlots, BeginKeepsClocks, OthersKeepMoney, OthersTell,
     OthersKeepBooks
<1>3. ASSUME NEW r \in Requests, PostEntry(r) PROVE IInv'
  BY <1>0, <1>1, <1>3, EntryKeepsSlots, EntryKeepsClocks, OthersKeepMoney, OthersTell,
     OthersKeepBooks
<1>4. ASSUME NEW r \in Requests, Edit(r) PROVE IInv'
  BY <1>0, <1>1, <1>4, CommitsKeepSlots, EditKeepsClocks, OthersKeepMoney, EditTells, EditBooks
<1>5. ASSUME NEW r \in Requests, NEW c \in Charts, PostVoucher(r, c) PROVE IInv'
  BY <1>0, <1>1, <1>5, CommitsKeepSlots, PostKeepsClocks, OthersKeepMoney, PostTells, PostBooks
<1>6. ASSUME NEW r \in Requests, VoidVoucher(r) PROVE IInv'
  BY <1>0, <1>1, <1>6, CommitsKeepSlots, VoidKeepsClocks, OthersKeepMoney, VoidTells, VoidBooks
<1>7. ASSUME NEW r \in Requests, NEW c \in Charts, SettleCheque(r, c) PROVE IInv'
  BY <1>0, <1>1, <1>7, CommitsKeepSlots, SettleKeepsClocks, OthersKeepMoney, SettleTells,
     SettleBooks
<1>8. ASSUME NEW r \in Requests, NEW c \in Charts, SendTransfer(r, c) PROVE IInv'
  BY <1>0, <1>1, <1>8, CommitsKeepSlots, TransfersKeepClocks, SendKeepsMoney, SendTells,
     OthersKeepBooks
<1>9. ASSUME NEW r \in Requests, NEW c \in Charts, ReceiveTransfer(r, c) PROVE IInv'
  BY <1>0, <1>1, <1>9, CommitsKeepSlots, TransfersKeepClocks, ReceiveKeepsMoney, ReceiveTells,
     OthersKeepBooks
<1>10. ASSUME NEW r \in Requests, CancelTransfer(r) PROVE IInv'
  BY <1>0, <1>1, <1>10, CommitsKeepSlots, TransfersKeepClocks, CancelKeepsMoney, CancelTells,
     OthersKeepBooks
<1>11. ASSUME NEW r \in Requests, CloseShift(r) PROVE IInv'
  BY <1>0, <1>1, <1>11, CloseKeepsSlots, CloseKeepsClocks, OthersKeepMoney, OthersTell, CloseBooks
<1>12. ASSUME NEW r \in Requests, NEW c \in Charts, EnterShift(r, c) PROVE IInv'
  BY <1>0, <1>1, <1>12, EnterKeepsSlots, EnterKeepsClocks, OthersKeepMoney, OthersTell,
     EnterLedger
<1>13. ASSUME NEW r \in Requests, Fail(r) PROVE IInv'
  BY <1>0, <1>1, <1>13, FailKeepsSlots, TransfersKeepClocks, OthersKeepMoney, OthersTell,
     OthersKeepBooks
<1>14. ASSUME NEW k \in Shifts, NEW u \in Users, OpenShift(k, u) PROVE IInv'
  BY <1>0, <1>1, <1>14, OpenKeepsSlots, OpenKeepsClocks, OpenKeepsMoney, OpenTells, OpenBooks
<1>15. CASE UNCHANGED vars
  BY <1>0, <1>1, <1>15, StutterKeepsSlots, StutterKeepsClocks, StutterKeepsBooks
<1> QED BY <1>2, <1>3, <1>4, <1>5, <1>6, <1>7, <1>8, <1>9, <1>10, <1>11, <1>12, <1>13,
           <1>14, <1>15 DEF Next

LEMMA InvariantAlways == Spec => []IInv
<1>1. Init => IInv
  <2> SUFFICES ASSUME Init PROVE IInv
    OBVIOUS
  <2>1. Slots /\ Clocks
    BY InitSlots
  <2>2. MoneyInOnePlace /\ Tells /\ LedgerTellsDocuments
    BY InitBooks
  <2>3. TypeOK
    BY <2>1 DEF Slots, Types
  <2> QED BY <2>1, <2>2, <2>3, TellsRead DEF IInv
<1>2. IInv /\ [Next]_vars => IInv'
  BY Invariance
<1> QED BY <1>1, <1>2, PTL DEF Spec

\* Two shifts of one cashier do not overlap, so no moment is in both.
LEMMA TakingsFollow ==
    ASSUME Slots, Clocks
    PROVE  TakingsTellShifts
<1>1. ASSUME NEW k \in Shifts, NEW v \in Vouchers \ stale, shift[k].status = "closed"
      PROVE  /\ v \in shift[k].taken => Open(k, voucher[v].at)
             /\ /\ voucher[v].status = "posted" /\ voucher[v].method = "cash"
                /\ v \notin late /\ Open(k, voucher[v].at)
                => v \in shift[k].taken
  BY <1>1 DEF Clocks, Told
<1>2. ASSUME NEW k \in Shifts, NEW j \in Shifts, NEW v \in Vouchers \ stale, j # k,
             shift[k].status = "closed", shift[j].status = "closed",
             v \in shift[j].taken \cap shift[k].taken
      PROVE  shift[j].user # shift[k].user
  <2> SUFFICES ASSUME shift[j].user = shift[k].user PROVE FALSE
    OBVIOUS
  <2>1. Before(j, k) \/ Before(k, j)
    BY <1>2 DEF Clocks, InTurn
  <2>2. Open(j, voucher[v].at) /\ Open(k, voucher[v].at)
    BY <1>1, <1>2
  <2>3. /\ shift[j].opened \in Nat /\ shift[j].closed \in Nat
        /\ shift[k].opened \in Nat /\ shift[k].closed \in Nat
    <3>1. shift[j] \in ShiftRow /\ shift[k] \in ShiftRow
      BY TypesFields DEF Slots
    <3> QED BY <3>1 DEF ShiftRow
  <2>4. voucher[v].at \in Nat
    <3>1. voucher[v] \in VoucherRow
      BY TypesFields DEF Slots
    <3> QED BY <3>1 DEF VoucherRow
  <2> QED BY <2>1, <2>2, <2>3, <2>4 DEF Open, Before
<1> QED BY <1>1, <1>2 DEF TakingsTellShifts

-----------------------------------------------------------------------------
(* What it says *)

\* Every variable has its type, for any requests, documents, safes, cashiers, shifts and
\* settings (treasury.service.ts).
THEOREM TreasuryTypeCorrect == Spec => []TypeOK
<1>1. IInv => TypeOK
  BY DEF IInv, Slots, Types
<1> QED BY <1>1, InvariantAlways, PTL

\* The balance of a safe is what its vouchers, cheques and transfers say of it
\* (bumpBalance), unless a request has written on one of them past another: what two
\* requests do that meet on one document is left out.
THEOREM SafesTellDocuments == Spec => []BalanceTellsDocuments
<1>1. IInv => BalanceTellsDocuments
  BY DEF IInv
<1> QED BY <1>1, InvariantAlways, PTL

\* The entries of a voucher (postVoucher, transitionCheque) leave its net amount on the one
\* account where its status says the money is, and those of a shift (postShiftClose) hand
\* its count to the custody, whatever accounts the settings name, also the same for two
\* roles.  Left out are documents written past another request, and those with an entry
\* given by hand or with entries under settings that had changed between them.
THEOREM AccountsTellDocuments == Spec => []LedgerTellsDocuments
<1>1. IInv => LedgerTellsDocuments
  BY DEF IInv
<1> QED BY <1>1, InvariantAlways, PTL

\* The money of a transfer between safes is in one safe, in transit or in the other safe
\* (sendTransfer, receiveTransfer), if its entries were written under one chart: the key of
\* its entries holds whatever requests overtake each other.  Only a cancellation that was
\* overtaken may say voided of a transfer that was sent.
THEOREM TransfersLoseNothing == Spec => []MoneyInOnePlace
<1>1. IInv => MoneyInOnePlace
  BY DEF IInv
<1> QED BY <1>1, InvariantAlways, PTL

\* A shift takes a voucher in cash only if it was posted while the shift was open, and
\* every one that was, and two shifts of one cashier never both take it (openShift,
\* shiftTakings, closeShift).  Left out are vouchers written past another request, and, of
\* those a shift must take, the ones posted or voided while a drawer was being closed.
THEOREM TakingsCounted == Spec => []TakingsTellShifts
<1>1. IInv => TakingsTellShifts
  BY TakingsFollow DEF IInv
<1> QED BY <1>1, InvariantAlways, PTL
=============================================================================
