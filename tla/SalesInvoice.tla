---------------------------- MODULE SalesInvoice ----------------------------
(***************************************************************************)
(* Sales invoices: drafts, the drafts that replace them, and returns, with *)
(* what they leave in the books and in the warehouse.  A request posts,    *)
(* voids, pays, returns or edits one of them, or creates another.          *)
(*                                                                         *)
(* sales.service.ts decides from rows it read without a lock, voids and    *)
(* payments in a transaction after the one that read them, returns and     *)
(* edits over three.  What stands between two requests is the rows one of  *)
(* them writes and the unique indexes on movements, on journal keys and on *)
(* payment keys.                                                           *)
(*                                                                         *)
(* Every document has lines of one item, kept in stock or a service, at    *)
(* the price of 1 or for nothing; cost, tax, discounts, serial numbers,    *)
(* split tenders, cashier shifts, the seal of the tax authority (see       *)
(* EInvoiceChain) and what stock lines given by hand move are left out.    *)
(***************************************************************************)
EXTENDS Integers, Sequences, FiniteSets, FiniteSetsExt

CONSTANTS
    Requests,     \* request slots
    MaxRequests,  \* how many requests are made in all (a bound)
    MaxDocs,      \* how many invoices there can be (a bound)
    Opening,      \* what the first invoice may be
    Bodies,       \* what an invoice may be created from without any check
    Keys,         \* the idempotency keys of payments
    Ops,          \* the requests that may be made
    None

Settle(d) == <<"sales-settle", d>>     \* the key of the payment a cash sale posts
AllKeys == Keys \cup {Settle(d) : d \in 1..MaxDocs}

\* The body of a create: the invoice it refers to (0 is none), and its lines.
Inputs == [as : {"sale", "return"}, of : 0..MaxDocs, units : Nat, free : BOOLEAN, stocked : BOOLEAN]

\* A post may be given its journal lines or its stock lines by hand.
Posts == [kind : {"post"}, doc : 1..MaxDocs, cash : BOOLEAN, given : SUBSET {"journal", "stock"}]
Voids == [kind : {"void"}, doc : 1..MaxDocs]
Pays == [kind : {"pay"}, doc : 1..MaxDocs, key : Keys, amount : Nat]
Returns == [kind : {"return"}, doc : 1..MaxDocs, body : Inputs]
Edits == [kind : {"edit"}, doc : 1..MaxDocs, body : Inputs]

ASSUME SalesAssumption ==
    /\ MaxRequests \in Nat /\ MaxDocs \in Nat \ {0}
    /\ Bodies \subseteq Inputs /\ Opening \subseteq {b \in Inputs : b.as = "sale" /\ b.of = 0}
    /\ None \notin Requests
    /\ IsFiniteSet(Keys) /\ \A d \in 1..MaxDocs : Settle(d) \notin Keys
    /\ \A o \in Ops : o \in Posts \/ o \in Voids \/ o \in Pays \/ o \in Returns \/ o \in Edits

VARIABLES
    docs,       \* the invoices in the order they were created, with their effects
    payments,   \* rows of invoice_payments by key: whose, how much, how many
    lock,       \* rows that a transaction holds
    pc, op,
    seen,       \* what the request has read of its document
    own,        \* units it moves, returns or puts back
    started,    \* requests made so far
    overtaken,  \* history: requests another has committed past since they read
    stale       \* history: kinds of the overtaken requests that have committed

rows == <<docs, payments>>
request == <<pc, op, seen, own>>
history == <<overtaken, stale>>
salesVars == <<rows, lock, request, started, history>>

-----------------------------------------------------------------------------

Ids == DOMAIN docs

\* A new draft: its lines, whether it is a return counted against its sale by a request
\* nobody overtook, and no trace yet: of its posts, what was given to them by hand, its
\* journal entries, one of which may be under its key, what it moved and what is undone.
Draft(b, counted) ==
    [kind |-> b.as, of |-> b.of, stocked |-> b.stocked, units |-> b.units, counted |-> counted,
     total |-> IF b.free THEN 0 ELSE b.units, status |-> "draft", paid |-> 0, posts |-> 0, given |-> {},
     entries |-> 0, keyed |-> FALSE, reversals |-> 0, moved |-> 0, back |-> 0]

ReturnsOf(d) == {e \in Ids : docs[e].kind = "return" /\ docs[e].of = d}
PostedFrom(d) == {e \in Ids : docs[e].of = d /\ docs[e].status = "posted"}
Returned(d) == MapThenSumSet(LAMBDA e : docs[e].units, ReturnsOf(d))

\* What a transaction can hold: the number row of a document type, the stock balance,
\* the journal number row, the entry, the lines or the header of an invoice, and the
\* place of a key in the unique index on payments.
Locks == {<<"number", "sale">>, <<"number", "return">>, <<"stock">>, <<"journal">>}
         \cup ({"entry", "lines", "header"} \X (1..MaxDocs)) \cup ({"key"} \X Keys)

Free(r, S) == \A x \in S : lock[x] \in {None, r}
Take(r, S) == lock' = [x \in Locks |-> IF x \in S THEN r ELSE lock[x]]

Goto(r, label) == pc' = [pc EXCEPT ![r] = label]
Doc(r) == docs[op[r].doc]
Is(r, kind, label) == pc[r] = label /\ op[r].kind = kind

Init ==
    /\ docs \in {<<Draft(b, FALSE)>> : b \in Opening}
    /\ payments = [k \in AllKeys |-> [doc |-> 0, amount |-> 0, rows |-> 0]]
    /\ lock = [x \in Locks |-> None]
    /\ pc = [r \in Requests |-> "idle"]
    /\ op = [r \in Requests |-> None]
    /\ seen = [r \in Requests |-> None]
    /\ own = [r \in Requests |-> 0]
    /\ started = 0
    /\ overtaken = {} /\ stale = {}

-----------------------------------------------------------------------------

\* The first read of a request, and the refusals that follow from it.
Accepts(o) ==
    /\ o.doc \in Ids
    /\ \/ o.kind \in {"post", "edit"} /\ docs[o.doc].status = "draft"
       \/ o.kind = "void" /\ docs[o.doc].status = "posted" /\ docs[o.doc].paid = 0
       \/ o.kind = "pay" /\ docs[o.doc].status = "posted" /\ o.amount > 0
       \/ /\ o.kind = "return" /\ docs[o.doc].status = "posted"
          /\ docs[o.doc].kind = "sale" /\ o.body.units > 0

Begin(r, o) ==
    /\ pc[r] = "idle" /\ Accepts(o)
    /\ Goto(r, "read")
    /\ op' = [op EXCEPT ![r] = o]
    /\ seen' = [seen EXCEPT ![r] = [units |-> docs[o.doc].units, paid |-> docs[o.doc].paid]]
    /\ UNCHANGED <<rows, lock, own, history>>

\* The slot is free again and the rows it held are unlocked.
End(r) ==
    /\ Goto(r, "idle")
    /\ op' = [op EXCEPT ![r] = None]
    /\ seen' = [seen EXCEPT ![r] = None]
    /\ own' = [own EXCEPT ![r] = 0]
    /\ lock' = [x \in Locks |-> IF lock[x] = r THEN None ELSE lock[x]]

\* A commit overtakes every request that has read and not ended.
Overtake(r) ==
    /\ overtaken' = (overtaken \cup {u \in Requests \ {r} : pc[u] # "idle"}) \ {r}
    /\ stale' = stale \cup IF r \in overtaken THEN {op[r].kind} ELSE {}

\* An error, a refusal by a unique index, a deadlock or a crash: the open transaction
\* rolls back, what earlier transactions of the request committed stays.
Fail(r) ==
    /\ pc[r] # "idle"
    /\ End(r)
    /\ overtaken' = overtaken \ {r}
    /\ UNCHANGED <<rows, stale>>

-----------------------------------------------------------------------------
(* postInTx: one transaction. *)

\* sequences.next holds the number row of the document type to the end.
PostNumber(r) ==
    /\ Is(r, "post", "read")
    /\ Free(r, {<<"number", Doc(r).kind>>}) /\ Take(r, {<<"number", Doc(r).kind>>})
    /\ Goto(r, "numbered")
    /\ UNCHANGED <<rows, op, seen, own, history>>

\* recordAutoStock moves the lines as they are now and stamps them with their cost; the
\* index on document type, document and line lets a line in once.  A service, or a draft
\* without lines, moves nothing.  Stock lines given by hand go in instead, as they are.
PostMove(r) ==
    LET byHand == "stock" \in op[r].given
        units == IF Doc(r).stocked /\ ~ byHand THEN Doc(r).units ELSE 0
        held == {<<"stock">> : x \in IF byHand \/ units > 0 THEN {0} ELSE {}}
                \cup {<<"lines", d>> : d \in IF units > 0 THEN {op[r].doc} ELSE {}}
    IN /\ Is(r, "post", "numbered")
       /\ units > 0 => Doc(r).moved = 0
       /\ Free(r, held) /\ Take(r, held)
       /\ own' = [own EXCEPT ![r] = units]
       /\ Goto(r, "moved")
       /\ UNCHANGED <<rows, op, seen, history>>

\* The journal lines are given by hand, or made from the invoice unless it is for nothing.
ByHand(r) == "journal" \in op[r].given
Keyed(r) == ~ ByHand(r) /\ Doc(r).total > 0

\* Fault: a return is posted whatever has become of its sale.
PostJournalUnchecked(r) ==
    LET held == IF ByHand(r) \/ Keyed(r) THEN {<<"journal">>} ELSE {}
    IN /\ Is(r, "post", "moved")
       /\ Keyed(r) => ~ Doc(r).keyed
       /\ Free(r, held) /\ Take(r, held)
       /\ Goto(r, "written")
       /\ UNCHANGED <<rows, op, seen, own, history>>

\* An entry made from the invoice goes in under the key sales-post:id, which is unique,
\* one given by hand without a key; a return is refused when the sale it refers to is
\* void by now.
PostJournal(r) ==
    LET held == IF ByHand(r) \/ Keyed(r) THEN {<<"journal">>} ELSE {}
    IN /\ Is(r, "post", "moved")
       /\ Keyed(r) => ~ Doc(r).keyed
       /\ Doc(r).kind = "return" /\ Doc(r).of # 0 => docs[Doc(r).of].status # "voided"
       /\ Free(r, held) /\ Take(r, held)
       /\ Goto(r, "written")
       /\ UNCHANGED <<rows, op, seen, own, history>>

\* The payment of a cash sale and the update of the header, which no longer matches when
\* the document has stopped being a draft.
PostCommit(r) ==
    LET d == op[r].doc
        pays == op[r].cash /\ Doc(r).kind = "sale" /\ Keyed(r)
        posts == Doc(r).status = "draft"
    IN /\ Is(r, "post", "written")
       /\ Free(r, {<<"header", d>>})
       /\ docs' = [docs EXCEPT
             ![d].status = IF posts THEN "posted" ELSE Doc(r).status,
             ![d].paid = IF posts /\ pays THEN Doc(r).total ELSE Doc(r).paid,
             ![d].posts = Doc(r).posts + 1,
             ![d].given = Doc(r).given \cup op[r].given,
             ![d].entries = IF ByHand(r) \/ Keyed(r) THEN Doc(r).entries + 1 ELSE Doc(r).entries,
             ![d].keyed = Doc(r).keyed \/ Keyed(r),
             ![d].moved = Doc(r).moved + own[r]]
       /\ payments' = IF pays THEN [payments EXCEPT ![Settle(d)] =
                                      [doc |-> d, amount |-> Doc(r).total, rows |-> 1]]
                      ELSE payments
       /\ Overtake(r) /\ End(r)

-----------------------------------------------------------------------------
(* void: a transaction that reads the invoice, one that reads its returns, and one that *)
(* undoes it.                                                                           *)

VoidDerived(r) ==
    /\ Is(r, "void", "read")
    /\ PostedFrom(op[r].doc) = {}
    /\ Goto(r, "derived")
    /\ UNCHANGED <<rows, lock, op, seen, own, history>>

\* An entry of the invoice and its reversal are looked up without a lock.  Both carry the
\* invoice as their source, so that once a reversal exists either may be found, and the
\* reversal has none of its own.  An invoice without an entry needs none.
VoidLookup(r) ==
    /\ Is(r, "void", "derived")
    /\ \E found \in BOOLEAN :
          /\ Doc(r).reversals = 0 => (found <=> Doc(r).entries > 0)
          /\ Goto(r, IF found THEN "reverse" ELSE "reversed")
    /\ UNCHANGED <<rows, lock, op, seen, own, history>>

\* The mirror entry is inserted and the entry it mirrors marked void.
VoidReverse(r) ==
    /\ Is(r, "void", "reverse")
    /\ Free(r, {<<"entry", op[r].doc>>}) /\ Take(r, {<<"entry", op[r].doc>>})
    /\ Goto(r, "mirrored")
    /\ UNCHANGED <<rows, op, seen, own, history>>

\* Fault: the movements that put a document back are not unique.
VoidMirrorAgain(r) ==
    /\ pc[r] \in {"reversed", "mirrored"} /\ op[r].kind = "void"
    /\ Free(r, {<<"stock">>}) /\ Take(r, {<<"stock">>})
    /\ own' = [own EXCEPT ![r] = Doc(r).moved]
    /\ Goto(r, IF pc[r] = "mirrored" THEN "undone" ELSE "untouched")
    /\ UNCHANGED <<rows, op, seen, history>>

\* Every movement of the document is put back; the index lets a line back once, stock
\* lines given by hand as often as it is asked.
VoidMirror(r) ==
    LET held == IF Doc(r).moved > 0 \/ "stock" \in Doc(r).given THEN {<<"stock">>} ELSE {}
    IN /\ pc[r] \in {"reversed", "mirrored"} /\ op[r].kind = "void"
       /\ Doc(r).moved > 0 => Doc(r).back = 0
       /\ Free(r, held) /\ Take(r, held)
       /\ own' = [own EXCEPT ![r] = Doc(r).moved]
       /\ Goto(r, IF pc[r] = "mirrored" THEN "undone" ELSE "untouched")
       /\ UNCHANGED <<rows, op, seen, history>>

VoidCommit(r) ==
    LET d == op[r].doc
    IN /\ pc[r] \in {"undone", "untouched"} /\ op[r].kind = "void"
       /\ Free(r, {<<"header", d>>})
       /\ docs' = [docs EXCEPT
             ![d].status = IF Doc(r).status = "posted" THEN "voided" ELSE Doc(r).status,
             ![d].reversals = IF pc[r] = "undone" THEN Doc(r).reversals + 1 ELSE Doc(r).reversals,
             ![d].back = Doc(r).back + own[r]]
       /\ UNCHANGED payments
       /\ Overtake(r) /\ End(r)

-----------------------------------------------------------------------------
(* addPayment: a transaction that reads the invoice, and one that pays. *)

\* A payment already recorded under the key is returned and nothing is written.
PayReplay(r) ==
    /\ Is(r, "pay", "read") /\ payments[op[r].key].rows > 0
    /\ End(r)
    /\ overtaken' = overtaken \ {r}
    /\ UNCHANGED <<rows, stale>>

\* Fault: the amount is not compared with what is due.
PayInsertUnchecked(r) ==
    /\ Is(r, "pay", "read") /\ payments[op[r].key].rows = 0
    /\ Free(r, {<<"key", op[r].key>>}) /\ Take(r, {<<"key", op[r].key>>})
    /\ Goto(r, "inserted")
    /\ UNCHANGED <<rows, op, seen, own, history>>

\* The amount is compared with the balance of the first read; the insert waits for a
\* payment with the same key and is refused once that has been committed.
PayInsert(r) ==
    /\ Is(r, "pay", "read") /\ payments[op[r].key].rows = 0
    /\ seen[r].paid + op[r].amount <= Doc(r).total
    /\ Free(r, {<<"key", op[r].key>>}) /\ Take(r, {<<"key", op[r].key>>})
    /\ Goto(r, "inserted")
    /\ UNCHANGED <<rows, op, seen, own, history>>

\* paid_total becomes the total of the first read plus the amount, whatever the header
\* says by now.
PayCommit(r) ==
    LET o == op[r]
    IN /\ Is(r, "pay", "inserted")
       /\ Free(r, {<<"header", o.doc>>})
       /\ docs' = [docs EXCEPT ![o.doc].paid = seen[r].paid + o.amount]
       /\ payments' = [payments EXCEPT ![o.key] =
                          [doc |-> o.doc, amount |-> o.amount, rows |-> @.rows + 1]]
       /\ Overtake(r) /\ End(r)

-----------------------------------------------------------------------------
(* returnFrom and updateDraft: three transactions each. *)

\* Fault: only posted returns count.
ReturnCountPosted(r) ==
    /\ Is(r, "return", "read")
    /\ MapThenSumSet(LAMBDA e : docs[e].units,
                     {e \in ReturnsOf(op[r].doc) : docs[e].status = "posted"}) + op[r].body.units
          <= seen[r].units
    /\ Goto(r, "counted")
    /\ UNCHANGED <<rows, lock, op, seen, own, history>>

\* What earlier returns hold, drafts and voided ones included, is set against the lines
\* of the first read.
ReturnCount(r) ==
    /\ Is(r, "return", "read")
    /\ Returned(op[r].doc) + op[r].body.units <= seen[r].units
    /\ Goto(r, "counted")
    /\ UNCHANGED <<rows, lock, op, seen, own, history>>

\* The lines of the draft go in a transaction that does not look at it again.
EditDelete(r) ==
    /\ Is(r, "edit", "read")
    /\ Free(r, {<<"lines", op[r].doc>>})
    /\ docs' = [docs EXCEPT ![op[r].doc].units = 0]
    /\ Goto(r, "counted")
    /\ Overtake(r)
    /\ UNCHANGED <<payments, lock, op, seen, own>>

\* create: the return, or the draft that replaces the edited one, which stays behind and
\* may be anything the body of the edit makes of it.
Create(r) ==
    LET b == op[r].body
    IN /\ pc[r] = "counted" /\ Len(docs) < MaxDocs
       /\ \/ /\ op[r].kind = "return"
             /\ docs' = Append(docs, Draft([b EXCEPT !.as = "return", !.of = op[r].doc], r \notin overtaken))
          \/ /\ op[r].kind = "edit" /\ b.of \in Ids \cup {0}
             /\ docs' = Append(docs, Draft(b, FALSE))
       /\ UNCHANGED payments
       /\ Overtake(r) /\ End(r)

\* create asked for directly: one transaction that inserts what the body says, a return
\* of any quantity among it; the invoice it refers to need only exist.
CreatePlain(b) ==
    /\ Len(docs) < MaxDocs /\ b.of \in Ids \cup {0}
    /\ docs' = Append(docs, Draft(b, FALSE))
    /\ overtaken' = overtaken \cup {u \in Requests : pc[u] # "idle"}
    /\ UNCHANGED <<payments, lock, request, stale>>

-----------------------------------------------------------------------------

\* Steps of a request that end it well, and those on the way.
Completes(r) == PostCommit(r) \/ VoidCommit(r) \/ PayReplay(r) \/ PayCommit(r) \/ Create(r)
Proceeds(r) ==
    \/ PostNumber(r) \/ PostMove(r) \/ PostJournal(r)
    \/ VoidDerived(r) \/ VoidLookup(r) \/ VoidReverse(r) \/ VoidMirror(r)
    \/ PayInsert(r) \/ ReturnCount(r) \/ EditDelete(r)

-----------------------------------------------------------------------------
(* Properties *)

SalesTypeOK ==
    /\ \A d \in Ids :
          /\ docs[d].kind \in {"sale", "return"} /\ docs[d].of \in 0..MaxDocs
          /\ {docs[d].stocked, docs[d].counted, docs[d].keyed} \subseteq BOOLEAN
          /\ docs[d].status \in {"draft", "posted", "voided"}
          /\ docs[d].given \in SUBSET {"journal", "stock"}
          /\ {docs[d].units, docs[d].total, docs[d].paid, docs[d].posts, docs[d].entries,
              docs[d].reversals, docs[d].moved, docs[d].back} \subseteq Nat
    /\ Len(docs) \in 1..MaxDocs
    /\ payments \in [AllKeys -> [doc : 0..MaxDocs, amount : Nat, rows : Nat]]
    /\ lock \in [Locks -> Requests \cup {None}]
    /\ \A r \in Requests : op[r] \in Ops \cup {None} \/ op[r] \in Pays
    /\ own \in [Requests -> Nat]
    /\ started \in 0..MaxRequests
    /\ overtaken \in SUBSET Requests

\* The journal entries a document posted once has: none when it was for nothing.
Owed(doc) == IF doc.total > 0 \/ "journal" \in doc.given THEN 1 ELSE 0

\* The status of a document tells its traces, whichever requests met on it: a draft has
\* none; a posted document has its one entry, if it owes one, and each line moved once
\* unless other stock lines were given by hand; a voided one has every such movement put
\* back once and its entry reversed.  Two things escape.  No index keeps two voids from
\* reversing an invoice that moved nothing twice.  And no index keeps two posts apart of
\* which one was given its journal or stock lines by hand, or of an invoice for nothing
\* that moves nothing or has lost its lines: such a document may be posted twice, and no
\* other.
StatusTellsEffects ==
    \A d \in Ids : LET doc == docs[d] IN
        /\ doc.status = "draft" =>
              doc.posts = 0 /\ doc.entries = 0 /\ doc.moved = 0
        /\ doc.posts > 1 =>
              "post" \in stale /\ (doc.given # {} \/ (doc.total = 0 /\ 0 \in {doc.moved, doc.units}))
        /\ doc.status = "posted" /\ doc.posts = 1 =>
              /\ doc.entries = Owed(doc) /\ doc.reversals = 0 /\ doc.back = 0
              /\ doc.stocked /\ doc.units > 0 /\ "stock" \notin doc.given => doc.moved = doc.units
        /\ doc.status = "voided" /\ doc.posts = 1 =>
              /\ doc.entries = Owed(doc) /\ doc.back = doc.moved
              /\ \/ doc.reversals = doc.entries
                 \/ (doc.moved = 0 /\ "void" \in stale /\ doc.reversals > 1 /\ doc.entries = 1)

PaidRows(d) ==
    MapThenSumSet(LAMBDA k : IF payments[k].doc = d THEN payments[k].amount * payments[k].rows
                             ELSE 0, AllKeys)

\* What an invoice says is paid is what its payments come to, never more than its total,
\* however often a payment is sent again under its key; as long as no payment was made
\* on a balance that another request had changed, and but for an invoice posted twice.
PaidTellsPayments ==
    "pay" \notin stale =>
        \A d \in Ids : docs[d].posts <= 1 => docs[d].paid = PaidRows(d) /\ PaidRows(d) <= docs[d].total

\* A voided sale stands alone: it has no payment and no posted return refers to it, as
\* long as no void, payment or posting was decided from what another request has changed.
VoidedStandsAlone ==
    stale \cap {"void", "pay", "post"} = {} =>
        \A d \in Ids : docs[d].status = "voided" =>
            PaidRows(d) = 0 /\ \A e \in PostedFrom(d) : docs[e].kind = "sale"

\* What the returns of a sale take back up to the return e.
ReturnedUpTo(e) ==
    MapThenSumSet(LAMBDA i : docs[i].units, {i \in ReturnsOf(docs[e].of) : i <= e})

\* A return made by the return endpoint fits into what is left of the sale: with every
\* return before it, drafts and voided ones among them and whichever way they came, no
\* more comes back than was sold.  Returns created directly or by an edit are not held to
\* it, nor those counted by a request that another overtook; and a late edit may have
\* taken the lines of the sale away.
ReturnsWithinSale ==
    "edit" \notin stale =>
        \A e \in Ids : docs[e].counted => ReturnedUpTo(e) <= docs[docs[e].of].units
=============================================================================
