--------------------------- MODULE CardPaymentProofs ---------------------------
(***************************************************************************)
(* Proofs about CardPayment and the sales module under it, for any         *)
(* requests, keys, documents, references and bodies: that the status of an *)
(* invoice tells its entries and its movements, that what it says is paid  *)
(* is the sum of its payments, that a voided sale stands alone, that no    *)
(* counted return takes back more than was sold, and that the money of a   *)
(* card reaches the invoice once.                                          *)
(*                                                                         *)
(* The invariant has two halves.  SalesInv says of every document what its *)
(* status and its posts tell and of every request what it has locked and   *)
(* read, and of one that nobody has overtaken that it still is so; CardInv *)
(* says of every till what it knows of the charge, and of every reference  *)
(* how far charges, rows and payment have come.                            *)
(***************************************************************************)
EXTENDS CardPayment, SumTheorems

-----------------------------------------------------------------------------
(* The inductive invariant *)

DocRec == [kind : {"sale", "return"}, of : 0..MaxDocs, stocked : BOOLEAN, units : Nat, counted : BOOLEAN,
           total : Nat, status : {"draft", "posted", "voided"}, paid : Nat, posts : Nat,
           given : SUBSET {"journal", "stock"}, entries : Nat, keyed : BOOLEAN, reversals : Nat,
           moved : Nat, back : Nat]

Asked == Posts \cup Voids \cup Pays \cup Returns \cup Edits

Labels(kind) ==
    CASE kind = "post" -> {"read", "numbered", "moved", "written"}
      [] kind = "void" -> {"read", "derived", "reverse", "reversed", "mirrored", "undone", "untouched"}
      [] kind = "pay"  -> {"read", "inserted"}
      [] OTHER         -> {"read", "counted"}

RowTypes == [AllKeys -> [doc : 0..MaxDocs, amount : Nat, rows : {0, 1}]]

\* The types of the sales module, with what an occupied slot holds.
SalesTypes ==
    /\ docs \in Seq(DocRec) /\ Len(docs) \in 1..MaxDocs
    /\ payments \in RowTypes
    /\ lock \in [Locks -> Requests \cup {None}]
    /\ DOMAIN pc = Requests /\ DOMAIN op = Requests /\ DOMAIN seen = Requests
    /\ own \in [Requests -> Nat]
    /\ overtaken \in SUBSET Requests
    /\ \A r \in Requests :
          IF pc[r] = "idle" THEN op[r] = None
          ELSE /\ op[r] \in Ops \cup Pays /\ op[r] \in Asked /\ op[r].doc \in Ids
               /\ pc[r] \in Labels(op[r].kind)
               /\ seen[r] \in [units : Nat, paid : Nat]

Busy(r, kinds) == pc[r] # "idle" /\ op[r].kind \in kinds

\* A document as it is created.
Blank(doc) ==
    /\ doc.status = "draft" /\ doc.posts = 0 /\ doc.given = {} /\ doc.entries = 0 /\ ~ doc.keyed
    /\ doc.reversals = 0 /\ doc.moved = 0 /\ doc.back = 0 /\ doc.paid = 0

\* What a posted document has from its posts, however many they were: its entry is under
\* its key and its lines are moved, unless they were given by hand; and a second post was
\* late, and only possible of what no index keeps apart.
PostsTell(doc) ==
    /\ doc.posts > 0
    /\ doc.total > 0 /\ "journal" \notin doc.given => doc.keyed
    /\ doc.stocked /\ doc.units > 0 /\ "stock" \notin doc.given => doc.moved > 0
    /\ doc.posts > 1 =>
          "post" \in stale /\ (doc.given # {} \/ (doc.total = 0 /\ 0 \in {doc.moved, doc.units}))

\* What a document's status says of it.
DocOK(d) == LET doc == docs[d] IN
    /\ ~ doc.stocked => doc.moved = 0
    /\ doc.status = "draft" => Blank(doc)
    /\ doc.status # "draft" => PostsTell(doc)
    /\ doc.status = "posted" /\ doc.posts = 1 =>
          /\ doc.entries = Owed(doc) /\ doc.reversals = 0 /\ doc.back = 0
          /\ doc.stocked /\ doc.units > 0 /\ "stock" \notin doc.given => doc.moved = doc.units
    /\ doc.status = "voided" /\ doc.posts = 1 =>
          /\ doc.entries = Owed(doc) /\ doc.back = doc.moved
          /\ \/ doc.reversals = doc.entries
             \/ (doc.moved = 0 /\ "void" \in stale /\ doc.reversals > 1 /\ doc.entries = 1)

\* What a request that is under way has locked and found, whoever overtook it; and of a
\* void, as long as its document was posted once.
HoldsPost(r) ==
    /\ Is(r, "post", "written") /\ Keyed(r) => ~ Doc(r).keyed /\ lock[<<"journal">>] = r
    /\ Busy(r, {"post"}) /\ pc[r] \in {"moved", "written"} =>
          /\ own[r] = IF Doc(r).stocked /\ "stock" \notin op[r].given THEN Doc(r).units ELSE 0
          /\ own[r] > 0 => lock[<<"lines", op[r].doc>>] = r /\ lock[<<"stock">>] = r /\ Doc(r).moved = 0

HoldsVoid(r) ==
    Busy(r, {"void"}) /\ Doc(r).posts = 1 =>
        /\ pc[r] \in {"reverse", "mirrored", "undone"} => Doc(r).entries > 0
        /\ pc[r] \in {"reversed", "untouched"} => Doc(r).reversals > 0 \/ Doc(r).entries = 0
        /\ pc[r] \in {"undone", "untouched"} =>
              /\ own[r] = Doc(r).moved
              /\ Doc(r).moved > 0 => lock[<<"stock">>] = r /\ Doc(r).back = 0

HoldsPay(r) ==
    Is(r, "pay", "inserted") =>
        /\ lock[<<"key", op[r].key>>] = r /\ payments[op[r].key].rows = 0
        /\ seen[r].paid + op[r].amount <= Doc(r).total

Holds(r) ==
    /\ Busy(r, {"void", "pay", "return"}) => Doc(r).status # "draft"
    /\ HoldsPost(r) /\ HoldsVoid(r) /\ HoldsPay(r)

\* What it has read and may still rely on, as long as nobody has overtaken it.
Current(r) ==
    /\ Busy(r, {"post"}) => Doc(r).status = "draft"
    /\ Busy(r, {"void"}) => /\ Doc(r).status = "posted" /\ Doc(r).paid = 0
                            /\ pc[r] # "read" => PostedFrom(op[r].doc) = {}
    /\ Busy(r, {"pay"}) => Doc(r).status = "posted" /\ seen[r].paid = Doc(r).paid
    /\ Busy(r, {"return"}) =>
          /\ seen[r].units = Doc(r).units
          /\ pc[r] = "counted" => Returned(op[r].doc) + op[r].body.units <= Doc(r).units
    /\ Is(r, "edit", "read") => Doc(r).status = "draft"
    /\ Is(r, "post", "written") /\ Doc(r).kind = "return" /\ Doc(r).of # 0 =>
          docs[Doc(r).of].status # "voided"

\* Where the documents and the payments come from.
Origins ==
    /\ \A d \in Ids :
          /\ docs[d].of \in Ids \cup {0}
          /\ docs[d].counted => docs[d].of \in Ids /\ docs[docs[d].of].status # "draft"
    /\ \A k \in AllKeys : payments[k].rows > 0 => payments[k].doc \in Ids
    /\ \A d \in 1..MaxDocs : payments[Settle(d)].rows > 0 =>
          d \in Ids /\ payments[Settle(d)].doc = d /\ docs[d].keyed

SalesInv ==
    /\ SalesTypes /\ Origins
    /\ \A d \in Ids : DocOK(d)
    /\ \A r \in Requests : Holds(r) /\ (r \notin overtaken => Current(r))
    /\ PaidTellsPayments /\ VoidedStandsAlone /\ ReturnsWithinSale

TillRec == [gate : Gateways \cup {"none"}, ref : References \cup {None},
            stage : {"none", "press", "checked", "answered", "approved", "settling",
                     "settled", "refresh", "asked"},
            answer : Answers]

TillTypes ==
    /\ started \in 0..MaxRequests
    /\ till \in [Requests -> TillRec]
    /\ sales \in [CardSales -> [status : Answers, settled : BOOLEAN]]
    /\ session \in [References -> {"none", "open", "approved", "declined", "cancelled"}]
    /\ charged \in [CardSales -> Nat]
    /\ unsure \in SUBSET References /\ unbacked \in SUBSET References

\* A card operation: whom it occupies, and what it has heard.
TillOK(r) ==
    /\ till[r].stage = "none" => till[r].ref = None
    /\ till[r].stage # "none" => till[r].ref \in References /\ till[r].gate \in Gateways
    /\ till[r].stage \notin {"none", "settling"} => pc[r] = "idle"
    /\ till[r].stage = "settling" => pc[r] # "idle" /\ op[r] = Settlement(r)
    /\ Busy(r, {"pay"}) /\ op[r].key \in References =>
          till[r].stage = "settling" \/ op[r].key \in unbacked
    /\ till[r].stage = "settled" => payments[till[r].ref].rows = 1
    /\ till[r].stage = "answered" =>
          till[r].answer \in IF till[r].gate = "geidea" THEN {"initiated", "error"} ELSE Final \cup {"unknown"}
    /\ till[r].stage = "answered" /\ till[r].answer = "initiated" => session[till[r].ref] # "none"
    /\ till[r].stage = "asked" => till[r].answer # "none"
    /\ till[r].stage \in {"refresh", "asked"} => till[r].gate = "geidea" /\ session[till[r].ref] # "none"

\* Of a reference nobody paid under and no gateway approved for nothing: what stands for
\* money stands for a charge.
BackedTill(r) ==
    (\/ till[r].stage \in {"approved", "settling", "settled"}
     \/ (till[r].stage \in {"answered", "asked"} /\ till[r].answer = "approved"))
    => charged[Sale(r)] > 0

BackedOK(f) ==
    /\ payments[f].rows > 0 => charged[<<"neoleap", f>>] + charged[<<"geidea", f>>] > 0
    /\ session[f] = "approved" => charged[<<"geidea", f>>] > 0
    /\ \A g \in Gateways : sales[<<g, f>>].status = "approved" => charged[<<g, f>>] > 0
    /\ \A r \in Requests : till[r].ref = f => BackedTill(r)

\* Of a reference of which nothing was lost, and on which no two operations met: what the
\* one operation on it may rely on ...
SureTill(r) ==
    /\ till[r].stage = "checked" => sales[Sale(r)].status = "none"
    /\ till[r].stage = "answered" /\ charged[Sale(r)] = 1 =>
          till[r].answer = "approved" \/ (till[r].gate = "geidea" /\ till[r].answer = "initiated")
    /\ till[r].stage = "answered" /\ till[r].gate = "geidea" /\ till[r].answer = "error" =>
          session[till[r].ref] = "none"
    /\ till[r].stage = "asked" /\ till[r].answer \in {"approved", "declined", "cancelled"} =>
          session[till[r].ref] = till[r].answer
    /\ till[r].stage \in {"approved", "settling", "settled"} /\ till[r].gate = "geidea" =>
          session[till[r].ref] = "approved"

\* ... and how far its row, its session and its charge have come.
Answered(s) == \E r \in Requests : Sale(r) = s /\ till[r].stage = "answered"

SureSale(s) ==
    /\ charged[s] <= 1
    /\ sales[s].status = "none" => charged[s] = 0 \/ Answered(s)
    /\ sales[s].status = "approved" => sales[s].settled \/ UnderWay(s)
    /\ charged[s] = 1 => \/ sales[s].settled
                        \/ UnderWay(s)
                        \/ (s[1] = "geidea" /\ sales[s].status \in {"initiated", "unknown"})

SureSession(f) == LET s == <<"geidea", f>> IN
    /\ session[f] # "approved" => charged[s] = 0
    /\ session[f] = "open" => UnderWay(s) \/ sales[s].status \in {"initiated", "unknown"}
    /\ sales[s].status = "none" => session[f] = "none" \/ Answered(s)

SureOK(f) ==
    /\ \A r, u \in Requests : till[r].ref = f /\ till[u].ref = f => r = u
    /\ \A r \in Requests : till[r].ref = f => SureTill(r)
    /\ \A g \in Gateways : SureSale(<<g, f>>)
    /\ SureSession(f)

ReferenceOK(f) ==
    /\ \A g \in Gateways : sales[<<g, f>>].settled => payments[f].rows = 1
    /\ sales[<<"geidea", f>>].status \notin Final \cup {"none"} => session[f] # "none"
    /\ f \notin unbacked => BackedOK(f)
    /\ f \notin unsure => SureOK(f)

CardInv ==
    /\ TillTypes
    /\ \A r \in Requests : TillOK(r)
    /\ \A f \in References : ReferenceOK(f)

IInv == SalesInv /\ CardInv

-----------------------------------------------------------------------------
(* What a step of the sales module changes *)

\* The steps that leave the rows as they are, those that write to the document of the
\* request, and the one that adds a document.
Reads(r) ==
    \/ \E o \in Ops \cup Pays : Begin(r, o)
    \/ PostNumber(r) \/ PostMove(r) \/ PostJournal(r)
    \/ VoidDerived(r) \/ VoidLookup(r) \/ VoidReverse(r) \/ VoidMirror(r)
    \/ PayInsert(r) \/ ReturnCount(r) \/ PayReplay(r) \/ Fail(r)

Commits(r) == PostCommit(r) \/ VoidCommit(r) \/ PayCommit(r) \/ EditDelete(r)

\* The steps of a request of the sales module, and the steps of a till that are none.
SalesMove(r) ==
    (\E o \in Ops \cup Pays : Begin(r, o)) \/ Proceeds(r) \/ Completes(r) \/ Fail(r)

Quiet == UNCHANGED <<rows, lock, request, history>>

LEMMA MoveKinds == \A r : SalesMove(r) <=> Reads(r) \/ Commits(r) \/ Create(r)
BY DEF SalesMove, Reads, Commits, Proceeds, Completes

\* An operation in general is one of five.
LEMMA OpKinds ==
    ASSUME NEW o \in Ops \cup Pays
    PROVE  o \in Asked
BY SalesAssumption DEF Asked

LEMMA SettlementIsPay ==
    ASSUME NEW r \in Requests, till[r].ref \in References
    PROVE  Settlement(r) \in Pays
BY SalesAssumption, CardAssumption DEF Settlement, Pays

\* A step of the model moves the sales module, creates a document directly, or leaves the
\* sales module alone.
LEMMA StepKinds ==
    ASSUME CardInv, CardNext
    PROVE  Quiet \/ (\E r \in Requests : SalesMove(r)) \/ \E b \in Bodies : CreatePlain(b)
<1>1. ASSUME NEW r \in Requests, SalesStep(r) \/ SalesDone(r) \/ SalesFail(r) PROVE SalesMove(r)
  BY <1>1 DEF SalesStep, SalesDone, SalesFail, SalesMove
<1>2. ASSUME NEW r \in Requests, NEW o \in Ops, AskFor(r, o) PROVE SalesMove(r)
  BY <1>2 DEF AskFor, SalesMove
<1>3. ASSUME NEW r \in Requests, SettleStart(r) PROVE SalesMove(r)
  <2>1. till[r].stage = "approved" /\ Begin(r, Settlement(r))
    BY <1>3 DEF SettleStart, At
  <2>2. Settlement(r) \in Pays
    BY <2>1, SettlementIsPay DEF CardInv, TillOK
  <2> QED BY <2>1, <2>2 DEF SalesMove
<1>4. ASSUME NEW r \in Requests, NEW f \in References,
             Refresh(r, f) \/ \E g \in Gateways : Press(r, g, f)
      PROVE  Quiet
  BY <1>4 DEF Press, Refresh, Quiet
<1>5. ASSUME NEW r \in Requests,
             \/ CheckReference(r) \/ Charge(r) \/ OpenSession(r) \/ Record(r)
             \/ MarkSettled(r) \/ Ask(r) \/ Rewrite(r) \/ BreakOff(r)
      PROVE  Quiet
  BY <1>5 DEF CheckReference, Charge, OpenSession, Record, MarkSettled, Ask, Rewrite,
              BreakOff, Quiet, salesVars
<1>6. ASSUME NEW f \in References, Cardholder(f) PROVE Quiet
  BY <1>6 DEF Cardholder, Quiet, salesVars
<1>7. ASSUME NEW b \in Bodies, CreateFor(b) PROVE CreatePlain(b)
  BY <1>7 DEF CreateFor
<1> QED BY <1>1, <1>2, <1>3, <1>4, <1>5, <1>6, <1>7 DEF CardNext

\* A request keeps to its own slot and to rows nobody else has locked, and when it
\* commits it overtakes whoever is under way.
OthersKeep(r) ==
    \A u \in Requests \ {r} :
        /\ pc'[u] = pc[u] /\ op'[u] = op[u] /\ seen'[u] = seen[u] /\ own'[u] = own[u]
        /\ \A x \in Locks : lock[x] = u => lock'[x] = u
        /\ u \in overtaken => u \in overtaken'

SlotTypes ==
    /\ lock \in [Locks -> Requests \cup {None}]
    /\ DOMAIN pc = Requests /\ DOMAIN op = Requests /\ DOMAIN seen = Requests
    /\ own \in [Requests -> Nat]
    /\ overtaken \in SUBSET Requests

LEMMA TakeKeeps ==
    ASSUME SlotTypes, NEW r \in Requests, NEW S, Free(r, S), Take(r, S)
    PROVE  /\ lock' \in [Locks -> Requests \cup {None}]
           /\ \A x \in Locks, u \in Requests \ {r} : lock[x] = u => lock'[x] = u
           /\ \A x \in Locks : (x \in S \/ lock[x] = r) => lock'[x] = r
BY SalesAssumption DEF SlotTypes, Free, Take

LEMMA EndKeeps ==
    ASSUME SlotTypes, NEW r \in Requests, End(r)
    PROVE  /\ lock' \in [Locks -> Requests \cup {None}]
           /\ \A x \in Locks, u \in Requests \ {r} : lock[x] = u => lock'[x] = u
           /\ DOMAIN pc' = Requests /\ DOMAIN op' = Requests /\ DOMAIN seen' = Requests
           /\ own' \in [Requests -> Nat]
           /\ \A u \in Requests \ {r} : /\ pc'[u] = pc[u] /\ op'[u] = op[u]
                                       /\ seen'[u] = seen[u] /\ own'[u] = own[u]
           /\ pc'[r] = "idle" /\ op'[r] = None
BY SalesAssumption DEF SlotTypes, End, Goto

LEMMA OvertakeKeeps ==
    ASSUME SlotTypes, NEW r \in Requests, Overtake(r)
    PROVE  /\ overtaken' \in SUBSET Requests
           /\ \A u \in Requests \ {r} : /\ u \in overtaken => u \in overtaken'
                                       /\ pc[u] # "idle" => u \in overtaken'
BY DEF SlotTypes, Overtake

\* The document of a request under way.
LEMMA DocTypes ==
    ASSUME SalesTypes, NEW r \in Requests, pc[r] # "idle"
    PROVE  /\ op[r].doc \in Ids /\ Doc(r) \in DocRec /\ op[r] \in Asked
           /\ docs \in [Ids -> DocRec] /\ Ids = 1..Len(docs) /\ Len(docs) \in Nat /\ Ids \subseteq 1..MaxDocs
<1>1. op[r].doc \in Ids /\ op[r] \in Asked
  BY DEF SalesTypes
<1>2. docs \in Seq(DocRec) /\ Len(docs) \in 1..MaxDocs
  BY DEF SalesTypes
<1>3. docs \in [Ids -> DocRec] /\ Ids = 1..Len(docs) /\ Len(docs) \in Nat /\ Ids \subseteq 1..MaxDocs
  BY <1>2, SalesAssumption DEF Ids
<1> HIDE DEF Ids
<1> QED BY <1>1, <1>3 DEF Doc

\* What the kinds of requests carry.
LEMMA AskedKinds ==
    ASSUME NEW o \in Asked
    PROVE  /\ o.kind \in {"post", "void", "pay", "return", "edit"}
           /\ o.kind = "post" => o.cash \in BOOLEAN /\ o.given \in SUBSET {"journal", "stock"}
           /\ o.kind = "pay" => o.key \in Keys /\ o.amount \in Nat
           /\ o.kind \in {"return", "edit"} => o.body \in Inputs
BY DEF Asked, Posts, Voids, Pays, Returns, Edits

LEMMA TypesSlots == SalesTypes => SlotTypes
BY DEF SalesTypes, SlotTypes

LEMMA ReadsStay ==
    ASSUME SalesTypes, NEW r \in Requests, Reads(r)
    PROVE  /\ SlotTypes' /\ OthersKeep(r) /\ UNCHANGED <<rows, stale>>
           /\ r \notin overtaken' => (r \notin overtaken \/ pc[r] = "idle" \/ pc'[r] = "idle")
<1> USE TypesSlots
<1>0. SlotTypes OBVIOUS
<1>1. ASSUME NEW o \in Ops \cup Pays, Begin(r, o) PROVE SlotTypes' /\ OthersKeep(r) /\ UNCHANGED <<rows, stale>>
  BY <1>0, <1>1 DEF Begin, Goto, SlotTypes, OthersKeep, rows, history
<1>2. ASSUME NEW S, Free(r, S), Take(r, S), \E l : Goto(r, l), UNCHANGED <<op, seen, own, overtaken>>
      PROVE SlotTypes' /\ OthersKeep(r)
  BY <1>0, <1>2, TakeKeeps DEF Goto, SlotTypes, OthersKeep
<1>3. ASSUME NEW S, Free(r, S), Take(r, S), \E l : Goto(r, l), NEW n \in Nat, own' = [own EXCEPT ![r] = n],
             UNCHANGED <<op, seen, overtaken>>
      PROVE SlotTypes' /\ OthersKeep(r)
  BY <1>0, <1>3, TakeKeeps DEF Goto, SlotTypes, OthersKeep
<1>4. ASSUME \E l : Goto(r, l), UNCHANGED <<lock, op, seen, own, overtaken>>
      PROVE SlotTypes' /\ OthersKeep(r)
  BY <1>0, <1>4 DEF Goto, SlotTypes, OthersKeep
<1>5. ASSUME End(r), overtaken' = overtaken \ {r}
      PROVE SlotTypes' /\ OthersKeep(r)
  BY <1>0, <1>5, EndKeeps DEF SlotTypes, OthersKeep
<1>6. CASE PostNumber(r)
  BY <1>2, <1>6 DEF PostNumber, history, rows
<1>7. CASE PostMove(r)
  <2> DEFINE n == IF Doc(r).stocked /\ "stock" \notin op[r].given THEN Doc(r).units ELSE 0
  <2>1. pc[r] # "idle" BY <1>7 DEF PostMove, Is
  <2>2. n \in Nat BY <2>1, DocTypes DEF DocRec
  <2>3. own' = [own EXCEPT ![r] = n]
    BY <1>7 DEF PostMove
  <2> HIDE DEF n
  <2> QED BY <1>3, <1>7, <2>2, <2>3 DEF PostMove, history, rows
<1>8. CASE PostJournal(r)
  BY <1>2, <1>8 DEF PostJournal, history, rows
<1>9. CASE VoidDerived(r) \/ VoidLookup(r) \/ ReturnCount(r)
  BY <1>4, <1>9 DEF VoidDerived, VoidLookup, ReturnCount, history, rows
<1>10. CASE VoidReverse(r)
  BY <1>2, <1>10 DEF VoidReverse, history, rows
<1>11. CASE VoidMirror(r)
  <2>1. pc[r] # "idle" BY <1>11 DEF VoidMirror
  <2>2. Doc(r).moved \in Nat BY <2>1, DocTypes DEF DocRec
  <2> QED BY <1>3, <1>11, <2>2 DEF VoidMirror, history, rows
<1>12. CASE PayInsert(r)
  BY <1>2, <1>12 DEF PayInsert, history, rows
<1>13. CASE PayReplay(r)
  BY <1>0, <1>5, <1>13, EndKeeps DEF PayReplay, rows
<1>14. CASE Fail(r)
  BY <1>0, <1>5, <1>14, EndKeeps DEF Fail, rows
<1>15. CASE \E o \in Ops \cup Pays : Begin(r, o)
  BY <1>1, <1>15 DEF Begin
<1> QED
  BY <1>6, <1>7, <1>8, <1>9, <1>10, <1>11, <1>12, <1>13, <1>14, <1>15 DEF Reads

LEMMA CommitsStay ==
    ASSUME SalesTypes, NEW r \in Requests, Commits(r) \/ Create(r)
    PROVE  /\ SlotTypes' /\ OthersKeep(r)
           /\ \A u \in Requests \ {r} : pc[u] # "idle" => u \in overtaken'
           /\ stale' = stale \cup IF r \in overtaken THEN {op[r].kind} ELSE {}
           /\ EditDelete(r) \/ (pc'[r] = "idle" /\ op'[r] = None)
<1> USE TypesSlots
<1>1. Overtake(r) /\ (End(r) \/ EditDelete(r))
  BY DEF Commits, PostCommit, VoidCommit, PayCommit, EditDelete, Create
<1>2. CASE End(r)
  BY <1>1, <1>2, EndKeeps, OvertakeKeeps DEF SlotTypes, OthersKeep, Overtake
<1>3. CASE EditDelete(r)
  BY <1>1, <1>3, OvertakeKeeps DEF EditDelete, Goto, SlotTypes, OthersKeep, Overtake
<1> QED BY <1>1, <1>2, <1>3

-----------------------------------------------------------------------------
(* What a commit makes of its document *)

\* One document of a sequence is replaced.
LEMMA OneReplaced ==
    ASSUME NEW s \in Seq(DocRec), NEW d \in DOMAIN s, NEW new \in DocRec, NEW t,
           t = [s EXCEPT ![d] = new]
    PROVE  /\ t \in Seq(DocRec) /\ Len(t) = Len(s) /\ DOMAIN t = DOMAIN s
           /\ t[d] = new /\ \A e \in DOMAIN s \ {d} : t[e] = s[e]
OBVIOUS

\* A commit of r replaces the document of r by new, and leaves what no request changes.
Becomes(r, new) ==
    /\ new \in DocRec /\ docs' = [docs EXCEPT ![op[r].doc] = new]
    /\ new.kind = Doc(r).kind /\ new.of = Doc(r).of /\ new.counted = Doc(r).counted
    /\ new.stocked = Doc(r).stocked /\ new.total = Doc(r).total

\* A post pays the sale it posts: it is a cash sale, and its entry is made from the invoice.
PaysAtOnce(r) == op[r].cash /\ Doc(r).kind = "sale" /\ Keyed(r)

\* What a post makes of a document.
Posted(r, old, new) ==
    /\ new.status = (IF old.status = "draft" THEN "posted" ELSE old.status)
    /\ new.paid = (IF old.status = "draft" /\ PaysAtOnce(r) THEN old.total ELSE old.paid)
    /\ new.posts = old.posts + 1
    /\ new.given = old.given \cup op[r].given
    /\ new.entries = (IF ByHand(r) \/ Keyed(r) THEN old.entries + 1 ELSE old.entries)
    /\ new.keyed = (old.keyed \/ Keyed(r))
    /\ new.moved = old.moved + own[r]
    /\ new.units = old.units /\ new.reversals = old.reversals /\ new.back = old.back

LEMMA PostCommitDoc ==
    ASSUME SalesTypes, NEW r \in Requests, PostCommit(r)
    PROVE  /\ pc[r] = "written" /\ op[r].kind = "post"
           /\ payments' = IF PaysAtOnce(r)
                          THEN [payments EXCEPT ![Settle(op[r].doc)] =
                                  [doc |-> op[r].doc, amount |-> Doc(r).total, rows |-> 1]]
                          ELSE payments
           /\ \E new : Becomes(r, new) /\ Posted(r, Doc(r), new)
<1> DEFINE d == op[r].doc
           old == docs[d]
           pays == op[r].cash /\ old.kind = "sale" /\ Keyed(r)
           status == IF old.status = "draft" THEN "posted" ELSE old.status
           paid == IF old.status = "draft" /\ pays THEN old.total ELSE old.paid
           entries == IF ByHand(r) \/ Keyed(r) THEN old.entries + 1 ELSE old.entries
           new == [old EXCEPT !.status = status, !.paid = paid, !.posts = old.posts + 1,
                              !.given = old.given \cup op[r].given, !.entries = entries,
                              !.keyed = old.keyed \/ Keyed(r), !.moved = old.moved + own[r]]
<1>1. /\ d \in Ids /\ old \in DocRec /\ docs \in [Ids -> DocRec] /\ own[r] \in Nat
      /\ pc[r] = "written" /\ op[r].kind = "post" /\ op[r].given \in SUBSET {"journal", "stock"}
  <2>1. pc[r] = "written" /\ op[r].kind = "post"
    BY DEF PostCommit, Is
  <2> QED BY <2>1, DocTypes, AskedKinds DEF Doc, SalesTypes
<1>2. docs' = [docs EXCEPT ![d] = new]
  <2>1. docs' = [docs EXCEPT
             ![d].status = status, ![d].paid = paid, ![d].posts = old.posts + 1,
             ![d].given = old.given \cup op[r].given, ![d].entries = entries,
             ![d].keyed = old.keyed \/ Keyed(r), ![d].moved = old.moved + own[r]]
    BY DEF PostCommit, Doc
  <2> HIDE DEF status, paid, entries, old
  <2> QED BY <1>1, <2>1 DEF DocRec, old
<1>3. payments' = IF pays
                  THEN [payments EXCEPT ![Settle(d)] = [doc |-> d, amount |-> old.total, rows |-> 1]]
                  ELSE payments
  BY DEF PostCommit, Doc
<1>4. /\ status \in {"draft", "posted", "voided"} /\ paid \in Nat /\ old.posts + 1 \in Nat
      /\ entries \in Nat /\ old.moved + own[r] \in Nat
  BY <1>1 DEF DocRec
<1>5. (old.keyed \/ Keyed(r)) \in BOOLEAN
  OBVIOUS
<1>6. old.given \cup op[r].given \in SUBSET {"journal", "stock"}
  BY <1>1 DEF DocRec
<1> HIDE DEF status, paid, entries, old, pays
<1>7. /\ new \in DocRec /\ new.kind = old.kind /\ new.of = old.of /\ new.counted = old.counted
      /\ new.stocked = old.stocked /\ new.total = old.total
      /\ new.status = status /\ new.paid = paid /\ new.posts = old.posts + 1
      /\ new.given = old.given \cup op[r].given /\ new.entries = entries
      /\ new.keyed = (old.keyed \/ Keyed(r)) /\ new.moved = old.moved + own[r]
      /\ new.units = old.units /\ new.reversals = old.reversals /\ new.back = old.back
  BY <1>1, <1>4, <1>5, <1>6 DEF DocRec
<1>8. Doc(r) = old /\ (PaysAtOnce(r) <=> pays) BY DEF Doc, old, PaysAtOnce, pays
<1> HIDE DEF new
<1>9. Becomes(r, new)
  BY <1>2, <1>7, <1>8 DEF Becomes
<1>10. Posted(r, old, new)
  BY <1>7, <1>8 DEF Posted, status, paid, entries
<1> QED BY <1>1, <1>3, <1>8, <1>9, <1>10

\* What a void makes of it.
Voided(r, old, new) ==
    /\ new.status = (IF old.status = "posted" THEN "voided" ELSE old.status)
    /\ new.reversals = (IF pc[r] = "undone" THEN old.reversals + 1 ELSE old.reversals)
    /\ new.back = old.back + own[r]
    /\ new.units = old.units /\ new.paid = old.paid /\ new.posts = old.posts /\ new.given = old.given
    /\ new.entries = old.entries /\ new.keyed = old.keyed /\ new.moved = old.moved

LEMMA VoidCommitDoc ==
    ASSUME SalesTypes, NEW r \in Requests, VoidCommit(r)
    PROVE  /\ pc[r] \in {"undone", "untouched"} /\ op[r].kind = "void" /\ UNCHANGED payments
           /\ \E new : Becomes(r, new) /\ Voided(r, Doc(r), new)
<1> DEFINE d == op[r].doc
           old == docs[d]
           status == IF old.status = "posted" THEN "voided" ELSE old.status
           reversals == IF pc[r] = "undone" THEN old.reversals + 1 ELSE old.reversals
           new == [old EXCEPT !.status = status, !.reversals = reversals, !.back = old.back + own[r]]
<1>1. /\ d \in Ids /\ old \in DocRec /\ docs \in [Ids -> DocRec] /\ own[r] \in Nat
      /\ pc[r] \in {"undone", "untouched"} /\ op[r].kind = "void"
  BY DocTypes DEF VoidCommit, Doc, SalesTypes
<1>2. docs' = [docs EXCEPT ![d] = new] /\ UNCHANGED payments
  BY <1>1 DEF VoidCommit, Doc, DocRec
<1>3. status \in {"draft", "posted", "voided"} /\ reversals \in Nat /\ old.back + own[r] \in Nat
  BY <1>1 DEF DocRec
<1> HIDE DEF status, reversals, old
<1>4. /\ new \in DocRec /\ new.kind = old.kind /\ new.of = old.of /\ new.counted = old.counted
      /\ new.stocked = old.stocked /\ new.total = old.total
      /\ new.status = status /\ new.reversals = reversals /\ new.back = old.back + own[r]
      /\ new.units = old.units /\ new.paid = old.paid /\ new.posts = old.posts /\ new.given = old.given
      /\ new.entries = old.entries /\ new.keyed = old.keyed /\ new.moved = old.moved
  BY <1>1, <1>3 DEF DocRec
<1>5. Doc(r) = old BY DEF Doc, old
<1> HIDE DEF new
<1>6. Becomes(r, new) /\ Voided(r, old, new)
  BY <1>2, <1>4, <1>5 DEF Becomes, Voided, status, reversals
<1> QED BY <1>1, <1>2, <1>5, <1>6

\* A payment changes what is paid, an edit the units, and nothing else.
SameTraces(old, new) ==
    /\ new.status = old.status /\ new.posts = old.posts /\ new.given = old.given
    /\ new.entries = old.entries /\ new.keyed = old.keyed /\ new.reversals = old.reversals
    /\ new.moved = old.moved /\ new.back = old.back

LEMMA PayCommitDoc ==
    ASSUME SalesTypes, NEW r \in Requests, Holds(r), PayCommit(r)
    PROVE  /\ Doc(r).status # "draft" /\ pc[r] = "inserted" /\ op[r].kind = "pay"
           /\ op[r].key \in Keys /\ op[r].amount \in Nat
           /\ lock[<<"key", op[r].key>>] = r /\ payments[op[r].key].rows = 0
           /\ payments' = [payments EXCEPT ![op[r].key] = [doc |-> op[r].doc, amount |-> op[r].amount, rows |-> 1]]
           /\ seen[r].paid + op[r].amount <= Doc(r).total
           /\ \E new : /\ Becomes(r, new) /\ SameTraces(Doc(r), new) /\ new.units = Doc(r).units
                       /\ new.paid = seen[r].paid + op[r].amount
<1> DEFINE d == op[r].doc
           old == docs[d]
           paid == seen[r].paid + op[r].amount
           new == [old EXCEPT !.paid = paid]
<1>1. /\ d \in Ids /\ old \in DocRec /\ docs \in [Ids -> DocRec]
      /\ pc[r] = "inserted" /\ op[r].kind = "pay" /\ op[r].key \in Keys /\ op[r].amount \in Nat
      /\ seen[r] \in [units : Nat, paid : Nat]
  <2>1. pc[r] = "inserted" /\ op[r].kind = "pay"
    BY DEF PayCommit, Is
  <2> QED BY <2>1, DocTypes, AskedKinds DEF Doc, SalesTypes
<1>2. /\ old.status # "draft" /\ lock[<<"key", op[r].key>>] = r /\ payments[op[r].key].rows = 0
      /\ seen[r].paid + op[r].amount <= old.total
  BY <1>1 DEF Holds, HoldsPay, Doc, Busy, Is
<1>3. docs' = [docs EXCEPT ![d] = new]
  BY <1>1 DEF PayCommit, Doc, DocRec
<1>4. paid \in Nat
  BY <1>1
<1>5. payments' = [payments EXCEPT ![op[r].key] = [doc |-> d, amount |-> op[r].amount, rows |-> 1]]
  <2>1. payments' = [payments EXCEPT ![op[r].key] = [doc |-> d, amount |-> op[r].amount, rows |-> payments[op[r].key].rows + 1]]
    BY DEF PayCommit
  <2> QED BY <1>2, <2>1
<1>6. Doc(r) = old BY DEF Doc
<1> HIDE DEF paid, old
<1>7. /\ new \in DocRec /\ new.kind = old.kind /\ new.of = old.of /\ new.counted = old.counted
      /\ new.stocked = old.stocked /\ new.total = old.total
      /\ SameTraces(old, new) /\ new.units = old.units /\ new.paid = paid
  BY <1>1, <1>4 DEF DocRec, SameTraces
<1> HIDE DEF new
<1>8. Becomes(r, new)
  BY <1>3, <1>6, <1>7 DEF Becomes
<1> QED BY <1>1, <1>2, <1>5, <1>6, <1>7, <1>8 DEF paid

LEMMA EditDeleteDoc ==
    ASSUME SalesTypes, NEW r \in Requests, EditDelete(r)
    PROVE  /\ pc[r] = "read" /\ op[r].kind = "edit" /\ pc' = [pc EXCEPT ![r] = "counted"]
           /\ lock[<<"lines", op[r].doc>>] \in {None, r}
           /\ UNCHANGED <<payments, op, seen, own, lock>> /\ r \notin overtaken'
           /\ \E new : /\ Becomes(r, new) /\ SameTraces(Doc(r), new)
                       /\ new.units = 0 /\ new.paid = Doc(r).paid
<1> DEFINE d == op[r].doc
           old == docs[d]
           new == [old EXCEPT !.units = 0]
<1>1. /\ d \in Ids /\ old \in DocRec /\ docs \in [Ids -> DocRec]
      /\ pc[r] = "read" /\ op[r].kind = "edit"
  BY DocTypes DEF EditDelete, Is, Doc, SalesTypes
<1>2. docs' = [docs EXCEPT ![d] = new]
  BY <1>1 DEF EditDelete, Doc, DocRec
<1>4. /\ UNCHANGED <<payments, op, seen, own, lock>> /\ lock[<<"lines", op[r].doc>>] \in {None, r}
      /\ r \notin overtaken' /\ pc' = [pc EXCEPT ![r] = "counted"]
  BY DEF EditDelete, Free, Overtake, Goto
<1>5. Doc(r) = old BY DEF Doc
<1> HIDE DEF old
<1>3. /\ new \in DocRec /\ new.kind = old.kind /\ new.of = old.of /\ new.counted = old.counted
      /\ new.stocked = old.stocked /\ new.total = old.total
      /\ SameTraces(old, new) /\ new.units = 0 /\ new.paid = old.paid
  BY <1>1 DEF DocRec, SameTraces
<1> HIDE DEF new
<1>6. Becomes(r, new)
  BY <1>2, <1>3, <1>5 DEF Becomes
<1> QED BY <1>1, <1>3, <1>4, <1>5, <1>6

\* What a commit of r may do to any document e there was.
Disturbs(r, e) ==
    LET old == docs[e]
        new == docs'[e]
        mine == e = op[r].doc
    IN /\ new.kind = old.kind /\ new.of = old.of /\ new.counted = old.counted
       /\ new.stocked = old.stocked /\ new.total = old.total
       /\ new.status = "draft" <=> old.status = "draft" /\ ~ (PostCommit(r) /\ mine)
       /\ new.status = "voided" <=> old.status = "voided" \/ (VoidCommit(r) /\ mine)
       /\ new.reversals >= old.reversals
       /\ new.posts = IF PostCommit(r) /\ mine THEN old.posts + 1 ELSE old.posts
       /\ new.entries # old.entries => PostCommit(r) /\ mine
       /\ old.keyed => new.keyed
       /\ new.keyed => old.keyed \/ lock[<<"journal">>] = r
       /\ new.units # old.units => /\ lock[<<"lines", e>>] \in {None, r} /\ new.units = 0
                                   /\ EditDelete(r) /\ mine
       /\ new.moved # old.moved => PostCommit(r) /\ mine /\ lock[<<"stock">>] = r
       /\ new.back # old.back => old.posts # 1 \/ lock[<<"stock">>] = r

LEMMA RowsAfter ==
    ASSUME SalesTypes, NEW r \in Requests, Holds(r), Commits(r)
    PROVE  /\ docs' \in Seq(DocRec) /\ Len(docs') = Len(docs) /\ Ids' = Ids
           /\ \A e \in Ids : Disturbs(r, e)
           /\ \A e \in Ids \ {op[r].doc} : docs'[e] = docs[e]
<1>1. pc[r] # "idle"
  BY DEF Commits, PostCommit, VoidCommit, PayCommit, EditDelete, Is
<1> DEFINE d == op[r].doc
           old == docs[d]
<1>2. /\ d \in Ids /\ old \in DocRec /\ docs \in Seq(DocRec) /\ Len(docs) \in 1..MaxDocs
      /\ Doc(r) = old
  BY <1>1, DocTypes DEF SalesTypes, Doc
<1> DEFINE Odd(new) ==
       /\ new.status = "draft" <=> old.status = "draft" /\ ~ PostCommit(r)
       /\ new.status = "voided" <=> old.status = "voided" \/ VoidCommit(r)
       /\ new.reversals >= old.reversals
       /\ new.posts = IF PostCommit(r) THEN old.posts + 1 ELSE old.posts
       /\ new.entries # old.entries => PostCommit(r)
       /\ old.keyed => new.keyed
       /\ new.keyed => old.keyed \/ lock[<<"journal">>] = r
       /\ new.units # old.units => lock[<<"lines", d>>] \in {None, r} /\ new.units = 0 /\ EditDelete(r)
       /\ new.moved # old.moved => PostCommit(r) /\ lock[<<"stock">>] = r
       /\ new.back # old.back => old.posts # 1 \/ lock[<<"stock">>] = r
<1>3. ASSUME NEW new, Becomes(r, new), Odd(new)
      PROVE  /\ docs' \in Seq(DocRec) /\ Len(docs') = Len(docs) /\ Ids' = Ids
             /\ \A e \in Ids : Disturbs(r, e)
             /\ \A e \in Ids \ {d} : docs'[e] = docs[e]
  <2>1. new \in DocRec /\ docs' = [docs EXCEPT ![d] = new]
    BY <1>3 DEF Becomes
  <2>2. /\ docs' \in Seq(DocRec) /\ Len(docs') = Len(docs) /\ DOMAIN docs' = DOMAIN docs
        /\ docs'[d] = new /\ \A e \in DOMAIN docs \ {d} : docs'[e] = docs[e]
    <3> HIDE DEF d
    <3> QED BY <1>2, <2>1, OneReplaced DEF Ids
  <2>3. \A e \in Ids : docs[e] \in DocRec
    BY <1>2 DEF Ids
  <2>4. ASSUME NEW e \in Ids \ {d} PROVE Disturbs(r, e)
    <3>1. docs'[e] = docs[e] /\ docs[e].reversals \in Nat
      BY <2>2, <2>3 DEF Ids, DocRec
    <3> QED BY <3>1 DEF Disturbs
  <2>5. Disturbs(r, d)
    BY <1>2, <1>3, <2>2 DEF Disturbs, Becomes
  <2> HIDE DEF d
  <2> QED BY <1>2, <2>2, <2>4, <2>5 DEF Ids
<1>4. /\ old.reversals \in Nat /\ old.status \in {"draft", "posted", "voided"}
      /\ old.moved \in Nat /\ old.back \in Nat /\ own[r] \in Nat
  BY <1>2 DEF DocRec, SalesTypes
<1>5. CASE PostCommit(r)
  <2>1. pc[r] = "written" /\ op[r].kind = "post"
    BY <1>5, PostCommitDoc
  <2>2. PICK new : Becomes(r, new) /\ Posted(r, old, new)
    BY <1>2, <1>5, PostCommitDoc
  <2>3. (Keyed(r) => lock[<<"journal">>] = r) /\ (own[r] > 0 => lock[<<"stock">>] = r)
    BY <2>1 DEF Holds, HoldsPost, Is, Busy
  <2>4. ~ VoidCommit(r)
    BY <2>1 DEF VoidCommit
  <2>5. (old.keyed => new.keyed) /\ (new.keyed => old.keyed \/ Keyed(r))
    BY <2>2, Zenon DEF Posted
  <2>6. /\ new.status = (IF old.status = "draft" THEN "posted" ELSE old.status)
        /\ new.posts = old.posts + 1 /\ new.moved = old.moved + own[r]
        /\ new.units = old.units /\ new.reversals = old.reversals /\ new.back = old.back
    BY <2>2 DEF Posted
  <2>7. Odd(new)
    <3> HIDE DEF old
    <3> QED BY <1>4, <1>5, <2>3, <2>4, <2>5, <2>6
  <2> HIDE DEF Odd
  <2> QED BY <1>3, <2>2, <2>7
<1>6. CASE VoidCommit(r)
  <2>1. pc[r] \in {"undone", "untouched"} /\ op[r].kind = "void"
    BY <1>6, VoidCommitDoc
  <2>2. PICK new : Becomes(r, new) /\ Voided(r, old, new)
    BY <1>2, <1>6, VoidCommitDoc
  <2>3. /\ old.status # "draft" /\ ~ PostCommit(r)
        /\ old.posts = 1 => own[r] = old.moved /\ (old.moved > 0 => lock[<<"stock">>] = r)
    BY <1>2, <2>1 DEF Holds, HoldsVoid, Busy, PostCommit, Is
  <2>4. Odd(new)
    <3> HIDE DEF old
    <3> QED BY <1>4, <1>6, <2>2, <2>3 DEF Voided
  <2> HIDE DEF Odd
  <2> QED BY <1>3, <2>2, <2>4
<1>7. CASE PayCommit(r)
  <2>1. PICK new : Becomes(r, new) /\ SameTraces(old, new) /\ new.units = old.units
    BY <1>7, PayCommitDoc DEF Doc
  <2>2. ~ PostCommit(r) /\ ~ VoidCommit(r)
    BY <1>7 DEF PostCommit, VoidCommit, PayCommit, Is
  <2>3. Odd(new)
    <3> HIDE DEF old
    <3> QED BY <1>4, <2>1, <2>2 DEF SameTraces
  <2> HIDE DEF Odd
  <2> QED BY <1>3, <2>1, <2>3
<1>8. CASE EditDelete(r)
  <2>1. PICK new : Becomes(r, new) /\ SameTraces(old, new) /\ new.units = 0
    BY <1>8, EditDeleteDoc DEF Doc
  <2>2. ~ PostCommit(r) /\ ~ VoidCommit(r) /\ lock[<<"lines", d>>] \in {None, r}
    BY <1>8, EditDeleteDoc DEF PostCommit, VoidCommit, EditDelete, Is
  <2>3. Odd(new)
    <3> HIDE DEF old
    <3> QED BY <1>4, <1>8, <2>1, <2>2 DEF SameTraces
  <2> HIDE DEF Odd
  <2> QED BY <1>3, <2>1, <2>3
<1> QED BY <1>5, <1>6, <1>7, <1>8 DEF Commits

\* Each commit leaves its document with the traces that its new status tells.
LEMMA PostTells ==
    ASSUME SalesTypes, NEW r \in Requests, NEW d \in Ids, d = op[r].doc, Holds(r), DocOK(d), PostCommit(r),
           r \notin overtaken => Current(r), NEW new, Becomes(r, new), Posted(r, Doc(r), new),
           docs'[d] = new
    PROVE  DocOK(d)'
<1> DEFINE old == docs[d]
           units == IF old.stocked /\ "stock" \notin op[r].given THEN old.units ELSE 0
           fresh == old.status = "draft"
<1>1. /\ pc[r] = "written" /\ op[r].kind = "post" /\ old \in DocRec /\ Doc(r) = old
      /\ op[r].given \in SUBSET {"journal", "stock"}
      /\ stale' = stale \cup IF r \in overtaken THEN {op[r].kind} ELSE {}
  <2>1. pc[r] = "written" /\ op[r].kind = "post"
    BY DEF PostCommit, Is
  <2> QED BY <2>1, DocTypes, AskedKinds, CommitsStay DEF Doc, Commits
<1>2. /\ own[r] = units /\ (own[r] > 0 => old.moved = 0)
      /\ Keyed(r) => ~ old.keyed
      /\ Keyed(r) <=> "journal" \notin op[r].given /\ old.total > 0
      /\ ByHand(r) <=> "journal" \in op[r].given
  BY <1>1 DEF Holds, HoldsPost, Is, Busy, Keyed, ByHand
<1>3. ~ fresh => "post" \in stale'
  BY <1>1 DEF Current, Busy
<1>4. /\ new.stocked = old.stocked /\ new.units = old.units /\ new.total = old.total
      /\ new.status = (IF fresh THEN "posted" ELSE old.status) /\ new.posts = old.posts + 1
      /\ new.given = old.given \cup op[r].given /\ new.moved = old.moved + units
      /\ new.reversals = old.reversals /\ new.back = old.back
      /\ new.entries = (IF ByHand(r) \/ Keyed(r) THEN old.entries + 1 ELSE old.entries)
  BY <1>1, <1>2 DEF Becomes, Posted
<1>5. new.keyed = (old.keyed \/ Keyed(r))
  BY <1>1, Zenon DEF Posted
<1>6. /\ old.posts \in Nat /\ old.moved \in Nat /\ old.units \in Nat /\ old.total \in Nat /\ old.entries \in Nat
      /\ old.stocked \in BOOLEAN /\ old.given \in SUBSET {"journal", "stock"}
      /\ old.status \in {"draft", "posted", "voided"}
  BY <1>1 DEF DocRec
<1>7. /\ ~ old.stocked => old.moved = 0
      /\ fresh => Blank(old)
      /\ ~ fresh => PostsTell(old)
  BY DEF DocOK
<1>8. docs'[d] = new
  OBVIOUS
<1>9. "journal" \in new.given <=> "journal" \in old.given \/ "journal" \in op[r].given
  BY <1>4
<1>10. "stock" \in new.given <=> "stock" \in old.given \/ "stock" \in op[r].given
  BY <1>4
<1>11. new.given = {} => old.given = {} /\ op[r].given = {}
  BY <1>4
<1> HIDE DEF old, fresh
<1>12. ~ new.stocked => new.moved = 0
  BY <1>4, <1>6, <1>7
<1>13. new.total > 0 /\ "journal" \notin new.given => new.keyed
  <2> SUFFICES ASSUME new.total > 0, "journal" \notin new.given PROVE Keyed(r)
    BY <1>5, Zenon
  <2> QED BY <1>2, <1>4, <1>9
<1>14. new.stocked /\ new.units > 0 /\ "stock" \notin new.given => new.moved > 0
  BY <1>4, <1>6, <1>10
<1>15. fresh => /\ new.posts = 1 /\ new.status = "posted" /\ new.reversals = 0 /\ new.back = 0
                /\ new.entries = Owed(new)
                /\ new.stocked /\ new.units > 0 /\ "stock" \notin new.given => new.moved = new.units
  <2> SUFFICES ASSUME fresh
               PROVE  /\ new.posts = 1 /\ new.status = "posted" /\ new.reversals = 0 /\ new.back = 0
                      /\ new.entries = Owed(new)
                      /\ new.stocked /\ new.units > 0 /\ "stock" \notin new.given => new.moved = new.units
    OBVIOUS
  <2>1. old.posts = 0 /\ old.entries = 0 /\ old.moved = 0 /\ old.reversals = 0 /\ old.back = 0 /\ old.given = {}
    BY <1>7 DEF Blank
  <2>2. new.entries = Owed(new)
    BY <1>2, <1>4, <1>9, <2>1 DEF Owed
  <2> QED BY <1>4, <1>6, <1>10, <2>1, <2>2
<1>16. ~ fresh => old.posts > 0
  BY <1>7 DEF PostsTell
<1>17. ~ fresh /\ new.given = {} => new.total = 0 /\ 0 \in {new.moved, new.units}
  <2> SUFFICES ASSUME ~ fresh, new.given = {} PROVE new.total = 0 /\ 0 \in {new.moved, new.units}
    OBVIOUS
  <2>1. /\ old.given = {} /\ op[r].given = {}
        /\ old.stocked /\ old.units > 0 => old.moved > 0
    BY <1>7, <1>11 DEF PostsTell
  <2>2. old.total > 0 => old.keyed
    BY <1>7, <2>1 DEF PostsTell
  <2>3. old.total > 0 => Keyed(r)
    BY <1>2, <2>1
  <2>4. new.total = 0
    BY <1>2, <1>4, <1>6, <2>2, <2>3
  <2>5. units > 0 => old.moved = 0
    BY <1>2
  <2> QED BY <1>4, <1>6, <1>7, <2>1, <2>4, <2>5
<1>18. PostsTell(new)'
  <2>1. new.posts > 0
    BY <1>4, <1>6
  <2>2. new.posts > 1 => "post" \in stale' /\ (new.given # {} \/ (new.total = 0 /\ 0 \in {new.moved, new.units}))
    <3> SUFFICES ASSUME new.posts > 1 PROVE "post" \in stale' /\ (new.given # {} \/ (new.total = 0 /\ 0 \in {new.moved, new.units}))
      OBVIOUS
    <3>1. ~ fresh
      <4>1. fresh => new.posts = 1
        BY <1>15, Zenon
      <4> QED BY <4>1
    <3> QED BY <1>3, <1>17, <3>1, Zenon
  <2> QED BY <1>13, <1>14, <2>1, <2>2, Zenon DEF PostsTell
<1>19. Owed(new)' = Owed(new)
  BY DEF Owed
<1>20. new.status # "draft" /\ (new.posts = 1 => fresh) /\ (fresh => new.status = "posted")
  BY <1>4, <1>6, <1>16, <1>15 DEF fresh
<1>21. DocOK(d)'
  <2> HIDE DEF units
  <2>1. new.status # "draft" /\ ~ (new.status = "voided" /\ new.posts = 1)
    BY <1>20
  <2>2. new.status = "posted" /\ new.posts = 1 =>
          /\ new.entries = Owed(new) /\ new.reversals = 0 /\ new.back = 0
          /\ new.stocked /\ new.units > 0 /\ "stock" \notin new.given => new.moved = new.units
    <3>1. fresh => new.entries = Owed(new) /\ new.reversals = 0 /\ new.back = 0
      BY <1>15, Zenon
    <3>2. fresh => (new.stocked /\ new.units > 0 /\ "stock" \notin new.given => new.moved = new.units)
      BY <1>15, Zenon
    <3>3. new.posts = 1 => fresh
      BY <1>20, Zenon
    <3> QED BY <3>1, <3>2, <3>3, Zenon
  <2>3. ASSUME NEW doc, doc = new,
               (~ doc.stocked => doc.moved = 0), PostsTell(doc)',
               doc.status # "draft", ~ (doc.status = "voided" /\ doc.posts = 1),
               doc.status = "posted" /\ doc.posts = 1 =>
                  /\ doc.entries = Owed(doc) /\ doc.reversals = 0 /\ doc.back = 0
                  /\ doc.stocked /\ doc.units > 0 /\ "stock" \notin doc.given => doc.moved = doc.units
        PROVE  DocOK(d)'
    BY <1>8, <2>3 DEF DocOK, Owed, PostsTell
  <2> QED BY <1>12, <1>18, <2>1, <2>2, <2>3, Zenon
<1> QED BY <1>21

LEMMA VoidTells ==
    ASSUME SalesTypes, NEW r \in Requests, NEW d \in Ids, d = op[r].doc, Holds(r), DocOK(d), VoidCommit(r),
           r \notin overtaken => Current(r), NEW new, Becomes(r, new), Voided(r, Doc(r), new),
           docs'[d] = new
    PROVE  DocOK(d)'
<1> DEFINE old == docs[d]
           late == "void" \in stale'
<1>1. /\ pc[r] \in {"undone", "untouched"} /\ op[r].kind = "void" /\ old \in DocRec /\ Doc(r) = old
      /\ stale' = stale \cup IF r \in overtaken THEN {op[r].kind} ELSE {}
  <2>1. pc[r] \in {"undone", "untouched"} /\ op[r].kind = "void"
    BY DEF VoidCommit
  <2> QED BY <2>1, DocTypes, CommitsStay DEF Doc, Commits
<1>2. /\ old.status # "draft"
      /\ old.posts = 1 =>
            /\ pc[r] = "undone" => old.entries > 0
            /\ pc[r] = "untouched" => old.reversals > 0 \/ old.entries = 0
            /\ own[r] = old.moved
            /\ old.moved > 0 => old.back = 0
  BY <1>1 DEF Holds, HoldsVoid, Busy
<1>3. old.status = "voided" => late
  BY <1>1 DEF Current, Busy
<1>4. /\ new.stocked = old.stocked /\ new.units = old.units /\ new.total = old.total
      /\ new.status = (IF old.status = "posted" THEN "voided" ELSE old.status) /\ new.posts = old.posts
      /\ new.given = old.given /\ new.moved = old.moved /\ new.entries = old.entries
      /\ new.reversals = (IF pc[r] = "undone" THEN old.reversals + 1 ELSE old.reversals)
      /\ new.back = old.back + own[r]
  BY <1>1 DEF Becomes, Voided
<1>5. new.keyed = old.keyed
  BY <1>1, Zenon DEF Voided
<1>6. /\ old.posts \in Nat /\ old.moved \in Nat /\ old.units \in Nat /\ old.total \in Nat /\ old.entries \in Nat
      /\ old.reversals \in Nat /\ old.back \in Nat /\ own[r] \in Nat
      /\ old.status \in {"draft", "posted", "voided"}
  BY <1>1 DEF DocRec, SalesTypes
<1>7. /\ ~ old.stocked => old.moved = 0
      /\ PostsTell(old)
      /\ old.status = "posted" /\ old.posts = 1 => old.entries = Owed(old) /\ old.reversals = 0 /\ old.back = 0
      /\ old.status = "voided" /\ old.posts = 1 =>
            /\ old.entries = Owed(old) /\ old.back = old.moved
            /\ \/ old.reversals = old.entries
               \/ (old.moved = 0 /\ "void" \in stale /\ old.reversals > 1 /\ old.entries = 1)
  BY <1>2 DEF DocOK
<1>8. PostsTell(new)'
  <2>1. "post" \in stale => "post" \in stale'
    BY <1>1
  <2>2. new.keyed <=> old.keyed
    BY <1>5, Zenon
  <2> HIDE DEF old
  <2> QED BY <1>4, <1>7, <2>1, <2>2 DEF PostsTell
<1>9. Owed(old) = Owed(new) /\ Owed(new) \in {0, 1} /\ Owed(new)' = Owed(new)
  BY <1>4 DEF Owed
<1>10. "void" \in stale => late
  BY <1>1
<1> HIDE DEF old, late
<1>11. new.posts = 1 =>
          /\ new.entries = Owed(new) /\ new.back = new.moved
          /\ \/ new.reversals = new.entries
             \/ (new.moved = 0 /\ late /\ new.reversals > 1 /\ new.entries = 1)
  <2> SUFFICES ASSUME old.posts = 1
               PROVE  /\ new.entries = Owed(new) /\ new.back = new.moved
                      /\ \/ new.reversals = new.entries
                         \/ (new.moved = 0 /\ late /\ new.reversals > 1 /\ new.entries = 1)
    BY <1>4
  <2>1. CASE old.status = "posted"
    BY <1>1, <1>2, <1>4, <1>6, <1>7, <1>9, <2>1
  <2>2. CASE old.status = "voided"
    <3>1. old.moved = 0 /\ old.back = 0 /\ own[r] = 0 /\ late
      BY <1>2, <1>3, <1>6, <1>7, <2>2
    <3>2. new.entries = Owed(new) /\ new.back = new.moved /\ new.moved = 0
      BY <1>4, <1>7, <1>9, <2>2, <3>1
    <3>3. old.reversals = old.entries \/ (old.reversals > 1 /\ old.entries = 1)
      BY <1>7, <2>2
    <3>4. CASE pc[r] = "undone"
      <4>1. old.entries = 1
        BY <1>2, <1>4, <1>9, <3>2, <3>4
      <4>2. new.reversals > 1 /\ new.entries = 1
        BY <1>4, <1>6, <3>3, <3>4, <4>1
      <4> QED BY <3>1, <3>2, <4>2, Zenon
    <3>5. CASE pc[r] = "untouched"
      BY <1>4, <3>1, <3>2, <3>3, <3>5
    <3> QED BY <1>1, <3>4, <3>5
  <2> QED BY <1>2, <1>6, <2>1, <2>2
<1>12. ASSUME NEW doc, doc = new,
             (~ doc.stocked => doc.moved = 0), PostsTell(doc)', doc.status = "voided",
             doc.posts = 1 =>
                /\ doc.entries = Owed(doc) /\ doc.back = doc.moved
                /\ \/ doc.reversals = doc.entries
                   \/ (doc.moved = 0 /\ late /\ doc.reversals > 1 /\ doc.entries = 1)
      PROVE  DocOK(d)'
  BY <1>12 DEF DocOK, Owed, PostsTell, late
<1>13. new.status = "voided" /\ (~ new.stocked => new.moved = 0)
  BY <1>2, <1>4, <1>6, <1>7
<1> QED BY <1>8, <1>11, <1>12, <1>13, Zenon

LEMMA DocsKept ==
    ASSUME SalesTypes, \A d \in Ids : DocOK(d), NEW r \in Requests, Holds(r), Commits(r),
           r \notin overtaken => Current(r)
    PROVE  \A d \in Ids' : DocOK(d)'
<1>1. pc[r] # "idle"
  BY DEF Commits, PostCommit, VoidCommit, PayCommit, EditDelete, Is
<1>2. PICK d \in Ids : d = op[r].doc
  BY <1>1, DocTypes
<1>3. docs \in Seq(DocRec) /\ Doc(r) \in DocRec /\ Doc(r) = docs[d] /\ DocOK(d)
  BY <1>1, <1>2, DocTypes DEF SalesTypes, Doc
<1>4. stale' = stale \cup IF r \in overtaken THEN {op[r].kind} ELSE {}
  BY CommitsStay
<1>5. ASSUME NEW e \in Ids, e # d PROVE DocOK(e)'
  <2>1. docs'[e] = docs[e]
    BY <1>2, <1>3, <1>5, RowsAfter
  <2> QED BY <1>4, <2>1 DEF DocOK, PostsTell, Blank, Owed
<1>6. ASSUME NEW new, Becomes(r, new) PROVE docs'[d] = new
  <2>1. new \in DocRec /\ docs' = [docs EXCEPT ![d] = new]
    BY <1>2, <1>6 DEF Becomes
  <2> QED BY <1>2, <1>3, <2>1, OneReplaced DEF Ids
<1>7. SUFFICES DocOK(d)'
  <2>1. Ids' = Ids
    BY RowsAfter
  <2> QED BY <1>5, <2>1
<1>8. CASE PostCommit(r)
  <2>1. PICK new : Becomes(r, new) /\ Posted(r, Doc(r), new)
    BY <1>8, PostCommitDoc
  <2> QED BY <1>2, <1>3, <1>6, <1>8, <2>1, PostTells
<1>9. CASE VoidCommit(r)
  <2>1. PICK new : Becomes(r, new) /\ Voided(r, Doc(r), new)
    BY <1>9, VoidCommitDoc
  <2> QED BY <1>2, <1>3, <1>6, <1>9, <2>1, VoidTells
<1>10. ASSUME NEW new, Becomes(r, new), SameTraces(Doc(r), new), new.units \in {0, Doc(r).units},
              Doc(r).status # "draft" \/ new.paid = Doc(r).paid
       PROVE  DocOK(d)'
  <2>1. docs'[d] = new
    BY <1>6, <1>10
  <2>2. new.stocked = docs[d].stocked /\ new.total = docs[d].total
    BY <1>3, <1>10 DEF Becomes
  <2>3. /\ new.status = docs[d].status /\ new.posts = docs[d].posts /\ new.given = docs[d].given
        /\ new.entries = docs[d].entries /\ new.reversals = docs[d].reversals
        /\ new.moved = docs[d].moved /\ new.back = docs[d].back
    BY <1>3, <1>10 DEF SameTraces
  <2>4. new.keyed = docs[d].keyed
    BY <1>3, <1>10, Zenon DEF SameTraces
  <2>5. new.units = docs[d].units \/ new.units = 0
    BY <1>3, <1>10
  <2>6. stale \subseteq stale'
    BY <1>4
  <2>7. docs[d].status # "draft" \/ new.paid = docs[d].paid
    BY <1>3, <1>10
  <2>8. Owed(docs'[d]) = Owed(docs[d])
    BY <2>1, <2>2, <2>3 DEF Owed
  <2>9. docs[d].status = "draft" => Blank(docs'[d])
    BY <1>3, <2>1, <2>3, <2>4, <2>7 DEF DocOK, Blank
  <2>10. docs[d].status # "draft" => PostsTell(docs[d])
    BY <1>3 DEF DocOK
  <2>11. docs[d].status # "draft" => PostsTell(docs[d])'
    BY <2>1, <2>2, <2>3, <2>4, <2>5, <2>6, <2>10 DEF PostsTell
  <2>12. (Owed(docs[d]))' = Owed(docs'[d]) /\ (Blank(docs[d]))' = Blank(docs'[d])
    BY DEF Owed, Blank
  <2> QED BY <1>3, <2>1, <2>2, <2>3, <2>5, <2>6, <2>8, <2>9, <2>11, <2>12 DEF DocOK
<1>11. CASE PayCommit(r)
  BY <1>10, <1>11, PayCommitDoc
<1>12. CASE EditDelete(r)
  BY <1>10, <1>12, EditDeleteDoc
<1> QED BY <1>8, <1>9, <1>11, <1>12 DEF Commits

-----------------------------------------------------------------------------
(* What a create adds *)

\* A document is added that refers to one there is, if to any, and if it is a counted
\* return to a posted one that has as much left.
Appended(new) ==
    /\ new \in DocRec /\ Blank(new)
    /\ docs' = Append(docs, new) /\ Len(docs) < MaxDocs /\ UNCHANGED payments
    /\ new.of \in Ids \cup {0}
    /\ new.counted => /\ new.kind = "return" /\ new.of \in Ids /\ docs[new.of].status # "draft"
                      /\ Returned(new.of) + new.units <= docs[new.of].units

LEMMA DraftOf ==
    ASSUME NEW b \in Inputs, NEW counted \in BOOLEAN
    PROVE  /\ Draft(b, counted) \in DocRec /\ Blank(Draft(b, counted))
           /\ Draft(b, counted).of = b.of /\ Draft(b, counted).kind = b.as
           /\ Draft(b, counted).units = b.units /\ Draft(b, counted).counted = counted
<1>1. (IF b.free THEN 0 ELSE b.units) \in Nat /\ 0 \in Nat /\ {} \in SUBSET {"journal", "stock"}
  BY DEF Inputs
<1> QED BY <1>1 DEF Draft, DocRec, Blank, Inputs

LEMMA CreateDoc ==
    ASSUME SalesTypes, NEW r \in Requests, Holds(r), r \notin overtaken => Current(r), Create(r)
    PROVE  /\ pc[r] = "counted" /\ \E new : Appended(new)
<1> DEFINE b == op[r].body
           c == [b EXCEPT !.as = "return", !.of = op[r].doc]
<1>1. pc[r] = "counted" /\ Len(docs) < MaxDocs /\ UNCHANGED payments
  BY DEF Create
<1>2. op[r].doc \in Ids /\ op[r] \in Asked /\ Ids \subseteq 1..MaxDocs
  BY <1>1, DocTypes
<1>3. CASE op[r].kind = "return"
  <2>1. b \in Inputs
    BY <1>2, <1>3, AskedKinds
  <2>2. c \in Inputs /\ c.as = "return" /\ c.of = op[r].doc /\ c.units = b.units
    <3>1. c = [b EXCEPT !.as = "return", !.of = op[r].doc] /\ op[r].doc \in 0..MaxDocs
      BY <1>2, SalesAssumption
    <3> HIDE DEF b, c
    <3> QED BY <2>1, <3>1 DEF Inputs
  <2>3. docs' = Append(docs, Draft(c, r \notin overtaken))
    BY <1>3 DEF Create
  <2> DEFINE new == Draft(c, r \notin overtaken)
  <2>4. /\ new \in DocRec /\ Blank(new) /\ new.of = op[r].doc /\ new.kind = "return"
        /\ new.units = b.units /\ new.counted = (r \notin overtaken)
    <3> HIDE DEF c
    <3> QED BY <2>2, DraftOf
  <2>5. docs[op[r].doc].status # "draft"
    BY <1>1, <1>3 DEF Holds, Busy, Doc
  <2>6. r \notin overtaken => Returned(op[r].doc) + b.units <= docs[op[r].doc].units
    BY <1>1, <1>3 DEF Current, Busy, Doc
  <2>7. new.counted => r \notin overtaken
    BY <2>4, Zenon
  <2> HIDE DEF new, b
  <2>8. Appended(new)
    <3>1. docs' = Append(docs, new)
      BY <2>3 DEF new
    <3>2. new.counted => /\ new.kind = "return" /\ new.of \in Ids /\ docs[new.of].status # "draft"
                         /\ Returned(new.of) + new.units <= docs[new.of].units
      BY <1>2, <2>4, <2>5, <2>6, <2>7
    <3> QED BY <1>1, <1>2, <2>4, <3>1, <3>2 DEF Appended
  <2> QED BY <1>1, <2>8
<1>4. CASE op[r].kind # "return"
  <2>1. op[r].kind = "edit" /\ b.of \in Ids \cup {0} /\ docs' = Append(docs, Draft(b, FALSE))
    BY <1>4 DEF Create
  <2>2. b \in Inputs
    BY <1>2, <2>1, AskedKinds
  <2> HIDE DEF b
  <2>3. Appended(Draft(b, FALSE))
    <3>1. ~ Draft(b, FALSE).counted
      BY <2>2, DraftOf, Zenon
    <3> QED BY <1>1, <2>1, <2>2, <3>1, DraftOf DEF Appended
  <2> QED BY <1>1, <2>3
<1> QED BY <1>3, <1>4

LEMMA PlainDoc ==
    ASSUME SalesTypes, NEW b \in Bodies, CreatePlain(b)
    PROVE  \E new : Appended(new)
<1>1. b \in Inputs
  BY SalesAssumption
<1>2. ~ Draft(b, FALSE).counted
  BY <1>1, DraftOf, Zenon
<1>3. Appended(Draft(b, FALSE))
  BY <1>1, <1>2, DraftOf DEF Appended, CreatePlain
<1> QED BY <1>3

\* The others stay as they were.
LEMMA NewRows ==
    ASSUME SalesTypes, NEW new, Appended(new), NEW n, n = Len(docs) + 1
    PROVE  /\ docs' \in Seq(DocRec) /\ Len(docs') \in 1..MaxDocs /\ Len(docs') = n
           /\ Ids' = Ids \cup {n} /\ n \notin Ids /\ Ids \subseteq Ids' /\ n \in Nat \ {0} /\ Ids = 1..Len(docs)
           /\ docs'[n] = new /\ \A e \in Ids : docs'[e] = docs[e]
<1>1. docs \in Seq(DocRec) /\ Len(docs) \in 1..MaxDocs /\ new \in DocRec /\ docs' = Append(docs, new)
  BY DEF SalesTypes, Appended
<1>2. Len(docs) < MaxDocs /\ MaxDocs \in Nat
  BY SalesAssumption DEF Appended
<1> QED BY <1>1, <1>2 DEF Ids

\* A new document is as a draft is.
LEMMA DocsAppended ==
    ASSUME SalesTypes, \A d \in Ids : DocOK(d), NEW new, Appended(new), stale \subseteq stale'
    PROVE  \A d \in Ids' : DocOK(d)'
<1> DEFINE n == Len(docs) + 1
<1>1. /\ Ids' = Ids \cup {n} /\ docs'[n] = new /\ \A e \in Ids : docs'[e] = docs[e]
  BY NewRows
<1> HIDE DEF n
<1>2. ASSUME NEW e \in Ids PROVE DocOK(e)'
  <2>1. docs'[e] = docs[e]
    BY <1>1
  <2> QED BY <2>1 DEF DocOK, PostsTell, Blank, Owed
<1>3. ASSUME NEW e, e = n PROVE DocOK(e)'
  <2>1. docs'[e] = new
    BY <1>1, <1>3
  <2>2. Blank(new)
    BY DEF Appended
  <2>3. new.status = "draft" /\ new.moved = 0
    BY <2>2 DEF Blank
  <2> QED BY <2>1, <2>2, <2>3 DEF DocOK, Blank
<1> QED BY <1>1, <1>2, <1>3

LEMMA OriginsAppended ==
    ASSUME SalesTypes, Origins, NEW new, Appended(new)
    PROVE  Origins'
<1> DEFINE n == Len(docs) + 1
<1>1. /\ Ids' = Ids \cup {n} /\ docs'[n] = new /\ \A e \in Ids : docs'[e] = docs[e]
      /\ n \notin Ids /\ 0 \notin Ids
  BY NewRows
<1>2. /\ new.of \in Ids \cup {0} /\ payments' = payments
      /\ new.counted => new.of \in Ids /\ docs[new.of].status # "draft"
  BY DEF Appended
<1> HIDE DEF n
<1>3. ASSUME NEW e \in Ids'
      PROVE  /\ docs'[e].of \in Ids' \cup {0}
             /\ docs'[e].counted => docs'[e].of \in Ids' /\ docs'[docs'[e].of].status # "draft"
  <2>1. CASE e \in Ids
    BY <1>1, <2>1 DEF Origins
  <2>2. CASE e = n
    BY <1>1, <1>2, <2>2
  <2> QED BY <1>1, <2>1, <2>2
<1>4. \A k \in AllKeys : payments'[k].rows > 0 => payments'[k].doc \in Ids'
  BY <1>1, <1>2 DEF Origins
<1>5. \A d \in 1..MaxDocs : payments'[Settle(d)].rows > 0 =>
          d \in Ids' /\ payments'[Settle(d)].doc = d /\ docs'[d].keyed
  BY <1>1, <1>2 DEF Origins
<1> QED BY <1>3, <1>4, <1>5 DEF Origins

-----------------------------------------------------------------------------
(* Types *)

SlotOK(r) ==
    IF pc[r] = "idle" THEN op[r] = None
    ELSE /\ op[r] \in Ops \cup Pays /\ op[r] \in Asked /\ op[r].doc \in Ids
         /\ pc[r] \in Labels(op[r].kind)
         /\ seen[r] \in [units : Nat, paid : Nat]

LEMMA PaymentsAfter ==
    ASSUME SalesTypes, NEW r \in Requests, Holds(r), Commits(r)
    PROVE  payments' \in RowTypes
<1>1. pc[r] # "idle"
  BY DEF Commits, PostCommit, VoidCommit, PayCommit, EditDelete, Is
<1>2. /\ op[r].doc \in 1..MaxDocs /\ Doc(r).total \in Nat /\ Keys \subseteq AllKeys /\ Settle(op[r].doc) \in AllKeys
      /\ payments \in RowTypes
  BY <1>1, DocTypes DEF SalesTypes, DocRec, AllKeys
<1>3. CASE PostCommit(r)
  <2>1. \/ payments' = payments
        \/ payments' = [payments EXCEPT ![Settle(op[r].doc)] =
                                  [doc |-> op[r].doc, amount |-> Doc(r).total, rows |-> 1]]
    BY <1>3, PostCommitDoc
  <2> QED BY <1>2, <2>1 DEF RowTypes
<1>4. CASE PayCommit(r)
  <2>1. /\ payments' = [payments EXCEPT ![op[r].key] = [doc |-> op[r].doc, amount |-> op[r].amount, rows |-> 1]]
        /\ op[r].key \in Keys /\ op[r].amount \in Nat
    BY <1>4, PayCommitDoc
  <2> QED BY <1>2, <2>1 DEF RowTypes
<1>5. CASE VoidCommit(r) \/ EditDelete(r)
  BY <1>2, <1>5 DEF VoidCommit, EditDelete
<1> QED BY <1>3, <1>4, <1>5 DEF Commits

LEMMA ReadsSlot ==
    ASSUME SalesTypes, NEW r \in Requests, Reads(r)
    PROVE  SlotOK(r)'
<1> USE TypesSlots
<1>1. CASE End(r)
  BY <1>1, EndKeeps DEF SlotOK
<1>2. ASSUME NEW o \in Ops \cup Pays, Begin(r, o) PROVE SlotOK(r)'
  <2>1. /\ op'[r] = o /\ seen'[r] = [units |-> docs[o.doc].units, paid |-> docs[o.doc].paid]
        /\ pc'[r] = "read" /\ docs' = docs /\ o.doc \in Ids
    BY <1>2 DEF Begin, Goto, SalesTypes, Accepts, rows
  <2>2. docs[o.doc] \in DocRec
    BY <2>1 DEF SalesTypes, Ids
  <2>3. o \in Asked
    BY <1>2, OpKinds
  <2>4. "read" \in Labels(o.kind)
    BY DEF Labels
  <2>5. Ids' = Ids
    BY <2>1 DEF Ids
  <2> QED BY <1>2, <2>1, <2>2, <2>3, <2>4, <2>5 DEF SlotOK, DocRec
<1>3. ASSUME pc[r] # "idle", NEW l \in Labels(op[r].kind), l # "idle", Goto(r, l), UNCHANGED <<docs, op, seen>>
      PROVE  SlotOK(r)'
  <2>1. pc'[r] = l
    BY <1>3 DEF Goto, SalesTypes
  <2>2. Ids' = Ids
    BY <1>3 DEF Ids
  <2> QED BY <1>3, <2>1, <2>2 DEF SlotOK, SalesTypes
<1>4. CASE PostNumber(r)
  BY <1>3, <1>4 DEF PostNumber, Is, Labels, rows
<1>5. CASE PostMove(r)
  BY <1>3, <1>5 DEF PostMove, Is, Labels, rows
<1>6. CASE PostJournal(r)
  BY <1>3, <1>6 DEF PostJournal, Is, Labels, rows
<1>7. CASE VoidDerived(r)
  BY <1>3, <1>7 DEF VoidDerived, Is, Labels, rows
<1>8. CASE VoidLookup(r)
  BY <1>3, <1>8 DEF VoidLookup, Is, Labels, rows
<1>9. CASE VoidReverse(r)
  BY <1>3, <1>9 DEF VoidReverse, Is, Labels, rows
<1>10. CASE VoidMirror(r)
  BY <1>3, <1>10 DEF VoidMirror, Is, Labels, rows
<1>11. CASE PayInsert(r)
  BY <1>3, <1>11 DEF PayInsert, Is, Labels, rows
<1>12. CASE ReturnCount(r)
  BY <1>3, <1>12 DEF ReturnCount, Is, Labels, rows
<1>13. CASE PayReplay(r) \/ Fail(r)
  BY <1>1, <1>13 DEF PayReplay, Fail
<1> QED BY <1>2, <1>4, <1>5, <1>6, <1>7, <1>8, <1>9, <1>10, <1>11, <1>12, <1>13 DEF Reads

LEMMA TypesKept ==
    ASSUME SalesTypes, NEW r \in Requests, Holds(r), r \notin overtaken => Current(r), SalesMove(r)
    PROVE  SalesTypes'
<1>1. ASSUME SlotTypes', OthersKeep(r), SlotOK(r)', Ids \subseteq Ids',
             docs' \in Seq(DocRec), Len(docs') \in 1..MaxDocs, payments' \in RowTypes
      PROVE  SalesTypes'
  <2>1. ASSUME NEW u \in Requests PROVE SlotOK(u)'
    <3>1. CASE u = r BY <1>1, <3>1
    <3>2. CASE u # r
      <4>1. pc'[u] = pc[u] /\ op'[u] = op[u] /\ seen'[u] = seen[u]
        BY <1>1, <3>2 DEF OthersKeep
      <4>2. SlotOK(u)
        BY DEF SalesTypes, SlotOK
      <4> QED BY <1>1, <4>1, <4>2 DEF SlotOK
    <3> QED BY <3>1, <3>2
  <2> QED BY <1>1, <2>1 DEF SalesTypes, SlotTypes, SlotOK, RowTypes
<1>2. CASE Reads(r)
  <2>1. docs' = docs /\ payments' = payments
    BY <1>2, ReadsStay DEF rows
  <2>2. Ids' = Ids
    BY <2>1 DEF Ids
  <2>3. SlotTypes' /\ OthersKeep(r) /\ SlotOK(r)'
    BY <1>2, ReadsStay, ReadsSlot
  <2> QED BY <1>1, <2>1, <2>2, <2>3 DEF SalesTypes
<1>3. CASE Commits(r)
  <2>1. pc[r] # "idle"
    BY <1>3 DEF Commits, PostCommit, VoidCommit, PayCommit, EditDelete, Is
  <2>2. Len(docs) \in 1..MaxDocs
    BY DEF SalesTypes
  <2>3. docs' \in Seq(DocRec) /\ Len(docs') \in 1..MaxDocs /\ Ids \subseteq Ids'
    BY <1>3, <2>2, RowsAfter
  <2>4. payments' \in RowTypes
    BY <1>3, PaymentsAfter
  <2>5. SlotTypes' /\ OthersKeep(r)
    BY <1>3, CommitsStay
  <2>6. SlotOK(r)'
    <3>1. CASE pc'[r] = "idle" /\ op'[r] = None
      BY <3>1 DEF SlotOK
    <3>2. CASE EditDelete(r)
      <4>1. op'[r] = op[r] /\ seen'[r] = seen[r] /\ pc'[r] = "counted" /\ op[r].kind = "edit"
        <5>1. pc' = [pc EXCEPT ![r] = "counted"] /\ op' = op /\ seen' = seen /\ op[r].kind = "edit"
          BY <3>2, EditDeleteDoc
        <5>2. DOMAIN pc = Requests
          BY DEF SalesTypes
        <5> QED BY <5>1, <5>2
      <4>2. SlotOK(r)
        BY DEF SalesTypes, SlotOK
      <4>3. "counted" \in Labels("edit")
        BY DEF Labels
      <4> QED BY <2>1, <2>3, <4>1, <4>2, <4>3 DEF SlotOK
    <3> QED BY <1>3, <3>1, <3>2, CommitsStay
  <2> QED BY <1>1, <2>3, <2>4, <2>5, <2>6
<1>4. CASE Create(r)
  <2>1. PICK new : Appended(new)
    BY <1>4, CreateDoc
  <2>2. docs' \in Seq(DocRec) /\ Len(docs') \in 1..MaxDocs /\ Ids \subseteq Ids'
    BY <2>1, NewRows
  <2>3. payments' \in RowTypes
    BY <2>1 DEF Appended, SalesTypes
  <2>4. SlotTypes' /\ OthersKeep(r) /\ SlotOK(r)'
    BY <1>4, CommitsStay DEF SlotOK, EditDelete, Create, Is
  <2> QED BY <1>1, <2>2, <2>3, <2>4
<1> QED BY <1>2, <1>3, <1>4, MoveKinds

-----------------------------------------------------------------------------
(* Origins *)

\* The rows of payments that a commit may write.
LEMMA PaymentWritten ==
    ASSUME SalesTypes, Origins, NEW r \in Requests, Holds(r), Commits(r), NEW k \in AllKeys
    PROVE  \/ payments'[k] = payments[k]
           \/ /\ PayCommit(r) /\ k = op[r].key /\ k \in Keys /\ payments[k].rows = 0 /\ lock[<<"key", k>>] = r
              /\ payments'[k].doc = op[r].doc /\ payments'[k].amount = op[r].amount /\ payments'[k].rows = 1
           \/ /\ PostCommit(r) /\ k = Settle(op[r].doc) /\ k \notin Keys /\ payments[k].rows = 0
              /\ PaysAtOnce(r)
              /\ payments'[k].doc = op[r].doc /\ payments'[k].amount = Doc(r).total /\ payments'[k].rows = 1
<1>1. pc[r] # "idle"
  BY DEF Commits, PostCommit, VoidCommit, PayCommit, EditDelete, Is
<1>2. op[r].doc \in 1..MaxDocs /\ DOMAIN payments = AllKeys /\ payments \in RowTypes
  BY <1>1, DocTypes DEF SalesTypes, RowTypes
<1>3. CASE PostCommit(r)
  <2>1. /\ payments' = IF PaysAtOnce(r)
                       THEN [payments EXCEPT ![Settle(op[r].doc)] =
                               [doc |-> op[r].doc, amount |-> Doc(r).total, rows |-> 1]]
                       ELSE payments
        /\ pc[r] = "written" /\ op[r].kind = "post"
    BY <1>3, PostCommitDoc
  <2>2. Settle(op[r].doc) \notin Keys
    BY <1>2, SalesAssumption
  <2>3. PaysAtOnce(r) => ~ Doc(r).keyed
    BY <2>1 DEF PaysAtOnce, Holds, HoldsPost, Is
  <2>4. PaysAtOnce(r) /\ k = Settle(op[r].doc) => payments[k].rows = 0
    <3>1. payments[Settle(op[r].doc)].rows > 0 => Doc(r).keyed
      BY <1>2 DEF Origins, Doc
    <3>2. payments[k].rows \in {0, 1}
      BY <1>2 DEF RowTypes
    <3> QED BY <2>3, <3>1, <3>2
  <2> QED BY <1>2, <1>3, <2>1, <2>2, <2>4
<1>4. CASE PayCommit(r)
  <2>1. /\ op[r].key \in Keys /\ lock[<<"key", op[r].key>>] = r /\ payments[op[r].key].rows = 0
        /\ payments' = [payments EXCEPT ![op[r].key] = [doc |-> op[r].doc, amount |-> op[r].amount, rows |-> 1]]
    BY <1>4, PayCommitDoc
  <2> QED BY <1>2, <1>4, <2>1
<1>5. CASE VoidCommit(r) \/ EditDelete(r)
  BY <1>5 DEF VoidCommit, EditDelete
<1> QED BY <1>3, <1>4, <1>5 DEF Commits

LEMMA OriginsKept ==
    ASSUME SalesTypes, Origins, NEW r \in Requests, Holds(r), r \notin overtaken => Current(r), SalesMove(r)
    PROVE  Origins'
<1>1. CASE Reads(r)
  <2>1. docs' = docs /\ payments' = payments
    BY <1>1, ReadsStay DEF rows
  <2> QED BY <2>1 DEF Origins, Ids
<1>2. CASE Create(r)
  BY <1>2, CreateDoc, OriginsAppended
<1>3. CASE Commits(r)
  <2>1. pc[r] # "idle"
    BY <1>3 DEF Commits, PostCommit, VoidCommit, PayCommit, EditDelete, Is
  <2>2. PICK d \in Ids : d = op[r].doc
    BY <2>1, DocTypes
  <2>3. Ids' = Ids /\ \A e \in Ids : Disturbs(r, e)
    BY <1>3, RowsAfter
  <2>4. \A e \in Ids : /\ docs'[e].of = docs[e].of /\ docs'[e].counted = docs[e].counted
                       /\ docs[e].status # "draft" => docs'[e].status # "draft"
    BY <2>3 DEF Disturbs
  <2>5. \A e \in Ids : docs[e].keyed => docs'[e].keyed
    BY <2>3 DEF Disturbs
  <2>6. ASSUME NEW e \in Ids'
        PROVE  /\ docs'[e].of \in Ids' \cup {0}
               /\ docs'[e].counted => docs'[e].of \in Ids' /\ docs'[docs'[e].of].status # "draft"
    <3>1. e \in Ids /\ docs'[e].of = docs[e].of /\ docs'[e].counted = docs[e].counted
      BY <2>3, <2>4
    <3>2. docs[e].counted => docs[e].of \in Ids /\ docs[docs[e].of].status # "draft"
      BY <3>1 DEF Origins
    <3>3. docs[e].counted => docs'[docs[e].of].status # "draft"
      BY <2>4, <3>2
    <3>4. docs[e].of \in Ids \cup {0}
      BY <3>1 DEF Origins
    <3>5. docs'[e].counted <=> docs[e].counted
      BY <3>1, Zenon
    <3> QED BY <2>3, <3>1, <3>2, <3>3, <3>4, <3>5
  <2>7. ASSUME NEW k \in AllKeys, payments'[k].rows > 0
        PROVE  payments'[k].doc \in Ids'
    <3>1. \/ payments'[k] = payments[k]
          \/ payments'[k].doc = op[r].doc
      BY <1>3, PaymentWritten
    <3> QED BY <2>2, <2>3, <2>7, <3>1 DEF Origins
  <2>8. ASSUME NEW e \in 1..MaxDocs, payments'[Settle(e)].rows > 0
        PROVE  e \in Ids' /\ payments'[Settle(e)].doc = e /\ docs'[e].keyed
    <3>0. Settle(e) \in AllKeys /\ Settle(e) \notin Keys
      BY SalesAssumption DEF AllKeys
    <3>1. CASE payments'[Settle(e)] = payments[Settle(e)]
      <4>1. e \in Ids /\ payments[Settle(e)].doc = e /\ docs[e].keyed
        BY <2>8, <3>1 DEF Origins
      <4> QED BY <2>3, <2>5, <3>1, <4>1
    <3>2. CASE PostCommit(r) /\ Settle(e) = Settle(d) /\ PaysAtOnce(r) /\ payments'[Settle(e)].doc = d
      <4>1. e = d
        BY <3>2 DEF Settle
      <4>2. PICK new : Becomes(r, new) /\ Posted(r, Doc(r), new)
        BY <3>2, PostCommitDoc
      <4>3. new.keyed
        <5>1. Keyed(r) /\ new.keyed = (Doc(r).keyed \/ Keyed(r))
          BY <3>2, <4>2, Zenon DEF PaysAtOnce, Posted
        <5> QED BY <5>1, Zenon
      <4>4. docs'[d] = new
        <5>1. new \in DocRec /\ docs' = [docs EXCEPT ![d] = new] /\ docs \in Seq(DocRec)
          BY <2>2, <4>2 DEF Becomes, SalesTypes
        <5> QED BY <5>1, <2>2, OneReplaced DEF Ids
      <4> QED BY <2>2, <2>3, <3>2, <4>1, <4>3, <4>4
    <3>3. \/ payments'[Settle(e)] = payments[Settle(e)]
          \/ /\ PostCommit(r) /\ Settle(e) = Settle(op[r].doc) /\ PaysAtOnce(r)
             /\ payments'[Settle(e)].doc = op[r].doc
      BY <1>3, <3>0, PaymentWritten
    <3> QED BY <2>2, <3>1, <3>2, <3>3
  <2> QED BY <2>6, <2>7, <2>8 DEF Origins
<1> QED BY <1>1, <1>2, <1>3, MoveKinds

-----------------------------------------------------------------------------
(* What requests hold *)

\* A request that is left alone, and whose document and payments are, holds what it held.
LEMMA HoldsStay ==
    ASSUME SalesTypes, NEW u \in Requests, Holds(u),
           pc'[u] = pc[u], op'[u] = op[u], seen'[u] = seen[u], own'[u] = own[u],
           \A x \in Locks : lock[x] = u => lock'[x] = u,
           payments' = payments, \A e \in Ids : docs'[e] = docs[e]
    PROVE  Holds(u)'
<1>1. CASE pc[u] = "idle"
  BY <1>1 DEF Holds, HoldsPost, HoldsVoid, HoldsPay, Busy, Is
<1>2. CASE pc[u] # "idle"
  <2>1. op[u].doc \in Ids /\ op[u].doc \in 1..MaxDocs /\ op[u] \in Asked
    BY <1>2, DocTypes
  <2>2. Doc(u)' = Doc(u)
    BY <2>1 DEF Doc
  <2>3. Is(u, "pay", "inserted") => op[u].key \in Keys
    BY <2>1, AskedKinds DEF Is
  <2>4. Keyed(u)' <=> Keyed(u)
    BY <2>2 DEF Keyed, ByHand
  <2>5. {<<"journal">>, <<"stock">>, <<"lines", op[u].doc>>} \subseteq Locks
    BY <2>1 DEF Locks
  <2>6. Is(u, "pay", "inserted") => <<"key", op[u].key>> \in Locks
    BY <2>3 DEF Locks
  <2>7. HoldsPost(u)'
    BY <2>2, <2>4, <2>5 DEF Holds, HoldsPost, Is, Busy
  <2>8. HoldsVoid(u)'
    BY <2>2, <2>5 DEF Holds, HoldsVoid, Busy
  <2>9. HoldsPay(u)'
    BY <2>2, <2>6 DEF Holds, HoldsPay, Is
  <2>10. (Busy(u, {"void", "pay", "return"}) => Doc(u).status # "draft")'
    BY <2>2 DEF Holds, Busy
  <2> QED BY <2>7, <2>8, <2>9, <2>10 DEF Holds
<1> QED BY <1>1, <1>2

LEMMA OthersHold ==
    ASSUME SalesTypes, Origins, \A d \in Ids : DocOK(d), NEW r \in Requests, Holds(r),
           r \notin overtaken => Current(r), SalesMove(r), NEW u \in Requests, u # r, Holds(u)
    PROVE  Holds(u)'
<1>1. CASE Reads(r)
  <2>1. docs' = docs /\ payments' = payments
    BY <1>1, ReadsStay DEF rows
  <2>2. /\ pc'[u] = pc[u] /\ op'[u] = op[u] /\ seen'[u] = seen[u] /\ own'[u] = own[u]
        /\ \A x \in Locks : lock[x] = u => lock'[x] = u
    BY <1>1, ReadsStay DEF OthersKeep
  <2> QED BY <2>1, <2>2, HoldsStay
<1>2. CASE Create(r)
  <2>1. PICK new : Appended(new)
    BY <1>2, CreateDoc
  <2>2. payments' = payments /\ \A e \in Ids : docs'[e] = docs[e]
    BY <2>1, NewRows DEF Appended
  <2>3. /\ pc'[u] = pc[u] /\ op'[u] = op[u] /\ seen'[u] = seen[u] /\ own'[u] = own[u]
        /\ \A x \in Locks : lock[x] = u => lock'[x] = u
    BY <1>2, CommitsStay DEF OthersKeep
  <2> QED BY <2>2, <2>3, HoldsStay
<1>3. CASE Commits(r)
  <2>2. /\ pc'[u] = pc[u] /\ op'[u] = op[u] /\ seen'[u] = seen[u] /\ own'[u] = own[u]
        /\ \A x \in Locks : lock[x] = u => lock'[x] = u
    BY <1>3, CommitsStay DEF OthersKeep
  <2> SUFFICES ASSUME pc[u] # "idle" PROVE Holds(u)'
    <3>1. CASE pc[u] = "idle"
      BY <2>2, <3>1 DEF Holds, HoldsPost, HoldsVoid, HoldsPay, Busy, Is
    <3> QED BY <3>1
  <2>3. PICK d \in Ids : d = op[u].doc
    BY DocTypes
  <2>4. Doc(u) = docs[d] /\ Doc(u)' = docs'[d] /\ d \in 1..MaxDocs /\ docs[d] \in DocRec /\ op[u] \in Asked
    BY <2>2, <2>3, DocTypes DEF Doc
  <2>5. Disturbs(r, d)
    BY <1>3, RowsAfter
  <2>6. /\ lock[<<"lines", d>>] = u => docs'[d].units = docs[d].units
        /\ docs'[d].units # docs[d].units => docs'[d].units = 0
        /\ docs[d].status # "draft" => docs'[d].status # "draft"
        /\ lock[<<"stock">>] = u => /\ docs'[d].moved = docs[d].moved
                                    /\ docs[d].posts = 1 => docs'[d].back = docs[d].back
        /\ docs'[d].reversals >= docs[d].reversals
        /\ docs'[d].total = docs[d].total /\ docs'[d].stocked = docs[d].stocked
    BY <2>5, SalesAssumption DEF Disturbs
  <2>7. lock[<<"journal">>] = u /\ docs'[d].keyed => docs[d].keyed
    BY <2>5, Zenon DEF Disturbs
  <2>8. {<<"journal">>, <<"stock">>, <<"lines", d>>} \subseteq Locks
    BY <2>4 DEF Locks
  <2>9. Is(u, "pay", "inserted") => op[u].key \in Keys
    BY <2>4, AskedKinds DEF Is
  <2>10. (Busy(u, {"void", "pay", "return"}) => Doc(u).status # "draft")'
    BY <2>2, <2>4, <2>6 DEF Holds, Busy
  <2>11. HoldsPost(u)'
    <3>1. Keyed(u)' <=> Keyed(u)
      BY <2>2, <2>4, <2>6 DEF Keyed, ByHand
    <3>2. (Is(u, "post", "written") /\ Keyed(u) => ~ Doc(u).keyed /\ lock[<<"journal">>] = u)'
      <4>1. Is(u, "post", "written") /\ Keyed(u) => ~ docs[d].keyed /\ lock[<<"journal">>] = u
        BY <2>4 DEF Holds, HoldsPost
      <4> QED BY <2>2, <2>4, <2>7, <2>8, <3>1, <4>1 DEF Is
    <3>3. (Busy(u, {"post"}) /\ pc[u] \in {"moved", "written"} =>
          /\ own[u] = IF Doc(u).stocked /\ "stock" \notin op[u].given THEN Doc(u).units ELSE 0
          /\ own[u] > 0 => lock[<<"lines", op[u].doc>>] = u /\ lock[<<"stock">>] = u /\ Doc(u).moved = 0)'
      <4> SUFFICES ASSUME (Busy(u, {"post"}) /\ pc[u] \in {"moved", "written"})'
                   PROVE  (/\ own[u] = IF Doc(u).stocked /\ "stock" \notin op[u].given THEN Doc(u).units ELSE 0
                           /\ own[u] > 0 => lock[<<"lines", op[u].doc>>] = u /\ lock[<<"stock">>] = u /\ Doc(u).moved = 0)'
        OBVIOUS
      <4>1. /\ own[u] = IF docs[d].stocked /\ "stock" \notin op[u].given THEN docs[d].units ELSE 0
            /\ own[u] > 0 => lock[<<"lines", d>>] = u /\ lock[<<"stock">>] = u /\ docs[d].moved = 0
        BY <2>2, <2>3, <2>4 DEF Holds, HoldsPost, Busy
      <4>2. own[u] = 0 /\ docs'[d].stocked /\ "stock" \notin op[u].given => docs'[d].units = 0
        BY <2>6, <4>1
      <4>3. own[u] \in Nat
        BY DEF SalesTypes
      <4> QED BY <2>2, <2>3, <2>4, <2>6, <2>8, <4>1, <4>2, <4>3
    <3> QED BY <3>2, <3>3 DEF HoldsPost
  <2>12. HoldsVoid(u)'
    <3> SUFFICES ASSUME Busy(u, {"void"})', docs'[d].posts = 1
                 PROVE  (/\ pc[u] \in {"reverse", "mirrored", "undone"} => Doc(u).entries > 0
                         /\ pc[u] \in {"reversed", "untouched"} => Doc(u).reversals > 0 \/ Doc(u).entries = 0
                         /\ pc[u] \in {"undone", "untouched"} =>
                               /\ own[u] = Doc(u).moved
                               /\ Doc(u).moved > 0 => lock[<<"stock">>] = u /\ Doc(u).back = 0)'
      BY <2>4 DEF HoldsVoid
    <3>1. Busy(u, {"void"}) /\ docs[d].status # "draft"
      BY <2>2, <2>3, <2>4 DEF Holds, Busy
    <3>2. docs[d].posts > 0 /\ docs[d].posts \in Nat
      BY <2>4, <3>1 DEF DocOK, PostsTell, DocRec
    <3>3. ~ (PostCommit(r) /\ d = op[r].doc) /\ docs[d].posts = 1
      BY <2>5, <3>2 DEF Disturbs
    <3>4. docs'[d].entries = docs[d].entries /\ docs'[d].moved = docs[d].moved
      BY <2>5, <3>3 DEF Disturbs
    <3>5. /\ pc[u] \in {"reverse", "mirrored", "undone"} => docs[d].entries > 0
          /\ pc[u] \in {"reversed", "untouched"} => docs[d].reversals > 0 \/ docs[d].entries = 0
          /\ pc[u] \in {"undone", "untouched"} =>
                /\ own[u] = docs[d].moved
                /\ docs[d].moved > 0 => lock[<<"stock">>] = u /\ docs[d].back = 0
      BY <2>4, <3>1, <3>3 DEF Holds, HoldsVoid
    <3>6. docs[d].reversals > 0 => docs'[d].reversals > 0
      <4>1. docs[d].reversals \in Nat
        BY <2>4 DEF DocRec
      <4>2. docs'[d].reversals \in Nat
        <5>1. docs' \in Seq(DocRec) /\ d \in DOMAIN docs'
          BY <1>3, RowsAfter DEF Ids
        <5>2. docs'[d] \in DocRec
          BY <5>1
        <5> QED BY <5>2 DEF DocRec
      <4> QED BY <2>6, <4>1, <4>2
    <3> QED BY <2>2, <2>4, <2>6, <2>8, <3>3, <3>4, <3>5, <3>6
  <2>13. HoldsPay(u)'
    <3>1. Is(u, "pay", "inserted") => payments'[op[u].key] = payments[op[u].key]
      <4> SUFFICES ASSUME Is(u, "pay", "inserted") PROVE payments'[op[u].key] = payments[op[u].key]
        OBVIOUS
      <4>1. op[u].key \in Keys /\ lock[<<"key", op[u].key>>] = u /\ op[u].key \in AllKeys
        BY <2>9 DEF Holds, HoldsPay, AllKeys
      <4> QED BY <1>3, <4>1, PaymentWritten
    <3>2. Is(u, "pay", "inserted") => <<"key", op[u].key>> \in Locks
      BY <2>9 DEF Locks
    <3> QED BY <2>2, <2>4, <2>6, <3>1, <3>2 DEF Holds, HoldsPay, Is
  <2> QED BY <2>10, <2>11, <2>12, <2>13 DEF Holds
<1> QED BY <1>1, <1>2, <1>3, MoveKinds

LEMMA OwnHold ==
    ASSUME SalesTypes, \A d \in Ids : DocOK(d), NEW r \in Requests, Holds(r), SalesMove(r)
    PROVE  Holds(r)'
<1> USE TypesSlots
<1>1. CASE pc'[r] = "idle"
  BY <1>1 DEF Holds, HoldsPost, HoldsVoid, HoldsPay, Busy, Is
<1>2. CASE Commits(r) \/ Create(r)
  <2>1. CASE EditDelete(r)
    <3>1. pc' = [pc EXCEPT ![r] = "counted"] /\ op' = op /\ op[r].kind = "edit"
      BY <2>1, EditDeleteDoc
    <3>2. pc'[r] = "counted" /\ op'[r].kind = "edit"
      BY <3>1 DEF SalesTypes
    <3> QED BY <3>2 DEF Holds, HoldsPost, HoldsVoid, HoldsPay, Busy, Is
  <2> QED BY <1>1, <1>2, <2>1, CommitsStay
<1>3. ASSUME NEW o \in Ops \cup Pays, Begin(r, o) PROVE Holds(r)'
  <2>1. /\ op'[r] = o /\ pc'[r] = "read" /\ docs' = docs /\ Accepts(o)
    BY <1>3 DEF Begin, Goto, SalesTypes, rows
  <2>2. o.kind \in {"void", "pay", "return"} => docs[o.doc].status # "draft"
    BY <2>1 DEF Accepts
  <2> QED BY <2>1, <2>2 DEF Holds, HoldsPost, HoldsVoid, HoldsPay, Busy, Is, Doc
<1>4. ASSUME pc[r] # "idle", NEW l, Goto(r, l), UNCHANGED <<rows, op, seen>>
      PROVE  /\ pc'[r] = l /\ op'[r] = op[r] /\ seen'[r] = seen[r] /\ docs' = docs /\ payments' = payments
             /\ op[r].doc \in Ids /\ op[r].doc \in 1..MaxDocs /\ Doc(r)' = Doc(r)
  BY <1>4, DocTypes DEF Goto, SalesTypes, rows, Doc
<1>5. ASSUME NEW l, l \notin {"written", "moved", "reverse", "mirrored", "reversed", "untouched", "undone", "inserted"},
             pc[r] # "idle", Goto(r, l), UNCHANGED <<rows, op, seen>>
      PROVE  Holds(r)'
  <2>1. pc'[r] = l /\ op'[r] = op[r] /\ Doc(r)' = Doc(r)
    BY <1>4, <1>5
  <2>2. (Busy(r, {"void", "pay", "return"}) => Doc(r).status # "draft")'
    BY <1>5, <2>1 DEF Holds, Busy
  <2> QED BY <1>5, <2>1, <2>2 DEF Holds, HoldsPost, HoldsVoid, HoldsPay, Busy, Is
<1>6. CASE PostNumber(r)
  BY <1>5, <1>6 DEF PostNumber, Is
<1>7. CASE VoidDerived(r) \/ ReturnCount(r)
  BY <1>5, <1>7 DEF VoidDerived, ReturnCount, Is
<1>8. CASE PostMove(r)
  <2>1. /\ pc'[r] = "moved" /\ op'[r] = op[r] /\ Doc(r)' = Doc(r) /\ op[r].kind = "post"
        /\ op[r].doc \in 1..MaxDocs
    BY <1>4, <1>8 DEF PostMove, Is
  <2> DEFINE units == IF Doc(r).stocked /\ "stock" \notin op[r].given THEN Doc(r).units ELSE 0
  <2>2. own'[r] = units
    BY <1>8 DEF PostMove, SalesTypes
  <2>3. own'[r] > 0 => /\ lock'[<<"lines", op[r].doc>>] = r /\ lock'[<<"stock">>] = r /\ Doc(r).moved = 0
    <3>1. <<"lines", op[r].doc>> \in Locks /\ <<"stock">> \in Locks
      BY <2>1 DEF Locks
    <3>2. units > 0 => "stock" \notin op[r].given /\ Doc(r).stocked
      OBVIOUS
    <3>3. units > 0 => Take(r, {<<"stock">>, <<"lines", op[r].doc>>}) /\ Doc(r).moved = 0
      <4> SUFFICES ASSUME units > 0 PROVE Take(r, {<<"stock">>, <<"lines", op[r].doc>>}) /\ Doc(r).moved = 0
        OBVIOUS
      <4>1. ({<<"stock">> : x \in {0}} \cup {<<"lines", d>> : d \in {op[r].doc}}) = {<<"stock">>, <<"lines", op[r].doc>>}
        OBVIOUS
      <4>2. /\ Doc(r).moved = 0
            /\ Take(r, {<<"stock">> : x \in {0}} \cup {<<"lines", d>> : d \in {op[r].doc}})
        BY <1>8, <3>2 DEF PostMove
      <4> QED BY <4>1, <4>2
    <3> QED BY <2>2, <3>1, <3>3 DEF Take
  <2> QED BY <2>1, <2>2, <2>3 DEF Holds, HoldsPost, HoldsVoid, HoldsPay, Busy, Is
<1>9. CASE PostJournal(r)
  <2>1. /\ pc'[r] = "written" /\ op'[r] = op[r] /\ Doc(r)' = Doc(r) /\ op[r].kind = "post"
        /\ op[r].doc \in 1..MaxDocs /\ own'[r] = own[r] /\ pc[r] = "moved"
    BY <1>4, <1>9 DEF PostJournal, Is
  <2>2. Keyed(r) => ~ Doc(r).keyed /\ lock'[<<"journal">>] = r
    BY <1>9 DEF PostJournal, Take, Locks
  <2>3. /\ own[r] = IF Doc(r).stocked /\ "stock" \notin op[r].given THEN Doc(r).units ELSE 0
        /\ own[r] > 0 => lock[<<"lines", op[r].doc>>] = r /\ lock[<<"stock">>] = r /\ Doc(r).moved = 0
    BY <2>1 DEF Holds, HoldsPost, Busy
  <2>4. \A x \in {<<"lines", op[r].doc>>, <<"stock">>} : lock[x] = r => lock'[x] = r
    BY <1>9, <2>1 DEF PostJournal, Take, Locks
  <2>5. Keyed(r)' <=> Keyed(r)
    BY <2>1 DEF Keyed, ByHand
  <2>6. HoldsPost(r)'
    BY <2>1, <2>2, <2>3, <2>4, <2>5 DEF HoldsPost, Busy, Is
  <2> QED BY <2>1, <2>6 DEF Holds, HoldsVoid, HoldsPay, Busy, Is
<1>10. CASE VoidLookup(r)
  <2>1. /\ pc'[r] \in {"reverse", "reversed"} /\ op'[r] = op[r] /\ Doc(r)' = Doc(r) /\ op[r].kind = "void"
        /\ pc[r] = "derived"
        /\ pc'[r] = "reverse" /\ Doc(r).reversals = 0 => Doc(r).entries > 0
        /\ pc'[r] = "reversed" /\ Doc(r).reversals = 0 => ~ (Doc(r).entries > 0)
    <3>1. PICK found \in BOOLEAN : /\ Doc(r).reversals = 0 => (found <=> Doc(r).entries > 0)
                                   /\ Goto(r, IF found THEN "reverse" ELSE "reversed")
      BY <1>10 DEF VoidLookup
    <3> QED BY <1>4, <1>10, <3>1 DEF VoidLookup, Is
  <2>2. Doc(r) \in DocRec /\ Doc(r).status # "draft" /\ DocOK(op[r].doc)
    BY <2>1, DocTypes DEF Holds, Busy
  <2>3. Doc(r).reversals \in Nat /\ Doc(r).entries \in Nat /\ Doc(r).status \in {"posted", "voided"}
    BY <2>2 DEF DocRec
  <2>4. Doc(r).posts = 1 /\ Doc(r).reversals > 0 => Doc(r).entries > 0
    BY <2>2, <2>3 DEF DocOK, Doc
  <2>5. HoldsVoid(r)'
    BY <2>1, <2>3, <2>4 DEF HoldsVoid, Busy
  <2> QED BY <2>1, <2>2, <2>5 DEF Holds, HoldsPost, HoldsPay, Busy, Is
<1>11. CASE VoidReverse(r)
  <2>1. /\ pc'[r] = "mirrored" /\ op'[r] = op[r] /\ Doc(r)' = Doc(r) /\ op[r].kind = "void" /\ pc[r] = "reverse"
    BY <1>4, <1>11 DEF VoidReverse, Is
  <2>2. Doc(r).status # "draft" /\ (Doc(r).posts = 1 => Doc(r).entries > 0)
    BY <2>1 DEF Holds, HoldsVoid, Busy
  <2> QED BY <2>1, <2>2 DEF Holds, HoldsPost, HoldsVoid, HoldsPay, Busy, Is
<1>12. CASE VoidMirror(r)
  <2>1. /\ pc'[r] = IF pc[r] = "mirrored" THEN "undone" ELSE "untouched"
        /\ pc[r] \in {"reversed", "mirrored"}
        /\ op'[r] = op[r] /\ Doc(r)' = Doc(r) /\ op[r].kind = "void"
    BY <1>4, <1>12 DEF VoidMirror
  <2>2. own'[r] = Doc(r).moved
    BY <1>12 DEF VoidMirror, SalesTypes
  <2>3. Doc(r).moved > 0 => Doc(r).back = 0 /\ lock'[<<"stock">>] = r
    BY <1>12 DEF VoidMirror, Take, Locks
  <2>4. /\ Doc(r).status # "draft"
        /\ Doc(r).posts = 1 => /\ pc[r] = "mirrored" => Doc(r).entries > 0
                               /\ pc[r] = "reversed" => Doc(r).reversals > 0 \/ Doc(r).entries = 0
    BY <2>1 DEF Holds, HoldsVoid, Busy
  <2>5. HoldsVoid(r)'
    BY <2>1, <2>2, <2>3, <2>4 DEF HoldsVoid, Busy
  <2> QED BY <2>1, <2>4, <2>5 DEF Holds, HoldsPost, HoldsPay, Busy, Is
<1>13. CASE PayInsert(r)
  <2>1. /\ pc'[r] = "inserted" /\ op'[r] = op[r] /\ seen'[r] = seen[r] /\ Doc(r)' = Doc(r) /\ op[r].kind = "pay"
        /\ payments' = payments /\ pc[r] = "read"
    BY <1>4, <1>13 DEF PayInsert, Is
  <2>2. op[r].key \in Keys
    BY <2>1, DocTypes, AskedKinds
  <2>3. lock'[<<"key", op[r].key>>] = r
    BY <1>13, <2>2 DEF PayInsert, Take, Locks
  <2>4. payments[op[r].key].rows = 0 /\ seen[r].paid + op[r].amount <= Doc(r).total /\ Doc(r).status # "draft"
    BY <1>13, <2>1 DEF PayInsert, Holds, Busy
  <2> QED BY <2>1, <2>3, <2>4 DEF Holds, HoldsPost, HoldsVoid, HoldsPay, Busy, Is
<1>14. CASE PayReplay(r) \/ Fail(r)
  BY <1>1, <1>14, EndKeeps DEF PayReplay, Fail
<1> QED BY <1>2, <1>3, <1>6, <1>7, <1>8, <1>9, <1>10, <1>11, <1>12, <1>13, <1>14, MoveKinds DEF Reads

-----------------------------------------------------------------------------
(* What requests may rely on *)

\* The returns up to n that refer to d and what they take back, and what is paid for d, as
\* functions of the rows.
BackTo(s, d, n) == {e \in DOMAIN s : s[e].kind = "return" /\ s[e].of = d /\ e <= n}
ReturnedIn(s, d, n) == MapThenSumSet(LAMBDA e : s[e].units, BackTo(s, d, n))

PaidIn(p, d) ==
    MapThenSumSet(LAMBDA k : IF p[k].doc = d THEN p[k].amount * p[k].rows ELSE 0, AllKeys)

LEMMA RowsRead ==
    \A d : PaidRows(d) = PaidIn(payments, d) /\ PaidRows(d)' = PaidIn(payments', d)
<1> TAKE d
<1>3. PaidRows(d) = PaidIn(payments, d)
  BY DEF PaidRows, PaidIn
<1>4. PaidRows(d)' = PaidIn(payments', d)
  BY DEF PaidRows, PaidIn, MapThenSumSet, MapThenFoldSet
<1> QED BY <1>3, <1>4

\* Every document is among those up to the last.
LEMMA ReturnedRead ==
    ASSUME SalesTypes, NEW d
    PROVE  Returned(d) = ReturnedIn(docs, d, Len(docs))
<1>1. Ids = 1..Len(docs) /\ Len(docs) \in Nat
  BY DEF SalesTypes, Ids
<1>2. BackTo(docs, d, Len(docs)) = ReturnsOf(d)
  BY <1>1 DEF BackTo, ReturnsOf, Ids
<1> QED BY <1>2 DEF Returned, ReturnedIn

LEMMA ReturnedSame ==
    ASSUME NEW d, docs' = docs
    PROVE  Returned(d)' = Returned(d)
BY DEF Returned, ReturnsOf, Ids, MapThenSumSet, MapThenFoldSet

LEMMA UpToRead ==
    ASSUME NEW e
    PROVE  ReturnedUpTo(e) = ReturnedIn(docs, docs[e].of, e)
<1>1. {i \in ReturnsOf(docs[e].of) : i <= e} = BackTo(docs, docs[e].of, e)
  BY DEF BackTo, ReturnsOf, Ids
<1> QED BY <1>1 DEF ReturnedUpTo, ReturnedIn

LEMMA UpToNext ==
    ASSUME NEW e
    PROVE  ReturnedUpTo(e)' = ReturnedIn(docs', docs'[e].of, e)
<1>1. ({i \in ReturnsOf(docs[e].of) : i <= e})' = BackTo(docs', docs'[e].of, e)
  BY DEF BackTo, ReturnsOf, Ids
<1> QED BY <1>1 DEF ReturnedUpTo, ReturnedIn, MapThenSumSet, MapThenFoldSet

LEMMA OthersCurrent ==
    ASSUME SalesTypes, NEW r \in Requests, SalesMove(r),
           NEW u \in Requests, u # r, u \notin overtaken => Current(u), u \notin overtaken'
    PROVE  Current(u)'
<1>1. CASE Reads(r)
  <2>1. docs' = docs /\ Ids' = Ids
    BY <1>1, ReadsStay DEF rows, Ids
  <2>2. /\ pc'[u] = pc[u] /\ op'[u] = op[u] /\ seen'[u] = seen[u] /\ u \notin overtaken
    BY <1>1, ReadsStay DEF OthersKeep
  <2>3. Current(u)
    BY <2>2
  <2>4. \A d : PostedFrom(d)' = PostedFrom(d) /\ Returned(d)' = Returned(d)
    BY <2>1, ReturnedSame DEF PostedFrom
  <2>5. PICK d : d = op[u].doc
    OBVIOUS
  <2> QED BY <2>1, <2>2, <2>3, <2>4, <2>5 DEF Current, Busy, Is, Doc
<1>2. CASE Commits(r) \/ Create(r)
  <2>1. pc'[u] = pc[u] /\ pc[u] = "idle"
    BY <1>2, CommitsStay DEF OthersKeep
  <2> QED BY <2>1 DEF Current, Busy, Is
<1> QED BY <1>1, <1>2, MoveKinds

LEMMA OwnCurrent ==
    ASSUME SalesTypes, NEW r \in Requests, SalesMove(r), r \notin overtaken => Current(r), r \notin overtaken'
    PROVE  Current(r)'
<1> USE TypesSlots
<1>1. CASE pc'[r] = "idle"
  BY <1>1 DEF Current, Busy, Is
<1>2. CASE Commits(r) \/ Create(r)
  <2>1. CASE EditDelete(r)
    <3>1. pc' = [pc EXCEPT ![r] = "counted"] /\ op' = op /\ op[r].kind = "edit"
      BY <2>1, EditDeleteDoc
    <3>2. pc'[r] = "counted" /\ op'[r].kind = "edit"
      BY <3>1 DEF SalesTypes
    <3> QED BY <3>2 DEF Current, Busy, Is
  <2> QED BY <1>1, <1>2, <2>1, CommitsStay
<1>3. ASSUME NEW o \in Ops \cup Pays, Begin(r, o) PROVE Current(r)'
  <2>1. /\ op'[r] = o /\ pc'[r] = "read" /\ docs' = docs /\ Accepts(o)
        /\ seen'[r] = [units |-> docs[o.doc].units, paid |-> docs[o.doc].paid]
    BY <1>3 DEF Begin, Goto, SalesTypes, rows
  <2> QED BY <2>1 DEF Current, Busy, Is, Doc, Accepts
<1>4. CASE Reads(r) /\ pc[r] # "idle" /\ pc'[r] # "idle"
  <2>1. Current(r)
    BY <1>4, ReadsStay
  <2>2. docs' = docs
    BY <1>4, ReadsStay DEF rows
  <2>3. ASSUME NEW l, Goto(r, l), UNCHANGED <<op, seen>>
        PROVE  pc'[r] = l /\ op'[r] = op[r] /\ seen'[r] = seen[r] /\ Doc(r)' = Doc(r)
    BY <2>2, <2>3 DEF Goto, SalesTypes, Doc
  <2>4. \A d : /\ PostedFrom(d)' = PostedFrom(d) /\ Returned(d)' = Returned(d)
    BY <2>2, ReturnedSame DEF PostedFrom, Ids
  <2>5. CASE PostNumber(r) \/ PostMove(r)
    <3>1. op[r].kind = "post" /\ op'[r] = op[r] /\ pc'[r] \in {"numbered", "moved"} /\ Doc(r)' = Doc(r)
      BY <2>3, <2>5 DEF PostNumber, PostMove, Is
    <3>2. Doc(r).status = "draft"
      BY <1>4, <2>1, <3>1 DEF Current, Busy
    <3> QED BY <3>1, <3>2 DEF Current, Busy, Is
  <2>6. CASE PostJournal(r)
    <3>1. /\ op[r].kind = "post" /\ op'[r] = op[r] /\ pc'[r] = "written" /\ Doc(r)' = Doc(r)
          /\ Doc(r).kind = "return" /\ Doc(r).of # 0 => docs[Doc(r).of].status # "voided"
      BY <2>3, <2>6 DEF PostJournal, Is
    <3>2. Doc(r).status = "draft"
      BY <1>4, <2>1, <3>1 DEF Current, Busy
    <3> QED BY <2>2, <3>1, <3>2 DEF Current, Busy, Is
  <2>7. CASE VoidDerived(r) \/ VoidLookup(r) \/ VoidReverse(r) \/ VoidMirror(r)
    <3>1. /\ op[r].kind = "void" /\ op'[r] = op[r] /\ Doc(r)' = Doc(r)
          /\ pc[r] = "read" => PostedFrom(op[r].doc) = {}
      <4>1. UNCHANGED <<op, seen>> /\ op[r].kind = "void" /\ \E l : Goto(r, l)
        BY <2>7 DEF VoidDerived, VoidLookup, VoidReverse, VoidMirror, Is
      <4>2. pc[r] = "read" => PostedFrom(op[r].doc) = {}
        BY <2>7 DEF VoidDerived, VoidLookup, VoidReverse, VoidMirror, Is
      <4> QED BY <2>3, <4>1, <4>2
    <3>2. PostedFrom(op[r].doc)' = PostedFrom(op[r].doc)
      BY <2>2, <3>1 DEF PostedFrom, Ids
    <3>3. Doc(r).status = "posted" /\ Doc(r).paid = 0 /\ PostedFrom(op[r].doc) = {}
      BY <1>4, <2>1, <3>1 DEF Current, Busy
    <3> QED BY <3>1, <3>2, <3>3 DEF Current, Busy, Is
  <2>8. CASE PayInsert(r)
    <3>1. op[r].kind = "pay" /\ op'[r] = op[r] /\ seen'[r] = seen[r] /\ Doc(r)' = Doc(r)
      BY <2>3, <2>8 DEF PayInsert, Is
    <3> QED BY <1>4, <2>1, <3>1 DEF Current, Busy, Is
  <2>9. CASE ReturnCount(r)
    <3>1. /\ op[r].kind = "return" /\ op'[r] = op[r] /\ seen'[r] = seen[r] /\ Doc(r)' = Doc(r)
          /\ Returned(op[r].doc) + op[r].body.units <= seen[r].units
      BY <2>3, <2>9 DEF ReturnCount, Is
    <3>2. PICK d : d = op[r].doc
      OBVIOUS
    <3>3. seen[r].units = Doc(r).units
      BY <1>4, <2>1, <3>1 DEF Current, Busy
    <3>4. Returned(d)' + op[r].body.units <= Doc(r).units
      BY <2>4, <3>1, <3>2, <3>3
    <3> QED BY <3>1, <3>2, <3>3, <3>4 DEF Current, Busy, Is
  <2>10. CASE PayReplay(r) \/ Fail(r)
    BY <1>4, <2>10, EndKeeps DEF PayReplay, Fail
  <2>11. CASE \E o \in Ops \cup Pays : Begin(r, o)
    BY <1>4, <2>11 DEF Begin
  <2> QED BY <1>4, <2>5, <2>6, <2>7, <2>8, <2>9, <2>10, <2>11 DEF Reads
<1>5. CASE Reads(r) /\ pc[r] = "idle"
  BY <1>3, <1>5 DEF Reads, PostNumber, PostMove, PostJournal, VoidDerived, VoidLookup, VoidReverse, VoidMirror,
                    PayInsert, ReturnCount, PayReplay, Fail, Is
<1> QED BY <1>1, <1>2, <1>4, <1>5, MoveKinds

-----------------------------------------------------------------------------
(* Sums of payments and of returns *)

PaidTerm(p, d) == [k \in AllKeys |-> IF p[k].doc = d THEN p[k].amount * p[k].rows ELSE 0]
UnitsIn(s) == [e \in DOMAIN s |-> s[e].units]

LEMMA AllKeysFinite == IsFiniteSet(AllKeys)
<1>1. IsFiniteSet(1..MaxDocs)
  BY SalesAssumption, FS_Interval
<1> DEFINE settles == {Settle(d) : d \in 1..MaxDocs}
<1>2. IsFiniteSet(settles)
  <2> DEFINE f == [d \in 1..MaxDocs |-> Settle(d)]
  <2>1. f \in Surjection(1..MaxDocs, settles)
    BY DEF Surjection
  <2> HIDE DEF f, settles
  <2> QED BY <1>1, <2>1, FS_Surjection
<1> HIDE DEF settles
<1>3. IsFiniteSet(Keys \cup settles)
  BY <1>2, SalesAssumption, FS_Union
<1> QED BY <1>3 DEF AllKeys, settles

LEMMA PaidSum == \A p, d : PaidIn(p, d) = SumOf(PaidTerm(p, d), AllKeys)
BY DEF PaidIn, SumOf, PaidTerm, MapThenSumSet, MapThenFoldSet

LEMMA UnitsSum ==
    ASSUME NEW s, NEW B, B \subseteq DOMAIN s
    PROVE  MapThenSumSet(LAMBDA e : s[e].units, B) = SumOf(UnitsIn(s), B)
BY DEF UnitsIn, SumOf, MapThenSumSet, MapThenFoldSet

LEMMA ReturnedSum == \A s, d, n : ReturnedIn(s, d, n) = SumOf(UnitsIn(s), BackTo(s, d, n))
<1> TAKE s, d, n
<1> DEFINE B == BackTo(s, d, n)
<1>1. B \subseteq DOMAIN s
  BY DEF BackTo
<1>2. ReturnedIn(s, d, n) = MapThenSumSet(LAMBDA e : s[e].units, B)
  BY DEF ReturnedIn
<1> HIDE DEF B
<1>3. MapThenSumSet(LAMBDA e : s[e].units, B) = SumOf(UnitsIn(s), B)
  BY <1>1, UnitsSum
<1> QED BY <1>2, <1>3 DEF B

LEMMA PaidTermNat ==
    ASSUME NEW p \in RowTypes, NEW d
    PROVE  \A k \in AllKeys : PaidTerm(p, d)[k] \in Nat
<1> TAKE k \in AllKeys
<1>1. p[k].rows \in {0, 1} /\ p[k].amount \in Nat
  BY DEF RowTypes
<1>2. p[k].amount * p[k].rows \in Nat
  <2>1. CASE p[k].rows = 0 BY <1>1, <2>1
  <2>2. CASE p[k].rows = 1 BY <1>1, <2>2
  <2> QED BY <1>1, <2>1, <2>2
<1>3. PaidTerm(p, d)[k] = IF p[k].doc = d THEN p[k].amount * p[k].rows ELSE 0
  BY DEF PaidTerm
<1> QED BY <1>2, <1>3

\* A new row counts for its document alone.
LEMMA OnePaid ==
    ASSUME NEW p \in RowTypes, NEW q \in RowTypes, NEW k \in AllKeys, NEW d,
           \A j \in AllKeys \ {k} : q[j] = p[j], p[k].rows = 0, q[k].rows = 1
    PROVE  /\ PaidIn(p, d) \in Nat
           /\ PaidIn(q, d) = PaidIn(p, d) + IF q[k].doc = d THEN q[k].amount ELSE 0
<1> DEFINE f == PaidTerm(p, d)
           g == PaidTerm(q, d)
<1>1. \A j \in AllKeys : f[j] \in Nat /\ g[j] \in Nat /\ f[j] \in Int /\ g[j] \in Int
  BY PaidTermNat
<1>2. \A j \in AllKeys \ {k} : f[j] = g[j]
  BY DEF PaidTerm
<1>3. f[k] = 0
  <2>1. p[k].amount \in Nat BY DEF RowTypes
  <2> QED BY <2>1 DEF PaidTerm
<1>4. g[k] = IF q[k].doc = d THEN q[k].amount ELSE 0
  <2>1. q[k].amount \in Nat BY DEF RowTypes
  <2> QED BY <2>1 DEF PaidTerm
<1> HIDE DEF f, g
<1>5. SumOf(g, AllKeys) = SumOf(f, AllKeys) + g[k] - f[k]
  BY <1>1, <1>2, AllKeysFinite, SumChange
<1>6. SumOf(f, AllKeys) \in Nat
  BY <1>1, AllKeysFinite, SumNat
<1>7. PaidIn(p, d) = SumOf(f, AllKeys) /\ PaidIn(q, d) = SumOf(g, AllKeys)
  BY PaidSum DEF f, g
<1>8. g[k] \in Nat
  BY <1>1
<1> QED BY <1>3, <1>4, <1>5, <1>6, <1>7, <1>8

\* Nothing is paid for what no row is about.
LEMMA NonePaid ==
    ASSUME NEW p \in RowTypes, NEW d, \A k \in AllKeys : p[k].rows > 0 => p[k].doc # d
    PROVE  PaidIn(p, d) = 0
<1>1. \A k \in AllKeys : PaidTerm(p, d)[k] = 0
  <2> TAKE k \in AllKeys
  <2>1. p[k].rows \in {0, 1} /\ p[k].amount \in Nat
    BY DEF RowTypes
  <2> QED BY <2>1 DEF PaidTerm
<1>2. SumOf(PaidTerm(p, d), AllKeys) = 0
  BY <1>1, AllKeysFinite, SumZero
<1> QED BY <1>2, PaidSum

LEMMA BackFinite ==
    ASSUME NEW s \in Seq(DocRec), NEW d, NEW n
    PROVE  /\ IsFiniteSet(BackTo(s, d, n))
           /\ \A e \in BackTo(s, d, n) : UnitsIn(s)[e] = s[e].units /\ s[e].units \in Nat
<1>1. Len(s) \in Nat /\ DOMAIN s = 1..Len(s) /\ \A e \in DOMAIN s : s[e] \in DocRec
  OBVIOUS
<1>2. IsFiniteSet(DOMAIN s)
  BY <1>1, FS_Interval
<1>3. IsFiniteSet(BackTo(s, d, n))
  BY <1>2, FS_Subset DEF BackTo
<1> QED BY <1>1, <1>3 DEF BackTo, UnitsIn, DocRec

LEMMA ReturnedNat ==
    ASSUME NEW s \in Seq(DocRec), NEW d, NEW n
    PROVE  ReturnedIn(s, d, n) \in Nat
<1>1. IsFiniteSet(BackTo(s, d, n)) /\ \A e \in BackTo(s, d, n) : UnitsIn(s)[e] \in Nat
  BY BackFinite
<1>2. SumOf(UnitsIn(s), BackTo(s, d, n)) \in Nat
  BY <1>1, SumNat
<1> QED BY <1>2, ReturnedSum

\* Documents that lose units take no more back.
LEMMA ReturnedLess ==
    ASSUME NEW s \in Seq(DocRec), NEW t \in Seq(DocRec), NEW d, NEW n, BackTo(t, d, n) = BackTo(s, d, n),
           \A e \in BackTo(s, d, n) : t[e].units <= s[e].units
    PROVE  ReturnedIn(t, d, n) <= ReturnedIn(s, d, n)
<1> DEFINE B == BackTo(s, d, n)
<1>1. IsFiniteSet(B)
  BY BackFinite
<1>2. \A e \in B : /\ UnitsIn(s)[e] \in Int /\ UnitsIn(t)[e] \in Int
                   /\ UnitsIn(t)[e] <= UnitsIn(s)[e]
  BY <1>1, BackFinite
<1> HIDE DEF B
<1>3. SumOf(UnitsIn(t), B) <= SumOf(UnitsIn(s), B)
  BY <1>1, <1>2, SumMono
<1> QED BY <1>3, ReturnedSum DEF B

\* A new return adds its units to the document it refers to.
LEMMA ReturnedMore ==
    ASSUME NEW s \in Seq(DocRec), NEW t \in Seq(DocRec), NEW new \in DocRec, NEW d,
           Len(t) = Len(s) + 1, t[Len(s) + 1] = new, \A e \in DOMAIN s : t[e] = s[e],
           new.kind = "return", new.of = d
    PROVE  ReturnedIn(t, d, Len(s) + 1) = ReturnedIn(s, d, Len(s)) + new.units
<1> DEFINE n == Len(s) + 1
           B == BackTo(s, d, Len(s))
<1>1. /\ DOMAIN t = DOMAIN s \cup {n} /\ n \notin DOMAIN s /\ t[n] = new
      /\ \A e \in DOMAIN s : t[e] = s[e] /\ e <= n /\ e <= Len(s)
      /\ n <= n
  <2>1. DOMAIN t = 1..Len(t) /\ DOMAIN s = 1..Len(s) /\ Len(s) \in Nat
    OBVIOUS
  <2>2. 1..(Len(s) + 1) = (1..Len(s)) \cup {n} /\ n \notin 1..Len(s)
    BY <2>1
  <2> QED BY <2>1, <2>2
<1> HIDE DEF n
<1>2. BackTo(t, d, n) = B \cup {n}
  BY <1>1 DEF BackTo
<1>3. IsFiniteSet(B) /\ n \notin B /\ B \subseteq DOMAIN s
  <2>1. IsFiniteSet(B)
    BY BackFinite
  <2>2. B \subseteq DOMAIN s
    BY DEF BackTo
  <2> QED BY <1>1, <2>1, <2>2
<1>4. \A e \in B : UnitsIn(t)[e] = UnitsIn(s)[e] /\ UnitsIn(s)[e] \in Nat /\ UnitsIn(t)[e] \in Int
  <2>1. \A e \in B : UnitsIn(s)[e] = s[e].units /\ s[e].units \in Nat
    BY BackFinite
  <2>2. \A e \in B : UnitsIn(t)[e] = s[e].units
    BY <1>1, <1>3 DEF UnitsIn
  <2> QED BY <2>1, <2>2
<1>5. UnitsIn(t)[n] = new.units /\ new.units \in Nat
  BY <1>1 DEF UnitsIn, DocRec
<1> HIDE DEF B
<1>6. SumOf(UnitsIn(t), B) = SumOf(UnitsIn(s), B)
  BY <1>3, <1>4, SumAgree
<1>7. ReturnedIn(s, d, Len(s)) = SumOf(UnitsIn(s), B) /\ ReturnedIn(t, d, n) = SumOf(UnitsIn(t), BackTo(t, d, n))
  BY ReturnedSum DEF B
<1>8. \A e \in B \cup {n} : UnitsIn(t)[e] \in Int
  BY <1>4, <1>5
<1>9. SumOf(UnitsIn(t), B \cup {n}) = SumOf(UnitsIn(t), B) + UnitsIn(t)[n]
  BY <1>3, <1>8, SumAdd
<1> QED BY <1>2, <1>5, <1>6, <1>7, <1>9 DEF n

-----------------------------------------------------------------------------
(* Money and returns *)

\* What a commit adds to what is paid for a document.
Added(r, d) ==
    IF d # op[r].doc THEN 0
    ELSE IF PayCommit(r) THEN op[r].amount
    ELSE IF PostCommit(r) /\ PaysAtOnce(r) THEN Doc(r).total
    ELSE 0

LEMMA PaidAfter ==
    ASSUME SalesTypes, Origins, NEW r \in Requests, Holds(r), Commits(r), NEW d
    PROVE  PaidRows(d) \in Nat /\ PaidRows(d)' = PaidRows(d) + Added(r, d)
<1>1. pc[r] # "idle"
  BY DEF Commits, PostCommit, VoidCommit, PayCommit, EditDelete, Is
<1>2. op[r].doc \in Ids /\ op[r].doc \in 1..MaxDocs /\ Doc(r).total \in Nat
  BY <1>1, DocTypes DEF DocRec
<1>3. payments \in RowTypes /\ payments' \in RowTypes
  BY PaymentsAfter DEF SalesTypes
<1>4. PaidRows(d) = PaidIn(payments, d) /\ PaidRows(d)' = PaidIn(payments', d)
  BY RowsRead
<1>5. PaidIn(payments, d) \in Nat
  <2>1. SumOf(PaidTerm(payments, d), AllKeys) \in Nat
    BY <1>3, PaidTermNat, AllKeysFinite, SumNat
  <2> QED BY <2>1, PaidSum
<1>6. ASSUME payments' = payments, Added(r, d) = 0
      PROVE  PaidRows(d)' = PaidRows(d) + Added(r, d)
  BY <1>4, <1>5, <1>6
<1>7. ASSUME NEW k \in AllKeys, \A j \in AllKeys \ {k} : payments'[j] = payments[j],
             payments[k].rows = 0, payments'[k].rows = 1, payments'[k].doc = op[r].doc,
             d = op[r].doc => payments'[k].amount = Added(r, d)
      PROVE  PaidRows(d)' = PaidRows(d) + Added(r, d)
  <2>1. PaidIn(payments', d) = PaidIn(payments, d) + IF payments'[k].doc = d THEN payments'[k].amount ELSE 0
    BY <1>3, <1>7, OnePaid
  <2>2. d # op[r].doc => Added(r, d) = 0
    BY DEF Added
  <2> QED BY <1>4, <1>7, <2>1, <2>2
<1>8. CASE PayCommit(r)
  <2>1. /\ op[r].key \in AllKeys /\ payments[op[r].key].rows = 0
        /\ payments' = [payments EXCEPT ![op[r].key] = [doc |-> op[r].doc, amount |-> op[r].amount, rows |-> 1]]
    BY <1>8, PayCommitDoc DEF AllKeys
  <2>2. /\ \A j \in AllKeys \ {op[r].key} : payments'[j] = payments[j]
        /\ payments'[op[r].key].rows = 1 /\ payments'[op[r].key].doc = op[r].doc
        /\ payments'[op[r].key].amount = op[r].amount
    BY <1>3, <2>1 DEF RowTypes
  <2>3. d = op[r].doc => op[r].amount = Added(r, d)
    BY <1>8 DEF Added
  <2> QED BY <1>4, <1>5, <1>7, <2>1, <2>2, <2>3
<1>9. CASE PostCommit(r) /\ PaysAtOnce(r)
  <2> DEFINE k == Settle(op[r].doc)
  <2>1. /\ payments' = [payments EXCEPT ![k] = [doc |-> op[r].doc, amount |-> Doc(r).total, rows |-> 1]]
        /\ op[r].kind = "post"
    BY <1>9, PostCommitDoc
  <2>2. k \in AllKeys /\ k \notin Keys
    BY <1>2, SalesAssumption DEF AllKeys
  <2>3. payments[k].rows = 0
    <3>1. payments[k].rows \in {0, 1}
      BY <1>3, <2>2 DEF RowTypes
    <3>2. payments[k].rows > 0 => Doc(r).keyed
      BY <1>2 DEF Origins, Doc
    <3>3. ~ Doc(r).keyed
      BY <1>9, <2>1 DEF PaysAtOnce, Holds, HoldsPost, PostCommit, Is
    <3> QED BY <3>1, <3>2, <3>3
  <2> HIDE DEF k
  <2>4. /\ \A j \in AllKeys \ {k} : payments'[j] = payments[j]
        /\ payments'[k].rows = 1 /\ payments'[k].doc = op[r].doc
        /\ payments'[k].amount = Doc(r).total
    BY <1>3, <2>1, <2>2 DEF RowTypes
  <2>5. ~ PayCommit(r)
    BY <2>1 DEF PayCommit, Is
  <2>6. d = op[r].doc => Doc(r).total = Added(r, d)
    BY <1>9, <2>5 DEF Added
  <2> QED BY <1>4, <1>5, <1>7, <2>2, <2>3, <2>4, <2>6
<1>10. CASE ~ PayCommit(r) /\ ~ (PostCommit(r) /\ PaysAtOnce(r))
  <2>1. payments' = payments
    <3>1. CASE PostCommit(r)
      <4>1. payments' = IF PaysAtOnce(r)
                        THEN [payments EXCEPT ![Settle(op[r].doc)] =
                                [doc |-> op[r].doc, amount |-> Doc(r).total, rows |-> 1]]
                        ELSE payments
        BY <3>1, PostCommitDoc
      <4> QED BY <1>10, <3>1, <4>1
    <3>2. CASE VoidCommit(r) \/ EditDelete(r)
      BY <3>2 DEF VoidCommit, EditDelete
    <3> QED BY <1>10, <3>1, <3>2 DEF Commits
  <2>2. Added(r, d) = 0
    BY <1>10 DEF Added
  <2> QED BY <1>4, <1>5, <1>6, <2>1, <2>2
<1> QED BY <1>4, <1>5, <1>8, <1>9, <1>10

LEMMA PaidKept ==
    ASSUME SalesTypes, Origins, \A d \in Ids : DocOK(d), NEW r \in Requests, Holds(r), Commits(r),
           r \notin overtaken => Current(r), PaidTellsPayments
    PROVE  PaidTellsPayments'
<1> SUFFICES ASSUME "pay" \notin stale', NEW e \in Ids', docs'[e].posts <= 1
             PROVE  docs'[e].paid = PaidRows(e)' /\ PaidRows(e)' <= docs'[e].total
  BY DEF PaidTellsPayments
<1>1. pc[r] # "idle"
  BY DEF Commits, PostCommit, VoidCommit, PayCommit, EditDelete, Is
<1>2. PICK d \in Ids : d = op[r].doc
  BY <1>1, DocTypes
<1>3. /\ docs \in Seq(DocRec) /\ Doc(r) = docs[d] /\ DocOK(d) /\ Doc(r) \in DocRec
  BY <1>1, <1>2, DocTypes DEF SalesTypes, Doc
<1>4. stale' = stale \cup IF r \in overtaken THEN {op[r].kind} ELSE {}
  BY CommitsStay
<1>5. /\ e \in Ids /\ docs[e] \in DocRec /\ Disturbs(r, e)
      /\ e # d => docs'[e] = docs[e]
  <2>1. e \in Ids /\ Disturbs(r, e) /\ (e # d => docs'[e] = docs[e])
    BY <1>2, RowsAfter
  <2>2. docs[e] \in DocRec
    BY <1>3, <2>1 DEF Ids
  <2> QED BY <2>1, <2>2
<1>6. docs[e].posts <= 1 /\ docs[e].paid = PaidRows(e) /\ PaidRows(e) <= docs[e].total
      /\ (PostCommit(r) /\ e = d => docs[e].posts = 0)
  <2>1. docs[e].posts \in Nat
    BY <1>5 DEF DocRec
  <2>2. docs'[e].posts = IF PostCommit(r) /\ e = d THEN docs[e].posts + 1 ELSE docs[e].posts
    BY <1>2, <1>5 DEF Disturbs
  <2>3. docs[e].posts <= 1 /\ (PostCommit(r) /\ e = d => docs[e].posts = 0)
    BY <2>1, <2>2
  <2> QED BY <1>4, <1>5, <2>3 DEF PaidTellsPayments
<1>7. PaidRows(e) \in Nat /\ PaidRows(e)' = PaidRows(e) + Added(r, e)
  BY PaidAfter
<1>8. ASSUME NEW new, Becomes(r, new) PROVE docs'[d] = new /\ new.total = docs[d].total
  <2>1. new \in DocRec /\ docs' = [docs EXCEPT ![d] = new] /\ new.total = Doc(r).total
    BY <1>2, <1>8 DEF Becomes
  <2> QED BY <1>2, <1>3, <2>1, OneReplaced DEF Ids
<1>9. CASE e # d
  <2>1. Added(r, e) = 0
    BY <1>2, <1>9 DEF Added
  <2> QED BY <1>5, <1>6, <1>7, <1>9, <2>1
<1>10. CASE e = d /\ PostCommit(r)
  <2>1. PICK new : Becomes(r, new) /\ Posted(r, Doc(r), new)
    BY <1>10, PostCommitDoc
  <2>2. op[r].kind = "post"
    BY <1>10, PostCommitDoc
  <2>3. docs[d].status = "draft" /\ docs[d].paid = 0
    <3>1. docs[d].status = "draft"
      BY <1>3, <1>6, <1>10 DEF DocOK, PostsTell
    <3> QED BY <1>3, <3>1 DEF DocOK, Blank
  <2>4. Added(r, e) = IF PaysAtOnce(r) THEN Doc(r).total ELSE 0
    BY <1>2, <1>10, <2>2 DEF Added, PayCommit, Is
  <2>5. Doc(r).total \in Nat
    BY <1>3 DEF DocRec
  <2>6. docs'[e] = new /\ new.total = Doc(r).total
    BY <1>3, <1>8, <1>10, <2>1
  <2>7. new.paid = IF PaysAtOnce(r) THEN Doc(r).total ELSE 0
    BY <1>3, <2>1, <2>3 DEF Posted
  <2> QED BY <1>3, <1>6, <1>7, <1>10, <2>3, <2>4, <2>5, <2>6, <2>7
<1>11. CASE e = d /\ PayCommit(r)
  <2>1. PICK new : Becomes(r, new) /\ new.paid = seen[r].paid + op[r].amount
    <3>1. \E new : /\ Becomes(r, new) /\ SameTraces(Doc(r), new) /\ new.units = Doc(r).units
                   /\ new.paid = seen[r].paid + op[r].amount
      BY <1>11, PayCommitDoc
    <3> QED BY <3>1
  <2>2. op[r].kind = "pay" /\ seen[r].paid + op[r].amount <= Doc(r).total
    BY <1>11, PayCommitDoc
  <2>3. r \notin overtaken
    BY <1>4, <2>2
  <2>4. seen[r].paid = Doc(r).paid
    BY <1>1, <2>2, <2>3 DEF Current, Busy
  <2>5. Added(r, e) = op[r].amount
    BY <1>2, <1>11 DEF Added
  <2>6. docs'[e] = new /\ new.total = Doc(r).total
    BY <1>3, <1>8, <1>11, <2>1
  <2> QED BY <1>3, <1>6, <1>7, <1>11, <2>1, <2>2, <2>4, <2>5, <2>6
<1>12. ASSUME e = d, ~ PayCommit(r), ~ PostCommit(r), NEW new, Becomes(r, new), new.paid = Doc(r).paid
       PROVE  docs'[e].paid = PaidRows(e)' /\ PaidRows(e)' <= docs'[e].total
  <2>1. Added(r, e) = 0
    BY <1>12 DEF Added
  <2>2. docs'[e] = new /\ new.total = Doc(r).total
    BY <1>3, <1>8, <1>12
  <2> QED BY <1>3, <1>6, <1>7, <1>12, <2>1, <2>2
<1>13. CASE e = d /\ VoidCommit(r)
  <2>1. PICK new : Becomes(r, new) /\ Voided(r, Doc(r), new)
    BY <1>13, VoidCommitDoc
  <2>2. ~ PayCommit(r) /\ ~ PostCommit(r) /\ new.paid = Doc(r).paid
    BY <1>13, <2>1 DEF VoidCommit, PayCommit, PostCommit, Is, Voided
  <2> QED BY <1>12, <1>13, <2>1, <2>2
<1>14. CASE e = d /\ EditDelete(r)
  <2>1. PICK new : Becomes(r, new) /\ new.paid = Doc(r).paid
    BY <1>14, EditDeleteDoc
  <2>2. ~ PayCommit(r) /\ ~ PostCommit(r)
    BY <1>14 DEF EditDelete, PayCommit, PostCommit, Is
  <2> QED BY <1>12, <1>14, <2>1, <2>2
<1> QED BY <1>9, <1>10, <1>11, <1>13, <1>14 DEF Commits

LEMMA VoidedKept ==
    ASSUME SalesTypes, Origins, \A d \in Ids : DocOK(d), NEW r \in Requests, Holds(r), Commits(r),
           r \notin overtaken => Current(r), PaidTellsPayments, VoidedStandsAlone
    PROVE  VoidedStandsAlone'
<1> SUFFICES ASSUME stale' \cap {"void", "pay", "post"} = {}, NEW e \in Ids', docs'[e].status = "voided"
             PROVE  PaidRows(e)' = 0 /\ \A x \in PostedFrom(e)' : docs'[x].kind = "sale"
  BY DEF VoidedStandsAlone
<1>1. pc[r] # "idle"
  BY DEF Commits, PostCommit, VoidCommit, PayCommit, EditDelete, Is
<1>2. PICK d \in Ids : d = op[r].doc
  BY <1>1, DocTypes
<1>3. docs \in Seq(DocRec) /\ Doc(r) = docs[d] /\ DocOK(d)
  BY <1>1, <1>2, DocTypes DEF SalesTypes, Doc
<1>4. stale' = stale \cup IF r \in overtaken THEN {op[r].kind} ELSE {}
  BY CommitsStay
<1>5. stale \cap {"void", "pay", "post"} = {} /\ "pay" \notin stale /\ "post" \notin stale
  BY <1>4
<1>6. op[r].kind \in {"void", "pay", "post"} => Current(r)
  BY <1>4
<1>7. Ids' = Ids /\ \A x \in Ids : Disturbs(r, x)
  BY RowsAfter
<1>8. \A x \in Ids : docs[x].status \in {"draft", "posted", "voided"} /\ docs[x].kind \in {"sale", "return"}
                     /\ docs[x].posts \in Nat
  <2> TAKE x \in Ids
  <2>1. docs[x] \in DocRec
    BY <1>3 DEF Ids
  <2> QED BY <2>1 DEF DocRec
<1>9. e \in Ids /\ e # 0
  BY <1>3, <1>7 DEF Ids
<1>10. docs[e].status = "voided" \/ (VoidCommit(r) /\ e = d)
  BY <1>2, <1>7, <1>9 DEF Disturbs
<1>11. docs[e].posts <= 1
  <2>1. docs[e].status # "draft" => docs[e].posts \in Nat /\ ~ (docs[e].posts > 1)
    BY <1>5, <1>8, <1>9 DEF DocOK, PostsTell
  <2>2. docs[e].status = "draft" => docs[e].posts = 0
    BY <1>9 DEF DocOK, Blank
  <2> QED BY <2>1, <2>2
<1>12. PaidRows(e) = 0 /\ \A x \in PostedFrom(e) : docs[x].kind = "sale"
  <2>1. CASE docs[e].status = "voided"
    BY <1>5, <1>9, <2>1 DEF VoidedStandsAlone
  <2>2. CASE VoidCommit(r) /\ e = d /\ docs[e].status # "voided"
    <3>1. op[r].kind = "void" /\ pc[r] # "read"
      BY <2>2 DEF VoidCommit
    <3>2. docs[e].paid = 0 /\ PostedFrom(e) = {}
      BY <1>1, <1>2, <1>3, <1>6, <2>2, <3>1 DEF Current, Busy
    <3> QED BY <1>5, <1>9, <1>11, <3>2 DEF PaidTellsPayments
  <2> QED BY <1>10, <2>1, <2>2
<1>13. PostCommit(r) => Doc(r).status = "draft"
  <2>1. PostCommit(r) => op[r].kind = "post"
    BY DEF PostCommit, Is
  <2> QED BY <1>1, <1>6, <2>1 DEF Current, Busy
<1>14. Added(r, e) = 0
  <2>1. CASE VoidCommit(r)
    BY <2>1 DEF VoidCommit, Added, PayCommit, PostCommit, Is
  <2>2. CASE docs[e].status = "voided" /\ e = d
    <3>1. ~ PostCommit(r)
      BY <1>3, <1>13, <2>2
    <3>2. ~ PayCommit(r)
      <4>1. PayCommit(r) => op[r].kind = "pay"
        BY DEF PayCommit, Is
      <4> QED BY <1>1, <1>3, <1>6, <2>2, <4>1 DEF Current, Busy
    <3> QED BY <3>1, <3>2 DEF Added
  <2>3. CASE e # d
    BY <1>2, <2>3 DEF Added
  <2> QED BY <1>10, <2>1, <2>2, <2>3
<1>15. PaidRows(e)' = 0
  BY <1>12, <1>14, PaidAfter
<1>16. ASSUME NEW x \in Ids', docs'[x].of = e, docs'[x].status = "posted" PROVE docs'[x].kind = "sale"
  <2>1. x \in Ids
    BY <1>7, <1>16
  <2>2. /\ docs[x].of = e /\ docs'[x].kind = docs[x].kind
        /\ docs[x].status = "posted" \/ (PostCommit(r) /\ x = d)
    BY <1>2, <1>7, <1>8, <1>16, <2>1 DEF Disturbs
  <2>3. CASE docs[x].status = "posted"
    BY <1>12, <2>1, <2>2, <2>3 DEF PostedFrom
  <2>4. CASE PostCommit(r) /\ x = d
    <3>1. op[r].kind = "post" /\ pc[r] = "written" /\ ~ VoidCommit(r)
      BY <2>4 DEF PostCommit, VoidCommit, Is
    <3>2. docs[e].status = "voided"
      BY <1>10, <3>1
    <3>3. docs[d].kind # "return"
      BY <1>3, <1>6, <1>9, <2>2, <2>4, <3>1, <3>2 DEF Current, Is
    <3> QED BY <1>8, <2>1, <2>2, <2>4, <3>3
  <2> QED BY <2>2, <2>3, <2>4
<1>17. \A x \in PostedFrom(e)' : docs'[x].kind = "sale"
  BY <1>16 DEF PostedFrom
<1> QED BY <1>15, <1>17

LEMMA ReturnsKept ==
    ASSUME SalesTypes, Origins, NEW r \in Requests, Holds(r), Commits(r),
           r \notin overtaken => Current(r), ReturnsWithinSale
    PROVE  ReturnsWithinSale'
<1> SUFFICES ASSUME "edit" \notin stale', NEW e \in Ids', docs'[e].counted
             PROVE  ReturnedUpTo(e)' <= docs'[docs'[e].of].units
  BY DEF ReturnsWithinSale
<1>1. pc[r] # "idle"
  BY DEF Commits, PostCommit, VoidCommit, PayCommit, EditDelete, Is
<1>2. op[r].doc \in Ids /\ docs \in Seq(DocRec) /\ docs' \in Seq(DocRec)
  BY <1>1, DocTypes, RowsAfter DEF SalesTypes
<1>3. "edit" \notin stale /\ (op[r].kind = "edit" => Current(r))
  <2>1. stale' = stale \cup IF r \in overtaken THEN {op[r].kind} ELSE {}
    BY CommitsStay
  <2> QED BY <2>1
<1>4. Ids' = Ids /\ \A x \in Ids : Disturbs(r, x)
  BY RowsAfter
<1>5. \A x \in Ids : docs[x].units \in Nat
  <2> TAKE x \in Ids
  <2>1. docs[x] \in DocRec
    BY <1>2 DEF Ids
  <2> QED BY <2>1 DEF DocRec
<1>6. e \in Ids /\ docs'[e].of = docs[e].of /\ docs[e].counted
  <2>1. docs'[e].counted = docs[e].counted
    BY <1>4 DEF Disturbs
  <2>2. docs[e].counted
    BY <2>1, Zenon
  <2> QED BY <1>4, <2>2 DEF Disturbs
<1> DEFINE s == docs[e].of
<1>7. s \in Ids /\ docs[s].status # "draft" /\ ReturnedUpTo(e) <= docs[s].units
  BY <1>3, <1>6 DEF Origins, ReturnsWithinSale
<1>8. ReturnedUpTo(e) = ReturnedIn(docs, s, e) /\ ReturnedUpTo(e)' = ReturnedIn(docs', s, e)
  BY <1>6, UpToRead, UpToNext
<1> HIDE DEF s
<1>9. ReturnedIn(docs', s, e) <= ReturnedIn(docs, s, e)
  <2>1. BackTo(docs', s, e) = BackTo(docs, s, e) /\ BackTo(docs, s, e) \subseteq Ids
    <3>1. DOMAIN docs' = DOMAIN docs /\ \A x \in DOMAIN docs : docs'[x].kind = docs[x].kind /\ docs'[x].of = docs[x].of
      BY <1>4 DEF Disturbs, Ids
    <3> QED BY <3>1 DEF BackTo, Ids
  <2>2. \A x \in Ids : docs'[x].units <= docs[x].units
    <3> TAKE x \in Ids
    <3>1. docs'[x].units = docs[x].units \/ docs'[x].units = 0
      BY <1>4 DEF Disturbs
    <3> QED BY <1>5, <3>1
  <2> QED BY <1>2, <2>1, <2>2, ReturnedLess
<1>10. ReturnedIn(docs, s, e) \in Nat /\ ReturnedIn(docs', s, e) \in Nat
  BY <1>2, ReturnedNat
<1>11. docs'[s].units = docs[s].units
  <2> SUFFICES ASSUME docs'[s].units # docs[s].units PROVE FALSE
    OBVIOUS
  <2>1. EditDelete(r) /\ s = op[r].doc
    BY <1>4, <1>7 DEF Disturbs
  <2>2. op[r].kind = "edit" /\ pc[r] = "read"
    BY <2>1, EditDeleteDoc
  <2> QED BY <1>3, <1>7, <2>1, <2>2 DEF Current, Is, Doc
<1> QED BY <1>5, <1>6, <1>7, <1>8, <1>9, <1>10, <1>11 DEF s

\* What a create adds has no payment, is not voided, and fits if it is counted.
LEMMA PropertiesAppended ==
    ASSUME SalesTypes, Origins, NEW new, Appended(new), stale \subseteq stale',
           PaidTellsPayments, VoidedStandsAlone, ReturnsWithinSale
    PROVE  PaidTellsPayments' /\ VoidedStandsAlone' /\ ReturnsWithinSale'
<1> DEFINE n == Len(docs) + 1
<1>1. /\ docs \in Seq(DocRec) /\ docs' \in Seq(DocRec) /\ Len(docs') = n
      /\ Ids' = Ids \cup {n} /\ n \notin Ids /\ Ids = 1..Len(docs) /\ Len(docs) \in Nat
      /\ docs'[n] = new /\ \A x \in Ids : docs'[x] = docs[x]
  BY NewRows DEF SalesTypes
<1>2. /\ new \in DocRec /\ new.status = "draft" /\ new.paid = 0 /\ payments' = payments
      /\ new.total \in Nat
      /\ new.counted => /\ new.kind = "return" /\ new.of \in Ids /\ docs[new.of].status # "draft"
                        /\ Returned(new.of) + new.units <= docs[new.of].units
  BY DEF Appended, Blank, DocRec
<1> HIDE DEF n
<1>3. \A d : PaidRows(d)' = PaidRows(d)
  BY <1>2, RowsRead
<1>4. PaidRows(n) = 0
  <2>1. \A k \in AllKeys : payments[k].rows > 0 => payments[k].doc # n
    BY <1>1 DEF Origins
  <2> QED BY <2>1, NonePaid, RowsRead DEF SalesTypes
<1>5. PaidTellsPayments'
  <2> SUFFICES ASSUME "pay" \notin stale', NEW e \in Ids', docs'[e].posts <= 1
               PROVE  docs'[e].paid = PaidRows(e) /\ PaidRows(e) <= docs'[e].total
    BY <1>3 DEF PaidTellsPayments
  <2>1. CASE e = n
    BY <1>1, <1>2, <1>4, <2>1
  <2>2. CASE e \in Ids
    BY <1>1, <2>2 DEF PaidTellsPayments
  <2> QED BY <1>1, <2>1, <2>2
<1>6. VoidedStandsAlone'
  <2> SUFFICES ASSUME stale' \cap {"void", "pay", "post"} = {}, NEW e \in Ids', docs'[e].status = "voided"
               PROVE  PaidRows(e) = 0 /\ \A x \in PostedFrom(e)' : docs'[x].kind = "sale"
    BY <1>3 DEF VoidedStandsAlone
  <2>1. e \in Ids /\ docs[e].status = "voided" /\ stale \cap {"void", "pay", "post"} = {}
    BY <1>1, <1>2
  <2>2. PaidRows(e) = 0 /\ \A x \in PostedFrom(e) : docs[x].kind = "sale"
    BY <2>1 DEF VoidedStandsAlone
  <2>3. \A x \in PostedFrom(e)' : x \in PostedFrom(e) /\ docs'[x] = docs[x]
    BY <1>1, <1>2 DEF PostedFrom
  <2> QED BY <2>2, <2>3
<1>7. ReturnsWithinSale'
  <2> SUFFICES ASSUME "edit" \notin stale', NEW e \in Ids', docs'[e].counted
               PROVE  ReturnedUpTo(e)' <= docs'[docs'[e].of].units
    BY DEF ReturnsWithinSale
  <2>1. CASE e \in Ids
    <3> DEFINE s == docs[e].of
    <3>1. docs'[e] = docs[e] /\ docs[e].counted
      BY <1>1, <2>1, Zenon
    <3>2. s \in Ids /\ ReturnedUpTo(e) <= docs[s].units
      BY <2>1, <3>1 DEF Origins, ReturnsWithinSale
    <3>3. ReturnedUpTo(e) = ReturnedIn(docs, s, e) /\ ReturnedUpTo(e)' = ReturnedIn(docs', s, e)
      BY <3>1, UpToRead, UpToNext
    <3> HIDE DEF s
    <3>4. BackTo(docs', s, e) = BackTo(docs, s, e)
      <4>1. ~ (n <= e) /\ n \in Nat /\ e \in Nat
        BY <1>1, <2>1 DEF n
      <4> QED BY <1>1, <4>1 DEF BackTo, Ids
    <3>5. \A x \in BackTo(docs, s, e) : docs'[x].units <= docs[x].units /\ docs[x].units \in Nat
      <4> TAKE x \in BackTo(docs, s, e)
      <4>1. x \in Ids
        BY DEF BackTo, Ids
      <4>2. docs[x] \in DocRec /\ docs'[x] = docs[x]
        BY <1>1, <4>1 DEF Ids
      <4>3. docs[x].units \in Nat
        BY <4>2 DEF DocRec
      <4>4. \A n1 \in Nat : n1 <= n1
        OBVIOUS
      <4> QED BY <4>2, <4>3, <4>4, Zenon
    <3>6. ReturnedIn(docs', s, e) <= ReturnedIn(docs, s, e)
      BY <1>1, <3>4, <3>5, ReturnedLess
    <3>7. ReturnedIn(docs, s, e) \in Nat /\ ReturnedIn(docs', s, e) \in Nat /\ docs[s].units \in Nat
      <4>1. docs[s] \in DocRec
        BY <1>1, <3>2 DEF Ids
      <4> QED BY <1>1, <4>1, ReturnedNat DEF DocRec
    <3> QED BY <1>1, <3>1, <3>2, <3>3, <3>6, <3>7 DEF s
  <2>2. CASE e = n
    <3> DEFINE s == new.of
    <3>1. docs'[e] = new /\ new.counted
      BY <1>1, <2>2, Zenon
    <3>2. s \in Ids /\ new.kind = "return" /\ Returned(s) + new.units <= docs[s].units
      BY <1>2, <3>1
    <3>3. ReturnedUpTo(e)' = ReturnedIn(docs', s, e)
      BY <3>1, UpToNext
    <3>4. ReturnedIn(docs', s, Len(docs) + 1) = ReturnedIn(docs, s, Len(docs)) + new.units
      BY <1>1, <1>2, <3>2, ReturnedMore DEF n, Ids
    <3>5. Returned(s) = ReturnedIn(docs, s, Len(docs))
      BY ReturnedRead
    <3> HIDE DEF s
    <3> QED BY <1>1, <2>2, <3>1, <3>2, <3>3, <3>4, <3>5 DEF n, s
  <2> QED BY <1>1, <2>1, <2>2
<1> QED BY <1>5, <1>6, <1>7

-----------------------------------------------------------------------------
(* The sales invariant is inductive *)

LEMMA SalesKept ==
    ASSUME SalesInv, NEW r \in Requests, SalesMove(r)
    PROVE  SalesInv'
<1>1. /\ SalesTypes /\ Origins /\ \A d \in Ids : DocOK(d)
      /\ \A u \in Requests : Holds(u) /\ (u \notin overtaken => Current(u))
      /\ PaidTellsPayments /\ VoidedStandsAlone /\ ReturnsWithinSale
  BY DEF SalesInv
<1>2. SalesTypes' /\ Origins'
  BY <1>1, TypesKept, OriginsKept
<1>3. ASSUME NEW u \in Requests PROVE Holds(u)' /\ (u \notin overtaken' => Current(u)')
  <2>1. CASE u = r
    BY <1>1, <2>1, OwnHold, OwnCurrent
  <2>2. CASE u # r
    BY <1>1, <2>2, OthersHold, OthersCurrent
  <2> QED BY <2>1, <2>2
<1>4. CASE Commits(r)
  <2>1. \A d \in Ids' : DocOK(d)'
    BY <1>1, <1>4, DocsKept
  <2>2. PaidTellsPayments' /\ VoidedStandsAlone' /\ ReturnsWithinSale'
    BY <1>1, <1>4, PaidKept, VoidedKept, ReturnsKept
  <2> QED BY <1>2, <1>3, <2>1, <2>2 DEF SalesInv
<1>5. CASE Reads(r)
  <2>1. docs' = docs /\ payments' = payments /\ stale' = stale /\ Ids' = Ids
    BY <1>1, <1>5, ReadsStay DEF rows, Ids
  <2>2. \A d \in Ids' : DocOK(d)'
    BY <1>1, <2>1 DEF DocOK, PostsTell, Blank, Owed
  <2>3. \A d : PaidRows(d)' = PaidRows(d) /\ PostedFrom(d)' = PostedFrom(d)
    BY <2>1, RowsRead DEF PostedFrom
  <2>4. \A e : ReturnedUpTo(e)' = ReturnedUpTo(e)
    <3> TAKE e
    <3>1. docs'[e].of = docs[e].of
      BY <2>1
    <3> QED BY <2>1, <3>1, UpToRead, UpToNext
  <2>5. PaidTellsPayments' /\ VoidedStandsAlone' /\ ReturnsWithinSale'
    BY <1>1, <2>1, <2>3, <2>4 DEF PaidTellsPayments, VoidedStandsAlone, ReturnsWithinSale
  <2> QED BY <1>2, <1>3, <2>2, <2>5 DEF SalesInv
<1>6. CASE Create(r)
  <2>1. PICK new : Appended(new)
    BY <1>1, <1>6, CreateDoc
  <2>2. stale \subseteq stale'
    BY <1>1, <1>6, CommitsStay
  <2>3. \A d \in Ids' : DocOK(d)'
    BY <1>1, <2>1, <2>2, DocsAppended
  <2>4. PaidTellsPayments' /\ VoidedStandsAlone' /\ ReturnsWithinSale'
    BY <1>1, <2>1, <2>2, PropertiesAppended
  <2> QED BY <1>2, <1>3, <2>3, <2>4 DEF SalesInv
<1> QED BY <1>4, <1>5, <1>6, MoveKinds

LEMMA PlainKept ==
    ASSUME SalesInv, NEW b \in Bodies, CreatePlain(b)
    PROVE  SalesInv'
<1>1. /\ SalesTypes /\ Origins /\ \A d \in Ids : DocOK(d)
      /\ \A u \in Requests : Holds(u) /\ (u \notin overtaken => Current(u))
      /\ PaidTellsPayments /\ VoidedStandsAlone /\ ReturnsWithinSale
  BY DEF SalesInv
<1>2. PICK new : Appended(new)
  BY <1>1, PlainDoc
<1>3. /\ payments' = payments /\ lock' = lock /\ pc' = pc /\ op' = op /\ seen' = seen /\ own' = own
      /\ stale' = stale /\ overtaken' = overtaken \cup {u \in Requests : pc[u] # "idle"}
  BY DEF CreatePlain, request
<1>4. docs' \in Seq(DocRec) /\ Len(docs') \in 1..MaxDocs /\ Ids \subseteq Ids' /\ \A e \in Ids : docs'[e] = docs[e]
  BY <1>1, <1>2, NewRows
<1>5. SalesTypes'
  <2>1. overtaken' \in SUBSET Requests
    BY <1>1, <1>3 DEF SalesTypes
  <2>2. \A r \in Requests : SlotOK(r)'
    BY <1>1, <1>3, <1>4 DEF SalesTypes, SlotOK
  <2> QED BY <1>1, <1>3, <1>4, <2>1, <2>2 DEF SalesTypes, SlotOK, RowTypes
<1>6. Origins'
  BY <1>1, <1>2, OriginsAppended
<1>7. \A d \in Ids' : DocOK(d)'
  BY <1>1, <1>2, <1>3, DocsAppended
<1>8. ASSUME NEW u \in Requests PROVE Holds(u)' /\ (u \notin overtaken' => Current(u)')
  <2>1. Holds(u)'
    BY <1>1, <1>3, <1>4, HoldsStay
  <2>2. u \notin overtaken' => pc'[u] = "idle"
    BY <1>3
  <2> QED BY <2>1, <2>2 DEF Current, Busy, Is
<1>9. PaidTellsPayments' /\ VoidedStandsAlone' /\ ReturnsWithinSale'
  BY <1>1, <1>2, <1>3, PropertiesAppended
<1> QED BY <1>5, <1>6, <1>7, <1>8, <1>9 DEF SalesInv

LEMMA SalesQuiet ==
    ASSUME SalesInv, Quiet
    PROVE  SalesInv'
<1>1. /\ SalesTypes /\ Origins /\ \A d \in Ids : DocOK(d)
      /\ \A u \in Requests : Holds(u) /\ (u \notin overtaken => Current(u))
      /\ PaidTellsPayments /\ VoidedStandsAlone /\ ReturnsWithinSale
  BY DEF SalesInv
<1>2. /\ docs' = docs /\ payments' = payments /\ lock' = lock /\ pc' = pc /\ op' = op /\ seen' = seen
      /\ own' = own /\ overtaken' = overtaken /\ stale' = stale /\ Ids' = Ids
  BY DEF Quiet, rows, request, history, Ids
<1>3. \A d : PaidRows(d)' = PaidRows(d) /\ Returned(d)' = Returned(d) /\ PostedFrom(d)' = PostedFrom(d)
  BY <1>2, RowsRead, ReturnedSame DEF PostedFrom
<1>4. SalesTypes' /\ Origins'
  BY <1>1, <1>2 DEF SalesTypes, Origins, RowTypes
<1>5. \A d \in Ids' : DocOK(d)'
  BY <1>1, <1>2 DEF DocOK, PostsTell, Blank, Owed
<1>6. PaidTellsPayments' /\ VoidedStandsAlone' /\ ReturnsWithinSale'
  <2>1. \A e : ReturnedUpTo(e)' = ReturnedUpTo(e)
    <3> TAKE e
    <3>1. docs'[e].of = docs[e].of
      BY <1>2
    <3> QED BY <1>2, <3>1, UpToRead, UpToNext
  <2> QED BY <1>1, <1>2, <1>3, <2>1 DEF PaidTellsPayments, VoidedStandsAlone, ReturnsWithinSale
<1>7. ASSUME NEW u \in Requests PROVE Holds(u)' /\ (u \notin overtaken' => Current(u)')
  <2>1. Holds(u)'
    BY <1>1, <1>2, HoldsStay
  <2>2. ASSUME Current(u) PROVE Current(u)'
    <3>1. PICK d : d = op[u].doc
      OBVIOUS
    <3> QED BY <1>2, <1>3, <2>2, <3>1 DEF Current, Busy, Is, Doc
  <2> QED BY <1>1, <1>2, <2>1, <2>2
<1> QED BY <1>4, <1>5, <1>6, <1>7 DEF SalesInv

LEMMA SalesInit == Init => SalesInv
<1> SUFFICES ASSUME Init PROVE SalesInv
  OBVIOUS
<1>1. PICK b \in Opening : docs = <<Draft(b, FALSE)>>
  BY DEF Init
<1>2. b \in Inputs /\ b.of = 0
  BY SalesAssumption
<1> DEFINE first == Draft(b, FALSE)
<1>3. /\ first \in DocRec /\ Blank(first) /\ first.of = 0 /\ ~ first.counted
  BY <1>2, DraftOf, Zenon
<1> HIDE DEF first
<1>4. docs = <<first>>
  BY <1>1 DEF first
<1>5. docs \in Seq(DocRec) /\ Len(docs) = 1 /\ docs[1] = first /\ Ids = {1}
  BY <1>3, <1>4 DEF Ids
<1>6. payments \in RowTypes /\ \A k \in AllKeys : payments[k].rows = 0 /\ payments[k].doc = 0
  BY SalesAssumption DEF Init, RowTypes
<1>7. /\ \A r \in Requests : pc[r] = "idle" /\ op[r] = None
      /\ lock \in [Locks -> Requests \cup {None}]
      /\ DOMAIN pc = Requests /\ DOMAIN op = Requests /\ DOMAIN seen = Requests
      /\ own \in [Requests -> Nat] /\ overtaken = {}
  BY DEF Init
<1>8. SalesTypes
  BY <1>5, <1>6, <1>7, SalesAssumption DEF SalesTypes
<1>9. Origins
  <2>1. \A d \in 1..MaxDocs : Settle(d) \in AllKeys
    BY DEF AllKeys
  <2> QED BY <1>3, <1>5, <1>6, <2>1 DEF Origins
<1>10. \A d \in Ids : DocOK(d)
  <2>1. first.status = "draft" /\ first.moved = 0
    BY <1>3 DEF Blank
  <2> QED BY <1>3, <1>5, <2>1 DEF DocOK
<1>11. \A r \in Requests : Holds(r) /\ Current(r)
  BY <1>7 DEF Holds, HoldsPost, HoldsVoid, HoldsPay, Current, Busy, Is
<1>12. PaidRows(1) = 0 /\ first.paid = 0 /\ first.total \in Nat /\ first.status = "draft"
  BY <1>3, <1>6, NonePaid, RowsRead DEF Blank, DocRec
<1>13. PaidTellsPayments
  BY <1>5, <1>12 DEF PaidTellsPayments
<1>14. VoidedStandsAlone /\ ReturnsWithinSale
  BY <1>3, <1>5, <1>12 DEF VoidedStandsAlone, ReturnsWithinSale
<1> QED BY <1>8, <1>9, <1>10, <1>11, <1>13, <1>14 DEF SalesInv

-----------------------------------------------------------------------------
(* Cards *)

\* Rows under a reference stay, and a new one stands for a charge.
LEMMA ReferenceRows ==
    ASSUME SalesInv, CardInv,
           Quiet \/ (\E r \in Requests : SalesMove(r)) \/ \E b \in Bodies : CreatePlain(b),
           NEW f \in References
    PROVE  /\ payments[f].rows \in {0, 1} /\ payments'[f].rows \in {0, 1}
           /\ payments[f].rows = 1 => payments'[f].rows = 1
           /\ payments'[f].rows > 0 /\ f \notin unbacked =>
                 charged[<<"neoleap", f>>] + charged[<<"geidea", f>>] > 0
<1>1. f \in Keys /\ f \in AllKeys
  BY CardAssumption DEF AllKeys
<1>2. SalesTypes /\ SalesTypes'
  <2>1. SalesInv'
    BY SalesKept, SalesQuiet, PlainKept
  <2> QED BY <2>1 DEF SalesInv
<1>3. payments[f].rows \in {0, 1} /\ payments'[f].rows \in {0, 1}
  BY <1>1, <1>2 DEF SalesTypes, RowTypes
<1>4. f \notin unbacked => BackedOK(f)
  BY DEF CardInv, ReferenceOK
<1>5. CASE payments'[f] = payments[f]
  BY <1>3, <1>4, <1>5 DEF BackedOK
<1>6. CASE payments'[f] # payments[f]
  <2>1. PICK r \in Requests : SalesMove(r)
    BY <1>6 DEF Quiet, rows, CreatePlain
  <2>2. Commits(r)
    BY <1>2, <1>6, <2>1, MoveKinds, ReadsStay DEF rows, Create
  <2>3. pc[r] # "idle"
    BY <2>2 DEF Commits, PostCommit, VoidCommit, PayCommit, EditDelete, Is
  <2>4. op[r].doc \in Ids /\ Holds(r) /\ DocOK(op[r].doc)
    BY <1>2, <2>3, DocTypes DEF SalesInv
  <2>5. PayCommit(r) /\ f = op[r].key /\ payments[f].rows = 0 /\ payments'[f].rows = 1
    <3>1. Origins
      BY DEF SalesInv
    <3> QED BY <1>1, <1>2, <1>6, <2>2, <2>4, <3>1, PaymentWritten
  <2>6. Busy(r, {"pay"})
    BY <2>3, <2>5 DEF PayCommit, Is, Busy
  <2>7. f \in unbacked \/ (till[r].stage = "settling" /\ op[r] = Settlement(r))
    BY <2>5, <2>6 DEF CardInv, TillOK
  <2>8. CASE f \notin unbacked
    <3>1. till[r].ref = f /\ till[r].stage = "settling" /\ till[r].gate \in Gateways
      BY <2>5, <2>7, <2>8 DEF Settlement, CardInv, TillOK
    <3>2. charged[<<till[r].gate, f>>] > 0
      BY <1>4, <2>8, <3>1 DEF BackedOK, BackedTill, Sale
    <3>3. charged[<<"neoleap", f>>] \in Nat /\ charged[<<"geidea", f>>] \in Nat
      BY DEF CardInv, TillTypes, CardSales, Gateways
    <3>4. charged[<<"neoleap", f>>] > 0 \/ charged[<<"geidea", f>>] > 0
      BY <3>1, <3>2 DEF Gateways
    <3> QED BY <2>5, <3>3, <3>4
  <2> QED BY <2>5, <2>8
<1> QED BY <1>5, <1>6

\* The tills a step leaves alone.
LEMMA OtherTill ==
    ASSUME NEW u, TillOK(u), till'[u] = till[u], pc'[u] = pc[u], op'[u] = op[u], unbacked \subseteq unbacked',
           till[u].ref \in References =>
              /\ payments[till[u].ref].rows = 1 => payments'[till[u].ref].rows = 1
              /\ session[till[u].ref] # "none" => session'[till[u].ref] # "none"
    PROVE  TillOK(u)'
<1>1. Settlement(u)' = Settlement(u)
  BY DEF Settlement
<1> QED BY <1>1 DEF TillOK, Busy

\* The rows of a sale that no step of r is about.
LEMMA OtherSale ==
    ASSUME NEW r \in Requests, NEW s, \A u \in Requests \ {r} : till'[u] = till[u],
           Sale(r) # s, <<till'[r].gate, till'[r].ref>> # s,
           sales'[s] = sales[s], charged'[s] = charged[s]
    PROVE  /\ UnderWay(s)' <=> UnderWay(s)
           /\ Answered(s)' <=> Answered(s)
           /\ SureSale(s) => SureSale(s)'
<1>1. \A u \in Requests : (Sale(u)' = s <=> Sale(u) = s) /\ (Sale(u) = s => till'[u] = till[u])
  BY DEF Sale
<1>2. (UnderWay(s)' <=> UnderWay(s)) /\ (Answered(s)' <=> Answered(s))
  BY <1>1 DEF UnderWay, Answered
<1> QED BY <1>2 DEF SureSale

\* What a step of r does to nobody's reference but f.
Spares(r, f) ==
    /\ \A u \in Requests \ {r} : till'[u] = till[u]
    /\ till[r].ref \in {f, None} /\ till'[r].ref \in {f, None}
    /\ \A h \in References \ {f} :
          /\ session'[h] = session[h]
          /\ \A g \in Gateways : sales'[<<g, h>>] = sales[<<g, h>>] /\ charged'[<<g, h>>] = charged[<<g, h>>]
    /\ unsure \subseteq unsure' /\ unbacked \subseteq unbacked'

LEMMA OtherReference ==
    ASSUME NEW r \in Requests, NEW f, Spares(r, f), NEW h \in References, h # f, ReferenceOK(h),
           \A u \in Requests : till[u].stage # "none" => till[u].gate \in Gateways,
           payments[h].rows \in {0, 1}, payments'[h].rows \in {0, 1},
           payments[h].rows = 1 => payments'[h].rows = 1,
           payments'[h].rows > 0 /\ h \notin unbacked => charged[<<"neoleap", h>>] + charged[<<"geidea", h>>] > 0
    PROVE  ReferenceOK(h)'
<1>1. \A u \in Requests : till'[u].ref = h <=> till[u].ref = h
  BY CardAssumption DEF Spares
<1>2. \A u \in Requests : till[u].ref = h => till'[u] = till[u] /\ Sale(u)' = Sale(u)
  BY CardAssumption DEF Spares, Sale
<1>3. /\ session'[h] = session[h] /\ (h \notin unsure' => h \notin unsure) /\ (h \notin unbacked' => h \notin unbacked)
      /\ \A g \in Gateways : sales'[<<g, h>>] = sales[<<g, h>>] /\ charged'[<<g, h>>] = charged[<<g, h>>]
  BY DEF Spares
<1>4. sales'[<<"geidea", h>>] = sales[<<"geidea", h>>] /\ charged'[<<"geidea", h>>] = charged[<<"geidea", h>>]
      /\ charged'[<<"neoleap", h>>] = charged[<<"neoleap", h>>]
  BY <1>3 DEF Gateways
<1>5. \A g \in Gateways :
         /\ UnderWay(<<g, h>>)' <=> UnderWay(<<g, h>>)
         /\ Answered(<<g, h>>)' <=> Answered(<<g, h>>)
         /\ SureSale(<<g, h>>) => SureSale(<<g, h>>)'
  <2> TAKE g \in Gateways
  <2> QED BY <1>3, OtherSale, CardAssumption DEF Spares, Sale
<1>6. "geidea" \in Gateways
  BY DEF Gateways
<1>7. ASSUME NEW u \in Requests, till[u].ref = h
      PROVE  (SureTill(u) => SureTill(u)') /\ (BackedTill(u) => BackedTill(u)')
  <2>1. till'[u] = till[u] /\ Sale(u)' = Sale(u) /\ Sale(u) = <<till[u].gate, h>>
    BY <1>2, <1>7 DEF Sale
  <2>2. till[u].stage # "none" => sales'[Sale(u)] = sales[Sale(u)] /\ charged'[Sale(u)] = charged[Sale(u)]
    BY <1>3, <1>7, <2>1
  <2> QED BY <1>3, <1>7, <2>1, <2>2 DEF SureTill, BackedTill
<1>8. SureOK(h) => SureOK(h)'
  <2>1. SureSession(h) => SureSession(h)'
    BY <1>3, <1>4, <1>5, <1>6 DEF SureSession
  <2>2. (\A u \in Requests : till[u].ref = h => SureTill(u)) => \A u \in Requests : till'[u].ref = h => SureTill(u)'
    BY <1>1, <1>7
  <2> QED BY <1>1, <1>5, <2>1, <2>2 DEF SureOK
<1>9. h \notin unbacked /\ BackedOK(h) => BackedOK(h)'
  <2>1. (\A u \in Requests : till[u].ref = h => BackedTill(u)) => \A u \in Requests : till'[u].ref = h => BackedTill(u)'
    BY <1>1, <1>7
  <2> QED BY <1>3, <1>4, <2>1 DEF BackedOK
<1> QED BY <1>3, <1>4, <1>6, <1>8, <1>9 DEF ReferenceOK

\* A step of the till of r on f, while the sales module rests.
LEMMA TillStep ==
    ASSUME SalesInv, CardInv, Quiet, NEW r \in Requests, NEW f \in References, Spares(r, f),
           session[f] # "none" => session'[f] # "none",
           TillTypes', TillOK(r)', ReferenceOK(f)'
    PROVE  CardInv'
<1>1. ASSUME NEW h \in References
      PROVE  /\ session[h] # "none" => session'[h] # "none"
             /\ payments'[h] = payments[h]
  BY DEF Spares, Quiet, rows
<1>2. ASSUME NEW u \in Requests PROVE TillOK(u)'
  <2>1. CASE u = r BY <2>1
  <2>2. CASE u # r
    <3>1. TillOK(u) /\ till'[u] = till[u] /\ pc'[u] = pc[u] /\ op'[u] = op[u] /\ unbacked \subseteq unbacked'
      BY <2>2 DEF CardInv, Spares, Quiet, request
    <3> QED BY <1>1, <3>1, OtherTill
  <2> QED BY <2>1, <2>2
<1>3. ASSUME NEW h \in References PROVE ReferenceOK(h)'
  <2>1. CASE h = f BY <2>1
  <2>2. CASE h # f
    <3>1. ReferenceOK(h) /\ \A u \in Requests : till[u].stage # "none" => till[u].gate \in Gateways
      BY DEF CardInv, TillOK
    <3> QED BY <2>2, <3>1, OtherReference, ReferenceRows
  <2> QED BY <2>1, <2>2
<1> QED BY <1>2, <1>3 DEF CardInv

\* The stage of a till says which reference it is on.
LEMMA OnReference ==
    ASSUME CardInv, NEW r \in Requests, till[r].stage # "none"
    PROVE  /\ till[r].ref \in References /\ till[r].gate \in Gateways
           /\ ReferenceOK(till[r].ref) /\ TillOK(r)
           /\ Sale(r) = <<till[r].gate, till[r].ref>> /\ Sale(r) \in CardSales
<1>1. TillOK(r) /\ till[r].ref \in References /\ till[r].gate \in Gateways
  BY DEF CardInv, TillOK
<1>2. ReferenceOK(till[r].ref)
  BY <1>1 DEF CardInv
<1> QED BY <1>1, <1>2 DEF Sale, CardSales

\* Every operation is at a gateway, and what it holds keeps its type.
LEMMA AtGateway ==
    ASSUME CardInv
    PROVE  \A u \in Requests : till[u].stage # "none" => till[u].gate \in Gateways
BY DEF CardInv, TillOK

LEMMA HeardTypes ==
    ASSUME till \in [Requests -> TillRec], NEW r \in Requests, NEW answer \in Answers,
           NEW stage \in {"checked", "answered", "approved", "settling", "settled", "asked"}
    PROVE  /\ [till EXCEPT ![r].stage = stage, ![r].answer = answer] \in [Requests -> TillRec]
           /\ [till EXCEPT ![r].stage = stage] \in [Requests -> TillRec]
           /\ [till EXCEPT ![r] = NoTill] \in [Requests -> TillRec]
<1>1. /\ [till[r] EXCEPT !.stage = stage, !.answer = answer] \in TillRec
      /\ [till[r] EXCEPT !.stage = stage] \in TillRec
  BY DEF TillRec
<1>2. NoTill \in TillRec
  BY DEF TillRec, NoTill, Answers
<1>3. /\ [till EXCEPT ![r].stage = stage, ![r].answer = answer] =
            [till EXCEPT ![r] = [till[r] EXCEPT !.stage = stage, !.answer = answer]]
      /\ [till EXCEPT ![r].stage = stage] = [till EXCEPT ![r] = [till[r] EXCEPT !.stage = stage]]
  OBVIOUS
<1> QED BY <1>1, <1>2, <1>3

\* Where r's is the only operation on f, before a step or after it.
LEMMA Alone ==
    ASSUME NEW r \in Requests, NEW f \in References, \A u \in Requests : till[u].ref = f => u = r,
           NEW g
    PROVE  /\ UnderWay(<<g, f>>) <=> Sale(r) = <<g, f>>
           /\ Answered(<<g, f>>) <=> Sale(r) = <<g, f>> /\ till[r].stage = "answered"
BY DEF UnderWay, Answered, Sale

LEMMA AloneNext ==
    ASSUME NEW r \in Requests, NEW f \in References, \A u \in Requests : till'[u].ref = f => u = r,
           NEW g
    PROVE  /\ UnderWay(<<g, f>>)' <=> <<till'[r].gate, till'[r].ref>> = <<g, f>>
           /\ Answered(<<g, f>>)' <=> <<till'[r].gate, till'[r].ref>> = <<g, f>> /\ till'[r].stage = "answered"
BY DEF UnderWay, Answered, Sale

\* A step of the one operation on f at its gateway g, which leaves the row of f at the
\* other gateway alone, keeps what is sure of f when it does so at g.
LEMMA SureStep ==
    ASSUME NEW r \in Requests, NEW f \in References, NEW g \in Gateways, SureOK(f),
           \A u \in Requests \ {r} : till'[u] = till[u],
           till[r].ref = f, till[r].gate = g,
           till'[r].ref = None \/ (till'[r].ref = f /\ till'[r].gate = g),
           \A h \in Gateways \ {g} : sales'[<<h, f>>] = sales[<<h, f>>] /\ charged'[<<h, f>>] = charged[<<h, f>>],
           till'[r].ref = f => SureTill(r)', SureSale(<<g, f>>)',
           IF g = "geidea" THEN SureSession(f)' ELSE session'[f] = session[f]
    PROVE  SureOK(f)'
<1>1. \A u \in Requests : till'[u].ref = f => u = r
  BY DEF SureOK
<1>2. ASSUME NEW h \in Gateways, h # g PROVE SureSale(<<h, f>>)'
  <2> DEFINE s == <<h, f>>
  <2>1. Sale(r) # s /\ <<till'[r].gate, till'[r].ref>> # s
    BY <1>2, CardAssumption DEF Sale
  <2>2. sales'[s] = sales[s] /\ charged'[s] = charged[s] /\ SureSale(s)
    BY <1>2 DEF SureOK
  <2> HIDE DEF s
  <2>3. SureSale(s)'
    BY <2>1, <2>2, OtherSale
  <2> QED BY <2>3 DEF s
<1>3. SureSession(f)'
  <2>1. CASE g = "geidea" BY <2>1
  <2>2. CASE g # "geidea"
    <3> DEFINE s == <<"geidea", f>>
    <3>1. sales'[s] = sales[s] /\ charged'[s] = charged[s] /\ session'[f] = session[f]
      BY <2>2 DEF Gateways
    <3>2. (UnderWay(s)' <=> UnderWay(s)) /\ (Answered(s)' <=> Answered(s))
      BY <2>2, <3>1, OtherSale, CardAssumption DEF Sale
    <3>3. SureSession(f)
      BY DEF SureOK
    <3> QED BY <3>1, <3>2, <3>3 DEF SureSession
  <2> QED BY <2>1, <2>2
<1> QED BY <1>1, <1>2, <1>3 DEF SureOK

LEMMA PressKept ==
    ASSUME SalesInv, CardInv, NEW r \in Requests, NEW f \in References,
           Refresh(r, f) \/ \E g \in Gateways : Press(r, g, f)
    PROVE  CardInv'
<1>1. Quiet
  BY DEF Press, Refresh, Quiet
<1>2. /\ till[r].stage = "none" /\ pc[r] = "idle" /\ pc'[r] = "idle"
      /\ sales' = sales /\ session' = session /\ charged' = charged /\ payments' = payments
      /\ started' = started + 1 /\ started < MaxRequests
      /\ unsure' = unsure \cup Contended(r, f) /\ unbacked' = unbacked
  BY <1>1 DEF Press, Refresh, At, gateway, Quiet, request, rows
<1>3. PICK g \in Gateways, stage \in {"press", "refresh"} :
         /\ till' = [till EXCEPT ![r] = [gate |-> g, ref |-> f, stage |-> stage, answer |-> "none"]]
         /\ stage = "refresh" => g = "geidea" /\ sales[<<"geidea", f>>].status \notin Final \cup {"none"}
  BY DEF Press, Refresh, Gateways
<1>4. TillTypes /\ TillOK(r) /\ ReferenceOK(f)
  BY DEF CardInv
<1>5. TillTypes'
  <2>1. [gate |-> g, ref |-> f, stage |-> stage, answer |-> "none"] \in TillRec
    BY <1>3 DEF Answers, TillRec
  <2> QED BY <1>2, <1>3, <1>4, <2>1, SalesAssumption DEF TillTypes, Contended
<1>6. /\ till'[r].ref = f /\ till'[r].gate = g /\ till'[r].stage = stage
      /\ \A u \in Requests \ {r} : till'[u] = till[u]
  BY <1>3, <1>4 DEF TillTypes
<1>7. Spares(r, f)
  BY <1>2, <1>4, <1>6 DEF Spares, TillOK
<1>8. TillOK(r)'
  BY <1>2, <1>3, <1>4, <1>6 DEF TillOK, ReferenceOK, Busy
<1>9. ReferenceOK(f)'
  <2>1. ASSUME f \notin unsure' PROVE SureOK(f)'
    <3>1. f \notin unsure /\ \A u \in Requests : till[u].ref # f
      BY <1>2, <1>4, <2>1, CardAssumption DEF Contended, TillOK
    <3>2. SureOK(f)
      BY <1>4, <3>1 DEF ReferenceOK
    <3>3. \A u \in Requests : till'[u].ref = f <=> u = r
      BY <1>6, <3>1
    <3>4. \A h : ~ UnderWay(<<h, f>>) /\ ~ Answered(<<h, f>>)
      BY <3>1 DEF UnderWay, Answered, Sale
    <3>5. \A h \in Gateways : SureSale(<<h, f>>)'
      BY <1>2, <3>2, <3>4 DEF SureOK, SureSale
    <3>6. SureSession(f)'
      BY <1>2, <3>2, <3>4 DEF SureOK, SureSession
    <3>7. SureTill(r)'
      BY <1>3, <1>6 DEF SureTill
    <3> QED BY <3>3, <3>5, <3>6, <3>7 DEF SureOK
  <2>2. BackedOK(f) => BackedOK(f)'
    <3>1. ASSUME NEW u \in Requests, u # r, till[u].ref = f, BackedTill(u) PROVE BackedTill(u)'
      BY <1>2, <1>6, <3>1 DEF BackedTill, Sale
    <3>2. BackedTill(r)'
      BY <1>6, <1>3 DEF BackedTill
    <3> QED BY <1>2, <1>6, <3>1, <3>2 DEF BackedOK
  <2> QED BY <1>2, <1>4, <2>1, <2>2 DEF ReferenceOK
<1> QED BY <1>1, <1>2, <1>5, <1>7, <1>8, <1>9, TillStep

\* What the other operations on f stand for is left alone by a step of r.
LEMMA BackedStep ==
    ASSUME NEW r \in Requests, NEW f \in References, BackedOK(f),
           \A u \in Requests \ {r} : till'[u] = till[u],
           \A u \in Requests : till[u].stage # "none" => till[u].gate \in Gateways,
           \A g \in Gateways : charged[<<g, f>>] > 0 => charged'[<<g, f>>] > 0,
           till'[r].ref = f => BackedTill(r)'
    PROVE  \A u \in Requests : till'[u].ref = f => BackedTill(u)'
<1>1. ASSUME NEW u \in Requests, u # r, till[u].ref = f PROVE BackedTill(u)'
  <2>1. BackedTill(u) /\ till'[u] = till[u] /\ Sale(u) = <<till[u].gate, f>> /\ Sale(u)' = Sale(u)
    BY <1>1 DEF BackedOK, Sale
  <2>2. till[u].stage # "none" /\ charged[Sale(u)] > 0 => charged'[Sale(u)] > 0
    BY <1>1, <2>1
  <2> QED BY <2>1, <2>2 DEF BackedTill
<1> QED BY <1>1

LEMMA CheckKept ==
    ASSUME SalesInv, CardInv, NEW r \in Requests, CheckReference(r)
    PROVE  CardInv'
<1>1. Quiet
  BY DEF CheckReference, Quiet, salesVars
<1>2. PICK f, g : f = till[r].ref /\ g = till[r].gate
  OBVIOUS
<1>3. f \in References /\ g \in Gateways /\ ReferenceOK(f) /\ TillOK(r) /\ TillTypes /\ Sale(r) = <<g, f>>
  BY <1>2, OnReference DEF CheckReference, At, CardInv
<1>4. /\ till' = [till EXCEPT ![r].stage = "checked"] /\ till[r].stage = "press"
      /\ sales' = sales /\ session' = session /\ charged' = charged /\ payments' = payments
      /\ sales[<<g, f>>].status = "none"
      /\ started' = started /\ unsure' = unsure /\ unbacked' = unbacked /\ pc[r] = "idle" /\ pc'[r] = "idle"
  BY <1>1, <1>3 DEF CheckReference, At, Move, gateway, doubts, salesVars, Quiet, request, rows
<1>5. TillTypes'
  BY <1>3, <1>4, HeardTypes DEF TillTypes, Answers
<1>6. till'[r].ref = f /\ till'[r].gate = g /\ till'[r].stage = "checked" /\ \A u \in Requests \ {r} : till'[u] = till[u]
  BY <1>2, <1>3, <1>4 DEF TillTypes, TillRec
<1>7. Spares(r, f)
  BY <1>2, <1>4, <1>6 DEF Spares
<1>8. TillOK(r)'
  BY <1>3, <1>4, <1>6 DEF TillOK, Busy
<1>9. SureOK(f) => SureOK(f)'
  <2> SUFFICES ASSUME SureOK(f) PROVE SureOK(f)'
    OBVIOUS
  <2>1. SureTill(r)'
    BY <1>4, <1>6 DEF SureTill, Sale
  <2>2. /\ \A u \in Requests : till[u].ref = f => u = r
        /\ \A u \in Requests : till'[u].ref = f => u = r
    BY <1>2, <1>6 DEF SureOK
  <2>3. /\ UnderWay(<<g, f>>) /\ UnderWay(<<g, f>>)'
        /\ ~ Answered(<<g, f>>)
    BY <1>2, <1>3, <1>4, <1>6, <2>2, Alone, AloneNext
  <2>4. SureSale(<<g, f>>)'
    BY <1>3, <1>4, <2>3 DEF SureOK, SureSale
  <2>5. g = "geidea" => SureSession(f)'
    BY <1>3, <1>4, <2>3 DEF SureOK, SureSession
  <2> QED BY <1>2, <1>3, <1>4, <1>6, <2>1, <2>4, <2>5, SureStep
<1>10. BackedOK(f) => BackedOK(f)'
  <2> SUFFICES ASSUME BackedOK(f) PROVE BackedOK(f)'
    OBVIOUS
  <2>1. BackedTill(r)'
    BY <1>6 DEF BackedTill
  <2>2. \A u \in Requests : till'[u].ref = f => BackedTill(u)'
    BY <1>4, <1>6, <2>1, BackedStep DEF CardInv, TillOK
  <2> QED BY <1>4, <2>2 DEF BackedOK
<1>11. ReferenceOK(f)'
  BY <1>3, <1>4, <1>9, <1>10 DEF ReferenceOK
<1> QED BY <1>1, <1>3, <1>4, <1>5, <1>7, <1>8, <1>11, TillStep

LEMMA ChargeKept ==
    ASSUME SalesInv, CardInv, NEW r \in Requests, Charge(r)
    PROVE  CardInv'
<1>1. Quiet
  BY DEF Charge, Quiet, salesVars
<1>2. PICK f, g : f = till[r].ref /\ g = till[r].gate
  OBVIOUS
<1>3. f \in References /\ g \in Gateways /\ ReferenceOK(f) /\ TillOK(r) /\ TillTypes /\ Sale(r) = <<g, f>>
  BY <1>2, OnReference DEF Charge, At, CardInv
<1>4. /\ till[r].stage = "checked" /\ g = "neoleap" /\ sales' = sales /\ session' = session
      /\ payments' = payments /\ started' = started /\ pc[r] = "idle" /\ pc'[r] = "idle"
  BY <1>1, <1>2 DEF Charge, At, salesVars, Quiet, request, rows
<1>5. PICK answer \in Final \cup {"unknown"}, n \in {0, 1} :
          /\ answer \in {"declined", "cancelled"} => n = 0
          /\ till' = [till EXCEPT ![r].stage = "answered", ![r].answer = answer]
          /\ charged' = [charged EXCEPT ![<<g, f>>] = @ + n]
          /\ unsure' = unsure \cup IF answer \in {"error", "unknown"} /\ n = 1 THEN {f} ELSE {}
          /\ unbacked' = unbacked \cup IF answer = "approved" /\ n = 0 THEN {f} ELSE {}
  BY <1>2, <1>3 DEF Charge, Hears
<1>6. /\ charged'[<<g, f>>] = charged[<<g, f>>] + n /\ charged[<<g, f>>] \in Nat
      /\ \A s \in CardSales \ {<<g, f>>} : charged'[s] = charged[s]
  BY <1>3, <1>5 DEF TillTypes, CardSales
<1>7. /\ till'[r].ref = f /\ till'[r].gate = g /\ till'[r].stage = "answered" /\ till'[r].answer = answer
      /\ \A u \in Requests \ {r} : till'[u] = till[u]
  BY <1>2, <1>3, <1>5 DEF TillTypes
<1>8. TillTypes'
  <2>1. charged' \in [CardSales -> Nat]
    <3>1. charged[<<g, f>>] + n \in Nat
      BY <1>5, <1>6
    <3> QED BY <1>3, <1>5, <3>1 DEF TillTypes
  <2>2. unsure' \in SUBSET References /\ unbacked' \in SUBSET References
    BY <1>3, <1>5 DEF TillTypes
  <2>3. till' \in [Requests -> TillRec]
    <3>1. answer \in Answers
      BY <1>5 DEF Answers
    <3> QED BY <1>3, <1>5, <3>1, HeardTypes DEF TillTypes
  <2> QED BY <1>3, <1>4, <2>1, <2>2, <2>3 DEF TillTypes
<1>9. Spares(r, f)
  <2>1. \A h \in References \ {f}, i \in Gateways : <<i, h>> \in CardSales \ {<<g, f>>}
    BY DEF CardSales
  <2> QED BY <1>2, <1>4, <1>5, <1>6, <1>7, <2>1 DEF Spares
<1>10. TillOK(r)'
  BY <1>3, <1>4, <1>5, <1>6, <1>7 DEF TillOK, Busy, Final
<1>11. \A h \in Gateways \ {g} : charged'[<<h, f>>] = charged[<<h, f>>]
  BY <1>3, <1>6 DEF CardSales
<1>12. ASSUME f \notin unsure' PROVE SureOK(f)'
  <2>1. f \notin unsure /\ (answer \in {"error", "unknown"} => n = 0)
    BY <1>5, <1>12
  <2>2. SureOK(f)
    BY <1>3, <2>1 DEF ReferenceOK
  <2>3. /\ \A u \in Requests : till[u].ref = f => u = r
        /\ \A u \in Requests : till'[u].ref = f => u = r
    BY <1>2, <1>7, <2>2 DEF SureOK
  <2>4. ~ Answered(<<g, f>>) /\ UnderWay(<<g, f>>)' /\ Answered(<<g, f>>)'
    BY <1>2, <1>3, <1>4, <1>7, <2>3, Alone, AloneNext
  <2>5. sales[<<g, f>>].status = "none" /\ charged[<<g, f>>] = 0
    BY <1>2, <1>3, <1>4, <2>2, <2>4 DEF SureOK, SureTill, SureSale
  <2>6. charged'[<<g, f>>] = n /\ n <= 1
    BY <1>6, <2>5
  <2>7. SureTill(r)'
    <3>1. Sale(r)' = <<g, f>>
      BY <1>7 DEF Sale
    <3>2. charged'[<<g, f>>] = 1 => answer = "approved"
      BY <1>5, <2>1, <2>6 DEF Final
    <3> QED BY <1>4, <1>7, <3>1, <3>2 DEF SureTill
  <2>8. SureSale(<<g, f>>)'
    BY <1>4, <2>4, <2>5, <2>6 DEF SureSale
  <2> QED BY <1>2, <1>3, <1>4, <1>7, <1>11, <2>2, <2>7, <2>8, SureStep
<1>13. ASSUME f \notin unbacked' PROVE BackedOK(f)'
  <2>1. f \notin unbacked /\ (answer = "approved" => n = 1)
    BY <1>5, <1>13
  <2>2. BackedOK(f)
    BY <1>3, <2>1 DEF ReferenceOK
  <2>3. charged[<<"neoleap", f>>] \in Nat /\ charged[<<"geidea", f>>] \in Nat
    BY <1>3 DEF TillTypes, CardSales, Gateways
  <2>4. charged'[<<"neoleap", f>>] >= charged[<<"neoleap", f>>] /\ charged'[<<"geidea", f>>] = charged[<<"geidea", f>>]
    BY <1>4, <1>6, <1>11, <2>3 DEF Gateways
  <2>5. BackedTill(r)'
    BY <1>6, <1>7, <2>1 DEF BackedTill, Sale
  <2>6. \A h \in Gateways : charged[<<h, f>>] > 0 => charged'[<<h, f>>] > 0
    BY <1>4, <1>6, <1>11, <2>3 DEF Gateways
  <2>7. \A u \in Requests : till'[u].ref = f => BackedTill(u)'
    BY <1>3, <1>7, <2>2, <2>5, <2>6, AtGateway, BackedStep
  <2>8. payments[f].rows > 0 => charged'[<<"neoleap", f>>] + charged'[<<"geidea", f>>] > 0
    <3>1. charged'[<<"neoleap", f>>] \in Nat /\ charged'[<<"geidea", f>>] \in Nat
      BY <1>4, <1>5, <1>6, <2>3, <2>4
    <3>2. payments[f].rows > 0 => charged[<<"neoleap", f>>] + charged[<<"geidea", f>>] > 0
      BY <2>2 DEF BackedOK
    <3> QED BY <2>3, <2>4, <3>1, <3>2
  <2> QED BY <1>4, <2>2, <2>6, <2>7, <2>8 DEF BackedOK, Gateways
<1>14. ReferenceOK(f)'
  BY <1>3, <1>4, <1>12, <1>13 DEF ReferenceOK
<1> QED BY <1>1, <1>3, <1>4, <1>8, <1>9, <1>10, <1>14, TillStep

LEMMA OpenKept ==
    ASSUME SalesInv, CardInv, NEW r \in Requests, OpenSession(r)
    PROVE  CardInv'
<1>1. Quiet
  BY DEF OpenSession, Quiet, salesVars
<1>2. PICK f, g : f = till[r].ref /\ g = till[r].gate
  OBVIOUS
<1>3. f \in References /\ g \in Gateways /\ ReferenceOK(f) /\ TillOK(r) /\ TillTypes /\ Sale(r) = <<g, f>>
  BY <1>2, OnReference DEF OpenSession, At, CardInv
<1>4. /\ till[r].stage = "checked" /\ g = "geidea" /\ sales' = sales /\ charged' = charged /\ payments' = payments
      /\ started' = started /\ unsure' = unsure /\ unbacked' = unbacked /\ pc[r] = "idle" /\ pc'[r] = "idle"
  BY <1>1, <1>2 DEF OpenSession, At, doubts, salesVars, Quiet, request, rows
<1>5. PICK answer \in {"initiated", "error"} :
          /\ till' = [till EXCEPT ![r].stage = "answered", ![r].answer = answer]
          /\ session' = IF answer = "initiated" THEN [session EXCEPT ![f] = "open"] ELSE session
  BY <1>2 DEF OpenSession, Hears
<1>6. /\ session'[f] = IF answer = "initiated" THEN "open" ELSE session[f]
      /\ \A h \in References \ {f} : session'[h] = session[h]
  BY <1>3, <1>5 DEF TillTypes
<1>7. /\ till'[r].ref = f /\ till'[r].gate = g /\ till'[r].stage = "answered" /\ till'[r].answer = answer
      /\ \A u \in Requests \ {r} : till'[u] = till[u]
  BY <1>2, <1>3, <1>5 DEF TillTypes
<1>8. TillTypes'
  <2>1. till' \in [Requests -> TillRec]
    <3>1. answer \in Answers
      BY <1>5 DEF Answers, Final
    <3> QED BY <1>3, <1>5, <3>1, HeardTypes DEF TillTypes
  <2> QED BY <1>3, <1>4, <1>5, <2>1 DEF TillTypes
<1>9. Spares(r, f)
  BY <1>2, <1>4, <1>6, <1>7 DEF Spares
<1>10. TillOK(r)'
  BY <1>3, <1>4, <1>5, <1>6, <1>7 DEF TillOK, Busy
<1>11. ASSUME f \notin unsure PROVE SureOK(f)'
  <2>2. SureOK(f)
    BY <1>3, <1>11 DEF ReferenceOK
  <2>3. /\ \A u \in Requests : till[u].ref = f => u = r
        /\ \A u \in Requests : till'[u].ref = f => u = r
    BY <1>2, <1>7, <2>2 DEF SureOK
  <2>4. ~ Answered(<<g, f>>) /\ UnderWay(<<g, f>>)' /\ Answered(<<g, f>>)'
    BY <1>2, <1>3, <1>4, <1>7, <2>3, Alone, AloneNext
  <2>5. sales[<<g, f>>].status = "none" /\ charged[<<g, f>>] = 0 /\ session[f] = "none"
    BY <1>2, <1>3, <1>4, <2>2, <2>4 DEF SureOK, SureTill, SureSale, SureSession
  <2>7. SureTill(r)'
    <3>1. Sale(r)' = <<g, f>>
      BY <1>7 DEF Sale
    <3> QED BY <1>4, <1>5, <1>6, <1>7, <2>5, <3>1 DEF SureTill
  <2>8. SureSale(<<g, f>>)'
    BY <1>4, <2>4, <2>5 DEF SureSale
  <2>9. SureSession(f)'
    BY <1>4, <2>4, <2>5 DEF SureSession
  <2> QED BY <1>2, <1>3, <1>4, <1>7, <2>2, <2>7, <2>8, <2>9, SureStep
<1>12. ASSUME f \notin unbacked PROVE BackedOK(f)'
  <2>1. BackedOK(f)
    BY <1>3, <1>12 DEF ReferenceOK
  <2>2. BackedTill(r)'
    BY <1>7 DEF BackedTill
  <2>3. \A u \in Requests : till'[u].ref = f => BackedTill(u)'
    BY <1>3, <1>4, <1>7, <2>1, <2>2, AtGateway, BackedStep
  <2> QED BY <1>4, <1>6, <2>1, <2>3 DEF BackedOK
<1>13. ReferenceOK(f)'
  BY <1>3, <1>4, <1>6, <1>11, <1>12 DEF ReferenceOK
<1> QED BY <1>1, <1>3, <1>6, <1>8, <1>9, <1>10, <1>13, TillStep

LEMMA CardholderKept ==
    ASSUME SalesInv, CardInv, NEW f \in References, Cardholder(f)
    PROVE  CardInv'
<1> DEFINE s == <<"geidea", f>>
<1>1. Quiet
  BY DEF Cardholder, Quiet, salesVars
<1>2. /\ session[f] = "open" /\ till' = till /\ sales' = sales /\ started' = started /\ payments' = payments
      /\ unsure' = unsure /\ unbacked' = unbacked /\ pc' = pc /\ op' = op
  BY <1>1 DEF Cardholder, doubts, salesVars, Quiet, rows, request
<1>3. TillTypes /\ ReferenceOK(f) /\ s \in CardSales /\ charged[s] \in Nat
  BY DEF CardInv, TillTypes, CardSales, Gateways
<1>4. PICK result \in {"approved", "declined", "cancelled"} :
         /\ session' = [session EXCEPT ![f] = result]
         /\ charged' = IF result = "approved" THEN [charged EXCEPT ![s] = @ + 1] ELSE charged
  BY DEF Cardholder
<1>5. /\ session'[f] = result /\ \A h \in References \ {f} : session'[h] = session[h]
      /\ charged'[s] = IF result = "approved" THEN charged[s] + 1 ELSE charged[s]
      /\ \A x \in CardSales \ {s} : charged'[x] = charged[x]
  BY <1>3, <1>4 DEF TillTypes
<1> HIDE DEF s
<1>6. TillTypes'
  <2>1. charged' \in [CardSales -> Nat]
    BY <1>3, <1>4, <1>5 DEF TillTypes
  <2> QED BY <1>2, <1>3, <1>4, <2>1 DEF TillTypes
<1>7. ASSUME NEW u \in Requests PROVE TillOK(u)'
  BY <1>2, <1>5, OtherTill DEF CardInv
<1>8. \A x \in CardSales : /\ (UnderWay(x)' <=> UnderWay(x)) /\ (Answered(x)' <=> Answered(x))
                           /\ charged[x] > 0 => charged'[x] > 0
  <2>1. \A x : (UnderWay(x)' <=> UnderWay(x)) /\ (Answered(x)' <=> Answered(x))
    BY <1>2 DEF UnderWay, Answered, Sale
  <2>2. \A x \in CardSales : charged[x] > 0 => charged'[x] > 0
    BY <1>3, <1>5
  <2> QED BY <2>1, <2>2
<1>9. ASSUME NEW u \in Requests, till[u].ref \in References, BackedTill(u) PROVE BackedTill(u)'
  <2>1. till[u].stage # "none" => Sale(u) \in CardSales
    BY OnReference
  <2>2. Sale(u)' = Sale(u)
    BY <1>2 DEF Sale
  <2> QED BY <1>2, <1>8, <1>9, <2>1, <2>2 DEF BackedTill
<1>10. ASSUME NEW h \in References, h # f PROVE ReferenceOK(h)'
  <2>1. ReferenceOK(h) /\ \A g \in Gateways : <<g, h>> \in CardSales \ {s}
    BY <1>10 DEF CardInv, CardSales, s
  <2>2. "geidea" \in Gateways /\ "neoleap" \in Gateways
    BY DEF Gateways
  <2>3. BackedOK(h) => BackedOK(h)'
    <3>1. \A g \in Gateways : charged'[<<g, h>>] = charged[<<g, h>>]
      BY <1>5, <2>1
    <3>2. (\A u \in Requests : till[u].ref = h => BackedTill(u)) => \A u \in Requests : till'[u].ref = h => BackedTill(u)'
      BY <1>2, <1>9
    <3> QED BY <1>2, <1>5, <1>10, <2>2, <3>1, <3>2 DEF BackedOK
  <2>4. ASSUME SureOK(h) PROVE SureOK(h)'
    <3>1. ASSUME NEW u \in Requests, till[u].ref = h, SureTill(u) PROVE SureTill(u)'
      <4>1. till[u].stage # "none" => Sale(u) \in CardSales \ {s}
        BY <1>10, <3>1, OnReference DEF s
      <4>2. Sale(u)' = Sale(u)
        BY <1>2 DEF Sale
      <4> QED BY <1>2, <1>5, <1>10, <3>1, <4>1, <4>2 DEF SureTill
    <3>2. \A g \in Gateways : SureSale(<<g, h>>)'
      BY <1>2, <1>5, <1>8, <2>1, <2>4 DEF SureOK, SureSale
    <3>3. SureSession(h)'
      BY <1>2, <1>5, <1>8, <1>10, <2>1, <2>2, <2>4 DEF SureOK, SureSession
    <3> QED BY <1>2, <2>4, <3>1, <3>2, <3>3 DEF SureOK
  <2> QED BY <1>2, <1>5, <1>10, <2>1, <2>3, <2>4 DEF ReferenceOK
<1>11. ReferenceOK(f)'
  <2>1. /\ \A g \in Gateways : <<g, f>> \in CardSales
        /\ \A g \in Gateways \ {"geidea"} : <<g, f>> \in CardSales \ {s}
        /\ s = <<"geidea", f>> /\ s[1] = "geidea" /\ "geidea" \in Gateways /\ "neoleap" \in Gateways
    BY DEF CardSales, s, Gateways
  <2>2. BackedOK(f) => BackedOK(f)'
    <3> SUFFICES ASSUME BackedOK(f) PROVE BackedOK(f)'
      OBVIOUS
    <3>1. \A u \in Requests : till'[u].ref = f => BackedTill(u)'
      BY <1>2, <1>9 DEF BackedOK
    <3>2. session'[f] = "approved" => charged'[s] > 0
      BY <1>3, <1>5
    <3>3. \A g \in Gateways : sales'[<<g, f>>].status = "approved" => charged'[<<g, f>>] > 0
      BY <1>2, <1>8, <2>1 DEF BackedOK
    <3>4. payments'[f].rows > 0 => charged'[<<"neoleap", f>>] + charged'[s] > 0
      <4>1. payments[f].rows > 0 => charged[<<"neoleap", f>>] + charged[s] > 0
        BY <2>1 DEF BackedOK
      <4>2. charged'[<<"neoleap", f>>] = charged[<<"neoleap", f>>] /\ charged'[s] >= charged[s]
        BY <1>3, <1>5, <2>1
      <4>3. charged[<<"neoleap", f>>] \in Nat /\ charged'[s] \in Nat
        BY <1>3, <1>6, <2>1 DEF TillTypes
      <4> QED BY <1>2, <1>3, <4>1, <4>2, <4>3
    <3> QED BY <2>1, <3>1, <3>2, <3>3, <3>4 DEF BackedOK
  <2>3. SureOK(f) => SureOK(f)'
    <3> SUFFICES ASSUME SureOK(f) PROVE SureOK(f)'
      OBVIOUS
    <3>1. charged[s] = 0 /\ (UnderWay(s) \/ sales[s].status \in {"initiated", "unknown"})
      BY <1>2, <2>1 DEF SureOK, SureSession
    <3>2. ASSUME NEW u \in Requests, till[u].ref = f PROVE SureTill(u)'
      <4>1. SureTill(u) /\ TillOK(u) /\ Sale(u)' = Sale(u) /\ till'[u] = till[u]
        BY <1>2, <3>2 DEF SureOK, CardInv, Sale
      <4>2. till[u].stage \in {"answered", "asked"} \cup {"approved", "settling", "settled"} => Sale(u) \in CardSales /\ Sale(u) = <<till[u].gate, f>>
        BY <3>2, OnReference
      <4>3. CASE till[u].stage = "answered"
        <5>1. CASE till[u].gate = "geidea"
          BY <1>2, <3>2, <4>1, <4>3, <5>1 DEF SureTill, TillOK
        <5>2. CASE till[u].gate # "geidea"
          <6>1. charged'[Sale(u)] = charged[Sale(u)]
            BY <1>5, <4>2, <4>3, <5>2 DEF s
          <6> QED BY <4>1, <4>3, <5>2, <6>1 DEF SureTill
        <5> QED BY <5>1, <5>2
      <4>4. CASE till[u].stage # "answered"
        BY <1>2, <1>5, <3>2, <4>1, <4>4 DEF SureTill, TillOK
      <4> QED BY <4>3, <4>4
    <3>3. SureSale(s)'
      <4>1. SureSale(s) /\ (sales[s].status = "none" => Answered(s))
        BY <1>2, <2>1 DEF SureOK, SureSession
      <4>2. s \in CardSales /\ charged'[s] \in {0, 1}
        BY <1>3, <1>5, <3>1
      <4> QED BY <1>2, <1>8, <2>1, <3>1, <4>1, <4>2 DEF SureSale
    <3>4. ASSUME NEW g \in Gateways, g # "geidea" PROVE SureSale(<<g, f>>)'
      BY <1>2, <1>5, <1>8, <2>1, <3>4 DEF SureOK, SureSale
    <3>5. SureSession(f)'
      BY <1>2, <1>3, <1>5, <1>8, <2>1, <3>1 DEF SureOK, SureSession
    <3> QED BY <1>2, <2>1, <3>2, <3>3, <3>4, <3>5 DEF SureOK
  <2> QED BY <1>2, <1>5, <1>3, <2>2, <2>3 DEF ReferenceOK
<1> QED BY <1>6, <1>7, <1>10, <1>11 DEF CardInv

LEMMA RecordKept ==
    ASSUME SalesInv, CardInv, NEW r \in Requests, Record(r)
    PROVE  CardInv'
<1>1. Quiet
  BY DEF Record, Quiet, salesVars
<1>2. PICK f, g : f = till[r].ref /\ g = till[r].gate
  OBVIOUS
<1>3. /\ f \in References /\ g \in Gateways /\ ReferenceOK(f) /\ TillOK(r) /\ TillTypes
      /\ Sale(r) = <<g, f>> /\ <<g, f>> \in CardSales
  BY <1>2, OnReference DEF Record, At, CardInv
<1>4. /\ till[r].stage = "answered" /\ session' = session /\ charged' = charged /\ payments' = payments
      /\ started' = started /\ unsure' = unsure /\ unbacked' = unbacked /\ pc[r] = "idle" /\ pc'[r] = "idle"
      /\ sales[<<g, f>>].status = "none" /\ sales' = [sales EXCEPT ![<<g, f>>].status = till[r].answer]
  BY <1>1, <1>3 DEF Record, At, salesVars, Quiet, request, rows, gateway, doubts
<1>5. till' = IF till[r].answer = "approved" THEN [till EXCEPT ![r].stage = "approved"] ELSE [till EXCEPT ![r] = NoTill]
  BY DEF Record, Move, Leave
<1>6. /\ sales'[<<g, f>>].status = till[r].answer /\ sales'[<<g, f>>].settled = sales[<<g, f>>].settled
      /\ \A s \in CardSales \ {<<g, f>>} : sales'[s] = sales[s]
  BY <1>3, <1>4 DEF TillTypes
<1>7. /\ till[r].answer = "approved" => till'[r].ref = f /\ till'[r].gate = g /\ till'[r].stage = "approved"
      /\ till[r].answer # "approved" => till'[r].ref = None /\ till'[r].stage = "none"
      /\ \A u \in Requests \ {r} : till'[u] = till[u]
  BY <1>2, <1>3, <1>5 DEF TillTypes, TillRec, NoTill
<1>8. TillTypes'
  <2>1. till[r].answer \in Answers
    BY <1>3 DEF TillTypes, TillRec
  <2>2. sales' \in [CardSales -> [status : Answers, settled : BOOLEAN]]
    BY <1>3, <1>4, <2>1 DEF TillTypes
  <2>3. till' \in [Requests -> TillRec]
    BY <1>3, <1>5, <2>1, HeardTypes DEF TillTypes
  <2> QED BY <1>3, <1>4, <2>2, <2>3 DEF TillTypes
<1>9. Spares(r, f)
  <2>1. \A h \in References \ {f}, i \in Gateways : <<i, h>> \in CardSales \ {<<g, f>>}
    BY DEF CardSales
  <2> QED BY <1>2, <1>4, <1>6, <1>7, <2>1 DEF Spares
<1>10. TillOK(r)'
  BY <1>3, <1>4, <1>7, CardAssumption DEF TillOK, Busy
<1>11. \A h \in Gateways \ {g} : sales'[<<h, f>>] = sales[<<h, f>>]
  BY <1>3, <1>6 DEF CardSales
<1>12. ASSUME f \notin unsure PROVE SureOK(f)'
  <2>1. SureOK(f) /\ SureTill(r)
    BY <1>2, <1>3, <1>12 DEF ReferenceOK, SureOK
  <2>2. /\ \A u \in Requests : till[u].ref = f => u = r
        /\ \A u \in Requests : till'[u].ref = f => u = r
    BY <1>2, <1>7, <2>1 DEF SureOK
  <2>3. till[r].answer = "approved" => UnderWay(<<g, f>>)'
    BY <1>3, <1>7, <2>2, AloneNext
  <2>4. /\ SureSale(<<g, f>>) /\ SureSession(f)
        /\ charged[<<g, f>>] = 1 => till[r].answer = "approved" \/ (g = "geidea" /\ till[r].answer = "initiated")
    BY <1>2, <1>3, <1>4, <2>1 DEF SureOK, SureTill
  <2>5. /\ till[r].answer \in IF g = "geidea" THEN {"initiated", "error"} ELSE Final \cup {"unknown"}
        /\ g = "geidea" /\ till[r].answer = "error" => session[f] = "none"
    BY <1>2, <1>3, <1>4, <2>1 DEF TillOK, SureTill
  <2>6. till[r].answer # "none"
    BY <2>5 DEF Final
  <2>7. SureSale(<<g, f>>)'
    BY <1>4, <1>6, <2>3, <2>4, <2>6 DEF SureSale
  <2>8. till'[r].ref = f => SureTill(r)'
    <3>1. till'[r].ref = f => till[r].answer = "approved" /\ g = "neoleap"
      BY <1>3, <1>7, <2>5, CardAssumption DEF Gateways
    <3> QED BY <1>7, <3>1 DEF SureTill
  <2>9. g = "geidea" => SureSession(f)'
    BY <1>4, <1>6, <2>4, <2>5, <2>6 DEF SureSession
  <2> QED BY <1>2, <1>3, <1>4, <1>7, <1>11, <2>1, <2>7, <2>8, <2>9, SureStep
<1>13. ASSUME f \notin unbacked PROVE BackedOK(f)'
  <2>1. BackedOK(f)
    BY <1>3, <1>13 DEF ReferenceOK
  <2>2. till[r].answer = "approved" => charged[<<g, f>>] > 0
    BY <1>2, <1>3, <1>4, <2>1 DEF BackedOK, BackedTill
  <2>3. till'[r].ref = f => BackedTill(r)'
    <3>1. till'[r].ref = f => Sale(r)' = <<g, f>> /\ till[r].answer = "approved"
      BY <1>3, <1>7, CardAssumption DEF Sale
    <3> QED BY <1>4, <2>2, <3>1 DEF BackedTill
  <2>4. \A u \in Requests : till'[u].ref = f => BackedTill(u)'
    BY <1>3, <1>4, <1>7, <2>1, <2>3, AtGateway, BackedStep
  <2>5. \A h \in Gateways : sales'[<<h, f>>].status = "approved" => charged'[<<h, f>>] > 0
    BY <1>4, <1>6, <1>11, <2>1, <2>2 DEF BackedOK
  <2> QED BY <1>4, <2>1, <2>4, <2>5 DEF BackedOK
<1>14. ReferenceOK(f)'
  <2>1. \A h \in Gateways : sales'[<<h, f>>].settled => payments'[f].rows = 1
    BY <1>3, <1>4, <1>6, <1>11 DEF ReferenceOK
  <2>2. sales'[<<"geidea", f>>].status \notin Final \cup {"none"} => session'[f] # "none"
    <3>1. CASE g = "geidea"
      BY <1>2, <1>3, <1>4, <1>6, <3>1 DEF TillOK, Final
    <3>2. CASE g # "geidea"
      BY <1>3, <1>4, <1>11, <3>2 DEF ReferenceOK, Gateways
    <3> QED BY <3>1, <3>2
  <2> QED BY <1>4, <1>12, <1>13, <2>1, <2>2 DEF ReferenceOK
<1> QED BY <1>1, <1>3, <1>4, <1>8, <1>9, <1>10, <1>14, TillStep

LEMMA MarkKept ==
    ASSUME SalesInv, CardInv, NEW r \in Requests, MarkSettled(r)
    PROVE  CardInv'
<1>1. Quiet
  BY DEF MarkSettled, Quiet, salesVars
<1>2. PICK f, g : f = till[r].ref /\ g = till[r].gate
  OBVIOUS
<1>3. /\ f \in References /\ g \in Gateways /\ ReferenceOK(f) /\ TillOK(r) /\ TillTypes
      /\ Sale(r) = <<g, f>> /\ <<g, f>> \in CardSales
  BY <1>2, OnReference DEF MarkSettled, At, CardInv
<1>4. /\ till[r].stage = "settled" /\ session' = session /\ charged' = charged /\ payments' = payments
      /\ started' = started /\ unsure' = unsure /\ unbacked' = unbacked /\ pc[r] = "idle" /\ pc'[r] = "idle"
      /\ sales' = [sales EXCEPT ![<<g, f>>].settled = TRUE]
      /\ till' = [till EXCEPT ![r] = NoTill]
  BY <1>1, <1>3 DEF MarkSettled, At, salesVars, Quiet, request, rows, gateway, doubts, Leave
<1>5. /\ sales'[<<g, f>>].status = sales[<<g, f>>].status /\ sales'[<<g, f>>].settled
      /\ \A s \in CardSales \ {<<g, f>>} : sales'[s] = sales[s]
  BY <1>3, <1>4 DEF TillTypes
<1>6. /\ till'[r].ref = None /\ till'[r].stage = "none"
      /\ \A u \in Requests \ {r} : till'[u] = till[u]
  BY <1>3, <1>4 DEF TillTypes, NoTill
<1>7. TillTypes'
  <2>1. sales' \in [CardSales -> [status : Answers, settled : BOOLEAN]]
    BY <1>3, <1>4 DEF TillTypes
  <2>2. till' \in [Requests -> TillRec]
    BY <1>3, <1>4, HeardTypes DEF TillTypes, Answers
  <2> QED BY <1>3, <1>4, <2>1, <2>2 DEF TillTypes
<1>8. Spares(r, f)
  <2>1. \A h \in References \ {f}, i \in Gateways : <<i, h>> \in CardSales \ {<<g, f>>}
    BY DEF CardSales
  <2> QED BY <1>2, <1>4, <1>5, <1>6, <2>1 DEF Spares
<1>9. TillOK(r)'
  BY <1>4, <1>6 DEF TillOK, Busy
<1>10. \A h \in Gateways \ {g} : sales'[<<h, f>>] = sales[<<h, f>>]
  BY <1>3, <1>5 DEF CardSales
<1>11. till'[r].ref # f
  BY <1>3, <1>6, CardAssumption
<1>12. ASSUME f \notin unsure PROVE SureOK(f)'
  <2>1. SureOK(f) /\ SureTill(r) /\ SureSale(<<g, f>>) /\ SureSession(f)
    BY <1>2, <1>3, <1>12 DEF ReferenceOK, SureOK
  <2>2. \A u \in Requests : till[u].ref = f => u = r
    BY <1>2, <2>1 DEF SureOK
  <2>3. ~ Answered(<<g, f>>)
    BY <1>3, <1>4, <2>2, Alone
  <2>4. SureSale(<<g, f>>)'
    BY <1>4, <1>5, <2>1, <2>3 DEF SureSale
  <2>5. g = "geidea" => session[f] = "approved"
    BY <1>2, <1>4, <2>1 DEF SureTill
  <2>6. g = "geidea" => SureSession(f)'
    BY <1>4, <1>5, <2>1, <2>3, <2>5 DEF SureSession
  <2> QED BY <1>2, <1>3, <1>4, <1>6, <1>10, <1>11, <2>1, <2>4, <2>6, SureStep
<1>13. ASSUME f \notin unbacked PROVE BackedOK(f)'
  <2>1. BackedOK(f)
    BY <1>3, <1>13 DEF ReferenceOK
  <2>2. \A u \in Requests : till'[u].ref = f => BackedTill(u)'
    BY <1>3, <1>4, <1>6, <1>11, <2>1, AtGateway, BackedStep
  <2>3. \A h \in Gateways : sales'[<<h, f>>].status = sales[<<h, f>>].status
    BY <1>5, <1>10
  <2> QED BY <1>4, <2>1, <2>2, <2>3 DEF BackedOK
<1>14. ReferenceOK(f)'
  <2>1. payments[f].rows = 1
    BY <1>2, <1>3, <1>4 DEF TillOK
  <2>2. sales'[<<"geidea", f>>].status = sales[<<"geidea", f>>].status
    BY <1>5, <1>10 DEF Gateways
  <2> QED BY <1>3, <1>4, <1>12, <1>13, <2>1, <2>2 DEF ReferenceOK
<1> QED BY <1>1, <1>3, <1>4, <1>7, <1>8, <1>9, <1>14, TillStep

LEMMA AskKept ==
    ASSUME SalesInv, CardInv, NEW r \in Requests, Ask(r)
    PROVE  CardInv'
<1>1. Quiet
  BY DEF Ask, Quiet, salesVars
<1>2. PICK f, g : f = till[r].ref /\ g = till[r].gate
  OBVIOUS
<1>3. /\ f \in References /\ g \in Gateways /\ ReferenceOK(f) /\ TillOK(r) /\ TillTypes
      /\ Sale(r) = <<g, f>> /\ <<g, f>> \in CardSales
  BY <1>2, OnReference DEF Ask, At, CardInv
<1>4. /\ till[r].stage = "refresh" /\ sales' = sales /\ session' = session /\ charged' = charged
      /\ payments' = payments /\ started' = started /\ unsure' = unsure /\ unbacked' = unbacked
      /\ pc[r] = "idle" /\ pc'[r] = "idle"
  BY <1>1, <1>2 DEF Ask, At, salesVars, Quiet, request, rows, gateway, doubts
<1>5. PICK answer \in {IF session[f] = "open" THEN "initiated" ELSE session[f], "initiated", "unknown", "error"} :
         till' = [till EXCEPT ![r].stage = "asked", ![r].answer = answer]
  BY <1>2 DEF Ask
<1>6. /\ g = "geidea" /\ session[f] # "none" /\ session[f] \in {"none", "open", "approved", "declined", "cancelled"}
  BY <1>2, <1>3, <1>4 DEF TillOK, TillTypes
<1>7. /\ answer \in {"initiated", "unknown", "approved", "declined", "cancelled", "error"}
      /\ answer \in {"approved", "declined", "cancelled"} => session[f] = answer
  BY <1>5, <1>6
<1>8. /\ till'[r].ref = f /\ till'[r].gate = g /\ till'[r].stage = "asked" /\ till'[r].answer = answer
      /\ \A u \in Requests \ {r} : till'[u] = till[u]
  BY <1>2, <1>3, <1>5 DEF TillTypes, TillRec
<1>9. TillTypes'
  <2>1. answer \in Answers
    BY <1>7 DEF Answers, Final
  <2>2. till' \in [Requests -> TillRec]
    BY <1>3, <1>5, <2>1, HeardTypes DEF TillTypes
  <2> QED BY <1>3, <1>4, <2>2 DEF TillTypes
<1>10. Spares(r, f)
  BY <1>2, <1>4, <1>8 DEF Spares
<1>11. TillOK(r)'
  BY <1>3, <1>4, <1>6, <1>7, <1>8 DEF TillOK, Busy
<1>12. ASSUME f \notin unsure PROVE SureOK(f)'
  <2>1. SureOK(f) /\ SureSale(<<g, f>>) /\ SureSession(f)
    BY <1>3, <1>12 DEF ReferenceOK, SureOK
  <2>2. /\ \A u \in Requests : till[u].ref = f => u = r
        /\ \A u \in Requests : till'[u].ref = f => u = r
    BY <1>2, <1>8, <2>1 DEF SureOK
  <2>3. ~ Answered(<<g, f>>) /\ UnderWay(<<g, f>>)'
    BY <1>3, <1>4, <1>8, <2>2, Alone, AloneNext
  <2>4. SureSale(<<g, f>>)' /\ SureSession(f)'
    BY <1>4, <1>6, <2>1, <2>3 DEF SureSale, SureSession
  <2>5. SureTill(r)'
    BY <1>4, <1>7, <1>8 DEF SureTill
  <2> QED BY <1>2, <1>3, <1>4, <1>6, <1>8, <2>1, <2>4, <2>5, SureStep
<1>13. ASSUME f \notin unbacked PROVE BackedOK(f)'
  <2>1. BackedOK(f)
    BY <1>3, <1>13 DEF ReferenceOK
  <2>2. BackedTill(r)'
    <3>1. Sale(r)' = <<"geidea", f>>
      BY <1>6, <1>8 DEF Sale
    <3>2. answer = "approved" => charged[<<"geidea", f>>] > 0
      BY <1>7, <2>1 DEF BackedOK
    <3> QED BY <1>4, <1>8, <3>1, <3>2 DEF BackedTill
  <2>3. \A u \in Requests : till'[u].ref = f => BackedTill(u)'
    BY <1>3, <1>4, <1>8, <2>1, <2>2, AtGateway, BackedStep
  <2> QED BY <1>4, <2>1, <2>3 DEF BackedOK
<1>14. ReferenceOK(f)'
  BY <1>3, <1>4, <1>12, <1>13 DEF ReferenceOK
<1> QED BY <1>1, <1>3, <1>4, <1>9, <1>10, <1>11, <1>14, TillStep

LEMMA RewriteKept ==
    ASSUME SalesInv, CardInv, NEW r \in Requests, Rewrite(r)
    PROVE  CardInv'
<1>1. Quiet
  BY DEF Rewrite, Quiet, salesVars
<1>2. PICK f, g : f = till[r].ref /\ g = till[r].gate
  OBVIOUS
<1>3. /\ f \in References /\ g \in Gateways /\ ReferenceOK(f) /\ TillOK(r) /\ TillTypes
      /\ Sale(r) = <<g, f>> /\ <<g, f>> \in CardSales
  BY <1>2, OnReference DEF Rewrite, At, CardInv
<1>4. /\ till[r].stage = "asked" /\ session' = session /\ charged' = charged
      /\ payments' = payments /\ started' = started /\ pc[r] = "idle" /\ pc'[r] = "idle"
      /\ sales' = [sales EXCEPT ![<<g, f>>].status = till[r].answer] /\ unbacked' = unbacked
      /\ unsure' = unsure \cup IF till[r].answer = "error" THEN {f} ELSE {}
  BY <1>1, <1>2, <1>3 DEF Rewrite, At, salesVars, Quiet, request, rows, gateway
<1>5. till' = IF till[r].answer = "approved" /\ ~ sales[<<g, f>>].settled
              THEN [till EXCEPT ![r].stage = "approved"] ELSE [till EXCEPT ![r] = NoTill]
  BY <1>3 DEF Rewrite, Move, Leave
<1>6. /\ sales'[<<g, f>>].status = till[r].answer /\ sales'[<<g, f>>].settled = sales[<<g, f>>].settled
      /\ \A s \in CardSales \ {<<g, f>>} : sales'[s] = sales[s]
  BY <1>3, <1>4 DEF TillTypes
<1>7. /\ till[r].answer = "approved" /\ ~ sales[<<g, f>>].settled =>
            till'[r].ref = f /\ till'[r].gate = g /\ till'[r].stage = "approved"
      /\ ~ (till[r].answer = "approved" /\ ~ sales[<<g, f>>].settled) => till'[r].ref = None /\ till'[r].stage = "none"
      /\ \A u \in Requests \ {r} : till'[u] = till[u]
  BY <1>2, <1>3, <1>5 DEF TillTypes, TillRec, NoTill
<1>8. TillTypes'
  <2>1. till[r].answer \in Answers
    BY <1>3 DEF TillTypes, TillRec
  <2>2. sales' \in [CardSales -> [status : Answers, settled : BOOLEAN]]
    BY <1>3, <1>4, <2>1 DEF TillTypes
  <2>3. till' \in [Requests -> TillRec]
    BY <1>3, <1>5, <2>1, HeardTypes DEF TillTypes
  <2> QED BY <1>3, <1>4, <2>2, <2>3 DEF TillTypes
<1>9. Spares(r, f)
  <2>1. \A h \in References \ {f}, i \in Gateways : <<i, h>> \in CardSales \ {<<g, f>>}
    BY DEF CardSales
  <2> QED BY <1>2, <1>4, <1>6, <1>7, <2>1 DEF Spares
<1>10. TillOK(r)'
  BY <1>3, <1>4, <1>7, CardAssumption DEF TillOK, Busy
<1>11. \A h \in Gateways \ {g} : sales'[<<h, f>>] = sales[<<h, f>>]
  BY <1>3, <1>6 DEF CardSales
<1>12. g = "geidea" /\ till[r].answer # "none" /\ till[r].answer \in Answers
  BY <1>2, <1>3, <1>4 DEF TillOK, TillTypes, TillRec
<1>13. ASSUME f \notin unsure' PROVE SureOK(f)'
  <2>1. f \notin unsure /\ till[r].answer \in {"approved", "declined", "cancelled", "initiated", "unknown"}
    BY <1>4, <1>12, <1>13 DEF Answers, Final
  <2>2. SureOK(f) /\ SureTill(r) /\ SureSale(<<g, f>>) /\ SureSession(f)
    BY <1>2, <1>3, <2>1 DEF ReferenceOK, SureOK
  <2>3. /\ \A u \in Requests : till[u].ref = f => u = r
        /\ \A u \in Requests : till'[u].ref = f => u = r
    BY <1>2, <1>7, <2>2 DEF SureOK
  <2>4. till[r].answer = "approved" /\ ~ sales[<<g, f>>].settled => UnderWay(<<g, f>>)'
    BY <1>3, <1>7, <2>3, AloneNext
  <2>5. /\ till[r].answer \in {"approved", "declined", "cancelled"} => session[f] = till[r].answer
        /\ session[f] # "approved" => charged[<<g, f>>] = 0
    BY <1>2, <1>4, <1>12, <2>2 DEF SureTill, SureSession
  <2>6. SureSale(<<g, f>>)'
    BY <1>4, <1>6, <1>12, <2>1, <2>2, <2>4, <2>5 DEF SureSale
  <2>7. SureSession(f)'
    BY <1>4, <1>6, <1>12, <2>1, <2>2, <2>5 DEF SureSession
  <2>8. till'[r].ref = f => SureTill(r)'
    <3>1. till'[r].ref = f => till'[r].stage = "approved" /\ till[r].answer = "approved"
      BY <1>3, <1>7, CardAssumption
    <3> QED BY <1>4, <2>5, <3>1 DEF SureTill
  <2> QED BY <1>2, <1>3, <1>4, <1>7, <1>11, <1>12, <2>2, <2>6, <2>7, <2>8, SureStep
<1>14. ASSUME f \notin unbacked PROVE BackedOK(f)'
  <2>1. BackedOK(f)
    BY <1>3, <1>14 DEF ReferenceOK
  <2>2. till[r].answer = "approved" => charged[<<g, f>>] > 0
    BY <1>2, <1>3, <1>4, <2>1 DEF BackedOK, BackedTill
  <2>3. till'[r].ref = f => BackedTill(r)'
    <3>1. till'[r].ref = f => Sale(r)' = <<g, f>> /\ till[r].answer = "approved"
      BY <1>3, <1>7, CardAssumption DEF Sale
    <3> QED BY <1>4, <2>2, <3>1 DEF BackedTill
  <2>4. \A u \in Requests : till'[u].ref = f => BackedTill(u)'
    BY <1>3, <1>4, <1>7, <2>1, <2>3, AtGateway, BackedStep
  <2>5. \A h \in Gateways : sales'[<<h, f>>].status = "approved" => charged'[<<h, f>>] > 0
    BY <1>4, <1>6, <1>11, <2>1, <2>2 DEF BackedOK
  <2> QED BY <1>4, <2>1, <2>4, <2>5 DEF BackedOK
<1>15. ReferenceOK(f)'
  <2>1. \A h \in Gateways : sales'[<<h, f>>].settled => payments'[f].rows = 1
    BY <1>3, <1>4, <1>6, <1>11 DEF ReferenceOK
  <2>2. session[f] # "none"
    BY <1>2, <1>3, <1>4 DEF TillOK
  <2> QED BY <1>4, <1>13, <1>14, <2>1, <2>2 DEF ReferenceOK
<1> QED BY <1>1, <1>3, <1>4, <1>8, <1>9, <1>10, <1>15, TillStep

LEMMA BreakKept ==
    ASSUME SalesInv, CardInv, NEW r \in Requests, BreakOff(r)
    PROVE  CardInv'
<1>1. Quiet
  BY DEF BreakOff, Quiet, salesVars
<1>2. PICK f : f = till[r].ref
  OBVIOUS
<1>3. f \in References /\ ReferenceOK(f) /\ TillOK(r) /\ TillTypes
  BY <1>2, OnReference DEF BreakOff, CardInv
<1>4. /\ sales' = sales /\ session' = session /\ charged' = charged /\ unbacked' = unbacked
      /\ payments' = payments /\ started' = started /\ pc[r] = "idle" /\ pc'[r] = "idle"
      /\ unsure' = unsure \cup {f} /\ till' = [till EXCEPT ![r] = NoTill]
  BY <1>1, <1>2 DEF BreakOff, Leave, salesVars, Quiet, request, rows, gateway
<1>5. /\ till'[r].ref = None /\ till'[r].stage = "none"
      /\ \A u \in Requests \ {r} : till'[u] = till[u]
  BY <1>3, <1>4 DEF TillTypes, NoTill
<1>6. TillTypes'
  <2>1. till' \in [Requests -> TillRec]
    BY <1>3, <1>4, HeardTypes DEF TillTypes, Answers
  <2> QED BY <1>3, <1>4, <2>1 DEF TillTypes
<1>7. Spares(r, f)
  BY <1>2, <1>4, <1>5 DEF Spares
<1>8. TillOK(r)'
  BY <1>4, <1>5 DEF TillOK, Busy
<1>9. BackedOK(f) => BackedOK(f)'
  <2> SUFFICES ASSUME BackedOK(f) PROVE BackedOK(f)'
    OBVIOUS
  <2>1. \A u \in Requests : till'[u].ref = f => BackedTill(u)'
    BY <1>3, <1>4, <1>5, AtGateway, BackedStep, CardAssumption
  <2> QED BY <1>4, <2>1 DEF BackedOK
<1>10. ReferenceOK(f)'
  BY <1>3, <1>4, <1>9 DEF ReferenceOK
<1> QED BY <1>1, <1>3, <1>4, <1>6, <1>7, <1>8, <1>10, TillStep

-----------------------------------------------------------------------------
(* Steps of the sales module, beside the tills *)

\* What the till of r does while its request moves: it stays as it is, goes on settling,
\* or gives up its reference as unsure.
GoesOn(r) ==
    \/ till'[r] = till[r] /\ till[r].stage \in {"none", "settling"}
    \/ /\ till'[r].ref = till[r].ref /\ till'[r].gate = till[r].gate
       /\ till[r].stage \in {"approved", "settling"} /\ till'[r].stage \in {"settling", "settled"}
    \/ till'[r].ref = None /\ till[r].ref \in unsure' /\ till[r].stage = "settling"

LEMMA MoveStep ==
    ASSUME SalesInv, CardInv, NEW r \in Requests, SalesMove(r),
           \A u \in Requests \ {r} : till'[u] = till[u], GoesOn(r),
           sales' = sales, session' = session, charged' = charged,
           unsure \subseteq unsure', unbacked \subseteq unbacked',
           TillTypes', TillOK(r)'
    PROVE  CardInv'
<1>1. SalesTypes /\ OthersKeep(r)
  <2>1. SalesTypes
    BY DEF SalesInv
  <2> QED BY <2>1, MoveKinds, ReadsStay, CommitsStay
<1>2. ASSUME NEW h \in References
      PROVE  /\ payments[h].rows = 1 => payments'[h].rows = 1
             /\ payments'[h].rows > 0 /\ h \notin unbacked => charged[<<"neoleap", h>>] + charged[<<"geidea", h>>] > 0
             /\ payments[h].rows \in {0, 1} /\ payments'[h].rows \in {0, 1}
  BY ReferenceRows
<1>3. ASSUME NEW u \in Requests PROVE TillOK(u)'
  <2>1. CASE u = r BY <2>1
  <2>2. CASE u # r
    <3>1. TillOK(u) /\ till'[u] = till[u] /\ pc'[u] = pc[u] /\ op'[u] = op[u]
      BY <1>1, <2>2 DEF CardInv, OthersKeep
    <3> QED BY <1>2, <3>1, OtherTill
  <2> QED BY <2>1, <2>2
<1>4. TillOK(r)
  BY DEF CardInv
<1>5. ASSUME NEW h \in References PROVE ReferenceOK(h)'
  <2>1. ReferenceOK(h)
    BY DEF CardInv
  <2>2. ASSUME h \notin unsure' PROVE SureOK(h)'
    <3>1. SureOK(h)
      BY <2>1, <2>2 DEF ReferenceOK
    <3>2. \A u \in Requests : till'[u].ref = h <=> till[u].ref = h
      BY <2>2, CardAssumption DEF GoesOn
    <3>3. \A u \in Requests : till[u].ref = h =>
             /\ till'[u].gate = till[u].gate
             /\ till'[u] = till[u] \/ (till[u].stage \in {"approved", "settling"} /\ till'[u].stage \in {"settling", "settled"})
      BY <2>2, CardAssumption DEF GoesOn
    <3>4. ASSUME NEW g
          PROVE  (UnderWay(<<g, h>>)' <=> UnderWay(<<g, h>>)) /\ (Answered(<<g, h>>)' <=> Answered(<<g, h>>))
      <4>1. \A u \in Requests : Sale(u)' = <<g, h>> <=> Sale(u) = <<g, h>>
        BY <3>2, <3>3 DEF Sale
      <4>2. \A u \in Requests : Sale(u) = <<g, h>> => (till'[u].stage = "answered" <=> till[u].stage = "answered")
        BY <3>3 DEF Sale
      <4> QED BY <4>1, <4>2 DEF UnderWay, Answered
    <3>5. ASSUME NEW u \in Requests, till[u].ref = h PROVE SureTill(u)'
      <4>1. SureTill(u) /\ Sale(u)' = Sale(u) /\ till'[u].ref = h /\ till'[u].gate = till[u].gate
        BY <3>1, <3>2, <3>3, <3>5 DEF SureOK, Sale
      <4> QED BY <3>3, <3>5, <4>1 DEF SureTill
    <3>6. \A g \in Gateways : SureSale(<<g, h>>)'
      BY <3>1, <3>4 DEF SureOK, SureSale
    <3>7. SureSession(h)'
      BY <3>1, <3>4 DEF SureOK, SureSession
    <3> QED BY <3>1, <3>2, <3>5, <3>6, <3>7 DEF SureOK
  <2>3. ASSUME h \notin unbacked' PROVE BackedOK(h)'
    <3>1. BackedOK(h) /\ h \notin unbacked
      BY <2>1, <2>3 DEF ReferenceOK
    <3>2. till'[r].ref = h => BackedTill(r)'
      <4>1. till'[r].ref = h => till[r].ref = h /\ till'[r].gate = till[r].gate /\ BackedTill(r)
        BY <3>1, CardAssumption DEF GoesOn, BackedOK
      <4>2. till'[r].ref = h => Sale(r)' = Sale(r)
        BY <4>1 DEF Sale
      <4>3. till'[r].ref = h => till'[r] = till[r] \/ till[r].stage \in {"approved", "settling"}
        BY CardAssumption DEF GoesOn
      <4> QED BY <4>1, <4>2, <4>3 DEF BackedTill
    <3>3. \A u \in Requests : till'[u].ref = h => BackedTill(u)'
      BY <3>1, <3>2, AtGateway, BackedStep
    <3> QED BY <1>2, <3>1, <3>3 DEF BackedOK
  <2> QED BY <1>2, <2>1, <2>2, <2>3 DEF ReferenceOK
<1> QED BY <1>3, <1>5 DEF CardInv

\* A request of the sales module that is under way belongs to no till, or to one that settles.
LEMMA Settling ==
    ASSUME CardInv, NEW r \in Requests, pc[r] # "idle"
    PROVE  till[r].stage \in {"none", "settling"} /\ TillOK(r) /\ TillTypes
BY DEF CardInv, TillOK

LEMMA AskForKept ==
    ASSUME SalesInv, CardInv, NEW r \in Requests, NEW o \in Ops, AskFor(r, o)
    PROVE  CardInv'
<1>1. SalesMove(r) /\ Begin(r, o)
  BY DEF AskFor, SalesMove
<1>2. /\ till' = till /\ sales' = sales /\ session' = session /\ charged' = charged /\ unsure' = unsure
      /\ started' = started + 1 /\ started < MaxRequests /\ till[r].stage = "none"
      /\ unbacked' = unbacked \cup {f \in References : o.kind = "pay" /\ o.key = f}
  BY DEF AskFor, At, gateway
<1>3. TillOK(r) /\ TillTypes
  BY DEF CardInv
<1>4. op'[r] = o
  BY <1>1 DEF Begin, SalesInv, SalesTypes
<1>5. TillTypes'
  <2>1. unbacked' \in SUBSET References
    BY <1>2, <1>3 DEF TillTypes
  <2> QED BY <1>2, <1>3, <2>1, SalesAssumption DEF TillTypes
<1>6. TillOK(r)'
  <2>1. o.kind = "pay" /\ o.key \in References => o.key \in unbacked'
    BY <1>2
  <2> QED BY <1>2, <1>3, <1>4, <2>1 DEF TillOK, Busy
<1>7. GoesOn(r)
  BY <1>2 DEF GoesOn
<1> QED BY <1>1, <1>2, <1>5, <1>6, <1>7, MoveStep

LEMMA SettleKept ==
    ASSUME SalesInv, CardInv, NEW r \in Requests, SettleStart(r)
    PROVE  CardInv'
<1>1. TillOK(r) /\ TillTypes
  BY DEF CardInv
<1>2. /\ till[r].stage = "approved" /\ till' = [till EXCEPT ![r].stage = "settling"]
      /\ sales' = sales /\ session' = session /\ charged' = charged /\ started' = started
      /\ unsure' = unsure /\ unbacked' = unbacked
      /\ Begin(r, Settlement(r))
  BY DEF SettleStart, At, Move, gateway, doubts
<1>3. SalesMove(r)
  BY <1>1, <1>2, SettlementIsPay DEF SalesMove, TillOK
<1>4. op'[r] = Settlement(r) /\ pc'[r] = "read"
  BY <1>2 DEF Begin, Goto, SalesInv, SalesTypes
<1>5. /\ till'[r].ref = till[r].ref /\ till'[r].gate = till[r].gate /\ till'[r].stage = "settling"
      /\ \A u \in Requests \ {r} : till'[u] = till[u]
  BY <1>1, <1>2 DEF TillTypes, TillRec
<1>6. TillTypes'
  <2>1. till' \in [Requests -> TillRec]
    BY <1>1, <1>2, HeardTypes DEF TillTypes, Answers
  <2> QED BY <1>1, <1>2, <2>1 DEF TillTypes
<1>7. TillOK(r)'
  <2>1. Settlement(r)' = Settlement(r)
    BY <1>5 DEF Settlement
  <2> QED BY <1>1, <1>2, <1>4, <1>5, <2>1 DEF TillOK, Busy
<1>8. GoesOn(r)
  BY <1>2, <1>5 DEF GoesOn
<1> QED BY <1>2, <1>3, <1>5, <1>6, <1>7, <1>8, MoveStep

LEMMA StepKept ==
    ASSUME SalesInv, CardInv, NEW r \in Requests, SalesStep(r)
    PROVE  CardInv'
<1>1. SalesMove(r) /\ Proceeds(r)
  BY DEF SalesStep, SalesMove
<1>2. /\ till' = till /\ sales' = sales /\ session' = session /\ charged' = charged /\ unsure' = unsure
      /\ unbacked' = unbacked /\ started' = started
  BY DEF SalesStep, gateway, doubts
<1>3. DOMAIN pc = Requests
  BY DEF SalesInv, SalesTypes
<1>4. pc[r] # "idle" /\ pc'[r] # "idle" /\ op'[r] = op[r]
  BY <1>1, <1>3 DEF Proceeds, PostNumber, PostMove, PostJournal, VoidDerived, VoidLookup, VoidReverse,
         VoidMirror, PayInsert, ReturnCount, EditDelete, Is, Goto
<1>5. till[r].stage \in {"none", "settling"} /\ TillOK(r) /\ TillTypes
  BY <1>4, Settling
<1>6. TillTypes'
  BY <1>2, <1>5 DEF TillTypes
<1>7. TillOK(r)'
  <2>1. Settlement(r)' = Settlement(r)
    BY <1>2 DEF Settlement
  <2> QED BY <1>2, <1>4, <1>5, <2>1 DEF TillOK, Busy
<1>8. GoesOn(r)
  BY <1>2, <1>5 DEF GoesOn
<1> QED BY <1>1, <1>2, <1>6, <1>7, <1>8, MoveStep

\* A settlement that returns has its payment.
LEMMA SettledPaid ==
    ASSUME SalesInv, CardInv, NEW r \in Requests, Completes(r), till[r].stage = "settling"
    PROVE  payments'[till[r].ref].rows = 1
<1>1. PICK f : f = till[r].ref
  OBVIOUS
<1>2. pc[r] # "idle" /\ op[r] = Settlement(r) /\ f \in References
  BY <1>1 DEF CardInv, TillOK
<1>3. op[r].kind = "pay" /\ op[r].key = f /\ f \in AllKeys
  BY <1>1, <1>2, CardAssumption DEF Settlement, AllKeys
<1>4. SalesMove(r)
  BY DEF SalesMove
<1>5. payments[f].rows \in {0, 1} /\ payments'[f].rows \in {0, 1}
  BY <1>2, <1>4, ReferenceRows
<1>6. pc[r] \in {"read", "inserted"}
  BY <1>2, <1>3 DEF SalesInv, SalesTypes, Labels
<1>7. CASE PayReplay(r)
  BY <1>1, <1>3, <1>5, <1>7 DEF PayReplay, rows
<1>8. CASE PayCommit(r)
  <2>1. payments \in [AllKeys -> [doc : 0..MaxDocs, amount : Nat, rows : {0, 1}]]
    BY DEF SalesInv, SalesTypes, RowTypes
  <2>2. payments'[f].rows = payments[f].rows + 1
    BY <1>3, <1>8, <2>1 DEF PayCommit
  <2> QED BY <1>1, <1>5, <2>2
<1> QED BY <1>3, <1>6, <1>7, <1>8 DEF Completes, PostCommit, VoidCommit, Create, Is

LEMMA DoneKept ==
    ASSUME SalesInv, CardInv, NEW r \in Requests, SalesDone(r)
    PROVE  CardInv'
<1>1. SalesMove(r) /\ Completes(r)
  BY DEF SalesDone, SalesMove
<1>2. /\ till' = IF till[r].stage = "settling" THEN [till EXCEPT ![r].stage = "settled"] ELSE till
      /\ sales' = sales /\ session' = session /\ charged' = charged /\ started' = started
      /\ unsure' = unsure /\ unbacked' = unbacked
  BY DEF SalesDone, Move, gateway, doubts
<1>3. DOMAIN pc = Requests /\ DOMAIN op = Requests
  BY DEF SalesInv, SalesTypes
<1>4. pc[r] # "idle" /\ pc'[r] = "idle"
  BY <1>1, <1>3 DEF Completes, PostCommit, VoidCommit, PayReplay, PayCommit, Create, Is, End, Goto
<1>5. till[r].stage \in {"none", "settling"} /\ TillOK(r) /\ TillTypes
  BY <1>4, Settling
<1>6. /\ till'[r].ref = till[r].ref /\ till'[r].gate = till[r].gate
      /\ till'[r].stage = IF till[r].stage = "settling" THEN "settled" ELSE "none"
      /\ \A u \in Requests \ {r} : till'[u] = till[u]
  BY <1>2, <1>5 DEF TillTypes, TillRec
<1>7. TillTypes'
  <2>1. till' \in [Requests -> TillRec]
    BY <1>2, <1>5, HeardTypes DEF TillTypes, Answers
  <2> QED BY <1>2, <1>5, <2>1 DEF TillTypes
<1>8. TillOK(r)'
  <2>1. till[r].stage = "settling" => payments'[till[r].ref].rows = 1
    BY <1>1, SettledPaid
  <2> QED BY <1>2, <1>4, <1>5, <1>6, <2>1 DEF TillOK, Busy
<1>9. GoesOn(r)
  BY <1>2, <1>5, <1>6 DEF GoesOn
<1> QED BY <1>1, <1>2, <1>6, <1>7, <1>8, <1>9, MoveStep

LEMMA FailKept ==
    ASSUME SalesInv, CardInv, NEW r \in Requests, SalesFail(r)
    PROVE  CardInv'
<1>1. SalesMove(r) /\ Fail(r)
  BY DEF SalesFail, SalesMove
<1>2. /\ sales' = sales /\ session' = session /\ charged' = charged /\ started' = started /\ unbacked' = unbacked
      /\ till[r].stage = "settling" =>
            till' = [till EXCEPT ![r] = NoTill] /\ unsure' = unsure \cup {till[r].ref}
      /\ till[r].stage # "settling" => till' = till /\ unsure' = unsure
  BY DEF SalesFail, Leave, gateway
<1>3. DOMAIN pc = Requests
  BY DEF SalesInv, SalesTypes
<1>4. pc[r] # "idle" /\ pc'[r] = "idle"
  BY <1>1, <1>3 DEF Fail, End, Goto
<1>5. till[r].stage \in {"none", "settling"} /\ TillOK(r) /\ TillTypes
  BY <1>4, Settling
<1>6. /\ till'[r].stage = "none" /\ \A u \in Requests \ {r} : till'[u] = till[u]
      /\ till'[r].ref = None /\ unsure \subseteq unsure'
  BY <1>2, <1>5 DEF TillTypes, NoTill, TillOK
<1>7. TillTypes'
  <2>1. till' \in [Requests -> TillRec]
    BY <1>2, <1>5, HeardTypes DEF TillTypes, Answers
  <2>2. unsure' \in SUBSET References
    BY <1>2, <1>5 DEF TillTypes, TillOK
  <2> QED BY <1>2, <1>5, <2>1, <2>2 DEF TillTypes
<1>8. TillOK(r)'
  BY <1>4, <1>6 DEF TillOK, Busy
<1>9. GoesOn(r)
  BY <1>2, <1>5, <1>6 DEF GoesOn
<1> QED BY <1>1, <1>2, <1>6, <1>7, <1>8, <1>9, MoveStep

\* A document created directly touches no till, no reference and no payment.
LEMMA CreateForKept ==
    ASSUME SalesInv, CardInv, NEW b \in Bodies, CreateFor(b)
    PROVE  CardInv'
<1>1. /\ till' = till /\ sales' = sales /\ session' = session /\ charged' = charged /\ payments' = payments
      /\ unsure' = unsure /\ unbacked' = unbacked /\ pc' = pc /\ op' = op
      /\ started' = started + 1 /\ started < MaxRequests
  BY DEF CreateFor, CreatePlain, gateway, doubts, request
<1>2. TillTypes'
  BY <1>1, SalesAssumption DEF CardInv, TillTypes
<1>3. ASSUME NEW u \in Requests PROVE TillOK(u)'
  BY <1>1, OtherTill DEF CardInv
<1>4. ASSUME NEW f \in References PROVE ReferenceOK(f)'
  BY <1>1 DEF CardInv, ReferenceOK, BackedOK, BackedTill, SureOK, SureTill, SureSale, SureSession,
              UnderWay, Answered, Sale
<1> QED BY <1>2, <1>3, <1>4 DEF CardInv

-----------------------------------------------------------------------------
(* The invariant *)

LEMMA CardStart == CardInit => IInv
<1> SUFFICES ASSUME CardInit PROVE IInv
  OBVIOUS
<1>1. SalesInv /\ \A r \in Requests : pc[r] = "idle"
  BY SalesInit DEF CardInit, Init
<1>2. \A f \in References : payments[f].rows = 0
  BY CardAssumption DEF CardInit, Init, AllKeys
<1>3. TillTypes
  BY SalesAssumption DEF CardInit, Init, TillTypes, TillRec, NoTill, Answers
<1>4. ASSUME NEW r \in Requests PROVE TillOK(r)
  BY <1>1 DEF CardInit, TillOK, NoTill, Busy
<1>5. ASSUME NEW f \in References PROVE ReferenceOK(f)
  <2>1. \A g \in Gateways : <<g, f>> \in CardSales
    BY DEF CardSales
  <2>2. \A g \in Gateways : sales[<<g, f>>] = [status |-> "none", settled |-> FALSE] /\ charged[<<g, f>>] = 0
    BY <2>1 DEF CardInit
  <2>3. "geidea" \in Gateways /\ session[f] = "none" /\ \A r \in Requests : till[r].ref # f
    BY CardAssumption DEF CardInit, NoTill, Gateways
  <2>4. BackedOK(f)
    BY <1>2, <2>2, <2>3 DEF BackedOK
  <2>5. SureOK(f)
    BY <2>2, <2>3 DEF SureOK, SureSale, SureSession
  <2> QED BY <2>2, <2>3, <2>4, <2>5 DEF ReferenceOK
<1> QED BY <1>1, <1>3, <1>4, <1>5 DEF IInv, CardInv

\* Every step of the tills, of the cardholder and of the sales module keeps what is known
\* of the tills and of the references.
LEMMA CardKept ==
    ASSUME SalesInv, CardInv, CardNext
    PROVE  CardInv'
<1>1. ASSUME NEW r \in Requests, \/ \E o \in Ops : AskFor(r, o)
                                 \/ SalesStep(r) \/ SalesDone(r) \/ SalesFail(r) \/ SettleStart(r)
      PROVE  CardInv'
  BY <1>1, AskForKept, StepKept, DoneKept, FailKept, SettleKept
<1>2. ASSUME NEW r \in Requests, NEW f \in References, Refresh(r, f) \/ \E g \in Gateways : Press(r, g, f)
      PROVE  CardInv'
  BY <1>2, PressKept
<1>3. ASSUME NEW r \in Requests, CheckReference(r) \/ Charge(r) \/ OpenSession(r) \/ Record(r) PROVE CardInv'
  BY <1>3, CheckKept, ChargeKept, OpenKept, RecordKept
<1>4. ASSUME NEW r \in Requests, MarkSettled(r) \/ Ask(r) \/ Rewrite(r) \/ BreakOff(r) PROVE CardInv'
  BY <1>4, MarkKept, AskKept, RewriteKept, BreakKept
<1>5. ASSUME NEW f \in References, Cardholder(f) PROVE CardInv'
  BY <1>5, CardholderKept
<1>6. ASSUME NEW b \in Bodies, CreateFor(b) PROVE CardInv'
  BY <1>6, CreateForKept
<1> QED BY <1>1, <1>2, <1>3, <1>4, <1>5, <1>6 DEF CardNext

LEMMA CardRests ==
    ASSUME SalesInv, CardInv, UNCHANGED cardVars
    PROVE  SalesInv' /\ CardInv'
<1>1. Quiet
  BY DEF cardVars, salesVars, Quiet
<1>2. /\ till' = till /\ sales' = sales /\ session' = session /\ charged' = charged /\ unsure' = unsure
      /\ unbacked' = unbacked /\ started' = started /\ payments' = payments /\ pc' = pc /\ op' = op
  BY <1>1 DEF cardVars, salesVars, Quiet, rows, request
<1>3. TillTypes'
  BY <1>2 DEF CardInv, TillTypes
<1>4. ASSUME NEW r \in Requests PROVE TillOK(r)'
  BY <1>2, OtherTill DEF CardInv
<1>5. ASSUME NEW f \in References PROVE ReferenceOK(f)'
  BY <1>2 DEF CardInv, ReferenceOK, BackedOK, BackedTill, SureOK, SureTill, SureSale, SureSession,
              UnderWay, Answered, Sale
<1> QED BY <1>1, <1>3, <1>4, <1>5, SalesQuiet DEF CardInv

LEMMA CardStep == IInv /\ [CardNext]_cardVars => IInv'
<1> SUFFICES ASSUME SalesInv, CardInv, [CardNext]_cardVars PROVE SalesInv' /\ CardInv'
  BY DEF IInv
<1>1. CASE CardNext
  BY <1>1, StepKinds, SalesKept, PlainKept, SalesQuiet, CardKept
<1>2. CASE UNCHANGED cardVars
  BY <1>2, CardRests
<1> QED BY <1>1, <1>2

LEMMA CardAlways == CardSpec => []IInv
<1> QED BY CardStart, CardStep, PTL DEF CardSpec

-----------------------------------------------------------------------------
(* What it gives *)

\* The status of a document tells its entries, its reversals and its movements, whichever
\* requests met on it; a document posted twice was given lines by hand, or was for nothing
\* and moved nothing.
THEOREM StatusTells == CardSpec => []StatusTellsEffects
<1>1. ASSUME IInv PROVE StatusTellsEffects
  <2>1. \A d \in Ids : DocOK(d)
    BY <1>1 DEF IInv, SalesInv
  <2> QED BY <2>1 DEF DocOK, Blank, PostsTell, StatusTellsEffects
<1> QED BY <1>1, CardAlways, PTL

\* What an invoice says is paid is the sum of its payments and within its total, as long
\* as no payment was made on a balance that another request had changed, and but for an
\* invoice posted twice.
THEOREM PaidTells == CardSpec => []PaidTellsPayments
<1>1. IInv => PaidTellsPayments
  BY DEF IInv, SalesInv
<1> QED BY <1>1, CardAlways, PTL

\* A voided sale has no payment and no posted return, as long as no void, payment or
\* posting was decided from what another request has changed.
THEOREM VoidedAlone == CardSpec => []VoidedStandsAlone
<1>1. IInv => VoidedStandsAlone
  BY DEF IInv, SalesInv
<1> QED BY <1>1, CardAlways, PTL

\* With a return made by the return endpoint no more comes back than was sold, unless it
\* or an edit was decided from what another request had changed; a return created directly
\* is not held to it, though it counts.
THEOREM ReturnsWithin == CardSpec => []ReturnsWithinSale
<1>1. IInv => ReturnsWithinSale
  BY DEF IInv, SalesInv
<1> QED BY <1>1, CardAlways, PTL

\* The types of the sales module and of the tills.
LEMMA CardTypes ==
    ASSUME SalesInv, CardInv
    PROVE  TypeOK
<1>1. SalesTypes /\ TillTypes
  BY DEF SalesInv, CardInv
<1>2. docs \in [Ids -> DocRec]
  BY <1>1 DEF SalesTypes, Ids
<1>3. ASSUME NEW d \in Ids PROVE docs[d] \in DocRec
  BY <1>2
<1>4. \A r \in Requests : op[r] \in Ops \cup {None} \/ op[r] \in Pays
  BY <1>1 DEF SalesTypes
<1>5. payments \in [AllKeys -> [doc : 0..MaxDocs, amount : Nat, rows : Nat]]
  BY <1>1 DEF SalesTypes, RowTypes
<1>6. SalesTypeOK
  <2>1. ASSUME NEW d \in Ids
        PROVE  /\ docs[d].kind \in {"sale", "return"} /\ docs[d].of \in 0..MaxDocs
               /\ docs[d].status \in {"draft", "posted", "voided"}
               /\ {docs[d].units, docs[d].total, docs[d].paid, docs[d].posts, docs[d].entries,
                   docs[d].reversals, docs[d].moved, docs[d].back} \subseteq Nat
    BY <1>3 DEF DocRec
  <2>2. ASSUME NEW d \in Ids
        PROVE  /\ {docs[d].stocked, docs[d].counted, docs[d].keyed} \subseteq BOOLEAN
               /\ docs[d].given \in SUBSET {"journal", "stock"}
    BY <1>3, Zenon DEF DocRec
  <2>3. own \in [Requests -> Nat] /\ started \in 0..MaxRequests /\ overtaken \in SUBSET Requests
    BY <1>1 DEF SalesTypes, TillTypes
  <2>4. lock \in [Locks -> Requests \cup {None}] /\ Len(docs) \in 1..MaxDocs
    BY <1>1 DEF SalesTypes
  <2> QED BY <1>4, <1>5, <2>1, <2>2, <2>3, <2>4, Zenon DEF SalesTypeOK
<1> QED BY <1>1, <1>6 DEF TillTypes, TillRec, TypeOK

\* Money of a card reaches the invoice at most once for a charge, through presses and
\* refreshes that meet at one gateway or at both, answers that are lost or unknown and
\* crashes between any two transactions; where two operations met, an answer was lost or
\* one broke off a charge may be left without its payment.
THEOREM CardMoney == CardSpec => []CardMoneyOnce
<1>1. ASSUME SalesInv, CardInv PROVE CardMoneyOnce
  <2>1. ASSUME NEW f \in References
        PROVE  /\ payments[f].rows <= 1
               /\ \A g \in Gateways : sales[<<g, f>>].settled => payments[f].rows = 1
               /\ f \notin unbacked =>
                     /\ payments[f].rows <= charged[<<"neoleap", f>>] + charged[<<"geidea", f>>]
                     /\ \A g \in Gateways : sales[<<g, f>>].status = "approved" => charged[<<g, f>>] > 0
    <3>1. ReferenceOK(f) /\ charged[<<"neoleap", f>>] \in Nat /\ charged[<<"geidea", f>>] \in Nat
      BY <1>1 DEF CardInv, TillTypes, CardSales, Gateways
    <3>2. payments[f].rows \in {0, 1}
      BY <1>1, CardAssumption DEF SalesInv, SalesTypes, RowTypes, AllKeys
    <3>3. f \notin unbacked => payments[f].rows <= charged[<<"neoleap", f>>] + charged[<<"geidea", f>>]
      BY <3>1, <3>2 DEF ReferenceOK, BackedOK
    <3> QED BY <3>1, <3>2, <3>3 DEF ReferenceOK, BackedOK
  <2>2. ASSUME NEW f \in References, f \notin unsure, NEW g \in Gateways
        PROVE  LET s == <<g, f>> IN
               /\ charged[s] <= 1
               /\ sales[s].status = "approved" => sales[s].settled \/ UnderWay(s)
               /\ charged[s] = 1 => \/ sales[s].settled
                                   \/ UnderWay(s)
                                   \/ (g = "geidea" /\ sales[s].status \in {"initiated", "unknown"})
    <3>1. SureSale(<<g, f>>)
      BY <1>1, <2>2 DEF CardInv, ReferenceOK, SureOK
    <3> QED BY <3>1 DEF SureSale
  <2>3. TypeOK
    BY <1>1, CardTypes
  <2> HIDE DEF TypeOK, UnderWay
  <2> QED BY <2>1, <2>2, <2>3 DEF CardMoneyOnce
<1> QED BY <1>1, CardAlways, PTL DEF IInv
=====
