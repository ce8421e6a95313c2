----------------------------- MODULE CardPayment -----------------------------
(***************************************************************************)
(* Card sales at the payment gateways (payments.service.ts) beside the     *)
(* requests of SalesInvoice.  A press of the card button reads the invoice *)
(* and the reference, asks the gateway, records its answer and, when it is *)
(* an approval, has addPayment write it on the invoice under the reference *)
(* and marks it settled: four transactions with a charge between them, and *)
(* a crash may come between any two.                                       *)
(*                                                                         *)
(* NeoLeap charges the card at once.  Geidea opens a session, the          *)
(* cardholder pays later, and refresh asks how it ended.  A reference may  *)
(* be used at both, each having a row of its own, while the payment key is *)
(* the reference alone.  The gateways are not part of the repository: what *)
(* they may answer is read from gateways/neoleap.ts and gateways/geidea.ts.*)
(***************************************************************************)
EXTENDS SalesInvoice

CONSTANTS
    References,   \* references of card sales, which are payment keys as well
    Amount        \* the amount every press asks for

ASSUME CardAssumption ==
    /\ References \subseteq Keys /\ Amount \in Nat \ {0}
    /\ None \notin References

VARIABLES
    till,       \* card operation of each slot: gateway, reference, stage, the answer it holds
    sales,      \* rows of payment_gateway_transactions, by gateway and reference
    session,    \* Geidea: the session of a reference
    charged,    \* how many times a gateway charged the card for a reference
    unsure,     \* history: references of which an answer was lost, an operation broke off,
                \* or two operations met
    unbacked    \* history: references a clerk paid under himself, or of which a gateway
                \* answered approved and charged nothing

cardVars == <<salesVars, till, sales, session, charged, unsure, unbacked>>
gateway == <<session, charged>>
doubts == <<unsure, unbacked>>

Gateways == {"neoleap", "geidea"}
CardSales == Gateways \X References

NoTill == [gate |-> "none", ref |-> None, stage |-> "none", answer |-> "none"]

\* Statuses refresh does not ask about again.
Final == {"approved", "declined", "cancelled", "error"}

CardInit ==
    /\ Init
    /\ till = [r \in Requests |-> NoTill]
    /\ sales = [s \in CardSales |-> [status |-> "none", settled |-> FALSE]]
    /\ session = [f \in References |-> "none"]
    /\ charged = [s \in CardSales |-> 0]
    /\ unsure = {} /\ unbacked = {}

\* The row the operation of a slot is about.
Sale(r) == <<till[r].gate, till[r].ref>>

At(r, stage) == till[r].stage = stage /\ pc[r] = "idle"
Move(r, stage) == till' = [till EXCEPT ![r].stage = stage]
Hears(r, answer) == till' = [till EXCEPT ![r].stage = "answered", ![r].answer = answer]
Leave(r) == till' = [till EXCEPT ![r] = NoTill]

\* The reference, when another operation on it is under way.
Contended(r, f) == IF \E u \in Requests \ {r} : till[u].ref = f THEN {f} ELSE {}

-----------------------------------------------------------------------------
(* sale *)

\* The invoice must be posted and owe the amount.
Press(r, g, f) ==
    /\ At(r, "none") /\ started < MaxRequests
    /\ docs[1].status = "posted" /\ Amount <= docs[1].total - docs[1].paid
    /\ till' = [till EXCEPT ![r] = [gate |-> g, ref |-> f, stage |-> "press", answer |-> "none"]]
    /\ started' = started + 1
    /\ unsure' = unsure \cup Contended(r, f)
    /\ UNCHANGED <<rows, lock, request, history, sales, gateway, unbacked>>

\* A reference that has a row is refused; nothing holds it for this press.
CheckReference(r) ==
    /\ At(r, "press") /\ sales[Sale(r)].status = "none"
    /\ Move(r, "checked")
    /\ UNCHANGED <<salesVars, sales, gateway, doubts>>

\* NeoLeap answers when the card has been charged or not.  Words the code does not know
\* are "unknown", a request that times out or fails is "error", whatever became of the
\* charge; and "approved" may come with an error message and no charge.
Charge(r) ==
    LET f == till[r].ref
    IN /\ At(r, "checked") /\ till[r].gate = "neoleap"
       /\ \E answer \in Final \cup {"unknown"}, n \in {0, 1} :
             /\ answer \in {"declined", "cancelled"} => n = 0
             /\ Hears(r, answer)
             /\ charged' = [charged EXCEPT ![Sale(r)] = @ + n]
             /\ unsure' = unsure \cup IF answer \in {"error", "unknown"} /\ n = 1 THEN {f} ELSE {}
             /\ unbacked' = unbacked \cup IF answer = "approved" /\ n = 0 THEN {f} ELSE {}
       /\ UNCHANGED <<salesVars, sales, session>>

\* Geidea opens a session, or answers an error.
OpenSession(r) ==
    LET f == till[r].ref
    IN /\ At(r, "checked") /\ till[r].gate = "geidea"
       /\ \/ Hears(r, "initiated") /\ session' = [session EXCEPT ![f] = "open"]
          \/ Hears(r, "error") /\ UNCHANGED session
       /\ UNCHANGED <<salesVars, sales, charged, doubts>>

\* The cardholder finishes: the card is charged, or declined, or the session given up.
Cardholder(f) ==
    /\ session[f] = "open"
    /\ \/ /\ session' = [session EXCEPT ![f] = "approved"]
          /\ charged' = [charged EXCEPT ![<<"geidea", f>>] = @ + 1]
       \/ /\ session' \in {[session EXCEPT ![f] = a] : a \in {"declined", "cancelled"}}
          /\ UNCHANGED charged
    /\ UNCHANGED <<salesVars, till, sales, doubts>>

\* Fault: an approved sale is recorded as settled before its payment is written.
RecordAsSettled(r) ==
    /\ At(r, "answered") /\ sales[Sale(r)].status = "none"
    /\ sales' = [sales EXCEPT ![Sale(r)] = [status |-> till[r].answer,
                                           settled |-> till[r].answer = "approved"]]
    /\ IF till[r].answer = "approved" THEN Move(r, "approved") ELSE Leave(r)
    /\ UNCHANGED <<salesVars, gateway, doubts>>

\* The row is inserted; the reference is unique with its gateway.
Record(r) ==
    /\ At(r, "answered") /\ sales[Sale(r)].status = "none"
    /\ sales' = [sales EXCEPT ![Sale(r)].status = till[r].answer]
    /\ IF till[r].answer = "approved" THEN Move(r, "approved") ELSE Leave(r)
    /\ UNCHANGED <<salesVars, gateway, doubts>>

-----------------------------------------------------------------------------
(* settleIfApproved *)

\* addPayment is called with the reference as its key ...
Settlement(r) == [kind |-> "pay", doc |-> 1, key |-> till[r].ref, amount |-> Amount]

SettleStart(r) ==
    /\ At(r, "approved")
    /\ Begin(r, Settlement(r)) /\ Move(r, "settling")
    /\ UNCHANGED <<started, sales, gateway, doubts>>

\* ... and the row is marked once it has returned.
MarkSettled(r) ==
    /\ At(r, "settled")
    /\ sales' = [sales EXCEPT ![Sale(r)].settled = TRUE]
    /\ Leave(r)
    /\ UNCHANGED <<salesVars, gateway, doubts>>

-----------------------------------------------------------------------------
(* refresh *)

\* Only a sale still open, at the gateway that can be asked, is refreshed.
Refresh(r, f) ==
    /\ At(r, "none") /\ started < MaxRequests
    /\ sales[<<"geidea", f>>].status \notin Final \cup {"none"}
    /\ till' = [till EXCEPT ![r] = [gate |-> "geidea", ref |-> f, stage |-> "refresh", answer |-> "none"]]
    /\ started' = started + 1
    /\ unsure' = unsure \cup Contended(r, f)
    /\ UNCHANGED <<rows, lock, request, history, sales, gateway, unbacked>>

\* The gateway tells how the session stands.  An answer without orders is "initiated",
\* words the code does not know are "unknown", and a gateway out of reach is "error".
Ask(r) ==
    LET f == till[r].ref
        state == IF session[f] = "open" THEN "initiated" ELSE session[f]
    IN /\ At(r, "refresh")
       /\ \E answer \in {state, "initiated", "unknown", "error"} :
             till' = [till EXCEPT ![r].stage = "asked", ![r].answer = answer]
       /\ UNCHANGED <<salesVars, sales, gateway, doubts>>

\* The answer is written over whatever the row says by now, final or not.
Rewrite(r) ==
    /\ At(r, "asked")
    /\ sales' = [sales EXCEPT ![Sale(r)].status = till[r].answer]
    /\ IF till[r].answer = "approved" /\ ~ sales[Sale(r)].settled
       THEN Move(r, "approved") ELSE Leave(r)
    /\ unsure' = unsure \cup IF till[r].answer = "error" THEN {till[r].ref} ELSE {}
    /\ UNCHANGED <<salesVars, gateway, unbacked>>

\* The operation breaks off between two of its transactions: a refusal, an error or a
\* crash.  Nothing takes it up again.
BreakOff(r) ==
    /\ till[r].stage # "none" /\ pc[r] = "idle"
    /\ Leave(r)
    /\ unsure' = unsure \cup {till[r].ref}
    /\ UNCHANGED <<salesVars, sales, gateway, unbacked>>

-----------------------------------------------------------------------------

\* A request of the sales module, made directly; a clerk may pay under any key.
AskFor(r, o) ==
    /\ At(r, "none") /\ started < MaxRequests
    /\ Begin(r, o) /\ started' = started + 1
    /\ unbacked' = unbacked \cup {f \in References : o.kind = "pay" /\ o.key = f}
    /\ UNCHANGED <<till, sales, gateway, unsure>>

CreateFor(b) ==
    /\ started < MaxRequests
    /\ CreatePlain(b) /\ started' = started + 1
    /\ UNCHANGED <<till, sales, gateway, doubts>>

\* It goes on, for a clerk or for a till that waits for it.
SalesStep(r) ==
    /\ Proceeds(r)
    /\ UNCHANGED <<started, till, sales, gateway, doubts>>

SalesDone(r) ==
    /\ Completes(r)
    /\ IF till[r].stage = "settling" THEN Move(r, "settled") ELSE UNCHANGED till
    /\ UNCHANGED <<started, sales, gateway, doubts>>

\* A settlement that fails is logged and left; the row stays approved and unsettled.
SalesFail(r) ==
    /\ Fail(r)
    /\ IF till[r].stage = "settling"
       THEN Leave(r) /\ unsure' = unsure \cup {till[r].ref}
       ELSE UNCHANGED <<till, unsure>>
    /\ UNCHANGED <<started, sales, gateway, unbacked>>

CardNext ==
    \/ \E r \in Requests :
          \/ \E o \in Ops : AskFor(r, o)
          \/ \E f \in References : Refresh(r, f) \/ \E g \in Gateways : Press(r, g, f)
          \/ SalesStep(r) \/ SalesDone(r) \/ SalesFail(r)
          \/ CheckReference(r) \/ Charge(r) \/ OpenSession(r) \/ Record(r)
          \/ SettleStart(r) \/ MarkSettled(r) \/ Ask(r) \/ Rewrite(r) \/ BreakOff(r)
    \/ \E f \in References : Cardholder(f)
    \/ \E b \in Bodies : CreateFor(b)

CardSpec == CardInit /\ [][CardNext]_cardVars

-----------------------------------------------------------------------------
(* Properties *)

Answers == Final \cup {"none", "initiated", "unknown"}

TypeOK ==
    /\ SalesTypeOK
    /\ till \in [Requests -> [gate : Gateways \cup {"none"}, ref : References \cup {None},
                    stage : {"none", "press", "checked", "answered", "approved", "settling",
                             "settled", "refresh", "asked"},
                    answer : Answers]]
    /\ sales \in [CardSales -> [status : Answers, settled : BOOLEAN]]
    /\ session \in [References -> {"none", "open", "approved", "declined", "cancelled"}]
    /\ charged \in [CardSales -> Nat]
    /\ unsure \in SUBSET References /\ unbacked \in SUBSET References

\* The operation of some slot is about the sale s.
UnderWay(s) == \E r \in Requests : Sale(r) = s

\* The types, and: money of a card reaches the invoice at most once for a charge.  There is
\* one payment under a reference, through presses and refreshes that meet at one gateway or
\* at both, and a row marked settled has it; two gateways that charge one reference share
\* it.  It stands for a charge, and an approved row for one of its own, unless a gateway
\* approved without one or a clerk paid under the reference.  And a gateway charges a
\* reference once, and once it has, the sale is settled, can still be asked about, or is
\* under way, unless two operations met on the reference, an answer was lost, or one broke
\* off.
CardMoneyOnce ==
    TypeOK /\ \A f \in References :
        /\ payments[f].rows <= 1
        /\ \A g \in Gateways : sales[<<g, f>>].settled => payments[f].rows = 1
        /\ f \notin unbacked =>
              /\ payments[f].rows <= charged[<<"neoleap", f>>] + charged[<<"geidea", f>>]
              /\ \A g \in Gateways : sales[<<g, f>>].status = "approved" => charged[<<g, f>>] > 0
        /\ f \notin unsure => \A g \in Gateways : LET s == <<g, f>> IN
              /\ charged[s] <= 1
              /\ sales[s].status = "approved" => sales[s].settled \/ UnderWay(s)
              /\ charged[s] = 1 => \/ sales[s].settled
                                  \/ UnderWay(s)
                                  \/ (g = "geidea" /\ sales[s].status \in {"initiated", "unknown"})
=============================================================================
