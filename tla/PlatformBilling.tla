--------------------------- MODULE PlatformBilling ---------------------------
(***************************************************************************)
(* What the platform sells one tenant: its licences and the documents that *)
(* bill them.  platform-billing.service.ts, with the activation queue of   *)
(* platform-admin.service.ts and the indexes of migration 0068.            *)
(*                                                                         *)
(* A request is one READ COMMITTED transaction.  It reads without locking, *)
(* decides by what it has read, and then writes by id alone: the UPDATE    *)
(* does not look at the status again.  Its writes and its commit are one   *)
(* step; each statement that reads before is a step of its own.            *)
(*                                                                         *)
(* Every invoice is worth Total; a credit note is never collected.  Plans, *)
(* dates but for being overdue, texts and the end of a paid period are     *)
(* left out.                                                               *)
(***************************************************************************)
EXTENDS Integers, FiniteSets

CONSTANTS
    Requests,       \* request slots
    MaxRequests,    \* how many requests are made in all (a bound)
    Licences,       \* ids of tenant_subscriptions
    Documents,      \* ids of platform_invoices
    Periods,        \* the periods an invoice may be for
    Total,          \* what an invoice comes to
    MaxAttempts,    \* PLATFORM_DUNNING_MAX_ATTEMPTS
    Jobs,           \* what requests ask for
    None

LiveStatus == {"trialing", "active", "past_due", "paused"}
Kinds == {"invoice", "credit_note"}

\* activated and canceled tell whether activated_at and canceled_at are set.
Licence == [status : LiveStatus \cup {"canceled"}, activated : BOOLEAN, canceled : BOOLEAN]

\* origin is what drafted it; number is 0 until it is issued, voided tells of voided_at.
Document == [licence : Licences, kind : Kinds, origin : {"period", "change"}, period : Periods,
             status : {"draft", "issued", "paid", "void"}, number : Nat, paid : Nat,
             overdue : BOOLEAN, voided : BOOLEAN]

LicenceOps == {"changePlan", "pause", "resume", "cancel", "createInvoice", "runDunning"}
JobType ==
    [op : {"grant"}, trial : BOOLEAN] \cup [op : {"approve", "reject"}]
        \cup [op : LicenceOps \ {"createInvoice"}, licence : Licences]
        \cup [op : {"createInvoice"}, licence : Licences, period : Periods]
        \cup [op : {"issue", "void"}, document : Documents]
        \cup [op : {"pay"}, document : Documents, amount : 1..Total]

ASSUME BillingAssumption ==
    /\ MaxRequests \in Nat /\ Total \in Nat \ {0} /\ MaxAttempts \in Nat
    /\ Jobs \subseteq JobType
    /\ None \notin Licence \cup Document \cup Jobs

VARIABLES
    licence,     \* table tenant_subscriptions, the rows of the tenant
    document,    \* table platform_invoices
    received,    \* table platform_payments: what has been recorded on a document
    attempts,    \* table dunning_attempts: the attempt numbers on a document
    counter,     \* table platform_invoice_sequences
    activation,  \* the status of the tenant's activation request
    pc, job,
    seen,        \* the licence a request has read
    found,       \* the rows its second statement has found
    sum,         \* what its update of a paid document has added up
    started,     \* requests made so far
    overtaken,   \* history: requests others have committed past
    late         \* history: rows an overtaken request has written

tables == <<licence, document, received, attempts, counter, activation>>
request == <<pc, job, seen, found, sum, started>>
history == <<overtaken, late>>
vars == <<tables, request, history>>

-----------------------------------------------------------------------------

LicensedNow(l) == licence[l] # None
Drafted(d) == document[d] # None

AllowedFromEnd(op) ==    \* Fault: a canceled licence is resumed like a paused one.
    CASE op \in {"changePlan", "pause"} -> {"trialing", "active", "past_due"}
      [] op = "resume" -> {"paused", "canceled"}
      [] op \in {"cancel", "createInvoice"} -> LiveStatus
      [] op = "runDunning" -> LiveStatus \cup {"canceled"}

\* The statuses an operation on a licence accepts; a dunning run accepts all.
AllowedFrom(op) ==
    CASE op \in {"changePlan", "pause"} -> {"trialing", "active", "past_due"}
      [] op = "resume" -> {"paused"}
      [] op \in {"cancel", "createInvoice"} -> LiveStatus
      [] op = "runDunning" -> LiveStatus \cup {"canceled"}

CollectableAlways(row, amount) == row.kind = "invoice"    \* Fault: whatever is left to pay.

\* No more is collected than is left to pay.
Collectable(row, amount) == row.kind = "invoice" /\ amount <= Total - row.paid

\* The documents an operation accepts.
Accepts(j, row) ==
    CASE j.op = "issue" -> row.status = "draft"
      [] j.op = "void" -> row.status \in {"draft", "issued"}
      [] j.op = "pay" -> row.status = "issued" /\ Collectable(row, j.amount)

\* tenant_subscriptions_active_tenant_key: it leaves out every row with a canceled_at.
OneLive(table) ==
    \A k, l \in Licences : table[k] # None /\ table[l] # None /\ k # l =>
        ~ (/\ table[k].status \in LiveStatus /\ ~ table[k].canceled
           /\ table[l].status \in LiveStatus /\ ~ table[l].canceled)

Draft(l, kind, origin, period) ==
    [licence |-> l, kind |-> kind, origin |-> origin, period |-> period, status |-> "draft",
     number |-> 0, paid |-> 0, overdue |-> FALSE, voided |-> FALSE]

-----------------------------------------------------------------------------

Init ==
    /\ licence = [l \in Licences |-> None]
    /\ document = [d \in Documents |-> None]
    /\ received = [d \in Documents |-> 0]
    /\ attempts = [d \in Documents |-> {}]
    /\ counter = [k \in Kinds |-> 0]
    /\ activation = "pending"
    /\ pc = [r \in Requests |-> "idle"]
    /\ job = [r \in Requests |-> None]
    /\ seen = [r \in Requests |-> None]
    /\ found = [r \in Requests |-> {}]
    /\ sum = [r \in Requests |-> 0]
    /\ started = 0
    /\ overtaken = {} /\ late = {}

Begin(r, j, stage) ==
    /\ pc[r] = "idle" /\ started < MaxRequests
    /\ started' = started + 1
    /\ job' = [job EXCEPT ![r] = j]
    /\ pc' = [pc EXCEPT ![r] = stage]
    /\ UNCHANGED <<tables, found, sum, history>>

BeginGrant(r, j) == j.op = "grant" /\ Begin(r, j, "read") /\ UNCHANGED seen

\* reviewActivation takes the pending request first, and holds its row.
BeginReview(r, j) ==
    /\ j.op \in {"approve", "reject"}
    /\ activation = "pending"
    /\ \A u \in Requests : pc[u] # "idle" => job[u].op \notin {"approve", "reject"}
    /\ Begin(r, j, IF j.op = "approve" THEN "read" ELSE "ready")
    /\ UNCHANGED seen

ReadLicence(r, j) ==
    /\ j.op \in LicenceOps
    /\ LicensedNow(j.licence) /\ licence[j.licence].status \in AllowedFrom(j.op)
    /\ Begin(r, j, IF j.op \in {"createInvoice", "runDunning"} THEN "read" ELSE "ready")
    /\ seen' = [seen EXCEPT ![r] = licence[j.licence]]

ReadDocument(r, j) ==
    /\ j.op \in {"issue", "void", "pay"}
    /\ Drafted(j.document) /\ Accepts(j, document[j.document])
    /\ Begin(r, j, IF j.op = "pay" THEN "read" ELSE "ready")
    /\ UNCHANGED seen

\* The second statement, and what it finds.
AtSecond(r, op) == pc[r] = "read" /\ job[r].op = op

Finds(r, rows) ==
    /\ found' = [found EXCEPT ![r] = rows]
    /\ pc' = [pc EXCEPT ![r] = "ready"]
    /\ UNCHANGED <<tables, job, seen, sum, started, history>>

\* The licences a new one is to replace.
FindRetired(r) ==
    /\ AtSecond(r, "grant") \/ AtSecond(r, "approve")
    /\ Finds(r, {l \in Licences : LicensedNow(l) /\ licence[l].status \in LiveStatus})

\* Another document for the period, of either kind.
FindDuplicate(r) ==
    /\ AtSecond(r, "createInvoice")
    /\ \A d \in Documents : Drafted(d) =>
          ~ (/\ document[d].licence = job[r].licence /\ document[d].period = job[r].period
             /\ document[d].status # "void")
    /\ Finds(r, {})

\* The overdue invoices, each with its number of attempts.
FindOverdue(r) ==
    /\ AtSecond(r, "runDunning")
    /\ Finds(r, {<<d, Cardinality(attempts[d])>> : d \in
                    {d \in Documents : /\ Drafted(d) /\ document[d].licence = job[r].licence
                                       /\ document[d].kind = "invoice"
                                       /\ document[d].status = "issued" /\ document[d].overdue}})

\* The payment is inserted, and the payments the update can see are added up; then it waits
\* for the row of the invoice.
AddUp(r) ==
    /\ AtSecond(r, "pay")
    /\ sum' = [sum EXCEPT ![r] = received[job[r].document] + job[r].amount]
    /\ pc' = [pc EXCEPT ![r] = "ready"]
    /\ UNCHANGED <<tables, job, seen, found, started, history>>

-----------------------------------------------------------------------------
(* The writes and the commit *)

End(r) ==
    /\ pc' = [pc EXCEPT ![r] = "idle"]
    /\ job' = [job EXCEPT ![r] = None]
    /\ seen' = [seen EXCEPT ![r] = None]
    /\ found' = [found EXCEPT ![r] = {}]
    /\ sum' = [sum EXCEPT ![r] = 0]
    /\ UNCHANGED started

\* A refusal by an index, an error or a crash: nothing stays.
Fail(r) ==
    /\ pc[r] # "idle"
    /\ End(r)
    /\ overtaken' = overtaken \ {r}
    /\ UNCHANGED <<tables, late>>

\* Whether a request works from one of these rows.
WorksFrom(u, rows) ==
    /\ pc[u] # "idle"
    /\ CASE job[u].op \in LicenceOps ->
              \/ job[u].licence \in rows
              \/ /\ job[u].op \in {"createInvoice", "runDunning"}
                 /\ \E d \in rows \cap Documents : document'[d].licence = job[u].licence
         [] job[u].op \in {"issue", "void", "pay"} -> job[u].document \in rows
         [] OTHER -> FALSE

Commit(r, rows) ==
    /\ End(r)
    /\ overtaken' = (overtaken \ {r}) \cup {u \in Requests \ {r} : WorksFrom(u, rows)}
    /\ late' = IF r \in overtaken THEN late \cup rows ELSE late

Ready(r, op) == pc[r] = "ready" /\ job[r].op = op

\* grantSubscription, and reviewActivation when it approves a request (that names a plan):
\* the licences that were found and are live still are retired.
Grant(r) ==
    \E l \in Licences, op \in {"grant", "approve"} :
        LET trial == op = "grant" /\ job[r].trial
            retired == {k \in found[r] : licence[k].status \in LiveStatus}
            new == [status |-> IF trial THEN "trialing" ELSE "active", activated |-> ~ trial,
                    canceled |-> FALSE]
            table == [k \in Licences |->
                        IF k = l THEN new
                        ELSE IF k \in retired
                             THEN [licence[k] EXCEPT !.status = "canceled", !.canceled = TRUE]
                             ELSE licence[k]]
        IN  /\ Ready(r, op) /\ ~ LicensedNow(l)
            /\ OneLive(table)
            /\ licence' = table
            /\ activation' = IF op = "approve" THEN "approved" ELSE activation
            /\ UNCHANGED <<document, received, attempts, counter>>
            /\ Commit(r, retired \cup {l})

Reject(r) ==
    /\ Ready(r, "reject")
    /\ activation' = "rejected"
    /\ UNCHANGED <<licence, document, received, attempts, counter>>
    /\ Commit(r, {})

\* The row after the update; a canceled_at that is set stays set.
Updated(r, op) ==
    LET row == licence[job[r].licence] IN
    CASE op = "pause" -> [row EXCEPT !.status = "paused"]
      [] op = "resume" -> [row EXCEPT !.status = IF seen[r].activated THEN "active" ELSE "trialing"]
      [] op = "cancel" -> [row EXCEPT !.status = "canceled", !.canceled = TRUE]
      [] op = "changePlan" -> [row EXCEPT !.status = "active", !.activated = TRUE]
      [] op = "runDunning" -> [row EXCEPT !.status = "past_due"]

WriteLicence(r, op) ==
    /\ licence' = [licence EXCEPT ![job[r].licence] = Updated(r, op)]
    /\ OneLive(licence')

\* pauseSubscription, resumeSubscription, cancelSubscription at once.
Transition(r) ==
    \E op \in {"pause", "resume", "cancel"} :
        /\ Ready(r, op)
        /\ WriteLicence(r, op)
        /\ UNCHANGED <<document, received, attempts, counter, activation>>
        /\ Commit(r, {job[r].licence})

\* changePlan drafts what the difference of the plans comes to: an invoice, a credit note
\* unless the licence was on trial, or nothing.
ChangePlan(r) ==
    LET l == job[r].licence IN
    /\ Ready(r, "changePlan")
    /\ WriteLicence(r, "changePlan")
    /\ \/ \E d \in Documents, p \in Periods, kind \in Kinds :
             /\ ~ Drafted(d)
             /\ kind = "credit_note" => seen[r].status # "trialing"
             /\ document' = [document EXCEPT ![d] = Draft(l, kind, "change", p)]
             /\ Commit(r, {l, d})
       \/ UNCHANGED document /\ Commit(r, {l})
    /\ UNCHANGED <<received, attempts, counter, activation>>

CreateInvoice(r) ==
    \E d \in Documents :
        /\ Ready(r, "createInvoice") /\ ~ Drafted(d)
        /\ document' = [document EXCEPT ![d] =
              Draft(job[r].licence, "invoice", "period", job[r].period)]
        /\ UNCHANGED <<licence, received, attempts, counter, activation>>
        /\ Commit(r, {d})

\* issueInvoice: the next number of its series, whatever number it may have by then.
Issue(r) ==
    LET d == job[r].document
        kind == document[d].kind
    IN  /\ Ready(r, "issue")
        /\ counter' = [counter EXCEPT ![kind] = @ + 1]
        /\ document' = [document EXCEPT ![d] =
              [@ EXCEPT !.status = "issued", !.number = counter'[kind], !.overdue = FALSE]]
        /\ UNCHANGED <<licence, received, attempts, activation>>
        /\ Commit(r, {d})

\* payInvoice: paid_amount becomes what was added up, and the status follows it.
Pay(r) ==
    LET d == job[r].document
        row == document[d]
    IN  /\ Ready(r, "pay")
        /\ received' = [received EXCEPT ![d] = @ + job[r].amount]
        /\ document' = [document EXCEPT ![d] =
              [row EXCEPT !.paid = sum[r],
                          !.status = IF sum[r] >= Total THEN "paid" ELSE row.status]]
        /\ UNCHANGED <<licence, attempts, counter, activation>>
        /\ Commit(r, {d})

Void(r) ==
    LET d == job[r].document IN
    /\ Ready(r, "void")
    /\ document' = [document EXCEPT ![d] = [@ EXCEPT !.status = "void", !.voided = TRUE]]
    /\ UNCHANGED <<licence, received, attempts, counter, activation>>
    /\ Commit(r, {d})

\* runDunning: one attempt more on each invoice that has not used up its attempts, by a
\* number that must be new (dunning_attempts_invoice_no_key).
RunDunning(r) ==
    LET due == {t \in found[r] : t[2] < MaxAttempts}
        dunned == {t[1] : t \in due}
        l == job[r].licence
        falls == due # {} /\ seen[r].status = "active"
    IN  /\ Ready(r, "runDunning")
        /\ \A t \in due : t[2] + 1 \notin attempts[t[1]]
        /\ attempts' = [d \in Documents |->
              attempts[d] \cup {t[2] + 1 : t \in {t \in due : t[1] = d}}]
        /\ IF falls THEN WriteLicence(r, "runDunning") ELSE UNCHANGED licence
        /\ UNCHANGED <<document, received, counter, activation>>
        /\ Commit(r, IF falls THEN dunned \cup {l} ELSE dunned)

\* The due date of an issued document passes.
FallDue(d) ==
    /\ Drafted(d) /\ document[d].status = "issued" /\ ~ document[d].overdue
    /\ document' = [document EXCEPT ![d].overdue = TRUE]
    /\ UNCHANGED <<licence, received, attempts, counter, activation, request, history>>

Finished ==
    /\ started = MaxRequests /\ \A r \in Requests : pc[r] = "idle"
    /\ UNCHANGED vars

Next ==
    \/ \E r \in Requests :
          \/ \E j \in Jobs :
                BeginGrant(r, j) \/ BeginReview(r, j) \/ ReadLicence(r, j) \/ ReadDocument(r, j)
          \/ FindRetired(r) \/ FindDuplicate(r) \/ FindOverdue(r) \/ AddUp(r)
          \/ Grant(r) \/ Reject(r) \/ Transition(r) \/ ChangePlan(r) \/ CreateInvoice(r)
          \/ Issue(r) \/ Pay(r) \/ Void(r) \/ RunDunning(r) \/ Fail(r)
    \/ \E d \in Documents : FallDue(d)
    \/ Finished

Spec == Init /\ [][Next]_vars

-----------------------------------------------------------------------------
(* Properties *)

TypeOK ==
    /\ licence \in [Licences -> Licence \cup {None}]
    /\ document \in [Documents -> Document \cup {None}]
    /\ received \in [Documents -> Nat]
    /\ attempts \in [Documents -> SUBSET (1..MaxAttempts)]
    /\ counter \in [Kinds -> Nat]
    /\ activation \in {"pending", "approved", "rejected"}
    /\ pc \in [Requests -> {"idle", "read", "ready"}]
    /\ job \in [Requests -> Jobs \cup {None}]
    /\ seen \in [Requests -> Licence \cup {None}]
    /\ found \in [Requests -> SUBSET (Licences \cup (Documents \X (0..MaxAttempts)))]
    /\ sum \in [Requests -> Nat] /\ started \in 0..MaxRequests
    /\ overtaken \subseteq Requests /\ late \subseteq Licences \cup Documents

Numbered(kind) == {d \in Documents : Drafted(d) /\ document[d].kind = kind /\ document[d].number # 0}

\* The numbers of a series tell its documents apart; and they have no gap ("a gap the
\* auditor asks about", issueInvoice) until an overtaken request writes a document.
NumbersInSeries ==
    \A k \in Kinds :
        /\ \A c, d \in Numbered(k) : c # d => document[c].number # document[d].number
        /\ late \cap Documents = {} => {document[d].number : d \in Numbered(k)} = 1..counter[k]

\* What a document says it was paid is what was received, and no more than it comes to; its
\* status follows from that, from its number and from its having been voided.
PaidAsReceived(d) ==
    LET row == document[d] IN
    /\ row.paid = received[d] /\ row.paid <= Total
    /\ row.status = "paid" <=> row.paid = Total
    /\ row.status = "void" <=> row.voided
    /\ row.status = "draft" => row.number = 0 /\ row.paid = 0
    /\ row.status \in {"issued", "paid"} => row.number # 0

\* "Preventing double collection is not an improvement but a condition" (payInvoice), "a paid
\* one is not voided" (voidInvoice): every document that no overtaken request has written
\* was paid what was received for it, once, and no two of them that createInvoice drafted
\* bill one period; a number is given once and the dunning attempts come in sequence under
\* every interleaving, the numbers without a gap as long as no document is so written.
DocumentsTellMoney ==
    /\ TypeOK
    /\ NumbersInSeries
    /\ \A d \in Documents : attempts[d] = 1..Cardinality(attempts[d])
    /\ \A d \in Documents \ late : Drafted(d) => PaidAsReceived(d)
    /\ \A c, d \in {d \in Documents \ late : Drafted(d)} :
          (/\ document[c].licence = document[d].licence /\ document[c].period = document[d].period
           /\ document[c].origin = "period" /\ document[d].origin = "period"
           /\ "void" \notin {document[c].status, document[d].status}) => c = d

\* "One live licence per customer" (grantSubscription, reviewActivation).  Of the licences no
\* overtaken request has written, at most one is live, and the canceled ones stay so: the
\* index alone does not see to it, for it leaves out a canceled licence that is revived.
OneLiveLicence ==
    \A l \in Licences \ late : LicensedNow(l) =>
        /\ licence[l].canceled <=> licence[l].status = "canceled"
        /\ licence[l].status \in LiveStatus =>
              \A k \in Licences \ (late \cup {l}) : LicensedNow(k) => licence[k].status = "canceled"
=============================================================================
