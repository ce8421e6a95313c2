---------------------------- MODULE EInvoiceChain ----------------------------
(***************************************************************************)
(* Filing posted sales invoices with the tax authority                     *)
(* (einvoicing.service.ts), next to the void of sales.service.ts.          *)
(*                                                                         *)
(* A submission is prepared in one transaction, which takes the next place *)
(* in the hash chain of its environment under a row lock, is filed with    *)
(* the authority outside any transaction, and has the answer recorded in   *)
(* another.  A retry files the document of an earlier submission again.    *)
(* The settings may be saved anew at any moment, so that every request     *)
(* finds any of them, and a request may crash between any two of its       *)
(* transactions.                                                           *)
(*                                                                         *)
(* A document is known by its hash, and the hash by the place of its       *)
(* submission in the table; XML, signatures and QR codes are left out.     *)
(* The authority is not part of the repository: it takes or refuses a      *)
(* document, and its answer may be lost on the way.  "accepted" stands for  *)
(* the statuses cleared and reported.                                       *)
(***************************************************************************)
EXTENDS Integers, Sequences, FiniteSets

CONSTANTS
    Requests,       \* request slots
    MaxRequests,    \* how many requests are made in all (a bound)
    Invoices,       \* posted sales invoices
    Environments,   \* the chains: simulation and production
    MaxSubs,        \* how many submissions there can be (a bound)
    Gates,          \* what may stop a filing, "open" if nothing does
    Ops,            \* the requests that may be made
    None

Submits == [kind : {"submit"}, invoice : Invoices, env : Environments \cup {None}]
Syncs == [kind : {"sync"}, list : Seq(Invoices)]
Voids == [kind : {"void"}, invoice : Invoices]
RetryOp == [kind |-> "retry"]

ASSUME ChainAssumption ==
    /\ MaxRequests \in Nat /\ MaxSubs \in Nat /\ None \notin Requests \cup Environments
    /\ Gates \subseteq {"NO_CREDENTIALS", "LINK_PAUSED", "NO_GATEWAY_CONFIGURED", "open"}
    /\ \A o \in Ops : o \in Submits \/ o \in Syncs \/ o \in Voids \/ o = RetryOp

Genesis == 0

VARIABLES
    invoice,     \* status and zatca_status of each invoice
    subs,        \* rows of einvoice_submissions, in the order they were inserted
    chain,       \* einvoice_chain: last hash and counter of each environment
    taken,       \* the authority: the documents it has, with their environment
    lock,        \* the request that holds the chain row of an environment
    pc, op,
    todo,        \* invoices a submission or a sync has still to go through
    ctx,         \* the filing context it read
    slot,        \* the chain row it read
    row,         \* the submission it files
    answer,
    started,     \* requests made so far
    overtaken,   \* history: requests another has committed past since they last read
    stale,       \* history: invoices on which an overtaken request has committed
    blurred      \* history: invoices with a submission retried or an answer lost

tables == <<invoice, subs, chain>>
request == <<pc, op, todo, ctx, slot, row, answer>>
history == <<overtaken, stale, blurred>>
vars == <<tables, taken, lock, request, started, history>>

-----------------------------------------------------------------------------

\* A filing context: the environment and what stops a filing there.
Contexts == [env : Environments, gate : Gates]

SubsOf(i) == {s \in DOMAIN subs : subs[s].invoice = i}
HasAccepted(i) == \E s \in SubsOf(i) : subs[s].status = "accepted"
TakenOf(i) == {s \in SubsOf(i) : \E e \in Environments : <<e, subs[s].hash>> \in taken}

\* The invoice a request is at.
At(r) == IF op[r].kind = "void" THEN op[r].invoice
         ELSE IF row[r] # 0 THEN subs[row[r]].invoice ELSE Head(todo[r])

Goto(r, label) == pc' = [pc EXCEPT ![r] = label]

Init ==
    /\ invoice = [i \in Invoices |-> [status |-> "posted", zatca |-> "none"]]
    /\ subs = <<>>
    /\ chain = [e \in Environments |-> [last |-> Genesis, counter |-> 0]]
    /\ taken = {}
    /\ lock = [e \in Environments |-> None]
    /\ pc = [r \in Requests |-> "idle"]
    /\ op = [r \in Requests |-> None]
    /\ todo = [r \in Requests |-> <<>>]
    /\ ctx = [r \in Requests |-> None]
    /\ slot = [r \in Requests |-> None]
    /\ row = [r \in Requests |-> 0]
    /\ answer = [r \in Requests |-> "none"]
    /\ started = 0
    /\ overtaken = {} /\ stale = {} /\ blurred = {}

\* A commit that writes on invoice i overtakes whoever is at it.
Commits(r, i) ==
    /\ overtaken' = (overtaken \cup {u \in Requests \ {r} : pc[u] # "idle" /\ At(u) = i}) \ {r}
    /\ stale' = stale \cup IF r \in overtaken THEN {i} ELSE {}

\* What is left of a list once its first invoice is done with.
Rest(r) == IF todo[r] = <<>> THEN <<>> ELSE Tail(todo[r])

\* The request goes on with the rest of its list, or is over.
Ends(r, rest) ==
    /\ Goto(r, IF rest = <<>> THEN "idle" ELSE "context")
    /\ op' = IF rest = <<>> THEN [op EXCEPT ![r] = None] ELSE op
    /\ todo' = [todo EXCEPT ![r] = rest]
    /\ ctx' = [ctx EXCEPT ![r] = None]
    /\ slot' = [slot EXCEPT ![r] = None]
    /\ row' = [row EXCEPT ![r] = 0]
    /\ answer' = [answer EXCEPT ![r] = "none"]
    /\ lock' = [e \in Environments |-> IF lock[e] = r THEN None ELSE lock[e]]

-----------------------------------------------------------------------------
(* submitSalesInvoice, once or for each invoice of a sync *)

Start(r, o) ==
    /\ pc[r] = "idle" /\ started < MaxRequests /\ started' = started + 1
    /\ o.kind = "sync" => o.list # <<>>
    /\ o.kind \in {"submit", "sync"}
    /\ op' = [op EXCEPT ![r] = o]
    /\ todo' = [todo EXCEPT ![r] = IF o.kind = "submit" THEN <<o.invoice>> ELSE o.list]
    /\ Goto(r, "context")
    /\ UNCHANGED <<tables, taken, lock, ctx, slot, row, answer, history>>

\* filingContext: the environment asked for, or the saved one; a retry always takes the
\* saved one.
Context(r) ==
    /\ pc[r] = "context"
    /\ \E saved \in Contexts :
          /\ op[r].kind = "submit" => op[r].env \in {None, saved.env}
          /\ ctx' = [ctx EXCEPT ![r] = saved]
    /\ Goto(r, IF row[r] = 0 THEN "check" ELSE "file")
    /\ UNCHANGED <<tables, taken, lock, op, todo, slot, row, answer, started, history>>

\* Fault: an invoice the authority has is filed again.
CheckPostedOnly(r) ==
    /\ pc[r] = "check" /\ invoice[Head(todo[r])].status = "posted"
    /\ Goto(r, "reserve")
    /\ overtaken' = overtaken \ {r}
    /\ UNCHANGED <<tables, taken, lock, op, todo, ctx, slot, row, answer, started, stale, blurred>>

\* Only a posted invoice none of whose submissions was accepted; neither is locked.
Check(r) ==
    /\ pc[r] = "check"
    /\ invoice[Head(todo[r])].status = "posted" /\ ~ HasAccepted(Head(todo[r]))
    /\ Goto(r, "reserve")
    /\ overtaken' = overtaken \ {r}
    /\ UNCHANGED <<tables, taken, lock, op, todo, ctx, slot, row, answer, started, stale, blurred>>

\* Fault: the chain row is read without FOR UPDATE.
ReserveUnlocked(r) ==
    /\ pc[r] = "reserve"
    /\ slot' = [slot EXCEPT ![r] = chain[ctx[r].env]]
    /\ Goto(r, "prepare")
    /\ UNCHANGED <<tables, taken, lock, op, todo, ctx, row, answer, started, history>>

\* nextChainSlot: the chain row is held to the end of the transaction.
Reserve(r) ==
    /\ pc[r] = "reserve" /\ lock[ctx[r].env] = None
    /\ lock' = [lock EXCEPT ![ctx[r].env] = r]
    /\ slot' = [slot EXCEPT ![r] = chain[ctx[r].env]]
    /\ Goto(r, "prepare")
    /\ UNCHANGED <<tables, taken, op, todo, ctx, row, answer, started, history>>

\* The document is built on the last hash and moves the chain on, the submission is
\* inserted, and the invoice carries its status, whatever has become of it.
Prepare(r) ==
    LET i == Head(todo[r])
        s == Len(subs) + 1
        status == IF ctx[r].gate = "NO_CREDENTIALS" THEN "prepared" ELSE "signed"
    IN /\ pc[r] = "prepare" /\ Len(subs) < MaxSubs
       /\ subs' = Append(subs, [invoice |-> i, hash |-> s, previous |-> slot[r].last,
                                counter |-> slot[r].counter + 1, status |-> status,
                                env |-> ctx[r].env, born |-> ctx[r].env])
       /\ chain' = [chain EXCEPT ![ctx[r].env] = [last |-> s, counter |-> slot[r].counter + 1]]
       /\ invoice' = [invoice EXCEPT ![i].zatca = status]
       /\ lock' = [e \in Environments |-> IF lock[e] = r THEN None ELSE lock[e]]
       /\ row' = [row EXCEPT ![r] = s]
       /\ Goto(r, "file")
       /\ Commits(r, i)
       /\ slot' = [slot EXCEPT ![r] = None]
       /\ UNCHANGED <<taken, op, todo, ctx, answer, started, blurred>>

-----------------------------------------------------------------------------
(* fileWithAuthority *)

\* Without credentials, with the link paused or without a gateway nothing leaves, and the
\* submission keeps its status.
Stop(r) ==
    /\ pc[r] = "file" /\ ctx[r].gate # "open"
    /\ Ends(r, Rest(r))
    /\ overtaken' = overtaken \ {r}
    /\ UNCHANGED <<tables, taken, started, stale, blurred>>

\* The authority takes the document or refuses it, and has it for good; a call that fails
\* counts as refused, whatever the authority did.
File(r) ==
    LET document == <<ctx[r].env, subs[row[r]].hash>>
    IN /\ pc[r] = "file" /\ ctx[r].gate = "open"
       /\ \E takes \in BOOLEAN, says \in {"accepted", "failed"} :
             /\ document \in taken => takes
             /\ says = "accepted" => takes
             /\ taken' = IF takes THEN taken \cup {document} ELSE taken
             /\ answer' = [answer EXCEPT ![r] = says]
             /\ blurred' = blurred \cup IF takes /\ says = "failed" THEN {At(r)} ELSE {}
       /\ Goto(r, "answered")
       /\ UNCHANGED <<tables, lock, op, todo, ctx, slot, row, started, overtaken, stale>>

\* recordOutcome: the status and the environment of the filing go over those of the
\* submission, and the status over that of the invoice, whatever they are by now.
Record(r) ==
    /\ pc[r] = "answered"
    /\ subs' = [subs EXCEPT ![row[r]].status = answer[r], ![row[r]].env = ctx[r].env]
    /\ invoice' = [invoice EXCEPT ![At(r)].zatca = answer[r]]
    /\ Commits(r, At(r))
    /\ Ends(r, Rest(r))
    /\ UNCHANGED <<chain, taken, started, blurred>>

-----------------------------------------------------------------------------
(* retry and void *)

\* Fault: an accepted submission can be filed again.
RetryAny(r, s) ==
    /\ pc[r] = "idle" /\ started < MaxRequests /\ started' = started + 1
    /\ op' = [op EXCEPT ![r] = RetryOp]
    /\ row' = [row EXCEPT ![r] = s]
    /\ Goto(r, "context")
    /\ blurred' = blurred \cup {subs[s].invoice}
    /\ UNCHANGED <<tables, taken, lock, todo, ctx, slot, answer, overtaken, stale>>

\* A submission that was not accepted is filed again as it is, in the environment the
\* settings name by now; its invoice and the other submissions of it are not looked at.
Retry(r, s) ==
    /\ pc[r] = "idle" /\ started < MaxRequests /\ started' = started + 1
    /\ subs[s].status # "accepted"
    /\ op' = [op EXCEPT ![r] = RetryOp]
    /\ row' = [row EXCEPT ![r] = s]
    /\ Goto(r, "context")
    /\ blurred' = blurred \cup {subs[s].invoice}
    /\ UNCHANGED <<tables, taken, lock, todo, ctx, slot, answer, overtaken, stale>>

\* An invoice that was signed or accepted is sealed.
Voidable(i) ==
    invoice[i].status = "posted" /\ invoice[i].zatca \notin {"signed", "accepted"}

\* sales.void reads the invoice in one transaction ...
VoidRead(r, o) ==
    /\ pc[r] = "idle" /\ started < MaxRequests /\ started' = started + 1
    /\ o.kind = "void" /\ Voidable(o.invoice)
    /\ op' = [op EXCEPT ![r] = o]
    /\ Goto(r, "void")
    /\ UNCHANGED <<tables, taken, lock, todo, ctx, slot, row, answer, history>>

\* ... and voids it in another, if it is still posted.
VoidCommit(r) ==
    LET i == op[r].invoice
    IN /\ pc[r] = "void"
       /\ invoice' = IF invoice[i].status = "posted"
                     THEN [invoice EXCEPT ![i] = [status |-> "voided", zatca |-> "voided"]]
                     ELSE invoice
       /\ Commits(r, i)
       /\ Ends(r, <<>>)
       /\ UNCHANGED <<subs, chain, taken, started, blurred>>

\* A refusal or an error: the open transaction rolls back, an answer not yet recorded is
\* lost, and a sync goes on with its next invoice.  A crash ends the sync as well.
Fail(r) ==
    /\ pc[r] # "idle"
    /\ \E rest \in {Rest(r), <<>>} : Ends(r, rest)
    /\ overtaken' = overtaken \ {r}
    /\ blurred' = blurred \cup IF answer[r] = "accepted" THEN {At(r)} ELSE {}
    /\ UNCHANGED <<tables, taken, started, stale>>

Next ==
    \E r \in Requests :
          \/ \E o \in Ops : Start(r, o) \/ VoidRead(r, o)
          \/ RetryOp \in Ops /\ \E s \in DOMAIN subs : Retry(r, s)
          \/ Context(r) \/ Check(r) \/ Reserve(r) \/ Prepare(r)
          \/ Stop(r) \/ File(r) \/ Record(r) \/ VoidCommit(r) \/ Fail(r)

Spec == Init /\ [][Next]_vars

-----------------------------------------------------------------------------
(* Properties *)

Slots == [last : Nat, counter : Nat]
Submissions == [invoice : Invoices, hash : Nat, previous : Nat, counter : Nat,
                status : {"prepared", "signed", "accepted", "failed"},
                env : Environments, born : Environments]

TypeOK ==
    /\ invoice \in [Invoices -> [status : {"posted", "voided"},
                     zatca : {"none", "prepared", "signed", "accepted", "failed", "voided"}]]
    /\ subs \in Seq(Submissions)
    /\ chain \in [Environments -> Slots]
    /\ taken \in SUBSET (Environments \X Nat)
    /\ lock \in [Environments -> Requests \cup {None}]
    /\ pc \in [Requests -> {"idle", "context", "check", "reserve", "prepare", "file",
                             "answered", "void"}]
    /\ op \in [Requests -> Ops \cup {None}] /\ todo \in [Requests -> Seq(Invoices)]
    /\ ctx \in [Requests -> Contexts \cup {None}] /\ slot \in [Requests -> Slots \cup {None}]
    /\ row \in [Requests -> 0..Len(subs)]
    /\ answer \in [Requests -> {"none", "accepted", "failed"}]
    /\ started \in 0..MaxRequests
    /\ overtaken \in SUBSET Requests
    /\ stale \in SUBSET Invoices /\ blurred \in SUBSET Invoices

\* The documents built for an environment in the order of their submissions, as its chain
\* sees them: where a retry files one in another environment its place stays here.
Born(e, s) == {t \in 1..s : subs[t].born = e}
Count(e) == Cardinality(Born(e, Len(subs)))
Ranked(e, n) == {s \in 1..Len(subs) : subs[s].born = e /\ Cardinality(Born(e, s)) = n}
Nth(e, n) == CHOOSE s \in Ranked(e, n) : TRUE
Document(s) ==
    [hash |-> subs[s].hash, counter |-> subs[s].counter, previous |-> subs[s].previous]
DocumentsOf(e) == [n \in 1..Count(e) |-> Document(Nth(e, n))]

H == INSTANCE HashChain WITH
        Hashes <- 1..MaxSubs, log <- [e \in Environments |-> DocumentsOf(e)]

\* In each environment the documents form one unbroken chain, through submissions at the
\* same moment, failures, retries and changes of settings: counters without gap or double
\* and every document on the hash of the one before it.
ChainSpec == H!Spec

\* An invoice about which nothing is in doubt: no submission of it was retried and no
\* answer lost, and no request went on, or is going on, from what another has changed.
Clear(i) == i \notin stale \cup blurred /\ \A r \in overtaken : At(r) # i

\* Where nothing is in doubt, the authority has one document of an invoice at most, none
\* of a voided one, and the invoice says it is accepted exactly if the authority has it,
\* once its answer is recorded.
FiledOnce ==
    \A i \in Invoices : Clear(i) =>
        /\ Cardinality(TakenOf(i)) <= 1
        /\ invoice[i].status = "voided" => TakenOf(i) = {}
        /\ invoice[i].zatca = "accepted" => TakenOf(i) # {}
        /\ TakenOf(i) # {} => \/ invoice[i].zatca = "accepted"
                              \/ \E r \in Requests : answer[r] = "accepted" /\ At(r) = i

\* A submission the authority has accepted is never turned into a failed one, nor moved to
\* another environment, but by the late answer of a request that read it before it was
\* accepted: no such answer is checked against what the row says by then.
AcceptedStays ==
    [][\A s \in DOMAIN subs : subs[s].status = "accepted" =>
          \/ subs'[s] = subs[s]
          \/ \E r \in overtaken : row[r] = s /\ pc[r] = "answered"]_vars
=============================================================================
