------------------------ MODULE PlatformBillingProofs ------------------------
(***************************************************************************)
(* Proofs about PlatformBilling, for any number of requests, licences,     *)
(* documents, periods and attempts: at most one licence is live, and the   *)
(* documents tell the money that was received.                             *)
(***************************************************************************)
EXTENDS PlatformBilling, FiniteSetTheorems, TLAPS

-----------------------------------------------------------------------------
(* The inductive invariant *)

DocumentOps == {"issue", "void", "pay"}
Busy(r) == pc[r] # "idle"

\* What a request works with is what it was asked for and what it can have read.
JobInv == \A r \in Requests : Busy(r) =>
    /\ job[r] \in Jobs
    /\ job[r].op \in LicenceOps => seen[r] \in Licence /\ LicensedNow(job[r].licence)
    /\ job[r].op \in DocumentOps => Drafted(job[r].document)
    /\ pc[r] = "ready" /\ job[r].op \in {"grant", "approve"} =>
          found[r] \subseteq {l \in Licences : LicensedNow(l)}

\* A request that nobody overtook still knows the licence, or the document, it has read.
KnowsLicence(r) ==
    licence[job[r].licence] = seen[r] /\ seen[r].status \in AllowedFrom(job[r].op)

KnowsDocument(r) == LET d == job[r].document IN
    /\ Drafted(d) /\ Accepts(job[r], document[d])
    /\ pc[r] = "ready" /\ job[r].op = "pay" => sum[r] = received[d] + job[r].amount

\* And there is still no document for the period it found free.
PeriodIsFree(r) == \A d \in Documents : Drafted(d) =>
    ~ (/\ document[d].licence = job[r].licence /\ document[d].period = job[r].period
       /\ document[d].status # "void")

ReadInv == \A r \in Requests \ overtaken : Busy(r) =>
    /\ job[r].op \in LicenceOps => KnowsLicence(r)
    /\ job[r].op \in DocumentOps => KnowsDocument(r)
    /\ pc[r] = "ready" /\ job[r].op = "createInvoice" => PeriodIsFree(r)

\* canceled_at tells the status, but of licences an overtaken request has written.
CanceledTells == \A l \in Licences \ late :
    LicensedNow(l) => (licence[l].canceled <=> licence[l].status = "canceled")

\* Attempts are numbered without a gap, and a dunning run has counted at most those there are.
AttemptsInv == \A d \in Documents : \E n \in 0..MaxAttempts : attempts[d] = 1..n

DunningInv == \A r \in Requests : pc[r] = "ready" /\ job[r].op = "runDunning" =>
    \A t \in found[r] : /\ t \in Documents \X (0..MaxAttempts)
                        /\ t[2] <= Cardinality(attempts[t[1]])

\* A series has given out the numbers up to its counter, none of them twice.
NumbersInv == \A d \in Documents : Drafted(d) =>
    /\ document[d].number <= counter[document[d].kind]
    /\ \A c \in Documents \ {d} :
          Drafted(c) /\ document[c].kind = document[d].kind /\ document[d].number # 0 =>
              document[c].number # document[d].number

SeriesInv == late \cap Documents = {} =>
    \A k \in Kinds : \A n \in 1..counter[k] :
        \E d \in Documents : Drafted(d) /\ document[d].kind = k /\ document[d].number = n

MoneyInv ==
    /\ \A d \in Documents \ late : Drafted(d) => PaidAsReceived(d)
    /\ \A d \in Documents : ~ Drafted(d) => received[d] = 0

PeriodsInv == \A c, d \in Documents \ late :
    (/\ Drafted(c) /\ Drafted(d)
     /\ document[c].licence = document[d].licence /\ document[c].period = document[d].period
     /\ document[c].origin = "period" /\ document[d].origin = "period"
     /\ "void" \notin {document[c].status, document[d].status}) => c = d

LicencesInv == OneLive(licence) /\ CanceledTells
DocumentsInv == NumbersInv /\ SeriesInv /\ MoneyInv /\ PeriodsInv

IInv ==
    /\ TypeOK /\ JobInv /\ ReadInv
    /\ LicencesInv
    /\ AttemptsInv /\ DunningInv
    /\ DocumentsInv

-----------------------------------------------------------------------------
(* Types *)

LEMMA Bounds == MaxRequests \in Nat /\ Total \in Nat \ {0} /\ MaxAttempts \in Nat
  BY BillingAssumption

\* What a job says, whichever it is.
LEMMA JobShapes ==
    ASSUME NEW j \in Jobs
    PROVE  /\ j.op \in {"grant", "approve", "reject"} \cup LicenceOps \cup DocumentOps
           /\ j.op \in LicenceOps => j.licence \in Licences
           /\ j.op = "createInvoice" => j.period \in Periods
           /\ j.op \in DocumentOps => j.document \in Documents
           /\ j.op = "pay" => j.amount \in 1..Total
           /\ j.op = "grant" => j.trial \in BOOLEAN
<1>1. j \in JobType
  BY BillingAssumption
<1> USE DEF LicenceOps, DocumentOps
<1>2. CASE j \in [op : {"grant"}, trial : BOOLEAN]
  BY <1>2
<1>3. CASE j \in [op : {"approve", "reject"}]
  BY <1>3
<1>4. CASE j \in [op : LicenceOps \ {"createInvoice"}, licence : Licences]
  BY <1>4
<1>5. CASE j \in [op : {"createInvoice"}, licence : Licences, period : Periods]
  BY <1>5
<1>6. CASE j \in [op : {"issue", "void"}, document : Documents]
  BY <1>6
<1>7. CASE j \in [op : {"pay"}, document : Documents, amount : 1..Total]
  BY <1>7
<1> QED
  BY <1>1, <1>2, <1>3, <1>4, <1>5, <1>6, <1>7 DEF JobType

\* None is no row and no job.
LEMMA NoneIsNothing == None \notin Licence /\ None \notin Document /\ None \notin Jobs
  BY BillingAssumption

\* There are as many attempts as the last of them says.
LEMMA CountOfAttempts ==
    ASSUME NEW n \in Nat
    PROVE  Cardinality(1..n) = n
  BY FS_Interval

LEMMA AttemptsCounted ==
    ASSUME AttemptsInv, NEW d \in Documents
    PROVE  /\ Cardinality(attempts[d]) \in 0..MaxAttempts
           /\ attempts[d] = 1..Cardinality(attempts[d])
<1>1. PICK n \in 0..MaxAttempts : attempts[d] = 1..n
  BY DEF AttemptsInv
<1>2. Cardinality(1..n) = n
  BY <1>1, Bounds, CountOfAttempts
<1> QED
  BY <1>1, <1>2

LEMMA InvInit == Init => IInv
<1> SUFFICES ASSUME Init PROVE IInv
  OBVIOUS
<1>1. TypeOK
  BY Bounds DEF Init, TypeOK, Kinds
<1>2. JobInv /\ ReadInv /\ DunningInv
  BY DEF Init, JobInv, ReadInv, DunningInv, Busy
<1>3. LicencesInv
  BY DEF Init, LicencesInv, OneLive, CanceledTells, LicensedNow
<1>4. AttemptsInv
  <2>1. 1..0 = {} /\ 0 \in 0..MaxAttempts
    BY Bounds
  <2> QED
    BY <2>1 DEF Init, AttemptsInv
<1>5. DocumentsInv
  BY DEF Init, DocumentsInv, NumbersInv, SeriesInv, MoneyInv, PeriodsInv, Drafted, Kinds
<1> QED
  BY <1>1, <1>2, <1>3, <1>4, <1>5 DEF IInv

-----------------------------------------------------------------------------
(* Steps that write no table *)

\* Such a step leaves every table as it is and marks nobody; the other requests keep what
\* they have read.
Quiet(r) ==
    /\ UNCHANGED tables /\ late' = late /\ overtaken' \in {overtaken, overtaken \ {r}}
    /\ \A u \in Requests \ {r} :
          /\ pc'[u] = pc[u] /\ job'[u] = job[u] /\ seen'[u] = seen[u]
          /\ found'[u] = found[u] /\ sum'[u] = sum[u]

\* It keeps the invariant if its own request works with what it should, after it.
LEMMA InvQuiet ==
    ASSUME IInv, NEW r \in Requests, Quiet(r), TypeOK',
           Busy(r)' => /\ job'[r] \in Jobs
                       /\ job'[r].op \in LicenceOps =>
                             seen'[r] \in Licence /\ LicensedNow(job'[r].licence)
                       /\ job'[r].op \in DocumentOps => Drafted(job'[r].document)
                       /\ pc'[r] = "ready" /\ job'[r].op \in {"grant", "approve"} =>
                             found'[r] \subseteq {l \in Licences : LicensedNow(l)},
           r \notin overtaken' => (Busy(r)' =>
                /\ job'[r].op \in LicenceOps => KnowsLicence(r)'
                /\ job'[r].op \in DocumentOps => KnowsDocument(r)'
                /\ pc'[r] = "ready" /\ job'[r].op = "createInvoice" => PeriodIsFree(r)'),
           pc'[r] = "ready" /\ job'[r].op = "runDunning" =>
                \A t \in found'[r] : /\ t \in Documents \X (0..MaxAttempts)
                                     /\ t[2] <= Cardinality(attempts[t[1]])
    PROVE  IInv'
<1>1. JobInv'
  BY DEF IInv, JobInv, Quiet, tables, Busy, LicensedNow, Drafted
<1>2. ReadInv'
  <2> SUFFICES ASSUME NEW u \in Requests \ overtaken', Busy(u)'
               PROVE  /\ job'[u].op \in LicenceOps => KnowsLicence(u)'
                      /\ job'[u].op \in DocumentOps => KnowsDocument(u)'
                      /\ pc'[u] = "ready" /\ job'[u].op = "createInvoice" => PeriodIsFree(u)'
    BY DEF ReadInv
  <2>1. CASE u # r
    <3>1. u \notin overtaken /\ Busy(u)
      BY <2>1 DEF Quiet, Busy
    <3> QED
      BY <2>1, <3>1 DEF IInv, ReadInv, Quiet, tables, KnowsLicence, KnowsDocument, PeriodIsFree, Drafted
  <2> QED
    BY <2>1
<1>3. LicencesInv' /\ AttemptsInv' /\ DocumentsInv'
  BY DEF IInv, Quiet, tables, LicencesInv, CanceledTells, LicensedNow, OneLive, AttemptsInv,
     DocumentsInv, NumbersInv, SeriesInv, MoneyInv, PeriodsInv, PaidAsReceived, Drafted
<1>4. DunningInv'
  BY DEF IInv, DunningInv, Quiet, tables
<1> QED
  BY <1>1, <1>2, <1>3, <1>4 DEF IInv

LEMMA BeginTypes ==
    ASSUME TypeOK, NEW r \in Requests, NEW j \in Jobs, NEW stage \in {"read", "ready"},
           Begin(r, j, stage), seen' \in [Requests -> Licence \cup {None}]
    PROVE  TypeOK'
<1>1. /\ started' \in 0..MaxRequests
      /\ job' \in [Requests -> Jobs \cup {None}]
      /\ pc' \in [Requests -> {"idle", "read", "ready"}]
  BY Bounds DEF TypeOK, Begin
<1>2. /\ UNCHANGED <<licence, document, received, attempts, counter, activation>>
      /\ UNCHANGED <<found, sum, overtaken, late>>
  BY DEF Begin, tables, history
<1> QED
  BY <1>1, <1>2 DEF TypeOK

LEMMA InvBeginGrant ==
    ASSUME IInv, NEW r \in Requests, NEW j \in Jobs, BeginGrant(r, j) \/ BeginReview(r, j)
    PROVE  IInv'
<1>1. PICK stage \in {"read", "ready"} : Begin(r, j, stage) /\ (stage = "ready" => j.op = "reject")
  BY DEF BeginGrant, BeginReview
<1>2. j.op \in {"grant", "approve", "reject"} /\ seen' = seen
  BY DEF BeginGrant, BeginReview
<1>3. TypeOK'
  BY <1>1, <1>2, BeginTypes DEF IInv, TypeOK
<1>4. Quiet(r) /\ job'[r] = j /\ pc'[r] = stage
  BY <1>1, <1>2 DEF Begin, Quiet, history, IInv, TypeOK
<1> QED
  BY <1>1, <1>2, <1>3, <1>4, InvQuiet DEF LicenceOps, DocumentOps

LEMMA InvReadLicence ==
    ASSUME IInv, NEW r \in Requests, NEW j \in Jobs, ReadLicence(r, j)
    PROVE  IInv'
<1>1. PICK stage \in {"read", "ready"} :
          Begin(r, j, stage) /\ (stage = "ready" => j.op \notin {"createInvoice", "runDunning"})
  BY DEF ReadLicence
<1>2. /\ j.op \in LicenceOps /\ j.licence \in Licences
      /\ licence[j.licence] \in Licence /\ LicensedNow(j.licence)
      /\ seen' = [seen EXCEPT ![r] = licence[j.licence]]
      /\ licence[j.licence].status \in AllowedFrom(j.op)
  BY JobShapes DEF ReadLicence, LicensedNow, IInv, TypeOK
<1>3. TypeOK'
  BY <1>1, <1>2, BeginTypes DEF IInv, TypeOK
<1>4. Quiet(r) /\ job'[r] = j /\ pc'[r] = stage /\ seen'[r] = licence[j.licence]
  BY <1>1, <1>2 DEF Begin, Quiet, history, IInv, TypeOK
<1>5. KnowsLicence(r)'
  BY <1>2, <1>4 DEF KnowsLicence, Quiet, tables, AllowedFrom
<1> QED
  BY <1>1, <1>2, <1>3, <1>4, <1>5, InvQuiet DEF LicenceOps, DocumentOps

LEMMA InvReadDocument ==
    ASSUME IInv, NEW r \in Requests, NEW j \in Jobs, ReadDocument(r, j)
    PROVE  IInv'
<1>1. PICK stage \in {"read", "ready"} :
          Begin(r, j, stage) /\ (stage = "ready" => j.op # "pay")
  BY DEF ReadDocument
<1>2. j.op \in DocumentOps /\ seen' = seen /\ Drafted(j.document)
  BY DEF ReadDocument, DocumentOps
<1>3. TypeOK'
  BY <1>1, <1>2, BeginTypes DEF IInv, TypeOK
<1>4. Quiet(r) /\ job'[r] = j /\ pc'[r] = stage
  BY <1>1, <1>2 DEF Begin, Quiet, history, IInv, TypeOK
<1>5. KnowsDocument(r)'
  BY <1>1, <1>4 DEF KnowsDocument, Quiet, tables, ReadDocument, Drafted
<1> QED
  BY <1>2, <1>3, <1>4, <1>5, InvQuiet DEF LicenceOps, DocumentOps

LEMMA FindsTypes ==
    ASSUME TypeOK, NEW r \in Requests,
           NEW rows \in SUBSET (Licences \cup (Documents \X (0..MaxAttempts))), Finds(r, rows)
    PROVE  TypeOK'
<1>1. /\ found' \in [Requests -> SUBSET (Licences \cup (Documents \X (0..MaxAttempts)))]
      /\ pc' \in [Requests -> {"idle", "read", "ready"}]
  BY DEF TypeOK, Finds
<1>2. /\ UNCHANGED <<licence, document, received, attempts, counter, activation>>
      /\ UNCHANGED <<job, seen, sum, started, overtaken, late>>
  BY DEF Finds, tables, history
<1> QED
  BY <1>1, <1>2 DEF TypeOK

LEMMA InvFinds ==
    ASSUME IInv, NEW r \in Requests,
           FindRetired(r) \/ FindDuplicate(r) \/ FindOverdue(r)
    PROVE  IInv'
<1> DEFINE overdue == {d \in Documents : /\ Drafted(d) /\ document[d].licence = job[r].licence
                                         /\ document[d].kind = "invoice"
                                         /\ document[d].status = "issued" /\ document[d].overdue}
<1>1. PICK rows \in SUBSET (Licences \cup (Documents \X (0..MaxAttempts))) :
          /\ Finds(r, rows) /\ pc[r] = "read"
          /\ job[r].op = "runDunning" => rows = {<<d, Cardinality(attempts[d])>> : d \in overdue}
          /\ job[r].op \in {"grant", "approve"} => rows \subseteq {l \in Licences : LicensedNow(l)}
  <2>1. {<<d, Cardinality(attempts[d])>> : d \in overdue} \subseteq Documents \X (0..MaxAttempts)
    BY AttemptsCounted DEF IInv
  <2>2. CASE FindRetired(r)
    BY <2>2 DEF FindRetired, AtSecond
  <2>3. CASE FindDuplicate(r)
    BY <2>3 DEF FindDuplicate, AtSecond
  <2>4. CASE FindOverdue(r)
    BY <2>1, <2>4 DEF FindOverdue, AtSecond
  <2> QED
    BY <2>2, <2>3, <2>4
<1>2. TypeOK'
  BY <1>1, FindsTypes DEF IInv
<1>3. /\ Quiet(r) /\ job' = job /\ seen' = seen /\ overtaken' = overtaken
      /\ pc'[r] = "ready" /\ found'[r] = rows
  BY <1>1 DEF Finds, Quiet, history, IInv, TypeOK
<1>4. /\ Busy(r) /\ job[r] \in Jobs
      /\ job[r].op \in LicenceOps => seen[r] \in Licence /\ LicensedNow(job[r].licence)
  BY <1>1 DEF IInv, JobInv, Busy
<1>5. r \notin overtaken =>
         /\ job[r].op \in LicenceOps => KnowsLicence(r)
         /\ job[r].op \in DocumentOps => KnowsDocument(r)
  BY <1>4 DEF IInv, ReadInv
<1>6. job[r].op \notin DocumentOps
  BY DEF FindRetired, FindDuplicate, FindOverdue, AtSecond, DocumentOps
<1>7. job[r].op = "createInvoice" => PeriodIsFree(r)'
  BY <1>3 DEF FindRetired, FindDuplicate, FindOverdue, AtSecond, PeriodIsFree, Quiet, tables, Drafted
<1>8. KnowsLicence(r) => KnowsLicence(r)'
  BY <1>3 DEF KnowsLicence, Quiet, tables
<1>9. job[r].op = "runDunning" =>
          \A t \in rows : t \in Documents \X (0..MaxAttempts) /\ t[2] <= Cardinality(attempts[t[1]])
  BY <1>1, AttemptsCounted DEF IInv
<1>10. r \notin overtaken' => (Busy(r)' =>
          /\ job'[r].op \in LicenceOps => KnowsLicence(r)'
          /\ job'[r].op \in DocumentOps => KnowsDocument(r)'
          /\ pc'[r] = "ready" /\ job'[r].op = "createInvoice" => PeriodIsFree(r)')
  BY <1>3, <1>5, <1>6, <1>7, <1>8
<1> QED
  BY <1>1, <1>2, <1>3, <1>4, <1>6, <1>9, <1>10, InvQuiet

LEMMA InvAddUp ==
    ASSUME IInv, NEW r \in Requests, AddUp(r)
    PROVE  IInv'
<1>1. Busy(r) /\ job[r] \in Jobs /\ job[r].op = "pay"
  BY DEF AddUp, AtSecond, IInv, JobInv, Busy
<1>2. job[r].document \in Documents /\ job[r].amount \in Nat /\ Drafted(job[r].document)
  BY <1>1, JobShapes, Bounds DEF DocumentOps, IInv, JobInv
<1>3. TypeOK'
  BY <1>2 DEF AddUp, IInv, TypeOK, tables, history
<1>4. /\ Quiet(r) /\ job' = job /\ seen' = seen /\ overtaken' = overtaken /\ pc'[r] = "ready"
      /\ sum'[r] = received[job[r].document] + job[r].amount
  BY DEF AddUp, Quiet, history, IInv, TypeOK
<1>5. r \notin overtaken => KnowsDocument(r)
  BY <1>1 DEF IInv, ReadInv, DocumentOps
<1>6. r \notin overtaken => KnowsDocument(r)'
  BY <1>4, <1>5 DEF KnowsDocument, Quiet, tables, Drafted
<1> QED
  BY <1>1, <1>2, <1>3, <1>4, <1>6, InvQuiet DEF LicenceOps

LEMMA InvFail ==
    ASSUME IInv, NEW r \in Requests, Fail(r)
    PROVE  IInv'
<1>1. TypeOK'
  BY DEF Fail, End, IInv, TypeOK, tables
<1>2. Quiet(r) /\ pc'[r] = "idle"
  BY DEF Fail, End, Quiet, IInv, TypeOK
<1> QED
  BY <1>1, <1>2, InvQuiet DEF Busy

-----------------------------------------------------------------------------
(* Commits *)

\* What every commit does: its request is idle, the others keep what they have read, and
\* those that work from one of its rows are overtaken.
LEMMA CommitFacts ==
    ASSUME TypeOK, NEW r \in Requests, NEW rows, Commit(r, rows)
    PROVE  /\ ~ Busy(r)'
           /\ \A u \in Requests \ {r} :
                 /\ pc'[u] = pc[u] /\ job'[u] = job[u] /\ seen'[u] = seen[u]
                 /\ found'[u] = found[u] /\ sum'[u] = sum[u]
           /\ \A u \in Requests \ {r} :
                 u \notin overtaken' /\ Busy(u) =>
                    /\ u \notin overtaken
                    /\ job[u].op \in LicenceOps => job[u].licence \notin rows
                    /\ job[u].op = "createInvoice" =>
                          \A d \in rows \cap Documents : document'[d].licence # job[u].licence
                    /\ job[u].op \in DocumentOps => job[u].document \notin rows
           /\ late \subseteq late' /\ late' \subseteq late \cup rows
           /\ r \in overtaken => rows \subseteq late'
           /\ r \notin overtaken => late' = late
<1>1. /\ ~ Busy(r)'
      /\ \A u \in Requests \ {r} :
            /\ pc'[u] = pc[u] /\ job'[u] = job[u] /\ seen'[u] = seen[u]
            /\ found'[u] = found[u] /\ sum'[u] = sum[u]
  BY DEF TypeOK, Commit, End, Busy
<1>2. \A u \in Requests \ {r} : u \notin overtaken' /\ Busy(u) =>
         /\ u \notin overtaken /\ ~ WorksFrom(u, rows)
  BY DEF Commit
<1>3. ASSUME NEW u \in Requests, Busy(u), ~ WorksFrom(u, rows)
      PROVE  /\ job[u].op \in LicenceOps => job[u].licence \notin rows
             /\ job[u].op = "createInvoice" =>
                   \A d \in rows \cap Documents : document'[d].licence # job[u].licence
             /\ job[u].op \in DocumentOps => job[u].document \notin rows
  <2>1. CASE job[u].op \in LicenceOps
    BY <1>3, <2>1 DEF WorksFrom, Busy, LicenceOps, DocumentOps
  <2>2. CASE job[u].op \in DocumentOps
    BY <1>3, <2>2 DEF WorksFrom, Busy, LicenceOps, DocumentOps
  <2> QED
    BY <2>1, <2>2 DEF LicenceOps
<1>4. /\ late \subseteq late' /\ late' \subseteq late \cup rows
      /\ r \in overtaken => rows \subseteq late'
      /\ r \notin overtaken => late' = late
  BY DEF Commit
<1> QED
  BY <1>1, <1>2, <1>3, <1>4

LEMMA CommitTypes ==
    ASSUME TypeOK, NEW r \in Requests, NEW rows \in SUBSET (Licences \cup Documents),
           Commit(r, rows)
    PROVE  /\ pc' \in [Requests -> {"idle", "read", "ready"}]
           /\ job' \in [Requests -> Jobs \cup {None}]
           /\ seen' \in [Requests -> Licence \cup {None}]
           /\ found' \in [Requests -> SUBSET (Licences \cup (Documents \X (0..MaxAttempts)))]
           /\ sum' \in [Requests -> Nat] /\ started' \in 0..MaxRequests
           /\ overtaken' \subseteq Requests /\ late' \subseteq Licences \cup Documents
  BY DEF TypeOK, Commit, End

\* What a ready request with its job is.
LEMMA ReadyFacts ==
    ASSUME IInv, NEW r \in Requests, NEW op, Ready(r, op)
    PROVE  /\ Busy(r) /\ pc[r] = "ready" /\ job[r] \in Jobs /\ job[r].op = op
           /\ op \in LicenceOps => /\ seen[r] \in Licence /\ job[r].licence \in Licences
                                   /\ licence[job[r].licence] \in Licence
           /\ op \in DocumentOps => /\ job[r].document \in Documents
                                    /\ document[job[r].document] \in Document
           /\ op \in {"grant", "approve"} => found[r] \subseteq {l \in Licences : LicensedNow(l)}
           /\ r \notin overtaken =>
                 /\ op \in LicenceOps => KnowsLicence(r)
                 /\ op \in DocumentOps => KnowsDocument(r)
                 /\ op = "createInvoice" => PeriodIsFree(r)
<1>1. Busy(r) /\ pc[r] = "ready" /\ job[r].op = op
  BY DEF Ready, Busy
<1>2. /\ job[r] \in Jobs
      /\ op \in LicenceOps => seen[r] \in Licence /\ LicensedNow(job[r].licence)
      /\ op \in DocumentOps => Drafted(job[r].document)
      /\ op \in {"grant", "approve"} => found[r] \subseteq {l \in Licences : LicensedNow(l)}
  BY <1>1 DEF IInv, JobInv
<1>3. /\ op \in LicenceOps => job[r].licence \in Licences /\ licence[job[r].licence] \in Licence
      /\ op \in DocumentOps => job[r].document \in Documents /\ document[job[r].document] \in Document
  BY <1>1, <1>2, JobShapes DEF IInv, TypeOK, LicensedNow, Drafted
<1>4. r \notin overtaken =>
         /\ op \in LicenceOps => KnowsLicence(r)
         /\ op \in DocumentOps => KnowsDocument(r)
         /\ op = "createInvoice" => PeriodIsFree(r)
  BY <1>1 DEF IInv, ReadInv
<1> QED
  BY <1>1, <1>2, <1>3, <1>4

\* The requests of a commit that touched only these rows still know what they have read.
LEMMA CommitKeepsReads ==
    ASSUME IInv, NEW r \in Requests, NEW rows, Commit(r, rows),
           \A l \in Licences : LicensedNow(l) => LicensedNow(l)',
           \A d \in Documents : Drafted(d) => Drafted(d)',
           \A l \in Licences \ rows : licence'[l] = licence[l],
           \A d \in Documents \ rows : document'[d] = document[d] /\ received'[d] = received[d]
    PROVE  JobInv' /\ ReadInv'
<1>1. JobInv'
  <2> SUFFICES ASSUME NEW u \in Requests, Busy(u)'
               PROVE  /\ job'[u] \in Jobs
                      /\ job'[u].op \in LicenceOps => seen'[u] \in Licence /\ licence'[job'[u].licence] # None
                      /\ job'[u].op \in DocumentOps => document'[job'[u].document] # None
                      /\ pc'[u] = "ready" /\ job'[u].op \in {"grant", "approve"} =>
                            found'[u] \subseteq {l \in Licences : licence'[l] # None}
    BY DEF JobInv, LicensedNow, Drafted
  <2>1. /\ u # r /\ Busy(u) /\ pc'[u] = pc[u]
        /\ job'[u] = job[u] /\ seen'[u] = seen[u] /\ found'[u] = found[u]
    BY CommitFacts DEF IInv, Busy
  <2>2. /\ job[u] \in Jobs
        /\ job[u].op \in LicenceOps =>
              seen[u] \in Licence /\ job[u].licence \in Licences /\ LicensedNow(job[u].licence)
        /\ job[u].op \in DocumentOps => job[u].document \in Documents /\ Drafted(job[u].document)
        /\ pc[u] = "ready" /\ job[u].op \in {"grant", "approve"} =>
              found[u] \subseteq {l \in Licences : LicensedNow(l)}
    BY <2>1, JobShapes DEF IInv, JobInv
  <2> QED
    BY <2>1, <2>2 DEF LicensedNow, Drafted
<1>2. ReadInv'
  <2> SUFFICES ASSUME NEW u \in Requests \ overtaken', Busy(u)'
               PROVE  /\ job'[u].op \in LicenceOps => KnowsLicence(u)'
                      /\ job'[u].op \in DocumentOps => KnowsDocument(u)'
                      /\ pc'[u] = "ready" /\ job'[u].op = "createInvoice" => PeriodIsFree(u)'
    BY DEF ReadInv
  <2>1. /\ u # r /\ Busy(u) /\ u \notin overtaken
        /\ pc'[u] = pc[u] /\ job'[u] = job[u] /\ seen'[u] = seen[u] /\ sum'[u] = sum[u]
        /\ job[u].op \in LicenceOps => job[u].licence \notin rows
        /\ job[u].op = "createInvoice" =>
              \A d \in rows \cap Documents : document'[d].licence # job[u].licence
        /\ job[u].op \in DocumentOps => job[u].document \notin rows
    BY CommitFacts DEF IInv, Busy
  <2>2. /\ job[u].op \in LicenceOps => KnowsLicence(u) /\ job[u].licence \in Licences
        /\ job[u].op \in DocumentOps => KnowsDocument(u) /\ job[u].document \in Documents
        /\ pc[u] = "ready" /\ job[u].op = "createInvoice" => PeriodIsFree(u)
    BY <2>1, JobShapes DEF IInv, ReadInv, JobInv
  <2>3. job[u].op \in LicenceOps => KnowsLicence(u)'
    BY <2>1, <2>2 DEF KnowsLicence
  <2>4. job[u].op \in DocumentOps => KnowsDocument(u)'
    BY <2>1, <2>2 DEF KnowsDocument, Drafted
  <2>5. pc[u] = "ready" /\ job[u].op = "createInvoice" => PeriodIsFree(u)'
    BY <2>1, <2>2 DEF PeriodIsFree, Drafted
  <2> QED
    BY <2>1, <2>3, <2>4, <2>5
<1> QED
  BY <1>1, <1>2

\* What an update makes of a licence.
LEMMA UpdatedRows ==
    ASSUME NEW r \in Requests, licence[job[r].licence] \in Licence, seen[r] \in Licence,
           NEW op \in {"pause", "resume", "cancel", "changePlan", "runDunning"}
    PROVE  /\ Updated(r, op) \in Licence
           /\ op # "cancel" => /\ Updated(r, op).canceled = licence[job[r].licence].canceled
                               /\ Updated(r, op).status \in LiveStatus
           /\ op = "cancel" => Updated(r, op).canceled /\ Updated(r, op).status = "canceled"
<1> DEFINE row == licence[job[r].licence]
<1>1. CASE op = "pause"
  <2>1. Updated(r, op) = [row EXCEPT !.status = "paused"]
    BY <1>1 DEF Updated
  <2> QED
    BY <1>1, <2>1 DEF Licence, LiveStatus
<1>2. CASE op = "resume"
  <2>1. Updated(r, op) = [row EXCEPT !.status = IF seen[r].activated THEN "active" ELSE "trialing"]
    BY <1>2 DEF Updated
  <2> QED
    BY <1>2, <2>1 DEF Licence, LiveStatus
<1>3. CASE op = "cancel"
  <2>1. Updated(r, op) = [row EXCEPT !.status = "canceled", !.canceled = TRUE]
    BY <1>3 DEF Updated
  <2> QED
    BY <1>3, <2>1 DEF Licence, LiveStatus
<1>4. CASE op = "changePlan"
  <2>1. Updated(r, op) = [row EXCEPT !.status = "active", !.activated = TRUE]
    BY <1>4 DEF Updated
  <2> QED
    BY <1>4, <2>1 DEF Licence, LiveStatus
<1>5. CASE op = "runDunning"
  <2>1. Updated(r, op) = [row EXCEPT !.status = "past_due"]
    BY <1>5 DEF Updated
  <2> QED
    BY <1>5, <2>1 DEF Licence, LiveStatus
<1> QED
  BY <1>1, <1>2, <1>3, <1>4, <1>5

\* No operation but a dunning run accepts a canceled licence.
LEMMA AllowedAreLive ==
    ASSUME NEW op \in {"pause", "resume", "cancel", "changePlan"}
    PROVE  AllowedFrom(op) \subseteq LiveStatus
<1>1. CASE op = "pause" \/ op = "changePlan"
  <2>1. AllowedFrom(op) = {"trialing", "active", "past_due"}
    BY <1>1 DEF AllowedFrom
  <2> QED
    BY <2>1 DEF LiveStatus
<1>2. CASE op = "resume"
  <2>1. AllowedFrom(op) = {"paused"}
    BY <1>2 DEF AllowedFrom
  <2> QED
    BY <2>1 DEF LiveStatus
<1>3. CASE op = "cancel"
  <2>1. AllowedFrom(op) = LiveStatus
    BY <1>3 DEF AllowedFrom
  <2> QED
    BY <2>1
<1> QED
  BY <1>1, <1>2, <1>3

\* A write of a licence keeps the index, and canceled_at in step with the status but where
\* the request was overtaken.
LEMMA WriteKeepsLicences ==
    ASSUME IInv, NEW r \in Requests, NEW rows \in SUBSET (Licences \cup Documents),
           NEW op \in {"pause", "resume", "cancel", "changePlan", "runDunning"},
           Ready(r, op), WriteLicence(r, op), Commit(r, rows), job[r].licence \in rows,
           op = "runDunning" => seen[r].status = "active"
    PROVE  /\ licence' \in [Licences -> Licence \cup {None}]
           /\ LicencesInv'
           /\ \A l \in Licences : LicensedNow(l) => LicensedNow(l)'
           /\ \A l \in Licences \ rows : licence'[l] = licence[l]
<1> DEFINE a == job[r].licence
           new == Updated(r, op)
<1>1. /\ a \in Licences /\ licence[a] \in Licence /\ seen[r] \in Licence
      /\ r \notin overtaken => licence[a] = seen[r] /\ seen[r].status \in AllowedFrom(op)
  BY ReadyFacts DEF LicenceOps, KnowsLicence
<1>2. licence' = [licence EXCEPT ![a] = new] /\ OneLive(licence')
  BY DEF WriteLicence
<1>3. /\ new \in Licence /\ new # None
      /\ op # "cancel" => new.canceled = licence[a].canceled /\ new.status \in LiveStatus
      /\ op = "cancel" => new.canceled /\ new.status = "canceled"
  BY <1>1, UpdatedRows, NoneIsNothing
<1> HIDE DEF new
<1>4. late \subseteq late' /\ (r \notin overtaken => late' = late) /\ (r \in overtaken => a \in late')
  BY CommitFacts DEF IInv
<1>5. licence' \in [Licences -> Licence \cup {None}]
  BY <1>1, <1>2, <1>3 DEF IInv, TypeOK
<1>6. CanceledTells'
  <2> SUFFICES ASSUME NEW l \in Licences \ late', licence'[l] # None
               PROVE  licence'[l].canceled <=> licence'[l].status = "canceled"
    BY DEF CanceledTells, LicensedNow
  <2>1. CASE l # a
    BY <1>2, <1>4, <2>1 DEF IInv, TypeOK, LicencesInv, CanceledTells, LicensedNow
  <2>2. CASE l = a
    <3>1. r \notin overtaken /\ a \notin late /\ licence[a] # None /\ licence'[a] = new
      BY <1>1, <1>2, <1>4, <2>2, NoneIsNothing DEF IInv, TypeOK
    <3>2. licence[a].canceled <=> licence[a].status = "canceled"
      BY <1>1, <3>1 DEF IInv, LicencesInv, CanceledTells, LicensedNow
    <3>3. licence[a].status # "canceled"
      BY <1>1, <3>1, AllowedAreLive DEF LiveStatus
    <3>4. licence[a].canceled \in BOOLEAN /\ new.canceled \in BOOLEAN
      BY <1>1, <1>3 DEF Licence
    <3> QED
      BY <1>3, <2>2, <3>1, <3>2, <3>3, <3>4 DEF LiveStatus
  <2> QED
    BY <2>1, <2>2
<1> QED
  BY <1>1, <1>2, <1>3, <1>5, <1>6 DEF LicencesInv, LicensedNow, IInv, TypeOK

\* The licences keep what holds of them if nobody writes one.
LEMMA UnwrittenLicences ==
    ASSUME IInv, licence' = licence, late \subseteq late'
    PROVE  LicencesInv'
  BY DEF IInv, LicencesInv, OneLive, CanceledTells, LicensedNow

\* The documents keep what holds of them if nobody writes one, and so do the attempts.
LEMMA UnwrittenDocuments ==
    ASSUME IInv, UNCHANGED <<document, received, counter>>, late \subseteq late'
    PROVE  DocumentsInv'
<1>1. NumbersInv' /\ SeriesInv'
  BY DEF IInv, DocumentsInv, NumbersInv, SeriesInv, Drafted
<1>2. MoneyInv' /\ PeriodsInv'
  BY DEF IInv, DocumentsInv, MoneyInv, PeriodsInv, PaidAsReceived, Drafted
<1> QED
  BY <1>1, <1>2 DEF DocumentsInv

LEMMA UnwrittenAttempts ==
    ASSUME IInv, NEW r \in Requests, NEW rows, Commit(r, rows), attempts' = attempts
    PROVE  AttemptsInv' /\ DunningInv'
<1>1. DunningInv'
  BY CommitFacts DEF IInv, DunningInv, Busy
<1> QED
  BY <1>1 DEF IInv, AttemptsInv

LEMMA InvGrant ==
    ASSUME IInv, NEW r \in Requests, Grant(r)
    PROVE  IInv'
<1>1. PICK l \in Licences, op \in {"grant", "approve"}, new \in Licence,
           retired \in SUBSET Licences :
        /\ ~ LicensedNow(l) /\ ~ new.canceled /\ new.status # "canceled"
        /\ licence' = [k \in Licences |->
                         IF k = l THEN new
                         ELSE IF k \in retired
                              THEN [licence[k] EXCEPT !.status = "canceled", !.canceled = TRUE]
                              ELSE licence[k]]
        /\ \A k \in retired : LicensedNow(k)
        /\ OneLive(licence')
        /\ activation' \in {"approved", activation}
        /\ UNCHANGED <<document, received, attempts, counter>>
        /\ Commit(r, retired \cup {l})
  <2>1. PICK l \in Licences, op \in {"grant", "approve"} :
          LET trial == op = "grant" /\ job[r].trial
              retired == {k \in found[r] : licence[k].status \in LiveStatus}
              new == [status |-> IF trial THEN "trialing" ELSE "active", activated |-> ~ trial,
                      canceled |-> FALSE]
              table == [k \in Licences |->
                          IF k = l THEN new
                          ELSE IF k \in retired
                               THEN [licence[k] EXCEPT !.status = "canceled", !.canceled = TRUE]
                               ELSE licence[k]]
          IN  /\ Ready(r, op) /\ ~ LicensedNow(l)
              /\ OneLive(table)
              /\ licence' = table
              /\ activation' = IF op = "approve" THEN "approved" ELSE activation
              /\ UNCHANGED <<document, received, attempts, counter>>
              /\ Commit(r, retired \cup {l})
    BY DEF Grant
  <2> DEFINE trial == op = "grant" /\ job[r].trial
             retired == {k \in found[r] : licence[k].status \in LiveStatus}
             new == [status |-> IF trial THEN "trialing" ELSE "active", activated |-> ~ trial,
                     canceled |-> FALSE]
  <2>2. new \in Licence /\ ~ new.canceled /\ new.status # "canceled"
    BY DEF Licence, LiveStatus
  <2>3. retired \in SUBSET Licences /\ \A k \in retired : LicensedNow(k)
    BY <2>1, ReadyFacts
  <2> HIDE DEF new
  <2> QED
    BY <2>1, <2>2, <2>3 DEF new
<1>2. retired \cup {l} \in SUBSET (Licences \cup Documents)
  OBVIOUS
<1>3. \A k \in retired : licence[k] \in Licence
  BY <1>1 DEF LicensedNow, IInv, TypeOK
<1>4. licence' \in [Licences -> Licence \cup {None}]
  BY <1>1, <1>3 DEF IInv, TypeOK, Licence
<1>5. TypeOK'
  BY <1>1, <1>2, <1>4, CommitTypes DEF IInv, TypeOK
<1>6. late \subseteq late'
  BY <1>1, CommitFacts DEF IInv
<1>7. CanceledTells'
  BY <1>1, <1>3, <1>6 DEF IInv, LicencesInv, CanceledTells, LicensedNow, Licence
<1>8. \A k \in Licences : LicensedNow(k) => LicensedNow(k)'
  BY <1>4, <1>1, <1>3, NoneIsNothing DEF LicensedNow, Licence
<1>9. JobInv' /\ ReadInv'
  BY <1>1, <1>8, CommitKeepsReads DEF Drafted, IInv, TypeOK
<1> QED
  BY <1>1, <1>5, <1>6, <1>7, <1>9, UnwrittenDocuments, UnwrittenAttempts DEF IInv, LicencesInv

LEMMA InvReject ==
    ASSUME IInv, NEW r \in Requests, Reject(r)
    PROVE  IInv'
<1>1. /\ activation' = "rejected" /\ Commit(r, {})
      /\ UNCHANGED <<licence, document, received, attempts, counter>>
  BY DEF Reject
<1>2. {} \in SUBSET (Licences \cup Documents)
  OBVIOUS
<1>3. TypeOK'
  BY <1>1, <1>2, CommitTypes DEF IInv, TypeOK
<1>4. late \subseteq late'
  BY <1>1, CommitFacts DEF IInv
<1>5. JobInv' /\ ReadInv'
  BY <1>1, CommitKeepsReads DEF LicensedNow, Drafted
<1> QED
  BY <1>1, <1>3, <1>4, <1>5, UnwrittenLicences, UnwrittenDocuments, UnwrittenAttempts DEF IInv

LEMMA InvTransition ==
    ASSUME IInv, NEW r \in Requests, Transition(r)
    PROVE  IInv'
<1>1. PICK op \in {"pause", "resume", "cancel"} :
          /\ Ready(r, op) /\ WriteLicence(r, op)
          /\ UNCHANGED <<document, received, attempts, counter, activation>>
          /\ Commit(r, {job[r].licence})
  BY DEF Transition
<1>2. job[r].licence \in Licences
  BY <1>1, ReadyFacts DEF LicenceOps
<1>3. {job[r].licence} \in SUBSET (Licences \cup Documents)
  BY <1>2
<1>4. /\ licence' \in [Licences -> Licence \cup {None}] /\ LicencesInv'
      /\ \A l \in Licences : LicensedNow(l) => LicensedNow(l)'
      /\ \A l \in Licences \ {job[r].licence} : licence'[l] = licence[l]
  BY <1>1, <1>3, WriteKeepsLicences
<1>5. TypeOK'
  BY <1>1, <1>3, <1>4, CommitTypes DEF IInv, TypeOK
<1>6. late \subseteq late'
  BY <1>1, CommitFacts DEF IInv
<1>7. JobInv' /\ ReadInv'
  BY <1>1, <1>4, CommitKeepsReads DEF Drafted
<1> QED
  BY <1>1, <1>4, <1>5, <1>6, <1>7, UnwrittenDocuments, UnwrittenAttempts DEF IInv

-----------------------------------------------------------------------------
(* The documents *)

\* A new draft has no number, has received nothing, and bills a period of its own, unless
\* its request was overtaken.
LEMMA DraftKeepsDocuments ==
    ASSUME IInv, NEW r \in Requests, NEW rows \in SUBSET (Licences \cup Documents),
           NEW d \in Documents, NEW l \in Licences, NEW kind \in Kinds,
           NEW origin \in {"period", "change"}, NEW period \in Periods,
           ~ Drafted(d), d \in rows, Commit(r, rows),
           document' = [document EXCEPT ![d] = Draft(l, kind, origin, period)],
           received' = received, counter' = counter,
           r \notin overtaken /\ origin = "period" =>
              PeriodIsFree(r) /\ job[r].licence = l /\ job[r].period = period
    PROVE  /\ document' \in [Documents -> Document \cup {None}]
           /\ DocumentsInv'
           /\ \A c \in Documents : Drafted(c) => Drafted(c)'
<1> DEFINE new == Draft(l, kind, origin, period)
<1>1. /\ new \in Document /\ new # None
      /\ new.licence = l /\ new.kind = kind /\ new.origin = origin /\ new.period = period
      /\ new.status = "draft" /\ new.number = 0 /\ new.paid = 0 /\ ~ new.voided
  <2>1. new = [licence |-> l, kind |-> kind, origin |-> origin, period |-> period,
               status |-> "draft", number |-> 0, paid |-> 0, overdue |-> FALSE, voided |-> FALSE]
    BY DEF Draft
  <2>2. new \in Document
    <3> HIDE DEF new
    <3> QED
      BY <2>1 DEF Document
  <2> HIDE DEF new
  <2>3. new # None
    BY <2>2, NoneIsNothing
  <2>4. /\ new.licence = l /\ new.kind = kind /\ new.origin = origin /\ new.period = period
        /\ new.status = "draft" /\ new.number = 0 /\ new.paid = 0 /\ new.voided = FALSE
    BY <2>1
  <2> QED
    BY <2>2, <2>3, <2>4
<1> HIDE DEF new
<1>2. /\ document' \in [Documents -> Document \cup {None}] /\ document'[d] = new
      /\ \A c \in Documents \ {d} : document'[c] = document[c]
  BY <1>1 DEF IInv, TypeOK, new
<1>3. late \subseteq late' /\ (r \notin overtaken => late' = late) /\ (r \in overtaken => d \in late')
  BY CommitFacts DEF IInv
<1>4. counter \in [Kinds -> Nat]
  BY DEF IInv, TypeOK
<1>5. NumbersInv'
  BY <1>1, <1>2, <1>4 DEF IInv, DocumentsInv, NumbersInv, Drafted
<1>6. SeriesInv'
  BY <1>1, <1>2, <1>3, <1>4 DEF IInv, DocumentsInv, SeriesInv, Drafted
<1>7. MoneyInv'
  BY <1>1, <1>2, <1>3, Bounds DEF IInv, DocumentsInv, MoneyInv, PaidAsReceived, Drafted
<1>8. PeriodsInv'
  <2> SUFFICES ASSUME NEW b \in Documents \ late', NEW c \in Documents \ late',
                      document'[b] # None, document'[c] # None,
                      document'[b].licence = document'[c].licence,
                      document'[b].period = document'[c].period,
                      document'[b].origin = "period", document'[c].origin = "period",
                      document'[b].status # "void", document'[c].status # "void"
               PROVE  b = c
    BY DEF PeriodsInv, Drafted
  <2>1. CASE b # d /\ c # d
    BY <1>2, <1>3, <2>1 DEF IInv, DocumentsInv, PeriodsInv, Drafted
  <2>2. ASSUME b = d \/ c = d, b # c PROVE FALSE
    <3>1. origin = "period" /\ r \notin overtaken
      BY <1>1, <1>2, <1>3, <2>2
    <3> QED
      BY <1>1, <1>2, <2>2, <3>1 DEF PeriodIsFree, Drafted
  <2> QED
    BY <2>1, <2>2
<1> QED
  BY <1>1, <1>2, <1>5, <1>6, <1>7, <1>8 DEF DocumentsInv, Drafted

LEMMA InvChangePlan ==
    ASSUME IInv, NEW r \in Requests, ChangePlan(r)
    PROVE  IInv'
<1> DEFINE l == job[r].licence
<1>1. /\ Ready(r, "changePlan") /\ WriteLicence(r, "changePlan")
      /\ UNCHANGED <<received, attempts, counter, activation>>
  BY DEF ChangePlan
<1>2. l \in Licences
  BY <1>1, ReadyFacts DEF LicenceOps
<1>3. PICK rows \in SUBSET (Licences \cup Documents) :
          /\ Commit(r, rows) /\ l \in rows
          /\ \/ \E d \in Documents, p \in Periods, kind \in Kinds :
                   /\ ~ Drafted(d) /\ d \in rows
                   /\ document' = [document EXCEPT ![d] = Draft(l, kind, "change", p)]
             \/ document' = document
          /\ \A d \in Documents \ rows : document'[d] = document[d]
  <2>1. CASE Commit(r, {l}) /\ document' = document
    <3>1. {l} \in SUBSET (Licences \cup Documents)
      BY <1>2
    <3> QED
      BY <2>1, <3>1
  <2>2. ASSUME NEW d \in Documents, NEW p \in Periods, NEW kind \in Kinds, ~ Drafted(d),
               document' = [document EXCEPT ![d] = Draft(l, kind, "change", p)],
               Commit(r, {l, d})
        PROVE  \E rows \in SUBSET (Licences \cup Documents) :
                  /\ Commit(r, rows) /\ l \in rows
                  /\ \/ \E e \in Documents, q \in Periods, k \in Kinds :
                           /\ ~ Drafted(e) /\ e \in rows
                           /\ document' = [document EXCEPT ![e] = Draft(l, k, "change", q)]
                     \/ document' = document
                  /\ \A e \in Documents \ rows : document'[e] = document[e]
    <3>1. {l, d} \in SUBSET (Licences \cup Documents)
      BY <1>2
    <3>2. \A e \in Documents \ {l, d} : document'[e] = document[e]
      BY <2>2 DEF IInv, TypeOK
    <3>3. \E e \in Documents, q \in Periods, k \in Kinds :
             /\ ~ Drafted(e) /\ e \in {l, d}
             /\ document' = [document EXCEPT ![e] = Draft(l, k, "change", q)]
      BY <2>2
    <3> QED
      BY <2>2, <3>1, <3>2, <3>3
  <2> QED
    BY <2>1, <2>2 DEF ChangePlan
<1>4. /\ licence' \in [Licences -> Licence \cup {None}] /\ LicencesInv'
      /\ \A k \in Licences : LicensedNow(k) => LicensedNow(k)'
      /\ \A k \in Licences \ rows : licence'[k] = licence[k]
  BY <1>1, <1>3, WriteKeepsLicences
<1>5. late \subseteq late'
  BY <1>3, CommitFacts DEF IInv
<1>6. /\ document' \in [Documents -> Document \cup {None}]
      /\ DocumentsInv'
      /\ \A c \in Documents : Drafted(c) => Drafted(c)'
  <2>1. CASE document' = document
    BY <1>1, <1>5, <2>1, UnwrittenDocuments DEF IInv, TypeOK, Drafted
  <2>2. CASE \E d \in Documents, p \in Periods, kind \in Kinds :
                /\ ~ Drafted(d) /\ d \in rows
                /\ document' = [document EXCEPT ![d] = Draft(l, kind, "change", p)]
    BY <1>1, <1>2, <1>3, <2>2, DraftKeepsDocuments
  <2> QED
    BY <1>3, <2>1, <2>2
<1>7. TypeOK'
  BY <1>1, <1>3, <1>4, <1>6, CommitTypes DEF IInv, TypeOK
<1>8. JobInv' /\ ReadInv'
  BY <1>1, <1>3, <1>4, <1>6, CommitKeepsReads
<1> QED
  BY <1>1, <1>3, <1>4, <1>6, <1>7, <1>8, UnwrittenAttempts DEF IInv

LEMMA InvCreateInvoice ==
    ASSUME IInv, NEW r \in Requests, CreateInvoice(r)
    PROVE  IInv'
<1>1. PICK d \in Documents :
        /\ Ready(r, "createInvoice") /\ ~ Drafted(d)
        /\ document' = [document EXCEPT ![d] =
              Draft(job[r].licence, "invoice", "period", job[r].period)]
        /\ UNCHANGED <<licence, received, attempts, counter, activation>>
        /\ Commit(r, {d})
  BY DEF CreateInvoice
<1>2. /\ job[r].licence \in Licences /\ job[r].period \in Periods
      /\ r \notin overtaken => PeriodIsFree(r)
  BY <1>1, ReadyFacts, JobShapes DEF LicenceOps
<1>3. {d} \in SUBSET (Licences \cup Documents) /\ "invoice" \in Kinds
  BY DEF Kinds
<1>4. /\ document' \in [Documents -> Document \cup {None}]
      /\ DocumentsInv'
      /\ \A c \in Documents : Drafted(c) => Drafted(c)'
  BY <1>1, <1>2, <1>3, DraftKeepsDocuments
<1>5. TypeOK'
  BY <1>1, <1>3, <1>4, CommitTypes DEF IInv, TypeOK
<1>6. late \subseteq late'
  BY <1>1, CommitFacts DEF IInv
<1>7. JobInv' /\ ReadInv'
  BY <1>1, <1>4, CommitKeepsReads DEF LicensedNow, IInv, TypeOK
<1> QED
  BY <1>1, <1>4, <1>5, <1>6, <1>7, UnwrittenLicences, UnwrittenAttempts DEF IInv

\* What an operation on a document takes for granted.
LEMMA AcceptFacts ==
    ASSUME NEW r \in Requests, NEW op \in DocumentOps, job[r].op = op, KnowsDocument(r)
    PROVE  LET row == document[job[r].document] IN
           /\ op = "issue" => row.status = "draft"
           /\ op = "void" => row.status \in {"draft", "issued"}
           /\ op = "pay" => /\ row.status = "issued" /\ job[r].amount <= Total - row.paid
                            /\ pc[r] = "ready" =>
                                  sum[r] = received[job[r].document] + job[r].amount
<1> DEFINE row == document[job[r].document]
<1>1. Accepts(job[r], row)
  BY DEF KnowsDocument
<1>2. CASE op = "issue"
  BY <1>1, <1>2 DEF Accepts
<1>3. CASE op = "void"
  BY <1>1, <1>3 DEF Accepts
<1>4. CASE op = "pay"
  <2>1. row.status = "issued" /\ Collectable(row, job[r].amount)
    BY <1>1, <1>4 DEF Accepts
  <2> QED
    BY <1>4, <2>1 DEF Collectable, KnowsDocument
<1> QED
  BY <1>2, <1>3, <1>4 DEF DocumentOps

\* A row that is written over keeps what holds of the documents, if it keeps its number or is
\* given the next one, and if a request that nobody overtook leaves it telling its money and
\* does not revive it.
LEMMA WriteKeepsDocuments ==
    ASSUME IInv, NEW r \in Requests, NEW d \in Documents, NEW new \in Document,
           document[d] \in Document, Commit(r, {d}),
           document' = [document EXCEPT ![d] = new],
           /\ new.licence = document[d].licence /\ new.kind = document[d].kind
           /\ new.origin = document[d].origin /\ new.period = document[d].period,
           received' \in [Documents -> Nat],
           \A c \in Documents \ {d} : received'[c] = received[c],
           \/ new.number = document[d].number /\ counter' = counter
           \/ /\ new.number = counter[new.kind] + 1
              /\ counter' = [counter EXCEPT ![new.kind] = @ + 1]
              /\ r \notin overtaken /\ d \notin late => document[d].number = 0,
           r \notin overtaken /\ d \notin late =>
              PaidAsReceived(d)' /\ document[d].status # "void"
    PROVE  /\ document' \in [Documents -> Document \cup {None}]
           /\ counter' \in [Kinds -> Nat]
           /\ DocumentsInv'
           /\ \A c \in Documents : Drafted(c) => Drafted(c)'
<1>1. /\ document' \in [Documents -> Document \cup {None}] /\ document'[d] = new
      /\ \A c \in Documents \ {d} : document'[c] = document[c]
      /\ new # None /\ document[d] # None
  BY NoneIsNothing DEF IInv, TypeOK
<1>2. late \subseteq late' /\ (r \notin overtaken => late' = late) /\ (r \in overtaken => d \in late')
  BY CommitFacts DEF IInv
<1>3. /\ counter \in [Kinds -> Nat] /\ new.kind \in Kinds /\ new.number \in Nat
      /\ \A c \in Documents : Drafted(c) =>
            document[c] \in Document /\ document[c].kind \in Kinds /\ document[c].number \in Nat
  BY DEF IInv, TypeOK, Document, Drafted
<1>4. counter' \in [Kinds -> Nat] /\ \A k \in Kinds : counter[k] <= counter'[k]
  BY <1>3
<1>5. NumbersInv'
  <2>1. \A c \in Documents : Drafted(c)' => Drafted(c)
    BY <1>1 DEF Drafted
  <2>2. new.number <= counter'[new.kind]
    BY <1>1, <1>3 DEF IInv, DocumentsInv, NumbersInv, Drafted
  <2>3. \A c \in Documents \ {d} : Drafted(c) /\ document[c].kind = new.kind /\ new.number # 0 =>
           document[c].number # new.number
    BY <1>1, <1>3 DEF IInv, DocumentsInv, NumbersInv, Drafted
  <2>4. \A b \in Documents \ {d} : Drafted(b) =>
           /\ document[b].number <= counter'[document[b].kind]
           /\ \A c \in Documents \ {b, d} :
                 Drafted(c) /\ document[c].kind = document[b].kind /\ document[b].number # 0 =>
                     document[c].number # document[b].number
    <3>1. \A b \in Documents \ {d} : Drafted(b) => document[b].number <= counter[document[b].kind]
      BY DEF IInv, DocumentsInv, NumbersInv
    <3>2. \A b \in Documents \ {d} : Drafted(b) => document[b].number <= counter'[document[b].kind]
      BY <1>3, <1>4, <3>1
    <3> QED
      BY <3>2 DEF IInv, DocumentsInv, NumbersInv
  <2> QED
    BY <1>1, <1>3, <2>1, <2>2, <2>3, <2>4 DEF NumbersInv, Drafted
<1>6. SeriesInv'
  <2> SUFFICES ASSUME late' \cap Documents = {}, NEW k \in Kinds, NEW n \in 1..counter'[k]
               PROVE  \E c \in Documents :
                         document'[c] # None /\ document'[c].kind = k /\ document'[c].number = n
    BY DEF SeriesInv, Drafted
  <2>1. r \notin overtaken /\ d \notin late /\ late \cap Documents = {}
    BY <1>2
  <2>2. CASE n \in 1..counter[k]
    <3>1. PICK c \in Documents : Drafted(c) /\ document[c].kind = k /\ document[c].number = n
      BY <2>1, <2>2 DEF IInv, DocumentsInv, SeriesInv
    <3>2. c = d => new.number = document[d].number
      BY <2>1, <2>2, <3>1, <1>3
    <3> QED
      BY <1>1, <3>1, <3>2 DEF Drafted
  <2>3. CASE n \notin 1..counter[k]
    <3>1. k = new.kind /\ n = new.number
      BY <1>3, <1>4, <2>3
    <3> QED
      BY <1>1, <3>1
  <2> QED
    BY <2>2, <2>3
<1>7. MoneyInv'
  <2>1. \A c \in Documents \ late' : Drafted(c)' => PaidAsReceived(c)'
    <3> SUFFICES ASSUME NEW c \in Documents \ late', Drafted(c)' PROVE PaidAsReceived(c)'
      OBVIOUS
    <3>1. CASE c = d
      BY <1>2, <3>1
    <3>2. CASE c # d
      <4>1. PaidAsReceived(c) /\ document'[c] = document[c] /\ received'[c] = received[c]
        BY <1>1, <1>2, <3>2 DEF IInv, DocumentsInv, MoneyInv, Drafted
      <4> QED
        BY <4>1 DEF PaidAsReceived
    <3> QED
      BY <3>1, <3>2
  <2>2. \A c \in Documents : ~ Drafted(c)' => received'[c] = 0
    BY <1>1 DEF IInv, DocumentsInv, MoneyInv, Drafted
  <2> QED
    BY <2>1, <2>2 DEF MoneyInv
<1>8. PeriodsInv'
  <2>1. d \notin late' => document[d].status # "void"
    BY <1>2
  <2>2. \A c \in Documents \ late' : document'[c] # None =>
           /\ document[c] # None /\ c \notin late
           /\ document'[c].licence = document[c].licence
           /\ document'[c].period = document[c].period
           /\ document'[c].origin = document[c].origin
           /\ document'[c].status # "void" => document[c].status # "void"
    BY <1>1, <1>2, <2>1
  <2> QED
    BY <2>2 DEF IInv, DocumentsInv, PeriodsInv, Drafted
<1> QED
  BY <1>1, <1>4, <1>5, <1>6, <1>7, <1>8 DEF DocumentsInv, Drafted

\* Such a commit keeps the invariant, if it writes nothing else.
LEMMA InvWrite ==
    ASSUME IInv, NEW r \in Requests, NEW op \in DocumentOps, Ready(r, op),
           NEW d \in Documents, d = job[r].document, NEW new \in Document, Commit(r, {d}),
           UNCHANGED <<licence, attempts, activation>>,
           /\ document' = [document EXCEPT ![d] = new]
           /\ new.licence = document[d].licence /\ new.kind = document[d].kind
           /\ new.origin = document[d].origin /\ new.period = document[d].period
           /\ received' \in [Documents -> Nat]
           /\ \A c \in Documents \ {d} : received'[c] = received[c]
           /\ \/ new.number = document[d].number /\ counter' = counter
              \/ /\ new.number = counter[new.kind] + 1
                 /\ counter' = [counter EXCEPT ![new.kind] = @ + 1]
                 /\ r \notin overtaken /\ d \notin late => document[d].number = 0
           /\ r \notin overtaken /\ d \notin late =>
                 PaidAsReceived(d)' /\ document[d].status # "void"
    PROVE  IInv'
<1>1. d \in Documents /\ document[d] \in Document
  BY ReadyFacts
<1>2. {d} \in SUBSET (Licences \cup Documents)
  BY <1>1
<1>3. /\ document' \in [Documents -> Document \cup {None}]
      /\ counter' \in [Kinds -> Nat]
      /\ DocumentsInv'
      /\ \A c \in Documents : Drafted(c) => Drafted(c)'
  BY <1>1, WriteKeepsDocuments
<1>4. TypeOK'
  BY <1>2, <1>3, CommitTypes DEF IInv, TypeOK
<1>5. late \subseteq late'
  BY CommitFacts DEF IInv
<1>6. JobInv' /\ ReadInv'
  BY <1>3, CommitKeepsReads DEF LicensedNow, IInv, TypeOK
<1> QED
  BY <1>3, <1>4, <1>5, <1>6, UnwrittenLicences, UnwrittenAttempts DEF IInv

\* What is known of a document that no overtaken request has written.
LEMMA DocumentKnown ==
    ASSUME IInv, NEW r \in Requests, NEW op \in DocumentOps, Ready(r, op),
           r \notin overtaken, job[r].document \notin late
    PROVE  KnowsDocument(r) /\ PaidAsReceived(job[r].document)
<1>1. KnowsDocument(r) /\ job[r].document \in Documents
  BY ReadyFacts
<1> QED
  BY <1>1 DEF KnowsDocument, IInv, DocumentsInv, MoneyInv

LEMMA InvIssue ==
    ASSUME IInv, NEW r \in Requests, Issue(r)
    PROVE  IInv'
<1>0. PICK d \in Documents : d = job[r].document
  <2>1. Ready(r, "issue")
    BY DEF Issue
  <2> QED
    BY <2>1, ReadyFacts DEF DocumentOps
<1> DEFINE row == document[d]
           n == counter[row.kind] + 1
           new == [row EXCEPT !.status = "issued", !.number = n, !.overdue = FALSE]
<1>1. /\ Ready(r, "issue") /\ Commit(r, {d})
      /\ counter' = [counter EXCEPT ![row.kind] = @ + 1]
      /\ document' = [document EXCEPT ![d] =
            [@ EXCEPT !.status = "issued", !.number = counter'[row.kind], !.overdue = FALSE]]
      /\ UNCHANGED <<licence, received, attempts, activation>>
  BY <1>0 DEF Issue
<1>2. row \in Document /\ "issue" \in DocumentOps
  BY <1>0, <1>1, ReadyFacts DEF DocumentOps
<1>3. row.kind \in Kinds /\ counter \in [Kinds -> Nat] /\ counter'[row.kind] = n /\ n \in Nat
  BY <1>1, <1>2 DEF Document, IInv, TypeOK
<1>4. document' = [document EXCEPT ![d] = new]
  BY <1>1, <1>2, <1>3 DEF IInv, TypeOK
<1>5. /\ new \in Document
      /\ new.licence = row.licence /\ new.kind = row.kind /\ new.origin = row.origin
      /\ new.period = row.period /\ new.status = "issued" /\ new.number = n
      /\ new.paid = row.paid /\ new.voided = row.voided
  BY <1>2, <1>3 DEF Document
<1> HIDE DEF new
<1>6. received' \in [Documents -> Nat] /\ received' = received /\ document'[d] = new
  BY <1>1, <1>2, <1>4 DEF IInv, TypeOK
<1>7. ASSUME r \notin overtaken, d \notin late
      PROVE  PaidAsReceived(d)' /\ row.status # "void" /\ row.number = 0
  <2>1. KnowsDocument(r) /\ PaidAsReceived(d)
    BY <1>0, <1>1, <1>2, <1>7, DocumentKnown
  <2>2. row.status = "draft"
    BY <1>0, <1>1, <1>2, <2>1, AcceptFacts DEF Ready
  <2>3. row.number = 0 /\ row.paid = 0 /\ row.paid = received[d] /\ ~ row.voided
    BY <2>1, <2>2, <1>2 DEF PaidAsReceived, Document
  <2>4. n # 0
    BY <1>3
  <2>5. new.paid = received'[d] /\ new.paid <= Total /\ new.paid # Total
    BY <1>5, <1>6, <2>3, Bounds
  <2> QED
    BY <1>5, <1>6, <2>2, <2>3, <2>4, <2>5 DEF PaidAsReceived
<1>8. /\ new.number = counter[new.kind] + 1
      /\ counter' = [counter EXCEPT ![new.kind] = @ + 1]
  BY <1>1, <1>5
<1> QED
  BY <1>0, <1>1, <1>2, <1>4, <1>5, <1>6, <1>7, <1>8, InvWrite

LEMMA InvPay ==
    ASSUME IInv, NEW r \in Requests, Pay(r)
    PROVE  IInv'
<1>0. PICK d \in Documents : d = job[r].document
  <2>1. Ready(r, "pay")
    BY DEF Pay
  <2> QED
    BY <2>1, ReadyFacts DEF DocumentOps
<1> DEFINE row == document[d]
           new == [row EXCEPT !.paid = sum[r], !.status = IF sum[r] >= Total THEN "paid" ELSE row.status]
<1>1. /\ Ready(r, "pay") /\ Commit(r, {d})
      /\ received' = [received EXCEPT ![d] = @ + job[r].amount]
      /\ document' = [document EXCEPT ![d] =
            [row EXCEPT !.paid = sum[r],
                        !.status = IF sum[r] >= Total THEN "paid" ELSE row.status]]
      /\ UNCHANGED <<licence, attempts, counter, activation>>
  BY <1>0 DEF Pay
<1>2. row \in Document /\ "pay" \in DocumentOps
  BY <1>0, <1>1, ReadyFacts DEF DocumentOps
<1>3. job[r].amount \in 1..Total /\ sum[r] \in Nat
  BY <1>1, ReadyFacts, JobShapes DEF IInv, TypeOK
<1>4. document' = [document EXCEPT ![d] = new]
  BY <1>1
<1>5. /\ new \in Document
      /\ new.licence = row.licence /\ new.kind = row.kind /\ new.origin = row.origin
      /\ new.period = row.period /\ new.number = row.number
      /\ new.paid = sum[r] /\ new.voided = row.voided
      /\ sum[r] >= Total => new.status = "paid"
      /\ ~ (sum[r] >= Total) => new.status = row.status
  BY <1>2, <1>3 DEF Document
<1> HIDE DEF new
<1>6. /\ received' \in [Documents -> Nat] /\ document'[d] = new
      /\ received'[d] = received[d] + job[r].amount /\ received[d] \in Nat
      /\ \A c \in Documents \ {d} : received'[c] = received[c]
  BY <1>1, <1>2, <1>3, <1>4, Bounds DEF IInv, TypeOK
<1>7. ASSUME r \notin overtaken, d \notin late
      PROVE  PaidAsReceived(d)' /\ row.status # "void"
  <2>1. KnowsDocument(r) /\ PaidAsReceived(d)
    BY <1>0, <1>1, <1>2, <1>7, DocumentKnown
  <2>2. /\ row.status = "issued" /\ job[r].amount <= Total - row.paid
        /\ sum[r] = received[d] + job[r].amount
    BY <1>0, <1>1, <1>2, <2>1, AcceptFacts DEF Ready
  <2>3. row.paid = received[d] /\ row.number # 0 /\ ~ row.voided
    BY <2>1, <2>2, <1>2 DEF PaidAsReceived, Document
  <2>4. new.paid = received'[d] /\ new.paid <= Total
    BY <1>3, <1>5, <1>6, <2>2, <2>3, Bounds
  <2>5. new.status = "paid" <=> new.paid = Total
    BY <1>3, <1>5, <2>2, <2>4, Bounds
  <2>6. new.status \in {"paid", "issued"}
    BY <1>5, <2>2
  <2> QED
    BY <1>5, <1>6, <2>2, <2>3, <2>4, <2>5, <2>6 DEF PaidAsReceived
<1> QED
  BY <1>0, <1>1, <1>2, <1>4, <1>5, <1>6, <1>7, InvWrite

LEMMA InvVoid ==
    ASSUME IInv, NEW r \in Requests, Void(r)
    PROVE  IInv'
<1>0. PICK d \in Documents : d = job[r].document
  <2>1. Ready(r, "void")
    BY DEF Void
  <2> QED
    BY <2>1, ReadyFacts DEF DocumentOps
<1> DEFINE row == document[d]
           new == [row EXCEPT !.status = "void", !.voided = TRUE]
<1>1. /\ Ready(r, "void") /\ Commit(r, {d})
      /\ document' = [document EXCEPT ![d] = [@ EXCEPT !.status = "void", !.voided = TRUE]]
      /\ UNCHANGED <<licence, received, attempts, counter, activation>>
  BY <1>0 DEF Void
<1>2. row \in Document /\ "void" \in DocumentOps
  BY <1>0, <1>1, ReadyFacts DEF DocumentOps
<1>4. document' = [document EXCEPT ![d] = new]
  BY <1>1, <1>2 DEF IInv, TypeOK
<1>5. /\ new \in Document
      /\ new.licence = row.licence /\ new.kind = row.kind /\ new.origin = row.origin
      /\ new.period = row.period /\ new.number = row.number
      /\ new.paid = row.paid /\ new.voided = TRUE /\ new.status = "void"
  BY <1>2 DEF Document
<1> HIDE DEF new
<1>6. received' \in [Documents -> Nat] /\ received' = received /\ document'[d] = new
  BY <1>1, <1>2, <1>4 DEF IInv, TypeOK
<1>7. ASSUME r \notin overtaken, d \notin late
      PROVE  PaidAsReceived(d)' /\ row.status # "void"
  <2>1. KnowsDocument(r) /\ PaidAsReceived(d)
    BY <1>0, <1>1, <1>2, <1>7, DocumentKnown
  <2>2. row.status \in {"draft", "issued"}
    BY <1>0, <1>1, <1>2, <2>1, AcceptFacts DEF Ready
  <2>3. row.paid = received[d] /\ row.paid <= Total /\ row.paid # Total
    BY <2>1, <2>2 DEF PaidAsReceived
  <2> QED
    BY <1>5, <1>6, <2>2, <2>3 DEF PaidAsReceived
<1> QED
  BY <1>0, <1>1, <1>2, <1>4, <1>5, <1>6, <1>7, InvWrite

-----------------------------------------------------------------------------
(* Dunning *)

LEMMA InvRunDunning ==
    ASSUME IInv, NEW r \in Requests, RunDunning(r)
    PROVE  IInv'
<1> DEFINE due == {t \in found[r] : t[2] < MaxAttempts}
           dunned == {t[1] : t \in due}
           l == job[r].licence
           falls == due # {} /\ seen[r].status = "active"
           rows == IF falls THEN dunned \cup {l} ELSE dunned
<1>1. /\ Ready(r, "runDunning")
      /\ \A t \in due : t[2] + 1 \notin attempts[t[1]]
      /\ attempts' = [d \in Documents |->
            attempts[d] \cup {t[2] + 1 : t \in {t \in due : t[1] = d}}]
      /\ IF falls THEN WriteLicence(r, "runDunning") ELSE UNCHANGED licence
      /\ UNCHANGED <<document, received, counter, activation>>
      /\ Commit(r, rows)
  BY DEF RunDunning
<1>2. \A t \in due : /\ t[1] \in Documents /\ t[2] \in 0..MaxAttempts /\ t[2] < MaxAttempts
                     /\ t[2] <= Cardinality(attempts[t[1]])
  BY <1>1, ReadyFacts DEF IInv, DunningInv
<1>3. l \in Licences
  BY <1>1, ReadyFacts DEF LicenceOps
<1> HIDE DEF due
<1>4. rows \in SUBSET (Licences \cup Documents)
  BY <1>2, <1>3
<1>5. ASSUME NEW d \in Documents
      PROVE  /\ \E n \in 0..MaxAttempts : attempts'[d] = 1..n
             /\ Cardinality(attempts[d]) <= Cardinality(attempts'[d])
  <2> DEFINE n == Cardinality(attempts[d])
             new == {t[2] + 1 : t \in {t \in due : t[1] = d}}
  <2>1. n \in 0..MaxAttempts /\ attempts[d] = 1..n
    BY AttemptsCounted DEF IInv
  <2>2. attempts'[d] = attempts[d] \cup new
    BY <1>1
  <2>3. ASSUME NEW t \in due, t[1] = d PROVE t[2] = n /\ n < MaxAttempts
    <3>1. t[2] + 1 \notin attempts[d] /\ t[2] \in 0..MaxAttempts /\ t[2] < MaxAttempts /\ t[2] <= n
      BY <1>1, <1>2, <2>3
    <3> HIDE DEF n
    <3>2. t[2] + 1 \notin 1..n
      BY <2>1, <3>1
    <3> QED
      BY <2>1, <3>1, <3>2, Bounds
  <2> HIDE DEF n
  <2>4. CASE \E t \in due : t[1] = d
    <3>1. new = {n + 1} /\ n < MaxAttempts
      BY <2>3, <2>4
    <3>2. (1..n) \cup {n + 1} = 1..(n + 1)
      BY <2>1
    <3>3. n + 1 \in 0..MaxAttempts
      BY <2>1, <3>1, Bounds
    <3>4. attempts'[d] = 1..(n + 1)
      BY <2>1, <2>2, <3>1, <3>2
    <3>5. Cardinality(1..(n + 1)) = n + 1
      BY <3>3, CountOfAttempts
    <3> QED
      BY <2>1, <3>3, <3>4, <3>5 DEF n
  <2>5. CASE ~ \E t \in due : t[1] = d
    <3>1. new = {}
      BY <2>5
    <3>2. attempts'[d] = attempts[d]
      BY <2>2, <3>1
    <3>3. n <= n
      BY <2>1
    <3> QED
      BY <2>1, <3>2, <3>3 DEF n
  <2> QED
    BY <2>4, <2>5
<1>6. AttemptsInv'
  BY <1>5 DEF AttemptsInv
<1>7. attempts' \in [Documents -> SUBSET (1..MaxAttempts)]
  <2>1. \A d \in Documents : attempts'[d] \subseteq 1..MaxAttempts
    BY <1>5, Bounds
  <2> QED
    BY <1>1, <2>1
<1>8. DunningInv'
  <2> SUFFICES ASSUME NEW u \in Requests, pc'[u] = "ready", job'[u].op = "runDunning",
                      NEW t \in found'[u]
               PROVE  t \in Documents \X (0..MaxAttempts) /\ t[2] <= Cardinality(attempts'[t[1]])
    BY DEF DunningInv
  <2>1. u # r /\ pc'[u] = pc[u] /\ job'[u] = job[u] /\ found'[u] = found[u]
    BY <1>1, CommitFacts DEF IInv, Busy
  <2>2. t \in Documents \X (0..MaxAttempts) /\ t[2] <= Cardinality(attempts[t[1]])
    BY <2>1 DEF IInv, DunningInv
  <2>3. t[1] \in Documents /\ t[2] \in Int
    BY <2>2, Bounds
  <2>4. Cardinality(attempts[t[1]]) \in Int
    BY <2>3, AttemptsCounted, Bounds DEF IInv
  <2>5. PICK n \in 0..MaxAttempts : attempts'[t[1]] = 1..n
    BY <1>5, <2>3
  <2>6. Cardinality(attempts'[t[1]]) = n /\ n \in Int
    BY <2>5, CountOfAttempts, Bounds
  <2>7. Cardinality(attempts[t[1]]) <= Cardinality(attempts'[t[1]])
    BY <1>5, <2>3
  <2> QED
    BY <2>2, <2>3, <2>4, <2>6, <2>7
<1>9. /\ licence' \in [Licences -> Licence \cup {None}] /\ LicencesInv'
      /\ \A k \in Licences : LicensedNow(k) => LicensedNow(k)'
      /\ \A k \in Licences \ rows : licence'[k] = licence[k]
  <2>1. CASE falls
    BY <1>1, <1>4, <2>1, WriteKeepsLicences
  <2>2. CASE ~ falls
    <3>1. licence' = licence /\ late \subseteq late'
      BY <1>1, <2>2, CommitFacts DEF IInv
    <3> QED
      BY <3>1, UnwrittenLicences DEF IInv, TypeOK, LicensedNow
  <2> QED
    BY <2>1, <2>2
<1>10. TypeOK'
  BY <1>1, <1>4, <1>7, <1>9, CommitTypes DEF IInv, TypeOK
<1>11. late \subseteq late'
  BY <1>1, CommitFacts DEF IInv
<1>12. JobInv' /\ ReadInv'
  BY <1>1, <1>9, CommitKeepsReads DEF Drafted
<1> QED
  BY <1>1, <1>6, <1>8, <1>9, <1>10, <1>11, <1>12, UnwrittenDocuments DEF IInv

\* That a document falls overdue changes nothing an operation accepts it by.
LEMMA InvFallDue ==
    ASSUME IInv, NEW d \in Documents, FallDue(d)
    PROVE  IInv'
<1>1. /\ document[d] \in Document
      /\ document' = [document EXCEPT ![d] = [document[d] EXCEPT !.overdue = TRUE]]
      /\ UNCHANGED <<licence, received, attempts, counter, activation>>
      /\ UNCHANGED <<pc, job, seen, found, sum, started, overtaken, late>>
  BY DEF FallDue, Drafted, IInv, TypeOK, request, history
<1> DEFINE new == [document[d] EXCEPT !.overdue = TRUE]
<1>2. /\ new \in Document
      /\ new.licence = document[d].licence /\ new.kind = document[d].kind
      /\ new.origin = document[d].origin /\ new.period = document[d].period
      /\ new.status = document[d].status /\ new.number = document[d].number
      /\ new.paid = document[d].paid /\ new.voided = document[d].voided
  BY <1>1 DEF Document
<1>3. document' = [document EXCEPT ![d] = new]
  BY <1>1
<1> HIDE DEF new
<1>4. document' \in [Documents -> Document \cup {None}]
  BY <1>2, <1>3 DEF IInv, TypeOK
<1>5. \A c \in Documents : /\ Drafted(c)' <=> Drafted(c)
                           /\ document'[c].licence = document[c].licence
                           /\ document'[c].kind = document[c].kind
                           /\ document'[c].origin = document[c].origin
                           /\ document'[c].period = document[c].period
                           /\ document'[c].status = document[c].status
                           /\ document'[c].number = document[c].number
                           /\ document'[c].paid = document[c].paid
                           /\ document'[c].voided = document[c].voided
  BY <1>1, <1>2, <1>3, NoneIsNothing DEF Drafted, IInv, TypeOK
<1>6. TypeOK'
  BY <1>1, <1>4 DEF IInv, TypeOK
<1>7. JobInv'
  <2> SUFFICES ASSUME NEW u \in Requests, Busy(u)
               PROVE  job[u].op \in DocumentOps => Drafted(job[u].document)'
    BY <1>1 DEF IInv, JobInv, Busy, LicensedNow, Drafted
  <2>1. job[u].op \in DocumentOps => job[u].document \in Documents /\ Drafted(job[u].document)
    BY JobShapes DEF IInv, JobInv
  <2> QED
    BY <1>1, <1>5, <2>1 DEF Drafted
<1>8. ReadInv'
  <2> SUFFICES ASSUME NEW u \in Requests \ overtaken, Busy(u)
               PROVE  /\ job[u].op \in LicenceOps => KnowsLicence(u)'
                      /\ job[u].op \in DocumentOps => KnowsDocument(u)'
                      /\ pc[u] = "ready" /\ job[u].op = "createInvoice" => PeriodIsFree(u)'
    BY <1>1 DEF ReadInv, Busy
  <2>1. /\ job[u].op \in LicenceOps => KnowsLicence(u)
        /\ job[u].op \in DocumentOps => KnowsDocument(u)
        /\ pc[u] = "ready" /\ job[u].op = "createInvoice" => PeriodIsFree(u)
        /\ job[u].op \in DocumentOps => job[u].document \in Documents
    BY JobShapes DEF IInv, JobInv, ReadInv
  <2>2. job[u].op \in LicenceOps => KnowsLicence(u)'
    BY <1>1, <2>1 DEF KnowsLicence
  <2>3. pc[u] = "ready" /\ job[u].op = "createInvoice" => PeriodIsFree(u)'
    BY <1>1, <1>5, <2>1 DEF PeriodIsFree, Drafted
  <2>4. ASSUME job[u].op \in DocumentOps PROVE KnowsDocument(u)'
    <3> DEFINE c == job[u].document
    <3>1. c \in Documents /\ Drafted(c) /\ Accepts(job[u], document[c])
      BY <2>1, <2>4 DEF KnowsDocument
    <3>2. /\ document'[c].status = document[c].status /\ document'[c].kind = document[c].kind
          /\ document'[c].paid = document[c].paid /\ document'[c] # None
      BY <1>5, <3>1 DEF Drafted
    <3>3. Accepts(job[u], document'[c])
      <4>1. CASE job[u].op = "issue"
        BY <3>1, <3>2, <4>1 DEF Accepts
      <4>2. CASE job[u].op = "void"
        BY <3>1, <3>2, <4>2 DEF Accepts
      <4>3. CASE job[u].op = "pay"
        <5>1. document[c].status = "issued" /\ Collectable(document[c], job[u].amount)
          BY <3>1, <4>3 DEF Accepts
        <5>2. document'[c].status = "issued" /\ Collectable(document'[c], job[u].amount)
          BY <3>2, <5>1 DEF Collectable
        <5> QED
          BY <4>3, <5>2 DEF Accepts
      <4> QED
        BY <2>4, <4>1, <4>2, <4>3 DEF DocumentOps
    <3> QED
      BY <1>1, <2>1, <2>4, <3>2, <3>3 DEF KnowsDocument, Drafted
  <2> QED
    BY <2>2, <2>3, <2>4
<1>9. LicencesInv' /\ AttemptsInv' /\ DunningInv'
  BY <1>1 DEF IInv, LicencesInv, OneLive, CanceledTells, LicensedNow, AttemptsInv, DunningInv
<1>10. NumbersInv' /\ SeriesInv' /\ PeriodsInv'
  <2>1. NumbersInv'
    BY <1>1, <1>5 DEF IInv, DocumentsInv, NumbersInv
  <2>2. SeriesInv'
    BY <1>1, <1>5 DEF IInv, DocumentsInv, SeriesInv
  <2>3. PeriodsInv'
    BY <1>1, <1>5 DEF IInv, DocumentsInv, PeriodsInv
  <2> QED
    BY <2>1, <2>2, <2>3
<1>11. MoneyInv'
  BY <1>1, <1>5 DEF IInv, DocumentsInv, MoneyInv, PaidAsReceived
<1> QED
  BY <1>6, <1>7, <1>8, <1>9, <1>10, <1>11 DEF IInv, DocumentsInv

-----------------------------------------------------------------------------
(* The theorems *)

LEMMA InvStutter == IInv /\ UNCHANGED vars => IInv'
<1> SUFFICES ASSUME IInv, UNCHANGED vars PROVE IInv'
  OBVIOUS
<1> USE DEF vars, tables, request, history
<1>1. TypeOK' /\ JobInv' /\ DunningInv' /\ AttemptsInv'
  BY DEF IInv, TypeOK, JobInv, Busy, LicensedNow, Drafted, DunningInv, AttemptsInv
<1>2. ReadInv'
  BY DEF IInv, ReadInv, Busy, KnowsLicence, KnowsDocument, PeriodIsFree, Drafted
<1>3. LicencesInv' /\ DocumentsInv'
  BY UnwrittenLicences, UnwrittenDocuments
<1> QED
  BY <1>1, <1>2, <1>3 DEF IInv

LEMMA InvNext == IInv /\ [Next]_vars => IInv'
<1> SUFFICES ASSUME IInv, [Next]_vars PROVE IInv'
  OBVIOUS
<1>1. ASSUME NEW r \in Requests, NEW j \in Jobs,
             BeginGrant(r, j) \/ BeginReview(r, j) \/ ReadLicence(r, j) \/ ReadDocument(r, j)
      PROVE  IInv'
  BY <1>1, InvBeginGrant, InvReadLicence, InvReadDocument
<1>2. ASSUME NEW r \in Requests, FindRetired(r) \/ FindDuplicate(r) \/ FindOverdue(r) PROVE IInv'
  BY <1>2, InvFinds
<1>3. ASSUME NEW r \in Requests, AddUp(r) PROVE IInv'
  BY <1>3, InvAddUp
<1>4. ASSUME NEW r \in Requests, Grant(r) \/ Reject(r) PROVE IInv'
  BY <1>4, InvGrant, InvReject
<1>5. ASSUME NEW r \in Requests, Transition(r) \/ ChangePlan(r) PROVE IInv'
  BY <1>5, InvTransition, InvChangePlan
<1>6. ASSUME NEW r \in Requests, CreateInvoice(r) PROVE IInv'
  BY <1>6, InvCreateInvoice
<1>7. ASSUME NEW r \in Requests, Issue(r) \/ Pay(r) \/ Void(r) PROVE IInv'
  BY <1>7, InvIssue, InvPay, InvVoid
<1>8. ASSUME NEW r \in Requests, RunDunning(r) PROVE IInv'
  BY <1>8, InvRunDunning
<1>9. ASSUME NEW r \in Requests, Fail(r) PROVE IInv'
  BY <1>9, InvFail
<1>10. ASSUME NEW d \in Documents, FallDue(d) PROVE IInv'
  BY <1>10, InvFallDue
<1>11. ASSUME Finished \/ UNCHANGED vars PROVE IInv'
  BY <1>11, InvStutter DEF Finished
<1> QED
  BY <1>1, <1>2, <1>3, <1>4, <1>5, <1>6, <1>7, <1>8, <1>9, <1>10, <1>11 DEF Next

LEMMA InvAlways == Spec => []IInv
  BY InvInit, InvNext, PTL DEF Spec

\* Every table and every request keeps its type.
THEOREM BillingTypeCorrect == Spec => []TypeOK
<1>1. IInv => TypeOK
  BY DEF IInv
<1> QED
  BY <1>1, InvAlways, PTL

\* Of the licences no overtaken request has written at most one is live, whatever grants,
\* approvals, changes of plan, pauses, cancels and dunning runs do to a tenant together.
THEOREM AtMostOneLiveLicence == Spec => []OneLiveLicence
<1>1. IInv => OneLiveLicence
  <2> SUFFICES ASSUME IInv, NEW l \in Licences \ late, LicensedNow(l)
               PROVE  /\ licence[l].canceled <=> licence[l].status = "canceled"
                      /\ licence[l].status \in LiveStatus =>
                            \A k \in Licences \ (late \cup {l}) :
                                LicensedNow(k) => licence[k].status = "canceled"
    BY DEF OneLiveLicence
  <2>1. \A k \in Licences \ late : LicensedNow(k) =>
           /\ licence[k].canceled <=> licence[k].status = "canceled"
           /\ licence[k].status \in LiveStatus \cup {"canceled"}
    BY DEF IInv, TypeOK, Licence, LicencesInv, CanceledTells, LicensedNow
  <2>2. OneLive(licence) /\ "canceled" \notin LiveStatus
    BY DEF IInv, LicencesInv, LiveStatus
  <2> QED
    BY <2>1, <2>2 DEF OneLive, LicensedNow
<1> QED
  BY <1>1, InvAlways, PTL

\* In every interleaving no two documents of a series have one number, and the dunning attempts
\* on a document are 1 up to how many there are. The rest is claimed of the documents that no
\* overtaken request has written: they say they were paid what was received for them, and no
\* two drafts among them bill one period; and as long as there are only such documents, the
\* numbers of a series have no gap.
THEOREM DocumentsTellTheMoney == Spec => []DocumentsTellMoney
<1>1. ASSUME IInv PROVE NumbersInSeries
  <2>1. \A d \in Documents : Drafted(d) =>
           document[d].number \in Nat /\ document[d].kind \in Kinds
    BY <1>1 DEF IInv, TypeOK, Document, Drafted
  <2>2. counter \in [Kinds -> Nat]
    BY <1>1 DEF IInv, TypeOK
  <2> SUFFICES ASSUME NEW k \in Kinds
               PROVE  /\ \A c, d \in Numbered(k) : c # d => document[c].number # document[d].number
                      /\ late \cap Documents = {} =>
                            {document[d].number : d \in Numbered(k)} = 1..counter[k]
    BY DEF NumbersInSeries
  <2>3. \A c, d \in Numbered(k) : c # d => document[c].number # document[d].number
    BY <1>1 DEF IInv, DocumentsInv, NumbersInv, Numbered
  <2>4. \A d \in Numbered(k) : document[d].number \in 1..counter[k]
    BY <1>1, <2>1, <2>2 DEF IInv, DocumentsInv, NumbersInv, Numbered
  <2>5. late \cap Documents = {} =>
           \A n \in 1..counter[k] : \E d \in Numbered(k) : document[d].number = n
    BY <1>1, <2>2 DEF IInv, DocumentsInv, SeriesInv, Numbered
  <2> QED
    BY <2>3, <2>4, <2>5
<1>2. ASSUME IInv PROVE DocumentsTellMoney
  <2>1. \A d \in Documents : attempts[d] = 1..Cardinality(attempts[d])
    BY <1>2, AttemptsCounted DEF IInv
  <2>2. \A d \in Documents \ late : Drafted(d) => PaidAsReceived(d)
    BY <1>2 DEF IInv, DocumentsInv, MoneyInv
  <2>3. TypeOK /\ PeriodsInv
    BY <1>2 DEF IInv, DocumentsInv
  <2> QED
    BY <1>1, <1>2, <2>1, <2>2, <2>3 DEF DocumentsTellMoney, PeriodsInv
<1> QED
  BY <1>2, InvAlways, PTL
=============================================================================
