---------------------------- MODULE SeriesProofs -----------------------------
(***************************************************************************)
(* Proofs about the two series nothing may tear: the numbers of documents  *)
(* (DocumentSequence) and the chain of filed invoices (EInvoiceChain).     *)
(* For any transactions, scopes and jobs: the types, that numbering has    *)
(* neither gaps nor duplicates, and that it implements NumberBook.  For    *)
(* any requests, invoices, environments and jobs: the types, that the      *)
(* documents of each environment form the unbroken chain of HashChain,     *)
(* that an accepted submission stays one, and that an invoice is filed     *)
(* once unless a retry, a lost answer or an overtaken request blurs it.    *)
(***************************************************************************)
EXTENDS DocumentSequence, EInvoiceChain, FiniteSetTheorems, TLAPS

-----------------------------------------------------------------------------
(* DocumentSequence: the inductive invariant *)

\* Only a document that is being worked on holds rows.
WriterInv ==
    \A s \in Scopes, r \in Transactions :
        writer[s] = r => Working(r) /\ job[r].op = "document"

\* What is on a draft was taken from rows the draft's transaction still holds, above
\* what is committed, up to the version it wrote.
DraftInv ==
    \A r \in Transactions : \A d \in draft[r] :
        /\ d.by = r
        /\ writer[d.scope] = r
        /\ counter[d.scope] < d.value
        /\ d.value <= mine[r][d.scope]

\* Every number a transaction has drawn is on its draft.
DrawnInv ==
    \A r \in Transactions, s \in Scopes : writer[s] = r =>
        /\ counter[s] <= mine[r][s]
        /\ \A n \in Nat : (counter[s] < n /\ n <= mine[r][s]) =>
              [scope |-> s, value |-> n, by |-> r] \in draft[r]

\* The committed numbers of a scope are 1 up to its counter; a scope without a row has
\* a counter of 0, so that the row configure inserts rewinds nothing.
IssuedInv ==
    /\ \A i \in issued : 1 <= i.value /\ i.value <= counter[i.scope]
    /\ \A s \in Scopes : \A n \in 1..counter[s] :
          \E i \in issued : i.scope = s /\ i.value = n
    /\ \A s \in Scopes : prefix[s] = NoPrefix => counter[s] = 0

\* A transaction that has begun has a job; one that configures knows its scope.
JobInv ==
    \A r \in Transactions : Working(r) =>
        /\ job[r] \in Jobs
        /\ job[r].op = "configure" => wanted[r] # << >>

SequenceInv ==
    /\ SequenceTypeOK
    /\ JobInv
    /\ WriterInv
    /\ DraftInv
    /\ DrawnInv
    /\ IssuedInv
    /\ NoDuplicates

-----------------------------------------------------------------------------
(* Types *)

\* What a job says, whichever of the two it is.
LEMMA JobTypes ==
    ASSUME NEW j \in Jobs
    PROVE  /\ j.scopes \in Seq(Scopes)
           /\ j.prefix \in Prefixes
           /\ j.op \in {"document", "configure"}
           /\ j.op = "configure" => j.scopes # << >>
<1>1. j \in JobType
  BY JobsAssumption
<1>2. CASE j \in [op : {"document"}, scopes : Seq(Scopes), prefix : Prefixes]
  BY <1>2
<1>3. CASE j \in [op : {"configure"}, scopes : {q \in Seq(Scopes) : Len(q) = 1}, prefix : Prefixes]
  BY <1>3
<1> QED
  BY <1>1, <1>2, <1>3 DEF JobType

\* A scope a transaction is waiting for, or taking, is a scope.
LEMMA WantedType ==
    ASSUME SequenceTypeOK, NEW r \in Transactions, wanted[r] # << >>
    PROVE  Wanted(r) \in Scopes /\ Tail(wanted[r]) \in Seq(Scopes)
  BY DEF SequenceTypeOK, Wanted

LEMMA LatestType ==
    ASSUME SequenceTypeOK, NEW r \in Transactions, NEW s \in Scopes
    PROVE  Latest(r, s) \in Nat
  BY DEF SequenceTypeOK, Latest

LEMMA TypeRollback ==
    ASSUME SequenceTypeOK, NEW r \in Transactions, Rollback(r)
    PROVE  SequenceTypeOK'
<1>1. << >> \in Seq(Scopes) /\ {} \in SUBSET Number
  OBVIOUS
<1> QED
  BY <1>1 DEF SequenceTypeOK, Rollback, Forget

LEMMA SequenceTypeInit == SequenceInit => SequenceTypeOK
<1>1. << >> \in Seq(Scopes)
  OBVIOUS
<1> QED
  BY <1>1 DEF SequenceInit, SequenceTypeOK, Number

LEMMA TypeBegin ==
    ASSUME SequenceTypeOK, NEW r \in Transactions, Begin(r)
    PROVE  SequenceTypeOK'
<1>1. PICK j \in Jobs : job' = [job EXCEPT ![r] = j] /\ wanted' = [wanted EXCEPT ![r] = j.scopes]
  BY DEF Begin
<1>2. j.scopes \in Seq(Scopes)
  BY JobTypes
<1> QED
  BY <1>1, <1>2 DEF SequenceTypeOK, Begin

LEMMA TypeAllocate ==
    ASSUME SequenceTypeOK, NEW r \in Transactions, Allocate(r)
    PROVE  SequenceTypeOK'
<1> DEFINE s == Wanted(r)
           value == Latest(r, s) + 1
<1>1. s \in Scopes /\ Tail(wanted[r]) \in Seq(Scopes)
  BY WantedType DEF Allocate
<1>2. value \in Nat
  BY <1>1, LatestType
<1>3. [scope |-> s, value |-> value, by |-> r] \in Number
  BY <1>1, <1>2 DEF Number
<1> QED
  BY <1>1, <1>2, <1>3 DEF SequenceTypeOK, Allocate

LEMMA TypeCommit ==
    ASSUME SequenceTypeOK, JobInv, NEW r \in Transactions, Commit(r)
    PROVE  SequenceTypeOK'
<1>1. job[r].prefix \in Prefixes
  BY JobTypes DEF Commit, JobInv
<1>2. counter' \in [Scopes -> Nat] /\ prefix' \in [Scopes -> Prefixes \cup {NoPrefix}]
  BY <1>1 DEF SequenceTypeOK, Commit
<1>3. issued' \in SUBSET Number /\ << >> \in Seq(Scopes)
  BY DEF SequenceTypeOK, Commit
<1> QED
  BY <1>2, <1>3 DEF SequenceTypeOK, Commit, Forget

LEMMA TypeConfigure ==
    ASSUME SequenceTypeOK, JobInv, NEW r \in Transactions, Configure(r)
    PROVE  SequenceTypeOK'
<1>1. job[r].prefix \in Prefixes /\ Wanted(r) \in Scopes
  BY JobTypes, WantedType DEF Configure, JobInv
<1>2. CASE Rollback(r)
  BY <1>2, TypeRollback
<1>3. CASE found[r] = "row" \/ prefix[Wanted(r)] = NoPrefix
  <2>1. /\ prefix' = [prefix EXCEPT ![Wanted(r)] = job[r].prefix]
        /\ counter' = IF found[r] = "row" THEN counter ELSE [counter EXCEPT ![Wanted(r)] = 0]
        /\ phase' = [phase EXCEPT ![r] = "committed"]
        /\ Forget(r)
        /\ UNCHANGED <<job, issued, found>>
    BY <1>3 DEF Configure
  <2>2. prefix' \in [Scopes -> Prefixes \cup {NoPrefix}] /\ counter' \in [Scopes -> Nat]
    BY <1>1, <2>1 DEF SequenceTypeOK
  <2>3. << >> \in Seq(Scopes) /\ {} \in SUBSET Number
    OBVIOUS
  <2> QED
    BY <2>1, <2>2, <2>3 DEF SequenceTypeOK, Forget
<1> QED
  BY <1>2, <1>3 DEF Configure

-----------------------------------------------------------------------------
(* Every step preserves the invariant *)

LEMMA SequenceInvInit == SequenceInit => SequenceInv
<1> SUFFICES ASSUME SequenceInit PROVE SequenceInv
  OBVIOUS
<1>1. SequenceTypeOK
  BY SequenceTypeInit
<1>2. JobInv /\ WriterInv /\ DraftInv /\ DrawnInv
  BY NamesAssumption DEF SequenceInit, JobInv, WriterInv, DraftInv, DrawnInv, Working
<1>3. IssuedInv /\ NoDuplicates
  BY DEF SequenceInit, IssuedInv, NoDuplicates
<1> QED
  BY <1>1, <1>2, <1>3 DEF SequenceInv

LEMMA InvRollback ==
    ASSUME SequenceInv, NEW r \in Transactions, Rollback(r)
    PROVE  SequenceInv'
<1>1. SequenceTypeOK'
  BY TypeRollback DEF SequenceInv
<1>2. JobInv' /\ WriterInv'
  BY NamesAssumption DEF SequenceInv, SequenceTypeOK, JobInv, WriterInv, Working, Rollback, Forget
<1>3. DraftInv'
  <2> SUFFICES ASSUME NEW q \in Transactions, NEW d \in draft'[q]
               PROVE  /\ d.by = q /\ writer'[d.scope] = q
                      /\ counter[d.scope] < d.value /\ d.value <= mine'[q][d.scope]
    BY DEF DraftInv, Rollback
  <2>1. q # r /\ d \in draft[q]
    BY DEF SequenceInv, SequenceTypeOK, Rollback, Forget
  <2>2. d.scope \in Scopes
    BY <2>1 DEF SequenceInv, SequenceTypeOK, Number
  <2>3. d.by = q /\ writer[d.scope] = q /\ counter[d.scope] < d.value /\ d.value <= mine[q][d.scope]
    BY <2>1 DEF SequenceInv, DraftInv
  <2> QED
    BY <2>1, <2>2, <2>3 DEF SequenceInv, SequenceTypeOK, Rollback, Forget
<1>4. DrawnInv'
  BY NamesAssumption DEF SequenceInv, SequenceTypeOK, DrawnInv, Rollback, Forget
<1>5. IssuedInv' /\ NoDuplicates'
  BY DEF SequenceInv, IssuedInv, NoDuplicates, Rollback
<1> QED
  BY <1>1, <1>2, <1>3, <1>4, <1>5 DEF SequenceInv

LEMMA InvBegin ==
    ASSUME SequenceInv, NEW r \in Transactions, Begin(r)
    PROVE  SequenceInv'
<1>1. SequenceTypeOK'
  BY TypeBegin DEF SequenceInv
<1>2. PICK j \in Jobs : job' = [job EXCEPT ![r] = j] /\ wanted' = [wanted EXCEPT ![r] = j.scopes]
  BY DEF Begin
<1>3. JobInv'
  BY <1>2, JobTypes DEF SequenceInv, SequenceTypeOK, JobInv, Working, Begin
<1>4. WriterInv'
  BY <1>2 DEF SequenceInv, SequenceTypeOK, WriterInv, Working, Begin
<1>5. DraftInv' /\ DrawnInv' /\ IssuedInv' /\ NoDuplicates'
  BY DEF SequenceInv, DraftInv, DrawnInv, IssuedInv, NoDuplicates, Begin
<1> QED
  BY <1>1, <1>3, <1>4, <1>5 DEF SequenceInv

LEMMA InvAllocate ==
    ASSUME SequenceInv, NEW r \in Transactions, Allocate(r)
    PROVE  SequenceInv'
<1> DEFINE s == Wanted(r)
           value == Latest(r, s) + 1
           number == [scope |-> s, value |-> value, by |-> r]
<1>1. SequenceTypeOK'
  BY TypeAllocate DEF SequenceInv
<1>2. s \in Scopes /\ value \in Nat
  BY WantedType, LatestType DEF SequenceInv, Allocate
<1>3. /\ mine' = [mine EXCEPT ![r][s] = value]
      /\ writer' = [writer EXCEPT ![s] = r]
      /\ draft' = [draft EXCEPT ![r] = @ \cup {number}]
      /\ UNCHANGED <<phase, job, counter, prefix, issued>>
  BY DEF Allocate
<1>4. writer[s] = r \/ writer[s] = Nobody
  BY DEF Allocate, CanWrite
<1>5. /\ writer[s] = r => value = mine[r][s] + 1
      /\ writer[s] # r => value = counter[s] + 1
      /\ counter[s] < value
  BY <1>2 DEF SequenceInv, SequenceTypeOK, DrawnInv, Latest
<1> HIDE DEF s, value
<1>6. JobInv'
  <2>1. job[r].op = "document" /\ \A q \in Transactions \ {r} : wanted'[q] = wanted[q]
    BY DEF Allocate, SequenceInv, SequenceTypeOK
  <2> QED
    BY <1>3, <2>1 DEF SequenceInv, JobInv, Working
<1>10. WriterInv'
  <2>1. Working(r) /\ job[r].op = "document"
    BY DEF Allocate
  <2>2. \A t \in Scopes : writer'[t] = IF t = s THEN r ELSE writer[t]
    BY <1>2, <1>3 DEF SequenceInv, SequenceTypeOK
  <2> QED
    BY <1>3, <2>1, <2>2 DEF SequenceInv, WriterInv, Working
<1>7. DraftInv'
  <2> SUFFICES ASSUME NEW q \in Transactions, NEW d \in draft'[q]
               PROVE  /\ d.by = q /\ writer'[d.scope] = q
                      /\ counter[d.scope] < d.value /\ d.value <= mine'[q][d.scope]
    BY <1>3 DEF DraftInv
  <2>1. CASE d \in draft[q]
    <3>1. d \in Number /\ d.scope \in Scopes /\ d.value \in Nat
      BY <2>1 DEF SequenceInv, SequenceTypeOK, Number
    <3>2. d.by = q /\ writer[d.scope] = q /\ counter[d.scope] < d.value /\ d.value <= mine[q][d.scope]
      BY <2>1 DEF SequenceInv, DraftInv
    <3>3. CASE d.scope = s
      BY <1>2, <1>3, <1>4, <1>5, <3>1, <3>2, <3>3, NamesAssumption DEF SequenceInv, SequenceTypeOK
    <3>4. CASE d.scope # s
      BY <1>2, <1>3, <3>1, <3>2, <3>4 DEF SequenceInv, SequenceTypeOK
    <3> QED
      BY <3>3, <3>4
  <2>2. CASE q = r /\ d = number
    BY <1>2, <1>3, <1>5, <2>2 DEF SequenceInv, SequenceTypeOK
  <2> QED
    BY <1>3, <2>1, <2>2 DEF SequenceInv, SequenceTypeOK
<1>8. DrawnInv'
  <2> SUFFICES ASSUME NEW q \in Transactions, NEW t \in Scopes, writer'[t] = q
               PROVE  /\ counter[t] <= mine'[q][t]
                      /\ \A n \in Nat : (counter[t] < n /\ n <= mine'[q][t]) =>
                            [scope |-> t, value |-> n, by |-> q] \in draft'[q]
    BY <1>3 DEF DrawnInv
  <2>1. CASE t = s
    <3>1. q = r /\ mine'[q][t] = value
      BY <1>2, <1>3, <2>1 DEF SequenceInv, SequenceTypeOK
    <3>2. ASSUME NEW n \in Nat, counter[t] < n, n <= value
          PROVE  [scope |-> t, value |-> n, by |-> q] \in draft'[q]
      <4>1. CASE n = value
        BY <1>3, <2>1, <3>1, <4>1 DEF SequenceInv, SequenceTypeOK
      <4>2. CASE n # value
        <5>1. writer[s] = r /\ n <= mine[r][s]
          BY <1>2, <1>5, <2>1, <3>2, <4>2 DEF SequenceInv, SequenceTypeOK
        <5>2. [scope |-> t, value |-> n, by |-> q] \in draft[r]
          BY <2>1, <3>1, <3>2, <5>1 DEF SequenceInv, DrawnInv
        <5> QED
          BY <1>3, <3>1, <5>2 DEF SequenceInv, SequenceTypeOK
      <4> QED
        BY <4>1, <4>2
    <3>3. counter[t] <= value
      BY <1>2, <1>5, <2>1 DEF SequenceInv, SequenceTypeOK
    <3> QED
      BY <3>1, <3>2, <3>3
  <2>2. CASE t # s
    <3>1. writer[t] = q /\ mine'[q][t] = mine[q][t]
      BY <1>2, <1>3, <2>2 DEF SequenceInv, SequenceTypeOK
    <3>2. draft[q] \subseteq draft'[q]
      BY <1>3 DEF SequenceInv, SequenceTypeOK
    <3> QED
      BY <3>1, <3>2 DEF SequenceInv, DrawnInv
  <2> QED
    BY <2>1, <2>2
<1>9. IssuedInv' /\ NoDuplicates'
  BY <1>3 DEF SequenceInv, IssuedInv, NoDuplicates
<1> QED
  BY <1>1, <1>6, <1>7, <1>8, <1>9, <1>10 DEF SequenceInv

LEMMA InvReadScope ==
    ASSUME SequenceInv, NEW r \in Transactions, ReadScope(r)
    PROVE  SequenceInv'
  BY DEF SequenceInv, SequenceTypeOK, JobInv, WriterInv, DraftInv, DrawnInv, IssuedInv, NoDuplicates,
     Working, ReadScope

LEMMA InvConfigure ==
    ASSUME SequenceInv, NEW r \in Transactions, Configure(r)
    PROVE  SequenceInv'
<1>1. CASE Rollback(r)
  BY <1>1, InvRollback
<1>2. CASE found[r] = "row" \/ prefix[Wanted(r)] = NoPrefix
  <2>1. /\ job[r].op = "configure" /\ Working(r)
        /\ job[r].prefix \in Prefixes /\ Wanted(r) \in Scopes
    BY JobTypes, WantedType DEF Configure, SequenceInv, JobInv
  <2>2. /\ prefix' = [prefix EXCEPT ![Wanted(r)] = job[r].prefix]
        /\ counter' = IF found[r] = "row" THEN counter ELSE [counter EXCEPT ![Wanted(r)] = 0]
        /\ phase' = [phase EXCEPT ![r] = "committed"]
        /\ Forget(r)
        /\ UNCHANGED <<job, issued, found>>
    BY <1>2 DEF Configure
  \* The transaction of a configure holds no row, so it has nothing to forget.
  <2>3. \A s \in Scopes : writer[s] # r
    BY <2>1 DEF SequenceInv, WriterInv
  <2>4. writer' = writer
    BY <2>2, <2>3 DEF SequenceInv, SequenceTypeOK, Forget
  \* A row that is inserted now has had no numbers: nothing is rewound.
  <2>5. counter' = counter
    BY <1>2, <2>1, <2>2 DEF SequenceInv, SequenceTypeOK, IssuedInv
  <2>6. SequenceTypeOK'
    BY TypeConfigure DEF SequenceInv
  <2>7. JobInv' /\ WriterInv'
    BY <2>2, <2>3, <2>4 DEF SequenceInv, SequenceTypeOK, JobInv, WriterInv, Working, Forget
  <2>8. DraftInv'
    <3> SUFFICES ASSUME NEW q \in Transactions, NEW d \in draft'[q]
                 PROVE  /\ d.by = q /\ writer[d.scope] = q
                        /\ counter[d.scope] < d.value /\ d.value <= mine'[q][d.scope]
      BY <2>4, <2>5 DEF DraftInv
    <3>1. q # r /\ d \in draft[q]
      BY <2>2 DEF SequenceInv, SequenceTypeOK, Forget
    <3> QED
      BY <2>2, <3>1 DEF SequenceInv, SequenceTypeOK, DraftInv, Forget
  <2>9. DrawnInv'
    BY <2>2, <2>3, <2>4, <2>5 DEF SequenceInv, SequenceTypeOK, DrawnInv, Forget
  <2>10. IssuedInv' /\ NoDuplicates'
    BY <2>1, <2>2, <2>5, NamesAssumption DEF SequenceInv, SequenceTypeOK, IssuedInv, NoDuplicates
  <2> QED
    BY <2>6, <2>7, <2>8, <2>9, <2>10 DEF SequenceInv
<1> QED
  BY <1>1, <1>2 DEF Configure

LEMMA InvCommit ==
    ASSUME SequenceInv, NEW r \in Transactions, Commit(r)
    PROVE  SequenceInv'
<1>1. SequenceTypeOK'
  BY TypeCommit DEF SequenceInv
<1>2. /\ counter' = [s \in Scopes |-> IF writer[s] = r THEN mine[r][s] ELSE counter[s]]
      /\ issued' = issued \cup draft[r]
      /\ Forget(r)
      /\ phase' = [phase EXCEPT ![r] = "committed"]
      /\ UNCHANGED <<job, found>>
  BY DEF Commit
<1>3. job[r].prefix \in Prefixes /\ job[r].prefix # NoPrefix
  BY JobTypes, NamesAssumption DEF Commit, SequenceInv, JobInv
<1>4. JobInv' /\ WriterInv'
  BY <1>2, NamesAssumption DEF SequenceInv, SequenceTypeOK, JobInv, WriterInv, Working, Forget
<1>5. DraftInv'
  <2> SUFFICES ASSUME NEW q \in Transactions, NEW d \in draft'[q]
               PROVE  /\ d.by = q /\ writer'[d.scope] = q
                      /\ counter'[d.scope] < d.value /\ d.value <= mine'[q][d.scope]
    BY DEF DraftInv
  <2>1. q # r /\ d \in draft[q]
    BY <1>2 DEF SequenceInv, SequenceTypeOK, Forget
  <2>2. d.scope \in Scopes
    BY <2>1 DEF SequenceInv, SequenceTypeOK, Number
  <2>3. d.by = q /\ writer[d.scope] = q /\ counter[d.scope] < d.value /\ d.value <= mine[q][d.scope]
    BY <2>1 DEF SequenceInv, DraftInv
  <2> QED
    BY <1>2, <2>1, <2>2, <2>3 DEF SequenceInv, SequenceTypeOK, Forget
<1>6. DrawnInv'
  BY <1>2, NamesAssumption DEF SequenceInv, SequenceTypeOK, DrawnInv, Forget
\* The document's numbers extend the committed ones of every scope it holds, and only
\* of those.
<1>7. \A s \in Scopes : counter[s] <= counter'[s]
  BY <1>2 DEF SequenceInv, SequenceTypeOK, DrawnInv
<1>8. \A d \in draft[r] : /\ d \in Number
                          /\ counter[d.scope] < d.value
                          /\ d.value <= counter'[d.scope]
  <2> SUFFICES ASSUME NEW d \in draft[r]
               PROVE  d \in Number /\ counter[d.scope] < d.value /\ d.value <= counter'[d.scope]
    OBVIOUS
  <2>1. d \in Number /\ d.scope \in Scopes
    BY DEF SequenceInv, SequenceTypeOK, Number
  <2> QED
    BY <1>2, <2>1 DEF SequenceInv, SequenceTypeOK, DraftInv
<1>9. IssuedInv'
  <2>1. \A i \in issued' : 1 <= i.value /\ i.value <= counter'[i.scope]
    <3> SUFFICES ASSUME NEW i \in issued'
                 PROVE  1 <= i.value /\ i.value <= counter'[i.scope]
      OBVIOUS
    <3>1. CASE i \in issued
      <4>1. i.scope \in Scopes /\ i.value \in Nat /\ 1 <= i.value /\ i.value <= counter[i.scope]
        BY <3>1 DEF SequenceInv, SequenceTypeOK, Number, IssuedInv
      <4> QED
        BY <1>1, <1>7, <4>1 DEF SequenceInv, SequenceTypeOK
    <3>2. CASE i \in draft[r]
      <4>1. i.scope \in Scopes /\ i.value \in Nat
        BY <1>8, <3>2 DEF Number
      <4> QED
        BY <1>8, <3>2, <4>1 DEF SequenceInv, SequenceTypeOK
    <3> QED
      BY <1>2, <3>1, <3>2
  <2>2. \A s \in Scopes : \A n \in 1..counter'[s] : \E i \in issued' : i.scope = s /\ i.value = n
    <3> SUFFICES ASSUME NEW s \in Scopes, NEW n \in 1..counter'[s]
                 PROVE  \E i \in issued' : i.scope = s /\ i.value = n
      OBVIOUS
    <3>1. counter[s] \in Nat /\ counter'[s] \in Nat /\ n \in Nat
      BY <1>1 DEF SequenceInv, SequenceTypeOK
    <3>2. CASE n <= counter[s]
      BY <1>2, <3>1, <3>2 DEF SequenceInv, IssuedInv
    <3>3. CASE counter[s] < n
      <4>1. writer[s] = r /\ n <= mine[r][s]
        BY <1>2, <3>1, <3>3
      <4>2. [scope |-> s, value |-> n, by |-> r] \in draft[r]
        BY <3>1, <3>3, <4>1 DEF SequenceInv, DrawnInv
      <4> QED
        BY <1>2, <4>2
    <3> QED
      BY <3>1, <3>2, <3>3
  <2>3. \A s \in Scopes : prefix'[s] = NoPrefix => counter'[s] = 0
    BY <1>2, <1>3 DEF SequenceInv, SequenceTypeOK, IssuedInv, Commit
  <2> QED
    BY <2>1, <2>2, <2>3 DEF IssuedInv
<1>10. NoDuplicates'
  <2> SUFFICES ASSUME NEW i \in issued', NEW j \in issued', i.scope = j.scope, i.value = j.value
               PROVE  i = j
    BY DEF NoDuplicates
  <2>1. \A k \in issued : k \in Number /\ k.value <= counter[k.scope]
    BY DEF SequenceInv, SequenceTypeOK, IssuedInv
  <2>2. \A k \in Number : k.scope \in Scopes /\ k.value \in Nat /\ counter[k.scope] \in Nat
    BY DEF SequenceInv, SequenceTypeOK, Number
  <2>3. CASE i \in issued /\ j \in issued
    BY <2>3 DEF SequenceInv, NoDuplicates
  <2>4. CASE i \in draft[r] /\ j \in draft[r]
    BY <1>8, <2>4 DEF SequenceInv, DraftInv, Number
  <2>5. CASE (i \in draft[r] /\ j \in issued) \/ (i \in issued /\ j \in draft[r])
    BY <1>8, <2>1, <2>2, <2>5
  <2> QED
    BY <1>2, <2>3, <2>4, <2>5
<1> QED
  BY <1>1, <1>4, <1>5, <1>6, <1>9, <1>10 DEF SequenceInv

LEMMA SequenceInvNext == SequenceInv /\ [SequenceNext]_sequenceVars => SequenceInv'
<1> SUFFICES ASSUME SequenceInv, [SequenceNext]_sequenceVars
             PROVE  SequenceInv'
  OBVIOUS
<1>1. CASE UNCHANGED sequenceVars
  BY <1>1 DEF sequenceVars, SequenceInv, SequenceTypeOK, JobInv, WriterInv, DraftInv, DrawnInv, IssuedInv,
     NoDuplicates, Working
<1>2. CASE AllEnded
  BY <1>1, <1>2 DEF AllEnded
<1>3. ASSUME NEW r \in Transactions, Steps(r) \/ Abandon(r)
      PROVE  SequenceInv'
  <2>1. CASE Exhausted(r) \/ DeadlockVictim(r) \/ Abandon(r)
    BY <2>1, InvRollback DEF Exhausted, DeadlockVictim, Abandon
  <2>2. CASE Begin(r) \/ Allocate(r) \/ Commit(r) \/ ReadScope(r) \/ Configure(r)
    BY <2>2, InvBegin, InvAllocate, InvCommit, InvReadScope, InvConfigure
  <2> QED
    BY <1>3, <2>1, <2>2 DEF Steps
<1> QED
  BY <1>1, <1>2, <1>3 DEF SequenceNext

LEMMA SequenceAlways == SequenceSpec => []SequenceInv
<1> QED
  BY SequenceInvInit, SequenceInvNext, PTL DEF SequenceSpec

-----------------------------------------------------------------------------
(* Theorems *)

\* Every variable of the numbering keeps its type, for any transactions, scopes and jobs.
THEOREM SequenceTypeCorrect == SequenceSpec => []SequenceTypeOK
<1>1. SequenceInv => SequenceTypeOK
  BY DEF SequenceInv
<1> QED
  BY <1>1, SequenceAlways, PTL

\* Whatever transactions roll back, die, deadlock or reconfigure the scope, the numbers
\* on the committed documents of every scope are 1 up to its counter.
THEOREM NumbersWithoutGaps == SequenceSpec => []NoGaps
<1>1. SequenceInv => NoGaps
  <2> SUFFICES ASSUME SequenceInv, NEW s \in Scopes
               PROVE  NumbersOf(s) = 1..counter[s]
    BY DEF NoGaps
  <2>1. \A i \in issued : i.value \in Nat /\ counter[i.scope] \in Nat
    BY DEF SequenceInv, SequenceTypeOK, Number
  <2>2. NumbersOf(s) \subseteq 1..counter[s]
    BY <2>1 DEF NumbersOf, SequenceInv, IssuedInv
  <2>3. 1..counter[s] \subseteq NumbersOf(s)
    BY DEF NumbersOf, SequenceInv, IssuedInv
  <2> QED
    BY <2>2, <2>3
<1> QED
  BY <1>1, SequenceAlways, PTL

\* The upsert's row lock is enough: no two committed documents of a scope carry the
\* same number.
THEOREM NumbersWithoutDuplicates == SequenceSpec => []NoDuplicates
<1>1. SequenceInv => NoDuplicates
  BY DEF SequenceInv
<1> QED
  BY <1>1, SequenceAlways, PTL

\* Of the two together: a committed series is complete and free of repetitions.
THEOREM NumbersAreInOrder == SequenceSpec => []NumbersInOrder
<1> QED
  BY NumbersWithoutGaps, NumbersWithoutDuplicates, PTL DEF NumbersInOrder

-----------------------------------------------------------------------------
(* The implementation of the number book *)

\* Where numbers are unique, the owner of a number is the document that carries it.
LEMMA TheOwner ==
    ASSUME NEW I, NEW i \in I,
           \A j, k \in I : (j.scope = k.scope /\ j.value = k.value) => j = k
    PROVE  (CHOOSE j \in I : j.scope = i.scope /\ j.value = i.value) = i
  OBVIOUS

\* A commit appends the document's numbers to the scopes it drew from and keeps every
\* number that was given before.
LEMMA CommitRecords ==
    ASSUME SequenceInv, SequenceInv', NEW r \in Transactions, Commit(r)
    PROVE  Book!Record(r) \/ (counter' = counter /\ issued' = issued)
<1> DEFINE some == {s \in Scopes : counter'[s] # counter[s]}
           was(s) == [n \in 1..counter[s] |-> Owner(s, n)]
           is(s) == [n \in 1..counter'[s] |-> (CHOOSE i \in issued' : i.scope = s /\ i.value = n).by]
<1>1. /\ counter' = [s \in Scopes |-> IF writer[s] = r THEN mine[r][s] ELSE counter[s]]
      /\ issued' = issued \cup draft[r]
  BY DEF Commit
<1>2. \A s \in Scopes : counter[s] \in Nat /\ counter'[s] \in Nat /\ counter[s] <= counter'[s]
  BY <1>1 DEF SequenceInv, SequenceTypeOK, DrawnInv
<1>3. ASSUME NEW s \in Scopes, NEW n \in 1..counter[s]
      PROVE  is(s)[n] = was(s)[n]
  <2>1. PICK i \in issued : i.scope = s /\ i.value = n
    BY DEF SequenceInv, IssuedInv
  <2>2. (CHOOSE j \in issued : j.scope = s /\ j.value = n) = i
    BY <2>1, TheOwner DEF SequenceInv, NoDuplicates
  <2>3. (CHOOSE j \in issued' : j.scope = s /\ j.value = n) = i
    BY <1>1, <2>1, TheOwner DEF SequenceInv, NoDuplicates
  <2>4. n \in 1..counter'[s]
    BY <1>2
  <2> QED
    BY <2>2, <2>3, <2>4 DEF Owner
<1>4. ASSUME NEW s \in Scopes, NEW n \in 1..counter'[s], counter[s] < n
      PROVE  is(s)[n] = r
  <2>1. n \in Nat /\ writer[s] = r /\ n <= mine[r][s]
    BY <1>1, <1>2, <1>4
  <2>2. [scope |-> s, value |-> n, by |-> r] \in issued'
    BY <1>1, <1>4, <2>1 DEF SequenceInv, DrawnInv
  <2>3. (CHOOSE j \in issued' : j.scope = s /\ j.value = n) = [scope |-> s, value |-> n, by |-> r]
    BY <2>2, TheOwner DEF SequenceInv, NoDuplicates
  <2> QED
    BY <2>3
<1>5. CASE some = {}
  <2>1. counter' = counter
    BY <1>5 DEF SequenceInv, SequenceTypeOK
  <2>2. draft[r] = {}
    <3> SUFFICES ASSUME NEW d \in draft[r] PROVE FALSE
      OBVIOUS
    <3>1. d.scope \in Scopes /\ d.value \in Nat
      BY DEF SequenceInv, SequenceTypeOK, Number
    <3>2. writer[d.scope] = r /\ counter[d.scope] < d.value /\ d.value <= mine[r][d.scope]
      BY DEF SequenceInv, DraftInv
    <3> QED
      BY <1>1, <1>2, <2>1, <3>1, <3>2 DEF SequenceInv, SequenceTypeOK
  <2> QED
    BY <1>1, <2>1, <2>2
<1>6. CASE some # {}
  <2> HIDE DEF some
  <2>1. \A s \in Scopes \ some : is(s) = was(s)
    BY <1>3 DEF some
  <2>2. ASSUME NEW s \in some
        PROVE  /\ Len(is(s)) > Len(was(s))
               /\ \A n \in 1..Len(is(s)) :
                     is(s)[n] = IF n <= Len(was(s)) THEN was(s)[n] ELSE r
    <3>1. s \in Scopes /\ counter[s] < counter'[s]
      BY <1>2 DEF some
    <3>2. Len(is(s)) = counter'[s] /\ Len(was(s)) = counter[s]
      BY <1>2, <3>1
    <3> HIDE DEF is, was
    <3> QED
      BY <1>2, <1>3, <1>4, <3>1, <3>2
  <2> HIDE DEF is, was
  <2>3. /\ some \in SUBSET Scopes
        /\ \A s \in Scopes \ some : [t \in Scopes |-> is(t)][s] = [t \in Scopes |-> was(t)][s]
        /\ \A s \in some :
              /\ Len([t \in Scopes |-> is(t)][s]) > Len([t \in Scopes |-> was(t)][s])
              /\ \A n \in 1..Len([t \in Scopes |-> is(t)][s]) :
                    [t \in Scopes |-> is(t)][s][n] =
                        IF n <= Len([t \in Scopes |-> was(t)][s])
                        THEN [t \in Scopes |-> was(t)][s][n] ELSE r
    BY <2>1, <2>2 DEF some
  <2> QED
    BY <1>6, <2>3 DEF Book!Record, is, was, Owner
<1> QED
  BY <1>5, <1>6

\* The numbering with its row locks, rollbacks and deadlocks implements the abstract
\* number book: documents appear on it one commit at a time, at its end.
THEOREM ImplementsNumberBook == SequenceSpec => BookSpec
<1>1. SequenceInit => Book!Init
  <2> SUFFICES ASSUME SequenceInit PROVE Book!Init
    OBVIOUS
  <2>1. \A s \in Scopes : [n \in 1..counter[s] |-> Owner(s, n)] = << >>
    BY DEF SequenceInit
  <2> QED
    BY <2>1 DEF Book!Init
<1>2. SequenceInv /\ SequenceInv' /\ [SequenceNext]_sequenceVars => [Book!Next]_[s \in Scopes |-> [n \in 1..counter[s] |-> Owner(s, n)]]
  <2> SUFFICES ASSUME SequenceInv, SequenceInv', [SequenceNext]_sequenceVars
               PROVE  Book!Next \/ UNCHANGED [s \in Scopes |-> [n \in 1..counter[s] |-> Owner(s, n)]]
    OBVIOUS
  <2>1. ASSUME NEW r \in Transactions, Commit(r)
        PROVE  Book!Next \/ (counter' = counter /\ issued' = issued)
    BY <2>1, CommitRecords DEF Book!Next
  <2>2. ASSUME NEW r \in Transactions, Configure(r)
        PROVE  counter' = counter /\ issued' = issued
    <3>1. Working(r) /\ Wanted(r) \in Scopes /\ issued' = issued
      BY <2>2, WantedType DEF Configure, SequenceInv, JobInv, Rollback
    <3> QED
      BY <2>2, <3>1 DEF Configure, Rollback, SequenceInv, SequenceTypeOK, IssuedInv
  <2>3. Book!Next \/ (counter' = counter /\ issued' = issued)
    BY <2>1, <2>2 DEF SequenceNext, Steps, Begin, Allocate, Exhausted, DeadlockVictim, Abandon, ReadScope,
       Rollback, AllEnded, sequenceVars
  <2>4. CASE counter' = counter /\ issued' = issued
    <3>1. \A s \in Scopes : [n \in 1..counter'[s] |-> Owner(s, n)'] = [n \in 1..counter[s] |-> Owner(s, n)]
      BY <2>4 DEF Owner
    <3>2. [s \in Scopes |-> [n \in 1..counter'[s] |-> Owner(s, n)']]
            = [s \in Scopes |-> [n \in 1..counter[s] |-> Owner(s, n)]]
      BY <3>1, Zenon
    <3> QED
      BY <3>2
  <2> QED
    BY <2>3, <2>4
<1> QED
  BY <1>1, <1>2, SequenceAlways, PTL DEF SequenceSpec, BookSpec, Book!Spec

-----------------------------------------------------------------------------
(* EInvoiceChain: the inductive invariant *)

\* What a request holds at each label, whatever the others do.
PhaseInv == \A r \in Requests :
    /\ pc[r] = "idle" => row[r] = 0 /\ todo[r] = <<>>
    /\ pc[r] # "idle" => op[r] \in Ops
    /\ pc[r] = "void" => op[r].kind = "void" /\ row[r] = 0 /\ todo[r] = <<>>
    /\ pc[r] \notin {"idle", "void"} => op[r].kind # "void"
    /\ pc[r] = "context" => row[r] # 0 \/ todo[r] # <<>>
    /\ pc[r] \in {"check", "reserve", "prepare"} => row[r] = 0 /\ todo[r] # <<>>
    /\ pc[r] \in {"file", "answered"} => row[r] # 0
    /\ pc[r] \in {"check", "reserve", "prepare", "file", "answered"} => ctx[r] \in Contexts
    /\ pc[r] = "answered" <=> answer[r] # "none"

\* Who is about to extend a chain holds its row, and has read it as it still is.
SlotInv == \A r \in Requests :
    pc[r] = "prepare" => lock[ctx[r].env] = r /\ slot[r] = chain[ctx[r].env]

\* The row of a chain tells the last of its documents; every place is taken by one.
ChainInv ==
    /\ \A s \in 1..Len(subs) : subs[s].hash = s
    /\ \A e \in Environments : \A n \in 1..Count(e) : Ranked(e, n) # {}
    /\ \A e \in Environments :
          /\ chain[e].counter = Count(e)
          /\ chain[e].last = IF Count(e) = 0 THEN Genesis ELSE subs[Nth(e, Count(e))].hash

\* A submission somebody is filing was not accepted when it was read, and is not by now
\* unless it was overtaken.
FilingInv == \A r \in Requests :
    row[r] # 0 /\ r \notin overtaken => subs[row[r]].status # "accepted"

IInv == TypeOK /\ PhaseInv /\ SlotInv /\ ChainInv

-----------------------------------------------------------------------------
(* Types *)

\* The steps of one request.
Step(r) ==
    \/ \E o \in Ops : Start(r, o)
    \/ \E o \in Ops : VoidRead(r, o)
    \/ RetryOp \in Ops /\ \E s \in DOMAIN subs : Retry(r, s)
    \/ Context(r) \/ Check(r) \/ Reserve(r) \/ Prepare(r)
    \/ Stop(r) \/ File(r) \/ Record(r) \/ VoidCommit(r) \/ Fail(r)

LEMMA NextSteps == Next => \E r \in Requests : Step(r)
  BY Zenon DEF Next, Step

LEMMA OpTypes ==
    ASSUME NEW o \in Ops
    PROVE  /\ o.kind = "submit" => o.invoice \in Invoices /\ o.env \in Environments \cup {None}
           /\ o.kind = "sync" => o.list \in Seq(Invoices)
           /\ o.kind = "void" => o.invoice \in Invoices
  BY ChainAssumption DEF Submits, Syncs, Voids, RetryOp

LEMMA AtType ==
    ASSUME TypeOK, PhaseInv, NEW r \in Requests, pc[r] # "idle"
    PROVE  At(r) \in Invoices
<1>1. op[r] \in Ops
  BY DEF PhaseInv
<1>2. CASE op[r].kind = "void"
  BY <1>1, <1>2, OpTypes DEF At
<1>3. CASE op[r].kind # "void" /\ row[r] # 0
  <2>1. row[r] \in 1..Len(subs)
    BY <1>3 DEF TypeOK
  <2>2. subs[row[r]] \in Submissions
    BY <2>1 DEF TypeOK
  <2> QED
    BY <1>3, <2>2 DEF At, Submissions
<1>4. CASE op[r].kind # "void" /\ row[r] = 0
  <2>1. todo[r] \in Seq(Invoices) /\ todo[r] # <<>>
    BY <1>4 DEF PhaseInv, TypeOK
  <2> QED
    BY <1>4, <2>1 DEF At
<1> QED
  BY <1>2, <1>3, <1>4

LEMMA RestType ==
    ASSUME TypeOK, NEW r \in Requests
    PROVE  Rest(r) \in Seq(Invoices)
<1>1. todo[r] \in Seq(Invoices)
  BY DEF TypeOK
<1> QED
  BY <1>1 DEF Rest

LEMMA TypeEnds ==
    ASSUME TypeOK, NEW r \in Requests, NEW rest \in Seq(Invoices), Ends(r, rest)
    PROVE  /\ pc' \in [Requests -> {"idle", "context", "check", "reserve", "prepare", "file",
                                     "answered", "void"}]
           /\ op' \in [Requests -> Ops \cup {None}]
           /\ todo' \in [Requests -> Seq(Invoices)]
           /\ ctx' \in [Requests -> Contexts \cup {None}]
           /\ slot' \in [Requests -> Slots \cup {None}]
           /\ row' \in [Requests -> 0..Len(subs)]
           /\ answer' \in [Requests -> {"none", "accepted", "failed"}]
           /\ lock' \in [Environments -> Requests \cup {None}]
<1>1. Len(subs) \in Nat
  BY DEF TypeOK
<1> QED
  BY <1>1 DEF TypeOK, Ends, Goto

LEMMA TypeCommits ==
    ASSUME TypeOK, NEW r \in Requests, NEW i \in Invoices, Commits(r, i)
    PROVE  overtaken' \in SUBSET Requests /\ stale' \in SUBSET Invoices
  BY DEF TypeOK, Commits

LEMMA TypeInit == Init => TypeOK
  BY ChainAssumption DEF Init, TypeOK, Slots, Genesis

LEMMA TypeNext == TypeOK /\ PhaseInv /\ SlotInv /\ [Next]_vars => TypeOK'
<1> SUFFICES ASSUME TypeOK, PhaseInv, SlotInv, [Next]_vars PROVE TypeOK'
  OBVIOUS
<1> USE DEF tables, history
<1>0. Len(subs) \in Nat /\ MaxRequests \in Nat
  BY ChainAssumption DEF TypeOK
<1>1. ASSUME NEW r \in Requests, NEW o \in Ops, Start(r, o) PROVE TypeOK'
  <2>1. (IF o.kind = "submit" THEN <<o.invoice>> ELSE o.list) \in Seq(Invoices)
    BY <1>1, OpTypes DEF Start
  <2> QED
    BY <1>0, <1>1, <2>1 DEF Start, Goto, TypeOK
<1>2. ASSUME NEW r \in Requests, NEW s \in DOMAIN subs, RetryOp \in Ops, Retry(r, s) PROVE TypeOK'
  <2>1. s \in 1..Len(subs) /\ subs[s] \in Submissions
    BY DEF TypeOK
  <2>2. subs[s].invoice \in Invoices
    BY <2>1 DEF Submissions
  <2> QED
    BY <1>0, <1>2, <2>1, <2>2 DEF Retry, Goto, TypeOK
<1>3. ASSUME NEW r \in Requests, NEW o \in Ops, VoidRead(r, o) PROVE TypeOK'
  BY <1>0, <1>3 DEF VoidRead, Goto, TypeOK
<1>4. ASSUME NEW r \in Requests, Context(r) PROVE TypeOK'
  BY <1>4 DEF Context, Goto, TypeOK
<1>5. ASSUME NEW r \in Requests, Check(r) PROVE TypeOK'
  BY <1>5 DEF Check, Goto, TypeOK
<1>6. ASSUME NEW r \in Requests, Reserve(r) PROVE TypeOK'
  <2>1. ctx[r].env \in Environments
    BY <1>6 DEF Reserve, PhaseInv, Contexts
  <2> QED
    BY <1>6, <2>1 DEF Reserve, Goto, TypeOK
<1>7. ASSUME NEW r \in Requests, Prepare(r) PROVE TypeOK'
  <2> DEFINE i == Head(todo[r])
             s == Len(subs) + 1
             status == IF ctx[r].gate = "NO_CREDENTIALS" THEN "prepared" ELSE "signed"
             new == [invoice |-> i, hash |-> s, previous |-> slot[r].last,
                     counter |-> slot[r].counter + 1, status |-> status,
                     env |-> ctx[r].env, born |-> ctx[r].env]
  <2>1. i \in Invoices
    BY <1>7 DEF Prepare, PhaseInv, TypeOK
  <2>2. ctx[r].env \in Environments /\ slot[r] \in Slots
    BY <1>7 DEF Prepare, PhaseInv, SlotInv, TypeOK, Contexts, Slots
  <2>3. new \in Submissions
    BY <2>1, <2>2 DEF Submissions, Slots
  <2>4. subs' = Append(subs, new)
    BY <1>7 DEF Prepare
  <2> HIDE DEF new
  <2>5. subs' \in Seq(Submissions) /\ Len(subs') = Len(subs) + 1
    BY <2>3, <2>4 DEF TypeOK
  <2>6. /\ chain' = [chain EXCEPT ![ctx[r].env] = [last |-> s, counter |-> slot[r].counter + 1]]
        /\ invoice' = [invoice EXCEPT ![i].zatca = status]
        /\ lock' = [e \in Environments |-> IF lock[e] = r THEN None ELSE lock[e]]
        /\ row' = [row EXCEPT ![r] = s]
        /\ Goto(r, "file")
        /\ Commits(r, i)
        /\ slot' = [slot EXCEPT ![r] = None]
        /\ UNCHANGED <<taken, op, todo, ctx, answer, started, blurred>>
    BY <1>7 DEF Prepare
  <2>7. status \in {"prepared", "signed"}
    OBVIOUS
  <2> HIDE DEF status, i
  <2>8. chain' \in [Environments -> Slots]
    BY <1>0, <2>2, <2>6 DEF TypeOK, Slots
  <2>9. invoice' \in [Invoices -> [status : {"posted", "voided"},
                       zatca : {"none", "prepared", "signed", "accepted", "failed", "voided"}]]
    BY <2>1, <2>6, <2>7 DEF TypeOK
  <2>10. row' \in [Requests -> 0..Len(subs')]
    BY <1>0, <2>5, <2>6 DEF TypeOK
  <2>11. overtaken' \in SUBSET Requests /\ stale' \in SUBSET Invoices
    BY <2>1, <2>6, TypeCommits
  <2> QED
    BY <2>5, <2>6, <2>8, <2>9, <2>10, <2>11 DEF TypeOK, Goto
<1>8. ASSUME NEW r \in Requests, Stop(r) PROVE TypeOK'
  BY <1>8, RestType, TypeEnds DEF Stop, TypeOK
<1>9. ASSUME NEW r \in Requests, File(r) PROVE TypeOK'
  <2>1. ctx[r].env \in Environments /\ subs[row[r]].hash \in Nat /\ At(r) \in Invoices
    <3>1. ctx[r] \in Contexts /\ row[r] \in 1..Len(subs) /\ pc[r] # "idle"
      BY <1>9 DEF File, PhaseInv, TypeOK
    <3>2. subs[row[r]] \in Submissions
      BY <3>1 DEF TypeOK
    <3> QED
      BY <3>1, <3>2, AtType DEF Contexts, Submissions
  <2> HIDE DEF At
  <2>2. taken' \in SUBSET (Environments \X Nat)
    BY <1>9, <2>1 DEF File, TypeOK
  <2>3. answer' \in [Requests -> {"none", "accepted", "failed"}] /\ blurred' \in SUBSET Invoices
    BY <1>9, <2>1 DEF File, TypeOK
  <2> QED
    BY <1>9, <2>2, <2>3 DEF File, Goto, TypeOK
<1>10. ASSUME NEW r \in Requests, Record(r) PROVE TypeOK'
  <2>1. /\ ctx[r] \in Contexts /\ row[r] \in 1..Len(subs) /\ pc[r] # "idle"
        /\ answer[r] \in {"accepted", "failed"}
    BY <1>10 DEF Record, PhaseInv, TypeOK
  <2>2. At(r) \in Invoices
    BY <2>1, AtType
  <2> HIDE DEF At
  <2>3. ctx[r].env \in Environments
    BY <2>1 DEF Contexts
  <2>4. subs' \in Seq(Submissions) /\ Len(subs') = Len(subs)
    <3>1. subs' = [subs EXCEPT ![row[r]] =
                      [[subs[row[r]] EXCEPT !.status = answer[r]] EXCEPT !.env = ctx[r].env]]
      BY <1>10, <2>1 DEF Record, TypeOK
    <3>2. [[subs[row[r]] EXCEPT !.status = answer[r]] EXCEPT !.env = ctx[r].env] \in Submissions
      <4>1. subs[row[r]] \in Submissions
        BY <2>1 DEF TypeOK
      <4> QED
        BY <2>1, <2>3, <4>1 DEF Submissions
    <3> QED
      BY <2>1, <3>1, <3>2 DEF TypeOK
  <2>5. invoice' \in [Invoices -> [status : {"posted", "voided"},
                       zatca : {"none", "prepared", "signed", "accepted", "failed", "voided"}]]
    BY <1>10, <2>1, <2>2 DEF Record, TypeOK
  <2>6. overtaken' \in SUBSET Requests /\ stale' \in SUBSET Invoices
    BY <1>10, <2>2, TypeCommits DEF Record
  <2> QED
    BY <1>10, <2>4, <2>5, <2>6, RestType, TypeEnds DEF Record, TypeOK
<1>11. ASSUME NEW r \in Requests, VoidCommit(r) PROVE TypeOK'
  <2>1. op[r].invoice \in Invoices /\ <<>> \in Seq(Invoices)
    BY <1>11, OpTypes DEF VoidCommit, PhaseInv
  <2>2. invoice' \in [Invoices -> [status : {"posted", "voided"},
                       zatca : {"none", "prepared", "signed", "accepted", "failed", "voided"}]]
    BY <1>11, <2>1 DEF VoidCommit, TypeOK
  <2>3. overtaken' \in SUBSET Requests /\ stale' \in SUBSET Invoices
    BY <1>11, <2>1, TypeCommits DEF VoidCommit
  <2>4. Ends(r, <<>>) /\ UNCHANGED <<subs, chain, taken, started, blurred>>
    BY <1>11 DEF VoidCommit
  <2> QED
    BY <2>1, <2>2, <2>3, <2>4, TypeEnds DEF TypeOK
<1>12. ASSUME NEW r \in Requests, Fail(r) PROVE TypeOK'
  <2> PICK rest \in {Rest(r), <<>>} : Ends(r, rest)
    BY <1>12 DEF Fail
  <2>1. Rest(r) \in Seq(Invoices) /\ <<>> \in Seq(Invoices)
    BY RestType
  <2>2. rest \in Seq(Invoices)
    BY <2>1
  <2>3. At(r) \in Invoices
    BY <1>12, AtType DEF Fail
  <2>4. overtaken' = overtaken \ {r} /\ blurred' \subseteq blurred \cup {At(r)}
        /\ UNCHANGED <<invoice, subs, chain, taken, started, stale>>
    BY <1>12 DEF Fail
  <2> HIDE DEF At
  <2> QED
    BY <2>2, <2>3, <2>4, TypeEnds DEF TypeOK
<1>13. CASE UNCHANGED vars
  BY <1>13 DEF vars, request, TypeOK
<1>14. CASE Next
  <2> PICK r \in Requests : Step(r)
    BY <1>14, NextSteps
  <2> QED
    BY <1>1, <1>2, <1>3, <1>4, <1>5, <1>6, <1>7, <1>8, <1>9, <1>10, <1>11, <1>12 DEF Step
<1> QED
  BY <1>13, <1>14
-----------------------------------------------------------------------------
(* What requests hold *)

\* A request at the end of one invoice goes on with the next or is idle.
LEMMA PhaseEnds ==
    ASSUME TypeOK, PhaseInv, NEW r \in Requests, NEW rest \in Seq(Invoices), Ends(r, rest),
           rest # <<>> => pc[r] \notin {"idle", "void"}
    PROVE  PhaseInv'
  BY DEF TypeOK, PhaseInv, Ends, Goto

LEMMA PhaseStep ==
    ASSUME TypeOK, PhaseInv, NEW r \in Requests, Step(r)
    PROVE  PhaseInv'
<1>1. ASSUME NEW o \in Ops, Start(r, o) PROVE PhaseInv'
  <2>1. (IF o.kind = "submit" THEN <<o.invoice>> ELSE o.list) # <<>> /\ o.kind # "void"
    BY <1>1 DEF Start
  <2> QED
    BY <1>1, <2>1 DEF Start, Goto, PhaseInv, TypeOK
<1>2. ASSUME NEW s \in DOMAIN subs, RetryOp \in Ops, Retry(r, s) PROVE PhaseInv'
  <2>1. s # 0 /\ RetryOp.kind # "void"
    BY DEF TypeOK, RetryOp
  <2> QED
    BY <1>2, <2>1 DEF Retry, Goto, PhaseInv, TypeOK
<1>3. ASSUME NEW o \in Ops, VoidRead(r, o) PROVE PhaseInv'
  BY <1>3 DEF VoidRead, Goto, PhaseInv, TypeOK
<1>4. CASE Context(r)
  BY <1>4 DEF Context, Goto, PhaseInv, TypeOK
<1>5. CASE Check(r) \/ Reserve(r)
  BY <1>5 DEF Check, Reserve, Goto, PhaseInv, TypeOK
<1>6. CASE Prepare(r)
  <2>1. /\ row' = [row EXCEPT ![r] = Len(subs) + 1]
        /\ Goto(r, "file") /\ pc[r] = "prepare"
        /\ UNCHANGED <<op, todo, ctx, answer>>
    BY <1>6 DEF Prepare
  <2>2. Len(subs) + 1 # 0
    BY DEF TypeOK
  <2> QED
    BY <2>1, <2>2 DEF Goto, PhaseInv, TypeOK
<1>7. CASE Stop(r) \/ Record(r)
  <2>1. Ends(r, Rest(r)) /\ pc[r] \in {"file", "answered"}
    BY <1>7 DEF Stop, Record
  <2> QED
    BY <2>1, PhaseEnds, RestType
<1>8. CASE File(r)
  BY <1>8 DEF File, Goto, PhaseInv, TypeOK
<1>9. CASE VoidCommit(r)
  <2>1. <<>> \in Seq(Invoices) /\ Ends(r, <<>>)
    BY <1>9 DEF VoidCommit
  <2> QED
    BY <2>1, PhaseEnds
<1>10. CASE Fail(r)
  <2> PICK rest \in {Rest(r), <<>>} : Ends(r, rest)
    BY <1>10 DEF Fail
  <2>1. Rest(r) \in Seq(Invoices) /\ <<>> \in Seq(Invoices)
    BY RestType
  <2>2. rest # <<>> => pc[r] \notin {"idle", "void"}
    BY <1>10 DEF Fail, Rest, PhaseInv
  <2> QED
    BY <2>1, <2>2, PhaseEnds
<1> QED
  BY <1>1, <1>2, <1>3, <1>4, <1>5, <1>6, <1>7, <1>8, <1>9, <1>10 DEF Step

\* The row of a chain is locked from the moment it is read to the moment it is moved on.
LEMMA SlotStep ==
    ASSUME TypeOK, PhaseInv, SlotInv, NEW r \in Requests, Step(r)
    PROVE  SlotInv'
<1> DEFINE Released == lock' = [e \in Environments |-> IF lock[e] = r THEN None ELSE lock[e]]
<1>1. \A u \in Requests : pc[u] = "prepare" => ctx[u].env \in Environments
  BY DEF PhaseInv, Contexts
<1>2. ASSUME NEW o \in Ops, Start(r, o) \/ VoidRead(r, o) PROVE SlotInv'
  BY <1>2 DEF Start, VoidRead, Goto, SlotInv, TypeOK, tables
<1>3. ASSUME NEW s \in DOMAIN subs, Retry(r, s) PROVE SlotInv'
  BY <1>3 DEF Retry, Goto, SlotInv, TypeOK, tables
<1>4. CASE Context(r)
  BY <1>4 DEF Context, Goto, SlotInv, TypeOK, tables
<1>8. CASE Check(r) \/ File(r)
  BY <1>8 DEF Check, File, Goto, SlotInv, TypeOK, tables
<1>5. CASE Reserve(r)
  <2>1. ctx[r].env \in Environments /\ None \notin Requests
    BY <1>5, ChainAssumption DEF Reserve, PhaseInv, Contexts
  <2> QED
    BY <1>1, <1>5, <2>1 DEF Reserve, Goto, SlotInv, TypeOK, tables
<1>6. CASE Prepare(r)
  <2>1. /\ chain' = [chain EXCEPT ![ctx[r].env] =
                      [last |-> Len(subs) + 1, counter |-> slot[r].counter + 1]]
        /\ Released /\ Goto(r, "file") /\ pc[r] = "prepare"
        /\ slot' = [slot EXCEPT ![r] = None] /\ ctx' = ctx
    BY <1>6 DEF Prepare
  <2> QED
    BY <1>1, <2>1 DEF Goto, SlotInv, TypeOK
<1>7. CASE Stop(r) \/ Record(r) \/ VoidCommit(r) \/ Fail(r)
  <2>1. chain' = chain /\ \E rest : Ends(r, rest)
    BY <1>7 DEF Stop, Record, VoidCommit, Fail, tables
  <2>2. /\ Released
        /\ \A u \in Requests \ {r} : pc'[u] = pc[u] /\ ctx'[u] = ctx[u] /\ slot'[u] = slot[u]
        /\ pc'[r] # "prepare"
    BY <2>1 DEF Ends, Goto, TypeOK
  <2> QED
    BY <1>1, <2>1, <2>2 DEF SlotInv, TypeOK
<1> QED
  BY <1>2, <1>3, <1>4, <1>8, <1>5, <1>6, <1>7 DEF Step
-----------------------------------------------------------------------------
(* Places in a chain *)

\* A place of the table keeps what its document says of the chain.
SameDocument(s) ==
    /\ subs'[s].born = subs[s].born /\ subs'[s].hash = subs[s].hash
    /\ subs'[s].counter = subs[s].counter /\ subs'[s].previous = subs[s].previous

LEMMA BornFinite ==
    ASSUME TypeOK, NEW e, NEW s \in 0..Len(subs)
    PROVE  /\ IsFiniteSet(Born(e, s)) /\ Cardinality(Born(e, s)) \in Nat
           /\ Cardinality(Born(e, s)) <= Count(e)
<1>1. s \in Int /\ Len(subs) \in Nat
  BY DEF TypeOK
<1>2. Born(e, s) \subseteq 1..s /\ Born(e, Len(subs)) \subseteq 1..Len(subs)
  BY DEF Born
<1>3. IsFiniteSet(1..s) /\ IsFiniteSet(1..Len(subs))
  BY <1>1, FS_Interval
<1>4. IsFiniteSet(Born(e, s)) /\ IsFiniteSet(Born(e, Len(subs)))
  BY <1>2, <1>3, FS_Subset
<1>5. Born(e, s) \subseteq Born(e, Len(subs))
  BY <1>1 DEF Born
<1> QED
  BY <1>4, <1>5, FS_Subset, FS_CardinalityType DEF Count

\* Where rows are only updated, every document keeps its place.
LEMMA PlacesKept ==
    ASSUME TypeOK, TypeOK', Len(subs') = Len(subs),
           \A s \in 1..Len(subs) : SameDocument(s), NEW e \in Environments
    PROVE  /\ Count(e)' = Count(e)
           /\ \A n : Ranked(e, n)' = Ranked(e, n) /\ Nth(e, n)' = Nth(e, n)
<1>1. Len(subs) \in Nat
  BY DEF TypeOK
<1>2. \A s \in 0..Len(subs) : Born(e, s)' = Born(e, s)
  BY <1>1 DEF Born, SameDocument
<1>3. Count(e)' = Count(e)
  BY <1>1, <1>2 DEF Count
<1>4. \A n : Ranked(e, n)' = Ranked(e, n)
  BY <1>1, <1>2 DEF Ranked, SameDocument
<1>5. \A n : Nth(e, n)' = Nth(e, n)
  BY <1>4 DEF Nth
<1> QED
  BY <1>3, <1>4, <1>5

\* A new submission takes the next place of its environment, and no other place moves.
LEMMA PlacesGrow ==
    ASSUME TypeOK, TypeOK', Len(subs') = Len(subs) + 1,
           \A s \in 1..Len(subs) : SameDocument(s), NEW e \in Environments
    PROVE  /\ Count(e)' = IF subs'[Len(subs) + 1].born = e THEN Count(e) + 1 ELSE Count(e)
           /\ \A n \in 1..Count(e) : Ranked(e, n)' = Ranked(e, n) /\ Nth(e, n)' = Nth(e, n)
           /\ subs'[Len(subs) + 1].born = e =>
                 \A n : n = Count(e) + 1 =>
                       Ranked(e, n)' = {Len(subs) + 1} /\ Nth(e, n)' = Len(subs) + 1
<1> DEFINE N == Len(subs)
           New == {t \in 1..(N + 1) : subs'[t].born = e}
<1>1. N \in Nat /\ Len(subs') = N + 1
  BY DEF TypeOK
<1>2. \A s \in 0..N : Born(e, s)' = Born(e, s)
  BY <1>1 DEF Born, SameDocument
<1>3. \A s \in 0..N : /\ IsFiniteSet(Born(e, s)) /\ Cardinality(Born(e, s)) \in Nat
                      /\ Cardinality(Born(e, s)) <= Count(e)
  BY BornFinite
<1>4. \A s : s = N + 1 => Born(e, s)' = New
  BY <1>1 DEF Born
<1>5. Count(e)' = Cardinality(New)
  BY <1>1 DEF Count, Born
<1>6. New = IF subs'[N + 1].born = e THEN Born(e, N) \cup {N + 1} ELSE Born(e, N)
  BY <1>1 DEF Born, SameDocument
<1>7. N + 1 \notin Born(e, N)
  BY <1>1 DEF Born
<1>8. Count(e) = Cardinality(Born(e, N)) /\ Count(e) \in Nat
  BY <1>1, <1>3 DEF Count
<1>9. Count(e)' = IF subs'[N + 1].born = e THEN Count(e) + 1 ELSE Count(e)
  <2> HIDE DEF New
  <2>1. CASE subs'[N + 1].born = e
    <3>1. IsFiniteSet(Born(e, N))
      BY <1>1, <1>3
    <3>2. \A x : x \notin Born(e, N) =>
                 Cardinality(Born(e, N) \cup {x}) = Cardinality(Born(e, N)) + 1
      BY <3>1, FS_AddElement
    <3> QED
      BY <1>5, <1>6, <1>7, <1>8, <2>1, <3>2
  <2>2. CASE subs'[N + 1].born # e
    BY <1>5, <1>6, <1>8, <2>2
  <2> QED
    BY <2>1, <2>2
<1>10. \A n : Ranked(e, n)' = {s \in 1..(N + 1) : subs'[s].born = e /\ Cardinality(Born(e, s)') = n}
  BY <1>1 DEF Ranked
<1>11. \A s \in 1..N : Born(e, s)' = Born(e, s) /\ subs'[s].born = subs[s].born
  BY <1>1, <1>2 DEF SameDocument
<1>12. \A s : s = N + 1 /\ subs'[s].born = e => Cardinality(Born(e, s)') = Count(e) + 1
  BY <1>4, <1>5, <1>9
<1>13. \A n \in 1..Count(e) : Ranked(e, n)' = Ranked(e, n)
  <2> TAKE n \in 1..Count(e)
  <2>1. \A s : s \in Ranked(e, n) <=> s \in 1..N /\ subs[s].born = e /\ Cardinality(Born(e, s)) = n
    BY DEF Ranked
  <2>2. \A s : s \in Ranked(e, n)' <=>
                 s \in 1..(N + 1) /\ subs'[s].born = e /\ Cardinality(Born(e, s)') = n
    BY <1>10
  <2>3. n # Count(e) + 1
    BY <1>8
  <2>4. \A s \in 1..(N + 1) : s \in 1..N \/ s = N + 1
    BY <1>1
  <2>5. \A s \in 1..N : s \in 1..(N + 1)
    BY <1>1
  <2> HIDE DEF N
  <2>6. \A s : s \in Ranked(e, n)' <=> s \in Ranked(e, n)
    BY <1>11, <1>12, <2>1, <2>2, <2>3, <2>4, <2>5
  <2>7. Ranked(e, n)' \subseteq 1..(N + 1) /\ Ranked(e, n) \subseteq 1..N
    BY <2>1, <2>2
  <2> QED
    BY <2>6, <2>7
<1>14. ASSUME subs'[N + 1].born = e, NEW n, n = Count(e) + 1
       PROVE  Ranked(e, n)' = {N + 1}
  <2>1. \A s \in 1..N : Cardinality(Born(e, s)') # n
    BY <1>1, <1>3, <1>8, <1>11, <1>14
  <2> QED
    BY <1>1, <1>10, <1>12, <1>14, <2>1
<1>15. \A n \in 1..Count(e) : Nth(e, n)' = Nth(e, n)
  BY <1>13 DEF Nth
<1>16. ASSUME subs'[N + 1].born = e, NEW n, n = Count(e) + 1
       PROVE  Nth(e, n)' = N + 1
  BY <1>14, <1>16 DEF Nth
<1> QED
  BY <1>9, <1>13, <1>14, <1>15, <1>16

\* Every place of a chain is that of a submission.
LEMMA NthType ==
    ASSUME ChainInv, NEW e \in Environments, NEW n \in 1..Count(e)
    PROVE  Nth(e, n) \in 1..Len(subs) /\ Nth(e, n) \in Ranked(e, n)
<1>1. Ranked(e, n) # {}
  BY DEF ChainInv
<1>2. Nth(e, n) \in Ranked(e, n)
  BY <1>1 DEF Nth
<1> QED
  BY <1>2 DEF Ranked

\* Only a preparation touches the chain; the rest keeps every document where it is.
LEMMA ChainUntouched ==
    ASSUME TypeOK, PhaseInv, NEW r \in Requests, Step(r), ~ Prepare(r)
    PROVE  /\ chain' = chain /\ Len(subs') = Len(subs)
           /\ \A s \in 1..Len(subs) : SameDocument(s)
<1>1. CASE subs' = subs /\ chain' = chain
  BY <1>1 DEF SameDocument
<1>2. CASE Record(r)
  <2>1. row[r] \in 1..Len(subs)
    BY <1>2 DEF Record, PhaseInv, TypeOK
  <2>2. subs[row[r]] \in Submissions
    BY <2>1 DEF TypeOK
  <2>3. subs' = [subs EXCEPT ![row[r]] =
                    [[subs[row[r]] EXCEPT !.status = answer[r]] EXCEPT !.env = ctx[r].env]]
    BY <1>2, <2>1 DEF Record, TypeOK
  <2>4. chain' = chain
    BY <1>2 DEF Record
  <2> DEFINE new == [[subs[row[r]] EXCEPT !.status = answer[r]] EXCEPT !.env = ctx[r].env]
  <2>5. /\ new.born = subs[row[r]].born /\ new.hash = subs[row[r]].hash
        /\ new.counter = subs[row[r]].counter /\ new.previous = subs[row[r]].previous
    BY <2>2 DEF Submissions
  <2>6. subs' = [subs EXCEPT ![row[r]] = new]
    BY <2>3
  <2> HIDE DEF new
  <2>7. Len(subs') = Len(subs)
    BY <2>1, <2>6 DEF TypeOK
  <2>8. \A s \in 1..Len(subs) : subs'[s] = IF s = row[r] THEN new ELSE subs[s]
    BY <2>1, <2>6 DEF TypeOK
  <2> QED
    BY <2>4, <2>5, <2>7, <2>8 DEF SameDocument
<1> QED
  BY <1>1, <1>2 DEF Step, Start, VoidRead, Retry, Context, Check, Reserve, Stop, File,
     VoidCommit, Fail, tables

\* What a preparation adds.
Added(r) == [hash |-> Len(subs) + 1, counter |-> chain[ctx[r].env].counter + 1,
             previous |-> chain[ctx[r].env].last]

LEMMA ChainTouched ==
    ASSUME TypeOK, PhaseInv, SlotInv, NEW r \in Requests, Prepare(r)
    PROVE  /\ Len(subs) < MaxSubs /\ Len(subs') = Len(subs) + 1
           /\ \A s \in 1..Len(subs) : SameDocument(s)
           /\ ctx[r].env \in Environments
           /\ subs'[Len(subs) + 1].born = ctx[r].env
           /\ subs'[Len(subs) + 1].hash = Len(subs) + 1
           /\ subs'[Len(subs) + 1].counter = chain[ctx[r].env].counter + 1
           /\ subs'[Len(subs) + 1].previous = chain[ctx[r].env].last
           /\ chain' = [chain EXCEPT ![ctx[r].env] =
                 [last |-> Len(subs) + 1, counter |-> chain[ctx[r].env].counter + 1]]
<1> DEFINE status == IF ctx[r].gate = "NO_CREDENTIALS" THEN "prepared" ELSE "signed"
           new == [invoice |-> Head(todo[r]), hash |-> Len(subs) + 1, previous |-> slot[r].last,
                   counter |-> slot[r].counter + 1, status |-> status,
                   env |-> ctx[r].env, born |-> ctx[r].env]
<1>1. slot[r] = chain[ctx[r].env] /\ ctx[r].env \in Environments
  BY DEF Prepare, SlotInv, PhaseInv, Contexts
<1>2. /\ subs' = Append(subs, new) /\ Len(subs) < MaxSubs
      /\ chain' = [chain EXCEPT ![ctx[r].env] =
                      [last |-> Len(subs) + 1, counter |-> slot[r].counter + 1]]
  BY DEF Prepare
<1>3. /\ new.born = ctx[r].env /\ new.hash = Len(subs) + 1
      /\ new.counter = slot[r].counter + 1 /\ new.previous = slot[r].last
  OBVIOUS
<1> HIDE DEF new
<1>4. /\ Len(subs') = Len(subs) + 1 /\ subs'[Len(subs) + 1] = new
      /\ \A s \in 1..Len(subs) : subs'[s] = subs[s]
  BY <1>2 DEF TypeOK
<1> QED
  BY <1>1, <1>2, <1>3, <1>4 DEF SameDocument

LEMMA ChainStep ==
    ASSUME TypeOK, TypeOK', PhaseInv, SlotInv, ChainInv, NEW r \in Requests, Step(r)
    PROVE  ChainInv'
<1>0. Len(subs) \in Nat /\ \A e \in Environments : Count(e) \in Nat
  BY BornFinite DEF TypeOK, Count
<1>1. CASE ~ Prepare(r)
  <2>1. /\ chain' = chain /\ Len(subs') = Len(subs)
        /\ \A s \in 1..Len(subs) : SameDocument(s)
    BY <1>1, ChainUntouched
  <2>2. \A s \in 1..Len(subs') : subs'[s].hash = s
    BY <2>1 DEF SameDocument, ChainInv
  <2>3. ASSUME NEW e \in Environments
        PROVE  /\ \A n \in 1..Count(e)' : Ranked(e, n)' # {}
               /\ chain'[e].counter = Count(e)'
               /\ Count(e)' = 0 => chain'[e].last = Genesis
               /\ \A n : n = Count(e)' /\ n # 0 => chain'[e].last = subs'[Nth(e, n)'].hash
    <3>1. /\ Count(e)' = Count(e)
          /\ \A n : Ranked(e, n)' = Ranked(e, n) /\ Nth(e, n)' = Nth(e, n)
      BY <2>1, PlacesKept
    <3>2. \A n : n = Count(e) /\ n # 0 => subs'[Nth(e, n)].hash = subs[Nth(e, n)].hash
      BY <1>0, <2>1, NthType DEF SameDocument
    <3> QED
      BY <2>1, <3>1, <3>2 DEF ChainInv
  <2> QED
    BY <2>2, <2>3 DEF ChainInv, Genesis
<1>2. CASE Prepare(r)
  <2> DEFINE N == Len(subs)
             f == ctx[r].env
  <2>1. /\ Len(subs') = N + 1 /\ \A s \in 1..N : SameDocument(s) /\ f \in Environments
        /\ subs'[N + 1].born = f /\ subs'[N + 1].hash = N + 1
        /\ chain' = [chain EXCEPT ![f] = [last |-> N + 1, counter |-> chain[f].counter + 1]]
    BY <1>2, ChainTouched
  <2>2. \A s \in 1..Len(subs') : subs'[s].hash = s
    BY <1>0, <2>1 DEF SameDocument, ChainInv
  <2>3. ASSUME NEW e \in Environments
        PROVE  /\ \A n \in 1..Count(e)' : Ranked(e, n)' # {}
               /\ chain'[e].counter = Count(e)'
               /\ Count(e)' = 0 => chain'[e].last = Genesis
               /\ \A n : n = Count(e)' /\ n # 0 => chain'[e].last = subs'[Nth(e, n)'].hash
    <3>1. /\ Count(e)' = IF subs'[N + 1].born = e THEN Count(e) + 1 ELSE Count(e)
          /\ \A n \in 1..Count(e) : Ranked(e, n)' = Ranked(e, n) /\ Nth(e, n)' = Nth(e, n)
          /\ subs'[N + 1].born = e =>
                \A n : n = Count(e) + 1 => Ranked(e, n)' = {N + 1} /\ Nth(e, n)' = N + 1
      BY <2>1, PlacesGrow
    <3> HIDE DEF N, f
    <3>2. CASE e = f
      <4>1. Count(e)' = Count(e) + 1 /\ Count(e) \in Nat
        BY <1>0, <2>1, <3>1, <3>2
      <4>2. \A n \in 1..(Count(e) + 1) : n \in 1..Count(e) \/ n = Count(e) + 1
        BY <4>1
      <4>3. \A n \in 1..Count(e) : Ranked(e, n) # {}
        BY DEF ChainInv
      <4>4. chain'[e] = [last |-> N + 1, counter |-> chain[e].counter + 1]
        BY <2>1, <3>2 DEF TypeOK
      <4>5. chain[e].counter = Count(e)
        BY DEF ChainInv
      <4>6. \A n : n = Count(e) + 1 => Ranked(e, n)' = {N + 1} /\ Nth(e, n)' = N + 1
        BY <2>1, <3>1, <3>2
      <4>7. \A n \in 1..Count(e)' : Ranked(e, n)' # {}
        BY <3>1, <4>1, <4>2, <4>3, <4>6
      <4>8. chain'[e].counter = Count(e)' /\ Count(e)' # 0
        BY <4>1, <4>4, <4>5
      <4>9. \A n : n = Count(e)' => chain'[e].last = subs'[Nth(e, n)'].hash
        BY <2>1, <4>1, <4>4, <4>6
      <4> QED
        BY <4>7, <4>8, <4>9
    <3>3. CASE e # f
      <4>1. Count(e)' = Count(e) /\ chain'[e] = chain[e] /\ Count(e) \in Nat
        BY <1>0, <2>1, <3>1, <3>3 DEF TypeOK
      <4>2. \A n : n = Count(e) /\ n # 0 => subs'[Nth(e, n)].hash = subs[Nth(e, n)].hash
        BY <1>0, <2>1, NthType DEF SameDocument, N
      <4>3. \A n : n = Count(e) /\ n # 0 => n \in 1..Count(e)
        BY <4>1
      <4>4. \A n \in 1..Count(e) : Ranked(e, n)' # {}
        BY <3>1 DEF ChainInv
      <4>5. chain[e].counter = Count(e)
            /\ (Count(e) = 0 => chain[e].last = Genesis)
            /\ (Count(e) # 0 => chain[e].last = subs[Nth(e, Count(e))].hash)
        BY DEF ChainInv
      <4>6. ASSUME NEW n, n = Count(e), n # 0
            PROVE  chain[e].last = subs'[Nth(e, n)'].hash
        <5>1. Nth(e, n)' = Nth(e, n)
          BY <3>1, <4>3, <4>6
        <5> QED
          BY <4>2, <4>5, <4>6, <5>1
      <4>7. \A n \in 1..Count(e)' : Ranked(e, n)' # {}
        BY <4>1, <4>4
      <4>8. chain'[e].counter = Count(e)' /\ (Count(e)' = 0 => chain'[e].last = Genesis)
        BY <4>1, <4>5
      <4>9. \A n : n = Count(e)' /\ n # 0 => chain'[e].last = subs'[Nth(e, n)'].hash
        BY <4>1, <4>6
      <4> QED
        BY <4>7, <4>8, <4>9
    <3> QED
      BY <3>2, <3>3
  <2> QED
    BY <2>2, <2>3 DEF ChainInv, Genesis
<1> QED
  BY <1>1, <1>2

-----------------------------------------------------------------------------
(* The invariant *)

LEMMA InvInit == Init => IInv
<1> SUFFICES ASSUME Init PROVE IInv
  OBVIOUS
<1>1. subs = <<>> /\ Len(subs) = 0
  BY DEF Init
<1>2. \A e : Count(e) = 0
  <2>1. \A e : Born(e, Len(subs)) = {}
    BY <1>1 DEF Born
  <2> QED
    BY <2>1, FS_EmptySet DEF Count
<1>3. ChainInv
  BY <1>1, <1>2 DEF Init, ChainInv, Genesis
<1>4. PhaseInv /\ SlotInv
  BY DEF Init, PhaseInv, SlotInv
<1> QED
  BY <1>3, <1>4, TypeInit DEF IInv

LEMMA InvNext == IInv /\ [Next]_vars => IInv'
<1> SUFFICES ASSUME IInv, [Next]_vars PROVE IInv'
  OBVIOUS
<1>1. TypeOK'
  BY TypeNext DEF IInv
<1>2. CASE Next
  <2> PICK r \in Requests : Step(r)
    BY <1>2, NextSteps
  <2> QED
    BY <1>1, PhaseStep, SlotStep, ChainStep DEF IInv
<1>3. CASE UNCHANGED vars
  <2>1. PhaseInv' /\ SlotInv'
    BY <1>3 DEF vars, tables, request, history, IInv, PhaseInv, SlotInv
  <2>2. subs' = subs /\ chain' = chain
    BY <1>3 DEF vars, tables
  <2>3. \A e : Count(e)' = Count(e) /\ \A n : Ranked(e, n)' = Ranked(e, n) /\ Nth(e, n)' = Nth(e, n)
    BY <2>2 DEF Count, Born, Ranked, Nth
  <2>4. ChainInv'
    BY <2>2, <2>3 DEF IInv, ChainInv
  <2> QED
    BY <1>1, <2>1, <2>4 DEF IInv
<1> QED
  BY <1>2, <1>3

LEMMA InvAlways == Spec => []IInv
  BY InvInit, InvNext, PTL DEF Spec

-----------------------------------------------------------------------------
(* The chain *)

Documents == [hash : Nat, counter : Nat, previous : Nat]

LEMMA DocumentsTyped ==
    ASSUME IInv, NEW e \in Environments
    PROVE  /\ DocumentsOf(e) \in Seq(Documents)
           /\ Len(DocumentsOf(e)) = Count(e)
           /\ \A n \in 1..Count(e) :
                 /\ DocumentsOf(e)[n] = Document(Nth(e, n))
                 /\ DocumentsOf(e)[n].hash \in 1..Len(subs)
<1>1. Count(e) \in Nat /\ Len(subs) \in Nat
  BY BornFinite DEF IInv, TypeOK, Count
<1>2. ASSUME NEW n \in 1..Count(e)
      PROVE  Document(Nth(e, n)) \in Documents /\ Document(Nth(e, n)).hash \in 1..Len(subs)
  <2>1. Nth(e, n) \in 1..Len(subs)
    BY NthType DEF IInv
  <2>2. subs[Nth(e, n)] \in Submissions /\ subs[Nth(e, n)].hash = Nth(e, n)
    BY <2>1 DEF IInv, TypeOK, ChainInv
  <2> QED
    BY <2>1, <2>2 DEF Document, Documents, Submissions
<1>3. \A n \in 1..Count(e) : DocumentsOf(e)[n] = Document(Nth(e, n))
  BY DEF DocumentsOf
<1>4. DocumentsOf(e) \in [1..Count(e) -> Documents]
  BY <1>2 DEF DocumentsOf
<1> QED
  BY <1>1, <1>2, <1>3, <1>4

\* Nothing but a preparation changes what the chains say ...
LEMMA DocumentsKept ==
    ASSUME IInv, TypeOK', NEW r \in Requests, Step(r), ~ Prepare(r), NEW e \in Environments
    PROVE  DocumentsOf(e)' = DocumentsOf(e)
<1>1. Len(subs') = Len(subs) /\ \A s \in 1..Len(subs) : SameDocument(s)
  BY ChainUntouched DEF IInv
<1>2. Count(e)' = Count(e) /\ \A n : Nth(e, n)' = Nth(e, n)
  BY <1>1, PlacesKept DEF IInv
<1>3. \A n \in 1..Count(e) : Nth(e, n) \in 1..Len(subs)
  BY NthType DEF IInv
<1>4. \A n \in 1..Count(e) : Document(Nth(e, n))' = Document(Nth(e, n))
  BY <1>1, <1>2, <1>3 DEF Document, SameDocument
<1> QED
  BY <1>2, <1>4 DEF DocumentsOf

\* ... and a preparation appends to one of them.
LEMMA DocumentsGrow ==
    ASSUME IInv, IInv', NEW r \in Requests, Prepare(r), NEW e \in Environments
    PROVE  DocumentsOf(e)' = IF e = ctx[r].env THEN Append(DocumentsOf(e), Added(r))
                                               ELSE DocumentsOf(e)
<1> DEFINE N == Len(subs)
<1>1. /\ Len(subs') = N + 1 /\ \A s \in 1..N : SameDocument(s)
      /\ subs'[N + 1].born = ctx[r].env /\ subs'[N + 1].hash = Added(r).hash
      /\ subs'[N + 1].counter = Added(r).counter /\ subs'[N + 1].previous = Added(r).previous
  BY ChainTouched DEF IInv, Added
<1>2. N \in Nat /\ Count(e) \in Nat
  BY BornFinite DEF IInv, TypeOK, Count
<1>3. /\ Count(e)' = IF e = ctx[r].env THEN Count(e) + 1 ELSE Count(e)
      /\ \A n \in 1..Count(e) : Nth(e, n)' = Nth(e, n)
      /\ e = ctx[r].env => \A n : n = Count(e) + 1 => Nth(e, n)' = N + 1
  BY <1>1, PlacesGrow DEF IInv
<1>4. \A n \in 1..Count(e) : Document(Nth(e, n))' = Document(Nth(e, n))
  <2>1. \A n \in 1..Count(e) : Nth(e, n) \in 1..N
    BY NthType DEF IInv
  <2> QED
    BY <1>1, <1>3, <2>1 DEF Document, SameDocument
<1>5. /\ DocumentsOf(e) \in Seq(Documents) /\ Len(DocumentsOf(e)) = Count(e)
      /\ \A n \in 1..Count(e) : DocumentsOf(e)[n] = Document(Nth(e, n))
  BY DocumentsTyped
<1>6. CASE e # ctx[r].env
  <2>1. Count(e)' = Count(e)
    BY <1>3, <1>6
  <2>2. [n \in 1..Count(e) |-> Document(Nth(e, n))'] = [n \in 1..Count(e) |-> Document(Nth(e, n))]
    BY <1>4
  <2>3. DocumentsOf(e)' = [n \in 1..Count(e)' |-> Document(Nth(e, n))']
    BY DEF DocumentsOf
  <2> QED
    BY <1>6, <2>1, <2>2, <2>3 DEF DocumentsOf
<1>7. CASE e = ctx[r].env
  <2> DEFINE c == Count(e)
             Longer == [n \in 1..(c + 1) |-> IF n = c + 1 THEN Added(r) ELSE DocumentsOf(e)[n]]
  <2>1. DocumentsOf(e)' = [n \in 1..(c + 1) |-> Document(Nth(e, n))']
    <3>1. \A m : Count(e)' = m => DocumentsOf(e)' = [n \in 1..m |-> Document(Nth(e, n))']
      BY DEF DocumentsOf
    <3> QED
      BY <1>3, <1>7, <3>1
  <2>2. ASSUME NEW n, n = c + 1 PROVE Document(Nth(e, n))' = Added(r)
    <3>1. Nth(e, n)' = N + 1
      BY <1>3, <1>7, <2>2
    <3>2. Added(r) = [hash |-> Added(r).hash, counter |-> Added(r).counter,
                      previous |-> Added(r).previous]
      BY DEF Added
    <3> QED
      BY <1>1, <3>1, <3>2 DEF Document
  <2>3. \A n \in 1..(c + 1) :
          Document(Nth(e, n))' = IF n = c + 1 THEN Added(r) ELSE DocumentsOf(e)[n]
    <3> TAKE n \in 1..(c + 1)
    <3>1. n = c + 1 \/ n \in 1..c
      BY <1>2
    <3>2. CASE n = c + 1
      BY <2>2, <3>2
    <3>3. CASE n \in 1..c
      BY <1>2, <1>4, <1>5, <3>3
    <3> QED
      BY <3>1, <3>2, <3>3
  <2>4. DocumentsOf(e)' = Longer
    BY <2>1, <2>3
  <2>5. Append(DocumentsOf(e), Added(r)) = Longer
    <3>1. Added(r) \in Documents
      BY <1>2 DEF Added, Documents, Prepare, IInv, TypeOK, PhaseInv, Contexts, Slots
    <3>2. /\ Append(DocumentsOf(e), Added(r)) \in Seq(Documents)
          /\ Len(Append(DocumentsOf(e), Added(r))) = c + 1
          /\ \A n \in 1..(c + 1) : Append(DocumentsOf(e), Added(r))[n] =
                IF n = c + 1 THEN Added(r) ELSE DocumentsOf(e)[n]
      BY <1>2, <1>5, <3>1
    <3>3. ASSUME NEW s \in Seq(Documents), Len(s) = c + 1
          PROVE  s = [n \in 1..(c + 1) |-> s[n]]
      BY <3>3
    <3> QED
      BY <3>2, <3>3
  <2> QED
    BY <1>7, <2>4, <2>5
<1> QED
  BY <1>6, <1>7

\* In each environment the documents form one unbroken chain that only grows at its end:
\* counters without gap or double, every document on the hash of the one before it. The
\* submissions, the row of the chain and its lock implement the chain of HashChain,
\* through failures, retries, crashes and changes of the settings.
THEOREM OneUnbrokenChain == Spec => ChainSpec
<1> DEFINE log == [e \in Environments |-> DocumentsOf(e)]
<1>1. Init => H!Init
  <2> SUFFICES ASSUME Init PROVE \A e \in Environments : DocumentsOf(e) = <<>>
    BY DEF H!Init
  <2> TAKE e \in Environments
  <2>1. IInv
    BY InvInit
  <2>2. chain[e].counter = 0
    BY DEF Init
  <2>3. Count(e) = 0
    BY <2>1, <2>2 DEF IInv, ChainInv
  <2>4. DocumentsOf(e) \in Seq(Documents) /\ Len(DocumentsOf(e)) = 0
    BY <2>1, <2>3, DocumentsTyped
  <2> QED
    BY <2>4
<1>2. ASSUME IInv, IInv', NEW r \in Requests, Prepare(r)
      PROVE  H!Chain(ctx[r].env)
  <2> DEFINE f == ctx[r].env
             h == Len(subs) + 1
  <2>1. f \in Environments /\ Len(subs) < MaxSubs
    BY <1>2, ChainTouched DEF IInv
  <2>2. h \in 1..MaxSubs
    BY <2>1, ChainAssumption DEF IInv, TypeOK
  <2>3. \A g \in Environments : \A i \in DOMAIN log[g] : log[g][i].hash # h
    <3> TAKE g \in Environments
    <3>1. DocumentsOf(g) \in Seq(Documents) /\ Len(DocumentsOf(g)) = Count(g)
          /\ \A n \in 1..Count(g) : DocumentsOf(g)[n].hash \in 1..Len(subs)
      BY <1>2, DocumentsTyped
    <3>2. Len(subs) \in Nat
      BY <1>2 DEF IInv, TypeOK
    <3> QED
      BY <3>1, <3>2
  <2>4. Added(r) = [hash |-> h, counter |-> Len(log[f]) + 1, previous |-> H!LastHash(log[f])]
    <3>1. /\ DocumentsOf(f) \in Seq(Documents) /\ Len(DocumentsOf(f)) = Count(f)
          /\ \A n \in 1..Count(f) : DocumentsOf(f)[n] = Document(Nth(f, n))
      BY <1>2, <2>1, DocumentsTyped
    <3>2. /\ chain[f].counter = Count(f)
          /\ chain[f].last = IF Count(f) = 0 THEN Genesis ELSE subs[Nth(f, Count(f))].hash
      BY <1>2, <2>1 DEF IInv, ChainInv
    <3>3. chain[f].last = H!LastHash(DocumentsOf(f))
      <4>1. CASE Count(f) = 0
        BY <3>1, <3>2, <4>1 DEF H!LastHash
      <4>2. CASE Count(f) # 0
        <5>1. DocumentsOf(f) # <<>> /\ Count(f) \in 1..Count(f)
          BY <3>1, <4>2
        <5>2. DocumentsOf(f)[Len(DocumentsOf(f))].hash = subs[Nth(f, Count(f))].hash
          <6>1. DocumentsOf(f)[Count(f)] = Document(Nth(f, Count(f)))
            BY <3>1, <5>1
          <6>2. Len(DocumentsOf(f)) = Count(f)
            BY <3>1
          <6> HIDE DEF f
          <6> QED
            BY <6>1, <6>2 DEF Document
        <5> QED
          BY <3>2, <4>2, <5>1, <5>2 DEF H!LastHash
      <4> QED
        BY <4>1, <4>2
    <3>4. log[f] = DocumentsOf(f)
      BY <2>1
    <3> QED
      BY <3>1, <3>2, <3>3, <3>4 DEF Added
  <2>5. \A g \in Environments : DocumentsOf(g)' =
            IF g = f THEN Append(DocumentsOf(f), Added(r)) ELSE DocumentsOf(g)
    BY <1>2, DocumentsGrow
  <2>6. [g \in Environments |-> DocumentsOf(g)'] =
            [log EXCEPT ![f] = Append(log[f], Added(r))]
    BY <2>1, <2>5
  <2> QED
    BY <2>1, <2>2, <2>3, <2>4, <2>6 DEF H!Chain
<1>3. IInv /\ IInv' /\ [Next]_vars => [H!Next]_log
  <2> SUFFICES ASSUME IInv, IInv', [Next]_vars PROVE H!Next \/ log' = log
    OBVIOUS
  <2>1. CASE Next
    <3> PICK r \in Requests : Step(r)
      BY <2>1, NextSteps
    <3>1. CASE Prepare(r)
      BY <1>2, <3>1, ChainTouched DEF H!Next, IInv
    <3>2. CASE ~ Prepare(r)
      BY <3>2, DocumentsKept DEF IInv
    <3> QED
      BY <3>1, <3>2
  <2>2. CASE UNCHANGED vars
    <3>1. subs' = subs
      BY <2>2 DEF vars, tables
    <3>2. \A e : DocumentsOf(e)' = DocumentsOf(e)
      BY <3>1 DEF DocumentsOf, Count, Born, Nth, Ranked, Document
    <3> QED
      BY <3>2
  <2> QED
    BY <2>1, <2>2
<1> QED
  BY <1>1, <1>3, InvAlways, PTL DEF Spec, ChainSpec, H!Spec

-----------------------------------------------------------------------------
(* Types and accepted submissions *)

\* The tables, the chain and the requests have their types.
THEOREM FilingTypeCorrect == Spec => []TypeOK
<1>1. IInv => TypeOK
  BY DEF IInv
<1> QED
  BY <1>1, InvAlways, PTL

\* Submissions are added at the end, and only the answer to one changes it.
LEMMA SubmissionSteps ==
    ASSUME IInv, NEW r \in Requests, Step(r)
    PROVE  /\ Record(r) =>
                 /\ row[r] \in 1..Len(subs)
                 /\ \A s \in 1..Len(subs) : s # row[r] => subs'[s] = subs[s]
           /\ Prepare(r) =>
                 /\ subs'[Len(subs) + 1].status \in {"prepared", "signed"}
                 /\ \A s \in 1..Len(subs) : subs'[s] = subs[s]
           /\ subs' = subs \/ Record(r) \/ Prepare(r)
<1>1. ASSUME Record(r)
      PROVE  row[r] \in 1..Len(subs) /\ \A s \in 1..Len(subs) : s # row[r] => subs'[s] = subs[s]
  <2>1. row[r] \in 1..Len(subs)
    BY <1>1 DEF Record, IInv, PhaseInv, TypeOK
  <2>2. \E new : subs' = [subs EXCEPT ![row[r]] = new]
    BY <1>1, <2>1 DEF Record, IInv, TypeOK
  <2>3. \A s \in 1..Len(subs) : s # row[r] => subs'[s] = subs[s]
    BY <2>2 DEF IInv, TypeOK
  <2> QED
    BY <1>1, <2>1, <2>3
<1>2. ASSUME Prepare(r)
      PROVE  /\ subs'[Len(subs) + 1].status \in {"prepared", "signed"}
             /\ \A s \in 1..Len(subs) : subs'[s] = subs[s]
  <2> DEFINE status == IF ctx[r].gate = "NO_CREDENTIALS" THEN "prepared" ELSE "signed"
             new == [invoice |-> Head(todo[r]), hash |-> Len(subs) + 1, previous |-> slot[r].last,
                     counter |-> slot[r].counter + 1, status |-> status,
                     env |-> ctx[r].env, born |-> ctx[r].env]
  <2>1. subs' = Append(subs, new)
    BY <1>2 DEF Prepare
  <2>2. new.status \in {"prepared", "signed"}
    OBVIOUS
  <2> HIDE DEF new
  <2> QED
    BY <1>2, <2>1, <2>2 DEF IInv, TypeOK
<1>3. subs' = subs \/ Record(r) \/ Prepare(r)
  BY DEF Step, Start, VoidRead, Retry, Context, Check, Reserve, Stop, File,
     VoidCommit, Fail, tables
<1> QED
  BY <1>1, <1>2, <1>3

\* The submission a request has in hand, and the invoice of it.
LEMMA InHand ==
    ASSUME IInv, NEW r \in Requests, row[r] # 0
    PROVE  row[r] \in 1..Len(subs) /\ pc[r] # "idle" /\ At(r) = subs[row[r]].invoice
  BY DEF IInv, PhaseInv, TypeOK, At

LEMMA FilingStep ==
    ASSUME IInv, FilingInv, NEW r \in Requests, Step(r)
    PROVE  FilingInv'
<1> SUFFICES ASSUME NEW u \in Requests, row'[u] # 0, u \notin overtaken'
             PROVE  subs'[row'[u]].status # "accepted"
  BY DEF FilingInv
<1>0. Len(subs) \in Nat /\ row \in [Requests -> 0..Len(subs)] /\ overtaken \in SUBSET Requests
  BY DEF IInv, TypeOK
<1>1. CASE u = r
  <2>1. CASE \E s \in DOMAIN subs : Retry(r, s)
    BY <1>0, <1>1, <2>1 DEF Retry, tables
  <2>2. CASE Prepare(r)
    <3>1. row'[r] = Len(subs) + 1
      BY <1>0, <2>2 DEF Prepare
    <3> QED
      BY <1>1, <2>2, <3>1, SubmissionSteps
  <2>3. CASE Context(r) \/ File(r)
    BY <1>1, <2>3 DEF Context, File, FilingInv, tables, history
  <2>4. CASE (\E o \in Ops : Start(r, o) \/ VoidRead(r, o)) \/ Check(r) \/ Reserve(r)
    BY <1>1, <2>4 DEF Start, VoidRead, Check, Reserve, IInv, PhaseInv
  <2>5. CASE Stop(r) \/ Record(r) \/ VoidCommit(r) \/ Fail(r)
    <3>1. \E rest : Ends(r, rest)
      BY <2>5 DEF Stop, Record, VoidCommit, Fail
    <3> QED
      BY <1>0, <1>1, <3>1 DEF Ends
  <2> QED
    BY <2>1, <2>2, <2>3, <2>4, <2>5 DEF Step
<1>2. CASE u # r
  <2>1. row'[u] = row[u]
    BY <1>0, <1>2 DEF Step, Start, VoidRead, Retry, Context, Check, Reserve, Prepare, Stop, File,
       Record, VoidCommit, Fail, Ends
  <2>2. u \notin overtaken
    BY <1>2 DEF Step, Start, VoidRead, Retry, Context, Check, Reserve, Prepare, Stop, File,
       Record, VoidCommit, Fail, Commits, history
  <2>3. subs[row[u]].status # "accepted" /\ row[u] \in 1..Len(subs)
    BY <2>1, <2>2, InHand DEF FilingInv
  <2>4. CASE Record(r)
    <3>1. row[r] # 0 /\ Commits(r, At(r))
      BY <2>4 DEF Record, IInv, PhaseInv
    <3>2. pc[u] # "idle" /\ At(u) = subs[row[u]].invoice /\ At(r) = subs[row[r]].invoice
      BY <2>1, <3>1, InHand
    <3>3. At(u) # At(r)
      BY <1>2, <3>1, <3>2 DEF Commits
    <3>4. row[u] # row[r]
      BY <3>2, <3>3
    <3> QED
      BY <2>1, <2>3, <2>4, <3>4, SubmissionSteps
  <2>5. CASE ~ Record(r)
    BY <2>1, <2>3, <2>5, SubmissionSteps
  <2> QED
    BY <2>4, <2>5
<1> QED
  BY <1>1, <1>2

\* A request that reads a submission after the authority has accepted it never turns it into
\* a failed one, nor moves it to another environment. One that read it before, and records
\* its answer after, may do both (two retries that meet, a retry that meets a sync): its step
\* is left out, and after it nothing is claimed of that submission until it is accepted again.
THEOREM AcceptedForGood == Spec => AcceptedStays
<1>1. Init => FilingInv
  BY DEF Init, FilingInv
<1>2. IInv /\ FilingInv /\ [Next]_vars => FilingInv'
  <2> SUFFICES ASSUME IInv, FilingInv, [Next]_vars PROVE FilingInv'
    OBVIOUS
  <2>1. CASE Next
    <3> PICK r \in Requests : Step(r)
      BY <2>1, NextSteps
    <3> QED
      BY FilingStep
  <2>2. CASE UNCHANGED vars
    BY <2>2 DEF vars, tables, request, history, FilingInv
  <2> QED
    BY <2>1, <2>2
<1>3. IInv /\ FilingInv /\ [Next]_vars =>
        [\A s \in DOMAIN subs : subs[s].status = "accepted" =>
            \/ subs'[s] = subs[s]
            \/ \E r \in overtaken : row[r] = s /\ pc[r] = "answered"]_vars
  <2> SUFFICES ASSUME IInv, FilingInv, Next, NEW s \in DOMAIN subs, subs[s].status = "accepted",
                      subs'[s] # subs[s]
               PROVE  \E r \in overtaken : row[r] = s /\ pc[r] = "answered"
    OBVIOUS
  <2> PICK r \in Requests : Step(r)
    BY NextSteps
  <2>1. s \in 1..Len(subs)
    BY DEF IInv, TypeOK
  <2>2. Record(r) /\ s = row[r] /\ row[r] # 0
    <3>1. Record(r) /\ s = row[r] /\ row[r] \in 1..Len(subs)
      BY <2>1, SubmissionSteps
    <3> QED
      BY <3>1
  <2>3. r \in overtaken
    BY <2>2 DEF FilingInv
  <2> QED
    BY <2>2, <2>3 DEF Record
<1> QED
  BY <1>1, <1>2, <1>3, InvAlways, PTL DEF Spec, AcceptedStays
-----------------------------------------------------------------------------
(* One filing of each invoice *)

\* The authority has the document of submission s, and has told so a request that is yet
\* to record it.
Taken(s) == \E e \in Environments : <<e, subs[s].hash>> \in taken
Awaits(s) == \E r \in Requests : answer[r] = "accepted" /\ row[r] = s

\* What request r has read of invoice i is still so.
Fresh(r, i) == pc[r] # "idle" /\ r \notin overtaken /\ At(r) = i

\* Of an invoice about which nothing is in doubt but what is under way: what the authority
\* has is accepted or about to be, no two submissions are, and the invoice tells it; who
\* goes on with the invoice has rightly found it posted and not accepted, and only one
\* has a submission of it in hand.
FiledOf(i) ==
    /\ \A s \in SubsOf(i) : Taken(s) => subs[s].status = "accepted" \/ Awaits(s)
    /\ \A s \in SubsOf(i) : subs[s].status = "accepted" => Taken(s)
    /\ \A s, t \in SubsOf(i) :
          subs[s].status = "accepted" /\ subs[t].status = "accepted" => s = t
    /\ invoice[i].zatca = "accepted" <=> HasAccepted(i)
    /\ HasAccepted(i) => invoice[i].status = "posted"
    /\ \A r \in Requests : Fresh(r, i) =>
          /\ pc[r] \in {"reserve", "prepare", "file", "answered"} =>
                invoice[i].status = "posted" /\ ~ HasAccepted(i)
          /\ pc[r] = "void" => Voidable(i)
    /\ \A r, u \in Requests :
          Fresh(r, i) /\ Fresh(u, i) /\ {pc[r], pc[u]} \subseteq {"file", "answered"} => r = u
    /\ \A r \in Requests : row[r] \in SubsOf(i) => pc[r] \in {"file", "answered"}
    /\ \A r, u \in Requests : row[r] \in SubsOf(i) /\ row[u] = row[r] => r = u

FiledInv ==
    /\ \A d \in taken : d[2] \in 1..Len(subs)
    /\ \A r \in Requests : answer[r] = "accepted" => Taken(row[r])
    /\ \A i \in Invoices \ (stale \cup blurred) : FiledOf(i)

LEMMA KindTypes ==
    ASSUME IInv, NEW s \in 1..Len(subs)
    PROVE  subs[s].invoice \in Invoices /\ subs[s].env \in Environments /\ subs[s].hash = s
<1>1. subs[s] \in Submissions
  BY DEF IInv, TypeOK
<1> QED
  BY <1>1 DEF Submissions, IInv, ChainInv

\* Every submission stays one of its invoice, with its hash.
LEMMA SubmissionsKept ==
    ASSUME IInv, NEW r \in Requests, Step(r), NEW s \in 1..Len(subs)
    PROVE  /\ s \in 1..Len(subs') /\ s \in Nat
           /\ subs'[s].invoice = subs[s].invoice /\ subs'[s].hash = subs[s].hash
           /\ subs'[s].status = IF Record(r) /\ s = row[r] THEN answer[r] ELSE subs[s].status
<1>0. Len(subs) \in Nat
  BY DEF IInv, TypeOK
<1>1. CASE Prepare(r)
  <2>1. Len(subs') = Len(subs) + 1 /\ subs'[s] = subs[s]
    BY <1>1, ChainTouched, SubmissionSteps DEF IInv
  <2>2. ~ Record(r)
    BY <1>1 DEF Prepare, Record
  <2> QED
    BY <1>0, <2>1, <2>2
<1>2. CASE Record(r)
  <2>1. row[r] \in 1..Len(subs)
    BY <1>2, SubmissionSteps
  <2>2. subs[row[r]] \in Submissions
    BY <2>1 DEF IInv, TypeOK
  <2>3. subs' = [subs EXCEPT ![row[r]] =
                    [[subs[row[r]] EXCEPT !.status = answer[r]] EXCEPT !.env = ctx[r].env]]
    BY <1>2, <2>1 DEF Record, IInv, TypeOK
  <2> DEFINE new == [[subs[row[r]] EXCEPT !.status = answer[r]] EXCEPT !.env = ctx[r].env]
  <2>4. /\ new.invoice = subs[row[r]].invoice /\ new.hash = subs[row[r]].hash
        /\ new.status = answer[r]
    BY <2>2 DEF Submissions
  <2>5. subs' = [subs EXCEPT ![row[r]] = new]
    BY <2>3
  <2> HIDE DEF new
  <2>6. Len(subs') = Len(subs) /\ subs'[s] = IF s = row[r] THEN new ELSE subs[s]
    BY <2>1, <2>5 DEF IInv, TypeOK
  <2> QED
    BY <1>0, <1>2, <2>4, <2>6
<1>3. CASE subs' = subs /\ ~ Record(r)
  BY <1>0, <1>3
<1> QED
  BY <1>1, <1>2, <1>3, SubmissionSteps

\* A request that does not move stays where it is.
LEMMA OthersStay ==
    ASSUME IInv, NEW r \in Requests, Step(r), NEW u \in Requests, u # r
    PROVE  /\ pc'[u] = pc[u] /\ row'[u] = row[u] /\ answer'[u] = answer[u]
           /\ pc[u] # "idle" => At(u)' = At(u)
           /\ \A i : Fresh(u, i)' => Fresh(u, i)
<1>1. pc'[u] = pc[u] /\ row'[u] = row[u] /\ answer'[u] = answer[u] /\ op'[u] = op[u] /\ todo'[u] = todo[u]
  BY DEF IInv, TypeOK, Step, Start, VoidRead, Retry, Context, Check, Reserve, Prepare, Stop, File,
     Record, VoidCommit, Fail, Ends, Goto
<1>2. u \in overtaken => u \in overtaken'
  BY DEF Step, Start, VoidRead, Retry, Context, Check, Reserve, Prepare, Stop, File,
     Record, VoidCommit, Fail, Commits, history
<1>3. row[u] # 0 => subs'[row[u]].invoice = subs[row[u]].invoice
  BY InHand, SubmissionsKept
<1>4. At(u)' = At(u)
  BY <1>1, <1>3 DEF At
<1> QED
  BY <1>1, <1>2, <1>4 DEF Fresh

\* What is said of the submissions of an invoice, where they are as before.
LEMMA SameSubmissions ==
    ASSUME subs' = subs, NEW i
    PROVE  /\ SubsOf(i)' = SubsOf(i) /\ HasAccepted(i)' = HasAccepted(i)
           /\ taken' = taken => \A s : Taken(s)' = Taken(s)
  BY DEF SubsOf, HasAccepted, Taken

\* A request that only reads, gives up or breaks off.
LEMMA FiledReads ==
    ASSUME IInv, FiledInv, NEW r \in Requests,
           \/ \E o \in Ops : Start(r, o) \/ VoidRead(r, o)
           \/ RetryOp \in Ops /\ \E s \in DOMAIN subs : Retry(r, s)
           \/ Context(r) \/ Check(r) \/ Reserve(r) \/ Stop(r) \/ Fail(r)
    PROVE  FiledInv'
<1>0. Step(r)
  BY DEF Step
<1>1. invoice' = invoice /\ subs' = subs /\ taken' = taken /\ stale' = stale /\ blurred \subseteq blurred'
  BY DEF Start, VoidRead, Retry, Context, Check, Reserve, Stop, Fail, tables, history
<1>2. \A i : SubsOf(i)' = SubsOf(i) /\ HasAccepted(i)' = HasAccepted(i)
  BY <1>1, SameSubmissions
<1>3. \A s : Taken(s)' = Taken(s)
  BY <1>1, SameSubmissions
<1>4. /\ answer'[r] = answer[r] \/ answer'[r] = "none"
      /\ \/ row'[r] \in {row[r], 0}
         \/ row'[r] \in 1..Len(subs) /\ subs[row'[r]].invoice \in blurred'
      /\ answer'[r] = "accepted" => row'[r] = row[r]
      /\ answer[r] = "accepted" => answer'[r] = "accepted" \/ At(r) \in blurred'
  BY DEF IInv, TypeOK, PhaseInv, Start, VoidRead, Retry, Context, Check, Reserve, Stop, Fail, Ends, history
<1>5. ASSUME NEW u \in Requests, answer'[u] = "accepted" PROVE Taken(row[u])'
  <2>1. answer[u] = "accepted" /\ row'[u] = row[u]
    BY <1>0, <1>4, <1>5, OthersStay
  <2>2. Taken(row[u])
    BY <2>1 DEF FiledInv
  <2> QED
    BY <1>1, <2>1, <2>2 DEF Taken
<1>6. \A d \in taken' : d[2] \in 1..Len(subs')
  BY <1>1 DEF FiledInv
<1>7. ASSUME NEW i \in Invoices \ (stale' \cup blurred') PROVE FiledOf(i)'
  <2>0. FiledOf(i) /\ i \notin blurred'
    BY <1>1, <1>7 DEF FiledInv
  <2>1. ASSUME NEW s \in SubsOf(i), Taken(s), subs[s].status # "accepted" PROVE Awaits(s)'
    <3> PICK u \in Requests : answer[u] = "accepted" /\ row[u] = s
      BY <2>0, <2>1 DEF FiledOf, Awaits
    <3>1. CASE u # r
      BY <1>0, <3>1, OthersStay DEF Awaits
    <3>2. CASE u = r
      <4>1. s # 0 /\ subs[s].invoice = i
        BY DEF SubsOf, IInv, TypeOK
      <4>2. At(r) = i
        BY <3>2, <4>1, InHand
      <4> QED
        BY <1>4, <2>0, <3>2, <4>1, <4>2 DEF Awaits
    <3> QED
      BY <3>1, <3>2
  <2>2. row'[r] \in SubsOf(i) => row[r] \in SubsOf(i) /\ row'[r] = row[r] /\ pc[r] \in {"file", "answered"}
    <3>1. 0 \notin SubsOf(i) /\ \A s \in SubsOf(i) : subs[s].invoice = i
      BY DEF SubsOf, IInv, TypeOK
    <3> QED
      BY <1>4, <2>0, <3>1 DEF FiledOf
  <2>3. pc'[r] \in {"file", "answered"} => row[r] \notin SubsOf(i) /\ pc[r] = "context"
    <3>1. pc'[r] \in {"file", "answered"} => pc[r] = "context" 
      BY DEF Start, VoidRead, Retry, Context, Check, Reserve, Stop, Fail, Ends, Goto, IInv, TypeOK
    <3> QED
      BY <2>0, <3>1 DEF FiledOf
  <2>4. ~ (Fresh(r, i)' /\ pc'[r] \in {"file", "answered"})
    <3> SUFFICES ASSUME Fresh(r, i)', pc'[r] \in {"file", "answered"} PROVE FALSE
      OBVIOUS
    <3>1. pc[r] = "context" /\ row[r] \notin SubsOf(i)
      BY <2>3
    <3>2. Context(r)
      BY <3>1 DEF Start, VoidRead, Retry, Context, Check, Reserve, Stop, Fail, Ends, Goto, IInv, TypeOK
    <3>3. row[r] # 0 /\ row'[r] = row[r] /\ op' = op
      BY <3>2 DEF Context, Goto, IInv, TypeOK
    <3>4. row[r] \in 1..Len(subs) /\ At(r) = subs[row[r]].invoice
      BY <3>3, InHand
    <3>5. At(r)' = At(r)
      BY <1>1, <3>2, <3>3 DEF At, Context
    <3> QED
      BY <3>1, <3>4, <3>5 DEF Fresh, SubsOf, IInv, TypeOK
  <2>5. ASSUME Fresh(r, i)', pc'[r] \in {"reserve", "prepare"}
        PROVE  invoice[i].status = "posted" /\ ~ HasAccepted(i)
    <3>1. CASE Check(r)
      <4>1. At(r)' = Head(todo[r])
        BY <3>1 DEF Check, At, IInv, PhaseInv
      <4> QED
        BY <2>5, <3>1, <4>1 DEF Check, Fresh
    <3>2. CASE Reserve(r)
      <4>1. At(r)' = At(r) /\ r \notin overtaken /\ pc[r] = "reserve"
        BY <1>1, <2>5, <3>2 DEF Reserve, At, Fresh, history
      <4> QED
        BY <2>0, <2>5, <4>1 DEF FiledOf, Fresh
    <3>3. CASE ~ Check(r) /\ ~ Reserve(r)
      BY <2>5, <3>3 DEF Start, VoidRead, Retry, Context, Stop, Fail, Ends, Goto, IInv, TypeOK
    <3> QED
      BY <3>1, <3>2, <3>3
  <2>6. ASSUME Fresh(r, i)', pc'[r] = "void" PROVE Voidable(i)'
    <3>1. PICK o \in Ops : VoidRead(r, o)
      BY <2>6 DEF Start, VoidRead, Retry, Context, Check, Reserve, Stop, Fail, Ends, Goto, IInv, TypeOK
    <3>2. At(r)' = o.invoice
      BY <3>1 DEF VoidRead, At, IInv, TypeOK
    <3> QED
      BY <1>1, <2>6, <3>1, <3>2 DEF VoidRead, Fresh, Voidable
  <2>7. \A u \in Requests : u # r => pc'[u] = pc[u] /\ row'[u] = row[u] /\ (Fresh(u, i)' => Fresh(u, i))
    BY <1>0, OthersStay
  <2>8. Voidable(i)' = Voidable(i)
    BY <1>1 DEF Voidable
  <2>9. \A s : (subs[s].status)' = subs[s].status
    BY <1>1
  <2>10. \A s \in SubsOf(i)' : Taken(s)' => subs'[s].status = "accepted" \/ Awaits(s)'
    BY <1>1, <1>2, <1>3, <2>1
  <2>11. ASSUME NEW u \in Requests, Fresh(u, i)'
         PROVE  /\ pc'[u] \in {"reserve", "prepare", "file", "answered"} =>
                      invoice[i].status = "posted" /\ ~ HasAccepted(i)
                /\ pc'[u] = "void" => Voidable(i)
    <3>1. CASE u = r
      BY <2>4, <2>5, <2>6, <2>8, <2>11, <3>1
    <3>2. CASE u # r
      BY <2>0, <2>7, <2>11, <3>2 DEF FiledOf
    <3> QED
      BY <3>1, <3>2
  <2>12. ASSUME NEW u \in Requests, NEW v \in Requests, Fresh(u, i)', Fresh(v, i)',
                {pc'[u], pc'[v]} \subseteq {"file", "answered"}
         PROVE  u = v
    <3>1. u # r /\ v # r
      BY <2>4, <2>12
    <3> QED
      BY <2>0, <2>7, <2>12, <3>1 DEF FiledOf
  <2>13. ASSUME NEW u \in Requests, row'[u] \in SubsOf(i) PROVE pc'[u] \in {"file", "answered"}
    <3>1. CASE u = r
      <4>1. row'[r] # 0 /\ pc[r] \in {"file", "answered"}
        BY <2>2, <2>13, <3>1 DEF SubsOf, IInv, TypeOK
      <4> QED
        BY <3>1, <4>1 DEF Start, VoidRead, Retry, Context, Check, Reserve, Stop, Fail, Ends, Goto, IInv, TypeOK
    <3>2. CASE u # r
      BY <2>0, <2>7, <2>13, <3>2 DEF FiledOf
    <3> QED
      BY <3>1, <3>2
  <2>14. \A s \in SubsOf(i) : subs[s].status = "accepted" => Taken(s)
    BY <2>0 DEF FiledOf
  <2>a. ASSUME NEW u \in Requests, NEW v \in Requests, row'[u] \in SubsOf(i), row'[v] = row'[u]
        PROVE  u = v
    <3>1. row[u] = row'[u] /\ row[v] = row'[v]
      BY <2>2, <2>7, <2>a
    <3> QED
      BY <2>0, <2>a, <3>1 DEF FiledOf
  <2>15. \A s, t \in SubsOf(i) :
           subs[s].status = "accepted" /\ subs[t].status = "accepted" => s = t
    BY <2>0 DEF FiledOf
  <2>16. /\ invoice[i].zatca = "accepted" <=> HasAccepted(i)
         /\ HasAccepted(i) => invoice[i].status = "posted"
    BY <2>0 DEF FiledOf
  <2>17. /\ \A u \in Requests : Fresh(u, i)' =>
              /\ pc'[u] \in {"reserve", "prepare", "file", "answered"} =>
                    invoice'[i].status = "posted" /\ ~ HasAccepted(i)'
              /\ pc'[u] = "void" => Voidable(i)'
         /\ \A u \in Requests : row'[u] \in SubsOf(i)' => pc'[u] \in {"file", "answered"}
    BY <1>1, <1>2, <2>8, <2>11, <2>13
  <2>18. /\ \A s \in SubsOf(i)' : subs'[s].status = "accepted" => Taken(s)'
         /\ \A s, t \in SubsOf(i)' :
               subs'[s].status = "accepted" /\ subs'[t].status = "accepted" => s = t
         /\ invoice'[i].zatca = "accepted" <=> HasAccepted(i)'
         /\ HasAccepted(i)' => invoice'[i].status = "posted"
    BY <1>1, <1>2, <1>3, <2>14, <2>15, <2>16
  <2> QED
    BY <1>2, <2>10, <2>12, <2>17, <2>18, <2>a DEF FiledOf
<1> QED
  BY <1>5, <1>6, <1>7 DEF FiledInv
\* A filing: the authority may have the document now, and tells so or leaves it in doubt.
LEMMA FiledFile ==
    ASSUME IInv, FiledInv, NEW r \in Requests, File(r)
    PROVE  FiledInv'
<1> DEFINE n == row[r]
           document == <<ctx[r].env, subs[n].hash>>
<1>0. Step(r)
  BY DEF Step
<1>1. /\ invoice' = invoice /\ subs' = subs /\ stale' = stale /\ row' = row /\ blurred \subseteq blurred'
      /\ pc[r] = "file" /\ pc' = [pc EXCEPT ![r] = "answered"] /\ overtaken' = overtaken
      /\ op' = op /\ todo' = todo
  BY DEF File, Goto, tables
<1>2. \A i : SubsOf(i)' = SubsOf(i) /\ HasAccepted(i)' = HasAccepted(i) /\ Voidable(i)' = Voidable(i)
  BY <1>1 DEF SubsOf, HasAccepted, Voidable
<1>3. /\ n \in 1..Len(subs) /\ subs[n].hash = n /\ ctx[r].env \in Environments
      /\ At(r) = subs[n].invoice /\ At(r) \in Invoices /\ answer[r] = "none"
  <2>1. row[r] # 0 /\ ctx[r] \in Contexts /\ answer[r] = "none"
    BY <1>1 DEF IInv, PhaseInv, TypeOK
  <2> QED
    BY <2>1, InHand, KindTypes DEF Contexts
<1>4. /\ taken \subseteq taken' /\ taken' \subseteq taken \cup {document}
      /\ answer'[r] = "accepted" => document \in taken'
      /\ taken' # taken => answer'[r] = "accepted" \/ At(r) \in blurred'
      /\ \A u \in Requests : u # r => answer'[u] = answer[u]
  BY DEF File, IInv, TypeOK
<1>5. \A u \in Requests : /\ At(u)' = At(u)
                          /\ \A i : Fresh(u, i)' <=> Fresh(u, i)
  BY <1>1 DEF At, Fresh, IInv, TypeOK
<1>6. ASSUME NEW s \in 1..Len(subs), Taken(s)' PROVE Taken(s) \/ s = n
  <2>1. s = subs[s].hash
    BY KindTypes
  <2> HIDE DEF n
  <2> QED
    BY <1>1, <1>3, <1>4, <1>6, <2>1 DEF Taken
<1>7. ASSUME NEW s, Taken(s) PROVE Taken(s)'
  BY <1>1, <1>4, <1>7 DEF Taken
<1>8. ASSUME NEW d \in taken' PROVE d[2] \in 1..Len(subs')
  BY <1>1, <1>3, <1>4 DEF FiledInv
<1>9. ASSUME NEW u \in Requests, answer'[u] = "accepted" PROVE Taken(row[u])'
  <2>1. CASE u = r
    BY <1>1, <1>3, <1>4, <1>9, <2>1 DEF Taken
  <2>2. CASE u # r
    <3>1. Taken(row[u])
      BY <1>4, <1>9, <2>2 DEF FiledInv
    <3> QED
      BY <1>1, <1>4, <3>1 DEF Taken
  <2> QED
    BY <2>1, <2>2
<1>10. ASSUME NEW i \in Invoices \ (stale' \cup blurred') PROVE FiledOf(i)'
  <2>0. FiledOf(i) /\ i \notin blurred' /\ SubsOf(i) \subseteq 1..Len(subs)
    BY <1>1, <1>10 DEF FiledInv, SubsOf, IInv, TypeOK
  <2>1. ASSUME NEW s \in SubsOf(i), Taken(s)', subs[s].status # "accepted" PROVE Awaits(s)'
    <3>1. CASE Taken(s)
      <4>1. PICK u \in Requests : answer[u] = "accepted" /\ row[u] = s
        BY <2>0, <2>1, <3>1 DEF FiledOf, Awaits
      <4> QED
        BY <1>1, <1>3, <1>4, <4>1 DEF Awaits
    <3>2. CASE ~ Taken(s)
      <4>1. s = n /\ taken' # taken
        BY <1>1, <1>6, <2>0, <2>1, <3>2 DEF Taken
      <4>2. At(r) = i
        BY <1>3, <4>1 DEF SubsOf
      <4> QED
        BY <1>1, <1>4, <2>0, <4>1, <4>2 DEF Awaits
    <3> QED
      BY <3>1, <3>2
  <2>2. \A u \in Requests : pc'[u] = IF u = r THEN "answered" ELSE pc[u]
    BY <1>1 DEF IInv, TypeOK
  <2>3. /\ \A s \in SubsOf(i)' : Taken(s)' => subs'[s].status = "accepted" \/ Awaits(s)'
        /\ \A s \in SubsOf(i)' : subs'[s].status = "accepted" => Taken(s)'
        /\ \A s, t \in SubsOf(i)' :
               subs'[s].status = "accepted" /\ subs'[t].status = "accepted" => s = t
    BY <1>1, <1>2, <1>7, <2>0, <2>1 DEF FiledOf
  <2>4. /\ invoice'[i].zatca = "accepted" <=> HasAccepted(i)'
        /\ HasAccepted(i)' => invoice'[i].status = "posted"
    BY <1>1, <1>2, <2>0 DEF FiledOf
  <2>5. \A u \in Requests : Fresh(u, i)' =>
              /\ pc'[u] \in {"reserve", "prepare", "file", "answered"} =>
                    invoice'[i].status = "posted" /\ ~ HasAccepted(i)'
              /\ pc'[u] = "void" => Voidable(i)'
    BY <1>1, <1>2, <1>5, <2>0, <2>2 DEF FiledOf
  <2>6. ASSUME NEW u \in Requests, NEW v \in Requests, Fresh(u, i)', Fresh(v, i)',
               {pc'[u], pc'[v]} \subseteq {"file", "answered"}
        PROVE  u = v
    <3>1. Fresh(u, i) /\ Fresh(v, i) /\ {pc[u], pc[v]} \subseteq {"file", "answered"}
      BY <1>1, <1>5, <2>2, <2>6
    <3> QED
      BY <2>0, <3>1 DEF FiledOf
  <2>7. \A u \in Requests : row'[u] \in SubsOf(i)' => pc'[u] \in {"file", "answered"}
    BY <1>1, <1>2, <2>0, <2>2 DEF FiledOf
  <2>8. \A u, v \in Requests : row'[u] \in SubsOf(i)' /\ row'[v] = row'[u] => u = v
    BY <1>1, <1>2, <2>0 DEF FiledOf
  <2> QED
    BY <2>3, <2>4, <2>5, <2>6, <2>7, <2>8 DEF FiledOf
<1> QED
  BY <1>8, <1>9, <1>10 DEF FiledInv
\* What a step that commits on an invoice does to everything else.
LEMMA CommitSteps ==
    ASSUME IInv, FiledInv, IInv', NEW r \in Requests, Prepare(r) \/ Record(r) \/ VoidCommit(r)
    PROVE  /\ Step(r) /\ pc[r] # "idle" /\ At(r) \in Invoices /\ Commits(r, At(r))
           /\ taken' = taken /\ blurred' = blurred /\ stale \subseteq stale'
           /\ \A i \in Invoices \ {At(r)} : invoice'[i] = invoice[i]
           /\ \A i \in Invoices : SubsOf(i) \subseteq SubsOf(i)'
           /\ \A i \in Invoices \ {At(r)} : SubsOf(i)' = SubsOf(i)
           /\ \A s \in 1..Len(subs) : Taken(s)' = Taken(s)
           /\ answer'[r] = "none"
           /\ row'[r] # 0 => Prepare(r)
           /\ pc'[r] \in {"idle", "context"} \/ Prepare(r)
<1>1. Step(r)
  BY DEF Step
<1>2. /\ pc[r] # "idle" /\ Commits(r, At(r)) /\ taken' = taken /\ blurred' = blurred
      /\ \A i \in Invoices \ {At(r)} : invoice'[i] = invoice[i]
      /\ answer'[r] = "none" /\ (row'[r] # 0 => Prepare(r))
      /\ pc'[r] \in {"idle", "context"} \/ Prepare(r)
  <2>1. CASE Prepare(r)
    <3>1. At(r) = Head(todo[r]) /\ answer[r] = "none"
      BY <2>1 DEF Prepare, At, IInv, PhaseInv
    <3> QED
      BY <2>1, <3>1 DEF Prepare, IInv, TypeOK
  <2>2. CASE Record(r)
    BY <2>2 DEF Record, Ends, Goto, IInv, TypeOK
  <2>3. CASE VoidCommit(r)
    <3>1. At(r) = op[r].invoice
      BY <2>3 DEF VoidCommit, At, IInv, PhaseInv
    <3> QED
      BY <2>3, <3>1 DEF VoidCommit, Ends, Goto, IInv, TypeOK
  <2> QED
    BY <2>1, <2>2, <2>3
<1>3. At(r) \in Invoices
  BY <1>2, AtType DEF IInv
<1>4. stale \subseteq stale'
  BY <1>2 DEF Commits
<1>5. \A s \in 1..Len(subs) : /\ s \in 1..Len(subs') /\ subs'[s].invoice = subs[s].invoice
                               /\ subs'[s].hash = subs[s].hash
  BY <1>1, SubmissionsKept
<1>d. DOMAIN subs = 1..Len(subs) /\ DOMAIN subs' = 1..Len(subs')
  BY DEF IInv, TypeOK
<1>6. \A i \in Invoices : SubsOf(i) \subseteq SubsOf(i)'
  BY <1>5, <1>d DEF SubsOf
<1>7. \A s \in 1..Len(subs) : Taken(s)' = Taken(s)
  BY <1>2, <1>5 DEF Taken
<1>8. \A s \in 1..Len(subs') : s \in 1..Len(subs) \/ subs'[s].invoice = At(r)
  <2>1. CASE Prepare(r)
    <3>1. row'[r] = Len(subs) + 1 /\ op'[r] = op[r] /\ op[r].kind # "void"
          /\ subs'[Len(subs) + 1].invoice = Head(todo[r])
      <4> DEFINE status == IF ctx[r].gate = "NO_CREDENTIALS" THEN "prepared" ELSE "signed"
                 new == [invoice |-> Head(todo[r]), hash |-> Len(subs) + 1, previous |-> slot[r].last,
                         counter |-> slot[r].counter + 1, status |-> status,
                         env |-> ctx[r].env, born |-> ctx[r].env]
      <4>0. new.invoice = Head(todo[r])
        OBVIOUS
      <4>1. subs' = Append(subs, new)
        BY <2>1 DEF Prepare
      <4> HIDE DEF new
      <4>2. subs'[Len(subs) + 1] = new
        BY <4>1 DEF IInv, TypeOK
      <4>3. pc[r] = "prepare" /\ row' = [row EXCEPT ![r] = Len(subs) + 1] /\ op' = op
        BY <2>1 DEF Prepare
      <4>5. row \in [Requests -> 0..Len(subs)]
        BY DEF IInv, TypeOK
      <4>4. row'[r] = Len(subs) + 1 /\ op[r].kind # "void"
        BY <4>3, <4>5 DEF IInv, PhaseInv
      <4> QED
        BY <4>0, <4>2, <4>3, <4>4
    <3>2. At(r) = Head(todo[r])
      BY <2>1, <3>1 DEF Prepare, At, IInv, PhaseInv
    <3>3. TypeOK /\ PhaseInv /\ SlotInv
      BY DEF IInv
    <3>4. Len(subs') = Len(subs) + 1
      BY <2>1, <3>3, ChainTouched
    <3>5. Len(subs) \in Nat
      BY <3>3 DEF TypeOK
    <3> QED
      BY <3>1, <3>2, <3>4, <3>5
  <2>2. CASE ~ Prepare(r)
    <3>1. Len(subs') = Len(subs)
      BY <1>1, <2>2, ChainUntouched DEF IInv
    <3> QED
      BY <3>1
  <2> QED
    BY <2>1, <2>2
<1>9. \A i \in Invoices \ {At(r)} : SubsOf(i)' = SubsOf(i)
  <2> HIDE DEF At
  <2> TAKE i \in Invoices \ {At(r)}
  <2>1. \A s \in 1..Len(subs') : subs'[s].invoice = i => s \in 1..Len(subs)
    BY <1>8
  <2>2. SubsOf(i)' = {s \in 1..Len(subs') : subs'[s].invoice = i}
    BY <1>d DEF SubsOf
  <2>3. SubsOf(i) = {s \in 1..Len(subs) : subs[s].invoice = i}
    BY <1>d DEF SubsOf
  <2> QED
    BY <1>5, <2>1, <2>2, <2>3
<1> QED
  BY <1>1, <1>2, <1>3, <1>4, <1>6, <1>7, <1>9

\* What stands of an invoice after a commit on another one.
LEMMA FiledElsewhere ==
    ASSUME IInv, FiledInv, IInv', NEW r \in Requests, Prepare(r) \/ Record(r) \/ VoidCommit(r),
           NEW i \in Invoices \ (stale' \cup blurred'), i # At(r)
    PROVE  FiledOf(i)'
<1>1. /\ Step(r) /\ taken' = taken /\ invoice'[i] = invoice[i] /\ SubsOf(i)' = SubsOf(i)
      /\ \A s \in 1..Len(subs) : Taken(s)' = Taken(s)
      /\ answer'[r] = "none" /\ (row'[r] # 0 => Prepare(r))
      /\ pc'[r] \in {"idle", "context"} \/ Prepare(r)
  BY CommitSteps
<1>2. FiledOf(i) /\ SubsOf(i) \subseteq 1..Len(subs)
  <2>1. blurred' = blurred /\ stale \subseteq stale'
    BY CommitSteps
  <2>2. SubsOf(i) \subseteq 1..Len(subs)
    BY DEF SubsOf, IInv, TypeOK
  <2> QED
    BY <2>1, <2>2 DEF FiledInv
<1>3. \A s \in SubsOf(i) : subs'[s].status = subs[s].status
  <2> SUFFICES ASSUME NEW s \in SubsOf(i), Record(r), s = row[r] PROVE FALSE
    BY <1>1, <1>2, SubmissionsKept
  <2>1. row[r] # 0
    BY DEF SubsOf, IInv, TypeOK
  <2> QED
    BY <2>1, InHand DEF SubsOf
<1>4. HasAccepted(i)' = HasAccepted(i)
  BY <1>1, <1>3 DEF HasAccepted
<1>5. \A u \in Requests : u # r =>
         /\ pc'[u] = pc[u] /\ row'[u] = row[u] /\ answer'[u] = answer[u]
         /\ (Fresh(u, i)' => Fresh(u, i))
  BY <1>1, OthersStay
<1>6. ASSUME NEW s \in SubsOf(i), Awaits(s) PROVE Awaits(s)'
  <2> PICK u \in Requests : answer[u] = "accepted" /\ row[u] = s
    BY <1>6 DEF Awaits
  <2>1. u # r
    <3>1. s # 0 /\ subs[s].invoice = i
      BY DEF SubsOf, IInv, TypeOK
    <3> QED
      BY <3>1, InHand
  <2> QED
    BY <1>5, <2>1 DEF Awaits
<1>7. row'[r] \notin SubsOf(i)
  <2>1. CASE Prepare(r)
    BY <1>2, <2>1 DEF Prepare, IInv, TypeOK
  <2>2. CASE ~ Prepare(r)
    BY <1>1, <1>2, <2>2
  <2> QED
    BY <2>1, <2>2
<1>8. ~ Fresh(r, i)' \/ pc'[r] \in {"idle", "context"}
  <2>1. CASE Prepare(r)
    <3>1. row'[r] = Len(subs) + 1 /\ op' = op /\ pc'[r] # "idle" /\ row'[r] # 0 /\ op[r].kind # "void"
      BY <2>1 DEF Prepare, Goto, IInv, TypeOK, PhaseInv
    <3>2. row'[r] \in 1..Len(subs') /\ At(r)' = subs'[row'[r]].invoice
      BY <3>1 DEF IInv, TypeOK, At
    <3>3. row'[r] \notin SubsOf(i)'
      BY <1>1, <1>7
    <3>4. At(r)' # i
      BY <3>2, <3>3 DEF SubsOf, IInv, TypeOK
    <3> QED
      BY <3>4 DEF Fresh
  <2> QED
    BY <1>1, <2>1
<1>9. Voidable(i)' = Voidable(i)
  BY <1>1 DEF Voidable
<1>10. /\ \A s \in SubsOf(i)' : Taken(s)' => subs'[s].status = "accepted" \/ Awaits(s)'
       /\ \A s \in SubsOf(i)' : subs'[s].status = "accepted" => Taken(s)'
       /\ \A s, t \in SubsOf(i)' :
              subs'[s].status = "accepted" /\ subs'[t].status = "accepted" => s = t
  BY <1>1, <1>2, <1>3, <1>6 DEF FiledOf
<1>11. /\ invoice'[i].zatca = "accepted" <=> HasAccepted(i)'
       /\ HasAccepted(i)' => invoice'[i].status = "posted"
  BY <1>1, <1>2, <1>4 DEF FiledOf
<1>12. \A u \in Requests : Fresh(u, i)' =>
              /\ pc'[u] \in {"reserve", "prepare", "file", "answered"} =>
                    invoice'[i].status = "posted" /\ ~ HasAccepted(i)'
              /\ pc'[u] = "void" => Voidable(i)'
  <2> TAKE u \in Requests
  <2>1. CASE u = r
    BY <1>8, <2>1
  <2>2. CASE u # r
    BY <1>1, <1>2, <1>4, <1>5, <1>9, <2>2 DEF FiledOf
  <2> QED
    BY <2>1, <2>2
<1>13. ASSUME NEW u \in Requests, NEW v \in Requests, Fresh(u, i)', Fresh(v, i)',
              {pc'[u], pc'[v]} \subseteq {"file", "answered"}
       PROVE  u = v
  <2>1. u # r /\ v # r
    BY <1>8, <1>13
  <2> QED
    BY <1>2, <1>5, <1>13, <2>1 DEF FiledOf
<1>14. \A u \in Requests : row'[u] \in SubsOf(i)' => pc'[u] \in {"file", "answered"}
  BY <1>1, <1>2, <1>5, <1>7 DEF FiledOf
<1>15. \A u, v \in Requests : row'[u] \in SubsOf(i)' /\ row'[v] = row'[u] => u = v
  BY <1>1, <1>2, <1>5, <1>7 DEF FiledOf
<1> QED
  BY <1>10, <1>11, <1>12, <1>13, <1>14, <1>15 DEF FiledOf
\* What stands of the invoice a commit is on, where nothing was overtaken: whoever else was
\* at it is now, and who commits has rightly found it as it is.
LEMMA FiledHere ==
    ASSUME IInv, FiledInv, IInv', NEW r \in Requests, Prepare(r) \/ Record(r) \/ VoidCommit(r),
           NEW i \in Invoices \ (stale' \cup blurred'), i = At(r)
    PROVE  /\ FiledOf(i) /\ Fresh(r, i)
           /\ \A u \in Requests : u # r => ~ Fresh(u, i)'
           /\ \A u \in Requests : u # r /\ row'[u] \in SubsOf(i) => pc'[u] \in {"file", "answered"}
           /\ \A u \in Requests : u # r => row'[u] = row[u] /\ row[u] \in 0..Len(subs)
           /\ \A s \in 1..Len(subs) : s # row[r] => (Awaits(s) => Awaits(s)')
<1>1. /\ Step(r) /\ pc[r] # "idle" /\ i \in Invoices /\ Commits(r, i)
      /\ blurred' = blurred /\ stale \subseteq stale'
  BY CommitSteps
<1>2. \A u \in Requests : u # r =>
         /\ pc'[u] = pc[u] /\ row'[u] = row[u] /\ answer'[u] = answer[u]
         /\ pc[u] # "idle" => At(u)' = At(u)
  BY <1>1, OthersStay
<1>3. \A u \in Requests : u # r /\ pc[u] # "idle" /\ At(u) = i => u \in overtaken'
  BY <1>1 DEF Commits
<1>4. r \notin overtaken
  BY <1>1 DEF Commits
<1>5. FiledOf(i)
  BY <1>1 DEF FiledInv
<1>6. \A u \in Requests : u # r => ~ Fresh(u, i)'
  <2> SUFFICES ASSUME NEW u \in Requests, u # r, pc'[u] # "idle", u \notin overtaken', At(u)' = i
               PROVE  FALSE
    BY DEF Fresh
  <2>1. pc[u] # "idle" /\ At(u) = i
    BY <1>2
  <2> QED
    BY <1>3, <2>1
<1>7. Fresh(r, i)
  BY <1>1, <1>4 DEF Fresh
<1>8. \A u \in Requests : u # r /\ row'[u] \in SubsOf(i) => pc'[u] \in {"file", "answered"}
  BY <1>2, <1>5 DEF FiledOf
<1>9. \A u \in Requests : u # r => row'[u] = row[u] /\ row[u] \in 0..Len(subs)
  BY <1>2 DEF IInv, TypeOK
<1>10. \A s \in 1..Len(subs) : s # row[r] => (Awaits(s) => Awaits(s)')
  BY <1>2 DEF Awaits
<1> QED
  BY <1>5, <1>6, <1>7, <1>8, <1>9, <1>10

\* The parts of FiledOf that are left after a commit on i, where nobody but the one who
\* committed is at i with what it read.
LEMMA FiledAfter ==
    ASSUME NEW r \in Requests, NEW i \in Invoices,
           \A s \in SubsOf(i)' : Taken(s)' => subs'[s].status = "accepted" \/ Awaits(s)',
           \A s \in SubsOf(i)' : subs'[s].status = "accepted" => Taken(s)',
           \A s, t \in SubsOf(i)' :
               subs'[s].status = "accepted" /\ subs'[t].status = "accepted" => s = t,
           invoice'[i].zatca = "accepted" <=> HasAccepted(i)',
           HasAccepted(i)' => invoice'[i].status = "posted",
           \A u \in Requests : u # r => ~ Fresh(u, i)',
           \/ pc'[r] \in {"idle", "context"}
           \/ pc'[r] = "file" /\ invoice'[i].status = "posted" /\ ~ HasAccepted(i)',
           \A u \in Requests : row'[u] \in SubsOf(i)' => pc'[u] \in {"file", "answered"},
           \A u, v \in Requests : row'[u] \in SubsOf(i)' /\ row'[v] = row'[u] => u = v
    PROVE  FiledOf(i)'
<1>1. \A u \in Requests : Fresh(u, i)' =>
          /\ pc'[u] \in {"reserve", "prepare", "file", "answered"} =>
                invoice'[i].status = "posted" /\ ~ HasAccepted(i)'
          /\ pc'[u] = "void" => Voidable(i)'
  OBVIOUS
<1>2. \A u, v \in Requests :
          Fresh(u, i)' /\ Fresh(v, i)' /\ {pc'[u], pc'[v]} \subseteq {"file", "answered"} => u = v
  OBVIOUS
<1> QED
  BY <1>1, <1>2 DEF FiledOf

LEMMA FiledPrepare ==
    ASSUME IInv, FiledInv, IInv', NEW r \in Requests, Prepare(r),
           NEW i \in Invoices \ (stale' \cup blurred'), i = At(r)
    PROVE  FiledOf(i)'
<1>1. PICK n : n = Len(subs) + 1
  OBVIOUS
<1>2. /\ FiledOf(i) /\ Fresh(r, i)
      /\ \A u \in Requests : u # r => ~ Fresh(u, i)'
      /\ \A u \in Requests : u # r /\ row'[u] \in SubsOf(i) => pc'[u] \in {"file", "answered"}
      /\ \A u \in Requests : u # r => row'[u] = row[u] /\ row[u] \in 0..Len(subs)
      /\ \A s \in 1..Len(subs) : s # row[r] => (Awaits(s) => Awaits(s)')
  BY FiledHere
<1>3. TypeOK /\ PhaseInv /\ SlotInv /\ ChainInv
  BY DEF IInv
<1>4. /\ Len(subs') = n /\ n \in Nat /\ Len(subs) \in Nat
      /\ subs'[n].status \in {"prepared", "signed"} /\ subs'[n].hash = n
      /\ \A s \in 1..Len(subs) : subs'[s] = subs[s]
  <2>1. Len(subs') = n /\ subs'[n].hash = n
    BY <1>1, <1>3, ChainTouched
  <2>2. subs'[n].status \in {"prepared", "signed"} /\ \A s \in 1..Len(subs) : subs'[s] = subs[s]
    BY <1>1, SubmissionSteps DEF Step
  <2> QED
    BY <1>1, <1>3, <2>1, <2>2 DEF TypeOK
<1>5. pc[r] = "prepare" /\ row[r] = 0 /\ pc'[r] = "file" /\ taken' = taken
      /\ invoice'[i].status = invoice[i].status /\ invoice'[i].zatca \in {"prepared", "signed"}
  <2>1. pc[r] = "prepare" /\ row[r] = 0 /\ pc'[r] = "file" /\ taken' = taken /\ i = Head(todo[r])
    BY <1>3 DEF Prepare, Goto, TypeOK, PhaseInv, At
  <2>2. \E status \in {"prepared", "signed"} : invoice' = [invoice EXCEPT ![i].zatca = status]
    BY <2>1 DEF Prepare
  <2> QED
    BY <1>3, <2>1, <2>2 DEF TypeOK
<1>6. invoice[i].status = "posted" /\ ~ HasAccepted(i)
  BY <1>2, <1>5 DEF FiledOf
<1>7. SubsOf(i) \subseteq 1..Len(subs) /\ SubsOf(i)' \subseteq SubsOf(i) \cup {n}
  <2>1. DOMAIN subs = 1..Len(subs) /\ DOMAIN subs' = 1..n
    BY <1>3, <1>4 DEF IInv, TypeOK
  <2>2. SubsOf(i)' = {s \in 1..n : subs'[s].invoice = i}
    BY <2>1 DEF SubsOf
  <2>3. SubsOf(i) = {s \in 1..Len(subs) : subs[s].invoice = i}
    BY <2>1 DEF SubsOf
  <2>4. \A s \in 1..n : s = n \/ s \in 1..Len(subs)
    BY <1>1, <1>4
  <2> QED
    BY <1>4, <2>2, <2>3, <2>4
<1>8. ~ Taken(n)'
  <2>1. \A e : <<e, n>>[2] = n /\ n \notin 1..Len(subs)
    BY <1>1, <1>4
  <2>2. \A e : <<e, n>> \notin taken
    BY <2>1 DEF FiledInv
  <2> QED
    BY <1>4, <1>5, <2>2 DEF Taken
<1>9. \A s \in SubsOf(i) : Taken(s)' = Taken(s) /\ subs[s].status # "accepted"
  <2>1. \A s \in SubsOf(i) : Taken(s)' = Taken(s)
    BY <1>4, <1>5, <1>7 DEF Taken
  <2> QED
    BY <1>6, <2>1 DEF HasAccepted
<1>10. \A s \in SubsOf(i)' : subs'[s].status # "accepted"
  BY <1>4, <1>7, <1>9
<1>11. ~ HasAccepted(i)'
  BY <1>10 DEF HasAccepted
<1>12. \A s \in SubsOf(i)' : Taken(s)' => Awaits(s)'
  <2>1. \A s \in SubsOf(i) : Taken(s) => Awaits(s)
    BY <1>2, <1>9 DEF FiledOf
  <2> QED
    BY <1>2, <1>5, <1>7, <1>8, <1>9, <2>1
<1>13. \A u \in Requests : row'[u] \in SubsOf(i)' => pc'[u] \in {"file", "answered"}
  <2> TAKE u \in Requests
  <2>1. CASE u = r
    BY <1>5, <2>1
  <2>2. CASE u # r
    BY <1>1, <1>2, <1>4, <1>7, <2>2
  <2> QED
    BY <2>1, <2>2
<1>14. \A u, v \in Requests : row'[u] \in SubsOf(i)' /\ row'[v] = row'[u] => u = v
  <2>1. row'[r] = n
    BY <1>1, <1>3 DEF Prepare, TypeOK
  <2>2. \A u \in Requests : u # r => row'[u] # n
    BY <1>1, <1>2, <1>4
  <2>3. n \notin SubsOf(i)
    BY <1>1, <1>4, <1>7
  <2> QED
    BY <1>2, <1>7, <2>1, <2>2, <2>3 DEF FiledOf
<1>15. /\ \A s \in SubsOf(i)' : subs'[s].status = "accepted" => Taken(s)'
       /\ \A s, t \in SubsOf(i)' :
             subs'[s].status = "accepted" /\ subs'[t].status = "accepted" => s = t
  BY <1>10
<1>16. /\ invoice'[i].zatca = "accepted" <=> HasAccepted(i)'
       /\ invoice'[i].status = "posted"
  BY <1>5, <1>6, <1>11
<1> QED
  BY <1>2, <1>5, <1>11, <1>12, <1>13, <1>14, <1>15, <1>16, FiledAfter

LEMMA FiledRecord ==
    ASSUME IInv, FiledInv, IInv', NEW r \in Requests, Record(r),
           NEW i \in Invoices \ (stale' \cup blurred'), i = At(r)
    PROVE  FiledOf(i)'
<1>1. /\ FiledOf(i) /\ Fresh(r, i)
      /\ \A u \in Requests : u # r => ~ Fresh(u, i)'
      /\ \A u \in Requests : u # r /\ row'[u] \in SubsOf(i) => pc'[u] \in {"file", "answered"}
      /\ \A u \in Requests : u # r => row'[u] = row[u] /\ row[u] \in 0..Len(subs)
      /\ \A s \in 1..Len(subs) : s # row[r] => (Awaits(s) => Awaits(s)')
  BY FiledHere
<1>2. TypeOK /\ PhaseInv /\ SlotInv /\ ChainInv /\ Step(r)
  BY DEF IInv, Step
<1>3. /\ pc[r] = "answered" /\ row[r] \in 1..Len(subs) /\ subs[row[r]].invoice = i
      /\ answer[r] \in {"accepted", "failed"}
  <2>1. pc[r] = "answered" /\ row[r] # 0 /\ answer[r] \in {"accepted", "failed"}
    BY <1>2 DEF Record, PhaseInv, TypeOK
  <2> QED
    BY <2>1, InHand
<1>4. invoice[i].status = "posted" /\ ~ HasAccepted(i)
  BY <1>1, <1>3 DEF FiledOf
<1>5. /\ row'[r] = 0 /\ pc'[r] \in {"idle", "context"} /\ taken' = taken
      /\ invoice'[i].status = invoice[i].status /\ invoice'[i].zatca = answer[r]
  <2>1. row'[r] = 0 /\ pc'[r] \in {"idle", "context"} /\ taken' = taken
    BY <1>2 DEF Record, Ends, Goto, TypeOK
  <2>2. invoice' = [invoice EXCEPT ![i].zatca = answer[r]]
    BY DEF Record
  <2> QED
    BY <1>2, <2>1, <2>2 DEF TypeOK
<1>6. DOMAIN subs' = DOMAIN subs /\ DOMAIN subs = 1..Len(subs)
  <2>1. Len(subs') = Len(subs)
    BY <1>2, ChainUntouched DEF Record, Prepare
  <2> QED
    BY <1>2, <2>1 DEF IInv, TypeOK
<1>7. \A s \in 1..Len(subs) : /\ subs'[s].invoice = subs[s].invoice /\ subs'[s].hash = subs[s].hash
                              /\ subs'[s].status = IF s = row[r] THEN answer[r] ELSE subs[s].status
  BY <1>2, SubmissionsKept
<1>8. SubsOf(i)' = SubsOf(i) /\ SubsOf(i) \subseteq 1..Len(subs) /\ row[r] \in SubsOf(i)
  BY <1>3, <1>6, <1>7 DEF SubsOf
<1>9. \A s \in SubsOf(i) : Taken(s)' = Taken(s) /\ subs[s].status # "accepted"
  <2>1. \A s \in SubsOf(i) : Taken(s)' = Taken(s)
    BY <1>5, <1>7, <1>8 DEF Taken
  <2> QED
    BY <1>4, <2>1 DEF HasAccepted
<1>10. answer[r] = "accepted" => Taken(row[r])
  BY DEF FiledInv
<1>11. \A s \in SubsOf(i)' : subs'[s].status = "accepted" <=> s = row[r] /\ answer[r] = "accepted"
  BY <1>7, <1>8, <1>9
<1>12. HasAccepted(i)' <=> answer[r] = "accepted"
  BY <1>8, <1>11 DEF HasAccepted
<1>13. \A s \in SubsOf(i)' : Taken(s)' => subs'[s].status = "accepted" \/ Awaits(s)'
  <2>1. \A s \in SubsOf(i) : Taken(s) => Awaits(s)
    BY <1>1, <1>9 DEF FiledOf
  <2>2. ASSUME Taken(row[r]) PROVE answer[r] = "accepted"
    <3>1. PICK u \in Requests : answer[u] = "accepted" /\ row[u] = row[r]
      BY <1>8, <2>1, <2>2 DEF Awaits
    <3>2. u = r
      BY <1>1, <1>8, <3>1 DEF FiledOf
    <3> QED
      BY <3>1, <3>2
  <2> QED
    BY <1>1, <1>8, <1>9, <1>11, <2>1, <2>2
<1>14. \A u \in Requests : row'[u] \in SubsOf(i)' => pc'[u] \in {"file", "answered"}
  <2> TAKE u \in Requests
  <2>1. 0 \notin SubsOf(i)
    BY <1>8
  <2> QED
    BY <1>1, <1>5, <1>8, <2>1
<1>15. /\ \A s \in SubsOf(i)' : subs'[s].status = "accepted" => Taken(s)'
       /\ \A s, t \in SubsOf(i)' :
             subs'[s].status = "accepted" /\ subs'[t].status = "accepted" => s = t
  BY <1>8, <1>9, <1>10, <1>11
<1>16. \A u, v \in Requests : row'[u] \in SubsOf(i)' /\ row'[v] = row'[u] => u = v
  <2>1. 0 \notin SubsOf(i)
    BY <1>8
  <2> QED
    BY <1>1, <1>5, <1>8, <2>1 DEF FiledOf
<1> QED
  BY <1>1, <1>4, <1>5, <1>12, <1>13, <1>14, <1>15, <1>16, FiledAfter
LEMMA FiledVoid ==
    ASSUME IInv, FiledInv, IInv', NEW r \in Requests, VoidCommit(r),
           NEW i \in Invoices \ (stale' \cup blurred'), i = At(r)
    PROVE  FiledOf(i)'
<1>1. /\ FiledOf(i) /\ Fresh(r, i)
      /\ \A u \in Requests : u # r => ~ Fresh(u, i)'
      /\ \A u \in Requests : u # r /\ row'[u] \in SubsOf(i) => pc'[u] \in {"file", "answered"}
      /\ \A u \in Requests : u # r => row'[u] = row[u] /\ row[u] \in 0..Len(subs)
      /\ \A s \in 1..Len(subs) : s # row[r] => (Awaits(s) => Awaits(s)')
  BY FiledHere
<1>2. TypeOK /\ PhaseInv
  BY DEF IInv
<1>3. pc[r] = "void" /\ row[r] = 0 /\ i = op[r].invoice /\ subs' = subs /\ taken' = taken
  BY <1>2 DEF VoidCommit, PhaseInv, At
<1>4. invoice[i].status = "posted" /\ invoice[i].zatca # "accepted" /\ ~ HasAccepted(i)
  BY <1>1, <1>3 DEF FiledOf, Voidable
<1>5. row'[r] = 0 /\ pc'[r] \in {"idle", "context"} /\ invoice'[i].zatca = "voided"
  <2>1. row'[r] = 0 /\ pc'[r] \in {"idle", "context"}
    BY <1>2 DEF VoidCommit, Ends, Goto, TypeOK
  <2>2. invoice' = [invoice EXCEPT ![i] = [status |-> "voided", zatca |-> "voided"]]
    BY <1>3, <1>4 DEF VoidCommit
  <2> QED
    BY <1>2, <2>1, <2>2 DEF TypeOK
<1>6. /\ SubsOf(i)' = SubsOf(i) /\ HasAccepted(i)' = HasAccepted(i) /\ \A s : Taken(s)' = Taken(s)
      /\ SubsOf(i) \subseteq 1..Len(subs)
  BY <1>2, <1>3, SameSubmissions DEF SubsOf, TypeOK
<1>7. \A s \in SubsOf(i) : s # 0 /\ (Awaits(s) => Awaits(s)')
  BY <1>1, <1>3, <1>6
<1>8. \A s \in SubsOf(i)' : Taken(s)' => subs'[s].status = "accepted" \/ Awaits(s)'
  BY <1>1, <1>3, <1>6, <1>7 DEF FiledOf
<1>9. /\ \A s \in SubsOf(i)' : subs'[s].status = "accepted" => Taken(s)'
      /\ \A s, t \in SubsOf(i)' :
            subs'[s].status = "accepted" /\ subs'[t].status = "accepted" => s = t
  BY <1>1, <1>3, <1>6 DEF FiledOf
<1>10. /\ \A u \in Requests : row'[u] \in SubsOf(i)' => pc'[u] \in {"file", "answered"}
       /\ \A u, v \in Requests : row'[u] \in SubsOf(i)' /\ row'[v] = row'[u] => u = v
  BY <1>1, <1>5, <1>6, <1>7 DEF FiledOf
<1>11. (invoice'[i].zatca = "accepted" <=> HasAccepted(i)') /\ ~ HasAccepted(i)'
  BY <1>4, <1>5, <1>6
<1> QED
  BY <1>1, <1>5, <1>8, <1>9, <1>10, <1>11, FiledAfter

LEMMA FiledStep ==
    ASSUME IInv, FiledInv, IInv', NEW r \in Requests, Step(r)
    PROVE  FiledInv'
<1>1. CASE Prepare(r) \/ Record(r) \/ VoidCommit(r)
  <2>1. /\ taken' = taken /\ blurred' = blurred /\ answer'[r] = "none"
        /\ \A s \in 1..Len(subs) : Taken(s)' = Taken(s)
    BY <1>1, CommitSteps
  <2>2. \A d \in taken' : d[2] \in 1..Len(subs')
    <3>1. \A s \in 1..Len(subs) : s \in 1..Len(subs')
      BY SubmissionsKept
    <3> QED
      BY <2>1, <3>1 DEF FiledInv
  <2>3. ASSUME NEW u \in Requests, answer'[u] = "accepted" PROVE Taken(row[u])'
    <3>1. u # r
      BY <2>1, <2>3
    <3>2. answer[u] = "accepted" /\ row'[u] = row[u]
      BY <2>3, <3>1, OthersStay
    <3>3. Taken(row[u]) /\ row[u] # 0
      BY <3>2 DEF FiledInv, IInv, PhaseInv
    <3>4. PICK s : s = row[u]
      OBVIOUS
    <3>5. Taken(s)'
      BY <2>1, <3>3, <3>4, InHand
    <3> QED
      BY <3>2, <3>4, <3>5
  <2>4. ASSUME NEW i \in Invoices \ (stale' \cup blurred') PROVE FiledOf(i)'
    <3>1. CASE i # At(r)
      BY <1>1, <3>1, FiledElsewhere
    <3>2. CASE i = At(r)
      BY <1>1, <3>2, FiledPrepare, FiledRecord, FiledVoid
    <3> QED
      BY <3>1, <3>2
  <2> QED
    BY <2>2, <2>3, <2>4 DEF FiledInv
<1>2. CASE File(r)
  BY <1>2, FiledFile
<1> QED
  BY <1>1, <1>2, FiledReads DEF Step

\* What the authority has is accepted, or about to be by the one who has rightly found the
\* invoice posted and not accepted.
LEMMA FiledAtMostOnce ==
    ASSUME IInv, FiledInv
    PROVE  FiledOnce
<1> SUFFICES ASSUME NEW i \in Invoices, Clear(i)
             PROVE  /\ Cardinality(TakenOf(i)) <= 1
                    /\ invoice[i].status = "voided" => TakenOf(i) = {}
                    /\ invoice[i].zatca = "accepted" => TakenOf(i) # {}
                    /\ TakenOf(i) # {} => \/ invoice[i].zatca = "accepted"
                                          \/ \E r \in Requests : answer[r] = "accepted" /\ At(r) = i
  BY DEF FiledOnce
<1>1. FiledOf(i)
  BY DEF Clear, FiledInv
<1>2. TakenOf(i) = {s \in SubsOf(i) : Taken(s)}
  BY DEF TakenOf, Taken
<1>3. ASSUME NEW s \in SubsOf(i), NEW r \in Requests, answer[r] = "accepted", row[r] = s
      PROVE  pc[r] = "answered" /\ At(r) = i /\ Fresh(r, i)
  <2>1. pc[r] = "answered" /\ s # 0 /\ subs[s].invoice = i
    BY <1>3 DEF IInv, PhaseInv, SubsOf, TypeOK
  <2>2. At(r) = i
    BY <1>3, <2>1, InHand
  <2> QED
    BY <2>1, <2>2 DEF Fresh, Clear
<1>4. ASSUME NEW s \in TakenOf(i), subs[s].status # "accepted"
      PROVE  \E r \in Requests : /\ answer[r] = "accepted" /\ row[r] = s /\ pc[r] = "answered"
                                 /\ At(r) = i /\ Fresh(r, i)
  BY <1>1, <1>2, <1>3, <1>4 DEF FiledOf, Awaits
<1>5. ASSUME NEW s \in TakenOf(i), NEW t \in TakenOf(i) PROVE s = t
  <2>1. CASE subs[s].status = "accepted" /\ subs[t].status = "accepted"
    BY <1>1, <1>2, <2>1 DEF FiledOf
  <2>2. CASE HasAccepted(i) /\ (subs[s].status # "accepted" \/ subs[t].status # "accepted")
    BY <1>1, <1>4, <2>2 DEF FiledOf
  <2>3. CASE subs[s].status # "accepted" /\ subs[t].status # "accepted"
    <3>1. PICK r \in Requests : row[r] = s /\ pc[r] = "answered" /\ Fresh(r, i)
      BY <1>4, <2>3
    <3>2. PICK u \in Requests : row[u] = t /\ pc[u] = "answered" /\ Fresh(u, i)
      BY <1>4, <2>3
    <3>3. r = u
      BY <1>1, <3>1, <3>2 DEF FiledOf
    <3> QED
      BY <3>1, <3>2, <3>3
  <2>4. HasAccepted(i) \/ (subs[s].status # "accepted" /\ subs[t].status # "accepted")
    BY <1>2 DEF HasAccepted
  <2> QED
    BY <2>1, <2>2, <2>3, <2>4
<1>6. Cardinality(TakenOf(i)) <= 1
  <2>1. CASE TakenOf(i) = {}
    BY <2>1, FS_EmptySet
  <2>2. CASE TakenOf(i) # {}
    <3> PICK s : s \in TakenOf(i)
      BY <2>2
    <3>1. TakenOf(i) = {s}
      BY <1>5
    <3>2. Cardinality({s}) = 1
      BY FS_Singleton
    <3> QED
      BY <3>1, <3>2
  <2> QED
    BY <2>1, <2>2
<1>7. invoice[i].status = "voided" => TakenOf(i) = {}
  <2> SUFFICES ASSUME NEW s \in TakenOf(i) PROVE invoice[i].status = "posted"
    OBVIOUS
  <2>1. subs[s].status = "accepted" => HasAccepted(i)
    BY <1>2 DEF HasAccepted
  <2> QED
    BY <1>1, <1>4, <2>1 DEF FiledOf
<1>8. invoice[i].zatca = "accepted" => TakenOf(i) # {}
  BY <1>1, <1>2 DEF FiledOf, HasAccepted
<1>9. ASSUME NEW s \in TakenOf(i)
      PROVE  invoice[i].zatca = "accepted" \/ \E r \in Requests : answer[r] = "accepted" /\ At(r) = i
  <2>1. subs[s].status = "accepted" => HasAccepted(i)
    BY <1>2 DEF HasAccepted
  <2> QED
    BY <1>1, <1>4, <2>1 DEF FiledOf
<1> QED
  BY <1>6, <1>7, <1>8, <1>9

\* Where nothing is in doubt, the authority has one document of an invoice at most, none of
\* a voided one, and the invoice says it is accepted exactly if the authority has it, once
\* the answer is recorded: nobody locks the invoice, but who finds it changed is overtaken.
THEOREM OneFiling == Spec => []FiledOnce
<1>1. Init => FiledInv
  <2> SUFFICES ASSUME Init PROVE FiledInv
    OBVIOUS
  <2>1. \A i : SubsOf(i) = {} /\ ~ HasAccepted(i)
    BY DEF Init, SubsOf, HasAccepted
  <2> QED
    BY <2>1 DEF Init, FiledInv, FiledOf, Fresh
<1>2. IInv /\ FiledInv /\ IInv' /\ [Next]_vars => FiledInv'
  <2> SUFFICES ASSUME IInv, FiledInv, IInv', [Next]_vars PROVE FiledInv'
    OBVIOUS
  <2>1. CASE Next
    <3> PICK r \in Requests : Step(r)
      BY <2>1, NextSteps
    <3> QED
      BY FiledStep
  <2>2. CASE UNCHANGED vars
    BY <2>2 DEF vars, tables, request, history, FiledInv, FiledOf, Taken, Awaits, Fresh, At,
       SubsOf, HasAccepted, Voidable
  <2> QED
    BY <2>1, <2>2
<1>3. IInv /\ FiledInv => FiledOnce
  BY FiledAtMostOnce
<1> QED
  BY <1>1, <1>2, <1>3, InvAlways, PTL DEF Spec
==============================================================================
