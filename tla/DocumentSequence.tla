--------------------------- MODULE DocumentSequence ---------------------------
(***************************************************************************)
(* Document numbering: sequences.service.ts, used by every document that   *)
(* is posted.  A business transaction asks for one number after another,   *)
(* for its own document and for the journal entry behind it, and then       *)
(* commits or rolls back.  An allocation is one upsert of the scope's row   *)
(* in table document_sequences: it waits for the row's writer to finish,    *)
(* bumps the version it then finds, and keeps the row until the end of its  *)
(* own transaction.                                                         *)
(***************************************************************************)
EXTENDS Integers, FiniteSets, Sequences

CONSTANTS
    Transactions, \* the business transactions of a behaviour
    Scopes,       \* (branch, document type, fiscal year) combinations
    Prefixes,     \* the settings of a scope
    Jobs,         \* what a transaction may do
    Nobody,
    NoPrefix,
    MaxSafe       \* the largest counter toCount accepts, 2^53 - 1 in the code

(* A document takes numbers in a list of scopes; an administrator sets the  *)
(* prefix of a scope.  A caller's prefix is stored when it creates the row. *)
JobType ==
    [op : {"document"}, scopes : Seq(Scopes), prefix : Prefixes]
        \cup [op : {"configure"}, scopes : {q \in Seq(Scopes) : Len(q) = 1}, prefix : Prefixes]

ASSUME JobsAssumption == Jobs \subseteq JobType
ASSUME NamesAssumption ==
    /\ Nobody \notin Transactions
    /\ NoPrefix \notin Prefixes
    /\ MaxSafe \in Nat \ {0}

VARIABLES
    phase,    \* idle, working, committed, refused
    job,      \* what a transaction does
    wanted,   \* the scopes it still takes a number from
    counter,  \* table document_sequences: the committed counters, 0: no row, or not used yet
    prefix,   \* its committed settings, NoPrefix: there is no row
    writer,   \* the transaction that holds the scope's row
    mine,     \* the version of the row a transaction has written
    draft,    \* the numbers on its uncommitted document
    issued,   \* the numbers on committed documents
    found     \* what configure read: is there a row

sequenceVars == <<phase, job, wanted, counter, prefix, writer, mine, draft, issued, found>>

NoJob == [op |-> "none", scopes |-> << >>, prefix |-> NoPrefix]
Number == [scope : Scopes, value : Nat, by : Transactions]

SequenceTypeOK ==
    /\ phase \in [Transactions -> {"idle", "working", "committed", "refused"}]
    /\ job \in [Transactions -> Jobs \cup {NoJob}]
    /\ wanted \in [Transactions -> Seq(Scopes)]
    /\ counter \in [Scopes -> Nat]
    /\ prefix \in [Scopes -> Prefixes \cup {NoPrefix}]
    /\ writer \in [Scopes -> Transactions \cup {Nobody}]
    /\ mine \in [Transactions -> [Scopes -> Nat]]
    /\ draft \in [Transactions -> SUBSET Number]
    /\ issued \in SUBSET Number
    /\ found \in [Transactions -> {"unread", "row", "norow"}]

SequenceInit ==
    /\ phase = [r \in Transactions |-> "idle"]
    /\ job = [r \in Transactions |-> NoJob]
    /\ wanted = [r \in Transactions |-> << >>]
    /\ counter = [s \in Scopes |-> 0]
    /\ prefix = [s \in Scopes |-> NoPrefix]
    /\ writer = [s \in Scopes |-> Nobody]
    /\ mine = [r \in Transactions |-> [s \in Scopes |-> 0]]
    /\ draft = [r \in Transactions |-> {}]
    /\ issued = {}
    /\ found = [r \in Transactions |-> "unread"]

-----------------------------------------------------------------------------
Working(r) == phase[r] = "working"
Wanted(r) == Head(wanted[r])
(* Fault: the upsert does not wait for the row.                             *)
CanWriteAlways(r, s) == TRUE

CanWrite(r, s) == writer[s] \in {Nobody, r}

(* The row as the statement finds it: its own version if it wrote one.      *)
Latest(r, s) == IF writer[s] = r THEN mine[r][s] ELSE counter[s]

Waits(r) == Working(r) /\ wanted[r] # << >> /\ ~CanWrite(r, Wanted(r))

(* Whom r waits for, directly or through others.                            *)
WaitsFor(r) ==
    LET next(q) == IF Waits(q) THEN {writer[Wanted(q)]} ELSE {}
        upto[n \in 0..Cardinality(Transactions)] ==
            IF n = 0 THEN next(r) ELSE upto[n - 1] \cup UNION {next(q) : q \in upto[n - 1]}
    IN  upto[Cardinality(Transactions)]

(* Fault: the connection goes back to the pool with its transaction open.   *)
ForgetNothing(r) ==
    /\ UNCHANGED writer
    /\ mine' = [mine EXCEPT ![r] = [s \in Scopes |-> 0]]
    /\ draft' = [draft EXCEPT ![r] = {}]
    /\ wanted' = [wanted EXCEPT ![r] = << >>]

Forget(r) ==
    /\ writer' = [s \in Scopes |-> IF writer[s] = r THEN Nobody ELSE writer[s]]
    /\ mine' = [mine EXCEPT ![r] = [s \in Scopes |-> 0]]
    /\ draft' = [draft EXCEPT ![r] = {}]
    /\ wanted' = [wanted EXCEPT ![r] = << >>]

(* Fault: the numbers of a failed document stay issued, as a sequence of    *)
(* the database would leave them.                                           *)
RollbackKeepingNumbers(r) ==
    /\ counter' = [s \in Scopes |-> IF writer[s] = r THEN mine[r][s] ELSE counter[s]]
    /\ Forget(r)
    /\ phase' = [phase EXCEPT ![r] = "refused"]
    /\ UNCHANGED <<job, prefix, issued, found>>

Rollback(r) ==
    /\ Forget(r)
    /\ phase' = [phase EXCEPT ![r] = "refused"]
    /\ UNCHANGED <<job, counter, prefix, issued, found>>

-----------------------------------------------------------------------------
Begin(r) ==
    /\ phase[r] = "idle"
    /\ \E j \in Jobs :
        /\ job' = [job EXCEPT ![r] = j]
        /\ wanted' = [wanted EXCEPT ![r] = j.scopes]
    /\ phase' = [phase EXCEPT ![r] = "working"]
    /\ UNCHANGED <<counter, prefix, writer, mine, draft, issued, found>>

(* SequencesService.allocate: the upsert.                                   *)
Allocate(r) ==
    /\ Working(r)
    /\ job[r].op = "document"
    /\ wanted[r] # << >>
    /\ CanWrite(r, Wanted(r))
    /\ LET s == Wanted(r)
           value == Latest(r, s) + 1
       IN  /\ value <= MaxSafe
           /\ mine' = [mine EXCEPT ![r][s] = value]
           /\ writer' = [writer EXCEPT ![s] = r]
           /\ draft' = [draft EXCEPT ![r] = @ \cup {[scope |-> s, value |-> value, by |-> r]}]
           /\ wanted' = [wanted EXCEPT ![r] = Tail(@)]
    /\ UNCHANGED <<phase, job, counter, prefix, issued, found>>

(* SEQUENCE_EXHAUSTED: toCount refuses the bumped value.                    *)
Exhausted(r) ==
    /\ Working(r)
    /\ job[r].op = "document"
    /\ wanted[r] # << >>
    /\ CanWrite(r, Wanted(r))
    /\ Latest(r, Wanted(r)) + 1 > MaxSafe
    /\ Rollback(r)

(* The document and its numbers share their fate.                           *)
Commit(r) ==
    /\ Working(r)
    /\ job[r].op = "document"
    /\ wanted[r] = << >>
    /\ counter' = [s \in Scopes |-> IF writer[s] = r THEN mine[r][s] ELSE counter[s]]
    /\ prefix' = [s \in Scopes |-> IF writer[s] = r /\ prefix[s] = NoPrefix
                                   THEN job[r].prefix ELSE prefix[s]]
    /\ issued' = issued \cup draft[r]
    /\ Forget(r)
    /\ phase' = [phase EXCEPT ![r] = "committed"]
    /\ UNCHANGED <<job, found>>

(* Any later step of the business transaction fails, or the server dies.    *)
Abandon(r) ==
    /\ Working(r)
    /\ Rollback(r)

(* Two documents that take the same numbers in another order: the database  *)
(* ends one of them.                                                        *)
DeadlockVictim(r) ==
    /\ Waits(r)
    /\ r \in WaitsFor(r)
    /\ Rollback(r)

(* SequencesService.configure: an unlocked read ...                         *)
ReadScope(r) ==
    /\ Working(r)
    /\ job[r].op = "configure"
    /\ found[r] = "unread"
    /\ found' = [found EXCEPT ![r] = IF prefix[Wanted(r)] # NoPrefix THEN "row" ELSE "norow"]
    /\ UNCHANGED <<phase, job, wanted, counter, prefix, writer, mine, draft, issued>>

(* ... and an insert or an update, once the row's writer has finished.  The *)
(* insert of a row that came to be meanwhile is refused by the unique key.  *)
Configure(r) ==
    /\ Working(r)
    /\ job[r].op = "configure"
    /\ found[r] # "unread"
    /\ CanWrite(r, Wanted(r))
    /\ IF found[r] = "row" \/ prefix[Wanted(r)] = NoPrefix
       THEN /\ prefix' = [prefix EXCEPT ![Wanted(r)] = job[r].prefix]
            /\ counter' = IF found[r] = "row" THEN counter ELSE [counter EXCEPT ![Wanted(r)] = 0]
            /\ Forget(r)
            /\ phase' = [phase EXCEPT ![r] = "committed"]
            /\ UNCHANGED <<job, issued, found>>
       ELSE Rollback(r)

AllEnded ==
    /\ \A r \in Transactions : phase[r] \in {"committed", "refused"}
    /\ UNCHANGED sequenceVars

Steps(r) ==
    \/ Begin(r) \/ Allocate(r) \/ Exhausted(r) \/ Commit(r)
    \/ DeadlockVictim(r) \/ ReadScope(r) \/ Configure(r)

SequenceNext == (\E r \in Transactions : Steps(r) \/ Abandon(r)) \/ AllEnded

SequenceSpec == SequenceInit /\ [][SequenceNext]_sequenceVars

(* The database runs every statement whose row is free and breaks every     *)
(* deadlock; no failure is assumed to happen, or not to.                    *)
Fairness == \A r \in Transactions : WF_sequenceVars(Steps(r))
FairSpec == SequenceSpec /\ Fairness

-----------------------------------------------------------------------------
NumbersOf(s) == {i.value : i \in {j \in issued : j.scope = s}}

(* No gaps: the numbers on committed documents of a scope are 1 up to the   *)
(* committed counter, whichever transactions rolled back, died or were      *)
(* ended between.                                                           *)
NoGaps == \A s \in Scopes : NumbersOf(s) = 1..counter[s]

(* No number is on two documents of its scope.                              *)
NoDuplicates ==
    \A i, j \in issued : (i.scope = j.scope /\ i.value = j.value) => i = j

(* Both at once: a series an auditor can count through.                     *)
NumbersInOrder == NoGaps /\ NoDuplicates

(* The numbering is a refinement of the abstract number book: every commit  *)
(* appends one document's numbers, and nothing else changes the books.      *)
Owner(s, n) == (CHOOSE i \in issued : i.scope = s /\ i.value = n).by
Book == INSTANCE NumberBook
    WITH Documents <- Transactions,
         book <- [s \in Scopes |-> [n \in 1..counter[s] |-> Owner(s, n)]]
BookSpec == Book!Spec

(* Queueing on rows never leaves a document waiting forever.                *)
EveryRequestEnds ==
    \A r \in Transactions : <>(phase[r] \in {"committed", "refused"})
=============================================================================
