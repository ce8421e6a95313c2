---------------------------- MODULE StockLedger ----------------------------
(***************************************************************************)
(* The inventory ledger of the API: the append-only inventory_transactions *)
(* rows and the stock_balances cache, as concurrent requests write them.   *)
(*                                                                         *)
(* A request is one database transaction at READ COMMITTED (withTenantTx). *)
(* It sees the last committed value of a row it has not written and its    *)
(* own value of one it has; a row it has selected FOR UPDATE or written    *)
(* stays locked until it commits or rolls back.  A cell is an (item,       *)
(* warehouse) pair, that is one stock_balances row; an absent row reads as *)
(* quantity 0.  Of a movement only its cell and its signed base quantity   *)
(* are kept, so the ledger of a cell is the running sum of its movements.  *)
(***************************************************************************)
EXTENDS Integers, Sequences, FiniteSets, SequencesExt

CONSTANTS
    Requests,   \* the requests in flight
    Cells,      \* (item, warehouse) pairs
    Jobs,       \* what a request may ask for
    None        \* no holder, no job

\* A line of recordInTx; "set" is the upsert of recomputeBalances.
Line == [cell : Cells, direction : {"in", "out"}, qty : Int]
Write == [cell : Cells, direction : {"in", "out", "set"}, qty : Int]

\* POST ledger/record, a transfer, or any posted document; POST adjustments;
\* POST balances/recompute with its warehouse and item filter.
RecordJob == [kind : {"record"}, lines : Seq(Line), allowNegative : BOOLEAN]
AdjustJob == [kind : {"adjust"}, cell : Cells, counted : Nat]
RecomputeJob == [kind : {"recompute"}, filter : SUBSET Cells]

ASSUME JobsAssumption == \A j \in Jobs :
    j \in RecordJob \/ j \in AdjustJob \/ j \in RecomputeJob

ASSUME CellsAssumption == IsFiniteSet(Cells)

ASSUME NoneAssumption == None \notin Requests /\ None \notin Jobs

VARIABLES
    pc,            \* "idle", "reading", "writing", "done" or "failed"
    job,           \* the job the request runs
    todo,          \* the writes its transaction has still to make
    lock,          \* the transaction that holds each stock_balances row
    balance,       \* stock_balances.quantity, committed
    movements,     \* the sum of the committed movements of each cell
    moved,         \* the cells that have a committed movement
    ownBalance,    \* the quantities a transaction wrote and has not committed
    ownMovements,  \* the sums it inserted and has not committed
    overtaken,     \* history: cells committed by others since it read
    drifted,       \* history: cells a recompute has overwritten from a stale sum
    overdrawn      \* history: cells an allowNegative document has moved

ledger == <<balance, movements, moved>>
own == <<ownBalance, ownMovements>>
history == <<overtaken, drifted, overdrawn>>
vars == <<pc, job, todo, lock, ledger, own, history>>

-----------------------------------------------------------------------------

Held(r) == {c \in Cells : lock[c] = r}

IsRecompute(r) == job[r] # None /\ job[r].kind = "recompute"
IsAdjust(r) == job[r] # None /\ job[r].kind = "adjust"

\* The cells the transaction has inserted a movement for.
MovedBy(r) == IF IsRecompute(r) THEN {} ELSE Held(r)

AllowsNegative(r) ==
    job[r] # None /\ job[r].kind = "record" /\ job[r].allowNegative

\* Fault: a line forgets that an earlier line of its document wrote the row.
CurrentAsCommitted(r, c) == balance[c]

\* What SELECT ... FOR UPDATE returns once the row is free.
Current(r, c) == IF lock[c] = r THEN ownBalance[r][c] ELSE balance[c]

\* Fault: the quantity is read without FOR UPDATE.
CanLockAlways(r, c) == TRUE

CanLock(r, c) == lock[c] = None \/ lock[c] = r

\* Fault: an issue is added like a receipt.
SignedAsReceipt(line) == line.qty

Signed(line) == IF line.direction = "in" THEN line.qty ELSE 0 - line.qty

\* Two transactions that wait for each other, directly or round a cycle: every
\* one waits for one of the set and is waited for by one of the set.
Waits(r) == pc[r] = "writing" /\ todo[r] # <<>>
            /\ ~ CanLock(r, Head(todo[r]).cell)
WaitsFor(r) == lock[Head(todo[r]).cell]
InWaitCycle(r) ==
    \E S \in SUBSET Requests :
        /\ r \in S
        /\ \A u \in S : Waits(u) /\ WaitsFor(u) \in S
        /\ \A u \in S : \E v \in S : WaitsFor(v) = u

-----------------------------------------------------------------------------

Init ==
    /\ pc = [r \in Requests |-> "idle"]
    /\ job = [r \in Requests |-> None]
    /\ todo = [r \in Requests |-> <<>>]
    /\ lock = [c \in Cells |-> None]
    /\ balance = [c \in Cells |-> 0]
    /\ movements = [c \in Cells |-> 0]
    /\ moved = {}
    /\ ownBalance = [r \in Requests |-> [c \in Cells |-> 0]]
    /\ ownMovements = [r \in Requests |-> [c \in Cells |-> 0]]
    /\ overtaken = [r \in Requests |-> {}]
    /\ drifted = {}
    /\ overdrawn = {}

\* A request arrives.  A document with no line is refused at once; adjust and
\* recomputeBalances start with a read in a transaction of its own.
Start(r, j) ==
    /\ pc[r] = "idle"
    /\ job' = [job EXCEPT ![r] = j]
    /\ pc' = [pc EXCEPT ![r] =
                CASE j.kind # "record" -> "reading"
                  [] j.kind = "record" /\ j.lines = <<>> -> "failed"
                  [] OTHER -> "writing"]
    /\ todo' = [todo EXCEPT ![r] = IF j.kind = "record" THEN j.lines ELSE <<>>]
    /\ UNCHANGED <<lock, ledger, own, history>>

\* adjust() takes the quantity on hand with levels(), in a transaction that is
\* over before record() opens the one that writes; postAdjustment() takes it in the
\* same transaction, but without locking the row, which leaves the same gap.
ReadLevel(r) ==
    /\ pc[r] = "reading" /\ IsAdjust(r)
    /\ LET c == job[r].cell
           delta == job[r].counted - balance[c]
       IN IF delta = 0
          THEN /\ pc' = [pc EXCEPT ![r] = "done"]
               /\ UNCHANGED todo
          ELSE /\ pc' = [pc EXCEPT ![r] = "writing"]
               /\ todo' = [todo EXCEPT ![r] =
                    << [cell |-> c,
                        direction |-> IF delta > 0 THEN "in" ELSE "out",
                        qty |-> IF delta > 0 THEN delta ELSE 0 - delta] >>]
    /\ UNCHANGED <<job, lock, ledger, own, history>>

\* valuationAsOf() sums the committed movements of the cells the filter selects,
\* also in a transaction of its own; the rows come in the order of each cell's
\* first movement, here in any order.
ReadValuation(r) ==
    /\ pc[r] = "reading" /\ IsRecompute(r)
    /\ pc' = [pc EXCEPT ![r] = "writing"]
    /\ \E order \in SetToSeqs(job[r].filter \cap moved) :
         todo' = [todo EXCEPT ![r] =
            [i \in 1..Len(order) |->
                [cell |-> order[i], direction |-> "set", qty |-> movements[order[i]]]]]
    /\ UNCHANGED <<job, lock, ledger, own, history>>

-----------------------------------------------------------------------------

\* The quantity recordInTx computes for a line from the row it has locked.
Sufficient(r, line) ==
    Current(r, line.cell) + Signed(line) >= 0 \/ AllowsNegative(r)

\* One line of recordInTx: the row is created or waited for, locked and read, the
\* movement inserted and the row updated.  Nobody else sees any of it before the
\* commit, so the line is one step.
RecordLine(r) ==
    /\ pc[r] = "writing" /\ todo[r] # <<>>
    /\ LET line == Head(todo[r])
           c == line.cell
       IN /\ line.direction # "set"
          /\ line.qty > 0
          /\ CanLock(r, c)
          /\ Sufficient(r, line)
          /\ lock' = [lock EXCEPT ![c] = r]
          /\ ownBalance' = [ownBalance EXCEPT ![r][c] = Current(r, c) + Signed(line)]
          /\ ownMovements' = [ownMovements EXCEPT ![r][c] = @ + Signed(line)]
          /\ todo' = [todo EXCEPT ![r] = Tail(@)]
    /\ UNCHANGED <<pc, job, ledger, history>>

\* Fault: the valuation is added to the row instead of replacing it.
RewriteRowAdding(r) ==
    /\ pc[r] = "writing" /\ todo[r] # <<>>
    /\ LET row == Head(todo[r])
           c == row.cell
       IN /\ row.direction = "set"
          /\ CanLock(r, c)
          /\ lock' = [lock EXCEPT ![c] = r]
          /\ ownBalance' = [ownBalance EXCEPT ![r][c] = Current(r, c) + row.qty]
          /\ todo' = [todo EXCEPT ![r] = Tail(@)]
    /\ UNCHANGED <<pc, job, ledger, ownMovements, history>>

\* One row of recomputeBalances: INSERT ... ON CONFLICT DO UPDATE waits for the row
\* like any update and overwrites it with the quantity read earlier.
RewriteRow(r) ==
    /\ pc[r] = "writing" /\ todo[r] # <<>>
    /\ LET row == Head(todo[r])
           c == row.cell
       IN /\ row.direction = "set"
          /\ CanLock(r, c)
          /\ lock' = [lock EXCEPT ![c] = r]
          /\ ownBalance' = [ownBalance EXCEPT ![r][c] = row.qty]
          /\ todo' = [todo EXCEPT ![r] = Tail(@)]
    /\ UNCHANGED <<pc, job, ledger, ownMovements, history>>

\* Fault: the connection goes back to the pool with its transaction open.
ReleaseNothing(r) ==
    /\ UNCHANGED lock
    /\ ownBalance' = [ownBalance EXCEPT ![r] = [c \in Cells |-> 0]]
    /\ ownMovements' = [ownMovements EXCEPT ![r] = [c \in Cells |-> 0]]
    /\ todo' = [todo EXCEPT ![r] = <<>>]

\* The end of a transaction: its locks go, and what it had not committed.
Release(r) ==
    /\ lock' = [c \in Cells |-> IF lock[c] = r THEN None ELSE lock[c]]
    /\ ownBalance' = [ownBalance EXCEPT ![r] = [c \in Cells |-> 0]]
    /\ ownMovements' = [ownMovements EXCEPT ![r] = [c \in Cells |-> 0]]
    /\ todo' = [todo EXCEPT ![r] = <<>>]

Rollback(r) ==
    /\ pc' = [pc EXCEPT ![r] = "failed"]
    /\ Release(r)
    /\ UNCHANGED <<job, ledger, history>>

\* INVALID_STOCK_QUANTITY before the row is touched, STOCK_INSUFFICIENT once it is
\* locked; either one rolls the whole document back.
RefuseLine(r) ==
    /\ pc[r] = "writing" /\ todo[r] # <<>>
    /\ LET line == Head(todo[r])
       IN /\ line.direction # "set"
          /\ \/ line.qty <= 0
             \/ CanLock(r, line.cell) /\ ~ Sufficient(r, line)
    /\ Rollback(r)

\* PostgreSQL aborts one transaction of a cycle of waits.
DeadlockVictim(r) == InWaitCycle(r) /\ Rollback(r)

\* The API process or its connection dies before the commit.
Crash(r) == pc[r] \in {"reading", "writing"} /\ Rollback(r)

\* What a commit adds to the history: who had read what it changed, which cells a
\* stale sum has just overwritten, which ones an override has moved.
CommitHistory(r) ==
    /\ overtaken' = [u \in Requests |->
          IF pc[u] # "writing" \/ u = r THEN overtaken[u]
          ELSE overtaken[u] \cup IF IsRecompute(u) THEN MovedBy(r) ELSE Held(r)]
    /\ drifted' = drifted \cup IF IsRecompute(r) THEN Held(r) \cap overtaken[r] ELSE {}
    /\ overdrawn' = overdrawn \cup IF AllowsNegative(r) THEN Held(r) ELSE {}

Commit(r) ==
    /\ pc[r] = "writing" /\ todo[r] = <<>>
    /\ pc' = [pc EXCEPT ![r] = "done"]
    /\ balance' = [c \in Cells |-> IF lock[c] = r THEN ownBalance[r][c] ELSE balance[c]]
    /\ movements' = [c \in Cells |-> movements[c] + ownMovements[r][c]]
    /\ moved' = moved \cup MovedBy(r)
    /\ Release(r)
    /\ CommitHistory(r)
    /\ UNCHANGED job

-----------------------------------------------------------------------------

Ended(r) == pc[r] \in {"done", "failed"}

\* Every request has ended: nothing is left to do.
AllEnded == (\A r \in Requests : Ended(r)) /\ UNCHANGED vars

Work(r) ==
    \/ ReadLevel(r)
    \/ ReadValuation(r)
    \/ RecordLine(r)
    \/ RewriteRow(r)
    \/ RefuseLine(r)
    \/ Commit(r)

Step(r) ==
    \/ \E j \in Jobs : Start(r, j)
    \/ Work(r)
    \/ DeadlockVictim(r)
    \/ Crash(r)

Next == (\E r \in Requests : Step(r)) \/ AllEnded

Spec == Init /\ [][Next]_vars

\* A started request goes on as long as it can, and the deadlock detector runs.
\* Nothing makes a client call or a process crash.
Fairness ==
    /\ \A r \in Requests : WF_vars(Work(r))
    /\ WF_vars(\E r \in Requests : DeadlockVictim(r))

FairSpec == Spec /\ Fairness

-----------------------------------------------------------------------------
(* Properties *)

\* Every variable has its type.
TypeOK ==
    /\ pc \in [Requests -> {"idle", "reading", "writing", "done", "failed"}]
    /\ job \in [Requests -> Jobs \cup {None}]
    /\ todo \in [Requests -> Seq(Write)]
    /\ lock \in [Cells -> Requests \cup {None}]
    /\ balance \in [Cells -> Int]
    /\ movements \in [Cells -> Int]
    /\ moved \in SUBSET Cells
    /\ ownBalance \in [Requests -> [Cells -> Int]]
    /\ ownMovements \in [Requests -> [Cells -> Int]]
    /\ overtaken \in [Requests -> SUBSET Cells]
    /\ drifted \in SUBSET Cells
    /\ overdrawn \in SUBSET Cells

\* The cached quantity of a cell is the sum of its movements, however the documents
\* interleave, fail or deadlock: no update is lost between the locking read and the
\* commit.  The one way to lose it is a recompute that was overtaken by a movement
\* between its valuation and its commit.
BalanceMatchesLedger == \A c \in Cells \ drifted : balance[c] = movements[c]

\* No sequence of concurrent documents issues more than a cell holds, unless one that
\* may go negative has moved it: the check is made on the locked row, not on a level
\* read before.
NeverOversold == \A c \in Cells \ (drifted \cup overdrawn) : movements[c] >= 0

\* A recompute repairs every cell it rewrites that no movement has reached since its
\* valuation, whatever the cached quantity was.
RecomputeRepairs ==
    [][\A r \in Requests : IsRecompute(r) /\ Commit(r) =>
          \A c \in Held(r) \ overtaken[r] : balance'[c] = movements'[c]]_vars

\* A stock count that nobody overtook leaves the counted quantity on the row, although
\* it books a difference computed from a level read in an earlier transaction.
AdjustSettlesCount ==
    [][\A r \in Requests : IsAdjust(r) /\ Commit(r) /\ job[r].cell \notin overtaken[r] =>
          balance'[job[r].cell] = job[r].counted]_vars

\* Every request that has started ends: documents that take rows in opposite orders
\* wait for each other only until one of them is aborted.
EveryRequestEnds == \A r \in Requests : pc[r] # "idle" ~> Ended(r)
=============================================================================
