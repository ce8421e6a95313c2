---------------------------- MODULE StockProofs ----------------------------
(***************************************************************************)
(* Proofs about StockLedger, for any requests, cells and jobs: the types,  *)
(* that a cached quantity is the sum of its movements unless a recompute   *)
(* was overtaken, that no cell is issued below zero without an override,   *)
(* and that a count and a recompute nobody overtakes leave on the row what *)
(* was counted, and what the ledger says.  About StockDocument, for any    *)
(* documents, items and costs: that the status of a voucher or a count     *)
(* tells what it has done to the stock, that the inventory account moves   *)
(* with the value of the stock, and that a count nobody overtakes leaves   *)
(* what it counted.                                                        *)
(***************************************************************************)
EXTENDS StockLedger, StockDocument, SumTheorems

-----------------------------------------------------------------------------
(* The ledger: the inductive invariant *)

\* Only a transaction that is open holds rows or has writes to make, and only a
\* request that has started has a job.
LockInv ==
    /\ \A c \in Cells, r \in Requests : lock[c] = r => pc[r] = "writing"
    /\ \A r \in Requests : (job[r] = None) <=> (pc[r] = "idle")
    /\ \A r \in Requests : pc[r] # "writing" => todo[r] = <<>>

\* A document only adds movements to rows it has locked; a recompute adds none.
OwnInv ==
    /\ \A r \in Requests, c \in Cells :
          lock[c] # r \/ IsRecompute(r) => ownMovements[r][c] = 0
    /\ \A r \in Requests : ~ IsRecompute(r) =>
          \A i \in 1..Len(todo[r]) : todo[r][i].direction # "set"

\* On a row it holds, a document's own quantity is the committed one and its own
\* movements: nobody has changed the committed one since it read it.
FreshInv ==
    \A r \in Requests, c \in Cells : lock[c] = r /\ ~ IsRecompute(r) =>
        /\ ownBalance[r][c] = balance[c] + ownMovements[r][c]
        /\ AllowsNegative(r) \/ ownBalance[r][c] >= 0

\* The quantity a recompute is about to write, or has written, is the sum of the
\* cell's movements as long as nobody has overtaken it there.
Valued(r) ==
    /\ \A i \in 1..Len(todo[r]) :
          /\ todo[r][i].direction = "set"
          /\ todo[r][i].cell \notin overtaken[r] =>
                todo[r][i].qty = movements[todo[r][i].cell]
    /\ \A c \in Cells : lock[c] = r /\ c \notin overtaken[r] =>
          ownBalance[r][c] = movements[c]

ValuationInv == \A r \in Requests : IsRecompute(r) => Valued(r)

IInv ==
    /\ TypeOK
    /\ LockInv
    /\ OwnInv
    /\ FreshInv
    /\ ValuationInv
    /\ BalanceMatchesLedger
    /\ NeverOversold

-----------------------------------------------------------------------------
(* The ledger: its operators *)

\* An enumeration of a finite set is a sequence of its elements.
LEMMA EnumerationsAreSequences ==
    ASSUME NEW S, IsFiniteSet(S), NEW s \in SetToSeqs(S)
    PROVE  s \in Seq(S)
<1>1. Cardinality(S) \in Nat
  BY FS_CardinalityType
<1>2. s \in [1..Cardinality(S) -> S]
  BY DEF SetToSeqs
<1> QED
  BY <1>1, <1>2

\* A job is of one of the three kinds and has the fields of its kind.
LEMMA JobTypes ==
    ASSUME NEW j \in Jobs
    PROVE  /\ j.kind \in {"record", "adjust", "recompute"}
           /\ j.kind = "record" => j.lines \in Seq(Line) /\ j.allowNegative \in BOOLEAN
           /\ j.kind = "adjust" => j.cell \in Cells /\ j.counted \in Nat
           /\ j.kind = "recompute" => j.filter \in SUBSET Cells
  BY JobsAssumption DEF RecordJob, AdjustJob, RecomputeJob

\* A document's lines are writes.
LEMMA LinesAreWrites ==
    ASSUME NEW s \in Seq(Line)
    PROVE  s \in Seq(Write)
<1>1. \A l \in Line : l \in Write
  BY DEF Line, Write
<1>2. Len(s) \in Nat /\ s \in [1..Len(s) -> Line]
  OBVIOUS
<1>3. s \in [1..Len(s) -> Write]
  BY <1>1, <1>2
<1> QED
  BY <1>2, <1>3

-----------------------------------------------------------------------------
(* The ledger: types *)

LEMMA TypeInit == Init => TypeOK
  BY NoneAssumption DEF Init, TypeOK

LEMMA TypeStart ==
    ASSUME TypeOK, NEW r \in Requests, NEW j \in Jobs, Start(r, j)
    PROVE  TypeOK'
<1>1. (IF j.kind = "record" THEN j.lines ELSE <<>>) \in Seq(Write)
  BY JobTypes, LinesAreWrites
<1>2. pc' \in [Requests -> {"idle", "reading", "writing", "done", "failed"}]
  BY JobTypes DEF TypeOK, Start
<1> QED
  BY <1>1, <1>2 DEF TypeOK, Start, ledger, own, history

LEMMA TypeReadLevel ==
    ASSUME TypeOK, NEW r \in Requests, ReadLevel(r)
    PROVE  TypeOK'
<1>1. job[r] \in Jobs /\ job[r].kind = "adjust"
  BY DEF TypeOK, ReadLevel, IsAdjust
<1>2. job[r].cell \in Cells /\ job[r].counted \in Nat
  BY <1>1, JobTypes
<1> DEFINE c == job[r].cell
           delta == job[r].counted - balance[c]
           line == [cell |-> c,
                    direction |-> IF delta > 0 THEN "in" ELSE "out",
                    qty |-> IF delta > 0 THEN delta ELSE 0 - delta]
<1>3. delta \in Int
  BY <1>2 DEF TypeOK
<1>4. line \in Write
  BY <1>2, <1>3 DEF Write
<1>5. <<line>> \in Seq(Write)
  BY <1>4
<1>6. \/ pc' = [pc EXCEPT ![r] = "done"] /\ todo' = todo
      \/ pc' = [pc EXCEPT ![r] = "writing"] /\ todo' = [todo EXCEPT ![r] = <<line>>]
  BY DEF ReadLevel
<1> HIDE DEF line
<1> QED
  BY <1>5, <1>6 DEF TypeOK, ReadLevel, ledger, own, history

LEMMA TypeReadValuation ==
    ASSUME TypeOK, NEW r \in Requests, ReadValuation(r)
    PROVE  TypeOK'
<1>1. job[r].filter \cap moved \in SUBSET Cells
  BY DEF TypeOK
<1>2. IsFiniteSet(job[r].filter \cap moved)
  BY <1>1, CellsAssumption, FS_Subset
<1>3. PICK order \in SetToSeqs(job[r].filter \cap moved) :
        todo' = [todo EXCEPT ![r] =
            [i \in 1..Len(order) |->
                [cell |-> order[i], direction |-> "set", qty |-> movements[order[i]]]]]
  BY DEF ReadValuation
<1>4. order \in Seq(job[r].filter \cap moved)
  BY <1>2, EnumerationsAreSequences
<1>5. \A i \in 1..Len(order) : order[i] \in Cells
  BY <1>1, <1>4
<1>6. \A i \in 1..Len(order) :
        [cell |-> order[i], direction |-> "set", qty |-> movements[order[i]]] \in Write
  BY <1>5 DEF TypeOK, Write
<1>7. [i \in 1..Len(order) |->
        [cell |-> order[i], direction |-> "set", qty |-> movements[order[i]]]] \in Seq(Write)
  BY <1>4, <1>6
<1> QED
  BY <1>3, <1>7 DEF TypeOK, ReadValuation, ledger, own, history

\* The write at the head of the list, and the list without it.
LEMMA HeadOfTodo ==
    ASSUME TypeOK, NEW r \in Requests, todo[r] # <<>>
    PROVE  /\ Head(todo[r]) \in Write
           /\ Head(todo[r]).cell \in Cells
           /\ Head(todo[r]).qty \in Int
           /\ Head(todo[r]).direction \in {"in", "out", "set"}
           /\ Tail(todo[r]) \in Seq(Write)
           /\ Len(todo[r]) >= 1
           /\ Head(todo[r]) = todo[r][1]
           /\ Len(Tail(todo[r])) = Len(todo[r]) - 1
           /\ \A i \in 1..Len(Tail(todo[r])) : Tail(todo[r])[i] = todo[r][i + 1]
<1>1. todo[r] \in Seq(Write)
  BY DEF TypeOK
<1>2. Head(todo[r]) \in Write /\ Tail(todo[r]) \in Seq(Write)
  BY <1>1
<1>3. \A w \in Write : w.cell \in Cells /\ w.qty \in Int /\ w.direction \in {"in", "out", "set"}
  BY DEF Write
<1>4. Len(todo[r]) >= 1 /\ Head(todo[r]) = todo[r][1] /\ Len(Tail(todo[r])) = Len(todo[r]) - 1
  BY <1>1
<1>5. \A i \in 1..Len(Tail(todo[r])) : Tail(todo[r])[i] = todo[r][i + 1]
  BY <1>1
<1> QED
  BY <1>2, <1>3, <1>4, <1>5

LEMMA SignedType ==
    ASSUME NEW line \in Write
    PROVE  Signed(line) \in Int
  BY DEF Signed, Write

LEMMA CurrentType ==
    ASSUME TypeOK, NEW r \in Requests, NEW c \in Cells
    PROVE  Current(r, c) \in Int
  BY DEF TypeOK, Current

LEMMA TypeRecordLine ==
    ASSUME TypeOK, NEW r \in Requests, RecordLine(r)
    PROVE  TypeOK'
<1> DEFINE line == Head(todo[r])
           c == line.cell
           after == Current(r, c) + Signed(line)
<1>1. line \in Write /\ c \in Cells /\ Tail(todo[r]) \in Seq(Write)
  BY HeadOfTodo DEF RecordLine
<1>2. after \in Int /\ Signed(line) \in Int
  BY <1>1, SignedType, CurrentType
<1>3. /\ lock' = [lock EXCEPT ![c] = r]
      /\ ownBalance' = [ownBalance EXCEPT ![r][c] = after]
      /\ ownMovements' = [ownMovements EXCEPT ![r][c] = @ + Signed(line)]
      /\ todo' = [todo EXCEPT ![r] = Tail(@)]
      /\ UNCHANGED <<pc, job, ledger, history>>
  BY DEF RecordLine
<1> HIDE DEF line, c, after
<1> QED
  BY <1>1, <1>2, <1>3 DEF TypeOK, ledger, history

LEMMA TypeRewriteRow ==
    ASSUME TypeOK, NEW r \in Requests, RewriteRow(r)
    PROVE  TypeOK'
<1> DEFINE row == Head(todo[r])
<1>1. row.cell \in Cells /\ row.qty \in Int /\ Tail(todo[r]) \in Seq(Write)
  BY HeadOfTodo DEF RewriteRow
<1>2. /\ lock' = [lock EXCEPT ![row.cell] = r]
      /\ ownBalance' = [ownBalance EXCEPT ![r][row.cell] = row.qty]
      /\ todo' = [todo EXCEPT ![r] = Tail(@)]
      /\ UNCHANGED <<pc, job, ledger, ownMovements, history>>
  BY DEF RewriteRow
<1> HIDE DEF row
<1> QED
  BY <1>1, <1>2 DEF TypeOK, ledger, history

LEMMA TypeRelease ==
    ASSUME TypeOK, NEW r \in Requests, Release(r)
    PROVE  /\ lock' \in [Cells -> Requests \cup {None}]
           /\ ownBalance' \in [Requests -> [Cells -> Int]]
           /\ ownMovements' \in [Requests -> [Cells -> Int]]
           /\ todo' \in [Requests -> Seq(Write)]
  BY DEF TypeOK, Release

LEMMA TypeRollback ==
    ASSUME TypeOK, NEW r \in Requests, Rollback(r)
    PROVE  TypeOK'
<1>1. Release(r)
  BY DEF Rollback
<1> QED
  BY <1>1, TypeRelease DEF TypeOK, Rollback, ledger, history

LEMMA TypeCommit ==
    ASSUME TypeOK, NEW r \in Requests, Commit(r)
    PROVE  TypeOK'
<1>1. Release(r) /\ CommitHistory(r)
  BY DEF Commit
<1>2. \A u \in Requests : Held(u) \in SUBSET Cells /\ MovedBy(u) \in SUBSET Cells
  BY DEF Held, MovedBy
<1>3. /\ overtaken' \in [Requests -> SUBSET Cells]
      /\ drifted' \in SUBSET Cells
      /\ overdrawn' \in SUBSET Cells
  <2>1. overtaken' \in [Requests -> SUBSET Cells]
    BY <1>1, <1>2 DEF TypeOK, CommitHistory
  <2>2. drifted' \in SUBSET Cells
    BY <1>1, <1>2 DEF TypeOK, CommitHistory
  <2>3. overdrawn' \in SUBSET Cells
    BY <1>1, <1>2 DEF TypeOK, CommitHistory
  <2> QED
    BY <2>1, <2>2, <2>3
<1>4. balance' \in [Cells -> Int] /\ movements' \in [Cells -> Int] /\ moved' \in SUBSET Cells
  BY <1>2 DEF TypeOK, Commit
<1> QED
  BY <1>1, <1>3, <1>4, TypeRelease DEF TypeOK, Commit

LEMMA TypeNext == TypeOK /\ [Next]_vars => TypeOK'
<1> SUFFICES ASSUME TypeOK, [Next]_vars
             PROVE  TypeOK'
  OBVIOUS
<1>1. CASE UNCHANGED vars
  BY <1>1 DEF TypeOK, vars, ledger, own, history
<1>2. CASE AllEnded
  BY <1>1, <1>2 DEF AllEnded
<1>3. ASSUME NEW r \in Requests, Step(r)
      PROVE  TypeOK'
  <2>1. ASSUME NEW j \in Jobs, Start(r, j)
        PROVE  TypeOK'
    BY <2>1, TypeStart
  <2>2. CASE Work(r)
    BY <2>2, TypeReadLevel, TypeReadValuation, TypeRecordLine, TypeRewriteRow,
       TypeRollback, TypeCommit DEF Work, RefuseLine
  <2>3. CASE DeadlockVictim(r) \/ Crash(r)
    BY <2>3, TypeRollback DEF DeadlockVictim, Crash
  <2> QED
    BY <1>3, <2>1, <2>2, <2>3 DEF Step
<1> QED
  BY <1>1, <1>2, <1>3 DEF Next

\* Every reachable state of StockLedger is type correct, for any requests and cells.
THEOREM TypeCorrect == Spec => []TypeOK
<1> QED
  BY TypeInit, TypeNext, PTL DEF Spec

-----------------------------------------------------------------------------
(* The ledger: the invariant is inductive *)

\* What a request is does not change while its job does not.
LEMMA SameJob ==
    ASSUME NEW r \in Requests, job'[r] = job[r]
    PROVE  /\ IsRecompute(r)' <=> IsRecompute(r)
           /\ AllowsNegative(r)' <=> AllowsNegative(r)
           /\ IsAdjust(r)' <=> IsAdjust(r)
  BY DEF IsRecompute, AllowsNegative, IsAdjust

LEMMA InvInit == Init => IInv
<1> SUFFICES ASSUME Init
             PROVE  IInv
  OBVIOUS
<1>1. TypeOK
  BY TypeInit
<1>2. LockInv
  BY NoneAssumption DEF Init, LockInv
<1>3. OwnInv
  BY DEF Init, OwnInv
<1>4. FreshInv /\ ValuationInv
  BY NoneAssumption DEF Init, FreshInv, ValuationInv, IsRecompute
<1>5. BalanceMatchesLedger /\ NeverOversold
  BY DEF Init, BalanceMatchesLedger, NeverOversold
<1> QED
  BY <1>1, <1>2, <1>3, <1>4, <1>5 DEF IInv

LEMMA InvStart ==
    ASSUME IInv, NEW r \in Requests, NEW j \in Jobs, Start(r, j)
    PROVE  IInv'
<1> DEFINE list == IF j.kind = "record" THEN j.lines ELSE <<>>
<1>1. /\ pc[r] = "idle"
      /\ job' = [job EXCEPT ![r] = j]
      /\ todo' = [todo EXCEPT ![r] = list]
      /\ UNCHANGED <<lock, balance, movements, moved, ownBalance, ownMovements,
                     overtaken, drifted, overdrawn>>
      /\ \A u \in Requests \ {r} : pc'[u] = pc[u]
      /\ pc'[r] # "idle" /\ (pc'[r] # "writing" => list = <<>>)
  BY DEF Start, ledger, own, history, IInv, TypeOK
<1>2. TypeOK /\ TypeOK'
  BY TypeStart DEF IInv
<1>3. \A c \in Cells : lock[c] # r
  BY <1>1 DEF IInv, LockInv
<1>4. \A u \in Requests \ {r} : job'[u] = job[u] /\ todo'[u] = todo[u]
  BY <1>1, <1>2 DEF TypeOK
<1>5. job'[r] = j /\ todo'[r] = list
  BY <1>1, <1>2 DEF TypeOK
<1>6. LockInv'
  BY <1>1, <1>3, <1>4, <1>5, NoneAssumption DEF IInv, LockInv
<1>7. OwnInv'
  <2>1. \A u \in Requests, c \in Cells :
          lock[c] # u \/ IsRecompute(u)' => ownMovements[u][c] = 0
    BY <1>3, <1>4, SameJob DEF IInv, OwnInv
  <2>2. ~ IsRecompute(r)' => \A i \in 1..Len(list) : list[i].direction # "set"
    <3>1. CASE j.kind = "record"
      <4>1. list \in Seq(Line)
        BY <3>1, JobTypes
      <4>2. \A i \in 1..Len(list) : list[i] \in Line
        BY <4>1
      <4> QED
        BY <4>2 DEF Line
    <3>2. CASE j.kind # "record"
      BY <3>2
    <3> QED
      BY <3>1, <3>2
  <2>3. \A u \in Requests \ {r} : ~ IsRecompute(u)' =>
          \A i \in 1..Len(todo'[u]) : todo'[u][i].direction # "set"
    BY <1>4, SameJob DEF IInv, OwnInv
  <2> QED
    BY <1>1, <1>5, <2>1, <2>2, <2>3 DEF OwnInv
<1>8. FreshInv'
  BY <1>1, <1>3, <1>4, SameJob DEF IInv, FreshInv
<1>9. ValuationInv'
  <2>1. IsRecompute(r)' => list = <<>>
    BY <1>5 DEF IsRecompute
  <2>2. ASSUME NEW u \in Requests \ {r}, IsRecompute(u)'
        PROVE  Valued(u)'
    BY <1>1, <1>4, <2>2, SameJob DEF IInv, ValuationInv, Valued
  <2>3. IsRecompute(r)' => Valued(r)'
    BY <1>1, <1>3, <1>5, <2>1 DEF Valued
  <2> QED
    BY <2>2, <2>3 DEF ValuationInv
<1>10. BalanceMatchesLedger' /\ NeverOversold'
  BY <1>1 DEF IInv, BalanceMatchesLedger, NeverOversold
<1> QED
  BY <1>2, <1>6, <1>7, <1>8, <1>9, <1>10 DEF IInv

\* A step that leaves the committed rows, the locks and the jobs alone and gives one
\* request a new list of writes that suits its kind.
LEMMA InvNewTodo ==
    ASSUME IInv, TypeOK', NEW r \in Requests,
           UNCHANGED <<job, lock, ledger, own, history>>,
           pc[r] # "idle", pc'[r] # "idle", pc'[r] # "writing" => todo'[r] = <<>>,
           \A u \in Requests \ {r} : pc'[u] = pc[u] /\ todo'[u] = todo[u],
           \A c \in Cells : lock[c] # r,
           ~ IsRecompute(r) => \A i \in 1..Len(todo'[r]) : todo'[r][i].direction # "set",
           IsRecompute(r) => \A i \in 1..Len(todo'[r]) :
               /\ todo'[r][i].direction = "set"
               /\ todo'[r][i].qty = movements[todo'[r][i].cell]
    PROVE  IInv'
<1>1. /\ UNCHANGED <<job, lock, balance, movements, ownBalance, ownMovements,
                     overtaken, drifted, overdrawn>>
      /\ TypeOK /\ LockInv /\ OwnInv /\ FreshInv /\ ValuationInv
      /\ BalanceMatchesLedger /\ NeverOversold
  BY DEF ledger, own, history, IInv
<1>2. LockInv'
  BY <1>1 DEF LockInv
<1>3. OwnInv'
  BY <1>1, SameJob DEF OwnInv
<1>4. FreshInv'
  BY <1>1, SameJob DEF FreshInv
<1>5. ValuationInv'
  BY <1>1, SameJob DEF ValuationInv, Valued
<1>6. BalanceMatchesLedger' /\ NeverOversold'
  BY <1>1 DEF BalanceMatchesLedger, NeverOversold
<1> QED
  BY <1>2, <1>3, <1>4, <1>5, <1>6 DEF IInv

LEMMA InvReadLevel ==
    ASSUME IInv, NEW r \in Requests, ReadLevel(r)
    PROVE  IInv'
<1>1. TypeOK /\ TypeOK'
  BY TypeReadLevel DEF IInv
<1>2. /\ pc[r] = "reading" /\ ~ IsRecompute(r)
      /\ UNCHANGED <<job, lock, ledger, own, history>>
      /\ pc'[r] # "idle" /\ (pc'[r] # "writing" => todo' = todo)
      /\ \A u \in Requests \ {r} : pc'[u] = pc[u] /\ todo'[u] = todo[u]
  BY <1>1 DEF ReadLevel, IsAdjust, IsRecompute, TypeOK
<1>3. (\A c \in Cells : lock[c] # r) /\ todo[r] = <<>>
  BY <1>2 DEF IInv, LockInv
<1>4. \A i \in 1..Len(todo'[r]) : todo'[r][i].direction # "set"
  <2>1. CASE todo' = todo
    BY <1>2, <2>1 DEF IInv, OwnInv
  <2>2. CASE todo' # todo
    <3>1. PICK w : w.direction # "set" /\ todo' = [todo EXCEPT ![r] = <<w>>]
      BY <2>2 DEF ReadLevel
    <3>2. todo'[r] = <<w>>
      BY <1>1, <3>1 DEF TypeOK
    <3> QED
      BY <3>1, <3>2
  <2> QED
    BY <2>1, <2>2
<1> QED
  BY <1>1, <1>2, <1>3, <1>4, InvNewTodo

LEMMA InvReadValuation ==
    ASSUME IInv, NEW r \in Requests, ReadValuation(r)
    PROVE  IInv'
<1>1. TypeOK /\ TypeOK'
  BY TypeReadValuation DEF IInv
<1>2. /\ pc[r] = "reading" /\ IsRecompute(r)
      /\ UNCHANGED <<job, lock, ledger, own, history>>
      /\ pc'[r] = "writing"
      /\ \A u \in Requests \ {r} : pc'[u] = pc[u] /\ todo'[u] = todo[u]
  BY <1>1 DEF ReadValuation, TypeOK
<1>3. \A c \in Cells : lock[c] # r
  BY <1>2 DEF IInv, LockInv
<1>4. PICK order \in SetToSeqs(job[r].filter \cap moved) :
        todo' = [todo EXCEPT ![r] =
            [i \in 1..Len(order) |->
                [cell |-> order[i], direction |-> "set", qty |-> movements[order[i]]]]]
  BY DEF ReadValuation
<1>5. IsFiniteSet(job[r].filter \cap moved)
  BY <1>1, CellsAssumption, FS_Subset DEF TypeOK
<1>6. Len(order) \in Nat
  BY <1>5, EnumerationsAreSequences
<1>7. todo'[r] = [i \in 1..Len(order) |->
                [cell |-> order[i], direction |-> "set", qty |-> movements[order[i]]]]
  BY <1>1, <1>4 DEF TypeOK
<1>8. Len(todo'[r]) = Len(order)
  BY <1>6, <1>7
<1>9. \A i \in 1..Len(todo'[r]) :
        todo'[r][i].direction = "set" /\ todo'[r][i].qty = movements[todo'[r][i].cell]
  BY <1>7, <1>8
<1> QED
  BY <1>1, <1>2, <1>3, <1>9, InvNewTodo

LEMMA InvRecordLine ==
    ASSUME IInv, NEW r \in Requests, RecordLine(r)
    PROVE  IInv'
<1> DEFINE line == Head(todo[r])
           k == line.cell
           delta == Signed(line)
           after == Current(r, k) + delta
<1>1. TypeOK /\ TypeOK'
  BY TypeRecordLine DEF IInv
<1>2. /\ pc[r] = "writing" /\ todo[r] # <<>>
      /\ line.direction # "set"
      /\ lock[k] = None \/ lock[k] = r
      /\ after >= 0 \/ AllowsNegative(r)
      /\ lock' = [lock EXCEPT ![k] = r]
      /\ ownBalance' = [ownBalance EXCEPT ![r][k] = after]
      /\ ownMovements' = [ownMovements EXCEPT ![r][k] = @ + delta]
      /\ todo' = [todo EXCEPT ![r] = Tail(@)]
      /\ UNCHANGED <<pc, job, balance, movements, moved, overtaken, drifted, overdrawn>>
  BY DEF RecordLine, CanLock, Sufficient, ledger, history
<1>3. /\ k \in Cells /\ delta \in Int /\ Current(r, k) \in Int
      /\ Len(Tail(todo[r])) = Len(todo[r]) - 1 /\ Len(todo[r]) \in Nat
      /\ \A i \in 1..Len(Tail(todo[r])) : Tail(todo[r])[i] = todo[r][i + 1]
  BY <1>1, <1>2, HeadOfTodo, SignedType, CurrentType DEF TypeOK
<1>4. ~ IsRecompute(r)
  <2>1. line = todo[r][1] /\ 1 \in 1..Len(todo[r])
    BY <1>1, <1>2, HeadOfTodo
  <2> QED
    BY <1>2, <2>1 DEF IInv, ValuationInv, Valued
<1> HIDE DEF line, k, delta, after
<1>5. \A u \in Requests, c \in Cells :
        (lock'[c] = u) <=> (IF c = k THEN u = r ELSE lock[c] = u)
  BY <1>1, <1>2, <1>3 DEF TypeOK
<1>6. /\ ownBalance'[r][k] = after
      /\ ownMovements'[r][k] = ownMovements[r][k] + delta
      /\ \A u \in Requests, c \in Cells : u # r \/ c # k =>
            /\ ownBalance'[u][c] = ownBalance[u][c]
            /\ ownMovements'[u][c] = ownMovements[u][c]
  BY <1>1, <1>2, <1>3 DEF TypeOK
<1>7. /\ todo'[r] = Tail(todo[r])
      /\ \A u \in Requests \ {r} : todo'[u] = todo[u]
  BY <1>1, <1>2 DEF TypeOK
<1>8. LockInv'
  BY <1>2, <1>5, <1>7 DEF IInv, LockInv
<1>9. OwnInv'
  <2>1. \A u \in Requests, c \in Cells :
          lock'[c] # u \/ IsRecompute(u) => ownMovements'[u][c] = 0
    <3> SUFFICES ASSUME NEW u \in Requests, NEW c \in Cells,
                        lock'[c] # u \/ IsRecompute(u)
                 PROVE  ownMovements'[u][c] = 0
      OBVIOUS
    <3>1. u # r \/ c # k
      BY <1>4, <1>5
    <3>2. lock[c] # u \/ IsRecompute(u)
      BY <1>2, <1>5, <3>1, NoneAssumption
    <3> QED
      BY <1>6, <3>1, <3>2 DEF IInv, OwnInv
  <2>2. \A i \in 1..Len(todo'[r]) : todo'[r][i].direction # "set"
    BY <1>3, <1>4, <1>7 DEF IInv, OwnInv
  <2>3. \A u \in Requests \ {r} : ~ IsRecompute(u) =>
          \A i \in 1..Len(todo'[u]) : todo'[u][i].direction # "set"
    BY <1>7 DEF IInv, OwnInv
  <2> QED
    BY <1>2, <2>1, <2>2, <2>3, SameJob DEF OwnInv
<1>10. FreshInv'
  <2>1. /\ after = balance[k] + ownMovements'[r][k]
        /\ AllowsNegative(r) \/ after >= 0
    <3>1. CASE lock[k] = r
      <4>1. Current(r, k) = ownBalance[r][k]
        BY <3>1 DEF Current
      <4>2. ownBalance[r][k] = balance[k] + ownMovements[r][k]
        BY <1>3, <1>4, <3>1 DEF IInv, FreshInv
      <4> QED
        BY <1>1, <1>2, <1>3, <1>6, <4>1, <4>2 DEF after, TypeOK
    <3>2. CASE lock[k] # r
      <4>1. Current(r, k) = balance[k] /\ ownMovements[r][k] = 0
        BY <1>3, <3>2 DEF Current, IInv, OwnInv
      <4> QED
        BY <1>1, <1>2, <1>3, <1>6, <4>1 DEF after, TypeOK
    <3> QED
      BY <3>1, <3>2
  <2> QED
    BY <1>2, <1>5, <1>6, <2>1, SameJob DEF IInv, FreshInv
<1>11. ValuationInv'
  <2>1. ASSUME NEW u \in Requests, IsRecompute(u)
        PROVE  Valued(u)'
    <3>1. u # r /\ Valued(u)
      BY <1>4, <2>1 DEF IInv, ValuationInv
    <3>2. \A c \in Cells : lock'[c] = u => lock[c] = u
      BY <1>5, <3>1
    <3> QED
      BY <1>2, <1>6, <1>7, <3>1, <3>2 DEF Valued
  <2> QED
    BY <1>2, <2>1, SameJob DEF ValuationInv
<1>12. BalanceMatchesLedger' /\ NeverOversold'
  BY <1>2 DEF IInv, BalanceMatchesLedger, NeverOversold
<1> QED
  BY <1>1, <1>8, <1>9, <1>10, <1>11, <1>12 DEF IInv

LEMMA InvRewriteRow ==
    ASSUME IInv, NEW r \in Requests, RewriteRow(r)
    PROVE  IInv'
<1> DEFINE row == Head(todo[r])
           k == row.cell
<1>1. TypeOK /\ TypeOK'
  BY TypeRewriteRow DEF IInv
<1>2. /\ pc[r] = "writing" /\ todo[r] # <<>>
      /\ row.direction = "set"
      /\ lock[k] = None \/ lock[k] = r
      /\ lock' = [lock EXCEPT ![k] = r]
      /\ ownBalance' = [ownBalance EXCEPT ![r][k] = row.qty]
      /\ todo' = [todo EXCEPT ![r] = Tail(@)]
      /\ UNCHANGED <<pc, job, balance, movements, moved, ownMovements,
                     overtaken, drifted, overdrawn>>
  BY DEF RewriteRow, CanLock, ledger, history
<1>3. /\ k \in Cells
      /\ Len(Tail(todo[r])) = Len(todo[r]) - 1 /\ Len(todo[r]) \in Nat
      /\ \A i \in 1..Len(Tail(todo[r])) : Tail(todo[r])[i] = todo[r][i + 1]
      /\ row = todo[r][1] /\ 1 \in 1..Len(todo[r])
  BY <1>1, <1>2, HeadOfTodo DEF TypeOK
<1>4. IsRecompute(r)
  BY <1>2, <1>3 DEF IInv, OwnInv
<1>5. k \notin overtaken[r] => row.qty = movements[k]
  BY <1>3, <1>4 DEF IInv, ValuationInv, Valued
<1> HIDE DEF row, k
<1>6. \A u \in Requests, c \in Cells :
        (lock'[c] = u) <=> (IF c = k THEN u = r ELSE lock[c] = u)
  BY <1>1, <1>2, <1>3 DEF TypeOK
<1>7. /\ ownBalance'[r][k] = row.qty
      /\ \A u \in Requests, c \in Cells : u # r \/ c # k =>
            ownBalance'[u][c] = ownBalance[u][c]
  BY <1>1, <1>2, <1>3 DEF TypeOK
<1>8. /\ todo'[r] = Tail(todo[r])
      /\ \A u \in Requests \ {r} : todo'[u] = todo[u]
  BY <1>1, <1>2 DEF TypeOK
<1>9. LockInv'
  BY <1>2, <1>6, <1>8 DEF IInv, LockInv
<1>10. OwnInv'
  <2>1. \A u \in Requests, c \in Cells :
          lock'[c] # u \/ IsRecompute(u) => ownMovements[u][c] = 0
    BY <1>2, <1>4, <1>6, NoneAssumption DEF IInv, OwnInv
  <2>2. \A u \in Requests : ~ IsRecompute(u) =>
          \A i \in 1..Len(todo'[u]) : todo'[u][i].direction # "set"
    BY <1>4, <1>8 DEF IInv, OwnInv
  <2> QED
    BY <1>2, <2>1, <2>2, SameJob DEF OwnInv
<1>11. FreshInv'
  BY <1>2, <1>4, <1>6, <1>7, SameJob DEF IInv, FreshInv
<1>12. ValuationInv'
  <2>1. Valued(r)'
    BY <1>2, <1>3, <1>4, <1>5, <1>6, <1>7, <1>8 DEF IInv, ValuationInv, Valued
  <2>2. \A u \in Requests \ {r} : IsRecompute(u) => Valued(u)'
    BY <1>2, <1>6, <1>7, <1>8 DEF IInv, ValuationInv, Valued
  <2> QED
    BY <1>2, <2>1, <2>2, SameJob DEF ValuationInv
<1>13. BalanceMatchesLedger' /\ NeverOversold'
  BY <1>2 DEF IInv, BalanceMatchesLedger, NeverOversold
<1> QED
  BY <1>1, <1>9, <1>10, <1>11, <1>12, <1>13 DEF IInv

\* What a transaction gives up when it ends.
LEMMA ReleaseFacts ==
    ASSUME TypeOK, NEW r \in Requests, Release(r)
    PROVE  /\ \A u \in Requests, c \in Cells : (lock'[c] = u) <=> (lock[c] = u /\ u # r)
           /\ \A u \in Requests \ {r} : /\ todo'[u] = todo[u]
                                       /\ ownBalance'[u] = ownBalance[u]
                                       /\ ownMovements'[u] = ownMovements[u]
           /\ todo'[r] = <<>>
           /\ \A c \in Cells : ownMovements'[r][c] = 0
  BY NoneAssumption DEF TypeOK, Release

LEMMA InvRollback ==
    ASSUME IInv, NEW r \in Requests, pc[r] # "idle", Rollback(r)
    PROVE  IInv'
<1>1. TypeOK /\ TypeOK'
  BY TypeRollback DEF IInv
<1>2. /\ Release(r)
      /\ UNCHANGED <<job, balance, movements, moved, overtaken, drifted, overdrawn>>
      /\ pc' = [pc EXCEPT ![r] = "failed"]
  BY DEF Rollback, ledger, history
<1>3. LockInv'
  BY <1>1, <1>2, ReleaseFacts DEF IInv, LockInv, TypeOK
<1>4. OwnInv'
  <2>1. \A u \in Requests, c \in Cells :
          lock'[c] # u \/ IsRecompute(u) => ownMovements'[u][c] = 0
    BY <1>1, <1>2, ReleaseFacts DEF IInv, OwnInv
  <2>2. \A u \in Requests : ~ IsRecompute(u) =>
          \A i \in 1..Len(todo'[u]) : todo'[u][i].direction # "set"
    BY <1>1, <1>2, ReleaseFacts DEF IInv, OwnInv
  <2> QED
    BY <1>2, <2>1, <2>2, SameJob DEF OwnInv
<1>5. FreshInv'
  BY <1>1, <1>2, ReleaseFacts, SameJob DEF IInv, FreshInv
<1>6. ValuationInv'
  <2>1. Valued(r)'
    BY <1>1, <1>2, ReleaseFacts DEF Valued
  <2>2. ASSUME NEW u \in Requests \ {r}, IsRecompute(u)
        PROVE  Valued(u)'
    BY <1>1, <1>2, <2>2, ReleaseFacts DEF IInv, ValuationInv, Valued
  <2> QED
    BY <1>2, <2>1, <2>2, SameJob DEF ValuationInv
<1>7. BalanceMatchesLedger' /\ NeverOversold'
  BY <1>2 DEF IInv, BalanceMatchesLedger, NeverOversold
<1> QED
  BY <1>1, <1>3, <1>4, <1>5, <1>6, <1>7 DEF IInv

LEMMA InvCommit ==
    ASSUME IInv, NEW r \in Requests, Commit(r)
    PROVE  IInv'
<1>1. TypeOK /\ TypeOK'
  BY TypeCommit DEF IInv
<1>2. /\ Release(r) /\ CommitHistory(r)
      /\ pc[r] = "writing" /\ pc' = [pc EXCEPT ![r] = "done"]
      /\ UNCHANGED job
  BY DEF Commit
<1>3. \A c \in Cells :
        /\ balance'[c] = IF lock[c] = r THEN ownBalance[r][c] ELSE balance[c]
        /\ movements'[c] = movements[c] + ownMovements[r][c]
  BY DEF Commit
<1>4. \A c \in Cells : c \notin MovedBy(r) => movements'[c] = movements[c]
  BY <1>1, <1>3 DEF IInv, OwnInv, MovedBy, Held, TypeOK
<1>5. \A u \in Requests \ {r} : pc[u] = "writing" /\ IsRecompute(u) =>
        overtaken'[u] = overtaken[u] \cup MovedBy(r)
  BY <1>2 DEF CommitHistory
<1>6. LockInv'
  <2>1. pc'[r] = "done" /\ \A u \in Requests \ {r} : pc'[u] = pc[u]
    BY <1>1, <1>2 DEF TypeOK
  <2> QED
    BY <1>1, <1>2, <2>1, ReleaseFacts DEF IInv, LockInv
<1>7. OwnInv'
  <2>1. \A u \in Requests, c \in Cells :
          lock'[c] # u \/ IsRecompute(u) => ownMovements'[u][c] = 0
    BY <1>1, <1>2, ReleaseFacts DEF IInv, OwnInv
  <2>2. \A u \in Requests : ~ IsRecompute(u) =>
          \A i \in 1..Len(todo'[u]) : todo'[u][i].direction # "set"
    BY <1>1, <1>2, ReleaseFacts DEF IInv, OwnInv
  <2> QED
    BY <1>2, <2>1, <2>2, SameJob DEF OwnInv
<1>8. FreshInv'
  <2>1. \A u \in Requests, c \in Cells : lock'[c] = u =>
          /\ lock[c] = u /\ u # r
          /\ balance'[c] = balance[c]
          /\ ownBalance'[u][c] = ownBalance[u][c]
          /\ ownMovements'[u][c] = ownMovements[u][c]
    BY <1>1, <1>2, <1>3, ReleaseFacts
  <2> QED
    BY <1>2, <2>1, SameJob DEF IInv, FreshInv
<1>9. ValuationInv'
  <2>1. Valued(r)'
    BY <1>1, <1>2, ReleaseFacts DEF Valued
  <2>2. ASSUME NEW u \in Requests \ {r}, IsRecompute(u)
        PROVE  Valued(u)'
    <3>1. CASE pc[u] # "writing"
      <4>1. todo'[u] = <<>> /\ \A c \in Cells : lock'[c] # u
        BY <1>1, <1>2, <3>1, ReleaseFacts DEF IInv, LockInv
      <4> QED
        BY <4>1 DEF Valued
    <3>2. CASE pc[u] = "writing"
      <4>1. /\ Valued(u)
            /\ overtaken'[u] = overtaken[u] \cup MovedBy(r)
            /\ todo'[u] = todo[u] /\ ownBalance'[u] = ownBalance[u]
            /\ \A c \in Cells : lock'[c] = u => lock[c] = u
        BY <1>1, <1>2, <1>5, <2>2, <3>2, ReleaseFacts DEF IInv, ValuationInv
      <4>2. \A i \in 1..Len(todo[u]) : todo[u][i].cell \in Cells
        <5>1. \A w \in Write : w.cell \in Cells
          BY DEF Write
        <5>2. todo[u] \in Seq(Write)
          BY <1>1 DEF TypeOK
        <5>3. \A i \in 1..Len(todo[u]) : todo[u][i] \in Write
          BY <5>2
        <5> QED
          BY <5>1, <5>3
      <4> QED
        BY <1>4, <4>1, <4>2 DEF Valued
    <3> QED
      BY <3>1, <3>2
  <2> QED
    BY <1>2, <2>1, <2>2, SameJob DEF ValuationInv
<1>10. drifted' = drifted \cup IF IsRecompute(r) THEN Held(r) \cap overtaken[r] ELSE {}
  BY <1>2 DEF CommitHistory
<1>11. BalanceMatchesLedger'
  <2> SUFFICES ASSUME NEW c \in Cells, c \notin drifted'
               PROVE  balance'[c] = movements'[c]
    BY DEF BalanceMatchesLedger
  <2>1. balance[c] = movements[c]
    BY <1>10 DEF IInv, BalanceMatchesLedger
  <2>2. CASE lock[c] # r
    BY <1>1, <1>3, <2>1, <2>2 DEF IInv, OwnInv, TypeOK
  <2>3. CASE lock[c] = r /\ ~ IsRecompute(r)
    BY <1>1, <1>3, <2>1, <2>3 DEF IInv, FreshInv, TypeOK
  <2>4. CASE lock[c] = r /\ IsRecompute(r)
    <3>1. c \notin overtaken[r]
      BY <1>10, <2>4 DEF Held
    <3>2. ownBalance[r][c] = movements[c] /\ ownMovements[r][c] = 0
      BY <2>4, <3>1 DEF IInv, ValuationInv, Valued, OwnInv
    <3> QED
      BY <1>1, <1>3, <2>4, <3>2 DEF TypeOK
  <2> QED
    BY <2>2, <2>3, <2>4
<1>12. NeverOversold'
  <2> SUFFICES ASSUME NEW c \in Cells, c \notin drifted', c \notin overdrawn'
               PROVE  movements'[c] >= 0
    BY DEF NeverOversold
  <2>1. movements[c] >= 0 /\ balance[c] = movements[c]
    BY <1>2 DEF IInv, NeverOversold, BalanceMatchesLedger, CommitHistory
  <2>2. CASE lock[c] # r \/ IsRecompute(r)
    BY <1>1, <1>3, <2>1, <2>2 DEF IInv, OwnInv, TypeOK
  <2>3. CASE lock[c] = r /\ ~ IsRecompute(r)
    <3>1. ~ AllowsNegative(r)
      BY <1>2, <2>3 DEF CommitHistory, Held
    <3> QED
      BY <1>1, <1>3, <2>1, <2>3, <3>1 DEF IInv, FreshInv, TypeOK
  <2> QED
    BY <2>2, <2>3
<1> QED
  BY <1>1, <1>6, <1>7, <1>8, <1>9, <1>11, <1>12 DEF IInv

LEMMA InvNext == IInv /\ [Next]_vars => IInv'
<1> SUFFICES ASSUME IInv, [Next]_vars
             PROVE  IInv'
  OBVIOUS
<1>1. CASE UNCHANGED vars
  BY <1>1 DEF vars, ledger, own, history, IInv, TypeOK, LockInv, OwnInv, FreshInv,
     ValuationInv, Valued, BalanceMatchesLedger, NeverOversold, IsRecompute,
     AllowsNegative
<1>2. CASE AllEnded
  BY <1>1, <1>2 DEF AllEnded
<1>3. ASSUME NEW r \in Requests, Step(r)
      PROVE  IInv'
  <2>1. ASSUME NEW j \in Jobs, Start(r, j)
        PROVE  IInv'
    BY <2>1, InvStart
  <2>2. CASE ReadLevel(r) \/ ReadValuation(r) \/ RecordLine(r) \/ RewriteRow(r) \/ Commit(r)
    BY <2>2, InvReadLevel, InvReadValuation, InvRecordLine, InvRewriteRow, InvCommit
  <2>3. CASE RefuseLine(r) \/ DeadlockVictim(r) \/ Crash(r)
    <3>1. pc[r] # "idle" /\ Rollback(r)
      BY <2>3 DEF RefuseLine, DeadlockVictim, Crash, InWaitCycle, Waits
    <3> QED
      BY <3>1, InvRollback
  <2> QED
    BY <1>3, <2>1, <2>2, <2>3 DEF Step, Work
<1> QED
  BY <1>1, <1>2, <1>3 DEF Next

LEMMA InvAlways == Spec => []IInv
<1> QED
  BY InvInit, InvNext, PTL DEF Spec

-----------------------------------------------------------------------------
(* The ledger: theorems *)

\* However recordInTx documents, counts, recomputes, deadlocks and crashes interleave,
\* stock_balances.quantity is the sum of the committed inventory_transactions of the
\* cell, unless a recompute of that cell was overtaken by a movement.
THEOREM CacheAgreesWithLedger == Spec => []BalanceMatchesLedger
<1>1. IInv => BalanceMatchesLedger
  BY DEF IInv
<1> QED
  BY <1>1, InvAlways, PTL

\* recordInTx never lets concurrent documents together issue more than a cell holds,
\* unless an overtaken recompute or an allowNegative document has touched the cell.
THEOREM NoOverselling == Spec => []NeverOversold
<1>1. IInv => NeverOversold
  BY DEF IInv
<1> QED
  BY <1>1, InvAlways, PTL

\* A recompute leaves the cached quantity equal to the ledger on every cell it rewrites
\* that no document reached between its valuation and its commit, even on a cell an
\* earlier recompute had left wrong.
THEOREM RecomputeIsARepair == Spec => RecomputeRepairs
<1>1. IInv /\ [Next]_vars =>
        [\A r \in Requests : IsRecompute(r) /\ Commit(r) =>
            \A c \in Held(r) \ overtaken[r] : balance'[c] = movements'[c]]_vars
  <2> SUFFICES ASSUME IInv,
                      NEW r \in Requests, IsRecompute(r), Commit(r),
                      NEW c \in Held(r), c \notin overtaken[r]
               PROVE  balance'[c] = movements'[c]
    OBVIOUS
  <2>1. c \in Cells /\ lock[c] = r
    BY DEF Held
  <2>2. balance'[c] = ownBalance[r][c] /\ movements'[c] = movements[c] + ownMovements[r][c]
    BY <2>1 DEF Commit
  <2>3. ownBalance[r][c] = movements[c] /\ ownMovements[r][c] = 0
    BY <2>1 DEF IInv, ValuationInv, Valued, OwnInv
  <2> QED
    BY <2>1, <2>2, <2>3 DEF IInv, TypeOK
<1> QED
  BY <1>1, InvAlways, PTL DEF Spec, RecomputeRepairs

-----------------------------------------------------------------------------
(* Stock counts *)

\* A count that goes on from the level it read, and that nobody has overtaken there.
Counting(r) == IsAdjust(r) /\ pc[r] = "writing" /\ job[r].cell \notin overtaken[r]

\* It is about to book the difference to the counted quantity, or has booked it.
Counts(r, c) ==
    \/ /\ Len(todo[r]) = 1 /\ Head(todo[r]).cell = c /\ lock[c] # r
       /\ balance[c] + Signed(Head(todo[r])) = job[r].counted
    \/ todo[r] = <<>> /\ lock[c] = r /\ ownBalance[r][c] = job[r].counted

CountInv == \A r \in Requests : Counting(r) => Counts(r, job[r].cell)

\* What another request does to a count is to overtake it, if anything.
LEMMA CountOthers ==
    ASSUME IInv, CountInv, NEW r \in Requests, Step(r), NEW u \in Requests, u # r,
           Counting(u)'
    PROVE  Counts(u, job[u].cell)'
<1>1. TypeOK /\ LockInv
  BY DEF IInv
<1>2. /\ pc'[u] = pc[u] /\ job'[u] = job[u] /\ todo'[u] = todo[u]
      /\ ownBalance'[u] = ownBalance[u]
  <2>1. CASE \E j \in Jobs : Start(r, j)
    BY <1>1, <2>1 DEF TypeOK, Start, own
  <2>2. CASE ReadLevel(r) \/ ReadValuation(r)
    BY <1>1, <2>2 DEF TypeOK, ReadLevel, ReadValuation, own
  <2>3. CASE RecordLine(r) \/ RewriteRow(r)
    BY <1>1, <2>3 DEF TypeOK, RecordLine, RewriteRow
  <2>4. CASE Commit(r) \/ Rollback(r)
    BY <1>1, <2>4, ReleaseFacts DEF TypeOK, Commit, Rollback
  <2> QED
    BY <2>1, <2>2, <2>3, <2>4 DEF Step, Work, RefuseLine, DeadlockVictim, Crash
<1>3. overtaken[u] \subseteq overtaken'[u]
  <2>1. CASE Commit(r)
    BY <2>1 DEF Commit, CommitHistory
  <2>2. CASE overtaken' = overtaken
    BY <2>2
  <2> QED
    BY <2>1, <2>2 DEF Step, Start, Work, ReadLevel, ReadValuation, RecordLine, RewriteRow,
       RefuseLine, DeadlockVictim, Crash, Rollback, history
<1>4. IsAdjust(u) /\ Counting(u) /\ ~ IsRecompute(u)
  BY <1>2, <1>3, SameJob DEF Counting, IsAdjust, IsRecompute
<1>5. PICK c \in Cells : c = job[u].cell
  <2>1. job[u] \in Jobs /\ job[u].kind = "adjust"
    BY <1>1, <1>4 DEF TypeOK, IsAdjust
  <2> QED
    BY <2>1, JobTypes
<1>6. Counts(u, c) /\ c \notin overtaken'[u]
  BY <1>2, <1>4, <1>5 DEF CountInv, Counting
<1>7. (lock'[c] = u) <=> (lock[c] = u)
  <2>1. ASSUME NEW k \in Cells, lock' = [lock EXCEPT ![k] = r], CanLock(r, k)
        PROVE  (lock'[c] = u) <=> (lock[c] = u)
    BY <1>1, <2>1, NoneAssumption DEF TypeOK, CanLock
  <2>2. CASE RecordLine(r) \/ RewriteRow(r)
    <3>1. Head(todo[r]).cell \in Cells
      BY <1>1, <2>2, HeadOfTodo DEF RecordLine, RewriteRow
    <3> QED
      BY <2>1, <2>2, <3>1 DEF RecordLine, RewriteRow
  <2>3. CASE Release(r)
    BY <1>1, <2>3, ReleaseFacts
  <2>4. CASE lock' = lock
    BY <2>4
  <2> QED
    BY <2>2, <2>3, <2>4 DEF Step, Start, Work, ReadLevel, ReadValuation, RefuseLine,
       DeadlockVictim, Crash, Commit, Rollback
<1>8. balance'[c] = balance[c]
  <2>1. CASE Commit(r)
    <3>1. c \notin Held(r)
      BY <1>4, <1>6, <2>1 DEF Commit, CommitHistory, Counting
    <3> QED
      BY <2>1, <3>1 DEF Commit, Held
  <2>2. CASE balance' = balance
    BY <2>2
  <2> QED
    BY <2>1, <2>2 DEF Step, Start, Work, ReadLevel, ReadValuation, RecordLine, RewriteRow,
       RefuseLine, DeadlockVictim, Crash, Rollback, ledger
<1>9. Counts(u, c)'
  BY <1>2, <1>6, <1>7, <1>8 DEF Counts, Signed
<1> QED
  BY <1>2, <1>5, <1>9

\* What a count does itself: it takes the level of a row it does not hold, and adds the
\* difference to the row as that was then.
LEMMA CountOwn ==
    ASSUME IInv, CountInv, NEW r \in Requests, Step(r), Counting(r)'
    PROVE  Counts(r, job[r].cell)'
<1>1. TypeOK /\ LockInv
  BY DEF IInv
<1>2. ~ \E j \in Jobs : Start(r, j)
  <2> SUFFICES ASSUME NEW j \in Jobs, Start(r, j) PROVE FALSE
    OBVIOUS
  <2>1. job'[r] = j /\ pc'[r] = "writing"
    BY <1>1 DEF Start, Counting, TypeOK
  <2>2. j.kind = "adjust"
    BY <2>1 DEF Counting, IsAdjust
  <2>3. pc'[r] = "reading"
    BY <1>1, <2>2 DEF Start, TypeOK
  <2> QED
    BY <2>1, <2>3
<1>3. job' = job
  BY <1>2 DEF Step, Work, ReadLevel, ReadValuation, RecordLine, RewriteRow, RefuseLine, Commit,
     Rollback, DeadlockVictim, Crash
<1>4. IsAdjust(r) /\ ~ IsRecompute(r) /\ pc'[r] = "writing"
  BY <1>3, SameJob DEF Counting, IsAdjust, IsRecompute
<1>5. PICK c \in Cells : c = job[r].cell
  <2>1. job[r] \in Jobs /\ job[r].kind = "adjust"
    BY <1>1, <1>4 DEF TypeOK, IsAdjust
  <2> QED
    BY <2>1, JobTypes
<1>6. job[r].counted \in Nat /\ balance[c] \in Int
  <2>1. job[r] \in Jobs /\ job[r].kind = "adjust"
    BY <1>1, <1>4 DEF TypeOK, IsAdjust
  <2> QED
    BY <1>1, <2>1, JobTypes DEF TypeOK
<1>7. CASE ReadLevel(r)
  <2> DEFINE delta == job[r].counted - balance[c]
             line == [cell |-> c, direction |-> IF delta > 0 THEN "in" ELSE "out",
                      qty |-> IF delta > 0 THEN delta ELSE 0 - delta]
  <2>1. pc[r] = "reading" /\ lock' = lock /\ balance' = balance
    BY <1>7 DEF ReadLevel, ledger
  <2>2. todo'[r] = <<line>>
    BY <1>1, <1>4, <1>5, <1>7 DEF ReadLevel, TypeOK
  <2>3. lock[c] # r
    BY <1>1, <2>1 DEF LockInv
  <2>4. Signed(line) = delta /\ line.cell = c
    BY <1>6 DEF Signed
  <2> HIDE DEF line
  <2>5. Len(todo'[r]) = 1 /\ Head(todo'[r]) = line
    BY <2>2
  <2>6. balance[c] + Signed(line) = job[r].counted
    BY <1>6, <2>4
  <2>7. Signed(Head(todo[r]))' = Signed(line)
    BY <2>5 DEF Signed
  <2>8. Counts(r, c)'
    BY <1>3, <2>1, <2>3, <2>4, <2>5, <2>6, <2>7 DEF Counts
  <2> QED
    BY <1>3, <1>5, <2>8
<1>8. CASE RecordLine(r)
  <2> DEFINE line == Head(todo[r])
  <2>1. /\ pc[r] = "writing" /\ todo[r] # <<>> /\ overtaken' = overtaken
        /\ lock' = [lock EXCEPT ![line.cell] = r]
        /\ ownBalance' = [ownBalance EXCEPT ![r][line.cell] = Current(r, line.cell) + Signed(line)]
        /\ todo' = [todo EXCEPT ![r] = Tail(@)]
    BY <1>8 DEF RecordLine, history
  <2>2. Counting(r)
    BY <1>3, <1>4, <2>1 DEF Counting
  <2>3. Len(todo[r]) = 1 /\ line.cell = c /\ lock[c] # r /\ balance[c] + Signed(line) = job[r].counted
    BY <1>5, <2>1, <2>2 DEF CountInv, Counts
  <2>4. todo'[r] = <<>> /\ Len(Tail(todo[r])) = 0
    <3>1. Tail(todo[r]) \in Seq(Write) /\ Len(Tail(todo[r])) = 0
      BY <1>1, <2>1, <2>3, HeadOfTodo
    <3> QED
      BY <1>1, <2>1, <3>1 DEF TypeOK
  <2> HIDE DEF line
  <2>5. lock'[c] = r /\ ownBalance'[r][c] = balance[c] + Signed(line)
    BY <1>1, <2>1, <2>3 DEF TypeOK, Current
  <2>6. Counts(r, c)'
    BY <1>3, <2>3, <2>4, <2>5 DEF Counts
  <2> QED
    BY <1>3, <1>5, <2>6
<1>9. CASE ReadValuation(r)
  BY <1>4, <1>9 DEF ReadValuation
<1>10. CASE RewriteRow(r)
  <2>1. todo[r] \in Seq(Write) /\ todo[r] # <<>> /\ todo[r][1].direction = "set"
    BY <1>1, <1>10, HeadOfTodo DEF RewriteRow, TypeOK
  <2>2. 1 \in 1..Len(todo[r])
    BY <2>1
  <2> QED
    BY <1>4, <2>1, <2>2 DEF IInv, OwnInv
<1>11. CASE Rollback(r) \/ Commit(r)
  BY <1>1, <1>4, <1>11 DEF Rollback, Commit, TypeOK
<1> QED
  BY <1>2, <1>7, <1>8, <1>9, <1>10, <1>11 DEF Step, Work, RefuseLine, DeadlockVictim, Crash

\* A stock count that nobody overtook leaves the counted quantity on the row, although the
\* difference it books comes from a level read without a lock in an earlier transaction.
THEOREM CountIsSettled == Spec => AdjustSettlesCount
<1>1. Init => CountInv
  BY DEF Init, CountInv, Counting
<1>2. IInv /\ CountInv /\ [Next]_vars => CountInv'
  <2> SUFFICES ASSUME IInv, CountInv, [Next]_vars, NEW u \in Requests, Counting(u)'
               PROVE  Counts(u, job[u].cell)'
    BY DEF CountInv
  <2>1. CASE UNCHANGED vars
    BY <2>1 DEF vars, ledger, own, history, CountInv, Counting, Counts, IsAdjust, Signed
  <2>2. CASE Next
    <3>1. CASE AllEnded
      BY <2>1, <3>1 DEF AllEnded
    <3>2. ASSUME NEW r \in Requests, Step(r) PROVE Counts(u, job[u].cell)'
      BY <3>2, CountOthers, CountOwn
    <3> QED
      BY <2>2, <3>1, <3>2 DEF Next
  <2> QED
    BY <2>1, <2>2
<1>3. IInv /\ CountInv /\ [Next]_vars =>
        [\A r \in Requests : IsAdjust(r) /\ Commit(r) /\ job[r].cell \notin overtaken[r] =>
            balance'[job[r].cell] = job[r].counted]_vars
  <2> SUFFICES ASSUME IInv, CountInv,
                      NEW r \in Requests, IsAdjust(r), Commit(r), job[r].cell \notin overtaken[r]
               PROVE  balance'[job[r].cell] = job[r].counted
    OBVIOUS
  <2>1. pc[r] = "writing" /\ todo[r] = <<>>
    BY DEF Commit
  <2>2. Counts(r, job[r].cell)
    BY <2>1 DEF CountInv, Counting
  <2>3. lock[job[r].cell] = r /\ ownBalance[r][job[r].cell] = job[r].counted
    BY <2>1, <2>2 DEF Counts
  <2>4. job[r].cell \in Cells
    <3>1. job[r] \in Jobs /\ job[r].kind = "adjust"
      BY DEF IInv, TypeOK, IsAdjust
    <3> QED
      BY <3>1, JobTypes
  <2> QED
    BY <2>3, <2>4 DEF Commit
<1> QED
  BY <1>1, <1>2, <1>3, InvAlways, PTL DEF Spec, AdjustSettlesCount

-----------------------------------------------------------------------------
(* Vouchers and counts: the inductive invariant *)

Reads == {"ready", "moved", "entered"}
Does(r, kind) == op[r] # NoOp /\ op[r].kind = kind

\* Worth of one sign, that of what the document carries.
OneSigned(d, n) == (Kind[d] = "in" => n >= 0) /\ (Kind[d] = "out" => n <= 0)

\* What a post that has moved its goods knows of their worth: the movements of a voucher have
\* one direction and reprice nothing, those of a count the worth of its variances unless a
\* shortage is repriced;
\* the entry then is worth the goods.
Priced(r) ==
    /\ stage[r] \in {"moved", "entered"} => OneSigned(Doc(r), movedAt[r])
    /\ stage[r] \in {"moved", "entered"} /\ Kind[Doc(r)] = "count" /\ ~ repricing[r] =>
          movedAt[r] = VarianceValue(r)
    /\ stage[r] \in {"moved", "entered"} /\ Kind[Doc(r)] # "count" => ~ repricing[r]
    /\ stage[r] = "entered" /\ ~ repricing[r] => value[r] = movedAt[r]

\* What an open request has locked and worked out, and what a post that nobody overtook
\* still knows of the balances.
Written(r) ==
    /\ stage[r] = "idle" <=> op[r] = NoOp
    /\ stage[r] # "entered" => value[r] = 0
    /\ Does(r, "post") => Priced(r)
    /\ value[r] # 0 => held[<<"journal">>] = r /\ (Does(r, "post") => Doc(r) \notin keys)
    /\ stage[r] \in {"moved", "entered"} => \A c \in Touched(r) : held[<<"item", c>>] = r
    /\ Does(r, "post") /\ stage[r] \in Reads =>
          \A c \in Items \ outdated[r] : seen[r][c] = quantity[c]

\* What a void under way may rely on: its document has been posted, what it has read of the
\* movements is still all there is, and once it has moved, no other void has.
Undoes(r) == Does(r, "void") =>
    /\ status[Doc(r)] # "draft"
    /\ Doc(r) \notin keys =>
          /\ stage[r] \in Reads => seenAt[r] = 0
          /\ stage[r] \in {"moved", "entered"} => movedAt[r] = 0
    /\ Doc(r) \notin worthless =>
          /\ stage[r] \in Reads => seen[r] = posted[Doc(r)]
          /\ stage[r] \in {"moved", "entered"} => mirrored[Doc(r)] = Zero

\* What the status tells of a document that has, or will have, an entry.
DocOK(d) == d \notin worthless =>
    /\ status[d] = "draft" => posted[d] = Zero /\ mirrored[d] = Zero /\ posts[d] = 0 /\ d \notin keys
    /\ status[d] # "draft" => /\ d \in keys /\ posts[d] = 1
                              /\ Kind[d] # "count" => posted[d] = Carried(d)
    /\ status[d] = "posted" => mirrored[d] = Zero
    /\ status[d] = "voided" => Plus(posted[d], mirrored[d]) = Zero

\* A voucher without an entry has booked no cost.
Unpriced(d) == Kind[d] # "count" /\ d \notin keys => postedAt[d] = 0 /\ mirroredAt[d] = 0

DocInv ==
    /\ DocTypes
    /\ \A r \in Slots : Written(r) /\ Undoes(r)
    /\ \A d \in Docs : DocOK(d) /\ Unpriced(d)
    /\ AccountTellsStock

-----------------------------------------------------------------------------
(* What a document moves *)

\* The moves of a request that asks o and has read s.
MovesOf(o, s) ==
    LET lines == Lines[o.doc]
        signed(sign) == [i \in DOMAIN lines |-> Move(lines[i].item, sign * lines[i].qty)]
        variance(i) == Variance(lines[i], s[lines[i].item])
        differing == {i \in DOMAIN lines : variance(i) # 0}
    IN IF o.kind = "void"
       THEN [c \in {x \in Items : s[x] # 0} |-> Move(c, 0 - s[c])]
       ELSE CASE Kind[o.doc] = "in" -> signed(1)
              [] Kind[o.doc] = "out" -> signed(0 - 1)
              [] OTHER -> [i \in differing |-> Move(lines[i].item, variance(i))]

TouchedBy(o, s) == {MovesOf(o, s)[i].item : i \in DOMAIN MovesOf(o, s)}

\* The unit cost of a line of it when a are the averages read, and its variances at that.
CostOf(o, a, i) ==
    LET line == Lines[o.doc][i] IN IF line.cost = Untyped THEN a[line.item] ELSE line.cost
VariancesOf(o, s, a) ==
    [i \in DOMAIN MovesOf(o, s) |-> MovesOf(o, s)[i].by * CostOf(o, a, i)]

LEMMA MovesRead ==
    ASSUME NEW r
    PROVE  /\ Net(r) = NetOf(MovesOf(op[r], seen[r])) /\ Net(r)' = NetOf(MovesOf(op'[r], seen'[r]))
           /\ Touched(r) = TouchedBy(op[r], seen[r]) /\ Touched(r)' = TouchedBy(op'[r], seen'[r])
           /\ VarianceValue(r) = SumOf(VariancesOf(op[r], seen[r], average[r]), DOMAIN Moves(r))
           /\ VarianceValue(r)' = SumOf(VariancesOf(op'[r], seen'[r], average'[r]), DOMAIN Moves(r)')
           /\ Moves(r) = MovesOf(op[r], seen[r]) /\ Moves(r)' = MovesOf(op'[r], seen'[r])
<1>1. Moves(r) = MovesOf(op[r], seen[r])
  BY DEF Moves, MovesOf, Doc
<1>2. Moves(r)' = MovesOf(op'[r], seen'[r])
  BY DEF Moves, MovesOf, Doc, Variance, Move
<1>3. Net(r)' = NetOf(Moves(r)')
  BY DEF Net, NetOf, MapThenSumSet, MapThenFoldSet
<1>4. VarianceValue(r) = SumOf(VariancesOf(op[r], seen[r], average[r]), DOMAIN Moves(r))
  <2> DEFINE term(i) == Moves(r)[i].by * LineCost(r, i)
             S == DOMAIN Moves(r)
  <2>1. VarianceValue(r) = MapThenSumSet(term, S)
    BY DEF VarianceValue
  <2>2. VariancesOf(op[r], seen[r], average[r]) = [i \in S |-> term(i)]
    BY <1>1 DEF VariancesOf, LineCost, CostOf, Doc
  <2> HIDE DEF term, S
  <2>3. MapThenSumSet(term, S) = SumOf([i \in S |-> term(i)], S)
    BY DEF SumOf, MapThenSumSet, MapThenFoldSet
  <2> QED BY <2>1, <2>2, <2>3 DEF S
<1>5. VarianceValue(r)' = SumOf(VariancesOf(op'[r], seen'[r], average'[r]), DOMAIN Moves(r)')
  <2> DEFINE term(i) == Moves(r)'[i].by * LineCost(r, i)'
             S == DOMAIN Moves(r)'
  <2>1. VarianceValue(r)' = MapThenSumSet(term, S)
    BY DEF VarianceValue, MapThenSumSet, MapThenFoldSet
  <2>2. VariancesOf(op'[r], seen'[r], average'[r]) = [i \in S |-> term(i)]
    BY <1>2 DEF VariancesOf, LineCost, CostOf, Doc
  <2> HIDE DEF term, S
  <2>3. MapThenSumSet(term, S) = SumOf([i \in S |-> term(i)], S)
    BY DEF SumOf, MapThenSumSet, MapThenFoldSet
  <2> QED BY <2>1, <2>2, <2>3 DEF S
<1> QED
  BY <1>1, <1>2, <1>3, <1>4, <1>5 DEF Net, Touched, TouchedBy

\* What a request moves stays the same while it does.
LEMMA MovesStay ==
    ASSUME NEW r, op'[r] = op[r], seen'[r] = seen[r]
    PROVE  /\ Net(r)' = Net(r) /\ Touched(r)' = Touched(r)
           /\ average'[r] = average[r] => VarianceValue(r)' = VarianceValue(r)
BY MovesRead

\* Moves, whatever numbers them.
IsMoves(m) ==
    /\ IsFiniteSet(DOMAIN m)
    /\ \A i \in DOMAIN m : m[i] \in [item : Items, by : Int]

LEMMA LinesAre ==
    ASSUME NEW d \in Docs
    PROVE  /\ DOMAIN Lines[d] = 1..Len(Lines[d]) /\ Len(Lines[d]) \in Nat
           /\ IsFiniteSet(DOMAIN Lines[d])
           /\ \A i \in DOMAIN Lines[d] :
                 /\ Lines[d][i].item \in Items /\ Lines[d][i].qty \in Nat
                 /\ Lines[d][i].cost # Untyped => Lines[d][i].cost \in Nat
<1> DEFINE T == [item : Items, qty : Nat, cost : Nat \cup {Untyped}]
<1>1. Lines[d] \in Seq(T)
  BY DocumentsAssumption
<1> HIDE DEF T
<1>2. DOMAIN Lines[d] = 1..Len(Lines[d]) /\ Len(Lines[d]) \in Nat
  BY <1>1
<1>3. IsFiniteSet(1..Len(Lines[d]))
  BY <1>2, FS_Interval
<1>4. ASSUME NEW i \in DOMAIN Lines[d]
      PROVE  /\ Lines[d][i].item \in Items /\ Lines[d][i].qty \in Nat
             /\ Lines[d][i].cost # Untyped => Lines[d][i].cost \in Nat
  <2>1. Lines[d][i] \in T
    BY <1>1, <1>2
  <2> QED BY <2>1 DEF T
<1> QED
  BY <1>2, <1>3, <1>4

LEMMA MovesAre ==
    ASSUME NEW o \in Ops, NEW s \in [Items -> Int]
    PROVE  IsMoves(MovesOf(o, s))
<1>0. o.doc \in Docs
  BY DEF Ops
<1>1. CASE o.kind = "void"
  <2>1. MovesOf(o, s) = [c \in {x \in Items : s[x] # 0} |-> Move(c, 0 - s[c])]
    BY <1>1 DEF MovesOf
  <2>2. IsFiniteSet({x \in Items : s[x] # 0})
    BY StockAssumption, FS_Subset
  <2> QED
    BY <2>1, <2>2 DEF IsMoves, Move
<1>2. CASE o.kind # "void" /\ Kind[o.doc] \in {"in", "out"}
  <2>1. PICK n \in {1, 0 - 1} :
          MovesOf(o, s) = [i \in DOMAIN Lines[o.doc] |->
                              Move(Lines[o.doc][i].item, n * Lines[o.doc][i].qty)]
    <3>1. CASE Kind[o.doc] = "in"
      BY <1>2, <3>1 DEF MovesOf
    <3>2. CASE Kind[o.doc] = "out"
      BY <1>2, <3>2 DEF MovesOf
    <3> QED BY <1>2, <3>1, <3>2
  <2>2. \A i \in DOMAIN Lines[o.doc] : n * Lines[o.doc][i].qty \in Int
    BY <1>0, LinesAre
  <2> QED
    BY <1>0, <2>1, <2>2, LinesAre DEF IsMoves, Move
<1>3. CASE o.kind # "void" /\ Kind[o.doc] \notin {"in", "out"}
  <2> DEFINE v(i) == Variance(Lines[o.doc][i], s[Lines[o.doc][i].item])
             D == {i \in DOMAIN Lines[o.doc] : v(i) # 0}
  <2>1. MovesOf(o, s) = [i \in D |-> Move(Lines[o.doc][i].item, v(i))]
    BY <1>3 DEF MovesOf
  <2>2. \A i \in DOMAIN Lines[o.doc] : v(i) \in Int
    BY <1>0, LinesAre DEF Variance
  <2>3. IsFiniteSet(D)
    BY <1>0, LinesAre, FS_Subset
  <2>4. \A i \in D : i \in DOMAIN Lines[o.doc]
    OBVIOUS
  <2> HIDE DEF v, D
  <2> QED
    BY <1>0, <2>1, <2>2, <2>3, <2>4, LinesAre DEF IsMoves, Move
<1> QED BY <1>1, <1>2, <1>3

\* What the moves m bring item c.
BringsOf(m, c) == [i \in DOMAIN m |-> IF m[i].item = c THEN m[i].by ELSE 0]

LEMMA NetSum ==
    ASSUME NEW m, NEW c \in Items
    PROVE  NetOf(m)[c] = SumOf(BringsOf(m, c), DOMAIN m)
BY DEF NetOf, SumOf, BringsOf, MapThenSumSet, MapThenFoldSet

LEMMA NetTypes ==
    ASSUME NEW m, IsMoves(m)
    PROVE  NetOf(m) \in [Items -> Int]
<1>1. NetOf(m) = [c \in Items |-> NetOf(m)[c]]
  BY DEF NetOf
<1>2. ASSUME NEW c \in Items PROVE NetOf(m)[c] \in Int
  <2>1. \A i \in DOMAIN m : BringsOf(m, c)[i] \in Int
    BY DEF BringsOf, IsMoves
  <2>2. SumOf(BringsOf(m, c), DOMAIN m) \in Int
    BY <2>1, SumInt DEF IsMoves
  <2> QED BY <2>2, NetSum
<1> QED
  <2> DEFINE f == NetOf(m)
  <2> HIDE DEF f
  <2>1. f = [c \in Items |-> f[c]] /\ \A c \in Items : f[c] \in Int
    BY <1>1, <1>2 DEF f
  <2>2. f \in [Items -> Int]
    BY <2>1
  <2> QED BY <2>2 DEF f

\* Moves bring nothing to an item they do not name.
LEMMA NetOther ==
    ASSUME NEW m, IsMoves(m), NEW c \in Items, \A i \in DOMAIN m : m[i].item # c
    PROVE  NetOf(m)[c] = 0
<1>1. \A i \in DOMAIN m : BringsOf(m, c)[i] = 0
  BY DEF BringsOf
<1>2. SumOf(BringsOf(m, c), DOMAIN m) = 0
  BY <1>1, SumZero DEF IsMoves
<1> QED BY <1>2, NetSum

\* And what the one move says to an item that one of them names.
LEMMA NetOne ==
    ASSUME NEW m, IsMoves(m), NEW c \in Items, NEW i \in DOMAIN m, m[i].item = c,
           \A j \in DOMAIN m \ {i} : m[j].item # c
    PROVE  NetOf(m)[c] = m[i].by
<1> DEFINE f == BringsOf(m, c)
<1>1. f[i] = m[i].by /\ m[i].by \in Int /\ \A j \in DOMAIN m : f[j] \in Int
  BY DEF BringsOf, IsMoves
<1>2. \A j \in DOMAIN m \ {i} : f[j] = 0
  BY DEF BringsOf
<1>3. IsFiniteSet(DOMAIN m) /\ IsFiniteSet(DOMAIN m \ {i})
  BY FS_Subset DEF IsMoves
<1> HIDE DEF f
<1>4. SumOf(f, DOMAIN m) = f[i] + SumOf(f, DOMAIN m \ {i})
  BY <1>1, <1>3, SumTakeOut
<1>5. SumOf(f, DOMAIN m \ {i}) = 0
  BY <1>2, <1>3, SumZero
<1> QED BY <1>1, <1>4, <1>5, NetSum DEF f

LEMMA NetOfRequest ==
    ASSUME DocTypes, NEW r \in Slots, op[r] # NoOp
    PROVE  /\ Net(r) \in [Items -> Int]
           /\ Touched(r) \in SUBSET Items
           /\ \A c \in Items \ Touched(r) : Net(r)[c] = 0
<1> DEFINE m == MovesOf(op[r], seen[r])
<1>1. IsMoves(m)
  <2>1. op[r] \in Ops /\ seen[r] \in [Items -> Int]
    BY DEF DocTypes
  <2> QED BY <2>1, MovesAre
<1>2. Net(r) = NetOf(m) /\ Touched(r) = {m[i].item : i \in DOMAIN m}
  BY MovesRead DEF TouchedBy
<1> HIDE DEF m
<1>3. ASSUME NEW c \in Items \ Touched(r) PROVE NetOf(m)[c] = 0
  BY <1>1, <1>2, <1>3, NetOther
<1> QED
  BY <1>1, <1>2, <1>3, NetTypes DEF IsMoves

\* A void brings each item the opposite of what it has read.
LEMMA VoidUndoes ==
    ASSUME DocTypes, NEW r \in Slots, Does(r, "void")
    PROVE  /\ \A c \in Items : Net(r)[c] = 0 - seen[r][c]
           /\ Touched(r) = {c \in Items : seen[r][c] # 0}
<1> DEFINE s == seen[r]
           D == {x \in Items : s[x] # 0}
           m == MovesOf(op[r], s)
<1>1. op[r] \in Ops /\ s \in [Items -> Int]
  BY DEF DocTypes, Does
<1>2. m = [c \in D |-> Move(c, 0 - s[c])]
  BY DEF MovesOf, Does
<1>3. IsMoves(m)
  BY <1>1, MovesAre
<1>4. DOMAIN m = D /\ \A c \in D : m[c].item = c /\ m[c].by = 0 - s[c]
  BY <1>2 DEF Move
<1>5. Net(r) = NetOf(m) /\ Touched(r) = {m[i].item : i \in DOMAIN m}
  BY MovesRead DEF TouchedBy
<1>6. ASSUME NEW c \in Items PROVE NetOf(m)[c] = 0 - s[c]
  <2> HIDE DEF m
  <2>1. CASE c \in D
    <3>1. NetOf(m)[c] = m[c].by
      BY <1>3, <1>4, <2>1, NetOne
    <3> QED BY <1>4, <2>1, <3>1
  <2>2. CASE c \notin D
    <3>1. NetOf(m)[c] = 0
      BY <1>3, <1>4, <2>2, NetOther
    <3> QED BY <2>2, <3>1
  <2> QED BY <2>1, <2>2
<1>7. {m[i].item : i \in DOMAIN m} = D
  <2> HIDE DEF m, D
  <2> QED BY <1>4
<1> QED BY <1>5, <1>6, <1>7

\* What the lines of d carry of item c, line by line.
CarriesOf(d, c) == [i \in DOMAIN Lines[d] |->
    IF Lines[d][i].item # c THEN 0
    ELSE IF Kind[d] = "in" THEN Lines[d][i].qty ELSE 0 - Lines[d][i].qty]

LEMMA CarriedSum ==
    ASSUME NEW d, NEW c \in Items
    PROVE  Carried(d)[c] = SumOf(CarriesOf(d, c), DOMAIN Lines[d])
<1> DEFINE term(i) == IF Lines[d][i].item # c THEN 0
                      ELSE IF Kind[d] = "in" THEN Lines[d][i].qty ELSE 0 - Lines[d][i].qty
<1>1. Carried(d)[c] = MapThenSumSet(term, DOMAIN Lines[d])
  BY DEF Carried
<1>2. CarriesOf(d, c) = [i \in DOMAIN Lines[d] |-> term(i)]
  BY DEF CarriesOf
<1> DEFINE S == DOMAIN Lines[d]
           f == [i \in S |-> term(i)]
<1> HIDE DEF term, S
<1>3. MapThenSumSet(term, S) = SumOf(f, S)
  BY DEF SumOf, MapThenSumSet, MapThenFoldSet
<1> QED BY <1>1, <1>2, <1>3 DEF S

\* What the lines of d count of item c.
LEMMA CountedSum ==
    ASSUME NEW d, NEW c
    PROVE  Counted(d, c) = SumOf([i \in LinesOf(d, c) |-> Lines[d][i].qty], LinesOf(d, c))
<1> DEFINE S == LinesOf(d, c)
           qty(i) == Lines[d][i].qty
<1>1. Counted(d, c) = MapThenSumSet(qty, S)
  BY DEF Counted
<1>2. [i \in S |-> Lines[d][i].qty] = [i \in S |-> qty(i)]
  OBVIOUS
<1> HIDE DEF qty, S
<1>3. MapThenSumSet(qty, S) = SumOf([i \in S |-> qty(i)], S)
  BY DEF SumOf, MapThenSumSet, MapThenFoldSet
<1> QED BY <1>1, <1>2, <1>3 DEF S

\* A voucher moves what its lines carry.
LEMMA VoucherCarries ==
    ASSUME DocTypes, NEW r \in Slots, Does(r, "post"), Kind[Doc(r)] # "count"
    PROVE  Net(r) = Carried(Doc(r))
<1> DEFINE d == Doc(r)
           n == IF Kind[d] = "in" THEN 1 ELSE 0 - 1
           m == MovesOf(op[r], seen[r])
<1>1. op[r] \in Ops /\ seen[r] \in [Items -> Int] /\ d = op[r].doc /\ d \in Docs
  BY DEF DocTypes, Does, Doc, Ops
<1>2. Kind[d] \in {"in", "out"}
  BY <1>1, DocumentsAssumption
<1>3. m = [i \in DOMAIN Lines[d] |-> Move(Lines[d][i].item, n * Lines[d][i].qty)]
  <2>1. CASE Kind[d] = "in"
    BY <1>1, <2>1 DEF MovesOf, Does
  <2>2. CASE Kind[d] = "out"
    BY <1>1, <2>2 DEF MovesOf, Does
  <2> QED BY <1>2, <2>1, <2>2
<1>4. DOMAIN m = DOMAIN Lines[d]
      /\ \A i \in DOMAIN m : m[i].item = Lines[d][i].item /\ m[i].by = n * Lines[d][i].qty
  BY <1>3 DEF Move
<1> HIDE DEF m
<1>5. ASSUME NEW c \in Items PROVE NetOf(m)[c] = Carried(d)[c]
  <2> DEFINE g == CarriesOf(d, c)
  <2>1. Carried(d)[c] = SumOf(g, DOMAIN Lines[d])
    BY CarriedSum
  <2>2. NetOf(m)[c] = SumOf(BringsOf(m, c), DOMAIN Lines[d])
    BY <1>4, NetSum
  <2>3. \A i \in DOMAIN Lines[d] : BringsOf(m, c)[i] = g[i]
    <3> TAKE i \in DOMAIN Lines[d]
    <3>1. BringsOf(m, c)[i] = IF Lines[d][i].item = c THEN n * Lines[d][i].qty ELSE 0
      <4> HIDE DEF n
      <4> QED BY <1>4 DEF BringsOf
    <3>2. Lines[d][i].qty \in Nat
      BY <1>1, LinesAre
    <3>3. n * Lines[d][i].qty = IF Kind[d] = "in" THEN Lines[d][i].qty ELSE 0 - Lines[d][i].qty
      <4>1. CASE Kind[d] = "in"
        BY <3>2, <4>1
      <4>2. CASE Kind[d] # "in"
        BY <3>2, <4>2
      <4> QED BY <4>1, <4>2
    <3> HIDE DEF n
    <3> QED BY <3>1, <3>3 DEF CarriesOf
  <2>4. IsFiniteSet(DOMAIN Lines[d])
    BY <1>1, LinesAre
  <2> HIDE DEF g
  <2>5. SumOf(BringsOf(m, c), DOMAIN Lines[d]) = SumOf(g, DOMAIN Lines[d])
    BY <2>3, <2>4, SumAgree
  <2> QED BY <2>1, <2>2, <2>5
<1>6. Net(r) = NetOf(m)
  BY MovesRead DEF m
<1>7. NetOf(m) = [c \in Items |-> NetOf(m)[c]] /\ Carried(d) = [c \in Items |-> Carried(d)[c]]
  BY DEF NetOf, Carried
<1> QED BY <1>5, <1>6, <1>7

-----------------------------------------------------------------------------
(* What goods are worth *)

LEMMA PlusTypes ==
    /\ Zero \in [Items -> Int] /\ Zero \in [Items -> Nat]
    /\ \A f, g \in [Items -> Int] : Plus(f, g) \in [Items -> Int]
BY DEF Plus, Zero

\* The lines of a voucher carry something.
LEMMA CarriedSome ==
    ASSUME NEW d \in Docs, Kind[d] # "count"
    PROVE  \E c \in Items : Carried(d)[c] # 0
<1> DEFINE S == DOMAIN Lines[d]
           c == Lines[d][1].item
           f == CarriesOf(d, c)
           R == S \ {1}
           z == [i \in R |-> 0]
<1>1. 1 \in S /\ IsFiniteSet(S) /\ c \in Items /\ Lines[d][1].qty \in Nat /\ Lines[d][1].qty > 0
  <2>1. Lines[d] # <<>> /\ \A i \in S : Lines[d][i].qty > 0
    BY DocumentsAssumption
  <2>2. Lines[d] \in Seq([item : Items, qty : Nat, cost : Nat \cup {Untyped}])
    BY DocumentsAssumption
  <2>3. Len(Lines[d]) # 0
    BY <2>1, <2>2
  <2>4. 1 \in S
    BY <2>3, LinesAre
  <2> QED BY <2>1, <2>4, LinesAre
<1>2. Kind[d] \in {"in", "out"}
  BY DocumentsAssumption
<1>3. \A i \in S : f[i] \in Int /\ (Kind[d] = "in" => f[i] >= 0) /\ (Kind[d] = "out" => f[i] <= 0)
  <2> TAKE i \in S
  <2>1. Lines[d][i].qty \in Nat
    BY LinesAre
  <2> QED BY <2>1 DEF CarriesOf
<1>4. f[1] # 0
  BY <1>1, <1>2 DEF CarriesOf
<1>5. Carried(d)[c] = SumOf(f, S)
  BY <1>1, CarriedSum
<1>6. IsFiniteSet(R) /\ \A i \in R : i \in S
  BY <1>1, FS_Subset
<1> HIDE DEF S, f, c, R
<1>7. SumOf(f, S) = f[1] + SumOf(f, R) /\ SumOf(f, R) \in Int
  BY <1>1, <1>3, <1>6, SumTakeOut, SumInt DEF R
<1>8. SumOf(z, R) = 0
  BY <1>6, SumZero
<1>9. CASE Kind[d] = "in"
  <2>1. \A i \in R : z[i] \in Int /\ f[i] \in Int /\ z[i] <= f[i]
    BY <1>3, <1>6, <1>9
  <2>2. SumOf(z, R) <= SumOf(f, R)
    <3> HIDE DEF z
    <3> QED BY <1>6, <2>1, SumMono
  <2> QED BY <1>1, <1>3, <1>4, <1>5, <1>7, <1>8, <1>9, <2>2
<1>10. CASE Kind[d] = "out"
  <2>1. \A i \in R : z[i] \in Int /\ f[i] \in Int /\ f[i] <= z[i]
    BY <1>3, <1>6, <1>10
  <2>2. SumOf(f, R) <= SumOf(z, R)
    <3> HIDE DEF z
    <3> QED BY <1>6, <2>1, SumMono
  <2> QED BY <1>1, <1>3, <1>4, <1>5, <1>7, <1>8, <1>10, <2>2
<1> QED BY <1>2, <1>9, <1>10

\* What a post moves, line by line, when the rows show price.
WorthsAt(r, price) == [i \in DOMAIN Moves(r) |-> Moves(r)[i].by * MoveCost(r, i, price[i])]

\* The moves of a post are lines of its document, at the costs of these.
LEMMA LineCosts ==
    ASSUME DocTypes, NEW r \in Slots, Does(r, "post")
    PROVE  /\ IsFiniteSet(DOMAIN Moves(r))
           /\ \A i \in DOMAIN Moves(r) :
                 /\ Moves(r)[i].item \in Items /\ Moves(r)[i].by \in Int
                 /\ i \in DOMAIN Lines[Doc(r)] /\ LineCost(r, i) \in Nat
                 /\ VariancesOf(op[r], seen[r], average[r])[i] = Moves(r)[i].by * LineCost(r, i)
           /\ VarianceValue(r) \in Int
<1> DEFINE m == Moves(r)
           S == DOMAIN m
           d == Doc(r)
           g == VariancesOf(op[r], seen[r], average[r])
<1>1. op[r] \in Ops /\ seen[r] \in [Items -> Int] /\ d = op[r].doc /\ d \in Docs /\ op[r].kind = "post"
      /\ average[r] \in [Items -> Nat] /\ Kind[d] \in {"in", "out", "count"}
  <2>1. op[r] \in Ops /\ seen[r] \in [Items -> Int] /\ average[r] \in [Items -> Nat]
    BY DEF DocTypes, Does
  <2> QED BY <2>1, DocumentsAssumption DEF Does, Doc, Ops
<1>2. IsMoves(m)
  BY <1>1, MovesAre, MovesRead
<1>3. IsFiniteSet(S) /\ \A i \in S : m[i].item \in Items /\ m[i].by \in Int
  BY <1>2 DEF IsMoves
<1>4. \A i \in S : i \in DOMAIN Lines[d]
  <2> DEFINE v(i) == Variance(Lines[d][i], seen[r][Lines[d][i].item])
             D == {i \in DOMAIN Lines[d] : v(i) # 0}
  <2>1. m = MovesOf(op[r], seen[r])
    BY MovesRead
  <2>2. CASE Kind[d] \in {"in", "out"}
    <3>1. CASE Kind[d] = "in"
      BY <1>1, <2>1, <3>1 DEF MovesOf
    <3>2. CASE Kind[d] = "out"
      BY <1>1, <2>1, <3>2 DEF MovesOf
    <3> QED BY <2>2, <3>1, <3>2
  <2>3. CASE Kind[d] = "count"
    <3>1. m = [i \in D |-> Move(Lines[d][i].item, v(i))]
      BY <1>1, <2>1, <2>3 DEF MovesOf
    <3> QED BY <3>1
  <2> QED BY <1>1, <2>2, <2>3
<1>5. \A i \in S : LineCost(r, i) \in Nat /\ LineCost(r, i) = CostOf(op[r], average[r], i)
  <2> TAKE i \in S
  <2>1. /\ Lines[d][i].item \in Items
        /\ Lines[d][i].cost # Untyped => Lines[d][i].cost \in Nat
    BY <1>1, <1>4, LinesAre
  <2> QED BY <1>1, <2>1 DEF LineCost, CostOf
<1>6. \A i \in S : g[i] = m[i].by * LineCost(r, i) /\ g[i] \in Int
  <2> TAKE i \in S
  <2>1. g[i] = m[i].by * LineCost(r, i)
    BY <1>5, MovesRead DEF VariancesOf
  <2> HIDE DEF g, m
  <2> QED BY <1>3, <1>5, <2>1
<1>7. VarianceValue(r) = SumOf(g, S)
  BY MovesRead
<1> HIDE DEF m, S, g
<1>8. SumOf(g, S) \in Int
  BY <1>3, <1>6, SumInt
<1> QED BY <1>3, <1>4, <1>5, <1>6, <1>7, <1>8 DEF m, S, g

\* The goods of a post have a worth, of the sign of its document if that is a voucher, and
\* unless the request reprices it is what a count puts its variances at.
LEMMA PostWorth ==
    ASSUME DocTypes, NEW r \in Slots, Does(r, "post"), stage[r] \in Reads, NEW price \in Shown(r)
    PROVE  /\ WorthAt(r, price) \in Int /\ VarianceValue(r) \in Int
           /\ OneSigned(Doc(r), WorthAt(r, price))
           /\ Kind[Doc(r)] = "count" /\ ~ Reprices(r, price) => WorthAt(r, price) = VarianceValue(r)
           /\ Reprices(r, price) => Kind[Doc(r)] = "count"
<1> DEFINE m == Moves(r)
           S == DOMAIN m
           d == Doc(r)
           f == WorthsAt(r, price)
           g == VariancesOf(op[r], seen[r], average[r])
           z == [i \in S |-> 0]
<1>1. op[r] \in Ops /\ seen[r] \in [Items -> Int] /\ d = op[r].doc /\ d \in Docs /\ op[r].kind = "post"
      /\ average[r] \in [Items -> Nat] /\ Kind[d] \in {"in", "out", "count"}
  <2>1. op[r] \in Ops /\ seen[r] \in [Items -> Int] /\ average[r] \in [Items -> Nat]
    BY DEF DocTypes, Does
  <2> QED BY <2>1, DocumentsAssumption DEF Does, Doc, Ops
<1>3. IsFiniteSet(S) /\ \A i \in S : m[i].item \in Items /\ m[i].by \in Int
  BY LineCosts
<1>4. \A i \in S : i \in DOMAIN Lines[d]
  BY LineCosts
<1>5. \A i \in S : LineCost(r, i) \in Nat
  BY LineCosts
<1>6. \A i \in S : price[i] \in Nat
  BY <1>3, StockAssumption DEF Shown
<1>7. \A i \in S : MoveCost(r, i, price[i]) \in Nat
  BY <1>5, <1>6 DEF MoveCost
<1>8. \A i \in S : /\ f[i] = m[i].by * MoveCost(r, i, price[i]) /\ f[i] \in Int
                   /\ g[i] = m[i].by * LineCost(r, i) /\ g[i] \in Int
  <2> TAKE i \in S
  <2>1. f[i] = m[i].by * MoveCost(r, i, price[i])
    BY DEF WorthsAt
  <2>2. g[i] = m[i].by * LineCost(r, i)
    BY LineCosts
  <2> HIDE DEF f, g, m
  <2> QED BY <1>3, <1>5, <1>7, <2>1, <2>2
<1>9. WorthAt(r, price) = SumOf(f, S)
  BY DEF WorthAt, WorthsAt, SumOf, MapThenSumSet, MapThenFoldSet
<1>10. VarianceValue(r) = SumOf(g, S)
  BY MovesRead
<1>11. Kind[d] = "in" => \A i \in S : m[i].by >= 0
  <2> SUFFICES ASSUME Kind[d] = "in", NEW i \in S PROVE m[i].by >= 0
    OBVIOUS
  <2>1. m[i].by = 1 * Lines[d][i].qty
    <3>1. m = MovesOf(op[r], seen[r])
      BY MovesRead
    <3>2. m = [j \in DOMAIN Lines[d] |-> Move(Lines[d][j].item, 1 * Lines[d][j].qty)]
      BY <1>1, <3>1 DEF MovesOf
    <3> QED BY <1>4, <3>2 DEF Move
  <2>2. Lines[d][i].qty \in Nat
    BY <1>1, <1>4, LinesAre
  <2> HIDE DEF m
  <2> QED BY <2>1, <2>2
<1>12. Kind[d] = "out" => \A i \in S : m[i].by <= 0
  <2> SUFFICES ASSUME Kind[d] = "out", NEW i \in S PROVE m[i].by <= 0
    OBVIOUS
  <2>1. m[i].by = (0 - 1) * Lines[d][i].qty
    <3>1. m = MovesOf(op[r], seen[r])
      BY MovesRead
    <3>2. m = [j \in DOMAIN Lines[d] |-> Move(Lines[d][j].item, (0 - 1) * Lines[d][j].qty)]
      BY <1>1, <3>1 DEF MovesOf
    <3> QED BY <1>4, <3>2 DEF Move
  <2>2. Lines[d][i].qty \in Nat
    BY <1>1, <1>4, LinesAre
  <2> HIDE DEF m
  <2> QED BY <2>1, <2>2
<1>13. ~ Reprices(r, price) /\ Kind[d] = "count" => \A i \in S : f[i] = g[i]
  <2> SUFFICES ASSUME ~ Reprices(r, price), Kind[d] = "count", NEW i \in S PROVE f[i] = g[i]
    OBVIOUS
  <2>1. IsCount(r)
    BY <1>1 DEF IsCount, Does
  <2>2. m[i].by < 0 => price[i] = LineCost(r, i)
    BY <2>1 DEF Reprices
  <2>3. m[i].by = 0 \/ MoveCost(r, i, price[i]) = LineCost(r, i)
    <3> DEFINE n == m[i].by
    <3>1. n \in Int /\ MoveCost(r, i, price[i]) = IF n > 0 THEN LineCost(r, i) ELSE price[i]
      BY <1>3 DEF MoveCost
    <3> HIDE DEF n
    <3> QED BY <2>2, <3>1 DEF n
  <2> HIDE DEF m, f, g
  <2> QED BY <1>3, <1>5, <1>7, <1>8, <2>3
<1> HIDE DEF m, S, f, g
<1>14. SumOf(f, S) \in Int /\ SumOf(g, S) \in Int /\ SumOf(z, S) = 0
  BY <1>3, <1>8, SumInt, SumZero
<1>15. Kind[d] = "in" => SumOf(f, S) >= 0
  <2> SUFFICES ASSUME Kind[d] = "in" PROVE SumOf(f, S) >= 0
    OBVIOUS
  <2>1. \A i \in S : f[i] >= 0
    <3> TAKE i \in S
    <3>1. m[i].by \in Nat /\ MoveCost(r, i, price[i]) \in Nat
      BY <1>3, <1>7, <1>11
    <3> QED BY <1>8, <3>1
  <2>2. \A i \in S : z[i] \in Int /\ f[i] \in Int /\ z[i] <= f[i]
    BY <1>8, <2>1
  <2> HIDE DEF z
  <2>3. SumOf(z, S) <= SumOf(f, S)
    BY <1>3, <2>2, SumMono
  <2> QED BY <1>14, <2>3
<1>16. Kind[d] = "out" => SumOf(f, S) <= 0
  <2> SUFFICES ASSUME Kind[d] = "out" PROVE SumOf(f, S) <= 0
    OBVIOUS
  <2>1. \A i \in S : f[i] <= 0
    <3> TAKE i \in S
    <3>1. m[i].by \in Int /\ m[i].by <= 0 /\ MoveCost(r, i, price[i]) \in Nat
      BY <1>3, <1>7, <1>12
    <3> QED BY <1>8, <3>1
  <2>2. \A i \in S : z[i] \in Int /\ f[i] \in Int /\ f[i] <= z[i]
    BY <1>8, <2>1
  <2> HIDE DEF z
  <2>3. SumOf(f, S) <= SumOf(z, S)
    BY <1>3, <2>2, SumMono
  <2> QED BY <1>14, <2>3
<1>17. Kind[d] = "count" /\ ~ Reprices(r, price) => SumOf(f, S) = SumOf(g, S)
  BY <1>3, <1>13, SumAgree
<1>18. Reprices(r, price) => Kind[d] = "count"
  BY DEF Reprices, IsCount
<1> QED BY <1>9, <1>10, <1>14, <1>15, <1>16, <1>17, <1>18 DEF OneSigned

-----------------------------------------------------------------------------
(* What a step changes *)

\* The steps of a request; but for the commit they leave every row as it is.
Prepares(r) == (\E o \in Ops : Load(r, o)) \/ ReadStock(r) \/ MoveStock(r) \/ PostEntry(r)
DocStep(r) == Prepares(r) \/ CommitDoc(r) \/ Fail(r)

LEMMA NextSteps == DocNext <=> (\E r \in Slots : DocStep(r)) \/ Finished
BY DEF DocNext, DocStep, Prepares

Rows == <<status, stock, books, posts, worthless, repriced>>

LEMMA RowsStay ==
    ASSUME NEW r \in Slots, Prepares(r) \/ Fail(r)
    PROVE  UNCHANGED Rows
BY DEF Prepares, Load, ReadStock, MoveStock, PostEntry, Fail, docHistory, Rows

\* What a step of r leaves alone of another request, and that it keeps what it holds.
LEMMA OthersStay ==
    ASSUME DocTypes, NEW r \in Slots, DocStep(r), NEW u \in Slots, u # r
    PROVE  /\ stage'[u] = stage[u] /\ op'[u] = op[u] /\ seen'[u] = seen[u] /\ value'[u] = value[u]
           /\ seenAt'[u] = seenAt[u] /\ movedAt'[u] = movedAt[u] /\ repricing'[u] = repricing[u]
           /\ \A x \in Locks : held[x] = u => held'[x] = u
           /\ Net(u)' = Net(u) /\ Touched(u)' = Touched(u) /\ VarianceValue(u)' = VarianceValue(u)
<1>1. /\ stage'[u] = stage[u] /\ op'[u] = op[u] /\ seen'[u] = seen[u] /\ value'[u] = value[u]
      /\ seenAt'[u] = seenAt[u] /\ movedAt'[u] = movedAt[u] /\ repricing'[u] = repricing[u]
      /\ average'[u] = average[u]
      /\ \A x \in Locks : held[x] = u => held'[x] = u
  <2>1. CASE \E o \in Ops : Load(r, o)
    BY <2>1 DEF Load, DocTypes
  <2>2. CASE ReadStock(r)
    BY <2>2 DEF ReadStock, DocTypes
  <2>3. CASE MoveStock(r)
    BY <2>3, StockAssumption DEF MoveStock, Take, Free, request, DocTypes
  <2>4. CASE PostEntry(r)
    <3>1. /\ stage'[u] = stage[u] /\ op' = op /\ seen' = seen /\ value'[u] = value[u]
          /\ seenAt' = seenAt /\ movedAt' = movedAt /\ repricing' = repricing /\ average' = average
      BY <2>4 DEF PostEntry, DocTypes
    <3>2. held' = held \/ (Free(r, {<<"journal">>}) /\ Take(r, {<<"journal">>}))
      BY <2>4 DEF PostEntry
    <3> QED
      BY <3>1, <3>2, StockAssumption DEF Take, Free
  <2>5. CASE CommitDoc(r) \/ Fail(r)
    <3>1. End(r)
      BY <2>5 DEF CommitDoc, Fail
    <3> QED
      BY <3>1 DEF End, DocTypes
  <2> QED
    BY <2>1, <2>2, <2>3, <2>4, <2>5 DEF DocStep, Prepares
<1> QED
  BY <1>1, MovesStay

LEMMA CommitTypes ==
    ASSUME DocTypes, NEW r \in Slots, CommitDoc(r), stage[r] # "idle" => op[r] # NoOp
    PROVE  /\ op[r] \in Ops /\ Doc(r) \in Docs /\ Does(r, op[r].kind)
           /\ op[r].kind \in {"post", "void"}
           /\ Kind[Doc(r)] = "count" => op[r].kind = "post"
           /\ Net(r) \in [Items -> Int] /\ Touched(r) \in SUBSET Items
           /\ \A c \in Items \ Touched(r) : Net(r)[c] = 0
<1>1. op[r] # NoOp /\ op[r] \in Ops
  BY DEF CommitDoc, DocTypes
<1>2. /\ Doc(r) \in Docs /\ op[r].kind \in {"post", "void"}
      /\ Kind[Doc(r)] = "count" => op[r].kind = "post"
  BY <1>1 DEF Doc, Ops
<1> QED
  BY <1>1, <1>2, NetOfRequest DEF Does

LEMMA StepTypes ==
    ASSUME DocTypes, NEW r \in Slots, DocStep(r), stage[r] # "idle" => op[r] # NoOp
    PROVE  DocTypes'
<1>0. Zero \in [Items -> Int] /\ Zero \in [Items -> Nat]
  BY PlusTypes
<1>1. CASE \E o \in Ops : Load(r, o)
  <2>1. /\ op' \in [Slots -> Ops \cup {NoOp}] /\ started' \in 0..MaxRequests
        /\ stage' \in [Slots -> {"idle", "loaded", "ready", "moved", "entered"}]
    BY <1>1, StockAssumption DEF Load, DocTypes
  <2>2. UNCHANGED <<status, stock, books, held, seen, average, seenAt, movedAt, repricing, value,
                    docHistory>>
    BY <1>1 DEF Load
  <2> QED
    BY <2>1, <2>2 DEF DocTypes, stock, books, docHistory
<1>2. CASE ReadStock(r)
  <2>1. op[r] # NoOp /\ op[r] \in Ops
    BY <1>2 DEF ReadStock, DocTypes
  <2>2. Doc(r) \in Docs
    BY <2>1 DEF Doc, Ops
  <2>3. /\ quantity \in [Items -> Int] /\ posted[Doc(r)] \in [Items -> Int]
        /\ postedAt[Doc(r)] \in Int
    BY <2>2 DEF DocTypes
  <2>4. seen' \in [Slots -> [Items -> Int]] /\ seenAt' \in [Slots -> Int]
    BY <1>2, <2>3 DEF ReadStock, DocTypes
  <2>5. average' \in [Slots -> [Items -> Nat]]
    <3>1. CASE op[r].kind = "post"
      <4>1. PICK costs \in [Items -> UNION {Prices[c] : c \in Items}] :
              /\ \A c \in Items : costs[c] \in Prices[c]
              /\ average' = [average EXCEPT ![r] = costs]
        BY <1>2, <3>1 DEF ReadStock
      <4>2. costs \in [Items -> Nat]
        BY <4>1, StockAssumption
      <4> QED BY <4>1, <4>2 DEF DocTypes
    <3>2. CASE op[r].kind # "post"
      BY <1>2, <3>2 DEF ReadStock, DocTypes
    <3> QED BY <3>1, <3>2
  <2>6. stage' \in [Slots -> {"idle", "loaded", "ready", "moved", "entered"}]
    BY <1>2 DEF ReadStock, DocTypes
  <2>7. UNCHANGED <<status, stock, books, held, op, movedAt, repricing, value, started, docHistory>>
    BY <1>2 DEF ReadStock
  <2> QED
    BY <2>4, <2>5, <2>6, <2>7 DEF DocTypes, stock, books, docHistory
<1>3. CASE MoveStock(r)
  <2>1. op[r] # NoOp /\ op[r] \in Ops /\ stage[r] \in Reads
    BY <1>3 DEF MoveStock, DocTypes, Reads
  <2>2. movedAt' \in [Slots -> Int] /\ repricing' \in [Slots -> BOOLEAN]
    <3>1. CASE op[r].kind = "post"
      <4>1. PICK price \in Shown(r) : /\ movedAt' = [movedAt EXCEPT ![r] = WorthAt(r, price)]
                                     /\ repricing' = [repricing EXCEPT ![r] = Reprices(r, price)]
        BY <1>3, <3>1 DEF MoveStock
      <4>2. WorthAt(r, price) \in Int
        BY <2>1, <3>1, PostWorth DEF Does
      <4>3. Reprices(r, price) \in BOOLEAN
        BY DEF Reprices, IsCount
      <4>4. movedAt' \in [Slots -> Int]
        BY <4>1, <4>2 DEF DocTypes
      <4>5. repricing' \in [Slots -> BOOLEAN]
        BY <4>1, <4>3, Zenon DEF DocTypes
      <4> QED BY <4>4, <4>5
    <3>2. CASE op[r].kind # "post"
      <4>1. movedAt' = [movedAt EXCEPT ![r] = 0 - seenAt[r]] /\ repricing' = repricing
        BY <1>3, <3>2 DEF MoveStock
      <4> QED BY <4>1 DEF DocTypes
    <3> QED BY <3>1, <3>2
  <2>3. held' \in [Locks -> Slots \cup {NoOp}]
        /\ stage' \in [Slots -> {"idle", "loaded", "ready", "moved", "entered"}]
    BY <1>3 DEF MoveStock, DocTypes, Take
  <2>4. UNCHANGED <<status, stock, books, op, seen, average, seenAt, value, started, docHistory>>
    BY <1>3 DEF MoveStock
  <2> QED
    BY <2>2, <2>3, <2>4 DEF DocTypes, stock, books, docHistory
<1>4. CASE PostEntry(r)
  <2>1. EntryValue(r) \in Int
    <3>1. op[r] # NoOp /\ op[r] \in Ops
      BY <1>4 DEF PostEntry, DocTypes
    <3>2. Doc(r) \in Docs
      BY <3>1 DEF Doc, Ops
    <3>3. IsCount(r) => VarianceValue(r) \in Int
      BY LineCosts DEF IsCount, Does
    <3>4. ValueOfMovements(r) \in Int
      <4>1. postedAt[Doc(r)] \in Int /\ mirroredAt[Doc(r)] \in Int /\ movedAt[r] \in Int
        BY <3>2 DEF DocTypes
      <4> QED BY <4>1 DEF ValueOfMovements, Size
    <3>5. entry[Doc(r)].value \in Int
      BY <3>2 DEF DocTypes
    <3> QED
      BY <3>3, <3>4, <3>5 DEF EntryValue
  <2>2. value' \in [Slots -> Int]
    BY <1>4, <2>1 DEF PostEntry, DocTypes
  <2>3. held' \in [Locks -> Slots \cup {NoOp}]
    BY <1>4 DEF PostEntry, DocTypes, Take
  <2> QED
    BY <1>4, <2>2, <2>3 DEF PostEntry, DocTypes, stock, books, docHistory
<1>5. CASE Fail(r)
  BY <1>0, <1>5 DEF Fail, End, DocTypes, stock, books
<1>6. CASE CommitDoc(r)
  <2>1. /\ op[r] \in Ops /\ Doc(r) \in Docs /\ op[r].kind \in {"post", "void"}
        /\ Net(r) \in [Items -> Int] /\ Touched(r) \in SUBSET Items
    BY <1>6, CommitTypes
  <2>2. StatusAfter(op[r]) \in {"posted", "voided"}
    BY DEF StatusAfter
  <2>3. AccountChange(r) \in Int
    <3>1. value[r] \in Int
      BY DEF DocTypes
    <3> QED BY <3>1 DEF AccountChange
  <2>4. /\ posted[Doc(r)] \in [Items -> Int] /\ mirrored[Doc(r)] \in [Items -> Int]
        /\ value[r] \in Int /\ posts[Doc(r)] \in Nat
    BY <2>1 DEF DocTypes
  <2>5. /\ quantity' \in [Items -> Int]
        /\ Plus(posted[Doc(r)], Net(r)) \in [Items -> Int]
        /\ Plus(mirrored[Doc(r)], Net(r)) \in [Items -> Int]
    <3>1. quantity \in [Items -> Int] /\ quantity' = Plus(quantity, Net(r))
      BY <1>6 DEF CommitDoc, DocTypes
    <3> QED BY <2>1, <2>4, <3>1, PlusTypes
  <2>6. status' \in [Docs -> {"draft", "posted", "voided"}]
    BY <1>6, <2>1, <2>2 DEF CommitDoc, DocTypes
  <2>7. posted' \in [Docs -> [Items -> Int]] /\ mirrored' \in [Docs -> [Items -> Int]]
    BY <1>6, <2>1, <2>5 DEF CommitDoc, DocTypes
  <2>8. /\ keys' \in SUBSET Docs /\ worthless' \in SUBSET Docs /\ repriced' \in SUBSET Docs
        /\ account' \in Int
    BY <1>6, <2>1, <2>3 DEF CommitDoc, DocTypes
  <2>14. worth' \in Int /\ postedAt' \in [Docs -> Int] /\ mirroredAt' \in [Docs -> Int]
    <3>1. movedAt[r] \in Int /\ postedAt[Doc(r)] \in Int /\ mirroredAt[Doc(r)] \in Int
      BY <2>1 DEF DocTypes
    <3> QED BY <1>6, <2>1, <3>1 DEF CommitDoc, DocTypes
  <2>9. entry' \in [Docs -> [state : {"none", "posted", "void"}, value : Int]]
    <3> DEFINE E == [state : {"none", "posted", "void"}, value : Int]
               d == Doc(r)
    <3>1. entry \in [Docs -> E] /\ [state |-> "posted", value |-> value[r]] \in E
      BY <2>4 DEF DocTypes
    <3>2. \/ entry' = entry
          \/ entry' = [entry EXCEPT ![d] = [state |-> "posted", value |-> value[r]]]
          \/ entry' = [entry EXCEPT ![d].state = "void"]
      BY <1>6, <2>1 DEF CommitDoc
    <3>3. [entry EXCEPT ![d].state = "void"] \in [Docs -> E]
      BY <2>1, <3>1
    <3> HIDE DEF E
    <3>4. entry' \in [Docs -> E]
      BY <2>1, <3>1, <3>2, <3>3
    <3> QED BY <3>4 DEF E
  <2>10. posts' \in [Docs -> Nat]
    BY <1>6, <2>1, <2>4 DEF CommitDoc, DocTypes
  <2>11. outdated' \in [Slots -> SUBSET Items]
    BY <1>6, <2>1 DEF CommitDoc, DocTypes
  <2>12. End(r)
    BY <1>6 DEF CommitDoc
  <2>13. /\ held' \in [Locks -> Slots \cup {NoOp}]
         /\ stage' \in [Slots -> {"idle", "loaded", "ready", "moved", "entered"}]
         /\ op' \in [Slots -> Ops \cup {NoOp}]
         /\ seen' \in [Slots -> [Items -> Int]] /\ average' \in [Slots -> [Items -> Nat]]
         /\ seenAt' \in [Slots -> Int] /\ movedAt' \in [Slots -> Int]
         /\ repricing' \in [Slots -> BOOLEAN]
         /\ value' \in [Slots -> Int] /\ started' \in 0..MaxRequests
    BY <1>0, <2>12 DEF End, DocTypes
  <2> QED
    BY <2>5, <2>6, <2>7, <2>8, <2>9, <2>10, <2>11, <2>13, <2>14 DEF DocTypes
<1> QED
  BY <1>1, <1>2, <1>3, <1>4, <1>5, <1>6 DEF DocStep, Prepares

-----------------------------------------------------------------------------
(* A document keeps its promises *)

LEMMA DocInvInit == DocInit => DocInv
<1> SUFFICES ASSUME DocInit PROVE DocInv
  OBVIOUS
<1>1. Zero \in [Items -> Int] /\ Zero \in [Items -> Nat] /\ Plus(Zero, Zero) = Zero
  BY DEF Zero, Plus
<1>2. DocTypes
  <2>1. /\ quantity \in [Items -> Int] /\ started \in 0..MaxRequests
        /\ posted \in [Docs -> [Items -> Int]] /\ mirrored \in [Docs -> [Items -> Int]]
        /\ seen \in [Slots -> [Items -> Int]] /\ average \in [Slots -> [Items -> Nat]]
    BY <1>1, StockAssumption DEF DocInit
  <2>2. /\ entry \in [Docs -> [state : {"none", "posted", "void"}, value : Int]]
        /\ posts \in [Docs -> Nat] /\ value \in [Slots -> Int]
        /\ op \in [Slots -> Ops \cup {NoOp}] /\ held \in [Locks -> Slots \cup {NoOp}]
        /\ worth \in Int /\ postedAt \in [Docs -> Int] /\ mirroredAt \in [Docs -> Int]
        /\ seenAt \in [Slots -> Int] /\ movedAt \in [Slots -> Int]
        /\ repricing \in [Slots -> BOOLEAN]
    BY DEF DocInit
  <2> QED
    BY <2>1, <2>2 DEF DocInit, DocTypes
<1>3. \A r \in Slots : Written(r) /\ Undoes(r)
  BY DEF DocInit, Written, Undoes, Does, Reads
<1>4. \A d \in Docs : DocOK(d) /\ Unpriced(d)
  BY DEF DocInit, DocOK, Unpriced
<1>5. AccountTellsStock
  BY DEF DocInit, AccountTellsStock
<1> QED BY <1>2, <1>3, <1>4, <1>5 DEF DocInv

\* A step that commits nothing leaves what is said of rows and of the other requests.
LEMMA QuietOthers ==
    ASSUME DocInv, NEW r \in Slots, Prepares(r) \/ Fail(r), NEW u \in Slots, u # r
    PROVE  Written(u)' /\ Undoes(u)'
<1>1. DocTypes /\ Written(u) /\ Undoes(u)
  BY DEF DocInv
<1>2. UNCHANGED Rows
  BY RowsStay
<1>3. /\ stage'[u] = stage[u] /\ op'[u] = op[u] /\ seen'[u] = seen[u] /\ value'[u] = value[u]
      /\ seenAt'[u] = seenAt[u] /\ movedAt'[u] = movedAt[u] /\ repricing'[u] = repricing[u]
      /\ \A x \in Locks : held[x] = u => held'[x] = u
      /\ Touched(u)' = Touched(u) /\ VarianceValue(u)' = VarianceValue(u)
  BY <1>1, OthersStay DEF DocStep
<1>4. outdated'[u] = outdated[u]
  BY <1>1 DEF Prepares, Load, ReadStock, MoveStock, PostEntry, Fail, docHistory, DocTypes
<1>6. \A k \in {"post", "void"} : Does(u, k)' <=> Does(u, k)
  BY <1>3 DEF Does
<1>7. Doc(u)' = Doc(u) /\ <<"journal">> \in Locks /\ \A c \in Items : <<"item", c>> \in Locks
  BY <1>3 DEF Doc, Locks
<1>8. stage[u] \in {"moved", "entered"} => \A c \in Touched(u) : c \in Items
  BY <1>1, NetOfRequest DEF Written
<1>5. Priced(u)' <=> Priced(u)
  BY <1>3, <1>7 DEF Priced, OneSigned
<1>9. Written(u)'
  BY <1>1, <1>2, <1>3, <1>4, <1>5, <1>6, <1>7, <1>8 DEF Written, Rows, stock, books
<1>10. Undoes(u)'
  BY <1>1, <1>2, <1>3, <1>6, <1>7 DEF Undoes, Rows, stock, books, Zero
<1> QED BY <1>9, <1>10

LEMMA QuietRows ==
    ASSUME DocInv, NEW r \in Slots, Prepares(r) \/ Fail(r)
    PROVE  (\A d \in Docs : DocOK(d)' /\ Unpriced(d)') /\ AccountTellsStock'
<1>1. UNCHANGED Rows
  BY RowsStay
<1>3. \A d \in Docs : Carried(d)' = Carried(d) /\ Zero' = Zero
  BY DEF Carried, Zero, MapThenSumSet, MapThenFoldSet
<1>4. ASSUME NEW d \in Docs PROVE DocOK(d)' /\ Unpriced(d)'
  <2>1. DocOK(d) /\ Unpriced(d)
    BY DEF DocInv
  <2>2. DocOK(d)'
    BY <1>1, <1>3, <2>1 DEF DocOK, Rows, stock, books, Plus
  <2>3. Unpriced(d)'
    BY <1>1, <2>1 DEF Unpriced, Rows, stock, books
  <2> QED BY <2>2, <2>3
<1>5. AccountTellsStock'
  BY <1>1 DEF DocInv, AccountTellsStock, Rows, stock, books
<1> QED BY <1>4, <1>5

\* What a request that prepares a commit knows of itself afterwards.
LEMMA QuietSelf ==
    ASSUME DocInv, NEW r \in Slots, Prepares(r) \/ Fail(r)
    PROVE  Written(r)' /\ Undoes(r)'
<1>1. DocTypes /\ Written(r) /\ Undoes(r) /\ \A d \in Docs : DocOK(d) /\ Unpriced(d)
  BY DEF DocInv
<1>2. UNCHANGED Rows
  BY RowsStay
<1>3. CASE \E o \in Ops : Load(r, o)
  <2> PICK o \in Ops : Load(r, o)
    BY <1>3
  <2>1. /\ stage[r] = "idle" /\ stage'[r] = "loaded" /\ op'[r] = o /\ o # NoOp
        /\ value'[r] = 0 /\ status[o.doc] = StatusFor(o)
    BY <1>1, StockAssumption DEF Load, Written, DocTypes, Accepts
  <2>2. Written(r)'
    BY <2>1 DEF Written, Priced, Reads
  <2>3. Undoes(r)'
    BY <1>2, <2>1 DEF Undoes, Does, Doc, Reads, StatusFor, Rows
  <2> QED BY <2>2, <2>3
<1>4. CASE ReadStock(r)
  <2>1. /\ stage[r] = "loaded" /\ stage'[r] = "ready" /\ op' = op /\ value'[r] = 0 /\ op[r] # NoOp
        /\ op[r].kind = "post" => seen'[r] = quantity
        /\ op[r].kind # "post" => seen'[r] = posted[Doc(r)] /\ seenAt'[r] = postedAt[Doc(r)]
    BY <1>1, <1>4 DEF ReadStock, Written, DocTypes
  <2>2. op[r] \in Ops /\ Doc(r) \in Docs /\ (op[r].kind = "void" => Kind[Doc(r)] # "count")
    BY <1>1, <2>1 DEF DocTypes, Ops, Doc
  <2>3. Written(r)'
    BY <1>2, <2>1 DEF Written, Priced, Does, Rows, stock
  <2>4. op[r].kind = "void" /\ Doc(r) \notin keys => seenAt'[r] = 0
    BY <1>1, <2>1, <2>2 DEF Unpriced
  <2>5. Undoes(r)'
    BY <1>1, <1>2, <2>1, <2>4 DEF Undoes, Does, Doc, Rows, stock, books
  <2> QED BY <2>3, <2>5
<1>5. CASE MoveStock(r)
  <2>1. /\ stage[r] = "ready" /\ stage'[r] = "moved" /\ op' = op /\ seen' = seen /\ value' = value
        /\ average' = average /\ seenAt' = seenAt
        /\ value[r] = 0 /\ op[r] # NoOp /\ outdated' = outdated
        /\ Take(r, {"item"} \X Touched(r)) /\ Unmirrored(r)
    BY <1>1, <1>5 DEF MoveStock, Written, docHistory, DocTypes
  <2>2. /\ Touched(r)' = Touched(r) /\ Touched(r) \in SUBSET Items
        /\ VarianceValue(r)' = VarianceValue(r) /\ Doc(r)' = Doc(r)
    BY <1>1, <2>1, MovesStay, NetOfRequest DEF Doc
  <2>3. \A c \in Touched(r) : held'[<<"item", c>>] = r
    BY <2>1, <2>2 DEF Take, Locks
  <2>4. ASSUME Does(r, "post") PROVE Priced(r)'
    <3>1. PICK price \in Shown(r) : /\ movedAt' = [movedAt EXCEPT ![r] = WorthAt(r, price)]
                                   /\ repricing' = [repricing EXCEPT ![r] = Reprices(r, price)]
      BY <1>5, <2>4 DEF MoveStock, Does
    <3>2. movedAt'[r] = WorthAt(r, price) /\ repricing'[r] = Reprices(r, price)
      BY <1>1, <3>1 DEF DocTypes
    <3>3. /\ OneSigned(Doc(r), WorthAt(r, price))
          /\ Kind[Doc(r)] = "count" /\ ~ Reprices(r, price) => WorthAt(r, price) = VarianceValue(r)
          /\ Reprices(r, price) => Kind[Doc(r)] = "count"
      BY <1>1, <2>1, <2>4, PostWorth DEF Reads
    <3> QED BY <2>1, <2>2, <3>2, <3>3 DEF Priced, OneSigned
  <2>5. Does(r, "void") => movedAt'[r] = 0 - seenAt[r]
    BY <1>1, <1>5 DEF MoveStock, Does, DocTypes
  <2>6. Does(r, "post")' <=> Does(r, "post")
    BY <2>1 DEF Does
  <2>7. Written(r)'
    BY <1>1, <1>2, <2>1, <2>2, <2>3, <2>4, <2>6 DEF Written, Does, Rows, stock, Reads
  <2>8. Undoes(r)'
    BY <1>1, <1>2, <2>1, <2>5 DEF Undoes, Does, Doc, Unmirrored, Rows, stock, books, Reads, Zero
  <2> QED BY <2>7, <2>8
<1>6. CASE PostEntry(r)
  <2>1. /\ stage[r] = "moved" /\ stage'[r] = "entered" /\ op' = op /\ seen' = seen
        /\ average' = average /\ seenAt' = seenAt /\ movedAt' = movedAt /\ repricing' = repricing
        /\ value[r] = 0 /\ op[r] # NoOp /\ outdated' = outdated
    BY <1>1, <1>6 DEF PostEntry, Written, docHistory, DocTypes
  <2>2. /\ value'[r] = EntryValue(r)
        /\ \A x \in Locks : held[x] = r => held'[x] = r
        /\ EntryValue(r) # 0 => /\ held'[<<"journal">>] = r
                                /\ Does(r, "post") => Doc(r) \notin keys
    BY <1>1, <1>6, <2>1 DEF PostEntry, Take, Locks, DocTypes, Does
  <2>3. /\ Touched(r)' = Touched(r) /\ Touched(r) \in SUBSET Items
        /\ VarianceValue(r)' = VarianceValue(r)
    BY <1>1, <2>1, MovesStay, NetOfRequest
  <2>4. \A c \in Items : <<"item", c>> \in Locks
    BY DEF Locks
  <2>5. ASSUME Does(r, "post"), ~ repricing[r] PROVE EntryValue(r) = movedAt[r]
    <3> DEFINE d == Doc(r)
    <3>1. /\ d \in Docs /\ op[r].kind = "post" /\ op[r] # NoOp
          /\ Kind[d] \in {"in", "out", "count"} /\ Priced(r)
      <4>1. op[r] \in Ops
        BY <1>1, <2>5 DEF Does, DocTypes
      <4>2. d \in Docs
        BY <4>1 DEF Ops, Doc
      <4> QED BY <1>1, <2>5, <4>2, DocumentsAssumption DEF Does, Written
    <3>2. CASE Kind[d] = "count"
      <4>1. EntryValue(r) = VarianceValue(r)
        BY <3>1, <3>2 DEF EntryValue, IsCount
      <4> QED BY <2>1, <2>5, <3>1, <3>2, <4>1 DEF Priced
    <3>3. CASE Kind[d] # "count"
      <4>1. EntryValue(r) = IF Kind[d] = "in" THEN ValueOfMovements(r) ELSE 0 - ValueOfMovements(r)
        BY <3>1, <3>3 DEF EntryValue, IsCount
      <4>2. OneSigned(d, movedAt[r])
        BY <2>1, <3>1 DEF Priced
      <4>3. postedAt[d] \in Int /\ mirroredAt[d] \in Int /\ movedAt[r] \in Int
        BY <1>1, <3>1 DEF DocTypes
      <4>4. d \notin keys => postedAt[d] = 0 /\ mirroredAt[d] = 0
        BY <1>1, <3>1, <3>3 DEF Unpriced
      <4>5. EntryValue(r) # 0 => d \notin keys
        BY <2>2, <2>5
      <4>6. CASE EntryValue(r) = 0
        BY <3>1, <3>3, <4>1, <4>2, <4>3, <4>6 DEF ValueOfMovements, Size
      <4>7. CASE EntryValue(r) # 0
        <5>1. ValueOfMovements(r) = Size(movedAt[r])
          BY <4>3, <4>4, <4>5, <4>7 DEF ValueOfMovements, Size
        <5> QED BY <3>1, <3>3, <4>1, <4>2, <4>3, <5>1 DEF OneSigned, Size
      <4> QED BY <4>6, <4>7
    <3> QED BY <3>2, <3>3
  <2>6. \A k : Does(r, k)' <=> Does(r, k)
    BY <2>1 DEF Does
  <2>7. Doc(r)' = Doc(r) /\ keys' = keys /\ quantity' = quantity
    BY <1>2, <2>1 DEF Doc, Rows, stock, books
  <2>8. Does(r, "post") => Priced(r)'
    BY <1>1, <2>1, <2>2, <2>3, <2>5, <2>7 DEF Written, Priced, OneSigned
  <2>9. Written(r)'
    BY <1>1, <2>1, <2>2, <2>3, <2>4, <2>6, <2>7, <2>8 DEF Written, Reads
  <2>10. Undoes(r)'
    BY <1>1, <1>2, <2>1 DEF Undoes, Does, Doc, Rows, stock, books, Reads, Zero
  <2> QED BY <2>9, <2>10
<1>7. CASE Fail(r)
  <2>1. stage'[r] = "idle" /\ op'[r] = NoOp /\ value'[r] = 0
    BY <1>1, <1>7 DEF Fail, End, DocTypes
  <2> QED
    BY <2>1 DEF Written, Undoes, Does
<1> QED
  BY <1>3, <1>4, <1>5, <1>6, <1>7 DEF Prepares

-----------------------------------------------------------------------------
(* The commit of a document *)

\* What is known of a request that commits, and what it writes.
LEMMA CommitFacts ==
    ASSUME DocInv, NEW r \in Slots, CommitDoc(r)
    PROVE  /\ op[r] \in Ops /\ Doc(r) \in Docs /\ Does(r, op[r].kind)
           /\ op[r].kind \in {"post", "void"}
           /\ Kind[Doc(r)] = "count" => op[r].kind = "post"
           /\ Net(r) \in [Items -> Int] /\ Touched(r) \in SUBSET Items
           /\ \A c \in Items \ Touched(r) : Net(r)[c] = 0
           /\ quantity' = Plus(quantity, Net(r))
           /\ Does(r, "post") => Priced(r)
           /\ stage[r] = "entered"
           /\ value[r] # 0 => held[<<"journal">>] = r /\ (Does(r, "post") => Doc(r) \notin keys)
           /\ \A c \in Touched(r) : held[<<"item", c>>] = r
<1>1. DocTypes /\ Written(r) /\ stage[r] = "entered"
  BY DEF DocInv, CommitDoc
<1>2. stage[r] # "idle" => op[r] # NoOp
  BY <1>1 DEF Written
<1> QED
  BY <1>1, <1>2, CommitTypes DEF Written, CommitDoc

\* A post with a value finds the document a draft that nobody has posted.
LEMMA PostFinds ==
    ASSUME DocInv, NEW r \in Slots, CommitDoc(r), Does(r, "post"), value[r] # 0,
           Doc(r) \notin worthless
    PROVE  /\ status[Doc(r)] = "draft" /\ Accepts(op[r])
           /\ posted[Doc(r)] = Zero /\ mirrored[Doc(r)] = Zero /\ posts[Doc(r)] = 0
<1>1. Doc(r) \in Docs /\ Doc(r) \notin keys /\ DocOK(Doc(r))
  BY CommitFacts DEF DocInv
<1>2. status[Doc(r)] = "draft"
  BY <1>1 DEF DocOK
<1> QED
  BY <1>1, <1>2 DEF DocOK, Accepts, StatusFor, Does, Doc

\* A void finds the document posted, and undoes all it has moved.
LEMMA VoidFinds ==
    ASSUME DocInv, NEW r \in Slots, CommitDoc(r), Does(r, "void"), Doc(r) \notin worthless
    PROVE  /\ status[Doc(r)] = "posted" /\ Accepts(op[r])
           /\ mirrored[Doc(r)] = Zero
           /\ \A c \in Items : Net(r)[c] = 0 - posted[Doc(r)][c]
<1>1. DocTypes /\ Undoes(r) /\ stage[r] = "entered" /\ Doc(r) \in Docs /\ DocOK(Doc(r))
  BY CommitFacts DEF DocInv, CommitDoc
<1>2. status[Doc(r)] # "draft" /\ seen[r] = posted[Doc(r)] /\ mirrored[Doc(r)] = Zero
  BY <1>1 DEF Undoes, Reads
<1>3. posted[Doc(r)] # Zero /\ posted[Doc(r)] \in [Items -> Int]
  <2>1. op[r].kind = "void"
    BY DEF Does
  <2>2. Kind[Doc(r)] # "count"
    BY <2>1, CommitFacts
  <2>3. posted[Doc(r)] = Carried(Doc(r)) /\ \E c \in Items : Carried(Doc(r))[c] # 0
    BY <1>1, <1>2, <2>2, CarriedSome DEF DocOK
  <2> QED BY <1>1, <2>3 DEF DocTypes, Zero
<1>4. status[Doc(r)] # "voided"
  <2> SUFFICES ASSUME status[Doc(r)] = "voided" PROVE FALSE
    OBVIOUS
  <2>1. Plus(posted[Doc(r)], Zero) = Zero
    BY <1>1, <1>2 DEF DocOK
  <2>2. ASSUME NEW c \in Items PROVE posted[Doc(r)][c] = 0
    <3>1. Plus(posted[Doc(r)], Zero)[c] = posted[Doc(r)][c] + 0
      BY DEF Plus, Zero
    <3>2. Zero[c] = 0
      BY DEF Zero
    <3> QED BY <1>3, <2>1, <3>1, <3>2
  <2> QED BY <1>3, <2>2 DEF Zero
<1>5. status[Doc(r)] = "posted"
  BY <1>1, <1>2, <1>4 DEF DocTypes
<1> QED
  BY <1>1, <1>2, <1>5, VoidUndoes DEF Accepts, StatusFor, Does, Doc

LEMMA CommitDocs ==
    ASSUME DocInv, NEW r \in Slots, CommitDoc(r), NEW d \in Docs
    PROVE  DocOK(d)'
<1> DEFINE e == Doc(r)
<1>1. DocTypes /\ DocOK(d) /\ e \in Docs /\ op[r].kind \in {"post", "void"} /\ Does(r, op[r].kind)
  BY CommitFacts DEF DocInv
<1>2. Net(r) \in [Items -> Int]
  BY CommitFacts
<1>3. Carried(d)' = Carried(d) /\ Zero' = Zero
  BY DEF Carried, Zero, MapThenSumSet, MapThenFoldSet
<1>4. SUFFICES ASSUME d \notin worthless' PROVE DocOK(d)'
  BY DEF DocOK
<1>5. d \notin worthless
  BY <1>4 DEF CommitDoc
<1>6. CASE d # e
  <2>1. /\ status'[d] = status[d] /\ posted'[d] = posted[d] /\ mirrored'[d] = mirrored[d]
        /\ posts'[d] = posts[d] /\ (d \in keys' <=> d \in keys)
    BY <1>1, <1>6 DEF CommitDoc, DocTypes
  <2> QED
    BY <1>1, <1>3, <1>5, <2>1 DEF DocOK, Plus
<1>7. CASE d = e /\ Does(r, "post")
  <2>1. value[r] # 0
    BY <1>4, <1>7 DEF CommitDoc, Does
  <2>2. /\ status[d] = "draft" /\ Accepts(op[r])
        /\ posted[d] = Zero /\ mirrored[d] = Zero /\ posts[d] = 0
    BY <1>5, <1>7, <2>1, PostFinds
  <2>3. /\ status'[d] = "posted" /\ posted'[d] = Plus(Zero, Net(r)) /\ mirrored'[d] = Zero
        /\ posts'[d] = 1 /\ d \in keys'
    BY <1>1, <1>7, <2>1, <2>2 DEF CommitDoc, DocTypes, Does, StatusAfter
  <2>4. Plus(Zero, Net(r)) = Net(r)
    BY <1>2 DEF Plus, Zero
  <2>5. Kind[d] # "count" => Net(r) = Carried(d)
    BY <1>1, <1>7, VoucherCarries
  <2> QED
    BY <1>3, <2>2, <2>3, <2>4, <2>5 DEF DocOK
<1>8. CASE d = e /\ Does(r, "void")
  <2>1. /\ status[d] = "posted" /\ Accepts(op[r]) /\ mirrored[d] = Zero
        /\ \A c \in Items : Net(r)[c] = 0 - posted[d][c]
    BY <1>5, <1>8, VoidFinds
  <2>2. /\ status'[d] = "voided" /\ posted' = posted /\ mirrored'[d] = Plus(Zero, Net(r))
        /\ posts' = posts /\ keys' = keys
    BY <1>1, <1>8, <2>1 DEF CommitDoc, DocTypes, Does, StatusAfter
  <2>3. posted[d] \in [Items -> Int]
    BY <1>1 DEF DocTypes
  <2>4. Plus(posted[d], Plus(Zero, Net(r))) = Zero
    BY <1>2, <2>1, <2>3 DEF Plus, Zero
  <2>5. Plus(posted[d], mirrored[d])' = Plus(posted[d], Plus(Zero, Net(r)))
    BY <2>2 DEF Plus
  <2> QED
    BY <1>1, <1>3, <1>5, <2>1, <2>2, <2>4, <2>5 DEF DocOK
<1> QED
  BY <1>1, <1>6, <1>7, <1>8

LEMMA CommitOthers ==
    ASSUME DocInv, NEW r \in Slots, CommitDoc(r), NEW u \in Slots, u # r
    PROVE  Written(u)' /\ Undoes(u)'
<1>1. DocTypes /\ Written(u) /\ Undoes(u) /\ \A d \in Docs : DocOK(d)
  BY DEF DocInv
<1>2. /\ stage'[u] = stage[u] /\ op'[u] = op[u] /\ seen'[u] = seen[u] /\ value'[u] = value[u]
      /\ \A x \in Locks : held[x] = u => held'[x] = u
      /\ seenAt'[u] = seenAt[u] /\ movedAt'[u] = movedAt[u] /\ repricing'[u] = repricing[u]
      /\ Touched(u)' = Touched(u) /\ VarianceValue(u)' = VarianceValue(u)
  BY <1>1, OthersStay DEF DocStep
<1>3. \A k : Does(u, k)' <=> Does(u, k)
  BY <1>2 DEF Does
<1>4. Doc(u)' = Doc(u) /\ <<"journal">> \in Locks /\ \A c \in Items : <<"item", c>> \in Locks
  BY <1>2 DEF Doc, Locks
<1>5. stage[u] \in {"moved", "entered"} => \A c \in Touched(u) : c \in Items
  BY <1>1, NetOfRequest DEF Written
<1>6. value[u] # 0 /\ Does(u, "post") => Doc(u) \notin keys'
  <2> SUFFICES ASSUME value[u] # 0, Does(u, "post") PROVE Doc(u) \notin keys'
    OBVIOUS
  <2>1. held[<<"journal">>] = u /\ Doc(u) \notin keys
    BY <1>1 DEF Written
  <2>2. value[r] = 0
    BY <2>1, CommitFacts
  <2> QED
    BY <2>1, <2>2 DEF CommitDoc
<1>7. Does(u, "post") /\ stage[u] \in Reads => \A c \in Items \ outdated'[u] : seen[u][c] = quantity'[c]
  <2> SUFFICES ASSUME Does(u, "post"), stage[u] \in Reads, NEW c \in Items \ outdated'[u]
               PROVE  seen[u][c] = quantity'[c]
    OBVIOUS
  <2>1. outdated'[u] = outdated[u] \cup Touched(r)
    BY DEF CommitDoc, Reads
  <2>2. seen[u][c] = quantity[c]
    BY <1>1, <2>1 DEF Written
  <2>3. c \notin Touched(r) /\ Net(r)[c] = 0
    BY <2>1, CommitFacts
  <2>4. quantity'[c] = quantity[c] + Net(r)[c] /\ quantity[c] \in Int
    BY <1>1, CommitFacts DEF Plus, DocTypes
  <2> QED BY <2>2, <2>3, <2>4
<1>11. Priced(u)' <=> Priced(u)
  BY <1>2, <1>4 DEF Priced, OneSigned
<1>8. Written(u)'
  BY <1>1, <1>2, <1>3, <1>4, <1>5, <1>6, <1>7, <1>11 DEF Written
<1>9. ASSUME Does(u, "void") PROVE Undoes(u)'
  <2> DEFINE d == Doc(u)
             e == Doc(r)
  <2>1. d \in Docs /\ status[d] # "draft" /\ e \in Docs /\ Kind[d] # "count"
    <3>1. op[u] \in Ops
      BY <1>1, <1>9 DEF Does, DocTypes
    <3>2. d \in Docs /\ Kind[d] # "count"
      BY <1>9, <3>1 DEF Ops, Doc, Does
    <3> QED BY <1>1, <1>9, <3>2, CommitFacts DEF Undoes
  <2>2. status'[d] # "draft"
    BY <1>1, <2>1 DEF CommitDoc, DocTypes, StatusAfter
  <2>8. d \notin keys' => /\ stage[u] \in Reads => seenAt[u] = 0
                          /\ stage[u] \in {"moved", "entered"} => movedAt[u] = 0
    <3>1. d \notin keys' => d \notin keys
      BY DEF CommitDoc
    <3> QED BY <1>1, <1>9, <3>1 DEF Undoes
  <2>3. SUFFICES ASSUME d \notin worthless'
                 PROVE  /\ stage[u] \in Reads => seen[u] = posted'[d]
                        /\ stage[u] \in {"moved", "entered"} => mirrored'[d] = Zero
    BY <1>2, <1>3, <1>4, <2>2, <2>8 DEF Undoes, Zero
  <2>4. d \notin worthless
    BY <2>3 DEF CommitDoc
  <2>5. d \in keys /\ posted[d] # Zero
    <3>1. d \in keys /\ posted[d] = Carried(d)
      BY <1>1, <2>1, <2>4 DEF DocOK
    <3> QED BY <2>1, <3>1, CarriedSome DEF Zero
  <2>6. posted'[d] = posted[d]
    <3>1. CASE e # d \/ ~ Does(r, "post")
      BY <1>1, <2>1, <3>1, CommitFacts DEF CommitDoc, DocTypes, Does
    <3>2. CASE e = d /\ Does(r, "post")
      <4>1. value[r] = 0
        BY <2>5, <3>2, CommitFacts
      <4> QED
        BY <2>3, <3>2, <4>1 DEF CommitDoc, Does
    <3> QED BY <3>1, <3>2
  <2>7. ASSUME stage[u] \in {"moved", "entered"} PROVE mirrored'[d] = Zero
    <3>1. mirrored[d] = Zero /\ seen[u] = posted[d]
      BY <1>1, <1>9, <2>4, <2>7 DEF Undoes, Reads
    <3>2. CASE e # d \/ ~ Does(r, "void")
      <4>1. mirrored'[d] = mirrored[d]
        <5>1. mirrored \in [Docs -> [Items -> Int]] /\ Does(r, op[r].kind)
              /\ mirrored' = IF op[r].kind = "void"
                             THEN [mirrored EXCEPT ![e] = Plus(@, Net(r))] ELSE mirrored
          BY <1>1, CommitFacts DEF CommitDoc, DocTypes
        <5> HIDE DEF d, e
        <5> QED BY <2>1, <3>2, <5>1 DEF Does
      <4> QED BY <3>1, <4>1
    <3>3. CASE e = d /\ Does(r, "void")
      <4>1. posted[d] \in [Items -> Int]
        BY <1>1, <2>1 DEF DocTypes
      <4>2. PICK c \in Items : posted[d][c] # 0
        BY <2>5, <4>1 DEF Zero
      <4>3. c \in Touched(u)
        BY <1>1, <1>9, <3>1, <4>2, VoidUndoes
      <4>4. c \in Touched(r)
        <5>1. Undoes(r) /\ stage[r] = "entered"
          BY DEF DocInv, CommitDoc
        <5>2. seen[r] = posted[d]
          BY <2>4, <3>3, <5>1 DEF Undoes, Reads
        <5> QED BY <1>1, <3>3, <4>2, <5>2, VoidUndoes
      <4>5. held[<<"item", c>>] = u /\ held[<<"item", c>>] = r
        BY <1>1, <2>7, <4>3, <4>4, CommitFacts DEF Written
      <4> QED BY <4>5
    <3> QED BY <3>2, <3>3
  <2> QED
    BY <1>1, <1>9, <2>4, <2>6, <2>7 DEF Undoes
<1>10. ~ Does(u, "void") => Undoes(u)'
  BY <1>3 DEF Undoes
<1> QED BY <1>8, <1>9, <1>10

LEMMA CommitSelf ==
    ASSUME DocInv, NEW r \in Slots, CommitDoc(r)
    PROVE  Written(r)' /\ Undoes(r)'
<1>1. stage'[r] = "idle" /\ op'[r] = NoOp /\ value'[r] = 0
  BY DEF DocInv, DocTypes, CommitDoc, End
<1> QED
  BY <1>1 DEF Written, Undoes, Does

LEMMA CommitUnpriced ==
    ASSUME DocInv, NEW r \in Slots, CommitDoc(r), NEW d \in Docs
    PROVE  Unpriced(d)'
<1>1. DocTypes /\ Unpriced(d) /\ Undoes(r)
  BY DEF DocInv
<1>2. /\ Doc(r) \in Docs /\ op[r].kind \in {"post", "void"} /\ Does(r, op[r].kind)
      /\ Does(r, "post") => Priced(r)
      /\ stage[r] = "entered"
  BY CommitFacts
<1>3. SUFFICES ASSUME Kind[d] # "count", d \notin keys'
               PROVE  postedAt'[d] = 0 /\ mirroredAt'[d] = 0
  BY DEF Unpriced
<1>4. d \notin keys /\ postedAt[d] = 0 /\ mirroredAt[d] = 0
  BY <1>1, <1>3 DEF CommitDoc, Unpriced
<1>5. CASE d # Doc(r)
  BY <1>1, <1>2, <1>4, <1>5 DEF CommitDoc, DocTypes
<1>6. CASE d = Doc(r)
  <2>1. movedAt[r] = 0
    <3>1. CASE Does(r, "void")
      BY <1>1, <1>2, <1>4, <1>6, <3>1 DEF Undoes
    <3>2. CASE Does(r, "post")
      <4>1. value[r] = 0
        BY <1>3, <1>6, <3>2 DEF CommitDoc, Does
      <4>2. ~ repricing[r]
        BY <1>2, <1>3, <1>6, <3>2 DEF Priced
      <4> QED BY <1>2, <3>2, <4>1, <4>2 DEF Priced
    <3> QED BY <1>2, <3>1, <3>2
  <2> QED BY <1>1, <1>2, <1>4, <1>6, <2>1 DEF CommitDoc, DocTypes
<1> QED BY <1>5, <1>6

LEMMA CommitAccount ==
    ASSUME DocInv, NEW r \in Slots, CommitDoc(r)
    PROVE  AccountTellsStock'
<1>1. DocTypes /\ AccountTellsStock /\ Undoes(r) /\ stage[r] = "entered"
  BY DEF DocInv, CommitDoc
<1>2. /\ Doc(r) \in Docs /\ op[r].kind \in {"post", "void"} /\ Does(r, op[r].kind)
      /\ Does(r, "post") => Priced(r)
  BY CommitFacts
<1>3. SUFFICES ASSUME \A d \in Docs : status'[d] # "voided", repriced' = {}
               PROVE  account' = worth'
  BY DEF AccountTellsStock
<1>4. ~ Does(r, "void")
  <2> SUFFICES ASSUME Does(r, "void") PROVE FALSE
    OBVIOUS
  <2>1. status[Doc(r)] # "draft"
    BY <1>1 DEF Undoes
  <2>2. status'[Doc(r)] = "voided"
    BY <1>1, <1>2, <2>1 DEF CommitDoc, DocTypes, Does, Accepts, StatusFor, StatusAfter, Doc
  <2> QED BY <1>2, <1>3, <2>2
<1>5. Does(r, "post") /\ op[r].kind = "post"
  BY <1>2, <1>4 DEF Does
<1>6. ~ repricing[r] /\ repriced = {}
  BY <1>3 DEF CommitDoc
<1>7. value[r] = movedAt[r]
  BY <1>1, <1>2, <1>5, <1>6 DEF Priced
<1>8. \A d \in Docs : status[d] # "voided"
  BY <1>1, <1>2, <1>3, <1>5 DEF CommitDoc, DocTypes, Accepts, StatusFor, Doc
<1>9. account = worth
  BY <1>1, <1>6, <1>8 DEF AccountTellsStock
<1>10. account' = account + value[r] /\ worth' = worth + movedAt[r]
  BY <1>5 DEF CommitDoc, AccountChange
<1> QED BY <1>7, <1>9, <1>10

LEMMA DocInvNext == DocInv /\ [DocNext]_docVars => DocInv'
<1> SUFFICES ASSUME DocInv, [DocNext]_docVars PROVE DocInv'
  OBVIOUS
<1>1. ASSUME UNCHANGED docVars PROVE DocInv'
  <2>1. UNCHANGED Rows /\ UNCHANGED <<held, stage, request, started, outdated>>
    BY <1>1 DEF docVars, Rows, docHistory
  <2>2. /\ UNCHANGED <<op, seen, average, seenAt, movedAt, repricing, value>>
        /\ \A r : Touched(r)' = Touched(r) /\ VarianceValue(r)' = VarianceValue(r)
    BY <2>1, MovesStay DEF request
  <2>3. (\A d \in Docs : Carried(d)' = Carried(d)) /\ Zero' = Zero
    BY DEF Carried, Zero, MapThenSumSet, MapThenFoldSet
  <2>4. DocTypes'
    BY <2>1, <2>2 DEF DocInv, DocTypes, Rows, stock, books
  <2>5. ASSUME NEW r \in Slots PROVE Written(r)' /\ Undoes(r)'
    <3>1. Written(r) /\ Undoes(r)
      BY DEF DocInv
    <3> QED
      BY <2>1, <2>2, <2>3, <3>1 DEF Written, Priced, OneSigned, Undoes, Does, Doc, Rows, stock, books
  <2>6. ASSUME NEW d \in Docs PROVE DocOK(d)' /\ Unpriced(d)'
    <3>1. DocOK(d) /\ Unpriced(d)
      BY DEF DocInv
    <3>2. DocOK(d)'
      BY <2>1, <2>3, <3>1 DEF DocOK, Plus, Rows, stock, books
    <3>3. Unpriced(d)'
      BY <2>1, <3>1 DEF Unpriced, Rows, stock, books
    <3> QED BY <3>2, <3>3
  <2>7. AccountTellsStock'
    BY <2>1 DEF DocInv, AccountTellsStock, Rows, stock, books
  <2> QED BY <2>4, <2>5, <2>6, <2>7 DEF DocInv
<1>2. ASSUME NEW r \in Slots, DocStep(r) PROVE DocInv'
  <2>1. DocTypes'
    BY <1>2, StepTypes DEF DocInv, Written
  <2>2. CASE CommitDoc(r)
    <3>1. \A u \in Slots : Written(u)' /\ Undoes(u)'
      BY <2>2, CommitSelf, CommitOthers
    <3> QED
      BY <2>1, <2>2, <3>1, CommitDocs, CommitUnpriced, CommitAccount DEF DocInv
  <2>3. CASE Prepares(r) \/ Fail(r)
    <3>1. \A u \in Slots : Written(u)' /\ Undoes(u)'
      BY <2>3, QuietSelf, QuietOthers
    <3> QED
      BY <2>1, <2>3, <3>1, QuietRows DEF DocInv
  <2> QED BY <1>2, <2>2, <2>3 DEF DocStep
<1> QED
  BY <1>1, <1>2, NextSteps DEF Finished

LEMMA DocInvAlways == DocSpec => []DocInv
BY DocInvInit, DocInvNext, PTL DEF DocSpec

\* However often and however concurrently a document is posted and voided, its status tells
\* what it has done to the stock.
THEOREM StatusTellsGoods == DocSpec => []StatusTellsStock
<1>1. ASSUME DocInv PROVE StatusTellsStock
  <2> SUFFICES ASSUME NEW d \in Docs \ worthless
               PROVE  /\ status[d] = "draft" => posted[d] = Zero /\ keys \cap {d} = {}
                      /\ status[d] = "posted" =>
                            /\ Kind[d] # "count" => posted[d] = Carried(d)
                            /\ mirrored[d] = Zero /\ posts[d] = 1
                      /\ status[d] = "voided" => Plus(posted[d], mirrored[d]) = Zero
    BY <1>1 DEF StatusTellsStock, DocInv
  <2>1. DocOK(d)
    BY <1>1 DEF DocInv
  <2> QED BY <2>1 DEF DocOK
<1> QED BY <1>1, DocInvAlways, PTL

\* The inventory account moves with the value of the stock, for any costs typed, read and
\* shown, as long as nothing is voided and no count has repriced a shortage.
THEOREM AccountTellsGoods == DocSpec => []AccountTellsStock
<1>1. DocInv => AccountTellsStock
  BY DEF DocInv
<1> QED BY <1>1, DocInvAlways, PTL

\* A count that nobody overtook on an item it names on one line leaves there what it counted,
\* although it works from a balance it read without a lock.
THEOREM CountedIsLeft == DocSpec => CountLeavesCounted
<1>1. ASSUME DocInv, NEW r \in Slots, IsCount(r), CommitDoc(r), NEW c \in Items \ outdated[r],
             Cardinality(LinesOf(Doc(r), c)) = 1
      PROVE  quantity'[c] = Counted(Doc(r), c)
  <2> DEFINE d == Doc(r)
             s == seen[r]
             m == MovesOf(op[r], s)
             v(j) == Variance(Lines[d][j], s[Lines[d][j].item])
             D == {j \in DOMAIN Lines[d] : v(j) # 0}
  <2>1. DocTypes /\ Written(r) /\ stage[r] = "entered" /\ Does(r, "post") /\ Kind[d] = "count"
    BY <1>1 DEF DocInv, CommitDoc, IsCount, Does
  <2>2. op[r] \in Ops /\ s \in [Items -> Int] /\ d \in Docs /\ d = op[r].doc
    BY <2>1 DEF DocTypes, Does, Ops, Doc
  <2>3. quantity[c] = s[c] /\ s[c] \in Int
    BY <1>1, <2>1, <2>2 DEF Written, Reads
  <2>4. PICK i : LinesOf(d, c) = {i}
    <3>1. IsFiniteSet(LinesOf(d, c))
      BY <2>2, LinesAre, FS_Subset DEF LinesOf
    <3> QED BY <1>1, <3>1, FS_Singleton
  <2>5. i \in DOMAIN Lines[d] /\ Lines[d][i].item = c /\ Lines[d][i].qty \in Nat
        /\ \A j \in DOMAIN Lines[d] \ {i} : Lines[d][j].item # c
    BY <2>2, <2>4, LinesAre DEF LinesOf
  <2>6. Counted(d, c) = Lines[d][i].qty
    <3> DEFINE f == [j \in LinesOf(d, c) |-> Lines[d][j].qty]
               S == LinesOf(d, c)
    <3>1. Counted(d, c) = SumOf(f, S)
      BY CountedSum
    <3>2. i \in S /\ S \ {i} = {} /\ f[i] = Lines[d][i].qty
      <4>1. i \in LinesOf(d, c)
        BY <2>4
      <4> QED BY <2>4, <4>1
    <3> HIDE DEF f, S
    <3>3. IsFiniteSet(S) /\ \A j \in S : f[j] \in Int
      <4>1. S = {i}
        BY <3>2
      <4> QED BY <2>5, <3>2, <4>1, FS_Singleton
    <3>4. SumOf(f, S) = f[i] + SumOf(f, S \ {i})
      BY <3>2, <3>3, SumTakeOut
    <3>5. SumOf(f, S \ {i}) = 0
      BY <3>2, SumEmpty
    <3> QED BY <2>5, <3>1, <3>2, <3>4, <3>5
  <2>7. m = [j \in D |-> Move(Lines[d][j].item, v(j))]
    BY <2>1, <2>2 DEF MovesOf, Does
  <2>8. IsMoves(m) /\ Net(r) = NetOf(m)
    BY <2>2, MovesAre, MovesRead
  <2>9. v(i) = Lines[d][i].qty - s[c] /\ v(i) \in Int
    BY <2>3, <2>5 DEF Variance
  <2>10. DOMAIN m = D /\ \A j \in D : m[j].item = Lines[d][j].item /\ m[j].by = v(j)
    BY <2>7 DEF Move
  <2>11. NetOf(m)[c] = v(i)
    <3> HIDE DEF m, v
    <3>1. \A j \in D : j \in DOMAIN Lines[d]
      OBVIOUS
    <3>2. CASE v(i) # 0
      <4>1. i \in DOMAIN m /\ m[i].item = c /\ m[i].by = v(i) /\ \A j \in DOMAIN m \ {i} : m[j].item # c
        BY <2>5, <2>10, <3>1, <3>2
      <4>2. NetOf(m)[c] = m[i].by
        BY <2>8, <4>1, NetOne
      <4> QED BY <4>1, <4>2
    <3>3. CASE v(i) = 0
      <4>1. \A j \in DOMAIN m : m[j].item # c
        BY <2>5, <2>10, <3>1, <3>3
      <4> QED BY <2>8, <3>3, <4>1, NetOther
    <3> QED BY <3>2, <3>3
  <2>12. quantity'[c] = quantity[c] + Net(r)[c]
    BY <1>1, CommitFacts DEF Plus
  <2> HIDE DEF m, v, s
  <2> QED BY <2>3, <2>5, <2>6, <2>8, <2>9, <2>11, <2>12
<1>2. DocInv => [\A r \in Slots : IsCount(r) /\ CommitDoc(r) =>
                  \A c \in Items \ outdated[r] :
                      Cardinality(LinesOf(Doc(r), c)) = 1 => quantity'[c] = Counted(Doc(r), c)]_docVars
  BY <1>1
<1> QED
  BY <1>2, DocInvAlways, PTL DEF CountLeavesCounted
=============================================================================
