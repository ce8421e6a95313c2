----------------------------- MODULE AccountTree -----------------------------
(***************************************************************************)
(* The chart of accounts of a tenant: createAccount, updateAccount and      *)
(* deleteAccount of accounting.service.ts, next to journal entries that     *)
(* post to accounts.                                                        *)
(*                                                                         *)
(* Every account row carries its parent, its depth and a materialised path  *)
(* (an ltree: the ids from the root to itself).  A move rewrites the path   *)
(* and the depth of the whole branch below the account.  A request is one   *)
(* READ COMMITTED transaction and reads without locking; an update writes   *)
(* back every field of the row it has read, changed or not.                 *)
(*                                                                         *)
(* nature stands for code, type and normal balance, which are frozen once   *)
(* the account has journal lines.  Names, flags and opening balances, which *)
(* nothing else depends on, are left out.                                   *)
(***************************************************************************)
EXTENDS Integers, Sequences, FiniteSets, Functions, SequencesExt

CONSTANTS
    Requests,      \* request slots
    MaxRequests,   \* how many requests are made in all (a bound)
    Accounts,
    Natures,
    FirstChart,    \* the rows there are at first
    Jobs,          \* what requests ask for
    None,
    Same           \* a field a patch does not name

Row == [parent : Accounts \cup {None}, path : Seq(Accounts), level : Int,
        nature : Natures, live : BOOLEAN]

CreateJob == [op : {"create"}, account : Accounts, parent : Accounts \cup {None}, nature : Natures]
UpdateJob == [op : {"update"}, account : Accounts, parent : Accounts \cup {None, Same},
              nature : Natures \cup {Same}]
DeleteJob == [op : {"delete"}, account : Accounts]

ASSUME JobsAssumption == Jobs \subseteq CreateJob \cup UpdateJob \cup DeleteJob
ASSUME ChartAssumption ==
    /\ FirstChart \in [Accounts -> Row \cup {None}]
    /\ \A a \in Accounts : FirstChart[a] # None =>
          LET row == FirstChart[a]
              above == IF row.parent = None THEN <<>> ELSE FirstChart[row.parent].path
          IN  /\ row.path = Append(above, a) /\ row.level = Len(above) /\ row.live
              /\ row.parent # None => FirstChart[row.parent] # None
ASSUME NamesAssumption ==
    /\ MaxRequests \in Nat
    /\ None \notin Requests \cup Accounts \cup Row /\ Same \notin Natures \cup Accounts \cup {None}

VARIABLES
    chart,      \* the committed rows
    posted,     \* accounts that have journal lines
    lock,       \* the request that holds a row
    pc, job,
    card,       \* the row a request has read
    target,     \* the row of the new parent it has read
    branch,     \* the rows its branch update has found
    draft,      \* the rows it has written and not committed
    started,    \* requests made so far
    overtaken,  \* history: requests that others have committed past
    torn        \* history: an overtaken request has committed

request == <<job, card, target, branch, draft>>
history == <<overtaken, torn>>
vars == <<chart, posted, lock, pc, request, started, history>>

-----------------------------------------------------------------------------

NoDraft == [a \in Accounts |-> None]
Exists(a) == chart[a] # None
Live(a) == Exists(a) /\ chart[a].live

Account(r) == job[r].account

ChangesIdentityNever(r) == FALSE   \* Fault: nothing freezes a posted account.

\* Another code, type or side than the one read.
ChangesIdentity(r) == job[r].nature # Same /\ job[r].nature # card[r].nature

\* The patch names another parent than the one read.
Reparents(r) ==
    /\ job[r].op = "update"
    /\ job[r].parent # Same /\ job[r].parent # card[r].parent

\* Fault: only the account itself is refused as its parent, as for cost centres.
CyclicAtOnce(r, row) == job[r].parent = Account(r)

\* An account cannot be moved under one of its own branches.
Cyclic(r, row) == job[r].parent = Account(r) \/ Account(r) \in Range(row.path)

\* Where the account goes: below the parent as it was read.
NewPath(r) == Append(IF target[r] = None THEN <<>> ELSE target[r].path, Account(r))
NewLevel(r) == IF target[r] = None THEN 0 ELSE target[r].level + 1

\* path <@ ancestor
Within(a, path) == Exists(a) /\ IsPrefix(path, chart[a].path)

DepthShift(r) == NewLevel(r) - card[r].level

\* A descendant keeps its relative position and is re-rooted.
Rerooted(r, row) ==
    [row EXCEPT !.path = NewPath(r) \o SubSeq(@, Len(card[r].path) + 1, Len(@)),
                !.level = @ + DepthShift(r)]

\* The card a request writes: a row that changed since it was read gets back what was
\* read, but for deleted_at.
Card(r) ==
    LET a == Account(r) IN
    CASE job[r].op = "create" ->
            [parent |-> job[r].parent, path |-> NewPath(r), level |-> NewLevel(r),
             nature |-> job[r].nature, live |-> TRUE]
      [] job[r].op = "delete" -> [chart[a] EXCEPT !.live = FALSE]
      [] Reparents(r) ->
            [parent |-> job[r].parent, path |-> NewPath(r), level |-> NewLevel(r),
             nature |-> IF job[r].nature = Same THEN card[r].nature ELSE job[r].nature,
             live |-> chart[a].live]
      [] OTHER ->
            [card[r] EXCEPT !.nature = IF job[r].nature = Same THEN @ ELSE job[r].nature,
                            !.live = chart[a].live]

-----------------------------------------------------------------------------

Init ==
    /\ chart = FirstChart
    /\ posted = {}
    /\ lock = [a \in Accounts |-> None]
    /\ pc = [r \in Requests |-> "idle"]
    /\ job = [r \in Requests |-> None]
    /\ card = [r \in Requests |-> None]
    /\ target = [r \in Requests |-> None]
    /\ branch = [r \in Requests |-> {}]
    /\ draft = [r \in Requests |-> NoDraft]
    /\ started = 0
    /\ overtaken = {}
    /\ torn = FALSE

Begin(r, j) ==
    /\ pc[r] = "idle" /\ started < MaxRequests
    /\ job' = [job EXCEPT ![r] = j]
    /\ started' = started + 1

\* createAccount reads the parent; the id of the account is new.
BeginCreate(r, j) ==
    /\ j.op = "create"
    /\ Begin(r, j)
    /\ ~ Exists(j.account) /\ \A u \in Requests : pc[u] # "idle" => Account(u) # j.account
    /\ j.parent # None => Live(j.parent)
    /\ target' = [target EXCEPT ![r] = IF j.parent = None THEN None ELSE chart[j.parent]]
    /\ pc' = [pc EXCEPT ![r] = "ready"]
    /\ UNCHANGED <<chart, posted, lock, card, branch, draft, history>>

\* updateAccount and deleteAccount read the account.
Load(r, j) ==
    /\ j.op \in {"update", "delete"}
    /\ Begin(r, j)
    /\ Live(j.account)
    /\ card' = [card EXCEPT ![r] = chart[j.account]]
    /\ pc' = [pc EXCEPT ![r] = "read"]
    /\ UNCHANGED <<chart, posted, lock, target, branch, draft, history>>

\* ACCOUNT_POSTED: a posted account is not deleted, and its identity does not change.
CheckLines(r) ==
    /\ pc[r] = "read"
    /\ Account(r) \in posted => job[r].op = "update" /\ ~ ChangesIdentity(r)
    /\ pc' = [pc EXCEPT ![r] = IF job[r].op = "delete" \/ Reparents(r) THEN "checked" ELSE "ready"]
    /\ UNCHANGED <<chart, posted, lock, request, started, history>>

\* ACCOUNT_HAS_CHILDREN
CheckChildren(r) ==
    /\ pc[r] = "checked" /\ job[r].op = "delete"
    /\ \A a \in Accounts : Live(a) => chart[a].parent # Account(r)
    /\ pc' = [pc EXCEPT ![r] = "ready"]
    /\ UNCHANGED <<chart, posted, lock, request, started, history>>

\* The new parent of a move, and ACCOUNT_CYCLE.
ReadParent(r) ==
    /\ pc[r] = "checked" /\ Reparents(r)
    /\ LET p == job[r].parent IN
       /\ p # None => Live(p) /\ ~ Cyclic(r, chart[p])
       /\ target' = [target EXCEPT ![r] = IF p = None THEN None ELSE chart[p]]
    /\ pc' = [pc EXCEPT ![r] = "aimed"]
    /\ UNCHANGED <<chart, posted, lock, job, card, branch, draft, started, history>>

\* The branch update takes its snapshot of the rows below the path that was read ...
FindBranch(r) ==
    /\ pc[r] = "aimed"
    /\ branch' = [branch EXCEPT ![r] = {a \in Accounts \ {Account(r)} : Within(a, card[r].path)}]
    /\ pc' = [pc EXCEPT ![r] = "found"]
    /\ UNCHANGED <<chart, posted, lock, job, card, target, draft, started, history>>

\* ... waits for the rows others hold, and rewrites those that are still below it.
MoveBranch(r) ==
    LET rows == {a \in branch[r] : Within(a, card[r].path)} IN
    /\ pc[r] = "found"
    /\ \A a \in branch[r] : lock[a] = None
    /\ lock' = [a \in Accounts |-> IF a \in rows THEN r ELSE lock[a]]
    /\ draft' = [draft EXCEPT ![r] =
          [a \in Accounts |-> IF a \in rows THEN Rerooted(r, chart[a]) ELSE None]]
    /\ pc' = [pc EXCEPT ![r] = "ready"]
    /\ UNCHANGED <<chart, posted, job, card, target, branch, started, history>>

\* The insert of a new account, the update of a card, or its deleted_at.
WriteCard(r) ==
    /\ pc[r] = "ready"
    /\ lock[Account(r)] = None
    /\ lock' = [lock EXCEPT ![Account(r)] = r]
    /\ draft' = [draft EXCEPT ![r][Account(r)] = Card(r)]
    /\ pc' = [pc EXCEPT ![r] = "written"]
    /\ UNCHANGED <<chart, posted, job, card, target, branch, started, history>>

End(r) ==
    /\ lock' = [a \in Accounts |-> IF lock[a] = r THEN None ELSE lock[a]]
    /\ pc' = [pc EXCEPT ![r] = "idle"]
    /\ job' = [job EXCEPT ![r] = None]
    /\ card' = [card EXCEPT ![r] = None]
    /\ target' = [target EXCEPT ![r] = None]
    /\ branch' = [branch EXCEPT ![r] = {}]
    /\ draft' = [draft EXCEPT ![r] = NoDraft]
    /\ UNCHANGED started

Written(r) == {a \in Accounts : draft[r][a] # None}

\* Whether a row another request commits is one u works from: its account, the parent it
\* asks for, or a row in its branch before or after.
Concerns(u, r, a) ==
    \/ a = Account(u) \/ (job[u].op # "delete" /\ a = job[u].parent)
    \/ Exists(a) /\ Account(u) \in Range(chart[a].path)
    \/ Account(u) \in Range(draft[r][a].path)

Commit(r) ==
    /\ pc[r] = "written"
    /\ chart' = [a \in Accounts |-> IF a \in Written(r) THEN draft[r][a] ELSE chart[a]]
    /\ torn' = (torn \/ r \in overtaken)
    /\ overtaken' = (overtaken \ {r}) \cup
          {u \in Requests \ {r} : pc[u] # "idle" /\ \E a \in Written(r) : Concerns(u, r, a)}
    /\ End(r)
    /\ UNCHANGED posted

\* A refusal, an error, a crash or a deadlock: the transaction rolls back.
Fail(r) ==
    /\ pc[r] # "idle"
    /\ End(r)
    /\ overtaken' = overtaken \ {r}
    /\ UNCHANGED <<chart, posted, torn>>

\* postJournalInTx writes lines to any account whose row exists, deleted ones too.
PostLines(a) ==
    /\ Exists(a) /\ a \notin posted
    /\ posted' = posted \cup {a}
    /\ overtaken' = overtaken \cup {u \in Requests : pc[u] # "idle" /\ Account(u) = a}
    /\ UNCHANGED <<chart, lock, pc, request, started, torn>>

Finished ==
    /\ started = MaxRequests /\ \A r \in Requests : pc[r] = "idle"
    /\ UNCHANGED vars

Next ==
    \/ \E r \in Requests :
          \/ \E j \in Jobs : BeginCreate(r, j) \/ Load(r, j)
          \/ CheckLines(r) \/ CheckChildren(r) \/ ReadParent(r) \/ FindBranch(r)
          \/ MoveBranch(r) \/ WriteCard(r) \/ Commit(r) \/ Fail(r)
    \/ \E a \in Accounts : PostLines(a)
    \/ Finished

Spec == Init /\ [][Next]_vars

-----------------------------------------------------------------------------
(* Properties *)

TypeOK ==
    /\ chart \in [Accounts -> Row \cup {None}]
    /\ posted \subseteq Accounts
    /\ lock \in [Accounts -> Requests \cup {None}]
    /\ pc \in [Requests -> {"idle", "read", "checked", "aimed", "found", "ready", "written"}]
    /\ job \in [Requests -> Jobs \cup {None}]
    /\ card \in [Requests -> Row \cup {None}] /\ target \in [Requests -> Row \cup {None}]
    /\ branch \in [Requests -> SUBSET Accounts]
    /\ draft \in [Requests -> [Accounts -> Row \cup {None}]]
    /\ started \in 0..MaxRequests
    /\ overtaken \subseteq Requests /\ torn \in BOOLEAN

\* A path leads to its own account and is as long as the account is deep.
PathsTellDepth ==
    \A a \in Accounts : Exists(a) =>
        chart[a].path # <<>> /\ Last(chart[a].path) = a /\ chart[a].level = Len(chart[a].path) - 1

\* A live account hangs below a live parent, whose path is the way to it.
PathsTellParents ==
    \A a \in Accounts : Live(a) =>
        IF chart[a].parent = None THEN chart[a].path = <<a>>
        ELSE Live(chart[a].parent) /\ chart[a].path = Append(chart[chart[a].parent].path, a)

\* The types, and: "subtree queries and the depth column agree" (createAccount): path and
\* depth of every account agree however requests interleave, moves of branches through one another
\* included; and the paths are the tree of the parents, with no hole in it and no account
\* below itself, until a request commits that others have committed past.
ChartIsATree == TypeOK /\ PathsTellDepth /\ (torn \/ PathsTellParents)

\* Code, type and side "are frozen once journal lines exist" (updateAccount), although
\* every update writes them back as it read them: no commit changes them but that of a
\* request others have committed past.
PostedIdentityFrozen ==
    [][\A r \in Requests \ overtaken : Commit(r) =>
          \A a \in posted : chart'[a].nature = chart[a].nature]_vars
=============================================================================
