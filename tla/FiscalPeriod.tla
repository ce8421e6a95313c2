----------------------------- MODULE FiscalPeriod -----------------------------
(***************************************************************************)
(* The fiscal periods of one tenant and the journal that is posted into    *)
(* them: accounting.service.ts, the period card (create, update, delete,   *)
(* activate, close, reopen), the module locks, postJournal and             *)
(* reverseJournal.                                                          *)
(*                                                                          *)
(* Every operation is one READ COMMITTED transaction that first reads and   *)
(* checks, each read its own snapshot, and then writes.  None of the reads  *)
(* takes a row lock, so each read is a step of its own and the world may    *)
(* move between it and the write.  The writes of one transaction are one    *)
(* step: the rows it updates stay locked until it commits, so the commits   *)
(* of two writers of a row have an order.  What the database itself         *)
(* enforces when a write is applied is part of that step: the foreign keys  *)
(* and the unique index on the active period.                               *)
(***************************************************************************)
EXTENDS Integers, FiniteSets

CONSTANTS
    Calls,         \* the HTTP requests of a behaviour
    Periods,       \* identifiers of fiscal_periods rows
    Dates,         \* the days a period may begin and end on
    Tasks,         \* what a request may ask for
    FirstPeriods,  \* the rows there are at the beginning: [subset of Periods -> rows]
    Drafts,        \* periods that hold an imported draft entry
    Absent,        \* the period row that does not exist
    Unset,         \* no entry, no period named, a field left out of a patch
    MaxInFlight    \* bound: how many requests are served at the same time

Rows == [status : {"open", "closed"}, active : BOOLEAN, from : Dates, to : Dates]

Entries == [period : Periods, reverses : Calls \cup {Unset}]

Patches == [from : Dates \cup {Unset}, to : Dates \cup {Unset}, active : BOOLEAN \cup {Unset}]

(* A request: an operation, the period it names (Unset: by date, or a new   *)
(* one), the fields of the card, the entry to reverse.                      *)
JobType ==
    [op : {"create", "update", "delete", "activate", "close", "reopen",
           "post", "reverse", "lock", "unlock"},
     period : Periods \cup {Unset}, date : Dates \cup {Unset},
     patch : Patches, target : Calls \cup {Unset}]

ASSUME DatesAssumption == Dates \subseteq Int
ASSUME TasksAssumption ==
    /\ Tasks \subseteq JobType
    /\ \A j \in Tasks :
          /\ j.op = "create" => j.period = Unset /\ j.patch.from # Unset /\ j.patch.to # Unset
          /\ j.op \notin {"create", "post"} => j.period # Unset
          /\ j.op = "reverse" <=> j.target # Unset
ASSUME RowsAssumption ==
    /\ FirstPeriods \in [Periods -> Rows \cup {Absent}]
    /\ Absent \notin Rows
    /\ Unset \notin Periods /\ Unset \notin Calls
    /\ Unset \notin Dates /\ Unset \notin BOOLEAN /\ Unset \notin Entries
    /\ Drafts \subseteq {p \in Periods : FirstPeriods[p] # Absent}
    /\ MaxInFlight \in Nat

(* The rows a behaviour begins with are what the card allows: disjoint      *)
(* dates, and one active period at most, which is open.                     *)
ASSUME FirstRowsAssumption ==
    \A p, q \in Periods : FirstPeriods[p] # Absent /\ FirstPeriods[q] # Absent =>
        /\ FirstPeriods[p].active => FirstPeriods[p].status = "open"
        /\ p # q => /\ ~ (FirstPeriods[p].active /\ FirstPeriods[q].active)
                   /\ \/ FirstPeriods[p].to < FirstPeriods[q].from
                      \/ FirstPeriods[q].to < FirstPeriods[p].from

VARIABLES
    stage,    \* how far a request has come
    task,     \* what it was asked
    named,    \* the period its transaction works on
    row,      \* the period row its transaction read
    visible,  \* the rows the snapshot of its deactivateAll sees
    period,   \* table fiscal_periods
    locked,   \* table period_module_locks, module accounting
    entry,    \* table journal_entries: the entry each request posted
    outrun,   \* history: requests another has committed past since they read
    late      \* history: periods an overtaken request has written

periodHistory == <<outrun, late>>
periodVars == <<stage, task, named, row, visible, period, locked, entry, periodHistory>>

Stages == {"idle", "begun", "aimed", "read", "checked", "deactivated", "done", "refused"}
InFlight == {"begun", "aimed", "read", "checked", "deactivated"}
PeriodTypeOK ==
    /\ stage \in [Calls -> Stages]
    /\ task \in [Calls -> Tasks \cup {Unset}]
    /\ named \in [Calls -> Periods \cup {Unset}]
    /\ row \in [Calls -> Rows \cup {Absent}]
    /\ visible \in [Calls -> SUBSET Periods]
    /\ period \in [Periods -> Rows \cup {Absent}]
    /\ locked \in SUBSET Periods
    /\ entry \in [Calls -> Entries \cup {Unset}]
    /\ outrun \in SUBSET Calls
    /\ late \in SUBSET Periods

PeriodInit ==
    /\ stage = [r \in Calls |-> "idle"]
    /\ task = [r \in Calls |-> Unset]
    /\ named = [r \in Calls |-> Unset]
    /\ row = [r \in Calls |-> Absent]
    /\ visible = [r \in Calls |-> {}]
    /\ period = FirstPeriods
    /\ locked = {}
    /\ entry = [r \in Calls |-> Unset]
    /\ outrun = {}
    /\ late = {}

-----------------------------------------------------------------------------
(* What the transactions look at.                                           *)

Existing == {p \in Periods : period[p] # Absent}

Intersect(a, b) == a.from <= b.to /\ a.to >= b.from

Covers(p, date) == period[p].from <= date /\ period[p].to >= date

(* Fault: only a period inside the wanted dates counts as an overlap.       *)
OverlappingInside(dates, except) ==
    {p \in Existing \ {except} : dates.from <= period[p].from /\ period[p].to <= dates.to}

Overlapping(dates, except) ==
    {p \in Existing \ {except} : Intersect(period[p], dates)}

Posted == {r \in Calls : entry[r] # Unset}

EntriesOf(p) == {r \in Posted : entry[r].period = p}

(* Fault: the lookup of an earlier reversal finds none.                     *)
NeverReversed(t) == FALSE

Reversed(t) == \E r \in Posted : entry[r].reverses = t

(* Fault: the card is edited whatever the period's status.                  *)
NeedsOpenButUpdate == {"delete", "activate", "post", "reverse"}

NeedsOpen == {"update", "delete", "activate", "post", "reverse"}
MakesActive == {j \in Tasks : j.op = "activate" \/ (j.op \in {"create", "update"} /\ j.patch.active = TRUE)}

Given(value, default) == IF value = Unset THEN default ELSE value

(* The dates a create or an update asks for: absent fields of a patch keep  *)
(* what the transaction read.                                               *)
WantedDates(r) ==
    [from |-> Given(task[r].patch.from, row[r].from), to |-> Given(task[r].patch.to, row[r].to)]

Fields(r) ==
    [from |-> WantedDates(r).from, to |-> WantedDates(r).to,
     active |-> CASE task[r].op = "activate" -> TRUE
                  [] task[r].op = "create" -> Given(task[r].patch.active, FALSE)
                  [] OTHER -> Given(task[r].patch.active, row[r].active)]

Refuse(r) ==
    /\ stage' = [stage EXCEPT ![r] = "refused"]
    /\ UNCHANGED <<task, named, row, visible, period, locked, entry, periodHistory>>

-----------------------------------------------------------------------------
(* The request arrives.                                                     *)
Start(r) ==
    /\ stage[r] = "idle"
    /\ Cardinality({q \in Calls : stage[q] \in InFlight}) < MaxInFlight
    /\ \E j \in Tasks :
        /\ task' = [task EXCEPT ![r] = j]
        /\ named' = [named EXCEPT ![r] = j.period]
        /\ stage' = [stage EXCEPT ![r] = IF j.op \in {"post", "reverse"} THEN "begun"
                                     ELSE IF j.op = "create" THEN "read"
                                     ELSE IF j.op \in {"lock", "unlock"} THEN "checked"
                                     ELSE "aimed"]
    /\ UNCHANGED <<row, visible, period, locked, entry, periodHistory>>

(* postJournal without a period: any period whose dates hold the date,      *)
(* open or not.                                                             *)
ResolvePeriod(r) ==
    /\ stage[r] = "begun"
    /\ task[r].op = "post"
    /\ \/ /\ \E p \in IF task[r].period = Unset
                      THEN {q \in Existing : Covers(q, task[r].date)}
                      ELSE {task[r].period} :
              named' = [named EXCEPT ![r] = p]
          /\ stage' = [stage EXCEPT ![r] = "aimed"]
          /\ UNCHANGED <<task, row, visible, period, locked, entry, periodHistory>>
       \/ /\ task[r].period = Unset
          /\ \A q \in Existing : ~Covers(q, task[r].date)
          /\ Refuse(r)

(* reverseJournal: the original is posted and has no reversal yet.          *)
ReadOriginal(r) ==
    /\ stage[r] = "begun"
    /\ task[r].op = "reverse"
    /\ IF task[r].target \in Posted /\ ~Reversed(task[r].target)
       THEN /\ stage' = [stage EXCEPT ![r] = "aimed"]
            /\ UNCHANGED <<task, named, row, visible, period, locked, entry, periodHistory>>
       ELSE Refuse(r)

(* The period row, unlocked.                                                *)
ReadPeriod(r) ==
    /\ stage[r] = "aimed"
    /\ LET p == period[named[r]]
           op == task[r].op
       IN  IF p = Absent \/ (op \in NeedsOpen /\ p.status # "open")
           THEN Refuse(r)
           ELSE /\ row' = [row EXCEPT ![r] = p]
                /\ stage' = [stage EXCEPT ![r] = IF op = "close" /\ p.status = "closed" THEN "done"
                                             ELSE IF op \in {"activate", "reopen"} THEN "checked"
                                             ELSE "read"]
                /\ UNCHANGED <<task, named, visible, period, locked, entry, periodHistory>>

(* Fault: nobody asks for the module lock.                                  *)
RulesWithoutModuleLock(r) ==
    CASE task[r].op \in {"create", "update"} ->
            /\ WantedDates(r).from < WantedDates(r).to
            /\ Overlapping(WantedDates(r), named[r]) = {}
      [] task[r].op = "delete" -> EntriesOf(named[r]) = {} /\ named[r] \notin Drafts
      [] task[r].op = "close" -> named[r] \notin Drafts
      [] OTHER -> TRUE

(* The rest of the checks, in a statement of their own.                     *)
RulesAllow(r) ==
    CASE task[r].op \in {"create", "update"} ->
            /\ WantedDates(r).from < WantedDates(r).to
            /\ Overlapping(WantedDates(r), named[r]) = {}
      [] task[r].op = "delete" -> EntriesOf(named[r]) = {} /\ named[r] \notin Drafts
      [] task[r].op = "close" -> named[r] \notin Drafts
      [] OTHER -> named[r] \notin locked

CheckRules(r) ==
    /\ stage[r] = "read"
    /\ IF RulesAllow(r)
       THEN /\ stage' = [stage EXCEPT ![r] = "checked"]
            /\ UNCHANGED <<task, named, row, visible, period, locked, entry, periodHistory>>
       ELSE Refuse(r)

(* deactivateAll takes its snapshot; the rows of it are updated, and kept   *)
(* locked, from when their last writer has committed.                       *)
Deactivate(r) ==
    /\ stage[r] = "checked"
    /\ task[r] \in MakesActive
    /\ visible' = [visible EXCEPT ![r] = Existing]
    /\ stage' = [stage EXCEPT ![r] = "deactivated"]
    /\ UNCHANGED <<task, named, row, period, locked, entry, periodHistory>>

-----------------------------------------------------------------------------
(* The write and the commit.                                                *)

Writable(r) == stage[r] = IF task[r] \in MakesActive THEN "deactivated" ELSE "checked"

HasRead(u) ==
    stage[u] \in {"read", "checked", "deactivated"} \/ (stage[u] = "aimed" /\ task[u].op = "reverse")

(* The commit, and whom it overtakes.                                       *)
Committed(r) ==
    /\ stage' = [stage EXCEPT ![r] = "done"]
    /\ outrun' = outrun \cup {u \in Calls \ {r} : HasRead(u)}

(* It leaves its mark on the period it writes.                              *)
Marked(r, p) == late' = IF r \in outrun THEN late \cup {p} ELSE late

Deactivated(table, ps) ==
    [p \in Periods |-> IF p \in ps /\ table[p] # Absent
                       THEN [table[p] EXCEPT !.active = FALSE] ELSE table[p]]

(* fiscal_periods_one_active_idx                                            *)
UniqueActive(table) ==
    \A p, q \in Periods :
        (table[p] # Absent /\ table[q] # Absent /\ p # q) => ~(table[p].active /\ table[q].active)

(* The card is written over the row; the status stays what it is by then.   *)
WritePeriodCard(r, p, status) ==
    LET table == [Deactivated(period, visible[r]) EXCEPT ![p] = [status |-> status,
                        active |-> Fields(r).active, from |-> Fields(r).from, to |-> Fields(r).to]]
    IN  IF UniqueActive(table)
        THEN /\ period' = table
             /\ Committed(r)
             /\ Marked(r, p)
             /\ UNCHANGED <<task, named, row, visible, locked, entry>>
        ELSE Refuse(r)

CreatePeriod(r) ==
    /\ Writable(r)
    /\ task[r].op = "create"
    /\ \E p \in Periods \ Existing : WritePeriodCard(r, p, "open")

UpdatePeriod(r) ==
    /\ Writable(r)
    /\ task[r].op = "update"
    /\ IF named[r] \in Existing
       THEN WritePeriodCard(r, named[r], period[named[r]].status)
       ELSE Refuse(r)

(* activatePeriod sets the flag alone.                                      *)
ActivatePeriod(r) ==
    /\ Writable(r)
    /\ task[r].op = "activate"
    /\ LET table == [Deactivated(period, visible[r]) EXCEPT ![named[r]].active = TRUE]
       IN  IF named[r] \in Existing /\ UniqueActive(table)
           THEN /\ period' = table
                /\ Committed(r)
                /\ Marked(r, named[r])
                /\ UNCHANGED <<task, named, row, visible, locked, entry>>
           ELSE Refuse(r)

(* The row goes and its module locks with it; journal_entries restricts.    *)
DeletePeriod(r) ==
    /\ Writable(r)
    /\ task[r].op = "delete"
    /\ IF EntriesOf(named[r]) = {} /\ named[r] \notin Drafts
       THEN /\ period' = [period EXCEPT ![named[r]] = Absent]
            /\ locked' = locked \ {named[r]}
            /\ late' = late \ {named[r]}
            /\ Committed(r)
            /\ UNCHANGED <<task, named, row, visible, entry>>
       ELSE Refuse(r)

ClosedRow(old) == [old EXCEPT !.status = "closed", !.active = FALSE]
ReopenedRow(old) == [old EXCEPT !.status = "open"]

(* closePeriod and reopenPeriod; an update that finds no row changes none.  *)
SetStatus(r) ==
    /\ Writable(r)
    /\ task[r].op \in {"close", "reopen"}
    /\ period' = [period EXCEPT ![named[r]] =
                    IF @ = Absent THEN @
                    ELSE IF task[r].op = "close" THEN ClosedRow(@) ELSE ReopenedRow(@)]
    /\ Committed(r)
    /\ Marked(r, named[r])
    /\ UNCHANGED <<task, named, row, visible, locked, entry>>

SetModuleLock(r) ==
    /\ Writable(r)
    /\ task[r].op \in {"lock", "unlock"}
    /\ IF named[r] \in Existing
       THEN /\ locked' = IF task[r].op = "lock" THEN locked \cup {named[r]} ELSE locked \ {named[r]}
            /\ Committed(r)
            /\ UNCHANGED <<task, named, row, visible, period, entry, late>>
       ELSE Refuse(r)

(* The row of an entry; its period must exist when the foreign key looks.   *)
Enter(r) ==
    IF named[r] \in Existing
    THEN /\ entry' = [entry EXCEPT ![r] = [period |-> named[r], reverses |-> task[r].target]]
         /\ Committed(r)
         /\ UNCHANGED <<task, named, row, visible, period, locked, late>>
    ELSE Refuse(r)

InsertEntry(r) == Writable(r) /\ task[r].op = "post" /\ Enter(r)

(* The mirror of the original, whose status stays what it was.              *)
InsertReversal(r) == Writable(r) /\ task[r].op = "reverse" /\ Enter(r)

(* The connection is lost or the database picks the transaction as the      *)
(* victim of a deadlock: nothing of it stays.                               *)
Abort(r) ==
    /\ stage[r] \in InFlight
    /\ Refuse(r)

AllAnswered ==
    /\ \A r \in Calls : stage[r] \in {"done", "refused"}
    /\ UNCHANGED periodVars

PeriodNext ==
    \/ \E r \in Calls :
        \/ Start(r) \/ ResolvePeriod(r) \/ ReadOriginal(r) \/ ReadPeriod(r) \/ CheckRules(r)
        \/ Deactivate(r) \/ CreatePeriod(r) \/ UpdatePeriod(r) \/ ActivatePeriod(r)
        \/ DeletePeriod(r) \/ SetStatus(r) \/ SetModuleLock(r)
        \/ InsertEntry(r) \/ InsertReversal(r) \/ Abort(r)
    \/ AllAnswered

PeriodSpec == PeriodInit /\ [][PeriodNext]_periodVars

-----------------------------------------------------------------------------
(* The period cards and the ledger agree.  However the requests interleave,  *)
(* at most one period is the active one, whatever becomes of the stale flag *)
(* an update writes back (the partial index), and no period disappears      *)
(* under an entry (the foreign key).  Of periods no overtaken request has   *)
(* written: an active one is open (migration 0048: "never a closed one"),   *)
(* and no date belongs to two (PERIOD_OVERLAP), or the period a voucher is  *)
(* posted into depends on which row the query returns first.                *)
PeriodsConsistent ==
    /\ UniqueActive(period)
    /\ \A r \in Posted : entry[r].period \in Existing
    /\ \A p \in Existing \ late : period[p].active => period[p].status = "open"
    /\ \A p, q \in Existing \ late : p # q => ~Intersect(period[p], period[q])

(* What holds of requests that nobody overtakes.  Each of these has its     *)
(* exception because the code reads without locking: drop it, and two       *)
(* requests at once are a counterexample.                                   *)

(* ACCOUNTING_ARCHITECTURE.md: "posting into closed/locked periods is       *)
(* impossible".  No entry or reversal is committed into a period that is    *)
(* closed, or whose accounting module is locked.                            *)
CheckedPostIntoOpenPeriod ==
    [][\A r \in Calls \ outrun :
        entry'[r] # entry[r] =>
            /\ period[entry'[r].period].status = "open"
            /\ entry'[r].period \notin locked]_periodVars

(* A closed period is neither edited nor deleted: its row changes by being  *)
(* reopened and in no other way (PERIOD_CLOSED in updatePeriod and          *)
(* deletePeriod), in the steps of requests nobody has overtaken and for the *)
(* periods no overtaken request has written.                                *)
ClosedPeriodFrozen ==
    [][(\A r \in outrun : stage'[r] = stage[r]) =>
        \A p \in Existing \ late :
            period[p].status = "closed" => period'[p] \in {period[p], ReopenedRow(period[p])}]_periodVars

(* An entry is reversed once at most ("Journal was already reversed"): two  *)
(* mirrors subtract the amount twice.                                       *)
ReversedOnce ==
    \A r, q \in Posted \ outrun :
        (entry[r].reverses # Unset /\ entry[r].reverses = entry[q].reverses) => r = q
=============================================================================
