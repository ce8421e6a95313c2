---------------------------- MODULE MCFiscalPeriod ----------------------------
(* Finite instances of FiscalPeriod for TLC. *)
EXTENDS FiscalPeriod, TLC

CONSTANTS p1, p2, p3, r1, r2, r3

MCPeriods == {p1, p2, p3}
MCDates == 1..6

Open(from, to, active) == [status |-> "open", active |-> active, from |-> from, to |-> to]

(* Two open periods with room between them, the first active. *)
TwoPeriods == (p1 :> Open(1, 2, TRUE)) @@ (p2 :> Open(5, 6, FALSE)) @@ [p \in Periods |-> Absent]

Blank == [from |-> Unset, to |-> Unset, active |-> Unset]
Ask(op, p) == [op |-> op, period |-> p, date |-> Unset, patch |-> Blank, target |-> Unset]
Card(op, p, from, to, active) ==
    [Ask(op, p) EXCEPT !.patch = [from |-> from, to |-> to, active |-> active]]

Governing(p) == {Ask(op, p) : op \in {"delete", "activate", "close", "reopen", "lock", "unlock"}}
Posting ==
    {Ask("post", p1), [Ask("post", Unset) EXCEPT !.date = 3]}
        \cup {[Ask("reverse", p1) EXCEPT !.target = r] : r \in Calls}
Editing ==
    {Card("create", Unset, 2, 3, TRUE), Card("create", Unset, 3, 4, Unset),
     Card("update", p1, Unset, 3, Unset), Card("update", p1, 2, Unset, TRUE),
     Card("update", p1, Unset, 3, FALSE)}

AllJobs == Governing(p1) \cup Posting \cup Editing
TwoPeriodJobs == AllJobs \cup {Ask("activate", p2), Ask("close", p2), Ask("delete", p2)}

SecondDraft == {p2}

(* The jobs name every request alike.                                       *)
Symmetry == Permutations(Calls)
=============================================================================
