------------------------------ MODULE NumberBook ------------------------------
(***************************************************************************)
(* What document numbering promises (SequencesService, DATABASE_DESIGN     *)
(* section 3): in each scope the numbers of the documents on the books are  *)
(* a list that only ever grows at its end.  The n-th document of a scope    *)
(* has number n, so there is no gap an auditor asks about, no number is     *)
(* given twice, and a later document has a higher number.                   *)
(***************************************************************************)
EXTENDS Sequences, Integers

CONSTANTS Scopes, Documents

VARIABLE book   \* for each scope, the documents in the order of their numbers

Init == book = [s \in Scopes |-> << >>]

(* One document is committed and takes the next numbers of some scopes.     *)
Record(d) ==
    \E some \in SUBSET Scopes :
        /\ some # {}
        /\ \A s \in Scopes \ some : book'[s] = book[s]
        /\ \A s \in some :
            /\ Len(book'[s]) > Len(book[s])
            /\ \A n \in 1..Len(book'[s]) :
                book'[s][n] = IF n <= Len(book[s]) THEN book[s][n] ELSE d

Next == \E d \in Documents : Record(d)

Spec == Init /\ [][Next]_book
=============================================================================
