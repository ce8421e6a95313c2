--------------------------- MODULE MCAccountTree ---------------------------
(* A small instance of AccountTree: a chain of three accounts, a root beside  *)
(* it, and one account to come.                                              *)
EXTENDS AccountTree, TLC

CONSTANTS r1, r2, assets, cash, till, sales, bank, n1, n2

At(parent, path) ==
    [parent |-> parent, path |-> path, level |-> Len(path) - 1, nature |-> n1, live |-> TRUE]

MCChart ==
    assets :> At(None, <<assets>>)
    @@ cash :> At(assets, <<assets, cash>>)
    @@ till :> At(cash, <<assets, cash, till>>)
    @@ sales :> At(None, <<sales>>)
    @@ bank :> None

Create(a, p) == [op |-> "create", account |-> a, parent |-> p, nature |-> n1]
MoveTo(a, p) == [op |-> "update", account |-> a, parent |-> p, nature |-> Same]
Recode(a, n) == [op |-> "update", account |-> a, parent |-> Same, nature |-> n]
Delete(a) == [op |-> "delete", account |-> a]

\* Moves in and out of the chain and through one another, a rename of a member of the
\* branch, a new leaf, deletions of a leaf and of a parent.
MCJobs ==
    { Create(bank, cash), MoveTo(cash, sales), MoveTo(sales, till), MoveTo(cash, None),
      MoveTo(assets, till), Recode(till, n2), Recode(cash, Same), Delete(till), Delete(cash) }
=============================================================================
