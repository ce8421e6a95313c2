-------------------------- MODULE MCPlatformBilling --------------------------
(* A small instance of PlatformBilling: every operation, on two licences and  *)
(* two documents, invoices paid in one part or in two.                        *)
EXTENDS PlatformBilling, TLC

CONSTANTS r1, r2, l1, l2, d1, d2

Symmetry == Permutations(Requests) \cup Permutations(Licences) \cup Permutations(Documents)

MCJobs ==
    [op : {"grant"}, trial : BOOLEAN] \cup [op : {"approve", "reject"}]
        \cup [op : {"changePlan", "pause", "resume", "cancel", "runDunning"}, licence : Licences]
        \cup [op : {"createInvoice"}, licence : Licences, period : Periods]
        \cup [op : {"issue", "void"}, document : Documents]
        \cup [op : {"pay"}, document : Documents, amount : 1..Total]
=============================================================================
