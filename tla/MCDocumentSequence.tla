-------------------------- MODULE MCDocumentSequence --------------------------
(* Finite instances of DocumentSequence for TLC. *)
EXTENDS DocumentSequence, TLC

CONSTANTS r1, r2, r3, invoice, journal

Doc(scopes) == [op |-> "document", scopes |-> scopes, prefix |-> "inv"]

(* An invoice and its entry; an entry alone; a batch that numbers entries   *)
(* first; two numbers of one scope; the administrator.                      *)
MCJobs ==
    {Doc(<<invoice, journal>>), Doc(<<journal>>), Doc(<<journal, invoice>>),
     Doc(<<journal, journal>>),
     [op |-> "configure", scopes |-> <<journal>>, prefix |-> "set"]}
MCPrefixes == {"inv", "set"}
=============================================================================
