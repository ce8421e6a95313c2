------------------------------ MODULE HashChain ------------------------------
(***************************************************************************)
(* What the authority is promised: in each environment one chain of        *)
(* documents that only grows, each carrying the next counter value and the *)
(* hash of the one before it.                                              *)
(***************************************************************************)
EXTENDS Integers, Sequences

CONSTANTS
    Environments,
    Hashes,        \* hashes of documents
    Genesis        \* what the first document of a chain names

VARIABLE log       \* the documents of each environment in the order they were chained

Init == log = [e \in Environments |-> <<>>]

LastHash(chain) == IF chain = <<>> THEN Genesis ELSE chain[Len(chain)].hash

Chain(e) ==
    \E h \in Hashes :
        /\ \A f \in Environments : \A i \in DOMAIN log[f] : log[f][i].hash # h
        /\ log' = [log EXCEPT ![e] = Append(@,
                      [hash |-> h, counter |-> Len(@) + 1, previous |-> LastHash(@)])]

Next == \E e \in Environments : Chain(e)

Spec == Init /\ [][Next]_log
=============================================================================
