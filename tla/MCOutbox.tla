------------------------------- MODULE MCOutbox -------------------------------
(* One row of one tenant, over which two passes and the console compete.      *)
EXTENDS Outbox, TLC

CONSTANTS j1, t1, p1, p2

Single == j1 :> t1
=============================================================================
