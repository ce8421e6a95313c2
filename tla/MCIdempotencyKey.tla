--------------------------- MODULE MCIdempotencyKey ---------------------------
(* Finite instances of IdempotencyKey for TLC. *)
EXTENDS IdempotencyKey

CONSTANTS r1, r2, r3, sale, refund
=============================================================================
