--------------------------- MODULE MCIdempotency ---------------------------
(* Two requests at a time, of two bodies, share one key.                   *)
EXTENDS Idempotency

CONSTANTS k1, b1, b2, r1, r2
=============================================================================
