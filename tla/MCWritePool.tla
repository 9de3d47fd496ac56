---------------------------- MODULE MCWritePool ----------------------------
(* TLC instances of WritePool: one patient writer, one with a timeout and  *)
(* one priority writer, or ordinary writers only.                          *)
EXTENDS WritePool

CONSTANTS w1, w2, p, x
=============================================================================
