----------------------------- MODULE MCImages -----------------------------
(* TLC instances of Images.                                                *)
EXTENDS Images

CONSTANTS i1, i2
=============================================================================
