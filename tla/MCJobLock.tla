----------------------------- MODULE MCJobLock -----------------------------
(* TLC instances of JobLock.                                               *)
EXTENDS JobLock

CONSTANTS a, b
=============================================================================
