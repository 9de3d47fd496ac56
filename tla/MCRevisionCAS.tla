--------------------------- MODULE MCRevisionCAS ---------------------------
(* TLC instances of RevisionCAS.                                           *)
EXTENDS RevisionCAS

CONSTANTS c1, c2, c3
=============================================================================
