--------------------------- MODULE MCContactSync ---------------------------
(* TLC instances of ContactSync.                                           *)
EXTENDS ContactSync, TLC

Symmetry == Permutations(Fields) \cup Permutations(Values) \cup Permutations(Runs)
=============================================================================
