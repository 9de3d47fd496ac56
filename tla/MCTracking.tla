----------------------------- MODULE MCTracking -----------------------------
(* Two accounts; the SMS receiver, one worker of each log.                 *)
EXTENDS Tracking, TLC

CONSTANTS a, b, r1, w1, c1

Symmetry == Permutations(Accounts)
=============================================================================
