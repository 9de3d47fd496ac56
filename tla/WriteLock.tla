----------------------------- MODULE WriteLock -----------------------------
(***************************************************************************)
(* What internal/writegate promises its callers, without the queue: a lock *)
(* with one owner, which writers wait for, may stop waiting for, take when *)
(* it is free or receive from its owner.                                   *)
(***************************************************************************)
CONSTANT Writers

VARIABLES
  owner,      \* {} or the one writer past the gate
  waiting     \* the writers blocked in acquire

vars == <<owner, waiting>>

Init == owner = {} /\ waiting = {}

Arrive(w) ==
  /\ w \notin owner \cup waiting
  /\ waiting' = waiting \cup {w}
  /\ UNCHANGED owner

Abandon(w) ==
  /\ w \in waiting
  /\ waiting' = waiting \ {w}
  /\ UNCHANGED owner

Take(w) ==
  /\ owner = {}
  /\ owner' = {w}
  /\ waiting' = waiting \ {w}

Leave ==
  /\ owner # {}
  /\ owner' = {}
  /\ UNCHANGED waiting

Pass(w) ==
  /\ owner # {}
  /\ w \in waiting
  /\ owner' = {w}
  /\ waiting' = waiting \ {w}

Next ==
  \/ \E w \in Writers : Arrive(w) \/ Abandon(w) \/ Take(w) \/ Pass(w)
  \/ Leave

Spec == Init /\ [][Next]_vars

(* The owner ends, and a free lock with waiters is taken by somebody.      *)
Fairness ==
  /\ WF_vars(Leave \/ \E w \in Writers : Pass(w))
  /\ WF_vars(\E w \in Writers : Take(w) /\ waiting # {})

FairSpec == Spec /\ Fairness
=============================================================================
