---------------------------- MODULE KeyedWrites ----------------------------
(***************************************************************************)
(* What middleware/idempotency.go promises a client, without rows,         *)
(* fingerprints and clocks: under a key one write is applied at most until *)
(* the key is forgotten, and only a request for that very write is told    *)
(* that it was.  Any request may go without an answer.                     *)
(***************************************************************************)
CONSTANTS Keys, Bodies, Requests

VARIABLES
  effect,     \* per key, the writes applied since it was last forgotten
  status,     \* per request: "idle", "asking", "applied" or "confirmed"
  key, body   \* what it asks for

vars == <<effect, status, key, body>>

Pending == {"asking", "applied"}

Init ==
  /\ effect = [k \in Keys |-> <<>>]
  /\ status = [r \in Requests |-> "idle"]
  /\ key \in [Requests -> Keys]
  /\ body \in [Requests -> Bodies]

Ask(r, k, b) ==
  /\ status[r] \notin Pending
  /\ status' = [status EXCEPT ![r] = "asking"]
  /\ key' = [key EXCEPT ![r] = k]
  /\ body' = [body EXCEPT ![r] = b]
  /\ UNCHANGED effect

Apply(r) ==
  /\ status[r] = "asking"
  /\ effect[key[r]] = <<>>
  /\ effect' = [effect EXCEPT ![key[r]] = <<body[r]>>]
  /\ status' = [status EXCEPT ![r] = "applied"]
  /\ UNCHANGED <<key, body>>

(* By its own handler's answer, or by the replay of an earlier one's.      *)
Confirm(r) ==
  /\ status[r] \in Pending
  /\ effect[key[r]] = <<body[r]>>
  /\ status' = [status EXCEPT ![r] = "confirmed"]
  /\ UNCHANGED <<effect, key, body>>

(* Errors, refusals and crashes: what was applied stays applied.           *)
GiveUp(some) ==
  /\ status' = [r \in Requests |->
       IF r \in some /\ status[r] \in Pending THEN "idle" ELSE status[r]]
  /\ UNCHANGED <<effect, key, body>>

(* Not between a write and its confirmation.                               *)
Forget(some) ==
  /\ \A r \in Requests : status[r] = "applied" => key[r] \notin some
  /\ effect' = [k \in Keys |-> IF k \in some THEN <<>> ELSE effect[k]]
  /\ UNCHANGED <<status, key, body>>

Next ==
  \/ \E r \in Requests :
       Apply(r) \/ Confirm(r) \/ \E k \in Keys, b \in Bodies : Ask(r, k, b)
  \/ \E some \in SUBSET Requests : GiveUp(some)
  \/ \E some \in SUBSET Keys : Forget(some)

Spec == Init /\ [][Next]_vars
=============================================================================
