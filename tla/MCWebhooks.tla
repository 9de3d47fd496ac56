----------------------------- MODULE MCWebhooks -----------------------------
(* TLC instances of Webhooks: two events competing for one slot.           *)
EXTENDS Webhooks

CONSTANTS e1, e2
=============================================================================
