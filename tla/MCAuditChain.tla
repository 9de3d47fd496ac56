---------------------------- MODULE MCAuditChain ---------------------------
(* TLC instance of AuditChain: two users, and three audited writes.        *)
EXTENDS AuditChain, TLC

CONSTANTS anna, ben, e1, e2, e3

MCActor == e1 :> anna @@ e2 :> ben @@ e3 :> anna
=============================================================================
