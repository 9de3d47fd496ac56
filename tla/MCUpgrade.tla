----------------------------- MODULE MCUpgrade ----------------------------
(* TLC instance of Upgrade: the server and `migrate up`.                   *)
EXTENDS Upgrade

CONSTANT cli
=============================================================================
