---------------------------- MODULE MCReminders ----------------------------
(* TLC instances of Reminders: the user gets email and one push channel;   *)
(* a scheduled run and the administrator's may overlap.                    *)
EXTENDS Reminders

CONSTANTS ntfy

MCSenders == <<Email, ntfy>>
=============================================================================
