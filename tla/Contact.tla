------------------------------ MODULE Contact ------------------------------
(***************************************************************************)
(* What the contact handlers promise their clients, without revisions,     *)
(* loaded rows and snapshots: each request that is carried out is one step *)
(* on the contact as it then is.  An edit under If-Match is carried out on *)
(* the content the client has a copy of, and on no other; a PUT without it *)
(* replaces the content; a flag adds to the flags; a contact goes to the   *)
(* trash, and comes back, with all its children.  Any request may be       *)
(* dropped.                                                                *)
(***************************************************************************)
CONSTANT Clients

VARIABLES
  card, flags,    \* the content: edits and one-column updates
  place,          \* "live", "trashed" or "purged"
  children,       \* whether the rows that reference the contact are live
  copy,           \* each client's copy of the content
  asked           \* per client: "idle", "edit", "replace", "flag" or "delete"

vars == <<card, flags, place, children, copy, asked>>

Init ==
  /\ card = {} /\ flags = {}
  /\ place = "live" /\ children = TRUE
  /\ copy = [c \in Clients |-> {}]
  /\ asked = [c \in Clients |-> "idle"]

Fetch(c) ==
  /\ asked[c] = "idle" /\ place = "live"
  /\ copy' = [copy EXCEPT ![c] = card]
  /\ UNCHANGED <<card, flags, place, children, asked>>

Ask(c, request) ==
  /\ asked[c] = "idle" /\ place = "live"
  /\ asked' = [asked EXCEPT ![c] = request]
  /\ UNCHANGED <<card, flags, place, children, copy>>

Finish(c) == asked' = [asked EXCEPT ![c] = "idle"]

(* The client keeps its copy up to date, or loses the answer.              *)
Put(c) ==
  /\ asked[c] = "replace" \/ (asked[c] = "edit" /\ copy[c] = card)
  /\ place = "live"
  /\ card' = copy[c] \cup {c}
  /\ copy' \in {copy, [copy EXCEPT ![c] = card']}
  /\ Finish(c)
  /\ UNCHANGED <<flags, place, children>>

Flag(c) ==
  /\ asked[c] = "flag" /\ place = "live"
  /\ flags' = flags \cup {c}
  /\ Finish(c)
  /\ UNCHANGED <<card, place, children, copy>>

Delete(c) ==
  /\ asked[c] = "delete" /\ place = "live"
  /\ place' = "trashed" /\ children' = FALSE
  /\ Finish(c)
  /\ UNCHANGED <<card, flags, copy>>

Drop(c) ==
  /\ asked[c] # "idle"
  /\ Finish(c)
  /\ UNCHANGED <<card, flags, place, children, copy>>

Restore ==
  /\ place = "trashed"
  /\ place' = "live" /\ children' = TRUE
  /\ UNCHANGED <<card, flags, copy, asked>>

Purge ==
  /\ place = "trashed"
  /\ place' = "purged"
  /\ UNCHANGED <<card, flags, children, copy, asked>>

Next ==
  \/ \E c \in Clients :
       \/ Fetch(c) \/ Put(c) \/ Flag(c) \/ Delete(c) \/ Drop(c)
       \/ \E request \in {"edit", "replace", "flag", "delete"} : Ask(c, request)
  \/ Restore \/ Purge

Spec == Init /\ [][Next]_vars
=============================================================================
