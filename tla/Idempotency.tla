---------------------------- MODULE Idempotency ----------------------------
(***************************************************************************)
(* middleware/idempotency.go: a keyed POST claims its (user, key) row,     *)
(* runs the handler and stores the response; a later request with the key  *)
(* is answered from the row.  Each SQL statement and the handler's commit  *)
(* is an action, so requests interleave, handlers panic and the process    *)
(* dies between any two of them.                                           *)
(*                                                                         *)
(* Keys stands for (user, key) pairs.  A request body stands for its       *)
(* fingerprint and for the response its handler computes.  Row ids are     *)
(* AUTOINCREMENT, so "WHERE id = row.ID" finds a row only while the key    *)
(* still belongs to the request that inserted it.                          *)
(***************************************************************************)
EXTENDS Naturals, Sequences

CONSTANTS
  Keys, Bodies, Requests,
  None,             \* no response: response_status = 0
  RequestLimit,     \* config.Config.WriteTimeout: the age of the oldest live request
  PendingTimeout,   \* idempotencyPendingTimeout
  Retention         \* IdempotencyKeyRetentionHours

ASSUME IdempotencyAssumption ==
  /\ None \notin Bodies
  /\ RequestLimit \in Nat /\ PendingTimeout \in Nat /\ Retention \in Nat
  /\ RequestLimit <= PendingTimeout
  /\ PendingTimeout + RequestLimit <= Retention

VARIABLES
  state,     \* the rows: "absent", "pending" or "completed"
  owner,     \* the request that inserted the row
  print,     \* request_fingerprint
  stored,    \* the stored response, None if response_status = 0
  rowAge,    \* time since created_at
  pc,        \* where each request is, or how it was last answered
  key, body, \* what it carries
  age,       \* time since it read the clock
  applied    \* history: the writes committed under the key in the row's lifetime

rows == <<state, owner, print, stored, rowAge>>
vars == <<rows, pc, key, body, age, applied>>

(* Between the claim and the last statement of the middleware.             *)
Owning == {"running", "failing", "committed", "unmarked"}
InFlight == Owning \cup {"arrived", "conflict"}
Answered == {"idle", "done", "failed", "replayed", "reused", "in_progress",
             "unavailable", "error"}

RowsOK ==
  /\ state \in [Keys -> {"absent", "pending", "completed"}]
  /\ owner \in [Keys -> Requests]
  /\ print \in [Keys -> Bodies]
  /\ stored \in [Keys -> Bodies \cup {None}]
  /\ rowAge \in [Keys -> 0..Retention + 1]
  /\ applied \in [Keys -> Seq(Bodies)]

RequestsOK ==
  /\ pc \in [Requests -> InFlight \cup Answered]
  /\ key \in [Requests -> Keys]
  /\ body \in [Requests -> Bodies]
  /\ age \in [Requests -> 0..RequestLimit]

TypeOK == RowsOK /\ RequestsOK

Init ==
  /\ state = [k \in Keys |-> "absent"]
  /\ owner \in [Keys -> Requests]
  /\ print \in [Keys -> Bodies]
  /\ stored = [k \in Keys |-> None]
  /\ rowAge = [k \in Keys |-> 0]
  /\ pc = [r \in Requests |-> "idle"]
  /\ key \in [Requests -> Keys]
  /\ body \in [Requests -> Bodies]
  /\ age = [r \in Requests |-> 0]
  /\ applied = [k \in Keys |-> <<>>]

GoTo(r, l) == pc' = [pc EXCEPT ![r] = l]

(* From one point of the code to the next, nothing else changing.          *)
Move(r, from, to) ==
  /\ pc[r] = from
  /\ GoTo(r, to)
  /\ UNCHANGED <<rows, key, body, age, applied>>

-----------------------------------------------------------------------------
(* A request comes in, whatever became of the ones before it: the client   *)
(* retries, or reuses the key for another body.  Its clock reading is the  *)
(* created_at of the row it may insert.                                    *)
Arrive(r, k, b) ==
  /\ pc[r] \in Answered
  /\ GoTo(r, "arrived")
  /\ key' = [key EXCEPT ![r] = k]
  /\ body' = [body EXCEPT ![r] = b]
  /\ age' = [age EXCEPT ![r] = 0]
  /\ UNCHANGED <<rows, applied>>

(* INSERT ... ON CONFLICT DO NOTHING inserts the row.                      *)
Claim(r) ==
  /\ pc[r] = "arrived"
  /\ state[key[r]] = "absent"
  /\ GoTo(r, "running")
  /\ state' = [state EXCEPT ![key[r]] = "pending"]
  /\ owner' = [owner EXCEPT ![key[r]] = r]
  /\ print' = [print EXCEPT ![key[r]] = body[r]]
  /\ stored' = [stored EXCEPT ![key[r]] = None]
  /\ rowAge' = [rowAge EXCEPT ![key[r]] = age[r]]
  /\ UNCHANGED <<key, body, age, applied>>

(* ... or does nothing.                                                    *)
Conflict(r) == state[key[r]] # "absent" /\ Move(r, "arrived", "conflict")

(* Mutations of MayBeInFlight: < for <=, and no timeout at all.            *)
MayBeInFlightStrictly(k, since) ==
  state[k] = "pending" /\ rowAge[k] < PendingTimeout + since
MayBeInFlightForever(k, since) == state[k] = "pending"

(* now.Sub(existing.CreatedAt) <= idempotencyPendingTimeout, with the now  *)
(* the request read when it came in.                                       *)
MayBeInFlight(k, since) ==
  state[k] = "pending" /\ rowAge[k] <= PendingTimeout + since

Reused(r) == state[key[r]] # "absent" /\ print[key[r]] # body[r]

(* A mutation of Answer: the fingerprint is not compared.                  *)
AnswerAnyBody(r) ==
  /\ state[key[r]] # "absent"
  /\ \/ stored[key[r]] = None /\ Move(r, "conflict", "unavailable")
     \/ stored[key[r]] # None /\ Move(r, "conflict", "replayed")

Answer(r) ==
  /\ state[key[r]] # "absent"
  /\ print[key[r]] = body[r]
  /\ \/ /\ MayBeInFlight(key[r], age[r])
        /\ Move(r, "conflict", "in_progress")
     \/ /\ state[key[r]] = "pending" /\ ~MayBeInFlight(key[r], age[r])
        /\ Move(r, "conflict", "unavailable")
     \/ /\ state[key[r]] = "completed" /\ stored[key[r]] = None
        /\ Move(r, "conflict", "unavailable")
     \/ /\ state[key[r]] = "completed" /\ stored[key[r]] # None
        /\ Move(r, "conflict", "replayed")

(* The existing row is loaded; it may be gone by now.                      *)
Load(r) ==
  \/ state[key[r]] = "absent" /\ Move(r, "conflict", "error")
  \/ Reused(r) /\ Move(r, "conflict", "reused")
  \/ Answer(r)

(* The INSERT or the SELECT fails.                                         *)
DatabaseError(r) == Move(r, "arrived", "error") \/ Move(r, "conflict", "error")

-----------------------------------------------------------------------------
(* The owner's handler, and what follows it.                               *)

HandlerCommits(r) ==
  /\ pc[r] = "running"
  /\ GoTo(r, "committed")
  /\ applied' = [applied EXCEPT ![key[r]] = Append(@, body[r])]
  /\ UNCHANGED <<rows, key, body, age>>

(* A handler that answers with an error has committed nothing: what it     *)
(* writes is one transaction (activity_controller.go:92-95, issue #1476).  *)
HandlerFails(r) == Move(r, "running", "failing")

(* Row k as the UPDATE of its owner r leaves it.                           *)
WriteRow(r, s, response) ==
  IF state[key[r]] # "absent" /\ owner[key[r]] = r
  THEN /\ state' = [state EXCEPT ![key[r]] = s]
       /\ stored' = [stored EXCEPT ![key[r]] = response]
       /\ UNCHANGED <<owner, print, rowAge>>
  ELSE UNCHANGED rows

(* The response is stored.  The UPDATE may also report an error although   *)
(* it was applied.                                                         *)
StoreResponse(r) ==
  /\ pc[r] = "committed"
  /\ \E l \in {"done", "unmarked"} : GoTo(r, l)
  /\ WriteRow(r, "completed", body[r])
  /\ UNCHANGED <<key, body, age, applied>>

(* The UPDATE fails, or the response is too large to cache.                *)
StoreFails(r) == Move(r, "committed", "unmarked")

(* A mutation of markTerminalUnreplayable: the row is dropped instead.     *)
DropUnreplayable(r) ==
  /\ pc[r] = "unmarked"
  /\ GoTo(r, "done")
  /\ WriteRow(r, "absent", None)
  /\ UNCHANGED <<key, body, age, applied>>

(* UPDATE ... WHERE id = ? AND response_status = 0.                        *)
markTerminalUnreplayable(r) ==
  /\ pc[r] = "unmarked"
  /\ GoTo(r, "done")
  /\ IF stored[key[r]] = None THEN WriteRow(r, "completed", None) ELSE UNCHANGED rows
  /\ UNCHANGED <<key, body, age, applied>>

MarkFails(r) == Move(r, "unmarked", "done")

(* After a non-2xx the pending row is deleted.                             *)
DropRow(r) ==
  /\ pc[r] = "failing"
  /\ GoTo(r, "failed")
  /\ WriteRow(r, "absent", None)
  /\ UNCHANGED <<key, body, age, applied>>

DropFails(r) == Move(r, "failing", "failed")

(* The handler panics: gin's recovery answers 500 and nothing after        *)
(* c.Next() runs.                                                          *)
Panic(r) == Move(r, "running", "failed") \/ Move(r, "committed", "failed")

-----------------------------------------------------------------------------
(* The process dies.                                                       *)
Crash ==
  /\ pc' = [r \in Requests |-> IF pc[r] \in InFlight THEN "idle" ELSE pc[r]]
  /\ UNCHANGED <<rows, key, body, age, applied>>

(* A mutation of the purge: it does not look at created_at.                *)
PurgeEveryKey ==
  /\ \E k \in Keys : state[k] # "absent"
  /\ state' = [k \in Keys |-> "absent"]
  /\ stored' = [k \in Keys |-> None]
  /\ applied' = [k \in Keys |-> <<>>]
  /\ UNCHANGED <<owner, print, rowAge, pc, key, body, age>>

PurgeExpiredIdempotencyKeys ==
  LET expired == {k \in Keys : state[k] # "absent" /\ rowAge[k] > Retention} IN
  /\ expired # {}
  /\ state' = [k \in Keys |-> IF k \in expired THEN "absent" ELSE state[k]]
  /\ stored' = [k \in Keys |-> IF k \in expired THEN None ELSE stored[k]]
  /\ applied' = [k \in Keys |-> IF k \in expired THEN <<>> ELSE applied[k]]
  /\ UNCHANGED <<owner, print, rowAge, pc, key, body, age>>

(* The server's write timeout bounds the age of a live request.            *)
Tick ==
  /\ \A r \in Requests : pc[r] \in InFlight => age[r] < RequestLimit
  /\ age' = [r \in Requests |-> IF pc[r] \in InFlight THEN age[r] + 1 ELSE age[r]]
  /\ rowAge' = [k \in Keys |->
       IF rowAge[k] <= Retention THEN rowAge[k] + 1 ELSE rowAge[k]]
  /\ UNCHANGED <<state, owner, print, stored, pc, key, body, applied>>

Serve(r) ==
  \/ Claim(r) \/ Conflict(r) \/ Load(r) \/ DatabaseError(r)
  \/ HandlerCommits(r) \/ HandlerFails(r) \/ Panic(r)
  \/ StoreResponse(r) \/ StoreFails(r) \/ markTerminalUnreplayable(r) \/ MarkFails(r)
  \/ DropRow(r) \/ DropFails(r)

Next ==
  \/ \E r \in Requests :
       Serve(r) \/ \E k \in Keys, b \in Bodies : Arrive(r, k, b)
  \/ Crash
  \/ PurgeExpiredIdempotencyKeys
  \/ Tick

Spec == Init /\ [][Next]_vars

(* Time passes and a request that is being served gets on.  Nothing makes  *)
(* a client send one, and the purge may be switched off.                   *)
Fairness == WF_vars(Tick) /\ \A r \in Requests : WF_vars(Serve(r))

FairSpec == Spec /\ Fairness

-----------------------------------------------------------------------------
(* However often a key is retried, from however many connections, and      *)
(* whatever is lost on the way, at most one write is committed under it in *)
(* the lifetime of its row (IdempotencyMiddleware).                        *)
AppliedOnce == \A k \in Keys : Len(applied[k]) <= 1

(* The request whose handler runs still holds the claim of its key: no     *)
(* retry, purge or stale-row verdict takes it away.                        *)
OwnerKeepsKey ==
  \A r \in Requests :
    pc[r] \in Owning => state[key[r]] # "absent" /\ owner[key[r]] = r

Answering(r, verdict) == pc[r] # verdict /\ pc'[r] = verdict

(* The terminal refusal is never given while the first request is still    *)
(* running and could yet fail and release the key: a pending row older     *)
(* than idempotencyPendingTimeout has outlived its request.                *)
RefusalIsFinal ==
  [][\A r \in Requests :
       Answering(r, "unavailable") =>
         \A o \in Requests : pc[o] \in Owning => key[o] # key[r]]_vars

(* A lost response store does not wedge a key as "in progress": with or    *)
(* without a purge, time alone ends that verdict (issue #995).             *)
InProgressEnds == \A k \in Keys : []<>~MayBeInFlight(k, 0)

(* What a client sees of a request.                                        *)
Status ==
  [r \in Requests |->
     IF pc[r] \in {"arrived", "conflict", "running", "failing"} THEN "asking"
     ELSE IF pc[r] \in {"committed", "unmarked"} THEN "applied"
     ELSE IF pc[r] \in {"done", "replayed"} THEN "confirmed" ELSE "idle"]

Once == INSTANCE KeyedWrites WITH effect <- applied, status <- Status

(* To its clients the middleware is KeyedWrites: a key's write is applied  *)
(* once until the key is forgotten; a response, first or replayed, goes    *)
(* only to a request for the write that was applied, word for word         *)
(* (replayStoredResponse, the fingerprint check); and no key is forgotten  *)
(* between its write and the response to it.                               *)
ImplementsKeyedWrites == Once!Spec
=============================================================================
