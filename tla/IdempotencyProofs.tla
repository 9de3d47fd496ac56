------------------------- MODULE IdempotencyProofs -------------------------
(***************************************************************************)
(* Proofs about Idempotency for every set of keys, bodies and requests and *)
(* every choice of the three time limits.                                  *)
(***************************************************************************)
EXTENDS Idempotency, TLAPS

Before == {"running", "failing"}          \* the handler has committed nothing

(* A request that owns its key finds its own row, which is as old as it is *)
(* and which no other request answers for yet.                             *)
Owned(r) ==
  /\ state[key[r]] # "absent"
  /\ owner[key[r]] = r
  /\ print[key[r]] = body[r]
  /\ rowAge[key[r]] = age[r]
  /\ pc[r] # "unmarked" => state[key[r]] = "pending"
  /\ state[key[r]] = "completed" => stored[key[r]] # None
  /\ applied[key[r]] = IF pc[r] \in Before THEN <<>> ELSE <<body[r]>>

OwnerInv == \A r \in Requests : pc[r] \in Owning => Owned(r)

(* What a row says was applied was, and nothing is without a row.          *)
RowInv ==
  \A k \in Keys :
    /\ applied[k] \in {<<>>, <<print[k]>>}
    /\ state[k] = "absent" => applied[k] = <<>>
    /\ state[k] = "completed" => applied[k] = <<print[k]>>

IInv == TypeOK /\ OwnerInv /\ RowInv

-----------------------------------------------------------------------------
LEMMA InitIInv == Init => IInv
<1> SUFFICES ASSUME Init PROVE IInv
  OBVIOUS
<1>1. RowsOK
  BY IdempotencyAssumption DEF Init, RowsOK
<1>2. RequestsOK
  BY IdempotencyAssumption DEF Init, RequestsOK, InFlight, Owning, Answered
<1>3. OwnerInv
  BY DEF Init, OwnerInv, Owning
<1>4. RowInv
  BY DEF Init, RowInv
<1> QED BY <1>1, <1>2, <1>3, <1>4 DEF IInv, TypeOK

(* Sending r elsewhere leaves every other request where it is.             *)
LEMMA GoToLemma ==
  ASSUME RequestsOK, NEW r \in Requests, NEW l \in InFlight \cup Answered, GoTo(r, l)
  PROVE  /\ pc' \in [Requests -> InFlight \cup Answered]
         /\ pc'[r] = l
         /\ \A q \in Requests \ {r} : pc'[q] = pc[q]
BY DEF GoTo, RequestsOK

LEMMA RowsKept == RowsOK /\ UNCHANGED <<rows, applied>> => RowsOK'
BY DEF RowsOK, rows

(* A step that only moves r on, to a point where it no longer owns its key *)
(* or still does in the same way, keeps the invariant.                     *)
LEMMA MoveLemma ==
  ASSUME IInv, NEW r \in Requests, NEW from, NEW to \in InFlight \cup Answered,
         Move(r, from, to),
         \/ to \notin Owning
         \/ from \in Before /\ to \in Before
         \/ from = "committed" /\ to = "unmarked"
  PROVE  IInv'
<1>1. pc[r] = from /\ GoTo(r, to) /\ UNCHANGED <<rows, applied>> /\ UNCHANGED <<key, body, age>>
  BY DEF Move
<1>2. RowsOK /\ RequestsOK
  BY DEF IInv, TypeOK
<1>3. /\ pc' \in [Requests -> InFlight \cup Answered]
      /\ pc'[r] = to
      /\ \A q \in Requests \ {r} : pc'[q] = pc[q]
  BY <1>1, <1>2, GoToLemma
<1>4. TypeOK'
  <2>1. RequestsOK'
    BY <1>1, <1>2, <1>3 DEF RequestsOK
  <2> QED BY <1>1, <1>2, <2>1, RowsKept DEF TypeOK
<1>5. OwnerInv'
  <2> SUFFICES ASSUME NEW q \in Requests, pc'[q] \in Owning PROVE Owned(q)'
    BY DEF OwnerInv
  <2>1. CASE q # r
    BY <2>1, <1>1, <1>3 DEF IInv, OwnerInv, Owned, rows
  <2>2. CASE q = r
    <3>1. to \in Owning /\ from \in Owning
      BY <2>2, <1>3 DEF Owning, Before
    <3>2. Owned(r)
      BY <3>1, <1>1 DEF IInv, OwnerInv
    <3> QED BY <2>2, <3>1, <3>2, <1>1, <1>3 DEF Owned, Before, rows
  <2> QED BY <2>1, <2>2
<1>6. RowInv'
  BY <1>1 DEF IInv, RowInv, rows
<1> QED BY <1>4, <1>5, <1>6 DEF IInv

-----------------------------------------------------------------------------
(* A step of r that changes nothing about the rows of other keys keeps     *)
(* every other owner, provided no other request owns r's key.              *)
LEMMA OthersLemma ==
  ASSUME IInv, NEW r \in Requests, NEW l \in InFlight \cup Answered, GoTo(r, l),
         UNCHANGED <<key, body, age>>,
         \A k \in Keys \ {key[r]} :
           /\ state'[k] = state[k] /\ owner'[k] = owner[k] /\ print'[k] = print[k]
           /\ rowAge'[k] = rowAge[k] /\ applied'[k] = applied[k] /\ stored'[k] = stored[k],
         pc[r] \in Owning \/ state[key[r]] = "absent"
  PROVE  /\ RequestsOK' /\ pc'[r] = l
         /\ \A q \in Requests \ {r} : pc'[q] \in Owning => Owned(q)'
<1>1. RequestsOK
  BY DEF IInv, TypeOK
<1>2. /\ pc' \in [Requests -> InFlight \cup Answered]
      /\ pc'[r] = l
      /\ \A q \in Requests \ {r} : pc'[q] = pc[q]
  BY <1>1, GoToLemma
<1>3. RequestsOK'
  BY <1>1, <1>2 DEF RequestsOK
<1>4. ASSUME NEW q \in Requests \ {r}, pc'[q] \in Owning PROVE Owned(q)'
  <2>1. pc[q] \in Owning /\ Owned(q) /\ key[q] \in Keys
    BY <1>1, <1>2, <1>4 DEF IInv, OwnerInv, RequestsOK
  <2>2. key[q] # key[r]
    BY <2>1 DEF IInv, OwnerInv, Owned
  <2>3. pc'[q] = pc[q] /\ key'[q] = key[q] /\ body'[q] = body[q] /\ age'[q] = age[q]
    BY <1>2
  <2> QED BY <2>1, <2>2, <2>3 DEF Owned
<1> QED BY <1>2, <1>3, <1>4

LEMMA ArriveLemma ==
  ASSUME IInv, NEW r \in Requests, NEW k \in Keys, NEW b \in Bodies, Arrive(r, k, b)
  PROVE  IInv'
<1>1. RowsOK /\ RequestsOK
  BY DEF IInv, TypeOK
<1>2. GoTo(r, "arrived") /\ UNCHANGED <<rows, applied>> /\ "arrived" \in InFlight
  BY DEF Arrive, InFlight
<1>3. /\ pc' \in [Requests -> InFlight \cup Answered]
      /\ pc'[r] = "arrived"
      /\ \A q \in Requests \ {r} : pc'[q] = pc[q]
  BY <1>1, <1>2, GoToLemma
<1>4. key' = [key EXCEPT ![r] = k] /\ body' = [body EXCEPT ![r] = b] /\ age' = [age EXCEPT ![r] = 0]
  BY DEF Arrive
<1>5. RequestsOK'
  BY <1>1, <1>3, <1>4, IdempotencyAssumption DEF RequestsOK
<1>6. ASSUME NEW q \in Requests, pc'[q] \in Owning PROVE Owned(q)'
  <2>1. q # r
    BY <1>3, <1>6 DEF Owning
  <2>2. key'[q] = key[q] /\ body'[q] = body[q] /\ age'[q] = age[q] /\ pc'[q] = pc[q]
    BY <2>1, <1>1, <1>3, <1>4 DEF RequestsOK
  <2> QED BY <2>2, <1>2, <1>6 DEF IInv, OwnerInv, Owned, rows
<1>7. RowInv'
  BY <1>2 DEF IInv, RowInv, rows
<1> QED BY <1>1, <1>2, <1>5, <1>6, <1>7, RowsKept DEF IInv, TypeOK, OwnerInv

LEMMA ClaimLemma ==
  ASSUME IInv, NEW r \in Requests, Claim(r)
  PROVE  IInv'
<1> DEFINE k == key[r]
<1>1. RowsOK /\ RequestsOK /\ k \in Keys /\ body[r] \in Bodies /\ age[r] \in 0..RequestLimit
  BY DEF IInv, TypeOK, RequestsOK
<1>2. /\ state[k] = "absent" /\ GoTo(r, "running") /\ UNCHANGED <<key, body, age, applied>>
      /\ state' = [state EXCEPT ![k] = "pending"]
      /\ owner' = [owner EXCEPT ![k] = r]
      /\ print' = [print EXCEPT ![k] = body[r]]
      /\ stored' = [stored EXCEPT ![k] = None]
      /\ rowAge' = [rowAge EXCEPT ![k] = age[r]]
      /\ "running" \in InFlight
  BY DEF Claim, InFlight, Owning
<1>3. age[r] \in 0..Retention + 1
  BY <1>1, IdempotencyAssumption
<1>4. applied[k] = <<>>
  BY <1>1, <1>2 DEF IInv, RowInv
<1> HIDE DEF k
<1>5. RowsOK'
  BY <1>1, <1>2, <1>3 DEF RowsOK
<1>6. /\ \A j \in Keys \ {k} :
           /\ state'[j] = state[j] /\ owner'[j] = owner[j] /\ print'[j] = print[j]
           /\ rowAge'[j] = rowAge[j] /\ applied'[j] = applied[j] /\ stored'[j] = stored[j]
      /\ state'[k] = "pending" /\ owner'[k] = r /\ print'[k] = body[r]
      /\ rowAge'[k] = age[r] /\ applied'[k] = <<>>
  BY <1>1, <1>2, <1>4 DEF RowsOK
<1>7. /\ RequestsOK' /\ pc'[r] = "running"
      /\ \A q \in Requests \ {r} : pc'[q] \in Owning => Owned(q)'
  BY <1>2, <1>6, OthersLemma DEF k
<1>8. Owned(r)'
  BY <1>2, <1>6, <1>7 DEF Owned, Before, k
<1>9. RowInv'
  <2> SUFFICES ASSUME NEW j \in Keys
               PROVE  /\ applied'[j] \in {<<>>, <<print'[j]>>}
                      /\ state'[j] = "absent" => applied'[j] = <<>>
                      /\ state'[j] = "completed" => applied'[j] = <<print'[j]>>
    BY DEF RowInv
  <2>1. CASE j = k
    BY <2>1, <1>6
  <2>2. CASE j # k
    BY <2>2, <1>6 DEF IInv, RowInv
  <2> QED BY <2>1, <2>2
<1> QED BY <1>5, <1>7, <1>8, <1>9 DEF IInv, TypeOK, OwnerInv

LEMMA CommitLemma ==
  ASSUME IInv, NEW r \in Requests, HandlerCommits(r)
  PROVE  IInv'
<1> DEFINE k == key[r]
<1>1. RowsOK /\ RequestsOK /\ k \in Keys /\ body[r] \in Bodies
  BY DEF IInv, TypeOK, RequestsOK
<1>2. /\ pc[r] = "running" /\ GoTo(r, "committed") /\ UNCHANGED <<rows, key, body, age>>
      /\ applied' = [applied EXCEPT ![k] = Append(@, body[r])]
      /\ "committed" \in InFlight
  BY DEF HandlerCommits, InFlight, Owning
<1>3. pc[r] \in Owning /\ Owned(r)
  BY <1>2 DEF Owning, IInv, OwnerInv
<1>4. applied[k] = <<>> /\ state[k] = "pending" /\ print[k] = body[r]
  BY <1>2, <1>3 DEF Owned, Before
<1>5. Append(<<>>, body[r]) = <<body[r]>> /\ <<body[r]>> \in Seq(Bodies)
  BY <1>1
<1> HIDE DEF k
<1>6. applied' = [applied EXCEPT ![k] = <<body[r]>>]
  BY <1>2, <1>4, <1>5
<1>7. RowsOK'
  BY <1>1, <1>2, <1>5, <1>6 DEF RowsOK, rows
<1>8. /\ \A j \in Keys \ {k} :
           /\ state'[j] = state[j] /\ owner'[j] = owner[j] /\ print'[j] = print[j]
           /\ rowAge'[j] = rowAge[j] /\ applied'[j] = applied[j] /\ stored'[j] = stored[j]
      /\ applied'[k] = <<body[r]>>
  BY <1>1, <1>2, <1>6 DEF RowsOK, rows
<1>9. /\ RequestsOK' /\ pc'[r] = "committed"
      /\ \A q \in Requests \ {r} : pc'[q] \in Owning => Owned(q)'
  BY <1>2, <1>3, <1>8, OthersLemma DEF k
<1>10. Owned(r)'
  BY <1>2, <1>3, <1>4, <1>8, <1>9 DEF Owned, Before, k, rows
<1>11. RowInv'
  <2> SUFFICES ASSUME NEW j \in Keys
               PROVE  /\ applied'[j] \in {<<>>, <<print'[j]>>}
                      /\ state'[j] = "absent" => applied'[j] = <<>>
                      /\ state'[j] = "completed" => applied'[j] = <<print'[j]>>
    BY DEF RowInv
  <2>1. CASE j = k
    BY <2>1, <1>2, <1>4, <1>8 DEF rows
  <2>2. CASE j # k
    BY <2>2, <1>8 DEF IInv, RowInv
  <2> QED BY <2>1, <2>2
<1> QED BY <1>7, <1>9, <1>10, <1>11 DEF IInv, TypeOK, OwnerInv

(* The owner writes its row: as completed once it has committed, as gone   *)
(* if it committed nothing.                                                *)
LEMMA WriteLemma ==
  ASSUME IInv, NEW r \in Requests, pc[r] \in Owning,
         NEW l \in InFlight \cup Answered, GoTo(r, l),
         NEW s, NEW response \in Bodies \cup {None}, WriteRow(r, s, response),
         UNCHANGED <<key, body, age, applied>>,
         \/ s = "absent" /\ pc[r] \in Before /\ l \notin Owning
         \/ /\ s = "completed" /\ pc[r] \notin Before
            /\ l \notin Owning \/ (l = "unmarked" /\ response # None)
  PROVE  IInv'
<1> DEFINE k == key[r]
<1>1. RowsOK /\ RequestsOK /\ k \in Keys /\ Owned(r)
  BY DEF IInv, TypeOK, RequestsOK, OwnerInv
<1>2. /\ state' = [state EXCEPT ![k] = s] /\ stored' = [stored EXCEPT ![k] = response]
      /\ UNCHANGED <<owner, print, rowAge>> /\ s \in {"absent", "pending", "completed"}
  BY <1>1 DEF WriteRow, Owned
<1>3. applied[k] = IF s = "absent" THEN <<>> ELSE <<print[k]>>
  BY <1>1 DEF Owned
<1> HIDE DEF k
<1>4. RowsOK'
  BY <1>1, <1>2 DEF RowsOK
<1>5. /\ \A j \in Keys \ {k} :
           /\ state'[j] = state[j] /\ owner'[j] = owner[j] /\ print'[j] = print[j]
           /\ rowAge'[j] = rowAge[j] /\ applied'[j] = applied[j] /\ stored'[j] = stored[j]
      /\ state'[k] = s /\ stored'[k] = response
  BY <1>1, <1>2 DEF RowsOK
<1>6. /\ RequestsOK' /\ pc'[r] = l
      /\ \A q \in Requests \ {r} : pc'[q] \in Owning => Owned(q)'
  BY <1>5, OthersLemma DEF k
<1>7. l \in Owning => Owned(r)'
  <2> SUFFICES ASSUME l \in Owning PROVE Owned(r)'
    OBVIOUS
  <2>1. s = "completed" /\ pc[r] \notin Before /\ l = "unmarked" /\ response # None
    OBVIOUS
  <2> QED BY <2>1, <1>1, <1>2, <1>5, <1>6 DEF Owned, Before, k
<1>8. RowInv'
  <2> SUFFICES ASSUME NEW j \in Keys
               PROVE  /\ applied'[j] \in {<<>>, <<print'[j]>>}
                      /\ state'[j] = "absent" => applied'[j] = <<>>
                      /\ state'[j] = "completed" => applied'[j] = <<print'[j]>>
    BY DEF RowInv
  <2>1. CASE j = k
    BY <2>1, <1>2, <1>3, <1>5
  <2>2. CASE j # k
    BY <2>2, <1>5 DEF IInv, RowInv
  <2> QED BY <2>1, <2>2
<1> QED BY <1>4, <1>6, <1>7, <1>8 DEF IInv, TypeOK, OwnerInv

LEMMA ServeLemma ==
  ASSUME IInv, NEW r \in Requests, Serve(r)
  PROVE  IInv'
<1> USE DEF InFlight, Answered, Owning, Before
<1>0. body[r] \in Bodies /\ key[r] \in Keys /\ body[r] # None
  BY IdempotencyAssumption DEF IInv, TypeOK, RequestsOK
<1>1. CASE Claim(r)
  BY <1>1, ClaimLemma
<1>2. CASE Conflict(r)
  BY <1>2, MoveLemma DEF Conflict
<1>3. CASE Load(r)
  BY <1>3, MoveLemma DEF Load, Answer
<1>4. CASE DatabaseError(r)
  BY <1>4, MoveLemma DEF DatabaseError
<1>5. CASE HandlerCommits(r)
  BY <1>5, CommitLemma
<1>6. CASE HandlerFails(r)
  BY <1>6, MoveLemma DEF HandlerFails
<1>7. CASE Panic(r)
  BY <1>7, MoveLemma DEF Panic
<1>8. CASE StoreResponse(r)
  <2>1. PICK l \in {"done", "unmarked"} : GoTo(r, l)
    BY <1>8 DEF StoreResponse
  <2>2. pc[r] = "committed" /\ WriteRow(r, "completed", body[r])
        /\ UNCHANGED <<key, body, age, applied>>
    BY <1>8 DEF StoreResponse
  <2>3. l \in InFlight \cup Answered /\ pc[r] \in Owning /\ pc[r] \notin Before
        /\ (l \notin Owning \/ l = "unmarked")
    BY <2>1, <2>2
  <2> HIDE DEF InFlight, Answered, Owning, Before
  <2> QED BY <2>1, <2>2, <2>3, <1>0, WriteLemma
<1>9. CASE StoreFails(r)
  BY <1>9, MoveLemma DEF StoreFails
<1>10. CASE markTerminalUnreplayable(r)
  <2>1. pc[r] = "unmarked" /\ GoTo(r, "done") /\ UNCHANGED <<key, body, age, applied>>
    BY <1>10 DEF markTerminalUnreplayable
  <2>2. CASE stored[key[r]] = None
    <3>1. WriteRow(r, "completed", None)
      BY <1>10, <2>2 DEF markTerminalUnreplayable
    <3>2. "done" \in InFlight \cup Answered /\ pc[r] \in Owning /\ pc[r] \notin Before
          /\ "done" \notin Owning /\ None \in Bodies \cup {None}
      BY <2>1
    <3> HIDE DEF InFlight, Answered, Owning, Before
    <3> QED BY <2>1, <3>1, <3>2, WriteLemma
  <2>3. CASE stored[key[r]] # None
    <3>1. Move(r, "unmarked", "done")
      BY <1>10, <2>1, <2>3 DEF markTerminalUnreplayable, Move
    <3> QED BY <3>1, MoveLemma
  <2> QED BY <2>2, <2>3
<1>11. CASE MarkFails(r)
  BY <1>11, MoveLemma DEF MarkFails
<1>12. CASE DropRow(r)
  <2>1. pc[r] = "failing" /\ GoTo(r, "failed") /\ WriteRow(r, "absent", None)
        /\ UNCHANGED <<key, body, age, applied>>
    BY <1>12 DEF DropRow
  <2> QED BY <2>1, WriteLemma
<1>13. CASE DropFails(r)
  BY <1>13, MoveLemma DEF DropFails
<1> QED BY <1>1, <1>2, <1>3, <1>4, <1>5, <1>6, <1>7, <1>8, <1>9, <1>10, <1>11,
           <1>12, <1>13 DEF Serve

-----------------------------------------------------------------------------
LEMMA CrashLemma == IInv /\ Crash => IInv'
<1> SUFFICES ASSUME IInv, Crash PROVE IInv'
  OBVIOUS
<1>1. UNCHANGED <<rows, applied>> /\ UNCHANGED <<key, body, age>> /\ RowsOK /\ RequestsOK
      /\ pc' = [r \in Requests |-> IF pc[r] \in InFlight THEN "idle" ELSE pc[r]]
  BY DEF Crash, IInv, TypeOK
<1>2. pc' \in [Requests -> InFlight \cup Answered] /\ \A r \in Requests : pc'[r] \notin Owning
  BY <1>1 DEF RequestsOK, InFlight, Answered, Owning
<1>3. RequestsOK'
  BY <1>1, <1>2 DEF RequestsOK
<1>4. RowInv'
  BY <1>1 DEF IInv, RowInv, rows
<1> QED BY <1>1, <1>2, <1>3, <1>4, RowsKept DEF IInv, TypeOK, OwnerInv

LEMMA PurgeLemma == IInv /\ PurgeExpiredIdempotencyKeys => IInv'
<1> SUFFICES ASSUME IInv, PurgeExpiredIdempotencyKeys PROVE IInv'
  OBVIOUS
<1> DEFINE expired == {k \in Keys : state[k] # "absent" /\ rowAge[k] > Retention}
<1>1. /\ state' = [k \in Keys |-> IF k \in expired THEN "absent" ELSE state[k]]
      /\ stored' = [k \in Keys |-> IF k \in expired THEN None ELSE stored[k]]
      /\ applied' = [k \in Keys |-> IF k \in expired THEN <<>> ELSE applied[k]]
      /\ UNCHANGED <<owner, print, rowAge, pc, key, body, age>>
      /\ RowsOK /\ RequestsOK
  BY DEF PurgeExpiredIdempotencyKeys, IInv, TypeOK
<1>2. ASSUME NEW r \in Requests, pc[r] \in Owning PROVE key[r] \in Keys \ expired
  <2>1. key[r] \in Keys /\ age[r] \in 0..RequestLimit /\ rowAge[key[r]] = age[r]
    BY <1>1, <1>2 DEF RequestsOK, IInv, OwnerInv, Owned
  <2> QED BY <2>1, IdempotencyAssumption
<1>3. <<>> \in Seq(Bodies)
  OBVIOUS
<1> HIDE DEF expired
<1>4. RowsOK'
  BY <1>1, <1>3 DEF RowsOK
<1>5. RequestsOK'
  BY <1>1 DEF RequestsOK
<1>6. OwnerInv'
  <2> SUFFICES ASSUME NEW q \in Requests, pc[q] \in Owning PROVE Owned(q)'
    BY <1>1 DEF OwnerInv
  <2>1. Owned(q) /\ key[q] \in Keys \ expired
    BY <1>2 DEF IInv, OwnerInv
  <2> QED BY <2>1, <1>1 DEF Owned
<1>7. RowInv'
  BY <1>1 DEF IInv, RowInv
<1> QED BY <1>4, <1>5, <1>6, <1>7 DEF IInv, TypeOK

LEMMA TickLemma == IInv /\ Tick => IInv'
<1> SUFFICES ASSUME IInv, Tick PROVE IInv'
  OBVIOUS
<1>1. /\ \A r \in Requests : pc[r] \in InFlight => age[r] < RequestLimit
      /\ age' = [r \in Requests |-> IF pc[r] \in InFlight THEN age[r] + 1 ELSE age[r]]
      /\ rowAge' = [k \in Keys |->
           IF rowAge[k] <= Retention THEN rowAge[k] + 1 ELSE rowAge[k]]
      /\ UNCHANGED <<state, owner, print, stored, pc, key, body, applied>>
      /\ RowsOK /\ RequestsOK
  BY DEF Tick, IInv, TypeOK
<1>2. age' \in [Requests -> 0..RequestLimit]
  BY <1>1, IdempotencyAssumption DEF RequestsOK
<1>3. rowAge' \in [Keys -> 0..Retention + 1]
  BY <1>1, IdempotencyAssumption DEF RowsOK
<1>4. RowsOK'
  BY <1>1, <1>3 DEF RowsOK
<1>5. RequestsOK'
  BY <1>1, <1>2 DEF RequestsOK
<1>6. OwnerInv'
  <2> SUFFICES ASSUME NEW q \in Requests, pc[q] \in Owning PROVE Owned(q)'
    BY <1>1 DEF OwnerInv
  <2>1. Owned(q) /\ key[q] \in Keys /\ age[q] \in 0..RequestLimit
    BY <1>1 DEF IInv, OwnerInv, RequestsOK
  <2>2. age'[q] = age[q] + 1 /\ age[q] < RequestLimit
    BY <1>1 DEF InFlight
  <2>3. rowAge[key[q]] <= Retention
    BY <2>1, IdempotencyAssumption DEF Owned
  <2>4. rowAge'[key[q]] = age'[q]
    BY <2>1, <2>2, <2>3, <1>1 DEF Owned
  <2> QED BY <2>1, <2>4, <1>1 DEF Owned
<1>7. RowInv'
  BY <1>1 DEF IInv, RowInv
<1> QED BY <1>4, <1>5, <1>6, <1>7 DEF IInv, TypeOK

LEMMA StepIInv == IInv /\ [Next]_vars => IInv'
<1> SUFFICES ASSUME IInv, [Next]_vars PROVE IInv'
  OBVIOUS
<1>1. CASE UNCHANGED vars
  <2>1. RowsOK' /\ RequestsOK'
    BY <1>1, RowsKept DEF vars, IInv, TypeOK, RequestsOK
  <2>2. OwnerInv' /\ RowInv'
    BY <1>1 DEF vars, rows, IInv, OwnerInv, Owned, RowInv
  <2> QED BY <2>1, <2>2 DEF IInv, TypeOK
<1> QED BY <1>1, ServeLemma, ArriveLemma, CrashLemma, PurgeLemma, TickLemma DEF Next

THEOREM Invariance == Spec => []IInv
BY InitIInv, StepIInv, PTL DEF Spec

(* Rows, requests and history are well typed.                              *)
THEOREM TypeCorrect == Spec => []TypeOK
BY Invariance, PTL DEF IInv

(* No key is ever applied twice while its row lives.                       *)
THEOREM NeverAppliedTwice == Spec => []AppliedOnce
<1>1. IInv => AppliedOnce
  <2> SUFFICES ASSUME IInv, NEW k \in Keys PROVE Len(applied[k]) <= 1
    BY DEF AppliedOnce
  <2>1. applied[k] = <<>> \/ applied[k] = <<print[k]>>
    BY DEF IInv, RowInv
  <2>2. CASE applied[k] = <<>>
    BY <2>2
  <2>3. CASE applied[k] = <<print[k]>>
    BY <2>3
  <2> QED BY <2>1, <2>2, <2>3
<1> QED BY <1>1, Invariance, PTL

(* A request keeps the key it claimed until it is done with it.            *)
THEOREM ClaimsHold == Spec => []OwnerKeepsKey
<1>1. IInv => OwnerKeepsKey
  BY DEF IInv, OwnerInv, Owned, OwnerKeepsKey
<1> QED BY <1>1, Invariance, PTL

LEMMA AnswerLemma ==
  ASSUME IInv, NEW r \in Requests, Next, NEW verdict \in {"replayed", "unavailable"},
         Answering(r, verdict)
  PROVE  /\ key[r] \in Keys /\ print[key[r]] = body[r]
         /\ \/ verdict = "replayed" /\ state[key[r]] = "completed"
            \/ /\ verdict = "unavailable"
               /\ \/ state[key[r]] = "pending" /\ ~MayBeInFlight(key[r], age[r])
                  \/ state[key[r]] = "completed" /\ stored[key[r]] = None
<1>1. RequestsOK /\ key[r] \in Keys /\ pc[r] # verdict /\ pc'[r] = verdict
  BY DEF IInv, TypeOK, RequestsOK, Answering
<1>2. ASSUME NEW q \in Requests, NEW l, l # verdict, pc' = [pc EXCEPT ![q] = l] PROVE FALSE
  BY <1>1, <1>2 DEF RequestsOK
<1>3. ASSUME NEW q \in Requests, NEW k \in Keys, NEW b \in Bodies, Arrive(q, k, b) PROVE FALSE
  BY <1>2, <1>3 DEF Arrive, GoTo
<1>4. ASSUME NEW q \in Requests, Serve(q) PROVE Answer(q) /\ q = r
  <2>1. Load(q)
    BY <1>2, <1>4 DEF Serve, Claim, Conflict, DatabaseError, HandlerCommits, HandlerFails,
          Panic, StoreResponse, StoreFails, markTerminalUnreplayable, MarkFails, DropRow,
          DropFails, Move, GoTo
  <2>2. Answer(q)
    BY <2>1, <1>2 DEF Load, Move, GoTo
  <2>3. PICK l \in {"in_progress", "unavailable", "replayed"} : pc' = [pc EXCEPT ![q] = l]
    BY <2>2 DEF Answer, Move, GoTo
  <2>4. q = r
    BY <2>3, <1>1 DEF RequestsOK
  <2> QED BY <2>2, <2>4
<1>5. ~Crash
  <2> SUFFICES ASSUME Crash PROVE FALSE
    OBVIOUS
  <2>1. pc'[r] = IF pc[r] \in InFlight THEN "idle" ELSE pc[r]
    BY DEF Crash
  <2> QED BY <2>1, <1>1
<1>6. ~PurgeExpiredIdempotencyKeys /\ ~Tick
  BY <1>1 DEF PurgeExpiredIdempotencyKeys, Tick
<1>7. Answer(r)
  BY <1>3, <1>4, <1>5, <1>6 DEF Next
<1>8. \A l : pc' = [pc EXCEPT ![r] = l] => l = verdict
  BY <1>1 DEF RequestsOK
<1> QED BY <1>1, <1>7, <1>8 DEF Answer, Move, GoTo

(* The terminal refusal is given only once the first request has ended.    *)
THEOREM RefusalsAreFinal == Spec => RefusalIsFinal
<1>1. IInv /\ [Next]_vars
        => [\A r \in Requests :
             Answering(r, "unavailable") =>
               \A o \in Requests : pc[o] \in Owning => key[o] # key[r]]_vars
  <2> SUFFICES ASSUME IInv, Next, NEW r \in Requests, Answering(r, "unavailable"),
                      NEW o \in Requests, pc[o] \in Owning, key[o] = key[r]
               PROVE  FALSE
    OBVIOUS
  <2>1. Owned(o) /\ age[o] \in 0..RequestLimit /\ age[r] \in 0..RequestLimit
    BY DEF IInv, OwnerInv, TypeOK, RequestsOK
  <2>2. \/ state[key[r]] = "pending" /\ ~MayBeInFlight(key[r], age[r])
        \/ state[key[r]] = "completed" /\ stored[key[r]] = None
    BY AnswerLemma
  <2>3. CASE state[key[r]] = "pending" /\ ~MayBeInFlight(key[r], age[r])
    BY <2>1, <2>3, IdempotencyAssumption DEF MayBeInFlight, Owned
  <2>4. CASE state[key[r]] = "completed" /\ stored[key[r]] = None
    BY <2>1, <2>4 DEF Owned
  <2> QED BY <2>2, <2>3, <2>4
<1> QED BY <1>1, Invariance, PTL DEF Spec, RefusalIsFinal

-----------------------------------------------------------------------------
(* The refinement of KeyedWrites.                                          *)

(* What a client sees changes with its own request only.                   *)
LEMMA StatusLemma ==
  ASSUME RequestsOK, NEW r \in Requests, NEW l \in InFlight \cup Answered, GoTo(r, l)
  PROVE  Status' = [Status EXCEPT ![r] =
           IF l \in {"arrived", "conflict", "running", "failing"} THEN "asking"
           ELSE IF l \in {"committed", "unmarked"} THEN "applied"
           ELSE IF l \in {"done", "replayed"} THEN "confirmed" ELSE "idle"]
BY GoToLemma DEF Status

(* A request that is moved on without an answer, or given up.              *)
LEMMA GiveUpLemma ==
  ASSUME RequestsOK, NEW r \in Requests, NEW l \in Answered \ {"done", "replayed"},
         pc[r] \in InFlight, GoTo(r, l), UNCHANGED <<key, body, applied>>
  PROVE  Once!Next
<1>1. Status' = [Status EXCEPT ![r] = "idle"]
  BY StatusLemma DEF Answered
<1>2. Status[r] \in Once!Pending
  BY DEF Status, Once!Pending, InFlight, Owning
<1>3. Status' = [q \in Requests |->
        IF q \in {r} /\ Status[q] \in Once!Pending THEN "idle" ELSE Status[q]]
  BY <1>1, <1>2 DEF Status
<1>4. Once!GiveUp({r})
  BY <1>3 DEF Once!GiveUp
<1> QED BY <1>4 DEF Once!Next

(* A request that is told that its write was applied.                      *)
LEMMA ConfirmLemma ==
  ASSUME RequestsOK, NEW r \in Requests, NEW l \in {"done", "replayed"},
         pc[r] \in InFlight, GoTo(r, l), applied[key[r]] = <<body[r]>>,
         UNCHANGED <<key, body, applied>>
  PROVE  Once!Next
<1>1. Status' = [Status EXCEPT ![r] = "confirmed"]
  BY StatusLemma DEF Answered
<1>2. Status[r] \in Once!Pending
  BY DEF Status, Once!Pending, InFlight, Owning
<1>3. Once!Confirm(r)
  BY <1>1, <1>2 DEF Once!Confirm
<1> QED BY <1>3 DEF Once!Next

(* A step of the middleware that its client does not see.                  *)
LEMMA UnseenLemma ==
  ASSUME RequestsOK, NEW r \in Requests, NEW l \in InFlight \cup Answered, GoTo(r, l),
         UNCHANGED <<key, body, applied>>,
         \/ /\ pc[r] \in {"arrived", "conflict", "running", "failing"}
            /\ l \in {"arrived", "conflict", "running", "failing"}
         \/ pc[r] \in {"committed", "unmarked"} /\ l \in {"committed", "unmarked"}
  PROVE  UNCHANGED Once!vars
<1>1. Status' = Status
  <2>1. Status' = [Status EXCEPT ![r] = Status[r]]
    BY StatusLemma DEF Status
  <2>2. Status = [Status EXCEPT ![r] = Status[r]]
    BY DEF Status
  <2> QED BY <2>1, <2>2
<1> QED BY <1>1 DEF Once!vars

LEMMA ServeRefines ==
  ASSUME IInv, NEW r \in Requests, Serve(r)
  PROVE  [Once!Next]_Once!vars
<1> USE DEF InFlight, Answered, Owning
<1>0. RequestsOK /\ key[r] \in Keys
  BY DEF IInv, TypeOK, RequestsOK
<1>1. CASE Claim(r)
  BY <1>0, <1>1, UnseenLemma DEF Claim
<1>2. CASE Conflict(r)
  BY <1>0, <1>2, UnseenLemma DEF Conflict, Move
<1>3. CASE Load(r)
  <2>1. CASE Move(r, "conflict", "replayed") /\ Answer(r)
    <3>1. Answering(r, "replayed") /\ Next
      BY <2>1, <1>0, <1>3 DEF Answering, Move, GoTo, RequestsOK, Next, Serve
    <3>2. applied[key[r]] = <<body[r]>>
      BY <3>1, <1>0, AnswerLemma DEF IInv, RowInv
    <3> QED BY <2>1, <3>2, <1>0, ConfirmLemma DEF Move
  <2>2. CASE \E l \in {"in_progress", "unavailable", "reused", "error"} : Move(r, "conflict", l)
    BY <2>2, <1>0, GiveUpLemma DEF Move
  <2> QED BY <1>3, <2>1, <2>2 DEF Load, Answer
<1>4. CASE DatabaseError(r)
  BY <1>0, <1>4, GiveUpLemma DEF DatabaseError, Move
<1>5. CASE HandlerCommits(r)
  <2>1. applied[key[r]] = <<>>
    BY <1>5 DEF HandlerCommits, IInv, OwnerInv, Owned, Before
  <2>2. Append(<<>>, body[r]) = <<body[r]>>
    OBVIOUS
  <2>3. applied' = [applied EXCEPT ![key[r]] = <<body[r]>>]
    BY <1>5, <2>1, <2>2 DEF HandlerCommits
  <2>4. Status[r] = "asking" /\ Status' = [Status EXCEPT ![r] = "applied"]
    <3>1. Status[r] = "asking"
      BY <1>5 DEF HandlerCommits, Status
    <3> QED BY <3>1, <1>0, <1>5, StatusLemma DEF HandlerCommits
  <2>5. Once!Apply(r)
    BY <1>5, <2>1, <2>3, <2>4 DEF Once!Apply, HandlerCommits
  <2> QED BY <2>5 DEF Once!Next
<1>6. CASE HandlerFails(r)
  BY <1>0, <1>6, UnseenLemma DEF HandlerFails, Move
<1>7. CASE Panic(r)
  BY <1>0, <1>7, GiveUpLemma DEF Panic, Move
<1>8. ASSUME pc[r] \in {"committed", "unmarked"} PROVE applied[key[r]] = <<body[r]>>
  BY <1>8 DEF IInv, OwnerInv, Owned, Before
<1>9. CASE StoreResponse(r)
  <2>1. PICK l \in {"done", "unmarked"} : GoTo(r, l)
    BY <1>9 DEF StoreResponse
  <2>2. CASE l = "done"
    BY <1>0, <1>8, <1>9, <2>1, <2>2, ConfirmLemma DEF StoreResponse
  <2>3. CASE l = "unmarked"
    BY <1>0, <1>9, <2>1, <2>3, UnseenLemma DEF StoreResponse
  <2> QED BY <2>1, <2>2, <2>3
<1>10. CASE StoreFails(r)
  BY <1>0, <1>10, UnseenLemma DEF StoreFails, Move
<1>11. CASE markTerminalUnreplayable(r)
  BY <1>0, <1>8, <1>11, ConfirmLemma DEF markTerminalUnreplayable
<1>12. CASE MarkFails(r)
  BY <1>0, <1>8, <1>12, ConfirmLemma DEF MarkFails, Move
<1>13. CASE DropRow(r)
  BY <1>0, <1>13, GiveUpLemma DEF DropRow
<1>14. CASE DropFails(r)
  BY <1>0, <1>14, GiveUpLemma DEF DropFails, Move
<1> QED BY <1>1, <1>2, <1>3, <1>4, <1>5, <1>6, <1>7, <1>9, <1>10, <1>11, <1>12, <1>13,
           <1>14 DEF Serve

LEMMA NextRefines == IInv /\ [Next]_vars => [Once!Next]_Once!vars
<1> SUFFICES ASSUME IInv, [Next]_vars PROVE [Once!Next]_Once!vars
  OBVIOUS
<1>0. RequestsOK
  BY DEF IInv, TypeOK
<1>1. ASSUME NEW r \in Requests, NEW k \in Keys, NEW b \in Bodies, Arrive(r, k, b)
      PROVE  Once!Next
  <2>1. Status[r] \notin Once!Pending
    BY <1>1 DEF Arrive, Answered, Status, Once!Pending
  <2>2. Status' = [Status EXCEPT ![r] = "asking"]
    BY <1>0, <1>1, StatusLemma DEF Arrive, InFlight
  <2>3. Once!Ask(r, k, b)
    BY <1>1, <2>1, <2>2 DEF Arrive, Once!Ask
  <2> QED BY <2>3 DEF Once!Next
<1>2. CASE Crash
  <2>1. Status' = [r \in Requests |->
          IF r \in Requests /\ Status[r] \in Once!Pending THEN "idle" ELSE Status[r]]
    BY <1>2, <1>0 DEF Crash, Status, InFlight, Owning, Answered, Once!Pending, RequestsOK
  <2>2. Once!GiveUp(Requests)
    BY <1>2, <2>1 DEF Crash, Once!GiveUp
  <2> QED BY <2>2 DEF Once!Next
<1>3. CASE PurgeExpiredIdempotencyKeys
  <2> DEFINE expired == {k \in Keys : state[k] # "absent" /\ rowAge[k] > Retention}
  <2>1. /\ applied' = [k \in Keys |-> IF k \in expired THEN <<>> ELSE applied[k]]
        /\ UNCHANGED <<pc, key, body>>
    BY <1>3 DEF PurgeExpiredIdempotencyKeys
  <2>2. ASSUME NEW r \in Requests, Status[r] = "applied" PROVE key[r] \notin expired
    <3>1. pc[r] \in Owning
      BY <2>2 DEF Status, Owning
    <3>2. key[r] \in Keys /\ age[r] \in 0..RequestLimit /\ rowAge[key[r]] = age[r]
      BY <3>1, <1>0 DEF RequestsOK, IInv, OwnerInv, Owned
    <3> QED BY <3>2, IdempotencyAssumption
  <2>3. expired \in SUBSET Keys
    OBVIOUS
  <2>4. Once!Forget(expired)
    <3> HIDE DEF expired
    <3> QED BY <2>1, <2>2 DEF Once!Forget, Status
  <2> HIDE DEF expired
  <2> QED BY <2>3, <2>4 DEF Once!Next
<1>4. CASE Tick
  BY <1>4 DEF Tick, Once!vars, Status
<1>5. CASE UNCHANGED vars
  BY <1>5 DEF vars, Once!vars, Status
<1> QED BY <1>1, <1>2, <1>3, <1>4, <1>5, ServeRefines DEF Next

(* For all keys, requests and time limits, the rows, retries, failures,    *)
(* crashes and the purge keep the middleware's promise to its clients.     *)
THEOREM MiddlewareIsKeyedWrites == Spec => ImplementsKeyedWrites
<1>1. Init => Once!Init
  BY DEF Init, Once!Init, Status
<1> QED BY <1>1, NextRefines, Invariance, PTL DEF Spec, ImplementsKeyedWrites, Once!Spec
=============================================================================
