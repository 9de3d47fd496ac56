-------------------------- MODULE AuditChainProofs --------------------------
(***************************************************************************)
(* Proofs about AuditChain for every set of requests, users and events and *)
(* for tables of any length.                                               *)
(***************************************************************************)
EXTENDS AuditChain, FiniteSetTheorems, WellFoundedInduction, TLAPS

-----------------------------------------------------------------------------
(* Any choice of row ids has a greatest one.                               *)
LEMMA HasMax ==
  ASSUME NEW n \in Nat, NEW S, S \subseteq 1 .. n, S # {}
  PROVE  \E m \in S : \A i \in S : i <= m
<1> DEFINE T == {n - i : i \in S}
<1>0. \A i \in S : i \in Int /\ 1 <= i /\ i <= n /\ n - i \in Nat
  OBVIOUS
<1>1. T \subseteq Nat /\ T # {}
  BY <1>0
<1>2. PICK x \in T : \A y \in T : ~(<<y, x>> \in OpToRel(<, Nat))
  <2> HIDE DEF T
  <2> QED BY <1>1, NatLessThanWellFounded, WFMin, Zenon
<1>3. \A y \in T : ~(y < x)
  BY <1>1, <1>2 DEF OpToRel
<1>4. PICK m \in S : x = n - m
  OBVIOUS
<1>5. ASSUME NEW i \in S PROVE i <= m
  <2>1. n - i \in T
    OBVIOUS
  <2>2. ~(n - i < n - m)
    BY <1>3, <1>4, <2>1
  <2> QED BY <1>0, <2>2
<1> QED BY <1>5

-----------------------------------------------------------------------------
(* Ids ascend, and who holds chainMu: an append from its read to its       *)
(* insert, a re-link from its read to its write.                           *)
LockInv ==
  /\ lastId \in Nat /\ Ids \subseteq 1 .. lastId
  /\ append # {} => chainMu = "append"
  /\ purge = "write" => chainMu = "relink"

(* While nothing has cut the chain, a row's hashes fold in the rows before *)
(* it and no others, and the append in progress has read the newest hash.  *)
LinkInv ==
  unlinked = {} =>
    /\ \A i \in Ids : /\ rows[i].prev = {j \in Ids : j < i}
                      /\ rows[i].hash = {j \in Ids : j <= i}
    /\ \A a \in append : a.prev = Ids

LEMMA InitLink == Init => LockInv /\ LinkInv
BY DEF Init, LockInv, LinkInv, Ids

(* The newest row of an uncut chain has folded in every row.               *)
LEMMA LastHashIsAll ==
  ASSUME LockInv, LinkInv, unlinked = {}
  PROVE  LastHash = Ids
<1>1. CASE Ids = {}
  BY <1>1 DEF LastHash
<1>2. CASE Ids # {}
  <2> DEFINE m == CHOOSE i \in Ids : \A j \in Ids : j <= i
  <2>1. m \in Ids /\ \A j \in Ids : j <= m
    BY <1>2, HasMax DEF LockInv
  <2> HIDE DEF m
  <2>2. rows[m].hash = Ids
    BY <2>1 DEF LinkInv
  <2> QED BY <1>2, <2>2 DEF LastHash, m
<1> QED BY <1>1, <1>2

(* So the chain verifies.                                                  *)
LEMMA LinkedVerifies == ASSUME LockInv, LinkInv PROVE ChainHolds
<1> SUFFICES ASSUME unlinked = {}, NEW i \in Ids
             PROVE  rows[i].prev = PreviousHash(i) /\ rows[i].hash = rows[i].prev \cup {i}
  BY DEF ChainHolds, VerifyAuditChain
<1>1. rows[i].prev = Before(i) /\ rows[i].hash = {j \in Ids : j <= i}
  BY DEF LinkInv, Before
<1>2. \A j \in Ids : j \in Int
  BY DEF LockInv
<1>3. {j \in Ids : j <= i} = {j \in Ids : j < i} \cup {i}
  BY <1>2
<1>4. rows[i].hash = rows[i].prev \cup {i}
  BY <1>1, <1>3 DEF Before
<1>5. CASE Before(i) = {}
  BY <1>1, <1>4, <1>5 DEF PreviousHash
<1>6. CASE Before(i) # {}
  <2> DEFINE m == CHOOSE j \in Before(i) : \A k \in Before(i) : k <= j
  <2>1. Before(i) \subseteq 1 .. lastId /\ lastId \in Nat
    BY DEF Before, LockInv
  <2>2. m \in Before(i) /\ \A k \in Before(i) : k <= m
    BY <1>6, <2>1, HasMax
  <2> HIDE DEF m
  <2>3. m \in Ids /\ m < i
    BY <2>2 DEF Before
  <2>4. rows[m].hash = {j \in Ids : j <= m}
    BY <2>3 DEF LinkInv
  <2>5. {j \in Ids : j <= m} = Before(i)
    BY <1>2, <2>2, <2>3 DEF Before
  <2> QED BY <1>1, <1>4, <1>6, <2>4, <2>5 DEF PreviousHash, m
<1> QED BY <1>5, <1>6

-----------------------------------------------------------------------------
(* Steps that leave the table, chainMu and the purge alone.                *)
LEMMA TableKept ==
  ASSUME LockInv, LinkInv,
         UNCHANGED <<rows, lastId, append, chainMu, purge, unlinked>>
  PROVE  LockInv' /\ LinkInv'
BY DEF LockInv, LinkInv, Ids

LEMMA StartAppendLink ==
  ASSUME LockInv, LinkInv, NEW e \in Events, ReadLast(e) \/ ReadFails(e)
  PROVE  LockInv' /\ LinkInv'
<1> USE DEF db, deleter, purger, ghosts
<1>1. LockInv'
  BY DEF LockInv, Ids, ReadLast, ReadFails, StartAppend
<1>2. ASSUME ReadLast(e), unlinked' = {} PROVE LinkInv'
  <2>1. unlinked = {} /\ LastHash = Ids
    BY <1>2, LastHashIsAll DEF ReadLast
  <2>2. \A a \in append' : a.prev = Ids'
    BY <1>2, <2>1 DEF ReadLast, StartAppend, Ids
  <2> QED BY <1>2, <2>1, <2>2 DEF ReadLast, LinkInv, Ids
<1>3. ASSUME ReadFails(e) PROVE unlinked' # {}
  BY <1>3 DEF ReadFails
<1> QED BY <1>1, <1>2, <1>3 DEF LinkInv

LEMMA InsertLink ==
  ASSUME LockInv, LinkInv, NEW a \in append, Insert(a)
  PROVE  LockInv' /\ LinkInv'
<1> USE DEF ghosts, purger
<1>1. /\ lastId' = lastId + 1 /\ lastId' \in Nat
      /\ Ids' = Ids \cup {lastId'}
      /\ \A i \in Ids : i \in Int /\ i < lastId'
      /\ append' = {} /\ purge' = purge /\ unlinked' = unlinked
  BY DEF LockInv, Insert, Ids
<1>2. purge # "write"
  BY DEF LockInv
<1>3. LockInv'
  BY <1>1, <1>2 DEF LockInv
<1>4. ASSUME unlinked' = {}, NEW i \in Ids'
      PROVE  rows'[i].prev = {j \in Ids' : j < i} /\ rows'[i].hash = {j \in Ids' : j <= i}
  <2>1. a.prev = Ids
    BY <1>1, <1>4 DEF LinkInv
  <2>2. CASE i = lastId'
    <3>1. rows'[i].prev = Ids /\ rows'[i].hash = Ids \cup {lastId'}
      BY <1>1, <2>1, <2>2 DEF Insert
    <3>2. \A j \in Ids' : j <= i /\ (j < i <=> j \in Ids)
      BY <1>1, <2>2
    <3>3. Ids \subseteq Ids'
      BY <1>1
    <3>4. {j \in Ids' : j < i} = Ids
      BY <3>2, <3>3
    <3>5. {j \in Ids' : j <= i} = Ids \cup {lastId'}
      BY <1>1, <3>2
    <3> QED BY <3>1, <3>4, <3>5
  <2>3. CASE i # lastId'
    <3>1. i \in Ids /\ rows'[i] = rows[i]
      BY <1>1, <2>3 DEF Insert
    <3>2. {j \in Ids' : j < i} = {j \in Ids : j < i} /\ {j \in Ids' : j <= i} = {j \in Ids : j <= i}
      BY <1>1, <3>1
    <3> QED BY <1>1, <1>4, <3>1, <3>2 DEF LinkInv
  <2> QED BY <2>2, <2>3
<1> QED BY <1>1, <1>3, <1>4 DEF LinkInv

LEMMA DeleteUserLink ==
  ASSUME LockInv, LinkInv, NEW u \in Users, DeleteUser(u)
  PROVE  LockInv' /\ LinkInv'
<1> DEFINE cascade == {i \in Ids : Actor[rows[i].event] = u}
<1>1. /\ lastId' = lastId /\ append' = append /\ chainMu' = chainMu /\ purge' = purge
      /\ rows' = [i \in Ids \ cascade |-> rows[i]]
      /\ unlinked' = IF cascade = {} THEN unlinked ELSE unlinked \cup {"account"}
  BY DEF DeleteUser, Without, appender, purger
<1>2. Ids' = Ids \ cascade /\ \A i \in Ids' : rows'[i] = rows[i]
  BY <1>1 DEF Ids
<1> HIDE DEF cascade
<1>3. LockInv'
  BY <1>1, <1>2 DEF LockInv
<1>4. ASSUME unlinked' = {} PROVE unlinked = {} /\ Ids' = Ids
  BY <1>1, <1>2, <1>4
<1>5. LinkInv'
  BY <1>1, <1>2, <1>4 DEF LinkInv
<1> QED BY <1>3, <1>5

LEMMA PurgeExpiredLink ==
  ASSUME LockInv, LinkInv, NEW k \in Ids, PurgeExpired(k)
  PROVE  LockInv' /\ LinkInv'
<1>1. /\ lastId' = lastId /\ append' = append /\ chainMu' = chainMu /\ purge' = "relink"
      /\ Ids' \subseteq Ids /\ unlinked' # {}
  BY DEF PurgeExpired, Without, Ids, appender
<1> QED BY <1>1 DEF LockInv, LinkInv

(* What a re-link writes is linked, if no row went since it read the table.*)
LEMMA LinkedIds ==
  ASSUME NEW S, rows' = Linked(rows, S)
  PROVE  /\ Ids' = Ids
         /\ \A i \in Ids' : rows'[i].prev = {j \in S : j < i} /\ rows'[i].hash = {j \in S : j <= i}
BY DEF Linked, Ids

LEMMA WriteChainLink ==
  ASSUME LockInv, LinkInv, WriteChain
  PROVE  LockInv' /\ LinkInv'
<1>1. append = {} /\ append' = {} /\ lastId' = lastId /\ purge' = "idle"
  BY DEF LockInv, WriteChain
<1>2. rows' = Linked(rows, plan) /\ (unlinked' = {} => Ids = plan)
  BY DEF WriteChain
<1>3. LockInv'
  BY <1>1, <1>2, LinkedIds DEF LockInv
<1>4. LinkInv'
  BY <1>1, <1>2, LinkedIds DEF LinkInv
<1> QED BY <1>3, <1>4

LEMMA RestartLink ==
  ASSUME LockInv, LinkInv, Restart
  PROVE  LockInv' /\ LinkInv'
<1>1. append' = {} /\ lastId' = lastId /\ purge' = "idle" /\ rows' = Linked(rows, Ids)
  BY DEF Restart
<1>2. LockInv'
  BY <1>1, LinkedIds DEF LockInv
<1>3. LinkInv'
  BY <1>1, LinkedIds DEF LinkInv
<1> QED BY <1>2, <1>3

LEMMA RelinkLockLink ==
  ASSUME LockInv, LinkInv, ReadChain \/ RelinkFails
  PROVE  LockInv' /\ LinkInv'
<1>1. UNCHANGED <<rows, lastId, append, unlinked>>
  BY DEF ReadChain, RelinkFails, db, ghosts
<1>2. (append # {} => chainMu' = "append") /\ (purge' = "write" => chainMu' = "relink")
  BY DEF LockInv, ReadChain, RelinkFails
<1> QED BY <1>1, <1>2 DEF LockInv, LinkInv, Ids

LEMMA InsertFailsLink ==
  ASSUME LockInv, LinkInv, NEW a \in append, InsertFails(a)
  PROVE  LockInv' /\ LinkInv'
<1>1. append' = {} /\ UNCHANGED <<rows, lastId, unlinked, purge>>
  BY DEF InsertFails, db, purger
<1>2. purge # "write"
  BY DEF LockInv
<1> QED BY <1>1, <1>2 DEF LockInv, LinkInv, Ids

LEMMA StepLink == LockInv /\ LinkInv /\ [Next]_vars => LockInv' /\ LinkInv'
<1> SUFFICES ASSUME LockInv, LinkInv, [Next]_vars PROVE LockInv' /\ LinkInv'
  OBVIOUS
<1> USE DEF db, handlers, appender, deleter, purger, ghosts
<1>1. CASE UNCHANGED vars
  BY <1>1, TableKept DEF vars
<1>2. ASSUME NEW r \in Requests, Serve(r) PROVE LockInv' /\ LinkInv'
  <2>1. UNCHANGED <<rows, lastId, append, chainMu, purge, unlinked>>
    BY <1>2 DEF Serve, Write, Savepoint, EndNested, RollbackTo, Rollback, Commit, Enqueue
  <2> QED BY <2>1, TableKept
<1>3. CASE Persist
  BY <1>3, StartAppendLink, InsertLink, InsertFailsLink DEF Persist
<1>4. CASE Delete
  <2>1. ASSUME NEW u \in Users, StartFlush(u) \/ DeleteFails(u) PROVE LockInv' /\ LinkInv'
    BY <2>1, TableKept DEF StartFlush, DeleteFails
  <2>2. ASSUME Flushed PROVE LockInv' /\ LinkInv'
    BY <2>2, TableKept DEF Flushed
  <2> QED BY <1>4, <2>1, <2>2, DeleteUserLink DEF Delete
<1>5. CASE Purge
  BY <1>5, PurgeExpiredLink, WriteChainLink, RelinkLockLink DEF Purge
<1> QED BY <1>1, <1>2, <1>3, <1>4, <1>5, RestartLink DEF Next

(* Appends, re-links, purges and deletions in any order: the chain         *)
(* verifies unless a cut that is known has not been re-linked yet.         *)
THEOREM ChainVerifies == Spec => []ChainHolds
<1>1. LockInv /\ LinkInv => ChainHolds
  BY LinkedVerifies
<1> QED BY <1>1, InitLink, StepLink, PTL DEF Spec

-----------------------------------------------------------------------------
(* What sequences do to the set of their elements.                         *)
Elements(s) == {s[k] : k \in 1 .. Len(s)}
Distinct(s) == \A j, k \in 1 .. Len(s) : s[j] = s[k] => j = k

LEMMA AppendElements ==
  ASSUME NEW S, NEW s \in Seq(S), NEW e \in S
  PROVE  /\ Append(s, e) \in Seq(S) /\ Len(Append(s, e)) = Len(s) + 1
         /\ \A k \in 1 .. Len(s) : Append(s, e)[k] = s[k]
         /\ Elements(Append(s, e)) = Elements(s) \cup {e}
         /\ Distinct(s) /\ e \notin Elements(s) => Distinct(Append(s, e))
<1> DEFINE t == Append(s, e)
<1>1. t \in Seq(S) /\ Len(t) = Len(s) + 1 /\ Len(s) \in Nat
  OBVIOUS
<1>2. t[Len(s) + 1] = e /\ \A k \in 1 .. Len(s) : t[k] = s[k]
  OBVIOUS
<1> HIDE DEF t
<1>3. \A k \in 1 .. Len(t) : k \in 1 .. Len(s) \/ k = Len(s) + 1
  BY <1>1
<1>4. 1 .. Len(s) \subseteq 1 .. Len(t) /\ Len(s) + 1 \in 1 .. Len(t)
  BY <1>1
<1>5. Elements(t) = Elements(s) \cup {e}
  BY <1>2, <1>3, <1>4 DEF Elements
<1>6. Distinct(s) /\ e \notin Elements(s) => Distinct(t)
  BY <1>2, <1>3 DEF Distinct, Elements
<1> QED BY <1>1, <1>2, <1>5, <1>6 DEF t

LEMMA PrefixElements ==
  ASSUME NEW S, NEW s \in Seq(S), NEW m \in Nat, m <= Len(s)
  PROVE  /\ SubSeq(s, 1, m) \in Seq(S)
         /\ Elements(SubSeq(s, 1, m)) = {s[k] : k \in 1 .. m}
         /\ Elements(SubSeq(s, 1, m)) \subseteq Elements(s)
         /\ Distinct(s) => Distinct(SubSeq(s, 1, m))
<1> DEFINE t == SubSeq(s, 1, m)
<1>1. Len(t) = m /\ t \in Seq(S) /\ \A k \in 1 .. m : t[k] = s[k]
  OBVIOUS
<1> HIDE DEF t
<1>2. 1 .. m \subseteq 1 .. Len(s)
  OBVIOUS
<1> QED BY <1>1, <1>2 DEF Elements, Distinct, t

LEMMA TailElements ==
  ASSUME NEW S, NEW s \in Seq(S), s # <<>>
  PROVE  /\ Tail(s) \in Seq(S) /\ Head(s) \in S
         /\ Elements(s) = Elements(Tail(s)) \cup {Head(s)}
         /\ Distinct(s) => Distinct(Tail(s)) /\ Head(s) \notin Elements(Tail(s))
<1> DEFINE t == Tail(s)
<1>1. /\ t \in Seq(S) /\ Len(s) \in Nat /\ Len(s) >= 1 /\ Len(t) = Len(s) - 1
      /\ Head(s) = s[1] /\ \A k \in 1 .. Len(t) : t[k] = s[k + 1]
  OBVIOUS
<1> HIDE DEF t
<1>2. \A k \in 1 .. Len(t) : k + 1 \in 1 .. Len(s) /\ k + 1 # 1
  BY <1>1
<1>3. \A k \in 1 .. Len(s) : k = 1 \/ (k - 1 \in 1 .. Len(t) /\ (k - 1) + 1 = k)
  BY <1>1
<1>4. 1 \in 1 .. Len(s)
  BY <1>1
<1>5. Elements(s) = Elements(t) \cup {s[1]}
  <2>1. Elements(t) \subseteq Elements(s) /\ s[1] \in Elements(s)
    BY <1>1, <1>2, <1>4 DEF Elements
  <2>2. ASSUME NEW k \in 1 .. Len(s), k # 1 PROVE s[k] \in Elements(t)
    <3>1. k - 1 \in 1 .. Len(t) /\ t[k - 1] = s[k]
      BY <1>1, <1>3, <2>2
    <3> QED BY <3>1 DEF Elements
  <2> QED BY <2>1, <2>2 DEF Elements
<1>6. ASSUME Distinct(s) PROVE Distinct(t) /\ s[1] \notin Elements(t)
  <2>1. ASSUME NEW j \in 1 .. Len(t), NEW k \in 1 .. Len(t), t[j] = t[k] PROVE j = k
    <3>1. s[j + 1] = s[k + 1]
      BY <1>1, <2>1
    <3>2. j + 1 = k + 1
      BY <1>2, <1>6, <3>1 DEF Distinct
    <3> QED BY <3>2
  <2>2. ASSUME NEW k \in 1 .. Len(t) PROVE t[k] # s[1]
    BY <1>1, <1>2, <1>4, <1>6 DEF Distinct
  <2> QED BY <2>1, <2>2 DEF Distinct, Elements
<1> QED BY <1>1, <1>5, <1>6 DEF t

-----------------------------------------------------------------------------
(* What a transaction holds and what the database keeps of it.             *)
Held(r) == Elements(pending[r])
OpenTx(r) == pc[r] \in {"open", "nested"}

Typed ==
  /\ pending \in [Requests -> Seq(Events)] /\ mark \in [Requests -> Nat]
  /\ pc \in [Requests -> {"idle", "open", "nested", "release"}]
  /\ data \in [Requests -> SUBSET Events] /\ base \in [Requests -> SUBSET Events]
  /\ used \subseteq Events /\ committed \subseteq used

(* An open transaction holds the events of exactly what it has written,    *)
(* none committed yet; its savepoint marks both at the same write.         *)
TxOK(r) ==
  /\ Distinct(pending[r]) /\ Held(r) \subseteq used
  /\ pc[r] = "idle" => pending[r] = <<>>
  /\ pc[r] = "release" => pending[r] # <<>> /\ Held(r) \subseteq committed
  /\ data[r] = IF OpenTx(r) THEN Held(r) ELSE {}
  /\ OpenTx(r) => Held(r) \cap committed = {}
  /\ pc[r] = "nested" =>
       mark[r] <= Len(pending[r]) /\ base[r] = {pending[r][k] : k \in 1 .. mark[r]}

TxInv ==
  /\ \A r \in Requests : TxOK(r)
  /\ \A q, r \in Requests : q # r => Held(q) \cap Held(r) = {}

(* A committed event is in one place: held by a Commit that is releasing,  *)
(* waiting for chainMu, being appended, or recorded.                       *)
OnePlace ==
  /\ Recorded \cup Appending \cup queued \subseteq committed
  /\ Recorded \cap (Appending \cup queued) = {} /\ Appending \cap queued = {}
  /\ \A r \in Requests : pc[r] = "release" => Held(r) \cap (Recorded \cup Appending \cup queued) = {}
  /\ \A i, j \in Ids : rows[i].event = rows[j].event => i = j
  /\ \A a, b \in append : a = b

EventInv == LockInv /\ Typed /\ TxInv /\ OnePlace /\ NothingForgotten

-----------------------------------------------------------------------------
LEMMA ReleasedIff ==
  ASSUME Typed
  PROVE  \A e : e \in Released <=> \E r \in Requests : pc[r] = "release" /\ e \in Held(r)
<1>1. \A r \in Requests : DOMAIN pending[r] = 1 .. Len(pending[r])
  BY DEF Typed
<1> QED BY <1>1 DEF Released, Held, Elements

LEMMA ReleasedIffNext ==
  ASSUME Typed'
  PROVE  \A e : e \in Released' <=> \E r \in Requests : pc'[r] = "release" /\ e \in Held(r)'
<1>1. \A r \in Requests : DOMAIN pending'[r] = 1 .. Len(pending'[r])
  BY DEF Typed
<1> QED BY <1>1 DEF Released, Held, Elements

LEMMA NoElements == Elements(<<>>) = {} /\ Distinct(<<>>)
BY DEF Elements, Distinct

LEMMA InitEvents == Init => EventInv
<1> SUFFICES ASSUME Init PROVE EventInv
  OBVIOUS
<1>1. Typed
  BY DEF Init, Typed
<1>2. \A r \in Requests : pending[r] = <<>> /\ pc[r] = "idle" /\ data[r] = {} /\ Held(r) = {}
  BY NoElements DEF Init, Held
<1>3. TxInv
  BY <1>2, NoElements DEF TxInv, TxOK, OpenTx
<1>4. Recorded = {} /\ Appending = {} /\ queued = {} /\ committed = {} /\ append = {} /\ Ids = {}
  BY DEF Init, Recorded, Appending, Ids
<1>5. OnePlace /\ NothingForgotten
  BY <1>4 DEF OnePlace, NothingForgotten
<1> QED BY <1>1, <1>3, <1>5, InitLink DEF EventInv

(* The five actions inside a transaction: the log and its queue stay, and  *)
(* so do the other requests' transactions.                                 *)
LEMMA InsideTx ==
  ASSUME EventInv, Typed', NEW r \in Requests, TxOK(r)',
         UNCHANGED <<committed, rows, lastId, queued, append, chainMu, purge, gone>>,
         used \subseteq used', Held(r)' \subseteq Held(r) \cup (used' \ used),
         pc[r] # "release" /\ pc'[r] # "release",
         \A q \in Requests \ {r} : /\ pending'[q] = pending[q] /\ pc'[q] = pc[q]
                                   /\ mark'[q] = mark[q] /\ data'[q] = data[q] /\ base'[q] = base[q]
  PROVE  EventInv'
<1> USE DEF EventInv
<1>1. Recorded' = Recorded /\ Appending' = Appending /\ Ids' = Ids
  BY DEF Recorded, Appending, Ids
<1>2. \A q \in Requests \ {r} : Held(q)' = Held(q) /\ TxOK(q)'
  BY DEF Held, TxInv, TxOK, OpenTx
<1>3. \A q \in Requests \ {r} : Held(q) \subseteq used
  BY DEF TxInv, TxOK
<1>4. TxInv'
  BY <1>2, <1>3 DEF TxInv
<1>5. OnePlace'
  BY <1>1, <1>2 DEF OnePlace
<1>6. \A e : e \in Released => e \in Released'
  BY <1>2, ReleasedIff, ReleasedIffNext
<1>7. NothingForgotten'
  BY <1>1, <1>6 DEF NothingForgotten
<1>8. LockInv'
  BY <1>1 DEF LockInv
<1> QED BY <1>4, <1>5, <1>7, <1>8

-----------------------------------------------------------------------------
LEMMA WriteEvents ==
  ASSUME EventInv, NEW r \in Requests, NEW e \in Events, Write(r, e)
  PROVE  EventInv'
<1> USE DEF EventInv, Typed, db, appender, purger, ghosts
<1>0. TxOK(r) /\ pending[r] \in Seq(Events) /\ r \in Requests
  BY DEF TxInv
<1>1. /\ pending'[r] = Append(pending[r], e) /\ data'[r] = data[r] \cup {e}
      /\ mark'[r] = mark[r] /\ base'[r] = base[r]
      /\ pc'[r] = IF pc[r] = "idle" THEN "open" ELSE pc[r]
      /\ pc[r] \in {"idle", "open", "nested"}
  BY DEF Write
<1>2. /\ Held(r)' = Held(r) \cup {e} /\ e \notin Held(r) /\ Distinct(pending'[r])
      /\ Len(pending'[r]) = Len(pending[r]) + 1 /\ \A k \in 1 .. Len(pending[r]) : pending'[r][k] = pending[r][k]
  <2>1. e \notin Held(r) /\ Distinct(pending[r])
    BY <1>0 DEF Write, TxOK
  <2> QED BY <1>0, <1>1, <2>1, AppendElements DEF Held
<1>3. Typed'
  <2>1. pending'[r] \in Seq(Events)
    BY <1>0, <1>1, AppendElements
  <2> QED BY <1>1, <2>1 DEF Write
<1>4. TxOK(r)'
  <2>1. pc[r] = "idle" => Held(r) = {} /\ data[r] = {}
    BY <1>0, NoElements DEF TxOK, Held, OpenTx
  <2>2. data'[r] = Held(r)' /\ OpenTx(r)'
    BY <1>0, <1>1, <1>2, <2>1 DEF TxOK, OpenTx
  <2>3. e \notin committed /\ Held(r) \cap committed = {}
    BY <1>0, <1>1, <2>1 DEF Write, TxOK, OpenTx
  <2>4. Held(r)' \subseteq used' /\ Held(r)' \cap committed' = {}
    BY <1>0, <1>2, <2>3 DEF Write, TxOK
  <2>5. pc'[r] = "nested" => mark'[r] <= Len(pending'[r]) /\ base'[r] = {pending'[r][k] : k \in 1 .. mark'[r]}
    <3> SUFFICES ASSUME pc'[r] = "nested"
                 PROVE  mark'[r] <= Len(pending'[r]) /\ base'[r] = {pending'[r][k] : k \in 1 .. mark'[r]}
      OBVIOUS
    <3>1. mark[r] <= Len(pending[r]) /\ base[r] = {pending[r][k] : k \in 1 .. mark[r]} /\ mark[r] \in Nat /\ Len(pending[r]) \in Nat
      BY <1>0, <1>1 DEF TxOK
    <3>2. 1 .. mark[r] \subseteq 1 .. Len(pending[r]) /\ mark[r] <= Len(pending[r]) + 1
      BY <3>1
    <3>3. \A k \in 1 .. Len(pending[r]) : pending'[r][k] = pending[r][k]
      BY <1>2
    <3>4. \A k \in 1 .. mark[r] : pending'[r][k] = pending[r][k]
      BY <3>2, <3>3
    <3>5. base'[r] = {pending'[r][k] : k \in 1 .. mark'[r]}
      BY <1>1, <3>1, <3>4
    <3> QED BY <1>1, <1>2, <3>2, <3>5
  <2> QED BY <1>1, <1>2, <2>2, <2>4, <2>5 DEF TxOK, OpenTx
<1>5. Held(r)' \subseteq Held(r) \cup (used' \ used) /\ used \subseteq used'
  BY <1>2 DEF Write
<1> QED BY <1>1, <1>3, <1>4, <1>5, InsideTx DEF Write

LEMMA SavepointEvents ==
  ASSUME EventInv, NEW r \in Requests, Savepoint(r)
  PROVE  EventInv'
<1> USE DEF EventInv, Typed, db, appender, purger, ghosts
<1>1. /\ pending' = pending /\ data' = data /\ used' = used /\ committed' = committed
      /\ pc[r] = "open" /\ pc'[r] = "nested"
      /\ mark'[r] = Len(pending[r]) /\ base'[r] = data[r]
  BY DEF Savepoint
<1>2. Typed'
  BY <1>1 DEF Savepoint
<1>3. TxOK(r)'
  <2>1. TxOK(r) /\ Len(pending[r]) \in Nat
    BY DEF TxInv
  <2> QED BY <1>1, <2>1 DEF TxOK, OpenTx, Held, Elements
<1>4. Held(r)' = Held(r)
  BY <1>1 DEF Held
<1> QED BY <1>1, <1>2, <1>3, <1>4, InsideTx DEF Savepoint

LEMMA EndNestedEvents ==
  ASSUME EventInv, NEW r \in Requests, EndNested(r)
  PROVE  EventInv'
<1> USE DEF EventInv, Typed, db, appender, purger, ghosts
<1>1. /\ pending' = pending /\ data' = data /\ used' = used /\ committed' = committed
      /\ pc[r] = "nested" /\ pc'[r] = "open"
  BY DEF EndNested
<1>2. Typed'
  BY <1>1 DEF EndNested
<1>3. TxOK(r)'
  BY <1>1 DEF TxInv, TxOK, OpenTx, Held
<1>4. Held(r)' = Held(r)
  BY <1>1 DEF Held
<1> QED BY <1>1, <1>2, <1>3, <1>4, InsideTx DEF EndNested

LEMMA RollbackToEvents ==
  ASSUME EventInv, NEW r \in Requests, RollbackTo(r)
  PROVE  EventInv'
<1> USE DEF EventInv, Typed, db, appender, purger, ghosts
<1>0. TxOK(r) /\ pending[r] \in Seq(Events) /\ mark[r] \in Nat
  BY DEF TxInv
<1>1. /\ pending'[r] = SubSeq(pending[r], 1, mark[r]) /\ data'[r] = base[r]
      /\ pc[r] = "nested" /\ pc'[r] = "open"
      /\ used' = used /\ committed' = committed
  BY DEF RollbackTo
<1>2. /\ pending'[r] \in Seq(Events) /\ Distinct(pending'[r])
      /\ Held(r)' = base[r] /\ Held(r)' \subseteq Held(r)
  <2>1. mark[r] <= Len(pending[r]) /\ base[r] = {pending[r][k] : k \in 1 .. mark[r]} /\ Distinct(pending[r])
    BY <1>0, <1>1 DEF TxOK
  <2> DEFINE s == pending[r]
             t == SubSeq(s, 1, mark[r])
  <2>2. /\ t \in Seq(Events) /\ Elements(t) = {s[k] : k \in 1 .. mark[r]}
        /\ Elements(t) \subseteq Elements(s) /\ Distinct(t)
    BY <1>0, <2>1, PrefixElements
  <2>3. pending'[r] = t
    BY <1>1
  <2> HIDE DEF t
  <2> QED BY <2>1, <2>2, <2>3 DEF Held
<1>3. Typed'
  BY <1>1, <1>2 DEF RollbackTo
<1>4. TxOK(r)'
  BY <1>0, <1>1, <1>2 DEF TxOK, OpenTx
<1> QED BY <1>1, <1>2, <1>3, <1>4, InsideTx DEF RollbackTo

LEMMA RollbackEvents ==
  ASSUME EventInv, NEW r \in Requests, Rollback(r)
  PROVE  EventInv'
<1> USE DEF EventInv, Typed, db, appender, purger, ghosts
<1>1. /\ pending'[r] = <<>> /\ data'[r] = {} /\ pc'[r] = "idle" /\ pc[r] # "release"
      /\ used' = used /\ committed' = committed
  BY DEF Rollback, NoSavepoint
<1>2. Held(r)' = {} /\ Distinct(pending'[r])
  BY <1>1, NoElements DEF Held
<1>3. Typed'
  BY <1>1 DEF Rollback, NoSavepoint
<1>4. TxOK(r)'
  BY <1>1, <1>2 DEF TxOK, OpenTx
<1> QED BY <1>1, <1>2, <1>3, <1>4, InsideTx DEF Rollback, NoSavepoint

-----------------------------------------------------------------------------
(* Commit: what the transaction held is committed, and held once more.     *)
LEMMA CommitEvents ==
  ASSUME EventInv, NEW r \in Requests, Commit(r)
  PROVE  EventInv'
<1> USE DEF EventInv, Typed, db, appender, purger, ghosts
<1>0. TxOK(r)
  BY DEF TxInv
<1>1. /\ pending' = pending /\ used' = used /\ data'[r] = {} /\ pc[r] = "open"
      /\ committed' = committed \cup data[r]
      /\ pc'[r] = IF pending[r] = <<>> THEN "idle" ELSE "release"
      /\ UNCHANGED <<rows, append, queued, gone>>
  BY DEF Commit
<1>2. data[r] = Held(r) /\ Held(r) \subseteq used /\ Held(r) \cap committed = {}
  BY <1>0, <1>1 DEF TxOK, OpenTx
<1>3. Typed'
  BY <1>1, <1>2 DEF Commit, NoSavepoint
<1>4. \A q \in Requests : Held(q)' = Held(q)
  BY <1>1 DEF Held
<1>5. \A q \in Requests \ {r} : /\ pc'[q] = pc[q] /\ mark'[q] = mark[q]
                                /\ data'[q] = data[q] /\ base'[q] = base[q]
  BY DEF Commit, NoSavepoint
<1>6. TxOK(r)'
  BY <1>0, <1>1, <1>2, <1>4 DEF TxOK, OpenTx
<1>7. ASSUME NEW q \in Requests \ {r} PROVE TxOK(q)'
  <2>1. Held(q) \cap Held(r) = {} /\ TxOK(q)
    BY DEF TxInv
  <2>2. /\ pc'[q] = pc[q] /\ mark'[q] = mark[q] /\ data'[q] = data[q]
        /\ base'[q] = base[q] /\ pending'[q] = pending[q]
        /\ used' = used /\ Held(q)' = Held(q)
    BY <1>1, <1>4, <1>5
  <2>3. committed' = committed \cup Held(r)
    BY <1>1, <1>2
  <2>4. OpenTx(q)' <=> OpenTx(q)
    BY <2>2 DEF OpenTx
  <2>5. Distinct(pending[q])' /\ Held(q)' \subseteq used'
    BY <2>1, <2>2 DEF TxOK
  <2>6. /\ pc'[q] = "idle" => pending'[q] = <<>>
        /\ pc'[q] = "release" => pending'[q] # <<>> /\ Held(q)' \subseteq committed'
    BY <2>1, <2>2, <2>3 DEF TxOK
  <2>7. data'[q] = (IF OpenTx(q)' THEN Held(q)' ELSE {})
    BY <2>1, <2>2, <2>4 DEF TxOK
  <2>8. OpenTx(q)' => Held(q)' \cap committed' = {}
    <3>1. OpenTx(q) => Held(q) \cap committed = {}
      BY <2>1 DEF TxOK
    <3> QED BY <2>1, <2>2, <2>3, <2>4, <3>1
  <2>9. pc'[q] = "nested"
          => /\ mark'[q] <= Len(pending'[q])
             /\ base'[q] = {pending'[q][k] : k \in 1 .. mark'[q]}
    BY <2>1, <2>2 DEF TxOK
  <2> QED BY <2>5, <2>6, <2>7, <2>8, <2>9 DEF TxOK
<1>8. TxInv'
  BY <1>4, <1>6, <1>7 DEF TxInv
<1>9. Recorded' = Recorded /\ Appending' = Appending /\ Ids' = Ids
  BY <1>1 DEF Recorded, Appending, Ids
<1>10. OnePlace'
  <2>1. ASSUME NEW q \in Requests, pc'[q] = "release"
        PROVE  Held(q)' \cap (Recorded' \cup Appending' \cup queued') = {}
    <3>1. CASE q = r
      BY <1>1, <1>2, <1>4, <1>9, <3>1 DEF OnePlace
    <3>2. CASE q # r
      <4>1. Held(q) \cap (Recorded \cup Appending \cup queued) = {}
        BY <1>5, <2>1, <3>2 DEF OnePlace
      <4> QED BY <1>1, <1>4, <1>9, <4>1
    <3> QED BY <3>1, <3>2
  <2>2. Recorded' \cup Appending' \cup queued' \subseteq committed'
    BY <1>1, <1>9 DEF OnePlace
  <2>3. \A i, j \in Ids' : rows'[i].event = rows'[j].event => i = j
    BY <1>1, <1>9 DEF OnePlace
  <2>4. Recorded' \cap (Appending' \cup queued') = {} /\ Appending' \cap queued' = {} /\ \A a, b \in append' : a = b
    BY <1>1, <1>9 DEF OnePlace
  <2> QED BY <2>1, <2>2, <2>3, <2>4 DEF OnePlace
<1>11. NothingForgotten'
  <2>1. \A e \in Held(r) : e \in Released'
    <3>1. Held(r) # {} => pending[r] # <<>>
      BY NoElements DEF Held
    <3> QED BY <1>1, <1>3, <1>4, <3>1, ReleasedIffNext
  <2>2. \A e : e \in Released => e \in Released'
    BY <1>1, <1>3, <1>4, <1>5, ReleasedIff, ReleasedIffNext
  <2> QED BY <1>1, <1>2, <1>9, <2>1, <2>2 DEF NothingForgotten
<1>12. LockInv'
  BY <1>9 DEF LockInv, Commit
<1> QED BY <1>3, <1>8, <1>10, <1>11, <1>12

(* One event leaves the Commit that held it for the queue.                 *)
LEMMA EnqueueEvents ==
  ASSUME EventInv, NEW r \in Requests, Enqueue(r)
  PROVE  EventInv'
<1> USE DEF EventInv, Typed, db, purger, ghosts
<1> DEFINE h == Head(pending[r])
           t == Tail(pending[r])
<1>0. TxOK(r) /\ pending[r] \in Seq(Events)
  BY DEF TxInv
<1>1. /\ pc[r] = "release" /\ pc'[r] = IF t = <<>> THEN "idle" ELSE "release"
      /\ pending'[r] = t /\ queued' = queued \cup {h}
      /\ UNCHANGED <<rows, append, used, committed, mark, data, base, gone>>
  BY DEF Enqueue
<1>2. pending[r] # <<>> /\ Held(r) \subseteq committed /\ Held(r) \subseteq used /\ data[r] = {} /\ Distinct(pending[r])
  BY <1>0, <1>1 DEF TxOK, OpenTx
<1>3. /\ t \in Seq(Events) /\ h \in Events /\ Elements(pending[r]) = Elements(t) \cup {h}
      /\ Distinct(t) /\ h \notin Elements(t)
  BY <1>0, <1>2, TailElements
<1>4. \A q \in Requests \ {r} : pending'[q] = pending[q] /\ pc'[q] = pc[q]
  BY DEF Enqueue
<1> HIDE DEF h, t
<1>5. Typed'
  BY <1>1, <1>3 DEF Enqueue
<1>6. Held(r) = Held(r)' \cup {h} /\ h \notin Held(r)' /\ h \in committed
  BY <1>1, <1>2, <1>3 DEF Held
<1>7. TxOK(r)'
  BY <1>1, <1>2, <1>3, <1>6 DEF TxOK, OpenTx
<1>8. ASSUME NEW q \in Requests \ {r} PROVE TxOK(q)' /\ Held(q)' = Held(q)
  <2>1. TxOK(q)
    BY DEF TxInv
  <2>2. /\ pc'[q] = pc[q] /\ mark'[q] = mark[q] /\ data'[q] = data[q]
        /\ base'[q] = base[q] /\ pending'[q] = pending[q]
        /\ used' = used /\ committed' = committed
    BY <1>1, <1>4
  <2>3. Held(q)' = Held(q)
    BY <2>2 DEF Held
  <2>4. OpenTx(q)' <=> OpenTx(q)
    BY <2>2 DEF OpenTx
  <2>5. Distinct(pending[q])' /\ Held(q)' \subseteq used'
    BY <2>1, <2>2, <2>3 DEF TxOK
  <2>6. /\ pc'[q] = "idle" => pending'[q] = <<>>
        /\ pc'[q] = "release" => pending'[q] # <<>> /\ Held(q)' \subseteq committed'
    BY <2>1, <2>2, <2>3 DEF TxOK
  <2>7. /\ data'[q] = (IF OpenTx(q)' THEN Held(q)' ELSE {})
        /\ OpenTx(q)' => Held(q)' \cap committed' = {}
    BY <2>1, <2>2, <2>3, <2>4 DEF TxOK
  <2>8. pc'[q] = "nested"
          => /\ mark'[q] <= Len(pending'[q])
             /\ base'[q] = {pending'[q][k] : k \in 1 .. mark'[q]}
    BY <2>1, <2>2 DEF TxOK
  <2>9. TxOK(q)'
    BY <2>5, <2>6, <2>7, <2>8 DEF TxOK
  <2> QED BY <2>3, <2>9
<1>9. TxInv'
  <2>1. ASSUME NEW q \in Requests \ {r} PROVE Held(q)' \cap Held(r)' = {}
    <3>1. Held(q) \cap Held(r) = {}
      BY DEF TxInv
    <3> QED BY <1>6, <1>8, <3>1
  <2>2. \A q, p \in Requests \ {r} : q # p => Held(q)' \cap Held(p)' = {}
    BY <1>8 DEF TxInv
  <2>3. \A q \in Requests : TxOK(q)'
    BY <1>7, <1>8
  <2> QED BY <2>1, <2>2, <2>3 DEF TxInv
<1>10. Recorded' = Recorded /\ Appending' = Appending /\ Ids' = Ids
  BY <1>1 DEF Recorded, Appending, Ids
<1>11. OnePlace'
  <2>1. h \notin Recorded /\ h \notin Appending
    BY <1>1, <1>6 DEF OnePlace
  <2>2. \A q \in Requests \ {r} : h \notin Held(q)
    BY <1>6 DEF TxInv
  <2>3. ASSUME NEW q \in Requests, pc'[q] = "release"
        PROVE  Held(q)' \cap (Recorded' \cup Appending' \cup queued') = {}
    <3>1. pc[q] = "release" /\ Held(q)' \subseteq Held(q) /\ h \notin Held(q)'
      BY <1>1, <1>4, <1>6, <1>8, <2>2, <2>3
    <3>2. Held(q) \cap (Recorded \cup Appending \cup queued) = {}
      BY <3>1 DEF OnePlace
    <3> QED BY <1>1, <1>10, <3>1, <3>2
  <2>4. Recorded' \cup Appending' \cup queued' \subseteq committed'
    BY <1>1, <1>6, <1>10 DEF OnePlace
  <2>5. Recorded' \cap (Appending' \cup queued') = {} /\ Appending' \cap queued' = {}
    BY <1>1, <1>10, <2>1 DEF OnePlace
  <2>6. (\A i, j \in Ids' : rows'[i].event = rows'[j].event => i = j) /\ (\A a, b \in append' : a = b)
    BY <1>1, <1>10 DEF OnePlace
  <2> QED BY <2>3, <2>4, <2>5, <2>6 DEF OnePlace
<1>12. NothingForgotten'
  <2>1. ASSUME NEW e, e \in Held(r) PROVE e \in queued' \/ e \in Released'
    <3>1. CASE e = h
      BY <1>1, <3>1
    <3>2. CASE e # h
      <4>1. e \in Held(r)'
        BY <1>6, <2>1, <3>2
      <4>2. t # <<>>
        BY <1>1, <4>1, NoElements DEF Held
      <4> QED BY <1>1, <1>5, <4>1, <4>2, ReleasedIffNext
    <3> QED BY <3>1, <3>2
  <2>2. ASSUME NEW e, e \in Released PROVE e \in Released' \/ e \in queued'
    <3>1. PICK q \in Requests : pc[q] = "release" /\ e \in Held(q)
      BY <2>2, ReleasedIff
    <3>2. CASE q = r
      BY <2>1, <3>1, <3>2
    <3>3. CASE q # r
      <4>1. pc'[q] = "release" /\ e \in Held(q)'
        BY <1>4, <1>8, <3>1, <3>3
      <4> QED BY <1>5, <4>1, ReleasedIffNext
    <3> QED BY <3>2, <3>3
  <2> QED BY <1>1, <1>10, <2>2 DEF NothingForgotten
<1>13. LockInv'
  BY <1>10 DEF LockInv, Enqueue
<1> QED BY <1>5, <1>9, <1>11, <1>12, <1>13

-----------------------------------------------------------------------------
(* Steps of the appender, the deleter and the purge: events move along, or *)
(* are gone, and none appears.                                             *)
LEMMA LogStep ==
  ASSUME EventInv, LockInv', UNCHANGED handlers,
         Recorded' \cup Appending' \cup queued' \subseteq Recorded \cup Appending \cup queued,
         Recorded \cup Appending \cup queued \cup gone \subseteq Recorded' \cup Appending' \cup queued' \cup gone',
         Recorded' \cap (Appending' \cup queued') = {}, Appending' \cap queued' = {},
         \A i, j \in Ids' : rows'[i].event = rows'[j].event => i = j,
         \A a, b \in append' : a = b
  PROVE  EventInv'
<1> USE DEF EventInv
<1>1. UNCHANGED <<used, committed, pc, pending, mark, data, base>>
  BY DEF handlers
<1>2. Typed'
  BY <1>1 DEF Typed
<1>3. \A r \in Requests : Held(r)' = Held(r)
  BY <1>1 DEF Held
<1>4. TxInv'
  BY <1>1, <1>3 DEF TxInv, TxOK, OpenTx
<1>5. OnePlace'
  BY <1>1, <1>3 DEF OnePlace
<1>6. Released' = Released
  BY <1>1 DEF Released
<1>7. NothingForgotten'
  BY <1>1, <1>6 DEF NothingForgotten
<1> QED BY <1>2, <1>4, <1>5, <1>7

LEMMA StartAppendEvents ==
  ASSUME EventInv, LockInv', NEW e \in Events, ReadLast(e) \/ ReadFails(e)
  PROVE  EventInv'
<1>1. PICK prev : StartAppend(e, prev)
  BY DEF ReadLast, ReadFails
<1>2. append = {} /\ Appending = {}
  BY <1>1 DEF EventInv, LockInv, StartAppend, Appending
<1>3. append' = {[event |-> e, prev |-> prev]} /\ Appending' = {e} /\ e \in queued /\ queued' = queued \ {e}
  BY <1>1 DEF StartAppend, Appending
<1>4. rows' = rows /\ gone' = gone /\ UNCHANGED handlers
  BY DEF ReadLast, ReadFails, db, ghosts
<1>5. Recorded' = Recorded /\ Ids' = Ids
  BY <1>4 DEF Recorded, Ids
<1>6. Recorded \cap queued = {}
  BY DEF EventInv, OnePlace
<1>7. \A i, j \in Ids' : rows'[i].event = rows'[j].event => i = j
  BY <1>4, <1>5 DEF EventInv, OnePlace
<1> QED BY <1>2, <1>3, <1>4, <1>5, <1>6, <1>7, LogStep

LEMMA InsertEvents ==
  ASSUME EventInv, LockInv', NEW a \in append, Insert(a)
  PROVE  EventInv'
<1>1. /\ append = {a} /\ append' = {} /\ queued' = queued /\ UNCHANGED handlers /\ gone' = gone
      /\ lastId' = lastId + 1 /\ lastId \in Nat /\ Ids \subseteq 1 .. lastId
  BY DEF Insert, EventInv, LockInv, OnePlace, ghosts
<1>2. Ids' = Ids \cup {lastId'} /\ lastId' \notin Ids
  <2>1. Ids' = Ids \cup {lastId'}
    BY DEF Insert, Ids
  <2> QED BY <1>1, <2>1
<1>3. rows'[lastId'].event = a.event /\ \A i \in Ids : rows'[i] = rows[i]
  BY <1>2 DEF Insert
<1>4. Appending = {a.event} /\ Appending' = {}
  BY <1>1 DEF Appending
<1>5. Recorded' = Recorded \cup {a.event}
  BY <1>2, <1>3 DEF Recorded
<1>6. Recorded \cap (Appending \cup queued) = {} /\ Appending \cap queued = {}
  BY DEF EventInv, OnePlace
<1>7. \A i \in Ids : rows[i].event # a.event
  BY <1>4, <1>6 DEF Recorded
<1>8. \A i, j \in Ids : rows[i].event = rows[j].event => i = j
  BY DEF EventInv, OnePlace
<1>9. \A i, j \in Ids' : rows'[i].event = rows'[j].event => i = j
  BY <1>2, <1>3, <1>7, <1>8
<1> QED BY <1>1, <1>4, <1>5, <1>6, <1>9, LogStep

LEMMA InsertFailsEvents ==
  ASSUME EventInv, LockInv', NEW a \in append, InsertFails(a)
  PROVE  EventInv'
<1>1. /\ append = {a} /\ append' = {} /\ queued' = queued /\ rows' = rows
      /\ UNCHANGED handlers /\ gone' = gone \cup {a.event}
  BY DEF InsertFails, EventInv, OnePlace, db
<1>2. Appending = {a.event} /\ Appending' = {} /\ Recorded' = Recorded /\ Ids' = Ids
  BY <1>1 DEF Appending, Recorded, Ids
<1>3. Recorded \cap queued = {} /\ \A i, j \in Ids : rows[i].event = rows[j].event => i = j
  BY DEF EventInv, OnePlace
<1> QED BY <1>1, <1>2, <1>3, LogStep

(* Rows that go, by a purge or a cascade, take their events with them.     *)
LEMMA RowsGone ==
  ASSUME EventInv, LockInv', UNCHANGED <<handlers, queued, append>>,
         NEW S, rows' = Without(S),
         gone' = gone \cup {rows[i].event : i \in Ids \cap S}
  PROVE  EventInv'
<1>1. Ids' = Ids \ S /\ \A i \in Ids' : rows'[i] = rows[i]
  BY DEF Without, Ids
<1>2. Appending' = Appending /\ Recorded' \subseteq Recorded
  BY <1>1 DEF Appending, Recorded
<1>3. Recorded \subseteq Recorded' \cup gone'
  BY <1>1 DEF Recorded
<1>4. Recorded \cap (Appending \cup queued) = {} /\ Appending \cap queued = {} /\ \A a, b \in append : a = b
  BY DEF EventInv, OnePlace
<1>5. \A i, j \in Ids' : rows'[i].event = rows'[j].event => i = j
  BY <1>1 DEF EventInv, OnePlace
<1> QED BY <1>2, <1>3, <1>4, <1>5, LogStep

LEMMA DeleteUserEvents ==
  ASSUME EventInv, LockInv', NEW u \in Users, DeleteUser(u)
  PROVE  EventInv'
<1> DEFINE cascade == {i \in Ids : Actor[rows[i].event] = u}
<1>1. rows' = Without(cascade) /\ gone' = gone \cup {rows[i].event : i \in cascade}
  BY DEF DeleteUser
<1>2. Ids \cap cascade = cascade
  OBVIOUS
<1>3. UNCHANGED <<handlers, queued, append>>
  BY DEF DeleteUser, appender
<1> HIDE DEF cascade
<1> QED BY <1>1, <1>2, <1>3, RowsGone

LEMMA PurgeExpiredEvents ==
  ASSUME EventInv, LockInv', NEW k \in Ids, PurgeExpired(k)
  PROVE  EventInv'
<1>1. /\ rows' = Without(1 .. k) /\ gone' = gone \cup {rows[i].event : i \in Ids \cap (1 .. k)}
      /\ UNCHANGED <<handlers, queued, append>>
  BY DEF PurgeExpired, appender
<1> QED BY <1>1, RowsGone

(* A re-link rewrites hashes: the same rows, of the same events.           *)
LEMMA LinkedEvents ==
  ASSUME NEW S, rows' = Linked(rows, S)
  PROVE  Ids' = Ids /\ (\A i \in Ids' : rows'[i].event = rows[i].event) /\ Recorded' = Recorded
<1>1. Ids' = Ids /\ \A i \in Ids' : rows'[i].event = rows[i].event
  BY DEF Linked, Ids
<1> QED BY <1>1 DEF Recorded

LEMMA WriteChainEvents ==
  ASSUME EventInv, LockInv', WriteChain
  PROVE  EventInv'
<1>1. rows' = Linked(rows, plan) /\ UNCHANGED <<handlers, queued, append, gone>>
  BY DEF WriteChain
<1>2. Ids' = Ids /\ (\A i \in Ids' : rows'[i].event = rows[i].event) /\ Recorded' = Recorded
  BY <1>1, LinkedEvents
<1>3. Appending' = Appending
  BY <1>1 DEF Appending
<1>4. Recorded \cap (Appending \cup queued) = {} /\ Appending \cap queued = {} /\ \A a, b \in append : a = b
  BY DEF EventInv, OnePlace
<1>5. \A i, j \in Ids' : rows'[i].event = rows'[j].event => i = j
  BY <1>2 DEF EventInv, OnePlace
<1> QED BY <1>1, <1>2, <1>3, <1>4, <1>5, LogStep

(* Steps that move no event.                                               *)
LEMMA EventsKept ==
  ASSUME EventInv, LockInv', UNCHANGED <<handlers, rows, queued, append, gone>>
  PROVE  EventInv'
<1>1. Recorded' = Recorded /\ Appending' = Appending /\ Ids' = Ids
  BY DEF Recorded, Appending, Ids
<1>2. Recorded \cap (Appending \cup queued) = {} /\ Appending \cap queued = {} /\ \A a, b \in append : a = b
  BY DEF EventInv, OnePlace
<1>3. \A i, j \in Ids' : rows'[i].event = rows'[j].event => i = j
  BY <1>1 DEF EventInv, OnePlace
<1> QED BY <1>1, <1>2, <1>3, LogStep

(* A restart keeps the rows and nothing else.                              *)
LEMMA RestartEvents ==
  ASSUME EventInv, LockInv', Restart
  PROVE  EventInv'
<1>1. /\ rows' = Linked(rows, Ids) /\ queued' = {} /\ append' = {}
      /\ gone' = committed \ Recorded /\ used' = used /\ committed' = committed
      /\ pc' = [r \in Requests |-> "idle"] /\ pending' = [r \in Requests |-> <<>>]
      /\ data' = [r \in Requests |-> {}]
      /\ mark' = [r \in Requests |-> 0] /\ base' = [r \in Requests |-> {}]
  BY DEF Restart
<1>2. Ids' = Ids /\ (\A i \in Ids' : rows'[i].event = rows[i].event) /\ Recorded' = Recorded
  BY <1>1, LinkedEvents
<1>3. Typed'
  BY <1>1 DEF EventInv, Typed
<1>4. \A r \in Requests : pending'[r] = <<>> /\ pc'[r] = "idle" /\ data'[r] = {}
  BY <1>1
<1>5. \A r \in Requests : Held(r)' = {} /\ Distinct(pending'[r])
  BY <1>4, NoElements DEF Held
<1>6. TxInv'
  BY <1>4, <1>5 DEF TxInv, TxOK, OpenTx
<1>7. Appending' = {}
  BY <1>1 DEF Appending
<1>8. OnePlace'
  BY <1>1, <1>2, <1>5, <1>7 DEF EventInv, OnePlace
<1>9. NothingForgotten'
  BY <1>1, <1>2 DEF NothingForgotten
<1> QED BY <1>3, <1>6, <1>8, <1>9 DEF EventInv

-----------------------------------------------------------------------------
LEMMA StepEvents == EventInv /\ LinkInv /\ [Next]_vars => EventInv' /\ LinkInv'
<1> SUFFICES ASSUME EventInv, LinkInv, [Next]_vars PROVE EventInv' /\ LinkInv'
  OBVIOUS
<1>0. LockInv' /\ LinkInv'
  BY StepLink DEF EventInv
<1>1. CASE UNCHANGED vars
  BY <1>0, <1>1, EventsKept DEF vars, db, appender, ghosts
<1>2. ASSUME NEW r \in Requests, Serve(r) PROVE EventInv'
  BY <1>2, WriteEvents, SavepointEvents, EndNestedEvents, RollbackToEvents, RollbackEvents,
     CommitEvents, EnqueueEvents DEF Serve
<1>3. CASE Persist
  BY <1>0, <1>3, StartAppendEvents, InsertEvents, InsertFailsEvents DEF Persist
<1>4. CASE Delete
  <2>1. ASSUME NEW u \in Users, StartFlush(u) \/ DeleteFails(u) PROVE EventInv'
    BY <1>0, <2>1, EventsKept DEF StartFlush, DeleteFails, db, appender, ghosts
  <2>2. ASSUME Flushed PROVE EventInv'
    BY <1>0, <2>2, EventsKept DEF Flushed, db, appender, ghosts
  <2> QED BY <1>0, <1>4, <2>1, <2>2, DeleteUserEvents DEF Delete
<1>5. CASE Purge
  <2>1. ASSUME ReadChain \/ RelinkFails PROVE EventInv'
    BY <1>0, <2>1, EventsKept DEF ReadChain, RelinkFails, db, ghosts
  <2> QED BY <1>0, <1>5, <2>1, PurgeExpiredEvents, WriteChainEvents DEF Purge
<1> QED BY <1>0, <1>1, <1>2, <1>3, <1>4, <1>5, RestartEvents DEF Next

LEMMA EventsInvariant == Spec => []EventInv
<1>1. Init => EventInv /\ LinkInv
  BY InitEvents, InitLink
<1> QED BY <1>1, StepEvents, PTL DEF Spec

LEMMA OnePlaceImplies == EventInv => OnlyCommittedOnce
<1> SUFFICES ASSUME EventInv PROVE OnlyCommittedOnce
  OBVIOUS
<1>1. \A e : e \in Released <=> \E r \in Requests : pc[r] = "release" /\ e \in Held(r)
  BY ReleasedIff DEF EventInv
<1>2. Released \subseteq committed /\ Recorded \cap Released = {}
  BY <1>1 DEF EventInv, TxInv, TxOK, OnePlace
<1> QED BY <1>2 DEF EventInv, OnePlace, OnlyCommittedOnce

(* A write that rolled back, with its transaction or with a savepoint, is  *)
(* never audited, and one that committed has at most one row.              *)
THEOREM AuditsOnlyWhatCommitted == Spec => []OnlyCommittedOnce
BY EventsInvariant, OnePlaceImplies, PTL

(* A committed write's event is never lost between the transaction, the    *)
(* queue and the table, other than by the losses the ghost names.          *)
THEOREM LosesNoCommittedWrite == Spec => []NothingForgotten
<1>1. EventInv => NothingForgotten
  BY DEF EventInv
<1> QED BY <1>1, EventsInvariant, PTL

-----------------------------------------------------------------------------
(* The other variables.  Who has chainMu for an append is appending.       *)
ChainTyped ==
  /\ \A i \in Ids : rows[i] \in [event : Events, prev : SUBSET (1 .. lastId), hash : SUBSET (1 .. lastId)]
  /\ append \subseteq [event : Events, prev : SUBSET (1 .. lastId)]
  /\ chainMu \in {"free", "append", "relink"} /\ (chainMu = "append" => append # {})
  /\ purge \in {"idle", "relink", "write"} /\ plan \subseteq 1 .. lastId
  /\ unlinked \subseteq {"purge", "account", "misread"}

UsersTyped ==
  /\ users \subseteq Users /\ doomed \subseteq Users
  /\ flushing = {} \/ \E u \in Users : flushing = {u}

(* One transaction writes at a time: a new one waits for GateFree.         *)
OneWriter ==
  /\ \A q, r \in Requests : OpenTx(q) /\ OpenTx(r) => q = r
  /\ base \in [Requests -> SUBSET used] /\ gone \subseteq committed

Others == ChainTyped /\ UsersTyped /\ OneWriter

(* The hash an append reads folds in ids that were given out.              *)
LEMMA LastHashTyped ==
  ASSUME LockInv, ChainTyped
  PROVE  LastHash \subseteq 1 .. lastId
<1>1. CASE Ids = {}
  BY <1>1 DEF LastHash
<1>2. CASE Ids # {}
  <2> DEFINE m == CHOOSE i \in Ids : \A j \in Ids : j <= i
  <2>1. m \in Ids
    BY <1>2, HasMax DEF LockInv
  <2> HIDE DEF m
  <2>2. rows[m].hash \subseteq 1 .. lastId
    BY <2>1 DEF ChainTyped
  <2> QED BY <1>2, <2>2 DEF LastHash, m
<1> QED BY <1>1, <1>2

LEMMA ChainKept ==
  ASSUME ChainTyped, UNCHANGED <<rows, lastId, append, chainMu, purge, plan, unlinked>>
  PROVE  ChainTyped'
BY DEF ChainTyped, Ids

(* Rows that stay keep their types.                                        *)
LEMMA RowsLeave ==
  ASSUME ChainTyped, NEW S, rows' = Without(S), lastId' = lastId,
         UNCHANGED <<append, chainMu, plan>>,
         purge' \in {"idle", "relink", "write"}, unlinked' \subseteq {"purge", "account", "misread"}
  PROVE  ChainTyped'
<1>1. Ids' = Ids \ S /\ \A i \in Ids' : rows'[i] = rows[i]
  BY DEF Without, Ids
<1> QED BY <1>1 DEF ChainTyped

LEMMA LinkedTyped ==
  ASSUME ChainTyped, NEW S, S \subseteq 1 .. lastId, rows' = Linked(rows, S), lastId' = lastId,
         append' = {}, chainMu' = "free", purge' = "idle", plan' = {},
         unlinked' \subseteq {"purge", "account", "misread"}
  PROVE  ChainTyped'
<1>1. Ids' = Ids
  BY DEF Linked, Ids
<1>2. ASSUME NEW i \in Ids PROVE rows'[i] \in [event : Events, prev : SUBSET (1 .. lastId), hash : SUBSET (1 .. lastId)]
  <2>1. rows'[i] = [event |-> rows[i].event, prev |-> {j \in S : j < i}, hash |-> {j \in S : j <= i}]
    BY DEF Linked, Ids
  <2>2. rows[i].event \in Events
    BY DEF ChainTyped
  <2>3. {j \in S : j < i} \subseteq 1 .. lastId /\ {j \in S : j <= i} \subseteq 1 .. lastId
    OBVIOUS
  <2> DEFINE P == {j \in S : j < i}
             H == {j \in S : j <= i}
  <2> HIDE DEF P, H
  <2>4. rows'[i] = [event |-> rows[i].event, prev |-> P, hash |-> H] /\ P \subseteq 1 .. lastId /\ H \subseteq 1 .. lastId
    BY <2>1, <2>3 DEF P, H
  <2> QED BY <2>2, <2>4
<1> QED BY <1>1, <1>2 DEF ChainTyped

LEMMA InsertTyped ==
  ASSUME LockInv, ChainTyped, NEW a \in append, Insert(a)
  PROVE  ChainTyped'
<1>1. /\ lastId' = lastId + 1 /\ lastId \in Nat /\ Ids' = Ids \cup {lastId'}
      /\ append' = {} /\ chainMu' = "free" /\ UNCHANGED <<purge, plan, unlinked>>
  BY DEF Insert, Ids, LockInv, purger, ghosts
<1>2. 1 .. lastId \subseteq 1 .. lastId' /\ lastId' \in 1 .. lastId'
  BY <1>1
<1>3. a.event \in Events /\ a.prev \subseteq 1 .. lastId
  BY DEF ChainTyped
<1>4. ASSUME NEW i \in Ids'
      PROVE  rows'[i] \in [event : Events, prev : SUBSET (1 .. lastId'), hash : SUBSET (1 .. lastId')]
  <2>1. CASE i = lastId'
    <3>1. rows'[i] = [event |-> a.event, prev |-> a.prev, hash |-> a.prev \cup {lastId'}]
      BY <1>1, <2>1 DEF Insert
    <3> QED BY <1>2, <1>3, <3>1
  <2>2. CASE i # lastId'
    <3>1. i \in Ids /\ rows'[i] = rows[i]
      BY <1>1, <2>2 DEF Insert
    <3>2. rows[i] \in [event : Events, prev : SUBSET (1 .. lastId), hash : SUBSET (1 .. lastId)]
      BY <3>1 DEF ChainTyped
    <3> QED BY <1>2, <3>1, <3>2
  <2> QED BY <2>1, <2>2
<1>5. plan' \subseteq 1 .. lastId'
  BY <1>1, <1>2 DEF ChainTyped
<1> QED BY <1>1, <1>4, <1>5 DEF ChainTyped

LEMMA StartAppendTyped ==
  ASSUME LockInv, Typed, OnePlace, ChainTyped, NEW e \in Events, ReadLast(e) \/ ReadFails(e)
  PROVE  ChainTyped'
<1>1. PICK prev \in {LastHash, {}} : append' = {[event |-> e, prev |-> prev]}
  BY DEF ReadLast, ReadFails, StartAppend
<1>2. prev \subseteq 1 .. lastId
  BY LastHashTyped
<1>3. append' # {} /\ append' \subseteq [event : Events, prev : SUBSET (1 .. lastId)]
  BY <1>1, <1>2
<1>4. chainMu' = "append" /\ UNCHANGED <<rows, lastId, purge, plan>> /\ unlinked' \subseteq unlinked \cup {"misread"}
  BY DEF ReadLast, ReadFails, StartAppend, db, purger, ghosts
<1> QED BY <1>3, <1>4 DEF ChainTyped, Ids

LEMMA ChainStep ==
  ASSUME EventInv, ChainTyped, [Next]_vars
  PROVE  ChainTyped'
<1> USE DEF db, handlers, appender, deleter, purger, ghosts
<1>1. CASE UNCHANGED vars
  BY <1>1, ChainKept DEF vars
<1>2. ASSUME NEW r \in Requests, Serve(r) PROVE ChainTyped'
  <2>1. UNCHANGED <<rows, lastId, append, chainMu, purge, plan, unlinked>>
    BY <1>2 DEF Serve, Write, Savepoint, EndNested, RollbackTo, Rollback, Commit, Enqueue
  <2> QED BY <2>1, ChainKept
<1>3. CASE Persist
  <2>1. ASSUME NEW a \in append, InsertFails(a) PROVE ChainTyped'
    BY <2>1 DEF InsertFails, ChainTyped, Ids
  <2> QED BY <1>3, <2>1, InsertTyped, StartAppendTyped DEF Persist, EventInv
<1>4. CASE Delete
  <2>1. ASSUME NEW u \in Users, StartFlush(u) \/ DeleteFails(u) PROVE ChainTyped'
    BY <2>1, ChainKept DEF StartFlush, DeleteFails
  <2>2. ASSUME Flushed PROVE ChainTyped'
    BY <2>2, ChainKept DEF Flushed
  <2>3. ASSUME NEW u \in Users, DeleteUser(u) PROVE ChainTyped'
    <3> DEFINE cascade == {i \in Ids : Actor[rows[i].event] = u}
    <3>1. /\ rows' = Without(cascade) /\ UNCHANGED <<lastId, append, chainMu, plan, purge>>
          /\ unlinked' \subseteq unlinked \cup {"account"}
      BY <2>3 DEF DeleteUser
    <3> HIDE DEF cascade
    <3> QED BY <3>1, RowsLeave DEF ChainTyped
  <2> QED BY <1>4, <2>1, <2>2, <2>3 DEF Delete
<1>5. CASE Purge
  <2>1. ASSUME NEW k \in Ids, PurgeExpired(k) PROVE ChainTyped'
    <3>1. /\ rows' = Without(1 .. k) /\ UNCHANGED <<lastId, append, chainMu, plan>>
          /\ purge' = "relink" /\ unlinked' = unlinked \cup {"purge"}
      BY <2>1 DEF PurgeExpired
    <3> QED BY <3>1, RowsLeave DEF ChainTyped
  <2>2. CASE ReadChain
    BY <2>2 DEF ReadChain, ChainTyped, EventInv, LockInv, Ids
  <2>3. CASE WriteChain
    <3>1. append = {}
      BY <2>3 DEF WriteChain, EventInv, LockInv
    <3> QED BY <2>3, <3>1, LinkedTyped DEF WriteChain, ChainTyped
  <2>4. CASE RelinkFails
    BY <2>4 DEF RelinkFails, ChainTyped, Ids
  <2> QED BY <1>5, <2>1, <2>2, <2>3, <2>4 DEF Purge
<1>6. CASE Restart
  <2>1. Ids \subseteq 1 .. lastId
    BY DEF EventInv, LockInv
  <2> QED BY <1>6, <2>1, LinkedTyped DEF Restart
<1> QED BY <1>1, <1>2, <1>3, <1>4, <1>5, <1>6 DEF Next

LEMMA UsersStep ==
  ASSUME UsersTyped, [Next]_vars
  PROVE  UsersTyped'
<1> USE DEF db, handlers, appender, deleter, purger, ghosts, UsersTyped
<1>1. CASE UNCHANGED vars
  BY <1>1 DEF vars
<1>2. ASSUME NEW r \in Requests, Serve(r) PROVE UsersTyped'
  BY <1>2 DEF Serve, Write, Savepoint, EndNested, RollbackTo, Rollback, Commit, Enqueue
<1>3. CASE Persist
  BY <1>3 DEF Persist, ReadLast, ReadFails, StartAppend, Insert, InsertFails
<1>4. CASE Delete
  BY <1>4 DEF Delete, StartFlush, DeleteUser, DeleteFails, Flushed
<1>5. CASE Purge
  BY <1>5 DEF Purge, PurgeExpired, ReadChain, WriteChain, RelinkFails
<1>6. CASE Restart
  BY <1>6 DEF Restart
<1> QED BY <1>1, <1>2, <1>3, <1>4, <1>5, <1>6 DEF Next

LEMMA WriterStep ==
  ASSUME EventInv, OneWriter, [Next]_vars
  PROVE  OneWriter'
<1> USE DEF db, handlers, appender, deleter, purger, ghosts
<1>1. ASSUME UNCHANGED <<pc, base, used>>, committed \subseteq committed', gone' \subseteq committed' PROVE OneWriter'
  BY <1>1 DEF OneWriter, OpenTx
<1>2. CASE UNCHANGED vars
  BY <1>1, <1>2 DEF vars, OneWriter
<1>3. ASSUME NEW r \in Requests, Serve(r) PROVE OneWriter'
  <2>1. CASE \E e \in Events : Write(r, e)
    BY <2>1 DEF Write, OneWriter, OpenTx, GateFree, EventInv, Typed
  <2>2. CASE Savepoint(r)
    <3>1. data[r] \subseteq used
      BY DEF EventInv, TxInv, TxOK
    <3> QED BY <2>2, <3>1 DEF Savepoint, OneWriter, OpenTx, EventInv, Typed
  <2>3. CASE EndNested(r) \/ RollbackTo(r)
    BY <2>3 DEF EndNested, RollbackTo, OneWriter, OpenTx, EventInv, Typed
  <2>4. CASE Rollback(r) \/ Commit(r)
    BY <2>4 DEF Rollback, Commit, NoSavepoint, OneWriter, OpenTx, EventInv, Typed
  <2>5. CASE Enqueue(r)
    BY <2>5 DEF Enqueue, OneWriter, OpenTx, EventInv, Typed
  <2> QED BY <1>3, <2>1, <2>2, <2>3, <2>4, <2>5 DEF Serve
<1>4. CASE Persist
  <2>1. ASSUME NEW a \in append, InsertFails(a) PROVE OneWriter'
    <3>1. a.event \in committed
      BY DEF EventInv, OnePlace, Appending
    <3> QED BY <1>1, <2>1, <3>1 DEF InsertFails, OneWriter
  <2> QED BY <1>1, <1>4, <2>1 DEF Persist, ReadLast, ReadFails, StartAppend, Insert, OneWriter
<1>5. Recorded \subseteq committed
  BY DEF EventInv, OnePlace
<1>6. CASE Delete
  <2>1. ASSUME NEW u \in Users, DeleteUser(u) PROVE OneWriter'
    <3>1. gone' \subseteq gone \cup Recorded
      BY <2>1 DEF DeleteUser, Recorded
    <3> QED BY <1>1, <1>5, <2>1, <3>1 DEF DeleteUser, OneWriter
  <2> QED BY <1>1, <1>6, <2>1 DEF Delete, StartFlush, DeleteFails, Flushed, OneWriter
<1>7. CASE Purge
  <2>1. ASSUME NEW k \in Ids, PurgeExpired(k) PROVE OneWriter'
    <3>1. gone' \subseteq gone \cup Recorded
      BY <2>1 DEF PurgeExpired, Recorded
    <3> QED BY <1>1, <1>5, <2>1, <3>1 DEF PurgeExpired, OneWriter
  <2> QED BY <1>1, <1>7, <2>1 DEF Purge, ReadChain, WriteChain, RelinkFails, OneWriter
<1>8. CASE Restart
  BY <1>8 DEF Restart, OneWriter, OpenTx
<1> QED BY <1>2, <1>3, <1>4, <1>6, <1>7, <1>8 DEF Next

LEMMA OthersInvariant == Spec => [](EventInv /\ Others)
<1>1. Init => EventInv /\ LinkInv /\ Others
  <2>1. Init => ChainTyped /\ UsersTyped /\ OneWriter
    BY DEF Init, ChainTyped, UsersTyped, OneWriter, OpenTx, Ids
  <2> QED BY <2>1, InitEvents, InitLink DEF Others
<1>2. EventInv /\ LinkInv /\ Others /\ [Next]_vars => EventInv' /\ LinkInv' /\ Others'
  BY StepEvents, ChainStep, UsersStep, WriterStep DEF Others
<1> QED BY <1>1, <1>2, PTL DEF Spec

(* A set of at most one element has at most one element, counted.          *)
LEMMA AtMostOne ==
  ASSUME NEW S, \A x, y \in S : x = y
  PROVE  Cardinality(S) = IF S = {} THEN 0 ELSE 1
<1>1. CASE S = {}
  BY <1>1, FS_EmptySet
<1>2. CASE S # {}
  <2>1. PICK x \in S : S = {x}
    BY <1>2
  <2> QED BY <2>1, FS_Singleton
<1> QED BY <1>1, <1>2

(* Every reachable state has the types of its variables: one transaction   *)
(* writes, one append or re-link has chainMu, one deletion flushes.        *)
THEOREM TypeCorrect == Spec => []TypeOK
<1>1. ASSUME EventInv, Others PROVE TypeOK
  <2> USE <1>1 DEF EventInv, Others
  <2>1. pending \in [Requests -> Seq(used)]
    <3>1. ASSUME NEW r \in Requests PROVE pending[r] \in Seq(used)
      <4>1. pending[r] \in Seq(Events) /\ \A k \in 1 .. Len(pending[r]) : pending[r][k] \in used
        BY DEF TxInv, TxOK, Held, Elements, Typed
      <4> QED BY <4>1
    <3> QED BY <3>1 DEF Typed
  <2>2. data \in [Requests -> SUBSET used]
    BY DEF TxInv, TxOK, Typed
  <2>3. Cardinality(append) = IF chainMu = "append" THEN 1 ELSE 0
    BY AtMostOne DEF OnePlace, LockInv, ChainTyped
  <2>4. Cardinality(flushing) <= 1
    BY AtMostOne DEF UsersTyped
  <2>5. Cardinality({r \in Requests : pc[r] \in {"open", "nested"}}) <= 1
    <3> DEFINE Open == {r \in Requests : pc[r] \in {"open", "nested"}}
    <3>1. \A q, r \in Open : q = r
      BY DEF OneWriter, OpenTx
    <3> HIDE DEF Open
    <3>2. Cardinality(Open) <= 1
      BY <3>1, AtMostOne
    <3> QED BY <3>2 DEF Open
  <2>6. queued \subseteq used /\ gone \subseteq committed /\ committed \subseteq used /\ used \subseteq Events
    BY DEF OnePlace, OneWriter, Typed
  <2>7. flushing \subseteq Users
    BY DEF UsersTyped
  <2> QED BY <2>1, <2>2, <2>3, <2>4, <2>5, <2>6, <2>7
      DEF TypeOK, LockInv, Typed, ChainTyped, UsersTyped, OneWriter
<1> QED BY <1>1, OthersInvariant, PTL

=============================================================================
