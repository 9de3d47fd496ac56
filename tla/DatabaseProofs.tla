-------------------------- MODULE DatabaseProofs --------------------------
(***************************************************************************)
(* Proofs about the access to the database file: the gate in front of      *)
(* SQLite's write lock (WriteGate), the transactions behind it (WritePool) *)
(* and the migrations with their snapshots (Upgrade).                      *)
(***************************************************************************)
EXTENDS WritePool, Upgrade, SequenceTheorems, FiniteSetTheorems, TLAPS

-----------------------------------------------------------------------------
(* WriteGate, for every set of writers: the inductive invariant, mutual    *)
(* exclusion, the absence of lost wake-ups, the order of hand-overs, and   *)
(* that every step of the gate is a step of WriteLock.                     *)


-----------------------------------------------------------------------------
(* What the queue operations do to a queue without duplicates.             *)

LEMMA TailLemma ==
  ASSUME NEW S, NEW q \in Seq(S), q # <<>>, IsInjective(q)
  PROVE  /\ Head(q) \in S
         /\ Tail(q) \in Seq(S)
         /\ IsInjective(Tail(q))
         /\ Contains(q, Head(q))
         /\ \A v : Contains(Tail(q), v) <=> Contains(q, v) /\ v # Head(q)
<1>1. /\ Len(q) \in Nat /\ Len(q) >= 1 /\ DOMAIN q = 1..Len(q)
      /\ Tail(q) \in Seq(S)
      /\ Len(Tail(q)) = Len(q) - 1
      /\ DOMAIN Tail(q) = 1..(Len(q) - 1)
      /\ \A i \in 1..(Len(q) - 1) : Tail(q)[i] = q[i + 1]
      /\ Head(q) = q[1] /\ Head(q) \in S
  BY HeadTailProperties, LenProperties
<1>2. IsInjective(Tail(q))
  BY <1>1 DEF IsInjective
<1>3. ASSUME NEW v, Contains(Tail(q), v) PROVE Contains(q, v) /\ v # Head(q)
  <2>1. PICK i \in 1..(Len(q) - 1) : Tail(q)[i] = v
    BY <1>1, <1>3 DEF Contains
  <2>2. i + 1 \in 1..Len(q) /\ q[i + 1] = v /\ i + 1 # 1
    BY <1>1, <2>1
  <2> QED BY <1>1, <2>2 DEF Contains, IsInjective
<1>4. ASSUME NEW v, Contains(q, v), v # Head(q) PROVE Contains(Tail(q), v)
  <2>1. PICK i \in 1..Len(q) : q[i] = v
    BY <1>4 DEF Contains
  <2>2. i - 1 \in 1..(Len(q) - 1) /\ (i - 1) + 1 = i
    BY <1>1, <1>4, <2>1
  <2>3. Tail(q)[i - 1] = v
    BY <1>1, <2>1, <2>2
  <2> QED BY <1>1, <2>2, <2>3 DEF Contains
<1>5. Contains(q, Head(q))
  BY <1>1 DEF Contains
<1> QED BY <1>1, <1>2, <1>3, <1>4, <1>5

LEMMA InsertLemma ==
  ASSUME NEW S, NEW q \in Seq(S), NEW e \in S, NEW k \in 0..Len(q),
         IsInjective(q), ~Contains(q, e)
  PROVE  /\ InsertAt(q, k + 1, e) \in Seq(S)
         /\ IsInjective(InsertAt(q, k + 1, e))
         /\ \A v : Contains(InsertAt(q, k + 1, e), v) <=> Contains(q, v) \/ v = e
<1> DEFINE r == InsertAt(q, k + 1, e)
<1>1. Len(q) \in Nat /\ DOMAIN q = 1..Len(q) /\ k \in Nat /\ k <= Len(q)
  BY LenProperties
<1>2. /\ r \in Seq(S)
      /\ Len(r) = Len(q) + 1
      /\ \A i \in 1..(Len(q) + 1) :
           r[i] = IF i <= k THEN q[i] ELSE IF i = k + 1 THEN e ELSE q[i - 1]
  <2> DEFINE a == SubSeq(q, 1, k)
             b == SubSeq(q, k + 1, Len(q))
  <2>1. a \in Seq(S) /\ Len(a) = k /\ \A i \in 1..k : a[i] = q[i]
    <3>1. \A i \in 1..k : q[i] \in S
      BY <1>1, ElementOfSeq
    <3> QED BY <1>1, <3>1, SubSeqProperties
  <2>2. b \in Seq(S) /\ Len(b) = Len(q) - k /\ \A i \in 1..(Len(q) - k) : b[i] = q[k + i]
    <3>1. \A i \in (k + 1)..Len(q) : q[i] \in S
      BY <1>1, ElementOfSeq
    <3>2. b \in Seq(S) /\ Len(b) = IF k + 1 <= Len(q) THEN Len(q) - (k + 1) + 1 ELSE 0
      BY <1>1, <3>1, SubSeqProperties
    <3>3. \A i \in 1..(Len(q) - (k + 1) + 1) : b[i] = q[(k + 1) + i - 1]
      BY <1>1, <3>1, SubSeqProperties
    <3> HIDE DEF b
    <3>4. Len(b) = Len(q) - k
      <4>1. k + 1 <= Len(q) \/ k = Len(q)
        <5>1. \A m, n \in Nat : m <= n => m + 1 <= n \/ m = n
          OBVIOUS
        <5> QED BY <1>1, <5>1
      <4>2. CASE k + 1 <= Len(q)
        BY <1>1, <3>2, <4>2
      <4>3. CASE k = Len(q)
        <5>1. ~(k + 1 <= Len(q)) /\ Len(q) - k = 0
          BY <1>1, <4>3
        <5> QED BY <3>2, <5>1
      <4> QED BY <4>1, <4>2, <4>3
    <3>5. ASSUME NEW i \in 1..(Len(q) - k) PROVE b[i] = q[k + i]
      <4>1. i \in 1..(Len(q) - (k + 1) + 1) /\ (k + 1) + i - 1 = k + i
        BY <1>1
      <4> QED BY <3>3, <4>1
    <3> QED BY <3>2, <3>4, <3>5
  <2>3. (a \o <<e>>) \in Seq(S) /\ Len(a \o <<e>>) = k + 1
        /\ \A i \in 1..(k + 1) : (a \o <<e>>)[i] = IF i <= k THEN q[i] ELSE e
    BY <1>1, <2>1, ConcatProperties
  <2>4. r = (a \o <<e>>) \o b
    <3>1. (k + 1) - 1 = k
      BY <1>1
    <3> QED BY <3>1, Zenon DEF InsertAt
  <2>5. r \in Seq(S) /\ Len(r) = (k + 1) + (Len(q) - k)
    <3> HIDE DEF a, b, r
    <3>1. r \in Seq(S) /\ Len(r) = Len(a \o <<e>>) + Len(b)
      BY <2>2, <2>3, <2>4, ConcatProperties
    <3> QED BY <2>2, <2>3, <3>1
  <2>6. ASSUME NEW i \in 1..(Len(q) + 1)
        PROVE  r[i] = IF i <= k + 1 THEN (a \o <<e>>)[i] ELSE b[i - (k + 1)]
    <3> HIDE DEF a, b, r
    <3> QED BY <1>1, <2>2, <2>3, <2>4, ConcatProperties
  <2>7. Len(r) = Len(q) + 1
    BY <1>1, <2>5
  <2>8. ASSUME NEW i \in 1..(Len(q) + 1)
        PROVE r[i] = IF i <= k THEN q[i] ELSE IF i = k + 1 THEN e ELSE q[i - 1]
    <3> HIDE DEF a, b, r
    <3>1. CASE i <= k + 1
      BY <1>1, <2>6, <2>3, <3>1
    <3>2. CASE i > k + 1
      <4>1. i - (k + 1) \in 1..(Len(q) - k) /\ k + (i - (k + 1)) = i - 1
        BY <1>1, <3>2
      <4>2. b[i - (k + 1)] = q[i - 1]
        BY <2>2, <4>1
      <4> QED BY <1>1, <2>6, <3>2, <4>2
    <3> QED BY <1>1, <3>1, <3>2
  <2> QED BY <2>5, <2>7, <2>8
<1> HIDE DEF r
<1>3. DOMAIN r = 1..(Len(q) + 1)
  BY <1>2, LenProperties
<1>4. \A j \in 1..Len(q) : q[j] # e
  BY DEF Contains
<1>5. IsInjective(r)
  <2>1. ASSUME NEW i \in 1..(Len(q) + 1), NEW j \in 1..(Len(q) + 1), i < j
        PROVE  r[i] # r[j]
    <3> DEFINE f(n) == IF n <= k THEN n ELSE n - 1
    <3>1. \A n \in 1..(Len(q) + 1) :
            n # k + 1 => f(n) \in 1..Len(q) /\ r[n] = q[f(n)] /\ r[n] # e
      BY <1>1, <1>2, <1>4
    <3>2. r[k + 1] = e
      BY <1>1, <1>2
    <3>3. CASE i # k + 1 /\ j # k + 1
      <4>1. f(i) # f(j)
        BY <1>1, <3>3, <2>1
      <4>2. q[f(i)] # q[f(j)]
        BY <1>1, <3>1, <3>3, <4>1 DEF IsInjective
      <4> QED BY <3>1, <3>3, <4>2
    <3>4. CASE i = k + 1 \/ j = k + 1
      BY <1>1, <2>1, <3>1, <3>2, <3>4
    <3> QED BY <3>3, <3>4
  <2>2. \A i, j \in 1..(Len(q) + 1) : r[i] = r[j] => i = j
    BY <1>1, <2>1
  <2> QED BY <1>3, <2>2 DEF IsInjective
<1>6. ASSUME NEW v, Contains(r, v) PROVE Contains(q, v) \/ v = e
  <2>1. PICK i \in 1..(Len(q) + 1) : r[i] = v
    BY <1>2, <1>6 DEF Contains
  <2> QED BY <1>1, <1>2, <2>1 DEF Contains
<1>7. ASSUME NEW v, Contains(q, v) PROVE Contains(r, v)
  <2>1. PICK i \in 1..Len(q) : q[i] = v
    BY <1>7 DEF Contains
  <2>2. CASE i <= k
    BY <1>1, <1>2, <2>1, <2>2 DEF Contains
  <2>3. CASE i > k
    <3>1. i + 1 \in 1..(Len(q) + 1) /\ r[i + 1] = v
      BY <1>1, <1>2, <2>1, <2>3
    <3> QED BY <1>2, <3>1 DEF Contains
  <2> QED BY <1>1, <2>2, <2>3
<1>8. Contains(r, e)
  <2>1. k + 1 \in 1..Len(r) /\ r[k + 1] = e
    BY <1>1, <1>2
  <2> QED BY <2>1 DEF Contains
<1> QED BY <1>2, <1>5, <1>6, <1>7, <1>8 DEF r

LEMMA RemoveLemma ==
  ASSUME NEW S, NEW q \in Seq(S), NEW i \in 1..Len(q), IsInjective(q)
  PROVE  /\ RemoveAt(q, i) \in Seq(S)
         /\ IsInjective(RemoveAt(q, i))
         /\ \A v : Contains(RemoveAt(q, i), v) <=> Contains(q, v) /\ v # q[i]
<1> DEFINE r == RemoveAt(q, i)
           a == SubSeq(q, 1, i - 1)
           b == SubSeq(q, i + 1, Len(q))
<1>1. Len(q) \in Nat /\ DOMAIN q = 1..Len(q) /\ i \in Nat /\ 1 <= i /\ i <= Len(q)
  BY LenProperties
<1>2. a \in Seq(S) /\ Len(a) = i - 1 /\ \A j \in 1..(i - 1) : a[j] = q[j]
  <2>1. \A j \in 1..(i - 1) : q[j] \in S
    BY <1>1, ElementOfSeq
  <2> QED BY <1>1, <2>1, SubSeqProperties
<1>3. b \in Seq(S) /\ Len(b) = Len(q) - i /\ \A j \in 1..(Len(q) - i) : b[j] = q[i + j]
  <2>1. \A j \in (i + 1)..Len(q) : q[j] \in S
    BY <1>1, ElementOfSeq
  <2>2. b \in Seq(S) /\ Len(b) = IF i + 1 <= Len(q) THEN Len(q) - (i + 1) + 1 ELSE 0
    BY <1>1, <2>1, SubSeqProperties
  <2>3. \A j \in 1..(Len(q) - (i + 1) + 1) : b[j] = q[(i + 1) + j - 1]
    BY <1>1, <2>1, SubSeqProperties
  <2> HIDE DEF b
  <2>4. Len(b) = Len(q) - i
    <3>1. \A m, n \in Nat : m <= n => m + 1 <= n \/ m = n
      OBVIOUS
    <3>2. CASE i + 1 <= Len(q)
      BY <1>1, <2>2, <3>2
    <3>3. CASE i = Len(q)
      <4>1. ~(i + 1 <= Len(q)) /\ Len(q) - i = 0
        BY <1>1, <3>3
      <4> QED BY <2>2, <4>1
    <3> QED BY <1>1, <3>1, <3>2, <3>3
  <2>5. ASSUME NEW j \in 1..(Len(q) - i) PROVE b[j] = q[i + j]
    <3>1. j \in 1..(Len(q) - (i + 1) + 1) /\ (i + 1) + j - 1 = i + j
      BY <1>1
    <3> QED BY <2>3, <3>1
  <2> QED BY <2>2, <2>4, <2>5
<1>4. r = a \o b
  BY DEF RemoveAt
<1> HIDE DEF a, b, r
<1>5. r \in Seq(S) /\ Len(r) = Len(q) - 1
  <2>1. r \in Seq(S) /\ Len(r) = Len(a) + Len(b)
    BY <1>2, <1>3, <1>4, ConcatProperties
  <2> QED BY <1>1, <1>2, <1>3, <2>1
<1>6. ASSUME NEW j \in 1..(Len(q) - 1) PROVE r[j] = q[IF j < i THEN j ELSE j + 1]
  <2>1. j \in 1..(Len(a) + Len(b))
    BY <1>1, <1>2, <1>3
  <2>2. r[j] = IF j <= i - 1 THEN a[j] ELSE b[j - (i - 1)]
    BY <1>2, <1>3, <1>4, <2>1, ConcatProperties
  <2>3. CASE j < i
    BY <1>1, <1>2, <2>2, <2>3
  <2>4. CASE j >= i
    <3>1. j - (i - 1) \in 1..(Len(q) - i) /\ i + (j - (i - 1)) = j + 1
      BY <1>1, <2>4
    <3>2. ~(j <= i - 1) /\ ~(j < i)
      BY <1>1, <2>4
    <3> QED BY <1>3, <2>2, <3>1, <3>2
  <2> QED BY <1>1, <2>3, <2>4
<1>7. DOMAIN r = 1..(Len(q) - 1)
  BY <1>5, LenProperties
<1>8. IsInjective(r)
  <2>1. ASSUME NEW j \in 1..(Len(q) - 1), NEW k \in 1..(Len(q) - 1), r[j] = r[k]
        PROVE  j = k
    <3> DEFINE f(n) == IF n < i THEN n ELSE n + 1
    <3>1. f(j) \in 1..Len(q) /\ f(k) \in 1..Len(q) /\ (f(j) = f(k) => j = k)
      BY <1>1
    <3>2. q[f(j)] = q[f(k)]
      BY <1>6, <2>1
    <3> QED BY <1>1, <3>1, <3>2 DEF IsInjective
  <2> QED BY <1>7, <2>1 DEF IsInjective
<1>9. ASSUME NEW v, Contains(r, v) PROVE Contains(q, v) /\ v # q[i]
  <2>1. PICK j \in 1..(Len(q) - 1) : r[j] = v
    BY <1>5, <1>9 DEF Contains
  <2> DEFINE n == IF j < i THEN j ELSE j + 1
  <2>2. n \in 1..Len(q) /\ n # i
    BY <1>1
  <2>3. q[n] = v
    BY <1>6, <2>1
  <2> HIDE DEF n
  <2> QED BY <1>1, <2>2, <2>3 DEF Contains, IsInjective
<1>10. ASSUME NEW v, Contains(q, v), v # q[i] PROVE Contains(r, v)
  <2>1. PICK j \in 1..Len(q) : q[j] = v
    BY <1>10 DEF Contains
  <2>2. CASE j < i
    <3>1. j \in 1..(Len(q) - 1) /\ r[j] = q[j]
      BY <1>1, <1>6, <2>2
    <3> QED BY <1>5, <2>1, <3>1 DEF Contains
  <2>3. CASE j > i
    <3>1. j - 1 \in 1..(Len(q) - 1) /\ (j - 1) + 1 = j /\ ~(j - 1 < i)
      BY <1>1, <2>3
    <3>2. r[j - 1] = q[j]
      BY <1>6, <3>1
    <3> QED BY <1>5, <2>1, <3>1, <3>2 DEF Contains
  <2> QED BY <1>1, <1>10, <2>1, <2>2, <2>3
<1> QED BY <1>5, <1>8, <1>9, <1>10 DEF r

(* The two ends of the queue are places to insert at.                      *)
LEMMA EndsLemma ==
  ASSUME NEW S, NEW q \in Seq(S), NEW e \in S
  PROVE  /\ Append(q, e) = InsertAt(q, Len(q) + 1, e)
         /\ <<e>> \o q = InsertAt(q, 0 + 1, e)
<1>1. Len(q) \in Nat
  BY LenProperties
<1>2. Append(q, e) = InsertAt(q, Len(q) + 1, e)
  <2>1. SubSeq(q, 1, (Len(q) + 1) - 1) = q
    BY <1>1, SubSeqFull
  <2>2. SubSeq(q, Len(q) + 1, Len(q)) = <<>>
    BY <1>1, SubSeqEmpty
  <2>3. q \o <<e>> \in Seq(S)
    BY ConcatProperties
  <2>4. (q \o <<e>>) \o <<>> = q \o <<e>>
    BY <2>3, ConcatEmptySeq
  <2> QED BY <2>1, <2>2, <2>4, AppendIsConcat DEF InsertAt
<1>3. <<e>> \o q = InsertAt(q, 0 + 1, e)
  <2>1. SubSeq(q, 1, (0 + 1) - 1) = <<>>
    BY SubSeqEmpty
  <2>2. SubSeq(q, 0 + 1, Len(q)) = q
    BY SubSeqFull
  <2>3. <<>> \o <<e>> = <<e>>
    BY ConcatEmptySeq
  <2> QED BY <2>1, <2>2, <2>3 DEF InsertAt
<1> QED BY <1>2, <1>3

(* Starvation mode is only on while the gate is held, so a newcomer that   *)
(* queues because of it is never parked in front of a free gate.           *)
StarvingIsHeld == starving => held

-----------------------------------------------------------------------------
(* The inductive invariant: the properties themselves are mutually         *)
(* inductive.  Mutual exclusion needs QueueIsParked, or a hand-over could  *)
(* grant the gate to a writer that already has it; NoLostWakeup needs      *)
(* StarvingIsHeld, or a newcomer could park in front of a free gate.       *)
IInv ==
  /\ TypeOK
  /\ MutualExclusion
  /\ QueueIsParked
  /\ NoLostWakeup
  /\ StarvingIsHeld

USE DEF Status

LEMMA InitIInv == Init => IInv
<1> SUFFICES ASSUME Init PROVE IInv
  OBVIOUS
<1>1. waiters \in Seq(Writers) /\ Len(waiters) = 0
  BY EmptySeq DEF Init
<1>2. TypeOK
  BY <1>1 DEF Init, TypeOK, Waiting
<1>3. IsInjective(waiters) /\ \A w : ~Contains(waiters, w)
  BY <1>1 DEF Init, IsInjective, Contains
<1> QED BY <1>2, <1>3 DEF Init, IInv, MutualExclusion, Admitted, QueueIsParked, NoLostWakeup, StarvingIsHeld

(* A free gate is passed on to the front of the queue.                     *)
LEMMA WakeFrontLemma ==
  ASSUME NEW w \in Writers, TypeOK, QueueIsParked, st[w] # "queued",
         WakeFront([st EXCEPT ![w] = "idle"])
  PROVE  /\ waiters' \in Seq(Writers)
         /\ st' \in [Writers -> Status]
         /\ QueueIsParked'
         /\ \A v \in Writers : v # w /\ st[v] # "queued" => st'[v] = st[v]
         /\ st'[w] = "idle"
         /\ \A v \in Writers : st[v] = "queued" => st'[v] \in {"queued", "woken"}
         /\ waiters' # <<>> => \E v \in Writers : st'[v] = "woken"
<1>1. CASE waiters = <<>>
  <2>1. st' = [st EXCEPT ![w] = "idle"] /\ waiters' = waiters
    BY <1>1 DEF WakeFront
  <2>2. QueueIsParked'
    BY <2>1 DEF QueueIsParked, TypeOK
  <2> QED BY <1>1, <2>1, <2>2 DEF TypeOK
<1>2. CASE waiters # <<>>
  <2> DEFINE f == Head(waiters)
  <2>1. st' = [st EXCEPT ![w] = "idle", ![f] = "woken"] /\ waiters' = Tail(waiters)
    BY <1>2 DEF WakeFront
  <2>2. /\ f \in Writers /\ Tail(waiters) \in Seq(Writers)
        /\ IsInjective(Tail(waiters)) /\ Contains(waiters, f)
        /\ \A v : Contains(Tail(waiters), v) <=> Contains(waiters, v) /\ v # f
    BY <1>2, TailLemma DEF TypeOK, QueueIsParked
  <2> HIDE DEF f
  <2>3. st[f] = "queued" /\ f # w
    BY <2>2 DEF QueueIsParked
  <2>4. /\ st' \in [Writers -> Status]
        /\ st'[f] = "woken" /\ st'[w] = "idle"
        /\ \A v \in Writers : v # w /\ v # f => st'[v] = st[v]
    BY <2>1, <2>2, <2>3 DEF TypeOK
  <2>5. QueueIsParked'
    BY <2>1, <2>2, <2>3, <2>4 DEF QueueIsParked
  <2> QED BY <2>1, <2>2, <2>3, <2>4, <2>5
<1> QED BY <1>1, <1>2

(* Releasing the gate, by its owner or by a writer it was handed to.       *)
LEMMA ReleaseLemma ==
  ASSUME IInv, NEW w \in Writers, w \in Admitted, ReleaseLocked(w)
  PROVE  IInv'
<1> USE DEF IInv
<1>1. /\ held /\ \A v \in Writers : st[v] \in {"granted", "holding"} <=> v = w
      /\ st[w] # "queued"
  BY DEF MutualExclusion, Admitted
<1>2. CASE HandOver(w)
  <2> DEFINE f == Head(waiters)
  <2>1. /\ waiters # <<>>
        /\ st' = [st EXCEPT ![w] = "idle", ![f] = "granted"]
        /\ waiters' = Tail(waiters)
        /\ starving' \in BOOLEAN
        /\ overdue' = overdue \ {w, f}
        /\ since' = [v \in Writers |-> IF v \in {w, f} THEN {} ELSE since[v] \ {w, f}]
        /\ held' = held
    BY <1>2 DEF HandOver, EndWait
  <2>2. /\ f \in Writers /\ Tail(waiters) \in Seq(Writers)
        /\ IsInjective(Tail(waiters)) /\ Contains(waiters, f)
        /\ \A v : Contains(Tail(waiters), v) <=> Contains(waiters, v) /\ v # f
    BY <2>1, TailLemma DEF TypeOK, QueueIsParked
  <2> HIDE DEF f
  <2>3. st[f] = "queued" /\ f # w
    BY <1>1, <2>2 DEF QueueIsParked
  <2>4. /\ st' \in [Writers -> Status]
        /\ st'[f] = "granted" /\ st'[w] = "idle"
        /\ \A v \in Writers : v # w /\ v # f => st'[v] = st[v]
    BY <2>1, <2>2, <2>3 DEF TypeOK
  <2>5. TypeOK'
    BY <2>1, <2>2, <2>4 DEF TypeOK, Waiting
  <2>6. MutualExclusion'
    BY <1>1, <2>1, <2>2, <2>4 DEF MutualExclusion, Admitted
  <2>7. QueueIsParked'
    <3>1. \A v \in Writers : st[v] = "queued" <=> Contains(waiters, v)
      BY DEF QueueIsParked
    <3>2. \A v \in Writers : st'[v] = "queued" <=> Contains(Tail(waiters), v)
      BY <1>1, <2>2, <2>3, <2>4, <3>1
    <3> QED BY <2>1, <2>2, <3>2 DEF QueueIsParked
  <2>8. NoLostWakeup' /\ StarvingIsHeld'
    BY <1>1, <2>1 DEF NoLostWakeup, StarvingIsHeld
  <2> QED BY <2>5, <2>6, <2>7, <2>8
<1>3. CASE Free(w)
  <2>1. /\ starving' = FALSE /\ held' = FALSE
        /\ WakeFront([st EXCEPT ![w] = "idle"])
        /\ overdue' = overdue \ {w}
        /\ since' = [v \in Writers |-> IF v \in {w} THEN {} ELSE since[v] \ {w}]
    BY <1>3 DEF Free, EndWait
  <2>2. /\ waiters' \in Seq(Writers)
        /\ st' \in [Writers -> Status]
        /\ QueueIsParked'
        /\ \A v \in Writers : v # w /\ st[v] # "queued" => st'[v] = st[v]
        /\ st'[w] = "idle"
        /\ \A v \in Writers : st[v] = "queued" => st'[v] \in {"queued", "woken"}
        /\ waiters' # <<>> => \E v \in Writers : st'[v] = "woken"
    BY <1>1, <2>1, WakeFrontLemma
  <2>3. TypeOK'
    <3>1. since' \in [Writers -> SUBSET Writers]
      BY <2>1 DEF TypeOK
    <3>2. overdue' \subseteq Waiting'
      BY <2>1, <2>2 DEF TypeOK, Waiting
    <3> QED BY <2>1, <2>2, <3>1, <3>2 DEF TypeOK
  <2>4. MutualExclusion'
    BY <1>1, <2>1, <2>2 DEF MutualExclusion, Admitted
  <2>5. NoLostWakeup' /\ StarvingIsHeld'
    BY <2>1, <2>2 DEF NoLostWakeup, StarvingIsHeld
  <2> QED BY <2>2, <2>3, <2>4, <2>5
<1> QED BY <1>2, <1>3 DEF ReleaseLocked

(* A queued writer leaves the queue.                                       *)
LEMMA GiveUpQueuedLemma ==
  ASSUME IInv, NEW w \in Writers, GiveUpQueued(w)
  PROVE  IInv'
<1> USE DEF IInv
<1>1. PICK i \in 1..Len(waiters) : waiters[i] = w /\ waiters' = RemoveAt(waiters, i)
  BY DEF GiveUpQueued
<1>2. /\ st[w] = "queued"
      /\ st' = [st EXCEPT ![w] = "idle"]
      /\ overdue' = overdue \ {w}
      /\ since' = [v \in Writers |-> IF v \in {w} THEN {} ELSE since[v] \ {w}]
      /\ held' = held /\ starving' = starving
  BY DEF GiveUpQueued, EndWait
<1>3. /\ waiters' \in Seq(Writers)
      /\ IsInjective(waiters')
      /\ \A v : Contains(waiters', v) <=> Contains(waiters, v) /\ v # w
  BY <1>1, RemoveLemma DEF TypeOK, QueueIsParked
<1>4. /\ st' \in [Writers -> Status]
      /\ st'[w] = "idle"
      /\ \A v \in Writers : v # w => st'[v] = st[v]
  BY <1>2 DEF TypeOK
<1>5. TypeOK'
  BY <1>2, <1>3, <1>4 DEF TypeOK, Waiting
<1>6. MutualExclusion'
  BY <1>2, <1>4 DEF MutualExclusion, Admitted
<1>7. QueueIsParked'
  <2>1. \A v \in Writers : st[v] = "queued" <=> Contains(waiters, v)
    BY DEF QueueIsParked
  <2>2. \A v \in Writers : st'[v] = "queued" <=> Contains(waiters', v)
    BY <1>3, <1>4, <2>1
  <2> QED BY <1>3, <2>2 DEF QueueIsParked
<1>8. waiters # <<>>
  BY <1>1, EmptySeq DEF TypeOK
<1>9. NoLostWakeup' /\ StarvingIsHeld'
  BY <1>2, <1>4, <1>8 DEF NoLostWakeup, StarvingIsHeld
<1> QED BY <1>5, <1>6, <1>7, <1>9

(* A woken writer gives up: if the gate is free the next one is woken.     *)
LEMMA GiveUpWokenLemma ==
  ASSUME IInv, NEW w \in Writers, GiveUpWoken(w)
  PROVE  IInv'
<1> USE DEF IInv
<1>1. /\ st[w] = "woken"
      /\ overdue' = overdue \ {w}
      /\ since' = [v \in Writers |-> IF v \in {w} THEN {} ELSE since[v] \ {w}]
      /\ held' = held /\ starving' = starving
  BY DEF GiveUpWoken, EndWait
<1>2. since' \in [Writers -> SUBSET Writers]
  BY <1>1 DEF TypeOK
<1>3. CASE held
  <2>1. st' = [st EXCEPT ![w] = "idle"] /\ waiters' = waiters
    BY <1>3 DEF GiveUpWoken
  <2>2. TypeOK'
    BY <1>1, <1>2, <2>1 DEF TypeOK, Waiting
  <2>3. MutualExclusion'
    BY <1>1, <2>1 DEF MutualExclusion, Admitted, TypeOK
  <2>4. QueueIsParked'
    BY <1>1, <2>1 DEF QueueIsParked, TypeOK
  <2> QED BY <1>1, <1>3, <2>2, <2>3, <2>4 DEF NoLostWakeup, StarvingIsHeld
<1>4. CASE ~held
  <2>1. WakeFront([st EXCEPT ![w] = "idle"])
    BY <1>4 DEF GiveUpWoken
  <2>2. /\ waiters' \in Seq(Writers)
        /\ st' \in [Writers -> Status]
        /\ QueueIsParked'
        /\ \A v \in Writers : v # w /\ st[v] # "queued" => st'[v] = st[v]
        /\ st'[w] = "idle"
        /\ \A v \in Writers : st[v] = "queued" => st'[v] \in {"queued", "woken"}
        /\ waiters' # <<>> => \E v \in Writers : st'[v] = "woken"
    BY <1>1, <2>1, WakeFrontLemma
  <2>3. TypeOK'
    <3>1. overdue' \subseteq Waiting'
      BY <1>1, <2>2 DEF TypeOK, Waiting
    <3> QED BY <1>1, <1>2, <2>2, <3>1 DEF TypeOK
  <2>4. MutualExclusion'
    BY <1>1, <1>4, <2>2 DEF MutualExclusion, Admitted
  <2> QED BY <1>1, <2>2, <2>3, <2>4 DEF NoLostWakeup, StarvingIsHeld
<1> QED BY <1>3, <1>4

(* A writer joins the queue, at either end or behind the priority writers. *)
LEMMA JoinLemma ==
  ASSUME IInv, NEW w \in Writers, st[w] \in {"idle", "woken"}, held,
         NEW k \in 0..Len(waiters), waiters' = InsertAt(waiters, k + 1, w),
         st' = [st EXCEPT ![w] = "queued"],
         starving' \in BOOLEAN, UNCHANGED <<held, overdue>>,
         since' \in [Writers -> SUBSET Writers]
  PROVE  IInv'
<1> USE DEF IInv
<1>1. ~Contains(waiters, w)
  BY DEF QueueIsParked
<1>2. /\ waiters' \in Seq(Writers)
      /\ IsInjective(waiters')
      /\ \A v : Contains(waiters', v) <=> Contains(waiters, v) \/ v = w
  BY <1>1, InsertLemma DEF TypeOK, QueueIsParked
<1>3. /\ st' \in [Writers -> Status]
      /\ st'[w] = "queued"
      /\ \A v \in Writers : v # w => st'[v] = st[v]
  BY DEF TypeOK
<1>4. TypeOK'
  BY <1>2, <1>3 DEF TypeOK, Waiting
<1>5. MutualExclusion'
  BY <1>3 DEF MutualExclusion, Admitted
<1>6. QueueIsParked'
  <2>1. \A v \in Writers : st[v] = "queued" <=> Contains(waiters, v)
    BY DEF QueueIsParked
  <2>2. \A v \in Writers : st'[v] = "queued" <=> Contains(waiters', v)
    BY <1>2, <1>3, <2>1
  <2> QED BY <1>2, <2>2 DEF QueueIsParked
<1>7. NoLostWakeup' /\ StarvingIsHeld'
  BY DEF NoLostWakeup, StarvingIsHeld
<1> QED BY <1>4, <1>5, <1>6, <1>7

LEMMA StepLemma ==
  ASSUME IInv, NEW w \in Writers, Step(w)
  PROVE  IInv'
<1>1. CASE TakeFree(w)
  <2>1. TypeOK'
    BY <1>1 DEF IInv, TakeFree, TypeOK, Waiting
  <2>2. MutualExclusion'
    BY <1>1 DEF IInv, TakeFree, TypeOK, MutualExclusion, Admitted
  <2>3. QueueIsParked'
    BY <1>1 DEF IInv, TakeFree, TypeOK, QueueIsParked
  <2>4. NoLostWakeup' /\ StarvingIsHeld'
    BY <1>1 DEF TakeFree, NoLostWakeup, StarvingIsHeld
  <2> QED BY <2>1, <2>2, <2>3, <2>4 DEF IInv
<1>2. CASE Enqueue(w)
  <2>1. held
    BY <1>2 DEF Enqueue, IInv, StarvingIsHeld
  <2>2. \E k \in 0..Len(waiters) : waiters' = InsertAt(waiters, k + 1, w)
    <3>1. Len(waiters) \in 0..Len(waiters)
      BY LenProperties DEF IInv, TypeOK
    <3> QED BY <1>2, <3>1, EndsLemma DEF Enqueue, EnqueueNew, IInv, TypeOK
  <2>3. since' \in [Writers -> SUBSET Writers] /\ starving' \in BOOLEAN
    BY <1>2 DEF Enqueue, IInv, TypeOK, Waiting
  <2> QED BY <1>2, <2>1, <2>2, <2>3, JoinLemma DEF Enqueue
<1>3. CASE ReceiveGrant(w)
  <2>1. TypeOK'
    BY <1>3 DEF IInv, ReceiveGrant, TypeOK, Waiting
  <2>2. MutualExclusion'
    BY <1>3 DEF IInv, ReceiveGrant, TypeOK, MutualExclusion, Admitted
  <2>3. QueueIsParked'
    BY <1>3 DEF IInv, ReceiveGrant, TypeOK, QueueIsParked
  <2>4. NoLostWakeup' /\ StarvingIsHeld'
    BY <1>3 DEF IInv, ReceiveGrant, TypeOK, NoLostWakeup, StarvingIsHeld
  <2> QED BY <2>1, <2>2, <2>3, <2>4 DEF IInv
<1>4. CASE WinRace(w)
  <2>1. TypeOK'
    BY <1>4 DEF IInv, WinRace, EndWait, TypeOK, Waiting
  <2>2. MutualExclusion'
    BY <1>4 DEF IInv, WinRace, TypeOK, MutualExclusion, Admitted
  <2>3. QueueIsParked'
    BY <1>4 DEF IInv, WinRace, TypeOK, QueueIsParked
  <2>4. NoLostWakeup' /\ StarvingIsHeld'
    BY <1>4 DEF WinRace, NoLostWakeup, StarvingIsHeld
  <2> QED BY <2>1, <2>2, <2>3, <2>4 DEF IInv
<1>5. CASE LoseRace(w)
  <2>1. 0 \in 0..Len(waiters) /\ waiters' = InsertAt(waiters, 0 + 1, w)
    BY <1>5, LenProperties, EndsLemma DEF LoseRace, EnqueueFront, IInv, TypeOK
  <2>2. since' \in [Writers -> SUBSET Writers] /\ starving' \in BOOLEAN
    BY <1>5 DEF LoseRace, IInv, TypeOK
  <2> QED BY <1>5, <2>1, <2>2, JoinLemma DEF LoseRace
<1>6. CASE GiveUp(w)
  <2>1. CASE GiveUpQueued(w)
    BY <2>1, GiveUpQueuedLemma
  <2>2. CASE GiveUpGranted(w)
    BY <2>2, ReleaseLemma DEF GiveUpGranted, Admitted
  <2>3. CASE GiveUpWoken(w)
    BY <2>3, GiveUpWokenLemma
  <2> QED BY <1>6, <2>1, <2>2, <2>3 DEF GiveUp
<1>7. CASE Release(w)
  BY <1>7, ReleaseLemma DEF Release, Admitted
<1>8. CASE Age(w)
  <2>1. TypeOK'
    BY <1>8 DEF IInv, Age, TypeOK, Waiting
  <2> QED BY <1>8, <2>1 DEF IInv, Age, MutualExclusion, Admitted, QueueIsParked, NoLostWakeup, StarvingIsHeld
<1> QED BY <1>1, <1>2, <1>3, <1>4, <1>5, <1>6, <1>7, <1>8 DEF Step

LEMMA Inductive == IInv /\ [Next]_vars => IInv'
<1> SUFFICES ASSUME IInv, [Next]_vars PROVE IInv'
  OBVIOUS
<1>1. CASE Next
  BY <1>1, StepLemma DEF Next
<1>2. CASE UNCHANGED vars
  BY <1>2 DEF vars, IInv, TypeOK, Waiting, MutualExclusion, Admitted, QueueIsParked, NoLostWakeup, StarvingIsHeld
<1> QED BY <1>1, <1>2

-----------------------------------------------------------------------------
(* The theorems.                                                           *)

(* The inductive invariant holds in every behaviour of the gate, whatever  *)
(* the writers, their priorities and their patience.                       *)
THEOREM Invariance == Spec => []IInv
BY InitIInv, Inductive, PTL DEF Spec

(* The state of the gate is well typed, and only waiters are overdue.      *)
THEOREM TypeCorrect == Spec => []TypeOK
<1>1. IInv => TypeOK
  BY DEF IInv
<1> QED BY <1>1, Invariance, PTL

(* acquire never admits two writers, and held is true exactly while one is *)
(* admitted: no interleaving of hand-overs, lost races, time-outs and      *)
(* cancelled contexts leaks the gate or doubles it.                        *)
THEOREM OneWriterAtATime == Spec => []MutualExclusion
<1>1. IInv => MutualExclusion
  BY DEF IInv
<1> QED BY <1>1, Invariance, PTL

(* The queue is exactly the parked writers.                                *)
THEOREM QueueExact == Spec => []QueueIsParked
<1>1. IInv => QueueIsParked
  BY DEF IInv
<1> QED BY <1>1, Invariance, PTL

(* A parked writer is never forgotten: somebody holds the gate or somebody *)
(* woken is about to compete for it.                                       *)
THEOREM WakeupsAreNotLost == Spec => []NoLostWakeup
<1>1. IInv => NoLostWakeup
  BY DEF IInv
<1> QED BY <1>1, Invariance, PTL

(* Who can become admitted in a step, and what the step does to the others.*)
LEMMA AdmissionLemma ==
  ASSUME IInv, NEW w \in Writers, Step(w)
  PROVE  \/ /\ ~held /\ ~starving
            /\ Admitted' = {w} /\ Waiting' = Waiting \ {w}
         \/ /\ held /\ waiters # <<>> /\ starving
            /\ Admitted' = {Head(waiters)} /\ Head(waiters) \in Waiting
            /\ Waiting' = Waiting \ {Head(waiters)}
         \/ /\ Admitted # {} /\ Admitted' = {}
            /\ Waiting' = Waiting
         \/ /\ Admitted' = Admitted
            /\ \/ Waiting' = Waiting
               \/ w \notin Admitted \cup Waiting /\ Waiting' = Waiting \cup {w}
               \/ w \in Waiting /\ Waiting' = Waiting \ {w}
<1> USE DEF IInv
<1>0. \A v \in Writers : st'[v] \in Status /\ st[v] \in Status
  BY StepLemma DEF TypeOK
<1>1. CASE TakeFree(w)
  BY <1>1, <1>0 DEF TakeFree, MutualExclusion, Admitted, Waiting, TypeOK
<1>2. CASE Enqueue(w)
  BY <1>2, <1>0 DEF Enqueue, Admitted, Waiting, TypeOK
<1>3. CASE ReceiveGrant(w)
  BY <1>3, <1>0 DEF ReceiveGrant, Admitted, Waiting, TypeOK
<1>4. CASE WinRace(w)
  BY <1>4, <1>0 DEF WinRace, MutualExclusion, StarvingIsHeld, Admitted, Waiting, TypeOK
<1>5. CASE LoseRace(w)
  BY <1>5, <1>0 DEF LoseRace, Admitted, Waiting, TypeOK
<1>6. CASE st[w] \in {"granted", "holding"} /\ ReleaseLocked(w)
  <2>0. held /\ \A v \in Writers : st[v] \in {"granted", "holding"} <=> v = w
    BY <1>6 DEF MutualExclusion, Admitted
  <2>1. CASE HandOver(w)
    <3> DEFINE f == Head(waiters)
    <3>1. starving /\ waiters # <<>> /\ st' = [st EXCEPT ![w] = "idle", ![f] = "granted"]
      BY <2>1 DEF HandOver
    <3>2. f \in Writers /\ Contains(waiters, f)
      BY <3>1, TailLemma DEF TypeOK, QueueIsParked
    <3> HIDE DEF f
    <3>3. st[f] = "queued"
      BY <3>2 DEF QueueIsParked
    <3>4. Admitted' = {f} /\ Waiting' = Waiting \ {f} /\ f \in Waiting
      BY <2>0, <3>1, <3>2, <3>3 DEF Admitted, Waiting, TypeOK
    <3> QED BY <2>0, <3>1, <3>4 DEF f
  <2>2. CASE Free(w)
    <3>1. WakeFront([st EXCEPT ![w] = "idle"]) /\ st[w] # "queued"
      BY <2>2, <1>6 DEF Free
    <3>2. /\ \A v \in Writers : v # w /\ st[v] # "queued" => st'[v] = st[v]
          /\ st'[w] = "idle"
          /\ \A v \in Writers : st[v] = "queued" => st'[v] \in {"queued", "woken"}
      BY <3>1, WakeFrontLemma
    <3>3. Waiting' = Waiting /\ Admitted' = {}
      BY <1>0, <1>6, <2>0, <3>2 DEF Admitted, Waiting
    <3> QED BY <1>6, <3>3 DEF Admitted
  <2> QED BY <1>6, <2>1, <2>2 DEF ReleaseLocked
<1>7. CASE GiveUpQueued(w)
  BY <1>7, <1>0 DEF GiveUpQueued, Admitted, Waiting, TypeOK
<1>8. CASE GiveUpWoken(w)
  <2>1. CASE held
    BY <1>8, <1>0, <2>1 DEF GiveUpWoken, Admitted, Waiting, TypeOK
  <2>2. CASE ~held
    <3>1. WakeFront([st EXCEPT ![w] = "idle"]) /\ st[w] = "woken"
      BY <1>8, <2>2 DEF GiveUpWoken
    <3>2. /\ \A v \in Writers : v # w /\ st[v] # "queued" => st'[v] = st[v]
          /\ st'[w] = "idle"
          /\ \A v \in Writers : st[v] = "queued" => st'[v] \in {"queued", "woken"}
      BY <3>1, WakeFrontLemma
    <3>3. Waiting' = Waiting \ {w} /\ Admitted' = Admitted
      BY <1>0, <3>1, <3>2 DEF Admitted, Waiting
    <3> QED BY <3>1, <3>3 DEF Waiting
  <2> QED BY <2>1, <2>2
<1>9. CASE Age(w)
  BY <1>9 DEF Age, Admitted, Waiting
<1> QED BY <1>1, <1>2, <1>3, <1>4, <1>5, <1>6, <1>7, <1>8, <1>9 DEF Step, GiveUp, GiveUpGranted, Release

(* In starvation mode only the front of the queue obtains the gate.        *)
THEOREM HandOversInOrder == Spec => HandOverInOrder
<1>1. IInv /\ [Next]_vars =>
        [\A w \in Writers :
           starving /\ w \notin Admitted /\ w \in Admitted' =>
             waiters # <<>> /\ w = Head(waiters)]_vars
  <2> SUFFICES ASSUME IInv, NEW v \in Writers, Step(v),
                      NEW w \in Writers, starving, w \notin Admitted, w \in Admitted'
               PROVE  waiters # <<>> /\ w = Head(waiters)
    BY DEF Next
  <2> QED BY AdmissionLemma
<1> QED BY <1>1, Invariance, PTL DEF Spec, HandOverInOrder

(* The gate, with its queue, races and starvation mode, is a WriteLock: a  *)
(* lock with at most one owner that is taken free, passed on or left.      *)
THEOREM GateIsALock == Spec => Lock!Spec
<1>1. Init => Lock!Init
  BY DEF Init, Lock!Init, Admitted, Waiting
<1>2. IInv /\ [Next]_vars => [Lock!Next]_Lock!vars
  <2> SUFFICES ASSUME IInv, [Next]_vars PROVE [Lock!Next]_Lock!vars
    OBVIOUS
  <2>1. CASE UNCHANGED vars
    BY <2>1 DEF vars, Lock!vars, Admitted, Waiting
  <2>2. ASSUME NEW w \in Writers, Step(w) PROVE [Lock!Next]_Lock!vars
    <3>1. held <=> Admitted # {}
      BY DEF IInv, MutualExclusion
    <3>2. CASE ~held /\ Admitted' = {w} /\ Waiting' = Waiting \ {w}
      BY <3>1, <3>2 DEF Lock!Next, Lock!Take
    <3>3. CASE held /\ Head(waiters) \in Waiting /\ Admitted' = {Head(waiters)}
               /\ Waiting' = Waiting \ {Head(waiters)}
      <4>1. Head(waiters) \in Writers
        BY <3>3 DEF Waiting
      <4> QED BY <3>1, <3>3, <4>1 DEF Lock!Next, Lock!Pass
    <3>4. CASE Admitted # {} /\ Admitted' = {} /\ Waiting' = Waiting
      BY <3>4 DEF Lock!Next, Lock!Leave
    <3>5. CASE Admitted' = Admitted /\ Waiting' = Waiting
      BY <3>5 DEF Lock!vars
    <3>6. CASE Admitted' = Admitted /\ w \notin Admitted \cup Waiting
               /\ Waiting' = Waiting \cup {w}
      BY <3>6 DEF Lock!Next, Lock!Arrive
    <3>7. CASE Admitted' = Admitted /\ w \in Waiting /\ Waiting' = Waiting \ {w}
      BY <3>7 DEF Lock!Next, Lock!Abandon
    <3> QED BY <2>2, <3>2, <3>3, <3>4, <3>5, <3>6, <3>7, AdmissionLemma
  <2> QED BY <2>1, <2>2 DEF Next
<1> QED BY <1>1, <1>2, Invariance, PTL DEF Spec, Lock!Spec

-----------------------------------------------------------------------------
(* WritePool, for every set of writers.                                    *)

(* A Tx that has not released yet has the gate: the release of every Tx,   *)
(* from whichever goroutine it comes, is one of the gate's owner.          *)
TxHoldsGate ==
  \A w \in Writers :
    /\ tx[w] \in {"open", "ended"} /\ w \notin released => st[w] = "holding"
    /\ tx[w] = "done" => w \in released

(* SQLite's lock is an open transaction's, or waits for the rollback of    *)
(* one whose context ended.                                                *)
SqliteIsOwned ==
  /\ \A v, w \in sqlite : v = w
  /\ \A w \in sqlite : w \in ctxDone \/ (tx[w] = "open" /\ w \notin released)

PoolTypes ==
  /\ tx \in [Writers -> {"none", "open", "ended", "done"}]
  /\ released \subseteq Writers /\ ctxDone \subseteq Impatient /\ sqlite \subseteq Writers

PoolIInv ==
  /\ IInv
  /\ PoolTypes
  /\ TxHoldsGate
  /\ SqliteIsOwned

LEMMA PoolInitIInv == PoolInit => PoolIInv
BY InitIInv DEF PoolInit, PoolIInv, PoolTypes, TxHoldsGate, SqliteIsOwned

(* The gate is taken from its owner by the owner only.                     *)
LEMMA HolderLemma ==
  ASSUME IInv, NEW w \in Writers, Step(w),
         NEW v \in Writers, v # w, st[v] = "holding"
  PROVE  st'[v] = "holding"
<1> USE DEF IInv
<1>1. held /\ Admitted = {v} /\ st[w] \notin {"granted", "holding"}
  BY DEF MutualExclusion, Admitted
<1>2. CASE TakeFree(w) \/ Enqueue(w)
  BY <1>2 DEF TakeFree, Enqueue, TypeOK
<1>3. CASE ReceiveGrant(w) \/ Release(w) \/ GiveUpGranted(w)
  BY <1>1, <1>3 DEF ReceiveGrant, Release, GiveUpGranted
<1>4. CASE WinRace(w) \/ LoseRace(w) \/ Age(w)
  BY <1>4 DEF WinRace, LoseRace, Age, TypeOK
<1>5. CASE GiveUpQueued(w)
  BY <1>5 DEF GiveUpQueued, TypeOK
<1>6. CASE GiveUpWoken(w)
  BY <1>1, <1>6 DEF GiveUpWoken, TypeOK
<1> QED BY <1>2, <1>3, <1>4, <1>5, <1>6 DEF Step, GiveUp

(* The once of a Tx releases a gate the Tx has.                            *)
LEMMA ReleaseOnceLemma ==
  ASSUME PoolIInv, NEW w \in Writers, tx[w] # "none", ReleaseOnce(w)
  PROVE  /\ w \in released => UNCHANGED <<vars, released>>
         /\ w \notin released => Release(w) /\ released' = released \cup {w}
BY DEF PoolIInv, PoolTypes, TxHoldsGate, ReleaseOnce, Release

(* A step of the pool is one of the gate, by the same writer, or leaves    *)
(* the gate alone.                                                         *)
LEMMA PoolStepLemma ==
  ASSUME PoolIInv, NEW w \in Writers, PoolStep(w)
  PROVE  Step(w) \/ UNCHANGED vars
<1>1. CASE Arrive(w) \/ Wait(w) \/ ReturnWithoutTx(w)
  BY <1>1 DEF Arrive, Wait, ReturnWithoutTx, Step
<1>2. CASE BeginTx(w) \/ ContextEnds(w) \/ DriverRollback(w) \/ EndTx(w)
  BY <1>2 DEF BeginTx, ContextEnds, DriverRollback, EndTx
<1>3. CASE AfterFunc(w) \/ Done(w) \/ LateRollback(w)
  <2>1. tx[w] # "none" /\ ReleaseOnce(w)
    BY <1>3 DEF AfterFunc, Done, LateRollback
  <2> QED BY <2>1, ReleaseOnceLemma DEF Step
<1> QED BY <1>1, <1>2, <1>3 DEF PoolStep

LEMMA PoolStepIInv ==
  ASSUME PoolIInv, NEW w \in Writers, PoolStep(w)
  PROVE  PoolIInv'
<1>a. IInv /\ PoolTypes /\ TxHoldsGate /\ SqliteIsOwned
  BY DEF PoolIInv
<1>b. IInv'
  <2>1. CASE Step(w)
    BY <1>a, <2>1, StepLemma
  <2>2. CASE UNCHANGED vars
    BY <1>a, <2>2, Inductive
  <2> QED BY <2>1, <2>2, PoolStepLemma
<1>c. ASSUME NEW v \in Writers, v # w, st[v] = "holding" PROVE st'[v] = "holding"
  BY <1>a, <1>c, PoolStepLemma, HolderLemma DEF vars
<1>d. PoolTypes' /\ TxHoldsGate' /\ SqliteIsOwned' => PoolIInv'
  BY <1>b DEF PoolIInv
<1> DEFINE Goal == PoolTypes' /\ TxHoldsGate' /\ SqliteIsOwned'
<1> SUFFICES Goal
  BY <1>d
(* The steps that leave the transactions alone.                            *)
<1>e. ASSUME UNCHANGED poolVars, tx[w] = "none" \/ st[w] # "holding" PROVE Goal
  <2>1. TxHoldsGate'
    BY <1>a, <1>c, <1>e DEF TxHoldsGate, PoolTypes, poolVars
  <2> QED BY <1>a, <1>e, <2>1 DEF PoolTypes, SqliteIsOwned, poolVars
<1>1. CASE Arrive(w) \/ ReturnWithoutTx(w)
  BY <1>1, <1>e DEF Arrive, ReturnWithoutTx
<1>2. CASE Wait(w)
  BY <1>2, <1>e DEF Wait, ReceiveGrant, WinRace, LoseRace, GiveUp, GiveUpQueued, GiveUpGranted,
                    GiveUpWoken, Age
<1>3. CASE BeginTx(w)
  <2>1. TxHoldsGate'
    BY <1>3, <1>a DEF BeginTx, TxHoldsGate, PoolTypes, vars
  <2> QED BY <1>3, <1>a, <2>1 DEF BeginTx, PoolTypes, SqliteIsOwned
<1>4. CASE ContextEnds(w)
  BY <1>4, <1>a DEF ContextEnds, TxHoldsGate, PoolTypes, SqliteIsOwned, vars
<1>5. CASE DriverRollback(w)
  BY <1>5, <1>a DEF DriverRollback, TxHoldsGate, PoolTypes, SqliteIsOwned, vars
<1>6. CASE EndTx(w)
  <2>1. TxHoldsGate'
    BY <1>6, <1>a DEF EndTx, TxHoldsGate, PoolTypes, vars
  <2> QED BY <1>6, <1>a, <2>1 DEF EndTx, PoolTypes, SqliteIsOwned
(* Its release is w's own: the others that have the gate keep it.          *)
<1>7. ASSUME tx[w] # "none", ReleaseOnce(w) PROVE released' = released \cup {w}
  BY <1>7, ReleaseOnceLemma, <1>a DEF PoolTypes
<1>8. CASE AfterFunc(w)
  <2>1. released' = released \cup {w} /\ w \in ctxDone /\ UNCHANGED <<tx, ctxDone, sqlite>>
    BY <1>8, <1>7 DEF AfterFunc
  <2>2. TxHoldsGate'
    BY <1>a, <1>c, <2>1 DEF TxHoldsGate, PoolTypes
  <2> QED BY <1>a, <2>1, <2>2 DEF PoolTypes, SqliteIsOwned
<1>9. CASE Done(w)
  <2>1. /\ released' = released \cup {w} /\ UNCHANGED <<ctxDone, sqlite>>
        /\ tx[w] = "ended" /\ tx' = [tx EXCEPT ![w] = "done"]
    BY <1>9, <1>7 DEF Done
  <2>2. TxHoldsGate'
    BY <1>a, <1>c, <2>1 DEF TxHoldsGate, PoolTypes
  <2> QED BY <1>a, <2>1, <2>2 DEF PoolTypes, SqliteIsOwned
<1>10. CASE LateRollback(w)
  <2>1. /\ w \in released /\ released' = released /\ UNCHANGED <<ctxDone, sqlite>>
        /\ tx[w] = "done" /\ tx' = [tx EXCEPT ![w] = "none"]
    BY <1>10, <1>7, <1>a DEF LateRollback, TxHoldsGate
  <2>2. TxHoldsGate'
    BY <1>a, <1>c, <2>1 DEF TxHoldsGate, PoolTypes
  <2> QED BY <1>a, <2>1, <2>2 DEF PoolTypes, SqliteIsOwned
<1> QED BY <1>1, <1>2, <1>3, <1>4, <1>5, <1>6, <1>8, <1>9, <1>10 DEF PoolStep

LEMMA PoolInductive == PoolIInv /\ [PoolNext]_allVars => PoolIInv'
<1> SUFFICES ASSUME PoolIInv, [PoolNext]_allVars PROVE PoolIInv'
  OBVIOUS
<1>1. CASE PoolNext
  BY <1>1, PoolStepIInv DEF PoolNext
<1>2. CASE UNCHANGED allVars
  <2>1. IInv'
    BY <1>2, Inductive DEF allVars, vars, PoolIInv
  <2> QED BY <1>2, <2>1 DEF allVars, PoolIInv, PoolTypes, TxHoldsGate, SqliteIsOwned
<1> QED BY <1>1, <1>2

LEMMA PoolInvariance == PoolSpec => []PoolIInv
BY PoolInitIInv, PoolInductive, PTL DEF PoolSpec

(* Every reachable state has the types of its variables, and SQLite's lock *)
(* one owner at most.                                                      *)
THEOREM PoolTypeCorrect == PoolSpec => []PoolTypeOK
<1>1. PoolIInv => PoolTypeOK
  <2> SUFFICES ASSUME PoolIInv PROVE PoolTypeOK
    OBVIOUS
  <2>1. sqlite = {} \/ \E w \in sqlite : sqlite = {w}
    BY DEF PoolIInv, SqliteIsOwned
  <2>2. Cardinality(sqlite) \in {0, 1}
    BY <2>1, FS_EmptySet, FS_Singleton
  <2> QED BY <2>2 DEF PoolIInv, PoolTypes, PoolTypeOK, IInv
<1> QED BY <1>1, PoolInvariance, PTL

(* The pool uses the gate as the gate's protocol has it: whatever the      *)
(* callers, the contexts' goroutines and the late rollbacks do, only a     *)
(* writer that has the gate gives it up, and once.                         *)
THEOREM PoolUsesGate == PoolSpec => Spec
<1>1. PoolInit => Init
  BY DEF PoolInit
<1>2. PoolIInv /\ [PoolNext]_allVars => [Next]_vars
  BY PoolStepLemma DEF PoolNext, Next, allVars, vars
<1> QED BY <1>1, <1>2, PoolInvariance, PTL DEF PoolSpec, Spec

(* A transaction that has SQLite's lock has the gate, or its context ended *)
(* and its rollback is under way.                                          *)
THEOREM SqliteStaysBehindGate == PoolSpec => []SqliteBehindGate
<1>1. PoolIInv => SqliteBehindGate
  BY DEF PoolIInv, PoolTypes, TxHoldsGate, SqliteIsOwned, SqliteBehindGate
<1> QED BY <1>1, PoolInvariance, PTL

(* At most one transaction is open that has not released the gate: what    *)
(* the audit log (AuditChain) takes its GateFree from.                     *)
THEOREM TransactionsExclude ==
  PoolSpec => [](\A v, w \in Writers \ released : tx[v] = "open" /\ tx[w] = "open" => v = w)
<1>1. PoolIInv => \A v, w \in Writers \ released : tx[v] = "open" /\ tx[w] = "open" => v = w
  BY DEF PoolIInv, IInv, TxHoldsGate, MutualExclusion, Admitted
<1> QED BY <1>1, PoolInvariance, PTL

(* What the gate guarantees it guarantees to transactions: one writer past *)
(* it, no lost wake-up, and the steps of a WriteLock.                      *)
THEOREM PoolIsALock ==
  PoolSpec => []MutualExclusion /\ []NoLostWakeup /\ Lock!Spec
BY PoolUsesGate, OneWriterAtATime, WakeupsAreNotLost, GateIsALock, PTL

-----------------------------------------------------------------------------
(* Upgrade, for every set of processes and releases.                       *)

(* A clean version row tells the truth, or names an earlier migration that *)
(* was applied again; a dirty one names a migration.                       *)
RowIsTrue(f) ==
  /\ ~f.dirty => \/ f.version = f.schema
                 \/ f.version \in Repeatable /\ f.version < f.schema
  /\ f.dirty => f.version > 0

(* Of the processes that migrate, none is ahead of the schema by more than *)
(* one migration; one that is about to apply the next body has marked the  *)
(* file dirty, unless another has marked it clean for a body that it       *)
(* applied again.  Between a body that can be applied only once and its    *)
(* clean mark, the row does not name it yet, and no other process is as    *)
(* far: those left behind will find their body applied.                    *)
MigrationsInStep ==
  \A p \in Procs :
    /\ pc[p] \in {"mark", "run", "clean"} => noted[p] \in 1..(db.schema + 1)
    /\ pc[p] = "run" /\ noted[p] = db.schema + 1 => db.dirty \/ db.version \in Repeatable
    /\ pc[p] = "clean" => noted[p] <= db.schema
    /\ pc[p] = "clean" /\ noted[p] \notin Repeatable =>
         /\ noted[p] = db.schema
         /\ db.dirty \/ db.version < db.schema
         /\ \A q \in Procs \ {p} :
              /\ pc[q] \in {"mark", "run"} => noted[q] <= db.schema
              /\ pc[q] = "clean" => noted[q] \in Repeatable

ServerIsUpToDate ==
  \A p \in Procs : pc[p] = "serving" => p = server /\ db.schema >= release[p]

SchemaInv ==
  /\ UpgradeTypeOK
  /\ RowIsTrue(db) /\ \A s \in snapshots : RowIsTrue(s.db)
  /\ MigrationsInStep
  /\ ServerIsUpToDate

(* Nothing is to be saved, it is, or there is a reason why it is not.      *)
Covered(d) == d = 0 \/ Saved(d) \/ d \in uncovered

(* A file whose data a migration may have touched has its way back.        *)
HasWayBack(f) ==
  /\ f.data # 0 => Floor <= f.wrote /\ f.wrote <= f.schema
  /\ f.dirty \/ f.wrote < f.schema => Covered(f.data)

(* So has one that a process is about to touch; the others find their      *)
(* release in the row, or are going to be refused.                         *)
BelowFloor == ~db.dirty /\ db.version \in 1..(Floor - 1)

CoveredBeforeMigration ==
  \A p \in Procs :
    /\ pc[p] = "check" => Covered(db.data) \/ db.version >= release[p] \/ BelowFloor
    /\ pc[p] = "up" => Covered(db.data) \/ db.version >= release[p]
    /\ pc[p] \in {"mark", "run", "clean"} => Covered(db.data)

RollbackInv ==
  /\ HasWayBack(db) /\ \A s \in snapshots : HasWayBack(s.db)
  /\ CoveredBeforeMigration

USE UpgradeAssumption

LEMMA ReleaseTypes ==
  ASSUME UpgradeTypeOK, NEW p \in Procs
  PROVE  release[p] \in Nat /\ release[p] >= Floor /\ release[p] \in Releases /\ noted[p] \in Nat
BY DEF UpgradeTypeOK

(* What a step of p does to p leaves the other processes alone.            *)
LEMMA GotoLemma ==
  ASSUME UpgradeTypeOK, NEW p \in Procs, NEW step, NEW v,
         pc' = [pc EXCEPT ![p] = step], noted' = [noted EXCEPT ![p] = v]
  PROVE  /\ pc'[p] = step /\ noted'[p] = v
         /\ \A q \in Procs : q # p => pc'[q] = pc[q] /\ noted'[q] = noted[q]
         /\ step \in {"down", "backup", "check", "up", "mark", "run", "clean", "serving"} =>
              pc' \in [Procs -> {"down", "backup", "check", "up", "mark", "run", "clean", "serving"}]
         /\ v \in Nat => noted' \in [Procs -> Nat]
BY DEF UpgradeTypeOK

LEMMA SetVersionLemma ==
  ASSUME UpgradeTypeOK, NEW p \in Procs, NEW d \in BOOLEAN, SetVersion(p, d)
  PROVE  /\ db' \in File
         /\ db'.version = noted[p] /\ db'.dirty = d
         /\ db'.schema = db.schema /\ db'.data = db.data /\ db'.wrote = db.wrote
BY DEF SetVersion, UpgradeTypeOK, File

LEMMA WriteLemma ==
  ASSUME db \in File, NEW d \in Nat, NEW v \in Nat,
         db' = [db EXCEPT !.data = d, !.wrote = v]
  PROVE  /\ db' \in File /\ db'.data = d /\ db'.wrote = v
         /\ db'.version = db.version /\ db'.dirty = db.dirty /\ db'.schema = db.schema
<1> DEFINE h == [db EXCEPT !.data = d]
<1>1. h \in File /\ h.data = d /\ h.version = db.version /\ h.dirty = db.dirty /\ h.schema = db.schema
  BY DEF File
<1>2. db' = [h EXCEPT !.wrote = v]
  OBVIOUS
<1> HIDE DEF h
<1> QED BY <1>1, <1>2 DEF File

LEMMA WriteStep ==
  ASSUME UpgradeTypeOK, Write
  PROVE  /\ db' \in File /\ db'.data = writes' /\ db'.wrote = db.schema
         /\ db'.version = db.version /\ db'.dirty = db.dirty /\ db'.schema = db.schema
<1>1. db \in File /\ writes' = writes + 1
  BY DEF UpgradeTypeOK, Write
<1>2. db.schema \in Nat /\ writes + 1 \in Nat
  BY <1>1 DEF UpgradeTypeOK, File
<1> QED BY <1>1, <1>2, WriteLemma DEF Write

LEMMA UpgradeInitType == UpgradeInit => UpgradeTypeOK
<1> SUFFICES ASSUME UpgradeInit PROVE UpgradeTypeOK
  OBVIOUS
<1>1. PICK r \in Releases : db \in {Clean(0, 0), Clean(r, 1)}
  BY DEF UpgradeInit
<1>2. \A v \in Nat, d \in Nat : Clean(v, d) \in File /\ Clean(v, d).data = d
  BY DEF Clean, File
<1>3. db \in File /\ db.data \in {0, 1}
  BY <1>1, <1>2
<1> QED BY <1>3 DEF UpgradeInit, UpgradeTypeOK

LEMMA UpgradeTypeStep ==
  UpgradeTypeOK /\ [UpgradeNext]_upgradeVars => UpgradeTypeOK'
<1> SUFFICES ASSUME UpgradeTypeOK, [UpgradeNext]_upgradeVars PROVE UpgradeTypeOK'
  OBVIOUS
<1> USE DEF UpgradeTypeOK, file
<1>1. ASSUME NEW p \in Procs, Start(p) PROVE UpgradeTypeOK'
  BY <1>1 DEF Start, Goto, File
<1>2. ASSUME NEW p \in Procs, takePreMigrationBackup(p) PROVE UpgradeTypeOK'
  <2>1. [from |-> noted[p], to |-> release[p], db |-> db] \in [from : Nat, to : Releases, db : File]
    OBVIOUS
  <2>2. snapshots' \subseteq [from : Nat, to : Releases, db : File]
    BY <1>2, <2>1 DEF takePreMigrationBackup, ReuseSnapshot, BackupSnapshot
  <2>2a. db.data \in 0..writes
    BY DEF File
  <2>2b. uncovered' \subseteq 0..writes
    BY <1>2, <2>2a DEF takePreMigrationBackup, ReuseSnapshot, BackupSnapshot
  <2>3. \A s \in snapshots' : s.db.data <= writes
    BY <1>2 DEF takePreMigrationBackup, ReuseSnapshot, BackupSnapshot
  <2> QED BY <1>2, <2>2, <2>2b, <2>3 DEF takePreMigrationBackup, ReuseSnapshot, BackupSnapshot, Goto
<1>3. ASSUME NEW p \in Procs, RunMigrations(p) PROVE UpgradeTypeOK'
  BY <1>3 DEF RunMigrations, Goto
<1>4. ASSUME NEW p \in Procs, Up(p) PROVE UpgradeTypeOK'
  BY <1>4 DEF Up, Goto, End, File
<1>5. ASSUME NEW p \in Procs, MarkDirty(p) PROVE UpgradeTypeOK'
  BY <1>5, SetVersionLemma DEF MarkDirty, Goto
<1>6. ASSUME NEW p \in Procs, Run(p) PROVE UpgradeTypeOK'
  BY <1>6 DEF Run, Goto, File
<1>7. ASSUME NEW p \in Procs, RunFails(p) PROVE UpgradeTypeOK'
  BY <1>7 DEF RunFails, Goto
<1>8. ASSUME NEW p \in Procs, MarkClean(p) PROVE UpgradeTypeOK'
  <2>1. FALSE \in BOOLEAN
    OBVIOUS
  <2>2. db' \in File /\ db'.data = db.data
    BY <1>8, <2>1, SetVersionLemma, Zenon DEF MarkClean
  <2>3. pc' \in [Procs -> {"down", "backup", "check", "up", "mark", "run", "clean", "serving"}]
        /\ noted' \in [Procs -> Nat]
    BY <1>8 DEF MarkClean, Goto, End
  <2> QED BY <1>8, <2>2, <2>3 DEF MarkClean
<1>9. ASSUME NEW p \in Procs, Abort(p) PROVE UpgradeTypeOK'
  BY <1>9 DEF Abort, Goto, Happens
<1>10. ASSUME NEW p \in Procs, Deploy(p) PROVE UpgradeTypeOK'
  BY <1>10 DEF Deploy, Happens
<1>11. ASSUME NEW p \in Procs, MigrateForce(p) PROVE UpgradeTypeOK'
  <2>1. db' \in File /\ db'.data = db.data
    BY <1>11 DEF MigrateForce, File
  <2> QED BY <1>11, <2>1 DEF MigrateForce, Goto, Happens
<1>12. CASE Write
  <2>1. writes' = writes + 1 /\ writes' \in 0..MaxWrites
    BY <1>12 DEF Write
  <2>2. db' \in File /\ db'.data = writes'
    BY <1>12, WriteStep
  <2>3. uncovered' \subseteq 0..writes'
    BY <1>12, <2>1 DEF Write
  <2>4. \A s \in snapshots : s.db.data \in Nat
    BY DEF File
  <2>5. \A s \in snapshots' : s.db.data <= writes'
    BY <1>12, <2>1, <2>4 DEF Write
  <2> QED BY <1>12, <2>1, <2>2, <2>3, <2>5 DEF Write
<1>13. CASE Restore
  BY <1>13 DEF Restore, Happens
<1>14. CASE UNCHANGED upgradeVars
  BY <1>14 DEF upgradeVars
<1> QED BY <1>1, <1>2, <1>3, <1>4, <1>5, <1>6, <1>7, <1>8, <1>9, <1>10, <1>11, <1>12, <1>13, <1>14
        DEF UpgradeNext, Migrate

-----------------------------------------------------------------------------
LEMMA SchemaInitInv == UpgradeInit => SchemaInv
<1> SUFFICES ASSUME UpgradeInit PROVE SchemaInv
  OBVIOUS
<1>1. PICK r \in Releases : db \in {Clean(0, 0), Clean(r, 1)}
  BY DEF UpgradeInit
<1>2. RowIsTrue(db)
  <2>1. ~db.dirty /\ db.version = db.schema
    BY <1>1 DEF Clean
  <2> QED BY <2>1, Zenon DEF RowIsTrue
<1> QED BY <1>2, UpgradeInitType
        DEF UpgradeInit, SchemaInv, MigrationsInStep, ServerIsUpToDate

(* The version row, as the steps that write it leave it.                   *)
LEMMA RowStep ==
  SchemaInv /\ [UpgradeNext]_upgradeVars =>
    RowIsTrue(db)' /\ \A s \in snapshots' : RowIsTrue(s.db)
<1> SUFFICES ASSUME SchemaInv, [UpgradeNext]_upgradeVars
             PROVE  RowIsTrue(db)' /\ \A s \in snapshots' : RowIsTrue(s.db)
  OBVIOUS
<1>a. UpgradeTypeOK /\ RowIsTrue(db) /\ MigrationsInStep /\ \A s \in snapshots : RowIsTrue(s.db)
  BY DEF SchemaInv
<1>b. db \in File
  BY <1>a DEF UpgradeTypeOK
<1> DEFINE Goal == RowIsTrue(db)' /\ \A s \in snapshots' : RowIsTrue(s.db)
<1>c. ASSUME UNCHANGED <<db, snapshots>> PROVE Goal
  BY <1>a, <1>c DEF RowIsTrue
<1>1. ASSUME NEW p \in Procs, Start(p) \/ RunMigrations(p) \/ Up(p) \/ RunFails(p) \/ Abort(p) \/ Deploy(p)
      PROVE  Goal
  BY <1>1, <1>c DEF Start, RunMigrations, Up, RunFails, Abort, Deploy, file
<1>2. ASSUME NEW p \in Procs, takePreMigrationBackup(p) PROVE Goal
  BY <1>2, <1>a DEF takePreMigrationBackup, ReuseSnapshot, BackupSnapshot, file, RowIsTrue
<1>3. ASSUME NEW p \in Procs, MarkDirty(p) PROVE Goal
  <2>1. db'.version = noted[p] /\ db'.dirty /\ noted[p] > 0 /\ snapshots' = snapshots
    <3>1. noted[p] > 0 /\ snapshots' = snapshots
      BY <1>3, <1>a, <1>b DEF MarkDirty, MigrationsInStep, File
    <3>2. db' = [db EXCEPT !.version = noted[p], !.dirty = TRUE]
      BY <1>3 DEF MarkDirty, SetVersion
    <3> QED BY <3>1, <3>2, <1>b DEF File
  <2> QED BY <1>a, <2>1 DEF RowIsTrue
<1>4. ASSUME NEW p \in Procs, Run(p) PROVE Goal
  <2>1. CASE db.schema = noted[p] - 1 /\ db' = [db EXCEPT !.schema = noted[p]]
    <3>1. /\ db.dirty \/ db.version \in Repeatable
          /\ noted[p] = db.schema + 1 /\ snapshots' = snapshots
      BY <1>4, <2>1, <1>a, <1>b, ReleaseTypes DEF Run, MigrationsInStep, File
    <3>2. /\ db'.dirty = db.dirty /\ db'.version = db.version /\ db'.schema = db.schema + 1
          /\ db.version \in Nat /\ db.schema \in Nat
      BY <2>1, <3>1, <1>b DEF File
    <3>3. ~db.dirty => db.version \in Repeatable /\ db.version <= db.schema
      BY <3>1, <3>2, <1>a DEF RowIsTrue
    <3> QED BY <1>a, <3>1, <3>2, <3>3 DEF RowIsTrue
  <2>2. CASE UNCHANGED db
    BY <1>4, <2>2, <1>c DEF Run
  <2> QED BY <1>4, <2>1, <2>2 DEF Run
<1>5. ASSUME NEW p \in Procs, MarkClean(p) PROVE Goal
  <2>1. /\ SetVersion(p, FALSE) /\ snapshots' = snapshots
        /\ noted[p] = db.schema \/ (noted[p] \in Repeatable /\ noted[p] <= db.schema)
    BY <1>5, <1>a DEF MarkClean, MigrationsInStep
  <2>2. ~db'.dirty /\ db'.version = noted[p] /\ db'.schema = db.schema
    BY <2>1, <1>b DEF SetVersion, File
  <2>3. noted[p] \in Nat /\ db.schema \in Nat
    BY <1>a, <1>b DEF UpgradeTypeOK, File
  <2>4. noted[p] = db.schema \/ (noted[p] \in Repeatable /\ noted[p] < db.schema)
    BY <2>1, <2>3
  <2>5. db'.version = db'.schema \/ (db'.version \in Repeatable /\ db'.version < db'.schema)
    BY <2>2, <2>4, Zenon
  <2> QED BY <1>a, <2>1, <2>2, <2>5, Zenon DEF RowIsTrue
<1>6. ASSUME NEW p \in Procs, MigrateForce(p) PROVE Goal
  <2>1. db'.version = db.version /\ db'.schema = db.schema /\ ~db'.dirty
    BY <1>6, <1>b DEF MigrateForce, File
  <2>2. db.schema = db.version /\ UNCHANGED snapshots
    BY <1>6 DEF MigrateForce
  <2> QED BY <1>a, <2>1, <2>2, Zenon DEF RowIsTrue
<1>7. CASE Write
  <2>1. db'.version = db.version /\ db'.schema = db.schema /\ db'.dirty = db.dirty
    BY <1>7, <1>b DEF Write, File
  <2> QED BY <1>7, <1>a, <2>1 DEF Write, RowIsTrue
<1>8. CASE Restore
  BY <1>8, <1>a DEF Restore, RowIsTrue
<1>9. CASE UNCHANGED upgradeVars
  BY <1>9, <1>c DEF upgradeVars, file
<1> QED BY <1>1, <1>2, <1>3, <1>4, <1>5, <1>6, <1>7, <1>8, <1>9 DEF UpgradeNext, Migrate

(* What holds of a migrating process p, for one other process q.           *)
InStep(p, q) ==
  /\ pc[p] \in {"mark", "run", "clean"} => noted[p] \in 1..(db.schema + 1)
  /\ pc[p] = "run" /\ noted[p] = db.schema + 1 => db.dirty \/ db.version \in Repeatable
  /\ pc[p] = "clean" => noted[p] <= db.schema
  /\ pc[p] = "clean" /\ noted[p] \notin Repeatable =>
       /\ noted[p] = db.schema
       /\ db.dirty \/ db.version < db.schema
       /\ q # p => /\ pc[q] \in {"mark", "run"} => noted[q] <= db.schema
                   /\ pc[q] = "clean" => noted[q] \in Repeatable

LEMMA InStepForAll == MigrationsInStep <=> \A p, q \in Procs : InStep(p, q)
<1>1. ASSUME MigrationsInStep, NEW p \in Procs, NEW q \in Procs PROVE InStep(p, q)
  BY <1>1, Zenon DEF MigrationsInStep, InStep
<1>2. ASSUME \A p, q \in Procs : InStep(p, q) PROVE MigrationsInStep
  BY <1>2, Zenon DEF MigrationsInStep, InStep
<1> QED BY <1>1, <1>2

LEMMA InStepStep ==
  SchemaInv /\ [UpgradeNext]_upgradeVars => MigrationsInStep'
<1> SUFFICES ASSUME SchemaInv, [UpgradeNext]_upgradeVars, NEW p \in Procs, NEW q \in Procs
             PROVE  InStep(p, q)'
  BY Zenon DEF InStep, MigrationsInStep
<1>a. /\ UpgradeTypeOK /\ RowIsTrue(db)
      /\ \A x, y \in Procs : InStep(x, y)
  BY InStepForAll DEF SchemaInv
<1>b. /\ db \in File /\ db.schema \in Nat /\ db.version \in Nat
      /\ \A x \in Procs : noted[x] \in Nat
  BY <1>a DEF UpgradeTypeOK, File
(* A process that is about to migrate is the only one that may move.       *)
<1>c. ASSUME NEW x \in Procs, NEW step \in {"down", "backup", "check", "up", "serving"}, NEW v \in Nat,
             Goto(x, step, v), UNCHANGED db
      PROVE  InStep(p, q)'
  <2>1. /\ pc'[x] = step /\ noted'[x] = v
        /\ \A y \in Procs : y # x => pc'[y] = pc[y] /\ noted'[y] = noted[y]
    BY <1>a, <1>c, GotoLemma DEF Goto
  <2>2. pc'[p] \in {"mark", "run", "clean"} => p # x
    BY <1>c, <2>1
  <2>3. pc'[q] \in {"mark", "run", "clean"} => q # x
    BY <1>c, <2>1
  <2> QED BY <1>a, <1>b, <1>c, <2>1, <2>2, <2>3 DEF InStep
<1>d. ASSUME UNCHANGED <<pc, noted>>, db'.schema = db.schema, db'.dirty = db.dirty,
             db'.version = db.version
      PROVE  InStep(p, q)'
  BY <1>a, <1>d DEF InStep
<1>e. ASSUME \A x \in Procs : pc'[x] \notin {"mark", "run", "clean"} PROVE InStep(p, q)'
  BY <1>e DEF InStep
<1>1. ASSUME NEW x \in Procs, Start(x) PROVE InStep(p, q)'
  BY <1>1, <1>b, <1>c DEF Start, file, File
<1>2. ASSUME NEW x \in Procs, takePreMigrationBackup(x) PROVE InStep(p, q)'
  BY <1>2, <1>c DEF takePreMigrationBackup, ReuseSnapshot, BackupSnapshot, file
<1>3. ASSUME NEW x \in Procs, RunMigrations(x) PROVE InStep(p, q)'
  BY <1>3, <1>c DEF RunMigrations, file
<1>4. ASSUME NEW x \in Procs, Up(x) PROVE InStep(p, q)'
  <2>1. CASE ~db.dirty /\ Goto(x, "mark", db.version + 1) /\ UNCHANGED db
    <3>1. db.version <= db.schema
      BY <2>1, <1>a, <1>b DEF RowIsTrue
    <3>2. pc'[x] = "mark" /\ noted'[x] = db.version + 1
          /\ \A y \in Procs : y # x => pc'[y] = pc[y] /\ noted'[y] = noted[y]
      BY <2>1, <1>a, <1>b, GotoLemma DEF Goto
    <3>3. \A y \in Procs : pc[y] = "clean" /\ noted[y] \notin Repeatable => db.version < db.schema
      BY <2>1, <1>a DEF InStep
    <3> QED BY <2>1, <3>1, <3>2, <3>3, <1>a, <1>b DEF InStep
  <2> QED BY <1>4, <1>c, <2>1 DEF Up, End, file
<1>5. ASSUME NEW x \in Procs, MarkDirty(x) PROVE InStep(p, q)'
  <2>1. db'.schema = db.schema /\ db'.dirty
    BY <1>5, <1>a, SetVersionLemma DEF MarkDirty
  <2>2. /\ pc[x] = "mark" /\ pc'[x] = "run" /\ noted'[x] = noted[x]
        /\ \A y \in Procs : y # x => pc'[y] = pc[y] /\ noted'[y] = noted[y]
    BY <1>5, <1>a, <1>b, GotoLemma DEF MarkDirty, Goto
  <2> QED BY <2>1, <2>2, <1>a, <1>b DEF InStep
<1>6. ASSUME NEW x \in Procs, Run(x) PROVE InStep(p, q)'
  <2>1. /\ pc'[x] = "clean" /\ noted'[x] = noted[x] /\ pc[x] = "run"
        /\ \A y \in Procs : y # x => pc'[y] = pc[y] /\ noted'[y] = noted[y]
    BY <1>6, <1>a, <1>b, GotoLemma DEF Run, Goto
  <2>2. CASE db.schema = noted[x] - 1 /\ db' = [db EXCEPT !.schema = noted[x]]
    <3>1. noted[x] = db.schema + 1
      BY <2>2, <1>b
    <3>2. db'.dirty = db.dirty /\ db'.version = db.version /\ db'.schema = db.schema + 1
      BY <2>2, <3>1, <1>b DEF File
    <3>3. db.dirty \/ db.version <= db.schema
      BY <1>a, <1>b DEF RowIsTrue
    <3>4. ASSUME NEW y \in Procs, pc[y] = "clean" PROVE noted[y] \in Repeatable /\ y # x
      <4>1. y # x /\ InStep(y, x)
        BY <3>4, <2>1, <1>a
      <4>2. noted[y] \notin Repeatable => noted[x] <= db.schema
        BY <3>4, <4>1, <2>1, Zenon DEF InStep
      <4>3. ~(noted[x] <= db.schema)
        BY <3>1, <1>b
      <4> QED BY <4>1, <4>2, <4>3
    <3>5. \A y \in Procs : pc[y] \in {"mark", "run", "clean"} => noted[y] <= db'.schema
      BY <3>2, <1>a, <1>b DEF InStep
    <3>6. ASSUME p = x PROVE InStep(p, q)'
      BY <3>6, <2>1, <3>1, <3>2, <3>3, <3>4, <3>5, <1>a, <1>b DEF InStep
    <3>7. ASSUME p # x PROVE InStep(p, q)'
      BY <3>7, <2>1, <3>1, <3>2, <3>3, <3>4, <3>5, <1>a, <1>b DEF InStep
    <3> QED BY <3>6, <3>7
  <2>3. CASE AppliedAgain(x) /\ UNCHANGED db
    BY <2>1, <2>3, <1>a, <1>b DEF AppliedAgain, InStep
  <2> QED BY <1>6, <2>2, <2>3 DEF Run
<1>7. ASSUME NEW x \in Procs, RunFails(x) PROVE InStep(p, q)'
  BY <1>7, <1>c DEF RunFails, file
(* The row goes to the schema's version, or back to one that was applied   *)
(* again: who waits for its mark is then ahead of x, and who is about to   *)
(* apply the next body finds a row of the second kind.                     *)
<1>8. ASSUME NEW x \in Procs, MarkClean(x) PROVE InStep(p, q)'
  <2>1. /\ db'.schema = db.schema /\ db'.version = noted[x] /\ ~db'.dirty
        /\ pc[x] = "clean" /\ noted[x] <= db.schema /\ noted[x] \in Nat
    BY <1>8, <1>a, <1>b DEF MarkClean, SetVersion, File, InStep
  <2>2. \A y \in Procs : y # x => pc'[y] = pc[y] /\ noted'[y] = noted[y]
    BY <1>8, <1>a, GotoLemma DEF MarkClean, Goto
  <2>3. \/ pc'[x] \in {"serving", "down"}
        \/ pc'[x] = "mark" /\ noted'[x] = noted[x] + 1
    <3>1. \/ Goto(x, "serving", 0) \/ Goto(x, "down", 0) \/ Goto(x, "mark", noted[x] + 1)
      BY <1>8, <2>1 DEF MarkClean, End
    <3>2. CASE Goto(x, "serving", 0) \/ Goto(x, "down", 0)
      BY <3>2, <1>a, GotoLemma DEF Goto
    <3>3. CASE Goto(x, "mark", noted[x] + 1)
      BY <3>3, <1>a, GotoLemma DEF Goto
    <3> QED BY <3>1, <3>2, <3>3
  <2>4. ASSUME NEW y \in Procs, y # x, pc[y] = "clean", noted[y] \notin Repeatable
        PROVE  noted[x] < db.schema
    BY <2>1, <2>4, <1>a, <1>b DEF InStep
  <2>5. ASSUME NEW y \in Procs, pc[y] = "run", noted[y] = db.schema + 1
        PROVE  noted[x] \in Repeatable
    <3>1. y # x /\ InStep(x, y)
      BY <2>1, <2>5, <1>a
    <3>2. noted[x] \notin Repeatable => noted[y] <= db.schema
      BY <2>1, <2>5, <3>1, Zenon DEF InStep
    <3>3. ~(noted[y] <= db.schema)
      BY <2>5, <1>b
    <3> QED BY <3>2, <3>3
  <2>6. CASE p = x
    BY <2>1, <2>3, <2>6, <1>b DEF InStep
  <2>7. CASE p # x
    <3>1. pc'[p] = pc[p] /\ noted'[p] = noted[p]
      BY <2>2, <2>7
    <3>2. pc[p] \in {"mark", "run", "clean"} => noted[p] \in 1..(db.schema + 1)
      BY <1>a DEF InStep
    <3>3. pc[p] = "run" /\ noted[p] = db.schema + 1 => db'.version \in Repeatable
      BY <2>1, <2>5
    <3>4. pc[p] = "clean" => noted[p] <= db.schema
      BY <1>a DEF InStep
    <3>5. ASSUME pc[p] = "clean", noted[p] \notin Repeatable
          PROVE  /\ noted[p] = db.schema /\ db'.version < db.schema
                 /\ q # p =>
                      /\ pc'[q] \in {"mark", "run"} => noted'[q] <= db.schema
                      /\ pc'[q] = "clean" => noted'[q] \in Repeatable
      <4>1. noted[x] < db.schema
        BY <2>4, <2>7, <3>5
      <4>2. CASE q = x
        BY <4>1, <4>2, <2>1, <2>3, <3>5, <1>a, <1>b DEF InStep
      <4>3. CASE q # x
        BY <4>1, <4>3, <2>1, <2>2, <3>5, <1>a, <1>b DEF InStep
      <4> QED BY <4>2, <4>3
    <3> QED BY <2>1, <3>1, <3>2, <3>3, <3>4, <3>5 DEF InStep
  <2> QED BY <2>6, <2>7
<1>9. ASSUME NEW x \in Procs, Abort(x) PROVE InStep(p, q)'
  BY <1>9, <1>c DEF Abort, file
<1>10. ASSUME NEW x \in Procs, Deploy(x) PROVE InStep(p, q)'
  BY <1>10, <1>d DEF Deploy, file
<1>11. ASSUME NEW x \in Procs, MigrateForce(x) PROVE InStep(p, q)'
  <2>1. \A y \in Procs : pc'[y] \in {"down", "up"}
    BY <1>11, <1>a, GotoLemma DEF MigrateForce, Stopped, Running, Goto
  <2> QED BY <2>1, <1>e
<1>12. CASE Write
  <2>1. db'.schema = db.schema /\ db'.dirty = db.dirty /\ db'.version = db.version
    BY <1>12, <1>b DEF Write, File
  <2> QED BY <2>1, <1>12, <1>d DEF Write
<1>13. CASE Restore
  BY <1>13, <1>e DEF Restore, Stopped, Running
<1>14. CASE UNCHANGED upgradeVars
  BY <1>14, <1>d DEF upgradeVars, file
<1> QED BY <1>1, <1>2, <1>3, <1>4, <1>5, <1>6, <1>7, <1>8, <1>9, <1>10, <1>11, <1>12, <1>13, <1>14
        DEF UpgradeNext, Migrate

(* The schema moves forward under a server, and every way in ends at or    *)
(* beyond its release.                                                     *)
LEMMA ServerStep ==
  SchemaInv /\ [UpgradeNext]_upgradeVars => ServerIsUpToDate'
<1> SUFFICES ASSUME SchemaInv, [UpgradeNext]_upgradeVars, NEW p \in Procs, pc'[p] = "serving"
             PROVE  p = server /\ db'.schema >= release'[p]
  BY DEF ServerIsUpToDate
<1>a. UpgradeTypeOK /\ RowIsTrue(db) /\ MigrationsInStep /\ ServerIsUpToDate
  BY DEF SchemaInv
<1>b. /\ db \in File /\ db.schema \in Nat
      /\ \A x \in Procs : noted[x] \in Nat /\ release[x] \in Nat
  BY <1>a, ReleaseTypes DEF UpgradeTypeOK, File
<1>c. ASSUME pc[p] = "serving", db'.schema >= db.schema, db'.schema \in Nat, release'[p] = release[p]
      PROVE  p = server /\ db'.schema >= release'[p]
  BY <1>a, <1>b, <1>c DEF ServerIsUpToDate
<1>d. ASSUME NEW x \in Procs, NEW step \in {"down", "backup", "check", "up", "mark", "run", "clean"}, NEW v \in Nat,
             Goto(x, step, v)
      PROVE  pc[p] = "serving"
  BY <1>a, <1>d, GotoLemma DEF Goto
<1> DEFINE Goal == p = server /\ db'.schema >= release'[p]
<1>1. ASSUME NEW x \in Procs, Start(x) PROVE Goal
  BY <1>1, <1>b, <1>c, <1>d DEF Start, file, File
<1>2. ASSUME NEW x \in Procs, takePreMigrationBackup(x) PROVE Goal
  BY <1>2, <1>b, <1>c, <1>d DEF takePreMigrationBackup, ReuseSnapshot, BackupSnapshot, file
<1>3. ASSUME NEW x \in Procs, RunMigrations(x) PROVE Goal
  BY <1>3, <1>b, <1>c, <1>d DEF RunMigrations, file
<1>4. ASSUME NEW x \in Procs, Up(x) PROVE Goal
  <2>1. CASE ~db.dirty /\ db.version = release[x] /\ Goto(x, End(x), 0)
    <3>1. CASE p = x
      <4>1. pc'[p] = End(p)
        BY <2>1, <3>1, <1>a, GotoLemma DEF Goto
      <4> QED BY <1>4, <2>1, <3>1, <4>1, <1>a, <1>b DEF Up, End, RowIsTrue, file
    <3>2. CASE p # x
      BY <1>4, <2>1, <3>2, <1>a, <1>b, <1>c, GotoLemma DEF Up, Goto, file
    <3> QED BY <3>1, <3>2
  <2>2. CASE Goto(x, "down", 0) \/ Goto(x, "mark", db.version + 1)
    BY <1>4, <2>2, <1>b, <1>c, <1>d DEF Up, file, File
  <2> QED BY <1>4, <2>1, <2>2 DEF Up
<1>5. ASSUME NEW x \in Procs, MarkDirty(x) PROVE Goal
  <2>1. db'.schema = db.schema
    BY <1>5, <1>b DEF MarkDirty, SetVersion, File
  <2> QED BY <1>5, <2>1, <1>b, <1>c, <1>d DEF MarkDirty
<1>6. ASSUME NEW x \in Procs, Run(x) PROVE Goal
  <2>1. db'.schema >= db.schema /\ db'.schema \in Nat
    BY <1>6, <1>a, <1>b DEF Run, MigrationsInStep, File
  <2> QED BY <1>6, <2>1, <1>b, <1>c, <1>d DEF Run
<1>7. ASSUME NEW x \in Procs, RunFails(x) PROVE Goal
  BY <1>7, <1>b, <1>c, <1>d DEF RunFails, file
<1>8. ASSUME NEW x \in Procs, MarkClean(x) PROVE Goal
  <2>1. db'.schema = db.schema /\ noted[x] <= db.schema /\ UNCHANGED release
    BY <1>8, <1>a, <1>b DEF MarkClean, SetVersion, MigrationsInStep, File
  <2>2. CASE p = x
    <3>1. noted[x] = release[x] /\ pc'[p] = End(p)
      BY <1>8, <1>a, <1>b, <2>2, GotoLemma DEF MarkClean, Goto
    <3> QED BY <2>1, <2>2, <3>1, <1>b DEF End
  <2>3. CASE p # x
    <3>1. pc[p] = "serving"
      BY <1>8, <1>a, <1>b, <2>3, GotoLemma DEF MarkClean, Goto
    <3> QED BY <2>1, <3>1, <1>b, <1>c
  <2> QED BY <2>2, <2>3
<1>9. ASSUME NEW x \in Procs, Abort(x) PROVE Goal
  BY <1>9, <1>b, <1>c, <1>d DEF Abort, file
<1>10. ASSUME NEW x \in Procs, Deploy(x) PROVE Goal
  BY <1>10, <1>a, <1>b, <1>c DEF Deploy, Running, UpgradeTypeOK, file
<1>11. ASSUME NEW x \in Procs, MigrateForce(x) PROVE Goal
  BY <1>11, <1>d DEF MigrateForce, Stopped, Running
<1>12. CASE Write
  <2>1. db'.schema = db.schema
    BY <1>12, <1>b DEF Write, File
  <2> QED BY <2>1, <1>12, <1>b, <1>c DEF Write
<1>13. CASE Restore
  BY <1>13 DEF Restore, Stopped, Running
<1>14. CASE UNCHANGED upgradeVars
  BY <1>14, <1>b, <1>c DEF upgradeVars, file
<1> QED BY <1>1, <1>2, <1>3, <1>4, <1>5, <1>6, <1>7, <1>8, <1>9, <1>10, <1>11, <1>12, <1>13, <1>14
        DEF UpgradeNext, Migrate

LEMMA SchemaInductive == SchemaInv /\ [UpgradeNext]_upgradeVars => SchemaInv'
BY UpgradeTypeStep, RowStep, InStepStep, ServerStep DEF SchemaInv

LEMMA SchemaInvariance == UpgradeSpec => []SchemaInv
BY SchemaInitInv, SchemaInductive, PTL DEF UpgradeSpec

-----------------------------------------------------------------------------
LEMMA RollbackInitInv == UpgradeInit => RollbackInv
<1> SUFFICES ASSUME UpgradeInit PROVE RollbackInv
  OBVIOUS
<1>1. PICK r \in Releases : db \in {Clean(0, 0), Clean(r, 1)}
  BY DEF UpgradeInit
<1>2. HasWayBack(db)
  BY <1>1 DEF HasWayBack, Clean
<1> QED BY <1>2 DEF UpgradeInit, RollbackInv, CoveredBeforeMigration

(* What is covered stays so: no snapshot goes away.                        *)
LEMMA CoveredStays ==
  ASSUME [UpgradeNext]_upgradeVars, NEW d, Covered(d)
  PROVE  Covered(d)'
<1>1. snapshots \subseteq snapshots' /\ uncovered \subseteq uncovered'
  BY DEF UpgradeNext, Migrate, Start, takePreMigrationBackup, ReuseSnapshot, BackupSnapshot,
         RunMigrations, Up, MarkDirty, Run, RunFails, MarkClean, Abort, Deploy, MigrateForce,
         Write, Restore, upgradeVars
<1> QED BY <1>1 DEF Covered, Saved

LEMMA FilesStep ==
  SchemaInv /\ RollbackInv /\ [UpgradeNext]_upgradeVars =>
    HasWayBack(db)' /\ \A s \in snapshots' : HasWayBack(s.db)'
<1> SUFFICES ASSUME SchemaInv, RollbackInv, [UpgradeNext]_upgradeVars
             PROVE  HasWayBack(db)' /\ \A s \in snapshots' : HasWayBack(s.db)'
  OBVIOUS
<1>a. /\ UpgradeTypeOK /\ RowIsTrue(db) /\ MigrationsInStep /\ ServerIsUpToDate
      /\ HasWayBack(db) /\ CoveredBeforeMigration
  BY DEF SchemaInv, RollbackInv
<1>b. db \in File /\ db.schema \in Nat /\ db.wrote \in Nat /\ db.data \in Nat
  BY <1>a DEF UpgradeTypeOK, File
<1>c. HasWayBack(db)' \/ db' # db
  BY <1>a, CoveredStays DEF HasWayBack
<1>d. \A s \in snapshots : HasWayBack(s.db)'
  BY CoveredStays DEF RollbackInv, HasWayBack
<1> DEFINE Goal == HasWayBack(db)' /\ \A s \in snapshots' : HasWayBack(s.db)'
<1>1. ASSUME NEW p \in Procs, Start(p) \/ RunMigrations(p) \/ Up(p) \/ RunFails(p) \/ Abort(p) \/ Deploy(p)
      PROVE  Goal
  BY <1>1, <1>c, <1>d DEF Start, RunMigrations, Up, RunFails, Abort, Deploy, file
<1>2. ASSUME NEW p \in Procs, takePreMigrationBackup(p) PROVE Goal
  <2>1. UNCHANGED db /\ \A s \in snapshots' : s \in snapshots \/ s.db = db
    BY <1>2 DEF takePreMigrationBackup, ReuseSnapshot, BackupSnapshot, file
  <2> QED BY <2>1, <1>c, <1>d
(* A migration touches data that is covered.                               *)
<1>3. ASSUME NEW p \in Procs, MarkDirty(p) \/ Run(p) \/ MarkClean(p) PROVE Goal
  <2>1. /\ db'.data = db.data /\ db'.wrote = db.wrote /\ UNCHANGED snapshots
        /\ db'.schema \in Nat /\ db'.schema >= db.schema
    <3>1. CASE Run(p)
      BY <3>1, <1>a, <1>b DEF Run, MigrationsInStep, File
    <3>2. CASE MarkDirty(p) \/ MarkClean(p)
      <4>1. TRUE \in BOOLEAN /\ FALSE \in BOOLEAN
        OBVIOUS
      <4>2. db'.data = db.data /\ db'.wrote = db.wrote /\ db'.schema = db.schema
        BY <3>2, <4>1, <1>a, SetVersionLemma, Zenon DEF MarkDirty, MarkClean
      <4>3. UNCHANGED snapshots
        BY <3>2 DEF MarkDirty, MarkClean
      <4> QED BY <4>2, <4>3, <1>b
    <3> QED BY <1>3, <3>1, <3>2
  <2>2. Covered(db.data)'
    BY <1>3, <1>a, <2>1, CoveredStays DEF CoveredBeforeMigration, MarkDirty, Run, MarkClean
  <2>3. HasWayBack(db)'
    BY <2>1, <2>2, <1>a, <1>b DEF HasWayBack
  <2> QED BY <2>1, <2>3, <1>d
<1>4. ASSUME NEW p \in Procs, MigrateForce(p) PROVE Goal
  <2>1. /\ db'.data = db.data /\ db'.wrote = db.wrote /\ db'.schema = db.schema
        /\ db.dirty /\ UNCHANGED snapshots
    BY <1>4, <1>b DEF MigrateForce, File
  <2>2. Covered(db.data)'
    BY <2>1, <1>a, CoveredStays DEF HasWayBack
  <2>3. HasWayBack(db)'
    BY <2>1, <2>2, <1>a DEF HasWayBack
  <2> QED BY <2>1, <2>3, <1>d
<1>5. CASE Write
  <2>1. /\ db'.data = writes' /\ db'.wrote = db.schema /\ db'.schema = db.schema
        /\ db'.dirty = db.dirty /\ UNCHANGED snapshots
    BY <1>5, <1>a, WriteStep DEF Write
  <2>2. db.schema >= Floor
    BY <1>5, <1>a, <1>b, ReleaseTypes DEF Write, ServerIsUpToDate
  <2>3. db.dirty => Covered(db.data)'
    BY <1>5, <2>1 DEF Write, Covered
  <2>4. HasWayBack(db)'
    BY <2>1, <2>2, <2>3, <1>b DEF HasWayBack
  <2> QED BY <2>1, <2>4, <1>d
<1>6. CASE Restore
  BY <1>6, <1>d DEF Restore
<1>7. CASE UNCHANGED upgradeVars
  BY <1>7, <1>c, <1>d DEF upgradeVars, file
<1> QED BY <1>1, <1>2, <1>3, <1>4, <1>5, <1>6, <1>7 DEF UpgradeNext, Migrate

LEMMA CoveredStep ==
  SchemaInv /\ RollbackInv /\ [UpgradeNext]_upgradeVars => CoveredBeforeMigration'
<1> SUFFICES ASSUME SchemaInv, RollbackInv, [UpgradeNext]_upgradeVars, NEW p \in Procs
             PROVE  /\ pc'[p] = "check" =>
                         Covered(db.data)' \/ db'.version >= release'[p] \/ BelowFloor'
                    /\ pc'[p] = "up" => Covered(db.data)' \/ db'.version >= release'[p]
                    /\ pc'[p] \in {"mark", "run", "clean"} => Covered(db.data)'
  BY DEF CoveredBeforeMigration
<1> DEFINE Goal ==
      /\ pc'[p] = "check" => Covered(db.data)' \/ db'.version >= release'[p] \/ BelowFloor'
      /\ pc'[p] = "up" => Covered(db.data)' \/ db'.version >= release'[p]
      /\ pc'[p] \in {"mark", "run", "clean"} => Covered(db.data)'
<1>a. /\ UpgradeTypeOK /\ RowIsTrue(db) /\ MigrationsInStep /\ ServerIsUpToDate
      /\ HasWayBack(db) /\ CoveredBeforeMigration
  BY DEF SchemaInv, RollbackInv
<1>b. /\ db \in File /\ db.schema \in Nat /\ db.wrote \in Nat /\ db.data \in Nat
      /\ db.version \in Nat
      /\ \A x \in Procs : release[x] \in Nat /\ release[x] >= Floor
  BY <1>a, ReleaseTypes DEF UpgradeTypeOK, File
<1>c. Covered(db.data) /\ db'.data = db.data => Goal
  BY CoveredStays
<1>d. ASSUME UNCHANGED <<pc, release, db>> PROVE Goal
  BY <1>a, <1>d, CoveredStays DEF CoveredBeforeMigration, BelowFloor
(* The other processes keep what they have behind them.                    *)
<1>e. ASSUME NEW x \in Procs, x # p, NEW step, NEW v, Goto(x, step, v), UNCHANGED <<db, release>>
      PROVE  Goal
  <2>1. pc'[p] = pc[p]
    BY <1>a, <1>e, GotoLemma DEF Goto
  <2> QED BY <1>a, <1>e, <2>1, CoveredStays DEF CoveredBeforeMigration, BelowFloor
<1>f. ASSUME pc'[p] \notin {"check", "up", "mark", "run", "clean"} PROVE Goal
  BY <1>f
(* A start that takes no snapshot has nothing to save or to migrate, or is *)
(* below the floor.                                                        *)
<1>1. ASSUME NEW x \in Procs, Start(x) PROVE Goal
  <2>1. CASE x # p
    BY <1>1, <2>1, <1>e DEF Start, file
  <2>2. CASE x = p /\ shouldTakePreMigrationBackup(p)
    BY <1>1, <2>2, <1>a, <1>f, GotoLemma DEF Start, Goto
  <2>3. CASE x = p /\ ~shouldTakePreMigrationBackup(p)
    <3>1. db.dirty \/ db.version = 0 \/ db.version >= release[p] \/ BelowFloor
      BY <2>3, <1>b DEF shouldTakePreMigrationBackup, BelowFloor
    <3>2. ~db.dirty /\ db.version = 0 => db.data = 0
      BY <1>a, <1>b DEF RowIsTrue, HasWayBack
    <3>3. Covered(db.data) \/ db.version >= release[p] \/ BelowFloor
      BY <3>1, <3>2, <1>a DEF HasWayBack, Covered
    <3>4. pc'[p] = "check" /\ UNCHANGED <<db, release>>
      BY <1>1, <2>3, <1>a, GotoLemma DEF Start, Goto, file
    <3> QED BY <3>3, <3>4, CoveredStays DEF BelowFloor
  <2> QED BY <2>1, <2>2, <2>3
(* The snapshot is one from before the migrations of this data, or they    *)
(* had it covered.                                                         *)
<1>2. ASSUME NEW x \in Procs, takePreMigrationBackup(x) PROVE Goal
  <2>0. UNCHANGED <<db, release>>
    BY <1>2 DEF takePreMigrationBackup, file
  <2>1. CASE x # p
    BY <1>2, <2>1, <1>e, <2>0 DEF takePreMigrationBackup, ReuseSnapshot, BackupSnapshot
  <2>2. CASE x = p /\ BackupSnapshot(p)
    <3>1. Covered(db.data) \/ (~db.dirty /\ db.schema = db.wrote)
      BY <1>a, <1>b DEF HasWayBack, Covered
    <3>2. ~db.dirty /\ db.schema = db.wrote => Saved(db.data)'
      <4> DEFINE s == [from |-> noted[p], to |-> release[p], db |-> db]
      <4>1. s \in snapshots' /\ s.db = db
        BY <2>2 DEF BackupSnapshot
      <4> QED BY <4>1, <2>0 DEF Saved
    <3>3. Covered(db.data)'
      BY <2>0, <3>1, <3>2, CoveredStays DEF Covered
    <3> QED BY <2>0, <3>3
  <2>3. CASE x = p /\ ReuseSnapshot(p)
    <3>1. Covered(db.data)'
      BY <2>3, <2>0 DEF ReuseSnapshot, Covered, Saved
    <3> QED BY <2>0, <3>1
  <2> QED BY <1>2, <2>1, <2>2, <2>3 DEF takePreMigrationBackup
<1>3. ASSUME NEW x \in Procs, RunMigrations(x) PROVE Goal
  <2>1. CASE x # p
    BY <1>3, <2>1, <1>e DEF RunMigrations, file
  <2>2. CASE x = p
    <3>1. /\ UNCHANGED <<db, release>> /\ pc[p] = "check"
          /\ pc'[p] = IF checkMigrationPreflight(p) THEN "up" ELSE "down"
      BY <1>3, <2>2, <1>a, GotoLemma DEF RunMigrations, Goto, file
    <3>2. checkMigrationPreflight(p) => ~BelowFloor
      BY <1>b DEF checkMigrationPreflight, BelowFloor
    <3> QED BY <3>1, <3>2, <1>a, CoveredStays DEF CoveredBeforeMigration
  <2> QED BY <2>1, <2>2
<1>4. ASSUME NEW x \in Procs, Up(x) PROVE Goal
  <2>1. CASE x # p
    BY <1>4, <2>1, <1>e DEF Up, file
  <2>2. CASE x = p /\ ~db.dirty /\ db.version < release[p]
    <3>1. ~(db.version >= release[p])
      BY <2>2, <1>b
    <3> QED BY <1>4, <2>2, <3>1, <1>a, <1>c DEF Up, CoveredBeforeMigration, file
  <2>3. CASE x = p /\ ~(~db.dirty /\ db.version < release[p])
    <3>1. pc'[p] \in {"down", "serving"}
      BY <1>4, <2>3, <1>a, GotoLemma DEF Up, Goto, End
    <3> QED BY <3>1, <1>f
  <2> QED BY <2>1, <2>2, <2>3
<1>5. ASSUME NEW x \in Procs, MarkDirty(x) \/ Run(x) \/ MarkClean(x) PROVE Goal
  <2>1. Covered(db.data)
    BY <1>5, <1>a DEF CoveredBeforeMigration, MarkDirty, Run, MarkClean
  <2>2. db'.data = db.data
    BY <1>5, <1>b DEF MarkDirty, Run, MarkClean, SetVersion, File
  <2> QED BY <2>1, <2>2, <1>c
<1>6. ASSUME NEW x \in Procs, RunFails(x) \/ Abort(x) PROVE Goal
  <2>1. CASE x # p
    BY <1>6, <2>1, <1>e DEF RunFails, Abort, file
  <2>2. CASE x = p
    BY <1>6, <2>2, <1>a, <1>f, GotoLemma DEF RunFails, Abort, Goto
  <2> QED BY <2>1, <2>2
<1>7. ASSUME NEW x \in Procs, Deploy(x) PROVE Goal
  <2>1. UNCHANGED <<pc, db>> /\ \A y \in Procs \ {x} : release'[y] = release[y]
    BY <1>7, <1>a DEF Deploy, file, UpgradeTypeOK
  <2>2. CASE x # p
    BY <2>1, <2>2, <1>a, CoveredStays DEF CoveredBeforeMigration, BelowFloor
  <2>3. CASE x = p
    BY <1>7, <2>1, <2>3, <1>f DEF Deploy, Running
  <2> QED BY <2>2, <2>3
<1>8. ASSUME NEW x \in Procs, MigrateForce(x) PROVE Goal
  <2>1. db'.data = db.data /\ db.dirty
    BY <1>8, <1>b DEF MigrateForce, File
  <2> QED BY <2>1, <1>a, <1>c DEF HasWayBack
(* What is written over a migration is named in uncovered.                 *)
<1>9. CASE Write
  <2>1. db'.data = writes' /\ UNCHANGED pc
    BY <1>9, <1>a, WriteStep DEF Write
  <2>2. PastBackup(p) => Covered(db.data)'
    BY <1>9, <2>1 DEF Write, Covered
  <2> QED BY <2>1, <2>2 DEF PastBackup
<1>10. CASE Restore
  BY <1>10, <1>f DEF Restore, Stopped, Running
<1>11. CASE UNCHANGED upgradeVars
  BY <1>11, <1>d DEF upgradeVars, file
<1> QED BY <1>1, <1>2, <1>3, <1>4, <1>5, <1>6, <1>7, <1>8, <1>9, <1>10, <1>11
        DEF UpgradeNext, Migrate

LEMMA RollbackInvariance == UpgradeSpec => [](SchemaInv /\ RollbackInv)
<1>1. SchemaInv /\ RollbackInv /\ [UpgradeNext]_upgradeVars => RollbackInv'
  BY FilesStep, CoveredStep DEF RollbackInv
<1> QED BY <1>1, SchemaInitInv, SchemaInductive, RollbackInitInv, PTL DEF UpgradeSpec

(* Every reachable state has the types of its variables.                   *)
THEOREM UpgradeTypeCorrect == UpgradeSpec => []UpgradeTypeOK
BY SchemaInvariance, PTL DEF SchemaInv

(* For every set of processes and releases: whatever starts, failures,     *)
(* restores and forces do, a clean version row is the schema's, and the    *)
(* server serves on its own schema or a later one.                         *)
THEOREM SchemaStaysKnown == UpgradeSpec => []SchemaIsKnown
<1>1. SchemaInv => SchemaIsKnown
  BY DEF SchemaInv, RowIsTrue, ServerIsUpToDate, SchemaIsKnown
<1> QED BY <1>1, SchemaInvariance, PTL

(* Migrated data has its snapshot, or is named in uncovered.               *)
THEOREM RollbackIsPossible == UpgradeSpec => []RollbackPoint
<1>1. SchemaInv /\ RollbackInv => RollbackPoint
  BY DEF SchemaInv, UpgradeTypeOK, File, RollbackInv, HasWayBack, Covered, RollbackPoint
<1> QED BY <1>1, RollbackInvariance, PTL
=============================================================================
