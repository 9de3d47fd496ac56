----------------------------- MODULE WriteGate -----------------------------
(***************************************************************************)
(* internal/writegate: the queue in front of SQLite's write lock.          *)
(*                                                                         *)
(* A writer calls acquire before BEGIN IMMEDIATE (or an autocommit Exec)   *)
(* and release when the transaction ends.  Every critical section of       *)
(* g.mu is one action: what a goroutine chose in its select (wake, timer   *)
(* or context) takes effect only when it gets g.mu, so choosing and        *)
(* locking are one step and everything others do in between happens        *)
(* before it.                                                              *)
(*                                                                         *)
(* Time appears in two places only.  A waiter becomes overdue              *)
(* (time.Since(w.since) >= starveAfter) at any point of its wait, but not  *)
(* before the waiters that arrived earlier: Age.  The timer and the end of *)
(* the context are GiveUp, open to the Impatient writers at any point of   *)
(* theirs.                                                                 *)
(***************************************************************************)
EXTENDS Naturals, FiniteSets, SequencesExt

CONSTANTS
  Writers,     \* goroutines that write
  Priority,    \* those whose context WithPriority marked: the audit recorder
  Impatient    \* those whose timer or context may end while they wait

ASSUME WriterAssumption == Priority \subseteq Writers /\ Impatient \subseteq Writers

VARIABLES
  held,        \* g.held
  starving,    \* g.starving
  waiters,     \* g.waiters
  st,          \* where each writer is in acquire: see Status
  since,       \* w.since, as the waiters that started waiting before w did
  overdue      \* the waiters with time.Since(w.since) >= starveAfter

vars == <<held, starving, waiters, st, since, overdue>>

(***************************************************************************)
(* "idle":    not between acquire and release                              *)
(* "queued":  in the select loop, w.wake open                              *)
(* "woken":   in the select loop, w.wake closed, w.granted false           *)
(* "granted": in the select loop, w.wake closed, w.granted true            *)
(* "holding": acquire returned nil and release has not run                 *)
(***************************************************************************)
Status == {"idle", "queued", "woken", "granted", "holding"}

(* The writers still in the select loop without the gate.                  *)
Waiting == {w \in Writers : st[w] \in {"queued", "woken"}}

TypeOK ==
  /\ held \in BOOLEAN
  /\ starving \in BOOLEAN
  /\ waiters \in Seq(Writers)
  /\ st \in [Writers -> Status]
  /\ since \in [Writers -> SUBSET Writers]
  /\ overdue \subseteq Waiting

Init ==
  /\ held = FALSE
  /\ starving = FALSE
  /\ waiters = <<>>
  /\ st = [w \in Writers |-> "idle"]
  /\ since = [w \in Writers |-> {}]
  /\ overdue = {}

(* The writers in W stop waiting.                                          *)
EndWait(W) ==
  /\ overdue' = overdue \ W
  /\ since' = [v \in Writers |-> IF v \in W THEN {} ELSE since[v] \ W]

-----------------------------------------------------------------------------
(* The queue.                                                              *)

(* enqueueLocked(w, false): a priority writer goes behind the priority     *)
(* writers at the front, any other to the back.                            *)
EnqueueNew(w) ==
  IF w \in Priority
  THEN \E k \in 0..Len(waiters) :
         /\ \A i \in 1..k : waiters[i] \in Priority
         /\ k < Len(waiters) => waiters[k + 1] \notin Priority
         /\ waiters' = InsertAt(waiters, k + 1, w)
  ELSE waiters' = Append(waiters, w)

(* enqueueLocked(w, true): a waiter that was woken and lost the race.      *)
EnqueueFront(w) == waiters' = <<w>> \o waiters

(* wakeFrontLocked, in a state whose status function is s: the front       *)
(* leaves the queue with its wake channel closed.                          *)
WakeFront(s) ==
  IF waiters = <<>>
  THEN /\ st' = s
       /\ UNCHANGED waiters
  ELSE /\ st' = [s EXCEPT ![Head(waiters)] = "woken"]
       /\ waiters' = Tail(waiters)

(* releaseLocked by w, which becomes idle: in starvation mode the gate is  *)
(* handed to the front, otherwise it is freed and the front is woken.      *)
HandOver(w) ==
  LET f == Head(waiters) IN
  /\ starving
  /\ waiters # <<>>
  /\ st' = [st EXCEPT ![w] = "idle", ![f] = "granted"]
  /\ waiters' = Tail(waiters)
  /\ starving' = (Tail(waiters) # <<>> /\ f \in overdue)
  /\ EndWait({w, f})
  /\ UNCHANGED held

Free(w) ==
  /\ ~(starving /\ waiters # <<>>)
  /\ starving' = FALSE
  /\ held' = FALSE
  /\ WakeFront([st EXCEPT ![w] = "idle"])
  /\ EndWait({w})

ReleaseLocked(w) == HandOver(w) \/ Free(w)

-----------------------------------------------------------------------------
(* acquire                                                                 *)

(* The fast path: the gate is free and nobody is owed it.                  *)
TakeFree(w) ==
  /\ st[w] = "idle"
  /\ ~held /\ ~starving
  /\ held' = TRUE
  /\ st' = [st EXCEPT ![w] = "holding"]
  /\ UNCHANGED <<starving, waiters, since, overdue>>

Enqueue(w) ==
  /\ st[w] = "idle"
  /\ held \/ starving
  /\ EnqueueNew(w)
  /\ st' = [st EXCEPT ![w] = "queued"]
  /\ since' = [since EXCEPT ![w] = Waiting]
  /\ UNCHANGED <<held, starving, overdue>>

(* case <-w.wake with w.granted: the gate was handed over.                 *)
ReceiveGrant(w) ==
  /\ st[w] = "granted"
  /\ st' = [st EXCEPT ![w] = "holding"]
  /\ UNCHANGED <<held, starving, waiters, since, overdue>>

(* case <-w.wake without w.granted: compete for the free gate.             *)
WinRace(w) ==
  /\ st[w] = "woken"
  /\ ~held
  /\ held' = TRUE
  /\ st' = [st EXCEPT ![w] = "holding"]
  /\ EndWait({w})
  /\ UNCHANGED <<starving, waiters>>

(* A mutation of LoseRace: losing never starts starvation mode.            *)
LoseRacePatiently(w) ==
  /\ st[w] = "woken"
  /\ held
  /\ EnqueueFront(w)
  /\ st' = [st EXCEPT ![w] = "queued"]
  /\ UNCHANGED <<held, starving, since, overdue>>

LoseRace(w) ==
  /\ st[w] = "woken"
  /\ held
  /\ starving' = (starving \/ w \in overdue)
  /\ EnqueueFront(w)
  /\ st' = [st EXCEPT ![w] = "queued"]
  /\ UNCHANGED <<held, since, overdue>>

(* Mutations of giveUp: the waiter stays in the queue, the gate it was     *)
(* handed is dropped, the wake-up it got is not passed on.                 *)
GiveUpStillQueued(w) ==
  /\ st[w] = "queued"
  /\ st' = [st EXCEPT ![w] = "idle"]
  /\ EndWait({w})
  /\ UNCHANGED <<held, starving, waiters>>

GiveUpDropsGate(w) ==
  /\ st[w] = "granted"
  /\ st' = [st EXCEPT ![w] = "idle"]
  /\ UNCHANGED <<held, starving, waiters, since, overdue>>

GiveUpDropsWakeup(w) ==
  /\ st[w] = "woken"
  /\ st' = [st EXCEPT ![w] = "idle"]
  /\ EndWait({w})
  /\ UNCHANGED <<held, starving, waiters>>

(* giveUp after <-ctx.Done() or <-timer.C, by what w.wake and w.granted    *)
(* are when it gets g.mu.                                                  *)
GiveUpQueued(w) ==
  /\ st[w] = "queued"
  /\ \E i \in 1..Len(waiters) :
       /\ waiters[i] = w
       /\ waiters' = RemoveAt(waiters, i)
  /\ st' = [st EXCEPT ![w] = "idle"]
  /\ EndWait({w})
  /\ UNCHANGED <<held, starving>>

GiveUpGranted(w) ==
  /\ st[w] = "granted"
  /\ ReleaseLocked(w)

GiveUpWoken(w) ==
  /\ st[w] = "woken"
  /\ IF held
     THEN /\ st' = [st EXCEPT ![w] = "idle"]
          /\ UNCHANGED waiters
     ELSE WakeFront([st EXCEPT ![w] = "idle"])
  /\ EndWait({w})
  /\ UNCHANGED <<held, starving>>

GiveUp(w) ==
  /\ w \in Impatient
  /\ GiveUpQueued(w) \/ GiveUpGranted(w) \/ GiveUpWoken(w)

(* release: the transaction committed or rolled back, or the Exec is done. *)
Release(w) ==
  /\ st[w] = "holding"
  /\ ReleaseLocked(w)

(* starveAfter passes for a waiter.                                        *)
Age(w) ==
  /\ st[w] \in {"queued", "woken"}
  /\ w \notin overdue
  /\ since[w] \subseteq overdue
  /\ overdue' = overdue \cup {w}
  /\ UNCHANGED <<held, starving, waiters, st, since>>

Step(w) ==
  \/ TakeFree(w) \/ Enqueue(w)
  \/ ReceiveGrant(w) \/ WinRace(w) \/ LoseRace(w)
  \/ GiveUp(w) \/ Release(w) \/ Age(w)

Next == \E w \in Writers : Step(w)

Spec == Init /\ [][Next]_vars

(* A goroutine with something to do is scheduled, a transaction ends, and  *)
(* time passes.  Nobody has to write, and nobody has to give up.           *)
Fairness ==
  \A w \in Writers :
    /\ WF_vars(ReceiveGrant(w) \/ WinRace(w) \/ LoseRace(w))
    /\ WF_vars(Release(w))
    /\ WF_vars(Age(w))

FairSpec == Spec /\ Fairness

-----------------------------------------------------------------------------
(* What the gate promises.                                                 *)

(* The writers acquire has returned to, or is about to.                    *)
Admitted == {w \in Writers : st[w] \in {"granted", "holding"}}

(* One writer at a time is past the gate, and the held flag says whether   *)
(* there is one: a hand-over racing the new owner's timeout neither leaks  *)
(* the gate nor gives it to two (acquire, giveUp, releaseLocked).          *)
MutualExclusion ==
  /\ \A v, w \in Admitted : v = w
  /\ held <=> Admitted # {}

(* The queue holds each parked writer once and nobody else, so a writer    *)
(* that gave up or was already woken is never woken or handed the gate     *)
(* again (enqueueLocked, giveUp).                                          *)
QueueIsParked ==
  /\ IsInjective(waiters)
  /\ \A w \in Writers : st[w] = "queued" <=> Contains(waiters, w)

(* No lost wake-up: while writers are parked, either somebody holds the    *)
(* gate and will release it, or a woken writer is about to compete for it  *)
(* (wakeFrontLocked and the pass-on in giveUp).                            *)
NoLostWakeup == waiters # <<>> => held \/ \E w \in Writers : st[w] = "woken"

(* In starvation mode the gate only moves to the front of the queue: no    *)
(* newcomer and no woken writer overtakes it (releaseLocked, acquire).     *)
HandOverInOrder ==
  [][\A w \in Writers :
       starving /\ w \notin Admitted /\ w \in Admitted' =>
         waiters # <<>> /\ w = Head(waiters)]_vars

(* The gate implements a write lock that never idles while a writer waits. *)
Lock == INSTANCE WriteLock WITH owner <- Admitted, waiting <- Waiting
ImplementsLock == Lock!FairSpec

(* Every writer that waits is served, provided the woken writers get to    *)
(* run before the next one is woken and the priority writers stay away.    *)
AtMostOneWoken == \A v, w \in Writers : st[v] = "woken" /\ st[w] = "woken" => v = w
Served == \A w \in Writers \ Impatient : w \in Waiting ~> w \notin Waiting
ServedIfWokenRun == []AtMostOneWoken => Served
ServedInTurn == <>[](Priority \cap Waiting = {}) => ServedIfWokenRun
=============================================================================
