----------------------------- MODULE InFlight -----------------------------
(***************************************************************************)
(* Single-flight (src/src/inflight.rs): a map from cache keys to reference *)
(* counted async mutexes.  A caller clones the mutex of its key under the  *)
(* map's lock, waits on the clone outside it, and its `Guard` takes the    *)
(* entry back out on drop unless somebody else still holds a clone.        *)
(*                                                                         *)
(* Grain.  One action per critical section of the map's lock, so `acquire` *)
(* is Arrive (map lock), Enqueue (first poll of `lock_owned`) and Take,    *)
(* and a Guard's drop is DropGuard (the body of `Drop::drop`, under the    *)
(* map lock) and then ReleasePermit (the field drops that follow it).      *)
(* This is finer than the single-threaded runtime needs, and what the      *)
(* module's comments claim: "there is no window between the count and the  *)
(* removal".  tokio's mutex is FIFO; it is `permit` and `queue` here.      *)
(***************************************************************************)
EXTENDS Integers, FiniteSets, Sequences, SequencesExt

CONSTANTS Key, Task,
          Lock,                \* identities of allocated AsyncMutexes
          NoKey, NoLock, Nobody

ASSUME InFlightAssumption ==
  /\ IsFiniteSet(Key) /\ IsFiniteSet(Task)
  /\ NoKey \notin Key /\ NoLock \notin Lock /\ Nobody \notin Task

VARIABLES
  keys,      \* the map: the lock of a key, or NoLock when it has no entry
  pc,        \* where each task is in acquire / its Guard's drop
  key,       \* the key a task asked for
  arc,       \* the lock a task holds a clone of
  permit,    \* who holds each lock
  queue,     \* who waits for each lock, first come first served
  abandoned  \* history: keys a waiter was cancelled on while they stay mapped

flightVars == <<keys, pc, key, arc, permit, queue, abandoned>>

Phase == {"out", "cloned", "waiting", "holding", "leaving"}

FlightTypeOK ==
  /\ keys \in [Key -> Lock \cup {NoLock}]
  /\ pc \in [Task -> Phase]
  /\ key \in [Task -> Key \cup {NoKey}]
  /\ arc \in [Task -> Lock \cup {NoLock}]
  /\ permit \in [Lock -> Task \cup {Nobody}]
  /\ queue \in [Lock -> Seq(Task)]
  /\ abandoned \in SUBSET Key

FlightInit ==
  /\ keys = [k \in Key |-> NoLock]
  /\ pc = [t \in Task |-> "out"]
  /\ key = [t \in Task |-> NoKey]
  /\ arc = [t \in Task |-> NoLock]
  /\ permit = [l \in Lock |-> Nobody]
  /\ queue = [l \in Lock |-> <<>>]
  /\ abandoned = {}

-----------------------------------------------------------------------------
(* Reference counts *)

MapsTo(l) == {k \in Key : keys[k] = l}
Clones(l) == {t \in Task : arc[t] = l}

\* Arc::strong_count: the map's own copy and one per task.
StrongCount(l) == Cardinality(MapsTo(l)) + Cardinality(Clones(l))

\* An entry worth keeping when the next caller sweeps the map.
InUse(l) == StrongCount(l) > 1

\* Mutant: the removal forgets a waiter.
MutForgetsWaiter(l) == StrongCount(l) <= 3

\* Only the map's copy and the one inside our own permit are left.
NobodyElseNeeds(l) == StrongCount(l) <= 2

Swept == [k \in Key |-> IF keys[k] # NoLock /\ InUse(keys[k]) THEN keys[k] ELSE NoLock]

\* An allocation: an identity nothing refers to.
Unreferenced(l) == MapsTo(l) = {} /\ Clones(l) = {}

-----------------------------------------------------------------------------
(* acquire *)

Arrive(t, k) ==
  /\ pc[t] = "out"
  /\ \E l \in IF Swept[k] # NoLock THEN {Swept[k]} ELSE {f \in Lock : Unreferenced(f)} :
       /\ keys' = [Swept EXCEPT ![k] = l]
       /\ arc' = [arc EXCEPT ![t] = l]
  /\ pc' = [pc EXCEPT ![t] = "cloned"]
  /\ key' = [key EXCEPT ![t] = k]
  /\ abandoned' = {j \in abandoned : Swept[j] # NoLock}
  /\ UNCHANGED <<permit, queue>>

Enqueue(t) ==
  /\ pc[t] = "cloned"
  /\ pc' = [pc EXCEPT ![t] = "waiting"]
  /\ queue' = [queue EXCEPT ![arc[t]] = Append(@, t)]
  /\ UNCHANGED <<keys, key, arc, permit, abandoned>>

Take(t) ==
  /\ pc[t] = "waiting"
  /\ queue[arc[t]] # <<>> /\ Head(queue[arc[t]]) = t
  /\ permit[arc[t]] = Nobody
  /\ pc' = [pc EXCEPT ![t] = "holding"]
  /\ permit' = [permit EXCEPT ![arc[t]] = t]
  /\ queue' = [queue EXCEPT ![arc[t]] = Tail(@)]
  /\ UNCHANGED <<keys, key, arc, abandoned>>

\* The client disconnects and the handler's future is dropped inside acquire:
\* its clone goes, and the map is not looked at.
Cancel(t) ==
  /\ \/ /\ pc[t] = "cloned"
        /\ UNCHANGED queue
     \/ /\ pc[t] = "waiting"
        /\ \E i \in 1..Len(queue[arc[t]]) :
             /\ queue[arc[t]][i] = t
             /\ queue' = [queue EXCEPT ![arc[t]] = RemoveAt(@, i)]
  /\ pc' = [pc EXCEPT ![t] = "out"]
  /\ key' = [key EXCEPT ![t] = NoKey]
  /\ arc' = [arc EXCEPT ![t] = NoLock]
  /\ abandoned' = abandoned \cup {key[t]}
  /\ UNCHANGED <<keys, permit>>

-----------------------------------------------------------------------------
(* Guard::drop: the job finished, failed, or was dropped underneath. *)

DropGuard(t) ==
  /\ pc[t] = "holding"
  /\ keys' = IF keys[key[t]] # NoLock /\ NobodyElseNeeds(keys[key[t]])
             THEN [keys EXCEPT ![key[t]] = NoLock]
             ELSE keys
  /\ pc' = [pc EXCEPT ![t] = "leaving"]
  /\ key' = [key EXCEPT ![t] = NoKey]
  /\ abandoned' = {j \in abandoned : keys'[j] # NoLock}
  /\ UNCHANGED <<arc, permit, queue>>

\* Mutant: the guard is forgotten without giving its permit back.
MutLeaksPermit(t) ==
  /\ pc[t] = "leaving"
  /\ pc' = [pc EXCEPT ![t] = "out"]
  /\ arc' = [arc EXCEPT ![t] = NoLock]
  /\ UNCHANGED <<keys, permit, key, queue, abandoned>>

ReleasePermit(t) ==
  /\ pc[t] = "leaving"
  /\ pc' = [pc EXCEPT ![t] = "out"]
  /\ permit' = [permit EXCEPT ![arc[t]] = Nobody]
  /\ arc' = [arc EXCEPT ![t] = NoLock]
  /\ UNCHANGED <<keys, key, queue, abandoned>>

-----------------------------------------------------------------------------
FlightNext ==
  \E t \in Task :
    \/ \E k \in Key : Arrive(t, k)
    \/ Enqueue(t)
    \/ Take(t)
    \/ Cancel(t)
    \/ DropGuard(t)
    \/ ReleasePermit(t)

FlightSpec == FlightInit /\ [][FlightNext]_flightVars

\* The runtime polls every woken task, and every job under a guard is bounded
\* by a deadline of its own.  Nothing makes a client come, or give up.
Fairness ==
  \A t \in Task :
    /\ WF_flightVars(Enqueue(t))
    /\ WF_flightVars(Take(t))
    /\ WF_flightVars(DropGuard(t))
    /\ WF_flightVars(ReleasePermit(t))

FairFlightSpec == FlightSpec /\ Fairness

-----------------------------------------------------------------------------
(* Properties *)

\* Inside acquire or holding the guard: the tasks that rely on the map.
Involved(t) == pc[t] \in {"cloned", "waiting", "holding"}

\* Two jobs for one key never run at once, whatever mixture of arrivals,
\* drops and cancellations came before (inflight.rs: "one worker per cache
\* key, and everyone else waits for it").
OneProducerPerKey ==
  \A t, u \in Task :
    pc[t] = "holding" /\ pc[u] = "holding" /\ key[t] = key[u] => t = u

\* As long as a task waits for a key or produces it, the map still names the
\* very lock that task is on, so the next arrival queues behind it instead of
\* building a fresh lock (the comment in Guard::drop).
TrackedWhileNeeded ==
  \A t \in Task : Involved(t) => keys[key[t]] = arc[t]

\* The map does not grow an entry per key ever seen: an entry nobody holds a
\* clone of can only be one whose waiter was cancelled, and the next acquire
\* of any key sweeps those (comment in acquire; a_cancelled_waiter_... test).
OrphansOnlyFromCancelled ==
  \A k \in Key : keys[k] # NoLock /\ Clones(keys[k]) = {} => k \in abandoned

\* The map and its locks, whatever came before: exclusive, tracking every lock in
\* use, and no larger than the keys in use and those of cancelled waiters.
MapIsSound == OneProducerPerKey /\ TrackedWhileNeeded /\ OrphansOnlyFromCancelled

\* The abstract mutex this implements.
KM == INSTANCE KeyedMutex WITH
        phase <- [t \in Task |-> CASE pc[t] \in {"cloned", "waiting"} -> "wants"
                                   [] pc[t] = "holding" -> "produces"
                                   [] OTHER -> "out"],
        wanted <- key

\* Every step of the map, its reference counts and its locks is a step of the
\* keyed mutex or none: no caller ever enters beside another.
ImplementsKeyedMutex == KM!Spec

\* Every caller gets its key or gives up: a guard that is dropped, however its
\* job ended, lets the next waiter in.
EveryCallerServed == KM!Served
=============================================================================
