--------------------------- MODULE SyncAdmission ---------------------------
(***************************************************************************)
(* Admission of alignment jobs (src/src/state.rs `SyncAdmission`, used by  *)
(* `handle_subtitle_file` and `sync_and_cache` in src/src/addon.rs).  A    *)
(* job of either tier first reserves a place of its tier, which bounds the *)
(* subtitle bodies held in memory; it then prepares over the network,      *)
(* queues for its weight of the shared memory budget, runs its subprocess, *)
(* reports the outcome once, and gives place and memory back.  The client  *)
(* may disconnect at every wait.                                           *)
(*                                                                         *)
(* A permit is a value the job owns, so what is held follows from `pc`.    *)
(* tokio's semaphores are FIFO: a wait is a position in a line.  The two   *)
(* permits of a SyncPermit are dropped in the order of its fields, place   *)
(* first, in two actions.  The time spent queueing (queue_ns) is left out. *)
(***************************************************************************)
EXTENDS Integers, FiniteSets, Sequences, SequencesExt

CONSTANTS
  Job,       \* requests that may want an alignment
  Slots,     \* TIER1_SLOTS, TIER2_SLOTS: places per tier
  Weight,    \* TIER1_WEIGHT, TIER2_WEIGHT: memory units a running job takes
  Units,     \* SYNC_MEMORY_UNITS
  Outcome,   \* SyncOutcome
  Wrap       \* 2^64: the counters are atomics that wrap around

Tier == {"tier1", "tier2"}

ASSUME SyncAdmissionAssumption ==
  /\ IsFiniteSet(Job)
  /\ Slots \in [Tier -> Nat \ {0}]
  /\ Weight \in [Tier -> Nat \ {0}]
  /\ Units \in Nat /\ \A t \in Tier : Weight[t] <= Units
  /\ IsFiniteSet(Outcome) /\ "cancelled" \notin Outcome
  /\ Wrap \in Nat \ {0}

\* "A Tier-2 job cannot consume the final unit": what the constants are chosen for.
ASSUME TierTwoIsBounded ==
  Weight["tier1"] + Weight["tier2"] <= Units /\ Units < 2 * Weight["tier2"]

VARIABLES
  pc, tier,  \* what each job is doing, and in which tier
  places,    \* per tier, the jobs queued for a place
  memory,    \* the jobs of both tiers queued for the memory budget
  stats,     \* TierStats
  lost       \* history: reservations given back before the job ran

vars == <<pc, tier, places, memory, stats, lost>>

Phase == {"out", "wantsPlace", "reserved", "wantsMemory", "running", "finished", "dropping"}
Count == 0 .. Wrap - 1
TierStats == [queued : Count, running : Count, ended : [Outcome \cup {"cancelled"} -> Count]]

TypeOK ==
  /\ pc \in [Job -> Phase]
  /\ tier \in [Job -> Tier]
  /\ places \in [Tier -> Seq(Job)]
  /\ memory \in Seq(Job)
  /\ stats \in [Tier -> TierStats]
  /\ lost \in [Tier -> Count]

Init ==
  /\ pc = [j \in Job |-> "out"]
  /\ tier = [j \in Job |-> "tier1"]
  /\ places = [t \in Tier |-> <<>>]
  /\ memory = <<>>
  /\ stats = [t \in Tier |->
                [queued |-> 0, running |-> 0, ended |-> [o \in Outcome \cup {"cancelled"} |-> 0]]]
  /\ lost = [t \in Tier |-> 0]

-----------------------------------------------------------------------------
(* What is held *)

At(t, phases) == {j \in Job : tier[j] = t /\ pc[j] \in phases}

\* A reservation, and the permit of a running job, hold a place.
Placed(t) == At(t, {"reserved", "wantsMemory", "running", "finished"})

\* The memory permit outlives the place by one step of the drop.
InMemory(t) == At(t, {"running", "finished", "dropping"})

UnitsOf(t) == Cardinality(InMemory(t)) * Weight[t]
UnitsHeld == UnitsOf("tier1") + UnitsOf("tier2")

\* Mutant: the weight is not looked at.
MutAnyUnitFree(t) == UnitsHeld < Units

PlaceFree(t) == Cardinality(Placed(t)) < Slots[t]
Fits(t) == UnitsHeld + Weight[t] <= Units

Up(n) == (n + 1) % Wrap
Down(n) == (n + Wrap - 1) % Wrap

-----------------------------------------------------------------------------
(* reserve *)

Reserve(j, t) ==
  /\ pc[j] = "out"
  /\ pc' = [pc EXCEPT ![j] = "wantsPlace"]
  /\ tier' = [tier EXCEPT ![j] = t]
  /\ places' = [places EXCEPT ![t] = Append(@, j)]
  /\ UNCHANGED <<memory, stats, lost>>

TakePlace(j) ==
  /\ pc[j] = "wantsPlace"
  /\ places[tier[j]] # <<>> /\ Head(places[tier[j]]) = j
  /\ PlaceFree(tier[j])
  /\ pc' = [pc EXCEPT ![j] = "reserved"]
  /\ places' = [places EXCEPT ![tier[j]] = Tail(@)]
  /\ stats' = [stats EXCEPT ![tier[j]].queued = Up(@)]
  /\ UNCHANGED <<tier, memory, lost>>

-----------------------------------------------------------------------------
(* acquire: the bodies are here, the relay is open or the reference fetched *)

AskMemory(j) ==
  /\ pc[j] = "reserved"
  /\ pc' = [pc EXCEPT ![j] = "wantsMemory"]
  /\ memory' = Append(memory, j)
  /\ UNCHANGED <<tier, places, stats, lost>>

\* Mutant: whoever fits is admitted, first come or not.
MutAdmitsAnyFit(j) ==
  /\ pc[j] = "wantsMemory"
  /\ Fits(tier[j])
  /\ pc' = [pc EXCEPT ![j] = "running"]
  /\ \E i \in 1..Len(memory) : memory[i] = j /\ memory' = RemoveAt(memory, i)
  /\ stats' = [stats EXCEPT ![tier[j]].running = Up(@)]
  /\ UNCHANGED <<tier, places, lost>>

Admit(j) ==
  /\ pc[j] = "wantsMemory"
  /\ memory # <<>> /\ Head(memory) = j
  /\ Fits(tier[j])
  /\ pc' = [pc EXCEPT ![j] = "running"]
  /\ memory' = Tail(memory)
  /\ stats' = [stats EXCEPT ![tier[j]].running = Up(@)]
  /\ UNCHANGED <<tier, places, lost>>

-----------------------------------------------------------------------------
(* SyncPermit *)

\* finish(outcome): the subprocess ended or ran out of its deadline.
Finish(j, o) ==
  /\ pc[j] = "running"
  /\ pc' = [pc EXCEPT ![j] = "finished"]
  /\ stats' = [stats EXCEPT ![tier[j]].ended[o] = Up(@), ![tier[j]].running = Down(@)]
  /\ UNCHANGED <<tier, places, memory, lost>>

\* Mutant: the drop does not look whether the job has finished.
MutCountsTwice(j) ==
  /\ pc[j] \in {"running", "finished"}
  /\ stats' = [stats EXCEPT ![tier[j]].ended["cancelled"] = Up(@),
                            ![tier[j]].running = Down(@)]
  /\ pc' = [pc EXCEPT ![j] = "dropping"]
  /\ UNCHANGED <<tier, places, memory, lost>>

\* Drop::drop, and the place: after finish, or because the handler was dropped
\* while its subprocess ran.
DropPermit(j) ==
  /\ \/ pc[j] = "finished" /\ UNCHANGED stats
     \/ /\ pc[j] = "running"
        /\ stats' = [stats EXCEPT ![tier[j]].ended["cancelled"] = Up(@),
                                  ![tier[j]].running = Down(@)]
  /\ pc' = [pc EXCEPT ![j] = "dropping"]
  /\ UNCHANGED <<tier, places, memory, lost>>

\* ... then the memory.
ReleaseMemory(j) ==
  /\ pc[j] = "dropping"
  /\ pc' = [pc EXCEPT ![j] = "out"]
  /\ UNCHANGED <<tier, places, memory, stats, lost>>

\* The client disconnects in a queue, or the preparation fails: the relay is
\* refused, the target or the reference cannot be downloaded.
Abandon(j) ==
  /\ \/ /\ pc[j] = "wantsPlace"
        /\ \E i \in 1..Len(places[tier[j]]) :
             /\ places[tier[j]][i] = j
             /\ places' = [places EXCEPT ![tier[j]] = RemoveAt(@, i)]
        /\ UNCHANGED <<memory, lost>>
     \/ /\ pc[j] = "reserved"
        /\ lost' = [lost EXCEPT ![tier[j]] = Up(@)]
        /\ UNCHANGED <<places, memory>>
     \/ /\ pc[j] = "wantsMemory"
        /\ \E i \in 1..Len(memory) : memory[i] = j /\ memory' = RemoveAt(memory, i)
        /\ lost' = [lost EXCEPT ![tier[j]] = Up(@)]
        /\ UNCHANGED places
  /\ pc' = [pc EXCEPT ![j] = "out"]
  /\ UNCHANGED <<tier, stats>>

-----------------------------------------------------------------------------
Next ==
  \E j \in Job :
    \/ \E t \in Tier : Reserve(j, t)
    \/ TakePlace(j)
    \/ AskMemory(j)
    \/ Admit(j)
    \/ \E o \in Outcome : Finish(j, o)
    \/ DropPermit(j)
    \/ ReleaseMemory(j)
    \/ Abandon(j)

Spec == Init /\ [][Next]_vars

\* Every HTTP call and every subprocess has a deadline, and the runtime polls
\* every woken task.  Nothing makes a client come, or leave: the drop of a permit
\* is certain only once its job has finished.
Fairness ==
  \A j \in Job :
    /\ WF_vars(TakePlace(j))
    /\ WF_vars(AskMemory(j))
    /\ WF_vars(Admit(j))
    /\ WF_vars(\E o \in Outcome : Finish(j, o))
    /\ WF_vars(pc[j] = "finished" /\ DropPermit(j))
    /\ WF_vars(ReleaseMemory(j))

FairSpec == Spec /\ Fairness

-----------------------------------------------------------------------------
(* Properties *)

Ended(t) == SumFunction(stats[t].ended)

\* However jobs of the two weights come, finish, fail and are cancelled, their
\* subprocesses never hold more than the budget.
MemoryWithinBudget == UnitsHeld <= Units

\* "A Tier-2 job cannot consume the final unit, and therefore cannot starve
\* Tier 1": a Tier-1 job with nobody before it in the queue and no Tier-1 job
\* at work never waits, even while one permit is half dropped and the next
\* Tier-2 job already has its place.
TierOneHasRoom ==
  \A j \in Job :
    pc[j] = "wantsMemory" /\ tier[j] = "tier1" /\ Head(memory) = j
      /\ InMemory("tier1") = {} => Fits("tier1")

\* "At most three Tier-1 jobs and one Tier-2 job can reach that point with
\* bodies resident": whoever waits for memory, or runs, is within the places,
\* so the memory queue is bounded too and a job waits behind a known number.
RetentionBounded ==
  /\ \A t \in Tier : Cardinality(Placed(t)) <= Slots[t]
  /\ Len(memory) <= Slots["tier1"] + Slots["tier2"]

\* The three together: memory, Tier 1's share of it, and the bodies that wait.
AdmissionStaysBounded == MemoryWithinBudget /\ TierOneHasRoom /\ RetentionBounded

\* The gauge is the number of subprocesses at work, and every reservation is
\* accounted for once: given back, on its way, running, or ended one way.  A
\* finish followed by the drop counts once; a drop without finish is cancelled.
EveryReservationCounted ==
  \A t \in Tier :
    /\ stats[t].running = Cardinality(At(t, {"running"})) % Wrap
    /\ stats[t].queued =
         (lost[t] + Cardinality(At(t, {"reserved", "wantsMemory", "running"}))
           + Ended(t)) % Wrap

\* Neither tier starves the other, nor its own: a job that queues for a place
\* gets one, and a job that queues for memory runs, unless its client leaves.
NoTierStarves ==
  \A j \in Job :
    /\ pc[j] = "wantsPlace" ~> pc[j] \in {"reserved", "out"}
    /\ pc[j] = "wantsMemory" ~> pc[j] \in {"running", "out"}
=============================================================================
