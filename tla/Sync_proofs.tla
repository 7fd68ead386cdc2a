----------------------------- MODULE Sync_proofs -----------------------------
(***************************************************************************)
(* Proofs about the sync engine.  Of SyncAdmission, for any number of      *)
(* jobs, any places, weights and budget the assumptions allow: its type,   *)
(* that the memory budget and the places are kept, that the queue for      *)
(* memory is bounded, that a Tier-2 job leaves room for a Tier-1 job, and  *)
(* that every reservation is counted.  Of Aligner, for any runs, budgets   *)
(* and films: that a run that returns leaves no file, that nobody is       *)
(* handed another run's text, that the sweep spares what is alive, and     *)
(* that a text is shifted only to where two alignments of it agree.        *)
(***************************************************************************)
EXTENDS SyncAdmission, Aligner, FoldTheorems, FiniteSetTheorems, TLAPS

(* Places are kept. *)
PlacesKept == \A t \in Tier : Cardinality(Placed(t)) <= Slots[t]

(* Whoever queues for memory waits for it, once: its entry goes with its wait. *)
QueueOfWaiters ==
  /\ \A i \in 1..Len(memory) : pc[memory[i]] = "wantsMemory"
  /\ \A i, k \in 1..Len(memory) : memory[i] = memory[k] => i = k

IInv ==
  /\ TypeOK
  /\ MemoryWithinBudget
  /\ PlacesKept
  /\ QueueOfWaiters

-----------------------------------------------------------------------------
(* Sequences and counters *)

LEMMA RemovalFromAQueue ==
  ASSUME NEW S, NEW s \in Seq(S), NEW i \in 1..Len(s)
  PROVE  /\ RemoveAt(s, i) \in Seq(S)
         /\ Len(RemoveAt(s, i)) = Len(s) - 1
         /\ \A k \in 1..Len(s)-1 : RemoveAt(s, i)[k] = IF k < i THEN s[k] ELSE s[k+1]
<1>1. Len(s) \in Nat
  OBVIOUS
<1>. DEFINE a == SubSeq(s, 1, i-1)
            b == SubSeq(s, i+1, Len(s))
<1>2. a \in Seq(S) /\ Len(a) = i - 1 /\ \A k \in 1..i-1 : a[k] = s[k]
  BY <1>1
<1>3. b \in Seq(S) /\ Len(b) = Len(s) - i /\ \A k \in 1..Len(s)-i : b[k] = s[i+k]
  BY <1>1
<1>4. RemoveAt(s, i) = a \o b
  BY DEF RemoveAt
<1>. HIDE DEF a, b
<1>5. /\ a \o b \in Seq(S) /\ Len(a \o b) = Len(a) + Len(b)
      /\ \A k \in 1..Len(a)+Len(b) : (a \o b)[k] = IF k <= Len(a) THEN a[k] ELSE b[k - Len(a)]
  <2>1. \A c, d \in Seq(S) :
          /\ c \o d \in Seq(S) /\ Len(c \o d) = Len(c) + Len(d)
          /\ \A k \in 1..Len(c)+Len(d) : (c \o d)[k] = IF k <= Len(c) THEN c[k] ELSE d[k - Len(c)]
    OBVIOUS
  <2>. QED
    BY <1>2, <1>3, <2>1
<1>6. ASSUME NEW k \in 1..Len(s)-1
      PROVE  (a \o b)[k] = IF k < i THEN s[k] ELSE s[k+1]
  <2>1. CASE k < i
    BY <1>1, <1>2, <1>3, <1>5, <2>1
  <2>2. CASE ~(k < i)
    <3>1. k - (i - 1) \in 1..Len(s)-i /\ i + (k - (i - 1)) = k + 1
      BY <1>1, <2>2
    <3>2. (a \o b)[k] = b[k - (i - 1)]
      BY <1>1, <1>2, <1>3, <1>5, <2>2
    <3>. QED
      BY <1>3, <2>2, <3>1, <3>2
  <2>. QED
    BY <2>1, <2>2
<1>. QED
  BY <1>1, <1>2, <1>3, <1>4, <1>5, <1>6

LEMMA CountersWrap ==
  ASSUME NEW n \in Count
  PROVE  Up(n) \in Count /\ Down(n) \in Count
<1>1. Wrap \in Nat \ {0} /\ n \in Nat
  BY SyncAdmissionAssumption DEF Count
<1>2. (n + 1) % Wrap \in 0..Wrap-1 /\ (n + Wrap - 1) % Wrap \in 0..Wrap-1
  BY <1>1
<1>. QED
  BY <1>2 DEF Up, Down, Count

-----------------------------------------------------------------------------
(* What is held *)

LEMMA HeldIsFinite ==
  ASSUME NEW t, NEW phases
  PROVE  IsFiniteSet(At(t, phases)) /\ Cardinality(At(t, phases)) \in Nat
<1>1. IsFiniteSet(At(t, phases))
  BY SyncAdmissionAssumption, FS_Subset DEF At
<1>. QED
  BY <1>1, FS_CardinalityType

LEMMA WeightsAreCounted ==
  ASSUME NEW t \in Tier, NEW m \in Nat, NEW n \in Nat, m <= n
  PROVE  /\ m * Weight[t] \in Nat
         /\ m * Weight[t] <= n * Weight[t]
         /\ (n + 1) * Weight[t] = n * Weight[t] + Weight[t]
<1>1. Weight[t] \in Nat
  BY SyncAdmissionAssumption
<1>. DEFINE w == Weight[t]
<1>2. \A a, b, c \in Nat : a <= b => a * c <= b * c
  BY Z3
<1>3. \A a, c \in Nat : (a + 1) * c = a * c + c /\ a * c \in Nat
  BY Z3
<1>. QED
  BY <1>1, <1>2, <1>3

(* Memory is only given back. *)
LEMMA GivingBackKeepsTheBudget ==
  ASSUME IInv, \A t \in Tier : InMemory(t)' \subseteq InMemory(t)
  PROVE  MemoryWithinBudget'
<1>1. ASSUME NEW t \in Tier PROVE UnitsOf(t)' \in Nat /\ UnitsOf(t) \in Nat /\ UnitsOf(t)' <= UnitsOf(t)
  <2>1. /\ IsFiniteSet(InMemory(t)) /\ Cardinality(InMemory(t)) \in Nat
        /\ Cardinality(InMemory(t)') \in Nat
        /\ Cardinality(InMemory(t)') <= Cardinality(InMemory(t))
    <3>1. IsFiniteSet(InMemory(t)) /\ Cardinality(InMemory(t)) \in Nat
      BY HeldIsFinite DEF InMemory
    <3>2. IsFiniteSet(InMemory(t)') /\ Cardinality(InMemory(t)') <= Cardinality(InMemory(t))
      BY <3>1, FS_Subset
    <3>. QED
      BY <3>1, <3>2, FS_CardinalityType
  <2>. QED
    BY <2>1, WeightsAreCounted DEF UnitsOf
<1>2. Units \in Nat /\ "tier1" \in Tier /\ "tier2" \in Tier
  BY SyncAdmissionAssumption DEF Tier
<1>. QED
  BY <1>1, <1>2 DEF IInv, MemoryWithinBudget, UnitsHeld

(* A place is only given back. *)
LEMMA GivingBackKeepsThePlaces ==
  ASSUME IInv, \A t \in Tier : Placed(t)' \subseteq Placed(t)
  PROVE  PlacesKept'
<1>. SUFFICES ASSUME NEW t \in Tier PROVE Cardinality(Placed(t)') <= Slots[t]
  BY DEF PlacesKept
<1>1. IsFiniteSet(Placed(t)) /\ Cardinality(Placed(t)) \in Nat
  BY HeldIsFinite DEF Placed
<1>2. IsFiniteSet(Placed(t)') /\ Cardinality(Placed(t)') <= Cardinality(Placed(t))
  BY <1>1, FS_Subset
<1>3. Cardinality(Placed(t)') \in Nat /\ Slots[t] \in Nat /\ Cardinality(Placed(t)) <= Slots[t]
  BY <1>2, FS_CardinalityType, SyncAdmissionAssumption DEF IInv, PlacesKept
<1>. QED
  BY <1>1, <1>2, <1>3

-----------------------------------------------------------------------------
(* The queue for memory *)

(* Only a job that joins or leaves the queue starts or ends to wait. *)
LEMMA OthersKeepTheQueue ==
  ASSUME IInv, NEW j \in Job, NEW p, pc[j] # "wantsMemory",
         pc' = [pc EXCEPT ![j] = p], memory' = memory
  PROVE  QueueOfWaiters'
<1>1. \A i \in 1..Len(memory) : memory[i] \in Job /\ memory[i] # j
  BY DEF IInv, TypeOK, QueueOfWaiters
<1>. QED
  BY <1>1 DEF IInv, TypeOK, QueueOfWaiters

LEMMA JoiningKeepsTheQueue ==
  ASSUME IInv, NEW j \in Job, AskMemory(j)
  PROVE  memory' \in Seq(Job) /\ QueueOfWaiters'
<1>1. memory \in Seq(Job) /\ Len(memory) \in Nat
  BY DEF IInv, TypeOK
<1>2. \A i \in 1..Len(memory) : memory[i] \in Job /\ memory[i] # j
  BY DEF IInv, TypeOK, QueueOfWaiters, AskMemory
<1>3. /\ memory' \in Seq(Job) /\ Len(memory') = Len(memory) + 1
      /\ \A i \in 1..Len(memory) : memory'[i] = memory[i]
      /\ memory'[Len(memory) + 1] = j
  BY <1>1 DEF AskMemory
<1>4. pc'[j] = "wantsMemory" /\ \A x \in Job : x # j => pc'[x] = pc[x]
  BY DEF IInv, TypeOK, AskMemory
<1>5. \A i \in 1..Len(memory') : i \in 1..Len(memory) \/ i = Len(memory) + 1
  BY <1>1, <1>3
<1>. QED
  BY <1>2, <1>3, <1>4, <1>5 DEF IInv, QueueOfWaiters

LEMMA LeavingKeepsTheQueue ==
  ASSUME IInv, NEW i \in 1..Len(memory), NEW p,
         memory' = RemoveAt(memory, i), pc' = [pc EXCEPT ![memory[i]] = p]
  PROVE  memory' \in Seq(Job) /\ QueueOfWaiters'
<1>1. memory \in Seq(Job) /\ Len(memory) \in Nat /\ memory[i] \in Job
  BY DEF IInv, TypeOK
<1>2. /\ memory' \in Seq(Job) /\ Len(memory') = Len(memory) - 1
      /\ \A k \in 1..Len(memory)-1 : memory'[k] = IF k < i THEN memory[k] ELSE memory[k+1]
  BY <1>1, RemovalFromAQueue
<1>. DEFINE old(k) == IF k < i THEN k ELSE k + 1
<1>3. \A k \in 1..Len(memory') :
        /\ old(k) \in 1..Len(memory) /\ old(k) # i /\ memory'[k] = memory[old(k)]
  BY <1>1, <1>2
<1>4. \A k, l \in 1..Len(memory') : old(k) = old(l) => k = l
  BY <1>1, <1>2
<1>. HIDE DEF old
<1>5. \A k \in 1..Len(memory') : memory'[k] \in Job /\ memory'[k] # memory[i]
  BY <1>1, <1>3 DEF IInv, QueueOfWaiters
<1>6. \A x \in Job : x # memory[i] => pc'[x] = pc[x]
  BY DEF IInv, TypeOK
<1>7. \A k \in 1..Len(memory') : pc'[memory'[k]] = "wantsMemory"
  BY <1>3, <1>5, <1>6 DEF IInv, QueueOfWaiters
<1>8. \A k, l \in 1..Len(memory') : memory'[k] = memory'[l] => k = l
  BY <1>3, <1>4 DEF IInv, QueueOfWaiters
<1>. QED
  BY <1>2, <1>7, <1>8 DEF QueueOfWaiters

(* The head of a queue is its first entry. *)
LEMMA TailIsARemoval ==
  ASSUME NEW S, NEW s \in Seq(S), s # <<>>
  PROVE  1 \in 1..Len(s) /\ Head(s) = s[1] /\ Tail(s) = RemoveAt(s, 1) /\ Tail(s) \in Seq(S)
<1>1. Len(s) \in Nat /\ Len(s) > 0 /\ Head(s) = s[1] /\ Tail(s) \in Seq(S)
  OBVIOUS
<1>. DEFINE e == RemoveAt(s, 1)
<1>2. /\ e \in Seq(S) /\ Len(e) = Len(s) - 1
      /\ \A k \in 1..Len(s)-1 : e[k] = s[k+1]
  BY <1>1, RemovalFromAQueue
<1>3. /\ Len(Tail(s)) = Len(s) - 1
      /\ \A k \in 1..Len(s)-1 : Tail(s)[k] = s[k+1]
  BY <1>1
<1>. HIDE DEF e
<1>4. Tail(s) = e
  BY <1>1, <1>2, <1>3
<1>. QED
  BY <1>1, <1>4 DEF e

-----------------------------------------------------------------------------
(* Steps by what they take *)

PlacePhases == {"reserved", "wantsMemory", "running", "finished"}
MemoryPhases == {"running", "finished", "dropping"}

SharedTypeOK ==
  /\ places \in [Tier -> Seq(Job)]
  /\ memory \in Seq(Job)
  /\ stats \in [Tier -> TierStats]
  /\ lost \in [Tier -> Count]

LEMMA InitIInv == Init => IInv
<1>. SUFFICES ASSUME Init PROVE IInv
  OBVIOUS
<1>1. 0 \in Count
  BY SyncAdmissionAssumption DEF Count
<1>2. TypeOK
  BY <1>1, SyncAdmissionAssumption DEF Init, TypeOK, Phase, Tier, TierStats
<1>3. \A t \in Tier : InMemory(t) = {} /\ Placed(t) = {}
  BY DEF Init, InMemory, Placed, At
<1>4. \A t \in Tier : UnitsOf(t) = 0 /\ Cardinality(Placed(t)) = 0
  BY <1>3, FS_EmptySet, SyncAdmissionAssumption DEF UnitsOf
<1>5. MemoryWithinBudget /\ PlacesKept
  BY <1>4, SyncAdmissionAssumption DEF MemoryWithinBudget, UnitsHeld, PlacesKept, Tier
<1>6. QueueOfWaiters
  BY DEF Init, QueueOfWaiters
<1>. QED
  BY <1>2, <1>5, <1>6 DEF IInv

(* A job that moves without taking a place or memory. *)
LEMMA MovingKeepsIInv ==
  ASSUME IInv, NEW j \in Job, NEW p \in Phase, pc' = [pc EXCEPT ![j] = p],
         tier' \in [Job -> Tier], \A x \in Job : x # j => tier'[x] = tier[x],
         SharedTypeOK', QueueOfWaiters',
         p \in PlacePhases => pc[j] \in PlacePhases /\ tier'[j] = tier[j],
         p \in MemoryPhases => pc[j] \in MemoryPhases /\ tier'[j] = tier[j]
  PROVE  IInv'
<1>1. TypeOK'
  BY DEF IInv, TypeOK, SharedTypeOK
<1>2. pc'[j] = p /\ \A x \in Job : x # j => pc'[x] = pc[x]
  BY DEF IInv, TypeOK
<1>3. \A t \in Tier : InMemory(t)' \subseteq InMemory(t)
  BY <1>2 DEF InMemory, At, MemoryPhases
<1>4. \A t \in Tier : Placed(t)' \subseteq Placed(t)
  BY <1>2 DEF Placed, At, PlacePhases
<1>. QED
  BY <1>1, <1>3, <1>4, GivingBackKeepsTheBudget, GivingBackKeepsThePlaces DEF IInv

LEMMA CountersAreTyped ==
  ASSUME NEW x \in TierStats, NEW o \in Outcome \cup {"cancelled"}
  PROVE  /\ [x EXCEPT !.queued = Up(@)] \in TierStats
         /\ [x EXCEPT !.running = Up(@)] \in TierStats
         /\ [x EXCEPT !.ended[o] = Up(@), !.running = Down(@)] \in TierStats
<1>1. /\ x.queued \in Count /\ x.running \in Count
      /\ x.ended \in [Outcome \cup {"cancelled"} -> Count] /\ x.ended[o] \in Count
  BY DEF TierStats
<1>2. /\ Up(x.queued) \in Count /\ Up(x.running) \in Count /\ Down(x.running) \in Count
      /\ Up(x.ended[o]) \in Count
  BY <1>1, CountersWrap
<1>3. [x.ended EXCEPT ![o] = Up(x.ended[o])] \in [Outcome \cup {"cancelled"} -> Count]
  BY <1>1, <1>2
<1>4. [x EXCEPT !.queued = Up(@)] \in TierStats /\ [x EXCEPT !.running = Up(@)] \in TierStats
  BY <1>2 DEF TierStats
<1>5. [x EXCEPT !.ended[o] = Up(@), !.running = Down(@)] \in TierStats
  BY <1>2, <1>3 DEF TierStats
<1>. QED
  BY <1>4, <1>5

LEMMA StatsAreTyped ==
  ASSUME IInv, NEW t \in Tier, NEW o \in Outcome \cup {"cancelled"}
  PROVE  /\ [stats EXCEPT ![t].queued = Up(@)] \in [Tier -> TierStats]
         /\ [stats EXCEPT ![t].running = Up(@)] \in [Tier -> TierStats]
         /\ [stats EXCEPT ![t].ended[o] = Up(@), ![t].running = Down(@)] \in [Tier -> TierStats]
<1>1. stats \in [Tier -> TierStats] /\ stats[t] \in TierStats
  BY DEF IInv, TypeOK
<1>2. \A y \in TierStats : [stats EXCEPT ![t] = y] \in [Tier -> TierStats]
  BY <1>1
<1>3. /\ [stats[t] EXCEPT !.queued = Up(@)] \in TierStats
      /\ [stats[t] EXCEPT !.running = Up(@)] \in TierStats
      /\ [stats[t] EXCEPT !.ended[o] = Up(@), !.running = Down(@)] \in TierStats
  BY <1>1, CountersAreTyped
<1>4. /\ [stats EXCEPT ![t].queued = Up(@)] \in [Tier -> TierStats]
      /\ [stats EXCEPT ![t].running = Up(@)] \in [Tier -> TierStats]
  BY <1>2, <1>3
<1>5. [stats EXCEPT ![t].ended[o] = Up(@), ![t].running = Down(@)]
        = [stats EXCEPT ![t] = [stats[t] EXCEPT !.ended[o] = Up(@), !.running = Down(@)]]
  BY <1>1
<1>. QED
  BY <1>2, <1>3, <1>4, <1>5

-----------------------------------------------------------------------------
(* One lemma per action *)

LEMMA ReserveKeepsIInv ==
  ASSUME IInv, NEW j \in Job, NEW t \in Tier, Reserve(j, t)
  PROVE  IInv'
<1>1. Append(places[t], j) \in Seq(Job)
  BY DEF IInv, TypeOK
<1>2. SharedTypeOK' /\ tier' \in [Job -> Tier] /\ \A x \in Job : x # j => tier'[x] = tier[x]
  BY <1>1 DEF Reserve, IInv, TypeOK, SharedTypeOK
<1>3. QueueOfWaiters'
  BY OthersKeepTheQueue DEF Reserve
<1>. QED
  BY <1>2, <1>3, MovingKeepsIInv DEF Reserve, Phase, PlacePhases, MemoryPhases

(* The only step that takes a place takes a free one. *)
LEMMA TakePlaceKeepsIInv ==
  ASSUME IInv, NEW j \in Job, TakePlace(j)
  PROVE  IInv'
<1>1. tier[j] \in Tier /\ places[tier[j]] \in Seq(Job)
  BY DEF IInv, TypeOK
<1>2. Tail(places[tier[j]]) \in Seq(Job)
  BY <1>1, TailIsARemoval DEF TakePlace
<1>3. "cancelled" \in Outcome \cup {"cancelled"}
  OBVIOUS
<1>4. stats' \in [Tier -> TierStats]
  BY <1>1, <1>3, StatsAreTyped DEF TakePlace
<1>5. TypeOK'
  BY <1>1, <1>2, <1>4 DEF TakePlace, IInv, TypeOK, Phase
<1>6. pc'[j] = "reserved" /\ tier' = tier /\ \A x \in Job : x # j => pc'[x] = pc[x]
  BY DEF TakePlace, IInv, TypeOK
<1>7. MemoryWithinBudget'
  <2>1. \A t \in Tier : InMemory(t)' \subseteq InMemory(t)
    BY <1>6 DEF InMemory, At
  <2>. QED
    BY <2>1, GivingBackKeepsTheBudget
<1>8. PlacesKept'
  <2>. SUFFICES ASSUME NEW t \in Tier PROVE Cardinality(Placed(t)') <= Slots[t]
    BY DEF PlacesKept
  <2>1. IsFiniteSet(Placed(t)) /\ Cardinality(Placed(t)) \in Nat /\ Slots[t] \in Nat
    BY HeldIsFinite, SyncAdmissionAssumption DEF Placed
  <2>2. CASE t = tier[j]
    <3>1. Placed(t)' = Placed(t) \cup {j}
      BY <1>6, <2>2 DEF Placed, At
    <3>2. Cardinality(Placed(t) \cup {j}) <= Cardinality(Placed(t)) + 1
      <4>1. Cardinality(Placed(t) \cup {j}) =
              IF j \in Placed(t) THEN Cardinality(Placed(t)) ELSE Cardinality(Placed(t)) + 1
        BY <2>1, FS_AddElement
      <4>. QED
        BY <2>1, <4>1
    <3>3. Cardinality(Placed(t)) < Slots[t]
      BY <2>2 DEF TakePlace, PlaceFree
    <3>4. Cardinality(Placed(t) \cup {j}) \in Nat
      BY <2>1, FS_AddElement, FS_CardinalityType
    <3>. QED
      BY <2>1, <3>1, <3>2, <3>3, <3>4
  <2>3. CASE t # tier[j]
    <3>1. Placed(t)' = Placed(t)
      BY <1>6, <2>3 DEF Placed, At
    <3>. QED
      BY <3>1 DEF IInv, PlacesKept
  <2>. QED
    BY <2>2, <2>3
<1>9. QueueOfWaiters'
  BY OthersKeepTheQueue DEF TakePlace
<1>. QED
  BY <1>5, <1>7, <1>8, <1>9 DEF IInv

LEMMA AskMemoryKeepsIInv ==
  ASSUME IInv, NEW j \in Job, AskMemory(j)
  PROVE  IInv'
<1>1. memory' \in Seq(Job) /\ QueueOfWaiters'
  BY JoiningKeepsTheQueue
<1>2. SharedTypeOK' /\ tier' \in [Job -> Tier] /\ tier' = tier
  BY <1>1 DEF AskMemory, IInv, TypeOK, SharedTypeOK
<1>3. pc[j] = "reserved" /\ pc' = [pc EXCEPT ![j] = "wantsMemory"]
  BY DEF AskMemory
<1>. QED
  BY <1>1, <1>2, <1>3, MovingKeepsIInv DEF Phase, PlacePhases, MemoryPhases

(* The only step that takes memory takes what fits. *)
LEMMA AdmitKeepsIInv ==
  ASSUME IInv, NEW j \in Job, Admit(j)
  PROVE  IInv'
<1>1. tier[j] \in Tier /\ memory \in Seq(Job) /\ memory # <<>>
  BY DEF IInv, TypeOK, Admit
<1>2. /\ 1 \in 1..Len(memory) /\ memory[1] = j /\ memory' = RemoveAt(memory, 1)
  BY <1>1, TailIsARemoval DEF Admit
<1>3. memory' \in Seq(Job) /\ QueueOfWaiters'
  BY <1>2, LeavingKeepsTheQueue DEF Admit
<1>4. "cancelled" \in Outcome \cup {"cancelled"}
  OBVIOUS
<1>5. stats' \in [Tier -> TierStats]
  BY <1>1, <1>4, StatsAreTyped DEF Admit
<1>6. TypeOK'
  BY <1>3, <1>5 DEF Admit, IInv, TypeOK, Phase
<1>7. /\ pc[j] = "wantsMemory" /\ pc'[j] = "running" /\ tier' = tier
      /\ \A x \in Job : x # j => pc'[x] = pc[x]
  BY DEF Admit, IInv, TypeOK
<1>8. PlacesKept'
  <2>1. \A t \in Tier : Placed(t)' \subseteq Placed(t)
    BY <1>7 DEF Placed, At
  <2>. QED
    BY <2>1, GivingBackKeepsThePlaces
<1>9. MemoryWithinBudget'
  <2>1. \A t \in Tier : UnitsOf(t) \in Nat
    BY HeldIsFinite, WeightsAreCounted DEF UnitsOf, InMemory
  <2>2. ASSUME NEW t \in Tier, t # tier[j] PROVE UnitsOf(t)' = UnitsOf(t)
    <3>1. InMemory(t)' = InMemory(t)
      BY <1>7, <2>2 DEF InMemory, At
    <3>. QED
      BY <3>1 DEF UnitsOf
  <2>3. ASSUME NEW t \in Tier, t = tier[j] PROVE UnitsOf(t)' = UnitsOf(t) + Weight[t]
    <3>1. IsFiniteSet(InMemory(t)) /\ Cardinality(InMemory(t)) \in Nat /\ j \notin InMemory(t)
      BY <1>7, HeldIsFinite DEF InMemory, At
    <3>2. InMemory(t)' = InMemory(t) \cup {j}
      BY <1>7, <2>3 DEF InMemory, At
    <3>3. Cardinality(InMemory(t) \cup {j}) = Cardinality(InMemory(t)) + 1
      BY <3>1, FS_AddElement
    <3>. QED
      BY <3>1, <3>2, <3>3, WeightsAreCounted DEF UnitsOf
  <2>4. UnitsOf("tier1") + UnitsOf("tier2") + Weight[tier[j]] <= Units
    BY DEF Admit, Fits, UnitsHeld
  <2>5. "tier1" \in Tier /\ "tier2" \in Tier /\ Weight[tier[j]] \in Nat /\ Units \in Nat
    BY <1>1, SyncAdmissionAssumption DEF Tier
  <2>6. UnitsOf("tier1")' + UnitsOf("tier2")' <= Units
    <3>1. CASE tier[j] = "tier1"
      <4>1. UnitsOf("tier1")' = UnitsOf("tier1") + Weight[tier[j]]
        BY <2>3, <2>5, <3>1
      <4>2. UnitsOf("tier2")' = UnitsOf("tier2")
        BY <2>2, <2>5, <3>1
      <4>. QED
        BY <2>1, <2>4, <2>5, <4>1, <4>2
    <3>2. CASE tier[j] = "tier2"
      <4>1. UnitsOf("tier2")' = UnitsOf("tier2") + Weight[tier[j]]
        BY <2>3, <2>5, <3>2
      <4>2. UnitsOf("tier1")' = UnitsOf("tier1")
        BY <2>2, <2>5, <3>2
      <4>. QED
        BY <2>1, <2>4, <2>5, <4>1, <4>2
    <3>. QED
      BY <1>1, <3>1, <3>2 DEF Tier
  <2>. QED
    BY <2>6 DEF MemoryWithinBudget, UnitsHeld
<1>. QED
  BY <1>3, <1>6, <1>8, <1>9 DEF IInv

LEMMA FinishKeepsIInv ==
  ASSUME IInv, NEW j \in Job, NEW o \in Outcome, Finish(j, o)
  PROVE  IInv'
<1>1. tier[j] \in Tier /\ tier' = tier /\ tier' \in [Job -> Tier]
  BY DEF IInv, TypeOK, Finish
<1>2. stats' \in [Tier -> TierStats]
  BY <1>1, StatsAreTyped DEF Finish
<1>3. SharedTypeOK'
  BY <1>2 DEF Finish, IInv, TypeOK, SharedTypeOK
<1>4. QueueOfWaiters'
  BY OthersKeepTheQueue DEF Finish
<1>5. pc[j] = "running" /\ pc' = [pc EXCEPT ![j] = "finished"]
  BY DEF Finish
<1>. QED
  BY <1>1, <1>3, <1>4, <1>5, MovingKeepsIInv DEF Phase, PlacePhases, MemoryPhases

LEMMA DropPermitKeepsIInv ==
  ASSUME IInv, NEW j \in Job, DropPermit(j)
  PROVE  IInv'
<1>1. tier[j] \in Tier /\ tier' = tier /\ tier' \in [Job -> Tier]
  BY DEF IInv, TypeOK, DropPermit
<1>2. stats' \in [Tier -> TierStats]
  <2>1. "cancelled" \in Outcome \cup {"cancelled"}
    OBVIOUS
  <2>2. [stats EXCEPT ![tier[j]].ended["cancelled"] = Up(@), ![tier[j]].running = Down(@)]
          \in [Tier -> TierStats]
    BY <1>1, <2>1, StatsAreTyped
  <2>. QED
    BY <2>2 DEF DropPermit, IInv, TypeOK
<1>3. SharedTypeOK'
  BY <1>2 DEF DropPermit, IInv, TypeOK, SharedTypeOK
<1>4. pc[j] \in {"running", "finished"} /\ pc' = [pc EXCEPT ![j] = "dropping"] /\ memory' = memory
  BY DEF DropPermit
<1>5. QueueOfWaiters'
  BY <1>4, OthersKeepTheQueue
<1>. QED
  BY <1>1, <1>3, <1>4, <1>5, MovingKeepsIInv DEF Phase, PlacePhases, MemoryPhases

LEMMA ReleaseMemoryKeepsIInv ==
  ASSUME IInv, NEW j \in Job, ReleaseMemory(j)
  PROVE  IInv'
<1>1. SharedTypeOK' /\ tier' = tier /\ tier' \in [Job -> Tier]
  BY DEF IInv, TypeOK, SharedTypeOK, ReleaseMemory
<1>2. pc[j] = "dropping" /\ pc' = [pc EXCEPT ![j] = "out"] /\ memory' = memory
  BY DEF ReleaseMemory
<1>3. QueueOfWaiters'
  BY <1>2, OthersKeepTheQueue
<1>. QED
  BY <1>1, <1>2, <1>3, MovingKeepsIInv DEF Phase, PlacePhases, MemoryPhases

LEMMA AbandonKeepsIInv ==
  ASSUME IInv, NEW j \in Job, Abandon(j)
  PROVE  IInv'
<1>1. /\ tier[j] \in Tier /\ tier' = tier /\ tier' \in [Job -> Tier]
      /\ stats' = stats /\ pc' = [pc EXCEPT ![j] = "out"]
  BY DEF IInv, TypeOK, Abandon
<1>2. /\ places' \in [Tier -> Seq(Job)] /\ memory' \in Seq(Job) /\ lost' \in [Tier -> Count]
      /\ QueueOfWaiters'
  <2>1. Up(lost[tier[j]]) \in Count
    BY <1>1, CountersWrap DEF IInv, TypeOK
  <2>2. CASE pc[j] = "wantsPlace"
    <3>1. PICK i \in 1..Len(places[tier[j]]) : places' = [places EXCEPT ![tier[j]] = RemoveAt(@, i)]
      BY <2>2 DEF Abandon
    <3>2. places[tier[j]] \in Seq(Job)
      BY <1>1 DEF IInv, TypeOK
    <3>3. RemoveAt(places[tier[j]], i) \in Seq(Job)
      BY <3>2, RemovalFromAQueue
    <3>4. memory' = memory /\ lost' = lost
      BY <2>2 DEF Abandon
    <3>5. QueueOfWaiters'
      BY <1>1, <2>2, <3>4, OthersKeepTheQueue
    <3>. QED
      BY <3>1, <3>3, <3>4, <3>5 DEF IInv, TypeOK
  <2>3. CASE pc[j] = "reserved"
    <3>1. UNCHANGED <<places, memory>> /\ lost' = [lost EXCEPT ![tier[j]] = Up(@)]
      BY <2>3 DEF Abandon
    <3>2. QueueOfWaiters'
      BY <1>1, <2>3, <3>1, OthersKeepTheQueue
    <3>. QED
      BY <2>1, <3>1, <3>2 DEF IInv, TypeOK
  <2>4. CASE pc[j] = "wantsMemory"
    <3>1. PICK i \in 1..Len(memory) : memory[i] = j /\ memory' = RemoveAt(memory, i)
      BY <2>4 DEF Abandon
    <3>2. UNCHANGED places /\ lost' = [lost EXCEPT ![tier[j]] = Up(@)]
      BY <2>4 DEF Abandon
    <3>3. memory' \in Seq(Job) /\ QueueOfWaiters'
      BY <1>1, <3>1, LeavingKeepsTheQueue
    <3>. QED
      BY <2>1, <3>2, <3>3 DEF IInv, TypeOK
  <2>. QED
    BY <2>2, <2>3, <2>4 DEF Abandon
<1>3. SharedTypeOK'
  BY <1>1, <1>2 DEF SharedTypeOK, IInv, TypeOK
<1>. QED
  BY <1>1, <1>2, <1>3, MovingKeepsIInv DEF Phase, PlacePhases, MemoryPhases

LEMMA NextKeepsIInv == IInv /\ [Next]_vars => IInv'
<1>. SUFFICES ASSUME IInv, [Next]_vars PROVE IInv'
  OBVIOUS
<1>1. ASSUME NEW j \in Job, NEW t \in Tier, Reserve(j, t) PROVE IInv'
  BY <1>1, ReserveKeepsIInv
<1>2. ASSUME NEW j \in Job, TakePlace(j) PROVE IInv'
  BY <1>2, TakePlaceKeepsIInv
<1>3. ASSUME NEW j \in Job, AskMemory(j) PROVE IInv'
  BY <1>3, AskMemoryKeepsIInv
<1>4. ASSUME NEW j \in Job, Admit(j) PROVE IInv'
  BY <1>4, AdmitKeepsIInv
<1>5. ASSUME NEW j \in Job, NEW o \in Outcome, Finish(j, o) PROVE IInv'
  BY <1>5, FinishKeepsIInv
<1>6. ASSUME NEW j \in Job, DropPermit(j) PROVE IInv'
  BY <1>6, DropPermitKeepsIInv
<1>7. ASSUME NEW j \in Job, ReleaseMemory(j) PROVE IInv'
  BY <1>7, ReleaseMemoryKeepsIInv
<1>8. ASSUME NEW j \in Job, Abandon(j) PROVE IInv'
  BY <1>8, AbandonKeepsIInv
<1>9. CASE UNCHANGED vars
  BY <1>9 DEF vars, IInv, TypeOK, MemoryWithinBudget, UnitsHeld, UnitsOf, InMemory,
              PlacesKept, Placed, At, QueueOfWaiters
<1>. QED
  BY <1>1, <1>2, <1>3, <1>4, <1>5, <1>6, <1>7, <1>8, <1>9 DEF Next

-----------------------------------------------------------------------------
LEMMA Invariance == Spec => []IInv
BY InitIInv, NextKeepsIInv, PTL DEF Spec

(* Every reachable state is well typed: the counters stay counters. *)
THEOREM TypeCorrect == Spec => []TypeOK
BY Invariance, PTL DEF IInv

(* The subprocesses never hold more than the budget, half-dropped permits *)
(* included.                                                              *)
THEOREM BudgetIsKept == Spec => []MemoryWithinBudget
BY Invariance, PTL DEF IInv

(* No more bodies are retained, and no more jobs wait for memory, than *)
(* there are places.                                                   *)
THEOREM RetentionIsBounded == Spec => []RetentionBounded
<1>1. IInv => RetentionBounded
  <2>. SUFFICES ASSUME IInv PROVE RetentionBounded
    OBVIOUS
  <2>. DEFINE both == Placed("tier1") \cup Placed("tier2")
  <2>1. /\ IsFiniteSet(Placed("tier1")) /\ Cardinality(Placed("tier1")) \in Nat
        /\ IsFiniteSet(Placed("tier2")) /\ Cardinality(Placed("tier2")) \in Nat
    BY HeldIsFinite DEF Placed
  <2>2. IsFiniteSet(both) /\ Cardinality(both) \in Nat
    BY <2>1, FS_Union, FS_CardinalityType
  <2>3. Cardinality(both) <= Cardinality(Placed("tier1")) + Cardinality(Placed("tier2"))
    <3>1. Cardinality(both) = Cardinality(Placed("tier1")) + Cardinality(Placed("tier2"))
                                - Cardinality(Placed("tier1") \cap Placed("tier2"))
      BY <2>1, FS_Union
    <3>2. Cardinality(Placed("tier1") \cap Placed("tier2")) \in Nat
      BY <2>1, FS_Subset, FS_CardinalityType
    <3>. QED
      BY <2>1, <3>1, <3>2
  <2>4. /\ Slots["tier1"] \in Nat /\ Cardinality(Placed("tier1")) <= Slots["tier1"]
        /\ Slots["tier2"] \in Nat /\ Cardinality(Placed("tier2")) <= Slots["tier2"]
    BY SyncAdmissionAssumption DEF IInv, PlacesKept, Tier
  <2>5. Len(memory) \in Nat /\ memory \in [1..Len(memory) -> Job]
    BY DEF IInv, TypeOK
  <2>6. \A i \in 1..Len(memory) : memory[i] \in both
    BY <2>5 DEF IInv, TypeOK, QueueOfWaiters, Placed, At, Tier
  <2>7. memory \in [1..Len(memory) -> both]
    BY <2>5, <2>6
  <2>8. IsFiniteSet(1..Len(memory)) /\ Cardinality(1..Len(memory)) = Len(memory)
    BY <2>5, FS_Interval
  <2>. HIDE DEF both
  <2>9. ~(Cardinality(both) < Cardinality(1..Len(memory)))
    <3>. SUFFICES ASSUME Cardinality(both) < Cardinality(1..Len(memory)) PROVE FALSE
      OBVIOUS
    <3>1. \E i, k \in 1..Len(memory) : i # k /\ memory[i] = memory[k]
      BY <2>2, <2>7, <2>8, FS_PigeonHole
    <3>. QED
      BY <3>1 DEF IInv, QueueOfWaiters
  <2>10. Len(memory) <= Slots["tier1"] + Slots["tier2"]
    BY <2>1, <2>2, <2>3, <2>4, <2>5, <2>8, <2>9
  <2>. QED
    BY <2>10 DEF IInv, PlacesKept, RetentionBounded
<1>. QED
  BY <1>1, Invariance, PTL

(* Two Tier-2 jobs do not fit into the budget and one leaves room for a     *)
(* Tier-1 job, so the first Tier-1 job in the queue is never held up by     *)
(* Tier 2.                                                                  *)
THEOREM TierOneIsNotHeldUp == Spec => []TierOneHasRoom
<1>1. IInv => TierOneHasRoom
  <2>. SUFFICES ASSUME IInv, InMemory("tier1") = {} PROVE Fits("tier1")
    BY DEF TierOneHasRoom
  <2>. DEFINE n == Cardinality(InMemory("tier2"))
              w == Weight["tier2"]
  <2>1. /\ n \in Nat /\ w \in Nat \ {0} /\ Weight["tier1"] \in Nat /\ Units \in Nat
        /\ Weight["tier1"] + w <= Units /\ Units < 2 * w
    BY HeldIsFinite, SyncAdmissionAssumption, TierTwoIsBounded DEF InMemory, Tier
  <2>2. Cardinality(InMemory("tier1")) = 0
    BY FS_EmptySet
  <2>3. UnitsOf("tier1") = 0
    BY <2>1, <2>2 DEF UnitsOf
  <2>4. UnitsHeld = n * w
    <3>1. n * w \in Nat
      BY <2>1, WeightsAreCounted DEF Tier
    <3>. QED
      BY <2>3, <3>1 DEF UnitsHeld, UnitsOf
  <2>5. n * w <= Units
    BY <2>4 DEF IInv, MemoryWithinBudget
  <2>6. n = 0 \/ n = 1
    <3>. SUFFICES ASSUME n >= 2 PROVE FALSE
      BY <2>1
    <3>1. 2 * w <= n * w
      BY <2>1, WeightsAreCounted DEF Tier
    <3>. QED
      BY <2>1, <2>5, <3>1, WeightsAreCounted DEF Tier
  <2>. HIDE DEF n, w
  <2>7. n * w <= w
    BY <2>1, <2>6
  <2>8. n * w \in Nat
    BY <2>1, <2>6
  <2>9. UnitsHeld + Weight["tier1"] <= Units
    BY <2>1, <2>4, <2>7, <2>8
  <2>. QED
    BY <2>9 DEF Fits
<1>. QED
  BY <1>1, Invariance, PTL

(* Memory, Tier 1's share of it, and the bodies that wait are all bounded. *)
THEOREM AdmissionIsBounded == Spec => []AdmissionStaysBounded
<1>1. AdmissionStaysBounded <=> MemoryWithinBudget /\ TierOneHasRoom /\ RetentionBounded
  BY DEF AdmissionStaysBounded
<1>. QED
  BY <1>1, BudgetIsKept, TierOneIsNotHeldUp, RetentionIsBounded, PTL

-----------------------------------------------------------------------------
(* Counters that wrap: equal up to multiples of Wrap *)

Congruent(a, b) == \E k \in Int : a = b + (k * Wrap)

LEMMA WrapIsPositive == Wrap \in Nat /\ Wrap >= 1
BY SyncAdmissionAssumption

LEMMA RemainderIsCongruent ==
  ASSUME NEW n \in Int
  PROVE  n % Wrap \in Count /\ Congruent(n % Wrap, n)
<1>1. n % Wrap \in 0..Wrap-1 /\ n \div Wrap \in Int
  BY WrapIsPositive
<1>2. n = ((n \div Wrap) * Wrap) + (n % Wrap)
  BY WrapIsPositive, Z3
<1>. DEFINE k == -(n \div Wrap)
<1>3. k \in Int /\ n % Wrap = n + (k * Wrap)
  <2>1. \A q, r, w \in Int : n = (q * w) + r => r = n + ((-q) * w)
    BY Z3
  <2>. QED
    BY <1>1, <1>2, <2>1, WrapIsPositive
<1>. QED
  BY <1>1, <1>3 DEF Count, Congruent

LEMMA CountersAreUnique ==
  ASSUME NEW a \in Count, NEW b \in Count, Congruent(a, b)
  PROVE  a = b
<1>1. PICK k \in Int : a = b + (k * Wrap)
  BY DEF Congruent
<1>2. a \in 0..Wrap-1 /\ b \in 0..Wrap-1 /\ Wrap \in Int /\ Wrap >= 1
  BY WrapIsPositive DEF Count
<1>3. CASE k >= 1
  <2>1. \A x, y \in Int : x >= 1 /\ y >= 1 => x * y >= y
    BY Z3
  <2>. QED
    BY <1>1, <1>2, <1>3, <2>1
<1>4. CASE k <= -1
  <2>1. \A x, y \in Int : x <= -1 /\ y >= 1 => x * y <= -y
    BY Z3
  <2>. QED
    BY <1>1, <1>2, <1>4, <2>1
<1>5. CASE k = 0
  BY <1>1, <1>2, <1>5
<1>. QED
  BY <1>3, <1>4, <1>5

LEMMA CongruentIsSame == ASSUME NEW a \in Int PROVE Congruent(a, a)
<1>1. a = a + (0 * Wrap)
  BY WrapIsPositive
<1>. QED
  BY <1>1 DEF Congruent

LEMMA CongruentBack ==
  ASSUME NEW a \in Int, NEW b \in Int, Congruent(a, b)
  PROVE  Congruent(b, a)
<1>1. PICK k \in Int : a = b + (k * Wrap)
  BY DEF Congruent
<1>2. \A q, w \in Int : a = b + (q * w) => b = a + ((-q) * w)
  BY Z3
<1>3. -k \in Int /\ b = a + ((-k) * Wrap)
  BY <1>1, <1>2, WrapIsPositive
<1>. QED
  BY <1>3 DEF Congruent

LEMMA CongruentSums ==
  ASSUME NEW a \in Int, NEW b \in Int, NEW c \in Int, NEW d \in Int, Congruent(a, b), Congruent(c, d)
  PROVE  Congruent(a + c, b + d)
<1>1. PICK k \in Int : a = b + (k * Wrap)
  BY DEF Congruent
<1>2. PICK l \in Int : c = d + (l * Wrap)
  BY DEF Congruent
<1>3. \A p, q, w \in Int : a = b + (p * w) /\ c = d + (q * w) => a + c = (b + d) + ((p + q) * w)
  BY Z3
<1>4. k + l \in Int /\ a + c = (b + d) + ((k + l) * Wrap)
  BY <1>1, <1>2, <1>3, WrapIsPositive
<1>. QED
  BY <1>4 DEF Congruent

LEMMA CongruentChain ==
  ASSUME NEW a \in Int, NEW b \in Int, NEW c \in Int, Congruent(a, b), Congruent(b, c)
  PROVE  Congruent(a, c)
<1>1. PICK k \in Int : a = b + (k * Wrap)
  BY DEF Congruent
<1>2. PICK l \in Int : b = c + (l * Wrap)
  BY DEF Congruent
<1>3. \A p, q, w \in Int : a = b + (p * w) /\ b = c + (q * w) => a = c + ((p + q) * w)
  BY Z3
<1>4. k + l \in Int /\ a = c + ((k + l) * Wrap)
  BY <1>1, <1>2, <1>3, WrapIsPositive
<1>. QED
  BY <1>4 DEF Congruent

(* What the counters' updates do, up to the wrap. *)
LEMMA UpAndDown ==
  ASSUME NEW n \in Count
  PROVE  n \in Nat /\ Congruent(Up(n), n + 1) /\ Congruent(Down(n), n - 1)
<1>1. n \in Nat
  BY WrapIsPositive DEF Count
<1>2. Congruent(Up(n), n + 1)
  BY <1>1, RemainderIsCongruent DEF Up
<1>3. Congruent(Down(n), (n + Wrap) - 1) /\ Down(n) \in Int
  <2>1. n + Wrap - 1 = (n + Wrap) - 1 /\ n + Wrap - 1 \in Int
    BY <1>1, WrapIsPositive
  <2>2. (n + Wrap - 1) % Wrap \in Count /\ Congruent((n + Wrap - 1) % Wrap, n + Wrap - 1)
    BY <2>1, RemainderIsCongruent
  <2>3. (n + Wrap - 1) % Wrap \in Int
    BY <2>2, WrapIsPositive DEF Count
  <2>. QED
    BY <2>1, <2>2, <2>3 DEF Down
<1>4. Congruent((n + Wrap) - 1, n - 1)
  <2>1. (n + Wrap) - 1 = (n - 1) + (1 * Wrap)
    BY <1>1, WrapIsPositive
  <2>. QED
    BY <2>1 DEF Congruent
<1>5. n - 1 \in Int /\ (n + Wrap) - 1 \in Int
  BY <1>1, WrapIsPositive
<1>. QED
  BY <1>1, <1>2, <1>3, <1>4, <1>5, CongruentChain

-----------------------------------------------------------------------------
(* How many jobs are in some phases after one has moved *)

InOrOut(b) == IF b THEN 1 ELSE 0

LEMMA MovingChangesTheCount ==
  ASSUME TypeOK, NEW j \in Job, NEW p, pc' = [pc EXCEPT ![j] = p],
         \A x \in Job : x # j => tier'[x] = tier[x], NEW t, NEW phases
  PROVE  Cardinality(At(t, phases)') =
           (Cardinality(At(t, phases)) - InOrOut(j \in At(t, phases))) + InOrOut(j \in At(t, phases)')
<1>. DEFINE before == At(t, phases)
            after == At(t, phases)'
            others == before \ {j}
<1>1. IsFiniteSet(before) /\ IsFiniteSet(others) /\ j \notin others
  BY HeldIsFinite, FS_Subset
<1>2. others = after \ {j}
  BY DEF At, TypeOK
<1>3. Cardinality(others) \in Nat
  BY <1>1, FS_CardinalityType
<1>4. Cardinality(before) = Cardinality(others) + InOrOut(j \in before)
  <2>1. CASE j \in before
    <3>1. before = others \cup {j}
      BY <2>1
    <3>. HIDE DEF before, others
    <3>2. Cardinality(others \cup {j}) = Cardinality(others) + 1
      BY <1>1, FS_AddElement
    <3>. QED
      BY <2>1, <3>1, <3>2 DEF InOrOut
  <2>2. CASE j \notin before
    <3>1. before = others
      BY <2>2
    <3>. HIDE DEF before, others
    <3>. QED
      BY <1>3, <2>2, <3>1 DEF InOrOut
  <2>. QED
    BY <2>1, <2>2
<1>5. Cardinality(after) = Cardinality(others) + InOrOut(j \in after)
  <2>1. CASE j \in after
    <3>1. after = others \cup {j}
      BY <1>2, <2>1
    <3>. HIDE DEF after, others
    <3>2. Cardinality(others \cup {j}) = Cardinality(others) + 1
      BY <1>1, FS_AddElement
    <3>. QED
      BY <2>1, <3>1, <3>2 DEF InOrOut
  <2>2. CASE j \notin after
    <3>1. after = others
      BY <1>2, <2>2
    <3>. HIDE DEF after, others
    <3>. QED
      BY <1>3, <2>2, <3>1 DEF InOrOut
  <2>. QED
    BY <2>1, <2>2
<1>. HIDE DEF before, after, others
<1>6. InOrOut(j \in before) \in {0, 1}
  BY DEF InOrOut
<1>7. Cardinality(after) = (Cardinality(before) - InOrOut(j \in before)) + InOrOut(j \in after)
  BY <1>3, <1>4, <1>5, <1>6
<1>. QED
  BY <1>7 DEF before, after

-----------------------------------------------------------------------------
(* The outcomes, added up *)

Ways == Outcome \cup {"cancelled"}

LEMMA OneMoreEnded ==
  ASSUME NEW f \in [Ways -> Count], NEW o \in Ways
  PROVE  /\ Total(f, Ways) \in Nat /\ Total([f EXCEPT ![o] = Up(@)], Ways) \in Nat
         /\ Congruent(Total([f EXCEPT ![o] = Up(@)], Ways), Total(f, Ways) + 1)
<1>. DEFINE g == [f EXCEPT ![o] = Up(@)]
<1>1. IsFiniteSet(Ways) /\ IsFiniteSet(Ways \ {o})
  BY SyncAdmissionAssumption, FS_AddElement, FS_Subset DEF Ways
<1>2. g \in [Ways -> Count] /\ g[o] = Up(f[o]) /\ \A w \in Ways \ {o} : g[w] = f[w]
  BY CountersWrap
<1>3. \A w \in Ways : f[w] \in Nat /\ g[w] \in Nat
  BY <1>2, UpAndDown
<1>. HIDE DEF g
<1>4. /\ Total(f, Ways) \in Nat /\ Total(g, Ways) \in Nat
      /\ Total(f, Ways \ {o}) \in Nat
      /\ Total(f, Ways) = f[o] + Total(f, Ways \ {o})
      /\ Total(g, Ways) = g[o] + Total(g, Ways \ {o})
  <2>1. \A w \in Ways \ {o} : f[w] \in Nat
    BY <1>3
  <2>. QED
    BY <1>1, <1>3, <2>1, TotalIsNat, TotalWithout
<1>5. Total(g, Ways \ {o}) = Total(f, Ways \ {o})
  BY <1>1, <1>2, TotalOfSame
<1>. DEFINE r == Total(f, Ways \ {o})
<1>6. Congruent(Up(f[o]) + r, (f[o] + 1) + r)
  <2>1. /\ Congruent(Up(f[o]), f[o] + 1) /\ f[o] \in Count /\ Up(f[o]) \in Count
        /\ f[o] + 1 \in Int /\ Up(f[o]) \in Int
    BY <1>2, <1>3, CountersWrap, UpAndDown
  <2>2. r \in Int /\ Congruent(r, r)
    BY <1>4, CongruentIsSame
  <2>. HIDE DEF r
  <2>. QED
    BY <2>1, <2>2, CongruentSums
<1>7. (f[o] + 1) + r = Total(f, Ways) + 1 /\ Up(f[o]) + r = Total(g, Ways)
  BY <1>2, <1>3, <1>4, <1>5
<1>. QED
  BY <1>4, <1>6, <1>7 DEF g

-----------------------------------------------------------------------------
(* Every reservation is counted, up to the wrap *)

Engaged == {"reserved", "wantsMemory", "running"}
Balance(t) == lost[t] + Cardinality(At(t, Engaged)) + Ended(t)
GaugeRight(t) == Congruent(stats[t].running, Cardinality(At(t, {"running"})))
TotalsRight(t) == Congruent(stats[t].queued, Balance(t))
Counted == \A t \in Tier : GaugeRight(t) /\ TotalsRight(t)

LEMMA AccountsAreNumbers ==
  ASSUME NEW x \in TierStats
  PROVE  /\ x.running \in Int /\ x.queued \in Int
         /\ x.running \in Count /\ x.queued \in Count /\ x.ended \in [Ways -> Count]
         /\ SumFunction(x.ended) = Total(x.ended, Ways)
         /\ Total(x.ended, Ways) \in Nat
<1>1. x.running \in Count /\ x.queued \in Count /\ x.ended \in [Ways -> Count]
  BY DEF TierStats, Ways
<1>2. x.running \in Int /\ x.queued \in Int
  BY <1>1, UpAndDown
<1>3. SumFunction(x.ended) = Total(x.ended, DOMAIN x.ended)
  BY SumIsTotal
<1>4. DOMAIN x.ended = Ways
  BY <1>1
<1>5. Total(x.ended, Ways) \in Nat
  BY <1>1, OneMoreEnded DEF Ways
<1>. QED
  BY <1>1, <1>2, <1>3, <1>4, <1>5

(* A tier that a step does not touch. *)
LEMMA UntouchedAccount ==
  ASSUME Counted, NEW t \in Tier, stats'[t] = stats[t], lost'[t] = lost[t],
         At(t, {"running"})' = At(t, {"running"}), At(t, Engaged)' = At(t, Engaged)
  PROVE  GaugeRight(t)' /\ TotalsRight(t)'
<1>1. Ended(t)' = Ended(t)
  BY DEF Ended
<1>2. GaugeRight(t) /\ TotalsRight(t)
  BY DEF Counted
<1>3. GaugeRight(t)'
  BY <1>2 DEF GaugeRight
<1>4. Balance(t)' = Balance(t)
  BY <1>1 DEF Balance
<1>. QED
  BY <1>2, <1>3, <1>4 DEF TotalsRight

(* The gauge moves by as much as the jobs at work. *)
LEMMA GaugeMoves ==
  ASSUME TypeOK, TypeOK', Counted, NEW t \in Tier, NEW d \in Int,
         Congruent(stats'[t].running, stats[t].running + d),
         Cardinality(At(t, {"running"})') = Cardinality(At(t, {"running"})) + d
  PROVE  GaugeRight(t)'
<1>. DEFINE r == stats[t].running
            s == stats'[t].running
            c == Cardinality(At(t, {"running"}))
            e == Cardinality(At(t, {"running"})')
<1>1. stats[t] \in TierStats /\ stats'[t] \in TierStats
  BY DEF TypeOK
<1>2. r \in Int /\ s \in Int /\ c \in Int /\ e \in Int
  <2>1. r \in Int /\ s \in Int
    BY <1>1, AccountsAreNumbers
  <2>2. c \in Int
    BY HeldIsFinite
  <2>. QED
    BY <2>1, <2>2
<1>3. Congruent(r, c)
  BY DEF Counted, GaugeRight
<1>4. Congruent(s, r + d) /\ e = c + d
  OBVIOUS
<1>5. Congruent(s, e)
  <2>. HIDE DEF r, s, c, e
  <2>1. Congruent(d, d)
    BY CongruentIsSame
  <2>2. Congruent(r + d, c + d)
    BY <1>2, <1>3, <2>1, CongruentSums
  <2>. QED
    BY <1>2, <1>4, <2>2, CongruentChain
<1>. QED
  BY <1>5 DEF GaugeRight

(* The total of reservations moves by as much as what became of them. *)
LEMMA TotalsMove ==
  ASSUME TypeOK, TypeOK', Counted, NEW t \in Tier,
         NEW q \in Int, NEW l \in Int, NEW c \in Int, NEW e \in Int, q = l + c + e,
         Congruent(stats'[t].queued, stats[t].queued + q),
         Congruent(lost'[t], lost[t] + l),
         Cardinality(At(t, Engaged)') = Cardinality(At(t, Engaged)) + c,
         Congruent(Total(stats'[t].ended, Ways), Total(stats[t].ended, Ways) + e)
  PROVE  TotalsRight(t)'
<1>. DEFINE Q == stats[t].queued       Q1 == stats'[t].queued
            L == lost[t]               L1 == lost'[t]
            C == Cardinality(At(t, Engaged))
            C1 == Cardinality(At(t, Engaged)')
            E == Total(stats[t].ended, Ways)
            E1 == Total(stats'[t].ended, Ways)
<1>1. stats[t] \in TierStats /\ stats'[t] \in TierStats /\ lost[t] \in Count /\ lost'[t] \in Count
  BY DEF TypeOK
<1>2. Q \in Int /\ Q1 \in Int /\ L \in Int /\ L1 \in Int /\ E \in Int /\ E1 \in Int
  <2>1. Q \in Int /\ E \in Int
    BY <1>1, AccountsAreNumbers
  <2>2. Q1 \in Int /\ E1 \in Int
    BY <1>1, AccountsAreNumbers
  <2>3. L \in Int /\ L1 \in Int
    BY <1>1, UpAndDown
  <2>. QED
    BY <2>1, <2>2, <2>3
<1>3. C \in Int /\ IsFiniteSet(At(t, Engaged))
  BY HeldIsFinite
<1>4. C1 = C + c
  OBVIOUS
<1>5. Ended(t) = E /\ Ended(t)' = E1
  <2>1. Ended(t) = SumFunction(stats[t].ended) /\ Ended(t)' = SumFunction(stats'[t].ended)
    BY DEF Ended
  <2>. QED
    BY <1>1, <2>1, AccountsAreNumbers
<1>6. Balance(t) = L + C + E /\ Balance(t)' = L1 + C1 + E1
  BY <1>5 DEF Balance
<1>7. Congruent(Q, L + C + E)
  BY <1>6 DEF Counted, TotalsRight
<1>8. Congruent(Q1, Q + q) /\ Congruent(L1, L + l) /\ Congruent(E1, E + e)
  OBVIOUS
<1>. HIDE DEF Q, Q1, L, L1, C, C1, E, E1
<1>9. Congruent(Q + q, (L + C + E) + q)
  BY <1>2, <1>3, <1>7, CongruentIsSame, CongruentSums
<1>10. Congruent(Q1, (L + C + E) + q)
  BY <1>2, <1>3, <1>8, <1>9, CongruentChain
<1>11. Congruent(L1 + C1, (L + l) + C1)
  <2>1. C1 \in Int /\ L + l \in Int
    BY <1>2, <1>3, <1>4
  <2>2. Congruent(C1, C1)
    BY <2>1, CongruentIsSame
  <2>. QED
    BY <1>2, <1>8, <2>1, <2>2, CongruentSums
<1>12. Congruent((L1 + C1) + E1, ((L + l) + C1) + (E + e))
  BY <1>2, <1>3, <1>4, <1>8, <1>11, CongruentSums
<1>13. ((L + l) + C1) + (E + e) = (L + C + E) + q /\ (L1 + C1) + E1 = L1 + C1 + E1
  BY <1>2, <1>3, <1>4
<1>14. Congruent((L + C + E) + q, L1 + C1 + E1)
  BY <1>2, <1>3, <1>4, <1>12, <1>13, CongruentBack
<1>15. Congruent(Q1, L1 + C1 + E1)
  BY <1>2, <1>3, <1>4, <1>10, <1>14, CongruentChain
<1>. QED
  BY <1>6, <1>15 DEF TotalsRight, Q1

(* A job moves within its tier: the counters of the tier move with it. *)
LEMMA AccountKept ==
  ASSUME TypeOK, TypeOK', Counted, NEW j \in Job, NEW p, pc' = [pc EXCEPT ![j] = p], tier' = tier,
         \A t \in Tier : t # tier[j] => stats'[t] = stats[t] /\ lost'[t] = lost[t],
         NEW d \in Int, d = InOrOut(p = "running") - InOrOut(pc[j] = "running"),
         NEW c \in Int, c = InOrOut(p \in Engaged) - InOrOut(pc[j] \in Engaged),
         NEW q \in Int, NEW l \in Int, NEW e \in Int, q = l + c + e,
         Congruent(stats'[tier[j]].running, stats[tier[j]].running + d),
         Congruent(stats'[tier[j]].queued, stats[tier[j]].queued + q),
         Congruent(lost'[tier[j]], lost[tier[j]] + l),
         Congruent(Total(stats'[tier[j]].ended, Ways), Total(stats[tier[j]].ended, Ways) + e)
  PROVE  Counted'
<1>. SUFFICES ASSUME NEW t \in Tier PROVE GaugeRight(t)' /\ TotalsRight(t)'
  BY DEF Counted
<1>1. pc'[j] = p /\ \A x \in Job : x # j => pc'[x] = pc[x]
  BY DEF TypeOK
<1>2. CASE t # tier[j]
  <2>1. At(t, {"running"})' = At(t, {"running"}) /\ At(t, Engaged)' = At(t, Engaged)
    BY <1>1, <1>2 DEF At, Engaged
  <2>. QED
    BY <1>2, <2>1, UntouchedAccount
<1>3. CASE t = tier[j]
  <2>1. \A b : InOrOut(b) \in Int
    BY DEF InOrOut
  <2>3. Cardinality(At(t, {"running"})') = Cardinality(At(t, {"running"})) + d
    <3>1. Cardinality(At(t, {"running"})') =
            (Cardinality(At(t, {"running"})) - InOrOut(j \in At(t, {"running"})))
              + InOrOut(j \in At(t, {"running"})')
      BY MovingChangesTheCount
    <3>2. InOrOut(j \in At(t, {"running"})) = InOrOut(pc[j] = "running")
      BY <1>3 DEF InOrOut, At
    <3>3. InOrOut(j \in At(t, {"running"})') = InOrOut(p = "running")
      BY <1>1, <1>3 DEF InOrOut, At
    <3>4. Cardinality(At(t, {"running"})) \in Int
      BY HeldIsFinite
    <3>. QED
      BY <2>1, <3>1, <3>2, <3>3, <3>4
  <2>4. Cardinality(At(t, Engaged)') = Cardinality(At(t, Engaged)) + c
    <3>1. Cardinality(At(t, Engaged)') =
            (Cardinality(At(t, Engaged)) - InOrOut(j \in At(t, Engaged))) + InOrOut(j \in At(t, Engaged)')
      BY MovingChangesTheCount DEF Engaged
    <3>2. InOrOut(j \in At(t, Engaged)) = InOrOut(pc[j] \in Engaged)
      BY <1>3 DEF InOrOut, At
    <3>3. InOrOut(j \in At(t, Engaged)') = InOrOut(p \in Engaged)
      BY <1>1, <1>3 DEF InOrOut, At, Engaged
    <3>4. Cardinality(At(t, Engaged)) \in Int
      BY HeldIsFinite
    <3>. QED
      BY <2>1, <3>1, <3>2, <3>3, <3>4
  <2>5. Congruent(stats'[t].running, stats[t].running + d) /\ q = l + c + e
    BY <1>3
  <2>6. /\ Congruent(stats'[t].queued, stats[t].queued + q)
        /\ Congruent(lost'[t], lost[t] + l)
        /\ Congruent(Total(stats'[t].ended, Ways), Total(stats[t].ended, Ways) + e)
    BY <1>3
  <2>7. GaugeRight(t)'
    BY <2>3, <2>5, GaugeMoves
  <2>8. TotalsRight(t)'
    BY <2>4, <2>5, <2>6, TotalsMove
  <2>. QED
    BY <2>7, <2>8
<1>. QED
  BY <1>2, <1>3

(* What did not move is congruent to itself. *)
LEMMA Unmoved == ASSUME NEW n \in Int PROVE Congruent(n, n + 0)
<1>1. n + 0 = n
  OBVIOUS
<1>. QED
  BY <1>1, CongruentIsSame

LEMMA AllUnmoved ==
  ASSUME TypeOK, NEW t \in Tier
  PROVE  /\ Congruent(stats[t].running, stats[t].running + 0)
         /\ Congruent(stats[t].queued, stats[t].queued + 0)
         /\ Congruent(lost[t], lost[t] + 0)
         /\ Congruent(Total(stats[t].ended, Ways), Total(stats[t].ended, Ways) + 0)
<1>1. stats[t] \in TierStats /\ lost[t] \in Count
  BY DEF TypeOK
<1>2. /\ stats[t].running \in Int /\ stats[t].queued \in Int /\ lost[t] \in Int
      /\ Total(stats[t].ended, Ways) \in Int
  BY <1>1, AccountsAreNumbers, UpAndDown
<1>. QED
  BY <1>2, Unmoved

(* A job that asks for a place changes its tier, and is in no count. *)
LEMMA ReserveIsCounted ==
  ASSUME TypeOK, Counted, NEW j \in Job, NEW t \in Tier, Reserve(j, t)
  PROVE  Counted'
<1>1. pc[j] = "out" /\ pc'[j] = "wantsPlace" /\ \A x \in Job : x # j => pc'[x] = pc[x] /\ tier'[x] = tier[x]
  BY DEF Reserve, TypeOK
<1>2. \A u \in Tier : At(u, {"running"})' = At(u, {"running"}) /\ At(u, Engaged)' = At(u, Engaged)
  BY <1>1 DEF At, Engaged
<1>3. stats' = stats /\ lost' = lost
  BY DEF Reserve
<1>4. \A u \in Tier : GaugeRight(u)' /\ TotalsRight(u)'
  BY <1>2, <1>3, UntouchedAccount
<1>. QED
  BY <1>4 DEF Counted

(* A step within a job's phases that no counter sees. *)
LEMMA UnseenIsCounted ==
  ASSUME TypeOK, TypeOK', Counted, NEW j \in Job, NEW p, pc' = [pc EXCEPT ![j] = p],
         UNCHANGED <<tier, stats, lost>>,
         p \in Engaged <=> pc[j] \in Engaged, p = "running" <=> pc[j] = "running"
  PROVE  Counted'
<1>1. tier[j] \in Tier
  BY DEF TypeOK
<1>2. \A u \in Tier : At(u, {"running"})' = At(u, {"running"}) /\ At(u, Engaged)' = At(u, Engaged)
  <2>1. pc'[j] = p /\ \A x \in Job : x # j => pc'[x] = pc[x]
    BY DEF TypeOK
  <2>. QED
    BY <2>1 DEF At, Engaged
<1>3. \A u \in Tier : GaugeRight(u)' /\ TotalsRight(u)'
  BY <1>2, UntouchedAccount
<1>. QED
  BY <1>3 DEF Counted

LEMMA TakePlaceIsCounted ==
  ASSUME TypeOK, TypeOK', Counted, NEW j \in Job, TakePlace(j)
  PROVE  Counted'
<1>. DEFINE t == tier[j]
            d == 0
            c == 1
            q == 1
            l == 0
            e == 0
<1>1. t \in Tier /\ stats[t] \in TierStats /\ stats[t].queued \in Count
  BY AccountsAreNumbers DEF TypeOK
<1>2. /\ pc[j] = "wantsPlace" /\ pc' = [pc EXCEPT ![j] = "reserved"] /\ tier' = tier /\ lost' = lost
      /\ stats'[t] = [stats[t] EXCEPT !.queued = Up(@)]
      /\ \A u \in Tier : u # t => stats'[u] = stats[u]
  BY <1>1 DEF TakePlace, TypeOK
<1>3. /\ stats'[t].queued = Up(stats[t].queued) /\ stats'[t].running = stats[t].running
      /\ stats'[t].ended = stats[t].ended
  BY <1>1, <1>2 DEF TierStats
<1>4. Congruent(stats'[t].queued, stats[t].queued + q)
  BY <1>1, <1>3, UpAndDown
<1>5. c = InOrOut("reserved" \in Engaged) - InOrOut(pc[j] \in Engaged)
  BY <1>2 DEF InOrOut, Engaged
<1>6. d = InOrOut("reserved" = "running") - InOrOut(pc[j] = "running")
  BY <1>2 DEF InOrOut
<1>7. /\ Congruent(stats'[t].running, stats[t].running + d)
      /\ Congruent(lost'[t], lost[t] + l)
      /\ Congruent(Total(stats'[t].ended, Ways), Total(stats[t].ended, Ways) + e)
  BY <1>1, <1>2, <1>3, AllUnmoved
<1>9. d \in Int /\ c \in Int /\ q \in Int /\ l \in Int /\ e \in Int /\ q = l + c + e
  OBVIOUS
<1>. HIDE DEF d, c, q, l, e
<1>. QED
  BY <1>2, <1>4, <1>5, <1>6, <1>7, <1>9, AccountKept

LEMMA AdmitIsCounted ==
  ASSUME TypeOK, TypeOK', Counted, NEW j \in Job, Admit(j)
  PROVE  Counted'
<1>. DEFINE t == tier[j]
            p == "running"
            d == 1
            c == 0
            q == 0
            l == 0
            e == 0
<1>1. t \in Tier /\ stats[t] \in TierStats /\ stats[t].running \in Count
  BY AccountsAreNumbers DEF TypeOK
<1>2. /\ pc[j] = "wantsMemory" /\ pc' = [pc EXCEPT ![j] = p] /\ tier' = tier /\ lost' = lost
      /\ stats'[t] = [stats[t] EXCEPT !.running = Up(@)]
      /\ \A u \in Tier : u # t => stats'[u] = stats[u]
  BY <1>1 DEF Admit, TypeOK
<1>3. /\ stats'[t].queued = stats[t].queued /\ stats'[t].running = Up(stats[t].running)
      /\ stats'[t].ended = stats[t].ended
  BY <1>1, <1>2 DEF TierStats
<1>4. Congruent(stats'[t].running, stats[t].running + d)
  BY <1>1, <1>3, UpAndDown
<1>5. c = InOrOut(p \in Engaged) - InOrOut(pc[j] \in Engaged)
  BY <1>2 DEF InOrOut, Engaged
<1>6. d = InOrOut(p = "running") - InOrOut(pc[j] = "running")
  BY <1>2 DEF InOrOut
<1>7. /\ Congruent(stats'[t].queued, stats[t].queued + q)
      /\ Congruent(lost'[t], lost[t] + l)
      /\ Congruent(Total(stats'[t].ended, Ways), Total(stats[t].ended, Ways) + e)
  BY <1>1, <1>2, <1>3, AllUnmoved
<1>9. d \in Int /\ c \in Int /\ q \in Int /\ l \in Int /\ e \in Int /\ q = l + c + e
  OBVIOUS
<1>. HIDE DEF p, d, c, q, l, e
<1>. QED
  BY <1>2, <1>4, <1>5, <1>6, <1>7, <1>9, AccountKept

(* A running job ends one way: by finish, or by a drop without it. *)
LEMMA EndingIsCounted ==
  ASSUME TypeOK, TypeOK', Counted, NEW j \in Job, NEW o \in Ways, NEW p, p \notin Engaged,
         pc[j] = "running", pc' = [pc EXCEPT ![j] = p], tier' = tier, lost' = lost,
         stats' = [stats EXCEPT ![tier[j]].ended[o] = Up(@), ![tier[j]].running = Down(@)]
  PROVE  Counted'
<1>. DEFINE t == tier[j]
            d == -1
            c == -1
            q == 0
            l == 0
            e == 1
<1>1. /\ t \in Tier /\ stats[t] \in TierStats /\ stats[t].running \in Count
      /\ stats[t].ended \in [Ways -> Count]
  BY AccountsAreNumbers DEF TypeOK
<1>2. /\ stats'[t] = [stats[t] EXCEPT !.ended[o] = Up(@), !.running = Down(@)]
      /\ \A u \in Tier : u # t => stats'[u] = stats[u]
  BY <1>1 DEF TypeOK
<1>3. /\ stats'[t].queued = stats[t].queued /\ stats'[t].running = Down(stats[t].running)
      /\ stats'[t].ended = [stats[t].ended EXCEPT ![o] = Up(@)]
  <2>1. \A x \in TierStats :
          LET y == [x EXCEPT !.ended[o] = Up(@), !.running = Down(@)]
          IN  y.queued = x.queued /\ y.running = Down(x.running) /\ y.ended = [x.ended EXCEPT ![o] = Up(@)]
    BY DEF TierStats
  <2>. QED
    BY <1>1, <1>2, <2>1
<1>4. Congruent(stats'[t].running, stats[t].running + d)
  <2>1. stats[t].running + (-1) = stats[t].running - 1
    BY <1>1, UpAndDown
  <2>. QED
    BY <1>1, <1>3, <2>1, UpAndDown
<1>5. c = InOrOut(p \in Engaged) - InOrOut(pc[j] \in Engaged)
  BY DEF InOrOut, Engaged
<1>6. d = InOrOut(p = "running") - InOrOut(pc[j] = "running")
  BY DEF InOrOut, Engaged
<1>7. Congruent(stats'[t].queued, stats[t].queued + q) /\ Congruent(lost'[t], lost[t] + l)
  BY <1>1, <1>3, AllUnmoved
<1>8. Congruent(Total(stats'[t].ended, Ways), Total(stats[t].ended, Ways) + e)
  BY <1>1, <1>3, OneMoreEnded
<1>9. d \in Int /\ c \in Int /\ q \in Int /\ l \in Int /\ e \in Int /\ q = l + c + e
  OBVIOUS
<1>10. \A u \in Tier : u # tier[j] => stats'[u] = stats[u] /\ lost'[u] = lost[u]
  BY <1>2
<1>. HIDE DEF d, c, q, l, e
<1>. QED
  BY <1>10, <1>4, <1>5, <1>6, <1>7, <1>8, <1>9, AccountKept

(* A reservation is given back. *)
LEMMA AbandonIsCounted ==
  ASSUME TypeOK, TypeOK', Counted, NEW j \in Job, Abandon(j)
  PROVE  Counted'
<1>. DEFINE t == tier[j]
            p == "out"
            d == 0
            c == -1
            q == 0
            l == 1
            e == 0
<1>1. t \in Tier /\ stats[t] \in TierStats /\ lost[t] \in Count
  BY DEF TypeOK
<1>2. pc' = [pc EXCEPT ![j] = "out"] /\ tier' = tier /\ stats' = stats
  BY DEF Abandon
<1>3. CASE pc[j] = "wantsPlace"
  <2>1. lost' = lost
    BY <1>3 DEF Abandon
  <2>2. "out" \in Engaged <=> pc[j] \in Engaged
    BY <1>3 DEF Engaged
  <2>. QED
    BY <1>2, <1>3, <2>1, <2>2, UnseenIsCounted
<1>4. CASE pc[j] \in {"reserved", "wantsMemory"}
  <2>1. lost' = [lost EXCEPT ![t] = Up(@)]
    BY <1>4 DEF Abandon
  <2>2. pc' = [pc EXCEPT ![j] = p] /\ lost'[t] = Up(lost[t]) /\ \A u \in Tier : u # t => lost'[u] = lost[u]
    BY <1>1, <1>2, <2>1 DEF TypeOK
  <2>3. Congruent(lost'[t], lost[t] + l)
    BY <1>1, <2>2, UpAndDown
  <2>4. c = InOrOut(p \in Engaged) - InOrOut(pc[j] \in Engaged)
    BY <1>4 DEF InOrOut, Engaged
  <2>5. d = InOrOut(p = "running") - InOrOut(pc[j] = "running")
    <3>1. pc[j] # "running"
      BY <1>4
    <3>2. InOrOut(p = "running") = 0
      BY DEF InOrOut
    <3>3. InOrOut(pc[j] = "running") = 0
      BY <3>1 DEF InOrOut
    <3>. QED
      BY <3>2, <3>3
  <2>6. /\ Congruent(stats'[t].queued, stats[t].queued + q)
        /\ Congruent(stats'[t].running, stats[t].running + d)
        /\ Congruent(Total(stats'[t].ended, Ways), Total(stats[t].ended, Ways) + e)
    BY <1>1, <1>2, AllUnmoved
  <2>9. d \in Int /\ c \in Int /\ q \in Int /\ l \in Int /\ e \in Int /\ q = l + c + e
    OBVIOUS
  <2>. HIDE DEF p, d, c, q, l, e
  <2>10. \A u \in Tier : u # tier[j] => stats'[u] = stats[u] /\ lost'[u] = lost[u]
    BY <1>2, <2>2
  <2>. QED
    BY <1>2, <2>10, <2>2, <2>3, <2>4, <2>5, <2>6, <2>9, AccountKept
<1>. QED
  BY <1>3, <1>4 DEF Abandon

LEMMA NextIsCounted == TypeOK /\ TypeOK' /\ Counted /\ [Next]_vars => Counted'
<1>. SUFFICES ASSUME TypeOK, TypeOK', Counted, [Next]_vars PROVE Counted'
  OBVIOUS
<1>1. ASSUME NEW j \in Job, NEW t \in Tier, Reserve(j, t) PROVE Counted'
  BY <1>1, ReserveIsCounted
<1>2. ASSUME NEW j \in Job, TakePlace(j) PROVE Counted'
  BY <1>2, TakePlaceIsCounted
<1>3. ASSUME NEW j \in Job, AskMemory(j) PROVE Counted'
  <2>1. "wantsMemory" \in Engaged /\ pc[j] \in Engaged
    BY <1>3 DEF Engaged, AskMemory
  <2>. QED
    BY <1>3, <2>1, UnseenIsCounted DEF AskMemory
<1>4. ASSUME NEW j \in Job, Admit(j) PROVE Counted'
  BY <1>4, AdmitIsCounted
<1>5. ASSUME NEW j \in Job, NEW o \in Outcome, Finish(j, o) PROVE Counted'
  <2>1. o \in Ways /\ "finished" \notin Engaged
    BY DEF Ways, Engaged
  <2>. QED
    BY <1>5, <2>1, EndingIsCounted DEF Finish
<1>6. ASSUME NEW j \in Job, DropPermit(j) PROVE Counted'
  <2>1. "cancelled" \in Ways /\ "dropping" \notin Engaged /\ "finished" \notin Engaged
    BY DEF Ways, Engaged
  <2>2. CASE pc[j] = "finished"
    BY <1>6, <2>1, <2>2, UnseenIsCounted DEF DropPermit
  <2>3. CASE pc[j] = "running"
    BY <1>6, <2>1, <2>3, EndingIsCounted DEF DropPermit
  <2>. QED
    BY <1>6, <2>2, <2>3 DEF DropPermit
<1>7. ASSUME NEW j \in Job, ReleaseMemory(j) PROVE Counted'
  <2>1. "out" \notin Engaged /\ "dropping" \notin Engaged
    BY DEF Engaged
  <2>. QED
    BY <1>7, <2>1, UnseenIsCounted DEF ReleaseMemory
<1>8. ASSUME NEW j \in Job, Abandon(j) PROVE Counted'
  BY <1>8, AbandonIsCounted
<1>9. CASE UNCHANGED vars
  <2>1. \A u \in Tier : /\ At(u, {"running"})' = At(u, {"running"}) /\ At(u, Engaged)' = At(u, Engaged)
                        /\ stats'[u] = stats[u] /\ lost'[u] = lost[u]
    BY <1>9 DEF At, vars
  <2>2. \A u \in Tier : GaugeRight(u)' /\ TotalsRight(u)'
    BY <2>1, UntouchedAccount
  <2>. QED
    BY <2>2 DEF Counted
<1>. QED
  BY <1>1, <1>2, <1>3, <1>4, <1>5, <1>6, <1>7, <1>8, <1>9 DEF Next

LEMMA InitIsCounted == Init => Counted
<1>. SUFFICES ASSUME Init, NEW t \in Tier PROVE GaugeRight(t) /\ TotalsRight(t)
  BY DEF Counted
<1>1. At(t, {"running"}) = {} /\ At(t, Engaged) = {}
  BY DEF Init, At, Engaged
<1>2. Cardinality(At(t, {"running"})) = 0 /\ Cardinality(At(t, Engaged)) = 0
  BY <1>1, FS_EmptySet
<1>3. stats[t].running = 0 /\ stats[t].queued = 0 /\ lost[t] = 0 /\ stats[t].ended = [o \in Ways |-> 0]
  BY DEF Init, Ways
<1>4. Ended(t) = 0
  <2>1. IsFiniteSet(Ways)
    BY SyncAdmissionAssumption, FS_AddElement DEF Ways
  <2>2. Total(stats[t].ended, Ways) = 0
    BY <1>3, <2>1, TotalOfZeros
  <2>3. DOMAIN stats[t].ended = Ways
    BY <1>3
  <2>. QED
    BY <2>2, <2>3, SumIsTotal DEF Ended
<1>5. Balance(t) = 0
  BY <1>2, <1>3, <1>4 DEF Balance
<1>6. Congruent(0, 0)
  BY CongruentIsSame
<1>. QED
  BY <1>2, <1>3, <1>5, <1>6 DEF GaugeRight, TotalsRight

(* Two counters agree with a number if they are congruent to it. *)
LEMMA CongruentIsRemainder ==
  ASSUME NEW a \in Count, NEW n \in Nat, Congruent(a, n)
  PROVE  a = n % Wrap
<1>1. n % Wrap \in Count /\ Congruent(n % Wrap, n)
  BY RemainderIsCongruent
<1>2. a \in Int /\ n % Wrap \in Int
  BY <1>1, UpAndDown
<1>3. Congruent(n, n % Wrap)
  BY <1>1, <1>2, CongruentBack
<1>4. Congruent(a, n % Wrap)
  BY <1>2, <1>3, CongruentChain
<1>. QED
  BY <1>1, <1>4, CountersAreUnique

(* The gauge of a tier is the number of its subprocesses at work, and every *)
(* reservation of it is counted once, lost, engaged or ended one way, for   *)
(* any number of jobs and outcomes and wherever the counters wrap:          *)
(* finish, Drop and the waits of SyncAdmission keep the books.              *)
THEOREM ReservationsAreCounted == Spec => []EveryReservationCounted
<1>1. Init => Counted
  BY InitIsCounted
<1>2. TypeOK /\ TypeOK' /\ Counted /\ [Next]_vars => Counted'
  BY NextIsCounted
<1>3. TypeOK /\ Counted => EveryReservationCounted
  <2>. SUFFICES ASSUME TypeOK, Counted, NEW t \in Tier
                PROVE  /\ stats[t].running = Cardinality(At(t, {"running"})) % Wrap
                       /\ stats[t].queued = Balance(t) % Wrap
    BY DEF EveryReservationCounted, Balance, Engaged
  <2>1. stats[t] \in TierStats /\ lost[t] \in Count
    BY DEF TypeOK
  <2>2. stats[t].running \in Count /\ stats[t].queued \in Count
    BY <2>1, AccountsAreNumbers
  <2>3. Cardinality(At(t, {"running"})) \in Nat /\ Cardinality(At(t, Engaged)) \in Nat
    BY HeldIsFinite
  <2>4. Ended(t) \in Nat
    BY <2>1, AccountsAreNumbers DEF Ended
  <2>5. Balance(t) \in Nat
    BY <2>1, <2>3, <2>4, UpAndDown DEF Balance
  <2>6. GaugeRight(t) /\ TotalsRight(t)
    BY DEF Counted
  <2>. QED
    BY <2>2, <2>3, <2>5, <2>6, CongruentIsRemainder DEF GaugeRight, TotalsRight
<1>. QED
  BY TypeCorrect, <1>1, <1>2, <1>3, PTL DEF Spec
-----------------------------------------------------------------------------
(* The aligner runs *)

Stages == {"idle", "writing", "aligning", "extracting", "stitching", "joining", "measuring", "fitting"}
Samples == {Sample(film) : film \in Film} \cup {<<>>}

(* What a run holds, with its shifts, and what they were read off, from S. *)
RunsOver(S) ==
  [pc : Stages, tag : 0..MaxRuns, sample : Samples, elapsed : Nat, left : Nat, busy : SUBSET Batch,
   broken : BOOLEAN, step : Step, measured : Seq(S), heard : Seq(S)]

(* A number that was given out by process e, which has given out s, or before. *)
Given(id, e, s) == id \in Id /\ id[1] <= e /\ (id[1] = e => id[2] < s)

StateTyped ==
  /\ epoch \in 0..MaxRestarts /\ seq \in Nat /\ begun \in 0..MaxRuns /\ losses \in 0..MaxLosses
  /\ seq <= begun
  /\ \E S : run \in [Run -> RunsOver(S)]
  /\ DOMAIN scratch \subseteq Path
  /\ \A p \in DOMAIN scratch : scratch[p] \in File
  /\ doomed # None => doomed.path \in Path

(* Every run of a process has a number of its own, and a file is where its  *)
(* owner's number says.  No file, nor what the sweep is about to unlink,    *)
(* has a number that is still to be given out, and the latter has no live   *)
(* run's.                                                                   *)
Numbered ==
  /\ \A r \in Run : Active(r) => run[r].tag < seq
  /\ \A r, q \in Run : Active(r) /\ Active(q) /\ run[r].tag = run[q].tag => r = q
  /\ \A p \in DOMAIN scratch : Given(scratch[p].by, epoch, seq) /\ scratch[p].by[2] = p[1]
  /\ doomed # None => Given(doomed.by, epoch, seq)
  /\ doomed # None => \A r \in Run : Active(r) => doomed.by # Me(r)

(* How much a run can have measured when it comes to a step.                *)
MeasuredBefore(step) ==
  CASE step \in {"fast-1", "pair-0"} -> 1 [] step = "pair-1" -> 2 [] OTHER -> 0

(* The files a run can have at the place it is at.                          *)
Kinds(r) ==
  LET stitched == IF run[r].step \in Composite THEN {"sound"} ELSE {} IN
  CASE run[r].pc = "writing" -> {"target"}
    [] run[r].pc = "aligning" -> {"target", "reference", "synced"}
    [] run[r].pc = "joining" -> {"sound"}
    [] run[r].pc = "measuring" -> stitched
    [] run[r].pc = "fitting" -> {"target", "synced"} \cup stitched
    [] OTHER -> {}
Holdings(r) == Files(r, run[r].step, Kinds(r)) \cup (IF TierOf[r] = "tier2" THEN Sounds(r) ELSE {})

(* A run is at a step its tier and its place allow, has measured no more    *)
(* than the steps before it can, and has a clock and a rest that make up    *)
(* its budget.  Its files are those of its place, none older than it is.    *)
Place(r) ==
  /\ run[r].pc = "idle" => run[r] = Idle
  /\ run[r].pc \in {"writing", "aligning"} => TierOf[r] = "tier1" /\ run[r].step = "tier1"
  /\ run[r].pc \in {"extracting", "stitching", "joining", "measuring", "fitting"} => TierOf[r] = "tier2"
  /\ run[r].pc = "writing" => run[r].elapsed = 0
  /\ run[r].pc = "extracting" => run[r].step \in {"tier1", "full"}
  /\ run[r].pc \in {"stitching", "joining"} => run[r].step \in Composite
  /\ run[r].pc \in {"measuring", "fitting"} => run[r].step # "tier1"
  /\ run[r].busy # {} => run[r].pc = "extracting"
  /\ Len(run[r].measured) = Len(run[r].heard)
  /\ Len(run[r].heard) <= MeasuredBefore(run[r].step)
  /\ run[r].elapsed + run[r].left <= BudgetOf(r)

Own(r) ==
  Active(r) => \A p \in DOMAIN scratch :
    scratch[p].by = Me(r) => p \in Holdings(r) /\ scratch[p].age <= run[r].elapsed

RunsInv ==
  /\ StateTyped
  /\ Numbered
  /\ \A r \in Run : Place(r) /\ Own(r)

-----------------------------------------------------------------------------
LEMMA AlignerNumbers ==
  /\ {TotalBudget, FastBudget, FallbackBudget, AlignBudget, Tier1Budget, Abandoned} \subseteq Nat \ {0}
  /\ FinishReserve \in Nat /\ MaxRuns \in Nat /\ MaxRestarts \in Nat /\ MaxLosses \in Nat
  /\ Abandoned > TotalBudget /\ Abandoned > Tier1Budget
  /\ TierOf \in [Run -> {"tier1", "tier2"}]
  /\ \A r \in Run : BudgetOf(r) \in Nat /\ BudgetOf(r) < Abandoned
BY AlignerAssumption DEF BudgetOf

(* What is left of a budget is a number, and within it.                     *)
LEMMA BudgetsFit ==
  ASSUME NEW e \in Nat, NEW cap \in Nat, e <= TotalBudget
  PROVE  /\ ExtractionBudget(e, cap) \in Nat
         /\ e + ExtractionBudget(e, cap) <= TotalBudget
         /\ Smaller(cap, AtLeastZero(TotalBudget - e)) \in Nat
         /\ e + Smaller(cap, AtLeastZero(TotalBudget - e)) <= TotalBudget
BY AlignerNumbers DEF ExtractionBudget, Smaller, AtLeastZero

(* A directory that came of another by removing files, and by writing some  *)
(* of one owner under its number.                                           *)
Writes(old, new, id) ==
  \A p \in DOMAIN new :
    \/ p \in DOMAIN old /\ new[p] = old[p]
    \/ new[p] = [by |-> id, age |-> 0] /\ p \in Path /\ p[1] = id[2]

LEMMA WritesNothing == ASSUME NEW old, NEW id PROVE Writes(old, old, id)
BY DEF Writes

LEMMA WritesWith ==
  ASSUME NEW old, NEW new, NEW id, Writes(old, new, id), NEW paths \in SUBSET Path,
         \A p \in paths : p[1] = id[2]
  PROVE  Writes(old, With(new, paths, id), id)
BY DEF Writes, With

LEMMA WritesWithout ==
  ASSUME NEW old, NEW new, NEW id, Writes(old, new, id), NEW paths
  PROVE  Writes(old, Without(new, paths), id)
BY DEF Writes, Without, Restrict

LEMMA FileIsPath ==
  ASSUME NEW r \in Run, run[r].tag \in 0..MaxRuns, NEW step \in Step \cup Batch, NEW kinds \in SUBSET Kind
  PROVE  Files(r, step, kinds) \in SUBSET Path /\ \A p \in Files(r, step, kinds) : p[1] = Me(r)[2]
BY DEF Files, File3, Tag, Path, Me

LEMMA SoundsArePaths ==
  ASSUME NEW r \in Run, run[r].tag \in 0..MaxRuns
  PROVE  Sounds(r) \in SUBSET Path /\ \A p \in Sounds(r) : p[1] = Me(r)[2]
BY DEF Sounds, File3, Tag, Path, Me, Batch, Kind

LEMMA GivenStaysGiven ==
  ASSUME NEW e, NEW s \in Nat, NEW t \in Nat, s <= t, NEW id, Given(id, e, s)
  PROVE  Given(id, e, t)
BY DEF Given, Id

(* A run takes a step under its number n: what the others hold is not touched. *)
LEMMA OthersKeep ==
  ASSUME RunsInv, NEW r \in Run, NEW n, epoch' = epoch,
         \A q \in Run \ {r} : run'[q] = run[q] /\ (Active(q) => run[q].tag # n),
         Writes(scratch, scratch', <<epoch, n>>)
  PROVE  \A q \in Run \ {r} : Place(q)' /\ Own(q)'
<1>. SUFFICES ASSUME NEW q \in Run \ {r} PROVE Place(q)' /\ Own(q)'
  OBVIOUS
<1>1. run'[q] = run[q] /\ Place(q) /\ Own(q)
  BY DEF RunsInv
<1>2. Place(q)'
  BY <1>1 DEF Place, BudgetOf
<1>3. Me(q)' = Me(q) /\ Holdings(q)' = Holdings(q) /\ (Active(q)' <=> Active(q))
  BY <1>1 DEF Me, Active, Holdings, Kinds, Files, File3, Sounds
<1>4. ASSUME Active(q)', NEW p \in DOMAIN scratch', scratch'[p].by = Me(q)'
      PROVE  p \in Holdings(q)' /\ scratch'[p].age <= run'[q].elapsed
  <2>1. Active(q) /\ run[q].tag # n
    BY <1>3, <1>4
  <2>2. scratch'[p] # [by |-> <<epoch, n>>, age |-> 0]
    BY <1>3, <1>4, <2>1 DEF Me
  <2>3. p \in DOMAIN scratch /\ scratch'[p] = scratch[p]
    BY <2>2 DEF Writes
  <2>. QED
    BY <1>1, <1>3, <1>4, <2>1, <2>3 DEF Own
<1>. QED
  BY <1>2, <1>4 DEF Own

LEMMA FilesKeep ==
  ASSUME RunsInv, epoch' = epoch, seq' \in Nat, seq <= seq', seq' <= MaxRuns,
         NEW n \in Nat, n < seq', Writes(scratch, scratch', <<epoch, n>>)
  PROVE  /\ DOMAIN scratch' \subseteq Path
         /\ \A p \in DOMAIN scratch' : /\ scratch'[p] \in File
                                       /\ Given(scratch'[p].by, epoch', seq') /\ scratch'[p].by[2] = p[1]
<1>. SUFFICES ASSUME NEW p \in DOMAIN scratch'
              PROVE  /\ p \in Path /\ scratch'[p] \in File
                     /\ Given(scratch'[p].by, epoch', seq') /\ scratch'[p].by[2] = p[1]
  OBVIOUS
<1>1. StateTyped /\ epoch \in 0..MaxRestarts
  BY DEF RunsInv, StateTyped
<1>2. CASE p \in DOMAIN scratch /\ scratch'[p] = scratch[p]
  <2>1. p \in Path /\ scratch[p] \in File /\ Given(scratch[p].by, epoch, seq) /\ scratch[p].by[2] = p[1]
    BY <1>2 DEF RunsInv, StateTyped, Numbered
  <2>2. Given(scratch[p].by, epoch, seq')
    BY <1>1, <2>1, GivenStaysGiven DEF StateTyped
  <2>. QED
    BY <1>2, <2>1, <2>2
<1>3. CASE scratch'[p] = [by |-> <<epoch, n>>, age |-> 0] /\ p \in Path /\ p[1] = n
  <2>1. n \in 0..MaxRuns /\ <<epoch, n>> \in Id
    BY <1>1, AlignerNumbers DEF Id
  <2>2. [by |-> <<epoch, n>>, age |-> 0] \in File
    BY <2>1, AlignerNumbers DEF File
  <2>3. Given(scratch'[p].by, epoch', seq')
    BY <1>1, <1>3, <2>1 DEF Given
  <2>. QED
    BY <1>3, <2>2, <2>3
<1>. QED
  BY <1>2, <1>3 DEF Writes

LEMMA RunStep ==
  ASSUME RunsInv, NEW r \in Run, NEW n \in 0..MaxRuns, UNCHANGED <<epoch, doomed>>, losses' \in 0..MaxLosses,
         seq' \in Nat, seq <= seq', seq' <= begun', begun' \in 0..MaxRuns, n < seq',
         \A q \in Run \ {r} : Active(q) => run[q].tag # n,
         doomed # None => doomed.by # <<epoch, n>>,
         NEW S, run' \in [Run -> RunsOver(S)], \A q \in Run \ {r} : run'[q] = run[q],
         Active(r)' => run'[r].tag = n,
         Writes(scratch, scratch', <<epoch, n>>), Place(r)', Own(r)'
  PROVE  RunsInv'
<1>1. /\ DOMAIN scratch' \subseteq Path
      /\ \A p \in DOMAIN scratch' : /\ scratch'[p] \in File
                                    /\ Given(scratch'[p].by, epoch', seq') /\ scratch'[p].by[2] = p[1]
  <2>1. seq' <= MaxRuns
    BY AlignerNumbers
  <2>. QED
    BY <2>1, FilesKeep
<1>2. StateTyped'
  BY <1>1 DEF RunsInv, StateTyped
<1>3. Numbered'
  <2>1. ASSUME NEW q \in Run, Active(q)' PROVE run'[q].tag < seq'
    <3>1. CASE q = r
      BY <2>1, <3>1
    <3>2. CASE q # r
      <4>1. Active(q) /\ run'[q].tag = run[q].tag
        BY <2>1, <3>2 DEF Active
      <4>2. run[q].tag < seq /\ run[q].tag \in Nat /\ seq \in Nat
        BY <4>1 DEF RunsInv, Numbered, StateTyped, RunsOver
      <4>. QED
        BY <4>1, <4>2
    <3>. QED
      BY <3>1, <3>2
  <2>2. ASSUME NEW q \in Run, NEW x \in Run, Active(q)', Active(x)', run'[q].tag = run'[x].tag
        PROVE  q = x
    <3>1. \A y \in Run \ {r} : Active(y)' => Active(y) /\ run'[y].tag = run[y].tag /\ run[y].tag # n
      BY DEF Active
    <3>2. CASE q = r \/ x = r
      BY <2>2, <3>1, <3>2
    <3>3. CASE q # r /\ x # r
      BY <2>2, <3>1, <3>3 DEF RunsInv, Numbered
    <3>. QED
      BY <3>2, <3>3
  <2>3. doomed' # None => Given(doomed'.by, epoch', seq')
    <3>1. doomed # None => Given(doomed.by, epoch, seq) /\ doomed' = doomed /\ epoch' = epoch
      BY DEF RunsInv, Numbered
    <3>2. doomed # None => Given(doomed.by, epoch, seq')
      BY <3>1, GivenStaysGiven DEF RunsInv, StateTyped
    <3>. QED
      BY <3>1, <3>2
  <2>4. ASSUME doomed' # None, NEW q \in Run, Active(q)' PROVE doomed'.by # Me(q)'
    <3>1. CASE q = r
      BY <2>4, <3>1 DEF Me
    <3>2. CASE q # r
      <4>1. Active(q) /\ Me(q)' = Me(q)
        BY <2>4, <3>2 DEF Active, Me
      <4>. QED
        BY <2>4, <4>1 DEF RunsInv, Numbered
    <3>. QED
      BY <3>1, <3>2
  <2>. QED
    BY <1>1, <2>1, <2>2, <2>3, <2>4 DEF Numbered
<1>4. \A q \in Run : Place(q)' /\ Own(q)'
  BY OthersKeep
<1>. QED
  BY <1>2, <1>3, <1>4 DEF RunsInv

LEMMA IdleIsTyped == ASSUME NEW S PROVE Idle \in RunsOver(S)
BY AlignerNumbers DEF Idle, RunsOver, Stages, Samples, Step

(* A run at work takes a step, and is at work still.                        *)
LEMMA WorkStep ==
  ASSUME RunsInv, NEW r \in Run, Active(r), UNCHANGED <<epoch, seq, begun, losses, doomed>>,
         NEW S, run' \in [Run -> RunsOver(S)], \A q \in Run \ {r} : run'[q] = run[q],
         run'[r].tag = run[r].tag, run'[r].elapsed = run[r].elapsed,
         Writes(scratch, scratch', Me(r)), Place(r)',
         \A p \in DOMAIN scratch' : scratch'[p].by = Me(r) => p \in Holdings(r)'
  PROVE  RunsInv'
<1>. DEFINE n == run[r].tag
<1>1. n \in 0..MaxRuns /\ n < seq /\ run[r].elapsed \in Nat /\ losses' \in 0..MaxLosses
  BY DEF RunsInv, StateTyped, RunsOver, Numbered
<1>2. /\ \A q \in Run \ {r} : Active(q) => run[q].tag # n
      /\ doomed # None => doomed.by # <<epoch, n>>
  BY DEF RunsInv, Numbered, Me
<1>3. seq' \in Nat /\ seq <= seq' /\ seq' <= begun' /\ begun' \in 0..MaxRuns /\ n < seq'
  BY <1>1 DEF RunsInv, StateTyped
<1>4. Own(r)'
  <2>. SUFFICES ASSUME NEW p \in DOMAIN scratch', scratch'[p].by = Me(r)'
                PROVE  p \in Holdings(r)' /\ scratch'[p].age <= run'[r].elapsed
    BY DEF Own
  <2>1. Me(r)' = Me(r)
    BY DEF Me
  <2>2. CASE p \in DOMAIN scratch /\ scratch'[p] = scratch[p]
    BY <2>1, <2>2 DEF RunsInv, Own
  <2>3. CASE scratch'[p] = [by |-> Me(r), age |-> 0]
    BY <1>1, <2>1, <2>3
  <2>. QED
    BY <2>2, <2>3 DEF Writes
<1>5. Writes(scratch, scratch', <<epoch, n>>)
  BY DEF Me
<1>6. Active(r)' => run'[r].tag = n
  OBVIOUS
<1>. HIDE DEF n
<1>. QED
  BY <1>1, <1>2, <1>3, <1>4, <1>5, <1>6, RunStep

(* A run returns, or is dropped.                                            *)
LEMMA EndStep ==
  ASSUME RunsInv, NEW r \in Run, Active(r), UNCHANGED <<epoch, seq, begun, doomed>>,
         losses' \in 0..MaxLosses,
         run' = [run EXCEPT ![r] = Idle], Writes(scratch, scratch', Me(r))
  PROVE  RunsInv'
<1>. DEFINE n == run[r].tag
<1>1. n \in 0..MaxRuns /\ n < seq
  BY DEF RunsInv, StateTyped, RunsOver, Numbered
<1>2. /\ \A q \in Run \ {r} : Active(q) => run[q].tag # n
      /\ doomed # None => doomed.by # <<epoch, n>>
  BY DEF RunsInv, Numbered, Me
<1>3. seq' \in Nat /\ seq <= seq' /\ seq' <= begun' /\ begun' \in 0..MaxRuns /\ n < seq'
  BY <1>1 DEF RunsInv, StateTyped
<1>4. PICK S : run \in [Run -> RunsOver(S)]
  BY DEF RunsInv, StateTyped
<1>5. run' \in [Run -> RunsOver(S)] /\ run'[r] = Idle /\ \A q \in Run \ {r} : run'[q] = run[q]
  BY <1>4, IdleIsTyped
<1>6. ~Active(r)'
  BY <1>5 DEF Active, Idle
<1>7. Place(r)' /\ Own(r)'
  <2>1. Len(<<>>) = 0 /\ BudgetOf(r) \in Nat
    BY AlignerNumbers
  <2>2. Place(r)'
    BY <1>5, <2>1 DEF Place, Idle, MeasuredBefore, BudgetOf
  <2>. QED
    BY <1>6, <2>2 DEF Own
<1>8. Writes(scratch, scratch', <<epoch, n>>)
  BY DEF Me
<1>. HIDE DEF n
<1>. QED
  BY <1>1, <1>2, <1>3, <1>5, <1>6, <1>7, <1>8, RunStep

(* What a run answers with: itself, with nothing of its own left behind.    *)
Answers(r, files) ==
  /\ run' = [run EXCEPT ![r] = Idle]
  /\ reply'.who = Me(r) /\ (reply'.end = "aligned" => reply'.from = Me(r))
  /\ \A p \in DOMAIN files : files[p].by # Me(r)

Replied == ReturnsClean /\ HandsOutItsOwn

LEMMA SilenceIsReplied == Quiet => Replied'
BY DEF Quiet, Silence, Replied, ReturnsClean, HandsOutItsOwn

LEMMA AnswerIsReplied ==
  ASSUME NEW r, Answers(r, scratch')
  PROVE  Replied'
BY DEF Answers, Replied, ReturnsClean, HandsOutItsOwn

(* What both tiers do first: take the next number.                          *)
LEMMA NextNumber ==
  ASSUME RunsInv, begun < MaxRuns
  PROVE  /\ losses \in 0..MaxLosses
         /\ seq \in 0..MaxRuns /\ seq + 1 \in Nat /\ seq <= seq + 1 /\ seq < seq + 1
         /\ begun + 1 \in 0..MaxRuns /\ seq + 1 <= begun + 1
         /\ \A q \in Run : Active(q) => run[q].tag # seq
         /\ doomed # None => doomed.by # <<epoch, seq>>
         /\ \A p \in DOMAIN scratch : scratch[p].by # <<epoch, seq>>
<1>1. seq \in Nat /\ begun \in 0..MaxRuns /\ seq <= begun /\ losses \in 0..MaxLosses
  BY DEF RunsInv, StateTyped
<1>2. \A q \in Run : Active(q) => run[q].tag # seq
  BY <1>1 DEF RunsInv, Numbered
<1>3. ~Given(<<epoch, seq>>, epoch, seq)
  BY <1>1 DEF Given
<1>. QED
  BY <1>1, <1>2, <1>3, AlignerNumbers DEF RunsInv, Numbered

LEMMA RefusedStart ==
  ASSUME RunsInv, NEW r \in Run, ~Active(r), begun < MaxRuns, seq' = seq + 1, begun' = begun + 1,
         run' = run, reply' = Failed(<<epoch, seq>>), scratch' = scratch,
         UNCHANGED <<epoch, losses, doomed>>
  PROVE  RunsInv' /\ Replied'
<1>1. Replied'
  BY NextNumber DEF Replied, ReturnsClean, HandsOutItsOwn, Failed, Silence
<1>2. PICK S : run' \in [Run -> RunsOver(S)]
  BY DEF RunsInv, StateTyped
<1>3. Writes(scratch, scratch', <<epoch, seq>>)
  BY WritesNothing
<1>4. Place(r)' /\ Own(r)' /\ ~Active(r)'
  BY DEF RunsInv, Place, Own, Active, BudgetOf
<1>. QED
  BY <1>1, <1>2, <1>3, <1>4, NextNumber, RunStep

(* A run gets under way with its first file.                                *)
LEMMA FirstStep ==
  ASSUME RunsInv, NEW r \in Run, begun < MaxRuns, seq' = seq + 1, begun' = begun + 1,
         NEW S, run' \in [Run -> RunsOver(S)], \A q \in Run \ {r} : run'[q] = run[q],
         run'[r].tag = seq, run'[r].elapsed = 0, Place(r)',
         NEW path \in Path, path[1] = seq, path \in Holdings(r)',
         scratch' = With(scratch, {path}, <<epoch, seq>>), Quiet,
         UNCHANGED <<epoch, losses, doomed>>
  PROVE  RunsInv' /\ Replied'
<1>. DEFINE id == <<epoch, seq>>
<1>1. Writes(scratch, scratch', id)
  <2>1. {path} \in SUBSET Path /\ \A p \in {path} : p[1] = id[2]
    OBVIOUS
  <2>. QED
    BY <2>1, WritesNothing, WritesWith
<1>2. Own(r)'
  <2>1. Me(r)' = id
    BY DEF Me
  <2>2. ASSUME NEW p \in DOMAIN scratch', scratch'[p].by = id
        PROVE  p \in Holdings(r)' /\ scratch'[p].age <= 0
    <3>1. CASE p = path
      <4>1. scratch'[p] = [by |-> id, age |-> 0]
        BY <3>1 DEF With
      <4>. QED
        BY <3>1, <4>1
    <3>2. CASE p # path
      <4>1. p \in DOMAIN scratch /\ scratch'[p] = scratch[p]
        BY <2>2, <3>2 DEF With
      <4>. QED
        BY <2>2, <4>1, NextNumber
    <3>. QED
      BY <3>1, <3>2
  <2>. QED
    BY <2>1, <2>2 DEF Own
<1>3. Replied'
  BY SilenceIsReplied
<1>. HIDE DEF id
<1>. QED
  BY <1>1, <1>2, <1>3, NextNumber, RunStep DEF id

LEMMA StartReferenceKeeps ==
  ASSUME RunsInv, NEW r \in Run, StartReference(r)
  PROVE  RunsInv' /\ Replied'
<1>1. /\ ~Active(r) /\ TierOf[r] = "tier1" /\ begun < MaxRuns
      /\ seq' = seq + 1 /\ begun' = begun + 1 /\ UNCHANGED <<epoch, losses, doomed>>
  BY DEF StartReference
<1>2. CASE run' = run /\ reply' = Failed(<<epoch, seq>>) /\ scratch' = scratch
  BY <1>1, <1>2, RefusedStart
<1>3. CASE /\ run' = [run EXCEPT ![r].pc = "writing", ![r].tag = seq]
           /\ scratch' = With(scratch, {<<Tag(seq), "tier1", "target">>}, <<epoch, seq>>)
           /\ Quiet
  <2>1. PICK S : run \in [Run -> RunsOver(S)]
    BY DEF RunsInv, StateTyped
  <2>2. run[r] = Idle
    BY <1>1 DEF RunsInv, Place, Active
  <2>3. seq \in 0..MaxRuns
    BY <1>1, NextNumber
  <2>4. run' \in [Run -> RunsOver(S)] /\ \A q \in Run \ {r} : run'[q] = run[q]
    BY <1>3, <2>1, <2>3 DEF RunsOver, Stages
  <2>5. run'[r] = [Idle EXCEPT !.pc = "writing", !.tag = seq]
    BY <1>3, <2>1, <2>2
  <2>6. /\ run'[r].pc = "writing" /\ run'[r].tag = seq /\ run'[r].elapsed = 0 /\ run'[r].left = 0
        /\ run'[r].step = "tier1" /\ run'[r].busy = {} /\ run'[r].measured = <<>> /\ run'[r].heard = <<>>
    BY <2>5 DEF Idle
  <2>7. Place(r)'
    <3>1. Len(<<>>) = 0 /\ BudgetOf(r) \in Nat
      BY AlignerNumbers
    <3>. QED
      BY <1>1, <2>6, <3>1 DEF Place, MeasuredBefore, BudgetOf
  <2>. DEFINE path == <<seq, "tier1", "target">>
  <2>8. path \in Path /\ path[1] = seq
    BY <2>3 DEF Path, Step, Kind
  <2>9. path \in Holdings(r)'
    BY <2>6 DEF Holdings, Kinds, Files, File3, Tag
  <2>10. scratch' = With(scratch, {path}, <<epoch, seq>>) /\ Quiet
    BY <1>3 DEF Tag
  <2>. HIDE DEF path
  <2>. QED
    BY <1>1, <2>4, <2>6, <2>7, <2>8, <2>9, <2>10, FirstStep
<1>. QED
  BY <1>2, <1>3 DEF StartReference

(* A run returns and removes what it has.                                   *)
LEMMA CleanEnd ==
  ASSUME RunsInv, NEW r \in Run, Active(r), UNCHANGED <<epoch, seq, begun, losses, doomed>>,
         run' = [run EXCEPT ![r] = Idle], NEW files, Writes(scratch, files, Me(r)), NEW all,
         \A p \in DOMAIN files : files[p].by = Me(r) => p \in all,
         scratch' = Without(files, all), reply'.who = Me(r)
  PROVE  RunsInv' /\ ReturnsClean'
<1>1. Writes(scratch, scratch', Me(r))
  BY WritesWithout
<1>2. RunsInv'
  <2>1. losses' \in 0..MaxLosses
    BY DEF RunsInv, StateTyped
  <2>. QED
    BY <1>1, <2>1, EndStep
<1>3. \A p \in DOMAIN scratch' : scratch'[p].by # Me(r)
  BY DEF Without, Restrict
<1>. QED
  BY <1>2, <1>3 DEF ReturnsClean

LEMMA FailedEnd ==
  ASSUME NEW r, Fails(r)
  PROVE  run' = [run EXCEPT ![r] = Idle] /\ reply'.who = Me(r) /\ HandsOutItsOwn'
BY DEF Fails, Ends, Failed, Silence, HandsOutItsOwn

(* A run at work writes files it may have where it goes.                    *)
LEMMA HeldAfterWriting ==
  ASSUME NEW id, NEW files, NEW held, \A p \in DOMAIN files : files[p].by = id => p \in held,
         NEW paths, scratch' = With(files, paths, id), NEW all, held \subseteq all, paths \subseteq all
  PROVE  \A p \in DOMAIN scratch' : scratch'[p].by = id => p \in all
BY DEF With

LEMMA HeldAfterRemoving ==
  ASSUME NEW id, NEW files, NEW held, \A p \in DOMAIN files : files[p].by = id => p \in held, NEW paths
  PROVE  \A p \in DOMAIN Without(files, paths) : Without(files, paths)[p].by = id => p \in held \ paths
BY DEF Without, Restrict

LEMMA HeldBefore ==
  ASSUME RunsInv, NEW r \in Run, Active(r)
  PROVE  \A p \in DOMAIN scratch : scratch[p].by = Me(r) => p \in Holdings(r)
BY DEF RunsInv, Own

LEMMA ReferenceFails ==
  ASSUME RunsInv, NEW r \in Run, run[r].pc = "writing", scratch' = AfterFailedWrite(scratch, r), Fails(r),
         UNCHANGED <<epoch, seq, begun, losses, doomed>>
  PROVE  RunsInv' /\ Replied'
<1>. DEFINE all == Files(r, "tier1", {"target"})
<1>1. Active(r) /\ TierOf[r] = "tier1" /\ run[r].step = "tier1"
  BY DEF RunsInv, Place, Active
<1>2. Holdings(r) \subseteq all
  BY <1>1 DEF Holdings, Kinds
<1>3. \A p \in DOMAIN scratch : scratch[p].by = Me(r) => p \in all
  BY <1>1, <1>2, HeldBefore
<1>4. scratch' = Without(scratch, all)
  BY DEF AfterFailedWrite
<1>5. Writes(scratch, scratch, Me(r))
  BY WritesNothing
<1>. HIDE DEF all
<1>6. RunsInv' /\ ReturnsClean'
  BY <1>1, <1>3, <1>4, <1>5, FailedEnd, CleanEnd
<1>. QED
  BY <1>6, FailedEnd DEF Replied

LEMMA WriteReferenceKeeps ==
  ASSUME RunsInv, NEW r \in Run, WriteReference(r)
  PROVE  RunsInv' /\ Replied'
<1>1. run[r].pc = "writing" /\ UNCHANGED <<epoch, seq, begun, losses, doomed>>
  BY DEF WriteReference
<1>2. /\ Active(r) /\ TierOf[r] = "tier1" /\ run[r].step = "tier1" /\ run[r].elapsed = 0
      /\ run[r].busy = {} /\ Len(run[r].measured) = Len(run[r].heard) /\ Len(run[r].heard) <= 0
  BY <1>1 DEF RunsInv, Place, Active, MeasuredBefore
<1>3. CASE scratch' = AfterFailedWrite(scratch, r) /\ Fails(r)
  BY <1>1, <1>3, ReferenceFails
<1>4. ASSUME run' = [run EXCEPT ![r].pc = "aligning", ![r].left = Tier1Budget],
             NEW made \in SUBSET {"synced"},
             scratch' = With(scratch, Files(r, "tier1", {"reference"} \cup made), Me(r)), Quiet
      PROVE  RunsInv' /\ Replied'
  <2>1. PICK S : run \in [Run -> RunsOver(S)]
    BY DEF RunsInv, StateTyped
  <2>2. Tier1Budget \in Nat /\ BudgetOf(r) = Tier1Budget
    BY <1>2, AlignerNumbers DEF BudgetOf
  <2>3. run' \in [Run -> RunsOver(S)] /\ \A q \in Run \ {r} : run'[q] = run[q]
    <3>1. [run[r] EXCEPT !.pc = "aligning", !.left = Tier1Budget] \in RunsOver(S)
      BY <2>1, <2>2 DEF RunsOver, Stages
    <3>. QED
      BY <1>4, <2>1, <3>1
  <2>4. run'[r] = [run[r] EXCEPT !.pc = "aligning", !.left = Tier1Budget] /\ run[r] \in RunsOver(S)
    BY <1>4, <2>1
  <2>5. /\ run'[r].pc = "aligning" /\ run'[r].tag = run[r].tag /\ run'[r].elapsed = run[r].elapsed
        /\ run'[r].left = Tier1Budget /\ run'[r].step = run[r].step /\ run'[r].busy = run[r].busy
        /\ run'[r].measured = run[r].measured /\ run'[r].heard = run[r].heard
    BY <2>4 DEF RunsOver
  <2>6. Place(r)'
    BY <1>2, <2>2, <2>5 DEF Place, MeasuredBefore, BudgetOf
  <2>. DEFINE paths == Files(r, "tier1", {"reference"} \cup made)
              held == Files(r, "tier1", {"target"})
              all == Holdings(r)'
  <2>7. paths \in SUBSET Path /\ \A p \in paths : p[1] = Me(r)[2]
    <3>1. run[r].tag \in 0..MaxRuns /\ {"reference"} \cup made \in SUBSET Kind /\ "tier1" \in Step \cup Batch
      BY <2>1 DEF RunsOver, Kind, Step
    <3>. QED
      BY <3>1, FileIsPath
  <2>8. Writes(scratch, scratch', Me(r))
    <3>. HIDE DEF paths
    <3>. QED
      BY <1>4, <2>7, WritesNothing, WritesWith DEF paths
  <2>9. \A p \in DOMAIN scratch : scratch[p].by = Me(r) => p \in held
    BY <1>1, <1>2, HeldBefore DEF Holdings, Kinds
  <2>10. paths \subseteq all /\ held \subseteq all
    BY <1>2, <2>5 DEF Holdings, Kinds, Files, File3
  <2>11. \A p \in DOMAIN scratch' : scratch'[p].by = Me(r) => p \in Holdings(r)'
    <3>1. scratch' = With(scratch, paths, Me(r))
      BY <1>4
    <3>. HIDE DEF paths, held
    <3>. QED
      BY <2>9, <2>10, <3>1, HeldAfterWriting
  <2>12. RunsInv'
    BY <1>1, <1>2, <2>3, <2>5, <2>6, <2>8, <2>11, WorkStep
  <2>. QED
    BY <1>4, <2>12, SilenceIsReplied
<1>. QED
  BY <1>3, <1>4 DEF WriteReference

LEMMA FinishReferenceKeeps ==
  ASSUME RunsInv, NEW r \in Run, FinishReference(r)
  PROVE  RunsInv' /\ Replied'
<1>. DEFINE all == Files(r, "tier1", {"target", "reference", "synced"})
            out == File3(r, "tier1", "synced")
<1>1. run[r].pc = "aligning" /\ UNCHANGED <<epoch, seq, begun, losses, doomed>>
      /\ scratch' = Without(scratch, all)
  BY DEF FinishReference
<1>2. Active(r) /\ TierOf[r] = "tier1" /\ run[r].step = "tier1"
  BY <1>1 DEF RunsInv, Place, Active
<1>3. \A p \in DOMAIN scratch : scratch[p].by = Me(r) => p \in all
  BY <1>1, <1>2, HeldBefore DEF Holdings, Kinds
<1>4. Writes(scratch, scratch, Me(r))
  BY WritesNothing
<1>5. run' = [run EXCEPT ![r] = Idle] /\ reply'.who = Me(r)
  BY DEF FinishReference, Fails, Ends, Failed, Aligned, Silence
<1>6. HandsOutItsOwn'
  <2>1. ASSUME out \in DOMAIN scratch, scratch[out].by # Me(r) PROVE scratch[out].by[1] # epoch
    <3>1. scratch[out].by \in Id /\ scratch[out].by[2] = out[1]
      BY <2>1 DEF RunsInv, Numbered, Given
    <3>2. out[1] = run[r].tag
      BY DEF File3, Tag
    <3>. QED
      BY <2>1, <3>1, <3>2 DEF Id, Me
  <2>2. \/ reply'.end = "failed" \/ reply'.from = Me(r)
        \/ out \in DOMAIN scratch /\ scratch[out].by # Me(r) /\ reply'.from = scratch[out].by
    BY DEF FinishReference, Fails, Ends, Failed, Aligned, Silence
  <2>. QED
    BY <1>1, <1>5, <2>1, <2>2 DEF HandsOutItsOwn
<1>. HIDE DEF all
<1>7. RunsInv' /\ ReturnsClean'
  BY <1>1, <1>2, <1>3, <1>4, <1>5, CleanEnd
<1>. QED
  BY <1>6, <1>7 DEF Replied

LEMMA StartAudioKeeps ==
  ASSUME RunsInv, NEW r \in Run, StartAudio(r)
  PROVE  RunsInv' /\ Replied'
<1>1. /\ ~Active(r) /\ TierOf[r] = "tier2" /\ begun < MaxRuns
      /\ seq' = seq + 1 /\ begun' = begun + 1 /\ UNCHANGED <<epoch, losses, doomed>>
  BY DEF StartAudio
<1>2. CASE run' = run /\ reply' = Failed(<<epoch, seq>>) /\ scratch' = scratch
  BY <1>1, <1>2, RefusedStart
<1>3. ASSUME NEW film \in Film,
             run' = [run EXCEPT ![r].pc = "extracting", ![r].tag = seq, ![r].sample = Sample(film),
                                ![r].busy = {"batch-0"}, ![r].left = ExtractionBudget(0, FastBudget)],
             scratch' = With(scratch, {<<Tag(seq), "batch-0", "sound">>}, <<epoch, seq>>), Quiet
      PROVE  RunsInv' /\ Replied'
  <2>. DEFINE sample == Sample(film)
              left == ExtractionBudget(0, FastBudget)
              busy == {"batch-0"}
  <2>1. PICK S : run \in [Run -> RunsOver(S)]
    BY DEF RunsInv, StateTyped
  <2>2. run[r] = Idle
    BY <1>1 DEF RunsInv, Place, Active
  <2>3. seq \in 0..MaxRuns
    BY <1>1, NextNumber
  <2>4. sample \in Samples /\ busy \in SUBSET Batch
    BY DEF Samples, Batch
  <2>5. left \in Nat /\ left <= TotalBudget /\ TotalBudget \in Nat
    <3>1. 0 \in Nat /\ FastBudget \in Nat /\ TotalBudget \in Nat /\ 0 <= TotalBudget
      BY AlignerNumbers
    <3>. DEFINE zero == 0
    <3>2. zero \in Nat /\ zero <= TotalBudget /\ zero = 0
      BY <3>1
    <3>. HIDE DEF zero
    <3>3. ExtractionBudget(zero, FastBudget) \in Nat
          /\ zero + ExtractionBudget(zero, FastBudget) <= TotalBudget
      BY <3>1, <3>2, BudgetsFit
    <3>. QED
      BY <3>1, <3>2, <3>3
  <2>6. run' = [run EXCEPT ![r].pc = "extracting", ![r].tag = seq, ![r].sample = sample,
                           ![r].busy = busy, ![r].left = left]
    BY <1>3
  <2>. HIDE DEF sample, left, busy
  <2>7. [run[r] EXCEPT !.pc = "extracting", !.tag = seq, !.sample = sample, !.busy = busy, !.left = left]
          \in RunsOver(S)
    BY <2>1, <2>3, <2>4, <2>5 DEF RunsOver, Stages
  <2>8. run' \in [Run -> RunsOver(S)] /\ \A q \in Run \ {r} : run'[q] = run[q]
    BY <2>1, <2>6, <2>7
  <2>9. run'[r] = [Idle EXCEPT !.pc = "extracting", !.tag = seq, !.sample = sample, !.busy = busy,
                               !.left = left]
    BY <2>1, <2>2, <2>6
  <2>10. /\ run'[r].pc = "extracting" /\ run'[r].tag = seq /\ run'[r].elapsed = 0 /\ run'[r].left = left
         /\ run'[r].step = "tier1" /\ run'[r].measured = <<>> /\ run'[r].heard = <<>>
    BY <2>9 DEF Idle
  <2>11. Place(r)'
    <3>1. Len(<<>>) = 0 /\ BudgetOf(r) = TotalBudget
      BY <1>1 DEF BudgetOf
    <3>. QED
      BY <1>1, <2>5, <2>10, <3>1 DEF Place, MeasuredBefore, BudgetOf
  <2>. DEFINE path == <<seq, "batch-0", "sound">>
  <2>12. path \in Path /\ path[1] = seq
    BY <2>3 DEF Path, Batch, Kind
  <2>13. path \in Holdings(r)'
    BY <1>1, <2>10 DEF Holdings, Sounds, File3, Tag, Batch
  <2>14. scratch' = With(scratch, {path}, <<epoch, seq>>) /\ Quiet
    BY <1>3 DEF Tag
  <2>. HIDE DEF path
  <2>. QED
    BY <1>1, <2>8, <2>10, <2>11, <2>12, <2>13, <2>14, FirstStep
<1>. QED
  BY <1>2, <1>3 DEF StartAudio

(* While it extracts, a run has sounds.                                     *)
LEMMA ExtractingHolds ==
  ASSUME RunsInv, NEW r \in Run, run[r].pc \in {"extracting", "stitching"}
  PROVE  /\ Active(r) /\ TierOf[r] = "tier2"
         /\ \A p \in DOMAIN scratch : scratch[p].by = Me(r) => p \in Sounds(r)
<1>1. Active(r) /\ TierOf[r] = "tier2"
  BY DEF RunsInv, Place, Active
<1>2. Holdings(r) \subseteq Sounds(r)
  BY <1>1 DEF Holdings, Kinds, Files
<1>. QED
  BY <1>1, <1>2, HeldBefore

LEMMA ExtractionKeeps ==
  ASSUME RunsInv, NEW r \in Run, NEW b \in Batch, Extracted(r, b) \/ NotExtracted(r, b)
  PROVE  RunsInv' /\ Replied'
<1>1. run[r].pc = "extracting" /\ Quiet /\ UNCHANGED <<epoch, seq, begun, losses, doomed>>
  BY DEF Extracted, NotExtracted
<1>2. Active(r) /\ TierOf[r] = "tier2" /\ Place(r)
      /\ \A p \in DOMAIN scratch : scratch[p].by = Me(r) => p \in Sounds(r)
  BY <1>1, ExtractingHolds DEF RunsInv
<1>3. PICK S : run \in [Run -> RunsOver(S)]
  BY DEF RunsInv, StateTyped
<1>. DEFINE busy == run[r].busy \ {b}
<1>4. PICK broken \in BOOLEAN : run' = [run EXCEPT ![r].busy = busy, ![r].broken = broken]
  <2>1. CASE Extracted(r, b)
    <3>1. run[r].broken \in BOOLEAN
      BY <1>3 DEF RunsOver
    <3>2. run' = [run EXCEPT ![r].busy = busy, ![r].broken = run[r].broken]
      BY <1>3, <2>1 DEF Extracted, RunsOver
    <3>. QED
      BY <3>1, <3>2
  <2>2. CASE NotExtracted(r, b)
    <3>1. TRUE \in BOOLEAN /\ run' = [run EXCEPT ![r].busy = busy, ![r].broken = TRUE]
      BY <2>2 DEF NotExtracted
    <3>. QED
      BY <3>1
  <2>. QED
    BY <2>1, <2>2
<1>5. busy \in SUBSET Batch
  BY <1>3 DEF RunsOver
<1>. HIDE DEF busy
<1>6. [run[r] EXCEPT !.busy = busy, !.broken = broken] \in RunsOver(S)
  BY <1>3, <1>5 DEF RunsOver
<1>7. run' \in [Run -> RunsOver(S)] /\ \A q \in Run \ {r} : run'[q] = run[q]
  BY <1>3, <1>4, <1>6
<1>8. run'[r] = [run[r] EXCEPT !.busy = busy, !.broken = broken] /\ run[r] \in RunsOver(S)
  BY <1>3, <1>4
<1>9. /\ run'[r].pc = run[r].pc /\ run'[r].tag = run[r].tag /\ run'[r].elapsed = run[r].elapsed
      /\ run'[r].left = run[r].left /\ run'[r].step = run[r].step
      /\ run'[r].measured = run[r].measured /\ run'[r].heard = run[r].heard
  BY <1>8 DEF RunsOver
<1>10. Place(r)'
  BY <1>1, <1>2, <1>9 DEF Place, MeasuredBefore, BudgetOf
<1>11. Sounds(r) \subseteq Holdings(r)'
  BY <1>2, <1>9 DEF Holdings, Sounds, File3
<1>. DEFINE one == Files(r, b, {"sound"})
<1>12. one \subseteq Sounds(r)
  BY DEF Files, Sounds
<1>13. CASE scratch' = With(scratch, one, Me(r))
  <2>1. one \in SUBSET Path /\ \A p \in one : p[1] = Me(r)[2]
    BY <1>3, <1>12, SoundsArePaths DEF RunsOver
  <2>. HIDE DEF one
  <2>2. Writes(scratch, scratch', Me(r))
    BY <1>13, <2>1, WritesNothing, WritesWith
  <2>3. \A p \in DOMAIN scratch' : scratch'[p].by = Me(r) => p \in Sounds(r)
    BY <1>2, <1>12, <1>13, HeldAfterWriting
  <2>4. RunsInv'
    BY <1>1, <1>2, <1>7, <1>9, <1>10, <1>11, <2>2, <2>3, WorkStep
  <2>. QED
    BY <1>1, <2>4, SilenceIsReplied
<1>14. CASE scratch' = Without(scratch, one)
  <2>1. Writes(scratch, scratch', Me(r))
    BY <1>14, WritesNothing, WritesWithout
  <2>2. \A p \in DOMAIN scratch' : scratch'[p].by = Me(r) => p \in Sounds(r)
    BY <1>2, <1>14 DEF Without, Restrict
  <2>. HIDE DEF one
  <2>3. RunsInv'
    BY <1>1, <1>2, <1>7, <1>9, <1>10, <1>11, <2>1, <2>2, WorkStep
  <2>. QED
    BY <1>1, <2>3, SilenceIsReplied
<1>. QED
  BY <1>13, <1>14 DEF Extracted, NotExtracted

LEMMA ListenKeeps ==
  ASSUME RunsInv, NEW r \in Run, Listen(r)
  PROVE  RunsInv' /\ Replied'
<1>1. run[r].pc = "extracting" /\ run[r].busy = {} /\ UNCHANGED <<epoch, seq, begun, losses, doomed>>
  BY DEF Listen
<1>2. Active(r) /\ TierOf[r] = "tier2" /\ Place(r)
      /\ \A p \in DOMAIN scratch : scratch[p].by = Me(r) => p \in Sounds(r)
  BY <1>1, ExtractingHolds DEF RunsInv
<1>3. Writes(scratch, scratch, Me(r))
  BY WritesNothing
<1>4. CASE GivesUp(r, Sounds(r))
  <2>1. Fails(r) /\ scratch' = Without(scratch, Sounds(r))
    BY <1>4 DEF GivesUp
  <2>2. RunsInv' /\ ReturnsClean'
    BY <1>1, <1>2, <1>3, <2>1, FailedEnd, CleanEnd
  <2>. QED
    BY <2>1, <2>2, FailedEnd DEF Replied
<1>5. PICK S : run \in [Run -> RunsOver(S)]
  BY DEF RunsInv, StateTyped
<1>6. run[r].step \in {"tier1", "full"} /\ run[r].left \in Nat /\ run[r].elapsed \in Nat
      /\ run[r].elapsed + run[r].left <= BudgetOf(r) /\ BudgetOf(r) \in Nat
      /\ Len(run[r].measured) = Len(run[r].heard) /\ Len(run[r].heard) <= 0
  BY <1>1, <1>2, <1>5, AlignerNumbers DEF Place, RunsOver, MeasuredBefore
<1>7. ASSUME NEW at, NEW step, NEW left \in {0, run[r].left},
             <<at, step>> \in {<<"measuring", "fast-0">>, <<"stitching", "full">>},
             run' = [run EXCEPT ![r].pc = at, ![r].step = step, ![r].left = left],
             scratch' = scratch, Quiet
      PROVE  RunsInv' /\ Replied'
  <2>1. [run[r] EXCEPT !.pc = at, !.step = step, !.left = left] \in RunsOver(S)
    <3>1. at \in Stages /\ step \in Step /\ left \in Nat
      BY <1>6, <1>7 DEF Stages, Step
    <3>. QED
      BY <1>5, <3>1 DEF RunsOver
  <2>2. run' \in [Run -> RunsOver(S)] /\ \A q \in Run \ {r} : run'[q] = run[q]
    BY <1>5, <1>7, <2>1
  <2>3. run'[r] = [run[r] EXCEPT !.pc = at, !.step = step, !.left = left] /\ run[r] \in RunsOver(S)
    BY <1>5, <1>7
  <2>4. /\ run'[r].pc = at /\ run'[r].tag = run[r].tag /\ run'[r].elapsed = run[r].elapsed
        /\ run'[r].left = left /\ run'[r].step = step /\ run'[r].busy = run[r].busy
        /\ run'[r].measured = run[r].measured /\ run'[r].heard = run[r].heard
    BY <2>3 DEF RunsOver
  <2>5. Place(r)'
    <3>1. run[r].elapsed + left <= BudgetOf(r)
      BY <1>6, <1>7
    <3>. QED
      BY <1>1, <1>2, <1>6, <1>7, <2>4, <3>1 DEF Place, MeasuredBefore, BudgetOf, Composite
  <2>6. \A p \in DOMAIN scratch' : scratch'[p].by = Me(r) => p \in Holdings(r)'
    BY <1>2, <1>7, <2>4 DEF Holdings, Sounds, File3
  <2>7. RunsInv'
    BY <1>1, <1>2, <1>3, <1>7, <2>2, <2>4, <2>5, <2>6, WorkStep
  <2>. QED
    BY <1>7, <2>7, SilenceIsReplied
<1>8. CASE run' = [run EXCEPT ![r].pc = "measuring", ![r].step = "fast-0"] /\ scratch' = scratch /\ Quiet
  <2>1. run' = [run EXCEPT ![r].pc = "measuring", ![r].step = "fast-0", ![r].left = run[r].left]
    BY <1>5, <1>8 DEF RunsOver
  <2>. QED
    BY <1>7, <1>8, <2>1
<1>9. CASE run' = [run EXCEPT ![r].pc = "stitching", ![r].step = "full", ![r].left = 0]
           /\ scratch' = scratch /\ Quiet
  BY <1>7, <1>9
<1>. QED
  BY <1>4, <1>8, <1>9 DEF Listen

(* What follows a measurement, whose files are gone but for the sounds.     *)
Measuring(r, files) ==
  /\ run[r].pc \in {"stitching", "joining", "measuring", "fitting"}
  /\ UNCHANGED <<epoch, seq, begun, losses, doomed>>
  /\ Writes(scratch, files, Me(r))
  /\ \A p \in DOMAIN files : files[p].by = Me(r) => p \in Sounds(r)

LEMMA MeasuringPlace ==
  ASSUME RunsInv, NEW r \in Run, NEW files, Measuring(r, files)
  PROVE  /\ Active(r) /\ TierOf[r] = "tier2" /\ Place(r) /\ run[r].step # "tier1"
         /\ run[r].busy = {} /\ run[r].elapsed \in Nat /\ run[r].elapsed <= TotalBudget
         /\ run[r].tag \in 0..MaxRuns
<1>1. run[r].elapsed \in Nat /\ run[r].left \in Nat /\ run[r].tag \in 0..MaxRuns
  BY DEF RunsInv, StateTyped, RunsOver
<1>2. Active(r) /\ TierOf[r] = "tier2" /\ Place(r) /\ run[r].step # "tier1" /\ run[r].busy = {}
  BY DEF RunsInv, Measuring, Place, Active, Composite
<1>3. run[r].elapsed + run[r].left <= TotalBudget /\ TotalBudget \in Nat
  BY <1>2, AlignerNumbers DEF Place, BudgetOf
<1>. QED
  BY <1>1, <1>2, <1>3

LEMMA EndOfMeasuring ==
  ASSUME RunsInv, NEW r \in Run, NEW files, Measuring(r, files),
         run' = [run EXCEPT ![r] = Idle], scratch' = Without(files, Sounds(r)),
         reply'.who = Me(r), reply'.end = "failed" \/ reply'.from = Me(r)
  PROVE  RunsInv' /\ Replied'
<1>1. Active(r)
  BY MeasuringPlace
<1>2. RunsInv' /\ ReturnsClean'
  BY <1>1, CleanEnd DEF Measuring
<1>. QED
  BY <1>2 DEF Replied, HandsOutItsOwn

LEMMA MeasuringGoesOn ==
  ASSUME RunsInv, NEW r \in Run, NEW files, Measuring(r, files),
         NEW S, run \in [Run -> RunsOver(S)], NEW measured \in Seq(S), NEW heard \in Seq(S),
         Len(measured) = Len(heard), NEW at, NEW step,
         \/ at = "measuring" /\ step = "fast-1"
         \/ at = "stitching" /\ step \in {"pair-0", "pair-1"},
         Len(heard) <= MeasuredBefore(step),
         run' = [run EXCEPT ![r].pc = at, ![r].step = step, ![r].left = 0,
                            ![r].measured = measured, ![r].heard = heard],
         scratch' = files, Quiet
  PROVE  RunsInv' /\ Replied'
<1>. DEFINE zero == 0
<1>1. zero \in Nat /\ zero = 0
  OBVIOUS
<1>2. run' = [run EXCEPT ![r].pc = at, ![r].step = step, ![r].left = zero,
                         ![r].measured = measured, ![r].heard = heard]
  OBVIOUS
<1>. HIDE DEF zero
<1>3. at \in Stages /\ step \in Step
  BY DEF Stages, Step
<1>. DEFINE x == [run[r] EXCEPT !.pc = at, !.step = step, !.left = zero,
                                !.measured = measured, !.heard = heard]
<1>4. x \in RunsOver(S)
  BY <1>1, <1>3 DEF RunsOver
<1>5. run' \in [Run -> RunsOver(S)] /\ \A q \in Run \ {r} : run'[q] = run[q]
  <2>1. run' = [run EXCEPT ![r] = x]
    BY <1>2
  <2>2. run \in [Run -> RunsOver(S)]
    OBVIOUS
  <2>. HIDE DEF x
  <2>. QED
    BY ONLY <1>4, <2>1, <2>2, r \in Run
<1>6. run'[r] = x /\ run[r] \in RunsOver(S)
  BY <1>2
<1>7. /\ run'[r].pc = at /\ run'[r].tag = run[r].tag /\ run'[r].elapsed = run[r].elapsed
      /\ run'[r].left = 0 /\ run'[r].step = step /\ run'[r].busy = run[r].busy
      /\ run'[r].measured = measured /\ run'[r].heard = heard
  BY <1>1, <1>6 DEF RunsOver
<1>8. /\ Active(r) /\ TierOf[r] = "tier2" /\ run[r].busy = {}
      /\ run[r].elapsed \in Nat /\ run[r].elapsed <= TotalBudget
  BY MeasuringPlace
<1>9. Place(r)'
  BY <1>7, <1>8 DEF Place, BudgetOf, MeasuredBefore, Composite
<1>10. \A p \in DOMAIN scratch' : scratch'[p].by = Me(r) => p \in Holdings(r)'
  <2>1. Sounds(r) \subseteq Holdings(r)'
    BY <1>7, <1>8 DEF Holdings, Sounds, File3
  <2>. QED
    BY <2>1 DEF Measuring
<1>11. RunsInv'
  BY <1>5, <1>7, <1>8, <1>9, <1>10, WorkStep DEF Measuring
<1>. QED
  BY <1>11, SilenceIsReplied

LEMMA FallbackKeeps ==
  ASSUME RunsInv, NEW r \in Run, NEW files, Measuring(r, files), Fallback(r, files)
  PROVE  RunsInv' /\ Replied'
<1>. DEFINE budget == ExtractionBudget(run[r].elapsed, FallbackBudget)
            paths == {File3(r, b, "sound") : b \in {"batch-1", "batch-2"}}
            none == <<>>
            two == {"batch-1", "batch-2"}
<1>1. CASE Fails(r) /\ scratch' = Without(files, Sounds(r))
  <2>1. run' = [run EXCEPT ![r] = Idle] /\ reply'.who = Me(r) /\ reply'.end = "failed"
    BY <1>1 DEF Fails, Ends, Failed, Silence
  <2>. QED
    BY <1>1, <2>1, EndOfMeasuring
<1>2. CASE /\ run' = [run EXCEPT ![r].pc = "extracting", ![r].step = "full", ![r].busy = two,
                                 ![r].left = budget, ![r].measured = none, ![r].heard = none]
           /\ scratch' = With(files, paths, Me(r))
           /\ Quiet
  <2>1. PICK S : run \in [Run -> RunsOver(S)]
    BY DEF RunsInv, StateTyped
  <2>2. none \in Seq(S) /\ Len(none) = 0 /\ two \in SUBSET Batch
    BY DEF Batch
  <2>3. /\ Active(r) /\ TierOf[r] = "tier2" /\ run[r].tag \in 0..MaxRuns
        /\ run[r].elapsed \in Nat /\ run[r].elapsed <= TotalBudget
    BY MeasuringPlace
  <2>4. budget \in Nat /\ run[r].elapsed + budget <= TotalBudget
    <3>1. FallbackBudget \in Nat
      BY AlignerNumbers
    <3>. QED
      BY <2>3, <3>1, BudgetsFit
  <2>5. paths \subseteq Sounds(r)
    BY DEF Sounds, Batch
  <2>6. Writes(scratch, scratch', Me(r))
    <3>1. paths \in SUBSET Path /\ \A p \in paths : p[1] = Me(r)[2]
      BY <2>3, <2>5, SoundsArePaths
    <3>. HIDE DEF paths
    <3>. QED
      BY <1>2, <3>1, WritesWith DEF Measuring
  <2>7. \A p \in DOMAIN scratch' : scratch'[p].by = Me(r) => p \in Sounds(r)
    BY <1>2, <2>5 DEF Measuring, With
  <2>. HIDE DEF budget, none, two, paths
  <2>. DEFINE x == [run[r] EXCEPT !.pc = "extracting", !.step = "full", !.busy = two,
                                  !.left = budget, !.measured = none, !.heard = none]
  <2>8. x \in RunsOver(S)
    <3>1. "extracting" \in Stages /\ "full" \in Step
      BY DEF Stages, Step
    <3>. QED
      BY <2>1, <2>2, <2>4, <3>1 DEF RunsOver
  <2>9. run' \in [Run -> RunsOver(S)] /\ \A q \in Run \ {r} : run'[q] = run[q]
    BY <1>2, <2>1, <2>8
  <2>10. run'[r] = x /\ run[r] \in RunsOver(S)
    BY <1>2, <2>1
  <2>11. /\ run'[r].pc = "extracting" /\ run'[r].tag = run[r].tag /\ run'[r].elapsed = run[r].elapsed
         /\ run'[r].left = budget /\ run'[r].step = "full"
         /\ run'[r].measured = none /\ run'[r].heard = none
    BY <2>10 DEF RunsOver
  <2>12. Place(r)'
    BY <2>2, <2>3, <2>4, <2>11 DEF Place, BudgetOf, MeasuredBefore
  <2>13. Sounds(r) \subseteq Holdings(r)'
    BY <2>3, <2>11 DEF Holdings, Sounds, File3
  <2>14. RunsInv'
    BY <2>3, <2>6, <2>7, <2>9, <2>11, <2>12, <2>13, WorkStep DEF Measuring
  <2>. QED
    BY <1>2, <2>14, SilenceIsReplied
<1>. QED
  BY <1>1, <1>2 DEF Fallback

LEMMA AfterMeasuringKeeps ==
  ASSUME RunsInv, NEW r \in Run, NEW files, Measuring(r, files),
         NEW S, run \in [Run -> RunsOver(S)], NEW measured \in Seq(S), NEW heard \in Seq(S),
         Len(measured) = Len(heard), Len(heard) <= MeasuredBefore(run[r].step) + 1,
         AfterMeasuring(r, files, measured, heard)
  PROVE  RunsInv' /\ Replied'
<1>. DEFINE found == Consensus(measured)
            On(at, to) ==
              /\ run' = [run EXCEPT ![r].pc = at, ![r].step = to, ![r].left = 0,
                                    ![r].measured = measured, ![r].heard = heard]
              /\ scratch' = files /\ Quiet
            Settled ==
              /\ Ends(r, [Aligned(Me(r), Me(r)) EXCEPT !.shift = found, !.heard = heard])
              /\ scratch' = Without(files, Sounds(r))
            Unconfirmed == Fails(r) /\ scratch' = Without(files, Sounds(r))
            step == run[r].step
<1>1. step \in {"fast-0", "fast-1", "full", "pair-0", "pair-1"}
  <2>1. step # "tier1" /\ step \in Step
    BY MeasuringPlace DEF RunsOver
  <2>. QED
    BY <2>1 DEF Step
<1>2. CASE Settled \/ Unconfirmed
  <2>1. run' = [run EXCEPT ![r] = Idle] /\ scratch' = Without(files, Sounds(r))
        /\ reply'.who = Me(r) /\ (reply'.end = "failed" \/ reply'.from = Me(r))
    BY <1>2 DEF Fails, Ends, Failed, Aligned, Silence
  <2>. QED
    BY <2>1, EndOfMeasuring
<1>3. CASE Fallback(r, files)
  BY <1>3, FallbackKeeps
<1>4. CASE step = "fast-0" /\ On("measuring", "fast-1")
  <2>1. Len(heard) <= MeasuredBefore("fast-1")
    BY <1>4 DEF MeasuredBefore
  <2>. QED
    BY <1>4, <2>1, MeasuringGoesOn
<1>5. CASE step = "full" /\ On("stitching", "pair-0")
  <2>1. Len(heard) <= MeasuredBefore("pair-0")
    BY <1>5 DEF MeasuredBefore
  <2>. QED
    BY <1>5, <2>1, MeasuringGoesOn
<1>6. CASE step = "pair-0" /\ On("stitching", "pair-1")
  <2>1. Len(heard) <= MeasuredBefore("pair-1")
    BY <1>6 DEF MeasuredBefore
  <2>. QED
    BY <1>6, <2>1, MeasuringGoesOn
<1>. HIDE DEF found
<1>. QED
  BY <1>1, <1>2, <1>3, <1>4, <1>5, <1>6, Zenon DEF AfterMeasuring, found

(* Removing all a run has but sounds is what precedes the next measurement. *)
LEMMA SoundsRemain ==
  ASSUME RunsInv, NEW r \in Run, run[r].pc \in {"stitching", "joining", "measuring", "fitting"},
         UNCHANGED <<epoch, seq, begun, losses, doomed>>, NEW paths, Holdings(r) \ paths \subseteq Sounds(r)
  PROVE  Measuring(r, Without(scratch, paths))
<1>. DEFINE held == Holdings(r)
            files == Without(scratch, paths)
<1>1. \A p \in DOMAIN scratch : scratch[p].by = Me(r) => p \in held
  BY HeldBefore DEF Active
<1>. HIDE DEF held
<1>2. \A p \in DOMAIN files : files[p].by = Me(r) => p \in held \ paths
  BY <1>1, HeldAfterRemoving
<1>3. \A p \in DOMAIN files : files[p].by = Me(r) => p \in Sounds(r)
  BY <1>2 DEF held
<1>4. Writes(scratch, files, Me(r))
  BY WritesNothing, WritesWithout
<1>. QED
  BY <1>3, <1>4 DEF Measuring

(* What it removes between two measurements is all but the sounds.          *)
LEMMA SoundsRemainOfAll ==
  ASSUME RunsInv, NEW r \in Run, UNCHANGED <<epoch, seq, begun, losses, doomed>>
  PROVE  /\ run[r].pc = "stitching" => Measuring(r, scratch)
         /\ run[r].pc = "joining" => Measuring(r, Without(scratch, Files(r, run[r].step, {"sound"})))
         /\ run[r].pc \in {"measuring", "fitting"} => Measuring(r, AfterMeasurement(scratch, r))
<1>1. CASE run[r].pc = "stitching"
  <2>1. Writes(scratch, scratch, Me(r))
    BY WritesNothing
  <2>. QED
    BY <1>1, <2>1, ExtractingHolds DEF Measuring
<1>2. CASE run[r].pc = "joining"
  <2>. DEFINE paths == Files(r, run[r].step, {"sound"})
  <2>1. Holdings(r) \ paths \subseteq Sounds(r)
    BY <1>2 DEF Holdings, Kinds
  <2>. HIDE DEF paths
  <2>2. Measuring(r, Without(scratch, paths))
    BY <1>2, <2>1, SoundsRemain
  <2>. QED
    BY <1>2, <2>2 DEF paths
<1>3. CASE run[r].pc \in {"measuring", "fitting"}
  <2>. DEFINE paths == Files(r, run[r].step, {"target", "synced"}
                             \cup (IF run[r].step \in Composite THEN {"sound"} ELSE {}))
  <2>1. Holdings(r) \ paths \subseteq Sounds(r)
    BY <1>3 DEF Holdings, Kinds, Files
  <2>. HIDE DEF paths
  <2>2. Measuring(r, Without(scratch, paths))
    BY <1>3, <2>1, SoundsRemain
  <2>. QED
    BY <1>3, <2>2 DEF paths, AfterMeasurement
<1>. QED
  BY <1>1, <1>2, <1>3

LEMMA UnmeasuredKeeps ==
  ASSUME RunsInv, NEW r \in Run, NEW files, Measuring(r, files), Unmeasured(r, files)
  PROVE  RunsInv' /\ Replied'
<1>1. PICK S : run \in [Run -> RunsOver(S)]
  BY DEF RunsInv, StateTyped
<1>. DEFINE measured == run[r].measured
            heard == run[r].heard
<1>2. measured \in Seq(S) /\ heard \in Seq(S) /\ AfterMeasuring(r, files, measured, heard)
  BY <1>1 DEF RunsOver, Unmeasured
<1>3. Len(measured) = Len(heard) /\ Len(heard) <= MeasuredBefore(run[r].step) + 1
  <2>1. Len(heard) <= MeasuredBefore(run[r].step) /\ Len(measured) = Len(heard)
    BY DEF RunsInv, Place
  <2>2. MeasuredBefore(run[r].step) \in Nat /\ Len(heard) \in Nat
    BY <1>2 DEF MeasuredBefore
  <2>. QED
    BY <2>1, <2>2
<1>. HIDE DEF measured, heard
<1>. QED
  BY <1>1, <1>2, <1>3, AfterMeasuringKeeps

(* A run goes on at the same step.                                          *)
LEMMA StageGoesOn ==
  ASSUME RunsInv, NEW r \in Run, run[r].pc \in {"stitching", "joining", "measuring"},
         UNCHANGED <<epoch, seq, begun, losses, doomed>>,
         NEW at \in {"joining", "measuring", "fitting"}, at = "joining" => run[r].pc = "stitching",
         NEW left \in Nat, run[r].elapsed + left <= TotalBudget,
         run' = [run EXCEPT ![r].pc = at, ![r].left = left],
         Writes(scratch, scratch', Me(r)),
         \A p \in DOMAIN scratch' : scratch'[p].by = Me(r) => p \in Holdings(r)', Quiet
  PROVE  RunsInv' /\ Replied'
<1>1. PICK S : run \in [Run -> RunsOver(S)]
  BY DEF RunsInv, StateTyped
<1>. DEFINE x == [run[r] EXCEPT !.pc = at, !.left = left]
<1>2. x \in RunsOver(S)
  BY <1>1 DEF RunsOver, Stages
<1>3. run' \in [Run -> RunsOver(S)] /\ \A q \in Run \ {r} : run'[q] = run[q]
  BY <1>1, <1>2
<1>4. run'[r] = x /\ run[r] \in RunsOver(S)
  BY <1>1
<1>5. /\ run'[r].pc = at /\ run'[r].tag = run[r].tag /\ run'[r].elapsed = run[r].elapsed
      /\ run'[r].left = left /\ run'[r].step = run[r].step /\ run'[r].busy = run[r].busy
      /\ run'[r].measured = run[r].measured /\ run'[r].heard = run[r].heard
  BY ONLY <1>4 DEF RunsOver
<1>6. Place(r) /\ Active(r) /\ TierOf[r] = "tier2"
  BY DEF RunsInv, Place, Active
<1>7. Place(r)'
  BY <1>5, <1>6 DEF Place, BudgetOf, MeasuredBefore, Composite
<1>8. RunsInv'
  BY <1>3, <1>5, <1>6, <1>7, WorkStep
<1>. QED
  BY <1>8, SilenceIsReplied

(* A binary that is given time has it within the run's budget.              *)
LEMMA StageIsGivenTime ==
  ASSUME RunsInv, NEW r \in Run, NEW files, Measuring(r, files)
  PROVE  /\ StageBudget(r, AlignBudget) \in Nat
         /\ run[r].elapsed + StageBudget(r, AlignBudget) <= TotalBudget
<1>. DEFINE e == run[r].elapsed
<1>1. e \in Nat /\ e <= TotalBudget /\ AlignBudget \in Nat
  BY MeasuringPlace, AlignerNumbers
<1>2. StageBudget(r, AlignBudget) = Smaller(AlignBudget, AtLeastZero(TotalBudget - e))
  BY DEF StageBudget
<1>. HIDE DEF e
<1>3. /\ Smaller(AlignBudget, AtLeastZero(TotalBudget - e)) \in Nat
      /\ e + Smaller(AlignBudget, AtLeastZero(TotalBudget - e)) <= TotalBudget
  BY <1>1, BudgetsFit
<1>. QED
  BY <1>2, <1>3 DEF e

LEMMA StitchKeeps ==
  ASSUME RunsInv, NEW r \in Run, Stitch(r)
  PROVE  RunsInv' /\ Replied'
<1>. DEFINE budget == StageBudget(r, AlignBudget)
            paths == {File3(r, run[r].step, "sound")}
<1>1. run[r].pc = "stitching" /\ UNCHANGED <<epoch, seq, begun, losses, doomed>>
  BY DEF Stitch
<1>2. Measuring(r, scratch)
  BY <1>1, SoundsRemainOfAll
<1>3. CASE Unmeasured(r, scratch)
  BY <1>2, <1>3, UnmeasuredKeeps
<1>4. CASE /\ run' = [run EXCEPT ![r].pc = "joining", ![r].left = budget]
           /\ scratch' = With(scratch, paths, Me(r))
           /\ Quiet
  <2>1. budget \in Nat /\ run[r].elapsed + budget <= TotalBudget
    BY <1>2, StageIsGivenTime
  <2>2. TierOf[r] = "tier2" /\ run[r].step \in Composite \cap Step /\ run[r].tag \in 0..MaxRuns
    BY <1>1, <1>2, MeasuringPlace DEF Place, Composite, Step
  <2>3. paths = Files(r, run[r].step, {"sound"})
    BY DEF Files
  <2>4. paths \in SUBSET Path /\ \A p \in paths : p[1] = Me(r)[2]
    <3>1. {"sound"} \in SUBSET Kind /\ run[r].step \in Step \cup Batch
      BY <2>2 DEF Kind
    <3>. QED
      BY <2>2, <2>3, <3>1, FileIsPath
  <2>. HIDE DEF budget
  <2>5. PICK S : run \in [Run -> RunsOver(S)]
    BY DEF RunsInv, StateTyped
  <2>6. run'[r].pc = "joining" /\ run'[r].step = run[r].step /\ run'[r].tag = run[r].tag
    BY <1>4, <2>5 DEF RunsOver
  <2>7. Sounds(r) \subseteq Holdings(r)' /\ paths \subseteq Holdings(r)'
    BY <2>2, <2>3, <2>6 DEF Holdings, Kinds, Sounds, Files, File3
  <2>. HIDE DEF paths
  <2>8. Writes(scratch, scratch', Me(r))
    BY <1>4, <2>4, WritesNothing, WritesWith
  <2>9. \A p \in DOMAIN scratch' : scratch'[p].by = Me(r) => p \in Holdings(r)'
    BY <1>2, <1>4, <2>7 DEF Measuring, With
  <2>. QED
    BY <1>1, <1>4, <2>1, <2>8, <2>9, StageGoesOn
<1>. QED
  BY <1>3, <1>4 DEF Stitch, Spawn

LEMMA StitchedKeeps ==
  ASSUME RunsInv, NEW r \in Run, Stitched(r)
  PROVE  RunsInv' /\ Replied'
<1>. DEFINE paths == Files(r, run[r].step, {"sound"})
            zero == 0
<1>1. run[r].pc = "joining" /\ UNCHANGED <<epoch, seq, begun, losses, doomed>>
  BY DEF Stitched
<1>2. Measuring(r, Without(scratch, paths))
  BY <1>1, SoundsRemainOfAll
<1>3. CASE Unmeasured(r, Without(scratch, paths))
  BY <1>2, <1>3, UnmeasuredKeeps
<1>4. CASE /\ run' = [run EXCEPT ![r].pc = "measuring", ![r].left = zero]
           /\ scratch' = With(scratch, paths, Me(r))
           /\ Quiet
  <2>1. /\ TierOf[r] = "tier2" /\ run[r].step \in Composite \cap Step /\ run[r].tag \in 0..MaxRuns
        /\ Active(r) /\ run[r].elapsed + zero <= TotalBudget /\ zero \in Nat
    <3>1. Place(r)
      BY DEF RunsInv
    <3>. QED
      BY <1>1, <1>2, <3>1, MeasuringPlace, AlignerNumbers DEF Place, Composite, Step
  <2>2. paths \in SUBSET Path /\ \A p \in paths : p[1] = Me(r)[2]
    <3>1. {"sound"} \in SUBSET Kind /\ run[r].step \in Step \cup Batch
      BY <2>1 DEF Kind
    <3>. QED
      BY <2>1, <3>1, FileIsPath
  <2>. HIDE DEF zero
  <2>3. PICK S : run \in [Run -> RunsOver(S)]
    BY DEF RunsInv, StateTyped
  <2>4. run'[r].pc = "measuring" /\ run'[r].step = run[r].step /\ run'[r].tag = run[r].tag
    BY <1>4, <2>3 DEF RunsOver
  <2>5. Holdings(r) \subseteq Holdings(r)' /\ paths \subseteq Holdings(r)'
    BY <1>1, <2>1, <2>4 DEF Holdings, Kinds, Sounds, Files, File3
  <2>6. \A p \in DOMAIN scratch : scratch[p].by = Me(r) => p \in Holdings(r)
    BY <2>1, HeldBefore
  <2>. HIDE DEF paths
  <2>7. Writes(scratch, scratch', Me(r))
    BY <1>4, <2>2, WritesNothing, WritesWith
  <2>8. \A p \in DOMAIN scratch' : scratch'[p].by = Me(r) => p \in Holdings(r)'
    BY <1>4, <2>5, <2>6 DEF With
  <2>. QED
    BY <1>1, <1>4, <2>1, <2>7, <2>8, StageGoesOn
<1>. QED
  BY <1>3, <1>4 DEF Stitched

LEMMA MeasureKeeps ==
  ASSUME RunsInv, NEW r \in Run, Measure(r)
  PROVE  RunsInv' /\ Replied'
<1>. DEFINE budget == StageBudget(r, AlignBudget)
            target == Files(r, run[r].step, {"target"})
            output == {File3(r, run[r].step, "synced")}
<1>1. run[r].pc = "measuring" /\ UNCHANGED <<epoch, seq, begun, losses, doomed>>
  BY DEF Measure
<1>2. Measuring(r, AfterMeasurement(scratch, r))
  BY <1>1, SoundsRemainOfAll
<1>3. CASE Unmeasured(r, AfterMeasurement(scratch, r))
  BY <1>2, <1>3, UnmeasuredKeeps
<1>4. CASE /\ run' = [run EXCEPT ![r].pc = "fitting", ![r].left = budget]
           /\ scratch' = With(With(scratch, target, Me(r)), output, Me(r))
           /\ Quiet
  <2>1. budget \in Nat /\ run[r].elapsed + budget <= TotalBudget
    BY <1>2, StageIsGivenTime
  <2>2. PICK S : run \in [Run -> RunsOver(S)]
    BY DEF RunsInv, StateTyped
  <2>3. Active(r) /\ TierOf[r] = "tier2" /\ run[r].step \in Step /\ run[r].tag \in 0..MaxRuns
    BY <1>2, <2>2, MeasuringPlace DEF RunsOver
  <2>4. output = Files(r, run[r].step, {"synced"})
    BY DEF Files
  <2>5. /\ target \in SUBSET Path /\ \A p \in target : p[1] = Me(r)[2]
        /\ output \in SUBSET Path /\ \A p \in output : p[1] = Me(r)[2]
    <3>1. {"target"} \in SUBSET Kind /\ {"synced"} \in SUBSET Kind /\ run[r].step \in Step \cup Batch
      BY <2>3 DEF Kind
    <3>. QED
      BY <2>3, <2>4, <3>1, FileIsPath
  <2>. HIDE DEF budget
  <2>6. run'[r].pc = "fitting" /\ run'[r].step = run[r].step /\ run'[r].tag = run[r].tag
    BY <1>4, <2>2 DEF RunsOver
  <2>7. Holdings(r) \subseteq Holdings(r)' /\ target \subseteq Holdings(r)' /\ output \subseteq Holdings(r)'
    BY <1>1, <2>3, <2>4, <2>6 DEF Holdings, Kinds, Sounds, Files, File3
  <2>8. \A p \in DOMAIN scratch : scratch[p].by = Me(r) => p \in Holdings(r)
    BY <2>3, HeldBefore
  <2>. HIDE DEF target, output
  <2>9. Writes(scratch, scratch', Me(r))
    <3>1. Writes(scratch, With(scratch, target, Me(r)), Me(r))
      BY <2>5, WritesNothing, WritesWith
    <3>. QED
      BY <1>4, <2>5, <3>1, WritesWith
  <2>10. \A p \in DOMAIN scratch' : scratch'[p].by = Me(r) => p \in Holdings(r)'
    BY <1>4, <2>7, <2>8 DEF With
  <2>. QED
    BY <1>1, <1>4, <2>1, <2>9, <2>10, StageGoesOn
<1>. QED
  BY <1>3, <1>4 DEF Measure, Spawn

LEMMA MeasuredKeeps ==
  ASSUME RunsInv, NEW r \in Run, Measured(r)
  PROVE  RunsInv' /\ Replied'
<1>. DEFINE files == AfterMeasurement(scratch, r)
<1>1. run[r].pc = "fitting" /\ UNCHANGED <<epoch, seq, begun, losses, doomed>>
  BY DEF Measured
<1>2. Measuring(r, files)
  BY <1>1, SoundsRemainOfAll
<1>3. CASE Unmeasured(r, files)
  BY <1>2, <1>3, UnmeasuredKeeps
<1>4. ASSUME NEW deltas, NEW shift,
             AfterMeasuring(r, files, Append(run[r].measured, shift), Append(run[r].heard, deltas))
      PROVE  RunsInv' /\ Replied'
  <2>1. PICK S : run \in [Run -> RunsOver(S)]
    BY DEF RunsInv, StateTyped
  <2>. DEFINE more == S \cup {shift, deltas}
              measured == Append(run[r].measured, shift)
              heard == Append(run[r].heard, deltas)
  <2>2. run \in [Run -> RunsOver(more)]
    <3>1. Seq(S) \subseteq Seq(more)
      OBVIOUS
    <3>. HIDE DEF more
    <3>2. \A x \in RunsOver(S) : x \in RunsOver(more)
      BY <3>1 DEF RunsOver
    <3>. QED
      BY <2>1, <3>2
  <2>3. run[r].measured \in Seq(S) /\ run[r].heard \in Seq(S)
    BY <2>1 DEF RunsOver
  <2>4. measured \in Seq(more) /\ heard \in Seq(more)
        /\ Len(measured) = Len(run[r].measured) + 1 /\ Len(heard) = Len(run[r].heard) + 1
    BY <2>3
  <2>5. Len(measured) = Len(heard) /\ Len(heard) <= MeasuredBefore(run[r].step) + 1
    <3>1. Len(run[r].heard) <= MeasuredBefore(run[r].step) /\ Len(run[r].measured) = Len(run[r].heard)
      BY DEF RunsInv, Place
    <3>2. MeasuredBefore(run[r].step) \in Nat /\ Len(run[r].heard) \in Nat
      BY <2>3 DEF MeasuredBefore
    <3>. QED
      BY <2>4, <3>1, <3>2
  <2>6. AfterMeasuring(r, files, measured, heard)
    BY <1>4
  <2>. HIDE DEF files, more, measured, heard
  <2>. QED
    BY <1>2, <2>2, <2>4, <2>5, <2>6, AfterMeasuringKeeps
<1>. QED
  BY <1>3, <1>4 DEF Measured

(* What happens around the runs.                                            *)
LEMMA HangUpKeeps ==
  ASSUME RunsInv, NEW r \in Run, HangUp(r)
  PROVE  RunsInv' /\ Replied'
<1>1. losses' \in 0..MaxLosses
  BY AlignerNumbers DEF RunsInv, StateTyped, HangUp
<1>2. Writes(scratch, scratch', Me(r))
  BY WritesNothing DEF HangUp
<1>. QED
  BY <1>1, <1>2, EndStep, SilenceIsReplied DEF HangUp

LEMMA IdlePlace ==
  ASSUME run' = [r \in Run |-> Idle], NEW r \in Run
  PROVE  Place(r)' /\ Own(r)' /\ ~Active(r)'
<1>1. run'[r] = Idle /\ Len(<<>>) = 0 /\ BudgetOf(r) \in Nat
  BY AlignerNumbers
<1>2. Place(r)'
  BY <1>1 DEF Place, Idle, MeasuredBefore, BudgetOf
<1>3. ~Active(r)'
  BY <1>1 DEF Active, Idle
<1>. QED
  BY <1>2, <1>3 DEF Own

LEMMA RestartKeeps ==
  ASSUME RunsInv, Restart
  PROVE  RunsInv' /\ Replied'
<1>1. \A r \in Run : Place(r)' /\ Own(r)' /\ ~Active(r)'
  BY IdlePlace DEF Restart
<1>2. StateTyped'
  <2>1. epoch' \in 0..MaxRestarts /\ losses' \in 0..MaxLosses /\ seq' \in Nat /\ seq' <= begun'
    BY AlignerNumbers DEF RunsInv, StateTyped, Restart
  <2>2. \E S : run' \in [Run -> RunsOver(S)]
    <3>1. run' \in [Run -> RunsOver(Nat)]
      BY IdleIsTyped DEF Restart
    <3>. QED
      BY <3>1
  <2>. QED
    BY <2>1, <2>2 DEF RunsInv, StateTyped, Restart
<1>3. Numbered'
  <2>1. ASSUME NEW id, Given(id, epoch, seq) PROVE Given(id, epoch', seq')
    <3>1. id \in Id /\ id[1] <= epoch /\ id[1] \in Nat /\ epoch \in Nat /\ epoch' = epoch + 1
      BY <2>1 DEF Given, Id, RunsInv, StateTyped, Restart
    <3>. QED
      BY <3>1 DEF Given
  <2>2. \A p \in DOMAIN scratch' : Given(scratch'[p].by, epoch', seq') /\ scratch'[p].by[2] = p[1]
    BY <2>1 DEF RunsInv, Numbered, Restart
  <2>. QED
    BY <1>1, <2>2 DEF Numbered, Restart
<1>. QED
  BY <1>1, <1>2, <1>3, SilenceIsReplied DEF RunsInv, Restart

(* A step that leaves the runs as they are leaves what they hold.           *)
LEMMA RunsKeep ==
  ASSUME RunsInv, UNCHANGED <<epoch, seq, begun, losses, run>>, NEW id, Writes(scratch, scratch', id),
         id \notin LiveIds
  PROVE  \A r \in Run : Place(r)' /\ Own(r)' /\ (Active(r)' <=> Active(r)) /\ Me(r)' = Me(r)
<1>. SUFFICES ASSUME NEW r \in Run
              PROVE  Place(r)' /\ Own(r)' /\ (Active(r)' <=> Active(r)) /\ Me(r)' = Me(r)
  OBVIOUS
<1>1. Place(r)'
  BY DEF RunsInv, Place, BudgetOf
<1>2. (Active(r)' <=> Active(r)) /\ Me(r)' = Me(r) /\ Holdings(r)' = Holdings(r)
  BY DEF Active, Me, Holdings, Kinds, Files, File3, Sounds
<1>3. ASSUME Active(r)', NEW p \in DOMAIN scratch', scratch'[p].by = Me(r)'
      PROVE  p \in Holdings(r)' /\ scratch'[p].age <= run'[r].elapsed
  <2>1. scratch'[p] # [by |-> id, age |-> 0]
    BY <1>2, <1>3 DEF LiveIds
  <2>2. p \in DOMAIN scratch /\ scratch'[p] = scratch[p]
    BY <2>1 DEF Writes
  <2>. QED
    BY <1>2, <1>3, <2>2 DEF RunsInv, Own
<1>. QED
  BY <1>1, <1>2, <1>3 DEF Own

(* What is too old is no run's that is under way.                           *)
LEMMA OldIsNobodys ==
  ASSUME RunsInv, NEW p \in DOMAIN scratch, TooOld(scratch[p]), NEW r \in Run, Active(r)
  PROVE  scratch[p].by # Me(r)
<1>1. run[r].elapsed \in Nat /\ run[r].left \in Nat /\ scratch[p].age \in Nat
  BY AlignerNumbers DEF RunsInv, StateTyped, RunsOver, File
<1>2. run[r].elapsed + run[r].left <= BudgetOf(r) /\ BudgetOf(r) \in Nat /\ BudgetOf(r) < Abandoned
      /\ Abandoned \in Nat
  BY AlignerNumbers DEF RunsInv, Place
<1>3. scratch[p].by = Me(r) => scratch[p].age <= run[r].elapsed
  BY DEF RunsInv, Own
<1>. QED
  BY <1>1, <1>2, <1>3 DEF TooOld

LEMMA CondemnKeeps ==
  ASSUME RunsInv, Condemn
  PROVE  RunsInv' /\ Replied'
<1>. DEFINE old == {p \in DOMAIN scratch : TooOld(scratch[p])}
<1>1. UNCHANGED <<epoch, seq, begun, losses, run, scratch>> /\ Quiet
  BY DEF Condemn
<1>2. PICK p \in old : doomed' = [path |-> p, by |-> scratch[p].by]
  BY DEF Condemn
<1>3. p \in DOMAIN scratch /\ TooOld(scratch[p]) /\ doomed'.path = p /\ doomed'.by = scratch[p].by
  BY <1>2
<1>4. StateTyped'
  BY <1>1, <1>3 DEF RunsInv, StateTyped
<1>5. Numbered'
  BY <1>1, <1>3, OldIsNobodys DEF RunsInv, Numbered, Active, Me
<1>6. \A r \in Run : Place(r)' /\ Own(r)'
  <2>1. Writes(scratch, scratch', None) /\ None \notin LiveIds
    <3>1. \A r \in Run : Me(r) \in Id
      BY AlignerNumbers DEF Me, Id, RunsInv, StateTyped, RunsOver
    <3>. QED
      BY <1>1, <3>1, WritesNothing, NoneAssumption DEF LiveIds
  <2>. QED
    BY <1>1, <2>1, RunsKeep
<1>. QED
  BY <1>1, <1>4, <1>5, <1>6, SilenceIsReplied DEF RunsInv

LEMMA UnlinkKeeps ==
  ASSUME RunsInv, Unlink
  PROVE  RunsInv' /\ Replied'
<1>1. /\ UNCHANGED <<epoch, seq, begun, losses, run>> /\ Quiet
      /\ doomed' = None /\ doomed # None /\ scratch' = Without(scratch, {doomed.path})
  BY DEF Unlink
<1>2. Writes(scratch, scratch', doomed.by) /\ doomed.by \notin LiveIds
  <2>1. Writes(scratch, scratch', doomed.by)
    BY <1>1, WritesNothing, WritesWithout
  <2>. QED
    BY <1>1, <2>1 DEF RunsInv, Numbered, LiveIds
<1>3. \A p \in DOMAIN scratch' : p \in DOMAIN scratch /\ scratch'[p] = scratch[p]
  BY <1>1 DEF Without, Restrict
<1>4. \A r \in Run : Place(r)' /\ Own(r)'
  BY <1>1, <1>2, RunsKeep
<1>5. StateTyped'
  BY <1>1, <1>3 DEF RunsInv, StateTyped
<1>6. Numbered'
  BY <1>1, <1>3 DEF RunsInv, Numbered, Active
<1>. QED
  BY <1>1, <1>4, <1>5, <1>6, SilenceIsReplied DEF RunsInv

LEMMA TickKeeps ==
  ASSUME RunsInv, Tick
  PROVE  RunsInv' /\ Replied'
<1>1. UNCHANGED <<epoch, seq, begun, losses, doomed>> /\ Quiet
      /\ DOMAIN scratch' = DOMAIN scratch
  BY DEF Tick
<1>2. PICK S : run \in [Run -> RunsOver(S)]
  BY DEF RunsInv, StateTyped
<1>3. ASSUME NEW r \in Run, Active(r)
      PROVE  /\ run'[r] \in RunsOver(S)
             /\ run[r].pc # "writing" /\ Place(r)
             /\ run'[r].pc = run[r].pc /\ run'[r].tag = run[r].tag /\ run'[r].busy = run[r].busy
             /\ run'[r].step = run[r].step /\ run'[r].measured = run[r].measured
             /\ run'[r].heard = run[r].heard
             /\ run'[r].elapsed = run[r].elapsed + 1 /\ run'[r].left = run[r].left - 1
             /\ run[r].elapsed \in Nat /\ run[r].left \in Nat
  <2>1. run'[r] = [run[r] EXCEPT !.elapsed = run[r].elapsed + 1, !.left = run[r].left - 1]
    BY <1>3 DEF Tick
  <2>2. run[r] \in RunsOver(S) /\ run[r].left > 0 /\ OnBinary(r) /\ Place(r)
    BY <1>2, <1>3 DEF Tick, RunsInv
  <2>3. run[r].pc # "writing"
    BY <2>2 DEF OnBinary, Place
  <2>. DEFINE longer == run[r].elapsed + 1
              less == run[r].left - 1
  <2>4. longer \in Nat /\ less \in Nat /\ run[r].elapsed \in Nat /\ run[r].left \in Nat
    BY <2>2 DEF RunsOver
  <2>5. run'[r] = [run[r] EXCEPT !.elapsed = longer, !.left = less]
    BY <2>1
  <2>. HIDE DEF longer, less
  <2>6. /\ run'[r] \in RunsOver(S)
        /\ run'[r].pc = run[r].pc /\ run'[r].tag = run[r].tag /\ run'[r].busy = run[r].busy
        /\ run'[r].step = run[r].step /\ run'[r].measured = run[r].measured
        /\ run'[r].heard = run[r].heard
        /\ run'[r].elapsed = longer /\ run'[r].left = less
    BY <2>2, <2>4, <2>5 DEF RunsOver
  <2>. QED
    BY <2>2, <2>3, <2>4, <2>6 DEF longer, less
<1>4. ASSUME NEW r \in Run, ~Active(r)
      PROVE  run'[r] = run[r]
  BY <1>4 DEF Tick
<1>5. \A r \in Run : (Active(r)' <=> Active(r)) /\ run'[r].tag = run[r].tag /\ Me(r)' = Me(r)
                     /\ Holdings(r)' = Holdings(r)
  <2>. SUFFICES ASSUME NEW r \in Run
                PROVE  (Active(r)' <=> Active(r)) /\ run'[r].tag = run[r].tag /\ Me(r)' = Me(r)
                       /\ Holdings(r)' = Holdings(r)
    OBVIOUS
  <2>1. run'[r].pc = run[r].pc /\ run'[r].tag = run[r].tag /\ run'[r].step = run[r].step
    BY <1>3, <1>4
  <2>. QED
    BY <1>1, <2>1 DEF Active, Me, Holdings, Kinds, Files, File3, Sounds
<1>6. ASSUME NEW p \in DOMAIN scratch'
      PROVE  /\ p \in DOMAIN scratch /\ scratch[p] \in File /\ scratch'[p] \in File
             /\ scratch'[p].by = scratch[p].by /\ scratch[p].age \in Nat
             /\ scratch'[p].age <= scratch[p].age + 1
  <2>1. p \in DOMAIN scratch /\ scratch[p] \in File
    BY <1>1, <1>6 DEF RunsInv, StateTyped
  <2>. DEFINE old == Smaller(scratch[p].age + 1, Abandoned + 1)
  <2>2. scratch[p].age \in 0..(Abandoned + 1)
    BY <2>1 DEF File
  <2>3. old \in 0..(Abandoned + 1) /\ old <= scratch[p].age + 1 /\ scratch[p].age \in Nat
    BY <2>2, AlignerNumbers DEF Smaller
  <2>4. scratch'[p] = [scratch[p] EXCEPT !.age = old]
    BY <2>1 DEF Tick
  <2>. HIDE DEF old
  <2>. QED
    BY <2>1, <2>3, <2>4 DEF File
<1>7. StateTyped'
  <2>1. run' \in [Run -> RunsOver(S)]
    <3>1. \A r \in Run : run'[r] \in RunsOver(S)
      BY <1>2, <1>3, <1>4
    <3>2. run' = [r \in Run |-> run'[r]]
      BY DEF Tick
    <3>. QED
      BY <3>1, <3>2
  <2>. QED
    BY <1>1, <1>6, <2>1 DEF RunsInv, StateTyped
<1>8. Numbered'
  BY <1>1, <1>5, <1>6 DEF RunsInv, Numbered
<1>9. ASSUME NEW r \in Run PROVE Place(r)'
  <2>1. Place(r)
    BY DEF RunsInv
  <2>2. CASE Active(r)
    <3>1. run'[r].elapsed + run'[r].left = run[r].elapsed + run[r].left
      BY <1>3, <2>2
    <3>. QED
      BY <1>3, <2>2, <2>1, <3>1 DEF Place, BudgetOf, MeasuredBefore, Active
  <2>3. CASE ~Active(r)
    BY <1>4, <2>1, <2>3 DEF Place, BudgetOf, MeasuredBefore
  <2>. QED
    BY <2>2, <2>3
<1>10. ASSUME NEW r \in Run PROVE Own(r)'
  <2>. SUFFICES ASSUME Active(r)', NEW p \in DOMAIN scratch', scratch'[p].by = Me(r)'
                PROVE  p \in Holdings(r)' /\ scratch'[p].age <= run'[r].elapsed
    BY DEF Own
  <2>1. Active(r) /\ scratch[p].by = Me(r) /\ p \in DOMAIN scratch
    BY <1>5, <1>6
  <2>2. p \in Holdings(r) /\ scratch[p].age <= run[r].elapsed
    BY <2>1 DEF RunsInv, Own
  <2>3. run'[r].elapsed = run[r].elapsed + 1 /\ run[r].elapsed \in Nat
    BY <1>3, <2>1
  <2>4. scratch[p].age \in Nat /\ scratch'[p].age <= scratch[p].age + 1 /\ scratch'[p].age \in Nat
    <3>1. scratch'[p] \in File
      BY <1>6
    <3>2. scratch'[p].age \in Nat
      BY <3>1, AlignerNumbers DEF File
    <3>. QED
      BY <1>6, <3>2
  <2>. QED
    BY <1>5, <2>2, <2>3, <2>4
<1>. QED
  BY <1>1, <1>7, <1>8, <1>9, <1>10, SilenceIsReplied DEF RunsInv

LEMMA RunsInvHoldsFirst == AlignerInit => RunsInv /\ Replied
<1>. SUFFICES ASSUME AlignerInit PROVE RunsInv /\ Replied
  OBVIOUS
<1>1. Replied
  BY DEF AlignerInit, Silence, Replied, ReturnsClean, HandsOutItsOwn
<1>2. \A r \in Run : run[r] = Idle
  BY DEF AlignerInit
<1>3. DOMAIN scratch = {} /\ doomed = None
  BY DEF AlignerInit
<1>4. StateTyped
  <2>1. run \in [Run -> RunsOver(Nat)]
    BY IdleIsTyped DEF AlignerInit
  <2>2. epoch \in 0..MaxRestarts /\ seq \in Nat /\ begun \in 0..MaxRuns /\ losses \in 0..MaxLosses
        /\ seq <= begun
    BY AlignerNumbers DEF AlignerInit
  <2>. QED
    BY <1>3, <2>1, <2>2 DEF StateTyped
<1>5. \A r \in Run : Place(r) /\ Own(r) /\ ~Active(r)
  <2>1. Len(<<>>) = 0 /\ \A r \in Run : BudgetOf(r) \in Nat
    BY AlignerNumbers
  <2>. QED
    BY <1>2, <2>1 DEF Place, Own, Active, Idle, MeasuredBefore
<1>6. Numbered
  BY <1>3, <1>5 DEF Numbered
<1>. QED
  BY <1>1, <1>4, <1>5, <1>6 DEF RunsInv

LEMMA RunsInvIsKept ==
  ASSUME RunsInv, Replied, [AlignerNext]_alignerVars
  PROVE  RunsInv' /\ Replied'
<1>1. CASE UNCHANGED alignerVars
  <2>1. UNCHANGED <<epoch, seq, begun, losses, run, scratch, doomed, reply>>
    BY <1>1 DEF alignerVars
  <2>2. Replied'
    BY <2>1 DEF Replied, ReturnsClean, HandsOutItsOwn
  <2>3. StateTyped' /\ Numbered'
    BY <2>1 DEF RunsInv, StateTyped, Numbered, Active, Me
  <2>4. ASSUME NEW r \in Run PROVE Place(r)' /\ Own(r)'
    <3>1. Place(r) /\ Own(r)
      BY DEF RunsInv
    <3>. QED
      BY <2>1, <3>1 DEF Place, BudgetOf, Own, Active, Me, Holdings, Kinds, Files, File3, Sounds
  <2>. QED
    BY <2>2, <2>3, <2>4 DEF RunsInv
<1>2. ASSUME NEW r \in Run, StartReference(r) \/ WriteReference(r) \/ FinishReference(r)
      PROVE  RunsInv' /\ Replied'
  BY <1>2, StartReferenceKeeps, WriteReferenceKeeps, FinishReferenceKeeps
<1>3. ASSUME NEW r \in Run,
             StartAudio(r) \/ Listen(r) \/ \E b \in Batch : Extracted(r, b) \/ NotExtracted(r, b)
      PROVE  RunsInv' /\ Replied'
  BY <1>3, StartAudioKeeps, ListenKeeps, ExtractionKeeps
<1>4. ASSUME NEW r \in Run, Stitch(r) \/ Stitched(r) \/ Measure(r) \/ Measured(r)
      PROVE  RunsInv' /\ Replied'
  BY <1>4, StitchKeeps, StitchedKeeps, MeasureKeeps, MeasuredKeeps
<1>5. ASSUME NEW r \in Run, HangUp(r) PROVE RunsInv' /\ Replied'
  BY <1>5, HangUpKeeps
<1>6. CASE Restart \/ Condemn \/ Unlink \/ Tick
  BY <1>6, RestartKeeps, CondemnKeeps, UnlinkKeeps, TickKeeps
<1>. QED
  BY <1>1, <1>2, <1>3, <1>4, <1>5, <1>6 DEF AlignerNext

LEMMA RunsInvHolds == AlignerSpec => [](RunsInv /\ Replied)
<1>1. AlignerInit => RunsInv /\ Replied
  BY RunsInvHoldsFirst
<1>2. RunsInv /\ Replied /\ [AlignerNext]_alignerVars => (RunsInv /\ Replied)'
  BY RunsInvIsKept
<1>. QED
  BY <1>1, <1>2, PTL DEF AlignerSpec

LEMMA RunsInvTellsTheLiving == RunsInv => AgeTellsTheLiving
<1>. SUFFICES ASSUME RunsInv PROVE AgeTellsTheLiving
  OBVIOUS
<1>1. PICK S : run \in [Run -> RunsOver(S)]
  BY DEF RunsInv, StateTyped
<1>2. ASSUME NEW r \in Run
      PROVE  /\ run[r].pc \in Stages /\ run[r].tag \in 0..MaxRuns /\ run[r].step \in Step
             /\ run[r].left \in Nat /\ run[r].elapsed \in Nat /\ run[r].busy \subseteq Batch
             /\ \E T : run[r].heard \in Seq(T)
  BY <1>1, <1>2 DEF RunsOver
<1>3. ASSUME NEW r \in Run
      PROVE  /\ run[r].busy # {} => run[r].pc = "extracting"
             /\ Len(run[r].measured) = Len(run[r].heard) /\ Len(run[r].heard) <= 3
             /\ run[r].elapsed <= BudgetOf(r)
  <2>1. Place(r)
    BY DEF RunsInv
  <2>2. MeasuredBefore(run[r].step) \in 0..2 /\ Len(run[r].heard) \in Nat
    BY <1>2 DEF MeasuredBefore
  <2>3. run[r].elapsed \in Nat /\ run[r].left \in Nat /\ BudgetOf(r) \in Nat
        /\ run[r].elapsed + run[r].left <= BudgetOf(r)
    BY <1>2, <2>1, AlignerNumbers DEF Place
  <2>. QED
    BY <2>1, <2>2, <2>3 DEF Place
<1>4. seq \in 0..MaxRuns
  BY AlignerNumbers DEF RunsInv, StateTyped
<1>5. doomed # None => doomed.path \in Path /\ doomed.by \in Id
  BY DEF RunsInv, StateTyped, Numbered, Given
<1>6. AlignerTypeOK
  BY <1>2, <1>3, <1>4, <1>5 DEF RunsInv, StateTyped, Stages, AlignerTypeOK
<1>7. doomed # None => doomed.by \notin LiveIds
  BY DEF RunsInv, Numbered, LiveIds
<1>. QED
  BY <1>3, <1>6, <1>7 DEF AgeTellsTheLiving

(* ReturnsClean, for any runs, budgets and bounds: whatever went wrong in a *)
(* run, once it has returned to its caller none of its files is left, so    *)
(* the scratch volume holds those of runs under way and of runs that were   *)
(* dropped (sync.rs, every exit of sync_to_reference and sync_to_audio).    *)
THEOREM RunsLeaveNothing == AlignerSpec => []ReturnsClean
<1>1. RunsInv /\ Replied => ReturnsClean
  BY DEF Replied
<1>. QED
  BY <1>1, RunsInvHolds, PTL

(* HandsOutItsOwn, for any runs, budgets and bounds: the sequence number in *)
(* the tag is enough for a caller never to be handed what another run of    *)
(* the process made, though neither the names of the files nor the sweep    *)
(* know of an owner (sync.rs, scratch_tag).                                 *)
THEOREM NoMixUp == AlignerSpec => []HandsOutItsOwn
<1>1. RunsInv /\ Replied => HandsOutItsOwn
  BY DEF Replied
<1>. QED
  BY <1>1, RunsInvHolds, PTL

(* AgeTellsTheLiving, for any budgets below the age of what is abandoned:   *)
(* the stages of a run together never take more than its tier has, so the   *)
(* sweep, which goes by age alone, takes nothing from a run that is under   *)
(* way (sync.rs, sweep_scratch).                                            *)
THEOREM TheSweepSparesTheLiving == AlignerSpec => []AgeTellsTheLiving
<1>. QED
  BY RunsInvHolds, RunsInvTellsTheLiving, PTL


-----------------------------------------------------------------------------
(* What an alignment says *)

LEMMA DistanceIs ==
  ASSUME NEW m \in Int, NEW n \in Int, NEW k \in Int
  PROVE  Distance(m, n) <= k <=> m - n <= k /\ n - m <= k
BY DEF Distance

LEMMA WithinIsFinite ==
  ASSUME NEW shifts \in Seq(Int), NEW s, NEW apart
  PROVE  /\ Within(shifts, s, apart) \subseteq 1..Len(shifts)
         /\ IsFiniteSet(Within(shifts, s, apart)) /\ Cardinality(Within(shifts, s, apart)) \in Nat
<1>1. Within(shifts, s, apart) \subseteq 1..Len(shifts)
  BY DEF Within
<1>2. IsFiniteSet(1..Len(shifts))
  BY FS_Interval
<1>. QED
  BY <1>1, <1>2, FS_Subset, FS_CardinalityType

(* What is told of the cues that moved is a number each.                    *)
LEMMA DeltasAreNumbers ==
  ASSUME NEW starts \in Seq(Int), NEW aligned \in Seq(Int)
  PROVE  Deltas(starts, aligned) \in Seq(Int)
<1>. DEFINE told == {i \in DOMAIN starts : i \in DOMAIN aligned /\ aligned[i] > 0}
            key == [i \in told |-> aligned[i] - starts[i]]
<1>1. told \subseteq 1..Len(starts) /\ \A i \in told : aligned[i] \in Int /\ starts[i] \in Int
  OBVIOUS
<1>2. IsFiniteSet(told) /\ told \subseteq Int
  <2>1. IsFiniteSet(1..Len(starts)) /\ 1..Len(starts) \subseteq Int
    BY FS_Interval
  <2>. HIDE DEF told
  <2>2. IsFiniteSet(told)
    BY <1>1, <2>1, FS_Subset
  <2>. QED
    BY <1>1, <2>1, <2>2
<1>3. key \in [told -> Int]
  BY <1>1
<1>4. Deltas(starts, aligned) = Ascending(key)
  BY Zenon DEF Deltas
<1>. HIDE DEF told, key
<1>. QED
  BY <1>2, <1>3, <1>4, AscendingIsKeys

(* A shift was read off an alignment: nearly all its cues moved by it.      *)
Measures(deltas, shift) ==
  deltas \in Seq(Int) /\ shift \in Int /\ Len(deltas) >= 3 /\ Stable(deltas, shift)

LEMMA ShiftIsMeasured ==
  ASSUME NEW deltas \in Seq(Int), PartialShift(deltas) # NoShift
  PROVE  Measures(deltas, PartialShift(deltas))
<1>. DEFINE shift == deltas[Len(deltas) \div 2 + 1]
<1>1. Len(deltas) >= 3 /\ Stable(deltas, shift) /\ PartialShift(deltas) = shift
  BY Zenon DEF PartialShift
<1>2. Len(deltas) \div 2 + 1 \in 1..Len(deltas)
  BY <1>1
<1>3. shift \in Int
  BY <1>2
<1>. QED
  BY <1>1, <1>3 DEF Measures

(* What an alignment backs it backs about what agrees with it.              *)
LEMMA AgreeingIsBacked ==
  ASSUME NEW deltas, NEW shift, Measures(deltas, shift), NEW found \in Int,
         Distance(shift, found) <= Agreement
  PROVE  Backs(deltas, found)
<1>0. Spread \in Nat /\ Agreement \in Nat
  BY AudioSampleAssumption
<1>. DEFINE near == Within(deltas, shift, Spread)
            nearly == Within(deltas, found, Spread + Agreement)
<1>1. deltas \in Seq(Int) /\ shift \in Int /\ Len(deltas) \in Nat /\ Len(deltas) >= 3
      /\ Cardinality(near) * 4 >= Len(deltas) * 3
  BY DEF Measures, Stable
<1>2. near \subseteq nearly
  <2>1. ASSUME NEW i \in DOMAIN deltas, Distance(deltas[i], shift) <= Spread
        PROVE  Distance(deltas[i], found) <= Spread + Agreement
    <3>1. deltas[i] \in Int
      BY <1>1
    <3>. QED
      BY <1>0, <1>1, <2>1, <3>1 DEF Distance
  <2>. QED
    BY <2>1 DEF Within
<1>3. IsFiniteSet(nearly) /\ Cardinality(nearly) \in Nat /\ Cardinality(near) \in Nat
  BY <1>1, WithinIsFinite
<1>. HIDE DEF near, nearly
<1>4. Cardinality(near) <= Cardinality(nearly)
  BY <1>2, <1>3, FS_Subset
<1>5. Cardinality(nearly) * 4 >= Len(deltas) * 3
  BY <1>1, <1>3, <1>4
<1>. QED
  BY <1>1, <1>5 DEF Backs, nearly

-----------------------------------------------------------------------------
(* What several alignments agree on *)

(* Two of a set of shifts about a centre, and the half of their sum.        *)
LEMMA MiddleOfTwo ==
  ASSUME NEW m \in Int, NEW n \in Int, NEW c \in Int, NEW apart \in Nat,
         Distance(m, c) <= apart, Distance(n, c) <= apart
  PROVE  /\ HalfOf(m + n) \in Int
         /\ Distance(m, HalfOf(m + n)) <= apart /\ Distance(n, HalfOf(m + n)) <= apart
<1>. DEFINE s == m + n
            h == HalfOf(s)
<1>1. s \in Int /\ m - n <= 2 * apart /\ n - m <= 2 * apart
  BY DEF Distance
<1>. HIDE DEF s
<1>2. h \in Int /\ 2 * h - s <= 1 /\ s - 2 * h <= 1
  BY <1>1 DEF HalfOf
<1>. HIDE DEF h
<1>3. m - h <= apart /\ h - m <= apart /\ n - h <= apart /\ h - n <= apart
  BY <1>1, <1>2 DEF s
<1>4. Distance(m, h) <= apart /\ Distance(n, h) <= apart
  BY <1>2, <1>3 DEF Distance
<1>. QED
  BY <1>2, <1>4 DEF h, s

(* Two of some shifts agree with one.                                       *)
TwoAgree(shifts, found) ==
  /\ found \in Int
  /\ \E i, j \in 1..Len(shifts) : /\ i # j
                                  /\ Distance(shifts[i], found) <= Agreement
                                  /\ Distance(shifts[j], found) <= Agreement

LargestSize(shifts) == [i \in DOMAIN shifts |-> Cardinality(Around(shifts, i))]
IsLargest(shifts, i) ==
  /\ i \in DOMAIN shifts
  /\ \A j \in DOMAIN shifts :
       LargestSize(shifts)[j] < LargestSize(shifts)[i]
       \/ (LargestSize(shifts)[j] = LargestSize(shifts)[i] /\ i <= j)

LEMMA LargestExists ==
  ASSUME NEW shifts \in Seq(Int), shifts # <<>>
  PROVE  \E i \in 1..Len(shifts) : IsLargest(shifts, i)
<1>. DEFINE D == 1..Len(shifts)
            size == LargestSize(shifts)
            key == [i \in D |-> -size[i]]
<1>1. DOMAIN shifts = D /\ D # {} /\ D \subseteq Int /\ IsFiniteSet(D)
  <2>1. Len(shifts) \in Nat /\ Len(shifts) # 0 /\ DOMAIN shifts = D
    OBVIOUS
  <2>2. IsFiniteSet(D)
    BY <2>1, FS_Interval
  <2>3. D \subseteq Int /\ 1 \in D
    BY <2>1
  <2>. QED
    BY <2>1, <2>2, <2>3
<1>2. \A i \in D : size[i] \in Nat
  BY <1>1, WithinIsFinite DEF LargestSize, Around
<1>. HIDE DEF D, size
<1>3. key \in [D -> Int] /\ \A i \in D : key[i] = -size[i]
  BY <1>2
<1>. HIDE DEF key
<1>4. \E i \in D : \A j \in D : key[i] < key[j] \/ (key[i] = key[j] /\ i <= j)
  BY <1>1, <1>3, FirstInOrder
<1>5. PICK i \in D : \A j \in D : key[i] < key[j] \/ (key[i] = key[j] /\ i <= j)
  BY <1>4
<1>6. \A j \in D : size[j] < size[i] \/ (size[j] = size[i] /\ i <= j)
  BY <1>2, <1>3, <1>5
<1>. QED
  BY <1>1, <1>6 DEF IsLargest, D, size

(* The largest group is of shifts about one of them, each its own.          *)
GroupAbout(shifts, best, c, at) ==
  /\ c \in 1..Len(shifts)
  /\ best \in Seq(Int)
  /\ at \in [1..Len(best) -> 1..Len(shifts)]
  /\ \A p, q \in 1..Len(best) : at[p] = at[q] => p = q
  /\ \A p \in 1..Len(best) : best[p] = shifts[at[p]] /\ Distance(best[p], shifts[c]) <= Agreement

LEMMA LargestGroupIs ==
  ASSUME NEW shifts \in Seq(Int), shifts # <<>>
  PROVE  \E c, at : GroupAbout(shifts, LargestGroup(shifts), c, at)
<1>. DEFINE size == [i \in DOMAIN shifts |-> Cardinality(Around(shifts, i))]
            c == CHOOSE i \in DOMAIN shifts : \A j \in DOMAIN shifts : size[j] < size[i] \/ (size[j] = size[i] /\ i <= j)
            D == Around(shifts, c)
            key == Restrict(shifts, D)
            best == LargestGroup(shifts)
            at == Sorted(key)
<1>1. best = Ascending(key)
  BY Zenon DEF LargestGroup
<1>2. c \in 1..Len(shifts)
  <2>1. PICK i \in 1..Len(shifts) : IsLargest(shifts, i)
    BY LargestExists
  <2>2. /\ i \in DOMAIN shifts
        /\ \A j \in DOMAIN shifts : size[j] < size[i] \/ (size[j] = size[i] /\ i <= j)
    BY <2>1, Zenon DEF IsLargest, LargestSize
  <2>. HIDE DEF size
  <2>3. c \in DOMAIN shifts
    BY <2>2
  <2>. QED
    BY <2>3
<1>. HIDE DEF c
<1>3. D \subseteq 1..Len(shifts) /\ IsFiniteSet(D)
      /\ \A i \in D : Distance(shifts[i], shifts[c]) <= Agreement
  <2>1. D \subseteq 1..Len(shifts) /\ IsFiniteSet(D)
    BY WithinIsFinite DEF Around
  <2>. QED
    BY <2>1 DEF Around, Within
<1>. HIDE DEF D
<1>4. key \in [D -> Int] /\ D \subseteq Int /\ \A i \in D : key[i] = shifts[i]
  BY <1>3 DEF Restrict
<1>. HIDE DEF key
<1>5. /\ Ascending(key) \in Seq(Int) /\ Len(Ascending(key)) = Cardinality(D)
      /\ \A p \in 1..Cardinality(D) : Sorted(key)[p] \in D /\ Ascending(key)[p] = key[Sorted(key)[p]]
  BY <1>3, <1>4, AscendingIsKeys
<1>6. /\ Sorted(key) \in [1..Cardinality(D) -> D]
      /\ \A p, q \in 1..Cardinality(D) : Sorted(key)[p] = Sorted(key)[q] => p = q
  BY <1>3, <1>4, SortedIsOrder
<1>. HIDE DEF best
<1>7. /\ best \in Seq(Int) /\ Len(best) = Cardinality(D)
      /\ at \in [1..Len(best) -> D]
      /\ \A p, q \in 1..Len(best) : at[p] = at[q] => p = q
      /\ \A p \in 1..Len(best) : at[p] \in D /\ best[p] = shifts[at[p]]
  BY <1>1, <1>4, <1>5, <1>6
<1>. HIDE DEF at
<1>8. GroupAbout(shifts, best, c, at)
  BY <1>2, <1>3, <1>7 DEF GroupAbout
<1>. QED
  BY <1>8 DEF best

LEMMA ConsensusAgrees ==
  ASSUME NEW shifts \in Seq(Int), Consensus(shifts) # NoShift
  PROVE  TwoAgree(shifts, Consensus(shifts))
<1>0. Agreement \in Nat
  BY AudioSampleAssumption
<1>. DEFINE best == LargestGroup(shifts)
            middle == Len(best) \div 2
            found == Consensus(shifts)
<1>1. /\ ~(Len(best) < 2)
      /\ Len(best) % 2 = 0 => found = HalfOf(best[middle] + best[middle + 1])
      /\ Len(best) % 2 # 0 => found = best[middle + 1]
  BY Zenon DEF Consensus
<1>2. shifts # <<>>
  <2>1. ASSUME shifts = <<>> PROVE Len(best) = 0
    <3>1. best = <<>>
      BY <2>1, Zenon DEF LargestGroup
    <3>. HIDE DEF best
    <3>. QED
      BY <3>1
  <2>. HIDE DEF best
  <2>. QED
    BY <1>1, <2>1
<1>3. PICK c, at : GroupAbout(shifts, best, c, at)
  BY <1>2, LargestGroupIs
<1>. HIDE DEF best, found
<1>4. /\ c \in 1..Len(shifts) /\ best \in Seq(Int) /\ Len(best) \in Nat /\ Len(best) >= 2
      /\ \A p, q \in 1..Len(best) : at[p] = at[q] => p = q
      /\ \A p \in 1..Len(best) : at[p] \in 1..Len(shifts) /\ best[p] = shifts[at[p]] /\ best[p] \in Int
      /\ \A p \in 1..Len(best) : Distance(best[p], shifts[c]) <= Agreement
      /\ shifts[c] \in Int
  <2>1. /\ c \in 1..Len(shifts) /\ best \in Seq(Int) /\ at \in [1..Len(best) -> 1..Len(shifts)]
        /\ \A p, q \in 1..Len(best) : at[p] = at[q] => p = q
        /\ \A p \in 1..Len(best) : best[p] = shifts[at[p]] /\ Distance(best[p], shifts[c]) <= Agreement
    BY <1>3, Zenon DEF GroupAbout
  <2>2. Len(best) \in Nat /\ Len(best) >= 2
    BY <1>1, <2>1
  <2>3. \A p \in 1..Len(best) : at[p] \in 1..Len(shifts) /\ best[p] \in Int
    BY <2>1
  <2>4. shifts[c] \in Int
    BY <2>1
  <2>. QED
    BY <2>1, <2>2, <2>3, <2>4
<1>5. CASE Len(best) % 2 = 0
  <2>1. middle \in 1..Len(best) /\ middle + 1 \in 1..Len(best) /\ middle # middle + 1
    BY <1>4, <1>5
  <2>. HIDE DEF middle
  <2>. DEFINE m == best[middle]
              n == best[middle + 1]
  <2>2. m \in Int /\ n \in Int /\ Distance(m, shifts[c]) <= Agreement /\ Distance(n, shifts[c]) <= Agreement
    BY <1>4, <2>1
  <2>3. found = HalfOf(m + n)
    BY <1>1, <1>5
  <2>. HIDE DEF m, n
  <2>4. found \in Int /\ Distance(m, found) <= Agreement /\ Distance(n, found) <= Agreement
    BY <1>0, <1>4, <2>2, <2>3, MiddleOfTwo
  <2>. DEFINE i == at[middle]
              j == at[middle + 1]
  <2>5. i \in 1..Len(shifts) /\ j \in 1..Len(shifts) /\ i # j /\ m = shifts[i] /\ n = shifts[j]
    BY <1>4, <2>1 DEF m, n
  <2>. HIDE DEF i, j
  <2>. QED
    BY <2>4, <2>5 DEF TwoAgree, found
<1>6. CASE Len(best) % 2 # 0
  <2>1. middle + 1 \in 1..Len(best) /\ 1 \in 1..Len(best) /\ 1 # middle + 1
    BY <1>4, <1>6
  <2>. HIDE DEF middle
  <2>. DEFINE i == at[middle + 1]
  <2>2. i \in 1..Len(shifts) /\ found = shifts[i] /\ found \in Int /\ Distance(found, shifts[c]) <= Agreement
    BY <1>1, <1>4, <1>6, <2>1
  <2>3. Distance(found, found) <= Agreement
    BY <1>0, <2>2 DEF Distance
  <2>4. \E j \in 1..Len(shifts) : i # j /\ Distance(shifts[j], found) <= Agreement
    <3>1. CASE i # c
      <4>1. Distance(shifts[c], found) <= Agreement
        BY <1>0, <1>4, <2>2 DEF Distance
      <4>. QED
        BY <1>4, <3>1, <4>1
    <3>2. CASE i = c
      <4>1. at[1] \in 1..Len(shifts) /\ at[1] # i /\ Distance(shifts[at[1]], shifts[c]) <= Agreement
        BY <1>4, <2>1
      <4>. QED
        BY <2>2, <3>2, <4>1
    <3>. QED
      BY <3>1, <3>2
  <2>. HIDE DEF i
  <2>. QED
    BY <2>2, <2>3, <2>4 DEF TwoAgree, found
<1>. QED
  BY <1>5, <1>6


-----------------------------------------------------------------------------
(* What a sample holds *)

Cue == [start : Nat, end : Nat]
Stretches(n) == [at : Nat, left : 0..n, middle : 0..n, right : 0..n]

LEMMA SampleNumbers ==
  /\ Probe \in Nat /\ Probe > 0 /\ MinCues \in Nat /\ MinCues > 0 /\ Lead \in Nat
BY AudioSampleAssumption

LEMMA ByStartIsCues ==
  ASSUME NEW film \in Seq(Cue)
  PROVE  ByStart(film) \in Seq(Cue) /\ Len(ByStart(film)) = Len(film)
<1>. DEFINE n == Len(film)
            key == [i \in DOMAIN film |-> film[i].start]
            order == Sorted(key)
<1>1. n \in Nat /\ DOMAIN film = 1..n /\ \A i \in 1..n : film[i] \in Cue
  OBVIOUS
<1>2. key \in [1..n -> Int]
  BY <1>1 DEF Cue
<1>3. ByStart(film) = [p \in DOMAIN film |-> film[order[p]]]
  BY Zenon DEF ByStart
<1>. HIDE DEF key, n
<1>4. order \in [1..n -> 1..n]
  BY <1>1, <1>2, SortedSequence
<1>. HIDE DEF order
<1>5. ByStart(film) = [p \in 1..n |-> film[order[p]]] /\ \A p \in 1..n : film[order[p]] \in Cue
  BY <1>1, <1>3, <1>4
<1>. QED
  BY <1>1, <1>5 DEF n

LEMMA CuesAreCounted ==
  ASSUME NEW cues \in Seq(Cue), NEW t
  PROVE  CuesBefore(cues, t) \in 0..Len(cues)
<1>. DEFINE before == {i \in DOMAIN cues : cues[i].start < t}
<1>1. before \subseteq 1..Len(cues) /\ IsFiniteSet(1..Len(cues)) /\ Cardinality(1..Len(cues)) = Len(cues)
      /\ Len(cues) \in Nat
  <2>. DEFINE n == Len(cues)
  <2>1. n \in Nat /\ before \subseteq 1..n
    OBVIOUS
  <2>. HIDE DEF n, before
  <2>2. IsFiniteSet(1..n) /\ Cardinality(1..n) = n
    BY <2>1, FS_Interval
  <2>. QED
    BY <2>1, <2>2 DEF n
<1>2. CuesBefore(cues, t) = Cardinality(before)
  BY DEF CuesBefore
<1>. HIDE DEF before
<1>3. IsFiniteSet(before) /\ Cardinality(before) <= Len(cues) /\ Cardinality(before) \in Nat
  BY <1>1, FS_Subset, FS_CardinalityType
<1>. QED
  BY <1>1, <1>2, <1>3

(* Where a stretch can begin.                                               *)
Beginnings(cues) == {0} \cup {AtLeastZero(cues[i].start - Lead) : i \in DOMAIN cues}

LEMMA BeginningsAreFew ==
  ASSUME NEW cues \in Seq(Cue)
  PROVE  Beginnings(cues) \subseteq Nat /\ IsFiniteSet(Beginnings(cues))
<1>. DEFINE n == Len(cues)
            f == [i \in 0..n |-> IF i = 0 THEN 0 ELSE AtLeastZero(cues[i].start - Lead)]
<1>1. n \in Nat /\ DOMAIN cues = 1..n /\ \A i \in 1..n : cues[i].start \in Nat
  <2>1. n \in Nat /\ DOMAIN cues = 1..n /\ \A i \in 1..n : cues[i] \in Cue
    OBVIOUS
  <2>. HIDE DEF n
  <2>. QED
    BY <2>1 DEF Cue
<1>2. \A i \in 1..n : AtLeastZero(cues[i].start - Lead) \in Nat
  BY <1>1, SampleNumbers DEF AtLeastZero
<1>3. Beginnings(cues) \subseteq Nat
  BY <1>1, <1>2 DEF Beginnings
<1>4. f \in [0..n -> Beginnings(cues)]
  BY <1>1 DEF Beginnings
<1>5. \A b \in Beginnings(cues) : \E i \in 0..n : f[i] = b
  <2>1. ASSUME NEW i \in 1..n PROVE i \in 0..n /\ f[i] = AtLeastZero(cues[i].start - Lead)
    BY <1>1
  <2>2. 0 \in 0..n /\ f[0] = 0
    BY <1>1
  <2>. HIDE DEF f, n
  <2>. QED
    BY <1>1, <2>1, <2>2 DEF Beginnings
<1>6. IsFiniteSet(0..n)
  BY <1>1, FS_Interval
<1>. HIDE DEF f, n
<1>7. f \in Surjection(0..n, Beginnings(cues))
  BY <1>4, <1>5 DEF Surjection
<1>8. IsFiniteSet(Beginnings(cues))
  BY <1>6, <1>7, FS_Surjection
<1>. QED
  BY <1>3, <1>8

LEMMA CandidatesAre ==
  ASSUME NEW cues \in Seq(Cue), NEW c \in Candidates(cues)
  PROVE  /\ c \in Stretches(Len(cues)) /\ c.at \in Beginnings(cues) /\ c = StretchAt(cues, c.at)
         /\ c.left < c.middle /\ c.middle < c.right
<1>1. PICK at \in Beginnings(cues) : c = StretchAt(cues, at)
  BY DEF Candidates, Beginnings
<1>2. at \in Nat
  BY BeginningsAreFew
<1>3. /\ CuesBefore(cues, at) \in 0..Len(cues) /\ CuesBefore(cues, at + Probe) \in 0..Len(cues)
      /\ CuesBefore(cues, at + 2 * Probe) \in 0..Len(cues)
  BY CuesAreCounted
<1>4. c \in Stretches(Len(cues)) /\ c.at = at
  BY <1>1, <1>2, <1>3 DEF StretchAt, Stretches
<1>5. c.middle - c.left >= MinCues /\ c.right - c.middle >= MinCues
  BY DEF Candidates
<1>6. c.left \in Int /\ c.middle \in Int /\ c.right \in Int
  <2>1. c.left \in 0..Len(cues) /\ c.middle \in 0..Len(cues) /\ c.right \in 0..Len(cues)
    BY <1>4 DEF Stretches
  <2>2. \A i \in 0..Len(cues) : i \in Int
    OBVIOUS
  <2>. QED
    BY <2>1, <2>2
<1>7. c.left < c.middle /\ c.middle < c.right
  BY <1>5, <1>6, SampleNumbers
<1>. QED
  BY <1>1, <1>4, <1>7

LEMMA DensestIsOne ==
  ASSUME NEW cues \in Seq(Cue), NEW cs, cs \subseteq Candidates(cues), cs # {}
  PROVE  Densest(cs) \in cs
<1>. DEFINE D == {c.at : c \in cs}
            key == [a \in D |-> -Density(StretchAt(cues, a))]
<1>1. \A c \in cs : c.at \in Beginnings(cues) /\ c = StretchAt(cues, c.at) /\ Density(c) \in Int
                    /\ c.at \in Int
  <2>1. ASSUME NEW c \in cs
        PROVE  c.at \in Beginnings(cues) /\ c = StretchAt(cues, c.at) /\ Density(c) \in Int /\ c.at \in Int
    <3>1. c \in Stretches(Len(cues)) /\ c.at \in Beginnings(cues) /\ c = StretchAt(cues, c.at)
      BY CandidatesAre
    <3>2. c.at \in Int /\ Density(c) \in Int
      BY <3>1 DEF Stretches, Density
    <3>. QED
      BY <3>1, <3>2
  <2>. QED
    BY <2>1
<1>2. D # {} /\ D \subseteq Beginnings(cues) /\ D \subseteq Int
  BY <1>1
<1>3. IsFiniteSet(D)
  <2>. HIDE DEF D
  <2>. QED
    BY <1>2, BeginningsAreFew, FS_Subset
<1>4. key \in [D -> Int] /\ \A c \in cs : key[c.at] = -Density(c)
  <2>1. \A a \in D : Density(StretchAt(cues, a)) \in Int
    BY <1>1
  <2>2. \A c \in cs : c.at \in D
    OBVIOUS
  <2>. HIDE DEF D
  <2>. QED
    BY <1>1, <2>1, <2>2
<1>. HIDE DEF key
<1>5. \E i \in D : \A j \in D : key[i] < key[j] \/ (key[i] = key[j] /\ i <= j)
  <2>. HIDE DEF D
  <2>. QED
    BY <1>2, <1>3, <1>4, FirstInOrder
<1>6. PICK c \in cs : \A j \in D : key[c.at] < key[j] \/ (key[c.at] = key[j] /\ c.at <= j)
  BY <1>5
<1>7. \A d \in cs : Density(c) > Density(d) \/ (Density(c) = Density(d) /\ c.at <= d.at)
  <2>1. ASSUME NEW d \in cs
        PROVE  Density(c) > Density(d) \/ (Density(c) = Density(d) /\ c.at <= d.at)
    <3>1. d.at \in D
      OBVIOUS
    <3>2. key[c.at] = -Density(c) /\ key[d.at] = -Density(d) /\ Density(c) \in Int /\ Density(d) \in Int
      BY <1>1, <1>4
    <3>3. key[c.at] < key[d.at] \/ (key[c.at] = key[d.at] /\ c.at <= d.at)
      BY <1>6, <3>1
    <3>. QED
      BY <3>2, <3>3
  <2>. QED
    BY <2>1
<1>. HIDE DEF D
<1>. QED
  BY <1>7 DEF Densest

LEMMA TakeKeepsCandidates ==
  ASSUME NEW cues \in Seq(Cue), NEW sofar \in Seq(Candidates(cues)), NEW n
  PROVE  Take(cues, sofar, n) \in Seq(Candidates(cues))
<1>. DEFINE usable == Usable(cues, sofar, n)
            S == Candidates(cues)
<1>1. usable \subseteq S
  BY DEF Usable
<1>2. usable # {} => Densest(usable) \in S
  BY <1>1, DensestIsOne
<1>3. \/ Take(cues, sofar, n) = Append(sofar, Densest(usable)) /\ usable # {}
      \/ Take(cues, sofar, n) = sofar
  BY Zenon DEF Take
<1>. HIDE DEF usable, S
<1>. QED
  BY <1>2, <1>3 DEF S

LEMMA ChosenAreCandidates ==
  ASSUME NEW cues \in Seq(Cue)
  PROVE  Chosen(cues) \in Seq(Candidates(cues))
<1>. DEFINE none == <<>>
            S == Candidates(cues)
<1>1. none \in Seq(S)
  OBVIOUS
<1>. HIDE DEF none, S
<1>2. \A s \in Seq(S) : \A n \in 0..2 : Take(cues, s, n) \in Seq(S)
  BY TakeKeepsCandidates DEF S
<1>3. 0 \in 0..2 /\ 1 \in 0..2 /\ 2 \in 0..2
  OBVIOUS
<1>4. Take(cues, none, 0) \in Seq(S)
  BY <1>1, <1>2, <1>3
<1>5. Take(cues, Take(cues, none, 0), 1) \in Seq(S)
  BY <1>2, <1>3, <1>4
<1>6. Take(cues, Take(cues, Take(cues, none, 0), 1), 2) \in Seq(S)
  BY <1>2, <1>3, <1>5
<1>. QED
  BY <1>6 DEF Chosen, none, S

LEMMA DensestFirstAreCandidates ==
  ASSUME NEW cues \in Seq(Cue), NEW chosen \in Seq(Candidates(cues)), chosen # <<>>
  PROVE  DensestFirst(chosen) \in Seq(Candidates(cues)) /\ Len(DensestFirst(chosen)) = Len(chosen)
<1>. DEFINE n == Len(chosen)
            S == Candidates(cues)
            D == (-n)..(-1)
            key == [k \in D |-> -Density(chosen[-k])]
            fast == CHOOSE i \in DOMAIN chosen : \A j \in DOMAIN chosen :
                      \/ Density(chosen[i]) > Density(chosen[j])
                      \/ Density(chosen[i]) = Density(chosen[j]) /\ j <= i
<1>1. n \in Nat /\ n >= 1 /\ DOMAIN chosen = 1..n /\ \A i \in 1..n : chosen[i] \in S
  OBVIOUS
<1>2. \A i \in 1..n : Density(chosen[i]) \in Int
  <2>1. \A c \in S : Density(c) \in Int
    BY CandidatesAre DEF Stretches, Density
  <2>. HIDE DEF S
  <2>. QED
    BY <1>1, <2>1
<1>3. D \subseteq Int /\ IsFiniteSet(D) /\ D # {}
  <2>1. -n \in Int /\ -1 \in Int /\ -1 \in D /\ D \subseteq Int
    BY <1>1
  <2>2. IsFiniteSet(D)
    BY <2>1, FS_Interval
  <2>. QED
    BY <2>1, <2>2
<1>4. \A k \in D : -k \in 1..n /\ -Density(chosen[-k]) \in Int
  <2>1. \A k \in D : -k \in 1..n
    BY <1>1
  <2>. QED
    BY <1>2, <2>1
<1>5. key \in [D -> Int] /\ \A k \in D : key[k] = -Density(chosen[-k])
  BY <1>4
<1>. HIDE DEF key
<1>6. \E i \in D : \A j \in D : key[i] < key[j] \/ (key[i] = key[j] /\ i <= j)
  <2>. HIDE DEF D
  <2>. QED
    BY <1>3, <1>5, FirstInOrder
<1>7. PICK k \in D : \A l \in D : key[k] < key[l] \/ (key[k] = key[l] /\ k <= l)
  BY <1>6
<1>8. \A j \in 1..n : \/ Density(chosen[-k]) > Density(chosen[j])
                      \/ Density(chosen[-k]) = Density(chosen[j]) /\ j <= -k
  <2>1. ASSUME NEW j \in 1..n
        PROVE  \/ Density(chosen[-k]) > Density(chosen[j])
               \/ Density(chosen[-k]) = Density(chosen[j]) /\ j <= -k
    <3>1. -j \in D /\ -(-j) = j /\ k \in Int /\ j \in Int
      BY <1>1
    <3>2. key[-j] = -Density(chosen[j])
      BY <1>5, <3>1
    <3>3. key[k] < key[-j] \/ (key[k] = key[-j] /\ k <= -j)
      BY <1>7, <3>1
    <3>4. key[k] = -Density(chosen[-k]) /\ Density(chosen[-k]) \in Int /\ Density(chosen[j]) \in Int
      BY <1>2, <1>4, <1>5
    <3>. QED
      BY <3>1, <3>2, <3>3, <3>4
  <2>. QED
    BY <2>1
<1>9. fast \in 1..n
  <2>. DEFINE m == -k
  <2>1. m \in DOMAIN chosen
    BY <1>1, <1>4
  <2>2. \A j \in DOMAIN chosen : \/ Density(chosen[m]) > Density(chosen[j])
                                 \/ Density(chosen[m]) = Density(chosen[j]) /\ j <= m
    BY <1>1, <1>8
  <2>. HIDE DEF m
  <2>3. fast \in DOMAIN chosen
    BY <2>1, <2>2
  <2>. QED
    BY <1>1, <2>3
<1>10. DensestFirst(chosen) = [chosen EXCEPT ![1] = chosen[fast], ![fast] = chosen[1]]
  BY Zenon DEF DensestFirst
<1>. HIDE DEF fast, S, n
<1>11. 1 \in 1..n /\ chosen[1] \in S /\ chosen[fast] \in S /\ chosen \in [1..n -> S]
  <2>1. chosen \in Seq(S) /\ n = Len(chosen)
    BY DEF S, n
  <2>. QED
    BY <1>1, <1>9, <2>1
<1>12. [chosen EXCEPT ![1] = chosen[fast], ![fast] = chosen[1]] \in [1..n -> S]
  BY <1>9, <1>11
<1>13. \A x \in [1..n -> S] : x \in Seq(S) /\ Len(x) = n
  BY <1>1
<1>. QED
  BY <1>10, <1>12, <1>13 DEF S, n

(* A sample: where its stretches begin and the cues of their two probes.    *)
Sampling == [1..Regions -> [at : Int, probes : Seq(Int) \X Seq(Int)]]

LEMMA ProbeCuesAreNumbers ==
  ASSUME NEW cues \in Seq(Cue), NEW at \in Int, NEW from \in 0..Len(cues), NEW to \in 0..Len(cues)
  PROVE  ProbeCues(cues, at, from, to) \in Seq(Int)
<1>1. from \in Nat /\ to \in Nat /\ Len(cues) \in Nat /\ to <= Len(cues)
  OBVIOUS
<1>2. ASSUME NEW i \in 1..(to - from) PROVE cues[from + i].start - at \in Int
  <2>1. from + i \in 1..Len(cues)
    BY <1>1
  <2>. DEFINE cue == cues[from + i]
  <2>2. cue \in Cue
    BY <2>1
  <2>. HIDE DEF cue
  <2>3. cue.start \in Int
    BY <2>2 DEF Cue
  <2>4. cue.start - at \in Int
    BY <2>3
  <2>. QED
    BY <2>4 DEF cue
<1>3. CASE to - from < 0
  <2>1. 1..(to - from) = {} /\ 1..0 = {}
    BY <1>1, <1>3
  <2>2. ProbeCues(cues, at, from, to) = [i \in 1..0 |-> cues[from + i].start - at]
    BY <2>1 DEF ProbeCues
  <2>3. ProbeCues(cues, at, from, to) \in [1..0 -> Int] /\ 0 \in Nat
    BY <2>1, <2>2
  <2>. QED
    BY <2>3
<1>4. CASE to - from >= 0
  <2>. DEFINE n == to - from
  <2>1. n \in Nat
    BY <1>1, <1>4
  <2>2. ProbeCues(cues, at, from, to) \in [1..n -> Int]
    BY <1>2 DEF ProbeCues
  <2>. HIDE DEF n
  <2>. QED
    BY <2>1, <2>2
<1>. QED
  BY <1>1, <1>3, <1>4

LEMMA SampleIsTyped ==
  ASSUME NEW film \in Film, Sample(film) # <<>>
  PROVE  Sample(film) \in Sampling
<1>. DEFINE cues == ByStart(film)
            chosen == Chosen(cues)
            c(i) == DensestFirst(chosen)[i]
            taken(i) == [at |-> c(i).at,
                         probes |-> <<ProbeCues(cues, c(i).at, c(i).left, c(i).middle),
                                      ProbeCues(cues, c(i).at, c(i).middle, c(i).right)>>]
<1>1. film \in Seq(Cue)
  BY AlignerAssumption DEF Cue
<1>2. cues \in Seq(Cue)
  BY <1>1, ByStartIsCues
<1>3. ~(Len(chosen) < Regions) /\ Sample(film) = [i \in 1..Regions |-> taken(i)]
  BY Zenon DEF Sample
<1>. HIDE DEF cues
<1>4. chosen \in Seq(Candidates(cues))
  BY <1>2, ChosenAreCandidates
<1>. HIDE DEF chosen
<1>5. Len(chosen) \in Nat /\ Len(chosen) >= 3 /\ chosen # <<>>
  BY <1>3, <1>4 DEF Regions
<1>6. DensestFirst(chosen) \in Seq(Candidates(cues)) /\ Len(DensestFirst(chosen)) = Len(chosen)
  BY <1>2, <1>4, <1>5, DensestFirstAreCandidates
<1>7. ASSUME NEW i \in 1..Regions PROVE taken(i) \in [at : Int, probes : Seq(Int) \X Seq(Int)]
  <2>1. i \in 1..Len(DensestFirst(chosen))
    BY <1>5, <1>6 DEF Regions
  <2>2. c(i) \in Candidates(cues)
    BY <1>6, <2>1
  <2>. DEFINE d == c(i)
  <2>. HIDE DEF c
  <2>3. d \in Stretches(Len(cues))
    BY <1>2, <2>2, CandidatesAre
  <2>4. d.at \in Int /\ d.left \in 0..Len(cues) /\ d.middle \in 0..Len(cues) /\ d.right \in 0..Len(cues)
    BY <2>3 DEF Stretches
  <2>5. /\ ProbeCues(cues, d.at, d.left, d.middle) \in Seq(Int)
        /\ ProbeCues(cues, d.at, d.middle, d.right) \in Seq(Int)
    BY <1>2, <2>4, ProbeCuesAreNumbers
  <2>. QED
    BY <2>4, <2>5
<1>. HIDE DEF taken
<1>. QED
  BY <1>3, <1>7 DEF Sampling


LEMMA PackedAreNumbers ==
  ASSUME NEW sample \in Sampling, NEW selected \in Seq(1..Regions)
  PROVE  Packed(sample, selected) \in Seq(Int)
<1>. DEFINE Z == Int
            n == Len(selected)
            both(k) == sample[selected[k]].probes[1] \o sample[selected[k]].probes[2]
            part(k) == [i \in DOMAIN both(k) |-> both(k)[i] + (k - 1) * 2 * Probe]
            parts == [k \in DOMAIN selected |-> part(k)]
<1>1. n \in Nat /\ DOMAIN selected = 1..n /\ \A k \in 1..n : selected[k] \in 1..Regions
  <2>. DEFINE N == 1..Regions
  <2>1. selected \in Seq(N)
    OBVIOUS
  <2>. HIDE DEF N
  <2>2. n \in Nat /\ DOMAIN selected = 1..n /\ \A k \in 1..n : selected[k] \in N
    BY <2>1
  <2>. QED
    BY <2>2 DEF N
<1>2. ASSUME NEW k \in 1..n PROVE part(k) \in Seq(Z)
  <2>1. /\ sample[selected[k]].probes[1] \in Seq(Int)
        /\ sample[selected[k]].probes[2] \in Seq(Int)
    <3>1. sample[selected[k]].probes \in Seq(Int) \X Seq(Int)
      BY <1>1 DEF Sampling
    <3>. QED
      BY <3>1
  <2>2. both(k) \in Seq(Int)
    BY <2>1
  <2>. HIDE DEF both
  <2>. DEFINE m == Len(both(k))
              shift == (k - 1) * 2 * Probe
  <2>3. m \in Nat /\ DOMAIN both(k) = 1..m /\ \A i \in 1..m : both(k)[i] \in Int
    BY <2>2
  <2>4. shift \in Int
    <3>1. k - 1 \in Int /\ 2 \in Int /\ Probe \in Int
      BY <1>1, SampleNumbers
    <3>2. \A a, b \in Int : a * b \in Int
      BY Z3
    <3>. QED
      BY <3>1, <3>2
  <2>. HIDE DEF m, shift
  <2>5. [i \in 1..m |-> both(k)[i] + shift] \in [1..m -> Int]
    BY <2>3, <2>4
  <2>6. part(k) = [i \in 1..m |-> both(k)[i] + shift]
    BY <2>3 DEF shift
  <2>. QED
    BY <2>3, <2>5, <2>6
<1>. HIDE DEF part
<1>3. parts \in Seq(Seq(Z))
  BY <1>1, <1>2
<1>4. Packed(sample, selected) = FlattenSeq(parts)
  BY Zenon DEF Packed, parts, part, both
<1>. HIDE DEF parts, Z
<1>5. FlattenSeq(parts) \in Seq(Z)
  BY <1>3, FlattenIs
<1>. QED
  BY <1>4, <1>5 DEF Z

LEMMA ChronologicalIsOrder ==
  ASSUME NEW sample \in Sampling
  PROVE  Chronological(sample) \in Seq(1..Regions) /\ Len(Chronological(sample)) = Regions
<1>. DEFINE n == Regions
            key == [i \in DOMAIN sample |-> sample[i].at]
<1>1. n \in Nat /\ key \in [1..n -> Int] /\ n = 3
  BY DEF Sampling, Regions
<1>. HIDE DEF n, key
<1>2. Sorted(key) \in [1..n -> 1..n]
  BY <1>1, SortedSequence
<1>. DEFINE order == Sorted(key)
            N == 1..n
<1>3. order \in [1..n -> N] /\ n \in Nat
  BY <1>1, <1>2
<1>. HIDE DEF order, N
<1>4. order \in Seq(N) /\ Len(order) = n
  BY <1>3
<1>. QED
  BY <1>4 DEF order, N, Chronological, key, n

LEMMA CuesAreNumbers ==
  ASSUME NEW r \in Run, run[r].sample \in Sampling, run[r].step \in Step, run[r].step # "tier1"
  PROVE  CuesOf(r) \in Seq(Int)
<1>. DEFINE sample == run[r].sample
<1>1. CASE run[r].step \in {"fast-0", "fast-1"}
  <2>1. sample[1].probes \in Seq(Int) \X Seq(Int)
    <3>1. 1 \in 1..Regions
      BY DEF Regions
    <3>. QED
      BY <3>1 DEF Sampling
  <2>2. sample[1].probes[1] \in Seq(Int) /\ sample[1].probes[2] \in Seq(Int)
    BY <2>1
  <2>. HIDE DEF sample
  <2>3. CASE run[r].step = "fast-0"
    BY <2>2, <2>3 DEF CuesOf, sample
  <2>4. CASE run[r].step = "fast-1"
    BY <2>2, <2>4 DEF CuesOf, sample
  <2>. QED
    BY <1>1, <2>3, <2>4
<1>2. CASE run[r].step \in Composite
  <2>. DEFINE all == Chronological(sample)
              selected == Selected(r, run[r].step)
              N == 1..Regions
  <2>1. all \in Seq(N) /\ Len(all) = 3
    BY ChronologicalIsOrder DEF Regions
  <2>. HIDE DEF all, N
  <2>2. all # <<>>
    <3>1. all = <<>> => Len(all) = 0
      OBVIOUS
    <3>. QED
      BY <2>1, <3>1
  <2>3. Tail(all) \in Seq(N) /\ Front(all) \in Seq(N)
    BY <2>1, <2>2 DEF Front
  <2>4. selected \in Seq(N)
    BY <1>2, <2>1, <2>3 DEF Selected, Composite, all
  <2>5. Packed(sample, selected) \in Seq(Int)
    BY <2>4, PackedAreNumbers DEF N
  <2>6. CuesOf(r) = Packed(sample, selected)
    BY <1>2 DEF CuesOf, Composite
  <2>. QED
    BY <2>5, <2>6
<1>. QED
  BY <1>1, <1>2 DEF Step, Composite

LEMMA MovedIsNumbers ==
  ASSUME NEW starts \in Seq(Int), NEW m \in Move
  PROVE  Moved(starts, m) \in Seq(Int)
<1>1. m.first \in Int /\ m.second \in Int
  BY AlignerAssumption
<1>. DEFINE n == Len(starts)
            by(i) == IF 2 * i <= n THEN m.first ELSE m.second
<1>2. n \in Nat /\ DOMAIN starts = 1..n /\ \A i \in 1..n : starts[i] \in Int
  OBVIOUS
<1>. HIDE DEF n
<1>3. ASSUME NEW i \in 1..n PROVE AtLeastZero(starts[i] + by(i)) \in Int
  <2>1. by(i) \in Int /\ starts[i] \in Int
    BY <1>1, <1>2
  <2>. HIDE DEF by
  <2>. QED
    BY <2>1 DEF AtLeastZero
<1>4. Moved(starts, m) = [i \in 1..n |-> AtLeastZero(starts[i] + by(i))]
  BY <1>2 DEF Moved, n
<1>. HIDE DEF by
<1>. QED
  BY <1>2, <1>3, <1>4

(* What a measurement adds: a shift, with the alignment it was read off.    *)
LEMMA MeasurementIsRead ==
  ASSUME NEW r \in Run, run[r].sample \in Sampling, run[r].step \in Step, run[r].step # "tier1",
         NEW m \in Move, NEW deltas, deltas = Deltas(CuesOf(r), Moved(CuesOf(r), m)),
         PartialShift(deltas) # NoShift
  PROVE  Measures(deltas, PartialShift(deltas))
<1>. DEFINE starts == CuesOf(r)
            aligned == Moved(starts, m)
<1>1. starts \in Seq(Int)
  BY CuesAreNumbers
<1>2. aligned \in Seq(Int)
  BY <1>1, MovedIsNumbers
<1>. HIDE DEF starts, aligned
<1>3. Deltas(starts, aligned) \in Seq(Int)
  BY <1>1, <1>2, DeltasAreNumbers
<1>4. deltas \in Seq(Int)
  BY <1>3 DEF starts, aligned
<1>. QED
  BY <1>4, ShiftIsMeasured

-----------------------------------------------------------------------------
(* What a run has heard *)

Listening == {"extracting", "stitching", "joining", "measuring", "fitting"}

(* Shifts, each with the alignment it was read off.                         *)
Borne(measured, heard) ==
  /\ measured \in Seq(Int) /\ heard \in Seq(Seq(Int)) /\ Len(measured) = Len(heard)
  /\ \A k \in 1..Len(measured) : Measures(heard[k], measured[k])

(* While it listens a run has a sample, and its shifts bear what it heard.  *)
HeardOf(r) ==
  run[r].pc \in Listening => run[r].sample \in Sampling /\ Borne(run[r].measured, run[r].heard)

HeardInv == (\A r \in Run : HeardOf(r)) /\ ShiftIsConfirmed

LEMMA NothingIsBorne == Borne(<<>>, <<>>)
<1>. DEFINE none == <<>>
<1>1. none \in Seq(Int) /\ none \in Seq(Seq(Int)) /\ Len(none) = 0 /\ 1..0 = {}
  OBVIOUS
<1>. HIDE DEF none
<1>2. Borne(none, none)
  BY <1>1 DEF Borne
<1>. QED
  BY <1>2 DEF none

LEMMA OneMoreIsBorne ==
  ASSUME NEW measured, NEW heard, Borne(measured, heard), NEW deltas, NEW shift, Measures(deltas, shift)
  PROVE  Borne(Append(measured, shift), Append(heard, deltas))
<1>. DEFINE ms == Append(measured, shift)
            hs == Append(heard, deltas)
            n == Len(measured)
<1>1. measured \in Seq(Int) /\ heard \in Seq(Seq(Int)) /\ Len(heard) = n /\ n \in Nat
      /\ \A k \in 1..n : Measures(heard[k], measured[k])
  BY DEF Borne
<1>2. shift \in Int /\ deltas \in Seq(Int)
  BY DEF Measures
<1>3. /\ ms \in Seq(Int) /\ Len(ms) = n + 1 /\ ms[n + 1] = shift
      /\ \A k \in 1..n : ms[k] = measured[k]
  BY <1>1, <1>2
<1>4. /\ hs \in Seq(Seq(Int)) /\ Len(hs) = n + 1 /\ hs[n + 1] = deltas
      /\ \A k \in 1..n : hs[k] = heard[k]
  <2>. DEFINE Z == Seq(Int)
  <2>1. heard \in Seq(Z) /\ deltas \in Z /\ Len(heard) = n
    BY <1>1, <1>2
  <2>. HIDE DEF Z, n
  <2>2. /\ hs \in Seq(Z) /\ Len(hs) = n + 1 /\ hs[n + 1] = deltas
        /\ \A k \in 1..n : hs[k] = heard[k]
    BY <2>1
  <2>. QED
    BY <2>2 DEF Z
<1>. HIDE DEF ms, hs, n
<1>5. \A k \in 1..(n + 1) : k \in 1..n \/ k = n + 1
  BY <1>1
<1>6. \A k \in 1..Len(ms) : Measures(hs[k], ms[k])
  BY <1>1, <1>3, <1>4, <1>5
<1>7. Borne(ms, hs)
  BY <1>3, <1>4, <1>6 DEF Borne
<1>. QED
  BY <1>7 DEF ms, hs

(* What is settled on is backed by two of what was heard.                   *)
LEMMA ConsensusIsBacked ==
  ASSUME NEW measured, NEW heard, Borne(measured, heard), Consensus(measured) # NoShift
  PROVE  \E i, j \in DOMAIN heard : /\ i # j
                                    /\ Backs(heard[i], Consensus(measured))
                                    /\ Backs(heard[j], Consensus(measured))
<1>. DEFINE found == Consensus(measured)
<1>1. /\ measured \in Seq(Int) /\ heard \in Seq(Seq(Int)) /\ Len(measured) = Len(heard)
      /\ \A k \in 1..Len(measured) : Measures(heard[k], measured[k])
  BY DEF Borne
<1>2. TwoAgree(measured, found)
  BY <1>1, ConsensusAgrees
<1>. HIDE DEF found
<1>3. found \in Int
  BY <1>2 DEF TwoAgree
<1>4. PICK i, j \in 1..Len(measured) : /\ i # j
                                       /\ Distance(measured[i], found) <= Agreement
                                       /\ Distance(measured[j], found) <= Agreement
  BY <1>2 DEF TwoAgree
<1>5. Backs(heard[i], found) /\ Backs(heard[j], found)
  BY <1>1, <1>3, <1>4, AgreeingIsBacked
<1>6. i \in DOMAIN heard /\ j \in DOMAIN heard
  BY <1>1, <1>4
<1>. QED
  BY <1>4, <1>5, <1>6 DEF found

(* A run takes a step that says nothing of a shift.                         *)
LEMMA SilentStep ==
  ASSUME HeardInv, NEW r \in Run, \A q \in Run \ {r} : run'[q] = run[q],
         run'[r].pc \in Listening => /\ run'[r].sample \in Sampling
                                     /\ Borne(run'[r].measured, run'[r].heard),
         reply'.shift = NoShift
  PROVE  HeardInv'
<1>1. ASSUME NEW q \in Run PROVE HeardOf(q)'
  <2>1. CASE q = r
    BY <2>1 DEF HeardOf
  <2>2. CASE q # r
    <3>1. HeardOf(q) /\ run'[q] = run[q]
      BY <2>2 DEF HeardInv
    <3>. QED
      BY <3>1 DEF HeardOf
  <2>. QED
    BY <2>1, <2>2
<1>. QED
  BY <1>1 DEF HeardInv, ShiftIsConfirmed

(* It goes on with what it has.                                             *)
LEMMA CarryingStep ==
  ASSUME HeardInv, NEW r \in Run, \A q \in Run \ {r} : run'[q] = run[q],
         run'[r].pc \in Listening => /\ run[r].pc \in Listening /\ run'[r].sample = run[r].sample
                                     /\ run'[r].measured = run[r].measured /\ run'[r].heard = run[r].heard,
         reply'.shift = NoShift
  PROVE  HeardInv'
<1>1. run'[r].pc \in Listening => /\ run'[r].sample \in Sampling
                                  /\ Borne(run'[r].measured, run'[r].heard)
  BY DEF HeardInv, HeardOf
<1>. QED
  BY <1>1, SilentStep

LEMMA EndingStep ==
  ASSUME HeardInv, RunsInv, NEW r \in Run, run' = [run EXCEPT ![r] = Idle], reply'.shift = NoShift
  PROVE  HeardInv'
<1>1. PICK S : run \in [Run -> RunsOver(S)]
  BY DEF RunsInv, StateTyped
<1>2. run'[r] = Idle /\ \A q \in Run \ {r} : run'[q] = run[q]
  BY <1>1
<1>3. run'[r].pc \notin Listening
  BY <1>2 DEF Idle, Listening
<1>. QED
  BY <1>2, <1>3, CarryingStep

LEMMA MostRepliesAreSilent ==
  /\ Quiet => reply'.shift = NoShift
  /\ \A id : reply' = Failed(id) => reply'.shift = NoShift
  /\ \A id, from : reply' = Aligned(id, from) => reply'.shift = NoShift
<1>1. Silence.shift = NoShift
  BY DEF Silence
<1>2. ASSUME NEW id PROVE Failed(id).shift = NoShift
  BY DEF Failed, Silence
<1>3. ASSUME NEW id, NEW from PROVE Aligned(id, from).shift = NoShift
  BY DEF Aligned, Silence
<1>. QED
  BY <1>1, <1>2, <1>3 DEF Quiet


LEMMA StartReferenceIsHeard ==
  ASSUME HeardInv, RunsInv, NEW r \in Run, StartReference(r)
  PROVE  HeardInv'
<1>1. PICK S : run \in [Run -> RunsOver(S)]
  BY DEF RunsInv, StateTyped
<1>2. ~Active(r)
  BY DEF StartReference
<1>3. CASE run' = run /\ reply' = Failed(<<epoch, seq>>)
  BY <1>3, CarryingStep, MostRepliesAreSilent
<1>4. CASE run' = [run EXCEPT ![r].pc = "writing", ![r].tag = seq] /\ Quiet
  <2>1. run'[r].pc = "writing" /\ \A q \in Run \ {r} : run'[q] = run[q]
    BY <1>1, <1>4 DEF RunsOver
  <2>. QED
    BY <1>4, <2>1, CarryingStep, MostRepliesAreSilent DEF Listening
<1>. QED
  BY <1>3, <1>4 DEF StartReference

LEMMA ReferenceIsHeard ==
  ASSUME HeardInv, RunsInv, NEW r \in Run, WriteReference(r) \/ FinishReference(r)
  PROVE  HeardInv'
<1>1. PICK S : run \in [Run -> RunsOver(S)]
  BY DEF RunsInv, StateTyped
<1>2. CASE run' = [run EXCEPT ![r] = Idle]
           /\ ((\E id : reply' = Failed(id)) \/ \E id, from : reply' = Aligned(id, from))
  BY <1>2, EndingStep, MostRepliesAreSilent
<1>3. CASE run' = [run EXCEPT ![r].pc = "aligning", ![r].left = Tier1Budget] /\ Quiet
  <2>1. run'[r].pc = "aligning" /\ \A q \in Run \ {r} : run'[q] = run[q]
    BY <1>1, <1>3 DEF RunsOver
  <2>. QED
    BY <1>3, <2>1, CarryingStep, MostRepliesAreSilent DEF Listening
<1>4. CASE WriteReference(r)
  BY <1>2, <1>3, <1>4 DEF WriteReference, Fails, Ends
<1>5. CASE FinishReference(r)
  BY <1>2, <1>5 DEF FinishReference, Fails, Ends
<1>. QED
  BY <1>4, <1>5

(* A run begins to listen with a sample, and nothing heard.                 *)
LEMMA StartAudioIsHeard ==
  ASSUME HeardInv, RunsInv, NEW r \in Run, StartAudio(r)
  PROVE  HeardInv'
<1>1. PICK S : run \in [Run -> RunsOver(S)]
  BY DEF RunsInv, StateTyped
<1>2. run[r] = Idle
  BY DEF StartAudio, RunsInv, Place, Active
<1>3. CASE run' = run /\ reply' = Failed(<<epoch, seq>>)
  BY <1>3, CarryingStep, MostRepliesAreSilent
<1>4. ASSUME NEW film \in Film, Sample(film) # <<>>,
             run' = [run EXCEPT ![r].pc = "extracting", ![r].tag = seq, ![r].sample = Sample(film),
                                ![r].busy = {"batch-0"}, ![r].left = ExtractionBudget(0, FastBudget)],
             Quiet
      PROVE  HeardInv'
  <2>. DEFINE sample == Sample(film)
              left == ExtractionBudget(0, FastBudget)
              busy == {"batch-0"}
  <2>1. sample \in Sampling
    BY <1>4, SampleIsTyped
  <2>2. run' = [run EXCEPT ![r].pc = "extracting", ![r].tag = seq, ![r].sample = sample,
                           ![r].busy = busy, ![r].left = left]
    BY <1>4
  <2>. HIDE DEF sample, left, busy
  <2>3. /\ run'[r] = [Idle EXCEPT !.pc = "extracting", !.tag = seq, !.sample = sample, !.busy = busy,
                                  !.left = left]
        /\ \A q \in Run \ {r} : run'[q] = run[q]
    BY <1>1, <1>2, <2>2
  <2>4. run'[r].sample = sample /\ run'[r].measured = <<>> /\ run'[r].heard = <<>>
    BY <2>3 DEF Idle
  <2>5. Borne(run'[r].measured, run'[r].heard)
    BY <2>4, NothingIsBorne
  <2>. QED
    BY <1>4, <2>1, <2>3, <2>4, <2>5, SilentStep, MostRepliesAreSilent
<1>. QED
  BY <1>3, <1>4 DEF StartAudio

LEMMA ExtractionIsHeard ==
  ASSUME HeardInv, RunsInv, NEW r \in Run, NEW b \in Batch, Extracted(r, b) \/ NotExtracted(r, b)
  PROVE  HeardInv'
<1>1. PICK S : run \in [Run -> RunsOver(S)]
  BY DEF RunsInv, StateTyped
<1>2. run[r].pc \in Listening /\ Quiet
  BY DEF Extracted, NotExtracted, Listening
<1>3. /\ run'[r].sample = run[r].sample
      /\ run'[r].measured = run[r].measured /\ run'[r].heard = run[r].heard
      /\ \A q \in Run \ {r} : run'[q] = run[q]
  <2>1. CASE Extracted(r, b)
    <3>1. run' = [run EXCEPT ![r].busy = run[r].busy \ {b}]
      BY <2>1 DEF Extracted
    <3>. QED
      BY <1>1, <3>1 DEF RunsOver
  <2>2. CASE NotExtracted(r, b)
    <3>1. run' = [run EXCEPT ![r].busy = run[r].busy \ {b}, ![r].broken = TRUE]
      BY <2>2 DEF NotExtracted
    <3>. QED
      BY <1>1, <3>1 DEF RunsOver
  <2>. QED
    BY <2>1, <2>2
<1>. QED
  BY <1>2, <1>3, CarryingStep, MostRepliesAreSilent

LEMMA ListenIsHeard ==
  ASSUME HeardInv, RunsInv, NEW r \in Run, Listen(r)
  PROVE  HeardInv'
<1>1. PICK S : run \in [Run -> RunsOver(S)]
  BY DEF RunsInv, StateTyped
<1>2. run[r].pc \in Listening
  BY DEF Listen, Listening
<1>3. CASE GivesUp(r, Sounds(r))
  BY <1>3, EndingStep, MostRepliesAreSilent DEF GivesUp, Fails, Ends
<1>4. CASE Quiet /\ run' = [run EXCEPT ![r].pc = "measuring", ![r].step = "fast-0"]
  <2>1. /\ run'[r].sample = run[r].sample
        /\ run'[r].measured = run[r].measured /\ run'[r].heard = run[r].heard
        /\ \A q \in Run \ {r} : run'[q] = run[q]
    BY <1>1, <1>4 DEF RunsOver
  <2>. QED
    BY <1>2, <1>4, <2>1, CarryingStep, MostRepliesAreSilent
<1>5. CASE Quiet /\ run' = [run EXCEPT ![r].pc = "stitching", ![r].step = "full", ![r].left = 0]
  <2>1. /\ run'[r].sample = run[r].sample
        /\ run'[r].measured = run[r].measured /\ run'[r].heard = run[r].heard
        /\ \A q \in Run \ {r} : run'[q] = run[q]
    BY <1>1, <1>5 DEF RunsOver
  <2>. QED
    BY <1>2, <1>5, <2>1, CarryingStep, MostRepliesAreSilent
<1>. QED
  BY <1>3, <1>4, <1>5 DEF Listen

LEMMA FallbackIsHeard ==
  ASSUME HeardInv, RunsInv, NEW r \in Run, NEW files, run[r].pc \in Listening, Fallback(r, files)
  PROVE  HeardInv'
<1>1. PICK S : run \in [Run -> RunsOver(S)]
  BY DEF RunsInv, StateTyped
<1>. DEFINE budget == ExtractionBudget(run[r].elapsed, FallbackBudget)
            none == <<>>
            two == {"batch-1", "batch-2"}
<1>2. CASE Fails(r)
  BY <1>2, EndingStep, MostRepliesAreSilent DEF Fails, Ends
<1>3. CASE Quiet /\ run' = [run EXCEPT ![r].pc = "extracting", ![r].step = "full", ![r].busy = two,
                                       ![r].left = budget, ![r].measured = none, ![r].heard = none]
  <2>. HIDE DEF budget, none, two
  <2>1. /\ run'[r].sample = run[r].sample /\ run'[r].measured = none /\ run'[r].heard = none
        /\ \A q \in Run \ {r} : run'[q] = run[q]
    BY <1>1, <1>3 DEF RunsOver
  <2>2. Borne(none, none)
    BY NothingIsBorne DEF none
  <2>3. run[r].sample \in Sampling
    BY DEF HeardInv, HeardOf
  <2>. QED
    BY <1>3, <2>1, <2>2, <2>3, SilentStep, MostRepliesAreSilent
<1>. QED
  BY <1>2, <1>3 DEF Fallback

LEMMA AfterMeasuringIsHeard ==
  ASSUME HeardInv, RunsInv, NEW r \in Run, NEW files, run[r].pc \in Listening, run[r].step # "tier1",
         NEW measured, NEW heard, Borne(measured, heard), AfterMeasuring(r, files, measured, heard)
  PROVE  HeardInv'
<1>. DEFINE found == Consensus(measured)
            On(at, to) ==
              /\ run' = [run EXCEPT ![r].pc = at, ![r].step = to, ![r].left = 0,
                                    ![r].measured = measured, ![r].heard = heard]
              /\ scratch' = files /\ Quiet
            Settled ==
              /\ Ends(r, [Aligned(Me(r), Me(r)) EXCEPT !.shift = found, !.heard = heard])
              /\ scratch' = Without(files, Sounds(r))
            Unconfirmed == Fails(r) /\ scratch' = Without(files, Sounds(r))
            step == run[r].step
<1>0. PICK S : run \in [Run -> RunsOver(S)]
  BY DEF RunsInv, StateTyped
<1>1. step \in {"fast-0", "fast-1", "full", "pair-0", "pair-1"}
  <2>1. step \in Step
    BY <1>0 DEF RunsOver
  <2>. QED
    BY <2>1 DEF Step
<1>2. CASE Unconfirmed
  BY <1>2, EndingStep, MostRepliesAreSilent DEF Fails, Ends
<1>3. CASE Fallback(r, files)
  BY <1>3, FallbackIsHeard
<1>4. CASE Settled /\ found # NoShift
  <2>1. run' = [run EXCEPT ![r] = Idle]
        /\ reply' = [Aligned(Me(r), Me(r)) EXCEPT !.shift = found, !.heard = heard]
    BY <1>4 DEF Ends
  <2>2. reply'.shift = found /\ reply'.heard = heard
    <3>. HIDE DEF found
    <3>. QED
      BY <2>1 DEF Aligned, Silence
  <2>3. ShiftIsConfirmed'
    BY <1>4, <2>2, ConsensusIsBacked DEF ShiftIsConfirmed
  <2>4. run'[r].pc \notin Listening /\ \A q \in Run \ {r} : run'[q] = run[q]
    BY <1>0, <2>1 DEF Idle, Listening
  <2>5. \A q \in Run : HeardOf(q)'
    BY <2>4 DEF HeardInv, HeardOf
  <2>. QED
    BY <2>3, <2>5 DEF HeardInv
<1>5. ASSUME NEW at, NEW to, On(at, to) PROVE HeardInv'
  <2>. DEFINE zero == 0
  <2>1. Quiet /\ run' = [run EXCEPT ![r].pc = at, ![r].step = to, ![r].left = zero,
                                    ![r].measured = measured, ![r].heard = heard]
    BY <1>5
  <2>. HIDE DEF zero
  <2>2. /\ run'[r].sample = run[r].sample /\ run'[r].measured = measured /\ run'[r].heard = heard
        /\ \A q \in Run \ {r} : run'[q] = run[q]
    BY <1>0, <2>1 DEF RunsOver
  <2>3. run[r].sample \in Sampling
    BY DEF HeardInv, HeardOf
  <2>. QED
    BY <2>1, <2>2, <2>3, SilentStep, MostRepliesAreSilent
<1>6. \/ On("measuring", "fast-1") \/ On("stitching", "pair-0") \/ On("stitching", "pair-1")
      \/ (Settled /\ found # NoShift) \/ Fallback(r, files) \/ Unconfirmed
  <2>. HIDE DEF found
  <2>. QED
    BY <1>1, Zenon DEF AfterMeasuring, found
<1>. QED
  BY <1>2, <1>3, <1>4, <1>5, <1>6

LEMMA UnmeasuredIsHeard ==
  ASSUME HeardInv, RunsInv, NEW r \in Run, NEW files, run[r].pc \in Listening, run[r].step # "tier1",
         Unmeasured(r, files)
  PROVE  HeardInv'
<1>1. Borne(run[r].measured, run[r].heard)
  BY DEF HeardInv, HeardOf
<1>. DEFINE measured == run[r].measured
            heard == run[r].heard
<1>2. Borne(measured, heard) /\ AfterMeasuring(r, files, measured, heard)
  BY <1>1 DEF Unmeasured
<1>. HIDE DEF measured, heard
<1>. QED
  BY <1>2, AfterMeasuringIsHeard

LEMMA StageIsHeard ==
  ASSUME HeardInv, RunsInv, NEW r \in Run, Stitch(r) \/ Stitched(r) \/ Measure(r)
  PROVE  HeardInv'
<1>1. PICK S : run \in [Run -> RunsOver(S)]
  BY DEF RunsInv, StateTyped
<1>2. run[r].pc \in Listening /\ run[r].step # "tier1"
  <2>1. run[r].pc \in {"stitching", "joining", "measuring"} /\ Place(r)
    BY DEF Stitch, Stitched, Measure, RunsInv
  <2>. QED
    BY <2>1 DEF Place, Listening, Composite
<1>3. ASSUME NEW files, Unmeasured(r, files) PROVE HeardInv'
  BY <1>2, <1>3, UnmeasuredIsHeard
<1>4. ASSUME NEW at, NEW left, Quiet, run' = [run EXCEPT ![r].pc = at, ![r].left = left] PROVE HeardInv'
  <2>1. /\ run'[r].sample = run[r].sample
        /\ run'[r].measured = run[r].measured /\ run'[r].heard = run[r].heard
        /\ \A q \in Run \ {r} : run'[q] = run[q]
    BY <1>1, <1>4 DEF RunsOver
  <2>. QED
    BY <1>2, <1>4, <2>1, CarryingStep, MostRepliesAreSilent
<1>5. CASE Stitch(r)
  BY <1>3, <1>4, <1>5 DEF Stitch
<1>6. CASE Stitched(r)
  BY <1>3, <1>4, <1>6 DEF Stitched
<1>7. CASE Measure(r)
  BY <1>3, <1>4, <1>7 DEF Measure
<1>. QED
  BY <1>5, <1>6, <1>7

LEMMA MeasuredIsHeard ==
  ASSUME HeardInv, RunsInv, NEW r \in Run, Measured(r)
  PROVE  HeardInv'
<1>. DEFINE files == AfterMeasurement(scratch, r)
            starts == CuesOf(r)
<1>1. PICK S : run \in [Run -> RunsOver(S)]
  BY DEF RunsInv, StateTyped
<1>2. run[r].pc \in Listening /\ run[r].step # "tier1" /\ run[r].step \in Step
  <2>1. run[r].pc = "fitting" /\ Place(r)
    BY DEF Measured, RunsInv
  <2>. QED
    BY <1>1, <2>1 DEF Place, Listening, RunsOver
<1>3. run[r].sample \in Sampling /\ Borne(run[r].measured, run[r].heard)
  BY <1>2 DEF HeardInv, HeardOf
<1>4. CASE Unmeasured(r, files)
  BY <1>2, <1>4, UnmeasuredIsHeard
<1>5. ASSUME NEW m \in Move, NEW deltas, NEW shift, deltas = Deltas(starts, Moved(starts, m)),
             shift = PartialShift(deltas), shift # NoShift,
             AfterMeasuring(r, files, Append(run[r].measured, shift), Append(run[r].heard, deltas))
      PROVE  HeardInv'
  <2>1. Measures(deltas, shift)
    BY <1>2, <1>3, <1>5, MeasurementIsRead
  <2>. DEFINE measured == Append(run[r].measured, shift)
              heard == Append(run[r].heard, deltas)
  <2>2. Borne(measured, heard)
    BY <1>3, <2>1, OneMoreIsBorne
  <2>3. AfterMeasuring(r, files, measured, heard)
    BY <1>5
  <2>. HIDE DEF measured, heard, files
  <2>. QED
    BY <1>2, <2>2, <2>3, AfterMeasuringIsHeard
<1>6. ASSUME NEW m \in Move,
             LET deltas == Deltas(starts, Moved(starts, m))
                 shift == PartialShift(deltas)
             IN IF shift = NoShift THEN Unmeasured(r, files)
                ELSE AfterMeasuring(r, files, Append(run[r].measured, shift), Append(run[r].heard, deltas))
      PROVE  HeardInv'
  <2>. DEFINE deltas == Deltas(starts, Moved(starts, m))
              shift == PartialShift(deltas)
  <2>1. \/ Unmeasured(r, files)
        \/ shift # NoShift
           /\ AfterMeasuring(r, files, Append(run[r].measured, shift), Append(run[r].heard, deltas))
    BY <1>6, Zenon
  <2>2. deltas = Deltas(starts, Moved(starts, m)) /\ shift = PartialShift(deltas)
    OBVIOUS
  <2>. HIDE DEF deltas, shift, files, starts
  <2>. QED
    BY <1>4, <1>5, <2>1, <2>2
<1>. QED
  BY <1>4, <1>6 DEF Measured

(* What happens around the runs leaves what they heard.                     *)
LEMMA OthersAreHeard ==
  ASSUME HeardInv, RunsInv, Restart \/ Condemn \/ Unlink \/ Tick
  PROVE  HeardInv'
<1>1. PICK S : run \in [Run -> RunsOver(S)]
  BY DEF RunsInv, StateTyped
<1>2. reply'.shift = NoShift
  BY MostRepliesAreSilent DEF Restart, Condemn, Unlink, Tick
<1>3. ASSUME NEW r \in Run
      PROVE  run'[r].pc \in Listening => /\ run[r].pc \in Listening /\ run'[r].sample = run[r].sample
                                         /\ run'[r].measured = run[r].measured
                                         /\ run'[r].heard = run[r].heard
  <2>1. CASE Restart
    <3>1. run'[r] = Idle
      BY <2>1 DEF Restart
    <3>. QED
      BY <3>1 DEF Idle, Listening
  <2>2. CASE Condemn \/ Unlink
    BY <2>2 DEF Condemn, Unlink
  <2>3. CASE Tick
    <3>1. run'[r] = IF Active(r) THEN [run[r] EXCEPT !.elapsed = @ + 1, !.left = @ - 1] ELSE run[r]
      BY <2>3 DEF Tick
    <3>. QED
      BY <1>1, <3>1 DEF RunsOver
  <2>. QED
    BY <2>1, <2>2, <2>3
<1>4. ASSUME NEW r \in Run PROVE HeardOf(r)'
  BY <1>3 DEF HeardInv, HeardOf
<1>. QED
  BY <1>2, <1>4 DEF HeardInv, ShiftIsConfirmed

LEMMA HeardInvIsKept ==
  ASSUME HeardInv, RunsInv, [AlignerNext]_alignerVars
  PROVE  HeardInv'
<1>1. CASE UNCHANGED alignerVars
  <2>1. run' = run /\ reply' = reply
    BY <1>1 DEF alignerVars
  <2>2. \A r \in Run : HeardOf(r)'
    BY <2>1 DEF HeardInv, HeardOf
  <2>. QED
    BY <2>1, <2>2 DEF HeardInv, ShiftIsConfirmed
<1>2. ASSUME NEW r \in Run, StartReference(r) \/ WriteReference(r) \/ FinishReference(r) PROVE HeardInv'
  BY <1>2, StartReferenceIsHeard, ReferenceIsHeard
<1>3. ASSUME NEW r \in Run,
             StartAudio(r) \/ Listen(r) \/ \E b \in Batch : Extracted(r, b) \/ NotExtracted(r, b)
      PROVE  HeardInv'
  BY <1>3, StartAudioIsHeard, ListenIsHeard, ExtractionIsHeard
<1>4. ASSUME NEW r \in Run, Stitch(r) \/ Stitched(r) \/ Measure(r) \/ Measured(r) PROVE HeardInv'
  BY <1>4, StageIsHeard, MeasuredIsHeard
<1>5. ASSUME NEW r \in Run, HangUp(r) PROVE HeardInv'
  BY <1>5, EndingStep, MostRepliesAreSilent DEF HangUp
<1>6. CASE Restart \/ Condemn \/ Unlink \/ Tick
  BY <1>6, OthersAreHeard
<1>. QED
  BY <1>1, <1>2, <1>3, <1>4, <1>5, <1>6 DEF AlignerNext

LEMMA HeardInvHoldsFirst == AlignerInit => HeardInv
<1>. SUFFICES ASSUME AlignerInit PROVE HeardInv
  OBVIOUS
<1>1. \A r \in Run : HeardOf(r)
  BY DEF AlignerInit, Idle, HeardOf, Listening
<1>2. reply.shift = NoShift
  BY DEF AlignerInit, Silence
<1>. QED
  BY <1>1, <1>2 DEF HeardInv, ShiftIsConfirmed

(* ShiftIsConfirmed, for any films, any moves alass may find and any        *)
(* tolerances: a text is shifted only to where two alignments of it put it, *)
(* each by three of its cues or more and three quarters of them, however    *)
(* many batches were read, gave nothing or were dropped with the first      *)
(* round (sync.rs, partial_audio_shift and consensus_shift).                *)
THEOREM TwoAlignmentsAgree == AlignerSpec => []ShiftIsConfirmed
<1>1. AlignerInit => HeardInv
  BY HeardInvHoldsFirst
<1>2. HeardInv /\ RunsInv /\ [AlignerNext]_alignerVars => HeardInv'
  BY HeardInvIsKept
<1>3. HeardInv => ShiftIsConfirmed
  BY DEF HeardInv
<1>. QED
  BY <1>1, <1>2, <1>3, RunsInvHolds, PTL DEF AlignerSpec
=============================================================================
