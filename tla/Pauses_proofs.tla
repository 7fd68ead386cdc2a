--------------------------- MODULE Pauses_proofs ---------------------------
(***************************************************************************)
(* Proofs about Pauses, for any number of credentials, calls and waits:    *)
(* its type, that a refusal a service named a wait for stays remembered,   *)
(* that no call leaves while one is, and the three bounds.                 *)
(***************************************************************************)
EXTENDS Pauses, FiniteSetTheorems, TLAPS

(* Revisions are handed out once, so no call can have left under a later one. *)
RevisionsAreOld ==
  /\ \A k \in Key : pause[k] # NoPause => pause[k].generation \in 1..sequence
  /\ \A c \in Call : seen[c] <= sequence

(* A call that could clear a pause left when every wait named so far was over. *)
MayOnlyClearTheLapsed ==
  \A c \in Call :
    pc[c] = "flying" /\ pause[ask[c]] # NoPause /\ pause[ask[c]].generation = seen[c]
      => told[ask[c]] <= now

(* A call that is not idle names a credential and keeps a semaphore. *)
Shape ==
  \A c \in Call : pc[c] # "idle" => ask[c] \in Key /\ sem[c] \in Sem

IInv ==
  /\ TypeOK
  /\ Shape
  /\ RevisionsAreOld
  /\ RefusalRemembered
  /\ MayOnlyClearTheLapsed

LEMMA RemovalIsASequence ==
  ASSUME NEW S, NEW s \in Seq(S), NEW i \in 1..Len(s)
  PROVE  RemoveAt(s, i) \in Seq(S)
<1>1. Len(s) \in Nat
  OBVIOUS
<1>2. SubSeq(s, 1, i-1) \in Seq(S) /\ SubSeq(s, i+1, Len(s)) \in Seq(S)
  BY <1>1
<1>. QED
  BY <1>2 DEF RemoveAt

LEMMA InitIInv == Init => IInv
BY PausesAssumption
   DEF Init, IInv, TypeOK, Shape, RevisionsAreOld, RefusalRemembered, Covers,
       MayOnlyClearTheLapsed, Phase

-----------------------------------------------------------------------------
(* Admission leaves the table of pauses alone. *)

LEMMA AcquireKeepsIInv ==
  ASSUME IInv, NEW c \in Call, NEW k \in Key, Acquire(c, k)
  PROVE  IInv'
<1>1. SweptWindow \in [Key -> Sem \cup {NoSem}]
  BY DEF SweptWindow, IInv, TypeOK
<1>2. PICK s \in Sem : /\ window' = [SweptWindow EXCEPT ![k] = s]
                       /\ sem' = [sem EXCEPT ![c] = s]
  BY <1>1 DEF Acquire
<1>3. TypeOK'
  BY <1>1, <1>2 DEF IInv, TypeOK, Acquire, Phase
<1>4. Shape'
  BY <1>2 DEF IInv, TypeOK, Shape, Acquire
<1>5. RevisionsAreOld' /\ RefusalRemembered'
  BY DEF IInv, RevisionsAreOld, RefusalRemembered, Covers, Acquire
<1>6. MayOnlyClearTheLapsed'
  BY DEF IInv, TypeOK, MayOnlyClearTheLapsed, Acquire
<1>. QED
  BY <1>3, <1>4, <1>5, <1>6 DEF IInv

LEMMA AdmitKeepsIInv ==
  ASSUME IInv, NEW c \in Call, Admit(c)
  PROVE  IInv'
<1>1. line' \in Seq(Call)
  BY RemovalIsASequence DEF Admit, IInv, TypeOK
<1>2. TypeOK' /\ Shape'
  BY <1>1 DEF IInv, TypeOK, Shape, Admit, Phase
<1>3. RevisionsAreOld' /\ RefusalRemembered'
  BY DEF IInv, RevisionsAreOld, RefusalRemembered, Covers, Admit
<1>4. MayOnlyClearTheLapsed'
  BY DEF IInv, TypeOK, MayOnlyClearTheLapsed, Admit
<1>. QED
  BY <1>2, <1>3, <1>4 DEF IInv

(* A call that ends touches neither the pauses nor another call. *)
LEMMA EndingKeepsIInv ==
  ASSUME IInv, NEW c \in Call, Done(c), line' \in Seq(Call),
         UNCHANGED <<now, pause, sequence, window, seen, told, quota, spent>>
  PROVE  IInv'
<1>1. TypeOK' /\ Shape'
  BY DEF IInv, TypeOK, Shape, Done, Phase
<1>2. RevisionsAreOld' /\ RefusalRemembered'
  BY DEF IInv, RevisionsAreOld, RefusalRemembered, Covers
<1>3. MayOnlyClearTheLapsed'
  BY DEF IInv, TypeOK, MayOnlyClearTheLapsed, Done
<1>. QED
  BY <1>1, <1>2, <1>3 DEF IInv

LEMMA DispatchKeepsIInv ==
  ASSUME IInv, NEW c \in Call, Dispatch(c)
  PROVE  IInv'
<1>1. ask[c] \in Key
  BY DEF IInv, Shape, Dispatch
<1>2. Generation(ask[c]) \in Nat /\ Generation(ask[c]) <= sequence
  BY <1>1 DEF Generation, IInv, TypeOK, RevisionsAreOld, Pause
<1>3. TypeOK' /\ Shape'
  BY <1>2 DEF IInv, TypeOK, Shape, Dispatch, Phase
<1>4. RevisionsAreOld'
  BY <1>2 DEF IInv, TypeOK, RevisionsAreOld, Dispatch
<1>5. RefusalRemembered'
  BY DEF IInv, RefusalRemembered, Covers, Dispatch
<1>6. told[ask[c]] <= now
  BY <1>1 DEF Dispatch, Paused, Remains, IInv, TypeOK, RefusalRemembered, Covers, Pause
<1>7. MayOnlyClearTheLapsed'
  BY <1>6 DEF IInv, TypeOK, MayOnlyClearTheLapsed, Dispatch
<1>. QED
  BY <1>3, <1>4, <1>5, <1>7 DEF IInv

-----------------------------------------------------------------------------
(* Storing a pause. *)

LEMMA RoomIsTracked ==
  ASSUME NEW table, NEW k \in Key, NEW kept \in RoomFor(table, k)
  PROVE  kept \subseteq Tracked(table)
BY DEF RoomFor, Live

(* A pause that covers what was said before and the new wait keeps every   *)
(* refusal remembered: the ones make_room drops are forgotten whole.       *)
LEMMA InsertionCovers ==
  ASSUME NEW table, NEW until \in [Key -> Nat], Covers(table, until), now \in Nat,
         NEW k \in Key, NEW p, p # NoPause, p.until \in Nat, NEW wait \in Nat, NEW kept,
         until[k] > now => p.until >= until[k],
         now + wait > now => p.until >= now + wait
  PROVE  Covers(Insert(table, k, p, kept), Recall(until, k, wait, kept))
<1>. SUFFICES ASSUME NEW j \in Key, Recall(until, k, wait, kept)[j] > now
              PROVE  /\ Insert(table, k, p, kept)[j] # NoPause
                     /\ Insert(table, k, p, kept)[j].until >= Recall(until, k, wait, kept)[j]
  BY DEF Covers
<1>1. CASE j = k
  <2>1. Insert(table, k, p, kept)[j] = p /\ Recall(until, k, wait, kept)[j] = Most(until[k], now + wait)
    BY <1>1 DEF Insert, Recall
  <2>2. until[k] \in Nat
    OBVIOUS
  <2>. QED
    BY <2>1, <2>2 DEF Most
<1>2. CASE j # k
  <2>1. j \in kept /\ Recall(until, k, wait, kept)[j] = until[j]
    BY <1>2 DEF Recall
  <2>2. Insert(table, k, p, kept)[j] = table[j]
    BY <1>2, <2>1 DEF Insert
  <2>. QED
    BY <2>1, <2>2 DEF Covers
<1>. QED
  BY <1>1, <1>2

LEMMA StoringKeepsIInv ==
  ASSUME IInv, NEW c \in Call, pc[c] = "flying",
         NEW p \in Pause, NEW wait \in Nat,
         p.generation = sequence + 1,
         told[ask[c]] > now => p.until >= told[ask[c]],
         now + wait > now => p.until >= now + wait,
         Store(ask[c], p, wait), Done(c), UNCHANGED <<now, window, line, seen>>
  PROVE  IInv'
<1>. DEFINE k == ask[c]
<1>1. k \in Key
  BY DEF IInv, Shape
<1>2. PICK kept \in RoomFor(pause, k) :
        pause' = Insert(pause, k, p, kept) /\ told' = Recall(told, k, wait, kept)
  BY DEF Store
<1>3. sequence' = sequence + 1 /\ UNCHANGED <<quota, spent>>
  BY DEF Store
<1>4. TypeOK'
  BY <1>1, <1>2, <1>3 DEF IInv, TypeOK, Done, Phase, Most, Insert, Recall
<1>5. Shape'
  BY DEF IInv, TypeOK, Shape, Done
<1>6. RevisionsAreOld'
  BY <1>1, <1>2, <1>3 DEF IInv, TypeOK, RevisionsAreOld, Pause, Insert
<1>7. RefusalRemembered'
  <2>1. p # NoPause /\ p.until \in Nat
    BY PausesAssumption DEF Pause
  <2>2. told \in [Key -> Nat] /\ now \in Nat /\ Covers(pause, told) /\ Covers(quota, spent)
    BY DEF IInv, TypeOK, RefusalRemembered
  <2>3. Covers(Insert(pause, k, p, kept), Recall(told, k, wait, kept))
    BY <1>1, <2>1, <2>2, InsertionCovers
  <2>. QED
    BY <1>2, <1>3, <2>2, <2>3 DEF RefusalRemembered, Covers
<1>8. MayOnlyClearTheLapsed'
  <2>. SUFFICES ASSUME NEW d \in Call, pc'[d] = "flying", pause'[ask'[d]] # NoPause,
                       pause'[ask'[d]].generation = seen[d]
                PROVE  told'[ask'[d]] <= now
    BY DEF MayOnlyClearTheLapsed
  <2>1. d # c /\ pc[d] = "flying" /\ ask'[d] = ask[d] /\ ask[d] \in Key
    BY DEF Done, IInv, TypeOK, Shape
  <2>2. ask[d] # k
    BY <1>1, <1>2, <2>1 DEF IInv, TypeOK, RevisionsAreOld, Pause, Insert
  <2>3. pause'[ask[d]] = pause[ask[d]] /\ told'[ask[d]] = told[ask[d]]
    BY <1>2, <2>1, <2>2 DEF Insert, Recall
  <2>. QED
    BY <2>1, <2>3 DEF IInv, MayOnlyClearTheLapsed
<1>. QED
  BY <1>4, <1>5, <1>6, <1>7, <1>8 DEF IInv

(* What or_insert finds or makes covers what was told. *)
LEMMA EntryCovers ==
  ASSUME IInv, NEW k \in Key
  PROVE  /\ Entry(k) \in Pause
         /\ Entry(k).generation = sequence + 1
         /\ told[k] > now => Entry(k).until >= told[k]
<1>1. Entry(k) \in Pause
  BY DEF Entry, Pause, IInv, TypeOK
<1>2. told[k] > now => pause[k] # NoPause /\ pause[k].until >= told[k]
  BY DEF IInv, RefusalRemembered, Covers
<1>. QED
  BY <1>1, <1>2 DEF Entry

(* hold() raises a deadline to the new wait, and lowers none. *)
LEMMA HoldCovers ==
  ASSUME now \in Nat, NEW entry \in Pause, NEW wait \in Nat
  PROVE  /\ Hold(entry, wait) \in Pause
         /\ Hold(entry, wait).generation = entry.generation
         /\ Hold(entry, wait).until = Most(entry.until, now + wait)
         /\ Hold(entry, wait).until >= entry.until /\ Hold(entry, wait).until >= now + wait
<1>1. Most(entry.until, now + wait) \in Nat
  BY DEF Most, Pause
<1>2. /\ Hold(entry, wait) \in Pause /\ Hold(entry, wait).generation = entry.generation
      /\ Hold(entry, wait).until = Most(entry.until, now + wait)
  BY <1>1 DEF Hold, Pause
<1>3. entry.until \in Nat
  BY DEF Pause
<1>. QED
  BY <1>2, <1>3 DEF Most

LEMMA LimitedStatedKeepsIInv ==
  ASSUME IInv, NEW c \in Call, LimitedStated(c)
  PROVE  IInv'
<1>1. PICK w \in Stated : Store(ask[c], Hold(Entry(ask[c]), Capped(w)), Capped(w))
  BY DEF LimitedStated
<1>2. ask[c] \in Key /\ Capped(w) \in Nat
  BY PausesAssumption DEF IInv, Shape, LimitedStated, Capped, Least
<1>3. /\ Entry(ask[c]) \in Pause
      /\ Entry(ask[c]).generation = sequence + 1
      /\ told[ask[c]] > now => Entry(ask[c]).until >= told[ask[c]]
  BY <1>2, EntryCovers
<1>4. /\ now \in Nat /\ told[ask[c]] \in Nat
  BY <1>2 DEF IInv, TypeOK
<1>. DEFINE p == Hold(Entry(ask[c]), Capped(w))
<1>5. /\ p \in Pause /\ p.generation = sequence + 1
      /\ told[ask[c]] > now => p.until >= told[ask[c]]
      /\ p.until >= now + Capped(w)
  <2>1. /\ p \in Pause /\ p.generation = Entry(ask[c]).generation
        /\ p.until >= Entry(ask[c]).until /\ p.until >= now + Capped(w)
    BY <1>2, <1>3, <1>4, HoldCovers
  <2>. QED
    BY <1>3, <1>4, <2>1 DEF Pause
<1>6. pc[c] = "flying" /\ Done(c) /\ UNCHANGED <<now, window, line, seen>>
  BY DEF LimitedStated
<1>. HIDE DEF p
<1>7. Store(ask[c], p, Capped(w))
  BY <1>1 DEF p
<1>. QED
  BY <1>2, <1>5, <1>6, <1>7, StoringKeepsIInv

LEMMA LimitedUnstatedKeepsIInv ==
  ASSUME IInv, NEW c \in Call, LimitedUnstated(c)
  PROVE  IInv'
<1>1. PICK p \in Struck(ask[c]) : Store(ask[c], p, 0)
  BY DEF LimitedUnstated
<1>2. ask[c] \in Key
  BY DEF IInv, Shape, LimitedUnstated
<1>3. /\ Entry(ask[c]) \in Pause
      /\ Entry(ask[c]).generation = sequence + 1
      /\ told[ask[c]] > now => Entry(ask[c]).until >= told[ask[c]]
  BY <1>2, EntryCovers
<1>4. /\ now \in Nat /\ told[ask[c]] \in Nat /\ MaxPause \in Nat
  BY <1>2, PausesAssumption DEF IInv, TypeOK
<1>5. /\ p \in Pause /\ p.generation = sequence + 1
      /\ told[ask[c]] > now => p.until >= told[ask[c]]
  <2>1. CASE Entry(ask[c]).until > now
    BY <1>1, <1>3, <2>1 DEF Struck
  <2>2. CASE ~(Entry(ask[c]).until > now)
    <3>1. PICK w \in Backoff(Entry(ask[c]).strikes + 1) :
            p = [Entry(ask[c]) EXCEPT !.strikes = Entry(ask[c]).strikes + 1, !.until = now + w]
      BY <1>1, <2>2 DEF Struck
    <3>2. w \in Nat
      BY <3>1, <1>4 DEF Backoff
    <3>3. ~(told[ask[c]] > now)
      BY <1>3, <1>4, <2>2 DEF Pause
    <3>4. \A e \in Pause, n \in Nat, u \in Nat :
            /\ [e EXCEPT !.strikes = n, !.until = u] \in Pause
            /\ [e EXCEPT !.strikes = n, !.until = u].generation = e.generation
      BY DEF Pause
    <3>5. Entry(ask[c]).strikes + 1 \in Nat /\ now + w \in Nat
      BY <1>3, <1>4, <3>2 DEF Pause
    <3>. QED
      BY <1>3, <3>1, <3>3, <3>4, <3>5
  <2>. QED
    BY <2>1, <2>2
<1>6. pc[c] = "flying" /\ Done(c) /\ UNCHANGED <<now, window, line, seen>>
  BY DEF LimitedUnstated
<1>7. now + 0 > now => p.until >= now + 0
  BY <1>4
<1>. QED
  BY <1>1, <1>5, <1>6, <1>7, StoringKeepsIInv

LEMMA AnsweredExhaustedKeepsIInv ==
  ASSUME IInv, NEW c \in Call, AnsweredExhausted(c)
  PROVE  IInv'
<1>. DEFINE found == IF Clears(c) THEN Fresh ELSE Entry(ask[c])
<1>1. PICK w \in Stated : Store(ask[c], Hold(found, Capped(w)), Capped(w))
  BY DEF AnsweredExhausted
<1>2. ask[c] \in Key /\ Capped(w) \in Nat /\ pc[c] = "flying"
  BY PausesAssumption DEF IInv, Shape, AnsweredExhausted, Capped, Least
<1>3. /\ now \in Nat /\ told[ask[c]] \in Nat /\ sequence \in Nat
  BY <1>2 DEF IInv, TypeOK
<1>4. /\ found \in Pause /\ found.generation = sequence + 1
      /\ told[ask[c]] > now => found.until >= told[ask[c]]
  <2>1. CASE Clears(c)
    <3>1. ~(told[ask[c]] > now)
      BY <1>2, <1>3, <2>1 DEF Clears, IInv, MayOnlyClearTheLapsed
    <3>2. found = Fresh
      BY <2>1
    <3>. QED
      BY <1>3, <3>1, <3>2 DEF Fresh, Pause
  <2>2. CASE ~Clears(c)
    <3>1. found = Entry(ask[c])
      BY <2>2
    <3>. QED
      BY <1>2, <3>1, EntryCovers
  <2>. QED
    BY <2>1, <2>2
<1>. HIDE DEF found
<1>. DEFINE p == Hold(found, Capped(w))
<1>5. /\ p \in Pause /\ p.generation = sequence + 1
      /\ told[ask[c]] > now => p.until >= told[ask[c]]
      /\ p.until >= now + Capped(w)
  <2>1. /\ p \in Pause /\ p.generation = found.generation
        /\ p.until >= found.until /\ p.until >= now + Capped(w)
    BY <1>2, <1>3, <1>4, HoldCovers
  <2>. QED
    BY <1>3, <1>4, <2>1 DEF Pause
<1>6. Done(c) /\ UNCHANGED <<now, window, line, seen>>
  BY DEF AnsweredExhausted
<1>7. Store(ask[c], p, Capped(w))
  BY <1>1
<1>. HIDE DEF p
<1>. QED
  BY <1>2, <1>5, <1>6, <1>7, StoringKeepsIInv

(* An answer takes a pause away only under the revision it left with, and *)
(* then nothing it covers was told.                                       *)
LEMMA AnsweredKeepsIInv ==
  ASSUME IInv, NEW c \in Call, Answered(c)
  PROVE  IInv'
<1>1. /\ pc[c] = "flying" /\ ask[c] \in Key
      /\ pause' = IF Clears(c) THEN [pause EXCEPT ![ask[c]] = NoPause] ELSE pause
      /\ UNCHANGED <<now, sequence, window, line, seen, told, quota, spent>>
  BY DEF Answered, IInv, Shape
<1>2. TypeOK' /\ Shape'
  BY <1>1 DEF IInv, TypeOK, Shape, Answered, Done, Phase
<1>3. \A k \in Key : pause'[k] = pause[k] \/ (k = ask[c] /\ Clears(c) /\ pause'[k] = NoPause)
  BY <1>1 DEF IInv, TypeOK
<1>4. RevisionsAreOld'
  BY <1>1, <1>3 DEF IInv, RevisionsAreOld
<1>5. Clears(c) => told[ask[c]] <= now
  BY <1>1 DEF Clears, IInv, MayOnlyClearTheLapsed
<1>6. RefusalRemembered'
  BY <1>1, <1>3, <1>5 DEF IInv, TypeOK, RefusalRemembered, Covers
<1>7. MayOnlyClearTheLapsed'
  BY <1>1, <1>3 DEF IInv, TypeOK, Shape, MayOnlyClearTheLapsed, Answered, Done
<1>. QED
  BY <1>2, <1>4, <1>6, <1>7 DEF IInv

(* A spent quota is held in the table of its own. *)
LEMMA QuotaSpentKeepsIInv ==
  ASSUME IInv, NEW c \in Call, QuotaSpent(c)
  PROVE  IInv'
<1>. DEFINE k == ask[c]
<1>1. k \in Key /\ now \in Nat /\ spent \in [Key -> Nat] /\ quota \in [Key -> Quota \cup {NoPause}]
  BY DEF IInv, TypeOK, Shape, QuotaSpent
<1>2. PICK reset \in Resets, kept \in RoomFor(quota, k) :
        /\ quota' = Insert(quota, k, Hold(QuotaEntry(k), QuotaWait(reset)), kept)
        /\ spent' = Recall(spent, k, QuotaWait(reset), kept)
  BY DEF QuotaSpent
<1>. DEFINE wait == QuotaWait(reset)
            held == Hold(QuotaEntry(k), wait)
<1>3. wait \in Nat
  BY PausesAssumption DEF QuotaWait, Least
<1>4. /\ QuotaEntry(k) = [until |-> QuotaEntry(k).until] /\ QuotaEntry(k).until \in Nat
      /\ spent[k] > now => QuotaEntry(k).until >= spent[k]
  BY <1>1 DEF QuotaEntry, Quota, IInv, RefusalRemembered, Covers
<1>5. held = [until |-> Most(QuotaEntry(k).until, now + wait)]
  BY <1>4 DEF Hold
<1>6. /\ held \in Quota /\ held # NoPause /\ held.until \in Nat
      /\ held.until >= QuotaEntry(k).until /\ held.until >= now + wait
  BY <1>1, <1>3, <1>4, <1>5, PausesAssumption DEF Quota, Most
<1>. HIDE DEF held, wait
<1>7. quota' = Insert(quota, k, held, kept) /\ spent' = Recall(spent, k, wait, kept)
  BY <1>2 DEF held, wait
<1>8. Done(c) /\ UNCHANGED <<now, pause, sequence, window, line, seen, told>>
  BY DEF QuotaSpent
<1>9. TypeOK' /\ Shape'
  BY <1>1, <1>3, <1>6, <1>7, <1>8 DEF IInv, TypeOK, Shape, Done, Phase, Most, Insert, Recall
<1>10. RevisionsAreOld'
  BY <1>8 DEF IInv, RevisionsAreOld
<1>11. Covers(quota, spent) /\ Covers(pause, told)
  BY DEF IInv, RefusalRemembered
<1>12. spent[k] \in Nat
  BY <1>1
<1>13. Covers(Insert(quota, k, held, kept), Recall(spent, k, wait, kept))
  BY <1>1, <1>3, <1>4, <1>6, <1>11, <1>12, InsertionCovers
<1>14. RefusalRemembered'
  BY <1>7, <1>8, <1>11, <1>13 DEF RefusalRemembered, Covers
<1>15. MayOnlyClearTheLapsed'
  BY <1>8 DEF IInv, TypeOK, MayOnlyClearTheLapsed, Done
<1>. QED
  BY <1>9, <1>10, <1>14, <1>15 DEF IInv

LEMMA TickKeepsIInv ==
  ASSUME IInv, Tick
  PROVE  IInv'
<1>1. TypeOK' /\ Shape' /\ RevisionsAreOld'
  BY DEF IInv, TypeOK, Shape, RevisionsAreOld, Tick
<1>2. RefusalRemembered'
  BY DEF IInv, TypeOK, RefusalRemembered, Covers, Tick
<1>3. \A c \in Call : pc[c] = "flying" => told[ask[c]] \in Nat
  BY DEF IInv, TypeOK, Shape
<1>4. MayOnlyClearTheLapsed'
  BY <1>3 DEF IInv, TypeOK, MayOnlyClearTheLapsed, Tick
<1>. QED
  BY <1>1, <1>2, <1>4 DEF IInv

LEMMA NextKeepsIInv == IInv /\ [Next]_vars => IInv'
<1>. SUFFICES ASSUME IInv, [Next]_vars PROVE IInv'
  OBVIOUS
<1>1. ASSUME NEW c \in Call, NEW k \in Key, Acquire(c, k) PROVE IInv'
  BY <1>1, AcquireKeepsIInv
<1>2. ASSUME NEW c \in Call, Admit(c) PROVE IInv'
  BY <1>2, AdmitKeepsIInv
<1>3. ASSUME NEW c \in Call, CancelQueued(c) PROVE IInv'
  <2>1. line' \in Seq(Call)
    BY <1>3, RemovalIsASequence DEF CancelQueued, IInv, TypeOK
  <2>. QED
    BY <1>3, <2>1, EndingKeepsIInv DEF CancelQueued
<1>4. ASSUME NEW c \in Call, HeldBack(c) PROVE IInv'
  BY <1>4, EndingKeepsIInv DEF HeldBack, IInv, TypeOK
<1>5. ASSUME NEW c \in Call, Dispatch(c) PROVE IInv'
  BY <1>5, DispatchKeepsIInv
<1>6. ASSUME NEW c \in Call, LimitedStated(c) PROVE IInv'
  BY <1>6, LimitedStatedKeepsIInv
<1>7. ASSUME NEW c \in Call, LimitedUnstated(c) PROVE IInv'
  BY <1>7, LimitedUnstatedKeepsIInv
<1>8. ASSUME NEW c \in Call, Answered(c) PROVE IInv'
  BY <1>8, AnsweredKeepsIInv
<1>9. ASSUME NEW c \in Call, AnsweredExhausted(c) PROVE IInv'
  BY <1>9, AnsweredExhaustedKeepsIInv
<1>10. ASSUME NEW c \in Call, Unheard(c) PROVE IInv'
  BY <1>10, EndingKeepsIInv DEF Unheard, IInv, TypeOK
<1>11. ASSUME NEW c \in Call, QuotaSpent(c) PROVE IInv'
  BY <1>11, QuotaSpentKeepsIInv
<1>12. CASE Tick
  BY <1>12, TickKeepsIInv
<1>13. CASE UNCHANGED vars
  BY <1>13 DEF vars, IInv, TypeOK, Shape, RevisionsAreOld, RefusalRemembered, Covers,
               MayOnlyClearTheLapsed
<1>. QED
  BY <1>1, <1>2, <1>3, <1>4, <1>5, <1>6, <1>7, <1>8, <1>9, <1>10, <1>11, <1>12, <1>13 DEF Next

-----------------------------------------------------------------------------
LEMMA Invariance == Spec => []IInv
BY InitIInv, NextKeepsIInv, PTL DEF Spec

(* Every reachable state is well typed. *)
THEOREM TypeCorrect == Spec => []TypeOK
BY Invariance, PTL DEF IInv

(* What a service said about a credential is in the table until it lapses, *)
(* unless the table's ceiling pushed it out.                               *)
THEOREM RefusalsAreRemembered == Spec => []RefusalRemembered
BY Invariance, PTL DEF IInv

(* No call leaves under a credential the service told to wait, nor a       *)
(* download under one whose quota it called spent.                         *)
THEOREM RefusalsAreHonoured == Spec => NoCallWhileRefused
<1>1. ASSUME IInv, [Next]_vars, NEW c \in Call, pc[c] # "flying", pc'[c] = "flying"
      PROVE  told[ask[c]] <= now /\ (c \in Downloads => spent[ask[c]] <= now)
  <2>1. Dispatch(c)
    BY <1>1 DEF Next, vars, IInv, TypeOK, Acquire, Admit, CancelQueued, HeldBack, Dispatch,
                LimitedStated, LimitedUnstated, Answered, AnsweredExhausted, QuotaSpent, Unheard,
                Tick, Done
  <2>2. ask[c] \in Key /\ ~Paused(c)
    BY <1>1, <2>1 DEF Dispatch, IInv, Shape
  <2>3. ASSUME NEW table, NEW until, until[ask[c]] \in Nat, Covers(table, until),
               ~Remains(table, ask[c]), table[ask[c]] # NoPause => table[ask[c]].until \in Nat
        PROVE  until[ask[c]] <= now
    BY <1>1, <2>2, <2>3 DEF Covers, Remains, IInv, TypeOK
  <2>4. /\ told[ask[c]] \in Nat /\ spent[ask[c]] \in Nat /\ Covers(pause, told) /\ Covers(quota, spent)
        /\ pause[ask[c]] # NoPause => pause[ask[c]].until \in Nat
        /\ quota[ask[c]] # NoPause => quota[ask[c]].until \in Nat
    BY <1>1, <2>2 DEF IInv, TypeOK, RefusalRemembered, Pause, Quota
  <2>. QED
    BY <2>2, <2>3, <2>4 DEF Paused
<1>2. IInv /\ [Next]_vars =>
        [\A c \in Call : pc[c] # "flying" /\ pc'[c] = "flying"
            => told[ask[c]] <= now /\ (c \in Downloads => spent[ask[c]] <= now)]_vars
  BY <1>1
<1>. QED
  BY <1>2, Invariance, PTL DEF Spec, NoCallWhileRefused
-----------------------------------------------------------------------------
(* The bounds. The calls of a credential share the semaphore the map points *)
(* to, because one that somebody keeps alive is found again.                *)
Shared ==
  \A c \in Call : pc[c] # "idle" => window[ask[c]] = sem[c]

Bounds == Shared /\ WindowHolds /\ NoPauseBeyondCap /\ TableBounded

Out(k) == {c \in Call : ask[c] = k /\ pc[c] \in {"admitted", "flying"}}

LEMMA InitBounds == Init => Bounds
<1>. SUFFICES ASSUME Init PROVE Bounds
  OBVIOUS
<1>1. \A k \in Key : {c \in Call : ask[c] = k /\ pc[c] \in {"admitted", "flying"}} = {}
  BY DEF Init
<1>2. Tracked(pause) = {} /\ Tracked(quota) = {}
  BY DEF Init, Tracked
<1>3. Shared /\ NoPauseBeyondCap
  BY DEF Init, Shared, NoPauseBeyondCap, Within
<1>. QED
  BY <1>1, <1>2, <1>3, PausesAssumption, FS_EmptySet DEF Bounds, WindowHolds, TableBounded, Fits

(* Fewer calls out are no more than before. *)
LEMMA FewerOut ==
  ASSUME WindowHolds, \A k \in Key : Out(k)' \subseteq Out(k)
  PROVE  WindowHolds'
<1>. SUFFICES ASSUME NEW k \in Key PROVE Cardinality(Out(k)') <= Window
  BY DEF WindowHolds, Out
<1>1. IsFiniteSet(Out(k))
  BY PausesAssumption, FS_Subset DEF Out
<1>2. Cardinality(Out(k)) <= Window
  BY DEF WindowHolds, Out
<1>3. Cardinality(Out(k)') <= Cardinality(Out(k)) /\ IsFiniteSet(Out(k)')
  BY <1>1, FS_Subset
<1>. QED
  BY <1>1, <1>2, <1>3, PausesAssumption, FS_CardinalityType

(* Leaving the window disturbs nothing of it. *)
LEMMA LeavingKeepsWindow ==
  ASSUME IInv, Shared, WindowHolds, NEW c \in Call, Done(c), UNCHANGED window
  PROVE  Shared' /\ WindowHolds'
<1>1. Shared'
  BY DEF IInv, TypeOK, Shared, Done
<1>2. \A k \in Key : Out(k)' \subseteq Out(k)
  BY DEF IInv, TypeOK, Out, Done
<1>. QED
  BY <1>1, <1>2, FewerOut

(* A new call meets the semaphore the others of its credential keep alive. *)
LEMMA AcquireKeepsWindow ==
  ASSUME IInv, Shared, WindowHolds, NEW c \in Call, NEW k \in Key, Acquire(c, k)
  PROVE  Shared' /\ WindowHolds'
<1>1. ASSUME NEW d \in Call, pc[d] # "idle"
      PROVE  ask[d] \in Key /\ window[ask[d]] = sem[d] /\ SweptWindow[ask[d]] = sem[d]
  <2>1. ask[d] \in Key /\ sem[d] \in Sem /\ window[ask[d]] = sem[d]
    BY <1>1 DEF IInv, Shape, Shared
  <2>2. d \in Holders(window[ask[d]]) /\ window[ask[d]] # NoSem
    BY <2>1, PausesAssumption DEF Holders
  <2>3. Upgradable(ask[d])
    BY <2>2 DEF Upgradable
  <2>. QED
    BY <2>1, <2>3 DEF SweptWindow
<1>2. SweptWindow \in [Key -> Sem \cup {NoSem}]
  BY DEF SweptWindow, IInv, TypeOK
<1>3. PICK s \in IF SweptWindow[k] # NoSem THEN {SweptWindow[k]}
                 ELSE {f \in Sem : Holders(f) = {}} :
        /\ window' = [SweptWindow EXCEPT ![k] = s]
        /\ sem' = [sem EXCEPT ![c] = s]
  BY DEF Acquire
<1>4. /\ pc[c] = "idle" /\ pc' = [pc EXCEPT ![c] = "queued"] /\ ask' = [ask EXCEPT ![c] = k]
  BY DEF Acquire
<1>5. Shared'
  <2>. SUFFICES ASSUME NEW d \in Call, pc'[d] # "idle" PROVE window'[ask'[d]] = sem'[d]
    BY DEF Shared
  <2>1. CASE d = c
    BY <1>2, <1>3, <1>4, <2>1 DEF IInv, TypeOK
  <2>2. CASE d # c
    <3>1. pc[d] # "idle" /\ ask'[d] = ask[d] /\ sem'[d] = sem[d]
      BY <1>3, <1>4, <2>2 DEF IInv, TypeOK
    <3>2. ask[d] \in Key /\ SweptWindow[ask[d]] = sem[d] /\ sem[d] \in Sem
      BY <1>1, <3>1 DEF IInv, Shape
    <3>3. ask[d] = k => s = sem[d]
      BY <1>3, <3>2, PausesAssumption
    <3>. QED
      BY <1>2, <1>3, <3>1, <3>2, <3>3
  <2>. QED
    BY <2>1, <2>2
<1>6. \A j \in Key : Out(j)' \subseteq Out(j)
  BY <1>4 DEF IInv, TypeOK, Out
<1>. QED
  BY <1>5, <1>6, FewerOut

(* Whoever is admitted finds all of its credential's calls in the permits  *)
(* of the one semaphore.                                                   *)
LEMMA AdmitKeepsWindow ==
  ASSUME IInv, Shared, WindowHolds, NEW c \in Call, Admit(c)
  PROVE  Shared' /\ WindowHolds'
<1>1. /\ pc[c] = "queued" /\ Cardinality(Permits(sem[c])) < Window
      /\ pc' = [pc EXCEPT ![c] = "admitted"] /\ UNCHANGED <<window, ask, sem>>
  BY DEF Admit
<1>2. Shared'
  BY <1>1 DEF IInv, TypeOK, Shared
<1>3. ASSUME NEW k \in Key PROVE Cardinality(Out(k)') <= Window
  <2>1. CASE ask[c] = k
    <3>1. Out(k)' \subseteq Permits(sem[c]) \cup {c}
      BY <1>1, <2>1 DEF IInv, TypeOK, Shared, Out, Permits, Holders
    <3>2. IsFiniteSet(Permits(sem[c]))
      BY PausesAssumption, FS_Subset DEF Permits, Holders
    <3>3. /\ IsFiniteSet(Permits(sem[c]) \cup {c})
          /\ Cardinality(Permits(sem[c]) \cup {c}) <= Cardinality(Permits(sem[c])) + 1
      BY <3>2, FS_AddElement, FS_CardinalityType
    <3>4. /\ IsFiniteSet(Out(k)')
          /\ Cardinality(Out(k)') <= Cardinality(Permits(sem[c]) \cup {c})
      BY <3>1, <3>3, FS_Subset
    <3>. QED
      BY <1>1, <3>2, <3>3, <3>4, PausesAssumption, FS_CardinalityType
  <2>2. CASE ask[c] # k
    <3>1. Out(k)' = Out(k)
      BY <1>1, <2>2 DEF IInv, TypeOK, Out
    <3>. QED
      BY <3>1 DEF WindowHolds, Out
  <2>. QED
    BY <2>1, <2>2
<1>. QED
  BY <1>2, <1>3 DEF WindowHolds, Out

(* A pause that is stored takes the room that was made for it. *)
LEMMA InsertionFits ==
  ASSUME NEW table, Fits(table), NEW k \in Key, NEW p, NEW kept \in RoomFor(table, k)
  PROVE  Fits(Insert(table, k, p, kept))
<1>. DEFINE after == Insert(table, k, p, kept)
<1>1. kept \subseteq Tracked(table) /\ Live(table) \subseteq Tracked(table)
  BY RoomIsTracked DEF Live
<1>2. IsFiniteSet(Tracked(table)) /\ IsFiniteSet(Live(table)) /\ IsFiniteSet(kept)
  BY <1>1, PausesAssumption, FS_Subset DEF Tracked, Live
<1>3. /\ Cardinality(Tracked(table)) \in Nat /\ Cardinality(Live(table)) \in Nat
      /\ Cardinality(kept) \in Nat
      /\ Cardinality(Live(table)) <= Cardinality(Tracked(table))
  BY <1>1, <1>2, FS_CardinalityType, FS_Subset
<1>4. Cardinality(kept \cup {k}) <= MaxKeys
  <2>1. CASE k \in Tracked(table) /\ kept = Tracked(table)
    <3>1. kept \cup {k} = Tracked(table)
      BY <2>1
    <3>. QED
      BY <3>1 DEF Fits
  <2>2. ASSUME Cardinality(kept) < MaxKeys PROVE Cardinality(kept \cup {k}) <= MaxKeys
    <3>1. Cardinality(kept \cup {k}) = IF k \in kept THEN Cardinality(kept) ELSE Cardinality(kept) + 1
      BY <1>2, FS_AddElement
    <3>2. MaxKeys \in Nat
      BY PausesAssumption
    <3>. QED
      BY <1>3, <2>2, <3>1, <3>2
  <2>3. CASE \E s \in Live(table) : kept = Live(table) \ {s}
    <3>1. Cardinality(kept) = Cardinality(Live(table)) - 1
      BY <1>2, <2>3, FS_RemoveElement
    <3>2. Cardinality(Tracked(table)) <= MaxKeys /\ MaxKeys \in Nat
      BY PausesAssumption DEF Fits
    <3>3. Cardinality(kept) < MaxKeys
      BY <1>3, <3>1, <3>2
    <3>. QED
      BY <2>2, <3>3
  <2>. QED
    BY <2>1, <2>2, <2>3 DEF RoomFor
<1>5. Tracked(after) \subseteq kept \cup {k}
  BY DEF Tracked, Insert
<1>6. IsFiniteSet(kept \cup {k}) /\ Cardinality(kept \cup {k}) \in Nat
  BY <1>2, FS_AddElement, FS_CardinalityType
<1>7. Cardinality(Tracked(after)) <= Cardinality(kept \cup {k}) /\ IsFiniteSet(Tracked(after))
  BY <1>5, <1>6, FS_Subset
<1>8. Cardinality(Tracked(after)) \in Nat /\ MaxKeys \in Nat
  BY <1>7, PausesAssumption, FS_CardinalityType
<1>. QED
  BY <1>4, <1>6, <1>7, <1>8 DEF Fits

(* It is over as soon as the others, when it stays within the same cap. *)
LEMMA InsertionWithin ==
  ASSUME NEW table, NEW cap, Within(table, cap), NEW k \in Key, NEW p, p.until <= now + cap,
         NEW kept
  PROVE  Within(Insert(table, k, p, kept), cap)
BY DEF Within, Insert

LEMMA StoringKeepsTable ==
  ASSUME IInv, NoPauseBeyondCap, TableBounded, NEW k \in Key,
         NEW p \in Pause, p.until <= now + MaxPause, NEW wait, Store(k, p, wait), UNCHANGED now
  PROVE  NoPauseBeyondCap' /\ TableBounded'
<1>1. PICK kept \in RoomFor(pause, k) : pause' = Insert(pause, k, p, kept)
  BY DEF Store
<1>2. UNCHANGED quota
  BY DEF Store
<1>3. Within(Insert(pause, k, p, kept), MaxPause) /\ Fits(Insert(pause, k, p, kept))
  BY InsertionWithin, InsertionFits DEF NoPauseBeyondCap, TableBounded
<1>4. Within(pause', MaxPause) /\ Fits(pause') /\ Within(quota', MaxQuotaPause) /\ Fits(quota')
  BY <1>1, <1>2, <1>3 DEF NoPauseBeyondCap, TableBounded
<1>. QED
  BY <1>4 DEF NoPauseBeyondCap, TableBounded, Within, Fits, Tracked

(* What or_insert finds or makes is silent for an hour at most. *)
LEMMA EntryWithinCap ==
  ASSUME IInv, NoPauseBeyondCap, NEW k \in Key
  PROVE  Entry(k) \in Pause /\ Entry(k).until <= now + MaxPause
<1>1. Entry(k) \in Pause
  BY EntryCovers
<1>2. now <= now + MaxPause
  BY PausesAssumption DEF IInv, TypeOK
<1>. QED
  BY <1>1, <1>2 DEF Entry, NoPauseBeyondCap, Within

LEMMA RefusalKeepsTable ==
  ASSUME IInv, NoPauseBeyondCap, TableBounded, NEW c \in Call,
         LimitedStated(c) \/ LimitedUnstated(c) \/ AnsweredExhausted(c)
  PROVE  NoPauseBeyondCap' /\ TableBounded'
<1>. DEFINE k == ask[c]
<1>1. k \in Key /\ now \in Nat /\ sequence \in Nat /\ UNCHANGED now
  BY DEF IInv, TypeOK, Shape, LimitedStated, LimitedUnstated, AnsweredExhausted
<1>2. Entry(k) \in Pause /\ Entry(k).until <= now + MaxPause
  BY <1>1, EntryWithinCap
<1>3. \A w \in Stated : Capped(w) \in 0..MaxPause
  BY PausesAssumption DEF Capped, Least
<1>4. ASSUME NEW found \in Pause, found.until <= now + MaxPause, NEW w \in 0..MaxPause
      PROVE  Hold(found, w) \in Pause /\ Hold(found, w).until <= now + MaxPause
  <2>1. Hold(found, w) \in Pause /\ Hold(found, w).until = Most(found.until, now + w)
    BY <1>1, HoldCovers
  <2>2. found.until \in Nat /\ MaxPause \in Nat
    BY PausesAssumption DEF Pause
  <2>. QED
    BY <1>1, <1>4, <2>1, <2>2 DEF Most
<1>5. CASE LimitedStated(c)
  <2>1. PICK w \in Stated : Store(k, Hold(Entry(k), Capped(w)), Capped(w))
    BY <1>5 DEF LimitedStated
  <2>. DEFINE p == Hold(Entry(k), Capped(w))
  <2>2. p \in Pause /\ p.until <= now + MaxPause
    BY <1>2, <1>3, <1>4
  <2>. HIDE DEF p
  <2>3. Store(k, p, Capped(w))
    BY <2>1 DEF p
  <2>. QED
    BY <1>1, <2>2, <2>3, StoringKeepsTable
<1>6. CASE LimitedUnstated(c)
  <2>1. PICK p \in Struck(k) : Store(k, p, 0)
    BY <1>6 DEF LimitedUnstated
  <2>2. p \in Pause /\ p.until <= now + MaxPause
    <3>1. CASE p = Entry(k)
      BY <1>2, <3>1
    <3>2. CASE \E w \in Backoff(Entry(k).strikes + 1) :
                 p = [Entry(k) EXCEPT !.strikes = Entry(k).strikes + 1, !.until = now + w]
      <4>1. PICK w \in 0..MaxPause :
                 p = [Entry(k) EXCEPT !.strikes = Entry(k).strikes + 1, !.until = now + w]
        BY <3>2 DEF Backoff
      <4>2. now + w \in Nat /\ now + w <= now + MaxPause
        BY <1>1, PausesAssumption
      <4>3. \A e \in Pause, n \in Nat, u \in Nat :
              /\ [e EXCEPT !.strikes = n, !.until = u] \in Pause
              /\ [e EXCEPT !.strikes = n, !.until = u].until = u
        BY DEF Pause
      <4>4. Entry(k).strikes + 1 \in Nat
        BY <1>2 DEF Pause
      <4>5. p \in Pause /\ p.until = now + w
        BY <1>2, <4>1, <4>2, <4>3, <4>4
      <4>. QED
        BY <4>2, <4>5
    <3>. QED
      BY <2>1, <3>1, <3>2 DEF Struck
  <2>. QED
    BY <1>1, <2>1, <2>2, StoringKeepsTable
<1>7. CASE AnsweredExhausted(c)
  <2>. DEFINE found == IF Clears(c) THEN Fresh ELSE Entry(k)
  <2>1. PICK w \in Stated : Store(k, Hold(found, Capped(w)), Capped(w))
    BY <1>7 DEF AnsweredExhausted
  <2>2. found \in Pause /\ found.until <= now + MaxPause
    BY <1>1, <1>2, PausesAssumption DEF Fresh, Pause
  <2>. HIDE DEF found
  <2>. DEFINE p == Hold(found, Capped(w))
  <2>3. p \in Pause /\ p.until <= now + MaxPause
    BY <1>3, <1>4, <2>2
  <2>. HIDE DEF p
  <2>4. Store(k, p, Capped(w))
    BY <2>1 DEF p
  <2>. QED
    BY <1>1, <2>3, <2>4, StoringKeepsTable
<1>. QED
  BY <1>5, <1>6, <1>7

(* A spent quota is held for a day at most. *)
LEMMA QuotaSpentKeepsTable ==
  ASSUME IInv, NoPauseBeyondCap, TableBounded, NEW c \in Call, QuotaSpent(c)
  PROVE  NoPauseBeyondCap' /\ TableBounded'
<1>. DEFINE k == ask[c]
<1>1. k \in Key /\ now \in Nat /\ quota[k] \in Quota \cup {NoPause} /\ UNCHANGED <<now, pause>>
  BY DEF IInv, TypeOK, Shape, QuotaSpent
<1>2. PICK reset \in Resets, kept \in RoomFor(quota, k) :
        quota' = Insert(quota, k, Hold(QuotaEntry(k), QuotaWait(reset)), kept)
  BY DEF QuotaSpent
<1>3. QuotaWait(reset) \in Nat /\ QuotaWait(reset) <= MaxQuotaPause /\ MaxQuotaPause \in Nat
  BY PausesAssumption DEF QuotaWait, Least
<1>4. /\ QuotaEntry(k) = [until |-> QuotaEntry(k).until]
      /\ QuotaEntry(k).until \in Nat /\ QuotaEntry(k).until <= now + MaxQuotaPause
  BY <1>1, <1>3 DEF QuotaEntry, Quota, NoPauseBeyondCap, Within
<1>5. Hold(QuotaEntry(k), QuotaWait(reset))
        = [until |-> Most(QuotaEntry(k).until, now + QuotaWait(reset))]
  BY <1>4 DEF Hold
<1>. DEFINE held == Hold(QuotaEntry(k), QuotaWait(reset))
<1>6. held.until <= now + MaxQuotaPause
  BY <1>1, <1>3, <1>4, <1>5 DEF Most
<1>. HIDE DEF held
<1>7. quota' = Insert(quota, k, held, kept)
  BY <1>2 DEF held
<1>8. Within(Insert(quota, k, held, kept), MaxQuotaPause) /\ Fits(Insert(quota, k, held, kept))
  BY <1>1, <1>6, InsertionWithin, InsertionFits DEF NoPauseBeyondCap, TableBounded
<1>9. Within(pause', MaxPause) /\ Fits(pause') /\ Within(quota', MaxQuotaPause) /\ Fits(quota')
  BY <1>1, <1>7, <1>8 DEF NoPauseBeyondCap, TableBounded
<1>. QED
  BY <1>1, <1>9 DEF NoPauseBeyondCap, TableBounded, Within, Fits, Tracked

(* An answer and a tick only make pauses fewer, or nearer their end. *)
LEMMA FewerPauses ==
  ASSUME IInv, NoPauseBeyondCap, TableBounded, now' \in Nat, now <= now', UNCHANGED quota,
         \A k \in Key : pause'[k] = pause[k] \/ pause'[k] = NoPause
  PROVE  NoPauseBeyondCap' /\ TableBounded'
<1>1. NoPauseBeyondCap'
  <2>1. ASSUME NEW k \in Key, pause'[k] # NoPause
        PROVE  pause'[k].until <= now' + MaxPause
    <3>1. pause'[k] = pause[k] /\ pause[k] \in Pause /\ pause[k].until <= now + MaxPause
      BY <2>1 DEF IInv, TypeOK, NoPauseBeyondCap, Within
    <3>. QED
      BY <3>1, PausesAssumption DEF IInv, TypeOK, Pause
  <2>2. ASSUME NEW k \in Key, quota'[k] # NoPause
        PROVE  quota'[k].until <= now' + MaxQuotaPause
    <3>1. quota'[k] = quota[k] /\ quota[k] \in Quota /\ quota[k].until <= now + MaxQuotaPause
      BY <2>2 DEF IInv, TypeOK, NoPauseBeyondCap, Within
    <3>. QED
      BY <3>1, PausesAssumption DEF IInv, TypeOK, Quota
  <2>. QED
    BY <2>1, <2>2 DEF NoPauseBeyondCap, Within
<1>2. Tracked(pause') \subseteq Tracked(pause)
  BY DEF Tracked
<1>3. IsFiniteSet(Tracked(pause))
  BY PausesAssumption, FS_Subset DEF Tracked
<1>4. IsFiniteSet(Tracked(pause')) /\ Cardinality(Tracked(pause')) <= Cardinality(Tracked(pause))
  BY <1>2, <1>3, FS_Subset
<1>5. Fits(pause') /\ Fits(quota')
  BY <1>3, <1>4, PausesAssumption, FS_CardinalityType DEF TableBounded, Fits
<1>. QED
  BY <1>1, <1>5 DEF TableBounded, Fits, Tracked

LEMMA NextKeepsBounds == IInv /\ Bounds /\ [Next]_vars => Bounds'
<1>. SUFFICES ASSUME IInv, Bounds, [Next]_vars PROVE Bounds'
  OBVIOUS
<1>. USE DEF Bounds
<1>1. now \in Nat
  BY DEF IInv, TypeOK
<1>2. ASSUME UNCHANGED <<now, pause, quota>> PROVE NoPauseBeyondCap' /\ TableBounded'
  BY <1>1, <1>2, FewerPauses
<1>3. ASSUME UNCHANGED <<window, pc, ask, sem>> PROVE Shared' /\ WindowHolds'
  BY <1>3 DEF Shared, WindowHolds
<1>4. ASSUME NEW c \in Call, NEW k \in Key, Acquire(c, k) PROVE Bounds'
  BY <1>2, <1>4, AcquireKeepsWindow DEF Acquire
<1>5. ASSUME NEW c \in Call, Admit(c) PROVE Bounds'
  BY <1>2, <1>5, AdmitKeepsWindow DEF Admit
<1>6. ASSUME NEW c \in Call, CancelQueued(c) \/ HeldBack(c) \/ Unheard(c) PROVE Bounds'
  BY <1>2, <1>6, LeavingKeepsWindow DEF CancelQueued, HeldBack, Unheard
<1>7. ASSUME NEW c \in Call, Dispatch(c) PROVE Bounds'
  <2>1. \A k \in Key : Out(k)' \subseteq Out(k)
    BY <1>7 DEF IInv, TypeOK, Dispatch, Out
  <2>2. Shared'
    BY <1>7 DEF IInv, TypeOK, Dispatch, Shared
  <2>. QED
    BY <1>2, <1>7, <2>1, <2>2, FewerOut DEF Dispatch
<1>8. ASSUME NEW c \in Call, LimitedStated(c) \/ LimitedUnstated(c) \/ AnsweredExhausted(c)
      PROVE  Bounds'
  <2>1. Done(c) /\ UNCHANGED window
    BY <1>8 DEF LimitedStated, LimitedUnstated, AnsweredExhausted
  <2>. QED
    BY <1>8, <2>1, LeavingKeepsWindow, RefusalKeepsTable
<1>9. ASSUME NEW c \in Call, Answered(c) PROVE Bounds'
  <2>1. \A k \in Key : pause'[k] = pause[k] \/ pause'[k] = NoPause
    BY <1>9 DEF Answered, IInv, TypeOK
  <2>2. Done(c) /\ UNCHANGED <<window, now, quota>>
    BY <1>9 DEF Answered
  <2>. QED
    BY <1>1, <2>1, <2>2, LeavingKeepsWindow, FewerPauses
<1>10. ASSUME NEW c \in Call, QuotaSpent(c) PROVE Bounds'
  BY <1>10, LeavingKeepsWindow, QuotaSpentKeepsTable DEF QuotaSpent
<1>11. CASE Tick
  BY <1>1, <1>3, <1>11, FewerPauses DEF Tick
<1>12. CASE UNCHANGED vars
  BY <1>2, <1>3, <1>12 DEF vars
<1>. QED
  BY <1>4, <1>5, <1>6, <1>7, <1>8, <1>9, <1>10, <1>11, <1>12 DEF Next

(* A credential never has more calls out than its window, is never silent   *)
(* for more than an hour, nor without downloads for more than a day, and    *)
(* neither table passes its ceiling, however many credentials are refused   *)
(* and whatever waits and resets are named.                                 *)
THEOREM EverythingIsBounded == Spec => []PausesStayBounded
<1>1. Spec => []Bounds
  BY InitBounds, NextKeepsBounds, Invariance, PTL DEF Spec
<1>2. Bounds => PausesStayBounded
  BY DEF Bounds, PausesStayBounded
<1>. QED
  BY <1>1, <1>2, PTL
=============================================================================
