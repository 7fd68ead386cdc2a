------------------------------ MODULE Pauses ------------------------------
(***************************************************************************)
(* The shared memory of rate limits (src/src/ratelimit.rs, `Pauses`) and   *)
(* the calls that consult it (src/src/opensubtitles.rs `search`,           *)
(* `admit_download`, `download_admitted`; src/src/translate.rs             *)
(* `call_with_retries`).  A call queues for one of the few places its      *)
(* credential has, looks whether the credential is paused, notes the       *)
(* pause's revision, leaves, and its response is recorded against that     *)
(* revision however long it took to arrive.                                *)
(*                                                                         *)
(* A place is an owned permit of a semaphore the map only points to        *)
(* weakly; tokio's semaphore is FIFO (`line`).  Time is an integer clock.  *)
(*                                                                         *)
(* A download looks in a second table too, `quota`, where a spent daily    *)
(* quota is held (`Limits::downloads`): an hour is the most any wait of    *)
(* the first table may be, and a day of this one.  A credential is a key   *)
(* and its user, whose the quota is.                                       *)
(***************************************************************************)
EXTENDS Integers, FiniteSets, Sequences, SequencesExt

CONSTANTS
  Key,          \* hashed credentials
  Call,         \* requests that can be under way at once
  Downloads,    \* those of them that ask for a metered download
  Sem,          \* identities of allocated semaphores
  NoKey, NoSem, NoPause,
  Base,         \* BASE_BACKOFF
  MaxPause,     \* MAX_PAUSE
  MaxKeys,      \* MAX_KEYS
  Window,       \* MAX_IN_FLIGHT_PER_KEY
  MaxQuotaPause, \* MAX_QUOTA_PAUSE
  Stated,       \* waits a service names
  Resets,       \* how far off the reset of a daily quota may be
  MaxTime,      \* bound on the clock
  MaxRefusals   \* bound on the revisions handed out

ASSUME PausesAssumption ==
  /\ IsFiniteSet(Key) /\ IsFiniteSet(Call) /\ Downloads \subseteq Call
  /\ NoKey \notin Key /\ NoSem \notin Sem
  /\ NoPause \notin [until : Nat, strikes : Nat, generation : Nat] \cup [until : Nat]
  /\ Base \in Nat /\ {MaxPause, MaxQuotaPause} \subseteq Nat /\ MaxKeys \in Nat \ {0} /\ Window \in Nat
  /\ Stated \cup Resets \subseteq Nat

VARIABLES
  now,       \* the monotonic clock
  pause,     \* the pause of each credential, or NoPause
  quota,     \* the same of its daily quota; the strikes and revisions of this
             \* table are never read
  sequence,  \* the last revision handed out
  window,    \* the admission map: a weak pointer to a semaphore, or NoSem
  pc, ask,   \* what each call is doing, and for which credential
  sem,       \* the semaphore a call keeps alive
  line,      \* calls waiting for a permit, in the order they came
  seen,      \* Observation: the revision a call left under
  told,      \* history: until when the service told each credential to wait
  spent      \* history: until when it said the quota of each is spent

vars == <<now, pause, quota, sequence, window, pc, ask, sem, line, seen, told, spent>>

Pause == [until : Nat, strikes : Nat, generation : Nat]
Quota == [until : Nat]
Phase == {"idle", "queued", "admitted", "flying"}

TypeOK ==
  /\ now \in Nat
  /\ pause \in [Key -> Pause \cup {NoPause}]
  /\ quota \in [Key -> Quota \cup {NoPause}]
  /\ sequence \in Nat
  /\ window \in [Key -> Sem \cup {NoSem}]
  /\ pc \in [Call -> Phase]
  /\ ask \in [Call -> Key \cup {NoKey}]
  /\ sem \in [Call -> Sem \cup {NoSem}]
  /\ line \in Seq(Call)
  /\ seen \in [Call -> Nat]
  /\ {told, spent} \subseteq [Key -> Nat]

Init ==
  /\ now = 0
  /\ pause = [k \in Key |-> NoPause]
  /\ quota = [k \in Key |-> NoPause]
  /\ sequence = 0
  /\ window = [k \in Key |-> NoSem]
  /\ pc = [c \in Call |-> "idle"]
  /\ ask = [c \in Call |-> NoKey]
  /\ sem = [c \in Call |-> NoSem]
  /\ line = <<>>
  /\ seen = [c \in Call |-> 0]
  /\ told = [k \in Key |-> 0]
  /\ spent = [k \in Key |-> 0]

Least(a, b) == IF a <= b THEN a ELSE b
Most(a, b) == IF a >= b THEN a ELSE b

-----------------------------------------------------------------------------
(* Reading the pauses *)

\* remaining() is Some.
Remains(table, k) == table[k] # NoPause /\ table[k].until > now

\* Why a call must not leave: a download's quota counts too (download_paused).
Paused(c) == Remains(pause, ask[c]) \/ (c \in Downloads /\ Remains(quota, ask[c]))

\* begin()
Generation(k) == IF pause[k] = NoPause THEN 0 ELSE pause[k].generation

-----------------------------------------------------------------------------
(* Admission *)

Holders(s) == {c \in Call : sem[c] = s}
Permits(s) == {c \in Holders(s) : pc[c] \in {"admitted", "flying"}}

\* Entries whose semaphore nobody keeps alive are dropped by the next acquire.
Upgradable(k) == window[k] # NoSem /\ Holders(window[k]) # {}
SweptWindow == [k \in Key |-> IF Upgradable(k) THEN window[k] ELSE NoSem]

Acquire(c, k) ==
  /\ pc[c] = "idle"
  /\ \E s \in IF SweptWindow[k] # NoSem THEN {SweptWindow[k]}
              ELSE {f \in Sem : Holders(f) = {}} :
       /\ window' = [SweptWindow EXCEPT ![k] = s]
       /\ sem' = [sem EXCEPT ![c] = s]
  /\ pc' = [pc EXCEPT ![c] = "queued"]
  /\ ask' = [ask EXCEPT ![c] = k]
  /\ line' = Append(line, c)
  /\ UNCHANGED <<now, pause, sequence, seen, told, quota, spent>>

\* The first of a semaphore's waiters takes a free permit.
Admit(c) ==
  /\ pc[c] = "queued"
  /\ Cardinality(Permits(sem[c])) < Window
  /\ \E i \in 1..Len(line) :
       /\ line[i] = c
       /\ \A j \in 1..(i-1) : sem[line[j]] # sem[c]
       /\ line' = RemoveAt(line, i)
  /\ pc' = [pc EXCEPT ![c] = "admitted"]
  /\ UNCHANGED <<now, pause, sequence, window, ask, sem, seen, told, quota, spent>>

\* The permit and the Arc go back.
Done(c) ==
  /\ pc' = [pc EXCEPT ![c] = "idle"]
  /\ ask' = [ask EXCEPT ![c] = NoKey]
  /\ sem' = [sem EXCEPT ![c] = NoSem]

\* The requester disconnects while it waits for a place.
CancelQueued(c) ==
  /\ pc[c] = "queued"
  /\ Done(c)
  /\ \E i \in 1..Len(line) : line[i] = c /\ line' = RemoveAt(line, i)
  /\ UNCHANGED <<now, pause, sequence, window, seen, told, quota, spent>>

\* The re-check after the wait found a pause: a search or a download is refused,
\* a translation batch drops its permit and sleeps before it queues again.
HeldBack(c) ==
  /\ pc[c] = "admitted"
  /\ Paused(c)
  /\ Done(c)
  /\ UNCHANGED <<now, pause, sequence, window, line, seen, told, quota, spent>>

\* Mutant: no re-check after the wait for a permit.
MutNoRecheck(c) ==
  /\ pc[c] = "admitted"
  /\ pc' = [pc EXCEPT ![c] = "flying"]
  /\ seen' = [seen EXCEPT ![c] = Generation(ask[c])]
  /\ UNCHANGED <<now, pause, sequence, window, ask, sem, line, told, quota, spent>>

\* The re-check passed: note the revision and leave.
Dispatch(c) ==
  /\ pc[c] = "admitted"
  /\ ~Paused(c)
  /\ pc' = [pc EXCEPT ![c] = "flying"]
  /\ seen' = [seen EXCEPT ![c] = Generation(ask[c])]
  /\ UNCHANGED <<now, pause, sequence, window, ask, sem, line, told, quota, spent>>

-----------------------------------------------------------------------------
(* Recording a response *)

Tracked(table) == {k \in Key : table[k] # NoPause}
Live(table) == {k \in Tracked(table) : table[k].until > now}

\* make_room: what may be left of the table before a pause of k is stored.
RoomFor(table, k) ==
  IF Cardinality(Tracked(table)) < MaxKeys \/ k \in Tracked(table) THEN {Tracked(table)}
  ELSE LET live == Live(table)
       IN  IF Cardinality(live) < MaxKeys THEN {live}
           ELSE {live \ {s} : s \in {j \in live : \A i \in live : table[j].until <= table[i].until}}

\* The entry `or_insert` finds or makes, under a fresh revision.
Entry(k) ==
  [until |-> IF pause[k] = NoPause THEN now ELSE pause[k].until,
   strikes |-> IF pause[k] = NoPause THEN 0 ELSE pause[k].strikes,
   generation |-> sequence + 1]
QuotaEntry(k) == [until |-> IF quota[k] = NoPause THEN now ELSE quota[k].until]

\* An evicted pause is forgotten, as the bound on the map says it must be.
Insert(table, k, p, kept) ==
  [j \in Key |-> IF j = k THEN p ELSE IF j \in kept THEN table[j] ELSE NoPause]
Recall(until, k, wait, kept) ==
  [j \in Key |-> IF j = k THEN Most(until[j], now + wait) ELSE IF j \in kept THEN until[j] ELSE 0]

Store(k, p, wait) ==
  /\ sequence < MaxRefusals
  /\ sequence' = sequence + 1
  /\ \E kept \in RoomFor(pause, k) :
       /\ pause' = Insert(pause, k, p, kept)
       /\ told' = Recall(told, k, wait, kept)
  /\ UNCHANGED <<quota, spent>>

\* hold(): as long as the caller says, and never less than what is in force.
Hold(entry, wait) == [entry EXCEPT !.until = Most(@, now + wait)]

\* Mutant: the stated wait is taken as it is.
MutUncapped(wait) == wait

\* An hour at most: limited(Some(wait)), and the two readers of headers.
Capped(wait) == Least(wait, MaxPause)

\* limited(Some(wait)).
LimitedStated(c) ==
  /\ pc[c] = "flying"
  /\ \E w \in Stated : Store(ask[c], Hold(Entry(ask[c]), Capped(w)), Capped(w))
  /\ Done(c)
  /\ UNCHANGED <<now, window, line, seen>>

\* limited(None): one more strike, unless the pause is already in force.
Backoff(n) ==
  {w \in 0..MaxPause :
     LET wait == Base * 2^Least(n - 1, 20)
     IN  \E jitter \in 0..(wait \div 4) : w = Least(wait + jitter, MaxPause)}
Struck(k) ==
  IF Entry(k).until > now THEN {Entry(k)}
  ELSE LET n == Entry(k).strikes + 1
       IN  {[Entry(k) EXCEPT !.strikes = n, !.until = now + w] : w \in Backoff(n)}

LimitedUnstated(c) ==
  /\ pc[c] = "flying"
  /\ \E p \in Struck(ask[c]) : Store(ask[c], p, 0)
  /\ Done(c)
  /\ UNCHANGED <<now, window, line, seen>>

\* answered(): only the revision the request left under is cleared.
Clears(c) == pause[ask[c]] # NoPause /\ pause[ask[c]].generation = seen[c]
Answered(c) ==
  /\ pc[c] = "flying"
  /\ pause' = IF Clears(c) THEN [pause EXCEPT ![ask[c]] = NoPause] ELSE pause
  /\ Done(c)
  /\ UNCHANGED <<now, sequence, window, line, seen, told, quota, spent>>

\* A success that says the window is spent: answered(), then hold().
Fresh == [until |-> now, strikes |-> 0, generation |-> sequence + 1]
AnsweredExhausted(c) ==
  /\ pc[c] = "flying"
  /\ \E w \in Stated :
       Store(ask[c],
             Hold(IF Clears(c) THEN Fresh ELSE Entry(ask[c]), Capped(w)),
             Capped(w))
  /\ Done(c)
  /\ UNCHANGED <<now, window, line, seen>>

\* A download's 406: held in the other table until the reset the body names or,
\* when it names none to come, the end of the day, and a day at most.
QuotaWait(reset) == Least(reset, MaxQuotaPause)
QuotaSpent(c) ==
  /\ pc[c] = "flying" /\ c \in Downloads
  /\ \E reset \in Resets, kept \in RoomFor(quota, ask[c]) :
       /\ quota' = Insert(quota, ask[c], Hold(QuotaEntry(ask[c]), QuotaWait(reset)), kept)
       /\ spent' = Recall(spent, ask[c], QuotaWait(reset), kept)
  /\ Done(c)
  /\ UNCHANGED <<now, pause, sequence, window, line, seen, told>>

\* Transport error, another status, or the task dropped: nothing is recorded.
Unheard(c) ==
  /\ pc[c] \in {"admitted", "flying"}
  /\ Done(c)
  /\ UNCHANGED <<now, pause, sequence, window, line, seen, told, quota, spent>>

Tick ==
  /\ now < MaxTime
  /\ now' = now + 1
  /\ UNCHANGED <<pause, sequence, window, pc, ask, sem, line, seen, told, quota, spent>>

-----------------------------------------------------------------------------
Respond(c) ==
  \/ LimitedStated(c) \/ LimitedUnstated(c) \/ Answered(c) \/ AnsweredExhausted(c)
  \/ QuotaSpent(c) \/ Unheard(c)

Next ==
  \/ \E c \in Call :
       \/ \E k \in Key : Acquire(c, k)
       \/ Admit(c)
       \/ CancelQueued(c)
       \/ HeldBack(c)
       \/ Dispatch(c)
       \/ LimitedStated(c)
       \/ LimitedUnstated(c)
       \/ Answered(c)
       \/ AnsweredExhausted(c)
       \/ QuotaSpent(c)
       \/ Unheard(c)
  \/ Tick

Spec == Init /\ [][Next]_vars

-----------------------------------------------------------------------------
(* Properties *)

\* Once the service has named a wait, to any call of a credential, no call of
\* that credential leaves before it is over, and once it has called the quota
\* spent, no download does: not one that was queued when the refusal came, and
\* not because an older call succeeds afterwards.
NoCallWhileRefused ==
  [][\A c \in Call : pc[c] # "flying" /\ pc'[c] = "flying"
        => told[ask[c]] <= now /\ (c \in Downloads => spent[ask[c]] <= now)]_vars

\* The same, of what the tables remember.
Covers(table, until) ==
  \A k \in Key : until[k] > now => table[k] # NoPause /\ table[k].until >= until[k]
RefusalRemembered == Covers(pause, told) /\ Covers(quota, spent)

\* The window is per credential, whatever mixture of waiters, cancellations and
\* re-created semaphores came before.
WindowHolds ==
  \A k \in Key : Cardinality({c \in Call : ask[c] = k /\ pc[c] \in {"admitted", "flying"}}) <= Window

\* However long the wait a service names, a credential is silent an hour at
\* most, and asks for no downloads for a day at most.
Within(table, cap) == \A k \in Key : table[k] # NoPause => table[k].until <= now + cap
NoPauseBeyondCap == Within(pause, MaxPause) /\ Within(quota, MaxQuotaPause)

\* The tables have their ceiling, however many credentials are refused.
Fits(table) == Cardinality(Tracked(table)) <= MaxKeys
TableBounded == Fits(pause) /\ Fits(quota)

\* The three bounds together: calls at once, silence, and entries.
PausesStayBounded == WindowHolds /\ NoPauseBeyondCap /\ TableBounded
=============================================================================
