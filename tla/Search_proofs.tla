--------------------------- MODULE Search_proofs ---------------------------
(***************************************************************************)
(* Proofs about Search, for any number of requests, installs and pages:    *)
(* one search at a time, no fresh list replaced, and failures that stay    *)
(* with their install.                                                     *)
(*                                                                         *)
(* Whoever searches is at the head of the flight, so there is one such     *)
(* request; only it brings a list, so what it found out of date when it    *)
(* boarded is out of date until it is back.                                *)
(*                                                                         *)
(* And about InFlight, the map of locks that makes such flights, for any   *)
(* finite sets of tasks and keys: mutual exclusion per key, the map entry  *)
(* that outlives every task that needs it, where orphan entries come from, *)
(* and that every step is a step of KeyedMutex.                            *)
(***************************************************************************)
EXTENDS Search, InFlight, FoldTheorems, FiniteSetTheorems, TLAPS

(* The flight, in the order its requests came, and who searches.           *)
FlightInv ==
    /\ at \in [Request -> {"new", "waiting", "searching", "done", "gone"}]
    /\ flight \in Seq(Request) /\ IsInjective(flight)
    /\ ToSet(flight) = {r \in Request : at[r] \in {"waiting", "searching"}}
    /\ \A r \in Request : at[r] = "searching" => Head(flight) = r

(* An install is marked for FailTtl after its last failure.                *)
MarkInv ==
    /\ marked \in [Install -> 0..MaxTime + FailTtl] /\ failedAt \in [Install -> Never..MaxTime]
    /\ \A i \in Install : marked[i] = IF failedAt[i] = Never THEN 0 ELSE failedAt[i] + FailTtl

(* While somebody searches, there is no fresh list.                        *)
ListInv ==
    /\ entry.freshUntil \in Int
    /\ \A r \in Request : at[r] = "searching" => ~Fresh

IInv ==
    /\ now \in 0..MaxTime /\ losses \in 0..MaxLosses /\ fails \in Nat
    /\ DOMAIN answer = Request
    /\ FlightInv /\ MarkInv /\ ListInv

-----------------------------------------------------------------------------
LEMMA Numbers ==
    /\ SearchTtl \in Nat \ {0} /\ Grace \in Nat \ {0} /\ FailTtl \in Nat \ {0}
    /\ MaxTime \in Nat /\ MaxLosses \in Nat /\ Never = -1
    /\ \A r \in Request : InstallOf(r) \in Install
BY SearchAssumption DEF Never

LEMMA Typed == IInv => TypeOK
BY DEF IInv, FlightInv, MarkInv, TypeOK

LEMMA InitIInv == Init => IInv
<1>. SUFFICES ASSUME Init PROVE IInv
  OBVIOUS
<1>1. FlightInv
  BY DEF Init, FlightInv, IsInjective, ToSet
<1>2. MarkInv
  BY Numbers DEF Init, MarkInv
<1>3. ListInv
  BY Numbers DEF Init, ListInv, Nothing
<1>. QED
  BY <1>1, <1>2, <1>3, Numbers DEF Init, IInv

-----------------------------------------------------------------------------
(* Lines *)

(* What is left of a line when one of it leaves: the rest, in its order.   *)
LEMMA Removal ==
    ASSUME NEW S, NEW s \in Seq(S), IsInjective(s), NEW i \in DOMAIN s
    PROVE  LET t == RemoveAt(s, i)
           IN  /\ t \in Seq(S) /\ IsInjective(t)
               /\ ToSet(t) = ToSet(s) \ {s[i]}
               /\ i # 1 => Head(t) = Head(s)
<1>. DEFINE t == RemoveAt(s, i)
            n == Len(s)
            before == SubSeq(s, 1, i-1)
            after == SubSeq(s, i+1, n)
<1>1. n \in Nat /\ DOMAIN s = 1..n /\ i \in 1..n
  OBVIOUS
<1>2. before \in Seq(S) /\ Len(before) = i - 1 /\ \A j \in 1..i-1 : before[j] = s[j]
  BY <1>1
<1>3. after \in Seq(S) /\ Len(after) = n - i /\ \A j \in 1..n-i : after[j] = s[j + i]
  BY <1>1
<1>4. t = before \o after
  BY DEF RemoveAt
<1>. HIDE DEF t, n, before, after
<1>5. t \in Seq(S) /\ DOMAIN t = 1..n-1
      /\ \A j \in 1..n-1 : t[j] = IF j < i THEN s[j] ELSE s[j+1]
  <2>1. t \in Seq(S) /\ Len(t) = n - 1 /\ DOMAIN t = 1..n-1
    BY <1>1, <1>2, <1>3, <1>4
  <2>2. ASSUME NEW j \in 1..n-1 PROVE t[j] = IF j < i THEN s[j] ELSE s[j+1]
    <3>1. CASE j < i
      BY <1>1, <1>2, <1>3, <1>4, <3>1
    <3>2. CASE j >= i
      <4>. DEFINE k == j - (i - 1)
      <4>1. k \in 1..n-i /\ k + i = j + 1 /\ ~(j < i) /\ j \in Nat
        BY <1>1, <3>2
      <4>2. j \in 1..Len(before) + Len(after) /\ j > Len(before) /\ j - Len(before) = k
        BY <1>1, <1>2, <1>3, <3>2
      <4>3. t[j] = after[j - Len(before)]
        BY <1>2, <1>3, <1>4, <4>2
      <4>4. after[k] = s[k + i]
        BY <1>3, <4>1
      <4>. QED
        BY <4>1, <4>2, <4>3, <4>4
    <3>. QED
      BY <1>1, <3>1, <3>2
  <2>. QED
    BY <2>1, <2>2
<1>6. IsInjective(t)
  <2>1. ASSUME NEW a \in 1..n-1, NEW b \in 1..n-1, t[a] = t[b] PROVE a = b
    <3>. DEFINE Was(j) == IF j < i THEN j ELSE j + 1
    <3>1. \A j \in 1..n-1 : Was(j) \in 1..n /\ t[j] = s[Was(j)]
      BY <1>1, <1>5
    <3>2. Was(a) = Was(b)
      BY <1>1, <2>1, <3>1 DEF IsInjective
    <3>. QED
      BY <1>1, <3>2
  <2>. QED
    BY <1>5, <2>1 DEF IsInjective
<1>7. ToSet(t) = ToSet(s) \ {s[i]}
  <2>1. ASSUME NEW j \in 1..n-1 PROVE t[j] \in ToSet(s) /\ t[j] # s[i]
    BY <1>1, <1>5 DEF ToSet, IsInjective
  <2>2. ASSUME NEW j \in 1..n, s[j] # s[i] PROVE \E k \in 1..n-1 : t[k] = s[j]
    <3>1. CASE j < i
      BY <1>1, <1>5, <3>1
    <3>2. CASE j > i
      <4>1. j - 1 \in 1..n-1 /\ t[j - 1] = s[j]
        BY <1>1, <1>5, <3>2
      <4>. QED
        BY <4>1
    <3>. QED
      BY <1>1, <2>2, <3>1, <3>2
  <2>3. ToSet(t) = {t[j] : j \in 1..n-1} /\ ToSet(s) = {s[j] : j \in 1..n}
    BY <1>1, <1>5 DEF ToSet
  <2>. QED
    BY <2>1, <2>2, <2>3
<1>8. i # 1 => Head(t) = Head(s)
  <2>1. i # 1 => t[1] = s[1]
    BY <1>1, <1>5
  <2>. QED
    BY <2>1
<1>. QED
  BY <1>5, <1>6, <1>7, <1>8 DEF t

(* A request joins the end of the line.                                    *)
LEMMA Joining ==
    ASSUME NEW S, NEW s \in Seq(S), IsInjective(s), NEW e \in S, e \notin ToSet(s)
    PROVE  LET t == Append(s, e)
           IN  /\ t \in Seq(S) /\ IsInjective(t)
               /\ ToSet(t) = ToSet(s) \cup {e}
               /\ s # <<>> => Head(t) = Head(s)
<1>. DEFINE t == Append(s, e)
            n == Len(s)
<1>1. /\ n \in Nat /\ t \in Seq(S) /\ Len(t) = n + 1 /\ t[n + 1] = e
      /\ DOMAIN t = 1..n+1 /\ DOMAIN s = 1..n
      /\ \A j \in 1..n : t[j] = s[j]
  OBVIOUS
<1>2. IsInjective(t)
  BY <1>1 DEF IsInjective, ToSet
<1>3. ToSet(t) = ToSet(s) \cup {e}
  BY <1>1 DEF ToSet
<1>. QED
  BY <1>1, <1>2, <1>3

-----------------------------------------------------------------------------
(* The flight *)

LEMMA OneSearches ==
    ASSUME FlightInv, NEW r \in Request, NEW q \in Request, at[r] = "searching", at[q] = "searching"
    PROVE  r = q
BY DEF FlightInv

(* A request that is done, or gone, leaves the flight to the others.       *)
LEMMA LeavingKeepsFlight ==
    ASSUME FlightInv, NEW r \in Request, LeaveFlight(r), NEW p \in {"done", "gone"},
           at' = [at EXCEPT ![r] = p]
    PROVE  FlightInv'
<1>1. PICK i \in DOMAIN flight : flight[i] = r /\ flight' = RemoveAt(flight, i)
  BY DEF LeaveFlight
<1>2. /\ flight' \in Seq(Request) /\ IsInjective(flight')
      /\ ToSet(flight') = ToSet(flight) \ {r}
      /\ i # 1 => Head(flight') = Head(flight)
  BY <1>1, Removal DEF FlightInv
<1>3. /\ at' \in [Request -> {"new", "waiting", "searching", "done", "gone"}]
      /\ at'[r] = p /\ \A q \in Request \ {r} : at'[q] = at[q]
  BY DEF FlightInv
<1>4. ASSUME NEW q \in Request, at'[q] = "searching" PROVE Head(flight') = q
  <2>1. q # r /\ at[q] = "searching"
    BY <1>3, <1>4
  <2>2. Head(flight) = q
    BY <2>1 DEF FlightInv
  <2>3. i # 1
    BY <1>1, <2>1, <2>2
  <2>. QED
    BY <1>2, <2>2, <2>3
<1>5. ToSet(flight') = {q \in Request : at'[q] \in {"waiting", "searching"}}
  BY <1>2, <1>3 DEF FlightInv
<1>. QED
  BY <1>2, <1>3, <1>4, <1>5 DEF FlightInv

(* A request that is in the flight, or over, is what it says.              *)
LEMMA AskKeepsFlight ==
    ASSUME FlightInv, NEW r \in Request, Ask(r)
    PROVE  FlightInv'
<1>1. at[r] = "new"
  BY DEF Ask
<1>2. CASE at' = [at EXCEPT ![r] = "done"] /\ flight' = flight
  <2>1. /\ at' \in [Request -> {"new", "waiting", "searching", "done", "gone"}]
        /\ at'[r] = "done" /\ \A q \in Request \ {r} : at'[q] = at[q]
    BY <1>2 DEF FlightInv
  <2>. QED
    BY <1>1, <1>2, <2>1 DEF FlightInv
<1>3. CASE at' = [at EXCEPT ![r] = "waiting"] /\ flight' = Append(flight, r)
  <2>1. /\ at' \in [Request -> {"new", "waiting", "searching", "done", "gone"}]
        /\ at'[r] = "waiting" /\ \A q \in Request \ {r} : at'[q] = at[q]
    BY <1>3 DEF FlightInv
  <2>2. r \notin ToSet(flight)
    BY <1>1 DEF FlightInv
  <2>3. /\ flight' \in Seq(Request) /\ IsInjective(flight')
        /\ ToSet(flight') = ToSet(flight) \cup {r}
        /\ flight # <<>> => Head(flight') = Head(flight)
    BY <1>3, <2>2, Joining DEF FlightInv
  <2>4. ASSUME NEW q \in Request, at'[q] = "searching" PROVE Head(flight') = q
    <3>1. at[q] = "searching"
      BY <2>1, <2>4
    <3>2. q \in ToSet(flight) /\ Head(flight) = q
      BY <3>1 DEF FlightInv
    <3>3. flight # <<>>
      BY <3>2 DEF ToSet
    <3>. QED
      BY <2>3, <3>2, <3>3
  <2>5. ToSet(flight') = {q \in Request : at'[q] \in {"waiting", "searching"}}
    BY <2>1, <2>3 DEF FlightInv
  <2>. QED
    BY <2>1, <2>3, <2>4, <2>5 DEF FlightInv
<1>. QED
  BY <1>2, <1>3 DEF Ask, Finish

(* The request at the head boards: nobody else is searching.               *)
LEMMA BoardKeepsFlight ==
    ASSUME FlightInv, NEW r \in Request, Board(r)
    PROVE  FlightInv'
<1>1. at[r] = "waiting" /\ Head(flight) = r
  BY DEF Board
<1>2. CASE at' = [at EXCEPT ![r] = "done"] /\ LeaveFlight(r)
  BY <1>2, LeavingKeepsFlight
<1>3. CASE at' = [at EXCEPT ![r] = "searching"] /\ flight' = flight
  <2>1. /\ at' \in [Request -> {"new", "waiting", "searching", "done", "gone"}]
        /\ at'[r] = "searching" /\ \A q \in Request \ {r} : at'[q] = at[q]
    BY <1>3 DEF FlightInv
  <2>2. \A q \in Request \ {r} : at'[q] # "searching"
    BY <1>1, <2>1 DEF FlightInv
  <2>. QED
    BY <1>1, <1>3, <2>1, <2>2 DEF FlightInv
<1>. QED
  BY <1>2, <1>3 DEF Board, Finish

LEMMA StepKeepsFlight == IInv /\ [Next]_vars => FlightInv'
<1>. SUFFICES ASSUME IInv, [Next]_vars PROVE FlightInv'
  OBVIOUS
<1>. USE DEF IInv
<1>1. ASSUME NEW r \in Request, Ask(r) PROVE FlightInv'
  BY <1>1, AskKeepsFlight
<1>2. ASSUME NEW r \in Request, Board(r) PROVE FlightInv'
  BY <1>2, BoardKeepsFlight
<1>3. ASSUME NEW r \in Request, Found(r) \/ Failed(r) \/ HangUp(r) PROVE FlightInv'
  BY <1>3, LeavingKeepsFlight DEF Found, Failed, HangUp, Finish
<1>4. CASE UNCHANGED <<at, flight>>
  BY <1>4 DEF FlightInv
<1>. QED
  BY <1>1, <1>2, <1>3, <1>4 DEF Next, Step, Convict, Tick, Evict, vars

-----------------------------------------------------------------------------
(* Markers *)

LEMMA StepKeepsMarks == IInv /\ [Next]_vars => MarkInv'
<1>. SUFFICES ASSUME IInv, [Next]_vars PROVE MarkInv'
  OBVIOUS
<1>1. now \in 0..MaxTime /\ MarkInv
  BY DEF IInv
<1>2. CASE UNCHANGED <<marked, failedAt>>
  BY <1>1, <1>2 DEF MarkInv
<1>3. ASSUME NEW r \in Request, Failed(r) PROVE MarkInv'
  <2>1. InstallOf(r) \in Install /\ now + FailTtl \in 0..MaxTime + FailTtl
        /\ now \in Never..MaxTime /\ now # Never
    BY <1>1, Numbers
  <2>. QED
    BY <1>1, <1>3, <2>1 DEF MarkInv, Failed
<1>4. ASSUME NEW i \in Install, marked' = [marked EXCEPT ![i] = 0],
             failedAt' = [failedAt EXCEPT ![i] = Never]
      PROVE  MarkInv'
  <2>1. 0 \in 0..MaxTime + FailTtl /\ Never \in Never..MaxTime
    BY Numbers
  <2>. QED
    BY <1>1, <1>4, <2>1 DEF MarkInv
<1>. QED
  BY <1>2, <1>3, <1>4 DEF Next, Step, Ask, Board, Found, HangUp, Convict, Tick, Evict, vars

-----------------------------------------------------------------------------
(* The list *)

LEMMA StepKeepsList == IInv /\ [Next]_vars => ListInv'
<1>. SUFFICES ASSUME IInv, [Next]_vars PROVE ListInv'
  OBVIOUS
<1>1. now \in 0..MaxTime /\ FlightInv /\ ListInv /\ entry.freshUntil \in Int
  BY DEF IInv, ListInv
<1>2. ASSUME UNCHANGED <<now, entry>>,
             \A r \in Request : at'[r] = "searching" => at[r] = "searching" \/ ~Fresh
      PROVE  ListInv'
  BY <1>1, <1>2 DEF ListInv, Fresh, Present
<1>3. ASSUME NEW r \in Request, NEW p, at' = [at EXCEPT ![r] = p], UNCHANGED <<now, entry>>,
             p = "searching" => ~Fresh
      PROVE  ListInv'
  BY <1>1, <1>2, <1>3 DEF FlightInv
<1>4. ASSUME NEW r \in Request, Found(r) PROVE ListInv'
  <2>1. at[r] = "searching" /\ at' = [at EXCEPT ![r] = "done"]
        /\ entry'.freshUntil = now + SearchTtl
    BY <1>4 DEF Found, Finish
  <2>2. \A q \in Request : at'[q] # "searching"
    BY <1>1, <2>1, OneSearches DEF FlightInv
  <2>. QED
    BY <1>1, <2>1, <2>2, Numbers DEF ListInv
<1>5. CASE Tick
  <2>1. now' = now + 1 /\ UNCHANGED <<entry, at>>
    BY <1>5 DEF Tick
  <2>2. Fresh' => Fresh
    BY <1>1, <2>1, Numbers DEF Fresh, Present
  <2>. QED
    BY <1>1, <2>1, <2>2 DEF ListInv
<1>6. CASE Evict
  <2>1. UNCHANGED <<now, at>> /\ entry' \in {entry, Nothing}
    BY <1>6 DEF Evict
  <2>. QED
    BY <1>1, <2>1, Numbers DEF ListInv, Fresh, Present, Nothing
<1>7. CASE UNCHANGED <<now, entry, at>>
  BY <1>2, <1>7
<1>8. ASSUME NEW r \in Request, Ask(r) \/ Board(r) \/ Failed(r) \/ HangUp(r) PROVE ListInv'
  BY <1>3, <1>8 DEF Ask, Board, Failed, HangUp, Finish
<1>. QED
  BY <1>4, <1>5, <1>6, <1>7, <1>8 DEF Next, Step, Convict, vars

LEMMA StepKeepsCounts == IInv /\ [Next]_vars =>
    /\ now' \in 0..MaxTime /\ losses' \in 0..MaxLosses /\ fails' \in Nat
    /\ DOMAIN answer' = Request
<1>. SUFFICES ASSUME IInv, [Next]_vars
              PROVE  /\ now' \in 0..MaxTime /\ losses' \in 0..MaxLosses /\ fails' \in Nat
                     /\ DOMAIN answer' = Request
  OBVIOUS
<1>1. CASE Tick
  BY <1>1, Numbers DEF IInv, Tick
<1>2. CASE Evict
  BY <1>2, Numbers DEF IInv, Evict
<1>3. CASE UNCHANGED <<now, losses>> /\ fails' \in {fails, 0, fails + 1} /\ DOMAIN answer' = DOMAIN answer
  BY <1>3 DEF IInv
<1>. QED
  BY <1>1, <1>2, <1>3
     DEF Next, Step, Ask, Board, Found, Failed, Finish, SearchSucceeded, SearchFailed, HangUp,
         Convict, vars

LEMMA Invariant == Spec => []IInv
<1>1. IInv /\ [Next]_vars => IInv'
  BY StepKeepsFlight, StepKeepsMarks, StepKeepsList, StepKeepsCounts DEF IInv
<1>. QED
  BY <1>1, InitIInv, PTL DEF Spec

-----------------------------------------------------------------------------
(* Type correctness: the flight holds each of the requests in it once, and *)
(* nothing else.                                                           *)
THEOREM TypeCorrectness == Spec => []TypeOK
BY Invariant, Typed, PTL

(* No list is replaced while it is fresh, and nobody searches for one that *)
(* is there (cached_search, under the title's flight).                     *)
THEOREM FreshListsStay == Spec => NoFreshListReplaced
<1>1. ASSUME IInv, [Next]_vars
      PROVE  [\A r \in Request :
                 /\ at[r] # "searching" /\ at'[r] = "searching" => ~Fresh
                 /\ entry' # entry /\ entry' # Nothing => ~Fresh]_vars
  <2>1. ASSUME NEW r \in Request, at[r] # "searching", at'[r] = "searching" PROVE ~Fresh
    <3>1. ASSUME NEW q \in Request, NEW p, at' = [at EXCEPT ![q] = p], p # "searching"
          PROVE  FALSE
      BY <2>1, <3>1, <1>1 DEF IInv, FlightInv
    <3>2. at' # at
      BY <2>1
    <3>. QED
      BY <1>1, <3>1, <3>2
         DEF Next, Step, Ask, Board, Found, Failed, HangUp, Finish, Convict, Tick, Evict, vars
  <2>2. ASSUME entry' # entry, entry' # Nothing PROVE ~Fresh
    <3>1. PICK r \in Request : Found(r)
      BY <1>1, <2>2 DEF Next, Step, Ask, Board, Failed, HangUp, Convict, Tick, Evict, vars
    <3>. QED
      BY <1>1, <3>1 DEF Found, IInv, ListInv
  <2>. QED
    BY <2>1, <2>2
<1>. QED
  BY <1>1, Invariant, PTL DEF Spec, NoFreshListReplaced

(* Who is refused, or handed an old list, shares the install of a failure. *)
LEMMA RefusedForOwnFailure ==
    ASSUME IInv, [Next]_vars, NEW r \in Request
    PROVE  /\ at'[r] = "done" /\ at[r] # "done" /\ answer'[r].how \in {"stale", "error"}
                 => Failing(InstallOf(r), now)'
           /\ at[r] # "searching" /\ at'[r] = "searching" => ~Failing(InstallOf(r), now)
<1>. DEFINE i == InstallOf(r)
            Refused == at'[r] = "done" /\ at[r] # "done" /\ answer'[r].how \in {"stale", "error"}
            Boards == at[r] # "searching" /\ at'[r] = "searching"
<1>1. /\ i \in Install /\ now \in 0..MaxTime /\ MarkInv
      /\ at \in [Request -> {"new", "waiting", "searching", "done", "gone"}]
      /\ DOMAIN answer = Request
  BY Numbers DEF IInv, FlightInv
<1>2. Failing(i, now) <=> now < marked[i]
  BY <1>1, Numbers DEF MarkInv, Failing
<1>3. ASSUME NEW q \in Request, NEW p, at' = [at EXCEPT ![q] = p], q # r
      PROVE  ~Refused /\ ~Boards
  BY <1>1, <1>3
<1>4. CASE UNCHANGED at
  BY <1>4
<1>5. CASE Ask(r)
  <2>1. CASE Fresh
    BY <1>1, <1>5, <2>1 DEF Ask, Finish, Candidates
  <2>2. CASE ~Fresh
    BY <1>1, <1>5, <2>2 DEF Ask
  <2>. QED
    BY <2>1, <2>2
<1>6. CASE Board(r)
  <2>1. UNCHANGED <<now, failedAt>>
    BY <1>6 DEF Board
  <2>2. CASE Fresh
    BY <1>1, <1>6, <2>2 DEF Board, Finish, Candidates
  <2>3. CASE ~Fresh /\ now < marked[i]
    <3>1. at' = [at EXCEPT ![r] = "done"]
      BY <1>1, <1>6, <2>3, Numbers DEF Board, Finish, MarkInv
    <3>2. Failing(i, now)'
      BY <1>2, <2>1, <2>3 DEF Failing
    <3>. QED
      BY <1>1, <3>1, <3>2
  <2>4. CASE ~Fresh /\ now >= marked[i]
    <3>1. at' = [at EXCEPT ![r] = "searching"]
      BY <1>1, <1>6, <2>4, Numbers DEF Board, MarkInv
    <3>2. ~Failing(i, now)
      BY <1>1, <1>2, <2>4, Numbers DEF MarkInv
    <3>. QED
      BY <1>1, <3>1, <3>2
  <2>. QED
    BY <1>1, <2>2, <2>3, <2>4, Numbers DEF MarkInv
<1>7. CASE Found(r)
  BY <1>1, <1>7 DEF Found, Finish, Candidates
<1>8. CASE Failed(r)
  <2>1. failedAt'[i] = now /\ now' = now /\ at' = [at EXCEPT ![r] = "done"]
    BY <1>1, <1>8 DEF Failed, Finish, MarkInv
  <2>. QED
    BY <1>1, <2>1, Numbers DEF Failing
<1>9. CASE HangUp(r)
  BY <1>1, <1>9 DEF HangUp
<1>10. ASSUME NEW q \in Request, q # r, Ask(q) \/ Step(q) \/ HangUp(q)
       PROVE  ~Refused /\ ~Boards
  BY <1>3, <1>10 DEF Ask, Step, Board, Found, Failed, HangUp, Finish
<1>. QED
  BY <1>4, <1>5, <1>6, <1>7, <1>8, <1>9, <1>10 DEF Next, Step, Convict, Tick, Evict, vars

(* Nobody is refused, or handed an old list, for another install's failure *)
(* (the fail_key of cached_search is the install's); and an install that   *)
(* has just failed does not search.                                        *)
THEOREM FailuresStayHome == Spec => FailureStaysWithTheInstall
<1>1. IInv /\ [Next]_vars =>
        [\A r \in Request :
            /\ at'[r] = "done" /\ at[r] # "done" /\ answer'[r].how \in {"stale", "error"}
                  => Failing(InstallOf(r), now)'
            /\ at[r] # "searching" /\ at'[r] = "searching"
                  => ~Failing(InstallOf(r), now)]_vars
  BY RefusedForOwnFailure
<1>. QED
  BY <1>1, Invariant, PTL DEF Spec, FailureStaysWithTheInstall

-----------------------------------------------------------------------------
(* What is picked from a list *)

(* A list a request is answered from: files of one page, or of none.       *)
Listed(subs) ==
    /\ subs \in Seq(Subtitle)
    /\ \A i \in 1..Len(subs) : IsFiniteSet(subs[i].release.tokens)
    /\ \A i, j \in 1..Len(subs) : subs[i].id = subs[j].id => subs[i].hash = subs[j].hash

AnswersInv ==
    /\ DOMAIN stale = Request /\ DOMAIN answer = Request
    /\ Listed(entry.subs)
    /\ \A r \in Request : Listed(stale[r].subs) /\ Listed(answer[r].subs)

LEMMA NothingIsListed == Listed(<<>>)
BY DEF Listed

LEMMA FilteredIsListed ==
    ASSUME NEW subs, Listed(subs), NEW places \in SUBSET DOMAIN subs
    PROVE  Listed(Filtered(subs, places))
<1>1. subs \in Seq(Subtitle) /\ places \in SUBSET (1..Len(subs))
  BY DEF Listed
<1>. DEFINE t == Filtered(subs, places)
<1>2. t \in Seq(Subtitle) /\ \A p \in 1..Len(t) : \E i \in places : t[p] = subs[i]
  BY <1>1, FilteredIsPart
<1>. HIDE DEF t
<1>3. \A p \in 1..Len(t) : \E i \in 1..Len(subs) : t[p] = subs[i]
  BY <1>1, <1>2
<1>4. \A p \in 1..Len(t) : IsFiniteSet(t[p].release.tokens)
  BY <1>3 DEF Listed
<1>5. ASSUME NEW p \in 1..Len(t), NEW q \in 1..Len(t), t[p].id = t[q].id PROVE t[p].hash = t[q].hash
  <2>1. PICK i \in 1..Len(subs), j \in 1..Len(subs) : t[p] = subs[i] /\ t[q] = subs[j]
    BY <1>3
  <2>. QED
    BY <1>5, <2>1 DEF Listed
<1>6. Listed(t)
  BY <1>2, <1>4, <1>5 DEF Listed
<1>. QED
  BY <1>6 DEF t

LEMMA ListsAreListed == \A list \in Lists : Listed(list)
<1>. SUFFICES ASSUME NEW page \in Pages PROVE Listed(ParseSearch(page))
  BY DEF Lists
<1>1. page \in Seq(Subtitle) /\ Listed(page)
  BY PagesAssumption DEF Listed
<1>. DEFINE whole == {i \in DOMAIN page : page[i].files = 1}
<1>2. whole \in SUBSET DOMAIN page
  OBVIOUS
<1>. HIDE DEF whole
<1>3. Listed(Filtered(page, whole))
  BY <1>1, <1>2, FilteredIsListed
<1>. QED
  BY <1>3 DEF ParseSearch, whole

LEMMA CandidatesAreListed ==
    ASSUME NEW subs, Listed(subs), NEW how
    PROVE  Listed(Candidates(subs, how).subs)
<1>. DEFINE live == {i \in DOMAIN subs : subs[i].id \notin dead}
<1>1. live \in SUBSET DOMAIN subs
  OBVIOUS
<1>2. Candidates(subs, how).subs = Filtered(subs, live)
  BY DEF Candidates
<1>. HIDE DEF live
<1>. QED
  BY <1>1, <1>2, FilteredIsListed

(* A request that is done was answered from one list.                      *)
LEMMA FinishKeepsAnswers ==
    ASSUME AnswersInv, NEW r \in Request, NEW with, Finish(r, with), Listed(with.subs), Listed(entry'.subs)
    PROVE  AnswersInv'
<1>1. Listed(Nothing.subs)
  BY NothingIsListed DEF Nothing
<1>2. /\ answer' = [answer EXCEPT ![r] = with] /\ stale' = [stale EXCEPT ![r] = Nothing]
  BY DEF Finish
<1>3. \A q \in Request : /\ answer'[q] = IF q = r THEN with ELSE answer[q]
                         /\ stale'[q] = IF q = r THEN Nothing ELSE stale[q]
  BY <1>2 DEF AnswersInv
<1>. QED
  BY <1>1, <1>2, <1>3 DEF AnswersInv

LEMMA SeenIsListed == ASSUME AnswersInv, NEW r \in Request PROVE Listed(Seen(r).subs)
BY DEF AnswersInv, Seen

LEMMA DeniedIsListed ==
    ASSUME NEW seen, Listed(seen.subs) PROVE Listed(Denied(seen).subs)
<1>1. Listed(Failure.subs)
  BY NothingIsListed DEF Failure
<1>. QED
  BY <1>1, CandidatesAreListed DEF Denied

LEMMA StepKeepsAnswers == AnswersInv /\ [Next]_vars => AnswersInv'
<1>. SUFFICES ASSUME AnswersInv, [Next]_vars PROVE AnswersInv'
  OBVIOUS
<1>1. Listed(Nothing.subs)
  BY NothingIsListed DEF Nothing
<1>2. Listed(entry.subs) /\ \A r \in Request : Listed(stale[r].subs) /\ Listed(Seen(r).subs)
  BY SeenIsListed DEF AnswersInv
<1>3. Listed(Candidates(entry.subs, "cached").subs) /\ Listed(Candidates(entry.subs, "live").subs)
  BY <1>2, CandidatesAreListed
<1>4. ASSUME NEW r \in Request PROVE Listed(Denied(stale[r]).subs) /\ Listed(Denied(Seen(r)).subs)
  BY <1>2, DeniedIsListed
<1>5. ASSUME NEW r \in Request, stale' = [stale EXCEPT ![r] = Seen(r)] \/ stale' = [stale EXCEPT ![r] = Nothing],
             entry' = entry, answer' = answer
      PROVE  AnswersInv'
  <2>1. \A q \in Request : stale'[q] \in {stale[q], Seen(r), Nothing}
    BY <1>5 DEF AnswersInv
  <2>2. Listed(Seen(r).subs)
    BY <1>2
  <2>. QED
    BY <1>1, <1>5, <2>1, <2>2 DEF AnswersInv
<1>6. ASSUME NEW r \in Request, Ask(r) PROVE AnswersInv'
  <2>1. CASE Finish(r, Candidates(entry.subs, "cached"))
    BY <1>2, <1>3, <1>6, <2>1, FinishKeepsAnswers DEF Ask
  <2>2. CASE ~Finish(r, Candidates(entry.subs, "cached"))
    BY <1>5, <1>6, <2>2 DEF Ask
  <2>. QED
    BY <2>1, <2>2
<1>7. ASSUME NEW r \in Request, Board(r) PROVE AnswersInv'
  <2>1. entry' = entry
    BY <1>7 DEF Board
  <2>2. CASE Finish(r, Candidates(entry.subs, "live"))
    BY <1>2, <1>3, <2>1, <2>2, FinishKeepsAnswers
  <2>3. CASE Finish(r, Denied(Seen(r)))
    BY <1>2, <1>4, <2>1, <2>3, FinishKeepsAnswers
  <2>4. CASE stale' = [stale EXCEPT ![r] = Seen(r)] /\ answer' = answer
    BY <1>5, <2>1, <2>4
  <2>. QED
    BY <1>7, <2>2, <2>3, <2>4 DEF Board
<1>8. ASSUME NEW r \in Request, Found(r) PROVE AnswersInv'
  <2>1. PICK list \in Lists : /\ Finish(r, Candidates(list, "live"))
                              /\ entry' = [subs |-> list, freshUntil |-> now + SearchTtl]
    BY <1>8 DEF Found
  <2>2. Listed(list) /\ entry'.subs = list
    BY <2>1, ListsAreListed
  <2>3. Listed(Candidates(list, "live").subs)
    BY <2>2, CandidatesAreListed
  <2>. QED
    BY <2>1, <2>2, <2>3, FinishKeepsAnswers
<1>9. ASSUME NEW r \in Request, Failed(r) PROVE AnswersInv'
  BY <1>2, <1>4, <1>9, FinishKeepsAnswers DEF Failed
<1>10. ASSUME NEW r \in Request, HangUp(r) PROVE AnswersInv'
  BY <1>5, <1>10 DEF HangUp
<1>11. CASE Convict \/ Tick \/ UNCHANGED vars
  BY <1>11 DEF AnswersInv, Convict, Tick, vars
<1>12. CASE Evict
  <2>1. entry' \in {entry, Nothing} /\ stale' = stale /\ answer' = answer
    BY <1>12 DEF Evict
  <2>. QED
    BY <1>1, <2>1 DEF AnswersInv
<1>. QED
  BY <1>6, <1>7, <1>8, <1>9, <1>10, <1>11, <1>12 DEF Next, Step

LEMMA InitAnswers == Init => AnswersInv
BY NothingIsListed DEF Init, AnswersInv, Nothing, NoAnswer

LEMMA AnswersHold == Spec => []AnswersInv
BY InitAnswers, StepKeepsAnswers, PTL DEF Spec

(* A score is a number: a release has finitely many tokens to match.       *)
LEMMA WeightIsNat == ASSUME NEW token PROVE Weight(token) \in Nat
BY DEF Weight

LEMMA ScoreIsNumber ==
    ASSUME NEW sub \in Subtitle, IsFiniteSet(sub.release.tokens), NEW file
    PROVE  FitScore(sub, file) \in Int
<1>. DEFINE shared == file.tokens \cap sub.release.tokens
            weights == [token \in shared |-> Weight(token)]
<1>1. IsFiniteSet(shared)
  BY FS_Subset
<1>2. DOMAIN weights = shared /\ \A x \in shared : weights[x] \in Nat
  BY WeightIsNat
<1>. HIDE DEF shared, weights
<1>3. SumFunction(weights) \in Nat
  BY <1>1, <1>2, SumIsTotal, TotalIsNat
<1>4. sub.quality \in Nat
  BY DEF Subtitle
<1>5. ReleaseFit(file, sub.release) \in Int
  BY <1>3 DEF ReleaseFit, weights, shared
<1>6. TextScore(sub) \in Int
  BY <1>4 DEF TextScore
<1>. QED
  BY <1>5, <1>6 DEF FitScore

(* Ranking loses no subtitle and makes none up.                            *)
LEMMA RankKeepsSubs ==
    ASSUME NEW subs, Listed(subs), NEW file
    PROVE  /\ Rank(subs, file) \in Seq(Subtitle)
           /\ ToSet(Rank(subs, file)) = ToSet(subs)
<1>. DEFINE n == Len(subs)
            score == [i \in DOMAIN subs |-> -FitScore(subs[i], file)]
            fit == Sorted(score)
            tongue == [p \in DOMAIN fit |-> subs[fit[p]].lang]
            lang == Sorted(tongue)
<1>1. n \in Nat /\ DOMAIN subs = 1..n /\ \A i \in 1..n : subs[i] \in Subtitle /\ subs[i].lang \in Int
  <2>1. subs \in Seq(Subtitle) /\ \A sub \in Subtitle : sub.lang \in Int
    BY DEF Listed, Subtitle
  <2>. QED
    BY <2>1
<1>3. score \in [1..n -> Int]
  <2>1. ASSUME NEW i \in 1..n PROVE -FitScore(subs[i], file) \in Int
    BY <1>1, ScoreIsNumber DEF Listed
  <2>. QED
    BY <1>1, <2>1
<1>4. fit \in [1..n -> 1..n] /\ \A i \in 1..n : \E p \in 1..n : fit[p] = i
  <2>. HIDE DEF score, n
  <2>. QED
    BY <1>1, <1>3, SortedSequence
<1>5. tongue \in [1..n -> Int]
  <2>. HIDE DEF fit, n
  <2>. QED
    BY <1>1, <1>4
<1>6. lang \in [1..n -> 1..n] /\ \A i \in 1..n : \E p \in 1..n : lang[p] = i
  <2>. HIDE DEF tongue, n
  <2>. QED
    BY <1>1, <1>5, SortedSequence
<1>7. Rank(subs, file) = [p \in DOMAIN lang |-> subs[fit[lang[p]]]]
  BY Zenon DEF Rank
<1>. DEFINE ranked == Rank(subs, file)
<1>. HIDE DEF fit, lang, n, ranked
<1>8. ranked = [p \in 1..n |-> subs[fit[lang[p]]]]
  BY <1>6, <1>7 DEF ranked
<1>9. \A p \in 1..n : fit[lang[p]] \in 1..n /\ ranked[p] = subs[fit[lang[p]]] /\ ranked[p] \in Subtitle
  BY <1>1, <1>4, <1>6, <1>8
<1>10. ASSUME NEW i \in 1..n PROVE \E p \in 1..n : ranked[p] = subs[i]
  <2>1. PICK q \in 1..n : fit[q] = i
    BY <1>4
  <2>2. PICK p \in 1..n : lang[p] = q
    BY <1>6
  <2>. QED
    BY <1>9, <2>1, <2>2
<1>11. ranked \in Seq(Subtitle) /\ DOMAIN ranked = 1..n
  BY <1>1, <1>8, <1>9
<1>12. ToSet(ranked) = {ranked[p] : p \in 1..n} /\ ToSet(subs) = {subs[i] : i \in 1..n}
  BY <1>1, <1>11 DEF ToSet
<1>13. \A p \in 1..n : ranked[p] \in ToSet(subs)
  BY <1>9, <1>12
<1>14. \A i \in 1..n : subs[i] \in ToSet(ranked)
  BY <1>10, <1>12
<1>15. ToSet(ranked) = ToSet(subs)
  BY <1>12, <1>13, <1>14
<1>. QED
  BY <1>11, <1>15 DEF ranked

(* Best chooses nothing: whatever is best has its id.                      *)
LEMMA BestHasOneId ==
    ASSUME NEW subs \in SUBSET Subtitle, NEW score \in [subs -> Int], NEW a \in subs,
           \A b \in subs : score[a] > score[b] \/ (score[a] = score[b] /\ a.id <= b.id)
    PROVE  Best(subs, score).id = a.id
<1>. DEFINE Beats(c) == \A b \in subs : score[c] > score[b] \/ (score[c] = score[b] /\ c.id <= b.id)
            best == CHOOSE c \in subs : Beats(c)
<1>1. best \in subs /\ Beats(best)
  OBVIOUS
<1>2. Best(subs, score) = best
  BY Zenon DEF Best
<1>. HIDE DEF best
<1>3. score[best] \in Int /\ score[a] \in Int /\ best.id \in Nat /\ a.id \in Nat
  BY <1>1 DEF Subtitle
<1>4. score[best] > score[a] \/ (score[best] = score[a] /\ best.id <= a.id)
  BY <1>1
<1>5. score[a] > score[best] \/ (score[a] = score[best] /\ a.id <= best.id)
  BY <1>1
<1>6. best.id = a.id
  BY <1>3, <1>4, <1>5
<1>. QED
  BY <1>2, <1>6

LEMMA TextScoreIsNumber == ASSUME NEW sub \in Subtitle PROVE TextScore(sub) \in Int
<1>1. sub.quality \in Nat
  BY DEF Subtitle
<1>. QED
  BY <1>1 DEF TextScore

(* The reference and the source are the ones min_by_key returns: a         *)
(* subtitle than which none scores higher, nor as high with a lower id.    *)
(* There may be several such entries in a list; they have one id.          *)
THEOREM PicksAreMinimal ==
    ASSUME NEW subs, Listed(subs), NEW i \in 1..Len(subs)
    PROVE  /\ LET score(s) == TextScore(s) + (IF s.lang = English THEN 10000 ELSE 0)
              IN  (\A j \in 1..Len(subs) :
                      \/ score(subs[i]) > score(subs[j])
                      \/ score(subs[i]) = score(subs[j]) /\ subs[i].id <= subs[j].id)
                  => TranslationSource(subs) = subs[i].id
           /\ subs[i].hash /\ (\A j \in 1..Len(subs) : subs[j].hash =>
                      \/ FitScore(subs[i], NoFile) > FitScore(subs[j], NoFile)
                      \/ FitScore(subs[i], NoFile) = FitScore(subs[j], NoFile) /\ subs[i].id <= subs[j].id)
              => Tier1Reference(subs) = subs[i].id
<1>1. subs \in Seq(Subtitle) /\ subs # <<>> /\ ToSet(subs) = {subs[j] : j \in 1..Len(subs)}
  <2>1. subs \in Seq(Subtitle)
    BY DEF Listed
  <2>. QED
    BY <2>1 DEF ToSet
<1>2. ToSet(subs) \in SUBSET Subtitle /\ subs[i] \in ToSet(subs)
  BY <1>1
<1>3. \A s \in ToSet(subs) : TextScore(s) \in Int /\ FitScore(s, NoFile) \in Int
  <2>1. \A s \in ToSet(subs) : IsFiniteSet(s.release.tokens)
    BY <1>1 DEF Listed
  <2>. QED
    BY <1>2, <2>1, TextScoreIsNumber, ScoreIsNumber
<1>4. ASSUME \A j \in 1..Len(subs) :
               LET score(s) == TextScore(s) + (IF s.lang = English THEN 10000 ELSE 0)
               IN  \/ score(subs[i]) > score(subs[j])
                   \/ score(subs[i]) = score(subs[j]) /\ subs[i].id <= subs[j].id
      PROVE  TranslationSource(subs) = subs[i].id
  <2>. DEFINE all == ToSet(subs)
              score == [s \in all |-> TextScore(s) + (IF s.lang = English THEN 10000 ELSE 0)]
  <2>1. score \in [all -> Int]
    BY <1>3
  <2>2. TranslationSource(subs) = Best(all, score).id
    BY <1>1 DEF TranslationSource
  <2>3. \A b \in all : score[subs[i]] > score[b] \/ (score[subs[i]] = score[b] /\ subs[i].id <= b.id)
    BY <1>1, <1>2, <1>4
  <2>. HIDE DEF all, score
  <2>4. subs[i] \in all /\ all \in SUBSET Subtitle
    BY <1>2 DEF all
  <2>. QED
    BY <2>1, <2>2, <2>3, <2>4, BestHasOneId
<1>5. ASSUME subs[i].hash, \A j \in 1..Len(subs) : subs[j].hash =>
                \/ FitScore(subs[i], NoFile) > FitScore(subs[j], NoFile)
                \/ FitScore(subs[i], NoFile) = FitScore(subs[j], NoFile) /\ subs[i].id <= subs[j].id
      PROVE  Tier1Reference(subs) = subs[i].id
  <2>. DEFINE matched == {s \in ToSet(subs) : s.hash}
              score == [s \in matched |-> FitScore(s, NoFile)]
  <2>1. score \in [matched -> Int]
    BY <1>3
  <2>2. subs[i] \in matched /\ matched \in SUBSET Subtitle /\ matched # {}
    BY <1>2, <1>5
  <2>3. Tier1Reference(subs) = Best(matched, score).id
    BY <2>2 DEF Tier1Reference
  <2>4. \A b \in matched : score[subs[i]] > score[b] \/ (score[subs[i]] = score[b] /\ subs[i].id <= b.id)
    BY <1>1, <1>5, <2>2
  <2>. HIDE DEF matched, score
  <2>. QED
    BY <2>1, <2>2, <2>3, <2>4, BestHasOneId
<1>. QED
  BY <1>4, <1>5

(* Whatever the order of the list and whatever is playing, the reference   *)
(* and the source are the same (tier1_reference, translation_source).      *)
THEOREM OnePickPerList == Spec => []PicksIgnoreOrder
<1>1. AnswersInv => PicksIgnoreOrder
  <2>. SUFFICES ASSUME AnswersInv, NEW r \in Request, NEW q \in Request,
                       ToSet(answer[r].subs) = ToSet(answer[q].subs)
                PROVE  LET a == Offer(r) b == Offer(q)
                       IN  /\ TranslationSource(answer[r].subs) = TranslationSource(answer[q].subs)
                           /\ \A i \in DOMAIN a.subs, j \in DOMAIN b.subs :
                                 a.subs[i].id = b.subs[j].id => a.refs[i] = b.refs[j]
    BY DEF PicksIgnoreOrder
  <2>. DEFINE s == answer[r].subs
              t == answer[q].subs
              rs == Rank(s, Playing(r))
              rt == Rank(t, Playing(q))
              ref == Tier1Reference(rs)
  <2>1. Listed(s) /\ Listed(t)
    BY DEF AnswersInv
  <2>. HIDE DEF s, t
  <2>2. ToSet(rs) = ToSet(s) /\ ToSet(rt) = ToSet(t)
    BY <2>1, RankKeepsSubs
  <2>3. ToSet(s) = ToSet(t)
    BY DEF s, t
  <2>4. TranslationSource(s) = TranslationSource(t)
    <3>. DEFINE Empty(u) == u = <<>> <=> ToSet(u) = {}
    <3>0. ASSUME NEW u, Listed(u) PROVE Empty(u)
      <4>1. u \in Seq(Subtitle) /\ ToSet(u) = {u[i] : i \in 1..Len(u)}
        BY <3>0 DEF Listed, ToSet
      <4>2. CASE u = <<>>
        BY <4>1, <4>2
      <4>3. CASE u # <<>>
        <5>1. 1 \in 1..Len(u)
          BY <4>1, <4>3
        <5>2. u[1] \in ToSet(u)
          BY <4>1, <5>1
        <5>. QED
          BY <4>3, <5>2
      <4>. QED
        BY <4>2, <4>3
    <3>1. s = <<>> <=> t = <<>>
      BY <2>1, <2>3, <3>0
    <3>. QED
      BY <2>3, <3>1 DEF TranslationSource
  <2>5. Tier1Reference(rt) = ref
    BY <2>2, <2>3 DEF Tier1Reference
  <2>6. /\ Offer(r).subs = rs /\ Offer(r).refs = [i \in DOMAIN rs |-> Tier1RefFor(rs[i], ref)]
        /\ Offer(q).subs = rt /\ Offer(q).refs = [i \in DOMAIN rt |-> Tier1RefFor(rt[i], Tier1Reference(rt))]
    BY DEF Offer, s, t
  <2>. HIDE DEF rs, rt, ref
  <2>7. ASSUME NEW i \in DOMAIN rs, NEW j \in DOMAIN rt, rs[i].id = rt[j].id
        PROVE  Tier1RefFor(rs[i], ref) = Tier1RefFor(rt[j], ref)
    <3>1. rs[i] \in ToSet(s) /\ rt[j] \in ToSet(s)
      BY <2>2, <2>3 DEF ToSet
    <3>2. \E k \in 1..Len(s), l \in 1..Len(s) : rs[i] = s[k] /\ rt[j] = s[l]
      BY <2>1, <3>1 DEF ToSet, Listed
    <3>3. rs[i].hash = rt[j].hash
      BY <2>1, <2>7, <3>2 DEF Listed
    <3>. QED
      BY <2>7, <3>3 DEF Tier1RefFor
  <2>. QED
    BY <2>4, <2>5, <2>6, <2>7 DEF s, t
<1>. QED
  BY <1>1, AnswersHold, PTL

-----------------------------------------------------------------------------
(* The map of locks *)

(* A task holds a clone from Arrive until it cancels or releases, and names *)
(* a key until its guard has looked at the map.                             *)
FlightShape ==
  \A t \in Task :
    /\ pc[t] = "out" <=> arc[t] = NoLock
    /\ Involved(t) => key[t] \in Key
    /\ ~Involved(t) => key[t] = NoKey

(* Two keys never share a lock. *)
OneKeyPerLock ==
  \A j, k \in Key : keys[j] = keys[k] /\ keys[j] # NoLock => j = k

(* A guard that has not released yet is the owner of its lock. *)
GuardOwnsPermit ==
  \A t \in Task : pc[t] \in {"holding", "leaving"} => permit[arc[t]] = t

(* An entry a guard left behind when it dropped was left for somebody. *)
LeftForSomebody ==
  \A t \in Task, k \in Key :
    pc[t] = "leaving" /\ keys[k] = arc[t] =>
      k \in abandoned \/ \E u \in Task : u # t /\ arc[u] = arc[t]

MapInv ==
  /\ FlightTypeOK
  /\ FlightShape
  /\ OneKeyPerLock
  /\ TrackedWhileNeeded
  /\ GuardOwnsPermit

-----------------------------------------------------------------------------
(* What the reference counts say. *)

(* An entry is in use exactly when some task holds a clone of its lock. *)
LEMMA InUseMeansCloned ==
  ASSUME FlightTypeOK, OneKeyPerLock, NEW k \in Key, keys[k] # NoLock
  PROVE  InUse(keys[k]) <=> \E t \in Task : arc[t] = keys[k]
<1>1. MapsTo(keys[k]) = {k}
  BY DEF MapsTo, OneKeyPerLock
<1>2. Cardinality(MapsTo(keys[k])) = 1
  BY <1>1, FS_Singleton
<1>3. IsFiniteSet(Clones(keys[k]))
  BY InFlightAssumption, FS_Subset DEF Clones
<1>4. Cardinality(Clones(keys[k])) \in Nat
  BY <1>3, FS_CardinalityType
<1>5. Cardinality(Clones(keys[k])) = 0 <=> Clones(keys[k]) = {}
  BY <1>3, FS_EmptySet
<1>6. Clones(keys[k]) = {} <=> ~ \E t \in Task : arc[t] = keys[k]
  BY DEF Clones
<1>7. InUse(keys[k]) <=> Cardinality(Clones(keys[k])) # 0
  BY <1>2, <1>4 DEF InUse, StrongCount
<1>. QED
  BY <1>5, <1>6, <1>7

(* A guard finds a count of two exactly when its own clone is the only one. *)
LEMMA LastOneMeansAlone ==
  ASSUME FlightTypeOK, OneKeyPerLock, NEW k \in Key, keys[k] # NoLock,
         NEW t \in Task, arc[t] = keys[k]
  PROVE  NobodyElseNeeds(keys[k]) <=> \A u \in Task : arc[u] = keys[k] => u = t
<1>1. MapsTo(keys[k]) = {k}
  BY DEF MapsTo, OneKeyPerLock
<1>2. Cardinality(MapsTo(keys[k])) = 1
  BY <1>1, FS_Singleton
<1>3. IsFiniteSet(Clones(keys[k]))
  BY InFlightAssumption, FS_Subset DEF Clones
<1>4. t \in Clones(keys[k])
  BY DEF Clones
<1>5. /\ IsFiniteSet(Clones(keys[k]) \ {t})
      /\ Cardinality(Clones(keys[k]) \ {t}) = Cardinality(Clones(keys[k])) - 1
  BY <1>3, <1>4, FS_RemoveElement
<1>6. /\ Cardinality(Clones(keys[k])) \in Nat
      /\ Cardinality(Clones(keys[k]) \ {t}) \in Nat
  BY <1>3, <1>5, FS_CardinalityType
<1>7. Cardinality(Clones(keys[k]) \ {t}) = 0 <=> Clones(keys[k]) \ {t} = {}
  BY <1>5, FS_EmptySet
<1>8. NobodyElseNeeds(keys[k]) <=> Cardinality(Clones(keys[k]) \ {t}) = 0
  BY <1>2, <1>5, <1>6 DEF NobodyElseNeeds, StrongCount
<1>9. Clones(keys[k]) \ {t} = {} <=> \A u \in Task : arc[u] = keys[k] => u = t
  BY DEF Clones
<1>. QED
  BY <1>7, <1>8, <1>9

(* The sweep keeps exactly the entries somebody holds a clone of. *)
LEMMA SweepKeepsTheCloned ==
  ASSUME FlightTypeOK, OneKeyPerLock, NEW k \in Key
  PROVE  /\ Swept[k] # NoLock => Swept[k] = keys[k] /\ \E t \in Task : arc[t] = keys[k]
         /\ keys[k] # NoLock /\ (\E t \in Task : arc[t] = keys[k]) => Swept[k] = keys[k]
<1>1. CASE keys[k] = NoLock
  BY <1>1 DEF Swept
<1>2. CASE keys[k] # NoLock
  BY <1>2, InUseMeansCloned DEF Swept
<1>. QED
  BY <1>1, <1>2

(* Taking one element out of a queue leaves a queue. *)
LEMMA QueueAfterRemoval ==
  ASSUME NEW S, NEW s \in Seq(S), NEW i \in 1..Len(s)
  PROVE  RemoveAt(s, i) \in Seq(S)
<1>1. Len(s) \in Nat
  OBVIOUS
<1>2. SubSeq(s, 1, i-1) \in Seq(S)
  BY <1>1
<1>3. SubSeq(s, i+1, Len(s)) \in Seq(S)
  BY <1>1
<1>. QED
  BY <1>2, <1>3 DEF RemoveAt

-----------------------------------------------------------------------------
(* The inductive invariant. *)

LEMMA InitMapInv == FlightInit => MapInv
BY InFlightAssumption
   DEF FlightInit, MapInv, FlightTypeOK, FlightShape, OneKeyPerLock, TrackedWhileNeeded,
       GuardOwnsPermit, Involved, Phase

LEMMA ArriveKeepsMapInv ==
  ASSUME MapInv, NEW t \in Task, NEW k \in Key, Arrive(t, k)
  PROVE  MapInv'
<1>1. PICK l \in IF Swept[k] # NoLock THEN {Swept[k]} ELSE {f \in Lock : Unreferenced(f)} :
        /\ keys' = [Swept EXCEPT ![k] = l]
        /\ arc' = [arc EXCEPT ![t] = l]
  BY DEF Arrive
<1>2. /\ pc[t] = "out" /\ arc[t] = NoLock
      /\ pc' = [pc EXCEPT ![t] = "cloned"]
      /\ key' = [key EXCEPT ![t] = k]
      /\ abandoned' = {j \in abandoned : Swept[j] # NoLock}
      /\ permit' = permit /\ queue' = queue
  BY DEF Arrive, MapInv, FlightShape
<1>3. \A j \in Key : /\ Swept[j] # NoLock =>
                          Swept[j] = keys[j] /\ \E u \in Task : arc[u] = keys[j]
                     /\ keys[j] # NoLock /\ (\E u \in Task : arc[u] = keys[j])
                          => Swept[j] = keys[j]
  BY SweepKeepsTheCloned DEF MapInv
<1>4. Swept \in [Key -> Lock \cup {NoLock}]
  BY DEF Swept, MapInv, FlightTypeOK
<1>5. /\ l \in Lock
      /\ Swept[k] # NoLock => l = keys[k]
      /\ Swept[k] = NoLock => (\A j \in Key : keys[j] # l) /\ (\A u \in Task : arc[u] # l)
  BY <1>1, <1>3, <1>4 DEF Unreferenced, MapsTo, Clones, MapInv, FlightTypeOK
<1>6. FlightTypeOK'
  BY <1>1, <1>2, <1>4, <1>5 DEF MapInv, FlightTypeOK, Phase
<1>7. FlightShape'
  BY <1>1, <1>2, <1>5, InFlightAssumption DEF MapInv, FlightTypeOK, FlightShape, Involved
<1>8. OneKeyPerLock'
  BY <1>1, <1>3, <1>4, <1>5 DEF MapInv, OneKeyPerLock, FlightTypeOK
<1>9. TrackedWhileNeeded'
  <2>. SUFFICES ASSUME NEW u \in Task, Involved(u)'
                PROVE  keys'[key'[u]] = arc'[u]
    BY DEF TrackedWhileNeeded
  <2>1. CASE u = t
    BY <1>1, <1>2, <1>4, <2>1 DEF MapInv, FlightTypeOK
  <2>2. CASE u # t
    <3>1. Involved(u) /\ key'[u] = key[u] /\ arc'[u] = arc[u]
      BY <1>1, <1>2, <2>2 DEF Involved, MapInv, FlightTypeOK
    <3>2. key[u] \in Key /\ keys[key[u]] = arc[u] /\ arc[u] # NoLock
      BY <3>1 DEF MapInv, FlightShape, TrackedWhileNeeded, Involved
    <3>3. Swept[key[u]] = arc[u]
      BY <1>3, <3>2
    <3>4. keys'[key[u]] = arc[u]
      BY <1>1, <1>4, <1>5, <3>2, <3>3
    <3>. QED
      BY <3>1, <3>4
  <2>. QED
    BY <2>1, <2>2
<1>10. GuardOwnsPermit'
  BY <1>1, <1>2 DEF MapInv, FlightTypeOK, GuardOwnsPermit
<1>. QED
  BY <1>6, <1>7, <1>8, <1>9, <1>10 DEF MapInv

LEMMA EnqueueKeepsMapInv ==
  ASSUME MapInv, NEW t \in Task, Enqueue(t)
  PROVE  MapInv'
<1>1. arc[t] \in Lock
  BY DEF MapInv, FlightTypeOK, FlightShape, Enqueue
<1>2. FlightTypeOK'
  BY <1>1 DEF MapInv, FlightTypeOK, Enqueue, Phase
<1>3. FlightShape' /\ TrackedWhileNeeded'
  BY DEF MapInv, FlightTypeOK, FlightShape, TrackedWhileNeeded, Involved, Enqueue
<1>4. OneKeyPerLock' /\ GuardOwnsPermit'
  BY DEF MapInv, FlightTypeOK, OneKeyPerLock, GuardOwnsPermit, Enqueue
<1>. QED
  BY <1>2, <1>3, <1>4 DEF MapInv

LEMMA TakeKeepsMapInv ==
  ASSUME MapInv, NEW t \in Task, Take(t)
  PROVE  MapInv'
<1>1. arc[t] \in Lock
  BY DEF MapInv, FlightTypeOK, FlightShape, Take
<1>2. FlightTypeOK'
  BY <1>1 DEF MapInv, FlightTypeOK, Take, Phase
<1>3. FlightShape' /\ TrackedWhileNeeded'
  BY DEF MapInv, FlightTypeOK, FlightShape, TrackedWhileNeeded, Involved, Take
<1>4. OneKeyPerLock'
  BY DEF MapInv, OneKeyPerLock, Take
<1>5. GuardOwnsPermit'
  BY <1>1, InFlightAssumption DEF MapInv, FlightTypeOK, GuardOwnsPermit, Take
<1>. QED
  BY <1>2, <1>3, <1>4, <1>5 DEF MapInv

LEMMA CancelKeepsMapInv ==
  ASSUME MapInv, NEW t \in Task, Cancel(t)
  PROVE  MapInv'
<1>1. /\ pc[t] \in {"cloned", "waiting"} /\ arc[t] \in Lock /\ key[t] \in Key
      /\ pc' = [pc EXCEPT ![t] = "out"]
      /\ key' = [key EXCEPT ![t] = NoKey]
      /\ arc' = [arc EXCEPT ![t] = NoLock]
      /\ abandoned' = abandoned \cup {key[t]}
      /\ keys' = keys /\ permit' = permit
  BY DEF MapInv, FlightTypeOK, FlightShape, Involved, Cancel
<1>2. queue' \in [Lock -> Seq(Task)]
  <2>1. CASE UNCHANGED queue
    BY <2>1 DEF MapInv, FlightTypeOK
  <2>2. ASSUME NEW i \in 1..Len(queue[arc[t]]),
               queue' = [queue EXCEPT ![arc[t]] = RemoveAt(@, i)]
        PROVE  queue' \in [Lock -> Seq(Task)]
    <3>1. queue[arc[t]] \in Seq(Task)
      BY <1>1 DEF MapInv, FlightTypeOK
    <3>2. RemoveAt(queue[arc[t]], i) \in Seq(Task)
      BY <3>1, <2>2, QueueAfterRemoval
    <3>. QED
      BY <2>2, <3>2 DEF MapInv, FlightTypeOK
  <2>. QED
    BY <2>1, <2>2 DEF Cancel
<1>3. FlightTypeOK'
  BY <1>1, <1>2 DEF MapInv, FlightTypeOK, Phase
<1>4. FlightShape' /\ TrackedWhileNeeded'
  BY <1>1, InFlightAssumption DEF MapInv, FlightTypeOK, FlightShape, TrackedWhileNeeded, Involved
<1>5. OneKeyPerLock' /\ GuardOwnsPermit'
  BY <1>1 DEF MapInv, FlightTypeOK, OneKeyPerLock, GuardOwnsPermit
<1>. QED
  BY <1>3, <1>4, <1>5 DEF MapInv

(* The guard's own lock is the one mapped, so the entry it takes out is one *)
(* that nobody but itself holds a clone of.                                 *)
LEMMA DropGuardKeepsMapInv ==
  ASSUME MapInv, NEW t \in Task, DropGuard(t)
  PROVE  MapInv'
<1>1. /\ pc[t] = "holding" /\ key[t] \in Key /\ arc[t] \in Lock /\ arc[t] # NoLock
      /\ keys[key[t]] = arc[t]
      /\ pc' = [pc EXCEPT ![t] = "leaving"]
      /\ key' = [key EXCEPT ![t] = NoKey]
      /\ arc' = arc /\ permit' = permit /\ queue' = queue
  BY DEF MapInv, FlightTypeOK, FlightShape, Involved, TrackedWhileNeeded, DropGuard
<1>2. NobodyElseNeeds(keys[key[t]]) <=> \A u \in Task : arc[u] = keys[key[t]] => u = t
  BY <1>1, LastOneMeansAlone DEF MapInv
<1>3. \/ keys' = keys
      \/ keys' = [keys EXCEPT ![key[t]] = NoLock] /\ \A u \in Task : arc[u] = arc[t] => u = t
  BY <1>1, <1>2 DEF DropGuard
<1>4. FlightTypeOK'
  BY <1>1, <1>3 DEF MapInv, FlightTypeOK, Phase, DropGuard
<1>5. FlightShape'
  BY <1>1, InFlightAssumption DEF MapInv, FlightTypeOK, FlightShape, Involved
<1>6. OneKeyPerLock'
  BY <1>3 DEF MapInv, FlightTypeOK, OneKeyPerLock
<1>7. TrackedWhileNeeded'
  <2>. SUFFICES ASSUME NEW u \in Task, Involved(u)'
                PROVE  keys'[key'[u]] = arc'[u]
    BY DEF TrackedWhileNeeded
  <2>1. u # t /\ Involved(u) /\ key'[u] = key[u]
    BY <1>1 DEF Involved, MapInv, FlightTypeOK
  <2>2. key[u] \in Key /\ keys[key[u]] = arc[u]
    BY <2>1 DEF MapInv, FlightShape, TrackedWhileNeeded
  <2>3. keys'[key[u]] = keys[key[u]]
    BY <1>1, <1>3, <2>1, <2>2 DEF MapInv, FlightTypeOK
  <2>. QED
    BY <1>1, <2>1, <2>2, <2>3
<1>8. GuardOwnsPermit'
  BY <1>1 DEF MapInv, FlightTypeOK, GuardOwnsPermit
<1>. QED
  BY <1>4, <1>5, <1>6, <1>7, <1>8 DEF MapInv

LEMMA ReleasePermitKeepsMapInv ==
  ASSUME MapInv, NEW t \in Task, ReleasePermit(t)
  PROVE  MapInv'
<1>1. arc[t] \in Lock /\ permit[arc[t]] = t
  BY DEF MapInv, FlightTypeOK, FlightShape, GuardOwnsPermit, ReleasePermit
<1>2. FlightTypeOK'
  BY <1>1 DEF MapInv, FlightTypeOK, Phase, ReleasePermit
<1>3. FlightShape' /\ TrackedWhileNeeded'
  BY DEF MapInv, FlightTypeOK, FlightShape, TrackedWhileNeeded, Involved, ReleasePermit
<1>4. OneKeyPerLock'
  BY DEF MapInv, OneKeyPerLock, ReleasePermit
<1>5. GuardOwnsPermit'
  BY <1>1 DEF MapInv, FlightTypeOK, GuardOwnsPermit, ReleasePermit
<1>. QED
  BY <1>2, <1>3, <1>4, <1>5 DEF MapInv

LEMMA NextKeepsMapInv == MapInv /\ [FlightNext]_flightVars => MapInv'
<1>1. ASSUME MapInv, NEW t \in Task, NEW k \in Key, Arrive(t, k) PROVE MapInv'
  BY <1>1, ArriveKeepsMapInv
<1>2. ASSUME MapInv, NEW t \in Task, Enqueue(t) PROVE MapInv'
  BY <1>2, EnqueueKeepsMapInv
<1>3. ASSUME MapInv, NEW t \in Task, Take(t) PROVE MapInv'
  BY <1>3, TakeKeepsMapInv
<1>4. ASSUME MapInv, NEW t \in Task, Cancel(t) PROVE MapInv'
  BY <1>4, CancelKeepsMapInv
<1>5. ASSUME MapInv, NEW t \in Task, DropGuard(t) PROVE MapInv'
  BY <1>5, DropGuardKeepsMapInv
<1>6. ASSUME MapInv, NEW t \in Task, ReleasePermit(t) PROVE MapInv'
  BY <1>6, ReleasePermitKeepsMapInv
<1>7. ASSUME MapInv, UNCHANGED flightVars PROVE MapInv'
  BY <1>7 DEF flightVars, MapInv, FlightTypeOK, FlightShape, OneKeyPerLock, TrackedWhileNeeded,
              GuardOwnsPermit, Involved
<1>. QED
  BY <1>1, <1>2, <1>3, <1>4, <1>5, <1>6, <1>7 DEF FlightNext

LEMMA MapInvariance == FlightSpec => []MapInv
BY InitMapInv, NextKeepsMapInv, PTL DEF FlightSpec

-----------------------------------------------------------------------------
(* The results. *)

(* Every reachable state is well typed. *)
THEOREM FlightTypeCorrect == FlightSpec => []FlightTypeOK
BY MapInvariance, PTL DEF MapInv

(* No two tasks produce one key at once: each is on the lock the map names   *)
(* for that key, so they are on one lock, and a lock has one owner.          *)
THEOREM MutualExclusion == FlightSpec => []OneProducerPerKey
<1>1. MapInv => OneProducerPerKey
  <2>. SUFFICES ASSUME MapInv, NEW t \in Task, NEW u \in Task,
                       pc[t] = "holding", pc[u] = "holding", key[t] = key[u]
                PROVE  t = u
    BY DEF OneProducerPerKey
  <2>1. arc[t] = arc[u]
    BY DEF MapInv, TrackedWhileNeeded, Involved
  <2>. QED
    BY <2>1 DEF MapInv, GuardOwnsPermit
<1>. QED
  BY <1>1, MapInvariance, PTL

(* The map names a task's lock from its arrival until its guard drops. *)
THEOREM Tracking == FlightSpec => []TrackedWhileNeeded
BY MapInvariance, PTL DEF MapInv

-----------------------------------------------------------------------------
(* Orphans.  The entry a guard leaves behind is left for a waiter; when the  *)
(* waiter takes over it is tracked again, and when it is cancelled the key   *)
(* is on record as abandoned.                                                *)

OInv == OrphansOnlyFromCancelled /\ LeftForSomebody

LEMMA InitOInv == FlightInit => OInv
BY DEF FlightInit, OInv, OrphansOnlyFromCancelled, LeftForSomebody, Clones

LEMMA ArriveKeepsOInv ==
  ASSUME MapInv, OInv, NEW t \in Task, NEW k \in Key, Arrive(t, k)
  PROVE  OInv'
<1>1. PICK l \in IF Swept[k] # NoLock THEN {Swept[k]} ELSE {f \in Lock : Unreferenced(f)} :
        /\ keys' = [Swept EXCEPT ![k] = l]
        /\ arc' = [arc EXCEPT ![t] = l]
  BY DEF Arrive
<1>2. /\ pc[t] = "out" /\ arc[t] = NoLock
      /\ pc' = [pc EXCEPT ![t] = "cloned"]
      /\ abandoned' = {j \in abandoned : Swept[j] # NoLock}
  BY DEF Arrive, MapInv, FlightShape
<1>3. \A j \in Key : Swept[j] # NoLock =>
                          Swept[j] = keys[j] /\ \E u \in Task : arc[u] = keys[j]
  BY SweepKeepsTheCloned DEF MapInv
<1>4. Swept \in [Key -> Lock \cup {NoLock}]
  BY DEF Swept, MapInv, FlightTypeOK
<1>5. /\ l \in Lock
      /\ Swept[k] # NoLock => l = Swept[k]
      /\ Swept[k] = NoLock => (\A j \in Key : keys[j] # l) /\ (\A u \in Task : arc[u] # l)
  BY <1>1, <1>3, <1>4 DEF Unreferenced, MapsTo, Clones, MapInv, FlightTypeOK
<1>6. OrphansOnlyFromCancelled'
  <2>. SUFFICES ASSUME NEW j \in Key, keys'[j] # NoLock
                PROVE  \E u \in Task : arc'[u] = keys'[j]
    BY DEF OrphansOnlyFromCancelled, Clones
  <2>1. CASE j = k
    BY <1>1, <1>4, <2>1 DEF MapInv, FlightTypeOK
  <2>2. CASE j # k
    <3>1. keys'[j] = Swept[j] /\ Swept[j] # NoLock
      BY <1>1, <1>4, <2>2
    <3>2. PICK u \in Task : arc[u] = Swept[j]
      BY <1>3, <3>1
    <3>3. u # t
      BY <1>2, <3>1, <3>2
    <3>. QED
      BY <1>1, <3>1, <3>2, <3>3 DEF MapInv, FlightTypeOK
  <2>. QED
    BY <2>1, <2>2
<1>7. LeftForSomebody'
  <2>. SUFFICES ASSUME NEW v \in Task, NEW j \in Key, pc'[v] = "leaving", keys'[j] = arc'[v]
                PROVE  j \in abandoned' \/ \E u \in Task : u # v /\ arc'[u] = arc'[v]
    BY DEF LeftForSomebody
  <2>1. v # t /\ pc[v] = "leaving" /\ arc'[v] = arc[v] /\ arc[v] # NoLock
    BY <1>1, <1>2 DEF MapInv, FlightTypeOK, FlightShape
  <2>2. CASE j = k /\ Swept[k] = NoLock
    BY <1>1, <1>4, <1>5, <2>1, <2>2
  <2>3. CASE ~(j = k /\ Swept[k] = NoLock)
    <3>1. Swept[j] = arc[v]
      BY <1>1, <1>4, <1>5, <2>1, <2>3
    <3>2. keys[j] = arc[v]
      BY <1>3, <2>1, <3>1
    <3>3. j \in abandoned \/ \E u \in Task : u # v /\ arc[u] = arc[v]
      BY <2>1, <3>2 DEF OInv, LeftForSomebody
    <3>4. \A u \in Task : arc[u] = arc[v] => u # t /\ arc'[u] = arc[u]
      BY <1>1, <1>2, <2>1 DEF MapInv, FlightTypeOK
    <3>. QED
      BY <1>2, <2>1, <3>1, <3>3, <3>4
  <2>. QED
    BY <2>2, <2>3
<1>. QED
  BY <1>6, <1>7 DEF OInv

LEMMA CancelKeepsOInv ==
  ASSUME MapInv, OInv, NEW t \in Task, Cancel(t)
  PROVE  OInv'
<1>1. /\ pc[t] \in {"cloned", "waiting"} /\ key[t] \in Key
      /\ keys[key[t]] = arc[t] /\ arc[t] # NoLock
      /\ pc' = [pc EXCEPT ![t] = "out"]
      /\ arc' = [arc EXCEPT ![t] = NoLock]
      /\ abandoned' = abandoned \cup {key[t]}
      /\ keys' = keys
  BY DEF MapInv, FlightTypeOK, FlightShape, Involved, TrackedWhileNeeded, Cancel
<1>2. \A j \in Key : keys[j] = arc[t] => j = key[t]
  BY <1>1 DEF MapInv, OneKeyPerLock
<1>3. OrphansOnlyFromCancelled'
  BY <1>1, <1>2 DEF OInv, OrphansOnlyFromCancelled, Clones, MapInv, FlightTypeOK
<1>4. LeftForSomebody'
  BY <1>1, <1>2 DEF OInv, LeftForSomebody, MapInv, FlightTypeOK
<1>. QED
  BY <1>3, <1>4 DEF OInv

LEMMA DropGuardKeepsOInv ==
  ASSUME MapInv, OInv, NEW t \in Task, DropGuard(t)
  PROVE  OInv'
<1>1. /\ pc[t] = "holding" /\ key[t] \in Key /\ arc[t] # NoLock
      /\ keys[key[t]] = arc[t]
      /\ pc' = [pc EXCEPT ![t] = "leaving"]
      /\ abandoned' = {j \in abandoned : keys'[j] # NoLock}
      /\ arc' = arc
  BY DEF MapInv, FlightTypeOK, FlightShape, Involved, TrackedWhileNeeded, DropGuard
<1>2. NobodyElseNeeds(keys[key[t]]) <=> \A u \in Task : arc[u] = keys[key[t]] => u = t
  BY <1>1, LastOneMeansAlone DEF MapInv
<1>3. \/ /\ keys' = keys
         /\ \E u \in Task : u # t /\ arc[u] = arc[t]
      \/ keys' = [keys EXCEPT ![key[t]] = NoLock]
  BY <1>1, <1>2 DEF DropGuard
<1>4. \A j \in Key : keys'[j] # NoLock => keys'[j] = keys[j]
  BY <1>3 DEF MapInv, FlightTypeOK
<1>5. OrphansOnlyFromCancelled'
  BY <1>1, <1>4 DEF OInv, OrphansOnlyFromCancelled, Clones
<1>6. LeftForSomebody'
  <2>. SUFFICES ASSUME NEW v \in Task, NEW j \in Key, pc'[v] = "leaving", keys'[j] = arc'[v]
                PROVE  j \in abandoned' \/ \E u \in Task : u # v /\ arc'[u] = arc'[v]
    BY DEF LeftForSomebody
  <2>1. arc[v] # NoLock /\ keys'[j] # NoLock /\ keys[j] = arc[v]
    BY <1>1, <1>4 DEF MapInv, FlightTypeOK, FlightShape
  <2>2. CASE v = t
    <3>1. j = key[t]
      BY <1>1, <2>1, <2>2 DEF MapInv, OneKeyPerLock
    <3>. QED
      BY <1>1, <1>3, <2>1, <2>2, <3>1 DEF MapInv, FlightTypeOK
  <2>3. CASE v # t
    BY <1>1, <2>1, <2>3 DEF OInv, LeftForSomebody, MapInv, FlightTypeOK
  <2>. QED
    BY <2>2, <2>3
<1>. QED
  BY <1>5, <1>6 DEF OInv

LEMMA ReleasePermitKeepsOInv ==
  ASSUME MapInv, OInv, NEW t \in Task, ReleasePermit(t)
  PROVE  OInv'
<1>1. /\ pc[t] = "leaving" /\ arc[t] # NoLock /\ permit[arc[t]] = t
      /\ pc' = [pc EXCEPT ![t] = "out"]
      /\ arc' = [arc EXCEPT ![t] = NoLock]
      /\ keys' = keys /\ abandoned' = abandoned
  BY DEF MapInv, FlightTypeOK, FlightShape, GuardOwnsPermit, ReleasePermit
<1>2. \A v \in Task : v # t /\ pc[v] = "leaving" => arc[v] # arc[t]
  BY <1>1 DEF MapInv, GuardOwnsPermit
<1>3. OrphansOnlyFromCancelled'
  BY <1>1 DEF OInv, OrphansOnlyFromCancelled, LeftForSomebody, Clones, MapInv, FlightTypeOK
<1>4. LeftForSomebody'
  BY <1>1, <1>2 DEF OInv, LeftForSomebody, MapInv, FlightTypeOK
<1>. QED
  BY <1>3, <1>4 DEF OInv

(* The map holds an entry without a holder only for a key some waiter was    *)
(* cancelled on and no acquire has swept since.                              *)
THEOREM OrphansAreAccountedFor == FlightSpec => []OrphansOnlyFromCancelled
<1>1. MapInv /\ OInv /\ [FlightNext]_flightVars => OInv'
  <2>1. ASSUME MapInv, OInv, NEW t \in Task, NEW k \in Key, Arrive(t, k) PROVE OInv'
    BY <2>1, ArriveKeepsOInv
  <2>2. ASSUME MapInv, OInv, NEW t \in Task, Enqueue(t) PROVE OInv'
    BY <2>2 DEF OInv, OrphansOnlyFromCancelled, LeftForSomebody, Clones, Enqueue, MapInv, FlightTypeOK
  <2>3. ASSUME MapInv, OInv, NEW t \in Task, Take(t) PROVE OInv'
    BY <2>3 DEF OInv, OrphansOnlyFromCancelled, LeftForSomebody, Clones, Take, MapInv, FlightTypeOK
  <2>4. ASSUME MapInv, OInv, NEW t \in Task, Cancel(t) PROVE OInv'
    BY <2>4, CancelKeepsOInv
  <2>5. ASSUME MapInv, OInv, NEW t \in Task, DropGuard(t) PROVE OInv'
    BY <2>5, DropGuardKeepsOInv
  <2>6. ASSUME MapInv, OInv, NEW t \in Task, ReleasePermit(t) PROVE OInv'
    BY <2>6, ReleasePermitKeepsOInv
  <2>7. ASSUME OInv, UNCHANGED flightVars PROVE OInv'
    BY <2>7 DEF flightVars, OInv, OrphansOnlyFromCancelled, LeftForSomebody, Clones
  <2>. QED
    BY <2>1, <2>2, <2>3, <2>4, <2>5, <2>6, <2>7 DEF FlightNext
<1>2. OInv => OrphansOnlyFromCancelled
  BY DEF OInv
<1>. QED
  BY <1>1, <1>2, InitOInv, MapInvariance, PTL DEF FlightSpec

(* The three together. *)
THEOREM Soundness == FlightSpec => []MapIsSound
<1>1. MapIsSound <=> OneProducerPerKey /\ TrackedWhileNeeded /\ OrphansOnlyFromCancelled
  BY DEF MapIsSound
<1>. QED
  BY <1>1, MutualExclusion, Tracking, OrphansAreAccountedFor, PTL

-----------------------------------------------------------------------------
(* Refinement: Arrive asks, Take enters, Cancel gives up, DropGuard leaves,  *)
(* and Enqueue and ReleasePermit are invisible.                              *)

LEMMA StepsRefine ==
  ASSUME MapInv, [FlightNext]_flightVars
  PROVE  [KM!Next]_(KM!vars)
<1>. DEFINE phase == [t \in Task |-> CASE pc[t] \in {"cloned", "waiting"} -> "wants"
                                       [] pc[t] = "holding" -> "produces"
                                       [] OTHER -> "out"]
<1>0. pc \in [Task -> Phase] /\ key \in [Task -> Key \cup {NoKey}]
  BY DEF MapInv, FlightTypeOK
<1>1. ASSUME NEW t \in Task, NEW k \in Key, Arrive(t, k) PROVE KM!Ask(t, k)
  BY <1>0, <1>1 DEF Arrive, KM!Ask, Phase
<1>2. ASSUME NEW t \in Task, Enqueue(t) PROVE UNCHANGED KM!vars
  BY <1>0, <1>2 DEF Enqueue, KM!vars, Phase
<1>3. ASSUME NEW t \in Task, Take(t) PROVE KM!Enter(t)
  <2>1. \A u \in Task : pc[u] = "holding" => key[u] # key[t]
    BY <1>3, InFlightAssumption
       DEF Take, MapInv, FlightTypeOK, GuardOwnsPermit, TrackedWhileNeeded, Involved
  <2>2. phase[t] = "wants"
    BY <1>3 DEF Take
  <2>3. phase' = [phase EXCEPT ![t] = "produces"]
    BY <1>0, <1>3 DEF Take, Phase
  <2>4. \A u \in Task : phase[u] = "produces" => pc[u] = "holding"
    OBVIOUS
  <2>. QED
    BY <2>1, <2>2, <2>3, <2>4, <1>3 DEF KM!Enter, Take
<1>4. ASSUME NEW t \in Task, Cancel(t) PROVE KM!GiveUp(t)
  <2>1. /\ pc[t] \in {"cloned", "waiting"}
        /\ pc' = [pc EXCEPT ![t] = "out"]
        /\ key' = [key EXCEPT ![t] = NoKey]
    BY <1>4 DEF Cancel
  <2>2. phase[t] = "wants" /\ phase' = [phase EXCEPT ![t] = "out"]
    BY <1>0, <2>1 DEF Phase
  <2>. QED
    BY <2>1, <2>2 DEF KM!GiveUp
<1>5. ASSUME NEW t \in Task, DropGuard(t) PROVE KM!Leave(t)
  BY <1>0, <1>5 DEF DropGuard, KM!Leave, Phase
<1>6. ASSUME NEW t \in Task, ReleasePermit(t) PROVE UNCHANGED KM!vars
  BY <1>0, <1>6 DEF ReleasePermit, KM!vars, Phase
<1>7. ASSUME UNCHANGED flightVars PROVE UNCHANGED KM!vars
  BY <1>7 DEF flightVars, KM!vars
<1>. QED
  BY <1>1, <1>2, <1>3, <1>4, <1>5, <1>6, <1>7 DEF FlightNext, KM!Next

(* Every behaviour of the map and its locks is one of the keyed mutex. *)
THEOREM Refinement == FlightSpec => ImplementsKeyedMutex
<1>1. FlightInit => KM!Init
  BY DEF FlightInit, KM!Init
<1>2. MapInv /\ [FlightNext]_flightVars => [KM!Next]_(KM!vars)
  BY StepsRefine
<1>. QED
  BY <1>1, <1>2, MapInvariance, PTL DEF FlightSpec, KM!Spec, ImplementsKeyedMutex
=============================================================================
