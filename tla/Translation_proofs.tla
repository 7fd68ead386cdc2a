------------------------- MODULE Translation_proofs -------------------------
(***************************************************************************)
(* Proofs about Translation, for any number of requests, installs,         *)
(* languages and sources and any allowance: its type, that one body has    *)
(* one run at a time, and that a run only starts for a body that is        *)
(* missing, not backed off from, and within the allowance.                 *)
(*                                                                         *)
(* And about Refusals, what such a run's refusal is remembered for, for    *)
(* any number of titles, shows and runs. While the key works only titles   *)
(* of filtered shows are refused, and only with statuses that might be the *)
(* dialogue's. With one such show, the ambiguous refusal that is           *)
(* remembered is always of that show, so nothing corroborates that the key *)
(* is dead.                                                                *)
(***************************************************************************)
EXTENDS Translation, Refusals, FoldTheorems, FiniteSetTheorems, TLAPS

(* The part of the state that no request owns. *)
SharedTypeOK ==
  /\ waiting \in [Lang -> Seq(Req)]
  /\ body \subseteq Lang
  /\ pin \in Source \cup {NoSource}
  /\ have \subseteq Source /\ dead \subseteq Source /\ big \subseteq Source
  /\ backedOff \subseteq Want
  /\ blocked \subseteq Install
  /\ used \in [Install -> [Day -> Nat]] /\ bought \in [Install -> [Day -> Nat]]

(* A request asks for something exactly while it is under way, and has *)
(* settled on a source when it downloads and runs.                     *)
Shape ==
  \A r \in Req :
    /\ pc[r] = "idle" <=> want[r] = NoWant
    /\ pc[r] \in {"downloading", "running"} => source[r] \in Source

Holds(r) == pc[r] \in {"searching", "downloading", "running"}

(* Whoever holds the flight of a body is alone with it, ... *)
OneHolder ==
  \A r, s \in Req : Holds(r) /\ Holds(s) /\ want[r].lang = want[s].lang => r = s

(* ... so what it found missing, and not backed off from, stays so. *)
StillMissing ==
  \A r \in Req :
    pc[r] \in {"searching", "downloading"} => want[r] \notin backedOff /\ want[r].lang \notin body

IInv ==
  /\ TypeOK
  /\ Shape
  /\ OneHolder
  /\ StillMissing

LEMMA InitIInv == Init => IInv
<1>. SUFFICES ASSUME Init PROVE IInv
  OBVIOUS
<1>1. NoRun \in Run
  BY TranslationAssumption DEF NoRun, Run, Day
<1>2. TypeOK
  BY <1>1, TranslationAssumption DEF Init, TypeOK, Day, Phase
<1>. QED
  BY <1>2 DEF Init, IInv, Shape, OneHolder, Holds, StillMissing

(* A request under way asks for something there is. *)
LEMMA AsksForSomething ==
  ASSUME IInv, NEW r \in Req, pc[r] # "idle"
  PROVE  want[r] \in Want /\ want[r].install \in Install /\ want[r].lang \in Lang
<1>1. want[r] \in Want
  BY DEF IInv, TypeOK, Shape
<1>. QED
  BY <1>1 DEF Want

(* What a run may become. *)
LEMMA RunUpdates ==
  ASSUME NEW x \in Run, NEW b \in BOOLEAN, NEW n \in 0..Concurrency
  PROVE  /\ [x EXCEPT !.sourceWasCached = b] \in Run
         /\ [x EXCEPT !.dispatched = b, !.unanswered = n] \in Run
         /\ [x EXCEPT !.billed = b, !.unanswered = n] \in Run
         /\ [x EXCEPT !.refused = b, !.unanswered = n] \in Run
BY DEF Run

(* A download is noted to cost a credit or not. *)
LEMMA SettledIsTyped ==
  ASSUME IInv, NEW r \in Req, NEW s \in Source, Settled(r, s)
  PROVE  run' \in [Req -> Run] /\ source' \in [Req -> Source \cup {NoSource}]
<1>. DEFINE b == s \in have
<1>1. b \in BOOLEAN
  OBVIOUS
<1>2. run' = [run EXCEPT ![r].sourceWasCached = b]
  BY DEF Settled
<1>. HIDE DEF b
<1>3. run[r] \in Run /\ 0 \in 0..Concurrency
  BY TranslationAssumption DEF IInv, TypeOK
<1>4. [run[r] EXCEPT !.sourceWasCached = b] \in Run
  BY <1>1, <1>3, RunUpdates
<1>. QED
  BY <1>2, <1>4 DEF Settled, IInv, TypeOK

-----------------------------------------------------------------------------
(* The allowance *)

LEMMA AllowanceIsTyped ==
  ASSUME IInv, NEW i \in Install
  PROVE  /\ Charge(i) => used' \in [Install -> [Day -> Nat]]
         /\ Refund(i) => used' \in [Install -> [Day -> Nat]]
<1>1. used[i] \in [Day -> Nat] /\ used[i][day] \in Nat
  BY DEF IInv, TypeOK
<1>2. ASSUME NEW n \in Nat
      PROVE  [used EXCEPT ![i] = [used[i] EXCEPT ![day] = n]] \in [Install -> [Day -> Nat]]
  BY <1>1 DEF IInv, TypeOK
<1>3. used[i][day] + 1 \in Nat /\ (IF used[i][day] = 0 THEN 0 ELSE used[i][day] - 1) \in Nat
  BY <1>1
<1>. QED
  BY <1>2, <1>3 DEF Charge, Refund

LEMMA HistoryIsTyped ==
  ASSUME IInv, NEW i \in Install, NEW d \in Day
  PROVE  [bought EXCEPT ![i][d] = @ + 1] \in [Install -> [Day -> Nat]]
<1>1. bought[i] \in [Day -> Nat] /\ bought[i][d] + 1 \in Nat
  BY DEF IInv, TypeOK
<1>2. [bought[i] EXCEPT ![d] = @ + 1] \in [Day -> Nat]
  BY <1>1
<1>. QED
  BY <1>2 DEF IInv, TypeOK

LEMMA SettlingIsTyped ==
  ASSUME IInv, NEW r \in Req, pc[r] = "running", NEW spent \in BOOLEAN, Settle(r, spent)
  PROVE  used' \in [Install -> [Day -> Nat]] /\ bought' \in [Install -> [Day -> Nat]]
<1>1. want[r].install \in Install
  BY AsksForSomething
<1>2. run[r].day \in Day
  BY DEF IInv, TypeOK, Run
<1>3. used' \in [Install -> [Day -> Nat]]
  BY <1>1, AllowanceIsTyped DEF Settle, IInv, TypeOK
<1>4. bought' \in [Install -> [Day -> Nat]]
  BY <1>1, <1>2, HistoryIsTyped DEF Settle, IInv, TypeOK
<1>. QED
  BY <1>3, <1>4

-----------------------------------------------------------------------------
(* Queues *)

LEMMA RemovalIsASequence ==
  ASSUME NEW S, NEW s \in Seq(S), NEW i \in 1..Len(s)
  PROVE  RemoveAt(s, i) \in Seq(S)
<1>1. Len(s) \in Nat
  OBVIOUS
<1>2. SubSeq(s, 1, i-1) \in Seq(S) /\ SubSeq(s, i+1, Len(s)) \in Seq(S)
  BY <1>1
<1>. QED
  BY <1>2 DEF RemoveAt

LEMMA LeavingIsTyped ==
  ASSUME IInv, NEW r \in Req, pc[r] # "idle", LeavesQueue(r)
  PROVE  waiting' \in [Lang -> Seq(Req)]
<1>1. want[r].lang \in Lang
  BY AsksForSomething
<1>. DEFINE l == want[r].lang
<1>2. CASE pc[r] # "wantsFlight"
  BY <1>2 DEF LeavesQueue, IInv, TypeOK
<1>3. CASE pc[r] = "wantsFlight"
  <2>1. PICK i \in 1..Len(waiting[l]) : waiting' = [waiting EXCEPT ![l] = RemoveAt(@, i)]
    BY <1>3 DEF LeavesQueue
  <2>2. RemoveAt(waiting[l], i) \in Seq(Req)
    BY <1>1, RemovalIsASequence DEF IInv, TypeOK
  <2>. QED
    BY <1>1, <2>1, <2>2 DEF IInv, TypeOK
<1>. QED
  BY <1>2, <1>3

LEMMA NextIsTyped ==
  ASSUME IInv, NEW r \in Req, NextInFlight(r)
  PROVE  /\ waiting' \in [Lang -> Seq(Req)]
         /\ pc[r] = "wantsFlight"
         /\ \A q \in Req : Holds(q) => want[q].lang # want[r].lang
<1>1. pc[r] = "wantsFlight" /\ want[r].lang \in Lang
  BY AsksForSomething DEF NextInFlight
<1>2. waiting[want[r].lang] \in Seq(Req) /\ waiting[want[r].lang] # <<>>
  BY <1>1 DEF NextInFlight, IInv, TypeOK
<1>3. Tail(waiting[want[r].lang]) \in Seq(Req)
  BY <1>2
<1>4. waiting' \in [Lang -> Seq(Req)]
  BY <1>1, <1>3 DEF NextInFlight, IInv, TypeOK
<1>5. \A q \in Req : Holds(q) => want[q].lang # want[r].lang
  BY DEF NextInFlight, Flight, Holds
<1>. QED
  BY <1>1, <1>4, <1>5

-----------------------------------------------------------------------------
(* Steps by what they do to the request *)

(* A request that ends may leave a body or a marker for what it asked, if  *)
(* nobody else holds that flight.                                          *)
LEMMA EndingKeepsIInv ==
  ASSUME IInv, NEW r \in Req, pc[r] # "idle", End(r), day' = day, SharedTypeOK',
         backedOff' \subseteq backedOff \cup {want[r]},
         body' \subseteq body \cup {want[r].lang},
         \/ backedOff' \subseteq backedOff /\ body' \subseteq body
         \/ \A q \in Req : q # r /\ Holds(q) => want[q].lang # want[r].lang
  PROVE  IInv'
<1>1. NoRun \in Run
  BY TranslationAssumption DEF NoRun, Run, Day
<1>2. TypeOK'
  BY <1>1 DEF IInv, TypeOK, SharedTypeOK, End, Phase
<1>3. Shape'
  BY DEF IInv, TypeOK, Shape, End
<1>4. \A q \in Req : pc'[q] # "idle" => q # r /\ pc'[q] = pc[q] /\ want'[q] = want[q]
  BY DEF IInv, TypeOK, End
<1>5. OneHolder'
  BY <1>4 DEF IInv, OneHolder, Holds
<1>6. StillMissing'
  BY <1>4 DEF IInv, StillMissing, Holds
<1>. QED
  BY <1>2, <1>3, <1>5, <1>6 DEF IInv

(* The holder of a flight has it to itself. *)
LEMMA HolderIsAlone ==
  ASSUME IInv, NEW r \in Req, Holds(r)
  PROVE  \A q \in Req : q # r /\ Holds(q) => want[q].lang # want[r].lang
BY DEF IInv, OneHolder

(* A request that goes on holds a flight afterwards; it takes one nobody   *)
(* holds, for what is missing, or had it before.                           *)
LEMMA GoingOnKeepsIInv ==
  ASSUME IInv, NEW r \in Req, pc[r] # "idle", NEW p \in {"searching", "downloading", "running"},
         pc' = [pc EXCEPT ![r] = p], TypeOK',
         UNCHANGED <<want, body, backedOff>>,
         \A q \in Req : q # r => source'[q] = source[q],
         p # "searching" => source'[r] \in Source,
         \A q \in Req : q # r /\ Holds(q) => want[q].lang # want[r].lang,
         p # "running" => want[r] \notin backedOff /\ want[r].lang \notin body
  PROVE  IInv'
<1>1. pc'[r] = p /\ \A q \in Req : q # r => pc'[q] = pc[q]
  BY DEF IInv, TypeOK
<1>2. Shape'
  BY <1>1 DEF IInv, Shape
<1>3. OneHolder'
  BY <1>1 DEF IInv, OneHolder, Holds
<1>4. StillMissing'
  BY <1>1 DEF IInv, StillMissing
<1>. QED
  BY <1>2, <1>3, <1>4 DEF IInv

(* A step that only takes bodies and backoffs away moves no request. *)
LEMMA SurroundingsKeepIInv ==
  ASSUME IInv, day' \in Day, SharedTypeOK', UNCHANGED request,
         body' \subseteq body, backedOff' \subseteq backedOff
  PROVE  IInv'
<1>1. TypeOK'
  BY DEF IInv, TypeOK, SharedTypeOK, request
<1>2. Shape' /\ OneHolder'
  BY DEF IInv, Shape, OneHolder, Holds, request
<1>3. StillMissing'
  BY DEF IInv, StillMissing, request
<1>. QED
  BY <1>1, <1>2, <1>3 DEF IInv

-----------------------------------------------------------------------------
(* One lemma per kind of action *)

LEMMA AskKeepsIInv ==
  ASSUME IInv, NEW r \in Req, NEW w \in Want, Ask(r, w)
  PROVE  IInv'
<1>1. w.lang \in Lang /\ w # NoWant
  BY TranslationAssumption DEF Want
<1>2. waiting' \in [Lang -> Seq(Req)]
  BY <1>1 DEF Ask, HasBody, IInv, TypeOK
<1>3. TypeOK'
  BY <1>2 DEF Ask, HasBody, IInv, TypeOK, Phase, markers
<1>4. /\ pc'[r] = "wantsFlight" /\ want'[r] = w
      /\ \A q \in Req : q # r => pc'[q] = pc[q] /\ want'[q] = want[q]
      /\ UNCHANGED <<source, body, backedOff>>
  BY DEF Ask, HasBody, IInv, TypeOK, markers
<1>5. Shape'
  BY <1>1, <1>4 DEF IInv, Shape
<1>6. OneHolder'
  BY <1>4 DEF IInv, OneHolder, Holds
<1>7. StillMissing'
  BY <1>4 DEF IInv, StillMissing
<1>. QED
  BY <1>3, <1>5, <1>6, <1>7 DEF IInv

(* The waiter at the head takes the flight and starts: a search, or a download. *)
LEMMA StartingKeepsIInv ==
  ASSUME IInv, NEW r \in Req, MustSearch(r) \/ UsePin(r)
  PROVE  IInv'
<1>1. NextInFlight(r) /\ ~Declined(want[r])
  BY DEF MustSearch, UsePin
<1>2. /\ waiting' \in [Lang -> Seq(Req)]
      /\ pc[r] = "wantsFlight"
      /\ \A q \in Req : Holds(q) => want[q].lang # want[r].lang
  BY <1>1, NextIsTyped
<1>3. want[r] \notin backedOff /\ want[r].lang \notin body
  BY <1>1 DEF Declined, HasBody
<1>4. CASE MustSearch(r)
  <2>1. TypeOK'
    BY <1>2, <1>4 DEF MustSearch, IInv, TypeOK, Phase, markers
  <2>2. pc' = [pc EXCEPT ![r] = "searching"] /\ UNCHANGED <<want, source, body, backedOff>>
    BY <1>4 DEF MustSearch, markers
  <2>. QED
    BY <1>2, <1>3, <2>1, <2>2, GoingOnKeepsIInv
<1>5. CASE UsePin(r)
  <2>1. pinned[r] \in Source
    BY <1>5 DEF UsePin, IInv, TypeOK
  <2>2. TypeOK'
    <3>1. run' \in [Req -> Run] /\ source' \in [Req -> Source \cup {NoSource}]
      BY <1>5, <2>1, SettledIsTyped DEF UsePin
    <3>. QED
      BY <1>2, <1>5, <2>1, <3>1 DEF UsePin, Settled, IInv, TypeOK, Phase, markers
  <2>3. pc' = [pc EXCEPT ![r] = "downloading"] /\ UNCHANGED <<want, body, backedOff>>
    BY <1>5 DEF UsePin, Settled, markers
  <2>4. source'[r] = pinned[r] /\ \A q \in Req : q # r => source'[q] = source[q]
    BY <1>5 DEF UsePin, Settled, IInv, TypeOK
  <2>. QED
    BY <1>2, <1>3, <2>1, <2>2, <2>3, <2>4, GoingOnKeepsIInv
<1>. QED
  BY <1>4, <1>5

(* The waiter at the head is sent away, or its source is remembered. *)
LEMMA TurningAwayKeepsIInv ==
  ASSUME IInv, NEW r \in Req, TurnedAway(r) \/ SourceRemembered(r)
  PROVE  IInv'
<1>1. NextInFlight(r) /\ End(r) /\ day' = day
  BY DEF TurnedAway, SourceRemembered
<1>2. /\ waiting' \in [Lang -> Seq(Req)]
      /\ pc[r] = "wantsFlight"
      /\ \A q \in Req : Holds(q) => want[q].lang # want[r].lang
  BY <1>1, NextIsTyped
<1>3. SharedTypeOK'
  BY <1>2, AsksForSomething
     DEF TurnedAway, SourceRemembered, IInv, TypeOK, SharedTypeOK, markers
<1>4. backedOff' \subseteq backedOff \cup {want[r]} /\ body' \subseteq body \cup {want[r].lang}
  BY DEF TurnedAway, SourceRemembered, markers
<1>. QED
  BY <1>1, <1>2, <1>3, <1>4, EndingKeepsIInv

LEMMA PickKeepsIInv ==
  ASSUME IInv, NEW r \in Req, Pick(r)
  PROVE  IInv'
<1>1. PICK s \in Usable : pin' = s /\ Settled(r, s)
  BY DEF Pick
<1>2. s \in Source /\ pc[r] = "searching" /\ Holds(r)
  BY DEF Usable, Pick, Holds
<1>3. TypeOK'
  <2>1. run' \in [Req -> Run] /\ source' \in [Req -> Source \cup {NoSource}]
    BY <1>1, <1>2, SettledIsTyped
  <2>. QED
    BY <1>1, <1>2, <2>1 DEF Pick, Settled, IInv, TypeOK, Phase, markers
<1>4. pc' = [pc EXCEPT ![r] = "downloading"] /\ UNCHANGED <<want, body, backedOff>>
  BY <1>1 DEF Settled, markers
<1>5. source'[r] = s /\ \A q \in Req : q # r => source'[q] = source[q]
  BY <1>1 DEF Settled, IInv, TypeOK
<1>6. want[r] \notin backedOff /\ want[r].lang \notin body
  BY <1>2 DEF IInv, StillMissing
<1>. QED
  BY <1>2, <1>3, <1>4, <1>5, <1>6, HolderIsAlone, GoingOnKeepsIInv

LEMMA BeginKeepsIInv ==
  ASSUME IInv, NEW r \in Req, Begin(r)
  PROVE  IInv'
<1>1. pc[r] = "downloading" /\ Holds(r) /\ want[r].install \in Install
  BY AsksForSomething DEF Begin, Holds
<1>2. used' \in [Install -> [Day -> Nat]]
  BY <1>1, AllowanceIsTyped DEF Begin
<1>3. [run[r] EXCEPT !.day = day] \in Run
  BY DEF IInv, TypeOK, Run
<1>4. have' \subseteq Source
  BY <1>1 DEF Begin, IInv, TypeOK, Shape
<1>5. TypeOK'
  BY <1>2, <1>3, <1>4 DEF Begin, IInv, TypeOK, Phase, markers
<1>6. pc' = [pc EXCEPT ![r] = "running"] /\ UNCHANGED <<want, source, body, backedOff>>
  BY DEF Begin, markers
<1>7. source[r] \in Source
  BY <1>1 DEF IInv, Shape
<1>. QED
  BY <1>1, <1>5, <1>6, <1>7, HolderIsAlone, GoingOnKeepsIInv

(* A call of the run is sent, answered or refused. *)
LEMMA CallKeepsIInv ==
  ASSUME IInv, NEW r \in Req, Send(r) \/ Answered(r) \/ Refused(r)
  PROVE  IInv'
<1>1. pc[r] = "running" /\ Holds(r)
  BY DEF Send, Answered, Refused, Holds
<1>2. /\ run[r] \in Run /\ run[r].unanswered \in Int /\ run[r].refused \in BOOLEAN
      /\ Concurrency \in Nat
  BY TranslationAssumption DEF IInv, TypeOK, Run
<1>3. run' \in [Req -> Run]
  <2>. DEFINE yes == TRUE
  <2>0. yes \in BOOLEAN
    OBVIOUS
  <2>1. CASE Send(r)
    <3>1. run' = [run EXCEPT ![r] = [run[r] EXCEPT !.dispatched = yes, !.unanswered = @ + 1]]
      BY <2>1 DEF Send
    <3>2. run[r].unanswered + 1 \in 0..Concurrency
      BY <1>2, <2>1 DEF Send, IInv, TypeOK, Run
    <3>. HIDE DEF yes
    <3>3. [run[r] EXCEPT !.dispatched = yes, !.unanswered = run[r].unanswered + 1] \in Run
      BY <1>2, <2>0, <3>2, RunUpdates
    <3>. QED
      BY <3>1, <3>3 DEF IInv, TypeOK
  <2>2. ASSUME run[r].unanswered > 0 PROVE run[r].unanswered - 1 \in 0..Concurrency
    BY <1>2, <2>2 DEF IInv, TypeOK, Run
  <2>3. CASE Answered(r)
    <3>1. run' = [run EXCEPT ![r] = [run[r] EXCEPT !.billed = yes, !.unanswered = @ - 1]]
      BY <2>3 DEF Answered
    <3>2. run[r].unanswered - 1 \in 0..Concurrency
      BY <2>2, <2>3 DEF Answered
    <3>. HIDE DEF yes
    <3>3. [run[r] EXCEPT !.billed = yes, !.unanswered = run[r].unanswered - 1] \in Run
      BY <1>2, <2>0, <3>2, RunUpdates
    <3>. QED
      BY <3>1, <3>3 DEF IInv, TypeOK
  <2>4. CASE Refused(r)
    <3>1. PICK fatal \in BOOLEAN :
            run' = [run EXCEPT ![r].refused = @ \/ fatal, ![r].unanswered = @ - 1]
      BY <2>4 DEF Refused
    <3>. DEFINE ends == run[r].refused \/ fatal
    <3>2. ends \in BOOLEAN
      OBVIOUS
    <3>3. run' = [run EXCEPT ![r] = [run[r] EXCEPT !.refused = ends, !.unanswered = @ - 1]]
      BY <3>1
    <3>4. run[r].unanswered - 1 \in 0..Concurrency
      BY <2>2, <2>4 DEF Refused
    <3>. HIDE DEF ends
    <3>5. [run[r] EXCEPT !.refused = ends, !.unanswered = run[r].unanswered - 1] \in Run
      BY <1>2, <3>2, <3>4, RunUpdates
    <3>. QED
      BY <3>3, <3>5 DEF IInv, TypeOK
  <2>. QED
    BY <2>1, <2>3, <2>4
<1>4. TypeOK'
  BY <1>3 DEF Send, Answered, Refused, IInv, TypeOK, markers
<1>5. pc' = [pc EXCEPT ![r] = "running"] /\ UNCHANGED <<want, source, body, backedOff>>
  BY <1>1 DEF Send, Answered, Refused, IInv, TypeOK, markers
<1>6. source[r] \in Source
  BY <1>1 DEF IInv, Shape
<1>. QED
  BY <1>1, <1>4, <1>5, <1>6, HolderIsAlone, GoingOnKeepsIInv

(* The end of a request that holds the flight. *)
LEMMA HolderEndsKeepsIInv ==
  ASSUME IInv, NEW r \in Req,
         \/ PickRemembered(r) \/ PickTooLate(r) \/ PickNothing(r) \/ NoSlotLeft(r)
         \/ SourceFails(r) \/ DownloadFails(r) \/ RunSucceeds(r) \/ RunFails(r)
  PROVE  IInv'
<1>1. Holds(r) /\ pc[r] # "idle" /\ End(r) /\ day' = day
  BY DEF PickRemembered, PickTooLate, PickNothing, NoSlotLeft, SourceFails, DownloadFails,
         RunSucceeds, RunFails, Holds
<1>2. want[r] \in Want /\ want[r].install \in Install /\ want[r].lang \in Lang
  BY <1>1, AsksForSomething
<1>3. backedOff' \subseteq backedOff \cup {want[r]} /\ body' \subseteq body \cup {want[r].lang}
  BY DEF PickRemembered, PickTooLate, PickNothing, NoSlotLeft, SourceFails, DownloadFails,
         RunSucceeds, RunFails, markers
<1>4. pc[r] \in {"downloading", "running"} => source[r] \in Source
  BY DEF IInv, Shape
<1>5. SharedTypeOK'
  <2>1. CASE PickRemembered(r) \/ PickTooLate(r) \/ PickNothing(r)
    BY <1>2, <2>1 DEF PickRemembered, PickTooLate, PickNothing, Usable, markers,
                      SharedTypeOK, IInv, TypeOK
  <2>2. CASE NoSlotLeft(r) \/ SourceFails(r) \/ DownloadFails(r)
    BY <1>2, <1>4, <2>2 DEF NoSlotLeft, SourceFails, DownloadFails, markers,
                            SharedTypeOK, IInv, TypeOK
  <2>3. CASE RunSucceeds(r)
    <3>1. run[r].day \in Day
      BY DEF IInv, TypeOK, Run
    <3>2. bought' \in [Install -> [Day -> Nat]]
      BY <1>2, <2>3, <3>1, HistoryIsTyped DEF RunSucceeds, IInv, TypeOK
    <3>. QED
      BY <1>2, <1>4, <2>3, <3>2 DEF RunSucceeds, markers, SharedTypeOK, IInv, TypeOK
  <2>4. CASE RunFails(r)
    <3>1. run[r].billed \in BOOLEAN
      BY DEF IInv, TypeOK, Run
    <3>2. used' \in [Install -> [Day -> Nat]] /\ bought' \in [Install -> [Day -> Nat]]
      BY <2>4, <3>1, SettlingIsTyped DEF RunFails
    <3>. QED
      BY <1>2, <2>4, <3>2 DEF RunFails, SharedTypeOK, IInv, TypeOK
  <2>. QED
    BY <2>1, <2>2, <2>3, <2>4
<1>. QED
  BY <1>1, <1>3, <1>5, HolderIsAlone, EndingKeepsIInv

LEMMA HangUpKeepsIInv ==
  ASSUME IInv, NEW r \in Req, HangUp(r)
  PROVE  IInv'
<1>1. pc[r] # "idle" /\ End(r) /\ LeavesQueue(r) /\ UNCHANGED <<day, body, pin, have, markers>>
  BY DEF HangUp
<1>2. waiting' \in [Lang -> Seq(Req)]
  BY <1>1, LeavingIsTyped
<1>3. used' \in [Install -> [Day -> Nat]] /\ bought' \in [Install -> [Day -> Nat]]
  <2>1. CASE pc[r] = "running"
    <3>1. run[r].dispatched \in BOOLEAN
      BY DEF IInv, TypeOK, Run
    <3>. QED
      BY <2>1, <3>1, SettlingIsTyped DEF HangUp
  <2>2. CASE pc[r] # "running"
    BY <2>2 DEF HangUp, IInv, TypeOK
  <2>. QED
    BY <2>1, <2>2
<1>4. SharedTypeOK'
  BY <1>1, <1>2, <1>3 DEF SharedTypeOK, IInv, TypeOK, markers
<1>5. backedOff' = backedOff /\ body' = body /\ day' = day
  BY <1>1 DEF markers
<1>. QED
  BY <1>1, <1>4, <1>5, EndingKeepsIInv

(* Other downloads, what lapses or is evicted, and the calendar. *)
LEMMA SurroundingActionsKeepIInv ==
  ASSUME IInv, Lose \/ Midnight \/ \E s \in Source : Downloaded(s)
  PROVE  IInv'
<1>1. day' \in Day
  BY TranslationAssumption DEF Lose, Midnight, Downloaded, IInv, TypeOK, Day
<1>2. SharedTypeOK'
  BY DEF Lose, Midnight, Downloaded, SharedTypeOK, IInv, TypeOK, markers
<1>3. UNCHANGED request /\ body' \subseteq body /\ backedOff' \subseteq backedOff
  BY DEF Lose, Midnight, Downloaded, markers
<1>. QED
  BY <1>1, <1>2, <1>3, SurroundingsKeepIInv

LEMMA NextKeepsIInv == IInv /\ [Next]_vars => IInv'
<1>. SUFFICES ASSUME IInv, [Next]_vars PROVE IInv'
  OBVIOUS
<1>1. ASSUME NEW r \in Req, NEW w \in Want, Ask(r, w) PROVE IInv'
  BY <1>1, AskKeepsIInv
<1>2. ASSUME NEW r \in Req, MustSearch(r) \/ UsePin(r) PROVE IInv'
  BY <1>2, StartingKeepsIInv
<1>3. ASSUME NEW r \in Req, TurnedAway(r) \/ SourceRemembered(r) PROVE IInv'
  BY <1>3, TurningAwayKeepsIInv
<1>4. ASSUME NEW r \in Req, Pick(r) PROVE IInv'
  BY <1>4, PickKeepsIInv
<1>5. ASSUME NEW r \in Req, Begin(r) PROVE IInv'
  BY <1>5, BeginKeepsIInv
<1>6. ASSUME NEW r \in Req, Send(r) \/ Answered(r) \/ Refused(r) PROVE IInv'
  BY <1>6, CallKeepsIInv
<1>7. ASSUME NEW r \in Req,
             \/ PickRemembered(r) \/ PickTooLate(r) \/ PickNothing(r) \/ NoSlotLeft(r)
             \/ SourceFails(r) \/ DownloadFails(r) \/ RunSucceeds(r) \/ RunFails(r)
      PROVE  IInv'
  BY <1>7, HolderEndsKeepsIInv
<1>8. ASSUME NEW r \in Req, HangUp(r) PROVE IInv'
  BY <1>8, HangUpKeepsIInv
<1>9. CASE Lose \/ Midnight \/ \E s \in Source : Downloaded(s)
  BY <1>9, SurroundingActionsKeepIInv
<1>10. CASE UNCHANGED vars
  BY <1>10 DEF vars, IInv, TypeOK, Shape, OneHolder, Holds, StillMissing
<1>. QED
  BY <1>1, <1>2, <1>3, <1>4, <1>5, <1>6, <1>7, <1>8, <1>9, <1>10 DEF Next

-----------------------------------------------------------------------------
LEMMA Invariance == Spec => []IInv
BY InitIInv, NextKeepsIInv, PTL DEF Spec

(* Every reachable state is well typed; in particular no run ever has more *)
(* calls under way than CONCURRENCY.                                       *)
THEOREM TypeCorrect == Spec => []TypeOK
BY Invariance, PTL DEF IInv

(* One film, one bill: no two requests produce one body at the same time,  *)
(* of the same install or of two.                                          *)
THEOREM OneBill == Spec => []OneRunPerBody
<1>1. IInv => OneRunPerBody
  BY DEF IInv, OneHolder, Holds, OneRunPerBody
<1>. QED
  BY <1>1, Invariance, PTL

(* The only step by which a request starts to run.                         *)
LEMMA OnlyBeginStarts ==
  ASSUME IInv, [Next]_vars, NEW r \in Req, pc[r] # "running", pc'[r] = "running"
  PROVE  Begin(r)
<1>1. ASSUME NEW q \in Req, NEW p \in Phase \ {"running"}, pc' = [pc EXCEPT ![q] = p]
      PROVE  FALSE
  BY <1>1 DEF IInv, TypeOK
<1>2. ASSUME NEW q \in Req, End(q) PROVE FALSE
  BY <1>1, <1>2 DEF End, Phase
<1>3. ~ UNCHANGED pc
  OBVIOUS
<1>4. ASSUME NEW q \in Req, Begin(q) PROVE q = r
  BY <1>4 DEF Begin, IInv, TypeOK
<1>5. ASSUME NEW q \in Req, NEW s \in Source, Settled(q, s) PROVE FALSE
  BY <1>1, <1>5 DEF Settled, Phase
<1>6. ASSUME NEW q \in Req, NEW w \in Want, Ask(q, w) PROVE FALSE
  BY <1>1, <1>6 DEF Ask, HasBody, Phase
<1>7. ASSUME NEW q \in Req, MustSearch(q) \/ UsePin(q) \/ Pick(q) PROVE FALSE
  <2>1. CASE MustSearch(q)
    BY <1>1, <2>1 DEF MustSearch, Phase
  <2>2. CASE UsePin(q)
    BY <1>5, <2>2 DEF UsePin, IInv, TypeOK
  <2>3. CASE Pick(q)
    BY <1>5, <2>3 DEF Pick, Usable
  <2>. QED
    BY <1>7, <2>1, <2>2, <2>3
<1>8. \E q \in Req : Begin(q)
  BY <1>2, <1>3, <1>6, <1>7
     DEF Next, vars, request, TurnedAway, SourceRemembered, PickRemembered, PickTooLate,
         PickNothing, NoSlotLeft, SourceFails, DownloadFails, Send, Answered, Refused,
         RunSucceeds, RunFails, HangUp, Downloaded, Lose, Midnight
<1>. QED
  BY <1>4, <1>8

(* A run only starts for a body that is still missing, on an install that  *)
(* is not backing off from it and has a slot left.                         *)
THEOREM OnlyTheMissingIsBought == Spec => BuysOnlyTheMissing
<1>1. ASSUME IInv, [Next]_vars
      PROVE  \A r \in Req : pc[r] # "running" /\ pc'[r] = "running" =>
               /\ want[r] \notin backedOff
               /\ want[r].lang \notin body
               /\ ~UsedUp(want[r].install)
  <2>. SUFFICES ASSUME NEW r \in Req, pc[r] # "running", pc'[r] = "running"
                PROVE  /\ want[r] \notin backedOff
                       /\ want[r].lang \notin body
                       /\ ~UsedUp(want[r].install)
    OBVIOUS
  <2>1. Begin(r)
    BY <1>1, OnlyBeginStarts
  <2>. QED
    BY <1>1, <2>1 DEF Begin, IInv, StillMissing
<1>2. IInv /\ [Next]_vars =>
        [\A r \in Req : pc[r] # "running" /\ pc'[r] = "running" =>
           /\ want[r] \notin backedOff
           /\ want[r].lang \notin body
           /\ ~UsedUp(want[r].install)]_vars
  BY <1>1
<1>. QED
  BY <1>2, Invariance, PTL DEF Spec, BuysOnlyTheMissing

-----------------------------------------------------------------------------
(* The books of the allowance *)

(* A run that is under way has its slot: it was charged when it started, and *)
(* nothing has been written down for it yet.                                 *)
UnderWay(i) == {r \in Req : pc[r] = "running" /\ want[r].install = i}
Books(i) == SumFunction(bought[i]) + Cardinality(UnderWay(i)) <= SumFunction(used[i])
Covered == \A i \in Install : Books(i)

LEMMA SumOfDays ==
  ASSUME NEW f \in [Day -> Nat]
  PROVE  /\ SumFunction(f) \in Nat
         /\ \A d \in Day, n \in Nat :
              /\ SumFunction([f EXCEPT ![d] = n]) = (SumFunction(f) - f[d]) + n
              /\ SumFunction([f EXCEPT ![d] = n]) \in Nat
              /\ f[d] \in Nat /\ f[d] <= SumFunction(f)
<1>1. IsFiniteSet(Day) /\ 0 \in Day
  BY TranslationAssumption, FS_Interval DEF Day
<1>2. \A g \in [Day -> Nat] : SumFunction(g) = Total(g, Day)
  BY SumIsTotal
<1>3. ASSUME NEW d \in Day, NEW n \in Nat
      PROVE  /\ Total(f, Day) \in Nat /\ Total([f EXCEPT ![d] = n], Day) \in Nat
             /\ Total([f EXCEPT ![d] = n], Day) = (Total(f, Day) - f[d]) + n
             /\ f[d] <= Total(f, Day)
  BY <1>1, TotalChanged
<1>4. \A d \in Day, n \in Nat : [f EXCEPT ![d] = n] \in [Day -> Nat] /\ f[d] \in Nat
  OBVIOUS
<1>5. Total(f, Day) \in Nat
  BY <1>1, <1>3
<1>. QED
  BY <1>2, <1>3, <1>4, <1>5

LEMMA RunsAreFinite ==
  ASSUME NEW i
  PROVE  IsFiniteSet(UnderWay(i)) /\ Cardinality(UnderWay(i)) \in Nat
<1>1. IsFiniteSet(UnderWay(i))
  BY TranslationAssumption, FS_Subset DEF UnderWay
<1>. QED
  BY <1>1, FS_CardinalityType

(* A step that neither charges nor buys, and starts no run.                *)
LEMMA QuietKeepsBooks ==
  ASSUME IInv, Covered, NEW i \in Install, used'[i] = used[i], bought'[i] = bought[i],
         UnderWay(i)' \subseteq UnderWay(i)
  PROVE  Books(i)'
<1>1. Cardinality(UnderWay(i)') <= Cardinality(UnderWay(i)) /\ Cardinality(UnderWay(i)') \in Nat
  BY RunsAreFinite, FS_Subset, FS_CardinalityType
<1>2. SumFunction(bought[i]) \in Nat /\ SumFunction(used[i]) \in Nat
  BY SumOfDays DEF IInv, TypeOK
<1>3. SumFunction(bought[i]) + Cardinality(UnderWay(i)) <= SumFunction(used[i])
  BY DEF Covered, Books
<1>4. Cardinality(UnderWay(i)) \in Nat
  BY RunsAreFinite
<1>. QED
  BY <1>1, <1>2, <1>3, <1>4 DEF Books

(* A run starts, and its slot is taken.                                    *)
LEMMA BeginKeepsBooks ==
  ASSUME IInv, Covered, NEW r \in Req, Begin(r)
  PROVE  Covered'
<1>. SUFFICES ASSUME NEW i \in Install PROVE Books(i)'
  BY DEF Covered
<1>1. pc[r] = "downloading" /\ pc'[r] = "running" /\ want' = want /\ \A q \in Req : q # r => pc'[q] = pc[q]
  BY DEF Begin, IInv, TypeOK
<1>2. want[r].install \in Install /\ day \in Day
  BY <1>1, AsksForSomething DEF IInv, TypeOK
<1>3. CASE want[r].install # i
  <2>1. used'[i] = used[i] /\ bought'[i] = bought[i]
    BY <1>2, <1>3 DEF Begin, Charge, IInv, TypeOK
  <2>2. UnderWay(i)' \subseteq UnderWay(i)
    BY <1>1, <1>3 DEF UnderWay
  <2>. QED
    BY <2>1, <2>2, QuietKeepsBooks
<1>4. CASE want[r].install = i
  <2>1. used[i] \in [Day -> Nat] /\ bought[i] \in [Day -> Nat]
    BY DEF IInv, TypeOK
  <2>2. used'[i] = [used[i] EXCEPT ![day] = used[i][day] + 1] /\ bought'[i] = bought[i]
    BY <1>2, <1>4 DEF Begin, Charge, IInv, TypeOK
  <2>3. used[i][day] \in Nat /\ used[i][day] + 1 \in Nat
    BY <1>2, <2>1
  <2>4. SumFunction(used'[i]) = (SumFunction(used[i]) - used[i][day]) + (used[i][day] + 1)
    BY <1>2, <2>1, <2>2, <2>3, SumOfDays
  <2>5. UnderWay(i)' = UnderWay(i) \cup {r} /\ r \notin UnderWay(i)
    BY <1>1, <1>4 DEF UnderWay
  <2>6. Cardinality(UnderWay(i)') = Cardinality(UnderWay(i)) + 1
    BY <2>5, RunsAreFinite, FS_AddElement
  <2>7. SumFunction(used[i]) \in Nat /\ SumFunction(bought[i]) \in Nat /\ Cardinality(UnderWay(i)) \in Nat
    BY <2>1, SumOfDays, RunsAreFinite
  <2>8. SumFunction(bought[i]) + Cardinality(UnderWay(i)) <= SumFunction(used[i])
    BY DEF Covered, Books
  <2>9. SumFunction(bought[i]) + (Cardinality(UnderWay(i)) + 1) <= SumFunction(used'[i])
    BY <2>3, <2>4, <2>7, <2>8
  <2>. QED
    BY <2>2, <2>6, <2>9 DEF Books
<1>. QED
  BY <1>3, <1>4

(* A run ends: it is written down as bought, or its slot is given back, or  *)
(* neither, and never both.                                                 *)
LEMMA EndOfARunKeepsBooks ==
  ASSUME IInv, Covered, NEW r \in Req, pc[r] = "running", End(r),
         NEW spent \in BOOLEAN, NEW back \in BOOLEAN, ~ (spent /\ back),
         IF back THEN Refund(want[r].install) ELSE UNCHANGED used,
         bought' = IF spent THEN [bought EXCEPT ![want[r].install][run[r].day] = @ + 1] ELSE bought
  PROVE  Covered'
<1>. SUFFICES ASSUME NEW i \in Install PROVE Books(i)'
  BY DEF Covered
<1>1. /\ pc'[r] = "idle"
      /\ \A q \in Req : q # r => pc'[q] = pc[q] /\ want'[q] = want[q]
  BY DEF End, IInv, TypeOK
<1>2. want[r].install \in Install /\ day \in Day /\ run[r].day \in Day
  BY AsksForSomething DEF IInv, TypeOK, Run
<1>3. CASE want[r].install # i
  <2>1. used'[i] = used[i] /\ bought'[i] = bought[i]
    BY <1>2, <1>3 DEF Refund, IInv, TypeOK
  <2>2. UnderWay(i)' \subseteq UnderWay(i)
    BY <1>1 DEF UnderWay
  <2>. QED
    BY <2>1, <2>2, QuietKeepsBooks
<1>4. CASE want[r].install = i
  <2>. DEFINE d == run[r].day
              n == IF used[i][day] = 0 THEN 0 ELSE used[i][day] - 1
  <2>1. used[i] \in [Day -> Nat] /\ bought[i] \in [Day -> Nat]
    BY DEF IInv, TypeOK
  <2>2. used[i][day] \in Nat /\ n \in Nat /\ bought[i][d] \in Nat /\ bought[i][d] + 1 \in Nat
    BY <1>2, <2>1
  <2>3. used'[i] = IF back THEN [used[i] EXCEPT ![day] = n] ELSE used[i]
    BY <1>2, <1>4 DEF Refund, IInv, TypeOK
  <2>4. bought'[i] = IF spent THEN [bought[i] EXCEPT ![d] = bought[i][d] + 1] ELSE bought[i]
    BY <1>2, <1>4 DEF IInv, TypeOK
  <2>5. SumFunction(used'[i]) >= IF back THEN SumFunction(used[i]) - 1 ELSE SumFunction(used[i])
    <3>1. CASE back
      <4>1. /\ SumFunction([used[i] EXCEPT ![day] = n]) = (SumFunction(used[i]) - used[i][day]) + n
            /\ SumFunction(used[i]) \in Nat
        BY <1>2, <2>1, <2>2, SumOfDays
      <4>2. n >= used[i][day] - 1 /\ n \in Nat /\ used[i][day] \in Nat
        BY <2>2
      <4>. HIDE DEF n
      <4>3. (SumFunction(used[i]) - used[i][day]) + n >= SumFunction(used[i]) - 1
        BY <4>1, <4>2
      <4>. QED
        BY <2>3, <3>1, <4>1, <4>3
    <3>2. CASE ~back
      <4>1. SumFunction(used[i]) \in Nat
        BY <2>1, SumOfDays
      <4>. QED
        BY <2>3, <3>2, <4>1
    <3>. QED
      BY <3>1, <3>2
  <2>6. SumFunction(bought'[i]) = IF spent THEN SumFunction(bought[i]) + 1 ELSE SumFunction(bought[i])
    <3>1. CASE spent
      <4>1. /\ SumFunction([bought[i] EXCEPT ![d] = bought[i][d] + 1])
                 = (SumFunction(bought[i]) - bought[i][d]) + (bought[i][d] + 1)
            /\ SumFunction(bought[i]) \in Nat
        BY <1>2, <2>1, <2>2, SumOfDays
      <4>2. (SumFunction(bought[i]) - bought[i][d]) + (bought[i][d] + 1) = SumFunction(bought[i]) + 1
        BY <2>2, <4>1
      <4>. QED
        BY <2>4, <3>1, <4>1, <4>2
    <3>2. CASE ~spent
      BY <2>4, <3>2
    <3>. QED
      BY <3>1, <3>2
  <2>7. UnderWay(i)' = UnderWay(i) \ {r} /\ r \in UnderWay(i)
    BY <1>1, <1>4 DEF UnderWay
  <2>8. Cardinality(UnderWay(i)') = Cardinality(UnderWay(i)) - 1
    BY <2>7, RunsAreFinite, FS_RemoveElement
  <2>9. /\ SumFunction(used[i]) \in Nat /\ SumFunction(bought[i]) \in Nat
        /\ Cardinality(UnderWay(i)) \in Nat
    BY <2>1, SumOfDays, RunsAreFinite
  <2>10. SumFunction(bought[i]) + Cardinality(UnderWay(i)) <= SumFunction(used[i])
    BY DEF Covered, Books
  <2>11. SumFunction(used'[i]) \in Int
    <3>1. used'[i] \in [Day -> Nat]
      BY <1>2, <2>1, <2>2, <2>3
    <3>. QED
      BY <3>1, SumOfDays
  <2>. HIDE DEF n
  <2>12. SumFunction(bought'[i]) + (Cardinality(UnderWay(i)) - 1) <= SumFunction(used'[i])
    BY <2>5, <2>6, <2>9, <2>10, <2>11
  <2>. QED
    BY <2>8, <2>12 DEF Books
<1>. QED
  BY <1>3, <1>4

(* Every other step leaves the books alone.                                *)
LEMMA OthersKeepBooks ==
  ASSUME IInv, Covered, [Next]_vars, UNCHANGED <<used, bought>>
  PROVE  Covered'
<1>1. CASE \E r \in Req : Begin(r)
  BY <1>1, BeginKeepsBooks
<1>2. CASE \A r \in Req : ~Begin(r)
  <2>1. \A r \in Req : pc'[r] = "running" => pc[r] = "running"
    BY <1>2, OnlyBeginStarts
  <2>2. \A r \in Req : pc'[r] = "running" /\ pc[r] = "running" => want'[r] = want[r]
    <3>1. CASE UNCHANGED want
      BY <3>1
    <3>2. ASSUME NEW q \in Req, End(q)
          PROVE  \A r \in Req : pc'[r] = "running" /\ pc[r] = "running" => want'[r] = want[r]
      BY <3>2 DEF End, IInv, TypeOK
    <3>3. ASSUME NEW q \in Req, NEW w \in Want, Ask(q, w)
          PROVE  \A r \in Req : pc'[r] = "running" /\ pc[r] = "running" => want'[r] = want[r]
      BY <3>3 DEF Ask, IInv, TypeOK
    <3>4. CASE \E q \in Req : MustSearch(q) \/ UsePin(q) \/ Pick(q)
      BY <3>1, <3>4 DEF MustSearch, UsePin, Pick, Settled
    <3>. QED
      BY <1>2, <3>1, <3>2, <3>3, <3>4
         DEF Next, vars, request, TurnedAway, SourceRemembered, PickRemembered, PickTooLate,
             PickNothing, NoSlotLeft, SourceFails, DownloadFails, Send, Answered, Refused,
             RunSucceeds, RunFails, HangUp, Downloaded, Lose, Midnight
  <2>3. \A i \in Install : UnderWay(i)' \subseteq UnderWay(i)
    BY <2>1, <2>2 DEF UnderWay
  <2>4. \A i \in Install : Books(i)'
    BY <2>3, QuietKeepsBooks
  <2>. QED
    BY <2>4 DEF Covered
<1>. QED
  BY <1>1, <1>2

LEMMA NextKeepsBooks == IInv /\ Covered /\ [Next]_vars => Covered'
<1>. SUFFICES ASSUME IInv, Covered, [Next]_vars PROVE Covered'
  OBVIOUS
<1>1. ASSUME NEW r \in Req, NEW spent \in BOOLEAN, pc[r] = "running", End(r), Settle(r, spent)
      PROVE  Covered'
  <2>. DEFINE back == ~spent /\ run[r].sourceWasCached
  <2>1. back \in BOOLEAN /\ ~ (spent /\ back)
    OBVIOUS
  <2>2. /\ IF back THEN Refund(want[r].install) ELSE UNCHANGED used
        /\ bought' = IF spent THEN [bought EXCEPT ![want[r].install][run[r].day] = @ + 1] ELSE bought
    BY <1>1 DEF Settle
  <2>. HIDE DEF back
  <2>. QED
    BY <1>1, <2>1, <2>2, EndOfARunKeepsBooks
<1>2. ASSUME NEW r \in Req, RunSucceeds(r) PROVE Covered'
  <2>. DEFINE spent == run[r].billed
  <2>1. spent \in BOOLEAN /\ ~ (spent /\ FALSE) /\ FALSE \in BOOLEAN
    BY DEF IInv, TypeOK, Run
  <2>2. /\ pc[r] = "running" /\ End(r)
        /\ IF FALSE THEN Refund(want[r].install) ELSE UNCHANGED used
        /\ bought' = IF spent THEN [bought EXCEPT ![want[r].install][run[r].day] = @ + 1] ELSE bought
    BY <1>2 DEF RunSucceeds
  <2>. HIDE DEF spent
  <2>. QED
    BY <2>1, <2>2, EndOfARunKeepsBooks
<1>3. ASSUME NEW r \in Req, RunFails(r) PROVE Covered'
  BY <1>1, <1>3 DEF RunFails, IInv, TypeOK, Run
<1>4. ASSUME NEW r \in Req, HangUp(r), pc[r] = "running" PROVE Covered'
  BY <1>1, <1>4 DEF HangUp, IInv, TypeOK, Run
<1>5. ASSUME NEW r \in Req, Begin(r) PROVE Covered'
  BY <1>5, BeginKeepsBooks
<1>6. CASE UNCHANGED <<used, bought>>
  BY <1>6, OthersKeepBooks
<1>7. ASSUME NEW r \in Req, Pick(r) \/ UsePin(r) PROVE UNCHANGED <<used, bought>>
  BY <1>7 DEF Pick, UsePin, Settled
<1>. QED
  BY <1>2, <1>3, <1>4, <1>5, <1>6, <1>7
     DEF Next, vars, Ask, TurnedAway, MustSearch, SourceRemembered, PickRemembered, PickTooLate,
         PickNothing, NoSlotLeft, SourceFails, DownloadFails, Send, Answered, Refused,
         HangUp, Downloaded, Lose, Midnight

LEMMA InitIsCovered == Init => Covered
<1>. SUFFICES ASSUME Init, NEW i \in Install PROVE Books(i)
  BY DEF Covered
<1>1. used[i] = [d \in Day |-> 0] /\ bought[i] = [d \in Day |-> 0]
  BY DEF Init
<1>2. UnderWay(i) = {}
  BY DEF Init, UnderWay
<1>3. Cardinality(UnderWay(i)) = 0
  BY <1>2, FS_EmptySet
<1>. DEFINE zeros == [d \in Day |-> 0]
<1>4. SumFunction(zeros) \in Nat
  <2>1. zeros \in [Day -> Nat]
    OBVIOUS
  <2>. HIDE DEF zeros
  <2>. QED
    BY <2>1, SumOfDays
<1>5. used[i] = zeros /\ bought[i] = zeros
  BY <1>1
<1>. HIDE DEF zeros
<1>. QED
  BY <1>3, <1>4, <1>5 DEF Books

(* For any requests, installs, calendars and allowances, what an install    *)
(* bought never passes what it was charged: a run's slot is taken before    *)
(* its first call, and given back by Drop or after a failure only if the    *)
(* run cost nothing.                                                        *)
THEOREM PurchasesAreCounted == Spec => []BoughtIsCounted
<1>1. IInv /\ Covered => BoughtIsCounted
  <2>. SUFFICES ASSUME IInv, Covered, NEW i \in Install
                PROVE  SumFunction(bought[i]) <= SumFunction(used[i])
    BY DEF BoughtIsCounted
  <2>1. SumFunction(bought[i]) \in Nat /\ SumFunction(used[i]) \in Nat /\ Cardinality(UnderWay(i)) \in Nat
    BY SumOfDays, RunsAreFinite DEF IInv, TypeOK
  <2>. QED
    BY <2>1 DEF Covered, Books
<1>. QED
  BY <1>1, InitIsCovered, NextKeepsBooks, Invariance, PTL DEF Spec

-----------------------------------------------------------------------------
(* The refusals of runs *)

(* What an ambiguous refusal that is remembered says while the key works.  *)
EvidenceIsOfTheFiltered ==
    alive /\ Cardinality(filtered) <= 1 =>
        ambiguous.until = 0 \/ SeriesOf(ambiguous.title) \in filtered

RefusalsInv == RefusalsTypeOK /\ OneShowBlocksOnlyItself /\ EvidenceIsOfTheFiltered

-----------------------------------------------------------------------------
LEMMA RefusalNumbers ==
    /\ Retry \in Nat \ {0} /\ MaxTime \in Nat /\ MaxRestarts \in Nat
    /\ MemoryTtl \in Nat /\ Retry <= MemoryTtl
BY RefusalsAssumption DEF MemoryTtl

LEMMA SeriesAreFinite == IsFiniteSet(Series)
<1>. DEFINE f == [t \in Title |-> SeriesOf(t)]
<1>1. f \in [Title -> Series] /\ \A s \in Series : \E t \in Title : f[t] = s
  BY DEF Series
<1>2. f \in Surjection(Title, Series)
  BY <1>1 DEF Surjection
<1>. QED
  BY <1>2, FS_Surjection, RefusalsAssumption

(* Of at most one filtered show, two are the same.                         *)
LEMMA OneShow ==
    ASSUME filtered \subseteq Series, Cardinality(filtered) <= 1,
           NEW a \in filtered, NEW b \in filtered
    PROVE  a = b
<1>1. IsFiniteSet(filtered)
  BY SeriesAreFinite, FS_Subset
<1>2. IsFiniteSet(filtered \ {a}) /\ Cardinality(filtered \ {a}) = Cardinality(filtered) - 1
      /\ Cardinality(filtered) \in Nat
  BY <1>1, FS_RemoveElement, FS_CardinalityType
<1>3. Cardinality(filtered \ {a}) \in Nat
  BY <1>2, FS_CardinalityType
<1>4. Cardinality(filtered \ {a}) = 0
  BY <1>2, <1>3
<1>5. filtered \ {a} = {}
  BY <1>2, <1>4, FS_EmptySet
<1>. QED
  BY <1>5

LEMMA InitRefusalsInv == RefusalsInit => RefusalsInv
<1>. SUFFICES ASSUME RefusalsInit PROVE RefusalsInv
  OBVIOUS
<1>1. RefusalsTypeOK
  BY RefusalNumbers DEF RefusalsInit, RefusalsTypeOK, NoTitle, Live
<1>. QED
  BY <1>1 DEF RefusalsInit, RefusalsInv, OneShowBlocksOnlyItself, EvidenceIsOfTheFiltered, NoTitle

-----------------------------------------------------------------------------
(* The markers of a refusal, whatever it is remembered for.                *)
LEMMA RememberingIsTyped ==
    ASSUME RefusalsTypeOK, NEW t \in Title, NEW keyCertain, NEW spent, Remember(t, keyCertain, spent)
    PROVE  /\ installUntil' \in 0..MaxTime + Retry
           /\ seriesUntil' \in [Series -> 0..MaxTime + Retry]
           /\ titleUntil' \in [Title -> 0..MaxTime + Retry]
           /\ \A q \in Title \ {t} : titleUntil'[q] = titleUntil[q]
           /\ ambiguous'.title \in Title \cup {"none"}
           /\ ambiguous'.until \in 0..MaxTime + MemoryTtl
<1>1. now + Retry \in 0..MaxTime + Retry /\ now + MemoryTtl \in 0..MaxTime + MemoryTtl
  BY RefusalNumbers DEF RefusalsTypeOK
<1>2. SeriesOf(t) \in Series
  BY DEF Series
<1>. QED
  BY <1>1, <1>2 DEF RefusalsTypeOK, Remember

LEMMA RefuseKeepsTypes ==
    ASSUME RefusalsTypeOK, NEW t \in Title, Refuse(t)
    PROVE  RefusalsTypeOK'
<1>1. PICK keyCertain \in BOOLEAN : Remember(t, keyCertain, at[t] = "billed")
  BY DEF Refuse
<1>2. at' = [at EXCEPT ![t] = "idle"] /\ UNCHANGED <<now, alive, filtered, restarts>>
  BY DEF Refuse
<1>. QED
  BY <1>1, <1>2, RememberingIsTyped DEF RefusalsTypeOK, Live

LEMMA StepKeepsRefusalsTypes == RefusalsTypeOK /\ [RefusalsNext]_refusalsVars => RefusalsTypeOK'
<1>. SUFFICES ASSUME RefusalsTypeOK, [RefusalsNext]_refusalsVars PROVE RefusalsTypeOK'
  OBVIOUS
<1>1. ASSUME NEW t \in Title, Start(t) PROVE RefusalsTypeOK'
  BY <1>1 DEF Start, RefusalsTypeOK, Live
<1>2. ASSUME NEW t \in Title, Bill(t) \/ Succeed(t) \/ GiveUp(t) PROVE RefusalsTypeOK'
  BY <1>2 DEF Bill, Succeed, GiveUp, Running, RefusalsTypeOK, Live
<1>3. ASSUME NEW t \in Title, Refuse(t) PROVE RefusalsTypeOK'
  BY <1>3, RefuseKeepsTypes
<1>4. CASE KeyDies
  BY <1>4 DEF KeyDies, RefusalsTypeOK, Live
<1>5. CASE Tick
  <2>1. now' \in 0..MaxTime /\ now' = now + 1 /\ now \in 0..MaxTime
        /\ UNCHANGED <<alive, filtered, at, titleUntil, seriesUntil, installUntil, ambiguous, restarts>>
    BY <1>5, RefusalNumbers DEF Tick, RefusalsTypeOK
  <2>2. ASSUME NEW t \in Title, at[t] # "idle" PROVE ~Live(titleUntil[t])'
    <3>1. ~(now < titleUntil[t]) /\ titleUntil[t] \in 0..MaxTime + Retry
      BY <2>2 DEF RefusalsTypeOK, Live
    <3>. QED
      BY <2>1, <3>1, RefusalNumbers DEF Live
  <2>. QED
    BY <2>1, <2>2 DEF RefusalsTypeOK
<1>6. CASE Restart
  <2>1. restarts' \in 0..MaxRestarts
    BY <1>6, RefusalNumbers DEF Restart, RefusalsTypeOK
  <2>2. 0 \in 0..MaxTime + Retry /\ 0 \in 0..MaxTime + MemoryTtl
    BY RefusalNumbers
  <2>. QED
    BY <1>6, <2>1, <2>2 DEF Restart, RefusalsTypeOK, Live, NoTitle
<1>7. CASE UNCHANGED refusalsVars
  BY <1>7 DEF refusalsVars, RefusalsTypeOK, Live
<1>. QED
  BY <1>1, <1>2, <1>3, <1>4, <1>5, <1>6, <1>7 DEF RefusalsNext

-----------------------------------------------------------------------------
(* While the key works and one show is filtered, a refusal is of that      *)
(* show, and what is remembered corroborates nothing against another.      *)
LEMMA RefuseBlocksOnlyTheShow ==
    ASSUME RefusalsInv, NEW t \in Title, Refuse(t)
    PROVE  OneShowBlocksOnlyItself' /\ EvidenceIsOfTheFiltered'
<1>. SUFFICES ASSUME alive', Cardinality(filtered') <= 1
              PROVE  /\ installUntil' = 0
                     /\ \A s \in Series \ filtered' : seriesUntil'[s] = 0
                     /\ ambiguous'.until = 0 \/ SeriesOf(ambiguous'.title) \in filtered'
  BY DEF OneShowBlocksOnlyItself, EvidenceIsOfTheFiltered
<1>1. alive /\ filtered' = filtered /\ Cardinality(filtered) <= 1 /\ filtered \subseteq Series
      /\ now \in 0..MaxTime /\ seriesUntil \in [Series -> 0..MaxTime + Retry]
  BY DEF Refuse, RefusalsInv, RefusalsTypeOK
<1>2. /\ installUntil = 0
      /\ \A s \in Series \ filtered : seriesUntil[s] = 0
      /\ ambiguous.until = 0 \/ SeriesOf(ambiguous.title) \in filtered
  BY <1>1 DEF RefusalsInv, OneShowBlocksOnlyItself, EvidenceIsOfTheFiltered
<1>. DEFINE spent == at[t] = "billed"
<1>3. SeriesOf(t) \in filtered /\ Remember(t, FALSE, spent)
  BY <1>1 DEF Refuse
<1>4. Corroboration(t) # "unrelated"
  <2>1. SUFFICES ASSUME Live(ambiguous.until), SeriesOf(ambiguous.title) # SeriesOf(t)
                 PROVE  FALSE
    BY DEF Corroboration, Remembered
  <2>2. ambiguous.until # 0
    BY <1>1, <2>1, RefusalNumbers DEF Live
  <2>. QED
    BY <1>1, <1>2, <1>3, <2>1, <2>2, OneShow
<1>5. RefusalScope(t, FALSE, spent) # "install"
  BY <1>4 DEF RefusalScope
<1>. QED
  BY <1>1, <1>2, <1>3, <1>5 DEF Remember

LEMMA StepKeepsRefusalsInv == RefusalsInv /\ [RefusalsNext]_refusalsVars => RefusalsInv'
<1>. SUFFICES ASSUME RefusalsInv, [RefusalsNext]_refusalsVars PROVE RefusalsInv'
  OBVIOUS
<1>1. RefusalsTypeOK'
  BY StepKeepsRefusalsTypes DEF RefusalsInv
<1>2. CASE UNCHANGED <<filtered, seriesUntil, installUntil, ambiguous>> /\ (alive' => alive)
  BY <1>1, <1>2 DEF RefusalsInv, OneShowBlocksOnlyItself, EvidenceIsOfTheFiltered
<1>3. ASSUME NEW t \in Title, Refuse(t) PROVE RefusalsInv'
  BY <1>1, <1>3, RefuseBlocksOnlyTheShow DEF RefusalsInv
<1>4. CASE Restart
  BY <1>1, <1>4 DEF Restart, NoTitle, RefusalsInv, OneShowBlocksOnlyItself, EvidenceIsOfTheFiltered
<1>. QED
  BY <1>2, <1>3, <1>4 DEF RefusalsNext, Start, Bill, Succeed, GiveUp, KeyDies, Tick, refusalsVars

LEMMA RefusalsInvariant == RefusalsSpec => []RefusalsInv
BY InitRefusalsInv, StepKeepsRefusalsInv, PTL DEF RefusalsSpec

-----------------------------------------------------------------------------
(* The markers keep their types, and no title is run while it is           *)
(* remembered as refused (the checks of handle_translate).                 *)
THEOREM RefusalsTypeCorrect == RefusalsSpec => []RefusalsTypeOK
<1>1. RefusalsInv => RefusalsTypeOK
  BY DEF RefusalsInv
<1>. QED
  BY <1>1, RefusalsInvariant, PTL

(* While the key works, a filtered show never takes the install, nor any   *)
(* other show, down (refusal_scope).                                       *)
THEOREM OtherShowsRun == RefusalsSpec => []OneShowBlocksOnlyItself
<1>1. RefusalsInv => OneShowBlocksOnlyItself
  BY DEF RefusalsInv
<1>. QED
  BY <1>1, RefusalsInvariant, PTL

-----------------------------------------------------------------------------
(* The price of finding a dead key out.  Take any moment w of the last     *)
(* Retry ticks and the titles refused since, for nothing billed and no     *)
(* certain status.  None or one says little.  The second blocks its show   *)
(* if it is of the same one, and then only the show's runs under way can   *)
(* add to it; the first of another show blocks the install, and then only  *)
(* the runs under way can.  As the clock moves, fewer moments count, and   *)
(* what a moment has to say does not change.                               *)
Since(w) == {t \in Title : w <= refusedAt[t]}
RunsOf(s) == {t \in Running : SeriesOf(t) = s}

ShowIsFound(w, s) ==
    /\ \A t \in Since(w) : SeriesOf(t) = s
    /\ w + Retry <= seriesUntil[s]
    /\ Cardinality(Since(w)) + Cardinality(RunsOf(s)) <= Concurrent + 1

InstallIsFound(w) ==
    /\ w + Retry <= installUntil
    /\ Cardinality(Since(w)) + Cardinality(Running) <= 2 * Concurrent + 1

FewSince(w) ==
    \/ Cardinality(Since(w)) <= 1
    \/ \E s \in Series : ShowIsFound(w, s)
    \/ InstallIsFound(w)

(* The last refusal that counts is the one remembered, for as long as it   *)
(* is recent and longer; a title refused is left alone that long.          *)
EvidenceIsKept ==
    /\ refusedAt \in [Title -> LongAgo..now]
    /\ \A t \in Title :
          /\ refusedAt[t] + Retry <= titleUntil[t]
          /\ refusedAt[t] # LongAgo =>
                /\ ambiguous.title \in Title
                /\ refusedAt[t] <= refusedAt[ambiguous.title]
                /\ refusedAt[t] + MemoryTtl <= ambiguous.until

Found ==
    /\ RefusalsTypeOK
    /\ EvidenceIsKept
    /\ Cardinality(Running) <= Concurrent
    /\ \A w \in (now - Retry + 1)..now : FewSince(w)

(* Titles are finitely many, and so is every set of them here.             *)
LEMMA TitlesAreFinite ==
    ASSUME NEW S \in SUBSET Title
    PROVE  IsFiniteSet(S) /\ Cardinality(S) \in Nat
<1>1. IsFiniteSet(S)
  BY FS_Subset, RefusalsAssumption
<1>. QED
  BY <1>1, FS_CardinalityType

LEMMA FewerTitles ==
    ASSUME NEW S \in SUBSET Title, NEW T \in SUBSET S
    PROVE  Cardinality(T) <= Cardinality(S)
BY TitlesAreFinite, FS_Subset

LEMMA OneTitleMore ==
    ASSUME NEW S \in SUBSET Title, NEW t \in Title \ S
    PROVE  Cardinality(S \cup {t}) = Cardinality(S) + 1
BY TitlesAreFinite, FS_AddElement

LEMMA OneTitleLess ==
    ASSUME NEW S \in SUBSET Title, NEW t \in S
    PROVE  Cardinality(S \ {t}) = Cardinality(S) - 1
BY TitlesAreFinite, FS_RemoveElement

LEMMA CountsOfTitles ==
    ASSUME NEW w, NEW s
    PROVE  /\ Since(w) \in SUBSET Title /\ Running \in SUBSET Title /\ RunsOf(s) \in SUBSET Running
           /\ Cardinality(Since(w)) \in Nat
           /\ Cardinality(Running) \in Nat
           /\ Cardinality(RunsOf(s)) \in Nat
           /\ Cardinality(RunsOf(s)) <= Cardinality(Running)
<1>1. Since(w) \in SUBSET Title /\ Running \in SUBSET Title /\ RunsOf(s) \in SUBSET Running
  BY DEF Since, Running, RunsOf
<1>2. RunsOf(s) \in SUBSET Title
  BY <1>1
<1>. QED
  BY <1>1, <1>2, TitlesAreFinite, FewerTitles

(* No run more, and no block that ends sooner: what a moment has to say    *)
(* is not disturbed.                                                       *)
LEMMA NoRunMore ==
    ASSUME RefusalsTypeOK, now' = now, refusedAt' = refusedAt, Running' \subseteq Running,
           installUntil' \in {installUntil, now + Retry},
           \A s \in Series : seriesUntil'[s] \in {seriesUntil[s], now + Retry},
           NEW w \in (now - Retry + 1)..now, FewSince(w)
    PROVE  FewSince(w)'
<1>1. Since(w)' = Since(w)
  BY DEF Since
<1>2. w \in Int /\ w + Retry <= now + Retry /\ now \in Nat
  BY RefusalNumbers DEF RefusalsTypeOK
<1>3. CASE Cardinality(Since(w)) <= 1
  BY <1>1, <1>3 DEF FewSince
<1>4. ASSUME NEW s \in Series, ShowIsFound(w, s) PROVE FewSince(w)'
  <2>1. RunsOf(s)' \in SUBSET RunsOf(s) /\ RunsOf(s) \in SUBSET Title
    BY DEF RunsOf, Running
  <2>2. Cardinality(RunsOf(s)') <= Cardinality(RunsOf(s)) /\ Cardinality(RunsOf(s)') \in Nat
    BY <2>1, FewerTitles, TitlesAreFinite
  <2>3. Cardinality(Since(w)) \in Nat /\ Cardinality(RunsOf(s)) \in Nat /\ Concurrent \in Nat
    BY CountsOfTitles, RefusalsAssumption
  <2>4. Cardinality(Since(w)) + Cardinality(RunsOf(s)') <= Concurrent + 1
    BY <1>4, <2>2, <2>3 DEF ShowIsFound
  <2>5. w + Retry <= seriesUntil'[s]
    BY <1>2, <1>4 DEF ShowIsFound
  <2>6. ShowIsFound(w, s)'
    BY <1>1, <1>4, <2>4, <2>5 DEF ShowIsFound
  <2>. QED
    BY <2>6 DEF FewSince, Series
<1>5. CASE InstallIsFound(w)
  <2>1. Cardinality(Running') <= Cardinality(Running) /\ Cardinality(Running') \in Nat
    <3>1. Running \in SUBSET Title /\ Running' \in SUBSET Running
      BY DEF Running
    <3>. QED
      BY <3>1, FewerTitles, TitlesAreFinite
  <2>2. Cardinality(Since(w)) \in Nat /\ Cardinality(Running) \in Nat /\ Concurrent \in Nat
    BY CountsOfTitles, RefusalsAssumption
  <2>3. Cardinality(Since(w)) + Cardinality(Running') <= 2 * Concurrent + 1
    BY <1>5, <2>1, <2>2 DEF InstallIsFound
  <2>4. w + Retry <= installUntil'
    BY <1>2, <1>5 DEF InstallIsFound
  <2>. QED
    BY <1>1, <2>3, <2>4 DEF InstallIsFound, FewSince
<1>. QED
  BY <1>3, <1>4, <1>5 DEF FewSince

(* A run starts only where nothing is blocked.                             *)
LEMMA AStartIsUnblocked ==
    ASSUME RefusalsTypeOK, NEW t \in Title, Start(t),
           NEW w \in (now - Retry + 1)..now, FewSince(w)
    PROVE  FewSince(w)'
<1>1. Since(w)' = Since(w) /\ UNCHANGED <<now, seriesUntil, installUntil>>
  BY DEF Since, Start
<1>2. Running' = Running \cup {t}
  BY DEF Start, Running, RefusalsTypeOK
<1>3. w \in Int /\ now \in Nat /\ now < w + Retry
  BY RefusalNumbers DEF RefusalsTypeOK
<1>4. installUntil \in Nat /\ installUntil <= now
  BY <1>3, RefusalNumbers DEF Start, Live, RefusalsTypeOK
<1>5. seriesUntil[SeriesOf(t)] \in Nat /\ seriesUntil[SeriesOf(t)] <= now
  BY <1>3, RefusalNumbers DEF Start, Live, RefusalsTypeOK, Series
<1>6. ~InstallIsFound(w)
  BY <1>3, <1>4, RefusalNumbers DEF InstallIsFound
<1>7. CASE Cardinality(Since(w)) <= 1
  BY <1>1, <1>7 DEF FewSince
<1>8. ASSUME NEW s \in Series, ShowIsFound(w, s) PROVE FewSince(w)'
  <2>1. SeriesOf(t) # s
    BY <1>3, <1>5, <1>8, RefusalNumbers DEF ShowIsFound
  <2>2. RunsOf(s)' = RunsOf(s)
    BY <1>2, <2>1 DEF RunsOf
  <2>3. ShowIsFound(w, s)'
    BY <1>1, <1>8, <2>2 DEF ShowIsFound
  <2>. QED
    BY <2>3 DEF FewSince, Series
<1>. QED
  BY <1>6, <1>7, <1>8 DEF FewSince

(* The title last refused is remembered, is another than this one, and is  *)
(* set against it.                                                         *)
LEMMA TheLastIsSetAgainst ==
    ASSUME RefusalsTypeOK, EvidenceIsKept, NEW t \in Running,
           NEW w \in (now - Retry + 1)..now, Since(w) # {}
    PROVE  /\ ambiguous.title \in Since(w)
           /\ RefusalScope(t, FALSE, FALSE) =
                IF SeriesOf(ambiguous.title) = SeriesOf(t) THEN "series" ELSE "install"
<1>. DEFINE m == ambiguous.title
<1>1. PICK q \in Title : w <= refusedAt[q]
  BY DEF Since
<1>2. /\ w \in Int /\ now \in Nat /\ now < w + Retry /\ refusedAt \in [Title -> LongAgo..now]
      /\ titleUntil \in [Title -> 0..MaxTime + Retry] /\ ambiguous.until \in Nat
  BY RefusalNumbers DEF RefusalsTypeOK, EvidenceIsKept
<1>3. refusedAt[q] # LongAgo /\ refusedAt[q] \in Int
  BY <1>1, <1>2, RefusalNumbers DEF LongAgo
<1>4. m \in Title /\ refusedAt[q] <= refusedAt[m] /\ refusedAt[q] + MemoryTtl <= ambiguous.until
  BY <1>3 DEF EvidenceIsKept
<1>5. refusedAt[m] \in Int /\ w <= refusedAt[m]
  BY <1>1, <1>2, <1>3, <1>4, RefusalNumbers DEF LongAgo
<1>6. Live(ambiguous.until)
  BY <1>1, <1>2, <1>3, <1>4, RefusalNumbers DEF Live
<1>7. t # m
  <2>1. refusedAt[m] + Retry <= titleUntil[m] /\ titleUntil[m] \in Nat
    BY <1>2, <1>4, RefusalNumbers DEF EvidenceIsKept
  <2>2. Live(titleUntil[m])
    BY <1>2, <1>5, <2>1, RefusalNumbers DEF Live
  <2>. QED
    BY <1>4, <2>2 DEF RefusalsTypeOK, Running
<1>8. Remembered = m /\ m # "none"
  BY <1>4, <1>6, RefusalsAssumption DEF Remembered
<1>. QED
  BY <1>4, <1>5, <1>7, <1>8 DEF Corroboration, RefusalScope, Since

(* One more title, and one run less.                                       *)
LEMMA TheRefusalCounts ==
    ASSUME RefusalsTypeOK, EvidenceIsKept, Cardinality(Running) <= Concurrent,
           NEW t \in Running, Remember(t, FALSE, FALSE), now' = now,
           refusedAt' = [refusedAt EXCEPT ![t] = now], at' = [at EXCEPT ![t] = "idle"],
           NEW w \in (now - Retry + 1)..now, FewSince(w)
    PROVE  FewSince(w)'
<1>1. /\ w \in Int /\ now \in Nat /\ w <= now /\ now < w + Retry /\ t \in Title
      /\ refusedAt \in [Title -> LongAgo..now] /\ at \in [Title -> {"idle", "running", "billed", "translated"}]
  BY RefusalNumbers DEF RefusalsTypeOK, EvidenceIsKept, Running
<1>2. t \notin Since(w)
  <2>1. at[t] # "idle" /\ titleUntil[t] \in Nat
    BY <1>1, RefusalNumbers DEF Running, RefusalsTypeOK
  <2>2. titleUntil[t] <= now
    BY <1>1, <2>1 DEF RefusalsTypeOK, Live
  <2>3. refusedAt[t] + Retry <= titleUntil[t] /\ refusedAt[t] \in Int
    BY <1>1, RefusalNumbers DEF EvidenceIsKept, LongAgo
  <2>. QED
    BY <1>1, <2>1, <2>2, <2>3, RefusalNumbers DEF Since
<1>3. Since(w)' = Since(w) \cup {t}
  BY <1>1 DEF Since
<1>4. Running' = Running \ {t}
  BY <1>1 DEF Running
<1>5. /\ Cardinality(Since(w)') = Cardinality(Since(w)) + 1
      /\ Cardinality(Running') = Cardinality(Running) - 1
  BY <1>1, <1>2, <1>3, <1>4, CountsOfTitles, OneTitleMore, OneTitleLess
<1>6. Cardinality(Since(w)) \in Nat /\ Cardinality(Running) \in Nat /\ Concurrent \in Nat \ {0}
  BY CountsOfTitles, RefusalsAssumption
<1>7. CASE Since(w) = {}
  <2>1. Cardinality(Since(w)') <= 1
    BY <1>5, <1>7, FS_EmptySet
  <2>. QED
    BY <2>1 DEF FewSince
<1>. DEFINE m == ambiguous.title
<1>8. CASE Since(w) # {} /\ SeriesOf(m) # SeriesOf(t)
  <2>1. w + Retry <= installUntil'
    <3>1. RefusalScope(t, FALSE, FALSE) = "install"
      BY <1>8, TheLastIsSetAgainst
    <3>2. installUntil' = now + Retry
      BY <3>1 DEF Remember
    <3>. QED
      BY <1>1, <3>2, RefusalNumbers
  <2>2. ASSUME NEW s \in Series, ShowIsFound(w, s) PROVE Cardinality(Since(w)) <= Concurrent + 1
    BY <1>6, <2>2, CountsOfTitles DEF ShowIsFound
  <2>3. Cardinality(Since(w)) <= Concurrent + 1 \/ InstallIsFound(w)
    BY <1>6, <2>2 DEF FewSince
  <2>4. Cardinality(Since(w)') + Cardinality(Running') <= 2 * Concurrent + 1
    BY <1>5, <1>6, <2>3 DEF InstallIsFound
  <2>. QED
    BY <2>1, <2>4 DEF FewSince, InstallIsFound
<1>9. CASE Since(w) # {} /\ SeriesOf(m) = SeriesOf(t)
  <2>. DEFINE s == SeriesOf(t)
  <2>1. m \in Since(w) /\ s \in Series
    BY <1>1, <1>9, TheLastIsSetAgainst DEF Series
  <2>2. w + Retry <= seriesUntil'[s] /\ installUntil' = installUntil
    <3>1. RefusalScope(t, FALSE, FALSE) = "series"
      BY <1>9, TheLastIsSetAgainst
    <3>2. seriesUntil'[s] = now + Retry /\ installUntil' = installUntil
      BY <2>1, <3>1 DEF Remember, RefusalsTypeOK
    <3>. QED
      BY <1>1, <3>2, RefusalNumbers
  <2>3. RunsOf(s)' = RunsOf(s) \ {t} /\ t \in RunsOf(s)
    BY <1>4 DEF RunsOf
  <2>4. Cardinality(RunsOf(s)') = Cardinality(RunsOf(s)) - 1
    <3>1. RunsOf(s) \in SUBSET Title
      BY DEF RunsOf, Running
    <3>. QED
      BY <2>3, <3>1, OneTitleLess
  <2>5. Cardinality(RunsOf(s)) \in Nat /\ Cardinality(RunsOf(s)) <= Cardinality(Running)
    BY CountsOfTitles
  <2>6. CASE Cardinality(Since(w)) <= 1
    <3>1. \A q \in Since(w) : q = m
      <4>1. Cardinality(Since(w) \ {m}) = Cardinality(Since(w)) - 1
            /\ IsFiniteSet(Since(w) \ {m}) /\ Cardinality(Since(w) \ {m}) \in Nat
        BY <2>1, CountsOfTitles, OneTitleLess, TitlesAreFinite
      <4>2. Cardinality(Since(w) \ {m}) = 0
        BY <1>6, <2>6, <4>1
      <4>3. Since(w) \ {m} = {}
        BY <4>1, <4>2, FS_EmptySet
      <4>. QED
        BY <4>3
    <3>2. \A q \in Since(w)' : SeriesOf(q) = s
      BY <1>3, <1>9, <3>1
    <3>3. Cardinality(Since(w)') + Cardinality(RunsOf(s)') <= Concurrent + 1
      BY <1>5, <1>6, <2>4, <2>5, <2>6
    <3>4. ShowIsFound(w, s)'
      BY <2>2, <3>2, <3>3 DEF ShowIsFound
    <3>. QED
      BY <2>1, <3>4 DEF FewSince, Series
  <2>7. ASSUME NEW x \in Series, ShowIsFound(w, x) PROVE FewSince(w)'
    <3>1. x = s
      BY <1>9, <2>1, <2>7 DEF ShowIsFound
    <3>2. \A q \in Since(w)' : SeriesOf(q) = s
      BY <1>3, <2>7, <3>1 DEF ShowIsFound
    <3>3. Cardinality(Since(w)') + Cardinality(RunsOf(s)') <= Concurrent + 1
      BY <1>5, <1>6, <2>4, <2>5, <2>7, <3>1 DEF ShowIsFound
    <3>4. ShowIsFound(w, s)'
      BY <2>2, <3>2, <3>3 DEF ShowIsFound
    <3>. QED
      BY <2>1, <3>4 DEF FewSince, Series
  <2>8. CASE InstallIsFound(w)
    <3>1. Cardinality(Since(w)') + Cardinality(Running') <= 2 * Concurrent + 1
      BY <1>5, <1>6, <2>8 DEF InstallIsFound
    <3>. QED
      BY <2>2, <2>8, <3>1 DEF InstallIsFound, FewSince
  <2>. QED
    BY <2>6, <2>7, <2>8 DEF FewSince
<1>. QED
  BY <1>7, <1>8, <1>9

(* A refusal is remembered as long as its title is left alone, and longer. *)
LEMMA RefusalKeepsEvidence ==
    ASSUME RefusalsTypeOK, EvidenceIsKept, NEW t \in Title, Refuse(t)
    PROVE  EvidenceIsKept'
<1>1. PICK keyCertain \in BOOLEAN :
         /\ Remember(t, keyCertain, at[t] = "billed")
         /\ refusedAt' = IF keyCertain \/ at[t] = "billed" THEN refusedAt
                            ELSE [refusedAt EXCEPT ![t] = now]
  BY DEF Refuse
<1>2. /\ now' = now /\ now \in Nat /\ refusedAt \in [Title -> LongAgo..now]
      /\ titleUntil \in [Title -> 0..MaxTime + Retry] /\ LongAgo \in Int /\ LongAgo <= now
  BY RefusalNumbers DEF Refuse, RefusalsTypeOK, EvidenceIsKept, LongAgo
<1>3. titleUntil' = [titleUntil EXCEPT ![t] = now + Retry]
  BY <1>1 DEF Remember
<1>4. refusedAt' \in [Title -> LongAgo..now]
  BY <1>1, <1>2
<1>5. ASSUME NEW q \in Title PROVE refusedAt'[q] + Retry <= titleUntil'[q]
  <2>1. CASE q = t
    <3>1. titleUntil'[q] = now + Retry
      BY <1>2, <1>3, <2>1
    <3>2. refusedAt'[q] \in LongAgo..now
      BY <1>4
    <3>. QED
      BY <1>2, <3>1, <3>2, RefusalNumbers
  <2>2. CASE q # t
    <3>1. titleUntil'[q] = titleUntil[q] /\ refusedAt'[q] = refusedAt[q]
      BY <1>1, <1>2, <1>3, <2>2
    <3>. QED
      BY <3>1 DEF EvidenceIsKept
  <2>. QED
    BY <2>1, <2>2
<1>6. CASE keyCertain \/ at[t] = "billed"
  <2>1. ambiguous' = ambiguous /\ refusedAt' = refusedAt
    BY <1>1, <1>6 DEF Remember
  <2>. QED
    BY <1>2, <1>5, <2>1 DEF EvidenceIsKept
<1>7. CASE ~(keyCertain \/ at[t] = "billed")
  <2>1. ambiguous' = [title |-> t, until |-> now + MemoryTtl]
    BY <1>1, <1>7 DEF Remember
  <2>2. refusedAt'[t] = now
    BY <1>1, <1>2, <1>7
  <2>3. ASSUME NEW q \in Title
        PROVE  refusedAt'[q] <= now /\ refusedAt'[q] + MemoryTtl <= now + MemoryTtl
    <3>1. refusedAt'[q] \in Int /\ refusedAt'[q] <= now
      BY <1>2, <1>4
    <3>. QED
      BY <1>2, <3>1, RefusalNumbers
  <2>. QED
    BY <1>2, <1>4, <1>5, <2>1, <2>2, <2>3 DEF EvidenceIsKept
<1>. QED
  BY <1>6, <1>7

LEMMA InitFound == RefusalsInit => Found
<1>. SUFFICES ASSUME RefusalsInit PROVE Found
  OBVIOUS
<1>1. RefusalsTypeOK
  BY InitRefusalsInv DEF RefusalsInv
<1>2. EvidenceIsKept
  BY RefusalNumbers DEF RefusalsInit, EvidenceIsKept, LongAgo
<1>3. Running = {}
  BY DEF RefusalsInit, Running
<1>4. Cardinality(Running) <= Concurrent
  BY <1>3, FS_EmptySet, RefusalsAssumption
<1>5. ASSUME NEW w \in (now - Retry + 1)..now PROVE FewSince(w)
  <2>1. Since(w) = {}
    BY RefusalNumbers DEF RefusalsInit, LongAgo, Since
  <2>. QED
    BY <2>1, FS_EmptySet DEF FewSince
<1>. QED
  BY <1>1, <1>2, <1>4, <1>5 DEF Found

LEMMA StepKeepsFound == Found /\ [RefusalsNext]_refusalsVars => Found'
<1>. SUFFICES ASSUME Found, [RefusalsNext]_refusalsVars PROVE Found'
  OBVIOUS
<1>1. RefusalsTypeOK /\ EvidenceIsKept /\ Cardinality(Running) <= Concurrent
      /\ \A w \in (now - Retry + 1)..now : FewSince(w)
  BY DEF Found
<1>2. RefusalsTypeOK'
  BY <1>1, StepKeepsRefusalsTypes
<1>. DEFINE Idle == UNCHANGED <<now, titleUntil, ambiguous, refusedAt>>
<1>3. CASE Idle /\ UNCHANGED <<seriesUntil, installUntil>> /\ Running' \subseteq Running
  <2>1. EvidenceIsKept'
    BY <1>1, <1>3 DEF EvidenceIsKept
  <2>2. Cardinality(Running') <= Concurrent
    <3>1. Running \in SUBSET Title /\ Running' \in SUBSET Running
      BY <1>3 DEF Running
    <3>2. Cardinality(Running') <= Cardinality(Running)
          /\ Cardinality(Running') \in Nat /\ Cardinality(Running) \in Nat
      BY <3>1, FewerTitles, TitlesAreFinite
    <3>. QED
      BY <1>1, <3>2, RefusalsAssumption
  <2>3. \A w \in (now - Retry + 1)..now : FewSince(w)'
    BY <1>1, <1>3, NoRunMore
  <2>. QED
    BY <1>2, <1>3, <2>1, <2>2, <2>3 DEF Found
<1>4. ASSUME NEW t \in Title, Start(t) PROVE Found'
  <2>1. EvidenceIsKept' /\ now' = now
    BY <1>1, <1>4 DEF EvidenceIsKept, Start
  <2>2. Cardinality(Running') <= Concurrent
    <3>1. Running' = Running \cup {t} /\ t \in Title \ Running /\ Running \in SUBSET Title
      BY <1>1, <1>4 DEF Start, Running, RefusalsTypeOK
    <3>2. Cardinality(Running') = Cardinality(Running) + 1 /\ Cardinality(Running) \in Nat
      BY <3>1, OneTitleMore, TitlesAreFinite
    <3>. QED
      BY <1>4, <3>2, RefusalsAssumption DEF Start
  <2>3. \A w \in (now - Retry + 1)..now : FewSince(w)'
    BY <1>1, <1>4, AStartIsUnblocked
  <2>. QED
    BY <1>2, <2>1, <2>2, <2>3 DEF Found
<1>5. ASSUME NEW t \in Title, Refuse(t) PROVE Found'
  <2>1. PICK keyCertain \in BOOLEAN :
           /\ Remember(t, keyCertain, at[t] = "billed")
           /\ refusedAt' = IF keyCertain \/ at[t] = "billed" THEN refusedAt
                              ELSE [refusedAt EXCEPT ![t] = now]
    BY <1>5 DEF Refuse
  <2>2. now' = now /\ at' = [at EXCEPT ![t] = "idle"] /\ t \in Running
    BY <1>5 DEF Refuse
  <2>3. Running' = Running \ {t} /\ Running \in SUBSET Title
    BY <1>1, <2>2 DEF Running, RefusalsTypeOK
  <2>4. Cardinality(Running') <= Concurrent
    <3>1. Cardinality(Running') = Cardinality(Running) - 1 /\ Cardinality(Running) \in Nat
      BY <2>2, <2>3, OneTitleLess, TitlesAreFinite
    <3>. QED
      BY <1>1, <3>1, RefusalsAssumption
  <2>5. EvidenceIsKept'
    BY <1>1, <1>5, RefusalKeepsEvidence
  <2>6. CASE keyCertain \/ at[t] = "billed"
    <3>1. refusedAt' = refusedAt
      BY <2>1, <2>6
    <3>2. installUntil' \in {installUntil, now + Retry}
          /\ \A s \in Series : seriesUntil'[s] \in {seriesUntil[s], now + Retry}
      BY <1>1, <2>1 DEF Remember, RefusalsTypeOK
    <3>3. \A w \in (now - Retry + 1)..now : FewSince(w)'
      BY <1>1, <2>2, <2>3, <3>1, <3>2, NoRunMore
    <3>. QED
      BY <1>2, <2>2, <2>4, <2>5, <3>3 DEF Found
  <2>7. CASE ~(keyCertain \/ at[t] = "billed")
    <3>1. keyCertain = FALSE /\ (at[t] = "billed") = FALSE
      BY <2>7
    <3>2. Remember(t, FALSE, FALSE) /\ refusedAt' = [refusedAt EXCEPT ![t] = now]
      BY <2>1, <3>1
    <3>3. \A w \in (now - Retry + 1)..now : FewSince(w)'
      BY <1>1, <2>2, <3>2, TheRefusalCounts
    <3>. QED
      BY <1>2, <2>2, <2>4, <2>5, <3>3 DEF Found
  <2>. QED
    BY <2>6, <2>7
<1>6. CASE Tick
  <2>1. now' = now + 1 /\ now \in Nat /\ LongAgo \in Int
        /\ UNCHANGED <<at, titleUntil, seriesUntil, installUntil, ambiguous, refusedAt>>
    BY <1>1, <1>6, RefusalNumbers DEF Tick, RefusalsTypeOK, LongAgo
  <2>2. EvidenceIsKept'
    <3>1. refusedAt \in [Title -> LongAgo..now + 1]
      BY <1>1, <2>1 DEF EvidenceIsKept
    <3>. QED
      BY <1>1, <2>1, <3>1 DEF EvidenceIsKept
  <2>3. Running' = Running
    BY <2>1 DEF Running
  <2>4. ASSUME NEW w \in (now + 1 - Retry + 1)..now + 1 PROVE FewSince(w)'
    <3>1. CASE w = now + 1
      <4>1. Since(w)' = {}
        BY <1>1, <2>1, <3>1 DEF Since, EvidenceIsKept
      <4>2. Cardinality(Since(w)') <= 1
        BY <4>1, FS_EmptySet
      <4>. QED
        BY <4>2 DEF FewSince
    <3>2. CASE w # now + 1
      <4>1. FewSince(w)
        BY <1>1, <2>1, <3>2, RefusalNumbers
      <4>. QED
        BY <2>1, <2>3, <4>1
           DEF FewSince, ShowIsFound, InstallIsFound, Since, RunsOf, Series
    <3>. QED
      BY <3>1, <3>2
  <2>5. \A w \in (now' - Retry + 1)..now' : FewSince(w)'
    BY <2>1, <2>4, RefusalNumbers
  <2>6. (Cardinality(Running) <= Concurrent)'
    BY <1>1, <2>3
  <2>. QED
    BY <1>2, <2>2, <2>5, <2>6 DEF Found
<1>7. CASE Restart
  <2>1. now' = now /\ refusedAt' = [t \in Title |-> LongAgo] /\ now \in Nat /\ titleUntil' = titleUntil
        /\ titleUntil \in [Title -> 0..MaxTime + Retry]
    BY <1>1, <1>7, RefusalNumbers DEF Restart, RefusalsTypeOK
  <2>2. Running' = {}
    BY <1>7 DEF Restart, Running
  <2>3. Cardinality(Running') <= Concurrent
    BY <2>2, FS_EmptySet, RefusalsAssumption
  <2>4. EvidenceIsKept'
    BY <2>1, RefusalNumbers DEF EvidenceIsKept, LongAgo
  <2>5. ASSUME NEW w \in (now - Retry + 1)..now PROVE FewSince(w)'
    <3>1. Since(w)' = {}
      BY <2>1, RefusalNumbers DEF Since, LongAgo
    <3>2. Cardinality(Since(w)') <= 1
      BY <3>1, FS_EmptySet
    <3>. QED
      BY <3>2 DEF FewSince
  <2>. QED
    BY <1>2, <2>1, <2>3, <2>4, <2>5 DEF Found
<1>8. ASSUME NEW t \in Title, Bill(t) \/ Succeed(t) \/ GiveUp(t) PROVE Found'
  <2>1. Running' \subseteq Running
    BY <1>1, <1>8 DEF Bill, Succeed, GiveUp, Running, RefusalsTypeOK
  <2>. QED
    BY <1>3, <1>8, <2>1 DEF Bill, Succeed, GiveUp
<1>9. CASE KeyDies \/ UNCHANGED refusalsVars
  <2>1. Running' = Running
    BY <1>9 DEF KeyDies, refusalsVars, Running
  <2>. QED
    BY <1>3, <1>9, <2>1 DEF KeyDies, refusalsVars
<1>. QED
  BY <1>4, <1>5, <1>6, <1>7, <1>8, <1>9 DEF RefusalsNext

(* Whatever the titles, the show they are of, the ticks a refusal lasts    *)
(* and the runs at a time, a key that dies, or a show that is filtered, is *)
(* found out for three titles and the runs under way (refusal_scope,       *)
(* ambiguous_refusal_escalates).                                           *)
THEOREM DeadKeysAreFoundOut == RefusalsSpec => []RefusalsAreFew
<1>1. Found => RefusalsAreFew
  <2>. SUFFICES ASSUME Found PROVE RefusalsAreFew
    OBVIOUS
  <2>. DEFINE w == now - Retry + 1
  <2>1. now \in Nat /\ w \in (now - Retry + 1)..now /\ refusedAt \in [Title -> LongAgo..now]
    BY RefusalNumbers DEF Found, RefusalsTypeOK, EvidenceIsKept
  <2>2. {t \in Title : now - refusedAt[t] < Retry} = Since(w)
    BY <2>1, RefusalNumbers DEF Since, LongAgo
  <2>3. FewSince(w)
    BY <2>1 DEF Found
  <2>4. Cardinality(Since(w)) \in Nat /\ Cardinality(Running) \in Nat /\ Concurrent \in Nat \ {0}
        /\ \A s \in Series : Cardinality(RunsOf(s)) \in Nat
    BY CountsOfTitles, RefusalsAssumption
  <2>5. Cardinality(Since(w)) <= 3 + 2 * (Concurrent - 1)
    BY <2>3, <2>4 DEF FewSince, ShowIsFound, InstallIsFound
  <2>. QED
    BY <2>2, <2>5 DEF RefusalsAreFew
<1>. QED
  BY <1>1, InitFound, StepKeepsFound, PTL DEF RefusalsSpec
=============================================================================
