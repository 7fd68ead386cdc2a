---------------------------- MODULE Translation ----------------------------
(***************************************************************************)
(* Buying the translation of one title (src/src/addon.rs                   *)
(* `handle_translate`, `produce_translation`, `charge_translation`,        *)
(* `refund_translation`, `ChargeGuard`; src/src/translate.rs `Spend`).  A  *)
(* request that finds no translated body waits for the single-flight of    *)
(* the body, resolves a source file (the title's pin, read before the      *)
(* wait, or a search), downloads it, takes a slot of its install's daily   *)
(* allowance and runs the model, several calls at a time.  It gives the    *)
(* slot back when nothing was spent.  The client may hang up at any time.  *)
(*                                                                         *)
(* Bodies are shared by the installs and keyed by language (one provider   *)
(* and model); failure markers and allowances are an install's own; the    *)
(* pin is the title's.  A download is a nondeterministic outcome here (see *)
(* Download), as is what the provider answers.  Markers lapse and cache    *)
(* entries are lost at any time (Lose), but not the allowance counters.    *)
(* The alignment that follows (`sync_and_cache`) is not part of this       *)
(* module, and how wide a refused credential is remembered is left open.   *)
(***************************************************************************)
EXTENDS Integers, FiniteSets, Sequences, SequencesExt, Functions

CONSTANTS
  Req, Install, Lang,
  Source,       \* OpenSubtitles files the title could be translated from
  NoSource, NoWant,
  Daily,        \* DAILY_TRANSLATIONS
  Concurrency,  \* CONCURRENCY: calls of one run under way at once
  MaxDay        \* bound on the calendar

ASSUME TranslationAssumption ==
  /\ IsFiniteSet(Req) /\ IsFiniteSet(Install) /\ IsFiniteSet(Lang) /\ IsFiniteSet(Source)
  /\ NoSource \notin Source
  /\ NoWant \notin [install : Install, lang : Lang]
  /\ Daily \in Nat /\ Concurrency \in Nat \ {0} /\ MaxDay \in Nat

VARIABLES
  day,
  pc, want,   \* where each request is, and what it asks for
  pinned,     \* the pin as the request read it when it came
  source,     \* the source it settled on
  run,        \* its run of the model
  waiting,    \* per body, the requests queued for its flight
  body,       \* the languages whose translated body is cached
  pin,        \* source_pin_key
  have,       \* sources whose subtitle is cached
  dead, big,  \* dead_file_key, oversized_file_key
  backedOff,  \* failed_recently, per install and language
  blocked,    \* credential_refused_key or series_refused_key, per install
  used,       \* quota_key: translations charged, per install and day
  bought      \* history: runs that cost the install's provider money

vars == <<day, pc, want, pinned, source, run, waiting, body, pin, have, dead, big, backedOff,
          blocked, used, bought>>
request == <<pc, want, pinned, source, run>>
markers == <<dead, big, backedOff, blocked>>

Day == 0..MaxDay
Want == [install : Install, lang : Lang]
Run == [day : Day, sourceWasCached : BOOLEAN, unanswered : 0..Concurrency,
        dispatched : BOOLEAN, billed : BOOLEAN, refused : BOOLEAN]
Phase == {"idle", "wantsFlight", "searching", "downloading", "running"}

TypeOK ==
  /\ day \in Day
  /\ pc \in [Req -> Phase]
  /\ want \in [Req -> Want \cup {NoWant}]
  /\ pinned \in [Req -> Source \cup {NoSource}] /\ source \in [Req -> Source \cup {NoSource}]
  /\ run \in [Req -> Run]
  /\ waiting \in [Lang -> Seq(Req)]
  /\ body \subseteq Lang
  /\ pin \in Source \cup {NoSource}
  /\ have \subseteq Source /\ dead \subseteq Source /\ big \subseteq Source
  /\ backedOff \subseteq Want
  /\ blocked \subseteq Install
  /\ used \in [Install -> [Day -> Nat]] /\ bought \in [Install -> [Day -> Nat]]

NoRun == [day |-> 0, sourceWasCached |-> FALSE, unanswered |-> 0,
          dispatched |-> FALSE, billed |-> FALSE, refused |-> FALSE]

Init ==
  /\ day = 0
  /\ pc = [r \in Req |-> "idle"]
  /\ want = [r \in Req |-> NoWant]
  /\ pinned = [r \in Req |-> NoSource] /\ source = [r \in Req |-> NoSource]
  /\ run = [r \in Req |-> NoRun]
  /\ waiting = [l \in Lang |-> <<>>]
  /\ body = {} /\ pin = NoSource /\ have = {} /\ dead = {} /\ big = {}
  /\ backedOff = {} /\ blocked = {}
  /\ used = [i \in Install |-> [d \in Day |-> 0]]
  /\ bought = [i \in Install |-> [d \in Day |-> 0]]

-----------------------------------------------------------------------------
(* The allowance *)

\* allowance_used_up, of today
UsedUp(i) == used[i][day] >= Daily

\* charge_translation and refund_translation, of today
Charge(i) == used' = [used EXCEPT ![i][day] = @ + 1]
Refund(i) == used' = [used EXCEPT ![i][day] = IF @ = 0 THEN 0 ELSE @ - 1]

\* cached_translation: the text under translate_body_key, whatever it was made from.
HasBody(w) == w.lang \in body

\* A run that ends on its own asks whether it was billed; a dropped one, whose
\* answers nobody will see, whether anything was sent.  Either keeps the slot of
\* a request that paid for the download of its source.
Settle(r, spent) ==
  /\ IF ~spent /\ run[r].sourceWasCached THEN Refund(want[r].install) ELSE UNCHANGED used
  /\ bought' = IF spent THEN [bought EXCEPT ![want[r].install][run[r].day] = @ + 1] ELSE bought

-----------------------------------------------------------------------------
(* The request *)

End(r) ==
  /\ pc' = [pc EXCEPT ![r] = "idle"]
  /\ want' = [want EXCEPT ![r] = NoWant]
  /\ pinned' = [pinned EXCEPT ![r] = NoSource]
  /\ source' = [source EXCEPT ![r] = NoSource]
  /\ run' = [run EXCEPT ![r] = NoRun]

\* A request that is backed off, or whose body is cached, is answered at once.
\* (The search for an anchor that comes before the flight is part of the wait.)
Ask(r, w) ==
  /\ pc[r] = "idle"
  /\ w \notin backedOff /\ ~HasBody(w)
  /\ pc' = [pc EXCEPT ![r] = "wantsFlight"]
  /\ want' = [want EXCEPT ![r] = w]
  /\ pinned' = [pinned EXCEPT ![r] = pin]
  /\ waiting' = [waiting EXCEPT ![w.lang] = Append(@, r)]
  /\ UNCHANGED <<day, source, run, body, pin, have, markers, used, bought>>

\* Mutant: those who wait hold the flight too.
MutCountsWaiters(l) == {r \in Req : pc[r] # "idle" /\ want[r].lang = l}
\* Mutant: the flight is let go once the source is at hand.
MutGuardsDownload(l) == {r \in Req : pc[r] \in {"searching", "downloading"} /\ want[r].lang = l}

Flight(l) == {r \in Req : pc[r] \in {"searching", "downloading", "running"} /\ want[r].lang = l}
NextInFlight(r) ==
  /\ pc[r] = "wantsFlight"
  /\ Flight(want[r].lang) = {}
  /\ waiting[want[r].lang] # <<>> /\ Head(waiting[want[r].lang]) = r
  /\ waiting' = [waiting EXCEPT ![want[r].lang] = Tail(@)]

\* Mutant: the marker and the body were read when the request came.
MutNotReadAgain(w) == UsedUp(w.install) \/ w.install \in blocked

\* What is read again, or only now, after the wait.
Declined(w) ==
  w \in backedOff \/ HasBody(w) \/ UsedUp(w.install) \/ w.install \in blocked

TurnedAway(r) ==
  /\ NextInFlight(r)
  /\ Declined(want[r])
  /\ End(r)
  /\ UNCHANGED <<day, body, pin, have, markers, used, bought>>

MustSearch(r) ==
  /\ NextInFlight(r)
  /\ ~Declined(want[r]) /\ pinned[r] = NoSource
  /\ pc' = [pc EXCEPT ![r] = "searching"]
  /\ UNCHANGED <<day, want, pinned, source, run, body, pin, have, markers, used, bought>>

\* A source that is not remembered as failing: the download starts, and it is
\* noted whether it will cost a credit.
Settled(r, s) ==
  /\ s \notin dead
  /\ pc' = [pc EXCEPT ![r] = "downloading"]
  /\ source' = [source EXCEPT ![r] = s]
  /\ run' = [run EXCEPT ![r].sourceWasCached = (s \in have)]
  /\ UNCHANGED <<day, want, pinned, body, have, markers, used, bought>>

UsePin(r) ==
  /\ NextInFlight(r)
  /\ ~Declined(want[r]) /\ pinned[r] # NoSource
  /\ Settled(r, pinned[r])
  /\ UNCHANGED pin

\* remembered_failure of the source: the pin goes if it is dead, and the
\* request backs off either way.
SourceRemembered(r) ==
  /\ NextInFlight(r)
  /\ ~Declined(want[r]) /\ pinned[r] # NoSource
  /\ pin' = IF pinned[r] \in dead THEN NoSource ELSE pin
  /\ backedOff' = backedOff \cup {want[r]}
  /\ End(r)
  /\ UNCHANGED <<day, body, have, dead, big, blocked, used, bought>>

Usable == Source \ (dead \cup big)

\* The search ranks the candidates; which comes first drifts.
Pick(r) ==
  /\ pc[r] = "searching"
  /\ ~UsedUp(want[r].install)
  /\ \E s \in Usable : pin' = s /\ Settled(r, s)
  /\ UNCHANGED waiting

\* The picked source is remembered as failing, but not dead.
PickRemembered(r) ==
  /\ pc[r] = "searching"
  /\ \E s \in Usable : pin' = s
  /\ backedOff' = backedOff \cup {want[r]}
  /\ End(r)
  /\ UNCHANGED <<day, waiting, body, have, dead, big, blocked, used, bought>>

\* The last slot went while it searched: it pins, and downloads nothing.
PickTooLate(r) ==
  /\ pc[r] = "searching"
  /\ UsedUp(want[r].install)
  /\ \E s \in Usable : pin' = s
  /\ End(r)
  /\ UNCHANGED <<day, waiting, body, have, markers, used, bought>>

\* The search fails, or no candidate is usable: nothing is remembered.
PickNothing(r) ==
  /\ pc[r] = "searching"
  /\ End(r)
  /\ UNCHANGED <<day, waiting, body, pin, have, markers, used, bought>>

-----------------------------------------------------------------------------
(* produce_translation *)

\* The source is at hand and its run starts: charged at the last moment.
Begin(r) ==
  /\ pc[r] = "downloading"
  /\ source[r] \notin dead \cup big
  /\ ~UsedUp(want[r].install)
  /\ have' = have \cup {source[r]}
  /\ Charge(want[r].install)
  /\ pc' = [pc EXCEPT ![r] = "running"]
  /\ run' = [run EXCEPT ![r].day = day]
  /\ UNCHANGED <<day, want, pinned, source, waiting, body, pin, markers, bought>>

\* Another request of the install took the last slot meanwhile.
NoSlotLeft(r) ==
  /\ pc[r] = "downloading"
  /\ source[r] \notin dead \cup big
  /\ UsedUp(want[r].install)
  /\ have' = have \cup {source[r]}
  /\ End(r)
  /\ UNCHANGED <<day, waiting, body, pin, markers, used, bought>>

\* TranslationFailure::Source: too large (MAX_CUES, MAX_DIALOGUE_BYTES), as a
\* download may find it, or gone by the API's own word.
SourceFails(r) ==
  /\ pc[r] = "downloading"
  /\ \/ /\ source[r] \notin dead /\ (source[r] \in big \/ source[r] \notin have)
        /\ have' = have \cup {source[r]} /\ big' = big \cup {source[r]}
        /\ UNCHANGED dead
     \/ /\ source[r] \notin have
        /\ dead' = dead \cup {source[r]}
        /\ UNCHANGED <<have, big>>
  /\ backedOff' = backedOff \cup {want[r]}
  /\ pin' = NoSource
  /\ End(r)
  /\ UNCHANGED <<day, waiting, body, blocked, used, bought>>

\* The credential's trouble, or a suspect file; a repeat convicts it, but only the
\* next request finds the conviction and drops the pin.
DownloadFails(r) ==
  /\ pc[r] = "downloading"
  /\ dead' \in {dead, dead \cup ({source[r]} \ have)}
  /\ backedOff' = backedOff \cup {want[r]}
  /\ End(r)
  /\ UNCHANGED <<day, waiting, body, pin, have, big, blocked, used, bought>>

\* One more call, while the window has room; an answer that was charged for; a
\* refusal, which costs nothing.  A refused glossary is done without and a passing
\* refusal is asked again; any other ends the run once its batch's turn comes.
Send(r) ==
  /\ pc[r] = "running"
  /\ run[r].unanswered < Concurrency
  /\ run' = [run EXCEPT ![r].dispatched = TRUE, ![r].unanswered = @ + 1]
  /\ UNCHANGED <<day, pc, want, pinned, source, waiting, body, pin, have, markers, used, bought>>

Answered(r) ==
  /\ pc[r] = "running"
  /\ run[r].unanswered > 0
  /\ run' = [run EXCEPT ![r].billed = TRUE, ![r].unanswered = @ - 1]
  /\ UNCHANGED <<day, pc, want, pinned, source, waiting, body, pin, have, markers, used, bought>>

Refused(r) ==
  /\ pc[r] = "running"
  /\ run[r].unanswered > 0
  /\ \E fatal \in BOOLEAN :
       run' = [run EXCEPT ![r].refused = @ \/ fatal, ![r].unanswered = @ - 1]
  /\ UNCHANGED <<day, pc, want, pinned, source, waiting, body, pin, have, markers, used, bought>>

\* Every batch is there, bought now or in an earlier run.
RunSucceeds(r) ==
  /\ pc[r] = "running"
  /\ run[r].unanswered = 0 /\ ~run[r].refused
  /\ body' = body \cup {want[r].lang}
  /\ pin' = source[r]
  /\ bought' = IF run[r].billed
               THEN [bought EXCEPT ![want[r].install][run[r].day] = @ + 1] ELSE bought
  /\ End(r)
  /\ UNCHANGED <<day, waiting, have, markers, used>>

\* A call was refused, the deadline passed, or the output is unusable.  The calls
\* of other batches that are still unanswered are dropped with the run.
RunFails(r) ==
  /\ pc[r] = "running"
  /\ Settle(r, run[r].billed)
  /\ backedOff' = backedOff \cup {want[r]}
  /\ blocked' \in {blocked, blocked \cup {want[r].install}}
  /\ End(r)
  /\ UNCHANGED <<day, waiting, body, pin, have, dead, big>>

\* A dropped waiter of the flight takes its place in the queue with it.
LeavesQueue(r) ==
  IF pc[r] # "wantsFlight" THEN UNCHANGED waiting
  ELSE LET l == want[r].lang
       IN  \E i \in 1..Len(waiting[l]) :
             waiting[l][i] = r /\ waiting' = [waiting EXCEPT ![l] = RemoveAt(@, i)]

\* Mutant: a dropped run, too, asks whether it was billed.
MutDropAsksBilled(r) ==
  /\ pc[r] # "idle"
  /\ IF pc[r] = "running"
     THEN /\ IF ~run[r].billed /\ run[r].sourceWasCached
             THEN Refund(want[r].install) ELSE UNCHANGED used
          /\ bought' = IF run[r].dispatched
                       THEN [bought EXCEPT ![want[r].install][run[r].day] = @ + 1] ELSE bought
     ELSE UNCHANGED <<used, bought>>
  /\ LeavesQueue(r)
  /\ End(r)
  /\ UNCHANGED <<day, body, pin, have, markers>>

\* The client hangs up, wherever the handler is.
HangUp(r) ==
  /\ pc[r] # "idle"
  /\ IF pc[r] = "running" THEN Settle(r, run[r].dispatched) ELSE UNCHANGED <<used, bought>>
  /\ LeavesQueue(r)
  /\ End(r)
  /\ UNCHANGED <<day, body, pin, have, markers>>

-----------------------------------------------------------------------------
(* The surroundings *)

\* Downloads for other requests, and workers whose client has left.
Downloaded(s) ==
  /\ s \notin have \cup dead
  /\ \/ have' = have \cup {s} /\ UNCHANGED dead
     \/ dead' = dead \cup {s} /\ UNCHANGED have
  /\ UNCHANGED <<day, request, waiting, body, pin, big, backedOff, blocked, used, bought>>

\* A marker lapses, or an entry of the cache is evicted.
Lose ==
  /\ \/ /\ \E l \in body : body' = body \ {l}
        /\ UNCHANGED <<pin, have, markers>>
     \/ /\ pin' = NoSource
        /\ UNCHANGED <<body, have, markers>>
     \/ /\ \E s \in have : have' = have \ {s}
        /\ UNCHANGED <<body, pin, markers>>
     \/ /\ \E s \in dead : dead' = dead \ {s}
        /\ UNCHANGED <<body, pin, have, big, backedOff, blocked>>
     \/ /\ \E w \in backedOff : backedOff' = backedOff \ {w}
        /\ UNCHANGED <<body, pin, have, dead, big, blocked>>
     \/ /\ \E i \in blocked : blocked' = blocked \ {i}
        /\ UNCHANGED <<body, pin, have, dead, big, backedOff>>
  /\ UNCHANGED <<day, request, waiting, used, bought>>

Midnight ==
  /\ day < MaxDay
  /\ day' = day + 1
  /\ UNCHANGED <<request, waiting, body, pin, have, markers, used, bought>>

-----------------------------------------------------------------------------
Next ==
  \/ \E r \in Req :
       \/ \E w \in Want : Ask(r, w)
       \/ TurnedAway(r)
       \/ MustSearch(r)
       \/ UsePin(r)
       \/ SourceRemembered(r)
       \/ Pick(r)
       \/ PickRemembered(r)
       \/ PickTooLate(r)
       \/ PickNothing(r)
       \/ Begin(r)
       \/ NoSlotLeft(r)
       \/ SourceFails(r)
       \/ DownloadFails(r)
       \/ Send(r)
       \/ Answered(r)
       \/ Refused(r)
       \/ RunSucceeds(r)
       \/ RunFails(r)
       \/ HangUp(r)
  \/ \E s \in Source : Downloaded(s)
  \/ Lose
  \/ Midnight

Spec == Init /\ [][Next]_vars

\* The flight is handed on in order; searches and downloads have timeouts (and see
\* Download); a run is cut off at RUN_DEADLINE.
Progress(r) ==
  \/ TurnedAway(r) \/ MustSearch(r) \/ UsePin(r) \/ SourceRemembered(r)
  \/ Pick(r) \/ PickRemembered(r) \/ PickTooLate(r) \/ PickNothing(r)
  \/ Begin(r) \/ NoSlotLeft(r) \/ SourceFails(r) \/ DownloadFails(r)
  \/ RunSucceeds(r) \/ RunFails(r)

FairSpec == Spec /\ \A r \in Req : WF_vars(Progress(r))

-----------------------------------------------------------------------------
(* Properties *)

\* One film, one bill: two requests never produce one body at the same time,
\* whoever came first, failed, or hung up.
OneRunPerBody ==
  \A r, s \in Req :
    pc[r] = "running" /\ pc[s] = "running" /\ want[r].lang = want[s].lang => r = s

\* A run only starts for a body nobody has bought, on an install that is not
\* backing off from it and has a slot left: nobody who queued behind a run that
\* failed, or succeeded, pays for a film again.
BuysOnlyTheMissing ==
  [][\A r \in Req : pc[r] # "running" /\ pc'[r] = "running" =>
       /\ want[r] \notin backedOff
       /\ want[r].lang \notin body
       /\ ~UsedUp(want[r].install)]_vars

\* The allowance covers every run that cost something: one that was billed, or that
\* hung up with requests on the wire.  Over all the days: a slot given back after
\* midnight comes off the new day's counter, so that a single day may exceed it.
BoughtIsCounted ==
  \A i \in Install : SumFunction(bought[i]) <= SumFunction(used[i])

\* Every request is answered, or its client leaves: whatever becomes of the runs
\* it queues behind, the flight of its body reaches it.
EveryRequestAnswered == \A r \in Req : pc[r] # "idle" ~> pc[r] = "idle"
=============================================================================
