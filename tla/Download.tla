------------------------------ MODULE Download ------------------------------
(***************************************************************************)
(* Fetching one subtitle (src/src/addon.rs `subtitle_srt`,                 *)
(* `download_and_cache`, `remembered_failure`, `remember_failure`,         *)
(* `forget_failure`; src/src/opensubtitles.rs `admit_download`,            *)
(* `download_admitted`).  Every POST to /download spends a metered credit, *)
(* so a request passes the cache, the remembered failures, the pauses, the *)
(* single-flight of its file and the window of its credential before a     *)
(* detached worker, which owns flight and permit, spends one.              *)
(*                                                                         *)
(* Composition.  The flight is the mutex InFlight implements and the       *)
(* windows the ones Pauses keeps; both are FIFO.  A pause is its deadline: *)
(* a call only leaves while none is in force, so the revision it leaves    *)
(* under never clears a live one (Pauses, RefusalRemembered).  The API     *)
(* rate limit and the download quota of a credential are one deadline, the *)
(* CDN's, which is global, is another.                                     *)
(*                                                                         *)
(* What a body turns out to be (complete, sparse, no subtitle at all) is   *)
(* open, so the per-episode cue record that feeds the sparse verdict is    *)
(* left out.  Time is an integer clock; the TTLs of days (bodies, dead     *)
(* files, strikes) are covered by Lose, which also stands for eviction.    *)
(***************************************************************************)
EXTENDS Integers, FiniteSets, Sequences, SequencesExt

CONSTANTS
  Req,          \* requests that can be under way at once
  File, Cred,   \* OpenSubtitles file ids; credentials
  Cdn,          \* the CDN's key among the limits
  NoWant,
  Asked,        \* what the requests of an instance may ask for
  Window,       \* MAX_IN_FLIGHT_PER_KEY
  Retry,        \* SYNC_RETRY_TTL
  Waits,        \* how long a refusal asks to wait
  MaxTime,      \* bound on the clock
  MaxLosses     \* bound on restarts, evictions and lapsed week-long entries

ASSUME DownloadAssumption ==
  /\ IsFiniteSet(Req) /\ IsFiniteSet(File) /\ IsFiniteSet(Cred) /\ Cdn \notin Cred
  /\ Window \in Nat \ {0} /\ Retry \in Nat \ {0} /\ Waits \subseteq Nat
  /\ MaxTime \in Nat /\ MaxLosses \in Nat
  /\ NoWant \notin [file : File, cred : Cred, allowSparse : BOOLEAN]
  /\ Asked \subseteq [file : File, cred : Cred, allowSparse : BOOLEAN]

VARIABLES
  now,
  pc, want,     \* where each request (or its worker) is, and what it asks for
  waiting,      \* per file, the requests queued for its flight
  line,         \* per limit, the calls queued for its window
  cached,       \* the files whose body the cache holds
  dead,         \* dead_file_key: the tag it holds, or "none"
  backoff,      \* suspect_backoff_key: its tag and when it lapses
  strike,       \* suspect_strike_key: the time of the first failure, or Never
  unavailable,  \* unavailable_file_key: when it lapses
  paused,       \* until when each limit refuses
  losses,       \* how many times something was lost
  failed        \* history: first and last suspect failure since a success

vars == <<now, pc, want, waiting, line, cached, dead, backoff, strike, unavailable,
          paused, losses, failed>>

Limit == Cred \cup {Cdn}
Never == -1
Want == [file : File, cred : Cred, allowSparse : BOOLEAN]
Phase == {"idle", "wantsFlight", "wantsPermit", "admitted", "posted", "linked", "fetching"}
Tag == {"none", "gone", "suspect", "sparse"}

TypeOK ==
  /\ now \in 0..MaxTime
  /\ pc \in [Req -> Phase]
  /\ want \in [Req -> Want \cup {NoWant}]
  /\ waiting \in [File -> Seq(Req)]
  /\ line \in [Limit -> Seq(Req)]
  /\ cached \subseteq File
  /\ dead \in [File -> Tag]
  /\ backoff \in [File -> [tag : Tag, until : Nat]]
  /\ strike \in [File -> Nat \cup {Never}]
  /\ unavailable \in [File \X Cred -> Nat]
  /\ paused \in [Limit -> Nat]
  /\ losses \in 0..MaxLosses
  /\ failed \in [File -> [first : Nat \cup {Never}, last : Nat \cup {Never}]]

NoFailure == [first |-> Never, last |-> Never]
NoBackoff == [tag |-> "none", until |-> 0]

\* The cache may hold sparse verdicts an earlier release stored as dead files.
Init ==
  /\ now = 0
  /\ pc = [r \in Req |-> "idle"]
  /\ want = [r \in Req |-> NoWant]
  /\ waiting = [f \in File |-> <<>>]
  /\ line = [l \in Limit |-> <<>>]
  /\ cached = {}
  /\ dead \in [File -> {"none", "sparse"}]
  /\ backoff = [f \in File |-> NoBackoff]
  /\ strike = [f \in File |-> Never]
  /\ unavailable = [fc \in File \X Cred |-> 0]
  /\ paused = [l \in Limit |-> 0]
  /\ losses = 0
  /\ failed = [f \in File |-> NoFailure]

Most(a, b) == IF a >= b THEN a ELSE b

-----------------------------------------------------------------------------
(* What is checked before a credit is spent *)

Paused(l) == paused[l] > now

\* download_paused
DownloadPaused(w) == Paused(w.cred) \/ Paused(Cdn)

\* remembered_failure: dead files, the backoff (which a caller who takes a
\* sparse body may pass when sparse is all it says), and this credential's own.
Remembered(w) ==
  \/ dead[w.file] \in {"gone", "suspect"}
  \/ /\ backoff[w.file].until > now
     /\ ~(w.allowSparse /\ backoff[w.file].tag = "sparse")
  \/ unavailable[<<w.file, w.cred>>] > now

\* ... and on the way it removes a dead marker an earlier release left for sparse.
Purged(f) == IF dead[f] = "sparse" THEN [dead EXCEPT ![f] = "none"] ELSE dead

Refused(w) == w.file \in cached \/ Remembered(w) \/ DownloadPaused(w)
PurgeUnlessCached(w) == dead' = IF w.file \in cached THEN dead ELSE Purged(w.file)

\* The request is over: flight, permit and place in a line go with it.
End(r) ==
  /\ pc' = [pc EXCEPT ![r] = "idle"]
  /\ want' = [want EXCEPT ![r] = NoWant]

-----------------------------------------------------------------------------
(* subtitle_srt.  A request answered before it waits is not seen, except for *)
(* the marker it removed.                                                    *)

Ask(r, w) ==
  /\ pc[r] = "idle"
  /\ ~Refused(w)
  /\ dead' = Purged(w.file)
  /\ pc' = [pc EXCEPT ![r] = "wantsFlight"]
  /\ want' = [want EXCEPT ![r] = w]
  /\ waiting' = [waiting EXCEPT ![w.file] = Append(@, r)]
  /\ UNCHANGED <<now, line, cached, backoff, strike, unavailable, paused, losses, failed>>

AskInVain(w) ==
  /\ Refused(w)
  /\ PurgeUnlessCached(w)
  /\ UNCHANGED <<now, pc, want, waiting, line, cached, backoff, strike, unavailable, paused,
                 losses, failed>>

\* Mutant: the flight guards the worker only, not its wait for a permit.
MutFlightGuardsWorker(f) ==
  {r \in Req : pc[r] \in {"admitted", "posted", "linked", "fetching"} /\ want[r].file = f}

InFlight(f) ==
  {r \in Req : pc[r] \in Phase \ {"idle", "wantsFlight"} /\ want[r].file = f}
NextInFlight(r) ==
  /\ pc[r] = "wantsFlight"
  /\ InFlight(want[r].file) = {}
  /\ waiting[want[r].file] # <<>> /\ Head(waiting[want[r].file]) = r

\* Mutant: nothing is checked again after the wait.
MutNoRecheck(r) ==
  /\ NextInFlight(r)
  /\ dead' = Purged(want[r].file)
  /\ pc' = [pc EXCEPT ![r] = "wantsPermit"]
  /\ waiting' = [waiting EXCEPT ![want[r].file] = Tail(@)]
  /\ line' = [line EXCEPT ![want[r].cred] = Append(@, r)]
  /\ UNCHANGED <<now, want, cached, backoff, strike, unavailable, paused, losses, failed>>

\* The checks again, after the wait; then the queue for the API window.
TakeFlight(r) ==
  /\ NextInFlight(r)
  /\ ~Refused(want[r])
  /\ dead' = Purged(want[r].file)
  /\ pc' = [pc EXCEPT ![r] = "wantsPermit"]
  /\ waiting' = [waiting EXCEPT ![want[r].file] = Tail(@)]
  /\ line' = [line EXCEPT ![want[r].cred] = Append(@, r)]
  /\ UNCHANGED <<now, want, cached, backoff, strike, unavailable, paused, losses, failed>>

\* Somebody settled it meanwhile: the flight is given back.
SettledMeanwhile(r) ==
  /\ NextInFlight(r)
  /\ Refused(want[r])
  /\ PurgeUnlessCached(want[r])
  /\ End(r)
  /\ waiting' = [waiting EXCEPT ![want[r].file] = Tail(@)]
  /\ UNCHANGED <<now, line, cached, backoff, strike, unavailable, paused, losses, failed>>

-----------------------------------------------------------------------------
(* admit_download *)

\* Mutant: whoever waits for a permit counts as holding one.
MutCountsWaiters(l) ==
  IF l = Cdn THEN {r \in Req : pc[r] \in {"linked", "fetching"}}
  ELSE {r \in Req : pc[r] \in Phase \ {"idle", "wantsFlight"} /\ want[r].cred = l}

\* The API permit is the worker's until its cache write; the CDN's lasts the fetch.
Permits(l) ==
  IF l = Cdn THEN {r \in Req : pc[r] = "fetching"}
  ELSE {r \in Req : pc[r] \in {"admitted", "posted", "linked", "fetching"} /\ want[r].cred = l}
HasRoom(l) == Cardinality(Permits(l)) < Window
Admissible(r, l) == line[l] # <<>> /\ Head(line[l]) = r /\ HasRoom(l)

\* A permit and no pause: the worker is spawned.  A pause sends the request away.
Admit(r) ==
  /\ pc[r] = "wantsPermit"
  /\ Admissible(r, want[r].cred)
  /\ IF DownloadPaused(want[r]) THEN End(r)
     ELSE pc' = [pc EXCEPT ![r] = "admitted"] /\ UNCHANGED want
  /\ line' = [line EXCEPT ![want[r].cred] = Tail(@)]
  /\ UNCHANGED <<now, waiting, cached, dead, backoff, strike, unavailable, paused, losses,
                 failed>>

\* Mutant: the worker is dropped with the connection that spawned it.
MutLeavesWorkerToo(r) ==
  /\ pc[r] # "idle"
  /\ End(r)
  /\ waiting' = [waiting EXCEPT ![want[r].file] = Remove(@, r)]
  /\ line' = [l \in Limit |-> Remove(line[l], r)]
  /\ UNCHANGED <<now, cached, dead, backoff, strike, unavailable, paused, losses, failed>>

\* The client disconnects.  Only a request that still waits notices: a worker
\* belongs to nobody's connection.
Leave(r) ==
  /\ \/ /\ pc[r] = "wantsFlight"
        /\ \E i \in 1..Len(waiting[want[r].file]) :
             /\ waiting[want[r].file][i] = r
             /\ waiting' = [waiting EXCEPT ![want[r].file] = RemoveAt(@, i)]
        /\ UNCHANGED line
     \/ /\ pc[r] = "wantsPermit"
        /\ \E i \in 1..Len(line[want[r].cred]) :
             /\ line[want[r].cred][i] = r
             /\ line' = [line EXCEPT ![want[r].cred] = RemoveAt(@, i)]
        /\ UNCHANGED waiting
  /\ End(r)
  /\ UNCHANGED <<now, cached, dead, backoff, strike, unavailable, paused, losses, failed>>

-----------------------------------------------------------------------------
(* download_admitted, in its worker *)

\* A sibling may have been refused between the spawn and the first poll.
Post(r) ==
  /\ pc[r] = "admitted"
  /\ IF DownloadPaused(want[r]) THEN End(r)
     ELSE pc' = [pc EXCEPT ![r] = "posted"] /\ UNCHANGED want
  /\ UNCHANGED <<now, waiting, line, cached, dead, backoff, strike, unavailable, paused,
                 losses, failed>>

\* When a marker set now lapses.
RetryAt == now + Retry

\* remember_failure, for an error that tells its kind.
Remember(w, kind) ==
  /\ dead' = CASE kind = "gone" -> [dead EXCEPT ![w.file] = "gone"]
               [] kind = "suspect" /\ strike[w.file] # Never /\ now - strike[w.file] >= Retry
                    -> [dead EXCEPT ![w.file] = "suspect"]
               [] OTHER -> dead
  /\ backoff' = IF kind \in {"suspect", "sparse"}
                THEN [backoff EXCEPT ![w.file] = [tag |-> kind, until |-> RetryAt]]
                ELSE backoff
  /\ strike' = IF kind = "suspect" /\ strike[w.file] = Never
               THEN [strike EXCEPT ![w.file] = now] ELSE strike
  /\ unavailable' = IF kind = "unavailable"
                    THEN [unavailable EXCEPT ![<<w.file, w.cred>>] = RetryAt]
                    ELSE unavailable

\* download_and_cache's Err arm: nothing is remembered of the file while any
\* limit of the credential is paused.  Flight and permit are dropped.
Fail(r, kind) ==
  /\ IF paused'[want[r].cred] > now \/ paused'[Cdn] > now
     THEN UNCHANGED <<dead, backoff, strike, unavailable>>
     ELSE Remember(want[r], kind)
  /\ End(r)
  /\ failed' = IF kind = "suspect"
               THEN [failed EXCEPT ![want[r].file] =
                       [first |-> IF @.first = Never THEN now ELSE @.first, last |-> now]]
               ELSE failed
  /\ UNCHANGED <<now, waiting, cached, losses>>

Pause(l) == \E w \in Waits : paused' = [paused EXCEPT ![l] = Most(@, now + w)]

\* A link, perhaps with the news that the window is used up.
PostAnswered(r) ==
  /\ pc[r] = "posted"
  /\ UNCHANGED paused \/ Pause(want[r].cred)
  /\ pc' = [pc EXCEPT ![r] = "linked"]
  /\ line' = [line EXCEPT ![Cdn] = Append(@, r)]
  /\ UNCHANGED <<now, want, waiting, cached, dead, backoff, strike, unavailable, losses, failed>>

\* 429, or 406 when the day's quota is spent.
PostThrottled(r) ==
  /\ pc[r] = "posted"
  /\ Pause(want[r].cred)
  /\ Fail(r, "unavailable")
  /\ UNCHANGED line

\* 404 and 410 name the file; anything else, and a transport error, the service.
PostFailed(r) ==
  /\ pc[r] = "posted"
  /\ UNCHANGED <<paused, line>>
  /\ \E kind \in {"gone", "unavailable"} : Fail(r, kind)

\* The CDN's window, and its pause once more.
Fetch(r) ==
  /\ pc[r] = "linked"
  /\ Admissible(r, Cdn)
  /\ ~Paused(Cdn)
  /\ pc' = [pc EXCEPT ![r] = "fetching"]
  /\ line' = [line EXCEPT ![Cdn] = Tail(@)]
  /\ UNCHANGED <<now, want, waiting, cached, dead, backoff, strike, unavailable, paused, losses,
                 failed>>

FetchHeldBack(r) ==
  /\ pc[r] = "linked"
  /\ Admissible(r, Cdn)
  /\ Paused(Cdn)
  /\ line' = [line EXCEPT ![Cdn] = Tail(@)]
  /\ UNCHANGED paused
  /\ Fail(r, "unavailable")

\* 429, 5xx, 408, 425.
FetchThrottled(r) ==
  /\ pc[r] = "fetching"
  /\ Pause(Cdn)
  /\ Fail(r, "unavailable")
  /\ UNCHANGED line

\* Another status or a body without a cue is suspect; a body cut short is the
\* service's; a sparse body only fails a caller who does not accept one.
FetchFailed(r) ==
  /\ pc[r] = "fetching"
  /\ UNCHANGED <<paused, line>>
  /\ \E kind \in {"suspect", "unavailable"} \cup IF want[r].allowSparse THEN {} ELSE {"sparse"} :
       Fail(r, kind)

\* Mutant: a success forgets the backoff but not the strike.
MutKeepsStrike(r) ==
  /\ pc[r] = "fetching"
  /\ End(r)
  /\ cached' = cached \cup {want[r].file}
  /\ backoff' = [backoff EXCEPT ![want[r].file] = NoBackoff]
  /\ failed' = [failed EXCEPT ![want[r].file] = NoFailure]
  /\ UNCHANGED <<now, waiting, line, dead, strike, unavailable, paused, losses>>

\* forget_failure: the suspicion goes, a conviction stays.
Forget(f) ==
  /\ backoff' = [backoff EXCEPT ![f] = NoBackoff]
  /\ strike' = [strike EXCEPT ![f] = Never]

\* A success forgets, then the body is put.
FetchAnswered(r) ==
  /\ pc[r] = "fetching"
  /\ End(r)
  /\ cached' = cached \cup {want[r].file}
  /\ Forget(want[r].file)
  /\ failed' = [failed EXCEPT ![want[r].file] = NoFailure]
  /\ UNCHANGED <<now, waiting, line, dead, unavailable, paused, losses>>

-----------------------------------------------------------------------------
(* The surroundings *)

\* A search with the same API key is refused: the API's limits are shared.
SearchThrottled(c) ==
  /\ Pause(c)
  /\ UNCHANGED <<now, pc, want, waiting, line, cached, dead, backoff, strike, unavailable,
                 losses, failed>>

\* The process restarts: bodies and dead files are on disk, the rest is gone.
Restart ==
  /\ losses < MaxLosses
  /\ losses' = losses + 1
  /\ pc' = [r \in Req |-> "idle"]
  /\ waiting' = [f \in File |-> <<>>]
  /\ line' = [l \in Limit |-> <<>>]
  /\ backoff' = [f \in File |-> NoBackoff]
  /\ strike' = [f \in File |-> Never]
  /\ unavailable' = [fc \in File \X Cred |-> 0]
  /\ paused' = [l \in Limit |-> 0]
  /\ want' = [r \in Req |-> NoWant]
  /\ UNCHANGED <<now, cached, dead, failed>>

\* An entry of the cache is evicted, or its days are over.
Lose(f) ==
  /\ losses < MaxLosses
  /\ losses' = losses + 1
  /\ \/ /\ cached' = cached \ {f}
        /\ UNCHANGED <<dead, backoff, strike>>
     \/ /\ dead' = [dead EXCEPT ![f] = "none"]
        /\ UNCHANGED <<cached, backoff, strike>>
     \/ /\ backoff' = [backoff EXCEPT ![f] = NoBackoff]
        /\ UNCHANGED <<cached, dead, strike>>
     \/ /\ strike' = [strike EXCEPT ![f] = Never]
        /\ UNCHANGED <<cached, dead, backoff>>
  /\ UNCHANGED <<now, pc, want, waiting, line, unavailable, paused, failed>>

Tick ==
  /\ now < MaxTime
  /\ now' = now + 1
  /\ UNCHANGED <<pc, want, waiting, line, cached, dead, backoff, strike, unavailable, paused,
                 losses, failed>>

-----------------------------------------------------------------------------
Next ==
  \/ \E r \in Req, w \in Asked : Ask(r, w)
  \/ \E w \in Asked : AskInVain(w)
  \/ \E r \in Req :
       \/ TakeFlight(r)
       \/ SettledMeanwhile(r)
       \/ Admit(r)
       \/ Leave(r)
       \/ Post(r)
       \/ PostAnswered(r)
       \/ PostThrottled(r)
       \/ PostFailed(r)
       \/ Fetch(r)
       \/ FetchHeldBack(r)
       \/ FetchThrottled(r)
       \/ FetchFailed(r)
       \/ FetchAnswered(r)
  \/ \E c \in Cred : SearchThrottled(c)
  \/ Restart
  \/ \E f \in File : Lose(f)
  \/ Tick

Spec == Init /\ [][Next]_vars

\* Woken tasks are polled, and the HTTP client's timeouts end both calls.
Fairness ==
  \A r \in Req :
    /\ WF_vars(TakeFlight(r) \/ SettledMeanwhile(r))
    /\ WF_vars(Admit(r))
    /\ WF_vars(Post(r))
    /\ WF_vars(PostAnswered(r) \/ PostThrottled(r) \/ PostFailed(r))
    /\ WF_vars(Fetch(r) \/ FetchHeldBack(r))
    /\ WF_vars(FetchThrottled(r) \/ FetchFailed(r) \/ FetchAnswered(r))

FairSpec == Spec /\ Fairness

-----------------------------------------------------------------------------
(* Properties *)

Spent(r) == pc[r] \in {"posted", "linked", "fetching"}

\* One paid download per file at a time: twenty picker URLs that carry the same
\* reference, whoever comes, leaves and fails, have one worker between them.
OneWorkerPerFile ==
  \A r, s \in Req :
    pc[r] \in Phase \ {"idle", "wantsFlight"} /\ pc[s] \in Phase \ {"idle", "wantsFlight"}
      /\ want[r].file = want[s].file => r = s

\* A credit is only spent on what is not known: when the POST leaves, however
\* long it queued, no body is cached, no failure that applies to this caller is
\* remembered, and nothing it needs is paused.
SpendsOnlyOnTheUnknown ==
  [][\A r \in Req : ~Spent(r) /\ Spent(r)' => ~Refused(want[r])]_vars

\* A credit is never spent without a trace: when the worker ends, the same
\* request is answered without spending another one at once, also if its client
\* left long ago.  Only a restart loses it.
SpendLeavesATrace ==
  [][\A r \in Req : Spent(r) /\ pc'[r] = "idle" =>
        \/ Restart
        \/ \E w \in {want[r]} : Refused(w)']_vars

\* A file is convicted by the API's own word, or by two failures on two
\* occasions with no success between: a file that was only ever sparse, or
\* works in between, never is ("Two failures on two OCCASIONS promote").
ConvictedOnTwoOccasions ==
  \A f \in File :
    dead[f] = "suspect" => failed[f].first # Never /\ failed[f].last - failed[f].first >= Retry

\* Every request is answered: a flight or a place that is waited for comes
\* free, whether the one before succeeded, failed, was paused or left.
EveryRequestAnswered == \A r \in Req : pc[r] # "idle" ~> pc[r] = "idle"

\* "Retrying immediately will not help either way, so it is remembered"
\* (DownloadError::Suspect): a suspect body stops requests for its file for the
\* backoff, whatever happens to the pauses of the credential meanwhile.
SuspectIsRemembered ==
  [][\A f \in File :
       failed'[f] # failed[f] /\ failed'[f] # NoFailure => backoff'[f].until > now]_vars
=============================================================================
