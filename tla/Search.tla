------------------------------- MODULE Search -------------------------------
(***************************************************************************)
(* The search half of the add-on: handle_subtitles and cached_search of    *)
(* addon.rs, the client's search (opensubtitles.rs), the ranking of its    *)
(* list, and the failure count /health reads (state.rs).                   *)
(*                                                                         *)
(* A list is cached for everyone, fresh for SearchTtl and kept Grace       *)
(* longer; one request per title searches at a time, in the order they     *)
(* came; a failure is remembered for FailTtl, for the install it happened  *)
(* to only.  Queueing is what InFlight promises: one holder per key, first *)
(* come first served, and a caller that leaves gives its place up.         *)
(***************************************************************************)
EXTENDS Integers, Sequences, FiniteSets, SequencesExt, FiniteSetsExt, Sorting

CONSTANTS Request,        \* the requests
          Install,        \* the installs they come from
          InstallOf(_),   \* the install of a request
          Playing(_),     \* the file a request says it is playing, a release name
          Pages,          \* the pages OpenSubtitles may answer one title with
          SearchTtl, Grace, FailTtl,  \* SEARCH_TTL, SEARCH_STALE_GRACE, SEARCH_FAIL_TTL
          HealthThreshold, \* HEALTH_FAIL_THRESHOLD
          MaxTime,        \* bound: ticks of the clock
          MaxLosses       \* bound: evictions and restarts

ASSUME SearchAssumption ==
    /\ {SearchTtl, Grace, FailTtl, HealthThreshold} \subseteq Nat \ {0}
    /\ {MaxTime, MaxLosses} \subseteq Nat
    /\ \A r \in Request : InstallOf(r) \in Install

(* A page lists files.  The hash match is said of a file: of one listed    *)
(* twice, twice the same.                                                  *)
Subtitle == [id : Nat, lang : Int, hash : BOOLEAN, machine : BOOLEAN, partial : BOOLEAN,
             quality : Nat, release : [tokens : SUBSET STRING, group : STRING], files : Nat]

ASSUME PagesAssumption ==
    \A page \in Pages :
        /\ page \in Seq(Subtitle)
        /\ \A i \in DOMAIN page : IsFiniteSet(page[i].release.tokens)
        /\ \A i, j \in DOMAIN page : page[i].id = page[j].id => page[i].hash = page[j].hash

VARIABLES now,
          entry,     \* the cached list of the title, with the end of its freshness
          marked,    \* install -> until when its failure is remembered (0: not)
          flight,    \* who holds, and who waits for, the title's flight
          at,        \* where each request is
          stale,     \* the out-of-date list a request has seen
          answer,    \* what a request was answered with
          fails,     \* AppState.os_fails
          dead,      \* files convicted as gone (dead_file_key)
          losses,
          failedAt   \* history: when an install's own search last failed

vars == <<now, entry, marked, flight, at, stale, answer, fails, dead, losses, failedAt>>

Never == -1
Nothing == [subs |-> <<>>, freshUntil |-> Never]
NoAnswer == [how |-> "none", subs |-> <<>>]

-----------------------------------------------------------------------------
(* Release names: the tokens of one, in lower case, and its group, the     *)
(* single token after the last dash, if there is one.                      *)
NoGroup == "no group"
Named(tokens, group) == [tokens |-> tokens, group |-> group]
NoFile == Named({}, NoGroup)

Weight(token) ==
    CASE token \in {"2160p", "1080p", "720p", "480p"} -> 800
      [] token \in {"bluray", "blu", "bdrip", "brrip", "remux"} -> 600
      [] token \in {"web", "webrip", "webdl", "hdtv", "dvdrip", "hdrip"} -> 500
      [] token \in {"x264", "x265", "h264", "h265", "hevc", "avc"} -> 200
      [] OTHER -> 0

ReleaseFit(file, release) ==
    SumFunction([token \in file.tokens \cap release.tokens |-> Weight(token)])
        + (IF file.group = release.group /\ file.group # NoGroup THEN 3000 ELSE 0)

(* Made for a release whose soundtrack was replaced: it captions only what *)
(* the dub leaves.                                                         *)
LooksDubbed(release) == release.tokens \cap {"dubbed", "dub"} # {}

(* Ranking.  A subtitle's `quality` is the sum of its trust, rating and    *)
(* download terms, which stays below 2200; the other terms decide.         *)
TextScore(sub) ==
    sub.quality - (IF sub.machine THEN 2000000 ELSE 0)
                - (IF sub.partial \/ LooksDubbed(sub.release) THEN 1500000 ELSE 0)

FitScore(sub, file) ==
    TextScore(sub) + (IF sub.hash THEN 1000000 ELSE 0)
                   + ReleaseFit(file, sub.release)

(* rank: by language, and best fit first within one.  The sort is stable,  *)
(* so it is a sort by fit and then a sort of that by language.             *)
Rank(subs, file) ==
    LET fit == Sorted([i \in DOMAIN subs |-> -FitScore(subs[i], file)])
        lang == Sorted([p \in DOMAIN fit |-> subs[fit[p]].lang])
    IN  [p \in DOMAIN lang |-> subs[fit[lang[p]]]]

(* The one of the best score; of several, the one with the lowest file id. *)
Best(subs, score) ==
    CHOOSE a \in subs : \A b \in subs :
        score[a] > score[b] \/ (score[a] = score[b] /\ a.id <= b.id)

NoId == 0

(* The Tier-1 anchor, and the reference one subtitle is aligned to.        *)
Tier1Reference(subs) ==
    LET matched == {s \in ToSet(subs) : s.hash}
        score == [s \in matched |-> FitScore(s, NoFile)]
    IN  IF matched = {} THEN NoId ELSE Best(matched, score).id

Tier1RefFor(sub, reference) ==
    IF sub.hash \/ reference = sub.id THEN NoId ELSE reference

(* Mutant: of several equally good ones, the first in the list.            *)
MutTranslationSource(subs) ==
    IF subs = <<>> THEN NoId
    ELSE LET best == CHOOSE i \in DOMAIN subs :
                 /\ \A j \in DOMAIN subs : TextScore(subs[i]) >= TextScore(subs[j])
                 /\ \A j \in 1..(i - 1) : TextScore(subs[i]) > TextScore(subs[j])
         IN  subs[best].id

English == 1

(* The subtitle a translation reads from, judged as text.                  *)
TranslationSource(subs) ==
    LET score == [s \in ToSet(subs) |-> TextScore(s) + (IF s.lang = English THEN 10000 ELSE 0)]
    IN  IF subs = <<>> THEN NoId ELSE Best(ToSet(subs), score).id

(* A release in several files cannot be served whole, and is not offered.  *)
ParseSearch(page) == Filtered(page, {i \in DOMAIN page : page[i].files = 1})
Lists == {ParseSearch(page) : page \in Pages}

-----------------------------------------------------------------------------
Init ==
    /\ now = 0
    /\ entry = Nothing
    /\ marked = [i \in Install |-> 0]
    /\ flight = <<>>
    /\ at = [r \in Request |-> "new"]
    /\ stale = [r \in Request |-> Nothing]
    /\ answer = [r \in Request |-> NoAnswer]
    /\ fails = 0 /\ dead = {} /\ losses = 0
    /\ failedAt = [i \in Install |-> Never]

(* read_search: the entry leaves the cache Grace after it stops being      *)
(* fresh.                                                                  *)
Present == entry # Nothing /\ now < entry.freshUntil + Grace
Fresh   == Present /\ now < entry.freshUntil

Seen(r) == IF Present THEN entry ELSE stale[r]

(* The handler's answer: the live candidates of the list.                  *)
Candidates(subs, how) ==
    [how |-> how, subs |-> Filtered(subs, {i \in DOMAIN subs : subs[i].id \notin dead})]

(* What the client is offered: they are ranked for what is playing, each   *)
(* with the reference it is to be aligned to.                              *)
Offer(r) ==
    LET ranked == Rank(answer[r].subs, Playing(r))
        anchor == Tier1Reference(ranked)
    IN  [subs |-> ranked,
         refs |-> [i \in DOMAIN ranked |-> Tier1RefFor(ranked[i], anchor)]]

Failure == [how |-> "error", subs |-> <<>>]

Finish(r, with) ==
    /\ at' = [at EXCEPT ![r] = "done"]
    /\ answer' = [answer EXCEPT ![r] = with]
    /\ stale' = [stale EXCEPT ![r] = Nothing]

(* The guard of the flight goes, held or waited for.                       *)
LeaveFlight(r) ==
    \E i \in DOMAIN flight : flight[i] = r /\ flight' = RemoveAt(flight, i)

-----------------------------------------------------------------------------
(* A request: a fresh list is the answer; otherwise the request takes its  *)
(* place in the flight, with what it has seen.                             *)
Ask(r) ==
    /\ at[r] = "new"
    /\ IF Fresh
         THEN Finish(r, Candidates(entry.subs, "cached")) /\ UNCHANGED flight
         ELSE /\ at' = [at EXCEPT ![r] = "waiting"]
              /\ flight' = Append(flight, r)
              /\ stale' = [stale EXCEPT ![r] = Seen(r)]
              /\ UNCHANGED answer
    /\ UNCHANGED <<now, entry, marked, fails, dead, losses, failedAt>>

(* The answer of a request whose search failed, now or a moment ago.       *)
Denied(seen) ==
    IF seen = Nothing THEN Failure ELSE Candidates(seen.subs, "stale")

(* Mutant: the list is not looked at again once the flight is held.        *)
MutBoardOnce(r) ==
    /\ at[r] = "waiting" /\ Head(flight) = r
    /\ \/ /\ now < marked[InstallOf(r)]
          /\ Finish(r, Denied(stale[r]))
          /\ LeaveFlight(r)
       \/ /\ now >= marked[InstallOf(r)]
          /\ at' = [at EXCEPT ![r] = "searching"]
          /\ UNCHANGED <<answer, flight, stale>>
    /\ UNCHANGED <<now, entry, marked, fails, dead, losses, failedAt>>

(* Mutant: the failure marker is shared like the list.                     *)
MutBoardShared(r) ==
    /\ at[r] = "waiting" /\ Head(flight) = r
    /\ \/ /\ Fresh
          /\ Finish(r, Candidates(entry.subs, "live"))
          /\ LeaveFlight(r)
       \/ /\ ~Fresh /\ \E i \in Install : now < marked[i]
          /\ Finish(r, Denied(Seen(r)))
          /\ LeaveFlight(r)
       \/ /\ ~Fresh /\ \A i \in Install : now >= marked[i]
          /\ at' = [at EXCEPT ![r] = "searching"]
          /\ stale' = [stale EXCEPT ![r] = Seen(r)]
          /\ UNCHANGED <<answer, flight>>
    /\ UNCHANGED <<now, entry, marked, fails, dead, losses, failedAt>>

(* Mutant: a request holding the flight sits the failure marker out.       *)
MutBoardSitsOut(r) ==
    /\ at[r] = "waiting" /\ Head(flight) = r
    /\ \/ /\ Fresh
          /\ Finish(r, Candidates(entry.subs, "live"))
          /\ LeaveFlight(r)
       \/ /\ ~Fresh /\ now >= marked[InstallOf(r)]
          /\ at' = [at EXCEPT ![r] = "searching"]
          /\ stale' = [stale EXCEPT ![r] = Seen(r)]
          /\ UNCHANGED <<answer, flight>>
    /\ UNCHANGED <<now, entry, marked, fails, dead, losses, failedAt>>

(* In flight: the list may have come while the request waited; its         *)
(* install's search may have failed a moment ago; or it searches.          *)
Board(r) ==
    /\ at[r] = "waiting" /\ Head(flight) = r
    /\ \/ /\ Fresh
          /\ Finish(r, Candidates(entry.subs, "live"))
          /\ LeaveFlight(r)
       \/ /\ ~Fresh /\ now < marked[InstallOf(r)]
          /\ Finish(r, Denied(Seen(r)))
          /\ LeaveFlight(r)
       \/ /\ ~Fresh /\ now >= marked[InstallOf(r)]
          /\ at' = [at EXCEPT ![r] = "searching"]
          /\ stale' = [stale EXCEPT ![r] = Seen(r)]
          /\ UNCHANGED <<answer, flight>>
    /\ UNCHANGED <<now, entry, marked, fails, dead, losses, failedAt>>

(* AppState.search_succeeded, search_failed: what /health goes by.         *)
SearchSucceeded == fails' = 0
SearchFailed    == fails' = fails + 1

Health == IF fails >= HealthThreshold THEN "degraded" ELSE "ok"

Found(r) ==
    /\ at[r] = "searching"
    /\ \E list \in Lists :
          /\ Finish(r, Candidates(list, "live"))
          /\ entry' = [subs |-> list, freshUntil |-> now + SearchTtl]
    /\ SearchSucceeded
    /\ LeaveFlight(r)
    /\ UNCHANGED <<now, marked, dead, losses, failedAt>>

(* Refused, rate limited, paused, timed out or unreadable.                 *)
Failed(r) ==
    /\ at[r] = "searching"
    /\ SearchFailed
    /\ marked' = [marked EXCEPT ![InstallOf(r)] = now + FailTtl]
    /\ failedAt' = [failedAt EXCEPT ![InstallOf(r)] = now]
    /\ Finish(r, Denied(stale[r]))
    /\ LeaveFlight(r)
    /\ UNCHANGED <<now, entry, dead, losses>>

(* The client hangs up.                                                    *)
HangUp(r) ==
    /\ at[r] \in {"waiting", "searching"}
    /\ at' = [at EXCEPT ![r] = "gone"]
    /\ stale' = [stale EXCEPT ![r] = Nothing]
    /\ LeaveFlight(r)
    /\ UNCHANGED <<now, entry, marked, answer, fails, dead, losses, failedAt>>

-----------------------------------------------------------------------------
(* A download convicts a file (Download).                                  *)
Convict ==
    /\ dead = {}
    /\ \E list \in Lists : \E s \in ToSet(list) : dead' = {s.id}
    /\ UNCHANGED <<now, entry, marked, flight, at, stale, answer, fails, losses, failedAt>>

Tick ==
    /\ now < MaxTime
    /\ now' = now + 1
    /\ UNCHANGED <<entry, marked, flight, at, stale, answer, fails, dead, losses, failedAt>>

(* The cache evicts the list, or a marker, which lives in memory only.     *)
Evict ==
    /\ losses < MaxLosses
    /\ losses' = losses + 1
    /\ \/ entry' = Nothing /\ UNCHANGED <<marked, failedAt>>
       \/ \E i \in Install :
             /\ marked' = [marked EXCEPT ![i] = 0]
             /\ failedAt' = [failedAt EXCEPT ![i] = Never]
             /\ UNCHANGED entry
    /\ UNCHANGED <<now, flight, at, stale, answer, fails, dead>>

Step(r) == Board(r) \/ Found(r) \/ Failed(r)

Next ==
    \/ \E r \in Request : Ask(r) \/ Step(r) \/ HangUp(r)
    \/ Convict \/ Tick \/ Evict

Spec == Init /\ [][Next]_vars

(* The request at the head of the flight runs, the only one that can, and  *)
(* a search has a timeout.                                                 *)
FairSpec == Spec /\ WF_vars(\E r \in Request : Step(r))

-----------------------------------------------------------------------------
Answered(r) == at[r] = "done" /\ answer[r].how # "error"

(* Types: the flight holds each of the requests in it once, and nothing    *)
(* else.                                                                   *)
TypeOK ==
    /\ now \in 0..MaxTime /\ losses \in 0..MaxLosses
    /\ fails \in Nat
    /\ marked \in [Install -> 0..MaxTime + FailTtl] /\ failedAt \in [Install -> Never..MaxTime]
    /\ at \in [Request -> {"new", "waiting", "searching", "done", "gone"}]
    /\ flight \in Seq(Request) /\ IsInjective(flight)
    /\ ToSet(flight) = {r \in Request : at[r] \in {"waiting", "searching"}}

(* One title has one list at a time: a list is never replaced by another   *)
(* page while it is fresh, so requests that meet on a cold title are all   *)
(* answered from the same search, and none of them pays for a second.      *)
NoFreshListReplaced ==
    [][\A r \in Request :
          /\ at[r] # "searching" /\ at'[r] = "searching" => ~Fresh
          /\ entry' # entry /\ entry' # Nothing => ~Fresh]_vars

(* A failure stays with the install it happened to.  Nobody is refused, or *)
(* handed an old list, unless a search of his own install has failed       *)
(* within FailTtl; and inside that time the install does not search again, *)
(* however many of its requests were already waiting.                      *)
Failing(i, t) == failedAt[i] # Never /\ t < failedAt[i] + FailTtl

FailureStaysWithTheInstall ==
    [][\A r \in Request :
          /\ at'[r] = "done" /\ at[r] # "done" /\ answer'[r].how \in {"stale", "error"}
                => Failing(InstallOf(r), now)'
          /\ at[r] # "searching" /\ at'[r] = "searching"
                => ~Failing(InstallOf(r), now)]_vars

(* Whatever order OpenSubtitles lists a title's files in, and whatever is  *)
(* playing, two requests offered the same files are told to align them to   *)
(* the same reference, and would translate the same source: neither names  *)
(* an alignment or a download the other would pay for again.               *)
PicksIgnoreOrder ==
    \A r, q \in Request :
        Answered(r) /\ Answered(q) /\ ToSet(answer[r].subs) = ToSet(answer[q].subs)
            => LET a == Offer(r) b == Offer(q)
               IN  /\ TranslationSource(answer[r].subs) = TranslationSource(answer[q].subs)
                   /\ \A i \in DOMAIN a.subs, j \in DOMAIN b.subs :
                         a.subs[i].id = b.subs[j].id => a.refs[i] = b.refs[j]

(* Every request that waits is answered or gives up, whatever the others   *)
(* of its title do, fail at or abandon.                                    *)
EveryRequestAnswered == \A r \in Request : at[r] = "waiting" ~> at[r] \in {"done", "gone"}
=============================================================================
