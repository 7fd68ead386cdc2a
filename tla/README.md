# den-subtitles in TLA+

`den-subtitles` is a subtitle addon: it searches OpenSubtitles, downloads files
with a metered credit each, aligns them to the stream a viewer plays, and has a
language model translate them on the viewer's own provider key. Almost
everything it can get wrong is about *spending twice*, *spending on what is
already known to fail*, *serving a stand-in as the answer*, or *making the wrong
party wait*: the modules here model those parts, and the text handling they depend
on (the SRT reader, the reading of a provider's reply, the sampling of an audio
track). Charsets, HTML and network policy are left alone.

The program runs on a single-threaded tokio runtime (`main.rs:539`). Code between
two `await`s is therefore atomic, except towards the hourly cache sweep, which
runs on a blocking thread (`main.rs:401`). Handlers are futures: when a client
disconnects, its handler is dropped at whatever `await` it has reached. A step of
the models is a piece of code between two `await`s; `InFlight` is finer.

## Inventory

| Component | State | Operations | Interacts with | What is hard | What makes it correct |
|---|---|---|---|---|---|
| Single-flight, `inflight.rs` | map key → `Arc<AsyncMutex>` | `acquire`, `Guard::drop`, cancellation | every handler that produces a cache entry | reference counts decide removal while tasks come, wait and give up | one producer per key; no key forgotten while needed; no orphans but those of cancelled waiters; everyone served |
| Progress, `inflight.rs` | map job → (done, total) | `start`, `set`, `Reporter::drop`, `.status` reads | translation runs | shared by runs of one job; runs of two jobs share one flight | a finished run's progress is gone |
| Rate-limit memory, `ratelimit.rs` | pauses (until, strikes, generation), weak semaphores | `acquire`, `remaining`, `begin`, `limited`, `hold`, `answered` | search, download (API, quota, CDN), translation batches | answers out of order; stale checks; bounded table; re-created semaphores | nobody calls while refused; window per credential; a refusal silences for an hour at most, a spent quota stops downloads for a day at most; bounded tables |
| Sync admission, `state.rs` | three semaphores, per-tier counters | `reserve`, `acquire`, `finish`, drops | `handle_subtitle_file`, `sync_and_cache` | two weights over one budget; two-stage admission; counters on every exit | budget kept, no tier starves, each reservation counted once |
| Metered download, `addon.rs`, `opensubtitles.rs` | body cache, dead/backoff/strike/unavailable markers | `subtitle_srt`, `download_and_cache`, `admit_download`, `download_admitted` | single-flight, rate limits, cache; called by serving, reference fetch and translation | checks before several waits; detached worker; two-occasion verdict; restart | a credit only for the unknown, never without a trace, one worker per file |
| Translation request, `addon.rs` | body, source pin, per-install markers, allowance counters | `handle_translate`, `produce_translation`, charge/refund | single-flight, download, harness | minutes-long runs, hang-ups, midnight, shared pin, per-install and shared keys mixed | one bill per body; the allowance covers what was bought |
| Translation harness, `translate.rs` | budget, context, batch store | `run_translation`, `translate_batch`, `call_with_retries` | rate limits, cache as batch store | overlapping batches, splitting, resume, early verdict | cues come back one for one; nothing bought twice; a verdict is final |
| Sync ladder, `addon.rs` | aligned bodies, shared and per-credential failure markers | `handle_subtitle_file`, `sync_and_cache` | single-flight, admission, download, aligners | stand-in bodies must not be cached as answers; failure scope | key never holds an unaligned body; one failing credential does not hold others |
| Refusal scope, `addon.rs` | credential, series and ambiguous-refusal markers | `refusal_scope`, `ambiguous_refusal_escalates` | translation request | sequences of refusals over titles | one film never blocks an install |
| Search and health, `addon.rs`, `opensubtitles.rs`, `state.rs` | search entries, failure marks, failure counter | `handle_subtitles`, `cached_search`, ranking, `search_failed`, `search_succeeded` | single-flight, cache, `/health` | requests of several installs on one title; lists in any order | one search per list; a failure stays with its install; the same picks for everyone |
| Cache, `cache.rs` | LRU memory tier, disk tier | `get`, `put`, `get_mem`, `remove`, `sweep` | everything | sweep on another thread; kill between write and rename; budgets | complete entries only; bounds; cheapest lost first |
| Aligners, `sync.rs` | scratch files under a run's tag, `SYNC_SEQ` | `sync_to_reference`, `sync_to_audio`, `sweep_scratch` | sync ladder | budgets of nested stages, dropped runs, a sweep on another thread, partial audio | a run leaves nothing, keeps its deadline, returns its own text, shifts only on agreement |
| Relay, `resync.rs` | open relay | loopback HTTP with deadlines | aligners | what may be fetched, and how much | network policy |
| SRT codec, `srt.rs` | none | `parse`, `has_a_cue`, `serialize`, `stats` | download, harness, serving | malformed documents, two readers of one format | the readers agree; a body reads back as it was written |
| Service loop, `main.rs` | open connections | accept, drain on SIGTERM | everything | detached workers at shutdown | bounded drain |
| fetch, httputil, userconfig, seal, config, logging, metrics, configure.html, scripts | none that matters | formatting, parsing, crypto, pages | | | |

The hazards list of `PROJECT.json` names, at its line, what in this code is hard to
test, and which property would catch it.

## Modules

| Module | Models | Composition |
|---|---|---|
| `KeyedMutex` | abstract: a mutex per key that callers may give up waiting for | specification of `InFlight` |
| `InFlight` | `inflight.rs`, the map of locks | implements `KeyedMutex` (`ImplementsKeyedMutex`) |
| `Pauses` | `ratelimit.rs` and its callers' protocol | |
| `SyncAdmission` | `SyncAdmission` of `state.rs` and its callers' protocol | |
| `Download` | `subtitle_srt` and everything below it | uses what `InFlight` and `Pauses` promise: FIFO mutex, FIFO window, pause deadline |
| `Translation` | `handle_translate`, `produce_translation` | uses what `InFlight` promises; a download is an outcome |
| `ForgetfulMap` | abstract: a map that may forget | specification of `Cache` |
| `Cache` | `cache.rs`: both tiers, the sweep, kills, refused writes | implements `ForgetfulMap` (`ImplementsForgetfulMap`) |
| `SyncServe` | `handle_subtitle_file`, `sync_and_cache`, the aligned end of `handle_translate` | uses what `InFlight`, `SyncAdmission`, `Download` and `Translation` promise |
| `Srt` | `parse`, `has_a_cue`, `serialize` of `srt.rs` as operators | |
| `Reply` | what a provider's response comes to: `parse_json_array`, the status table | extends `Srt` (the lines of a reply are dialogue) |
| `Harness` | `run_translation` and below, over the runs of one body; progress and `.status` | extends `Reply` |
| `Search` | `handle_subtitles`, `cached_search`, ranking and picks, `/health` | uses what `InFlight` promises |
| `Refusals` | `refusal_scope`, `ambiguous_refusal_escalates` and the markers | a run is an outcome of `Translation` |
| `Sorting` | what the program's sorts and filters do, as operators the prover can unfold | used by `Search` and `AudioSample` |
| `AudioSample` | the choice of probes, the reading of an alignment, the consensus | extends `Sorting` |
| `Aligner` | both tiers of `sync.rs` with files, budgets, sweep, hang-ups, restarts | extends `AudioSample` |
| `FoldTheorems` | induction without predicates, recursive functions over numbers, what sums over functions and sets are worth, and what sorting, filtering and flattening give | used by the proofs that count, fold or sort |
| `Cache_proofs`, `Download_proofs`, `Pauses_proofs` | theorems about the module each names | |
| `Search_proofs` | theorems about `InFlight` and `Search` | |
| `Sync_proofs` | theorems about `SyncAdmission` and `Aligner` | |
| `Translation_proofs` | theorems about `Translation` and `Refusals` | |
| `Serving_proofs` | theorems about `SyncServe`, `Srt` and `Harness` | |
| `MC*` | instances for TLC | |

Correspondence, in short:

* **`InFlight`**: `keys` is the map, `arc[t]` the clone a task holds, `permit` and
  `queue` the async mutex. `acquire` is `Arrive` (map lock: sweep, find or insert,
  clone), `Enqueue`, `Take`; `Drop for Guard` is `DropGuard` (count and remove under
  the map lock), then the fields drop (`ReleasePermit`). `Cancel` is a dropped
  future. `StrongCount` counts the map's copy and one per task.
* **`Pauses`**: `pause[k]` is the entry of the table of refusals (`Limits::api`, `cdn`),
  `quota[k]` that of the table of spent quotas (`Limits::downloads`), in which a download
  looks too (`Paused`) and which only a 406 writes (`QuotaSpent`); `hold` caps nothing
  (`Hold`), its callers do: an hour for what a header names (`Capped`), a day for a quota
  (`QuotaWait`). `sequence` is the revision counter,
  `window[k]` the weak pointer, `sem[c]` the `Arc` a call keeps; `line` is the
  semaphore's FIFO queue. A call is `Acquire`, `Admit`, the re-check (`HeldBack` or
  `Dispatch`, which notes the revision), and one of the responses. `told` and `spent` are
  history variables: what the service really said of either. Taking a credential for a
  key with its user gives each quota the window of its user; the code's windows are the
  key's, which only narrows what may be under way.
* **`SyncAdmission`**: `places` and `memory` are the semaphores' queues. `SyncPermit`
  drops its fields in order, reservation first: `DropPermit`, then `ReleaseMemory`.
  Counters wrap at `Wrap` (2^64 in the code). `lost` is a history variable.
* **`Download`**: one request is `Ask` (checks, then the queue for the flight),
  `TakeFlight` or `SettledMeanwhile` (the checks again), `Admit` (permit, then the
  pauses), `Post` (the worker's first poll), the two HTTP exchanges, and the end
  (`Fail`, `FetchAnswered`). The worker is detached: `Leave` only exists before it.
  The verdict "sparse" (`srt.rs:276`, and the cue record of an episode's siblings) is
  a free choice. `failed` is a history variable.
* **`Translation`**: `Ask` reads body, marker and pin; after the flight `Declined`
  reads again; the source comes from the pin (`UsePin`) or a search (`Pick`); `Begin`
  charges; `Send`, `Answered` and `Refused` are the calls of the run; `RunSucceeds`,
  `RunFails` and `HangUp` end it. That a source is too large is found by its
  download, of any source. `bought` is a history variable.
* **`Cache`**: `mem`, `recent` and `bytes` are the memory tier; `file[n]` is what the
  name `n` holds, a scratch name or the key's own. `put` is `BeginPut` (write the
  scratch file), `Rename`, and the memory tier (`PutStored`; `PutUnstored` when the
  disk refused); a read is `MemHit`, `ReadBack` or `Miss`. The sweep is `StartSweep`,
  `Inspect` and `Unlink` of each name, `StartEviction`, `Evict`, `EndSweep`, each a
  file operation of a thread of its own. `Kill` comes between any two of these. A tick
  is the interval between sweeps. `last` and `tainted` are history variables.
* **`SyncServe`**: `store` holds what is made under a key, `shared` and `mine` the two
  failure markers, `waiting` the flights' queues, `places` the tiers'. `ServeHit` is
  the reply without a flight, `Ask` the queueing, `TakeFlight` and `SettledMeanwhile`
  the checks after it, `TakePlace`, `GotBody`, `Prepared` (reference or relay) and
  `Aligned` the ladder, and the others the ways off it. `reply` is the reply of the
  last step, `cause` a history variable: whom a failure concerned.
* **`Srt`**, **`Reply`**: a document is a sequence of lines, a reply one of tokens; the
  code's line and bracket scans are folds over them, or recursive functions of how far
  they have come.
* **`Harness`**: `batches` holds those in flight, each with its stack of segments
  (`translate_batch`); `Replay`, `Dispatch`, `Call`, `Answered`, `WrongShape` (halves),
  `Retry`, `Refused` and `OutOfTime` are the steps of one, `Surface` takes a finished
  batch in order, with the early verdict. `Start`, `HangUp`, `Restart` and `Forget`
  surround the runs; `batchStore` is what survives them. `owned` is a history variable:
  what was answered in full.
* **`Search`**: `entry` is the cached list, `marked` the failure marks, `flight` the
  queue. `Ask`, `Board` (under the flight), `Found`, `Failed`, `HangUp` are
  `cached_search`; `Candidates`, `Offer`, `TranslationSource`, `Tier1Reference` what is
  made of a list. `failedAt` is a history variable.
* **`Refusals`**: `Start`, `Bill`, `Succeed`, `Refuse`, `HangUp` are a run as this code
  sees it; `RefusalScope` and `Remember` decide and write. `KeyDies` and `filtered` are
  the world, `refusedAt` a history variable.
* **`Aligner`**: `run[r]` is a run's stage and budget, `scratch` the directory, whose
  files carry by whom and how long ago they were written. Each spawn of a binary and
  each return from it is an action; `Condemn` and `Unlink` are the sweep.

## Runs

| Run | Bounds | Shows |
|---|---|---|
| `inflight` | 2 keys, 3 tasks, 3 locks | mutual exclusion, tracking, orphans (`MapIsSound`), refinement of `KeyedMutex`, every caller served. Three tasks are a holder, a waiter and a newcomer or a cancelled waiter, the situations of the comments in `Guard::drop`; two keys make the sweep of one key's arrival meet the other's entry. |
| `pauses` | 2 credentials, 3 calls of which 2 are downloads, window 2, tables of 1, clock 0..3, 2 refusals | refusals and spent quotas honoured and remembered, window, caps, tables. Three calls: two in flight and one queued; a table of one makes every second entry evict; waits of 1 and 3 are below and above the cap of 2 on a refusal, resets of 1 and 4 below and above the cap of 3 on a quota. |
| `sync_admission` | 3 jobs, 2 + 1 places, weights 1 and 2, 3 units, counters modulo 2 | budget, head-of-line, bounds, counters, no starvation. The weights and the units are the code's; 2 and 1 places are full with 3 jobs. |
| `download` | 2 requests, each for any of 2 files of 2 credentials, window 1, retry after 1, clock 0..1, 1 loss or restart | one worker, spending, traces, two occasions, every request answered. Two requests meet in one flight, or in the CDN's window and pause, where a fetch is held back by what the other met; a tick ends a backoff, so conviction is reachable with and without a success between. |
| `download_suspect` | 1 request, 2 files, retry after 2, clock 0..2 | a sentence of the comments that the code does not keep, see below |
| `translation` | 2 requests of 1 install, 2 languages, a slot a day, 2 days, 2 calls at once | one run per body, what was bought is charged, nothing bought that is known or not allowed, every request answered. Two languages compete for the last slot of a day and the refund of one may fall on the next. |
| `cache` | 2 stored keys and 1 memory-only, values of 1 and 2 bytes, budgets of 2, one scratch number, clock 0..1, 1 fault | refinement of `ForgetfulMap`, the byte count, the sweep. Every put of the larger value evicts; a fault is a kill, a refused write or a refused unlink. |
| `serve` | 2 requests, 2 credentials, 6 wishes, 1 place a tier, 1 loss | what is called settled, whose failure backs whom off, work only on the open, every request answered. The wishes are a file without and with tier 1, by either credential, and a text with the anchor known, unknown, or its audio asked for. |
| `harness` | 156 documents, batches of 2 cues, 2 at once, 2 attempts, 2 runs, 1 loss | replies and documents are read one way; cues one for one; nothing bought twice; calls past the deadline; the verdict; the poller. The film has three cues in two batches, with the oddities real documents have; the others are every document of up to three lines. A provider may write remarks, cut replies short, refuse, slip blank lines into a text, or say a cue's own text back, as it is or with its blank lines elsewhere. |
| `search` | 3 requests of 2 installs, 5 files in 2 orders, clock 0..3, 1 loss | one search per list, failures stay home, the picks ignore the order, every request answered. The clock passes from fresh over grace to gone; the files tie in score. |
| `refusals` | 4 episodes and 2 films, 2 runs at once, retry after 2, clock 0..2, 1 restart | how widely a refusal is remembered, and how many a dead key collects. Escalation takes three titles, so four episodes leave one to be wrongly blocked; the films are other series, and there are two because the refusals that beat the last marker need a series of their own each. |
| `aligner` | a run of each tier, 2 runs of 2 processes, 2 films, 4 findings, budgets in ticks | files, deadlines (each tier's own), whose text, which shift. One film has three sampled stretches, the other too few cues; alass may find no move, one beyond the limit, two that differ, or one that takes the first half before the start, where it is held at zero and tells nothing, and the rest elsewhere: too few cues of a probe, enough of several stretches, to contradict what another alignment found. |

`MaxTime`, `MaxRefusals`, `MaxLosses`, `MaxFaults`, `MaxRuns`, `MaxRestarts` and
`MaxDay` bound what would grow for ever; each is a guard of the action it bounds.
`MaxCandidates` is how many bracketed spans each pass over a reply tries: 64 in the code, 2
in the run, so that a remark may use up all tries but the one the array needs. A remark that
closes as many brackets as are tried may hide the array after it, so `RepliesAreRead`, which
is proved for any bound, asks for fewer (`Remark`).
Symmetry is only used in runs without liveness. Deadlock is not checked where the
world may run out: the bounded runs of `harness`, the requests of `search`, which ask
once, and the clock of `refusals`. Every property of a passing run
has a mutant: an operator `Mut...`, next to the definition it replaces, with a bug one
could have written there.

### Fairness

Weak fairness of the steps the runtime or a deadline guarantees, never of a
client's arrival or departure. The runtime polls woken tasks (`Take`, `Admit`,
`TakeFlight`, `Post`, `Surface`); tokio's mutex and semaphores are FIFO and are modelled
with their queues; HTTP calls have the client's timeout, alignments their deadlines in
`sync.rs`, translation runs `RUN_DEADLINE` (`translate.rs:481`). A guard is released
because its owner's job is bounded so. `SyncServe` takes the answer of `subtitle_srt`
for granted, which is what `EveryRequestAnswered` of `Download` says.

### Disagreements between the code and its comments

1. **A suspect body may not be remembered** (run `download_suspect`). When a worker
   ends, `download_and_cache` skips `remember_failure` if the credential is paused *by
   anyone* (`addon.rs:1420`). If the POST succeeded and said that the window is used
   up, and the CDN then hands out a page without a cue, neither backoff nor strike
   is written, and the file is bought again when the pause ends.
   `opensubtitles.rs:426` says such a failure "is remembered".

Met while modelling, without a run:

* **An echo may be served as a translation.** `dead_count` (`translate.rs:204`) compares
  what was said with its source after trimming both ends. An echo that differs by a blank
  line *inside* the cue is therefore a translation to it, and none in the body:
  `serialize` leaves out every blank line (`srt.rs:149`). If all cues are answered so, the
  body that is cached is the source again, word for word. The test at `translate.rs:2508`
  names exactly this as why the comparison trims at all ("`srt::serialize` strips it, so
  the cached artifact was byte-identical to the source"). Such replies are among those of
  `harness`; `VerdictIsFinal` speaks of what was said, as the code counts it, because of
  what is served it would be false.
* **Refunds after midnight.** The refund reads the clock again (`addon.rs:1873`) and
  comes off the new day's counter, which allows a day one paid run more than
  `DAILY_TRANSLATIONS` (`addon.rs:1817`). `BoughtIsCounted` shows that over all the days
  nothing is lost.
* **A failed run has not seen every answer.** The first failing batch ends the run with
  other batches' calls on the wire; if none had been billed by then, the slot comes back
  although those calls are (comment at `translate.rs:213`).
* **The pin of another request's source is dropped**: the removal does not look what
  the pin names (`addon.rs:2538`).
* **"Degrades the cache to memory-only"**, at `cache.rs:464`, is not quite what happens when
  a write is refused: the older file stays, and is served once memory has forgotten the
  newer entry. `ForgetfulMap` names such keys `tainted`.
* The sweep counts files before it evicts; one that vanishes between is still counted,
  so it may evict more than it needs.
* The comment of `fit_score` (`opensubtitles.rs:543`) ranks machine translations below
  everything, foreign-parts-only tracks included; a hash match lifts one above such a
  track without a match.
* `opensubtitles.rs:379` says a repeated sparse body escalates to `Gone`,
  `addon.rs:1603` says it never does (it does not); `addon.rs:2029` worries about two
  charges that read the same counter, which one thread cannot do; the state `done` that
  the doc of `.status` names is never sent; `sync.rs:85` says the work directory has no
  sweep (`sweep_scratch` is one); `addon.rs:2443` says there is no per-title marker
  (`addon.rs:2507` writes one).

## Proofs

Each `..._proofs` module proves its theorems for every value of the constants, from an
inductive invariant (`IInv` for the module it is named after, and a name of its own for
another): it holds initially, every step keeps it (one lemma per action or kind of
action), so it always holds; each theorem then follows from it.

* **`InFlight`**, in `Search_proofs`: `FlightTypeCorrect`,
  `MutualExclusion`, `Tracking`, `OrphansAreAccountedFor`, together `Soundness`, and
  `Refinement`. `MapInv` adds to the properties that two keys never share a lock,
  that a task holds a clone exactly while it is inside, and that a guard owns the permit
  of its lock. The reference counts enter as two lemmas: an entry is in use exactly when
  some task holds a clone, and a guard that counts two is alone. Orphans need one part
  more, what a guard left when it dropped (`LeftForSomebody`). `Refinement` maps every
  step to a step of `KeyedMutex` or a stutter.
* **`Pauses_proofs`**: `TypeCorrect`, `RefusalsAreRemembered`, `RefusalsAreHonoured`,
  `EverythingIsBounded`, each of refusals and of spent quotas.
  The argument is about revisions: they are handed out once (`RevisionsAreOld`), so a
  call whose revision is still the entry's left when every wait named so far was over
  (`MayOnlyClearTheLapsed`), and its late answer clears nothing that is in force. Nothing clears a spent quota but
  time and the table's ceiling.
  The bounds (`Bounds`, kept beside `IInv`) rest on one fact more: the calls of a
  credential share the semaphore the map points to (`Shared`), because the sweep of the map
  only drops pointers nobody keeps alive; so the permits of one semaphore are all the
  credential's calls. Each table's ceiling is `make_room`'s arithmetic (`StoringKeepsTable`), and
  what may be in it, an hour or a day, comes from the callers of `hold`.
* **`SyncAdmission`**, in `Sync_proofs`: `TypeCorrect`, `BudgetIsKept`,
  `RetentionIsBounded`, `TierOneIsNotHeldUp`, together `AdmissionIsBounded`, and
  `ReservationsAreCounted`. `IInv` adds that an entry of the memory queue is a job that
  waits, once (`QueueOfWaiters`): more entries than places would then put a job in the
  queue twice. That Tier 1 has room follows from the budget and `TierTwoIsBounded`. The
  counters wrap, so the books (`Counted`) are kept modulo `Wrap`: each step changes a
  gauge, and the number of jobs it stands for, by the same amount, and a counter below
  `Wrap` is determined by its remainder.
* **`Aligner`**, in `Sync_proofs`: `RunsLeaveNothing`, `NoMixUp`,
  `TheSweepSparesTheLiving`, `TwoAlignmentsAgree`. `RunsInv` says that a process gives
  each number out once (`Numbered`), so that a file's name tells whose it is; that a run is at a step its tier
  allows, with a clock and a rest that make up no more than its budget (`Place`); and
  that it has no files but those its place accounts for, none older than itself (`Own`).
  A return removes what its place accounts for, hence everything. What the sweep condemns
  is older than any budget and so nobody's; numbers are not given out again, so it is
  still nobody's when it is unlinked, by path, some time later. `TwoAlignmentsAgree` has an
  invariant of its own, `HeardInv`: while a run listens it has a sample, three stretches
  of numbers (`SampleIsTyped`, from the choice of the densest stretch of each third to the
  cues of each probe), and each shift it has measured was read off the alignment kept with
  it (`Borne`). The middle of the largest group is within `Agreement` of two of its
  members, also where it is half the sum of two, rounded (`ConsensusAgrees`), and an
  alignment that nearly all its cues put at one shift backs whatever agrees with that
  (`AgreeingIsBacked`).
* **`Download_proofs`**: `TypeCorrect`, `OneWorker`, `OnlyTheUnknownIsBought`,
  `EverySpendLeavesATrace`, `TwoOccasionsConvict`. What the holder of a flight found
  unknown stays so while it queues for a permit, because only it could write of its
  file (`HolderSeeksTheUnknown`, which needs `OneWorkerPerFile`); a strike is a failure
  since the last success (`StrikesAreFailures`).
* **`Translation`**, in `Translation_proofs`: `TypeCorrect`, `OneBill`,
  `OnlyTheMissingIsBought`, `PurchasesAreCounted`. The same argument over the flight of a
  body (`OneHolder`, `StillMissing`); that a slot is left is checked by the step that takes
  it. What was bought stays counted because more does (`Covered`): over all the days, what
  an install has used is at least what it has bought and the runs it has under way, so a
  refund, on whatever day, gives back a slot of a run.
* **`Refusals`**, in `Translation_proofs`: `RefusalsTypeCorrect`, `OtherShowsRun`,
  `DeadKeysAreFoundOut`. The strengthening of the second is about evidence
  (`EvidenceIsOfTheFiltered`): while the key works, the title that is remembered as
  ambiguous belongs to a filtered show, so a second refusal that corroborates it belongs
  to the same one. `DeadKeysAreFoundOut` looks at every span of `Retry` ticks that is not
  over (`Found`): how many titles may have been refused since its start depends on
  whether a title is remembered, and whether its series and the install are blocked, since
  then. Stating it so showed the first form of the bound to be too low by the runs that
  were already under way when the *series* was blocked; it takes two films to see that,
  which the instance did not have.
* **`SyncServe`**, in `Serving_proofs`: `TypeCorrectness`, `SettledAnswers`, `BackoffHasCause`,
  `WorkIsOpen`. `IInv` adds that a key's flight has one holder (`OneHolder`), that only
  a sync waits or works (`OnlySyncsWait`), that what a text's request found open when it
  took the flight still is (`TextsAreOpen`), because only the holder of a flight writes of
  its key, and that each marker has a failure behind it (`MarkersHaveCause`).
* **`Srt`**, in `Serving_proofs`: `ReadersAgree`, `RoundTrip`. Both readers are recursive
  functions over lines. `ReadersAgree` shows that each finds a cue exactly where a timing
  line starts a block, or follows a number that does: for the test by what it remembers
  after k lines, for the parser by where blocks start. `RoundTrip` lays a written film out
  as lines, cue by cue, and shows that the blocks the parser cuts are these, since the
  only blank lines left are those `serialize` writes.
* **`Reply`**, in `Serving_proofs`: `RepliesAreWhole`. The scan and the reading of a text
  are recursive functions of how far they have come. An array that stands in a text is
  scanned and read as it would be alone, but for the depth it is at (`ArrayIsHeard`, over
  its texts and the tokens of each, escaped as a model writes them). So its last bracket
  closes it and nothing closes before (`ArrayIsSpan`), it reads as its texts
  (`ArrayReads`), and what closes after it closes around it and is no array of strings
  (`ClosingAfter`, `AroundIsNoReply`). A remark holds no array and uses up fewer tries
  than there are (`RemarksHoldNoArray`), so the array is the first one found by either
  pass (`RemarksAreSkipped`); two arrays in an array are found as one, which is not flat
  (`PairIsNoReply`). Looking for the induction step showed the first form of the property
  to be false of longer remarks: 64 closed brackets before the array use up the tries. The
  code means to give up there (`translate.rs:1443`), so the property now says so.
* **`Harness`**, in `Serving_proofs`: `RunsKeepTheirBounds`, `BodiesReadBack`,
  `RetriesBuyNothingTwice`, `VerdictsAreFinal`, `EverythingIsReadRight`. `HarnessInv` has
  five parts. `Shape`: what a batch has said and the segments it has left make up its
  cues, in order, side by side (`Whole`, `Chain`), and what the store holds under some
  texts says each of them (`Says`); a split, an answer and a replay each move cues from
  one side to the other. `StillHeld`: what was bought and not lost is in the store, so
  `Dispatch`, which only sends what is not there, buys nothing twice. `FewLate`: past the
  deadline, the calls that went out and the batches still queued for one fit in the window
  together, as nothing new queues. `Tally`: the count of untranslated cues lies between
  those with words in their source that echo it and all that echo it (`Echoes`: equal
  after trimming), through replays too; both halves of the verdict follow. What a provider
  answers is only ever one of the texts it may answer, or the source (`MaySay`, `Fit`). `ServedIsFilm`: what was served is the
  film, written out, with texts it may have; with `RoundTrip` it reads back so.
* **`Search`**, in `Search_proofs`: `TypeCorrectness`, `FreshListsStay`,
  `FailuresStayHome`, `PicksAreMinimal`, `OnePickPerList`. `IInv` says that the
  flight is a line without repetitions, whose head alone may search (`FlightInv`), that a mark lasts exactly as long as the failure
  behind it (`MarkInv`), and that nobody searches beside a fresh list (`ListInv`).
  `Removal` is the lemma about sequences that leaving the line from its middle needs.
  For the picks, `AnswersInv` says that every list a request holds, is answered with or
  would take from the cache is part of a page OpenSubtitles sent, so a file in it twice
  matches the stream's hash twice or never (`Listed`). The sort only moves entries
  (`SortedIsOrder`); a pick is the lowest id among the best of a score
  (`PicksAreMinimal`), of which any two of one set have the same id, so neither the order
  nor what is playing tells.
* **`Cache_proofs`**: `MemoryIsAccounted`, `SweepsAreExact`, `CacheImplementsForgetfulMap`,
  `CacheReadsTheLast`. The byte counter is the sum of what is in memory through every put,
  eviction and removal (`MemoryOK`). For the sweep, what it still has to inspect and what
  it has counted are disjoint, and its total is at least what the counted files weigh
  (`SweepSeesOnce`, `CountedEnough`), so that it evicts only while the disk may be over
  budget; the file it is about to unlink was found expired or broken (`DoomedForCause`).
  For the refinement, a file under a key's own name is the last put's, unless the storage
  has refused that key something (`FilesAreTheLast`), and the put in progress is where its
  stage says (`PutInPlace`). Every step, the kills between any two file operations
  included, is then a step of `ForgetfulMap` or a stutter. `MapReadsTheLast` proves of
  `ForgetfulMap` alone that a read finds the last put or nothing, and `CacheReadsTheLast`
  carries it over.
* **`FoldTheorems`**: the sums of the community modules are recursive functions over
  sets, and the library's induction theorems take predicates, which the provers cannot
  instantiate. The rules here take the *set* of good numbers, or of good subsets, and come
  from the well-foundedness of the order (`LeastNumber`, `NumberInduction`,
  `SubsetInduction`). From them: such a function exists and is unique, and a sum changes
  by what one element more, or another value of it, is worth (`TotalStep`, `TotalWith`,
  `TotalChanged`, `TotalOfParts`). `RecursionExists` and `RecursionKeeps` do the same for
  a recursive function over the numbers up to `n`: what its base has and its steps keep,
  all its values have. The prover cannot unfold `SortSeq` and `SelectSeq`; `Sorting` says
  the same with sets of numbers, the place of an entry being how many do not come after
  it, and the lemmas about it count: the places are the numbers up to the length, each
  taken once (`PlacesAreTaken`, `SortedIsOrder`).

Assumptions: only those the modules state by name (`InFlightAssumption`,
`PausesAssumption`, `SyncAdmissionAssumption`, `TierTwoIsBounded`,
`DownloadAssumption`, `TranslationAssumption`, `SyncServeAssumption`,
`RefusalsAssumption`, `SearchAssumption`, `PagesAssumption`, `CacheAssumption`,
`AudioSampleAssumption`, `AlignerAssumption`,
`HarnessAssumption`, and `NoneAssumption` of `Cache` and `Aligner`: a model value is
no entry); TLC evaluates them in each run. `PagesAssumption` types what OpenSubtitles may
send, and says that a page which lists a file twice says the same of its hash both times:
the hash match is said of the file. `AlignerAssumption` says that a film to be aligned has
a cue, which `sync_to_audio` tests, and that alass moves cues by whole numbers.
`HarnessAssumption` types the sources, the remarks and what a provider may answer a cue
with (`Replies`: sequences of lines or tokens), and says nothing else of them.

What is only model-checked: all liveness (the prover has no `ENABLED`). Every safety
invariant and action property of a passing run is a theorem.

## Not modelled, and why

* Whether a body is sparse (`srt.rs:276`, density against the fullest sibling,
  `addon.rs:1447`) is a nondeterministic verdict; charsets and archives likewise.
* The second cache entry beside an aligned body that holds its offset
  (`addon.rs:1262`): a kill between the two puts could pair a new body with an old
  offset in a header.
* Two target keys under one job name share one progress entry; `Harness` has one run
  at a time. The words of prompts, the context handed from batch to batch, and the
  measured cost of a run. A parent segment whose reply had the wrong length is not kept,
  so a resumed run sends it at full size again; what is never sent again is what was
  answered in full (`NothingBoughtTwice`).
* Two bodies of one title that is translated from two sources.
* `SYNC_SEQ` and the cache's scratch numbers start from zero in each process while
  their directories last: an older process's leftover has a younger one's name.
  `HandsOutItsOwn` is stated for runs of the same process for that reason: what an older
  process left under the same name is not covered by it.
* Histories across a restart: `Refusals` starts its count again with the markers, which are
  in memory only, and does not let the cache evict them; the `failed` history of
  `Download` goes on over a restart, so a conviction by one failure before it and one after
  would be within `ConvictedOnTwoOccasions` (the strike is forgotten by a restart).
* A sweep whose own `unlink` fails (`cache.rs:206`): the code goes on to the next file,
  and may end over the budget until the next sweep.
* `/health` is one count for all installs; `auto_sync` is taken to be on in `Search`,
  and a stale list that was seen before waiting may be served past its grace.
* The header and date parsers of `ratelimit.rs`: the wait they return is an input.
* Key derivation (hashing, identities): a key is the thing it names.
* The origin check and the relay of `resync.rs`, subprocess plumbing, HTML, logging,
  metrics, configuration, CI and scripts: stateless or I/O.
* The drain on SIGTERM (`main.rs:475`): it ends connections by a deadline; what it may
  cut off is what `Restart` and `Kill` cut off.
* An allowance counter that is evicted from the cache: see the hazards.

## Plan

Done: all modules above. What would add most next:

1. Two runs under one job in `Harness` (shared progress), and the offset entry in
   `SyncServe`.
2. `looks_incomplete` against a reference definition, and with it the sparse verdict
   of `Download`.
3. Resume of a run whose parent segment had the wrong length, as a property about
   the number of calls.
