----------------------------- MODULE SyncServe -----------------------------
(***************************************************************************)
(* Serving one subtitle, aligned (src/src/addon.rs `handle_subtitle_file`, *)
(* `sync_and_cache`, and the end of `handle_translate`).  A request names  *)
(* a body and a tier.  It waits for the single-flight of its key, reserves *)
(* a place of the tier, gets the body, opens the relay (tier 2) or fetches *)
(* the reference (tier 1), runs the aligner and stores what it makes.  A   *)
(* sync that fails is remembered for a while and the unaligned body stands *)
(* in.  A reply that calls its body settled pins it: the client keeps it   *)
(* for a year, and revalidates it (304) by its key alone.                  *)
(*                                                                         *)
(* Composition.  A flight is the FIFO mutex InFlight implements; a place   *)
(* is SyncAdmission's, whose memory queue always moves and is passed over; *)
(* `subtitle_srt` is Download's and always returns, with the kinds of      *)
(* error it has.  Text stands for the translated body, which is durable    *)
(* before this code is reached (Translation); File for a downloaded one.   *)
(* There is one reference file.  Lose stands for expiry and eviction.      *)
(***************************************************************************)
EXTENDS Integers, FiniteSets, Sequences, SequencesExt

CONSTANTS
  Req,        \* requests that can be under way at once
  Cred,       \* OpenSubtitles credentials, one install each
  Asked,      \* what the requests of an instance may ask for
  Slots,      \* TIER1_SLOTS, TIER2_SLOTS
  NoWant,
  MaxLosses   \* bound on lapsed and evicted entries

Tier == {"tier1", "tier2"}
Sync == Tier \cup {"none"}
Key == {"file", "text"} \X Sync     \* a body, by the tier applied to it
Want == [body : {"file", "text"}, sync : Sync, cred : Cred, anchorKnown : BOOLEAN]

\* Only a text on whose install auto-sync is on looks for an anchor, in a search
\* that may fail; a file is told its reference.
ASSUME SyncServeAssumption ==
  /\ IsFiniteSet(Req) /\ IsFiniteSet(Cred) /\ NoWant \notin Want
  /\ Asked \subseteq Want
  /\ \A w \in Asked : ~w.anchorKnown => w.body = "text" /\ w.sync # "none"
  /\ Slots \in [Tier -> Nat \ {0}] /\ MaxLosses \in Nat

VARIABLES
  hasAnchor,  \* whether a hash-matched reference for the text exists
  pc, want,   \* where each request is, and what it asks for
  waiting,    \* per key, the requests queued for its flight
  places,     \* per tier, the requests queued for a place
  store,      \* what the cache holds under each key
  shared,     \* keys with the marker every install sees
  mine,       \* keys and credentials with the marker of one credential
  losses,
  reply,      \* history: the reply the last step gave, if it gave one
  cause       \* history: the keys whose work failed, and the credentials that did

vars == <<hasAnchor, pc, want, waiting, places, store, shared, mine, losses, reply, cause>>

Phase == {"idle", "wantsFlight", "wantsPlace", "fetching", "preparing", "aligning"}
Made == {"nothing", "unaligned", "aligned"}
Silence == [to |-> NoWant, made |-> "nothing", settled |-> FALSE, backedOff |-> FALSE]

-----------------------------------------------------------------------------
(* Keys *)

\* vetted_ref, align_for and sync_cache_key: a text for which no anchor is known
\* is keyed as unaligned, unless its audio is asked for.
KeyOf(w) ==
  IF w.body = "text" /\ w.sync = "tier1" /\ ~(w.anchorKnown /\ hasAnchor)
  THEN <<w.body, "none">>
  ELSE <<w.body, w.sync>>

K(r) == KeyOf(want[r])
TierOf(r) == K(r)[2]
Wanted(k) == k[2] # "none"
Raw(k) == <<k[1], "none">>
Text == <<"text", "none">>
Stored(k) == store[k] # "nothing"
BackedOff(w) == KeyOf(w) \in shared \/ <<KeyOf(w), w.cred>> \in mine

Init ==
  /\ hasAnchor \in BOOLEAN
  /\ pc = [r \in Req |-> "idle"]
  /\ want = [r \in Req |-> NoWant]
  /\ waiting = [k \in Key |-> <<>>]
  /\ places = [t \in Tier |-> <<>>]
  /\ store = [k \in Key |-> "nothing"]
  /\ shared = {} /\ mine = {} /\ cause = {}
  /\ losses = 0
  /\ reply = Silence

-----------------------------------------------------------------------------
(* Replies *)

End(r) ==
  /\ pc' = [pc EXCEPT ![r] = "idle"]
  /\ want' = [want EXCEPT ![r] = NoWant]

Silent == reply' = Silence

\* `srt` calls the body settled, `srt_provisional` does not.
Deliver(w, made, settled) ==
  reply' = [to |-> w, made |-> made, settled |-> settled, backedOff |-> FALSE]

\* The unaligned body, for a sync that failed or is not tried again.
StandIn(w, again) ==
  reply' = [to |-> w, made |-> "unaligned", settled |-> FALSE, backedOff |-> again]

-----------------------------------------------------------------------------
(* The request comes *)

\* handle_translate has the text, cached or bought, before it looks at a tier.
WithText(w) ==
  IF w.body = "text" THEN [store EXCEPT ![Text] = "unaligned"] ELSE store

\* What the cache has for the key is the answer, or may be the answer if the
\* search for an anchor has failed.
ServeHit(w) ==
  /\ WithText(w)[KeyOf(w)] # "nothing"
  /\ store' = IF Stored(KeyOf(w)) THEN store ELSE WithText(w)
  /\ Deliver(w, store'[KeyOf(w)], w.anchorKnown)
  /\ UNCHANGED <<hasAnchor, pc, want, waiting, places, shared, mine, losses, cause>>

\* A miss: the flight first where a sync is wanted, the body where not.
Ask(r, w) ==
  /\ pc[r] = "idle"
  /\ WithText(w)[KeyOf(w)] = "nothing"
  /\ want' = [want EXCEPT ![r] = w]
  /\ store' = WithText(w)
  /\ IF Wanted(KeyOf(w))
     THEN /\ pc' = [pc EXCEPT ![r] = "wantsFlight"]
          /\ waiting' = [waiting EXCEPT ![KeyOf(w)] = Append(@, r)]
     ELSE /\ pc' = [pc EXCEPT ![r] = "fetching"]
          /\ UNCHANGED waiting
  /\ Silent
  /\ UNCHANGED <<hasAnchor, places, shared, mine, losses, cause>>

-----------------------------------------------------------------------------
(* The flight, and the place *)

InFlight(k) == {r \in Req : pc[r] \notin {"idle", "wantsFlight"} /\ K(r) = k}
Placed(t) == {r \in Req : pc[r] \in {"fetching", "preparing", "aligning"} /\ TierOf(r) = t}

NextInFlight(r) ==
  /\ pc[r] = "wantsFlight"
  /\ InFlight(K(r)) = {}
  /\ waiting[K(r)] # <<>> /\ Head(waiting[K(r)]) = r

LeaveLine(r) == waiting' = [waiting EXCEPT ![K(r)] = Tail(@)]

\* "Settled while we waited."
SettledMeanwhile(r) ==
  /\ NextInFlight(r)
  /\ Stored(K(r))
  /\ Deliver(want[r], store[K(r)], TRUE)
  /\ End(r)
  /\ LeaveLine(r)
  /\ UNCHANGED <<hasAnchor, places, store, shared, mine, losses, cause>>

\* Mutant: only a file looks at the markers after the wait.
MutTakeFlight(r) ==
  /\ NextInFlight(r)
  /\ ~Stored(K(r))
  /\ pc' = [pc EXCEPT ![r] = "wantsPlace"]
  /\ LeaveLine(r)
  /\ places' = [places EXCEPT ![TierOf(r)] = Append(@, r)]
  /\ Silent
  /\ UNCHANGED <<hasAnchor, want, store, shared, mine, losses, cause>>

\* A text looks at the markers now; a file when it has its body.
TakeFlight(r) ==
  /\ NextInFlight(r)
  /\ ~Stored(K(r))
  /\ want[r].body = "text" => ~BackedOff(want[r])
  /\ pc' = [pc EXCEPT ![r] = "wantsPlace"]
  /\ LeaveLine(r)
  /\ places' = [places EXCEPT ![TierOf(r)] = Append(@, r)]
  /\ Silent
  /\ UNCHANGED <<hasAnchor, want, store, shared, mine, losses, cause>>

\* The text stands in, unless it was evicted ("translation_unavailable").
TextBackedOff(r) ==
  /\ NextInFlight(r)
  /\ ~Stored(K(r))
  /\ want[r].body = "text" /\ BackedOff(want[r])
  /\ IF Stored(Text) THEN StandIn(want[r], TRUE) ELSE Silent
  /\ End(r)
  /\ LeaveLine(r)
  /\ UNCHANGED <<hasAnchor, places, store, shared, mine, losses, cause>>

TakePlace(r) ==
  /\ pc[r] = "wantsPlace"
  /\ places[TierOf(r)] # <<>> /\ Head(places[TierOf(r)]) = r
  /\ Cardinality(Placed(TierOf(r))) < Slots[TierOf(r)]
  /\ pc' = [pc EXCEPT ![r] = "fetching"]
  /\ places' = [places EXCEPT ![TierOf(r)] = Tail(@)]
  /\ Silent
  /\ UNCHANGED <<hasAnchor, want, waiting, store, shared, mine, losses, cause>>

-----------------------------------------------------------------------------
(* The body *)

\* Mutant: `sync_and_cache` asks for the flight its caller holds.
MutPrepare(r) ==
  /\ pc' = [pc EXCEPT ![r] = "wantsFlight"]
  /\ waiting' = [waiting EXCEPT ![K(r)] = Append(@, r)]
  /\ UNCHANGED want

\* The tier goes to work under the flight and the place the request has.
Prepare(r) ==
  /\ pc' = [pc EXCEPT ![r] = "preparing"]
  /\ UNCHANGED <<want, waiting>>

\* Without a tier the body is the answer, settled if none is known to be owed.
\* With one, the key may have been settled or have failed since a file was asked
\* for; the text looked before it took its place.
GotBody(r) ==
  /\ pc[r] = "fetching"
  /\ IF want[r].body = "file" THEN store' = [store EXCEPT ![Raw(K(r))] = "unaligned"]
     ELSE Stored(Text) /\ UNCHANGED store
  /\ \/ ~Wanted(K(r)) /\ Deliver(want[r], "unaligned", want[r].anchorKnown)
     \/ want[r].body = "file" /\ Wanted(K(r)) /\ Stored(K(r)) /\ Deliver(want[r], store[K(r)], TRUE)
     \/ want[r].body = "file" /\ Wanted(K(r)) /\ ~Stored(K(r)) /\ BackedOff(want[r])
          /\ StandIn(want[r], TRUE)
     \/ Wanted(K(r)) /\ (want[r].body = "file" => ~Stored(K(r)) /\ ~BackedOff(want[r])) /\ Silent
  /\ IF reply' = Silence THEN Prepare(r) ELSE End(r) /\ UNCHANGED waiting
  /\ UNCHANGED <<hasAnchor, places, shared, mine, losses, cause>>

\* The file cannot be downloaded (502), or the text was evicted meanwhile (503).
NoBody(r) ==
  /\ pc[r] = "fetching"
  /\ want[r].body = "text" => ~Stored(Text)
  /\ End(r)
  /\ Silent
  /\ UNCHANGED <<hasAnchor, waiting, places, store, shared, mine, losses, cause>>

-----------------------------------------------------------------------------
(* The ladder *)

\* Relay::open, or the reference's own subtitle_srt, then the subprocess.
Prepared(r) ==
  /\ pc[r] = "preparing"
  /\ pc' = [pc EXCEPT ![r] = "aligning"]
  /\ Silent
  /\ UNCHANGED <<hasAnchor, want, waiting, places, store, shared, mine, losses, cause>>

\* Mutant: whatever fails is remembered for everybody.
MutMark(w, mineOnly) == shared' = shared \cup {KeyOf(w)} /\ UNCHANGED mine

\* The marker of a failure of the credential alone, or of the work.
Mark(w, mineOnly) ==
  IF mineOnly THEN mine' = mine \cup {<<KeyOf(w), w.cred>>} /\ UNCHANGED shared
  ELSE shared' = shared \cup {KeyOf(w)} /\ UNCHANGED mine

SyncFails(r, mineOnly) ==
  /\ Mark(want[r], mineOnly)
  /\ cause' = cause \cup {IF mineOnly THEN <<K(r), want[r].cred>> ELSE <<K(r)>>}
  /\ StandIn(want[r], FALSE)
  /\ End(r)
  /\ UNCHANGED <<hasAnchor, waiting, places, store, losses>>

\* A relay that does not open, a reference that is gone or suspect: the work.  A
\* reference that is unavailable to this credential says nothing of others.
PreparationFails(r) ==
  /\ pc[r] = "preparing"
  /\ SyncFails(r, FALSE) \/ (TierOf(r) = "tier1" /\ SyncFails(r, TRUE))

AlignerFails(r) == pc[r] = "aligning" /\ SyncFails(r, FALSE)

\* Mutant: the unaligned body is stored where the aligned one belongs.
MutAlignedBody == "unaligned"
AlignedBody == "aligned"

Aligned(r) ==
  /\ pc[r] = "aligning"
  /\ store' = [store EXCEPT ![K(r)] = AlignedBody]
  /\ Deliver(want[r], AlignedBody, TRUE)
  /\ End(r)
  /\ UNCHANGED <<hasAnchor, waiting, places, shared, mine, losses, cause>>

-----------------------------------------------------------------------------
(* The surroundings *)

\* A waiter that is dropped leaves the queue it waits in.
Unqueued(line, r) == {RemoveAt(line, i) : i \in {j \in 1..Len(line) : line[j] = r}}

LeavesLines(r) ==
  /\ IF pc[r] = "wantsFlight"
     THEN \E line \in Unqueued(waiting[K(r)], r) : waiting' = [waiting EXCEPT ![K(r)] = line]
     ELSE UNCHANGED waiting
  /\ IF pc[r] = "wantsPlace"
     THEN \E line \in Unqueued(places[TierOf(r)], r) :
            places' = [places EXCEPT ![TierOf(r)] = line]
     ELSE UNCHANGED places

\* The client disconnects at a wait: flight, place and subprocess go with it.
Leave(r) ==
  /\ pc[r] # "idle"
  /\ LeavesLines(r)
  /\ End(r)
  /\ Silent
  /\ UNCHANGED <<hasAnchor, store, shared, mine, losses, cause>>

Lose(k) ==
  /\ losses < MaxLosses
  /\ losses' = losses + 1
  /\ \/ /\ Stored(k)
        /\ store' = [store EXCEPT ![k] = "nothing"]
        /\ UNCHANGED <<shared, mine, cause>>
     \/ /\ k \in shared
        /\ shared' = shared \ {k} /\ cause' = cause \ {<<k>>}
        /\ UNCHANGED <<store, mine>>
     \/ \E c \in Cred :
          /\ <<k, c>> \in mine
          /\ mine' = mine \ {<<k, c>>} /\ cause' = cause \ {<<k, c>>}
          /\ UNCHANGED <<store, shared>>
  /\ Silent
  /\ UNCHANGED <<hasAnchor, pc, want, waiting, places>>

-----------------------------------------------------------------------------
Next ==
  \/ \E w \in Asked : ServeHit(w)
  \/ \E r \in Req, w \in Asked : Ask(r, w)
  \/ \E r \in Req :
       \/ SettledMeanwhile(r)
       \/ TakeFlight(r)
       \/ TextBackedOff(r)
       \/ TakePlace(r)
       \/ GotBody(r)
       \/ NoBody(r)
       \/ Prepared(r)
       \/ PreparationFails(r)
       \/ AlignerFails(r)
       \/ Aligned(r)
       \/ Leave(r)
  \/ \E k \in Key : Lose(k)

Spec == Init /\ [][Next]_vars

\* The runtime polls woken tasks; downloads, relays and subprocesses have
\* deadlines.  No client need come or leave.
Fairness ==
  \A r \in Req :
    /\ WF_vars(SettledMeanwhile(r) \/ TakeFlight(r) \/ TextBackedOff(r))
    /\ WF_vars(TakePlace(r))
    /\ WF_vars(GotBody(r) \/ NoBody(r))
    /\ WF_vars(Prepared(r) \/ PreparationFails(r))
    /\ WF_vars(AlignerFails(r) \/ Aligned(r))

FairSpec == Spec /\ Fairness

-----------------------------------------------------------------------------
(* Properties *)

\* The state is well formed: who is under way asks for something, and the lines
\* hold requests.
TypeOK ==
  /\ hasAnchor \in BOOLEAN
  /\ pc \in [Req -> Phase]
  /\ want \in [Req -> Asked \cup {NoWant}]
  /\ \A r \in Req : pc[r] # "idle" => want[r] \in Asked
  /\ waiting \in [Key -> Seq(Req)] /\ places \in [Tier -> Seq(Req)]
  /\ store \in [Key -> Made]
  /\ shared \subseteq Key /\ mine \subseteq Key \X Cred
  /\ losses \in 0..MaxLosses

\* What the URL of a request is meant to deliver.
Meant(w) ==
  IF w.sync = "none" \/ (w.body = "text" /\ w.sync = "tier1" /\ ~hasAnchor)
  THEN "unaligned" ELSE "aligned"

\* "That key never holds anything but a settled answer", and no client is told
\* to keep anything else for a year: however a sync fails, is backed off or is
\* interrupted, whether the anchor is known or not, a body called settled is the
\* one the URL is meant to deliver.
SettledIsTheAnswer ==
  /\ \A k \in Key : store[k] \in {"nothing", IF Wanted(k) THEN "aligned" ELSE "unaligned"}
  /\ reply.settled => reply.made = Meant(reply.to)

AtWork(r) == pc[r] \in {"preparing", "aligning"}

\* A tier goes to work for one request per key, and never for a key that is
\* settled or backed off: whoever queued for flight, place or body meanwhile
\* finds the answer, or the failure it would only repeat.
WorksOnlyOnTheOpen ==
  [][\A r \in Req : ~AtWork(r) /\ AtWork(r)' =>
       /\ ~Stored(K(r)) /\ ~BackedOff(want[r])
       /\ \A s \in Req \ {r} : AtWork(s) => K(s) # K(r)]_vars

\* "An install that had run out of downloads" holds nobody else back: whoever is
\* told that the sync is backed off shares a credential with the failure, or the
\* work itself has failed.
BackedOffForCause ==
  reply.backedOff =>
    \/ <<KeyOf(reply.to)>> \in cause
    \/ <<KeyOf(reply.to), reply.to.cred>> \in cause

\* Every request is answered: flight, place and body are taken in one order, so
\* no two requests wait for each other and none waits for itself.
EveryRequestAnswered == \A r \in Req : pc[r] # "idle" ~> pc[r] = "idle"
=============================================================================
