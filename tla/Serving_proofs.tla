--------------------------- MODULE Serving_proofs ---------------------------
(***************************************************************************)
(* Proofs about the bodies a player is served: the synced ones (SyncServe) *)
(* and the translated ones (Harness, over Reply and Srt).                  *)
(*                                                                         *)
(* SyncServe, for any number of requests, installs, losses and places:     *)
(* what is called settled is the answer, a backoff has a cause, and a tier *)
(* goes to work for one request per open key.  The key of a request is     *)
(* fixed by what it asks for and by whether the text has an anchor, which  *)
(* never changes.  The flight of a key makes its holder the only one to    *)
(* store under the key or to mark it, so what it read when it took the     *)
(* flight holds until it goes to work.                                     *)
(*                                                                         *)
(* Srt, for every document: the test a download is accepted by and the     *)
(* parser of the translation find cues in the same documents, and what is  *)
(* written out reads back one for one.  Both readers are folds over the    *)
(* lines, so each is related to the document's timing lines by an          *)
(* invariant of what it remembers after k lines.                           *)
(*                                                                         *)
(* Reply, for every remark and every array of texts: an array that stands  *)
(* in a text is scanned and read as it would be alone, but for the depth   *)
(* it is at (ArrayIsHeard, by induction over its texts and their tokens),  *)
(* so its last bracket closes it, nothing inside does, and what closes     *)
(* after it closes around it and is no array of strings.                   *)
(*                                                                         *)
(* Harness, for any film, batch size, window, number of runs and provider: *)
(* the bounds of a run, the fidelity of what is served, that nothing held  *)
(* is bought twice, and that a verdict is final.  The invariant says that  *)
(* what a batch has said and the segments it has left make up its cues, in *)
(* order (Whole): splitting, answering and replaying each move cues from   *)
(* one to the other.  The store holds what it is keyed by, said (Says),    *)
(* so a replay is as good as an answer.  What is counted as untranslated   *)
(* lies between the dialogue and all of what stays as it was (Tally): the  *)
(* verdict may then be read off the count.                                 *)
(***************************************************************************)
EXTENDS SyncServe, Harness, FoldTheorems, TLAPS

-----------------------------------------------------------------------------
(* The sync ladder *)

Holds(r) == pc[r] \notin {"idle", "wantsFlight"}

(* Only a sync is waited for, or worked on. *)
OnlySyncsWait ==
  \A r \in Req :
    pc[r] \in {"wantsFlight", "wantsPlace", "preparing", "aligning"} => Wanted(K(r))

(* The flight of a key has one holder. *)
OneHolder ==
  \A r, s \in Req : Holds(r) /\ Holds(s) /\ Wanted(K(r)) /\ K(r) = K(s) => r = s

(* What a text's request found open when it took the flight still is. *)
TextsAreOpen ==
  \A r \in Req :
    pc[r] \in {"wantsPlace", "fetching"} /\ want[r].body = "text" /\ Wanted(K(r))
      => ~Stored(K(r)) /\ ~BackedOff(want[r])

(* Every marker has its cause. *)
MarkersHaveCause ==
  /\ \A k \in shared : <<k>> \in cause
  /\ \A m \in mine : m \in cause

(* The two halves of SettledIsTheAnswer. *)
StoreIsSettled ==
  \A k \in Key : store[k] \in {"nothing", IF Wanted(k) THEN "aligned" ELSE "unaligned"}
ReplyIsSettled == reply.settled => reply.made = Meant(reply.to)

(* What only the requests' own progress can disturb ... *)
ReqInv ==
  /\ pc \in [Req -> Phase]
  /\ want \in [Req -> Asked \cup {NoWant}]
  /\ \A r \in Req : pc[r] # "idle" => want[r] \in Asked
  /\ OnlySyncsWait
  /\ OneHolder

(* ... what only the cache can ... *)
CacheInv ==
  /\ store \in [Key -> Made]
  /\ shared \subseteq Key /\ mine \subseteq Key \X Cred
  /\ losses \in 0..MaxLosses
  /\ StoreIsSettled
  /\ MarkersHaveCause

(* ... and what the lines can. *)
LineInv == waiting \in [Key -> Seq(Req)] /\ places \in [Tier -> Seq(Req)]

IInv ==
  /\ TypeOK
  /\ OnlySyncsWait
  /\ OneHolder
  /\ TextsAreOpen
  /\ MarkersHaveCause
  /\ SettledIsTheAnswer
  /\ BackedOffForCause

-----------------------------------------------------------------------------
LEMMA Parts ==
  IInv <=> /\ hasAnchor \in BOOLEAN
           /\ ReqInv /\ CacheInv /\ LineInv
           /\ TextsAreOpen /\ ReplyIsSettled /\ BackedOffForCause
BY DEF IInv, TypeOK, ReqInv, CacheInv, LineInv, StoreIsSettled, ReplyIsSettled, SettledIsTheAnswer

(* The key a request settles, and what that means for it. *)
LEMMA KeyFacts ==
  ASSUME NEW w \in Asked, hasAnchor \in BOOLEAN
  PROVE  /\ w \in Want /\ KeyOf(w) \in Key /\ KeyOf(w)[1] = w.body
         /\ Wanted(KeyOf(w)) => KeyOf(w)[2] \in Tier /\ Meant(w) = "aligned"
         /\ ~Wanted(KeyOf(w)) /\ w.anchorKnown => Meant(w) = "unaligned"
<1>1. w \in Want
  BY SyncServeAssumption
<1>2. w.body \in {"file", "text"} /\ w.sync \in Sync /\ w.anchorKnown \in BOOLEAN
  BY <1>1 DEF Want
<1>3. CASE w.body = "text" /\ w.sync = "tier1" /\ ~(w.anchorKnown /\ hasAnchor)
  <2>1. KeyOf(w) = <<w.body, "none">>
    BY <1>3 DEF KeyOf
  <2>. QED
    BY <1>1, <1>2, <1>3, <2>1 DEF Key, Sync, Tier, Wanted, Meant
<1>4. CASE ~(w.body = "text" /\ w.sync = "tier1" /\ ~(w.anchorKnown /\ hasAnchor))
  <2>1. KeyOf(w) = <<w.body, w.sync>>
    BY <1>4 DEF KeyOf
  <2>. QED
    BY <1>1, <1>2, <1>4, <2>1 DEF Key, Sync, Tier, Wanted, Meant
<1>. QED
  BY <1>3, <1>4

LEMMA RawFacts ==
  /\ Text \in Key /\ ~Wanted(Text)
  /\ \A k \in Key : Raw(k) \in Key /\ ~Wanted(Raw(k))
BY DEF Text, Raw, Key, Sync, Wanted

(* The text is unaligned, and that is its own answer. *)
LEMMA WithTextFacts ==
  ASSUME NEW w, store \in [Key -> Made], StoreIsSettled
  PROVE  /\ WithText(w) \in [Key -> Made]
         /\ \A k \in Key :
              /\ WithText(w)[k] \in {"nothing", IF Wanted(k) THEN "aligned" ELSE "unaligned"}
              /\ Wanted(k) => WithText(w)[k] = store[k]
BY RawFacts DEF WithText, StoreIsSettled, Made

(* Keys stay as they are while the request does. *)
LEMMA SameKey ==
  ASSUME hasAnchor' = hasAnchor
  PROVE  /\ \A w : KeyOf(w)' = KeyOf(w)
         /\ \A q \in Req : want'[q] = want[q] => K(q)' = K(q)
         /\ \A w : Meant(w)' = Meant(w)
BY DEF KeyOf, K, Meant

LEMMA InitIInv == Init => IInv
<1>. SUFFICES ASSUME Init PROVE IInv
  OBVIOUS
<1>1. ReqInv
  BY DEF Init, ReqInv, Phase, OnlySyncsWait, OneHolder, Holds
<1>2. CacheInv /\ LineInv
  BY SyncServeAssumption DEF Init, CacheInv, LineInv, StoreIsSettled, MarkersHaveCause, Made
<1>3. TextsAreOpen /\ ReplyIsSettled /\ BackedOffForCause
  BY DEF Init, TextsAreOpen, ReplyIsSettled, BackedOffForCause, Silence
<1>. QED
  BY <1>1, <1>2, <1>3, Parts DEF Init

-----------------------------------------------------------------------------
(* What a step has to show *)

LEMMA PartsAfter ==
  ASSUME hasAnchor' \in BOOLEAN, ReqInv', CacheInv', LineInv',
         TextsAreOpen', ReplyIsSettled', BackedOffForCause'
  PROVE  IInv'
BY DEF IInv, TypeOK, ReqInv, CacheInv, LineInv, StoreIsSettled, ReplyIsSettled, SettledIsTheAnswer

(* The request is over: nothing it held constrains the others. *)
LEMMA EndKeepsReqInv ==
  ASSUME IInv, NEW r \in Req, End(r), hasAnchor' = hasAnchor
  PROVE  ReqInv'
<1>1. /\ pc' \in [Req -> Phase] /\ want' \in [Req -> Asked \cup {NoWant}]
      /\ pc'[r] = "idle"
      /\ \A q \in Req \ {r} : pc'[q] = pc[q] /\ want'[q] = want[q]
  BY Parts DEF ReqInv, End, Phase
<1>2. \A q \in Req \ {r} : K(q)' = K(q)
  BY <1>1, SameKey
<1>3. OnlySyncsWait'
  BY <1>1, <1>2, Parts DEF ReqInv, OnlySyncsWait, Wanted
<1>4. OneHolder'
  BY <1>1, <1>2, Parts DEF ReqInv, OneHolder, Holds, Wanted
<1>. QED
  BY <1>1, <1>3, <1>4, Parts DEF ReqInv

(* The request goes on: as the holder it was, or as the one there now is. *)
LEMMA MoveKeepsReqInv ==
  ASSUME IInv, NEW r \in Req, NEW p \in Phase, hasAnchor' = hasAnchor,
         pc' = [pc EXCEPT ![r] = p], want' = want,
         pc[r] # "idle", p # "idle",
         p \in {"wantsFlight", "wantsPlace", "preparing", "aligning"} => Wanted(K(r)),
         p # "wantsFlight" => Holds(r) \/ InFlight(K(r)) = {}
  PROVE  ReqInv'
<1>1. /\ pc' \in [Req -> Phase] /\ want' \in [Req -> Asked \cup {NoWant}]
      /\ pc'[r] = p
      /\ \A q \in Req \ {r} : pc'[q] = pc[q]
  BY Parts DEF ReqInv
<1>2. \A q \in Req : K(q)' = K(q)
  BY SameKey
<1>3. OnlySyncsWait'
  BY <1>1, <1>2, Parts DEF ReqInv, OnlySyncsWait, Wanted
<1>4. OneHolder'
  <2>1. ASSUME NEW q \in Req, Holds(q), K(q) = K(r), Wanted(K(r)), p # "wantsFlight"
        PROVE  q = r
    BY <2>1, Parts DEF ReqInv, OneHolder, Holds, InFlight
  <2>. QED
    BY <1>1, <1>2, <2>1, Parts DEF ReqInv, OneHolder, Holds, Wanted
<1>. QED
  BY <1>1, <1>3, <1>4, Parts DEF ReqInv

(* The requests that wait for a text's alignment find it as open as before. *)
LEMMA OthersStayOpen ==
  ASSUME IInv, NEW r \in Req, hasAnchor' = hasAnchor,
         \A q \in Req \ {r} : pc'[q] = pc[q] /\ want'[q] = want[q],
         pc'[r] \in {"wantsPlace", "fetching"} /\ want'[r].body = "text" /\ Wanted(K(r)')
           => ~Stored(K(r))' /\ ~BackedOff(want[r])',
         \A q \in Req \ {r} : Holds(q) /\ Wanted(K(q)) =>
           /\ ~Stored(K(q)) => store'[K(q)] = "nothing"
           /\ ~BackedOff(want[q]) => K(q) \notin shared' /\ <<K(q), want[q].cred>> \notin mine'
  PROVE  TextsAreOpen'
<1>1. ASSUME NEW q \in Req \ {r}, pc'[q] \in {"wantsPlace", "fetching"},
             want'[q].body = "text", Wanted(K(q)')
      PROVE  ~Stored(K(q))' /\ ~BackedOff(want[q])'
  <2>1. K(q)' = K(q) /\ want'[q] = want[q] /\ Holds(q) /\ KeyOf(want[q])' = K(q)
    BY <1>1, SameKey DEF Holds, K, KeyOf
  <2>2. ~Stored(K(q)) /\ ~BackedOff(want[q])
    BY <1>1, <2>1, Parts DEF TextsAreOpen, Wanted
  <2>. QED
    BY <1>1, <2>1, <2>2 DEF Stored, BackedOff, Wanted
<1>. QED
  BY <1>1 DEF TextsAreOpen, Wanted

(* As long as only they change, and the cache does not. *)
LEMMA SameCache ==
  ASSUME IInv, UNCHANGED <<hasAnchor, store, shared, mine, losses, cause>>
  PROVE  CacheInv'
BY Parts DEF CacheInv, StoreIsSettled, MarkersHaveCause, Wanted

(* What a reply says does not depend on when it is read. *)
LEMMA SilenceIsSettled ==
  ASSUME Silent PROVE ReplyIsSettled' /\ BackedOffForCause'
BY DEF Silent, Silence, ReplyIsSettled, BackedOffForCause

LEMMA DeliveryIsSettled ==
  ASSUME NEW w, NEW made, NEW settled, Deliver(w, made, settled), hasAnchor' = hasAnchor,
         settled => made = Meant(w)
  PROVE  ReplyIsSettled' /\ BackedOffForCause'
BY SameKey DEF Deliver, ReplyIsSettled, BackedOffForCause

LEMMA StandInIsSettled ==
  ASSUME NEW w, NEW again, StandIn(w, again), hasAnchor' = hasAnchor,
         again => <<KeyOf(w)>> \in cause' \/ <<KeyOf(w), w.cred>> \in cause'
  PROVE  ReplyIsSettled' /\ BackedOffForCause'
BY SameKey DEF StandIn, ReplyIsSettled, BackedOffForCause

-----------------------------------------------------------------------------
(* The request comes *)

(* The text a request brings is stored for no alignment. *)
LEMMA BringingTextKeepsCacheInv ==
  ASSUME IInv, NEW w, store' \in {store, WithText(w)},
         UNCHANGED <<hasAnchor, shared, mine, losses, cause>>
  PROVE  CacheInv'
<1>1. WithText(w) \in [Key -> Made] /\
      \A k \in Key : WithText(w)[k] \in {"nothing", IF Wanted(k) THEN "aligned" ELSE "unaligned"}
  BY WithTextFacts, Parts DEF CacheInv
<1>2. store' \in [Key -> Made] /\ StoreIsSettled'
  BY <1>1, Parts DEF CacheInv, StoreIsSettled, Wanted
<1>. QED
  BY <1>2, Parts DEF CacheInv, MarkersHaveCause

LEMMA BringingTextKeepsSyncs ==
  ASSUME IInv, NEW w, store' \in {store, WithText(w)}, NEW q \in Req, Holds(q), Wanted(K(q))
  PROVE  store'[K(q)] = store[K(q)]
<1>1. K(q) \in Key
  BY KeyFacts, Parts DEF ReqInv, Holds, K
<1>. QED
  BY <1>1, WithTextFacts, Parts DEF CacheInv

LEMMA ServeHitKeepsIInv ==
  ASSUME IInv, NEW w \in Asked, ServeHit(w)
  PROVE  IInv'
<1>. DEFINE k == KeyOf(w)
<1>1. UNCHANGED <<hasAnchor, pc, want, waiting, places, shared, mine, losses, cause>>
      /\ store' \in {store, WithText(w)} /\ store'[k] # "nothing"
      /\ Deliver(w, store'[k], w.anchorKnown)
  BY DEF ServeHit, Stored
<1>2. CacheInv'
  BY <1>1, BringingTextKeepsCacheInv
<1>3. k \in Key /\ (Wanted(k) => Meant(w) = "aligned")
      /\ (~Wanted(k) /\ w.anchorKnown => Meant(w) = "unaligned")
  BY KeyFacts, Parts
<1>4. store'[k] = IF Wanted(k) THEN "aligned" ELSE "unaligned"
  BY <1>1, <1>2, <1>3 DEF CacheInv, StoreIsSettled, Wanted
<1>5. ReplyIsSettled' /\ BackedOffForCause'
  BY <1>1, <1>3, <1>4, DeliveryIsSettled
<1>6. ReqInv' /\ LineInv'
  BY <1>1, SameKey, Parts DEF ReqInv, LineInv, OnlySyncsWait, OneHolder, Holds, Wanted
<1>7. TextsAreOpen'
  <2>1. ASSUME NEW q \in Req, Holds(q), Wanted(K(q)) PROVE store'[K(q)] = store[K(q)]
    BY <1>1, <2>1, BringingTextKeepsSyncs
  <2>. QED
    BY <1>1, <2>1, SameKey, Parts DEF TextsAreOpen, Stored, BackedOff, Wanted, Holds
<1>. QED
  BY <1>1, <1>2, <1>5, <1>6, <1>7, Parts, PartsAfter

LEMMA AskKeepsIInv ==
  ASSUME IInv, NEW r \in Req, NEW w \in Asked, Ask(r, w)
  PROVE  IInv'
<1>. DEFINE k == KeyOf(w)
<1>1. UNCHANGED <<hasAnchor, places, shared, mine, losses, cause>> /\ pc[r] = "idle"
      /\ store' = WithText(w) /\ want' = [want EXCEPT ![r] = w] /\ Silent
  BY DEF Ask
<1>2. k \in Key /\ w \in Asked
  BY KeyFacts, Parts
<1>3. \/ /\ Wanted(k) /\ pc' = [pc EXCEPT ![r] = "wantsFlight"]
         /\ waiting' = [waiting EXCEPT ![k] = Append(@, r)]
      \/ ~Wanted(k) /\ pc' = [pc EXCEPT ![r] = "fetching"] /\ UNCHANGED waiting
  BY DEF Ask
<1>4. /\ pc' \in [Req -> Phase] /\ want' \in [Req -> Asked \cup {NoWant}]
      /\ want'[r] = w
      /\ Wanted(k) => pc'[r] = "wantsFlight"
      /\ ~Wanted(k) => pc'[r] = "fetching"
      /\ \A q \in Req \ {r} : pc'[q] = pc[q] /\ want'[q] = want[q]
  BY <1>1, <1>2, <1>3, Parts DEF ReqInv, Phase
<1>5. K(r)' = k /\ \A q \in Req \ {r} : K(q)' = K(q)
  BY <1>1, <1>4, SameKey DEF K, KeyOf
<1>6. OnlySyncsWait' /\ OneHolder'
  BY <1>4, <1>5, Parts DEF ReqInv, OnlySyncsWait, OneHolder, Holds, Wanted
<1>7. ReqInv'
  BY <1>2, <1>4, <1>6, Parts DEF ReqInv
<1>8. LineInv'
  <2>1. Append(waiting[k], r) \in Seq(Req)
    BY <1>2, Parts DEF LineInv
  <2>. QED
    BY <1>1, <1>3, <2>1, Parts DEF LineInv
<1>9. TextsAreOpen'
  <2>1. ASSUME NEW q \in Req, Holds(q), Wanted(K(q)) PROVE store'[K(q)] = store[K(q)]
    BY <1>1, <2>1, BringingTextKeepsSyncs
  <2>2. pc'[r] \in {"wantsPlace", "fetching"} => ~Wanted(K(r)')
    BY <1>4, <1>5
  <2>. QED
    BY <1>1, <1>4, <2>1, <2>2, OthersStayOpen DEF Stored, BackedOff, K
<1>. QED
  BY <1>1, <1>7, <1>8, <1>9, BringingTextKeepsCacheInv, SilenceIsSettled, Parts, PartsAfter

-----------------------------------------------------------------------------
(* The flight, and the place *)

LEMMA UnderWay ==
  ASSUME IInv, NEW r \in Req, pc[r] # "idle"
  PROVE  /\ want[r] \in Asked /\ K(r) \in Key /\ K(r)[1] = want[r].body
         /\ Wanted(K(r)) => TierOf(r) \in Tier /\ Meant(want[r]) = "aligned"
         /\ ~Wanted(K(r)) /\ want[r].anchorKnown => Meant(want[r]) = "unaligned"
BY KeyFacts, Parts DEF ReqInv, K, TierOf

(* Whoever comes to the head of a line leaves it. *)
LEMMA HeadLeaves ==
  ASSUME IInv, NEW r \in Req, NextInFlight(r)
  PROVE  [waiting EXCEPT ![K(r)] = Tail(@)] \in [Key -> Seq(Req)]
<1>1. K(r) \in Key
  BY UnderWay DEF NextInFlight
<1>2. Tail(waiting[K(r)]) \in Seq(Req)
  BY <1>1, Parts DEF LineInv, NextInFlight
<1>. QED
  BY <1>1, <1>2, Parts DEF LineInv

(* A step that ends a request, and leaves the cache as it is. *)
LEMMA EndKeepsIInv ==
  ASSUME IInv, NEW r \in Req, End(r),
         UNCHANGED <<hasAnchor, store, shared, mine, losses, cause>>,
         LineInv', ReplyIsSettled', BackedOffForCause'
  PROVE  IInv'
<1>1. /\ pc'[r] = "idle"
      /\ \A q \in Req \ {r} : pc'[q] = pc[q] /\ want'[q] = want[q]
  BY Parts DEF ReqInv, End
<1>2. TextsAreOpen'
  BY <1>1, OthersStayOpen DEF Stored, BackedOff, K
<1>. QED
  BY <1>2, EndKeepsReqInv, SameCache, Parts, PartsAfter

(* A step that moves a request on in silence, and leaves the cache as it is. *)
LEMMA MoveKeepsIInv ==
  ASSUME IInv, NEW r \in Req, NEW p \in Phase,
         UNCHANGED <<hasAnchor, want, store, shared, mine, losses, cause>>, Silent,
         pc' = [pc EXCEPT ![r] = p], pc[r] # "idle", p \notin {"idle", "wantsFlight"},
         p \in {"wantsPlace", "preparing", "aligning"} => Wanted(K(r)),
         Holds(r) \/ InFlight(K(r)) = {},
         p \in {"wantsPlace", "fetching"} /\ want[r].body = "text" /\ Wanted(K(r))
           => ~Stored(K(r)) /\ ~BackedOff(want[r]),
         LineInv'
  PROVE  IInv'
<1>1. /\ pc'[r] = p
      /\ \A q \in Req \ {r} : pc'[q] = pc[q] /\ want'[q] = want[q]
      /\ K(r)' = K(r) /\ KeyOf(want[r])' = KeyOf(want[r])
  BY SameKey, Parts DEF ReqInv, K, KeyOf
<1>2. ~Stored(K(r)) => ~Stored(K(r))'
  BY <1>1 DEF Stored
<1>3. ~BackedOff(want[r]) => ~BackedOff(want[r])'
  BY <1>1 DEF BackedOff
<1>4. TextsAreOpen'
  BY <1>1, <1>2, <1>3, OthersStayOpen DEF Stored, BackedOff, K
<1>5. ReqInv'
  BY MoveKeepsReqInv
<1>. QED
  BY <1>4, <1>5, SameCache, SilenceIsSettled, Parts, PartsAfter

LEMMA SettledMeanwhileKeepsIInv ==
  ASSUME IInv, NEW r \in Req, SettledMeanwhile(r)
  PROVE  IInv'
<1>1. LineInv'
  BY HeadLeaves, Parts DEF SettledMeanwhile, LeaveLine, LineInv
<1>2. store[K(r)] = Meant(want[r])
  BY UnderWay, Parts
     DEF SettledMeanwhile, NextInFlight, ReqInv, OnlySyncsWait, CacheInv, StoreIsSettled, Stored
<1>3. ReplyIsSettled' /\ BackedOffForCause'
  BY <1>2, DeliveryIsSettled DEF SettledMeanwhile
<1>. QED
  BY <1>1, <1>3, EndKeepsIInv DEF SettledMeanwhile

LEMMA TakeFlightKeepsIInv ==
  ASSUME IInv, NEW r \in Req, TakeFlight(r)
  PROVE  IInv'
<1>1. Wanted(K(r)) /\ K(r) \in Key /\ TierOf(r) \in Tier /\ pc[r] # "idle"
  BY UnderWay, Parts DEF TakeFlight, NextInFlight, ReqInv, OnlySyncsWait
<1>2. Append(places[TierOf(r)], r) \in Seq(Req)
  BY <1>1, Parts DEF LineInv
<1>3. LineInv'
  BY <1>2, HeadLeaves, Parts DEF TakeFlight, LeaveLine, LineInv
<1>. QED
  BY <1>1, <1>3, MoveKeepsIInv DEF TakeFlight, NextInFlight, Phase

LEMMA TextBackedOffKeepsIInv ==
  ASSUME IInv, NEW r \in Req, TextBackedOff(r)
  PROVE  IInv'
<1>1. LineInv'
  BY HeadLeaves, Parts DEF TextBackedOff, LeaveLine, LineInv
<1>2. <<KeyOf(want[r])>> \in cause' \/ <<KeyOf(want[r]), want[r].cred>> \in cause'
  BY Parts DEF TextBackedOff, BackedOff, CacheInv, MarkersHaveCause
<1>3. ReplyIsSettled' /\ BackedOffForCause'
  BY <1>2, StandInIsSettled, SilenceIsSettled DEF TextBackedOff
<1>. QED
  BY <1>1, <1>3, EndKeepsIInv DEF TextBackedOff

LEMMA TakePlaceKeepsIInv ==
  ASSUME IInv, NEW r \in Req, TakePlace(r)
  PROVE  IInv'
<1>1. Wanted(K(r)) /\ TierOf(r) \in Tier
  BY UnderWay, Parts DEF TakePlace, ReqInv, OnlySyncsWait
<1>2. Tail(places[TierOf(r)]) \in Seq(Req)
  BY <1>1, Parts DEF LineInv, TakePlace
<1>3. LineInv'
  BY <1>1, <1>2, Parts DEF TakePlace, LineInv
<1>4. want[r].body = "text" => ~Stored(K(r)) /\ ~BackedOff(want[r])
  BY <1>1, Parts DEF TakePlace, TextsAreOpen
<1>. QED
  BY <1>1, <1>3, <1>4, MoveKeepsIInv DEF TakePlace, Phase, Holds

-----------------------------------------------------------------------------
(* The body *)

LEMMA NoBodyKeepsIInv ==
  ASSUME IInv, NEW r \in Req, NoBody(r)
  PROVE  IInv'
<1>1. LineInv'
  BY Parts DEF NoBody, LineInv
<1>. QED
  BY <1>1, EndKeepsIInv, SilenceIsSettled DEF NoBody

(* A body is stored under a key no sync has. *)
LEMMA BodyIsStored ==
  ASSUME IInv, NEW r \in Req, pc[r] # "idle",
         store' \in {store, [store EXCEPT ![Raw(K(r))] = "unaligned"]},
         UNCHANGED <<hasAnchor, shared, mine, losses, cause>>
  PROVE  CacheInv' /\ \A k \in Key : Wanted(k) => store'[k] = store[k]
<1>1. Raw(K(r)) \in Key /\ ~Wanted(Raw(K(r)))
  BY UnderWay, RawFacts
<1>2. store' \in [Key -> Made] /\ StoreIsSettled'
      /\ \A k \in Key : Wanted(k) => store'[k] = store[k]
  BY <1>1, Parts DEF CacheInv, StoreIsSettled, Wanted, Made
<1>. QED
  BY <1>2, Parts DEF CacheInv, MarkersHaveCause

LEMMA GotBodyKeepsIInv ==
  ASSUME IInv, NEW r \in Req, GotBody(r)
  PROVE  IInv'
<1>1. pc[r] = "fetching" /\ UNCHANGED <<hasAnchor, places, shared, mine, losses, cause>>
      /\ store' \in {store, [store EXCEPT ![Raw(K(r))] = "unaligned"]}
  BY DEF GotBody
<1>2. CacheInv' /\ \A k \in Key : Wanted(k) => store'[k] = store[k]
  BY <1>1, BodyIsStored
<1>3. /\ want[r] # NoWant /\ K(r) \in Key
      /\ Wanted(K(r)) => Meant(want[r]) = "aligned"
      /\ ~Wanted(K(r)) /\ want[r].anchorKnown => Meant(want[r]) = "unaligned"
  BY <1>1, UnderWay, SyncServeAssumption
<1>4. CASE Silent
  <2>1. Wanted(K(r)) /\ pc' = [pc EXCEPT ![r] = "preparing"] /\ UNCHANGED <<want, waiting>>
    BY <1>3, <1>4 DEF GotBody, Silent, Silence, Deliver, StandIn, Prepare
  <2>2. ReqInv'
    BY <1>1, <2>1, MoveKeepsReqInv DEF Phase, Holds
  <2>3. TextsAreOpen'
    <3>1. /\ pc'[r] = "preparing"
          /\ \A q \in Req \ {r} : pc'[q] = pc[q] /\ want'[q] = want[q]
      BY <2>1, Parts DEF ReqInv
    <3>2. ASSUME NEW q \in Req, Holds(q), Wanted(K(q)) PROVE store'[K(q)] = store[K(q)]
      BY <1>2, <3>2, UnderWay DEF Holds
    <3>. QED
      BY <1>1, <3>1, <3>2, OthersStayOpen DEF Stored, BackedOff, K
  <2>. QED
    BY <1>1, <1>2, <1>4, <2>1, <2>2, <2>3, SilenceIsSettled, Parts, PartsAfter DEF LineInv
<1>5. CASE ~Silent
  <2>1. End(r) /\ UNCHANGED waiting
    BY <1>5 DEF GotBody, Silent
  <2>2. ReqInv'
    BY <1>1, <2>1, EndKeepsReqInv
  <2>3. TextsAreOpen'
    <3>1. /\ pc'[r] = "idle"
          /\ \A q \in Req \ {r} : pc'[q] = pc[q] /\ want'[q] = want[q]
      BY <2>1, Parts DEF ReqInv, End
    <3>2. ASSUME NEW q \in Req, Holds(q), Wanted(K(q)) PROVE store'[K(q)] = store[K(q)]
      BY <1>2, <3>2, UnderWay DEF Holds
    <3>. QED
      BY <1>1, <3>1, <3>2, OthersStayOpen DEF Stored, BackedOff, K
  <2>4. ReplyIsSettled' /\ BackedOffForCause'
    <3>1. CASE ~Wanted(K(r)) /\ Deliver(want[r], "unaligned", want[r].anchorKnown)
      BY <1>1, <1>3, <3>1, DeliveryIsSettled
    <3>2. CASE Wanted(K(r)) /\ Stored(K(r)) /\ Deliver(want[r], store[K(r)], TRUE)
      <4>1. store[K(r)] = "aligned"
        BY <1>3, <3>2, Parts DEF CacheInv, StoreIsSettled, Stored
      <4>. QED
        BY <1>1, <1>3, <3>2, <4>1, DeliveryIsSettled
    <3>3. CASE BackedOff(want[r]) /\ StandIn(want[r], TRUE)
      <4>1. <<KeyOf(want[r])>> \in cause \/ <<KeyOf(want[r]), want[r].cred>> \in cause
        BY <3>3, Parts DEF BackedOff, CacheInv, MarkersHaveCause
      <4>. QED
        BY <1>1, <3>3, <4>1, StandInIsSettled
    <3>. QED
      BY <1>5, <3>1, <3>2, <3>3 DEF GotBody
  <2>. QED
    BY <1>1, <1>2, <2>1, <2>2, <2>3, <2>4, Parts, PartsAfter DEF LineInv
<1>. QED
  BY <1>4, <1>5

-----------------------------------------------------------------------------
(* The ladder *)

LEMMA PreparedKeepsIInv ==
  ASSUME IInv, NEW r \in Req, Prepared(r)
  PROVE  IInv'
<1>1. Wanted(K(r)) /\ LineInv'
  BY Parts DEF Prepared, ReqInv, OnlySyncsWait, LineInv
<1>. QED
  BY <1>1, MoveKeepsIInv DEF Prepared, Phase, Holds

(* Nobody else holds the flight of a key that is worked on. *)
LEMMA WorkersAreAlone ==
  ASSUME IInv, NEW r \in Req, AtWork(r), NEW q \in Req \ {r}, Holds(q), Wanted(K(q))
  PROVE  K(q) # K(r)
BY Parts DEF ReqInv, OneHolder, Holds, AtWork

LEMMA SyncFailsKeepsIInv ==
  ASSUME IInv, NEW r \in Req, NEW mineOnly \in BOOLEAN, AtWork(r), SyncFails(r, mineOnly)
  PROVE  IInv'
<1>1. UNCHANGED <<hasAnchor, waiting, places, store, losses>> /\ End(r)
      /\ StandIn(want[r], FALSE)
  BY DEF SyncFails
<1>2. K(r) \in Key /\ want[r].cred \in Cred /\ KeyOf(want[r]) = K(r)
  BY UnderWay, SyncServeAssumption DEF AtWork, Want, K
<1>3. \/ /\ mine' = mine \cup {<<K(r), want[r].cred>>} /\ shared' = shared
         /\ cause' = cause \cup {<<K(r), want[r].cred>>}
      \/ /\ shared' = shared \cup {K(r)} /\ mine' = mine
         /\ cause' = cause \cup {<<K(r)>>}
  BY <1>2 DEF SyncFails, Mark
<1>4. CacheInv'
  <2>1. StoreIsSettled'
    BY <1>1, Parts DEF CacheInv, StoreIsSettled, Wanted
  <2>2. MarkersHaveCause'
    BY <1>3, Parts DEF CacheInv, MarkersHaveCause
  <2>. QED
    BY <1>1, <1>2, <1>3, <2>1, <2>2, Parts DEF CacheInv
<1>5. TextsAreOpen'
  <2>1. /\ pc'[r] = "idle"
        /\ \A q \in Req \ {r} : pc'[q] = pc[q] /\ want'[q] = want[q]
    BY <1>1, Parts DEF ReqInv, End
  <2>2. ASSUME NEW q \in Req \ {r}, Holds(q), Wanted(K(q))
        PROVE  /\ ~Stored(K(q)) => store'[K(q)] = "nothing"
               /\ ~BackedOff(want[q]) =>
                    K(q) \notin shared' /\ <<K(q), want[q].cred>> \notin mine'
    BY <1>1, <1>3, <2>2, WorkersAreAlone DEF Stored, BackedOff, K
  <2>. QED
    BY <1>1, <2>1, <2>2, OthersStayOpen
<1>6. ReplyIsSettled' /\ BackedOffForCause'
  BY <1>1, StandInIsSettled
<1>. QED
  BY <1>1, <1>4, <1>5, <1>6, EndKeepsReqInv, Parts, PartsAfter DEF LineInv

LEMMA AlignedKeepsIInv ==
  ASSUME IInv, NEW r \in Req, Aligned(r)
  PROVE  IInv'
<1>1. UNCHANGED <<hasAnchor, waiting, places, shared, mine, losses, cause>> /\ End(r)
      /\ Deliver(want[r], "aligned", TRUE) /\ store' = [store EXCEPT ![K(r)] = "aligned"]
  BY DEF Aligned, AlignedBody
<1>2. K(r) \in Key /\ Wanted(K(r)) /\ Meant(want[r]) = "aligned"
  BY UnderWay, Parts DEF Aligned, ReqInv, OnlySyncsWait
<1>3. CacheInv'
  <2>1. store' \in [Key -> Made] /\ StoreIsSettled'
    BY <1>1, <1>2, Parts DEF CacheInv, StoreIsSettled, Wanted, Made
  <2>. QED
    BY <1>1, <2>1, Parts DEF CacheInv, MarkersHaveCause
<1>4. TextsAreOpen'
  <2>1. /\ pc'[r] = "idle"
        /\ \A q \in Req \ {r} : pc'[q] = pc[q] /\ want'[q] = want[q]
    BY <1>1, Parts DEF ReqInv, End
  <2>2. ASSUME NEW q \in Req \ {r}, Holds(q), Wanted(K(q)) PROVE store'[K(q)] = store[K(q)]
    <3>1. K(q) # K(r)
      BY <2>2, WorkersAreAlone DEF Aligned, AtWork
    <3>2. K(q) \in Key
      BY <2>2, UnderWay DEF Holds
    <3>. QED
      BY <1>1, <3>1, <3>2, Parts DEF CacheInv
  <2>. QED
    BY <1>1, <2>1, <2>2, OthersStayOpen DEF Stored, BackedOff, K
<1>5. ReplyIsSettled' /\ BackedOffForCause'
  BY <1>1, <1>2, DeliveryIsSettled
<1>. QED
  BY <1>1, <1>3, <1>4, <1>5, EndKeepsReqInv, Parts, PartsAfter DEF LineInv

LEMMA PreparationFailsKeepsIInv ==
  ASSUME IInv, NEW r \in Req, PreparationFails(r)
  PROVE  IInv'
BY SyncFailsKeepsIInv DEF PreparationFails, AtWork

LEMMA AlignerFailsKeepsIInv ==
  ASSUME IInv, NEW r \in Req, AlignerFails(r)
  PROVE  IInv'
BY SyncFailsKeepsIInv DEF AlignerFails, AtWork

-----------------------------------------------------------------------------
(* The surroundings *)

LEMMA UnqueuedIsASequence ==
  ASSUME NEW line \in Seq(Req), NEW r, NEW left \in Unqueued(line, r)
  PROVE  left \in Seq(Req)
<1>1. PICK i \in 1..Len(line) : left = RemoveAt(line, i)
  BY DEF Unqueued
<1>2. Len(line) \in Nat
  OBVIOUS
<1>3. SubSeq(line, 1, i-1) \in Seq(Req) /\ SubSeq(line, i+1, Len(line)) \in Seq(Req)
  BY <1>2
<1>. QED
  BY <1>1, <1>3 DEF RemoveAt

LEMMA LeaveKeepsIInv ==
  ASSUME IInv, NEW r \in Req, Leave(r)
  PROVE  IInv'
<1>1. pc[r] # "idle" /\ LeavesLines(r) /\ End(r) /\ Silent
      /\ UNCHANGED <<hasAnchor, store, shared, mine, losses, cause>>
  BY DEF Leave
<1>2. K(r) \in Key
  BY <1>1, UnderWay
<1>3. waiting' \in [Key -> Seq(Req)]
  <2>1. CASE pc[r] = "wantsFlight"
    <3>1. PICK line \in Unqueued(waiting[K(r)], r) : waiting' = [waiting EXCEPT ![K(r)] = line]
      BY <1>1, <2>1 DEF LeavesLines
    <3>2. line \in Seq(Req)
      BY <1>2, UnqueuedIsASequence, Parts DEF LineInv
    <3>. QED
      BY <3>1, <3>2, Parts DEF LineInv
  <2>2. CASE pc[r] # "wantsFlight"
    BY <1>1, <2>2, Parts DEF LeavesLines, LineInv
  <2>. QED
    BY <2>1, <2>2
<1>4. places' \in [Tier -> Seq(Req)]
  <2>1. CASE pc[r] = "wantsPlace"
    <3>1. TierOf(r) \in Tier
      BY <2>1, <1>1, UnderWay, Parts DEF ReqInv, OnlySyncsWait
    <3>2. PICK line \in Unqueued(places[TierOf(r)], r) :
            places' = [places EXCEPT ![TierOf(r)] = line]
      BY <1>1, <2>1 DEF LeavesLines
    <3>3. line \in Seq(Req)
      BY <3>1, UnqueuedIsASequence, Parts DEF LineInv
    <3>. QED
      BY <3>2, <3>3, Parts DEF LineInv
  <2>2. CASE pc[r] # "wantsPlace"
    BY <1>1, <2>2, Parts DEF LeavesLines, LineInv
  <2>. QED
    BY <2>1, <2>2
<1>. QED
  BY <1>1, <1>3, <1>4, EndKeepsIInv, SilenceIsSettled DEF LineInv

(* A marker goes with its cause, and takes no other's. *)
LEMMA LossKeepsCauses ==
  ASSUME IInv, NEW k \in Key, Lose(k)
  PROVE  MarkersHaveCause'
<1>1. /\ \A j \in shared : <<j>> \in cause
      /\ \A m \in mine : m \in cause
      /\ mine \subseteq Key \X Cred
  BY Parts DEF CacheInv, MarkersHaveCause
<1>2. ASSUME NEW j, NEW i, NEW c PROVE <<j>> # <<i, c>>
  <2>1. Len(<<j>>) = 1 /\ Len(<<i, c>>) = 2
    OBVIOUS
  <2>. QED
    BY <2>1
<1>3. CASE UNCHANGED <<shared, mine, cause>>
  BY <1>1, <1>3 DEF MarkersHaveCause
<1>4. CASE shared' = shared \ {k} /\ cause' = cause \ {<<k>>} /\ UNCHANGED mine
  <2>1. \A m \in mine : m # <<k>>
    BY <1>1, <1>2
  <2>. QED
    BY <1>1, <1>4, <2>1 DEF MarkersHaveCause
<1>5. CASE \E c \in Cred : mine' = mine \ {<<k, c>>} /\ cause' = cause \ {<<k, c>>} /\ UNCHANGED shared
  BY <1>1, <1>2, <1>5 DEF MarkersHaveCause
<1>. QED
  BY <1>3, <1>4, <1>5 DEF Lose

LEMMA LoseKeepsIInv ==
  ASSUME IInv, NEW k \in Key, Lose(k)
  PROVE  IInv'
<1>1. /\ UNCHANGED <<hasAnchor, pc, want, waiting, places>> /\ Silent
      /\ losses < MaxLosses /\ losses' = losses + 1
      /\ store' \in {store, [store EXCEPT ![k] = "nothing"]}
      /\ shared' \subseteq shared /\ mine' \subseteq mine
  BY DEF Lose
<1>2. ReqInv' /\ LineInv'
  BY <1>1, SameKey, Parts DEF ReqInv, LineInv, OnlySyncsWait, OneHolder, Holds, Wanted
<1>3. store' \in [Key -> Made] /\ StoreIsSettled'
      /\ \A j \in Key : store'[j] \in {store[j], "nothing"}
  BY <1>1, Parts DEF CacheInv, StoreIsSettled, Wanted, Made
<1>4. losses' \in 0..MaxLosses
  BY <1>1, SyncServeAssumption, Parts DEF CacheInv
<1>5. CacheInv'
  BY <1>1, <1>3, <1>4, LossKeepsCauses, Parts DEF CacheInv
<1>6. TextsAreOpen'
  <2>1. ASSUME NEW q \in Req, pc'[q] \in {"wantsPlace", "fetching"},
               want'[q].body = "text", Wanted(K(q)')
        PROVE  ~Stored(K(q))' /\ ~BackedOff(want[q])'
    <3>1. K(q)' = K(q) /\ KeyOf(want[q])' = K(q) /\ KeyOf(want[q]) = K(q) /\ K(q) \in Key
      BY <1>1, <2>1, SameKey, UnderWay DEF K
    <3>2. ~Stored(K(q)) /\ ~BackedOff(want[q])
      BY <1>1, <2>1, <3>1, Parts DEF TextsAreOpen, Wanted
    <3>. QED
      BY <1>1, <1>3, <3>1, <3>2 DEF Stored, BackedOff
  <2>. QED
    BY <2>1 DEF TextsAreOpen, Wanted
<1>. QED
  BY <1>1, <1>2, <1>5, <1>6, SilenceIsSettled, Parts, PartsAfter

LEMMA NoStepKeepsIInv ==
  ASSUME IInv, UNCHANGED vars
  PROVE  IInv'
<1>1. /\ UNCHANGED <<hasAnchor, pc, want, waiting, places, store, shared, mine, losses, cause>>
      /\ reply' = reply
  BY DEF vars
<1>2. ReqInv' /\ LineInv'
  BY <1>1, SameKey, Parts DEF ReqInv, LineInv, OnlySyncsWait, OneHolder, Holds, Wanted
<1>3. TextsAreOpen' /\ ReplyIsSettled' /\ BackedOffForCause'
  BY <1>1, SameKey, Parts
     DEF TextsAreOpen, ReplyIsSettled, BackedOffForCause, Stored, BackedOff, Wanted
<1>. QED
  BY <1>1, <1>2, <1>3, SameCache, Parts, PartsAfter

LEMMA StepKeepsIInv == IInv /\ [Next]_vars => IInv'
<1>. SUFFICES ASSUME IInv, [Next]_vars PROVE IInv'
  OBVIOUS
<1>1. ASSUME NEW w \in Asked, ServeHit(w) PROVE IInv'
  BY <1>1, ServeHitKeepsIInv
<1>2. ASSUME NEW r \in Req, NEW w \in Asked, Ask(r, w) PROVE IInv'
  BY <1>2, AskKeepsIInv
<1>3. ASSUME NEW r \in Req, SettledMeanwhile(r) PROVE IInv'
  BY <1>3, SettledMeanwhileKeepsIInv
<1>4. ASSUME NEW r \in Req, TakeFlight(r) PROVE IInv'
  BY <1>4, TakeFlightKeepsIInv
<1>5. ASSUME NEW r \in Req, TextBackedOff(r) PROVE IInv'
  BY <1>5, TextBackedOffKeepsIInv
<1>6. ASSUME NEW r \in Req, TakePlace(r) PROVE IInv'
  BY <1>6, TakePlaceKeepsIInv
<1>7. ASSUME NEW r \in Req, GotBody(r) PROVE IInv'
  BY <1>7, GotBodyKeepsIInv
<1>8. ASSUME NEW r \in Req, NoBody(r) PROVE IInv'
  BY <1>8, NoBodyKeepsIInv
<1>9. ASSUME NEW r \in Req, Prepared(r) PROVE IInv'
  BY <1>9, PreparedKeepsIInv
<1>10. ASSUME NEW r \in Req, PreparationFails(r) PROVE IInv'
  BY <1>10, PreparationFailsKeepsIInv
<1>11. ASSUME NEW r \in Req, AlignerFails(r) PROVE IInv'
  BY <1>11, AlignerFailsKeepsIInv
<1>12. ASSUME NEW r \in Req, Aligned(r) PROVE IInv'
  BY <1>12, AlignedKeepsIInv
<1>13. ASSUME NEW r \in Req, Leave(r) PROVE IInv'
  BY <1>13, LeaveKeepsIInv
<1>14. ASSUME NEW k \in Key, Lose(k) PROVE IInv'
  BY <1>14, LoseKeepsIInv
<1>15. CASE UNCHANGED vars
  BY <1>15, NoStepKeepsIInv
<1>. QED
  BY <1>1, <1>2, <1>3, <1>4, <1>5, <1>6, <1>7, <1>8, <1>9, <1>10, <1>11, <1>12, <1>13,
     <1>14, <1>15 DEF Next

LEMMA Invariant == Spec => []IInv
BY InitIInv, StepKeepsIInv, PTL DEF Spec

-----------------------------------------------------------------------------
(* What is proved *)

(* Type correctness: whoever is under way asks for something, and the      *)
(* lines of flights and places hold requests only.                         *)
THEOREM TypeCorrectness == Spec => []TypeOK
<1>1. IInv => TypeOK
  BY DEF IInv
<1>. QED
  BY <1>1, Invariant, PTL

(* A key holds nothing but its settled answer, and no client is told to    *)
(* keep anything else (`srt` against `srt_provisional`, addon.rs).         *)
THEOREM SettledAnswers == Spec => []SettledIsTheAnswer
<1>1. IInv => SettledIsTheAnswer
  BY DEF IInv
<1>. QED
  BY <1>1, Invariant, PTL

(* The marker of one credential's failure backs no other credential off.   *)
THEOREM BackoffHasCause == Spec => []BackedOffForCause
<1>1. IInv => BackedOffForCause
  BY DEF IInv
<1>. QED
  BY <1>1, Invariant, PTL

(* A request that goes to work has just got its body: a text found its key *)
(* open when it took the flight, a file when it got the body.              *)
LEMMA StepWorksOnTheOpen ==
  ASSUME IInv, [Next]_vars, NEW r \in Req, ~AtWork(r), AtWork(r)'
  PROVE  /\ ~Stored(K(r)) /\ ~BackedOff(want[r])
         /\ \A s \in Req \ {r} : AtWork(s) => K(s) # K(r)
<1>1. ASSUME NEW q \in Req, End(q) PROVE FALSE
  BY <1>1, Parts DEF ReqInv, End, AtWork
<1>2. ASSUME NEW q \in Req, NEW p \in Phase, pc' = [pc EXCEPT ![q] = p],
             p \notin {"preparing", "aligning"} \/ AtWork(q)
      PROVE  FALSE
  BY <1>2, Parts DEF ReqInv, AtWork
<1>3. pc' # pc
  BY DEF AtWork
<1>4. PICK q \in Req : GotBody(q)
  <2>1. ASSUME NEW q \in Req, NEW w \in Asked, Ask(q, w) PROVE FALSE
    BY <1>2, <2>1 DEF Ask, Phase
  <2>2. ASSUME NEW q \in Req,
               SettledMeanwhile(q) \/ TextBackedOff(q) \/ NoBody(q) \/ PreparationFails(q)
                 \/ AlignerFails(q) \/ Aligned(q) \/ Leave(q)
        PROVE  FALSE
    BY <1>1, <2>2
       DEF SettledMeanwhile, TextBackedOff, NoBody, PreparationFails, AlignerFails, SyncFails,
           Aligned, Leave
  <2>3. ASSUME NEW q \in Req, TakeFlight(q) \/ TakePlace(q) PROVE FALSE
    BY <1>2, <2>3 DEF TakeFlight, TakePlace, Phase
  <2>4. ASSUME NEW q \in Req, Prepared(q) PROVE FALSE
    BY <1>2, <2>4 DEF Prepared, Phase, AtWork
  <2>5. ASSUME NEW w \in Asked, ServeHit(w) PROVE FALSE
    BY <1>3, <2>5 DEF ServeHit
  <2>6. ASSUME NEW k \in Key, Lose(k) PROVE FALSE
    BY <1>3, <2>6 DEF Lose
  <2>7. CASE UNCHANGED vars
    BY <1>3, <2>7 DEF vars
  <2>. QED
    BY <2>1, <2>2, <2>3, <2>4, <2>5, <2>6, <2>7 DEF Next
<1>5. Prepare(q) /\ reply' = Silence
  BY <1>1, <1>4 DEF GotBody
<1>6. q = r
  BY <1>5, Parts DEF Prepare, ReqInv, AtWork
<1>7. pc[r] = "fetching" /\ want[r] # NoWant /\ Wanted(K(r))
  BY <1>4, <1>5, <1>6, UnderWay, SyncServeAssumption DEF GotBody, Deliver, Silence
<1>8. ~Stored(K(r)) /\ ~BackedOff(want[r])
  <2>1. CASE want[r].body = "text"
    BY <1>7, <2>1, Parts DEF TextsAreOpen
  <2>2. CASE want[r].body # "text"
    <3>1. want[r].body = "file"
      BY <1>7, <2>2, UnderWay, SyncServeAssumption DEF Want
    <3>. QED
      BY <1>4, <1>5, <1>6, <1>7, <3>1 DEF GotBody, Deliver, StandIn, Silence
  <2>. QED
    BY <2>1, <2>2
<1>9. \A s \in Req \ {r} : AtWork(s) => K(s) # K(r)
  BY <1>7, Parts DEF ReqInv, OneHolder, Holds, AtWork
<1>. QED
  BY <1>8, <1>9

(* A tier goes to work for one request per key, and never for a key that   *)
(* is settled or backed off, whatever happened since the request queued.   *)
THEOREM WorkIsOpen == Spec => WorksOnlyOnTheOpen
<1>1. IInv /\ [Next]_vars =>
        [\A r \in Req : ~AtWork(r) /\ AtWork(r)' =>
           /\ ~Stored(K(r)) /\ ~BackedOff(want[r])
           /\ \A s \in Req \ {r} : AtWork(s) => K(s) # K(r)]_vars
  BY StepWorksOnTheOpen
<1>. QED
  BY <1>1, Invariant, PTL DEF Spec, WorksOnlyOnTheOpen

-----------------------------------------------------------------------------
(* Lines without the blank ones.                                           *)
LEMMA CompactIs ==
    ASSUME NEW S, NEW text \in Seq(S)
    PROVE  /\ Compact(text) \in Seq(S)
           /\ \A i \in 1..Len(Compact(text)) : ~Blank(Compact(text)[i])
           /\ BlankText(text) => Compact(text) = <<>>
<1>. DEFINE n == Len(text)
            base == <<>>
            V == {lines \in Seq(S) : \A i \in 1..Len(lines) : ~Blank(lines[i])}
            Part(i) == IF Blank(text[i]) THEN <<>> ELSE <<text[i]>>
            step == [p \in V \X (1..n) |-> p[1] \o Part(p[2])]
            Body(f) == [i \in 0..n |-> IF i = 0 THEN <<>> ELSE f[i - 1] \o Part(i)]
            compact == CHOOSE f : f = Body(f)
<1>1. n \in Nat /\ DOMAIN text = 1..n /\ \A i \in 1..n : text[i] \in S
  OBVIOUS
<1>2. base \in V
  OBVIOUS
<1>3. \A lines \in V, i \in 1..n : lines \o Part(i) \in V
  <2>. SUFFICES ASSUME NEW lines \in V, NEW i \in 1..n PROVE lines \o Part(i) \in V
    OBVIOUS
  <2>1. CASE Blank(text[i])
    BY <2>1
  <2>2. CASE ~Blank(text[i])
    <3>1. text[i] \in S
      BY <1>1
    <3>2. lines \o Part(i) = Append(lines, text[i])
      BY <2>2, <3>1
    <3>3. Append(lines, text[i]) \in Seq(S) /\ Len(Append(lines, text[i])) = Len(lines) + 1
      BY <3>1
    <3>4. \A k \in 1..(Len(lines) + 1) : ~Blank(Append(lines, text[i])[k])
      BY <2>2, <3>1
    <3>. QED
      BY <3>2, <3>3, <3>4
  <2>. QED
    BY <2>1, <2>2
<1>. HIDE DEF V, Part
<1>4. step \in [V \X (1..n) -> V]
  BY <1>3
<1>5. PICK f : Recurs(f, n, V, base, step)
  <2>. HIDE DEF step, n, base
  <2>. QED
    BY <1>1, <1>2, <1>4, RecursionExists
<1>6. compact = Body(compact)
  <2>1. f \in [0..n -> V] /\ f[0] = <<>> /\ \A i \in 1..n : f[i - 1] \in V /\ f[i] = f[i - 1] \o Part(i)
    BY <1>5 DEF Recurs
  <2>2. \A i \in 0..n : f[i] = IF i = 0 THEN <<>> ELSE f[i - 1] \o Part(i)
    <3>1. \A i \in 0..n : i # 0 => i \in 1..n
      BY <1>1
    <3>. HIDE DEF n
    <3>. QED
      BY <2>1, <3>1
  <2>3. f = Body(f)
    <3>. HIDE DEF n
    <3>. QED
      BY <2>1, <2>2
  <2>. QED
    BY <2>3, Zenon
<1>7. Compact(text) = compact[n]
  BY Zenon DEF Compact, Part
<1>. HIDE DEF compact
<1>8. compact[0] = <<>> /\ \A i \in 1..n : compact[i] = compact[i - 1] \o Part(i)
  <2>1. \A i \in 0..n : compact[i] = IF i = 0 THEN <<>> ELSE compact[i - 1] \o Part(i)
    BY <1>6, Zenon
  <2>2. 0 \in 0..n /\ \A i \in 1..n : i \in 0..n /\ i # 0
    BY <1>1
  <2>. HIDE DEF n
  <2>. QED
    BY <2>1, <2>2
<1>9. n \in 0..n
  BY <1>1
<1>10. compact[n] \in V
  <2>1. compact[0] \in V /\ \A i \in 1..n : compact[i - 1] \in V => compact[i] \in V
    BY <1>2, <1>3, <1>8
  <2>. HIDE DEF n
  <2>. QED
    BY <1>1, <1>9, <2>1, RecursionKeeps
<1>11. ASSUME BlankText(text) PROVE compact[n] = <<>>
  <2>. DEFINE None == {<<>>}
  <2>1. \A i \in 1..n : Part(i) = <<>>
    BY <1>1, <1>11 DEF BlankText, Part
  <2>2. compact[0] \in None /\ \A i \in 1..n : compact[i - 1] \in None => compact[i] \in None
    BY <1>8, <2>1
  <2>3. compact[n] \in None
    <3>. HIDE DEF n, None
    <3>. QED
      BY <1>1, <1>9, <2>2, RecursionKeeps
  <2>. QED
    BY <2>3
<1>. QED
  BY <1>7, <1>10, <1>11 DEF V

(* The lines of a cue: its number, its timing, its words, and a separator. *)
Words(cue) == Len(Compact(cue.text))

Lined(cue, lines) ==
    /\ Words(cue) \in Nat /\ Len(lines) \in Nat /\ Len(lines) >= Words(cue) + 3
    /\ lines[1] = Line("index", cue.index)
    /\ lines[2] = Line("timing", cue.timing)
    /\ \A j \in 1..Words(cue) : /\ lines[j + 2] = Compact(cue.text)[j]
                               /\ ~Blank(Compact(cue.text)[j])
    /\ \A j \in (Words(cue) + 3)..Len(lines) : lines[j] = EmptyLine

LEMMA CueLinesAre ==
    ASSUME NEW S, NEW cue, cue.text \in Seq(S),
           {EmptyLine, Line("index", cue.index), Line("timing", cue.timing)} \subseteq S
    PROVE  CueLines(cue) \in Seq(S) /\ Lined(cue, CueLines(cue))
<1>. DEFINE words == Compact(cue.text)
            body == IF words = <<>> THEN <<EmptyLine>> ELSE words
            header == <<Line("index", cue.index), Line("timing", cue.timing)>>
            T == S
            last == <<EmptyLine>>
            upto == header \o body
<1>1. words \in Seq(S) /\ \A i \in 1..Len(words) : ~Blank(words[i])
  BY CompactIs
<1>. HIDE DEF words
<1>2. Len(words) \in Nat /\ words \in Seq(T) /\ body \in Seq(T) /\ header \in Seq(T) /\ last \in Seq(T)
  <2>1. header \in Seq(T) /\ last \in Seq(T)
    <3>1. EmptyLine \in T /\ Line("index", cue.index) \in T /\ Line("timing", cue.timing) \in T
      OBVIOUS
    <3>. HIDE DEF T
    <3>. QED
      BY <3>1
  <2>2. words \in Seq(T) /\ Len(words) \in Nat
    BY <1>1
  <2>. HIDE DEF header
  <2>3. body \in Seq(T)
    <3>1. <<EmptyLine>> \in Seq(T)
      BY <2>1
    <3>. QED
      BY <2>2, <3>1
  <2>. QED
    BY <2>1, <2>2, <2>3
<1>3. /\ Len(header) = 2 /\ header[1] = Line("index", cue.index) /\ header[2] = Line("timing", cue.timing)
      /\ Len(last) = 1 /\ last[1] = EmptyLine
  OBVIOUS
<1>4. /\ Len(body) \in Nat /\ Len(body) >= Len(words) /\ Len(body) <= Len(words) + 1
      /\ \A j \in 1..Len(words) : body[j] = words[j]
      /\ \A j \in (Len(words) + 1)..Len(body) : body[j] = EmptyLine
      /\ Len(words) = 0 => Len(body) = 1
  <2>1. CASE words = <<>>
    BY <1>2, <2>1
  <2>2. CASE words # <<>>
    BY <1>1, <1>2, <2>2
  <2>. QED
    BY <2>1, <2>2
<1>. HIDE DEF body, header, last, T
<1>5. /\ upto \in Seq(T) /\ Len(upto) = 2 + Len(body)
      /\ upto[1] = header[1] /\ upto[2] = header[2]
      /\ \A j \in 1..Len(body) : upto[2 + j] = body[j]
  <2>1. /\ upto \in Seq(T) /\ Len(upto) = Len(header) + Len(body)
        /\ \A p \in 1..Len(header) : upto[p] = header[p]
        /\ \A j \in 1..Len(body) : upto[Len(header) + j] = body[j]
    BY <1>2, Concatenation
  <2>2. 1 \in 1..2 /\ 2 \in 1..2
    OBVIOUS
  <2>. QED
    BY <1>3, <2>1, <2>2
<1>. HIDE DEF upto
<1>6. CueLines(cue) = upto \o last
  BY DEF CueLines, upto, header, body, last, words
<1>. DEFINE lines == CueLines(cue)
<1>. HIDE DEF lines
<1>7. /\ lines \in Seq(T) /\ Len(lines) = Len(upto) + 1
      /\ \A p \in 1..Len(upto) : lines[p] = upto[p]
      /\ lines[Len(upto) + 1] = EmptyLine
  <2>. DEFINE all == upto \o last
  <2>1. /\ all \in Seq(T) /\ Len(all) = Len(upto) + Len(last)
        /\ \A p \in 1..Len(upto) : all[p] = upto[p]
        /\ \A j \in 1..Len(last) : all[Len(upto) + j] = last[j]
    <3>1. upto \in Seq(T) /\ last \in Seq(T)
      BY <1>2, <1>5
    <3>2. /\ upto \o last \in Seq(T) /\ Len(upto \o last) = Len(upto) + Len(last)
          /\ \A p \in 1..Len(upto) : (upto \o last)[p] = upto[p]
          /\ \A j \in 1..Len(last) : (upto \o last)[Len(upto) + j] = last[j]
      BY ONLY <3>1, Concatenation
    <3>. QED
      BY <3>2
  <2>2. 1 \in 1..1
    OBVIOUS
  <2>3. lines = all
    BY <1>6 DEF lines
  <2>. HIDE DEF all
  <2>. QED
    BY <1>3, <2>1, <2>2, <2>3
<1>8. Len(lines) = Len(body) + 3 /\ Len(lines) \in Nat /\ Len(lines) >= Len(words) + 3
  BY <1>2, <1>4, <1>5, <1>7
<1>9. lines[1] = header[1] /\ lines[2] = header[2]
  BY <1>4, <1>5, <1>7
<1>10. ASSUME NEW j \in 1..Len(body) PROVE lines[j + 2] = body[j]
  <2>1. j + 2 \in 1..Len(upto) /\ j + 2 = 2 + j
    BY <1>4, <1>5
  <2>. QED
    BY <1>5, <1>7, <2>1
<1>11. \A j \in 1..Len(words) : lines[j + 2] = words[j] /\ ~Blank(words[j])
  BY <1>1, <1>2, <1>4, <1>10
<1>12. ASSUME NEW j \in (Len(words) + 3)..Len(lines) PROVE lines[j] = EmptyLine
  <2>1. CASE j = Len(upto) + 1
    BY <1>7, <2>1
  <2>2. CASE j # Len(upto) + 1
    <3>1. j - 2 \in (Len(words) + 1)..Len(body) /\ (j - 2) + 2 = j /\ j - 2 \in 1..Len(body)
      BY <1>2, <1>4, <1>5, <1>7, <2>2
    <3>. QED
      BY <1>4, <1>10, <3>1
  <2>. QED
    BY <2>1, <2>2
<1>. QED
  BY <1>1, <1>2, <1>3, <1>7, <1>8, <1>9, <1>11, <1>12 DEF Lined, Words, words, lines, T


-----------------------------------------------------------------------------
(* A document is lines, each of a kind; what is read of it is cues made of *)
(* their values and their lines.                                           *)
Values(S)   == {line.value : line \in S}
CuesOver(S) == [index : Nat \cup Values(S), timing : Values(S), text : Seq(S)]

Starts(doc) == {i \in Kept(doc) : i - 1 \notin Kept(doc)}

EndsAt(doc, start, e) ==
    e \in start..Len(doc) /\ start..e \subseteq Kept(doc) /\ e + 1 \notin Kept(doc)

(* A block ends before the next separator, at the latest with the document.*)
LEMMA BlockIs ==
    ASSUME NEW S, NEW doc \in Seq(S), NEW start \in Kept(doc)
    PROVE  \E e : EndsAt(doc, start, e) /\ Block(doc, Kept(doc), start) = SubSeq(doc, start, e)
<1>. DEFINE n == Len(doc)
            kept == Kept(doc)
            T == {e \in start..n : e + 1 \notin kept}
            end == CHOOSE e \in start..n : start..e \subseteq kept /\ e + 1 \notin kept
<1>1. n \in Nat /\ kept \subseteq 1..n /\ start \in 1..n
  BY DEF Kept
<1>. HIDE DEF n, kept
<1>2. n \in T /\ T \subseteq Nat
  BY <1>1
<1>3. PICK x \in T : \A y \in T : x <= y
  <2>1. T # {}
    BY <1>2
  <2>. HIDE DEF T
  <2>. QED
    BY <1>2, <2>1, LeastNumber
<1>4. ASSUME NEW k \in start..x PROVE k \in kept
  <2>1. CASE k = start
    BY <2>1 DEF kept
  <2>2. CASE k # start
    <3>1. k - 1 \in start..n /\ (k - 1) + 1 = k /\ ~(x <= k - 1)
      BY <1>1, <1>3, <2>2
    <3>. QED
      BY <1>3, <3>1
  <2>. QED
    BY <2>1, <2>2
<1>5. \E e \in start..n : start..e \subseteq kept /\ e + 1 \notin kept
  BY <1>3, <1>4
<1>6. end \in start..n /\ start..end \subseteq kept /\ end + 1 \notin kept
  BY <1>5
<1>7. Block(doc, Kept(doc), start) = SubSeq(doc, start, end)
  BY DEF Block, n, kept
<1>. QED
  BY <1>6, <1>7 DEF EndsAt, n, kept

LEMMA PushCueIs ==
    ASSUME NEW S, NEW read \in Seq(CuesOver(S)), NEW block \in Seq(S), Len(block) >= 1
    PROVE  PushCue(read, block) \in Seq(CuesOver(S))
<1>. DEFINE timing == IF block[1].kind = "index" THEN 2 ELSE 1
            number == IF block[1].kind = "index" THEN block[1].value ELSE Len(read) + 1
            cue == Cue(number, block[timing].value, SubSeq(block, timing + 1, Len(block)))
<1>1. CASE Len(block) >= timing /\ block[timing].kind = "timing"
  <2>1. block[1] \in S /\ block[timing] \in S /\ Len(read) + 1 \in Nat /\ timing \in {1, 2} /\ Len(block) \in Nat
    BY <1>1
  <2>2. number \in Nat \cup Values(S) /\ block[timing].value \in Values(S)
    BY <2>1 DEF Values
  <2>3. SubSeq(block, timing + 1, Len(block)) \in Seq(S)
    BY <2>1
  <2>. HIDE DEF timing, number
  <2>4. cue \in CuesOver(S)
    BY <2>2, <2>3 DEF Cue, CuesOver
  <2>. HIDE DEF cue
  <2>5. PushCue(read, block) = Append(read, cue)
    BY <1>1, Zenon DEF PushCue, cue, timing, number
  <2>. QED
    BY <2>4, <2>5
<1>2. CASE ~(Len(block) >= timing /\ block[timing].kind = "timing")
  BY <1>2, Zenon DEF PushCue
<1>. QED
  BY <1>1, <1>2

(* The cues read by each line: those of the blocks that start by it.       *)
Reads(S, doc, read) ==
    /\ read \in [0..Len(doc) -> Seq(CuesOver(S))]
    /\ read[0] = <<>> /\ read[Len(doc)] = Parse(doc)
    /\ \A i \in 1..Len(doc) :
          /\ i \in Starts(doc) => read[i] = PushCue(read[i - 1], Block(doc, Kept(doc), i))
          /\ i \notin Starts(doc) => read[i] = read[i - 1]

LEMMA ParseIs ==
    ASSUME NEW S, NEW doc \in Seq(S)
    PROVE  \E read : Reads(S, doc, read)
<1>. DEFINE n == Len(doc)
            base == <<>>
            V == Seq(CuesOver(S))
            kept == Kept(doc)
            starts == {i \in kept : i - 1 \notin kept}
            With(before, i) == IF i \in starts THEN PushCue(before, Block(doc, kept, i)) ELSE before
            step == [p \in V \X (1..n) |-> With(p[1], p[2])]
            Body(f) == [i \in 0..n |-> CASE i = 0 -> <<>>
                                         [] i \in starts -> PushCue(f[i - 1], Block(doc, kept, i))
                                         [] OTHER -> f[i - 1]]
            read == CHOOSE f : f = Body(f)
<1>1. n \in Nat /\ base \in V /\ kept \subseteq 1..n /\ starts = Starts(doc) /\ 0 \notin starts
  BY DEF Kept, Starts
<1>. HIDE DEF starts
<1>2. \A before \in V, i \in 1..n : With(before, i) \in V
  <2>. SUFFICES ASSUME NEW before \in V, NEW i \in 1..n, i \in starts
                PROVE  PushCue(before, Block(doc, kept, i)) \in V
    OBVIOUS
  <2>1. i \in Kept(doc)
    BY DEF starts
  <2>2. PICK e : EndsAt(doc, i, e) /\ Block(doc, Kept(doc), i) = SubSeq(doc, i, e)
    BY <2>1, BlockIs
  <2>3. e \in i..Len(doc)
    BY <2>2 DEF EndsAt
  <2>4. SubSeq(doc, i, e) \in Seq(S) /\ Len(SubSeq(doc, i, e)) >= 1
    BY <2>3
  <2>. QED
    BY <2>2, <2>4, PushCueIs
<1>. HIDE DEF Next
<1>3. step \in [V \X (1..n) -> V]
  BY <1>2
<1>4. PICK f : Recurs(f, n, V, base, step)
  <2>. HIDE DEF step, n, base, V
  <2>. QED
    BY <1>1, <1>3, RecursionExists
<1>5. read = Body(read)
  <2>1. f \in [0..n -> V] /\ f[0] = <<>> /\ \A i \in 1..n : f[i - 1] \in V /\ f[i] = With(f[i - 1], i)
    BY <1>4 DEF Recurs
  <2>2. \A i \in 0..n : f[i] = CASE i = 0 -> <<>>
                                 [] i \in starts -> PushCue(f[i - 1], Block(doc, kept, i))
                                 [] OTHER -> f[i - 1]
    <3>. SUFFICES ASSUME NEW i \in 0..n
                  PROVE  f[i] = CASE i = 0 -> <<>>
                                  [] i \in starts -> PushCue(f[i - 1], Block(doc, kept, i))
                                  [] OTHER -> f[i - 1]
      OBVIOUS
    <3>1. CASE i = 0
      BY <1>1, <2>1, <3>1
    <3>2. CASE i # 0
      <4>1. i \in 1..n
        BY <1>1, <3>2
      <4>2. f[i] = With(f[i - 1], i)
        BY <2>1, <4>1
      <4>. QED
        BY <3>2, <4>2 DEF Next
    <3>. QED
      BY <3>1, <3>2
  <2>3. f = Body(f)
    <3>. HIDE DEF n, kept
    <3>. QED
      BY <2>1, <2>2
  <2>. QED
    BY <2>3, Zenon
<1>6. Parse(doc) = read[n]
  BY Zenon DEF Parse, starts
<1>. HIDE DEF read
<1>7. read[0] = <<>> /\ \A i \in 1..n : read[i] = With(read[i - 1], i)
  <2>1. \A i \in 0..n : read[i] = CASE i = 0 -> <<>>
                                 [] i \in starts -> PushCue(read[i - 1], Block(doc, kept, i))
                                 [] OTHER -> read[i - 1]
    BY <1>5, Zenon
  <2>2. 0 \in 0..n /\ \A i \in 1..n : i \in 0..n /\ i # 0
    BY <1>1
  <2>. HIDE DEF n, kept
  <2>3. read[0] = <<>>
    <3>1. read[0] = CASE 0 = 0 -> <<>>
                      [] 0 \in starts -> PushCue(read[0 - 1], Block(doc, kept, 0))
                      [] OTHER -> read[0 - 1]
      BY <2>1, <2>2
    <3>. QED
      BY <1>1, <3>1
  <2>4. ASSUME NEW i \in 1..n PROVE read[i] = With(read[i - 1], i)
    BY <2>1, <2>2, <2>4 DEF Next
  <2>. QED
    BY <2>3, <2>4
<1>8. \A i \in 0..n : read[i] \in V
  <2>1. read[0] \in V /\ \A i \in 1..n : read[i - 1] \in V => read[i] \in V
    BY <1>1, <1>2, <1>7
  <2>. HIDE DEF n, V
  <2>. QED
    BY <1>1, <2>1, RecursionKeeps
<1>9. DOMAIN read = 0..n /\ read = [i \in 0..n |-> read[i]]
  <2>. HIDE DEF n, kept
  <2>. QED
    BY <1>5, Zenon
<1>10. read \in [0..n -> V]
  <2>. HIDE DEF n, V
  <2>. QED
    BY <1>8, <1>9
<1>11. ASSUME NEW i \in 1..n
       PROVE  /\ i \in Starts(doc) => read[i] = PushCue(read[i - 1], Block(doc, Kept(doc), i))
              /\ i \notin Starts(doc) => read[i] = read[i - 1]
  BY <1>1, <1>7 DEF Next
<1>12. Reads(S, doc, read)
  BY <1>6, <1>7, <1>10, <1>11 DEF Reads
<1>. QED
  BY <1>12


-----------------------------------------------------------------------------
(* What the streaming test remembers by each line.                         *)
Memories == [hit : BOOLEAN, blockStart : BOOLEAN, afterIndex : BOOLEAN]

Sees(doc, seen) ==
    /\ seen \in [0..Len(doc) -> Memories]
    /\ seen[0] = StartOfDocument /\ seen[Len(doc)].hit = HasACue(doc)
    /\ \A i \in 1..Len(doc) : seen[i] = AfterLine(seen[i - 1], doc[i])

LEMMA AfterLineIs ==
    ASSUME NEW seen \in Memories, NEW line
    PROVE  /\ AfterLine(seen, line) \in Memories
           /\ seen.hit => AfterLine(seen, line) = seen
           /\ ~seen.hit =>
                 LET after == AfterLine(seen, line)
                 IN  /\ after.hit <=> line.kind = "timing" /\ (seen.blockStart \/ seen.afterIndex)
                     /\ after.blockStart <=> Blank(line)
                     /\ after.afterIndex <=> seen.blockStart /\ line.kind = "index"
<1>. DEFINE hit == line.kind = "timing" /\ (seen.blockStart \/ seen.afterIndex)
            blockStart == Blank(line)
            afterIndex == seen.blockStart /\ line.kind = "index"
            after == [hit |-> hit, blockStart |-> blockStart, afterIndex |-> afterIndex]
<1>1. hit \in BOOLEAN /\ blockStart \in BOOLEAN /\ afterIndex \in BOOLEAN
  <2>1. seen.blockStart \in BOOLEAN /\ seen.afterIndex \in BOOLEAN
    BY DEF Memories
  <2>2. hit \in BOOLEAN
    BY <2>1, SMT
  <2>3. blockStart \in BOOLEAN
    BY SMT DEF Blank
  <2>4. afterIndex \in BOOLEAN
    BY <2>1, SMT
  <2>. QED
    BY <2>2, <2>3, <2>4
<1>2. seen.hit => AfterLine(seen, line) = seen
  BY Zenon DEF AfterLine
<1>3. ~seen.hit => AfterLine(seen, line) = after
  BY Zenon DEF AfterLine
<1>. HIDE DEF hit, blockStart, afterIndex
<1>4. after.hit = hit /\ after.blockStart = blockStart /\ after.afterIndex = afterIndex
  OBVIOUS
<1>5. after \in Memories
  BY <1>1 DEF Memories
<1>. HIDE DEF after
<1>6. AfterLine(seen, line) \in Memories
  BY <1>2, <1>3, <1>5
<1>. QED
  BY <1>2, <1>3, <1>4, <1>6 DEF hit, blockStart, afterIndex

LEMMA HasACueIs ==
    ASSUME NEW S, NEW doc \in Seq(S)
    PROVE  \E seen : Sees(doc, seen)
<1>. DEFINE n == Len(doc)
            V == Memories
            base == StartOfDocument
            step == [p \in V \X (1..n) |-> AfterLine(p[1], doc[p[2]])]
            Body(f) == [i \in 0..n |-> IF i = 0 THEN StartOfDocument ELSE AfterLine(f[i - 1], doc[i])]
            seen == CHOOSE f : f = Body(f)
<1>1. n \in Nat /\ base \in V
  BY DEF StartOfDocument, Memories
<1>2. step \in [V \X (1..n) -> V]
  BY AfterLineIs
<1>3. PICK f : Recurs(f, n, V, base, step)
  <2>. HIDE DEF step, n, base, V
  <2>. QED
    BY <1>1, <1>2, RecursionExists
<1>4. seen = Body(seen)
  <2>1. f \in [0..n -> V] /\ f[0] = base /\ \A i \in 1..n : f[i - 1] \in V /\ f[i] = AfterLine(f[i - 1], doc[i])
    BY <1>3 DEF Recurs
  <2>2. \A i \in 0..n : i # 0 => i \in 1..n
    BY <1>1
  <2>3. \A i \in 0..n : f[i] = IF i = 0 THEN StartOfDocument ELSE AfterLine(f[i - 1], doc[i])
    <3>. HIDE DEF n
    <3>. QED
      BY <2>1, <2>2
  <2>4. f = Body(f)
    <3>. HIDE DEF n
    <3>. QED
      BY <2>1, <2>3
  <2>. QED
    BY <2>4, Zenon
<1>5. HasACue(doc) = seen[n].hit
  BY Zenon DEF HasACue
<1>. HIDE DEF seen
<1>6. seen[0] = base /\ \A i \in 1..n : seen[i] = AfterLine(seen[i - 1], doc[i])
  <2>1. \A i \in 0..n : seen[i] = IF i = 0 THEN StartOfDocument ELSE AfterLine(seen[i - 1], doc[i])
    BY <1>4, Zenon
  <2>2. 0 \in 0..n /\ \A i \in 1..n : i \in 0..n /\ i # 0
    BY <1>1
  <2>. HIDE DEF n
  <2>. QED
    BY <2>1, <2>2
<1>7. \A i \in 0..n : seen[i] \in V
  <2>1. seen[0] \in V /\ \A i \in 1..n : seen[i - 1] \in V => seen[i] \in V
    BY <1>1, <1>6, AfterLineIs
  <2>. HIDE DEF n, V
  <2>. QED
    BY <1>1, <2>1, RecursionKeeps
<1>8. seen = [i \in 0..n |-> seen[i]]
  <2>. HIDE DEF n
  <2>. QED
    BY <1>4, Zenon
<1>9. seen \in [0..n -> V]
  <2>. HIDE DEF n, V
  <2>. QED
    BY <1>7, <1>8
<1>10. Sees(doc, seen)
  BY <1>5, <1>6, <1>9 DEF Sees
<1>. QED
  BY <1>10

-----------------------------------------------------------------------------
(* What both readers look for: a timing line at the start of a block, or   *)
(* right after a number that is.                                           *)
PrevBlank(doc, k) == k = 1 \/ Blank(doc[k - 1])

Hit(doc, k) ==
    /\ doc[k].kind = "timing"
    /\ PrevBlank(doc, k) \/ (k > 1 /\ doc[k - 1].kind = "index" /\ PrevBlank(doc, k - 1))

LEMMA StreamFindsHits ==
    ASSUME NEW S, NEW doc \in Seq(S)
    PROVE  HasACue(doc) <=> \E k \in 1..Len(doc) : Hit(doc, k)
<1>. DEFINE n == Len(doc)
<1>1. PICK seen : Sees(doc, seen)
  BY HasACueIs
<1>. DEFINE Right(i) ==
                /\ seen[i].hit <=> \E k \in 1..i : Hit(doc, k)
                /\ ~seen[i].hit =>
                      /\ seen[i].blockStart <=> PrevBlank(doc, i + 1)
                      /\ seen[i].afterIndex <=> (i >= 1 /\ doc[i].kind = "index" /\ PrevBlank(doc, i))
            Good == {i \in 0..n : Right(i)}
<1>2. n \in Nat /\ n \in 0..n
  OBVIOUS
<1>3. 0 \in Good
  BY <1>1, <1>2 DEF Sees, StartOfDocument, PrevBlank
<1>4. ASSUME NEW i \in 0..n, i < n, i \in Good PROVE i + 1 \in Good
  <2>1. i + 1 \in 1..n /\ (i + 1) - 1 = i /\ i \in Nat /\ i + 1 \in 0..n /\ (i + 2) - 1 = i + 1
    BY <1>2, <1>4
  <2>. DEFINE line == doc[i + 1]
              before == seen[i]
              after == seen[i + 1]
  <2>2. after = AfterLine(before, line) /\ before \in Memories /\ after \in Memories
    <3>1. after = AfterLine(seen[(i + 1) - 1], doc[i + 1])
      BY <1>1, <2>1 DEF Sees
    <3>. QED
      BY <1>1, <2>1, <3>1 DEF Sees
  <2>3. Right(i)
    BY <1>4
  <2>4. (\E k \in 1..(i + 1) : Hit(doc, k)) <=> ((\E k \in 1..i : Hit(doc, k)) \/ Hit(doc, i + 1))
    <3>1. 1..(i + 1) = 1..i \cup {i + 1}
      BY <2>1
    <3>. QED
      BY <3>1
  <2>5. PrevBlank(doc, i + 2) <=> Blank(line)
    <3>1. i + 2 # 1
      BY <2>1
    <3>. QED
      BY <2>1, <3>1 DEF PrevBlank
  <2>6. Hit(doc, i + 1) <=> /\ line.kind = "timing"
                            /\ \/ PrevBlank(doc, i + 1)
                               \/ i >= 1 /\ doc[i].kind = "index" /\ PrevBlank(doc, i)
    <3>1. i + 1 > 1 <=> i >= 1
      BY <2>1
    <3>. QED
      BY <2>1, <3>1 DEF Hit
  <2>8. i + 2 = (i + 1) + 1 /\ i + 1 >= 1
    BY <2>1
  <2>9. CASE before.hit
    <3>1. after = before
      BY <2>2, <2>9 DEF AfterLine
    <3>. QED
      BY <2>1, <2>3, <2>4, <2>9, <3>1
  <2>10. CASE ~before.hit
    <3>. HIDE DEF after, before, line
    <3>1. ~before.hit
      BY <2>10
    <3>2. after.hit <=> line.kind = "timing" /\ (before.blockStart \/ before.afterIndex)
      BY <2>2, <3>1, AfterLineIs
    <3>3. after.blockStart <=> Blank(line)
      BY <2>2, <3>1, AfterLineIs
    <3>4. after.afterIndex <=> before.blockStart /\ line.kind = "index"
      BY <2>2, <3>1, AfterLineIs
    <3>5. after.hit <=> \E k \in 1..(i + 1) : Hit(doc, k)
      BY <2>3, <2>4, <2>6, <2>10, <3>2 DEF before, line
    <3>6. Right(i + 1)
      BY <2>3, <2>5, <2>8, <2>10, <3>3, <3>4, <3>5 DEF after, before, line
    <3>. QED
      BY <2>1, <3>6
  <2>. QED
    BY <2>9, <2>10
<1>5. \A i \in 0..n : i \in Good
  <2>. HIDE DEF Good, n
  <2>. QED
    BY <1>2, <1>3, <1>4, NumberInduction
<1>6. Right(n)
  BY <1>2, <1>5
<1>7. seen[n].hit = HasACue(doc)
  BY <1>1 DEF Sees
<1>. QED
  BY <1>6, <1>7

(* A block whose first line, or whose second after a number, is a timing.  *)
Pushes(doc, k) ==
    \/ doc[k].kind = "timing"
    \/ doc[k].kind = "index" /\ k + 1 \in Kept(doc) /\ doc[k + 1].kind = "timing"

LEMMA PushedWhen ==
    ASSUME NEW S, NEW doc \in Seq(S), NEW k \in Starts(doc), NEW read \in Seq(CuesOver(S))
    PROVE  /\ Pushes(doc, k) => PushCue(read, Block(doc, Kept(doc), k)) # <<>>
           /\ ~Pushes(doc, k) => PushCue(read, Block(doc, Kept(doc), k)) = read
<1>1. k \in Kept(doc) /\ Kept(doc) \subseteq 1..Len(doc) /\ Len(doc) \in Nat
  BY DEF Starts, Kept
<1>2. PICK e : EndsAt(doc, k, e) /\ Block(doc, Kept(doc), k) = SubSeq(doc, k, e)
  BY <1>1, BlockIs
<1>. DEFINE block == SubSeq(doc, k, e)
            timing == IF block[1].kind = "index" THEN 2 ELSE 1
            cue == Cue(IF block[1].kind = "index" THEN block[1].value ELSE Len(read) + 1,
                       block[timing].value, SubSeq(block, timing + 1, Len(block)))
<1>3. e \in k..Len(doc) /\ k..e \subseteq Kept(doc) /\ e + 1 \notin Kept(doc)
  BY <1>2 DEF EndsAt
<1>4. Len(block) = e - k + 1 /\ Len(block) >= 1 /\ block[1] = doc[k]
  BY <1>1, <1>3
<1>5. Len(block) >= 2 <=> k + 1 \in Kept(doc)
  <2>1. Len(block) >= 2 => k + 1 \in k..e
    BY <1>1, <1>3, <1>4
  <2>2. ~(Len(block) >= 2) => k + 1 = e + 1
    BY <1>1, <1>3, <1>4
  <2>. QED
    BY <1>3, <2>1, <2>2
<1>6. Len(block) >= 2 => block[2] = doc[k + 1]
  BY <1>1, <1>3, <1>4
<1>. HIDE DEF block
<1>7. (Len(block) >= timing /\ block[timing].kind = "timing") <=> Pushes(doc, k)
  <2>1. CASE doc[k].kind = "index"
    <3>1. timing = 2
      BY <1>4, <2>1
    <3>. QED
      BY <1>5, <1>6, <2>1, <3>1 DEF Pushes
  <2>2. CASE doc[k].kind # "index"
    <3>1. timing = 1
      BY <1>4, <2>2
    <3>. QED
      BY <1>4, <2>2, <3>1 DEF Pushes
  <2>. QED
    BY <2>1, <2>2
<1>8. Pushes(doc, k) => PushCue(read, block) = Append(read, cue)
  BY <1>7, Zenon DEF PushCue
<1>9. ~Pushes(doc, k) => PushCue(read, block) = read
  BY <1>7, Zenon DEF PushCue
<1>10. Append(read, cue) # <<>>
  <2>. HIDE DEF cue
  <2>. QED
    OBVIOUS
<1>11. Block(doc, Kept(doc), k) = block
  BY <1>2 DEF block
<1>. QED
  BY <1>8, <1>9, <1>10, <1>11

LEMMA ParserFindsPushes ==
    ASSUME NEW S, NEW doc \in Seq(S)
    PROVE  Parse(doc) # <<>> <=> \E k \in Starts(doc) : Pushes(doc, k)
<1>. DEFINE n == Len(doc)
<1>1. PICK read : Reads(S, doc, read)
  BY ParseIs
<1>. DEFINE Good == {i \in 0..n : read[i] # <<>> <=> \E k \in Starts(doc) : k <= i /\ Pushes(doc, k)}
<1>2. n \in Nat /\ n \in 0..n /\ Starts(doc) \subseteq 1..n
  BY DEF Starts, Kept
<1>3. 0 \in Good
  BY <1>1, <1>2 DEF Reads
<1>4. ASSUME NEW i \in 0..n, i < n, i \in Good PROVE i + 1 \in Good
  <2>1. i + 1 \in 1..n /\ (i + 1) - 1 = i /\ i + 1 \in 0..n
    BY <1>2, <1>4
  <2>2. \A k \in Starts(doc) : k <= i + 1 <=> k <= i \/ k = i + 1
    BY <1>2, <2>1
  <2>3. read[i] \in Seq(CuesOver(S))
    BY <1>1 DEF Reads
  <2>4. CASE i + 1 \in Starts(doc)
    <3>1. read[i + 1] = PushCue(read[i], Block(doc, Kept(doc), i + 1))
      BY <1>1, <2>1, <2>4 DEF Reads
    <3>2. Pushes(doc, i + 1) => read[i + 1] # <<>>
      BY <2>3, <2>4, <3>1, PushedWhen
    <3>3. ~Pushes(doc, i + 1) => read[i + 1] = read[i]
      BY <2>3, <2>4, <3>1, PushedWhen
    <3>. QED
      BY <1>4, <2>1, <2>2, <2>4, <3>2, <3>3
  <2>5. CASE i + 1 \notin Starts(doc)
    <3>1. read[i + 1] = read[i]
      BY <1>1, <2>1, <2>5 DEF Reads
    <3>. QED
      BY <1>4, <2>1, <2>2, <2>5, <3>1
  <2>. QED
    BY <2>4, <2>5
<1>5. \A i \in 0..n : i \in Good
  <2>. HIDE DEF Good, n
  <2>. QED
    BY <1>2, <1>3, <1>4, NumberInduction
<1>6. n \in Good /\ read[n] = Parse(doc)
  BY <1>1, <1>2, <1>5 DEF Reads
<1>7. \A k \in Starts(doc) : k <= n
  BY <1>2
<1>. QED
  BY <1>6, <1>7

(* A line with something on it is kept; a blank one before what starts a   *)
(* cue is a separator.                                                     *)
LEMMA KeptWhen ==
    ASSUME NEW S, NEW doc \in Seq(S), NEW k \in 1..Len(doc), ~Blank(doc[k])
    PROVE  k \in Kept(doc) /\ (PrevBlank(doc, k) /\ StartsACue(doc, k) => k \in Starts(doc))
<1>1. k \in Kept(doc)
  BY DEF Kept, Separates
<1>2. ASSUME PrevBlank(doc, k), StartsACue(doc, k) PROVE k - 1 \notin Kept(doc)
  <2>1. CASE k = 1
    BY <2>1 DEF Kept
  <2>2. CASE k # 1
    <3>. DEFINE j == k - 1
    <3>1. j \in 1..Len(doc) /\ j \in j..Len(doc) /\ j + 1 = k /\ j..j = {j}
      BY <2>2
    <3>2. Blank(doc[j])
      BY <1>2, <2>2 DEF PrevBlank
    <3>. HIDE DEF j
    <3>3. BlankRun(doc, j, j)
      BY <3>1, <3>2 DEF BlankRun
    <3>4. ~Blank(doc[j + 1]) /\ StartsACue(doc, j + 1)
      BY <1>2, <3>1
    <3>5. Separates(doc, j)
      BY <3>1, <3>2, <3>3, <3>4, Zenon DEF Separates
    <3>6. j \notin Kept(doc)
      BY <3>5 DEF Kept
    <3>. QED
      BY <3>6 DEF j
  <2>. QED
    BY <2>1, <2>2
<1>. QED
  BY <1>1, <1>2 DEF Starts

LEMMA ReadersLookAlike ==
    ASSUME NEW S, NEW doc \in Seq(S)
    PROVE  (\E k \in 1..Len(doc) : Hit(doc, k)) <=> \E k \in Starts(doc) : Pushes(doc, k)
<1>1. ASSUME NEW k \in Starts(doc), Pushes(doc, k) PROVE \E h \in 1..Len(doc) : Hit(doc, h)
  <2>1. k \in 1..Len(doc) /\ k - 1 \notin Kept(doc) /\ Len(doc) \in Nat
    BY DEF Starts, Kept
  <2>2. PrevBlank(doc, k)
    <3>1. k # 1 => k - 1 \in 1..Len(doc)
      BY <2>1
    <3>. QED
      BY <2>1, <3>1 DEF Kept, Separates, PrevBlank
  <2>3. CASE doc[k].kind = "timing"
    BY <2>1, <2>2, <2>3 DEF Hit
  <2>4. CASE doc[k].kind = "index" /\ k + 1 \in Kept(doc) /\ doc[k + 1].kind = "timing"
    <3>1. k + 1 \in 1..Len(doc) /\ (k + 1) - 1 = k /\ k + 1 > 1
      BY <2>1, <2>4 DEF Kept
    <3>2. Hit(doc, k + 1)
      BY <2>2, <2>4, <3>1 DEF Hit
    <3>. QED
      BY <3>1, <3>2
  <2>. QED
    BY <1>1, <2>3, <2>4 DEF Pushes
<1>2. ASSUME NEW h \in 1..Len(doc), Hit(doc, h) PROVE \E k \in Starts(doc) : Pushes(doc, k)
  <2>1. ~Blank(doc[h]) /\ doc[h].kind = "timing"
    BY <1>2 DEF Hit, Blank
  <2>2. CASE PrevBlank(doc, h)
    <3>1. StartsACue(doc, h)
      BY <2>1 DEF StartsACue
    <3>2. h \in Starts(doc)
      BY <2>1, <2>2, <3>1, KeptWhen
    <3>. QED
      BY <2>1, <3>2 DEF Pushes
  <2>3. CASE h > 1 /\ doc[h - 1].kind = "index" /\ PrevBlank(doc, h - 1)
    <3>. DEFINE k == h - 1
    <3>1. k \in 1..Len(doc) /\ k + 1 = h /\ k < Len(doc)
      BY <2>3
    <3>2. doc[k].kind = "index" /\ PrevBlank(doc, k)
      BY <2>3
    <3>. HIDE DEF k
    <3>3. ~Blank(doc[k])
      BY <3>2 DEF Blank
    <3>4. StartsACue(doc, k)
      BY <2>1, <3>1, <3>2 DEF StartsACue
    <3>5. k \in Starts(doc)
      BY <3>1, <3>2, <3>3, <3>4, KeptWhen
    <3>6. h \in Kept(doc)
      BY <2>1, KeptWhen
    <3>. QED
      BY <2>1, <3>1, <3>2, <3>5, <3>6 DEF Pushes
  <2>. QED
    BY <1>2, <2>2, <2>3 DEF Hit
<1>. QED
  BY <1>1, <1>2

(* The streaming test a download is accepted by and the parser of the      *)
(* translation agree on every document: no accepted source parses to       *)
(* nothing, and none with a cue is refused as an error page.               *)
THEOREM ReadersAgree ==
    \A S : \A document \in Seq(S) : HasACue(document) <=> Parse(document) # <<>>
<1>. SUFFICES ASSUME NEW S, NEW document \in Seq(S)
              PROVE  HasACue(document) <=> Parse(document) # <<>>
  OBVIOUS
<1>. QED
  BY StreamFindsHits, ReadersLookAlike, ParserFindsPushes


-----------------------------------------------------------------------------
(* A film written out: where each of its cues ends, and the lines between. *)
Written(doc, film, ends) ==
    /\ ends \in [0..Len(film) -> Nat] /\ ends[0] = 0
    /\ Len(doc) = ends[Len(film)]
    /\ \A k \in 1..Len(film) :
          LET before == ends[k - 1]
              words  == Words(film[k])
          IN  /\ words \in Nat /\ ends[k] >= before + words + 3 /\ ends[k] <= Len(doc)
              /\ doc[before + 1] = Line("index", film[k].index)
              /\ doc[before + 2] = Line("timing", film[k].timing)
              /\ \A j \in 1..words : /\ doc[before + 2 + j] = Compact(film[k].text)[j]
                                     /\ ~Blank(doc[before + 2 + j])
              /\ \A p \in (before + words + 3)..ends[k] : doc[p] = EmptyLine

LinesOf(S, film) ==
    S \cup {EmptyLine} \cup {Line("index", film[i].index) : i \in DOMAIN film}
      \cup {Line("timing", film[i].timing) : i \in DOMAIN film}

LEMMA SerializeIs ==
    ASSUME NEW S, NEW C, NEW film \in Seq(C), \A i \in 1..Len(film) : film[i].text \in Seq(S)
    PROVE  /\ Serialize(film) \in Seq(LinesOf(S, film))
           /\ \E ends : Written(Serialize(film), film, ends)
<1>. DEFINE T == LinesOf(S, film)
            N == Len(film)
            parts == [i \in DOMAIN film |-> CueLines(film[i])]
            doc == FlattenSeq(parts)
<1>1. N \in Nat /\ DOMAIN film = 1..N
  OBVIOUS
<1>2. ASSUME NEW k \in 1..N
      PROVE  CueLines(film[k]) \in Seq(T) /\ Lined(film[k], CueLines(film[k]))
  <2>. DEFINE cue == film[k]
  <2>1. cue.text \in Seq(S) /\ S \subseteq T
    BY DEF LinesOf
  <2>2. cue.text \in Seq(T)
    BY <2>1
  <2>3. {EmptyLine, Line("index", cue.index), Line("timing", cue.timing)} \subseteq T
    BY <1>1 DEF LinesOf
  <2>. HIDE DEF T, cue
  <2>4. CueLines(cue) \in Seq(T) /\ Lined(cue, CueLines(cue))
    BY <2>2, <2>3, CueLinesAre
  <2>. QED
    BY <2>4 DEF cue
<1>3. parts \in Seq(Seq(T)) /\ Len(parts) = N /\ \A k \in 1..N : parts[k] = CueLines(film[k])
  <2>1. \A k \in 1..N : CueLines(film[k]) \in Seq(T)
    BY <1>2
  <2>2. parts = [k \in 1..N |-> CueLines(film[k])]
    BY <1>1
  <2>. HIDE DEF parts, N, T
  <2>. QED
    BY <1>1, <2>1, <2>2
<1>. HIDE DEF parts, T
<1>4. doc \in Seq(T) /\ \E ends : Laid(parts, ends, doc)
  BY <1>3, FlattenIs
<1>5. Serialize(film) = doc
  BY DEF Serialize, parts
<1>. HIDE DEF doc, N
<1>6. PICK ends : Laid(parts, ends, doc)
  BY <1>4
<1>7. /\ ends \in [0..N -> Nat] /\ ends[0] = 0 /\ Len(doc) = ends[N]
      /\ \A k \in 1..N : ends[k] = ends[k - 1] + Len(parts[k])
      /\ \A k \in 1..N, j \in Nat :
            1 <= j /\ j <= Len(parts[k]) => /\ ends[k - 1] + j <= Len(doc)
                                           /\ doc[ends[k - 1] + j] = parts[k][j]
  BY <1>3, <1>6 DEF Laid
<1>8. Len(doc) \in Nat
  BY <1>4
<1>9. ASSUME NEW k \in 1..N
      PROVE  /\ Words(film[k]) \in Nat /\ ends[k] >= ends[k - 1] + Words(film[k]) + 3 /\ ends[k] <= Len(doc)
             /\ doc[ends[k - 1] + 1] = Line("index", film[k].index)
             /\ doc[ends[k - 1] + 2] = Line("timing", film[k].timing)
             /\ \A j \in 1..Words(film[k]) :
                   /\ doc[ends[k - 1] + 2 + j] = Compact(film[k].text)[j]
                   /\ ~Blank(doc[ends[k - 1] + 2 + j])
             /\ \A p \in (ends[k - 1] + Words(film[k]) + 3)..ends[k] : doc[p] = EmptyLine
  <2>. DEFINE a == ends[k - 1]
              b == ends[k]
              w == Words(film[k])
              d == Len(parts[k])
              lines == parts[k]
  <2>1. k - 1 \in 0..N /\ k \in 0..N
    BY <1>1
  <2>0. Lined(film[k], lines)
    BY <1>2, <1>3
  <2>2. a \in Nat /\ b \in Nat /\ w \in Nat /\ d \in Nat /\ d >= w + 3 /\ b = a + d
    BY <1>7, <2>0, <2>1 DEF Lined
  <2>3. \A j \in Nat : 1 <= j /\ j <= d => a + j <= Len(doc) /\ doc[a + j] = lines[j]
    BY <1>7
  <2>4. /\ lines[1] = Line("index", film[k].index)
        /\ lines[2] = Line("timing", film[k].timing)
        /\ \A j \in 1..w : lines[j + 2] = Compact(film[k].text)[j] /\ ~Blank(Compact(film[k].text)[j])
        /\ \A j \in (w + 3)..d : lines[j] = EmptyLine
    BY <2>0 DEF Lined
  <2>. HIDE DEF a, b, w, d, lines
  <2>5. b >= a + w + 3 /\ a + d <= Len(doc) /\ b <= Len(doc)
    <3>1. 1 <= d /\ d <= d
      BY <2>2
    <3>2. a + d <= Len(doc)
      BY <2>2, <2>3, <3>1
    <3>. QED
      BY <1>8, <2>2, <3>2
  <2>6. doc[a + 1] = lines[1] /\ doc[a + 2] = lines[2]
    BY <2>2, <2>3
  <2>7. ASSUME NEW j \in 1..w PROVE doc[a + 2 + j] = lines[j + 2]
    <3>1. j + 2 \in Nat /\ 1 <= j + 2 /\ j + 2 <= d /\ a + 2 + j = a + (j + 2)
      BY <2>2
    <3>. QED
      BY <2>3, <3>1
  <2>8. ASSUME NEW p \in (a + w + 3)..b PROVE doc[p] = EmptyLine
    <3>1. p - a \in Nat /\ p - a \in (w + 3)..d /\ 1 <= p - a /\ p - a <= d /\ a + (p - a) = p
      BY <2>2
    <3>. QED
      BY <2>3, <2>4, <3>1
  <2>9. \A j \in 1..w : doc[a + 2 + j] = Compact(film[k].text)[j] /\ ~Blank(doc[a + 2 + j])
    BY <2>4, <2>7
  <2>. QED
    BY <2>2, <2>4, <2>5, <2>6, <2>8, <2>9 DEF a, b, w
<1>10. Written(doc, film, ends)
  BY <1>7, <1>9 DEF Written, N
<1>. QED
  BY <1>4, <1>5, <1>10 DEF T

-----------------------------------------------------------------------------
(* A cue's lines are kept up to the empty ones, so that the blocks of the  *)
(* document are the cues.                                                  *)
LastLine(film, ends, k) == ends[k - 1] + Words(film[k]) + 2

LEMMA BlocksAreCues ==
    ASSUME NEW S, NEW C, NEW film \in Seq(C), NEW doc \in Seq(S), NEW ends, Written(doc, film, ends),
           NEW k \in 1..Len(film)
    PROVE  LET before == ends[k - 1]
               last   == LastLine(film, ends, k)
           IN  /\ before \in Nat /\ last \in Nat /\ ends[k] \in Nat /\ ends[k] <= Len(doc)
               /\ before + 2 <= last /\ last < ends[k]
               /\ (before + 1)..last \subseteq Kept(doc)
               /\ \A p \in (last + 1)..ends[k] : p \notin Kept(doc)
<1>. DEFINE a == ends[k - 1]
            b == ends[k]
            w == Words(film[k])
            z == LastLine(film, ends, k)
<1>1. k - 1 \in 0..Len(film) /\ k \in 0..Len(film) /\ Len(doc) \in Nat
  OBVIOUS
<1>2. /\ a \in Nat /\ b \in Nat /\ w \in Nat /\ z = a + w + 2 /\ b >= a + w + 3 /\ b <= Len(doc)
      /\ doc[a + 1] = Line("index", film[k].index)
      /\ doc[a + 2] = Line("timing", film[k].timing)
      /\ \A j \in 1..w : ~Blank(doc[a + 2 + j])
      /\ \A p \in (a + w + 3)..b : doc[p] = EmptyLine
  BY <1>1 DEF Written, LastLine
<1>. HIDE DEF a, b, w, z
<1>3. ASSUME NEW p \in (a + 1)..z PROVE p \in Kept(doc)
  <2>1. p \in 1..Len(doc)
    BY <1>1, <1>2
  <2>2. ~Blank(doc[p])
    <3>1. CASE p = a + 1 \/ p = a + 2
      BY <1>2, <3>1 DEF Blank, Line
    <3>2. CASE p # a + 1 /\ p # a + 2
      <4>1. p - (a + 2) \in 1..w /\ a + 2 + (p - (a + 2)) = p
        BY <1>2, <3>2
      <4>. QED
        BY <1>2, <4>1
    <3>. QED
      BY <3>1, <3>2
  <2>. QED
    BY <2>1, <2>2, KeptWhen
<1>4. ASSUME NEW p \in (z + 1)..b PROVE p \notin Kept(doc)
  <2>1. p \in 1..Len(doc) /\ p \in (a + w + 3)..b /\ p \in 1..p /\ p..p = {p}
    BY <1>1, <1>2
  <2>2. doc[p].kind = "empty" /\ Blank(doc[p])
    BY <1>2, <2>1 DEF EmptyLine, Line, Blank
  <2>3. BlankRun(doc, p, p)
    BY <2>1, <2>2 DEF BlankRun
  <2>4. Separates(doc, p)
    BY <2>1, <2>2, <2>3, Zenon DEF Separates
  <2>. QED
    BY <2>4 DEF Kept
<1>5. a + 2 <= z /\ z < b /\ z \in Nat
  BY <1>2
<1>6. (a + 1)..z \subseteq Kept(doc)
  BY <1>3
<1>. QED
  BY <1>2, <1>4, <1>5, <1>6 DEF a, b, z

LEMMA CuesStart ==
    ASSUME NEW S, NEW C, NEW film \in Seq(C), NEW doc \in Seq(S), NEW ends, Written(doc, film, ends),
           NEW k \in 1..Len(film)
    PROVE  /\ ends[k - 1] + 1 \in Starts(doc)
           /\ \A p \in (ends[k - 1] + 2)..ends[k] : p \notin Starts(doc)
           /\ Block(doc, Kept(doc), ends[k - 1] + 1)
                 = SubSeq(doc, ends[k - 1] + 1, LastLine(film, ends, k))
<1>. DEFINE a == ends[k - 1]
            b == ends[k]
            z == LastLine(film, ends, k)
<1>1. /\ a \in Nat /\ z \in Nat /\ b \in Nat /\ b <= Len(doc) /\ a + 2 <= z /\ z < b
      /\ (a + 1)..z \subseteq Kept(doc)
      /\ \A p \in (z + 1)..b : p \notin Kept(doc)
  BY BlocksAreCues
<1>2. Kept(doc) \subseteq 1..Len(doc)
  BY DEF Kept
<1>3. a \notin Kept(doc)
  <2>1. CASE k = 1
    <3>1. a = 0
      BY <2>1 DEF Written
    <3>. QED
      BY <1>2, <3>1
  <2>2. CASE k # 1
    <3>. DEFINE j == k - 1
    <3>1. j \in 1..Len(film)
      BY <2>2
    <3>. HIDE DEF j
    <3>2. /\ LastLine(film, ends, j) \in Nat /\ ends[j] \in Nat /\ LastLine(film, ends, j) < ends[j]
          /\ \A p \in (LastLine(film, ends, j) + 1)..ends[j] : p \notin Kept(doc)
      BY <3>1, BlocksAreCues
    <3>3. ends[j] \in (LastLine(film, ends, j) + 1)..ends[j]
      BY <3>2
    <3>. QED
      BY <3>2, <3>3 DEF j
  <2>. QED
    BY <2>1, <2>2
<1>. HIDE DEF a, b, z
<1>4. a + 1 \in Kept(doc) /\ (a + 1) - 1 = a
  BY <1>1
<1>5. a + 1 \in Starts(doc)
  BY <1>3, <1>4 DEF Starts
<1>6. ASSUME NEW p \in (a + 2)..b PROVE p \notin Starts(doc)
  <2>1. CASE p <= z
    <3>1. p - 1 \in (a + 1)..z
      BY <1>1, <2>1
    <3>. QED
      BY <1>1, <3>1 DEF Starts
  <2>2. CASE p > z
    <3>1. p \in (z + 1)..b
      BY <1>1, <2>2
    <3>. QED
      BY <1>1, <3>1 DEF Starts
  <2>. QED
    BY <1>1, <2>1, <2>2
<1>7. PICK e : EndsAt(doc, a + 1, e) /\ Block(doc, Kept(doc), a + 1) = SubSeq(doc, a + 1, e)
  BY <1>4, BlockIs
<1>8. e \in (a + 1)..Len(doc) /\ (a + 1)..e \subseteq Kept(doc) /\ e + 1 \notin Kept(doc)
  BY <1>7 DEF EndsAt
<1>9. e = z
  <2>1. ~(e > z)
    <3>1. e > z => z + 1 \in (a + 1)..e /\ z + 1 \in (z + 1)..b
      BY <1>1, <1>8
    <3>. QED
      BY <1>1, <1>8, <3>1
  <2>2. ~(e < z)
    <3>1. e < z => e + 1 \in (a + 1)..z
      BY <1>1, <1>8
    <3>. QED
      BY <1>1, <1>8, <3>1
  <2>. QED
    BY <1>1, <1>8, <2>1, <2>2
<1>. QED
  BY <1>5, <1>6, <1>7, <1>9 DEF a, b, z


-----------------------------------------------------------------------------
(* A film written out and read again.                                      *)
LEMMA SameSequence ==
    ASSUME NEW S, NEW a \in Seq(S), NEW b \in Seq(S), Len(a) = Len(b),
           \A i \in 1..Len(a) : a[i] = b[i]
    PROVE  a = b
OBVIOUS

LEMMA Cutting ==
    ASSUME NEW S, NEW doc \in Seq(S), NEW from \in Nat, NEW to \in Nat, from < to, to <= Len(doc)
    PROVE  SubSeq(doc, from + 1, to) \in Seq(S) /\ Len(SubSeq(doc, from + 1, to)) = to - (from + 1) + 1
OBVIOUS

LEMMA CueIsRead ==
    ASSUME NEW S, NEW C, NEW film \in Seq(C), NEW doc \in Seq(S), NEW ends, Written(doc, film, ends),
           NEW k \in 1..Len(film), film[k].text \in Seq(S), NEW read \in Seq(CuesOver(S))
    PROVE  PushCue(read, Block(doc, Kept(doc), ends[k - 1] + 1))
              = Append(read, Cue(film[k].index, film[k].timing, Compact(film[k].text)))
<1>. DEFINE a == ends[k - 1]
            w == Words(film[k])
            z == LastLine(film, ends, k)
            words == Compact(film[k].text)
            block == SubSeq(doc, a + 1, z)
            rest == SubSeq(block, 3, Len(block))
<1>1. a \in Nat /\ z \in Nat /\ z <= Len(doc) /\ ends[k] \in Nat
  BY BlocksAreCues
<1>2. /\ w \in Nat /\ z = a + w + 2
      /\ doc[a + 1] = Line("index", film[k].index)
      /\ doc[a + 2] = Line("timing", film[k].timing)
      /\ \A j \in 1..w : doc[a + 2 + j] = words[j]
  BY DEF Written, LastLine
<1>3. words \in Seq(S) /\ Len(words) = w
  BY CompactIs DEF Words
<1>4. Block(doc, Kept(doc), a + 1) = block
  BY CuesStart
<1>. HIDE DEF a, w, z, words
<1>5. block \in Seq(S) /\ Len(block) = w + 2
  <2>1. block \in Seq(S) /\ Len(block) = z - (a + 1) + 1
    BY <1>1, <1>2, Cutting
  <2>. HIDE DEF block
  <2>. QED
    BY <1>1, <1>2, <2>1
<1>6. ASSUME NEW j \in 1..(w + 2) PROVE block[j] = doc[a + j]
  BY <1>1, <1>2
<1>7. block[1] = doc[a + 1] /\ block[2] = doc[a + 2]
  <2>1. 1 \in 1..(w + 2) /\ 2 \in 1..(w + 2)
    BY <1>2
  <2>. QED
    BY <1>6, <2>1
<1>. HIDE DEF block
<1>8. rest \in Seq(S) /\ Len(rest) = w
  BY <1>2, <1>5
<1>9. ASSUME NEW j \in 1..w PROVE rest[j] = words[j]
  <2>1. rest[j] = block[j + 2]
    BY <1>2, <1>5
  <2>2. j + 2 \in 1..(w + 2) /\ a + (j + 2) = a + 2 + j
    BY <1>1, <1>2
  <2>. QED
    BY <1>2, <1>6, <2>1, <2>2
<1>. HIDE DEF rest
<1>10. rest = words
  BY <1>3, <1>8, <1>9, SameSequence
<1>11. /\ block[1].kind = "index" /\ block[1].value = film[k].index
       /\ block[2].kind = "timing" /\ block[2].value = film[k].timing
       /\ Len(block) >= 2
  BY <1>2, <1>5, <1>7 DEF Line
<1>12. PushCue(read, block) = Append(read, Cue(film[k].index, film[k].timing, SubSeq(block, 3, Len(block))))
  BY <1>11 DEF PushCue
<1>. QED
  BY <1>4, <1>10, <1>12 DEF rest, words, a

(* What a written film reads back as.                                      *)
ReadsBack(film, back) ==
    /\ Len(back) = Len(film)
    /\ \A i \in 1..Len(film) :
          back[i] = Cue(film[i].index, film[i].timing, Compact(film[i].text))

LEMMA WrittenIsRead ==
    ASSUME NEW S, NEW C, NEW film \in Seq(C), NEW doc \in Seq(S), NEW ends, Written(doc, film, ends),
           \A i \in 1..Len(film) : film[i].text \in Seq(S)
    PROVE  ReadsBack(film, Parse(doc))
<1>. DEFINE N == Len(film)
            cue(i) == Cue(film[i].index, film[i].timing, Compact(film[i].text))
<1>1. PICK read : Reads(S, doc, read)
  BY ParseIs
<1>. DEFINE Right(k) == Len(read[ends[k]]) = k /\ \A i \in 1..k : read[ends[k]][i] = cue(i)
            Good == {k \in 0..N : Right(k)}
<1>2. N \in Nat /\ N \in 0..N /\ Len(doc) \in Nat
  OBVIOUS
<1>3. 0 \in Good
  BY <1>1, <1>2 DEF Written, Reads
<1>4. ASSUME NEW h \in 0..N, h < N, h \in Good PROVE h + 1 \in Good
  <2>. DEFINE k == h + 1
              a == ends[h]
              b == ends[k]
  <2>1. k \in 1..N /\ k - 1 = h /\ k \in 0..N /\ h \in Nat /\ k = h + 1
    BY <1>2, <1>4
  <2>. HIDE DEF k
  <2>2. a \in Nat /\ b \in Nat /\ b <= Len(doc) /\ a + 1 <= b
    <3>1. /\ ends[k - 1] \in Nat /\ ends[k] \in Nat /\ ends[k] <= Len(doc)
          /\ ends[k - 1] + 2 <= LastLine(film, ends, k) /\ LastLine(film, ends, k) < ends[k]
          /\ LastLine(film, ends, k) \in Nat
      BY <2>1, BlocksAreCues
    <3>. QED
      BY <2>1, <3>1
  <2>3. a + 1 \in Starts(doc) /\ \A p \in (a + 2)..b : p \notin Starts(doc)
    <3>1. /\ ends[k - 1] + 1 \in Starts(doc)
          /\ \A p \in (ends[k - 1] + 2)..ends[k] : p \notin Starts(doc)
      BY <2>1, CuesStart
    <3>. QED
      BY <2>1, <3>1
  <2>4. read[a] \in Seq(CuesOver(S))
    <3>1. a \in 0..Len(doc)
      BY <1>2, <2>2
    <3>. QED
      BY <1>1, <3>1 DEF Reads
  <2>5. read[a + 1] = Append(read[a], cue(k))
    <3>1. a + 1 \in 1..Len(doc) /\ (a + 1) - 1 = a
      BY <1>2, <2>2
    <3>2. read[a + 1] = PushCue(read[a], Block(doc, Kept(doc), a + 1))
      BY <1>1, <2>3, <3>1 DEF Reads
    <3>3. PushCue(read[a], Block(doc, Kept(doc), ends[k - 1] + 1)) = Append(read[a], cue(k))
      <4>1. k \in 1..Len(film) /\ film[k].text \in Seq(S)
        BY <2>1
      <4>. HIDE DEF a
      <4>. QED
        BY <2>4, <4>1, CueIsRead
    <3>. QED
      BY <2>1, <3>2, <3>3
  <2>6. read[b] = read[a + 1]
    <3>. DEFINE d == b - (a + 1)
                Same == {q \in 0..d : read[a + 1 + q] = read[a + 1]}
    <3>1. d \in Nat /\ d \in 0..d /\ a + 1 + d = b
      BY <2>2
    <3>2. 0 \in Same
      BY <2>2, <3>1
    <3>3. ASSUME NEW q \in 0..d, q < d, q \in Same PROVE q + 1 \in Same
      <4>. DEFINE p == a + 1 + (q + 1)
      <4>1. q + 1 \in 0..d /\ p \in (a + 2)..b /\ p \in 1..Len(doc) /\ p - 1 = a + 1 + q
        <5>1. q \in Nat /\ q < b - (a + 1)
          BY <3>3
        <5>2. \A x, y, n \in Nat : x + 1 <= y /\ y <= n /\ q < y - (x + 1) =>
                 /\ q + 1 \in 0..(y - (x + 1)) /\ x + 1 + (q + 1) \in (x + 2)..y
                 /\ x + 1 + (q + 1) \in 1..n /\ x + 1 + (q + 1) - 1 = x + 1 + q
          BY ONLY q \in Nat
        <5>. HIDE DEF a, b
        <5>. QED
          BY <1>2, <2>2, <5>1, <5>2
      <4>2. read[p] = read[p - 1]
        <5>. HIDE DEF p
        <5>. QED
          BY <1>1, <2>3, <4>1 DEF Reads
      <4>. QED
        BY <3>3, <4>1, <4>2
    <3>4. \A q \in 0..d : q \in Same
      <4>. HIDE DEF d, Same
      <4>. QED
        BY <3>1, <3>2, <3>3, NumberInduction
    <3>5. d \in Same
      BY <3>1, <3>4
    <3>. QED
      BY <3>1, <3>5
  <2>7. Len(read[a]) = h /\ \A i \in 1..h : read[a][i] = cue(i)
    BY <1>4
  <2>. HIDE DEF cue, a, b
  <2>8. Len(read[b]) = k /\ \A i \in 1..k : read[b][i] = cue(i)
    <3>. DEFINE s == read[a]
                c == cue(k)
    <3>. HIDE DEF s, c
    <3>1. s \in Seq(CuesOver(S)) /\ Len(s) = h /\ read[b] = Append(s, c)
      BY <2>4, <2>5, <2>6, <2>7 DEF s, c
    <3>2. Len(Append(s, c)) = h + 1 /\ Append(s, c)[h + 1] = c /\ \A i \in 1..h : Append(s, c)[i] = s[i]
      BY <2>1, <3>1
    <3>3. \A i \in 1..k : i = h + 1 \/ i \in 1..h
      BY <2>1
    <3>. QED
      BY <2>1, <2>7, <3>1, <3>2, <3>3 DEF s, c
  <2>. QED
    BY <2>1, <2>8 DEF b, k
<1>5. \A k \in 0..N : k \in Good
  <2>. HIDE DEF Good, N
  <2>. QED
    BY <1>2, <1>3, <1>4, NumberInduction
<1>6. Right(N)
  BY <1>2, <1>5
<1>7. read[ends[N]] = Parse(doc)
  BY <1>1 DEF Reads, Written
<1>. QED
  BY <1>6, <1>7 DEF ReadsBack

(* What is written reads back one for one, whatever blank lines the texts  *)
(* hold.                                                                   *)
THEOREM RoundTrip ==
    \A S, C : \A film \in Seq(C) :
        (\A i \in 1..Len(film) : film[i].text \in Seq(S)) => ReadsBack(film, Parse(Serialize(film)))
<1>. SUFFICES ASSUME NEW S, NEW C, NEW film \in Seq(C), \A i \in 1..Len(film) : film[i].text \in Seq(S)
              PROVE  ReadsBack(film, Parse(Serialize(film)))
  OBVIOUS
<1>1. Serialize(film) \in Seq(LinesOf(S, film)) /\ \E ends : Written(Serialize(film), film, ends)
  BY SerializeIs
<1>2. PICK ends : Written(Serialize(film), film, ends)
  BY <1>1
<1>3. \A i \in 1..Len(film) : film[i].text \in Seq(LinesOf(S, film))
  <2>1. S \subseteq LinesOf(S, film)
    BY DEF LinesOf
  <2>. QED
    BY <2>1
<1>. QED
  BY <1>1, <1>2, <1>3, WrittenIsRead

(* Where batch b's cues lie in a film, and what may stand for one.         *)
NumberOf(film) == (Len(film) + Batch - 1) \div Batch
Lo(b)          == (b - 1) * Batch + 1
Hi(film, b)    == Least(b * Batch, Len(film))

Fit(text)       == {text} \cup {said \in Replies(text) : ~BlankText(said)}
MaySay(film, c) == Fit(film[c].text)
AllTexts(film)  == UNION {MaySay(film, c) : c \in DOMAIN film}

(* A batch's record: segments left, texts so far, where it stands.          *)
Segments == [lo : Nat, hi : Nat]
Stages   == {"segment", "queued", "calling"} \cup Failures
Records(film) == [todo : Seq(Segments), out : Seq(AllTexts(film)), at : Stages, tries : 0..Attempts]

(* Segments side by side, from one cue to another.                         *)
Chain(todo, from, to) ==
    /\ todo = <<>> => from = to + 1
    /\ \A i \in 1..Len(todo) :
          /\ todo[i].lo <= todo[i].hi /\ todo[i].hi <= to
          /\ todo[i].lo = IF i = 1 THEN from ELSE todo[i - 1].hi + 1
          /\ i = Len(todo) => todo[i].hi = to

(* A batch is whole when what it has said and the segments it has left    *)
(* make up its cues, in order; batches already surfaced (up to n) have    *)
(* none left, and only those of the window queue for a call.              *)
Whole(film, n, b, batch) ==
    /\ Chain(batch.todo, Lo(b) + Len(batch.out), Hi(film, b))
    /\ \A i \in 1..Len(batch.out) : batch.out[i] \in MaySay(film, Lo(b) + i - 1)
    /\ batch.todo = <<>> => batch.at = "segment"
    /\ batch.at = "queued" => b \in n + 1..n + Concurrency
    /\ b <= n => batch.todo = <<>>

(* What the store holds under some texts says each of them.                *)
Says(film, key, out) ==
    /\ out \in Seq(AllTexts(film)) /\ Len(out) = Len(key)
    /\ \A i \in 1..Len(out) : out[i] \in Fit(key[i])

IdleRun == batches = <<>> /\ surfaced = 0 /\ untranslated = 0 /\ late = FALSE /\ lateCalls = 0

(* Between runs there is nothing; in a run, every batch is whole.          *)
RunIsWhole ==
    /\ DOMAIN batches = 1..NumberOf(cues)
    /\ surfaced \in Nat /\ surfaced + 1 \in 1..NumberOf(cues)
    /\ \A b \in 1..NumberOf(cues) :
          batches[b] \in Records(cues) /\ Whole(cues, surfaced, b, batches[b])

Shape ==
    /\ source \in Uploads /\ cues = Parse(source)
    /\ {active, glossary, late, terms} \subseteq BOOLEAN
    /\ runs \in 0..MaxRuns /\ lost \in 0..MaxLost
    /\ \A key \in DOMAIN batchStore : Says(cues, key, batchStore[key])
    /\ IF active THEN RunIsWhole ELSE IdleRun

(* What was bought, and what a run takes to be bought, is in the store.    *)
StillHeld == owned \subseteq bought /\ bought \subseteq DOMAIN batchStore

(* Past the deadline nothing new queues, so the calls that may still go    *)
(* out are those that queued before it.                                    *)
Queued == {b \in Batches : batches[b].at = "queued"}

FewLate ==
    /\ lateCalls \in Nat
    /\ ~late => lateCalls = 0
    /\ active /\ late => lateCalls + Cardinality(Queued) <= Concurrency

(* The running count of untranslated cues lies between the cues said as    *)
(* they were that are not blank, and all that were said as they were.      *)
Spared == {c \in Unchanged : ~BlankText(cues[c].text)}

Tally ==
    /\ untranslated \in Nat
    /\ active => /\ Cardinality(Spared) <= untranslated
                 /\ untranslated <= Cardinality(Unchanged)


-----------------------------------------------------------------------------
(* Replies: what scanning a text and reading a span remember.              *)
Scanned == {s \in [depth : Nat, inString : BOOLEAN, escaped : BOOLEAN] : s.escaped => s.inString}

LEMMA TokensDiffer ==
    /\ Open # Close /\ Open # Quote /\ Open # Comma /\ Open # Escape
    /\ Close # Quote /\ Close # Comma /\ Close # Escape
    /\ Quote # Comma /\ Quote # Escape /\ Comma # Escape
BY DEF Open, Close, Quote, Comma, Escape, Line

LEMMA ScanStepIs ==
    ASSUME NEW s \in Scanned, NEW token
    PROVE  /\ s.inString /\ s.escaped => ScanStep(s, token) = [s EXCEPT !.escaped = FALSE]
           /\ s.inString /\ ~s.escaped /\ token = Escape => ScanStep(s, token) = [s EXCEPT !.escaped = TRUE]
           /\ s.inString /\ ~s.escaped /\ token = Quote => ScanStep(s, token) = [s EXCEPT !.inString = FALSE]
           /\ s.inString /\ ~s.escaped /\ token \notin {Quote, Escape} => ScanStep(s, token) = s
           /\ ~s.inString /\ token = Quote => ScanStep(s, token) = [s EXCEPT !.inString = TRUE]
           /\ ~s.inString /\ token = Open => ScanStep(s, token) = [s EXCEPT !.depth = s.depth + 1]
           /\ ~s.inString /\ token = Close /\ s.depth > 0 => ScanStep(s, token) = [s EXCEPT !.depth = s.depth - 1]
           /\ ~s.inString /\ ~(token \in {Quote, Open}) /\ ~(token = Close /\ s.depth > 0) => ScanStep(s, token) = s
<1>1. CASE s.inString
  <2>1. ScanStep(s, token) = CASE s.escaped              -> [s EXCEPT !.escaped = FALSE]
             [] token = Escape /\ ~s.escaped -> [s EXCEPT !.escaped = TRUE]
             [] token = Quote /\ ~s.escaped  -> [s EXCEPT !.inString = FALSE]
             [] OTHER                  -> s
    BY <1>1, Zenon DEF ScanStep
  <2>. QED
    BY <1>1, <2>1, TokensDiffer
<1>2. CASE ~s.inString
  <2>1. ScanStep(s, token) = CASE token = Quote -> [s EXCEPT !.inString = TRUE]
             [] token = Open  -> [s EXCEPT !.depth = @ + 1]
             [] token = Close /\ s.depth > 0 -> [s EXCEPT !.depth = @ - 1]
             [] OTHER         -> s
    BY <1>2, Zenon DEF ScanStep
  <2>2. [s EXCEPT !.depth = @ + 1] = [s EXCEPT !.depth = s.depth + 1]
        /\ [s EXCEPT !.depth = @ - 1] = [s EXCEPT !.depth = s.depth - 1]
    BY DEF Scanned
  <2>. QED
    BY <1>2, <2>1, <2>2, TokensDiffer
<1>. QED
  BY <1>1, <1>2

LEMMA ScanStepKeeps ==
    ASSUME NEW s \in Scanned, NEW token
    PROVE  /\ ScanStep(s, token) \in Scanned
           /\ ScanStep(s, token).depth <= s.depth + 1
           /\ ScanStep(s, token).depth > s.depth => ~s.inString /\ token = Open
<1>. DEFINE after == ScanStep(s, token)
<1>1. CASE s.inString
  <2>1. \/ after \in {[s EXCEPT !.escaped = FALSE], [s EXCEPT !.escaped = TRUE], s}
        \/ ~s.escaped /\ after = [s EXCEPT !.inString = FALSE]
    BY <1>1, ScanStepIs
  <2>. HIDE DEF after
  <2>2. after \in Scanned /\ after.depth = s.depth
    BY <1>1, <2>1 DEF Scanned
  <2>3. after.depth <= s.depth + 1 /\ ~(after.depth > s.depth)
    BY <2>2 DEF Scanned
  <2>. QED
    BY <2>2, <2>3 DEF after
<1>2. CASE ~s.inString
  <2>1. \/ after = [s EXCEPT !.inString = TRUE]
        \/ token = Open /\ after = [s EXCEPT !.depth = s.depth + 1]
        \/ s.depth > 0 /\ after = [s EXCEPT !.depth = s.depth - 1]
        \/ after = s
    BY <1>2, ScanStepIs
  <2>. HIDE DEF after
  <2>2. after \in Scanned
    <3>1. ~s.escaped
      BY <1>2 DEF Scanned
    <3>2. [s EXCEPT !.depth = s.depth + 1] \in Scanned
      BY <3>1 DEF Scanned
    <3>3. [s EXCEPT !.inString = TRUE] \in Scanned
      <4>. DEFINE opened == [s EXCEPT !.inString = TRUE]
      <4>1. opened \in [depth : Nat, inString : BOOLEAN, escaped : BOOLEAN]
        BY DEF Scanned
      <4>2. opened.inString
        BY DEF Scanned
      <4>. HIDE DEF opened
      <4>. QED
        BY <4>1, <4>2 DEF Scanned
    <3>4. s.depth > 0 => [s EXCEPT !.depth = s.depth - 1] \in Scanned
      BY <3>1 DEF Scanned
    <3>. QED
      BY <2>1, <3>2, <3>3, <3>4
  <2>3. after.depth <= s.depth + 1 /\ (after.depth > s.depth => token = Open)
    BY <2>1 DEF Scanned
  <2>. QED
    BY <1>2, <2>2, <2>3 DEF after
<1>. QED
  BY <1>1, <1>2

LEMMA ScanIs ==
    ASSUME NEW S, NEW text \in Seq(S)
    PROVE  /\ Scan(text) \in [0..Len(text) -> Scanned]
           /\ Scan(text)[0] = StartOfText
           /\ \A i \in 1..Len(text) : /\ i - 1 \in 0..Len(text)
                                      /\ Scan(text)[i - 1] \in Scanned
                                      /\ Scan(text)[i] = ScanStep(Scan(text)[i - 1], text[i])
<1>. DEFINE n == Len(text)
            base == StartOfText
            step == [p \in Scanned \X (1..n) |-> ScanStep(p[1], text[p[2]])]
            Body(f) == [i \in 0..n |-> IF i = 0 THEN StartOfText ELSE ScanStep(f[i - 1], text[i])]
            After == CHOOSE f : f = Body(f)
<1>1. n \in Nat
  OBVIOUS
<1>2. base \in Scanned
  BY DEF StartOfText, Scanned
<1>3. step \in [Scanned \X (1..n) -> Scanned]
  BY ScanStepKeeps
<1>4. PICK f : Recurs(f, n, Scanned, base, step)
  <2>. HIDE DEF step, n, base
  <2>. QED
    BY <1>1, <1>2, <1>3, RecursionExists
<1>5. f \in [0..n -> Scanned] /\ f[0] = StartOfText
      /\ \A i \in 1..n : f[i - 1] \in Scanned /\ f[i] = ScanStep(f[i - 1], text[i])
  <2>. HIDE DEF n
  <2>. QED
    BY <1>4 DEF Recurs
<1>6. After = Body(After)
  <2>1. \A i \in 0..n : i # 0 => i \in 1..n
    BY <1>1
  <2>2. f = Body(f)
    <3>. HIDE DEF n
    <3>. QED
      BY <1>5, <2>1
  <2>. QED
    BY <2>2, Zenon
<1>7. Scan(text) = After
  BY Zenon DEF Scan
<1>. HIDE DEF After
<1>8. After[0] = StartOfText /\ \A i \in 1..n : After[i] = ScanStep(After[i - 1], text[i])
  <2>1. \A i \in 0..n : After[i] = IF i = 0 THEN StartOfText ELSE ScanStep(After[i - 1], text[i])
    BY <1>6, Zenon
  <2>2. 0 \in 0..n /\ \A i \in 1..n : i \in 0..n /\ i # 0
    BY <1>1
  <2>. HIDE DEF n
  <2>. QED
    BY <2>1, <2>2
<1>10. \A i \in 0..n : After[i] \in Scanned
  <2>1. After[0] \in Scanned /\ \A i \in 1..n : After[i - 1] \in Scanned => After[i] \in Scanned
    BY <1>2, <1>8, ScanStepKeeps
  <2>. HIDE DEF n
  <2>. QED
    BY <1>1, <2>1, RecursionKeeps
<1>11. After = [i \in 0..n |-> After[i]]
  <2>1. Body(After) = [i \in 0..n |-> Body(After)[i]]
    OBVIOUS
  <2>. QED
    BY <1>6, <2>1, Zenon
<1>12. After \in [0..n -> Scanned]
  <2>. HIDE DEF n
  <2>. QED
    BY <1>10, <1>11
<1>13. \A i \in 1..n : i - 1 \in 0..n
  BY <1>1
<1>. QED
  BY <1>7, <1>8, <1>10, <1>12, <1>13

(* ... and what a span is read as.                                         *)
Lexemes == {"start", "open", "close", "comma", "value", "junk"}

Readings(S) == [last : Lexemes, legal : BOOLEAN, flat : BOOLEAN, texts : Seq(Seq(S))]

LastText(said, token) == [said EXCEPT ![Len(said)] = Append(said[Len(said)], token)]

LEMMA LastTextIs ==
    ASSUME NEW S, NEW said \in Seq(Seq(S)), NEW token \in S
    PROVE  LastText(said, token) \in Seq(Seq(S))
<1>. DEFINE n == Len(said)
            more == [said EXCEPT ![n] = Append(said[n], token)]
<1>1. n \in Nat /\ DOMAIN said = 1..n /\ \A i \in 1..n : said[i] \in Seq(S)
  OBVIOUS
<1>2. more = [i \in 1..n |-> IF i = n THEN Append(said[n], token) ELSE said[i]]
  BY <1>1
<1>3. \A i \in 1..n : more[i] \in Seq(S)
  <2>1. \A i \in 1..n : Append(said[i], token) \in Seq(S)
    BY <1>1
  <2>. HIDE DEF n
  <2>. QED
    BY <1>1, <1>2, <2>1
<1>4. more \in [1..n -> Seq(S)]
  <2>. HIDE DEF n
  <2>. QED
    BY <1>2, <1>3
<1>5. more \in Seq(Seq(S))
  <2>. DEFINE T == Seq(S)
  <2>1. more \in [1..n -> T]
    BY <1>4
  <2>. HIDE DEF more, n, T
  <2>2. \A x \in [1..n -> T] : x \in Seq(T)
    BY <1>1
  <2>. QED
    BY <2>1, <2>2 DEF T
<1>. QED
  BY <1>5 DEF LastText

LEMMA ReadsOutside ==
    ASSUME NEW r, NEW before, NEW after, NEW token, ~before.inString
    PROVE  ReadStep(r, before, after, token) =
             [last  |-> Lexeme(token),
              legal |-> r.legal /\ <<r.last, Lexeme(token)>> \in MayFollow,
              flat  |-> r.flat /\ (r.last = "start" \/ token \in {Quote, Comma, Close}),
              texts |-> IF token = Quote THEN Append(r.texts, <<>>) ELSE r.texts]
BY Zenon DEF ReadStep

LEMMA ReadsInside ==
    ASSUME NEW S, NEW r \in Readings(S), NEW before, NEW after, NEW token,
           before.inString, after.inString, ~after.escaped
    PROVE  ReadStep(r, before, after, token) = [r EXCEPT !.texts = LastText(r.texts, token)]
<1>1. [r EXCEPT !.texts[Len(r.texts)] = Append(@, token)] = [r EXCEPT !.texts = LastText(r.texts, token)]
  BY DEF LastText, Readings
<1>2. ReadStep(r, before, after, token) = [r EXCEPT !.texts[Len(r.texts)] = Append(@, token)]
  BY Zenon DEF ReadStep
<1>. QED
  BY <1>1, <1>2

LEMMA ReadsNothing ==
    ASSUME NEW r, NEW before, NEW after, NEW token,
           before.inString, ~(after.inString /\ ~after.escaped)
    PROVE  ReadStep(r, before, after, token) = r
BY Zenon DEF ReadStep

LEMMA LexemeIs ==
    ASSUME NEW token
    PROVE  /\ Lexeme(token) \in Lexemes \ {"start"}
           /\ token = Open => Lexeme(token) = "open"
           /\ token = Close => Lexeme(token) = "close"
           /\ token = Comma => Lexeme(token) = "comma"
           /\ token = Quote => Lexeme(token) = "value"
<1>1. Lexeme(token) = CASE token = Open                            -> "open"
      [] token = Close                           -> "close"
      [] token = Comma                           -> "comma"
      [] token = Quote \/ token.kind = "number"  -> "value"
      [] OTHER                                   -> "junk"
  BY Zenon DEF Lexeme
<1>2. token \in {Open, Close, Comma} => ~(token = Quote \/ token.kind = "number")
  BY DEF Open, Close, Comma, Quote, Line
<1>3. CASE token \in {Open, Close, Comma}
  BY <1>1, <1>2, <1>3, TokensDiffer DEF Lexemes
<1>4. CASE token \notin {Open, Close, Comma}
  <2>1. token # Open /\ token # Close /\ token # Comma
    BY <1>4
  <2>2. Lexeme(token) = IF token = Quote \/ token.kind = "number" THEN "value" ELSE "junk"
    BY <1>1, <2>1
  <2>. QED
    BY <2>1, <2>2 DEF Lexemes
<1>. QED
  BY <1>3, <1>4

LEMMA ReadStepKeeps ==
    ASSUME NEW S, NEW r \in Readings(S), NEW before, NEW after, NEW token \in S
    PROVE  ReadStep(r, before, after, token) \in Readings(S)
<1>1. CASE ~before.inString
  <2>. DEFINE said == IF token = Quote THEN Append(r.texts, <<>>) ELSE r.texts
              legal == r.legal /\ <<r.last, Lexeme(token)>> \in MayFollow
              flat == r.flat /\ (r.last = "start" \/ token \in {Quote, Comma, Close})
  <2>1. said \in Seq(Seq(S))
    BY DEF Readings
  <2>2. legal \in BOOLEAN /\ flat \in BOOLEAN
    OBVIOUS
  <2>3. ReadStep(r, before, after, token) = [last |-> Lexeme(token), legal |-> legal, flat |-> flat, texts |-> said]
    BY <1>1, ReadsOutside
  <2>. HIDE DEF said, legal, flat
  <2>. QED
    BY <2>1, <2>2, <2>3, LexemeIs DEF Readings
<1>2. CASE before.inString /\ after.inString /\ ~after.escaped
  <2>1. r.texts \in Seq(Seq(S))
    BY DEF Readings
  <2>2. LastText(r.texts, token) \in Seq(Seq(S))
    BY <2>1, LastTextIs
  <2>. DEFINE said == LastText(r.texts, token)
  <2>. HIDE DEF said
  <2>3. ReadStep(r, before, after, token) = [r EXCEPT !.texts = said]
    BY <1>2, ReadsInside DEF said
  <2>. QED
    BY <2>2, <2>3 DEF Readings, said
<1>3. CASE before.inString /\ ~(after.inString /\ ~after.escaped)
  BY <1>3, ReadsNothing
<1>. QED
  BY <1>1, <1>2, <1>3

LEMMA ReadingIs ==
    ASSUME NEW S, NEW span \in Seq(S)
    PROVE  /\ Reading(span) \in [0..Len(span) -> Readings(S)]
           /\ Reading(span)[0] = StartOfSpan
           /\ \A i \in 1..Len(span) :
                 /\ span[i] \in S
                 /\ Reading(span)[i - 1] \in Readings(S)
                 /\ Reading(span)[i] = ReadStep(Reading(span)[i - 1], Scan(span)[i - 1], Scan(span)[i], span[i])
<1>. DEFINE n == Len(span)
            base == StartOfSpan
            scan == Scan(span)
            V == Readings(S)
            step == [p \in V \X (1..n) |-> ReadStep(p[1], scan[p[2] - 1], scan[p[2]], span[p[2]])]
            Body(f) == [i \in 0..n |-> IF i = 0 THEN StartOfSpan
                                       ELSE ReadStep(f[i - 1], scan[i - 1], scan[i], span[i])]
            Read == CHOOSE f : f = Body(f)
<1>1. n \in Nat /\ \A i \in 1..n : span[i] \in S
  OBVIOUS
<1>2. base \in V
  <2>. DEFINE T == Seq(S)
  <2>1. <<>> \in Seq(T)
    OBVIOUS
  <2>. HIDE DEF T
  <2>2. StartOfSpan \in [last : Lexemes, legal : BOOLEAN, flat : BOOLEAN, texts : Seq(T)]
    BY <2>1 DEF StartOfSpan, Lexemes
  <2>. QED
    BY <2>2 DEF Readings, T
<1>3. step \in [V \X (1..n) -> V]
  <2>. HIDE DEF V, n
  <2>1. \A p \in V \X (1..n) : ReadStep(p[1], scan[p[2] - 1], scan[p[2]], span[p[2]]) \in V
    BY <1>1, ReadStepKeeps DEF V
  <2>. QED
    BY <2>1
<1>. HIDE DEF V
<1>4. PICK f : Recurs(f, n, V, base, step)
  <2>. HIDE DEF step, n, base
  <2>. QED
    BY <1>1, <1>2, <1>3, RecursionExists
<1>5. f \in [0..n -> V] /\ f[0] = StartOfSpan
      /\ \A i \in 1..n : f[i - 1] \in V /\ f[i] = ReadStep(f[i - 1], scan[i - 1], scan[i], span[i])
  <2>. HIDE DEF n
  <2>. QED
    BY <1>4 DEF Recurs
<1>6. Read = Body(Read)
  <2>1. \A i \in 0..n : i # 0 => i \in 1..n
    BY <1>1
  <2>2. f = Body(f)
    <3>. HIDE DEF n
    <3>. QED
      BY <1>5, <2>1
  <2>. QED
    BY <2>2, Zenon
<1>7. Reading(span) = Read
  BY Zenon DEF Reading
<1>. HIDE DEF Read
<1>8. Read[0] = StartOfSpan /\ \A i \in 1..n : Read[i] = ReadStep(Read[i - 1], scan[i - 1], scan[i], span[i])
  <2>1. \A i \in 0..n : Read[i] = IF i = 0 THEN StartOfSpan ELSE ReadStep(Read[i - 1], scan[i - 1], scan[i], span[i])
    BY <1>6, Zenon
  <2>2. 0 \in 0..n /\ \A i \in 1..n : i \in 0..n /\ i # 0
    BY <1>1
  <2>. HIDE DEF n
  <2>. QED
    BY <2>1, <2>2
<1>9. \A i \in 0..n : Read[i] \in V
  <2>1. Read[0] \in V /\ \A i \in 1..n : Read[i - 1] \in V => Read[i] \in V
    BY <1>1, <1>2, <1>8, ReadStepKeeps DEF V
  <2>. HIDE DEF n
  <2>. QED
    BY <1>1, <2>1, RecursionKeeps
<1>10. Read = [i \in 0..n |-> Read[i]]
  <2>1. Body(Read) = [i \in 0..n |-> Body(Read)[i]]
    OBVIOUS
  <2>. QED
    BY <1>6, <2>1, Zenon
<1>11. Read \in [0..n -> V]
  <2>. HIDE DEF n
  <2>. QED
    BY <1>9, <1>10
<1>12. \A i \in 1..n : i - 1 \in 0..n
  BY <1>1
<1>. QED
  BY <1>1, <1>7, <1>8, <1>9, <1>11, <1>12 DEF V

-----------------------------------------------------------------------------
(* The depth is no more than the tokens so far, and for every depth there  *)
(* is a bracket that opened it.                                            *)
LEMMA DepthsAreOpened ==
    ASSUME NEW S, NEW text \in Seq(S), NEW i \in 0..Len(text)
    PROVE  /\ Scan(text)[i].depth <= i
           /\ \A k \in 1..Scan(text)[i].depth :
                 \E o \in 1..i : Opens(text, Scan(text), o) /\ Scan(text)[o].depth = k
<1>. DEFINE n == Len(text)
            scan == Scan(text)
            Opened(j) == /\ scan[j].depth <= j
                         /\ \A k \in 1..scan[j].depth :
                               \E o \in 1..j : Opens(text, scan, o) /\ scan[o].depth = k
            Good == {j \in 0..n : Opened(j)}
<1>1. n \in Nat /\ \A j \in 0..n : scan[j] \in Scanned /\ scan[j].depth \in Nat
  <2>1. scan \in [0..n -> Scanned]
    BY ScanIs
  <2>. HIDE DEF scan
  <2>. QED
    BY <2>1 DEF Scanned
<1>2. scan[0].depth = 0
  BY ScanIs DEF StartOfText
<1>3. \A j \in 1..n : scan[j] = ScanStep(scan[j - 1], text[j]) /\ scan[j - 1] \in Scanned
  BY ScanIs
<1>. HIDE DEF n, scan
<1>4. 0 \in Good
  BY <1>1, <1>2
<1>5. ASSUME NEW j \in 0..n, j < n, j \in Good PROVE j + 1 \in Good
  <2>1. j \in Nat /\ j + 1 \in 1..n /\ j + 1 \in 0..n /\ (j + 1) - 1 = j
    BY <1>1, <1>5
  <2>2. scan[j + 1] = ScanStep(scan[j], text[j + 1]) /\ scan[j] \in Scanned
    BY <1>3, <2>1
  <2>3. scan[j].depth \in Nat /\ scan[j + 1].depth \in Nat
    BY <1>1, <2>1
  <2>4. scan[j + 1].depth <= scan[j].depth + 1
        /\ (scan[j + 1].depth > scan[j].depth => ~scan[j].inString /\ text[j + 1] = Open)
    BY <2>2, ScanStepKeeps
  <2>5. Opened(j)
    BY <1>5
  <2>6. scan[j + 1].depth <= j + 1
    BY <2>1, <2>3, <2>4, <2>5
  <2>7. ASSUME NEW k \in 1..scan[j + 1].depth
        PROVE  \E o \in 1..(j + 1) : Opens(text, scan, o) /\ scan[o].depth = k
    <3>1. CASE k <= scan[j].depth
      <4>1. k \in 1..scan[j].depth
        BY <2>3, <3>1
      <4>2. PICK o \in 1..j : Opens(text, scan, o) /\ scan[o].depth = k
        BY <2>5, <4>1
      <4>. QED
        BY <2>1, <4>2
    <3>2. CASE k > scan[j].depth
      <4>1. k = scan[j + 1].depth /\ scan[j + 1].depth > scan[j].depth
        BY <2>3, <2>4, <3>2
      <4>2. Opens(text, scan, j + 1)
        BY <2>1, <2>4, <4>1 DEF Opens
      <4>3. j + 1 \in 1..(j + 1)
        BY <2>1
      <4>. QED
        BY <4>1, <4>2, <4>3
    <3>. QED
      BY <2>3, <3>1, <3>2
  <2>. QED
    BY <2>1, <2>6, <2>7
<1>6. \A j \in 0..n : j \in Good
  <2>. HIDE DEF Good
  <2>. QED
    BY <1>1, <1>4, <1>5, NumberInduction
<1>7. Opened(i)
  BY <1>6 DEF n
<1>. QED
  BY <1>7 DEF scan

(* A nonempty set of numbers up to n has a greatest one, and Max is that.  *)
LEMMA GreatestNumber ==
    ASSUME NEW n \in Nat, NEW T, T \subseteq 1..n, T # {}
    PROVE  Max(T) \in T /\ \A x \in T : x <= Max(T)
<1>. DEFINE Gaps == {n - x : x \in T}
<1>1. \A x \in T : x \in Int /\ n - x \in Nat
  <2>1. \A x \in 1..n : x \in Int /\ n - x \in Nat
    OBVIOUS
  <2>. QED
    BY <2>1
<1>2. Gaps \subseteq Nat /\ Gaps # {}
  BY <1>1
<1>3. PICK g \in Gaps : \A h \in Gaps : g <= h
  <2>. HIDE DEF Gaps
  <2>. QED
    BY <1>2, LeastNumber
<1>4. PICK x \in T : g = n - x
  OBVIOUS
<1>5. ASSUME NEW y \in T PROVE x >= y
  <2>1. n - x <= n - y
    BY <1>3, <1>4
  <2>2. x \in Int /\ y \in Int
    BY <1>1
  <2>. QED
    BY <2>1, <2>2
<1>6. \E z \in T : \A y \in T : z >= y
  BY <1>5
<1>7. Max(T) = CHOOSE z \in T : \A y \in T : z >= y
  BY Zenon DEF Max
<1>8. Max(T) \in T /\ \A y \in T : Max(T) >= y
  BY <1>6, <1>7
<1>. HIDE DEF Max
<1>. QED
  BY <1>1, <1>8

(* What a closing bracket closes.                                          *)
LEMMA OpenerIs ==
    ASSUME NEW S, NEW text \in Seq(S), NEW c \in 1..Len(text), Closes(text, Scan(text), c)
    PROVE  /\ Opener(text, Scan(text), c) \in 1..(c - 1)
           /\ Opens(text, Scan(text), Opener(text, Scan(text), c))
           /\ Scan(text)[Opener(text, Scan(text), c)].depth = Scan(text)[c - 1].depth
           /\ \A j \in 1..(c - 1) :
                 Opens(text, Scan(text), j) /\ Scan(text)[j].depth = Scan(text)[c - 1].depth
                   => j <= Opener(text, Scan(text), c)
<1>. DEFINE scan == Scan(text)
            T == {i \in 1..(c - 1) : Opens(text, scan, i) /\ scan[i].depth = scan[c - 1].depth}
<1>1. c - 1 \in 0..Len(text) /\ c - 1 \in Nat
  OBVIOUS
<1>2. scan[c - 1].depth \in Nat /\ scan[c - 1].depth > 0
  <2>1. scan[c - 1] \in Scanned
    BY <1>1, ScanIs
  <2>. HIDE DEF scan
  <2>2. Closes(text, scan, c)
    BY DEF scan
  <2>. QED
    BY <2>1, <2>2 DEF Scanned, Closes
<1>3. T # {}
  <2>1. \A k \in 1..scan[c - 1].depth :
          \E o \in 1..(c - 1) : Opens(text, scan, o) /\ scan[o].depth = k
    BY <1>1, DepthsAreOpened
  <2>. HIDE DEF scan
  <2>2. scan[c - 1].depth \in 1..scan[c - 1].depth
    BY <1>2
  <2>. QED
    BY <2>1, <2>2
<1>4. Opener(text, scan, c) = Max(T)
  BY Zenon DEF Opener
<1>5. Max(T) \in T /\ \A x \in T : x <= Max(T)
  <2>1. T \subseteq 1..(c - 1)
    OBVIOUS
  <2>. HIDE DEF T
  <2>. QED
    BY <1>1, <1>3, <2>1, GreatestNumber
<1>. HIDE DEF scan
<1>. QED
  BY <1>4, <1>5 DEF scan

-----------------------------------------------------------------------------
(* Texts that begin alike are scanned alike.                               *)
LEMMA ScansAlike ==
    ASSUME NEW S, NEW p \in Seq(S), NEW t \in Seq(S), Len(p) <= Len(t),
           \A i \in 1..Len(p) : t[i] = p[i]
    PROVE  \A i \in 0..Len(p) : Scan(t)[i] = Scan(p)[i]
<1>. DEFINE n == Len(p)
            one == Scan(t)
            other == Scan(p)
            Good == {i \in 0..n : one[i] = other[i]}
<1>1. n \in Nat /\ one[0] = other[0]
  BY ScanIs
<1>2. \A i \in 1..n : i \in 1..Len(t) /\ one[i] = ScanStep(one[i - 1], t[i])
                      /\ other[i] = ScanStep(other[i - 1], p[i])
  <2>1. \A i \in 1..n : i \in 1..Len(t)
    OBVIOUS
  <2>. QED
    BY <2>1, ScanIs
<1>. HIDE DEF one, other
<1>3. 0 \in Good
  BY <1>1
<1>4. ASSUME NEW i \in 0..n, i < n, i \in Good PROVE i + 1 \in Good
  <2>1. i + 1 \in 1..n /\ i + 1 \in 0..n /\ (i + 1) - 1 = i
    BY <1>1, <1>4
  <2>. QED
    BY <1>2, <1>4, <2>1
<1>5. \A i \in 0..n : i \in Good
  <2>. HIDE DEF Good, n
  <2>. QED
    BY <1>1, <1>3, <1>4, NumberInduction
<1>. QED
  BY <1>5 DEF one, other

(* What is inside a string does not depend on the depth.                   *)
SameString(s, u) == s.inString = u.inString /\ s.escaped = u.escaped

LEMMA StringsStepAlike ==
    ASSUME NEW s \in Scanned, NEW u \in Scanned, SameString(s, u), NEW token
    PROVE  SameString(ScanStep(s, token), ScanStep(u, token))
<1>1. ASSUME NEW x \in Scanned
      PROVE  /\ x.inString /\ x.escaped => ScanStep(x, token).inString /\ ~ScanStep(x, token).escaped
             /\ x.inString /\ ~x.escaped =>
                  /\ (ScanStep(x, token).inString <=> token # Quote)
                  /\ (ScanStep(x, token).escaped <=> token = Escape)
             /\ ~x.inString => (ScanStep(x, token).inString <=> token = Quote) /\ ~ScanStep(x, token).escaped
  <2>. DEFINE y == ScanStep(x, token)
  <2>1. CASE x.inString /\ x.escaped
    <3>1. y = [x EXCEPT !.escaped = FALSE]
      BY <2>1, ScanStepIs
    <3>. HIDE DEF y
    <3>2. y.inString /\ ~y.escaped
      BY <2>1, <3>1 DEF Scanned
    <3>. QED
      BY <2>1, <3>2 DEF y
  <2>2. CASE x.inString /\ ~x.escaped
    <3>1. CASE token = Escape
      <4>1. y = [x EXCEPT !.escaped = TRUE]
        BY <2>2, <3>1, ScanStepIs
      <4>. HIDE DEF y
      <4>2. y.inString /\ y.escaped /\ token # Quote
        BY <2>2, <3>1, <4>1, TokensDiffer DEF Scanned
      <4>. QED
        BY <2>2, <3>1, <4>2, Zenon DEF y
    <3>2. CASE token = Quote
      <4>1. y = [x EXCEPT !.inString = FALSE]
        BY <2>2, <3>2, ScanStepIs
      <4>. HIDE DEF y
      <4>2. ~y.inString /\ ~y.escaped /\ token # Escape
        BY <2>2, <3>2, <4>1, TokensDiffer DEF Scanned
      <4>. QED
        BY <2>2, <3>2, <4>2, Zenon DEF y
    <3>3. CASE token \notin {Quote, Escape}
      BY <2>2, <3>3, ScanStepIs DEF Scanned
    <3>. QED
      BY <3>1, <3>2, <3>3
  <2>3. CASE ~x.inString
    <3>1. ~x.escaped
      BY <2>3 DEF Scanned
    <3>2. CASE token = Quote
      <4>1. y = [x EXCEPT !.inString = TRUE]
        BY <2>3, <3>2, ScanStepIs
      <4>. HIDE DEF y
      <4>2. y.inString /\ ~y.escaped
        BY <3>1, <4>1 DEF Scanned
      <4>. QED
        BY <2>3, <3>2, <4>2, Zenon DEF y
    <3>3. CASE token # Quote
      <4>1. y \in {x, [x EXCEPT !.depth = x.depth + 1], [x EXCEPT !.depth = x.depth - 1]}
        BY <2>3, <3>3, ScanStepIs
      <4>. HIDE DEF y
      <4>2. ~y.inString /\ ~y.escaped
        BY <2>3, <3>1, <4>1 DEF Scanned
      <4>. QED
        BY <2>3, <3>3, <4>2, Zenon DEF y
    <3>. QED
      BY <3>2, <3>3
  <2>. QED
    BY <2>1, <2>2, <2>3
<1>. DEFINE after == ScanStep(s, token)
            other == ScanStep(u, token)
<1>2. after \in Scanned /\ other \in Scanned
  BY ScanStepKeeps
<1>3. /\ s.inString /\ s.escaped => after.inString /\ ~after.escaped
      /\ s.inString /\ ~s.escaped => (after.inString <=> token # Quote) /\ (after.escaped <=> token = Escape)
      /\ ~s.inString => (after.inString <=> token = Quote) /\ ~after.escaped
  BY <1>1
<1>4. /\ u.inString /\ u.escaped => other.inString /\ ~other.escaped
      /\ u.inString /\ ~u.escaped => (other.inString <=> token # Quote) /\ (other.escaped <=> token = Escape)
      /\ ~u.inString => (other.inString <=> token = Quote) /\ ~other.escaped
  BY <1>1
<1>. HIDE DEF after, other
<1>5. SameString(after, other)
  BY <1>2, <1>3, <1>4 DEF SameString, Scanned
<1>. QED
  BY <1>5 DEF after, other

(* A span that begins outside strings is scanned as in its text.           *)
LEMMA SpansScanAlike ==
    ASSUME NEW S, NEW t \in Seq(S), NEW span \in Seq(S), NEW m \in Nat, m + Len(span) <= Len(t),
           \A j \in 1..Len(span) : span[j] = t[m + j], ~Scan(t)[m].inString
    PROVE  \A j \in 0..Len(span) : SameString(Scan(span)[j], Scan(t)[m + j])
<1>. DEFINE n == Len(span)
            one == Scan(span)
            other == Scan(t)
            Good == {j \in 0..n : SameString(one[j], other[m + j])}
<1>1. n \in Nat /\ \A j \in 0..n : m + j \in 0..Len(t) /\ one[j] \in Scanned /\ other[m + j] \in Scanned
  <2>1. n \in Nat /\ \A j \in 0..n : m + j \in 0..Len(t)
    OBVIOUS
  <2>2. one \in [0..n -> Scanned] /\ other \in [0..Len(t) -> Scanned]
    BY ScanIs
  <2>. HIDE DEF n, one, other
  <2>. QED
    BY <2>1, <2>2
<1>2. one[0] = StartOfText
  BY ScanIs
<1>3. \A j \in 1..n : one[j] = ScanStep(one[j - 1], span[j])
  BY ScanIs
<1>4. \A j \in 1..n : other[m + j] = ScanStep(other[m + (j - 1)], span[j])
  <2>1. \A j \in 1..n : m + j \in 1..Len(t) /\ (m + j) - 1 = m + (j - 1)
    OBVIOUS
  <2>2. \A i \in 1..Len(t) : other[i] = ScanStep(other[i - 1], t[i])
    BY ScanIs
  <2>. HIDE DEF n, other
  <2>. QED
    BY <2>1, <2>2 DEF n
<1>5. ~other[m].inString
  OBVIOUS
<1>. HIDE DEF n, one, other
<1>6. 0 \in Good
  <2>1. 0 \in 0..n /\ m + 0 = m
    BY <1>1
  <2>2. other[m] \in Scanned
    BY <1>1, <2>1
  <2>3. ~other[m].escaped /\ other[m].inString \in BOOLEAN /\ other[m].escaped \in BOOLEAN
    BY <1>5, <2>2 DEF Scanned
  <2>4. ~one[0].inString /\ ~one[0].escaped /\ one[0].inString \in BOOLEAN /\ one[0].escaped \in BOOLEAN
    BY <1>2 DEF StartOfText
  <2>5. SameString(one[0], other[m])
    BY <1>5, <2>3, <2>4 DEF SameString
  <2>. QED
    BY <2>1, <2>5
<1>7. ASSUME NEW j \in 0..n, j < n, j \in Good PROVE j + 1 \in Good
  <2>1. j + 1 \in 1..n /\ j + 1 \in 0..n /\ (j + 1) - 1 = j
    BY <1>1, <1>7
  <2>2. one[j + 1] = ScanStep(one[j], span[j + 1]) /\ other[m + (j + 1)] = ScanStep(other[m + j], span[j + 1])
    BY <1>3, <1>4, <2>1
  <2>3. SameString(one[j], other[m + j]) /\ one[j] \in Scanned /\ other[m + j] \in Scanned
    BY <1>1, <1>7
  <2>4. SameString(one[j + 1], other[m + (j + 1)])
    BY <2>2, <2>3, StringsStepAlike
  <2>. QED
    BY <2>1, <2>4
<1>8. \A j \in 0..n : j \in Good
  <2>. HIDE DEF Good
  <2>. QED
    BY <1>1, <1>6, <1>7, NumberInduction
<1>. QED
  BY <1>8 DEF n, one, other

-----------------------------------------------------------------------------
(* An array as a model writes it, from the token after the n-th on.        *)
Stands(t, n, part) == n + Len(part) <= Len(t) /\ \A j \in 1..Len(part) : t[n + j] = part[j]

Tokens == {Open, Close, Quote, Escape, Comma}

LEMMA PartsStand ==
    ASSUME NEW S, NEW t \in Seq(S), NEW n \in Nat, NEW a \in Seq(S), NEW b \in Seq(S), Stands(t, n, a \o b)
    PROVE  /\ Stands(t, n, a) /\ Stands(t, n + Len(a), b)
           /\ Len(a \o b) = Len(a) + Len(b) /\ Len(a) \in Nat /\ Len(b) \in Nat
<1>1. Len(a) \in Nat /\ Len(b) \in Nat /\ Len(t) \in Nat /\ Len(a \o b) = Len(a) + Len(b)
  OBVIOUS
<1>2. \A j \in 1..Len(a) : (a \o b)[j] = a[j]
  OBVIOUS
<1>3. \A j \in 1..Len(b) : (a \o b)[Len(a) + j] = b[j]
  OBVIOUS
<1>. DEFINE la == Len(a)
            lb == Len(b)
            lt == Len(t)
            ab == a \o b
<1>4. n + (la + lb) <= lt /\ \A j \in 1..(la + lb) : t[n + j] = ab[j]
  BY <1>1 DEF Stands
<1>5. la \in Nat /\ lb \in Nat /\ lt \in Nat
  BY <1>1
<1>. HIDE DEF la, lb, lt, ab
<1>6. n + la <= lt /\ (n + la) + lb <= lt
  BY <1>4, <1>5
<1>7. \A j \in 1..la : j \in 1..(la + lb)
  BY <1>5
<1>8. \A j \in 1..lb : la + j \in 1..(la + lb) /\ n + (la + j) = (n + la) + j
  BY <1>5
<1>9. \A j \in 1..la : t[n + j] = a[j]
  BY <1>2, <1>4, <1>7 DEF la, ab
<1>10. \A j \in 1..lb : t[(n + la) + j] = b[j]
  <2>1. \A j \in 1..lb : t[n + (la + j)] = ab[la + j]
    BY <1>4, <1>8
  <2>2. \A j \in 1..lb : ab[la + j] = b[j]
    BY <1>3 DEF la, lb, ab
  <2>. QED
    BY <1>8, <2>1, <2>2
<1>. QED
  BY <1>1, <1>6, <1>9, <1>10 DEF Stands, la, lb, lt

(* The only token of a one-token part.                                     *)
LEMMA TokenStands ==
    ASSUME NEW S, NEW t \in Seq(S), NEW n \in Nat, NEW token, Stands(t, n, <<token>>)
    PROVE  n + 1 \in 1..Len(t) /\ t[n + 1] = token
<1>1. Len(<<token>>) = 1 /\ <<token>>[1] = token /\ 1 \in 1..1
  OBVIOUS
<1>2. n + 1 <= Len(t) /\ \A j \in 1..1 : t[n + j] = <<token>>[j]
  BY <1>1 DEF Stands
<1>3. t[n + 1] = token
  BY <1>1, <1>2
<1>. QED
  BY <1>2, <1>3

(* One token more.                                                         *)
LEMMA OneMore ==
    ASSUME NEW S, NEW t \in Seq(S), NEW m \in Nat, m + 1 <= Len(t)
    PROVE  /\ m \in 0..Len(t) /\ m + 1 \in 1..Len(t) /\ m + 1 \in 0..Len(t) /\ t[m + 1] \in S
           /\ Scan(t)[m] \in Scanned /\ Scan(t)[m + 1] \in Scanned
           /\ Reading(t)[m] \in Readings(S) /\ Reading(t)[m + 1] \in Readings(S)
           /\ Scan(t)[m + 1] = ScanStep(Scan(t)[m], t[m + 1])
           /\ Reading(t)[m + 1] = ReadStep(Reading(t)[m], Scan(t)[m], Scan(t)[m + 1], t[m + 1])
<1>1. m \in 0..Len(t) /\ m + 1 \in 1..Len(t) /\ m + 1 \in 0..Len(t) /\ (m + 1) - 1 = m /\ t[m + 1] \in S
  OBVIOUS
<1>2. Scan(t) \in [0..Len(t) -> Scanned] /\ Reading(t) \in [0..Len(t) -> Readings(S)]
  BY ScanIs, ReadingIs
<1>3. /\ Scan(t)[(m + 1) - 1] \in Scanned
      /\ Scan(t)[m + 1] = ScanStep(Scan(t)[(m + 1) - 1], t[m + 1])
      /\ Reading(t)[m + 1]
            = ReadStep(Reading(t)[(m + 1) - 1], Scan(t)[(m + 1) - 1], Scan(t)[m + 1], t[m + 1])
  BY <1>1, ScanIs, ReadingIs
<1>4. Scan(t)[m] \in Scanned /\ Scan(t)[m + 1] \in Scanned
      /\ Reading(t)[m] \in Readings(S) /\ Reading(t)[m + 1] \in Readings(S)
  <2>. DEFINE len == Len(t)
              scan == Scan(t)
              read == Reading(t)
              R == Readings(S)
  <2>. HIDE DEF len, scan, read, R
  <2>1. m \in 0..len /\ m + 1 \in 0..len /\ scan \in [0..len -> Scanned] /\ read \in [0..len -> R]
    BY <1>1, <1>2 DEF len, scan, read, R
  <2>2. scan[m] \in Scanned /\ scan[m + 1] \in Scanned /\ read[m] \in R /\ read[m + 1] \in R
    BY <2>1
  <2>. QED
    BY <2>2 DEF scan, read, R
<1>. QED
  BY <1>1, <1>3, <1>4

(* A text is being read: m tokens in, of a quotation after the n-th.       *)
InText(t, n, m, said) ==
    /\ m \in Nat /\ n < m /\ m <= Len(t)
    /\ t[n + 1] = Quote
    /\ Scan(t)[m].inString /\ ~Scan(t)[m].escaped
    /\ \A j \in (n + 1)..m : Scan(t)[j].inString /\ Scan(t)[j].depth = Scan(t)[n].depth
    /\ Reading(t)[m].last = "value"
    /\ Reading(t)[m].legal <=> Reading(t)[n].legal /\ <<Reading(t)[n].last, "value">> \in MayFollow
    /\ Reading(t)[m].flat <=> Reading(t)[n].flat
    /\ Reading(t)[m].texts = Append(Reading(t)[n].texts, said)

LEMMA QuoteOpens ==
    ASSUME NEW S, NEW t \in Seq(S), NEW n \in Nat, n + 1 <= Len(t), t[n + 1] = Quote, ~Scan(t)[n].inString
    PROVE  InText(t, n, n + 1, <<>>)
<1>. DEFINE s == Scan(t)[n]
            u == Scan(t)[n + 1]
            r == Reading(t)[n]
            x == Reading(t)[n + 1]
<1>1. s \in Scanned /\ r \in Readings(S) /\ u = ScanStep(s, Quote) /\ x = ReadStep(r, s, u, Quote)
  BY OneMore
<1>2. ~s.inString
  OBVIOUS
<1>. HIDE DEF s, u, r, x
<1>3. u = [s EXCEPT !.inString = TRUE]
  BY <1>1, <1>2, ScanStepIs
<1>4. u.inString /\ ~u.escaped /\ u.depth = s.depth
  BY <1>1, <1>2, <1>3 DEF Scanned
<1>5. /\ x.last = "value"
      /\ x.legal <=> r.legal /\ <<r.last, "value">> \in MayFollow
      /\ x.flat <=> r.flat
      /\ x.texts = Append(r.texts, <<>>)
  <2>1. x = [last  |-> Lexeme(Quote),
             legal |-> r.legal /\ <<r.last, Lexeme(Quote)>> \in MayFollow,
             flat  |-> r.flat /\ (r.last = "start" \/ Quote \in {Quote, Comma, Close}),
             texts |-> IF Quote = Quote THEN Append(r.texts, <<>>) ELSE r.texts]
    BY <1>1, <1>2, ReadsOutside
  <2>2. Lexeme(Quote) = "value"
    BY LexemeIs
  <2>3. Quote \in {Quote, Comma, Close}
    OBVIOUS
  <2>. QED
    BY <2>1, <2>2, <2>3
<1>6. \A j \in (n + 1)..(n + 1) : j = n + 1
  OBVIOUS
<1>7. n + 1 \in Nat /\ n < n + 1
  OBVIOUS
<1>. QED
  BY <1>4, <1>5, <1>6, <1>7 DEF InText, s, u, r, x

LEMMA AppendLast ==
    ASSUME NEW S, NEW texts \in Seq(Seq(S)), NEW said \in Seq(S), NEW token \in S
    PROVE  LastText(Append(texts, said), token) = Append(texts, Append(said, token))
<1>. DEFINE T == Seq(S)
            n == Len(texts)
            more == Append(said, token)
            one == Append(texts, said)
            other == Append(texts, more)
<1>1. texts \in Seq(T) /\ said \in T /\ more \in T
  OBVIOUS
<1>. HIDE DEF T, more
<1>2. n \in Nat /\ Len(one) = n + 1 /\ Len(other) = n + 1 /\ one[n + 1] = said /\ other[n + 1] = more
  BY <1>1
<1>3. one = [i \in 1..(n + 1) |-> one[i]] /\ other = [i \in 1..(n + 1) |-> other[i]]
  <2>1. one \in Seq(T) /\ other \in Seq(T)
    BY <1>1
  <2>2. \A q \in Seq(T) : q = [i \in 1..Len(q) |-> q[i]]
    OBVIOUS
  <2>. HIDE DEF one, other, n
  <2>. QED
    BY <1>2, <2>1, <2>2
<1>4. \A i \in 1..(n + 1) : i # n + 1 => one[i] = other[i]
  BY <1>1
<1>5. LastText(one, token) = [one EXCEPT ![n + 1] = more]
  BY <1>2 DEF LastText, more
<1>. HIDE DEF one, other, n
<1>6. [one EXCEPT ![n + 1] = more] = [i \in 1..(n + 1) |-> IF i = n + 1 THEN more ELSE one[i]]
  BY <1>3
<1>7. \A i \in 1..(n + 1) : other[i] = IF i = n + 1 THEN more ELSE one[i]
  BY <1>2, <1>4
<1>8. other = [i \in 1..(n + 1) |-> IF i = n + 1 THEN more ELSE one[i]]
  BY <1>3, <1>7
<1>. QED
  BY <1>5, <1>6, <1>8 DEF one, other, more

(* A token between, which is itself.                                       *)
LEMMA TextGoesOn ==
    ASSUME NEW S, NEW t \in Seq(S), NEW n \in Nat, NEW m, NEW said \in Seq(S), InText(t, n, m, said),
           m + 1 <= Len(t), t[m + 1] \notin {Quote, Escape}
    PROVE  InText(t, n, m + 1, Append(said, t[m + 1]))
<1>. DEFINE s == Scan(t)[m]
            u == Scan(t)[m + 1]
            r == Reading(t)[m]
            x == Reading(t)[m + 1]
            token == t[m + 1]
            old == Reading(t)[n].texts
<1>1. m \in Nat /\ n < m
  BY DEF InText
<1>2. s \in Scanned /\ r \in Readings(S) /\ token \in S /\ u = ScanStep(s, token) /\ x = ReadStep(r, s, u, token)
  BY <1>1, OneMore
<1>3. s.inString /\ ~s.escaped /\ token \notin {Quote, Escape}
  BY DEF InText
<1>4. r.texts = Append(old, said)
  BY DEF InText
<1>5. old \in Seq(Seq(S))
  <2>. DEFINE read == Reading(t)
              len == Len(t)
  <2>1. read \in [0..len -> Readings(S)]
    BY ReadingIs
  <2>2. n \in 0..len
    BY <1>1
  <2>. HIDE DEF read, len
  <2>3. read[n] \in Readings(S)
    BY <2>1, <2>2
  <2>. QED
    BY <2>3 DEF Readings, read
<1>. HIDE DEF s, u, r, x, token, old
<1>6. u = s
  BY <1>2, <1>3, ScanStepIs
<1>7. u.inString /\ ~u.escaped /\ u.depth = s.depth
  BY <1>3, <1>6
<1>8. x = [r EXCEPT !.texts = LastText(r.texts, token)]
  BY <1>2, <1>3, <1>7, ReadsInside
<1>9. LastText(r.texts, token) = Append(old, Append(said, token))
  BY <1>2, <1>4, <1>5, AppendLast
<1>10. x.last = r.last /\ x.legal = r.legal /\ x.flat = r.flat /\ x.texts = Append(old, Append(said, token))
  BY <1>2, <1>8, <1>9 DEF Readings
<1>11. \A j \in (n + 1)..(m + 1) : j \in (n + 1)..m \/ j = m + 1
  BY <1>1
<1>12. m + 1 \in Nat /\ n < m + 1 /\ m \in (n + 1)..m
  BY <1>1
<1>13. s.depth = Scan(t)[n].depth
  BY <1>12 DEF InText, s
<1>. QED
  BY <1>7, <1>10, <1>11, <1>12, <1>13 DEF InText, s, u, r, x, token, old

(* An escaped token.                                                       *)
LEMMA TextGoesOnEscaped ==
    ASSUME NEW S, NEW t \in Seq(S), NEW n \in Nat, NEW m, NEW said \in Seq(S), InText(t, n, m, said),
           m + 2 <= Len(t), t[m + 1] = Escape
    PROVE  InText(t, n, m + 2, Append(said, t[m + 2]))
<1>. DEFINE s == Scan(t)[m]
            e == Scan(t)[m + 1]
            u == Scan(t)[m + 2]
            r == Reading(t)[m]
            y == Reading(t)[m + 1]
            x == Reading(t)[m + 2]
            token == t[m + 2]
            old == Reading(t)[n].texts
<1>1. m \in Nat /\ n < m /\ m + 1 \in Nat /\ (m + 1) + 1 = m + 2 /\ m + 1 <= Len(t)
  BY DEF InText
<1>2. s \in Scanned /\ r \in Readings(S) /\ e = ScanStep(s, Escape) /\ y = ReadStep(r, s, e, Escape)
  BY <1>1, OneMore
<1>3. /\ token \in S /\ e \in Scanned /\ y \in Readings(S)
      /\ u = ScanStep(e, token) /\ x = ReadStep(y, e, u, token)
  <2>. DEFINE k == m + 1
  <2>1. k \in Nat /\ k + 1 <= Len(t) /\ k + 1 = m + 2
    BY <1>1
  <2>. HIDE DEF k
  <2>2. /\ t[k + 1] \in S /\ Scan(t)[k] \in Scanned /\ Reading(t)[k] \in Readings(S)
        /\ Scan(t)[k + 1] = ScanStep(Scan(t)[k], t[k + 1])
        /\ Reading(t)[k + 1] = ReadStep(Reading(t)[k], Scan(t)[k], Scan(t)[k + 1], t[k + 1])
    BY <2>1, OneMore
  <2>. QED
    BY <2>1, <2>2 DEF k
<1>4. s.inString /\ ~s.escaped /\ r.texts = Append(old, said)
  BY DEF InText
<1>5. old \in Seq(Seq(S))
  <2>. DEFINE read == Reading(t)
              len == Len(t)
  <2>1. read \in [0..len -> Readings(S)]
    BY ReadingIs
  <2>2. n \in 0..len
    BY <1>1
  <2>. HIDE DEF read, len
  <2>3. read[n] \in Readings(S)
    BY <2>1, <2>2
  <2>. QED
    BY <2>3 DEF Readings, read
<1>. HIDE DEF s, e, u, r, y, x, token, old
<1>6. e = [s EXCEPT !.escaped = TRUE]
  BY <1>2, <1>4, ScanStepIs
<1>7. e.inString /\ e.escaped /\ e.depth = s.depth
  BY <1>2, <1>4, <1>6 DEF Scanned
<1>8. y = r
  BY <1>2, <1>4, <1>7, ReadsNothing
<1>9. u = [e EXCEPT !.escaped = FALSE]
  BY <1>3, <1>7, ScanStepIs
<1>10. u.inString /\ ~u.escaped /\ u.depth = s.depth
  BY <1>3, <1>7, <1>9 DEF Scanned
<1>11. x = [r EXCEPT !.texts = LastText(r.texts, token)]
  BY <1>3, <1>7, <1>8, <1>10, ReadsInside
<1>12. LastText(r.texts, token) = Append(old, Append(said, token))
  BY <1>3, <1>4, <1>5, AppendLast
<1>13. x.last = r.last /\ x.legal = r.legal /\ x.flat = r.flat /\ x.texts = Append(old, Append(said, token))
  BY <1>2, <1>11, <1>12 DEF Readings
<1>14. \A j \in (n + 1)..(m + 2) : j \in (n + 1)..m \/ j = m + 1 \/ j = m + 2
  BY <1>1
<1>15. m + 2 \in Nat /\ n < m + 2 /\ m \in (n + 1)..m
  BY <1>1
<1>16. s.depth = Scan(t)[n].depth
  BY <1>15 DEF InText, s
<1>. QED
  BY <1>7, <1>10, <1>13, <1>14, <1>15, <1>16 DEF InText, s, e, u, r, x, token, old

(* A text that was read: the tokens after the n-th up to the m-th.         *)
Heard(t, n, m, text) ==
    /\ m \in Nat /\ n + 1 < m /\ m <= Len(t)
    /\ t[n + 1] = Quote
    /\ ~Scan(t)[m].inString /\ Scan(t)[m].depth = Scan(t)[n].depth
    /\ \A j \in (n + 1)..(m - 1) : Scan(t)[j].inString /\ Scan(t)[j].depth = Scan(t)[n].depth
    /\ Reading(t)[m].last = "value"
    /\ Reading(t)[m].legal <=> Reading(t)[n].legal /\ <<Reading(t)[n].last, "value">> \in MayFollow
    /\ Reading(t)[m].flat <=> Reading(t)[n].flat
    /\ Reading(t)[m].texts = Append(Reading(t)[n].texts, text)

LEMMA QuoteCloses ==
    ASSUME NEW S, NEW t \in Seq(S), NEW n \in Nat, NEW m, NEW said, InText(t, n, m, said),
           m + 1 <= Len(t), t[m + 1] = Quote
    PROVE  Heard(t, n, m + 1, said)
<1>. DEFINE s == Scan(t)[m]
            u == Scan(t)[m + 1]
            r == Reading(t)[m]
            x == Reading(t)[m + 1]
<1>1. m \in Nat /\ n < m
  BY DEF InText
<1>2. s \in Scanned /\ u = ScanStep(s, Quote) /\ x = ReadStep(r, s, u, Quote)
  BY <1>1, OneMore
<1>3. s.inString /\ ~s.escaped
  BY DEF InText
<1>. HIDE DEF s, u, r, x
<1>4. u = [s EXCEPT !.inString = FALSE]
  BY <1>2, <1>3, ScanStepIs
<1>5. ~u.inString /\ u.depth = s.depth
  BY <1>2, <1>4 DEF Scanned
<1>6. x = r
  BY <1>2, <1>3, <1>5, ReadsNothing
<1>7. m + 1 \in Nat /\ n + 1 < m + 1 /\ (m + 1) - 1 = m /\ m \in (n + 1)..m
  BY <1>1
<1>8. s.depth = Scan(t)[n].depth
  BY <1>7 DEF InText, s
<1>. QED
  BY <1>5, <1>6, <1>7, <1>8 DEF InText, Heard, s, u, r, x

(* Parts end to end stand one after the other.                             *)
Row(t, n, parts, ends) ==
    /\ ends \in [0..Len(parts) -> Nat] /\ ends[0] = 0
    /\ \A k \in 1..Len(parts) : /\ ends[k] = ends[k - 1] + Len(parts[k]) /\ ends[k - 1] \in Nat
                                 /\ Stands(t, n + ends[k - 1], parts[k])

LEMMA PartsStandInARow ==
    ASSUME NEW S, NEW t \in Seq(S), NEW n \in Nat, NEW parts \in Seq(Seq(S)), Stands(t, n, FlattenSeq(parts))
    PROVE  \E ends : Row(t, n, parts, ends) /\ Len(FlattenSeq(parts)) = ends[Len(parts)]
<1>. DEFINE N == Len(parts)
            flat == FlattenSeq(parts)
            len == Len(flat)
            lt == Len(t)
<1>1. N \in Nat /\ lt \in Nat
  OBVIOUS
<1>2. flat \in Seq(S)
  BY FlattenIs
<1>3. PICK ends : Laid(parts, ends, flat)
  BY FlattenIs
<1>4. \A k \in 1..N : Len(parts[k]) \in Nat
  OBVIOUS
<1>. HIDE DEF flat
<1>5. len \in Nat
  BY <1>2
<1>6. n + len <= lt /\ \A j \in 1..len : t[n + j] = flat[j]
  BY DEF Stands, flat
<1>7. /\ ends \in [0..N -> Nat] /\ ends[0] = 0 /\ len = ends[N]
      /\ \A k \in 1..N : ends[k] = ends[k - 1] + Len(parts[k])
      /\ \A k \in 1..N, j \in Nat :
            1 <= j /\ j <= Len(parts[k]) => /\ ends[k - 1] + j <= len
                                           /\ flat[ends[k - 1] + j] = parts[k][j]
  BY <1>3 DEF Laid
<1>8. \A k \in 1..N : k - 1 \in 0..N /\ k \in 0..N
  BY <1>1
<1>. HIDE DEF N, lt, len
<1>9. ASSUME NEW k \in 1..N
      PROVE  /\ ends[k - 1] \in Nat
             /\ n + ends[k - 1] + Len(parts[k]) <= lt
             /\ \A j \in 1..Len(parts[k]) : t[n + ends[k - 1] + j] = parts[k][j]
  <2>. DEFINE e == ends[k - 1]
              d == Len(parts[k])
  <2>1. e \in Nat /\ d \in Nat
    BY <1>4, <1>7, <1>8
  <2>2. \A j \in Nat : 1 <= j /\ j <= d => e + j <= len /\ flat[e + j] = parts[k][j]
    BY <1>7
  <2>. HIDE DEF e, d
  <2>3. ASSUME NEW j \in 1..d PROVE t[n + e + j] = parts[k][j]
    <3>1. j \in Nat /\ 1 <= j /\ j <= d
      BY <2>1
    <3>2. e + j <= len /\ flat[e + j] = parts[k][j]
      BY <2>2, <3>1
    <3>3. e + j \in 1..len /\ n + (e + j) = n + e + j
      BY <1>5, <2>1, <3>1, <3>2
    <3>. QED
      BY <1>6, <3>2, <3>3
  <2>4. n + e + d <= lt
    <3>1. CASE d = 0
      <4>1. e <= len
        <5>1. \A i \in 0..N : ends[i] <= ends[N]
          <6>. DEFINE Good == {i \in 0..N : ends[N - i] <= ends[N]}
          <6>1. \A i \in 0..N : N - i \in 0..N /\ N - (N - i) = i /\ N - 0 = N
            BY <1>1
          <6>2. 0 \in Good
            <7>1. 0 \in 0..N /\ N \in 0..N
              BY <1>1
            <7>2. ends[N] \in Nat /\ N - 0 = N
              BY <1>1, <1>7, <7>1
            <7>3. ends[N - 0] <= ends[N]
              BY <7>2
            <7>. QED
              BY <7>1, <7>3
          <6>3. ASSUME NEW i \in 0..N, i < N, i \in Good PROVE i + 1 \in Good
            <7>1. i + 1 \in 0..N /\ N - i \in 1..N /\ N - (i + 1) = (N - i) - 1 /\ N - (i + 1) \in 0..N
              BY <1>1, <6>3
            <7>2. ends[N - i] = ends[N - (i + 1)] + Len(parts[N - i]) /\ Len(parts[N - i]) \in Nat
              BY <1>4, <1>7, <7>1
            <7>3. ends[N - (i + 1)] \in Nat /\ ends[N] \in Nat /\ ends[N - i] <= ends[N]
              <8>1. N \in 0..N
                BY <1>1
              <8>. QED
                BY <1>7, <6>3, <7>1, <8>1
            <7>. QED
              BY <7>1, <7>2, <7>3
          <6>4. \A i \in 0..N : i \in Good
            <7>. HIDE DEF Good
            <7>. QED
              BY <1>1, <6>2, <6>3, NumberInduction
          <6>. QED
            BY <6>1, <6>4
        <5>. QED
          BY <1>7, <1>8, <5>1 DEF e
      <4>. QED
        BY <1>1, <1>5, <1>6, <2>1, <3>1, <4>1
    <3>2. CASE d > 0
      <4>1. d \in Nat /\ 1 <= d /\ d <= d
        BY <2>1, <3>2
      <4>2. e + d <= len
        BY <2>2, <4>1
      <4>. QED
        BY <1>1, <1>5, <1>6, <2>1, <4>2
    <3>. QED
      BY <2>1, <3>1, <3>2
  <2>. QED
    BY <2>1, <2>3, <2>4 DEF e, d
<1>10. Row(t, n, parts, ends)
  <2>1. \A k \in 1..N : Stands(t, n + ends[k - 1], parts[k])
    BY <1>9 DEF Stands, lt
  <2>. QED
    BY <1>7, <1>9, <2>1 DEF Row, N
<1>. QED
  BY <1>7, <1>10 DEF N, flat, len

(* A prefix, and one token more.                                           *)
LEMMA PrefixGrows ==
    ASSUME NEW S, NEW text \in Seq(S), NEW i \in 1..Len(text)
    PROVE  /\ SubSeq(text, 1, i - 1) \in Seq(S) /\ text[i] \in S
           /\ SubSeq(text, 1, i) = Append(SubSeq(text, 1, i - 1), text[i])
<1>. DEFINE a == SubSeq(text, 1, i)
            b == SubSeq(text, 1, i - 1)
            c == Append(b, text[i])
<1>1. /\ b \in Seq(S) /\ a \in Seq(S) /\ text[i] \in S
      /\ Len(b) = i - 1 /\ Len(a) = i /\ i \in Nat
      /\ \A j \in 1..i : a[j] = text[j]
      /\ \A j \in 1..(i - 1) : b[j] = text[j]
  OBVIOUS
<1>. HIDE DEF a, b
<1>2. c \in Seq(S) /\ Len(c) = i /\ \A j \in 1..i : c[j] = text[j]
  BY <1>1
<1>. HIDE DEF c
<1>3. \A p, q \in Seq(S) : Len(p) = i /\ Len(q) = i /\ (\A j \in 1..i : p[j] = text[j] /\ q[j] = text[j]) => p = q
  OBVIOUS
<1>4. a = c
  BY <1>1, <1>2, <1>3
<1>. QED
  BY <1>1, <1>4 DEF a, b, c

LEMMA EscapedIs ==
    ASSUME NEW S, Tokens \subseteq S, NEW token \in S
    PROVE  /\ Escaped(token) \in Seq(S)
           /\ token \in {Quote, Escape} =>
                 Len(Escaped(token)) = 2 /\ Escaped(token)[1] = Escape /\ Escaped(token)[2] = token
           /\ token \notin {Quote, Escape} => Len(Escaped(token)) = 1 /\ Escaped(token)[1] = token
BY DEF Escaped, Tokens

LEMMA QuotedIsHeard ==
    ASSUME NEW S, Tokens \subseteq S, NEW text \in Seq(S), NEW t \in Seq(S), NEW n \in Nat,
           Stands(t, n, Quoted(text)), ~Scan(t)[n].inString
    PROVE  Heard(t, n, n + Len(Quoted(text)), text)
<1>. DEFINE len == Len(text)
            parts == [i \in DOMAIN text |-> Escaped(text[i])]
            body == FlattenSeq(parts)
            quote == <<Quote>>
            b == n + 1
<1>1. len \in Nat /\ len \in 0..len /\ DOMAIN text = 1..len /\ (\A i \in 1..len : text[i] \in S)
      /\ b \in Nat /\ SubSeq(text, 1, len) = text /\ SubSeq(text, 1, 0) = <<>>
  OBVIOUS
<1>2. parts \in Seq(Seq(S)) /\ Len(parts) = len /\ \A i \in 1..len : parts[i] = Escaped(text[i])
  <2>1. \A i \in 1..len : Escaped(text[i]) \in Seq(S)
    BY <1>1, EscapedIs
  <2>2. parts = [i \in 1..len |-> Escaped(text[i])]
    BY <1>1
  <2>. HIDE DEF parts, len
  <2>. QED
    BY <1>1, <2>1, <2>2
<1>3. Quoted(text) = quote \o body \o quote
  BY Zenon DEF Quoted
<1>. HIDE DEF parts
<1>4. body \in Seq(S) /\ quote \in Seq(S) /\ quote \o body \in Seq(S)
  <2>1. body \in Seq(S)
    BY <1>2, FlattenIs
  <2>. HIDE DEF body
  <2>. QED
    BY <2>1 DEF Tokens
<1>. HIDE DEF body
<1>5. Len(quote) = 1
  OBVIOUS
<1>. HIDE DEF quote
<1>6. /\ Stands(t, n, quote \o body) /\ Stands(t, n + Len(quote \o body), quote)
      /\ Len(Quoted(text)) = Len(quote \o body) + 1
  <2>. DEFINE most == quote \o body
  <2>. HIDE DEF most
  <2>1. most \in Seq(S) /\ quote \in Seq(S) /\ Stands(t, n, most \o quote) /\ Quoted(text) = most \o quote
    BY <1>3, <1>4 DEF most
  <2>2. Stands(t, n, most) /\ Stands(t, n + Len(most), quote) /\ Len(most \o quote) = Len(most) + Len(quote)
    BY <2>1, PartsStand
  <2>. QED
    BY <1>5, <2>1, <2>2 DEF most
<1>7. /\ Stands(t, n, quote) /\ Stands(t, b, body)
      /\ Len(quote \o body) = 1 + Len(body) /\ Len(body) \in Nat
  <2>1. Stands(t, n, quote) /\ Stands(t, n + Len(quote), body)
        /\ Len(quote \o body) = Len(quote) + Len(body) /\ Len(body) \in Nat
    BY <1>4, <1>6, PartsStand
  <2>. QED
    BY <1>5, <2>1
<1>8. InText(t, n, b, <<>>)
  <2>1. n + 1 \in 1..Len(t) /\ t[n + 1] = Quote
    BY <1>7, TokenStands DEF quote
  <2>. QED
    BY <2>1, QuoteOpens
<1>9. PICK ends : Row(t, b, parts, ends) /\ Len(body) = ends[len]
  <2>1. \E ends : Row(t, b, parts, ends) /\ Len(FlattenSeq(parts)) = ends[Len(parts)]
    <3>1. b \in Nat /\ parts \in Seq(Seq(S)) /\ Stands(t, b, FlattenSeq(parts))
      BY <1>1, <1>2, <1>7 DEF body
    <3>. HIDE DEF b
    <3>. QED
      BY <3>1, PartsStandInARow
  <2>. QED
    BY <1>2, <2>1 DEF body
<1>10. /\ ends \in [0..len -> Nat] /\ ends[0] = 0
       /\ \A k \in 1..len : /\ ends[k] = ends[k - 1] + Len(parts[k]) /\ ends[k - 1] \in Nat
                             /\ Stands(t, b + ends[k - 1], parts[k])
  BY <1>2, <1>9 DEF Row
<1>. DEFINE Good == {i \in 0..len : InText(t, n, b + ends[i], SubSeq(text, 1, i))}
<1>. HIDE DEF len, b
<1>11. 0 \in Good
  <2>1. 0 \in 0..len /\ b + ends[0] = b
    BY <1>1, <1>10
  <2>. QED
    BY <1>1, <1>8, <2>1
<1>12. ASSUME NEW i \in 0..len, i < len, i \in Good PROVE i + 1 \in Good
  <2>. DEFINE k == i + 1
              part == Escaped(text[k])
              said == SubSeq(text, 1, i)
              m == b + ends[i]
  <2>1. k \in 1..len /\ k \in 0..len /\ k - 1 = i
    BY <1>1, <1>12
  <2>. HIDE DEF k
  <2>2. said \in Seq(S) /\ text[k] \in S /\ SubSeq(text, 1, k) = Append(said, text[k])
    BY <2>1, PrefixGrows DEF len
  <2>3. ends[i] \in Nat /\ ends[k] = ends[i] + Len(part) /\ Stands(t, m, part)
    BY <1>2, <1>10, <2>1
  <2>4. InText(t, n, m, said) /\ m \in Nat
    BY <1>1, <1>12, <2>3
  <2>. HIDE DEF said, part
  <2>5. ASSUME text[k] \in {Quote, Escape}
        PROVE  InText(t, n, b + ends[k], SubSeq(text, 1, k))
    <3>1. Len(part) = 2 /\ part[1] = Escape /\ part[2] = text[k]
      BY <2>2, <2>5, EscapedIs DEF part
    <3>2. b + ends[k] = m + 2
      BY <1>1, <2>3, <3>1
    <3>. HIDE DEF m
    <3>3. m + 2 <= Len(t) /\ t[m + 1] = Escape /\ t[m + 2] = text[k]
      BY <2>3, <3>1 DEF Stands
    <3>4. InText(t, n, m + 2, Append(said, t[m + 2]))
      BY <2>2, <2>4, <3>3, TextGoesOnEscaped
    <3>. QED
      BY <2>2, <3>2, <3>3, <3>4
  <2>6. ASSUME text[k] \notin {Quote, Escape}
        PROVE  InText(t, n, b + ends[k], SubSeq(text, 1, k))
    <3>1. Len(part) = 1 /\ part[1] = text[k]
      BY <2>2, <2>6, EscapedIs DEF part
    <3>2. b + ends[k] = m + 1
      BY <1>1, <2>3, <3>1
    <3>. HIDE DEF m
    <3>3. m + 1 <= Len(t) /\ t[m + 1] = text[k]
      BY <2>3, <3>1 DEF Stands
    <3>4. InText(t, n, m + 1, Append(said, t[m + 1]))
      BY <2>2, <2>4, <2>6, <3>3, TextGoesOn
    <3>. QED
      BY <2>2, <3>2, <3>3, <3>4
  <2>7. InText(t, n, b + ends[k], SubSeq(text, 1, k))
    BY <2>5, <2>6
  <2>. QED
    BY <2>1, <2>7 DEF k
<1>13. \A i \in 0..len : i \in Good
  <2>. HIDE DEF Good
  <2>. QED
    BY <1>1, <1>11, <1>12, NumberInduction
<1>. DEFINE m == b + ends[len]
<1>14. InText(t, n, m, text)
  BY <1>1, <1>13
<1>15. m \in Nat /\ n + Len(quote \o body) = m /\ n + Len(Quoted(text)) = m + 1
  <2>1. ends[len] \in Nat
    BY <1>1, <1>10
  <2>. DEFINE last == ends[len]
              most == Len(quote \o body)
              all == Len(Quoted(text))
  <2>2. most = 1 + Len(body) /\ all = most + 1 /\ Len(body) = last
    BY <1>6, <1>7, <1>9
  <2>3. last \in Nat /\ m = n + 1 + last
    BY <2>1 DEF b
  <2>. HIDE DEF last, most, all, m
  <2>4. m \in Nat /\ n + most = m /\ n + all = m + 1
    BY <2>2, <2>3
  <2>. QED
    BY <2>4 DEF most, all
<1>. HIDE DEF m
<1>16. m + 1 \in 1..Len(t) /\ t[m + 1] = Quote
  BY <1>6, <1>15, TokenStands DEF quote
<1>17. Heard(t, n, m + 1, text)
  BY <1>14, <1>15, <1>16, QuoteCloses
<1>. QED
  BY <1>15, <1>17

(* An array is being read: m tokens in, of one that opens after the n-th;  *)
(* the last token read, and the texts.                                     *)
InArray(t, n, m, last, said) ==
    /\ m \in Nat /\ n < m /\ m <= Len(t)
    /\ t[n + 1] = Open
    /\ ~Scan(t)[m].inString
    /\ \A j \in (n + 1)..m : Scan(t)[j].depth = Scan(t)[n].depth + 1
    /\ \A j \in (n + 2)..m : Scan(t)[j - 1].inString \/ t[j] \in {Quote, Comma}
    /\ Reading(t)[m].last = last
    /\ Reading(t)[m].legal <=> Reading(t)[n].legal /\ <<Reading(t)[n].last, "open">> \in MayFollow
    /\ Reading(t)[m].flat <=> Reading(t)[n].flat /\ Reading(t)[n].last = "start"
    /\ Reading(t)[n].texts = <<>> => Reading(t)[m].texts = said

LEMMA ArrayOpens ==
    ASSUME NEW S, NEW t \in Seq(S), NEW n \in Nat, n + 1 <= Len(t), t[n + 1] = Open, ~Scan(t)[n].inString
    PROVE  InArray(t, n, n + 1, "open", <<>>)
<1>. DEFINE s == Scan(t)[n]
            u == Scan(t)[n + 1]
            r == Reading(t)[n]
            x == Reading(t)[n + 1]
<1>1. s \in Scanned /\ r \in Readings(S) /\ u = ScanStep(s, Open) /\ x = ReadStep(r, s, u, Open)
  BY OneMore
<1>2. ~s.inString
  OBVIOUS
<1>. HIDE DEF s, u, r, x
<1>3. u = [s EXCEPT !.depth = s.depth + 1]
  BY <1>1, <1>2, ScanStepIs
<1>4. ~u.inString /\ u.depth = s.depth + 1
  BY <1>1, <1>2, <1>3 DEF Scanned
<1>5. /\ x.last = "open"
      /\ x.legal <=> r.legal /\ <<r.last, "open">> \in MayFollow
      /\ x.flat <=> r.flat /\ r.last = "start"
      /\ x.texts = r.texts
  <2>1. x = [last  |-> Lexeme(Open),
             legal |-> r.legal /\ <<r.last, Lexeme(Open)>> \in MayFollow,
             flat  |-> r.flat /\ (r.last = "start" \/ Open \in {Quote, Comma, Close}),
             texts |-> IF Open = Quote THEN Append(r.texts, <<>>) ELSE r.texts]
    BY <1>1, <1>2, ReadsOutside
  <2>2. Lexeme(Open) = "open"
    BY LexemeIs
  <2>3. Open \notin {Quote, Comma, Close} /\ Open # Quote
    BY TokensDiffer
  <2>. QED
    BY <2>1, <2>2, <2>3
<1>6. \A j \in (n + 1)..(n + 1) : j = n + 1
  OBVIOUS
<1>7. n + 1 \in Nat /\ n < n + 1 /\ (n + 2)..(n + 1) = {}
  OBVIOUS
<1>. QED
  BY <1>4, <1>5, <1>6, <1>7 DEF InArray, s, u, r, x

LEMMA CommaStands ==
    ASSUME NEW S, NEW t \in Seq(S), NEW n \in Nat, NEW m, NEW said, InArray(t, n, m, "value", said),
           m + 1 <= Len(t), t[m + 1] = Comma
    PROVE  InArray(t, n, m + 1, "comma", said)
<1>. DEFINE s == Scan(t)[m]
            u == Scan(t)[m + 1]
            r == Reading(t)[m]
            x == Reading(t)[m + 1]
<1>1. m \in Nat /\ n < m
  BY DEF InArray
<1>2. s \in Scanned /\ r \in Readings(S) /\ u = ScanStep(s, Comma) /\ x = ReadStep(r, s, u, Comma)
  BY <1>1, OneMore
<1>3. ~s.inString /\ r.last = "value"
  BY DEF InArray
<1>. HIDE DEF s, u, r, x
<1>4. u = s
  <2>1. Comma \notin {Quote, Open} /\ Comma # Close
    BY TokensDiffer
  <2>. QED
    BY <1>2, <1>3, <2>1, ScanStepIs
<1>5. x.last = "comma" /\ (x.legal <=> r.legal) /\ (x.flat <=> r.flat) /\ x.texts = r.texts
  <2>1. x = [last  |-> Lexeme(Comma),
             legal |-> r.legal /\ <<r.last, Lexeme(Comma)>> \in MayFollow,
             flat  |-> r.flat /\ (r.last = "start" \/ Comma \in {Quote, Comma, Close}),
             texts |-> IF Comma = Quote THEN Append(r.texts, <<>>) ELSE r.texts]
    BY <1>2, <1>3, ReadsOutside
  <2>2. Lexeme(Comma) = "comma" /\ <<"value", "comma">> \in MayFollow
    BY LexemeIs DEF MayFollow
  <2>3. Comma \in {Quote, Comma, Close} /\ Comma # Quote
    BY TokensDiffer
  <2>. QED
    BY <1>3, <2>1, <2>2, <2>3
<1>6. /\ \A j \in (n + 1)..(m + 1) : j \in (n + 1)..m \/ j = m + 1
      /\ \A j \in (n + 2)..(m + 1) : j \in (n + 2)..m \/ j = m + 1
  BY <1>1
<1>7. m + 1 \in Nat /\ n < m + 1 /\ m \in (n + 1)..m
  BY <1>1
<1>8. s.depth = Scan(t)[n].depth + 1
  BY <1>7 DEF InArray, s
<1>. QED
  BY <1>3, <1>4, <1>5, <1>6, <1>7, <1>8 DEF InArray, s, u, r, x

LEMMA TextStands ==
    ASSUME NEW S, NEW t \in Seq(S), NEW n \in Nat, NEW m, NEW last, NEW said, InArray(t, n, m, last, said),
           last \in {"open", "comma"}, NEW k, NEW text, Heard(t, m, k, text)
    PROVE  InArray(t, n, k, "value", Append(said, text))
<1>1. m \in Nat /\ n < m /\ k \in Nat /\ m + 1 < k /\ k <= Len(t)
  BY DEF InArray, Heard
<1>2. /\ \A j \in (n + 1)..k : j \in (n + 1)..m \/ j \in (m + 1)..(k - 1) \/ j = k
      /\ \A j \in (n + 2)..k : j \in (n + 2)..m \/ j = m + 1 \/ j - 1 \in (m + 1)..(k - 1)
      /\ m \in (n + 1)..m /\ n < k
  BY <1>1
<1>3. Scan(t)[m].depth = Scan(t)[n].depth + 1
  BY <1>2 DEF InArray
<1>4. \A j \in (n + 1)..k : Scan(t)[j].depth = Scan(t)[n].depth + 1
  BY <1>2, <1>3 DEF InArray, Heard
<1>5. \A j \in (n + 2)..k : Scan(t)[j - 1].inString \/ t[j] \in {Quote, Comma}
  BY <1>2 DEF InArray, Heard
<1>6. <<last, "value">> \in MayFollow
  BY DEF MayFollow
<1>7. /\ Reading(t)[k].last = "value"
      /\ Reading(t)[k].legal <=> Reading(t)[m].legal
      /\ Reading(t)[k].flat <=> Reading(t)[m].flat
      /\ Reading(t)[k].texts = Append(Reading(t)[m].texts, text)
  BY <1>6 DEF InArray, Heard
<1>8. ~Scan(t)[k].inString /\ t[n + 1] = Open
  BY DEF Heard, InArray
<1>9. /\ Reading(t)[k].legal <=> Reading(t)[n].legal /\ <<Reading(t)[n].last, "open">> \in MayFollow
      /\ Reading(t)[k].flat <=> Reading(t)[n].flat /\ Reading(t)[n].last = "start"
      /\ Reading(t)[n].texts = <<>> => Reading(t)[k].texts = Append(said, text)
  BY <1>7 DEF InArray
<1>. QED
  BY <1>1, <1>2, <1>4, <1>5, <1>7, <1>8, <1>9 DEF InArray

(* An array that was read: the tokens after the n-th up to the m-th.       *)
ArrayHeard(t, n, m, texts) ==
    /\ m \in Nat /\ n + 1 < m /\ m <= Len(t)
    /\ t[n + 1] = Open /\ t[m] = Close
    /\ ~Scan(t)[m - 1].inString
    /\ ~Scan(t)[m].inString /\ Scan(t)[m].depth = Scan(t)[n].depth
    /\ \A j \in (n + 1)..(m - 1) : Scan(t)[j].depth = Scan(t)[n].depth + 1
    /\ \A j \in (n + 2)..(m - 1) : Scan(t)[j - 1].inString \/ t[j] \in {Quote, Comma}
    /\ Reading(t)[m].last = "close"
    /\ Reading(t)[m].legal <=> Reading(t)[n].legal /\ <<Reading(t)[n].last, "open">> \in MayFollow
    /\ Reading(t)[m].flat <=> Reading(t)[n].flat /\ Reading(t)[n].last = "start"
    /\ Reading(t)[n].texts = <<>> => Reading(t)[m].texts = texts

LEMMA ArrayCloses ==
    ASSUME NEW S, NEW t \in Seq(S), NEW n \in Nat, NEW m, NEW last, NEW said, InArray(t, n, m, last, said),
           last \in {"open", "value"}, m + 1 <= Len(t), t[m + 1] = Close
    PROVE  ArrayHeard(t, n, m + 1, said)
<1>. DEFINE s == Scan(t)[m]
            u == Scan(t)[m + 1]
            r == Reading(t)[m]
            x == Reading(t)[m + 1]
            d == Scan(t)[n].depth
<1>1. m \in Nat /\ n < m /\ m + 1 \in Nat /\ n + 1 < m + 1 /\ (m + 1) - 1 = m /\ m \in (n + 1)..m /\ n + 1 <= Len(t)
  BY DEF InArray
<1>2. s \in Scanned /\ r \in Readings(S) /\ u = ScanStep(s, Close) /\ x = ReadStep(r, s, u, Close)
  BY <1>1, OneMore
<1>3. ~s.inString /\ r.last = last /\ s.depth = d + 1
  BY <1>1 DEF InArray
<1>4. d \in Nat
  <2>1. Scan(t)[n] \in Scanned
    BY <1>1, OneMore
  <2>. QED
    BY <2>1 DEF Scanned
<1>. HIDE DEF s, u, r, x, d
<1>5. u = [s EXCEPT !.depth = s.depth - 1]
  BY <1>2, <1>3, <1>4, ScanStepIs
<1>6. ~u.inString /\ u.depth = d
  BY <1>2, <1>3, <1>4, <1>5 DEF Scanned
<1>7. x.last = "close" /\ (x.legal <=> r.legal) /\ (x.flat <=> r.flat) /\ x.texts = r.texts
  <2>1. x = [last  |-> Lexeme(Close),
             legal |-> r.legal /\ <<r.last, Lexeme(Close)>> \in MayFollow,
             flat  |-> r.flat /\ (r.last = "start" \/ Close \in {Quote, Comma, Close}),
             texts |-> IF Close = Quote THEN Append(r.texts, <<>>) ELSE r.texts]
    BY <1>2, <1>3, ReadsOutside
  <2>2. Lexeme(Close) = "close" /\ <<last, "close">> \in MayFollow
    BY LexemeIs DEF MayFollow
  <2>3. Close \in {Quote, Comma, Close} /\ Close # Quote
    BY TokensDiffer
  <2>. QED
    BY <1>3, <2>1, <2>2, <2>3
<1>. QED
  BY <1>1, <1>3, <1>6, <1>7 DEF InArray, ArrayHeard, s, u, r, x, d

LEMMA TextsAreTokens ==
    ASSUME NEW S, Tokens \subseteq S, NEW text \in Seq(S)
    PROVE  Quoted(text) \in Seq(S)
<1>. DEFINE parts == [i \in DOMAIN text |-> Escaped(text[i])]
            body == FlattenSeq(parts)
            quote == <<Quote>>
<1>1. parts \in Seq(Seq(S))
  <2>. DEFINE len == Len(text)
              T == Seq(S)
  <2>1. len \in Nat /\ parts = [i \in 1..len |-> Escaped(text[i])] /\ \A i \in 1..len : text[i] \in S
    OBVIOUS
  <2>2. \A i \in 1..len : Escaped(text[i]) \in T
    BY <2>1, EscapedIs
  <2>. HIDE DEF parts, len, T
  <2>3. parts \in Seq(T)
    BY <2>1, <2>2
  <2>. QED
    BY <2>3 DEF T
<1>2. body \in Seq(S)
  <2>. HIDE DEF parts
  <2>. QED
    BY <1>1, FlattenIs
<1>3. quote \in Seq(S)
  BY DEF Tokens
<1>4. Quoted(text) = quote \o body \o quote
  BY Zenon DEF Quoted
<1>. HIDE DEF body, quote
<1>. QED
  BY <1>2, <1>3, <1>4

LEMMA ItemIs ==
    ASSUME NEW S, Tokens \subseteq S, NEW texts \in Seq(Seq(S)), NEW i \in 1..Len(texts)
    PROVE  /\ texts[i] \in Seq(S)
           /\ i = 1 => Item(texts, i) = Quoted(texts[i])
           /\ i # 1 => Item(texts, i) = <<Comma>> \o Quoted(texts[i])
           /\ Item(texts, i) \in Seq(S)
<1>1. texts[i] \in Seq(S)
  OBVIOUS
<1>2. /\ i = 1 => Item(texts, i) = Quoted(texts[i])
      /\ i # 1 => Item(texts, i) = <<Comma>> \o Quoted(texts[i])
  BY Zenon DEF Item
<1>. DEFINE quoted == Quoted(texts[i])
            comma == <<Comma>>
<1>3. quoted \in Seq(S) /\ comma \in Seq(S)
  BY <1>1, TextsAreTokens DEF Tokens
<1>. HIDE DEF quoted, comma
<1>4. comma \o quoted \in Seq(S)
  BY <1>3
<1>. QED
  BY <1>1, <1>2, <1>3, <1>4 DEF quoted, comma

(* One text more of the array.                                             *)
LEMMA ItemStands ==
    ASSUME NEW S, Tokens \subseteq S, NEW texts \in Seq(Seq(S)), NEW t \in Seq(S), NEW n \in Nat,
           NEW i \in 1..Len(texts), NEW m, NEW said,
           InArray(t, n, m, IF i = 1 THEN "open" ELSE "value", said),
           Stands(t, m, Item(texts, i))
    PROVE  /\ InArray(t, n, m + Len(Item(texts, i)), "value", Append(said, texts[i]))
           /\ Len(Item(texts, i)) \in Nat
<1>. DEFINE text == texts[i]
            quoted == Quoted(text)
            item == Item(texts, i)
            d == Len(quoted)
            comma == <<Comma>>
<1>1. m \in Nat /\ ~Scan(t)[m].inString
  BY DEF InArray
<1>2. text \in Seq(S) /\ quoted \in Seq(S) /\ comma \in Seq(S)
  BY ItemIs, TextsAreTokens DEF Tokens
<1>3. d \in Nat
  BY <1>2
<1>4. CASE i = 1
  <2>1. item = quoted
    BY <1>4, ItemIs
  <2>. HIDE DEF text, quoted, item
  <2>2. Heard(t, m, m + Len(quoted), text)
    BY <1>1, <1>2, <2>1, QuotedIsHeard DEF quoted, item
  <2>3. InArray(t, n, m, "open", said)
    BY <1>4
  <2>4. InArray(t, n, m + Len(quoted), "value", Append(said, text))
    BY <2>2, <2>3, TextStands
  <2>. QED
    BY <1>3, <2>1, <2>4 DEF text, item
<1>5. CASE i # 1
  <2>1. item = comma \o quoted
    BY <1>5, ItemIs
  <2>. DEFINE k == m + 1
  <2>. HIDE DEF text, quoted, item, comma, d
  <2>2. /\ Stands(t, m, comma) /\ Stands(t, m + Len(comma), quoted)
        /\ Len(comma \o quoted) = Len(comma) + Len(quoted)
    <3>1. Stands(t, m, comma \o quoted)
      BY <2>1 DEF item
    <3>. QED
      BY <1>1, <1>2, <3>1, PartsStand
  <2>3. Len(comma) = 1
    BY DEF comma
  <2>4. k \in Nat /\ k <= Len(t) /\ t[k] = Comma
    <3>1. m + 1 \in 1..Len(t) /\ t[m + 1] = Comma
      BY <1>1, <2>2, TokenStands DEF comma
    <3>. QED
      BY <1>1, <3>1
  <2>5. InArray(t, n, m, "value", said)
    BY <1>5
  <2>6. InArray(t, n, k, "comma", said)
    BY <2>4, <2>5, CommaStands
  <2>7. Stands(t, k, quoted)
    BY <2>2, <2>3
  <2>8. ~Scan(t)[k].inString
    BY <2>6 DEF InArray
  <2>9. m + Len(item) = k + d
    BY <1>1, <1>3, <2>1, <2>2, <2>3 DEF d
  <2>. HIDE DEF k
  <2>10. Heard(t, k, k + d, text)
    BY <1>2, <2>4, <2>7, <2>8, QuotedIsHeard DEF quoted, d
  <2>11. InArray(t, n, k + d, "value", Append(said, text))
    BY <2>6, <2>10, TextStands
  <2>12. Len(item) \in Nat
    BY <1>3, <2>1, <2>2, <2>3 DEF d
  <2>. QED
    BY <2>9, <2>11, <2>12 DEF text, item
<1>. QED
  BY <1>4, <1>5

LEMMA ArrayIsHeard ==
    ASSUME NEW S, Tokens \subseteq S, NEW texts \in Seq(Seq(S)), NEW t \in Seq(S), NEW n \in Nat,
           Stands(t, n, Array(texts)), ~Scan(t)[n].inString
    PROVE  ArrayHeard(t, n, n + Len(Array(texts)), texts)
<1>. DEFINE len == Len(texts)
            parts == [i \in DOMAIN texts |-> Item(texts, i)]
            body == FlattenSeq(parts)
            open == <<Open>>
            close == <<Close>>
            b == n + 1
            T == Seq(S)
<1>1. len \in Nat /\ len \in 0..len /\ DOMAIN texts = 1..len /\ texts \in Seq(T)
      /\ b \in Nat /\ SubSeq(texts, 1, len) = texts /\ SubSeq(texts, 1, 0) = <<>>
  OBVIOUS
<1>2. parts \in Seq(T) /\ Len(parts) = len /\ \A i \in 1..len : parts[i] = Item(texts, i)
  <2>1. \A i \in 1..len : Item(texts, i) \in T
    BY ItemIs
  <2>2. parts = [i \in 1..len |-> Item(texts, i)]
    BY <1>1
  <2>. HIDE DEF parts, len, T
  <2>. QED
    BY <1>1, <2>1, <2>2
<1>3. Array(texts) = open \o body \o close
  BY Zenon DEF Array
<1>. HIDE DEF parts
<1>4. body \in Seq(S) /\ open \in Seq(S) /\ close \in Seq(S) /\ open \o body \in Seq(S)
  <2>1. body \in Seq(S)
    BY <1>2, FlattenIs
  <2>. HIDE DEF body
  <2>. QED
    BY <2>1 DEF Tokens
<1>. HIDE DEF body
<1>5. Len(open) = 1 /\ Len(close) = 1
  OBVIOUS
<1>. HIDE DEF open, close
<1>6. /\ Stands(t, n, open \o body) /\ Stands(t, n + Len(open \o body), close)
      /\ Len(Array(texts)) = Len(open \o body) + 1
  <2>. DEFINE most == open \o body
  <2>. HIDE DEF most
  <2>1. most \in Seq(S) /\ close \in Seq(S) /\ Stands(t, n, most \o close) /\ Array(texts) = most \o close
    BY <1>3, <1>4 DEF most
  <2>2. Stands(t, n, most) /\ Stands(t, n + Len(most), close) /\ Len(most \o close) = Len(most) + Len(close)
    BY <2>1, PartsStand
  <2>. QED
    BY <1>5, <2>1, <2>2 DEF most
<1>7. /\ Stands(t, n, open) /\ Stands(t, b, body)
      /\ Len(open \o body) = 1 + Len(body) /\ Len(body) \in Nat
  <2>1. Stands(t, n, open) /\ Stands(t, n + Len(open), body)
        /\ Len(open \o body) = Len(open) + Len(body) /\ Len(body) \in Nat
    BY <1>4, <1>6, PartsStand
  <2>. QED
    BY <1>5, <2>1
<1>8. InArray(t, n, b, "open", <<>>)
  <2>1. n + 1 \in 1..Len(t) /\ t[n + 1] = Open
    BY <1>7, TokenStands DEF open
  <2>. QED
    BY <2>1, ArrayOpens
<1>9. PICK ends : Row(t, b, parts, ends) /\ Len(body) = ends[len]
  <2>1. \E ends : Row(t, b, parts, ends) /\ Len(FlattenSeq(parts)) = ends[Len(parts)]
    <3>1. b \in Nat /\ parts \in Seq(Seq(S)) /\ Stands(t, b, FlattenSeq(parts))
      BY <1>1, <1>2, <1>7 DEF body
    <3>. HIDE DEF b
    <3>. QED
      BY <3>1, PartsStandInARow
  <2>. QED
    BY <1>2, <2>1 DEF body
<1>10. /\ ends \in [0..len -> Nat] /\ ends[0] = 0
       /\ \A k \in 1..len : /\ ends[k] = ends[k - 1] + Len(parts[k]) /\ ends[k - 1] \in Nat
                             /\ Stands(t, b + ends[k - 1], parts[k])
  BY <1>2, <1>9 DEF Row
<1>. DEFINE LastAt(i) == IF i = 0 THEN "open" ELSE "value"
            Good == {i \in 0..len : InArray(t, n, b + ends[i], LastAt(i), SubSeq(texts, 1, i))}
<1>. HIDE DEF len, b, T
<1>11. 0 \in Good
  <2>1. 0 \in 0..len /\ b + ends[0] = b
    BY <1>1, <1>10
  <2>. QED
    BY <1>1, <1>8, <2>1
<1>12. ASSUME NEW i \in 0..len, i < len, i \in Good PROVE i + 1 \in Good
  <2>. DEFINE k == i + 1
              item == Item(texts, k)
              said == SubSeq(texts, 1, i)
              m == b + ends[i]
  <2>1. k \in 1..len /\ k \in 0..len /\ k - 1 = i /\ (k = 1 <=> i = 0) /\ k # 0
    BY <1>1, <1>12
  <2>. HIDE DEF k
  <2>2. SubSeq(texts, 1, k) = Append(said, texts[k])
    <3>1. SubSeq(texts, 1, k) = Append(SubSeq(texts, 1, k - 1), texts[k])
      BY <1>1, <2>1, PrefixGrows DEF len
    <3>. QED
      BY <2>1, <3>1
  <2>3. ends[i] \in Nat /\ ends[k] = ends[i] + Len(item) /\ Stands(t, m, item)
    BY <1>2, <1>10, <2>1
  <2>4. InArray(t, n, m, LastAt(i), said)
    BY <1>12
  <2>5. LastAt(i) = (IF k = 1 THEN "open" ELSE "value")
    BY <2>1
  <2>6. m \in Nat
    BY <1>1, <2>3
  <2>. HIDE DEF said, m, LastAt
  <2>7. InArray(t, n, m + Len(item), "value", Append(said, texts[k])) /\ Len(item) \in Nat
    <3>1. k \in 1..Len(texts)
      BY <2>1 DEF len
    <3>2. InArray(t, n, m, IF k = 1 THEN "open" ELSE "value", said)
      BY <2>4, <2>5
    <3>. QED
      BY <2>3, <3>1, <3>2, ItemStands
  <2>8. b + ends[k] = m + Len(item)
    <3>. HIDE DEF item
    <3>. QED
      BY <1>1, <2>3, <2>7 DEF m
  <2>9. LastAt(k) = "value"
    BY <2>1 DEF LastAt
  <2>10. InArray(t, n, b + ends[k], LastAt(k), SubSeq(texts, 1, k))
    BY <2>2, <2>7, <2>8, <2>9
  <2>. QED
    BY <2>1, <2>10 DEF k
<1>13. \A i \in 0..len : i \in Good
  <2>. HIDE DEF Good
  <2>. QED
    BY <1>1, <1>11, <1>12, NumberInduction
<1>. DEFINE m == b + ends[len]
            last == LastAt(len)
<1>14. InArray(t, n, m, last, texts) /\ last \in {"open", "value"}
  BY <1>1, <1>13
<1>15. m \in Nat /\ n + Len(open \o body) = m /\ n + Len(Array(texts)) = m + 1
  <2>1. ends[len] \in Nat
    BY <1>1, <1>10
  <2>. DEFINE final == ends[len]
              most == Len(open \o body)
              all == Len(Array(texts))
  <2>2. most = 1 + Len(body) /\ all = most + 1 /\ Len(body) = final
    BY <1>6, <1>7, <1>9
  <2>3. final \in Nat /\ m = n + 1 + final
    BY <2>1 DEF b
  <2>. HIDE DEF final, most, all, m
  <2>4. m \in Nat /\ n + most = m /\ n + all = m + 1
    BY <2>2, <2>3
  <2>. QED
    BY <2>4 DEF most, all
<1>. HIDE DEF m, last
<1>16. m + 1 \in 1..Len(t) /\ t[m + 1] = Close
  BY <1>6, <1>15, TokenStands DEF close
<1>17. ArrayHeard(t, n, m + 1, texts)
  BY <1>14, <1>15, <1>16, ArrayCloses
<1>. QED
  BY <1>15, <1>17

LEMMA ArrayIsTokens ==
    ASSUME NEW S, Tokens \subseteq S, NEW texts \in Seq(Seq(S))
    PROVE  Array(texts) \in Seq(S)
<1>. DEFINE parts == [i \in DOMAIN texts |-> Item(texts, i)]
            body == FlattenSeq(parts)
            open == <<Open>>
            close == <<Close>>
<1>1. parts \in Seq(Seq(S))
  <2>. DEFINE len == Len(texts)
              T == Seq(S)
  <2>1. len \in Nat /\ parts = [i \in 1..len |-> Item(texts, i)]
    OBVIOUS
  <2>2. \A i \in 1..len : Item(texts, i) \in T
    BY ItemIs
  <2>. HIDE DEF parts, len, T
  <2>3. parts \in Seq(T)
    BY <2>1, <2>2
  <2>. QED
    BY <2>3 DEF T
<1>2. body \in Seq(S)
  <2>. HIDE DEF parts
  <2>. QED
    BY <1>1, FlattenIs
<1>3. open \in Seq(S) /\ close \in Seq(S)
  BY DEF Tokens
<1>4. Array(texts) = open \o body \o close
  BY Zenon DEF Array
<1>. HIDE DEF body, open, close
<1>. QED
  BY <1>2, <1>3, <1>4

-----------------------------------------------------------------------------
(* Spans: what a closing bracket closes, read on its own.                  *)
Spans(text, o, c, span) ==
    /\ o \in 1..(c - 1)
    /\ span = SubSeq(text, o, c)
    /\ Len(span) = c - o + 1
    /\ \A j \in 1..Len(span) : span[j] = text[(o - 1) + j]
    /\ \A j \in 0..Len(span) : SameString(Scan(span)[j], Scan(text)[(o - 1) + j])

LEMMA SpanIs ==
    ASSUME NEW S, NEW text \in Seq(S), NEW c \in 1..Len(text), Closes(text, Scan(text), c)
    PROVE  Span(text, c) \in Seq(S) /\ Spans(text, Opener(text, Scan(text), c), c, Span(text, c))
<1>. DEFINE o == Opener(text, Scan(text), c)
            span == SubSeq(text, o, c)
            m == o - 1
<1>1. o \in 1..(c - 1) /\ Opens(text, Scan(text), o)
  BY OpenerIs
<1>2. Span(text, c) = span
  BY Zenon DEF Span
<1>3. ~Scan(text)[m].inString
  BY <1>1 DEF Opens
<1>. HIDE DEF o
<1>4. /\ span \in Seq(S) /\ Len(span) = c - o + 1 /\ m \in Nat /\ m + Len(span) <= Len(text)
      /\ \A j \in 1..Len(span) : span[j] = text[m + j]
  BY <1>1
<1>. HIDE DEF span, m
<1>5. \A j \in 0..Len(span) : SameString(Scan(span)[j], Scan(text)[m + j])
  BY <1>3, <1>4, SpansScanAlike
<1>. QED
  BY <1>1, <1>2, <1>4, <1>5 DEF Spans, o, span, m

LEMMA StaysNotFlat ==
    ASSUME NEW S, NEW r \in Readings(S), NEW before, NEW after, NEW token \in S
    PROVE  LET x == ReadStep(r, before, after, token)
           IN  /\ r.last # "start" \/ ~before.inString => x.last # "start"
               /\ ~r.flat => ~x.flat
               /\ ~before.inString /\ token = Open /\ r.last # "start" => ~x.flat
<1>. DEFINE x == ReadStep(r, before, after, token)
<1>1. CASE ~before.inString
  <2>. DEFINE flat == r.flat /\ (r.last = "start" \/ token \in {Quote, Comma, Close})
              legal == r.legal /\ <<r.last, Lexeme(token)>> \in MayFollow
              said == IF token = Quote THEN Append(r.texts, <<>>) ELSE r.texts
  <2>1. x = [last |-> Lexeme(token), legal |-> legal, flat |-> flat, texts |-> said]
    BY <1>1, ReadsOutside
  <2>. HIDE DEF x, flat, legal, said
  <2>2. x.last = Lexeme(token) /\ x.flat = flat
    BY <2>1
  <2>3. Lexeme(token) # "start" /\ Open \notin {Quote, Comma, Close}
    BY LexemeIs, TokensDiffer
  <2>. QED
    BY <1>1, <2>2, <2>3 DEF x, flat
<1>2. CASE before.inString /\ after.inString /\ ~after.escaped
  <2>. DEFINE said == LastText(r.texts, token)
  <2>1. x = [r EXCEPT !.texts = said]
    BY <1>2, ReadsInside
  <2>. HIDE DEF said, x
  <2>2. x.last = r.last /\ x.flat = r.flat
    BY <2>1 DEF Readings
  <2>. QED
    BY <1>2, <2>2 DEF x
<1>3. CASE before.inString /\ ~(after.inString /\ ~after.escaped)
  <2>1. x = r
    BY <1>3, ReadsNothing
  <2>. QED
    BY <1>3, <2>1
<1>. QED
  BY <1>1, <1>2, <1>3

(* A bracket opened after the first token: not strings alone.              *)
LEMMA NestedIsNotFlat ==
    ASSUME NEW S, NEW span \in Seq(S), NEW i \in 2..Len(span), Opens(span, Scan(span), i)
    PROVE  ~Reading(span)[Len(span)].flat
<1>. DEFINE n == Len(span)
            scan == Scan(span)
            read == Reading(span)
            Good == {j \in 0..n : (j >= 1 => read[j].last # "start") /\ (j >= i => ~read[j].flat)}
<1>1. n \in Nat /\ i \in Nat /\ 2 <= i /\ i <= n /\ i - 1 \in Nat
  OBVIOUS
<1>2. \A j \in 1..n : /\ span[j] \in S /\ read[j - 1] \in Readings(S)
                      /\ read[j] = ReadStep(read[j - 1], scan[j - 1], scan[j], span[j])
  BY ReadingIs
<1>3. ~scan[0].inString
  BY ScanIs DEF StartOfText
<1>4. span[i] = Open /\ ~scan[i - 1].inString
  BY DEF Opens
<1>. HIDE DEF n, scan, read
<1>5. 0 \in Good
  BY <1>1
<1>6. ASSUME NEW j \in 0..n, j < n, j \in Good PROVE j + 1 \in Good
  <2>. DEFINE r == read[j]
              x == read[j + 1]
  <2>1. j + 1 \in 1..n /\ j + 1 \in 0..n /\ (j + 1) - 1 = j /\ j \in Nat
    BY <1>1, <1>6
  <2>2. r \in Readings(S) /\ span[j + 1] \in S /\ x = ReadStep(r, scan[j], scan[j + 1], span[j + 1])
    BY <1>2, <2>1
  <2>. HIDE DEF r, x
  <2>3. /\ r.last # "start" \/ ~scan[j].inString => x.last # "start"
        /\ ~r.flat => ~x.flat
        /\ ~scan[j].inString /\ span[j + 1] = Open /\ r.last # "start" => ~x.flat
    BY <2>2, StaysNotFlat
  <2>4. (j >= 1 => r.last # "start") /\ (j >= i => ~r.flat)
    BY <1>6 DEF r
  <2>5. x.last # "start"
    BY <1>3, <2>1, <2>3, <2>4
  <2>6. ASSUME j + 1 >= i PROVE ~x.flat
    <3>1. CASE j >= i
      BY <2>3, <2>4, <3>1
    <3>2. CASE j + 1 = i
      <4>1. j = i - 1 /\ j >= 1
        BY <1>1, <2>1, <3>2
      <4>. QED
        BY <1>4, <2>3, <2>4, <3>2, <4>1
    <3>. QED
      BY <1>1, <2>1, <2>6, <3>1, <3>2
  <2>. QED
    BY <2>1, <2>5, <2>6 DEF x
<1>7. \A j \in 0..n : j \in Good
  <2>. HIDE DEF Good
  <2>. QED
    BY <1>1, <1>5, <1>6, NumberInduction
<1>8. n \in Good
  BY <1>1, <1>7
<1>. QED
  BY <1>1, <1>8 DEF n, read

(* ... so a span around another bracket's is no reply.                     *)
LEMMA AroundIsNoReply ==
    ASSUME NEW S, NEW text \in Seq(S), NEW c \in 1..Len(text), Closes(text, Scan(text), c),
           NEW i \in (Opener(text, Scan(text), c) + 1)..(c - 1), Opens(text, Scan(text), i)
    PROVE  ReplyAt(Span(text, c)) = NoReply
<1>. DEFINE o == Opener(text, Scan(text), c)
            span == Span(text, c)
            k == i - (o - 1)
<1>1. span \in Seq(S) /\ Spans(text, o, c, span) /\ i \in (o + 1)..(c - 1)
  BY SpanIs
<1>. HIDE DEF o, span
<1>2. o \in 1..(c - 1) /\ Len(span) = c - o + 1
  BY <1>1 DEF Spans
<1>3. k \in 2..Len(span) /\ (o - 1) + k = i /\ k - 1 \in 0..Len(span) /\ (o - 1) + (k - 1) = i - 1
  <2>. DEFINE n == Len(span)
  <2>1. n = c - o + 1 /\ i \in (o + 1)..(c - 1)
    BY <1>1, <1>2
  <2>. HIDE DEF n
  <2>2. k \in 2..n /\ (o - 1) + k = i /\ k - 1 \in 0..n /\ (o - 1) + (k - 1) = i - 1
    BY <1>2, <2>1
  <2>. QED
    BY <2>2 DEF n
<1>. HIDE DEF k
<1>4. span[k] = text[i] /\ SameString(Scan(span)[k - 1], Scan(text)[i - 1])
  BY <1>1, <1>3 DEF Spans
<1>5. Opens(span, Scan(span), k)
  BY <1>4 DEF Opens, SameString
<1>6. ~Reading(span)[Len(span)].flat
  BY <1>1, <1>3, <1>5, NestedIsNotFlat
<1>7. ReplyAt(span) = NoReply
  BY <1>6 DEF ReplyAt
<1>. QED
  BY <1>7 DEF span

-----------------------------------------------------------------------------
(* An array in its place in a text is what its closing bracket closes, and *)
(* nothing closes before it.                                               *)
StandsClosed(t, n, e, array) ==
    /\ e \in 1..Len(t)
    /\ Closes(t, Scan(t), e) /\ Opens(t, Scan(t), n + 1)
    /\ Scan(t)[e - 1].depth \in 1..Len(t)
    /\ Opener(t, Scan(t), e) = n + 1
    /\ Span(t, e) = array
    /\ \A c \in (n + 1)..(e - 1) : ~Closes(t, Scan(t), c)
    /\ \A o \in (n + 2)..e : ~Opens(t, Scan(t), o)
    /\ Scan(t)[n].depth \in Nat

LEMMA ArrayIsSpan ==
    ASSUME NEW S, Tokens \subseteq S, NEW t \in Seq(S), NEW n \in Nat, NEW array \in Seq(S), NEW texts,
           Stands(t, n, array), ArrayHeard(t, n, n + Len(array), texts)
    PROVE  StandsClosed(t, n, n + Len(array), array)
<1>. DEFINE e == n + Len(array)
            d == Scan(t)[n].depth
            scan == Scan(t)
            len == Len(t)
<1>1. e \in Nat /\ n + 1 < e /\ e <= len /\ len \in Nat /\ Len(array) = e - n
  BY DEF ArrayHeard
<1>2. /\ t[n + 1] = Open /\ t[e] = Close
      /\ ~scan[e - 1].inString /\ scan[e].depth = d
      /\ \A j \in (n + 1)..(e - 1) : scan[j].depth = d + 1
      /\ \A j \in (n + 2)..(e - 1) : scan[j - 1].inString \/ t[j] \in {Quote, Comma}
  BY DEF ArrayHeard
<1>3. \A j \in 0..len : scan[j] \in Scanned
  <2>1. scan \in [0..len -> Scanned]
    BY ScanIs
  <2>. HIDE DEF scan, len
  <2>. QED
    BY <2>1
<1>4. d \in Nat
  <2>1. n \in 0..len
    BY <1>1
  <2>. HIDE DEF len, scan
  <2>2. scan[n].depth \in Nat
    BY <1>3, <2>1 DEF Scanned
  <2>. QED
    BY <2>2 DEF scan
<1>5. ~scan[n].inString
  <2>1. n + 1 \in 1..len /\ (n + 1) - 1 = n /\ n + 1 <= Len(t) /\ n \in Nat
    BY <1>1
  <2>2. scan[n + 1].depth > scan[n].depth
    <3>1. n + 1 \in (n + 1)..(e - 1)
      BY <1>1
    <3>2. scan[n + 1].depth = d + 1 /\ scan[n].depth = d
      BY <1>2, <3>1
    <3>. HIDE DEF scan, d
    <3>. QED
      BY <1>4, <3>2
  <2>3. scan[n] \in Scanned /\ scan[n + 1] = ScanStep(scan[n], t[n + 1])
    BY <2>1, OneMore
  <2>. HIDE DEF scan
  <2>. QED
    BY <2>2, <2>3, ScanStepKeeps
<1>. HIDE DEF d, scan, len, e
<1>6. e \in 1..len /\ e - 1 \in (n + 1)..(e - 1) /\ e - 1 \in 0..len /\ e - 1 \in Nat
  BY <1>1
<1>7. scan[e - 1].depth = d + 1 /\ scan[e - 1].depth > 0
  BY <1>2, <1>4, <1>6
<1>8. Closes(t, scan, e)
  BY <1>2, <1>7 DEF Closes
<1>9. Opens(t, scan, n + 1)
  <2>1. (n + 1) - 1 = n
    OBVIOUS
  <2>. QED
    BY <1>2, <1>5, <2>1 DEF Opens
<1>10. \A c \in (n + 1)..(e - 1) : ~Closes(t, scan, c)
  <2>1. \A c \in (n + 1)..(e - 1) : c = n + 1 \/ c \in (n + 2)..(e - 1)
    BY <1>1
  <2>. QED
    BY <1>2, <2>1, TokensDiffer DEF Closes
<1>11. \A o \in (n + 2)..e : ~Opens(t, scan, o)
  <2>1. \A o \in (n + 2)..e : o = e \/ o \in (n + 2)..(e - 1)
    BY <1>1
  <2>. QED
    BY <1>2, <2>1, TokensDiffer DEF Opens
<1>12. scan[e - 1].depth \in 1..len
  <2>1. scan[e - 1].depth <= e - 1
    BY <1>6, DepthsAreOpened DEF scan, len
  <2>. QED
    BY <1>1, <1>4, <1>7, <2>1
<1>13. Opener(t, scan, e) = n + 1
  <2>. DEFINE o == Opener(t, scan, e)
  <2>1. /\ o \in 1..(e - 1) /\ Opens(t, scan, o)
        /\ \A j \in 1..(e - 1) : Opens(t, scan, j) /\ scan[j].depth = scan[e - 1].depth => j <= o
    BY <1>6, <1>8, OpenerIs DEF scan, len
  <2>2. n + 1 \in 1..(e - 1) /\ n + 1 \in (n + 1)..(e - 1)
    BY <1>1
  <2>3. scan[n + 1].depth = scan[e - 1].depth
    BY <1>2, <1>7, <2>2
  <2>. HIDE DEF o
  <2>4. n + 1 <= o
    BY <1>9, <2>1, <2>2, <2>3
  <2>5. o \notin (n + 2)..e
    BY <1>11, <2>1
  <2>6. o = n + 1
    BY <1>1, <2>1, <2>4, <2>5
  <2>. QED
    BY <2>6 DEF o
<1>14. Span(t, e) = array
  <2>. DEFINE span == Span(t, e)
              m == Len(array)
  <2>1. span \in Seq(S) /\ Spans(t, n + 1, e, span)
    BY <1>6, <1>8, <1>13, SpanIs DEF scan, len
  <2>. HIDE DEF span
  <2>2. Len(span) = e - (n + 1) + 1 /\ \A j \in 1..Len(span) : span[j] = t[((n + 1) - 1) + j]
    BY <2>1 DEF Spans
  <2>3. e - (n + 1) + 1 = e - n /\ (n + 1) - 1 = n
    BY <1>1
  <2>4. Len(span) = m /\ m \in Nat /\ \A j \in 1..m : span[j] = t[n + j]
    BY <1>1, <2>2, <2>3
  <2>5. \A j \in 1..m : array[j] = t[n + j]
    BY DEF Stands
  <2>6. \A j \in 1..m : span[j] = array[j]
    BY <2>4, <2>5
  <2>7. span = array
    <3>1. \A p, q \in Seq(S) : Len(p) = m /\ Len(q) = m /\ (\A j \in 1..m : p[j] = q[j]) => p = q
      OBVIOUS
    <3>. QED
      BY <2>1, <2>4, <2>6, <3>1
  <2>. QED
    BY <2>7 DEF span
<1>. QED
  BY <1>4, <1>6, <1>8, <1>9, <1>10, <1>11, <1>12, <1>13, <1>14 DEF StandsClosed, e, d, scan, len

(* An array on its own.                                                    *)
LEMMA ArrayReads ==
    ASSUME NEW S, Tokens \subseteq S, NEW texts \in Seq(Seq(S))
    PROVE  /\ Array(texts) \in Seq(S) /\ Len(Array(texts)) \in Nat
           /\ IsArray(Array(texts))
           /\ ReplyAt(Array(texts)) = [read |-> TRUE, texts |-> texts]
<1>. DEFINE array == Array(texts)
            n == Len(array)
<1>1. array \in Seq(S)
  BY ArrayIsTokens
<1>. HIDE DEF array
<1>2. n \in Nat /\ Stands(array, 0, array) /\ 0 + n = n
  BY <1>1 DEF Stands
<1>3. ~Scan(array)[0].inString /\ Reading(array)[0] = StartOfSpan
  BY <1>1, ScanIs, ReadingIs DEF StartOfText
<1>4. ArrayHeard(array, 0, 0 + n, texts)
  BY <1>1, <1>2, <1>3, ArrayIsHeard DEF array
<1>5. <<"start", "open">> \in MayFollow
  BY DEF MayFollow
<1>6. Reading(array)[n].legal /\ Reading(array)[n].flat /\ Reading(array)[n].texts = texts
  BY <1>2, <1>3, <1>4, <1>5 DEF ArrayHeard, StartOfSpan
<1>. HIDE DEF n
<1>7. IsArray(array)
  BY <1>6 DEF IsArray, n
<1>8. ReplyAt(array) = [read |-> TRUE, texts |-> texts]
  BY <1>6 DEF ReplyAt, n
<1>. QED
  BY <1>1, <1>2, <1>7, <1>8 DEF array, n

LEMMA FirstOfIs ==
    ASSUME NEW text, NEW T, T \subseteq Nat
    PROVE  /\ T = {} => FirstOf(text, T) = NoReply
           /\ T # {} => \E c \in T : (\A x \in T : c <= x) /\ FirstOf(text, T) = ReplyAt(Span(text, c))
<1>1. CASE T = {}
  BY <1>1 DEF FirstOf
<1>2. CASE T # {}
  <2>1. \E c \in T : \A x \in T : c <= x
    BY <1>2, LeastNumber
  <2>2. Min(T) = CHOOSE c \in T : \A x \in T : c <= x
    BY Zenon DEF Min
  <2>3. Min(T) \in T /\ \A x \in T : Min(T) <= x
    BY <2>1, <2>2
  <2>4. FirstOf(text, T) = ReplyAt(Span(text, Min(T)))
    BY <1>2 DEF FirstOf
  <2>. QED
    BY <1>2, <2>3, <2>4
<1>. QED
  BY <1>1, <1>2

LEMMA ArraysAre ==
    ASSUME NEW S, NEW text \in Seq(S), NEW depths, NEW c \in Arrays(text, depths)
    PROVE  /\ c \in 1..Len(text) /\ Closes(text, Scan(text), c) /\ IsArray(Span(text, c))
           /\ Scan(text)[c - 1].depth \in depths
<1>1. c \in Tried(Candidates(text, depths)) /\ IsArray(Span(text, c))
  BY DEF Arrays
<1>2. c \in Candidates(text, depths)
  BY <1>1 DEF Tried
<1>3. Candidates(text, depths)
        = {i \in DOMAIN text : Closes(text, Scan(text), i) /\ Scan(text)[i - 1].depth \in depths}
  BY Zenon DEF Candidates
<1>. QED
  BY <1>1, <1>2, <1>3

(* No bracket that a remark closes closes an array.                        *)
LEMMA RemarksHoldNoArray ==
    ASSUME NEW S, NEW p \in Seq(S), Remark(p), NEW t \in Seq(S), Len(p) <= Len(t),
           \A i \in 1..Len(p) : t[i] = p[i], NEW c \in 1..Len(p), Closes(t, Scan(t), c)
    PROVE  ~IsArray(Span(t, c)) /\ c \in DOMAIN p /\ p[c] = Close
<1>. DEFINE o == Opener(t, Scan(t), c)
            span == Span(t, c)
            n == Len(p)
            q == SubSeq(p, o, c)
<1>1. c \in 1..Len(t)
  OBVIOUS
<1>2. /\ o \in 1..(c - 1) /\ t[o] = Open
      /\ span \in Seq(S) /\ Spans(t, o, c, span)
  BY <1>1, OpenerIs, SpanIs DEF Opens
<1>3. t[c] = Close
  BY DEF Closes
<1>. HIDE DEF o, span
<1>4. o \in 1..n /\ c \in 1..n /\ o < c /\ n \in Nat /\ DOMAIN p = 1..n
  BY <1>2
<1>5. p[o] = Open /\ p[c] = Close
  BY <1>2, <1>3, <1>4
<1>6. q \in Seq(S) /\ Len(q) = c - o + 1 /\ \A j \in 1..(c - o + 1) : q[j] = p[(o - 1) + j]
  BY <1>4
<1>. HIDE DEF q, n
<1>7. Len(span) = c - o + 1 /\ \A j \in 1..(c - o + 1) : span[j] = t[(o - 1) + j]
  BY <1>2 DEF Spans
<1>8. \A j \in 1..(c - o + 1) : (o - 1) + j \in 1..n
  BY <1>4
<1>9. \A j \in 1..(c - o + 1) : span[j] = q[j]
  BY <1>6, <1>7, <1>8 DEF n
<1>10. span = q
  <2>1. \A x, y \in Seq(S) : Len(x) = c - o + 1 /\ Len(y) = c - o + 1
                             /\ (\A j \in 1..(c - o + 1) : x[j] = y[j]) => x = y
    OBVIOUS
  <2>. QED
    BY <1>2, <1>6, <1>7, <1>9, <2>1
<1>11. ~IsArray(SubSeq(p, o, c))
  BY <1>4, <1>5 DEF Remark
<1>. QED
  BY <1>4, <1>5, <1>10, <1>11 DEF q, span

(* What closes after an array closes around it.                            *)
LEMMA ClosingAfter ==
    ASSUME NEW S, Tokens \subseteq S, NEW t \in Seq(S), NEW n \in Nat, NEW array \in Seq(S), NEW texts,
           Stands(t, n, array), ArrayHeard(t, n, n + Len(array), texts), Len(t) <= n + Len(array) + 2,
           \A j \in (n + Len(array) + 1)..Len(t) : t[j] = Close,
           NEW c \in (n + Len(array) + 1)..Len(t), Closes(t, Scan(t), c)
    PROVE  ReplyAt(Span(t, c)) = NoReply
<1>. DEFINE e == n + Len(array)
            scan == Scan(t)
            len == Len(t)
            d == scan[n].depth
            o == Opener(t, scan, c)
<1>1. /\ d \in Nat /\ Opens(t, scan, n + 1)
      /\ \A j \in (n + 2)..e : ~Opens(t, scan, j)
      /\ e \in 1..len
  <2>1. StandsClosed(t, n, e, array)
    BY ArrayIsSpan
  <2>. QED
    BY <2>1 DEF StandsClosed
<1>2. /\ e \in Nat /\ n + 1 < e /\ len \in Nat
      /\ scan[e].depth = d
      /\ \A j \in (n + 1)..(e - 1) : scan[j].depth = d + 1
  BY DEF ArrayHeard
<1>3. c \in (e + 1)..len /\ c \in 1..len /\ len <= e + 2 /\ \A j \in (e + 1)..len : t[j] = Close
  BY <1>2
<1>4. /\ o \in 1..(c - 1) /\ Opens(t, scan, o) /\ scan[o].depth = scan[c - 1].depth
  BY <1>3, OpenerIs
<1>5. e + 1 <= len => /\ scan[e] \in Scanned /\ scan[e + 1] \in Scanned
                      /\ scan[e + 1] = ScanStep(scan[e], t[e + 1])
  <2>. HIDE DEF e
  <2>. QED
    BY <1>2, OneMore
<1>. HIDE DEF e, scan, len, d, o
<1>6. scan[c - 1].depth <= d
  <2>1. CASE c = e + 1
    <3>1. c - 1 = e
      BY <1>2, <2>1
    <3>. QED
      BY <1>1, <1>2, <3>1
  <2>2. CASE c = e + 2
    <3>1. c - 1 = e + 1 /\ e + 1 <= len /\ e + 1 \in (e + 1)..len
      BY <1>2, <1>3, <2>2
    <3>2. t[e + 1] # Open
      BY <1>3, <3>1, TokensDiffer
    <3>3. ~(scan[e + 1].depth > scan[e].depth)
      BY <1>5, <3>1, <3>2, ScanStepKeeps
    <3>4. scan[e + 1].depth \in Nat
      BY <1>5, <3>1 DEF Scanned
    <3>. DEFINE x == scan[e + 1].depth
    <3>5. scan[c - 1].depth = x /\ x \in Nat /\ ~(x > d)
      BY <1>2, <3>1, <3>3, <3>4
    <3>. HIDE DEF x
    <3>. QED
      BY <1>1, <3>5
  <2>3. c = e + 1 \/ c = e + 2
    BY <1>2, <1>3
  <2>. QED
    BY <2>1, <2>2, <2>3
<1>7. o <= n
  <2>1. o \notin (n + 1)..(e - 1)
    <3>1. ASSUME o \in (n + 1)..(e - 1) PROVE FALSE
      <4>1. scan[o].depth = d + 1
        BY <1>2, <3>1
      <4>. QED
        BY <1>1, <1>4, <1>6, <4>1
    <3>. QED
      BY <3>1
  <2>2. o \notin (n + 2)..e
    BY <1>1, <1>4
  <2>3. o \notin (e + 1)..len
    BY <1>3, <1>4, TokensDiffer DEF Opens
  <2>. QED
    BY <1>2, <1>3, <1>4, <2>1, <2>2, <2>3
<1>8. n + 1 \in (o + 1)..(c - 1)
  BY <1>2, <1>3, <1>4, <1>7
<1>. QED
  BY <1>1, <1>3, <1>8, AroundIsNoReply DEF o, scan, len

(* An array after a remark, at the end of the reply or before the brackets *)
(* that close the remark's own.                                            *)
FoundAs(found, texts, rest) ==
    LET whole == [read |-> TRUE, texts |-> texts]
    IN  found \in {whole, NoReply} /\ (Len(rest) = 0 => found = whole)

LEMMA RemarksAreSkipped ==
    ASSUME NEW S, Tokens \subseteq S, NEW texts \in Seq(Seq(S)), NEW p \in Seq(S), Remark(p),
           NEW rest \in Seq(S), Len(rest) <= 2, \A i \in 1..Len(rest) : rest[i] = Close
    PROVE  FoundAs(ParseJsonArray(p \o Array(texts) \o rest), texts, rest)
<1>. DEFINE a == Array(texts)
            pa == p \o a
            t == pa \o rest
            n == Len(p)
            e == n + Len(a)
            scan == Scan(t)
            len == Len(t)
            whole == [read |-> TRUE, texts |-> texts]
<1>1. a \in Seq(S) /\ IsArray(a) /\ ReplyAt(a) = whole
  BY ArrayReads
<1>. HIDE DEF a
<1>2. pa \in Seq(S) /\ n \in Nat /\ Len(a) \in Nat /\ Len(rest) \in Nat
  BY <1>1
<1>. HIDE DEF pa
<1>3. t \in Seq(S) /\ Stands(t, 0, t)
  BY <1>2 DEF Stands
<1>4. /\ Stands(t, 0, pa) /\ Stands(t, Len(pa), rest)
      /\ len = Len(pa) + Len(rest)
  <2>1. Stands(t, 0, pa) /\ Stands(t, 0 + Len(pa), rest) /\ Len(pa \o rest) = Len(pa) + Len(rest)
        /\ Len(pa) \in Nat
    <3>. DEFINE u == t
    <3>1. u \in Seq(S) /\ Stands(u, 0, pa \o rest)
      BY <1>3
    <3>. HIDE DEF u
    <3>2. Stands(u, 0, pa) /\ Stands(u, 0 + Len(pa), rest) /\ Len(pa \o rest) = Len(pa) + Len(rest)
          /\ Len(pa) \in Nat
      BY <1>2, <3>1, PartsStand
    <3>. QED
      BY <3>2 DEF u
  <2>2. 0 + Len(pa) = Len(pa)
    BY <2>1
  <2>. QED
    BY <2>1, <2>2
<1>. HIDE DEF t
<1>5. Stands(t, 0, p) /\ Stands(t, n, a) /\ Len(pa) = e
  <2>1. Stands(t, 0, p) /\ Stands(t, 0 + n, a) /\ Len(p \o a) = n + Len(a)
    BY <1>1, <1>3, <1>4, PartsStand DEF pa
  <2>2. 0 + n = n
    BY <1>2
  <2>. QED
    BY <2>1, <2>2 DEF pa
<1>6. n <= len /\ len \in Nat /\ \A i \in 1..n : t[i] = p[i]
  <2>1. 0 + n <= len /\ \A i \in 1..n : t[0 + i] = p[i]
    BY <1>5 DEF Stands
  <2>2. \A i \in 1..n : 0 + i = i
    BY <1>2
  <2>. QED
    BY <1>2, <1>3, <2>1, <2>2
<1>7. /\ len <= e + 2 /\ e \in Nat
      /\ \A j \in (e + 1)..len : t[j] = Close
      /\ Len(rest) = 0 => len = e
  <2>1. \A i \in 1..Len(rest) : t[e + i] = Close
    BY <1>4, <1>5 DEF Stands
  <2>2. len = e + Len(rest) /\ e \in Nat
    BY <1>2, <1>4, <1>5
  <2>. HIDE DEF e, len
  <2>3. \A j \in (e + 1)..len : j - e \in 1..Len(rest) /\ e + (j - e) = j
    BY <1>2, <2>2
  <2>4. \A j \in (e + 1)..len : t[j] = Close
    BY <2>1, <2>3
  <2>. QED
    BY <1>2, <2>2, <2>4
<1>8. ~scan[n].inString
  <2>1. \A i \in 0..n : scan[i] = Scan(p)[i]
    BY <1>3, <1>6, ScansAlike
  <2>2. n \in 0..n
    BY <1>2
  <2>. QED
    BY <2>1, <2>2 DEF Remark
<1>9. ArrayHeard(t, n, e, texts)
  BY <1>2, <1>3, <1>5, <1>8, ArrayIsHeard DEF a
<1>10. /\ e \in 1..len /\ Closes(t, scan, e) /\ scan[e - 1].depth \in 1..len
       /\ Span(t, e) = a
       /\ \A c \in (n + 1)..(e - 1) : ~Closes(t, scan, c)
  <2>1. StandsClosed(t, n, e, a)
    <3>1. n \in Nat /\ Stands(t, n, a) /\ ArrayHeard(t, n, n + Len(a), texts)
      BY <1>2, <1>5, <1>9
    <3>. HIDE DEF n
    <3>. QED
      BY <1>1, <1>3, <3>1, ArrayIsSpan
  <2>. QED
    BY <2>1 DEF StandsClosed
<1>11. \A c \in 1..n : Closes(t, scan, c) => ~IsArray(Span(t, c)) /\ c \in DOMAIN p /\ p[c] = Close
  BY <1>3, <1>6, RemarksHoldNoArray
<1>12. \A c \in (e + 1)..len : Closes(t, scan, c) => ReplyAt(Span(t, c)) = NoReply
  BY <1>1, <1>2, <1>3, <1>5, <1>7, <1>9, ClosingAfter
<1>. HIDE DEF n, e, scan, len, whole
<1>13. ASSUME NEW depths
       PROVE  LET arrays == Arrays(t, depths)
              IN  /\ FirstOf(t, arrays) \in {whole, NoReply}
                  /\ e \in arrays \/ (Len(rest) = 0 /\ arrays # {}) => FirstOf(t, arrays) = whole
  <2>. DEFINE arrays == Arrays(t, depths)
              first == FirstOf(t, arrays)
  <2>1. \A c \in arrays : c \in 1..len /\ Closes(t, scan, c) /\ IsArray(Span(t, c))
    BY <1>3, ArraysAre DEF scan, len
  <2>. HIDE DEF arrays
  <2>2. \A c \in arrays : c \in Nat /\ (c = e \/ c \in (e + 1)..len)
    <3>1. \A c \in 1..len : c \in 1..n \/ c \in (n + 1)..(e - 1) \/ c = e \/ c \in (e + 1)..len
      BY <1>2, <1>6, <1>7
    <3>. QED
      BY <1>10, <1>11, <2>1, <3>1
  <2>3. \A c \in arrays : /\ c = e => ReplyAt(Span(t, c)) = whole
                          /\ c # e => ReplyAt(Span(t, c)) = NoReply /\ e < c /\ c <= len
    <3>1. \A c \in (e + 1)..len : e < c /\ c <= len
      BY <1>7
    <3>. QED
      BY <1>1, <1>10, <1>12, <2>1, <2>2, <3>1
  <2>4. arrays \subseteq Nat
    BY <2>2
  <2>5. ASSUME arrays = {} PROVE first = NoReply
    BY <2>4, <2>5, FirstOfIs
  <2>6. ASSUME arrays # {}
        PROVE  first \in {whole, NoReply} /\ (e \in arrays \/ Len(rest) = 0 => first = whole)
    <3>1. PICK c \in arrays : (\A x \in arrays : c <= x) /\ first = ReplyAt(Span(t, c))
      BY <2>4, <2>6, FirstOfIs
    <3>. HIDE DEF first
    <3>2. first \in {whole, NoReply}
      BY <2>3, <3>1
    <3>3. ASSUME e \in arrays \/ Len(rest) = 0 PROVE c = e
      <4>1. c \in Nat /\ (c # e => e < c /\ c <= len)
        BY <2>2, <2>3
      <4>2. CASE e \in arrays
        <5>1. c <= e
          BY <3>1, <4>2
        <5>. QED
          BY <1>7, <4>1, <5>1
      <4>3. CASE Len(rest) = 0
        BY <1>7, <4>1, <4>3
      <4>. QED
        BY <3>3, <4>2, <4>3
    <3>4. e \in arrays \/ Len(rest) = 0 => first = whole
      BY <2>3, <3>1, <3>3
    <3>. QED
      BY <3>2, <3>4
  <2>. HIDE DEF first
  <2>7. first \in {whole, NoReply} /\ (e \in arrays \/ (Len(rest) = 0 /\ arrays # {}) => first = whole)
    BY <2>5, <2>6
  <2>. QED
    BY <2>7 DEF arrays, first
<1>14. e \in InnermostArrays(t)
  <2>. DEFINE found == Candidates(t, 1..len)
              earlier == {c \in found : c < e}
              closing == {j \in DOMAIN p : p[j] = Close}
  <2>1. found = {i \in DOMAIN t : Closes(t, scan, i) /\ scan[i - 1].depth \in 1..len}
    BY Zenon DEF Candidates, scan
  <2>2. DOMAIN t = 1..len /\ DOMAIN p = 1..n
    BY <1>3 DEF len, n
  <2>. HIDE DEF found
  <2>3. e \in found
    BY <1>10, <2>1, <2>2
  <2>4. earlier \subseteq closing
    <3>1. ASSUME NEW c \in earlier PROVE c \in closing
      <4>1. c \in 1..len /\ Closes(t, scan, c) /\ c < e
        BY <2>1, <2>2
      <4>2. c \in 1..n \/ c \in (n + 1)..(e - 1)
        BY <1>2, <1>7, <4>1
      <4>. QED
        BY <1>10, <1>11, <4>1, <4>2
    <3>. QED
      BY <3>1
  <2>5. IsFiniteSet(closing)
    <3>1. IsFiniteSet(1..n)
      BY <1>2, FS_Interval
    <3>2. closing \subseteq 1..n
      BY <2>2
    <3>. HIDE DEF closing
    <3>. QED
      BY <3>1, <3>2, FS_Subset
  <2>6. Cardinality(closing) < MaxCandidates
    BY DEF Remark
  <2>7. Cardinality(closing) \in Nat /\ Cardinality(earlier) \in Nat /\ Cardinality(earlier) <= Cardinality(closing)
    <3>. HIDE DEF earlier, closing
    <3>1. IsFiniteSet(earlier) /\ Cardinality(earlier) <= Cardinality(closing)
      BY <2>4, <2>5, FS_Subset
    <3>. QED
      BY <2>5, <3>1, FS_CardinalityType
  <2>8. Cardinality(earlier) < MaxCandidates
    <3>. DEFINE x == Cardinality(earlier)
                y == Cardinality(closing)
    <3>1. x \in Nat /\ y \in Nat /\ x <= y /\ y < MaxCandidates
      BY <2>6, <2>7
    <3>. HIDE DEF x, y
    <3>2. x < MaxCandidates
      BY <3>1, ReplyAssumption
    <3>. QED
      BY <3>2 DEF x
  <2>9. e \in Tried(found)
    BY <2>3, <2>8 DEF Tried
  <2>10. e \in Arrays(t, 1..len)
    BY <1>1, <1>10, <2>9 DEF Arrays, found
  <2>. QED
    BY <2>10 DEF InnermostArrays, len
<1>15. LET arrays == IF TopLevelArrays(t) # {} THEN TopLevelArrays(t) ELSE InnermostArrays(t)
           found == FirstOf(t, arrays)
       IN  found \in {whole, NoReply} /\ (Len(rest) = 0 => found = whole)
  <2>1. CASE TopLevelArrays(t) # {}
    <3>1. TopLevelArrays(t) = Arrays(t, {1})
      BY DEF TopLevelArrays
    <3>. QED
      BY <1>13, <2>1, <3>1
  <2>2. CASE TopLevelArrays(t) = {}
    <3>1. InnermostArrays(t) = Arrays(t, 1..len)
      BY DEF InnermostArrays, len
    <3>. QED
      BY <1>13, <1>14, <2>2, <3>1
  <2>. QED
    BY <2>1, <2>2
<1>16. ParseJsonArray(t)
         = FirstOf(t, IF TopLevelArrays(t) # {} THEN TopLevelArrays(t) ELSE InnermostArrays(t))
  BY Zenon DEF ParseJsonArray
<1>. QED
  BY <1>15, <1>16 DEF FoundAs, t, pa, a, whole

(* Where the parts of an array of two arrays stand.                        *)
Pair(a, b) == <<Open>> \o a \o <<Comma>> \o b \o <<Close>>

PairOf(t, S, a, b) ==
    /\ t \in Seq(S) /\ Len(a) \in Nat /\ Len(b) \in Nat
    /\ Len(t) = Len(a) + Len(b) + 3
    /\ t[1] = Open /\ Stands(t, 1, a)
    /\ t[Len(a) + 2] = Comma /\ Stands(t, Len(a) + 2, b)
    /\ t[Len(t)] = Close

LEMMA PairStands ==
    ASSUME NEW S, Tokens \subseteq S, NEW a \in Seq(S), NEW b \in Seq(S)
    PROVE  PairOf(Pair(a, b), S, a, b)
<1>. DEFINE t == Pair(a, b)
            open == <<Open>>
            comma == <<Comma>>
            close == <<Close>>
            t1 == open \o a
            t2 == t1 \o comma
            t3 == t2 \o b
<1>1. open \in Seq(S) /\ comma \in Seq(S) /\ close \in Seq(S)
      /\ Len(open) = 1 /\ Len(comma) = 1 /\ Len(close) = 1
  BY DEF Tokens
<1>2. t = t3 \o close
  BY Zenon DEF Pair
<1>. HIDE DEF t, open, comma, close
<1>3. t1 \in Seq(S)
  BY <1>1
<1>. HIDE DEF t1
<1>4. t2 \in Seq(S)
  BY <1>1, <1>3
<1>. HIDE DEF t2
<1>5. t3 \in Seq(S)
  BY <1>4
<1>. HIDE DEF t3
<1>6. t \in Seq(S)
  BY <1>1, <1>2, <1>5
<1>7. Stands(t, 0, t)
  BY <1>6 DEF Stands
<1>8. /\ Stands(t, 0, t3) /\ Stands(t, 0 + Len(t3), close)
      /\ Len(t) = Len(t3) + Len(close) /\ Len(t3) \in Nat
  <2>1. Stands(t, 0, t3 \o close)
    BY <1>2, <1>7
  <2>2. close \in Seq(S) /\ t3 \in Seq(S) /\ t \in Seq(S) /\ 0 \in Nat
    BY <1>1, <1>5, <1>6
  <2>3. /\ Stands(t, 0, t3) /\ Stands(t, 0 + Len(t3), close)
        /\ Len(t3 \o close) = Len(t3) + Len(close) /\ Len(t3) \in Nat /\ Len(close) \in Nat
    BY <2>1, <2>2, PartsStand
  <2>. QED
    BY <1>2, <2>1, <2>3
<1>9. /\ Stands(t, 0, t2) /\ Stands(t, 0 + Len(t2), b)
      /\ Len(t3) = Len(t2) + Len(b) /\ Len(t2) \in Nat /\ Len(b) \in Nat
  <2>1. Stands(t, 0, t2 \o b) /\ t3 = t2 \o b
    BY <1>8 DEF t3
  <2>2. t2 \in Seq(S) /\ t \in Seq(S) /\ 0 \in Nat
    BY <1>4, <1>6
  <2>3. /\ Stands(t, 0, t2) /\ Stands(t, 0 + Len(t2), b)
        /\ Len(t2 \o b) = Len(t2) + Len(b) /\ Len(t2) \in Nat /\ Len(b) \in Nat
    BY <2>1, <2>2, PartsStand
  <2>. QED
    BY <1>2, <2>1, <2>3
<1>10. /\ Stands(t, 0, t1) /\ Stands(t, 0 + Len(t1), comma)
       /\ Len(t2) = Len(t1) + Len(comma) /\ Len(t1) \in Nat
  <2>1. Stands(t, 0, t1 \o comma) /\ t2 = t1 \o comma
    BY <1>9 DEF t2
  <2>2. comma \in Seq(S) /\ t1 \in Seq(S) /\ t \in Seq(S) /\ 0 \in Nat
    BY <1>1, <1>3, <1>6
  <2>3. /\ Stands(t, 0, t1) /\ Stands(t, 0 + Len(t1), comma)
        /\ Len(t1 \o comma) = Len(t1) + Len(comma) /\ Len(t1) \in Nat /\ Len(comma) \in Nat
    BY <2>1, <2>2, PartsStand
  <2>. QED
    BY <1>2, <2>1, <2>3
<1>11. /\ Stands(t, 0, open) /\ Stands(t, 0 + Len(open), a)
       /\ Len(t1) = Len(open) + Len(a) /\ Len(a) \in Nat
  <2>1. Stands(t, 0, open \o a) /\ t1 = open \o a
    BY <1>10 DEF t1
  <2>2. open \in Seq(S) /\ t \in Seq(S) /\ 0 \in Nat
    BY <1>1, <1>6
  <2>3. /\ Stands(t, 0, open) /\ Stands(t, 0 + Len(open), a)
        /\ Len(open \o a) = Len(open) + Len(a) /\ Len(open) \in Nat /\ Len(a) \in Nat
    BY <2>1, <2>2, PartsStand
  <2>. QED
    BY <1>2, <2>1, <2>3
<1>. DEFINE la == Len(a)
            lb == Len(b)
            l1 == Len(t1)
            l2 == Len(t2)
            l3 == Len(t3)
            len == Len(t)
<1>12. /\ l1 = 1 + la /\ l2 = l1 + 1 /\ l3 = l2 + lb /\ len = l3 + 1
       /\ la \in Nat /\ lb \in Nat /\ l1 \in Nat /\ l2 \in Nat /\ l3 \in Nat
  BY <1>1, <1>8, <1>9, <1>10, <1>11
<1>13. 0 + Len(open) = 1 /\ 0 + l1 = l1 /\ 0 + l2 = l2 /\ 0 + l3 = l3
  BY <1>1, <1>12
<1>14. Stands(t, 1, a) /\ Stands(t, l1, comma) /\ Stands(t, l2, b) /\ Stands(t, l3, close) /\ Stands(t, 0, open)
  BY <1>8, <1>9, <1>10, <1>11, <1>13
<1>15. t[0 + 1] = Open /\ t[l1 + 1] = Comma /\ t[l3 + 1] = Close
  <2>. HIDE DEF l1, l3
  <2>. QED
    BY <1>6, <1>12, <1>14, TokenStands DEF open, comma, close
<1>. HIDE DEF la, lb, l1, l2, l3, len
<1>16. 0 + 1 = 1 /\ l1 + 1 = la + 2 /\ l2 = la + 2 /\ l3 + 1 = len /\ len = la + lb + 3
  BY <1>12
<1>17. t[1] = Open /\ t[la + 2] = Comma /\ t[len] = Close /\ Stands(t, la + 2, b)
  BY <1>14, <1>15, <1>16
<1>. QED
  BY <1>6, <1>12, <1>14, <1>16, <1>17 DEF PairOf, t, la, lb, len

LEMMA OpeningToken ==
    ASSUME NEW S, NEW t \in Seq(S), 1 <= Len(t), t[1] = Open
    PROVE  /\ ~Scan(t)[1].inString /\ Scan(t)[1].depth = 1 /\ Opens(t, Scan(t), 1)
           /\ Reading(t)[1].last = "open" /\ Reading(t)[1].legal
<1>. DEFINE s == Scan(t)[0]
            u == Scan(t)[1]
            r == Reading(t)[0]
            x == Reading(t)[1]
<1>1. u = ScanStep(s, Open) /\ x = ReadStep(r, s, u, Open) /\ s = StartOfText /\ r = StartOfSpan
  <2>1. 0 + 1 = 1
    OBVIOUS
  <2>2. u = ScanStep(s, Open) /\ x = ReadStep(r, s, u, Open)
    BY <2>1, OneMore
  <2>. QED
    BY <2>2, ScanIs, ReadingIs
<1>. HIDE DEF s, u, r, x
<1>2. s \in Scanned /\ ~s.inString /\ s.depth = 0
  BY <1>1 DEF Scanned, StartOfText
<1>3. u = [s EXCEPT !.depth = s.depth + 1]
  BY <1>1, <1>2, ScanStepIs
<1>4. ~u.inString /\ u.depth = 1
  BY <1>2, <1>3 DEF Scanned
<1>5. x.last = "open" /\ x.legal
  <2>. DEFINE flat == r.flat /\ (r.last = "start" \/ Open \in {Quote, Comma, Close})
              legal == r.legal /\ <<r.last, Lexeme(Open)>> \in MayFollow
              said == IF Open = Quote THEN Append(r.texts, <<>>) ELSE r.texts
  <2>1. x = [last |-> Lexeme(Open), legal |-> legal, flat |-> flat, texts |-> said]
    BY <1>1, <1>2, ReadsOutside
  <2>2. Lexeme(Open) = "open" /\ <<"start", "open">> \in MayFollow
    BY LexemeIs DEF MayFollow
  <2>3. legal
    BY <1>1, <2>2 DEF StartOfSpan
  <2>. HIDE DEF legal, flat, said
  <2>. QED
    BY <2>1, <2>2, <2>3
<1>6. Opens(t, Scan(t), 1)
  <2>1. 1 - 1 = 0
    OBVIOUS
  <2>. QED
    BY <1>2, <2>1 DEF Opens, s
<1>. QED
  BY <1>4, <1>5, <1>6 DEF u, x

(* A comma after an array.                                                 *)
LEMMA CommaAfterArray ==
    ASSUME NEW S, NEW t \in Seq(S), NEW m \in Nat, m + 1 <= Len(t), t[m + 1] = Comma,
           ~Scan(t)[m].inString, Reading(t)[m].last = "close", Reading(t)[m].legal
    PROVE  /\ Scan(t)[m + 1] = Scan(t)[m]
           /\ Reading(t)[m + 1].last = "comma" /\ Reading(t)[m + 1].legal
<1>. DEFINE s == Scan(t)[m]
            u == Scan(t)[m + 1]
            r == Reading(t)[m]
            x == Reading(t)[m + 1]
<1>1. s \in Scanned /\ r \in Readings(S) /\ u = ScanStep(s, Comma) /\ x = ReadStep(r, s, u, Comma)
  BY OneMore
<1>2. ~s.inString /\ r.last = "close" /\ r.legal
  OBVIOUS
<1>. HIDE DEF s, u, r, x
<1>3. u = s
  <2>1. Comma \notin {Quote, Open} /\ Comma # Close
    BY TokensDiffer
  <2>. QED
    BY <1>1, <1>2, <2>1, ScanStepIs
<1>. DEFINE flat == r.flat /\ (r.last = "start" \/ Comma \in {Quote, Comma, Close})
            legal == r.legal /\ <<r.last, Lexeme(Comma)>> \in MayFollow
            said == IF Comma = Quote THEN Append(r.texts, <<>>) ELSE r.texts
<1>4. x = [last |-> Lexeme(Comma), legal |-> legal, flat |-> flat, texts |-> said]
  BY <1>1, <1>2, ReadsOutside
<1>5. Lexeme(Comma) = "comma" /\ <<"close", "comma">> \in MayFollow
  BY LexemeIs DEF MayFollow
<1>6. legal
  BY <1>2, <1>5
<1>. HIDE DEF legal, flat, said
<1>7. x.last = "comma" /\ x.legal
  BY <1>4, <1>5, <1>6
<1>. QED
  BY <1>3, <1>7 DEF s, u, x

(* A bracket that closes after an array.                                   *)
LEMMA CloseAfterArray ==
    ASSUME NEW S, NEW t \in Seq(S), NEW m \in Nat, m + 1 <= Len(t), t[m + 1] = Close,
           ~Scan(t)[m].inString, Reading(t)[m].last = "close", Reading(t)[m].legal
    PROVE  Reading(t)[m + 1].legal
<1>. DEFINE s == Scan(t)[m]
            u == Scan(t)[m + 1]
            r == Reading(t)[m]
            x == Reading(t)[m + 1]
<1>1. x = ReadStep(r, s, u, Close)
  BY OneMore
<1>2. ~s.inString /\ r.last = "close" /\ r.legal
  OBVIOUS
<1>. HIDE DEF s, u, r, x
<1>. DEFINE flat == r.flat /\ (r.last = "start" \/ Close \in {Quote, Comma, Close})
            legal == r.legal /\ <<r.last, Lexeme(Close)>> \in MayFollow
            said == IF Close = Quote THEN Append(r.texts, <<>>) ELSE r.texts
<1>3. x = [last |-> Lexeme(Close), legal |-> legal, flat |-> flat, texts |-> said]
  BY <1>1, <1>2, ReadsOutside
<1>4. legal
  <2>1. Lexeme(Close) = "close" /\ <<"close", "close">> \in MayFollow
    BY LexemeIs DEF MayFollow
  <2>. QED
    BY <1>2, <2>1
<1>. HIDE DEF legal, flat, said
<1>. QED
  BY <1>3, <1>4 DEF x

LEMMA PairIsNoReply ==
    ASSUME NEW S, Tokens \subseteq S, NEW texts \in Seq(Seq(S)), NEW others \in Seq(Seq(S))
    PROVE  ParseJsonArray(Pair(Array(texts), Array(others))) = NoReply
<1>. DEFINE a == Array(texts)
            b == Array(others)
            t == Pair(a, b)
            scan == Scan(t)
            read == Reading(t)
            len == Len(t)
            e == 1 + Len(a)
            n == Len(a) + 2
            f == n + Len(b)
<1>1. a \in Seq(S) /\ b \in Seq(S)
  BY ArrayReads
<1>2. PairOf(t, S, a, b)
  <2>. HIDE DEF a, b
  <2>. QED
    BY <1>1, PairStands
<1>. HIDE DEF a, b, t
<1>3. /\ t \in Seq(S) /\ Len(a) \in Nat /\ Len(b) \in Nat /\ e \in Nat /\ n \in Nat /\ f \in Nat
      /\ len = f + 1 /\ n = e + 1 /\ t[1] = Open /\ t[n] = Comma /\ t[len] = Close
      /\ Stands(t, 1, a) /\ Stands(t, n, b)
  BY <1>2 DEF PairOf
<1>4. ~scan[1].inString /\ scan[1].depth = 1 /\ read[1].last = "open" /\ read[1].legal
  <2>1. 1 <= Len(t)
    BY <1>3
  <2>. QED
    BY <1>3, <2>1, OpeningToken
<1>5. ArrayHeard(t, 1, e, texts)
  BY <1>3, <1>4, ArrayIsHeard DEF a
<1>6. /\ e \in 1..len /\ Opens(t, scan, 2)
      /\ \A c \in 2..(e - 1) : ~Closes(t, scan, c)
      /\ \A o \in 3..e : ~Opens(t, scan, o)
  <2>1. StandsClosed(t, 1, e, a)
    BY <1>1, <1>3, <1>5, ArrayIsSpan
  <2>2. 1 + 1 = 2 /\ 1 + 2 = 3
    OBVIOUS
  <2>. QED
    BY <2>1, <2>2 DEF StandsClosed
<1>7. /\ 2 < e /\ t[e] = Close /\ ~scan[e].inString /\ scan[e].depth = 1
      /\ \A j \in 2..(e - 1) : scan[j].depth = 2
      /\ read[e].last = "close" /\ read[e].legal
  <2>1. <<"open", "open">> \in MayFollow
    BY DEF MayFollow
  <2>2. 1 + 1 = 2
    OBVIOUS
  <2>. QED
    BY <1>4, <1>5, <2>1, <2>2 DEF ArrayHeard
<1>8. /\ ~scan[n].inString /\ scan[n].depth = 1
      /\ read[n].last = "comma" /\ read[n].legal
  <2>1. e + 1 <= len /\ t[e + 1] = Comma
    BY <1>3
  <2>. HIDE DEF e, n
  <2>2. scan[e + 1] = scan[e] /\ read[e + 1].last = "comma" /\ read[e + 1].legal
    BY <1>3, <1>7, <2>1, CommaAfterArray
  <2>. QED
    BY <1>3, <1>7, <2>2
<1>9. ArrayHeard(t, n, f, others)
  <2>1. n \in Nat /\ Stands(t, n, Array(others)) /\ ~Scan(t)[n].inString
    BY <1>3, <1>8 DEF b
  <2>2. f = n + Len(Array(others))
    BY DEF b
  <2>. HIDE DEF n, f
  <2>3. ArrayHeard(t, n, n + Len(Array(others)), others)
    BY <1>3, <2>1, ArrayIsHeard
  <2>. QED
    BY <2>2, <2>3
<1>10. /\ \A c \in (n + 1)..(f - 1) : ~Closes(t, scan, c)
       /\ \A o \in (n + 2)..f : ~Opens(t, scan, o)
  <2>1. StandsClosed(t, n, f, b)
    <3>1. n \in Nat /\ b \in Seq(S) /\ Stands(t, n, b) /\ ArrayHeard(t, n, n + Len(b), others)
      BY <1>1, <1>3, <1>9
    <3>. HIDE DEF n
    <3>. QED
      BY <1>3, <3>1, ArrayIsSpan
  <2>. QED
    BY <2>1 DEF StandsClosed
<1>11. /\ n + 1 < f /\ t[f] = Close /\ ~scan[f].inString /\ scan[f].depth = 1
       /\ \A j \in (n + 1)..(f - 1) : scan[j].depth = 2
       /\ read[f].last = "close" /\ read[f].legal
  <2>1. <<"comma", "open">> \in MayFollow
    BY DEF MayFollow
  <2>2. 1 + 1 = 2
    OBVIOUS
  <2>. HIDE DEF n, f
  <2>. QED
    BY <1>8, <1>9, <2>1, <2>2 DEF ArrayHeard
<1>. HIDE DEF scan, read, e, n, f, len
<1>12. f + 1 <= Len(t) /\ t[f + 1] = Close /\ len \in 1..len /\ len - 1 = f /\ DOMAIN t = 1..len
  BY <1>3 DEF len
<1>13. read[len].legal
  BY <1>3, <1>11, <1>12, CloseAfterArray DEF scan, read
<1>14. Closes(t, scan, len) /\ scan[len - 1].depth = 1
  BY <1>3, <1>11, <1>12 DEF Closes
<1>15. Opener(t, scan, len) = 1
  <2>. DEFINE o == Opener(t, scan, len)
  <2>1. o \in 1..(len - 1) /\ Opens(t, scan, o) /\ scan[o].depth = 1
    BY <1>3, <1>12, <1>14, OpenerIs DEF scan, len
  <2>. HIDE DEF o
  <2>2. o = 1 \/ o \in 2..(e - 1) \/ o = e \/ o = n \/ o \in (n + 1)..(f - 1) \/ o = f
    BY <1>3, <1>7, <1>11, <1>12, <2>1
  <2>3. t[o] = Open
    BY <2>1 DEF Opens
  <2>. QED
    BY <1>3, <1>7, <1>11, <2>1, <2>2, <2>3, TokensDiffer DEF o
<1>16. Span(t, len) = t
  <2>1. Span(t, len) = SubSeq(t, 1, len)
    BY <1>15 DEF Span, scan
  <2>2. SubSeq(t, 1, len) = t
    BY <1>3 DEF len
  <2>. QED
    BY <2>1, <2>2
<1>17. IsArray(t)
  BY <1>13 DEF IsArray, read, len
<1>18. ReplyAt(t) = NoReply
  <2>1. 2 \in (1 + 1)..(len - 1)
    BY <1>3, <1>7, <1>11, <1>12
  <2>2. ReplyAt(Span(t, len)) = NoReply
    BY <1>3, <1>6, <1>12, <1>14, <1>15, <2>1, AroundIsNoReply DEF scan, len
  <2>. QED
    BY <1>16, <2>2
<1>19. \A c \in 1..len : Closes(t, scan, c) /\ scan[c - 1].depth = 1 => c = len
  <2>. SUFFICES ASSUME NEW c \in 1..len, Closes(t, scan, c), scan[c - 1].depth = 1, c # len
                PROVE  FALSE
    OBVIOUS
  <2>1. c = 1 \/ c \in 2..(e - 1) \/ c = e \/ c = n \/ c \in (n + 1)..(f - 1) \/ c = f
    BY <1>3, <1>7, <1>11, <1>12
  <2>2. e - 1 \in 2..(e - 1) /\ f - 1 \in (n + 1)..(f - 1)
    BY <1>3, <1>7, <1>11
  <2>3. scan[e - 1].depth = 2 /\ scan[f - 1].depth = 2
    BY <1>7, <1>11, <2>2
  <2>4. t[c] = Close
    BY DEF Closes
  <2>5. c # e /\ c # f
    BY <2>3
  <2>. QED
    BY <1>3, <1>6, <1>10, <2>1, <2>4, <2>5, TokensDiffer
<1>. DEFINE found == Candidates(t, {1})
            top == TopLevelArrays(t)
<1>20. found = {len}
  <2>1. found = {i \in DOMAIN t : Closes(t, scan, i) /\ scan[i - 1].depth \in {1}}
    BY Zenon DEF Candidates, scan
  <2>. HIDE DEF found
  <2>. QED
    BY <1>12, <1>14, <1>19, <2>1
<1>21. top = {len}
  <2>1. {c \in found : c < len} = {}
    BY <1>3, <1>20
  <2>2. Cardinality({}) = 0
    BY FS_EmptySet
  <2>3. 0 < MaxCandidates
    BY ReplyAssumption
  <2>. HIDE DEF found
  <2>4. \A c \in found : c = len
    BY <1>20
  <2>5. Cardinality({c \in found : c < len}) < MaxCandidates
    BY <2>1, <2>2, <2>3
  <2>6. len \in Tried(found) /\ \A c \in Tried(found) : c = len
    BY <1>20, <2>4, <2>5 DEF Tried
  <2>7. len \in Arrays(t, {1}) /\ \A c \in Arrays(t, {1}) : c = len
    BY <1>16, <1>17, <2>6 DEF Arrays, found
  <2>. QED
    BY <2>7 DEF TopLevelArrays
<1>. HIDE DEF top
<1>22. FirstOf(t, top) = NoReply
  <2>1. top \subseteq Nat /\ top # {}
    BY <1>3, <1>21
  <2>2. PICK c \in top : FirstOf(t, top) = ReplyAt(Span(t, c))
    BY <2>1, FirstOfIs
  <2>. QED
    BY <1>16, <1>18, <1>21, <2>2
<1>23. ParseJsonArray(t)
         = FirstOf(t, IF TopLevelArrays(t) # {} THEN TopLevelArrays(t) ELSE InnermostArrays(t))
  BY Zenon DEF ParseJsonArray
<1>24. TopLevelArrays(t) # {}
  BY <1>21 DEF top
<1>. QED
  BY <1>22, <1>23, <1>24 DEF top, t, a, b

-----------------------------------------------------------------------------
LEMMA WiderAlphabet ==
    ASSUME NEW A, NEW B, A \subseteq B, NEW x \in Seq(A)
    PROVE  x \in Seq(B)
<1>1. Len(x) \in Nat /\ x \in [1..Len(x) -> A]
  OBVIOUS
<1>. DEFINE n == Len(x)
<1>. HIDE DEF n
<1>2. x \in [1..n -> B]
  BY <1>1 DEF n
<1>3. \A y \in [1..n -> B] : y \in Seq(B)
  BY <1>1 DEF n
<1>. QED
  BY <1>2, <1>3

(* The tokens of an array's texts.                                         *)
TextTokens(texts) == UNION {ToSet(text) : text \in ToSet(texts)}

LEMMA DialogueIsTokens ==
    ASSUME NEW texts \in Dialogue, NEW S, TextTokens(texts) \subseteq S
    PROVE  texts \in Seq(Seq(S))
<1>1. texts \in Seq(ToSet(texts)) /\ \A text \in ToSet(texts) : text \in Seq(ToSet(text))
  BY HarnessAssumption
<1>2. \A text \in ToSet(texts) : text \in Seq(S)
  <2>. SUFFICES ASSUME NEW text \in ToSet(texts) PROVE text \in Seq(S)
    OBVIOUS
  <2>1. ToSet(text) \subseteq S
    BY DEF TextTokens
  <2>. QED
    BY <1>1, <2>1, WiderAlphabet
<1>3. ToSet(texts) \subseteq Seq(S)
  BY <1>2
<1>. QED
  BY <1>1, <1>3, WiderAlphabet

(* Whatever a remark says before it, an array is read whole or not at all, *)
(* and arrays in an array are no reply.                                    *)
THEOREM RepliesAreWhole == RepliesAreRead
<1>. SUFFICES ASSUME NEW texts \in Dialogue, NEW others \in Dialogue
              PROVE  /\ ~ParseJsonArray(<<Open>> \o Array(texts) \o <<Comma>> \o Array(others)
                                            \o <<Close>>).read
                     /\ \A p \in {r \in Remarks : Remark(r)} :
                           LET closed == ParseJsonArray(p \o Array(texts) \o <<Close, Close>>)
                           IN  /\ ParseJsonArray(p \o Array(texts)) = [read |-> TRUE, texts |-> texts]
                               /\ closed.read => closed.texts = texts
  BY Zenon DEF RepliesAreRead
<1>1. ~ParseJsonArray(Pair(Array(texts), Array(others))).read
  <2>. DEFINE S == Tokens \cup TextTokens(texts) \cup TextTokens(others)
  <2>1. Tokens \subseteq S /\ TextTokens(texts) \subseteq S /\ TextTokens(others) \subseteq S
    OBVIOUS
  <2>. HIDE DEF S
  <2>2. texts \in Seq(Seq(S)) /\ others \in Seq(Seq(S))
    BY <2>1, DialogueIsTokens
  <2>3. ParseJsonArray(Pair(Array(texts), Array(others))) = NoReply
    BY <2>1, <2>2, PairIsNoReply
  <2>. QED
    BY <2>3 DEF NoReply
<1>2. ASSUME NEW p \in Remarks, Remark(p)
      PROVE  LET closed == ParseJsonArray(p \o Array(texts) \o <<Close, Close>>)
             IN  /\ ParseJsonArray(p \o Array(texts)) = [read |-> TRUE, texts |-> texts]
                 /\ closed.read => closed.texts = texts
  <2>. DEFINE S == Tokens \cup TextTokens(texts) \cup ToSet(p)
              whole == [read |-> TRUE, texts |-> texts]
              closing == <<Close, Close>>
              nothing == <<>>
              a == Array(texts)
  <2>1. Tokens \subseteq S /\ TextTokens(texts) \subseteq S /\ ToSet(p) \subseteq S
    OBVIOUS
  <2>. HIDE DEF S
  <2>2. texts \in Seq(Seq(S)) /\ p \in Seq(S)
    BY <2>1, DialogueIsTokens, WiderAlphabet, HarnessAssumption
  <2>3. a \in Seq(S)
    BY <2>1, <2>2, ArrayReads
  <2>4. closing \in Seq(S) /\ Len(closing) <= 2 /\ \A i \in 1..Len(closing) : closing[i] = Close
    BY <2>1 DEF Tokens
  <2>5. nothing \in Seq(S) /\ Len(nothing) <= 2 /\ Len(nothing) = 0
        /\ \A i \in 1..Len(nothing) : nothing[i] = Close
    OBVIOUS
  <2>. HIDE DEF closing, nothing, whole
  <2>6. ParseJsonArray(p \o a \o closing) \in {whole, NoReply}
    <3>1. FoundAs(ParseJsonArray(p \o a \o closing), texts, closing)
      BY <1>2, <2>1, <2>2, <2>4, RemarksAreSkipped
    <3>. QED
      BY <3>1 DEF FoundAs, whole
  <2>7. ParseJsonArray(p \o a \o nothing) = whole
    <3>1. FoundAs(ParseJsonArray(p \o a \o nothing), texts, nothing)
      BY <1>2, <2>1, <2>2, <2>5, RemarksAreSkipped
    <3>. QED
      BY <2>5, <3>1 DEF FoundAs, whole
  <2>8. p \o a \o nothing = p \o a
    <3>. HIDE DEF a
    <3>. QED
      BY <2>2, <2>3 DEF nothing
  <2>9. \A found \in {whole, NoReply} : found.read => found.texts = texts
    BY DEF whole, NoReply
  <2>. QED
    BY <2>6, <2>7, <2>8, <2>9 DEF whole, closing
<1>. QED
  BY <1>1, <1>2 DEF Pair

-----------------------------------------------------------------------------
(* The film: what a source parses to, and what may be said for its cues.   *)
Film(film) ==
    /\ Len(film) \in Nat /\ DOMAIN film = 1..Len(film)
    /\ \E S : film \in Seq(CuesOver(S))
    /\ \A c \in 1..Len(film) :
          \A said \in Replies(film[c].text) : said \in Seq(ToSet(said))

LEMMA SourceIsFilm ==
    ASSUME NEW document \in Uploads
    PROVE  Film(Parse(document))
<1>. DEFINE S == ToSet(document)
            film == Parse(document)
<1>1. document \in Seq(S)
  BY HarnessAssumption
<1>. HIDE DEF S
<1>2. PICK read : Reads(S, document, read)
  BY <1>1, ParseIs
<1>3. film \in Seq(CuesOver(S))
  <2>1. Len(document) \in 0..Len(document)
    BY <1>1
  <2>. QED
    BY <1>2, <2>1 DEF Reads
<1>. HIDE DEF film
<1>4. Len(film) \in Nat /\ DOMAIN film = 1..Len(film)
  BY <1>3
<1>5. ASSUME NEW c \in 1..Len(film)
      PROVE  \A said \in Replies(film[c].text) : said \in Seq(ToSet(said))
  <2>1. film[c] \in ToSet(film)
    BY <1>4 DEF ToSet
  <2>2. film[c] \in ToSet(Parse(document))
    BY <2>1 DEF film
  <2>. QED
    BY <2>2, HarnessAssumption
<1>6. Film(film)
  BY <1>3, <1>4, <1>5, Zenon DEF Film
<1>. QED
  BY <1>6 DEF film

-----------------------------------------------------------------------------
(* How a film is cut: batch after batch, none of them empty or too long.   *)
LEMMA Quotient ==
    \A x, d \in Nat : d > 0 => /\ x \div d \in Nat
                               /\ d * (x \div d) <= x /\ x < d * (x \div d) + d
OBVIOUS

LEMMA CutArithmetic ==
    /\ \A l, d, n \in Nat : d > 0 /\ d * n <= l + d - 1 /\ l + d - 1 < d * n + d =>
          n <= l /\ (l > 0 => n > 0)
    /\ \A d, b, n \in Nat : b <= n => b * d <= d * n
    /\ \A d, b, n \in Nat : b < n => b * d + d <= d * n
    /\ \A d, b \in Int : (b - 1) * d = b * d - d
    /\ \A d, b \in Int : ((b + 1) - 1) * d = b * d
    /\ \A d, b \in Nat : b * d \in Nat /\ (b > 0 => b * d >= d)
OBVIOUS

LEMMA CutIs ==
    ASSUME NEW film, Len(film) \in Nat
    PROVE  /\ NumberOf(film) \in Nat /\ NumberOf(film) <= Len(film)
           /\ Len(film) > 0 => NumberOf(film) > 0
           /\ \A b \in 1..NumberOf(film) :
                 /\ Lo(b) \in Nat /\ Hi(film, b) \in Nat
                 /\ 1 <= Lo(b) /\ Lo(b) <= Hi(film, b) /\ Hi(film, b) <= Len(film)
                 /\ Hi(film, b) - Lo(b) < Batch
                 /\ b < NumberOf(film) => Lo(b + 1) = Hi(film, b) + 1
                 /\ b = NumberOf(film) => Hi(film, b) = Len(film)
                 /\ \A a \in 1..NumberOf(film) : a < b => Hi(film, a) < Lo(b)
           /\ Lo(1) = 1
<1>. DEFINE L == Len(film)
            N == NumberOf(film)
            D == Batch
<1>1. L \in Nat /\ D \in Nat /\ D > 0 /\ L + D - 1 \in Nat
  BY HarnessAssumption
<1>2. N \in Nat /\ D * N <= L + D - 1 /\ L + D - 1 < D * N + D
  <2>1. N = (L + D - 1) \div D
    BY DEF NumberOf
  <2>. HIDE DEF L, N, D
  <2>. QED
    BY <1>1, <2>1, Quotient
<1>. HIDE DEF L, N, D
<1>3. N <= L /\ (L > 0 => N > 0)
  BY <1>1, <1>2, CutArithmetic
<1>4. ASSUME NEW b \in 1..N
      PROVE  /\ Lo(b) = b * D - D + 1 /\ Lo(b) \in Nat /\ Hi(film, b) \in Nat
             /\ Hi(film, b) = IF b * D < L THEN b * D ELSE L
             /\ 1 <= Lo(b) /\ Lo(b) <= Hi(film, b) /\ Hi(film, b) <= L
             /\ Hi(film, b) - Lo(b) < D /\ b * D \in Nat
             /\ b < N => Lo(b + 1) = Hi(film, b) + 1
             /\ b = N => Hi(film, b) = L
  <2>1. b \in Nat /\ b > 0 /\ b <= N
    BY <1>2
  <2>2. b * D \in Nat /\ b * D >= D /\ b * D <= D * N
    BY <1>1, <1>2, <2>1, CutArithmetic
  <2>3. Lo(b) = b * D - D + 1
    <3>1. Lo(b) = (b - 1) * D + 1
      BY DEF Lo, D
    <3>2. (b - 1) * D = b * D - D
      BY <1>1, <2>1, CutArithmetic
    <3>. QED
      BY <3>1, <3>2
  <2>4. Hi(film, b) = IF b * D < L THEN b * D ELSE L
    BY DEF Hi, Least, D, L
  <2>. DEFINE p == b * D
              q == D * N
  <2>5. q \in Nat
    BY <1>1, <1>2, CutArithmetic
  <2>6. b < N => p + D <= q
    BY <1>1, <1>2, <2>1, CutArithmetic
  <2>7. Lo(b + 1) = p + 1
    <3>1. Lo(b + 1) = ((b + 1) - 1) * D + 1
      BY DEF Lo, D
    <3>2. ((b + 1) - 1) * D = b * D
      BY <1>1, <2>1, CutArithmetic
    <3>. QED
      BY <3>1, <3>2
  <2>8. b = N => p = q
    <3>1. \A x, y \in Nat : x * y = y * x
      OBVIOUS
    <3>. QED
      BY <1>1, <1>2, <3>1
  <2>9. p \in Nat /\ p >= D /\ p <= q /\ q <= L + D - 1 /\ L + D - 1 < q + D
    BY <1>2, <2>2
  <2>. HIDE DEF p, q
  <2>10. Lo(b) = p - D + 1 /\ Hi(film, b) = IF p < L THEN p ELSE L
    BY <2>3, <2>4 DEF p
  <2>. QED
    BY <1>1, <2>3, <2>4, <2>5, <2>6, <2>7, <2>8, <2>9, <2>10 DEF p
<1>5. ASSUME NEW b \in 1..N, NEW a \in 1..N, a < b PROVE Hi(film, a) < Lo(b)
  <2>1. a \in Nat /\ b \in Nat /\ a * D \in Nat /\ b * D \in Nat
    BY <1>1, <1>2, <1>4
  <2>2. a * D + D <= D * b /\ D * b = b * D
    <3>1. \A x, y \in Nat : x * y = y * x
      OBVIOUS
    <3>. QED
      BY <1>1, <1>5, <2>1, <3>1, CutArithmetic
  <2>. DEFINE p == a * D
              q == b * D
  <2>3. p \in Nat /\ q \in Nat /\ p + D <= q
    BY <2>1, <2>2
  <2>4. Lo(b) = q - D + 1 /\ Hi(film, a) = IF p < L THEN p ELSE L
    BY <1>4
  <2>. HIDE DEF p, q
  <2>. QED
    BY <1>1, <2>3, <2>4
<1>6. Lo(1) = 1
  <2>1. (1 - 1) * D = 0
    BY <1>1
  <2>. QED
    BY <2>1 DEF Lo, D
<1>. QED
  BY <1>2, <1>3, <1>4, <1>5, <1>6 DEF L, N, D

-----------------------------------------------------------------------------
(* The segments of a batch, from the first left to its last cue.           *)
LEMMA ChainHead ==
    ASSUME NEW todo \in Seq(Segments), todo # <<>>, NEW from \in Nat, NEW to \in Nat,
           Chain(todo, from, to)
    PROVE  /\ Head(todo) \in Segments /\ Head(todo) = todo[1]
           /\ Head(todo).lo = from /\ from <= Head(todo).hi /\ Head(todo).hi <= to
           /\ Head(todo).lo \in Nat /\ Head(todo).hi \in Nat
<1>1. 1 \in 1..Len(todo) /\ Head(todo) = todo[1] /\ todo[1] \in Segments
  OBVIOUS
<1>. QED
  BY <1>1 DEF Chain, Segments

LEMMA ChainTail ==
    ASSUME NEW todo \in Seq(Segments), todo # <<>>, NEW from \in Nat, NEW to \in Nat,
           Chain(todo, from, to)
    PROVE  Tail(todo) \in Seq(Segments) /\ Chain(Tail(todo), Head(todo).hi + 1, to)
<1>. DEFINE n == Len(todo)
            t == Tail(todo)
<1>1. n \in Nat /\ n >= 1 /\ t \in Seq(Segments) /\ Len(t) = n - 1 /\ Head(todo) = todo[1]
  OBVIOUS
<1>2. \A i \in 1..(n - 1) : t[i] = todo[i + 1] /\ i + 1 \in 1..n /\ (i + 1) - 1 = i /\ i + 1 # 1
  OBVIOUS
<1>3. \A i \in 1..n : /\ todo[i].lo <= todo[i].hi /\ todo[i].hi <= to
                      /\ todo[i].lo = IF i = 1 THEN from ELSE todo[i - 1].hi + 1
                      /\ i = n => todo[i].hi = to
  BY DEF Chain
<1>. HIDE DEF n, t
<1>4. ASSUME NEW i \in 1..Len(t)
      PROVE  /\ t[i].lo <= t[i].hi /\ t[i].hi <= to
             /\ t[i].lo = IF i = 1 THEN Head(todo).hi + 1 ELSE t[i - 1].hi + 1
             /\ i = Len(t) => t[i].hi = to
  <2>1. t[i] = todo[i + 1] /\ i + 1 \in 1..n /\ (i + 1) - 1 = i /\ i + 1 # 1
    BY <1>1, <1>2
  <2>2. t[i].lo = todo[i].hi + 1
    <3>1. t[i].lo = todo[(i + 1) - 1].hi + 1
      BY <1>3, <2>1
    <3>. QED
      BY <2>1, <3>1
  <2>3. i # 1 => t[i - 1] = todo[i]
    <3>1. i # 1 => i - 1 \in 1..(n - 1) /\ (i - 1) + 1 = i
      BY <1>1
    <3>. QED
      BY <1>2, <3>1
  <2>4. i = Len(t) => i + 1 = n
    BY <1>1
  <2>. QED
    BY <1>1, <1>3, <2>1, <2>2, <2>3, <2>4
<1>5. t = <<>> => Head(todo).hi = to
  <2>1. t = <<>> => n = 1 /\ 1 \in 1..n
    BY <1>1
  <2>. QED
    BY <1>1, <1>3, <2>1
<1>6. Chain(t, Head(todo).hi + 1, to)
  <2>1. t = <<>> => Head(todo).hi + 1 = to + 1
    BY <1>5
  <2>. QED
    BY <1>4, <2>1 DEF Chain
<1>. QED
  BY <1>1, <1>6 DEF t

LEMMA HalvesAre ==
    ASSUME NEW segment \in Segments, segment.lo < segment.hi
    PROVE  \E mid \in Nat :
              /\ segment.lo < mid /\ mid <= segment.hi
              /\ Halves(segment) = <<[lo |-> segment.lo, hi |-> mid - 1], [lo |-> mid, hi |-> segment.hi]>>
<1>. DEFINE half == (segment.hi - segment.lo + 1) \div 2
            mid == segment.lo + half
<1>1. segment.lo \in Nat /\ segment.hi \in Nat /\ segment = [lo |-> segment.lo, hi |-> segment.hi]
  BY DEF Segments
<1>2. half \in Nat /\ half >= 1 /\ half <= segment.hi - segment.lo
  BY <1>1
<1>3. Halves(segment) = <<[segment EXCEPT !.hi = mid - 1], [segment EXCEPT !.lo = mid]>>
  BY DEF Halves
<1>. HIDE DEF half
<1>4. mid \in Nat /\ segment.lo < mid /\ mid <= segment.hi
  BY <1>1, <1>2
<1>. HIDE DEF mid
<1>5. /\ [segment EXCEPT !.hi = mid - 1] = [lo |-> segment.lo, hi |-> mid - 1]
      /\ [segment EXCEPT !.lo = mid] = [lo |-> mid, hi |-> segment.hi]
  BY <1>1
<1>. QED
  BY <1>3, <1>4, <1>5

LEMMA ChainSplit ==
    ASSUME NEW todo \in Seq(Segments), todo # <<>>, NEW from \in Nat, NEW to \in Nat,
           Chain(todo, from, to), Head(todo).lo < Head(todo).hi
    PROVE  /\ Halves(Head(todo)) \o Tail(todo) \in Seq(Segments)
           /\ Halves(Head(todo)) \o Tail(todo) # <<>>
           /\ Chain(Halves(Head(todo)) \o Tail(todo), from, to)
<1>. DEFINE n == Len(todo)
            t == Tail(todo)
            head == Head(todo)
<1>1. head \in Segments /\ head = todo[1] /\ head.lo = from /\ head.hi <= to /\ head.lo \in Nat /\ head.hi \in Nat
  BY ChainHead
<1>2. PICK mid \in Nat : /\ head.lo < mid /\ mid <= head.hi
                         /\ Halves(head) = <<[lo |-> head.lo, hi |-> mid - 1], [lo |-> mid, hi |-> head.hi]>>
  BY <1>1, HalvesAre
<1>3. t \in Seq(Segments) /\ Chain(t, head.hi + 1, to) /\ Len(t) \in Nat
  BY ChainTail
<1>. HIDE DEF t, head
<1>. DEFINE h == <<[lo |-> head.lo, hi |-> mid - 1], [lo |-> mid, hi |-> head.hi]>>
            s == h \o t
<1>4. h \in Seq(Segments) /\ Len(h) = 2 /\ h[1] = [lo |-> head.lo, hi |-> mid - 1] /\ h[2] = [lo |-> mid, hi |-> head.hi]
  <2>1. mid - 1 \in Nat
    BY <1>1, <1>2
  <2>2. [lo |-> head.lo, hi |-> mid - 1] \in Segments /\ [lo |-> mid, hi |-> head.hi] \in Segments
    BY <1>1, <2>1 DEF Segments
  <2>. QED
    BY <2>2
<1>. HIDE DEF h
<1>5. /\ s \in Seq(Segments) /\ Len(s) = 2 + Len(t)
      /\ s[1] = h[1] /\ s[2] = h[2]
      /\ \A j \in 1..Len(t) : s[2 + j] = t[j]
  <2>1. /\ s \in Seq(Segments) /\ Len(s) = Len(h) + Len(t)
        /\ \A p \in 1..Len(h) : s[p] = h[p]
        /\ \A j \in 1..Len(t) : s[Len(h) + j] = t[j]
    <3>1. h \in Seq(Segments) /\ t \in Seq(Segments)
      BY <1>3, <1>4
    <3>2. /\ h \o t \in Seq(Segments) /\ Len(h \o t) = Len(h) + Len(t)
          /\ \A p \in 1..Len(h) : (h \o t)[p] = h[p]
          /\ \A j \in 1..Len(t) : (h \o t)[Len(h) + j] = t[j]
      BY ONLY <3>1, Concatenation
    <3>. QED
      BY <3>2
  <2>2. 1 \in 1..2 /\ 2 \in 1..2
    OBVIOUS
  <2>. QED
    BY <1>4, <2>1, <2>2
<1>. HIDE DEF s
<1>6. s[1].lo = from /\ s[1].hi = mid - 1 /\ s[2].lo = mid /\ s[2].hi = head.hi
  BY <1>1, <1>4, <1>5
<1>7. /\ t = <<>> => head.hi = to
      /\ \A j \in 1..Len(t) : /\ t[j].lo <= t[j].hi /\ t[j].hi <= to
                              /\ t[j].lo = IF j = 1 THEN head.hi + 1 ELSE t[j - 1].hi + 1
                              /\ j = Len(t) => t[j].hi = to
  <2>1. t = <<>> => head.hi + 1 = to + 1
    BY <1>3 DEF Chain
  <2>2. t = <<>> => head.hi = to
    BY <1>1, <2>1
  <2>. QED
    BY <1>3, <2>2 DEF Chain
<1>8. ASSUME NEW i \in 1..Len(s)
      PROVE  /\ s[i].lo <= s[i].hi /\ s[i].hi <= to
             /\ s[i].lo = IF i = 1 THEN from ELSE s[i - 1].hi + 1
             /\ i = Len(s) => s[i].hi = to
  <2>1. CASE i = 1
    <3>1. i # Len(s)
      BY <1>3, <1>5, <2>1
    <3>2. from <= mid - 1 /\ mid - 1 <= to
      BY <1>1, <1>2
    <3>. QED
      BY <1>6, <2>1, <3>1, <3>2
  <2>2. CASE i = 2
    <3>1. i = Len(s) => t = <<>>
      BY <1>3, <1>5, <2>2
    <3>2. i - 1 = 1 /\ i # 1 /\ mid = (mid - 1) + 1
      BY <1>2, <2>2
    <3>. QED
      BY <1>1, <1>2, <1>6, <1>7, <2>2, <3>1, <3>2
  <2>3. CASE i # 1 /\ i # 2
    <3>. DEFINE j == i - 2
    <3>1. j \in 1..Len(t) /\ 2 + j = i /\ i # 1 /\ (i = Len(s) => j = Len(t))
      BY <1>3, <1>5, <2>3
    <3>2. s[i] = t[j]
      BY <1>5, <3>1
    <3>3. j = 1 => i - 1 = 2
      BY <3>1
    <3>4. j # 1 => j - 1 \in 1..Len(t) /\ 2 + (j - 1) = i - 1
      BY <1>3, <3>1
    <3>. HIDE DEF j
    <3>5. j # 1 => s[i - 1] = t[j - 1]
      BY <1>5, <3>4
    <3>. QED
      BY <1>6, <1>7, <3>1, <3>2, <3>3, <3>5
  <2>. QED
    BY <2>1, <2>2, <2>3
<1>9. s # <<>>
  BY <1>3, <1>5
<1>10. Chain(s, from, to)
  BY <1>8, <1>9 DEF Chain
<1>11. Halves(Head(todo)) \o Tail(todo) = s
  BY <1>2 DEF s, h, t, head
<1>. QED
  BY <1>5, <1>9, <1>10, <1>11


-----------------------------------------------------------------------------
(* What a batch's step leaves of it.                                       *)
LEMMA RecordIs ==
    ASSUME NEW film, NEW batch \in Records(film)
    PROVE  /\ batch.todo \in Seq(Segments) /\ batch.out \in Seq(AllTexts(film))
           /\ Len(batch.out) \in Nat /\ Len(batch.todo) \in Nat
           /\ batch.at \in Stages /\ batch.tries \in 0..Attempts
BY DEF Records

LEMMA HandIs ==
    ASSUME NEW film, Len(film) \in Nat, NEW n, NEW b \in 1..NumberOf(film),
           NEW batch \in Records(film), Whole(film, n, b, batch), batch.todo # <<>>
    PROVE  LET s == Head(batch.todo)
           IN  /\ s \in Segments /\ s.lo \in Nat /\ s.hi \in Nat
               /\ s.lo = Lo(b) + Len(batch.out)
               /\ 1 <= s.lo /\ s.lo <= s.hi /\ s.hi <= Hi(film, b) /\ s.hi <= Len(film)
               /\ Lo(b) \in Nat /\ Hi(film, b) \in Nat
<1>1. /\ Lo(b) \in Nat /\ Hi(film, b) \in Nat /\ 1 <= Lo(b) /\ Hi(film, b) <= Len(film)
  BY CutIs
<1>2. batch.todo \in Seq(Segments) /\ Len(batch.out) \in Nat
  BY RecordIs
<1>3. Chain(batch.todo, Lo(b) + Len(batch.out), Hi(film, b))
  BY DEF Whole
<1>. DEFINE s == Head(batch.todo)
            from == Lo(b) + Len(batch.out)
            to == Hi(film, b)
<1>4. from \in Nat /\ to \in Nat
  BY <1>1, <1>2
<1>5. /\ s \in Segments /\ s.lo = from /\ from <= s.hi /\ s.hi <= to
      /\ s.lo \in Nat /\ s.hi \in Nat
  <2>. HIDE DEF from, to
  <2>. QED
    BY <1>2, <1>3, <1>4, ChainHead DEF from, to
<1>. HIDE DEF s
<1>. QED
  BY <1>1, <1>2, <1>4, <1>5 DEF s

LEMMA AllUpdated ==
    ASSUME NEW A, NEW B, NEW C, NEW D, NEW r \in [todo : A, out : B, at : C, tries : D],
           NEW todo \in A, NEW out \in B, NEW at \in C, NEW tries \in D
    PROVE  LET n == [r EXCEPT !.todo = todo, !.out = out, !.at = at, !.tries = tries]
           IN  /\ n \in [todo : A, out : B, at : C, tries : D]
               /\ n.todo = todo /\ n.out = out /\ n.at = at /\ n.tries = tries
OBVIOUS

LEMMA RestUpdated ==
    ASSUME NEW A, NEW B, NEW C, NEW D, NEW r \in [todo : A, out : B, at : C, tries : D],
           NEW todo \in A, NEW at \in C, NEW tries \in D
    PROVE  LET n == [r EXCEPT !.todo = todo, !.at = at, !.tries = tries]
           IN  /\ n \in [todo : A, out : B, at : C, tries : D]
               /\ n.todo = todo /\ n.out = r.out /\ n.at = at /\ n.tries = tries
OBVIOUS

LEMMA StageUpdated ==
    ASSUME NEW A, NEW B, NEW C, NEW D, NEW r \in [todo : A, out : B, at : C, tries : D],
           NEW at \in C, NEW tries \in D
    PROVE  LET n == [r EXCEPT !.at = at, !.tries = tries]
           IN  /\ n \in [todo : A, out : B, at : C, tries : D]
               /\ n.todo = r.todo /\ n.out = r.out /\ n.at = at /\ n.tries = tries
OBVIOUS

LEMMA AtUpdated ==
    ASSUME NEW A, NEW B, NEW C, NEW D, NEW r \in [todo : A, out : B, at : C, tries : D], NEW at \in C
    PROVE  LET n == [r EXCEPT !.at = at]
           IN  /\ n \in [todo : A, out : B, at : C, tries : D]
               /\ n.todo = r.todo /\ n.out = r.out /\ n.at = at
OBVIOUS

LEMMA SettledIsWhole ==
    ASSUME NEW film, Len(film) \in Nat, NEW n \in Nat, NEW b \in 1..NumberOf(film),
           NEW batch \in Records(film), Whole(film, n, b, batch), batch.todo # <<>>,
           NEW texts \in Seq(AllTexts(film)),
           Len(texts) = Head(batch.todo).hi - Head(batch.todo).lo + 1,
           \A i \in 1..Len(texts) : texts[i] \in MaySay(film, Head(batch.todo).lo + i - 1)
    PROVE  /\ Settled(batch, texts) \in Records(film)
           /\ Whole(film, n, b, Settled(batch, texts))
           /\ Settled(batch, texts).out = batch.out \o texts
           /\ Settled(batch, texts).at = "segment"
<1>. DEFINE s == Head(batch.todo)
            out == batch.out
            more == out \o texts
            left == Tail(batch.todo)
            new == Settled(batch, texts)
<1>1. /\ s.lo \in Nat /\ s.hi \in Nat /\ s.lo = Lo(b) + Len(out) /\ s.lo <= s.hi
      /\ Lo(b) \in Nat /\ Hi(film, b) \in Nat /\ 1 <= s.lo
  BY HandIs
<1>2. out \in Seq(AllTexts(film)) /\ Len(out) \in Nat /\ batch.todo \in Seq(Segments)
  BY RecordIs
<1>4. /\ more \in Seq(AllTexts(film)) /\ Len(more) = Len(out) + Len(texts)
      /\ \A p \in 1..Len(out) : more[p] = out[p]
      /\ \A j \in 1..Len(texts) : more[Len(out) + j] = texts[j]
  <2>. HIDE DEF out
  <2>1. out \in Seq(AllTexts(film)) /\ texts \in Seq(AllTexts(film))
    BY <1>2
  <2>2. /\ out \o texts \in Seq(AllTexts(film)) /\ Len(out \o texts) = Len(out) + Len(texts)
        /\ \A p \in 1..Len(out) : (out \o texts)[p] = out[p]
        /\ \A j \in 1..Len(texts) : (out \o texts)[Len(out) + j] = texts[j]
    BY ONLY <2>1, Concatenation
  <2>. QED
    BY <2>2
<1>5. left \in Seq(Segments) /\ Chain(left, s.hi + 1, Hi(film, b))
  <2>1. Chain(batch.todo, s.lo, Hi(film, b))
    BY <1>1 DEF Whole
  <2>. QED
    BY <1>1, <1>2, <2>1, ChainTail
<1>0. Len(texts) = s.hi - s.lo + 1 /\ Len(texts) \in Nat
  OBVIOUS
<1>6. Lo(b) + Len(more) = s.hi + 1
  <2>. DEFINE first == s.lo
              last == s.hi
              before == Len(out)
              said == Len(texts)
              from == Lo(b)
              all == Len(more)
  <2>1. /\ first \in Nat /\ last \in Nat /\ from \in Nat /\ before \in Nat /\ said \in Nat
        /\ first = from + before /\ said = last - first + 1 /\ all = before + said
    BY <1>0, <1>1, <1>2, <1>4
  <2>. HIDE DEF first, last, before, said, from, all
  <2>2. from + all = last + 1
    BY ONLY <2>1
  <2>. QED
    BY <2>2 DEF from, all, last
<1>7. ASSUME NEW i \in 1..Len(more) PROVE more[i] \in MaySay(film, Lo(b) + i - 1)
  <2>1. CASE i \in 1..Len(out)
    BY <1>4, <2>1 DEF Whole
  <2>2. CASE i \notin 1..Len(out)
    <3>. DEFINE j == i - Len(out)
    <3>1. j \in 1..Len(texts) /\ Len(out) + j = i /\ s.lo + j - 1 = Lo(b) + i - 1
      <4>1. i \in 1..(Len(out) + Len(texts))
        BY <1>4
      <4>2. s.lo + j - 1 = Lo(b) + i - 1
        <5>. HIDE DEF s, out
        <5>. QED
          BY <1>1, <1>2
      <4>3. j \in 1..Len(texts) /\ Len(out) + j = i
        <5>. HIDE DEF s, out, more
        <5>. QED
          BY <1>0, <1>2, <2>2, <4>1
      <4>. QED
        BY <4>2, <4>3
    <3>. HIDE DEF j
    <3>2. texts[j] \in MaySay(film, s.lo + j - 1)
      BY <3>1
    <3>. QED
      BY <1>4, <3>1, <3>2
  <2>. QED
    BY <2>1, <2>2
<1>8. new \in Records(film) /\ new.todo = left /\ new.out = more /\ new.at = "segment"
  <2>1. "segment" \in Stages /\ 0 \in 0..Attempts
    BY HarnessAssumption DEF Stages
  <2>2. new = [batch EXCEPT !.todo = left, !.out = more, !.at = "segment", !.tries = 0]
    BY Zenon DEF Settled
  <2>. HIDE DEF left, more, new
  <2>. QED
    BY <1>4, <1>5, <2>1, <2>2, AllUpdated DEF Records
<1>. HIDE DEF more, left, new
<1>9. ~(b <= n)
  BY DEF Whole
<1>10. Whole(film, n, b, new)
  BY <1>5, <1>6, <1>7, <1>8, <1>9 DEF Whole
<1>. QED
  BY <1>8, <1>10 DEF new, more, out

LEMMA StagedIsWhole ==
    ASSUME NEW film, NEW n, NEW b, NEW batch \in Records(film), Whole(film, n, b, batch), batch.todo # <<>>,
           NEW new \in Records(film), new.todo = batch.todo, new.out = batch.out,
           new.at = "queued" => b \in n + 1..n + Concurrency
    PROVE  Whole(film, n, b, new)
BY DEF Whole

LEMMA SplitIsWhole ==
    ASSUME NEW film, Len(film) \in Nat, NEW n \in Nat, NEW b \in 1..NumberOf(film),
           NEW batch \in Records(film), Whole(film, n, b, batch), batch.todo # <<>>,
           Head(batch.todo).lo < Head(batch.todo).hi
    PROVE  LET new == [batch EXCEPT !.todo = Halves(Head(@)) \o Tail(@), !.at = "segment", !.tries = 0]
           IN  /\ new \in Records(film) /\ Whole(film, n, b, new)
               /\ new.out = batch.out /\ new.at = "segment"
<1>. DEFINE todo == Halves(Head(batch.todo)) \o Tail(batch.todo)
            new == [batch EXCEPT !.todo = Halves(Head(@)) \o Tail(@), !.at = "segment", !.tries = 0]
<1>1. batch.todo \in Seq(Segments) /\ batch.out \in Seq(AllTexts(film)) /\ Len(batch.out) \in Nat
  BY RecordIs
<1>2. new = [batch EXCEPT !.todo = todo, !.at = "segment", !.tries = 0]
  BY Zenon
<1>. DEFINE from == Lo(b) + Len(batch.out)
            to == Hi(film, b)
<1>3. from \in Nat /\ to \in Nat
  BY <1>1, CutIs
<1>4. todo \in Seq(Segments) /\ todo # <<>> /\ Chain(todo, from, to)
  <2>1. Chain(batch.todo, from, to)
    BY DEF Whole
  <2>. HIDE DEF from, to
  <2>. QED
    BY <1>1, <1>3, <2>1, ChainSplit
<1>5. "segment" \in Stages /\ 0 \in 0..Attempts
  BY HarnessAssumption DEF Stages
<1>. HIDE DEF todo, new
<1>6. new \in Records(film) /\ new.todo = todo /\ new.out = batch.out /\ new.at = "segment"
  BY <1>2, <1>4, <1>5, RestUpdated DEF Records
<1>8. ~(b <= n)
  BY DEF Whole
<1>9. Whole(film, n, b, new)
  BY <1>4, <1>6, <1>8 DEF Whole
<1>. QED
  BY <1>6, <1>9 DEF new


-----------------------------------------------------------------------------
(* What a response, and a step of a batch, may lead to.                    *)
LEMMA CallResultIs ==
    \A response : CallResult(response) \in {"answered", "misshapen", "retry", "refused", "credential"}
BY DEF CallResult, BodyResult, StatusResult, Retryable

(* What is known of a batch that can run, and of the cues it has in hand.  *)
LEMMA ReadyIs ==
    ASSUME Shape, NEW b, NEW stage, At(b, stage)
    PROVE  /\ active /\ Film(cues) /\ Len(cues) \in Nat /\ surfaced \in Nat
           /\ b \in 1..NumberOf(cues) /\ b \in surfaced + 1..surfaced + Concurrency
           /\ DOMAIN batches = 1..NumberOf(cues)
           /\ batches[b] \in Records(cues) /\ Whole(cues, surfaced, b, batches[b])
           /\ batches[b].todo # <<>> /\ batches[b].at = stage
<1>1. Film(cues)
  BY SourceIsFilm DEF Shape
<1>2. Len(cues) \in Nat
  BY <1>1 DEF Film
<1>. QED
  BY <1>1, <1>2 DEF Shape, RunIsWhole, At, Batches, NumberOf, InWindow

LEMMA SourcesAre ==
    ASSUME Shape, NEW b, NEW stage, At(b, stage)
    PROVE  /\ Size(b) \in Nat /\ Size(b) >= 1 /\ Size(b) = Segment(b).hi - Segment(b).lo + 1
           /\ Segment(b) = Head(batches[b].todo)
           /\ Segment(b).lo \in Nat /\ Segment(b).hi \in Nat
           /\ Segment(b).lo = Lo(b) + Len(batches[b].out)
           /\ Len(Sources(b)) = Size(b) /\ DOMAIN Sources(b) = 1..Size(b)
           /\ \A i \in 1..Size(b) : /\ Segment(b).lo + i - 1 \in 1..Len(cues)
                                   /\ Sources(b)[i] = cues[Segment(b).lo + i - 1].text
<1>1. /\ Len(cues) \in Nat /\ b \in 1..NumberOf(cues)
      /\ batches[b] \in Records(cues) /\ Whole(cues, surfaced, b, batches[b])
      /\ batches[b].todo # <<>>
  BY ReadyIs
<1>. DEFINE s == Segment(b)
<1>2. s = Head(batches[b].todo)
  BY DEF Segment
<1>3. /\ s.lo \in Nat /\ s.hi \in Nat /\ s.lo = Lo(b) + Len(batches[b].out)
      /\ 1 <= s.lo /\ s.lo <= s.hi /\ s.hi <= Len(cues)
  <2>. DEFINE batch == batches[b]
  <2>1. batch \in Records(cues) /\ Whole(cues, surfaced, b, batch) /\ batch.todo # <<>> /\ s = Head(batch.todo)
    BY <1>1, <1>2
  <2>. HIDE DEF batch, s
  <2>2. /\ s.lo \in Nat /\ s.hi \in Nat /\ s.lo = Lo(b) + Len(batch.out)
        /\ 1 <= s.lo /\ s.lo <= s.hi /\ s.hi <= Len(cues)
    BY <1>1, <2>1, HandIs
  <2>. QED
    BY <2>2 DEF batch
<1>4. Size(b) = s.hi - s.lo + 1 /\ Sources(b) = [i \in 1..(s.hi - s.lo + 1) |-> cues[s.lo + i - 1].text]
  BY DEF Size, Sources, Texts
<1>. HIDE DEF s
<1>5. Size(b) \in Nat /\ Size(b) >= 1
  BY <1>3, <1>4
<1>6. Sources(b) = [i \in 1..Size(b) |-> cues[s.lo + i - 1].text]
  BY <1>4
<1>7. Len(Sources(b)) = Size(b) /\ DOMAIN Sources(b) = 1..Size(b)
  BY <1>5, <1>6
<1>8. ASSUME NEW i \in 1..Size(b)
      PROVE  s.lo + i - 1 \in 1..Len(cues) /\ Sources(b)[i] = cues[s.lo + i - 1].text
  BY <1>1, <1>3, <1>4, <1>6
<1>. QED
  BY <1>2, <1>3, <1>4, <1>5, <1>7, <1>8 DEF s

LEMMA SayingIs ==
    ASSUME Shape, NEW c \in 1..Len(cues)
    PROVE  cues[c].text \in MaySay(cues, c) /\ MaySay(cues, c) \subseteq AllTexts(cues)
<1>1. DOMAIN cues = 1..Len(cues)
  BY SourceIsFilm DEF Shape, Film
<1>2. cues[c].text \in MaySay(cues, c)
  BY DEF MaySay, Fit
<1>. QED
  BY <1>1, <1>2 DEF AllTexts

(* Texts that may settle the segment in hand.                              *)
Settles(b, texts) ==
    /\ texts \in Seq(AllTexts(cues)) /\ Len(texts) = Size(b)
    /\ \A i \in 1..Size(b) : texts[i] \in MaySay(cues, Segment(b).lo + i - 1)

LEMMA SettlingIs ==
    ASSUME Shape, NEW b, NEW stage, At(b, stage)
    PROVE  /\ \A out : Says(cues, Sources(b), out) <=> Settles(b, out)
           /\ \A f : (\A i \in 1..Size(b) : f[i] \in Fit(Sources(b)[i]))
                        => Settles(b, [i \in 1..Size(b) |-> f[i]])
<1>. DEFINE lo == Segment(b).lo
<1>1. /\ Size(b) \in Nat /\ Len(Sources(b)) = Size(b)
      /\ \A i \in 1..Size(b) : lo + i - 1 \in 1..Len(cues) /\ Sources(b)[i] = cues[lo + i - 1].text
  BY SourcesAre
<1>. HIDE DEF lo
<1>2. \A i \in 1..Size(b) : Fit(Sources(b)[i]) = MaySay(cues, lo + i - 1)
  BY <1>1 DEF MaySay
<1>3. \A out : Says(cues, Sources(b), out) <=> Settles(b, out)
  BY <1>1, <1>2 DEF Says, Settles, lo
<1>4. ASSUME NEW f, \A i \in 1..Size(b) : f[i] \in Fit(Sources(b)[i])
      PROVE  Settles(b, [i \in 1..Size(b) |-> f[i]])
  <2>1. \A i \in 1..Size(b) : f[i] \in MaySay(cues, lo + i - 1) /\ f[i] \in AllTexts(cues)
    <3>1. \A i \in 1..Size(b) : MaySay(cues, lo + i - 1) \subseteq AllTexts(cues)
      BY <1>1, SayingIs
    <3>. QED
      BY <1>2, <1>4, <3>1
  <2>. DEFINE g == [i \in 1..Size(b) |-> f[i]]
              T == AllTexts(cues)
  <2>. HIDE DEF T
  <2>2. g \in Seq(T) /\ Len(g) = Size(b) /\ \A i \in 1..Size(b) : g[i] = f[i]
    <3>1. \A i \in 1..Size(b) : f[i] \in T
      BY <2>1 DEF T
    <3>. HIDE DEF T
    <3>. QED
      BY <1>1, <3>1
  <2>. HIDE DEF g
  <2>3. Settles(b, g)
    BY <2>1, <2>2 DEF Settles, lo, T
  <2>. QED
    BY <2>3 DEF g
<1>. QED
  BY <1>3, <1>4

(* A reply that is cleaned up settles the segment.                         *)
LEMMA ResolvedIs ==
    ASSUME Shape, NEW b, NEW stage, At(b, stage), NEW said \in RepliesTo(Sources(b))
    PROVE  Settles(b, Resolved(said, Sources(b)))
<1>1. DOMAIN Sources(b) = 1..Size(b)
  BY SourcesAre
<1>. DEFINE src == Sources(b)
            out == [i \in 1..Size(b) |-> IF BlankText(said[i]) \/ BlankText(src[i]) THEN src[i] ELSE said[i]]
<1>2. Resolved(said, src) = out
  BY <1>1 DEF Resolved
<1>3. \A i \in 1..Size(b) : said[i] \in Replies(src[i])
  BY <1>1 DEF RepliesTo
<1>. HIDE DEF src
<1>4. ASSUME NEW i \in 1..Size(b) PROVE out[i] \in Fit(src[i])
  <2>1. out[i] = IF BlankText(said[i]) \/ BlankText(src[i]) THEN src[i] ELSE said[i]
    OBVIOUS
  <2>. HIDE DEF out
  <2>. QED
    BY <1>3, <2>1 DEF Fit
<1>5. out = [i \in 1..Size(b) |-> out[i]]
  OBVIOUS
<1>. HIDE DEF out
<1>6. Settles(b, [i \in 1..Size(b) |-> out[i]])
  BY <1>4, SettlingIs DEF src
<1>. QED
  BY <1>2, <1>5, <1>6 DEF src

(* A batch's step keeps the run whole.                                     *)
LEMMA WorkKeepsShape ==
    ASSUME Shape, NEW b, NEW stage, At(b, stage), NEW new \in Records(cues), Work(b, new),
           Whole(cues, surfaced, b, new),
           \A key \in DOMAIN batchStore' : Says(cues, key, batchStore'[key])
    PROVE  Shape'
<1>1. /\ active /\ b \in 1..NumberOf(cues) /\ DOMAIN batches = 1..NumberOf(cues) /\ surfaced \in Nat
  BY ReadyIs
<1>2. /\ batches' = [batches EXCEPT ![b] = new]
      /\ UNCHANGED <<source, cues, active, surfaced, glossary, late, terms, runs, lost>>
  BY DEF Work
<1>3. /\ DOMAIN batches' = DOMAIN batches
      /\ \A c \in 1..NumberOf(cues) : batches'[c] = IF c = b THEN new ELSE batches[c]
  BY <1>1, <1>2
<1>4. RunIsWhole
  BY <1>1 DEF Shape
<1>5. RunIsWhole'
  <2>1. \A c \in 1..NumberOf(cues) : batches'[c] \in Records(cues) /\ Whole(cues, surfaced, c, batches'[c])
    BY <1>3, <1>4 DEF RunIsWhole
  <2>2. cues' = cues /\ surfaced' = surfaced
    BY <1>2
  <2>. QED
    BY <1>1, <1>3, <1>4, <2>1, <2>2 DEF RunIsWhole
<1>. QED
  BY <1>1, <1>2, <1>5 DEF Shape

(* What a step pays for the texts that settle a segment: what is dead of   *)
(* them, or the one cue whose replies kept failing.                        *)
Paid(b, texts) ==
    \/ untranslated' = untranslated + DeadCount(texts, Sources(b))
    \/ Size(b) = 1 /\ texts = Sources(b) /\ untranslated' = untranslated + 1

Settling(b, new) ==
    \E texts : /\ Settles(b, texts) /\ Paid(b, texts)
              /\ new.out = batches[b].out \o texts /\ new.at = "segment"

(* What the step of a batch comes to.                                      *)
Moves(b, new) ==
    /\ new \in Records(cues) /\ Whole(cues, surfaced, b, new) /\ Work(b, new)
    /\ Settling(b, new) \/ (new.out = batches[b].out /\ untranslated' = untranslated)
    /\ lateCalls' = lateCalls \/ (late /\ batches[b].at = "queued" /\ lateCalls' = lateCalls + 1)
    /\ batches[b].at = "queued" => new.at # "queued"
    /\ new.at = "queued" => ~late
    /\ new.at = "queued" /\ batches[b].at = "segment" => Sources(b) \notin DOMAIN batchStore

LEMMA SettledMoves ==
    ASSUME Shape, NEW b, NEW stage, stage # "queued", At(b, stage), NEW texts, Settles(b, texts), Paid(b, texts),
           Work(b, Settled(batches[b], texts)), lateCalls' = lateCalls
    PROVE  \E new : Moves(b, new)
<1>. DEFINE batch == batches[b]
            new == Settled(batch, texts)
<1>1. /\ Len(cues) \in Nat /\ surfaced \in Nat /\ b \in 1..NumberOf(cues)
      /\ batch \in Records(cues) /\ Whole(cues, surfaced, b, batch) /\ batch.todo # <<>>
  BY ReadyIs
<1>2. /\ Segment(b) = Head(batch.todo) /\ Size(b) = Segment(b).hi - Segment(b).lo + 1
  BY SourcesAre
<1>3. /\ texts \in Seq(AllTexts(cues)) /\ Len(texts) = Head(batch.todo).hi - Head(batch.todo).lo + 1
      /\ \A i \in 1..Len(texts) : texts[i] \in MaySay(cues, Head(batch.todo).lo + i - 1)
  BY <1>2 DEF Settles
<1>4. batch.at = stage
  BY DEF At
<1>. HIDE DEF batch
<1>5. /\ new \in Records(cues) /\ Whole(cues, surfaced, b, new)
      /\ new.out = batch.out \o texts /\ new.at = "segment"
  BY <1>1, <1>3, SettledIsWhole
<1>6. Work(b, new)
  BY DEF batch
<1>. HIDE DEF new
<1>7. Settling(b, new)
  BY <1>5 DEF Settling, batch
<1>. QED
  BY <1>4, <1>5, <1>6, <1>7 DEF Moves, batch

LEMMA StagedMoves ==
    ASSUME Shape, NEW b, NEW stage, At(b, stage), NEW new \in Records(cues), Work(b, new),
           new.todo = batches[b].todo, new.out = batches[b].out, untranslated' = untranslated,
           lateCalls' = lateCalls \/ (late /\ stage = "queued" /\ lateCalls' = lateCalls + 1),
           new.at = "queued" => ~late /\ stage # "queued",
           new.at = "queued" /\ stage = "segment" => Sources(b) \notin DOMAIN batchStore
    PROVE  \E n : Moves(b, n)
<1>1. /\ batches[b] \in Records(cues) /\ Whole(cues, surfaced, b, batches[b]) /\ batches[b].todo # <<>>
      /\ b \in surfaced + 1..surfaced + Concurrency
  BY ReadyIs
<1>2. Whole(cues, surfaced, b, new)
  BY <1>1, StagedIsWhole
<1>3. batches[b].at = stage
  BY DEF At
<1>4. Moves(b, new)
  BY <1>2, <1>3 DEF Moves
<1>. QED
  BY <1>4


-----------------------------------------------------------------------------
(* A step of a batch moves that batch alone, and leaves it whole.          *)
LEMMA StepMoves ==
    ASSUME Shape, NEW b, Step(b)
    PROVE  \E new : Moves(b, new)
<1>. DEFINE batch == batches[b]
            Recs == Records(cues)
<1>0. {"segment", "queued", "calling", "late", "refused", "credential"} = Stages /\ 1 \in 0..Attempts
  BY HarnessAssumption DEF Stages, Failures
<1>2. ASSUME NEW stage, At(b, stage), NEW at \in Stages, Work(b, [batch EXCEPT !.at = at]), at # "queued",
             untranslated' = untranslated,
             lateCalls' = lateCalls \/ (late /\ stage = "queued" /\ lateCalls' = lateCalls + 1)
      PROVE  \E new : Moves(b, new)
  <2>. DEFINE new == [batch EXCEPT !.at = at]
  <2>1. batch \in Records(cues)
    BY <1>2, ReadyIs
  <2>2. new \in Records(cues) /\ new.todo = batch.todo /\ new.out = batch.out /\ new.at = at
    <3>. HIDE DEF batch
    <3>. QED
      BY <2>1, AtUpdated DEF Records
  <2>. HIDE DEF new
  <2>3. Work(b, new)
    BY <1>2 DEF new
  <2>. QED
    BY <1>2, <2>2, <2>3, StagedMoves
<1>3. ASSUME NEW stage, At(b, stage), NEW tries \in 0..Attempts,
             Work(b, [batch EXCEPT !.at = "queued", !.tries = tries]),
             untranslated' = untranslated, lateCalls' = lateCalls, ~late, stage # "queued",
             stage = "segment" => Sources(b) \notin DOMAIN batchStore
      PROVE  \E new : Moves(b, new)
  <2>. DEFINE new == [batch EXCEPT !.at = "queued", !.tries = tries]
  <2>1. batch \in Records(cues) /\ "queued" \in Stages
    BY <1>0, <1>3, ReadyIs
  <2>2. new \in Records(cues) /\ new.todo = batch.todo /\ new.out = batch.out
    <3>. HIDE DEF batch
    <3>. QED
      BY <2>1, StageUpdated DEF Records
  <2>. HIDE DEF new
  <2>3. Work(b, new)
    BY <1>3 DEF new
  <2>. QED
    BY <1>3, <2>2, <2>3, StagedMoves
<1>4. CASE Replay(b)
  <2>0. \A key \in DOMAIN batchStore : Says(cues, key, batchStore[key])
    BY DEF Shape
  <2>1. /\ At(b, "segment") /\ Sources(b) \in DOMAIN batchStore /\ lateCalls' = lateCalls
        /\ Work(b, Settled(batch, batchStore[Sources(b)]))
    BY <1>4 DEF Replay
  <2>2. Settles(b, batchStore[Sources(b)])
    BY <2>0, <2>1, SettlingIs
  <2>3. Paid(b, batchStore[Sources(b)])
    BY <1>4 DEF Replay, Paid
  <2>. DEFINE texts == batchStore[Sources(b)]
  <2>4. Settles(b, texts) /\ Paid(b, texts) /\ Work(b, Settled(batches[b], texts))
    BY <2>1, <2>2, <2>3
  <2>. HIDE DEF texts
  <2>5. At(b, "segment") /\ lateCalls' = lateCalls /\ "segment" # "queued"
    BY <2>1
  <2>. QED
    BY ONLY Shape, <2>4, <2>5, SettledMoves
<1>5. CASE OutOfTime(b)
  <2>1. At(b, "segment") /\ Work(b, [batch EXCEPT !.at = "late"]) /\ untranslated' = untranslated /\ lateCalls' = lateCalls
    BY <1>5 DEF OutOfTime, Stop
  <2>. QED
    BY <1>0, <1>2, <2>1
<1>6. CASE Dispatch(b)
  <2>1. /\ At(b, "segment") /\ Work(b, [batch EXCEPT !.at = "queued", !.tries = 1])
        /\ untranslated' = untranslated /\ lateCalls' = lateCalls /\ ~late /\ Sources(b) \notin DOMAIN batchStore
    BY <1>6 DEF Dispatch
  <2>. DEFINE tries == 1
  <2>2. tries \in 0..Attempts /\ Work(b, [batch EXCEPT !.at = "queued", !.tries = tries])
    BY <1>0, <2>1
  <2>. HIDE DEF tries
  <2>3. "segment" # "queued"
    OBVIOUS
  <2>. QED
    BY <1>3, <2>1, <2>2, <2>3
<1>7. CASE Call(b)
  <2>1. /\ At(b, "queued") /\ Work(b, [batch EXCEPT !.at = "calling"]) /\ untranslated' = untranslated
        /\ lateCalls' = lateCalls \/ (late /\ lateCalls' = lateCalls + 1)
    BY <1>7 DEF Call
  <2>. QED
    BY <1>0, <1>2, <2>1
<1>8. CASE HeldOff(b)
  <2>1. At(b, "queued") /\ Work(b, [batch EXCEPT !.at = "refused"]) /\ untranslated' = untranslated /\ lateCalls' = lateCalls
    BY <1>8 DEF HeldOff, Stop
  <2>. QED
    BY <1>0, <1>2, <2>1
<1>9. CASE Answered(b)
  <2>1. At(b, "calling") /\ lateCalls' = lateCalls
    BY <1>9 DEF Answered
  <2>2. PICK said \in RepliesTo(Sources(b)) :
          LET out == Resolved(said, Sources(b))
          IN  /\ untranslated' = untranslated + DeadCount(out, Sources(b))
              /\ Work(b, Settled(batches[b], out))
    BY <1>9 DEF Answered
  <2>. DEFINE out == Resolved(said, Sources(b))
  <2>3. Settles(b, out)
    BY <2>1, ResolvedIs
  <2>4. Paid(b, out) /\ Work(b, Settled(batches[b], out))
    BY <2>2 DEF Paid
  <2>. HIDE DEF out
  <2>. QED
    BY <2>1, <2>3, <2>4, SettledMoves
<1>10. CASE WrongShape(b)
  <2>1. At(b, "calling") /\ lateCalls' = lateCalls /\ batches[b].at = "calling"
    BY <1>10 DEF WrongShape, At
  <2>2. CASE Size(b) > 1
    <3>. DEFINE new == [batch EXCEPT !.todo = Halves(Head(@)) \o Tail(@), !.at = "segment", !.tries = 0]
    <3>1. Work(b, new) /\ untranslated' = untranslated
      BY <1>10, <2>2 DEF WrongShape
    <3>2. /\ Len(cues) \in Nat /\ surfaced \in Nat /\ b \in 1..NumberOf(cues)
          /\ batch \in Records(cues) /\ Whole(cues, surfaced, b, batch) /\ batch.todo # <<>>
      BY <2>1, ReadyIs
    <3>3. Head(batch.todo).lo < Head(batch.todo).hi
      <4>1. /\ Segment(b) = Head(batch.todo) /\ Size(b) = Segment(b).hi - Segment(b).lo + 1
            /\ Segment(b).lo \in Nat /\ Segment(b).hi \in Nat
        BY <2>1, SourcesAre
      <4>. QED
        BY <2>2, <4>1
    <3>. HIDE DEF batch
    <3>4. /\ new \in Records(cues) /\ Whole(cues, surfaced, b, new)
          /\ new.out = batch.out /\ new.at = "segment"
      BY <3>2, <3>3, SplitIsWhole
    <3>. HIDE DEF new
    <3>5. Moves(b, new)
      BY <2>1, <3>1, <3>4 DEF Moves, batch
    <3>. QED
      BY <3>5
  <2>3. CASE ~(Size(b) > 1)
    <3>1. Work(b, Settled(batches[b], Sources(b))) /\ untranslated' = untranslated + Size(b)
      BY <1>10, <2>3 DEF WrongShape
    <3>0. Size(b) = 1
      BY <2>1, <2>3, SourcesAre
    <3>5. Paid(b, Sources(b))
      BY <3>0, <3>1 DEF Paid
    <3>2. Settles(b, [i \in 1..Size(b) |-> Sources(b)[i]])
      BY <2>1, SettlingIs DEF Fit
    <3>3. Sources(b) = [i \in 1..Size(b) |-> Sources(b)[i]]
      BY DEF Sources, Texts, Size
    <3>4. Settles(b, Sources(b))
      BY <3>2, <3>3
    <3>. QED
      BY <2>1, <3>1, <3>4, <3>5, SettledMoves
  <2>. QED
    BY <2>2, <2>3
<1>11. CASE Retry(b)
  <2>1. /\ At(b, "calling") /\ batch.tries < Attempts
        /\ untranslated' = untranslated /\ lateCalls' = lateCalls /\ ~late
        /\ Work(b, [batch EXCEPT !.at = "queued", !.tries = @ + 1])
    BY <1>11 DEF Retry
  <2>2. batch.tries + 1 \in 0..Attempts
    <3>1. batch \in Records(cues)
      BY <2>1, ReadyIs
    <3>2. batch.tries \in 0..Attempts
      <4>. HIDE DEF batch
      <4>. QED
        BY <3>1, RecordIs
    <3>. HIDE DEF batch
    <3>. QED
      BY <2>1, <3>2, HarnessAssumption
  <2>3. Work(b, [batch EXCEPT !.at = "queued", !.tries = batch.tries + 1])
    BY <2>1
  <2>. DEFINE tries == batch.tries + 1
  <2>4. tries \in 0..Attempts /\ Work(b, [batch EXCEPT !.at = "queued", !.tries = tries])
    BY <2>2, <2>3
  <2>. HIDE DEF tries
  <2>5. /\ At(b, "calling") /\ "calling" # "queued" /\ "calling" # "segment"
        /\ untranslated' = untranslated /\ lateCalls' = lateCalls /\ ~late
    BY <2>1
  <2>. QED
    BY <1>3, <2>4, <2>5
<1>12. CASE Refused(b)
  <2>1. At(b, "calling") /\ untranslated' = untranslated /\ lateCalls' = lateCalls
    BY <1>12 DEF Refused
  <2>2. PICK why \in Outcomes \ {"answered", "misshapen"} :
          Work(b, [batch EXCEPT !.at = IF why = "retry" THEN "refused" ELSE why])
    BY <1>12 DEF Refused, Stop
  <2>3. why \in {"retry", "refused", "credential"}
    BY CallResultIs DEF Outcomes
  <2>4. (IF why = "retry" THEN "refused" ELSE why) \in Stages \ {"queued"}
    BY <1>0, <2>3
  <2>. QED
    BY <1>2, <2>1, <2>2, <2>4
<1>. QED
  BY <1>4, <1>5, <1>6, <1>7, <1>8, <1>9, <1>10, <1>11, <1>12 DEF Step


(* The store after the step of a batch: only more is in it, all of it of   *)
(* the right shape, and all that is bought is.                             *)
LEMMA StepFillsStore ==
    ASSUME Shape, NEW b, Step(b)
    PROVE  /\ \A key \in DOMAIN batchStore' : Says(cues, key, batchStore'[key])
           /\ DOMAIN batchStore \subseteq DOMAIN batchStore'
           /\ bought \subseteq bought' /\ bought' \subseteq bought \cup DOMAIN batchStore'
           /\ owned' = owned
<1>1. \A key \in DOMAIN batchStore : Says(cues, key, batchStore[key])
  BY DEF Shape
<1>2. CASE batchStore' = batchStore /\ bought' = bought /\ owned' = owned
  BY <1>1, <1>2
<1>3. CASE Answered(b)
  <2>1. At(b, "calling")
    BY <1>3 DEF Answered
  <2>2. PICK said \in RepliesTo(Sources(b)) :
          LET out == Resolved(said, Sources(b))
          IN  /\ batchStore' = [key \in DOMAIN batchStore \cup {Sources(b)} |->
                                  IF key = Sources(b) THEN out ELSE batchStore[key]]
              /\ Work(b, Settled(batches[b], out))
    BY <1>3 DEF Answered
  <2>. DEFINE out == Resolved(said, Sources(b))
  <2>3. Settles(b, out)
    BY <2>1, ResolvedIs
  <2>4. /\ batchStore' = [key \in DOMAIN batchStore \cup {Sources(b)} |->
                            IF key = Sources(b) THEN out ELSE batchStore[key]]
        /\ Work(b, Settled(batches[b], out))
    BY <2>2
  <2>. HIDE DEF out
  <2>5. Says(cues, Sources(b), out)
    BY <2>1, <2>3, SettlingIs
  <2>6. DOMAIN batchStore' = DOMAIN batchStore \cup {Sources(b)}
    BY <2>4
  <2>7. \A key \in DOMAIN batchStore' : Says(cues, key, batchStore'[key])
    BY <1>1, <2>4, <2>5, <2>6
  <2>8. bought' = bought \cup {Sources(b)} /\ owned' = owned
    BY <1>3, <2>4 DEF Answered, Work
  <2>. QED
    BY <2>6, <2>7, <2>8
<1>. QED
  BY <1>2, <1>3 DEF Step, Replay, OutOfTime, Dispatch, Call, HeldOff, WrongShape, Retry, Refused, Work

LEMMA StepKeepsShape ==
    ASSUME Shape, NEW b, Step(b)
    PROVE  Shape'
<1>1. PICK new : Moves(b, new)
  BY StepMoves
<1>2. PICK stage : At(b, stage)
  BY DEF Step, Replay, OutOfTime, Dispatch, Call, HeldOff, Answered, WrongShape, Retry, Refused
<1>. QED
  BY <1>1, <1>2, StepFillsStore, WorkKeepsShape DEF Moves

-----------------------------------------------------------------------------
(* A new batch has all its cues before it.                                 *)
LEMMA NewIsWhole ==
    ASSUME NEW film, Len(film) \in Nat, NEW b \in 1..NumberOf(film), NEW new,
           new = [todo |-> <<[lo |-> Lo(b), hi |-> Hi(film, b)]>>, out |-> <<>>, at |-> "segment", tries |-> 0]
    PROVE  new \in Records(film) /\ Whole(film, 0, b, new)
<1>. DEFINE s == [lo |-> Lo(b), hi |-> Hi(film, b)]
            todo == <<s>>
<1>1. /\ Lo(b) \in Nat /\ Hi(film, b) \in Nat /\ Lo(b) <= Hi(film, b) /\ b \in Nat /\ b > 0
  BY CutIs
<1>2. s \in Segments /\ s.lo = Lo(b) /\ s.hi = Hi(film, b)
  BY <1>1 DEF Segments
<1>. HIDE DEF s
<1>3. todo \in Seq(Segments) /\ Len(todo) = 1 /\ todo[1] = s /\ todo # <<>>
  BY <1>2
<1>. HIDE DEF todo
<1>4. "segment" \in Stages /\ 0 \in 0..Attempts
  BY HarnessAssumption DEF Stages
<1>5. new = [todo |-> todo, out |-> <<>>, at |-> "segment", tries |-> 0]
  BY DEF todo, s
<1>6. new \in Records(film)
  BY <1>3, <1>4, <1>5 DEF Records
<1>7. new.todo = todo /\ new.out = <<>> /\ new.at = "segment" /\ Len(new.out) = 0
  BY <1>5
<1>8. Chain(todo, Lo(b), Hi(film, b))
  BY <1>1, <1>2, <1>3 DEF Chain
<1>9. Lo(b) + 0 = Lo(b)
  BY <1>1
<1>10. ~(b <= 0)
  BY <1>1
<1>. QED
  BY <1>3, <1>6, <1>7, <1>8, <1>9, <1>10 DEF Whole

LEMMA BeginMakesWhole ==
    ASSUME Shape, cues # <<>>, Begin, cues' = cues, surfaced = 0
    PROVE  RunIsWhole'
<1>1. Film(cues) /\ Len(cues) \in Nat
  BY SourceIsFilm DEF Shape, Film
<1>2. Len(cues) > 0
  BY <1>1 DEF Film
<1>3. NumberOf(cues) \in Nat /\ NumberOf(cues) > 0
  BY <1>1, <1>2, CutIs
<1>4. batches' = [b \in 1..NumberOf(cues) |-> NewBatch(b)] /\ surfaced' = 0
  BY DEF Begin, Batches, NumberOf
<1>5. ASSUME NEW b \in 1..NumberOf(cues)
      PROVE  batches'[b] \in Records(cues) /\ Whole(cues, 0, b, batches'[b])
  <2>1. batches'[b] = [todo |-> <<[lo |-> Lo(b), hi |-> Hi(cues, b)]>>, out |-> <<>>, at |-> "segment", tries |-> 0]
    BY <1>4 DEF NewBatch, FirstSegment, Lo, Hi
  <2>. QED
    BY <1>1, <2>1, NewIsWhole
<1>6. 0 \in Nat /\ 0 + 1 \in 1..NumberOf(cues)
  BY <1>3
<1>. QED
  BY <1>4, <1>5, <1>6 DEF RunIsWhole

LEMMA InitMakesShape == HarnessInit => Shape
<1>. SUFFICES ASSUME HarnessInit PROVE Shape
  OBVIOUS
<1>1. 0 \in 0..MaxRuns /\ 0 \in 0..MaxLost
  BY HarnessAssumption
<1>2. DOMAIN batchStore = {}
  BY DEF HarnessInit
<1>. QED
  BY <1>1, <1>2 DEF HarnessInit, Idle, Shape, IdleRun

LEMMA EndsKeepsShape ==
    ASSUME Shape, NEW how, Ends(how), UNCHANGED <<source, cues, runs>>, terms' \in BOOLEAN,
           lost' \in 0..MaxLost, \A key \in DOMAIN batchStore' : Says(cues, key, batchStore'[key])
    PROVE  Shape'
BY DEF Shape, Ends, IdleRun

LEMMA NextKeepsShape == Shape /\ [HarnessNext]_harnessVars => Shape'
<1>. SUFFICES ASSUME Shape, [HarnessNext]_harnessVars PROVE Shape'
  OBVIOUS
<1>1. \A key \in DOMAIN batchStore : Says(cues, key, batchStore[key])
  BY DEF Shape
<1>2. CASE Start
  <2>1. /\ ~active /\ runs < MaxRuns /\ runs' = runs + 1
        /\ UNCHANGED <<source, cues, batchStore, terms, lost, lateCalls>>
    BY <1>2 DEF Start
  <2>2. runs' \in 0..MaxRuns
    BY <2>1, HarnessAssumption DEF Shape
  <2>3. CASE cues = <<>>
    <3>1. UNCHANGED <<active, batches, surfaced, glossary, untranslated, late>>
      BY <1>2, <2>3 DEF Start, runVars
    <3>. QED
      BY <2>1, <2>2, <3>1 DEF Shape, IdleRun
  <2>4. CASE cues # <<>>
    <3>1. Begin
      BY <1>2, <2>4 DEF Start
    <3>2. RunIsWhole'
      BY <2>1, <2>4, <3>1, BeginMakesWhole DEF Shape, IdleRun
    <3>. QED
      BY <2>1, <2>2, <3>1, <3>2 DEF Shape, Begin
  <2>. QED
    BY <2>3, <2>4
<1>3. CASE Glossary
  <2>1. terms' \in BOOLEAN
    <3>1. terms' \in GlossaryReplies
      BY <1>3 DEF Glossary
    <3>2. GlossaryReplies \subseteq BOOLEAN
      BY DEF GlossaryReplies, KeepsTerm
    <3>. QED
      BY <3>1, <3>2
  <2>2. UNCHANGED <<source, cues, active, batches, surfaced, late, batchStore, runs, lost>> /\ glossary' = TRUE
        /\ active
    BY <1>3 DEF Glossary
  <2>. QED
    BY <2>1, <2>2 DEF Shape, RunIsWhole
<1>4. CASE Surface
  <2>1. UNCHANGED <<source, cues, batchStore, terms, runs, lost>> /\ active
    BY <1>4 DEF Surface
  <2>2. ASSUME NEW how, Ends(how) PROVE Shape'
    <3>1. terms' \in BOOLEAN /\ lost' \in 0..MaxLost
      BY <2>1 DEF Shape
    <3>. QED
      BY <1>1, <2>1, <2>2, <3>1, EndsKeepsShape
  <2>3. ASSUME Finished(surfaced + 1), surfaced + 1 + 1 \in Batches, surfaced' = surfaced + 1,
               UNCHANGED <<active, batches, glossary, untranslated, late>>
        PROVE  Shape'
    <3>1. RunIsWhole
      BY <2>1 DEF Shape
    <3>2. surfaced \in Nat /\ surfaced + 1 \in 1..NumberOf(cues)
      BY <3>1 DEF RunIsWhole
    <3>3. surfaced' \in Nat /\ surfaced' + 1 \in 1..NumberOf(cues)
      BY <2>3, <3>2 DEF Batches, NumberOf
    <3>4. ASSUME NEW b \in 1..NumberOf(cues) PROVE Whole(cues, surfaced + 1, b, batches[b])
      <4>1. Whole(cues, surfaced, b, batches[b])
        BY <3>1 DEF RunIsWhole
      <4>2. b = surfaced + 1 => batches[b].todo = <<>>
        BY <2>3 DEF Finished
      <4>3. b <= surfaced + 1 => b <= surfaced \/ b = surfaced + 1
        BY <3>2
      <4>4. batches[b].at = "queued" => b \in surfaced + 1 + 1..surfaced + 1 + Concurrency
        <5>. SUFFICES ASSUME batches[b].at = "queued" PROVE b \in surfaced + 1 + 1..surfaced + 1 + Concurrency
          OBVIOUS
        <5>1. b \in surfaced + 1..surfaced + Concurrency /\ batches[b].todo # <<>>
          BY <4>1 DEF Whole
        <5>2. b # surfaced + 1
          BY <4>2, <5>1
        <5>. QED
          BY <3>2, <5>1, <5>2, HarnessAssumption
      <4>. QED
        BY <4>1, <4>2, <4>3, <4>4 DEF Whole
    <3>5. RunIsWhole'
      BY <2>1, <2>3, <3>1, <3>3, <3>4 DEF RunIsWhole
    <3>. QED
      BY <2>1, <2>3, <3>5 DEF Shape
  <2>. QED
    BY <1>4, <2>2, <2>3, Zenon DEF Surface
<1>5. CASE Deadline
  BY <1>5 DEF Deadline, Shape, RunIsWhole
<1>6. CASE \E b \in Batches : Step(b)
  BY <1>6, StepKeepsShape
<1>7. CASE HangUp
  BY <1>1, <1>7, EndsKeepsShape DEF HangUp, Shape
<1>8. CASE Restart
  <2>1. lost' \in 0..MaxLost
    BY <1>8, HarnessAssumption DEF Restart, Shape
  <2>2. Ends("none") /\ batchStore' = <<>> /\ terms' = FALSE /\ UNCHANGED <<source, cues, runs>>
    BY <1>8 DEF Restart
  <2>3. DOMAIN batchStore' = {}
    BY <2>2
  <2>. QED
    BY <2>1, <2>2, <2>3, EndsKeepsShape
<1>9. CASE Forget
  <2>1. lost' \in 0..MaxLost
    BY <1>9, HarnessAssumption DEF Forget, Shape
  <2>2. PICK key \in DOMAIN batchStore : batchStore' = [k \in DOMAIN batchStore \ {key} |-> batchStore[k]]
    BY <1>9 DEF Forget
  <2>3. UNCHANGED <<source, cues, active, batches, surfaced, glossary, untranslated, late, terms, runs, lateCalls>>
    BY <1>9 DEF Forget, runVars
  <2>4. \A k \in DOMAIN batchStore' : Says(cues, k, batchStore'[k])
    BY <1>1, <2>2
  <2>. QED
    BY <2>1, <2>3, <2>4 DEF Shape, RunIsWhole, IdleRun
<1>10. CASE UNCHANGED harnessVars
  BY <1>10 DEF harnessVars, runVars, history, Shape, RunIsWhole, IdleRun
<1>. QED
  BY <1>2, <1>3, <1>4, <1>5, <1>6, <1>7, <1>8, <1>9, <1>10 DEF HarnessNext


-----------------------------------------------------------------------------
(* What a step of one batch leaves of them all.                            *)
LEMMA MovedIs ==
    ASSUME Shape, NEW b, Step(b), NEW new, Moves(b, new)
    PROVE  /\ active /\ active' = active /\ late' = late /\ surfaced' = surfaced /\ cues' = cues
           /\ DOMAIN batches = 1..NumberOf(cues) /\ DOMAIN batches' = DOMAIN batches
           /\ b \in 1..NumberOf(cues)
           /\ \A c \in 1..NumberOf(cues) : batches'[c] = IF c = b THEN new ELSE batches[c]
<1>1. PICK stage : At(b, stage)
  BY DEF Step, Replay, OutOfTime, Dispatch, Call, HeldOff, Answered, WrongShape, Retry, Refused
<1>2. active /\ b \in 1..NumberOf(cues) /\ DOMAIN batches = 1..NumberOf(cues)
  BY <1>1, ReadyIs
<1>3. batches' = [batches EXCEPT ![b] = new] /\ UNCHANGED <<active, late, surfaced, cues>>
  BY DEF Moves, Work
<1>. QED
  BY <1>2, <1>3

(* The actions that are no step of a batch leave the batches be, or end    *)
(* the run, or begin one.                                                  *)
LEMMA OthersAre ==
    ASSUME Shape, HarnessNext, ~\E b \in Batches : Step(b)
    PROVE  \/ batches' = batches
           \/ batches' = <<>> /\ ~active' /\ surfaced' = 0 /\ untranslated' = 0 /\ late' = FALSE /\ lateCalls' = 0
           \/ ~active /\ batches = <<>> /\ Begin /\ Start /\ cues' = cues /\ cues # <<>>
BY Zenon DEF HarnessNext, Start, Glossary, Surface, Deadline, HangUp, Restart, Forget, Ends, Shape, IdleRun, runVars

-----------------------------------------------------------------------------
(* What a run takes to be bought is held by the store.                     *)
LEMMA StillHeldIsKept == Shape /\ StillHeld /\ [HarnessNext]_harnessVars => StillHeld'
<1>. SUFFICES ASSUME Shape, StillHeld, [HarnessNext]_harnessVars PROVE StillHeld'
  OBVIOUS
<1>1. CASE \E b \in Batches : Step(b)
  <2>1. PICK b : Step(b)
    BY <1>1
  <2>. QED
    BY <2>1, StepFillsStore DEF StillHeld
<1>2. CASE Restart
  BY <1>2 DEF Restart, StillHeld
<1>3. CASE Forget
  <2>1. PICK key \in DOMAIN batchStore :
          /\ batchStore' = [k \in DOMAIN batchStore \ {key} |-> batchStore[k]]
          /\ bought' = bought \ {key} /\ owned' = owned \ {key}
    BY <1>3 DEF Forget
  <2>2. DOMAIN batchStore' = DOMAIN batchStore \ {key}
    BY <2>1
  <2>. QED
    BY <2>1, <2>2 DEF StillHeld
<1>4. CASE Start
  BY <1>4 DEF Start, StillHeld
<1>5. CASE Glossary \/ Surface \/ Deadline \/ HangUp \/ UNCHANGED harnessVars
  BY <1>5 DEF Glossary, Surface, Deadline, HangUp, harnessVars, history, StillHeld
<1>. QED
  BY <1>1, <1>2, <1>3, <1>4, <1>5 DEF HarnessNext

LEMMA NothingTwice ==
    ASSUME Shape, StillHeld, [HarnessNext]_harnessVars,
           NEW c \in DOMAIN batches \cap DOMAIN batches',
           batches[c].at = "segment", batches'[c].at = "queued"
    PROVE  Sources(c) \notin owned
<1>1. CASE \E b \in Batches : Step(b)
  <2>1. PICK b : Step(b)
    BY <1>1
  <2>2. PICK new : Moves(b, new)
    BY <2>1, StepMoves
  <2>3. batches'[c] = IF c = b THEN new ELSE batches[c]
    BY <2>1, <2>2, MovedIs
  <2>4. c = b /\ new.at = "queued"
    BY <2>3
  <2>. QED
    BY <2>2, <2>4 DEF Moves, StillHeld
<1>2. batches' # batches
  OBVIOUS
<1>3. CASE HarnessNext /\ ~\E b \in Batches : Step(b)
  <2>1. DOMAIN <<>> = {}
    OBVIOUS
  <2>. QED
    BY <1>2, <1>3, <2>1, OthersAre
<1>4. ~UNCHANGED harnessVars
  BY <1>2 DEF harnessVars, runVars
<1>. QED
  BY <1>1, <1>3, <1>4

-----------------------------------------------------------------------------
(* Past the deadline, what has gone out and what waits to go fit in the    *)
(* window together.                                                        *)
LEMMA QueuedIsFew ==
    ASSUME Shape, active
    PROVE  IsFiniteSet(Queued) /\ Cardinality(Queued) \in Nat /\ Cardinality(Queued) <= Concurrency
<1>1. surfaced \in Nat
  BY DEF Shape, RunIsWhole
<1>2. Queued \subseteq surfaced + 1..surfaced + Concurrency
  BY DEF Queued, Shape, RunIsWhole, Whole, Batches, NumberOf
<1>3. Concurrency \in Nat
  BY HarnessAssumption
<1>. DEFINE W == surfaced + 1..surfaced + Concurrency
<1>4. IsFiniteSet(W) /\ Cardinality(W) = Concurrency
  BY <1>1, <1>3, FS_Interval
<1>. QED
  BY <1>2, <1>3, <1>4, FS_Subset, FS_CardinalityType

LEMMA FewLateIsKept == Shape /\ FewLate /\ [HarnessNext]_harnessVars => FewLate'
<1>. SUFFICES ASSUME Shape, FewLate, [HarnessNext]_harnessVars PROVE FewLate'
  OBVIOUS
<1>1. CASE \E b \in Batches : Step(b)
  <2>1. PICK b : Step(b)
    BY <1>1
  <2>2. PICK new : Moves(b, new)
    BY <2>1, StepMoves
  <2>3. /\ active /\ active' = active /\ late' = late /\ cues' = cues /\ b \in 1..NumberOf(cues)
        /\ \A c \in 1..NumberOf(cues) : batches'[c] = IF c = b THEN new ELSE batches[c]
    BY <2>1, <2>2, MovedIs
  <2>4. Batches = 1..NumberOf(cues) /\ Batches' = Batches
    BY <2>3 DEF Batches, NumberOf
  <2>5. CASE ~late
    BY <2>2, <2>3, <2>5 DEF FewLate, Moves
  <2>6. CASE late
    <3>1. new.at # "queued"
      BY <2>2, <2>6 DEF Moves
    <3>2. Queued' \subseteq Queued \ {b}
      BY <2>3, <2>4, <3>1 DEF Queued
    <3>3. IsFiniteSet(Queued) /\ Cardinality(Queued) \in Nat
      BY <2>3, QueuedIsFew
    <3>4. /\ IsFiniteSet(Queued \ {b})
          /\ Cardinality(Queued \ {b}) = IF b \in Queued THEN Cardinality(Queued) - 1 ELSE Cardinality(Queued)
      BY <3>3, FS_RemoveElement
    <3>5. Cardinality(Queued') \in Nat /\ Cardinality(Queued') <= Cardinality(Queued \ {b})
      <4>. DEFINE A == Queued'
                  B == Queued \ {b}
      <4>. HIDE DEF A, B
      <4>1. A \subseteq B /\ IsFiniteSet(B)
        BY <3>2, <3>4 DEF A, B
      <4>2. IsFiniteSet(A) /\ Cardinality(A) <= Cardinality(B)
        BY <4>1, FS_Subset
      <4>3. Cardinality(A) \in Nat
        BY <4>2, FS_CardinalityType
      <4>. QED
        BY <4>2, <4>3 DEF A, B
    <3>6. \/ lateCalls' = lateCalls
          \/ b \in Queued /\ lateCalls' = lateCalls + 1
      BY <2>2, <2>3, <2>4 DEF Moves, Queued
    <3>7. lateCalls \in Nat /\ lateCalls + Cardinality(Queued) <= Concurrency
      BY <2>3, <2>6 DEF FewLate
    <3>8. lateCalls' \in Nat /\ lateCalls' + Cardinality(Queued') <= Concurrency
      BY <3>3, <3>4, <3>5, <3>6, <3>7, HarnessAssumption
    <3>. QED
      BY <2>3, <2>6, <3>8 DEF FewLate
  <2>. QED
    BY <2>5, <2>6
<1>2. CASE Deadline
  <2>1. active /\ ~late /\ UNCHANGED <<active, cues, batches, lateCalls>>
    BY <1>2 DEF Deadline, history
  <2>2. lateCalls = 0 /\ Queued' = Queued
    BY <2>1 DEF FewLate, Queued, Batches
  <2>3. Cardinality(Queued) <= Concurrency /\ Cardinality(Queued) \in Nat
    BY <2>1, QueuedIsFew
  <2>. QED
    BY <2>1, <2>2, <2>3 DEF FewLate
<1>3. CASE Start
  BY <1>3 DEF Start, Begin, FewLate, Shape, IdleRun, runVars
<1>4. ASSUME UNCHANGED <<active, cues, batches, late, lateCalls>> PROVE FewLate'
  <2>1. Queued' = Queued
    BY <1>4 DEF Queued, Batches
  <2>. QED
    BY <1>4, <2>1 DEF FewLate
<1>5. CASE Glossary
  BY <1>4, <1>5 DEF Glossary, history
<1>6. ASSUME NEW how, Ends(how) PROVE FewLate'
  BY <1>6 DEF Ends, FewLate
<1>7. CASE Surface
  BY <1>4, <1>6, <1>7, Zenon DEF Surface
<1>8. CASE HangUp \/ Restart
  BY <1>6, <1>8 DEF HangUp, Restart
<1>9. CASE Forget
  BY <1>4, <1>9 DEF Forget, runVars
<1>10. CASE UNCHANGED harnessVars
  BY <1>4, <1>10 DEF harnessVars, runVars, history
<1>. QED
  BY <1>1, <1>2, <1>3, <1>5, <1>7, <1>8, <1>9, <1>10 DEF HarnessNext


-----------------------------------------------------------------------------
(* The cues of one batch that its texts echo, and those of all batches.    *)
Same(film, b, out) ==
    {c \in 1..Len(film) : c - Lo(b) + 1 \in 1..Len(out) /\ Echoes(out[c - Lo(b) + 1], film[c].text)}

SameInAll(film, bs) ==
    {c \in DOMAIN film :
        \E b \in 1..NumberOf(film), i \in 1..Batch :
            /\ c = (b - 1) * Batch + i /\ i \in DOMAIN bs[b].out
            /\ Echoes(bs[b].out[i], film[c].text)}

AllWhole(film, n, bs) ==
    \A b \in 1..NumberOf(film) : bs[b] \in Records(film) /\ Whole(film, n, b, bs[b])

(* A batch says at most what its cues are.                                 *)
LEMMA WholeFits ==
    ASSUME NEW film, Len(film) \in Nat, NEW n, NEW b \in 1..NumberOf(film),
           NEW batch \in Records(film), Whole(film, n, b, batch)
    PROVE  /\ Len(batch.out) \in Nat /\ Len(batch.out) <= Batch /\ DOMAIN batch.out = 1..Len(batch.out)
           /\ Lo(b) + Len(batch.out) <= Hi(film, b) + 1
           /\ batch.todo = <<>> => Lo(b) + Len(batch.out) = Hi(film, b) + 1
<1>1. /\ Lo(b) \in Nat /\ Hi(film, b) \in Nat /\ Hi(film, b) - Lo(b) < Batch
  BY CutIs
<1>2. batch.todo \in Seq(Segments) /\ Len(batch.out) \in Nat /\ batch.out \in Seq(AllTexts(film))
  BY RecordIs
<1>3. Chain(batch.todo, Lo(b) + Len(batch.out), Hi(film, b))
  BY DEF Whole
<1>. DEFINE from == Lo(b) + Len(batch.out)
            to == Hi(film, b)
<1>4. from \in Nat /\ to \in Nat
  BY <1>1, <1>2
<1>5. batch.todo = <<>> => from = to + 1
  BY <1>3 DEF Chain
<1>6. batch.todo # <<>> => from <= to
  <2>. SUFFICES ASSUME batch.todo # <<>> PROVE from <= to
    OBVIOUS
  <2>. DEFINE h == Head(batch.todo).hi
  <2>1. h \in Nat /\ from <= h /\ h <= to
    <3>. HIDE DEF from, to
    <3>. QED
      BY <1>2, <1>3, <1>4, ChainHead DEF from, to
  <2>. HIDE DEF h, from, to
  <2>. QED
    BY <1>4, <2>1
<1>7. Batch \in Nat
  BY HarnessAssumption
<1>8. DOMAIN batch.out = 1..Len(batch.out)
  BY <1>2
<1>. HIDE DEF to
<1>9. from <= to + 1
  <2>. HIDE DEF from
  <2>. QED
    BY <1>4, <1>5, <1>6
<1>. QED
  BY <1>1, <1>2, <1>4, <1>5, <1>7, <1>8, <1>9 DEF to

LEMMA SameIsOwn ==
    ASSUME NEW film, Len(film) \in Nat, NEW n, NEW b \in 1..NumberOf(film),
           NEW batch \in Records(film), Whole(film, n, b, batch)
    PROVE  /\ Same(film, b, batch.out) \subseteq Lo(b)..Hi(film, b)
           /\ \A c \in Same(film, b, batch.out) : c < Lo(b) + Len(batch.out)
<1>. DEFINE len == Len(batch.out)
<1>1. /\ len \in Nat /\ Lo(b) + len <= Hi(film, b) + 1
      /\ Lo(b) \in Nat /\ Hi(film, b) \in Nat
  BY WholeFits, CutIs
<1>. HIDE DEF len
<1>2. \A c \in 1..Len(film) : c - Lo(b) + 1 \in 1..len => c \in Lo(b)..Hi(film, b) /\ c < Lo(b) + len
  BY <1>1
<1>. QED
  BY <1>2 DEF Same, len

LEMMA OwnAreApart ==
    ASSUME NEW film, Len(film) \in Nat, NEW a \in 1..NumberOf(film), NEW b \in 1..NumberOf(film), a # b,
           NEW c \in Lo(a)..Hi(film, a)
    PROVE  c \notin Lo(b)..Hi(film, b)
<1>1. NumberOf(film) \in Nat /\ Lo(a) \in Nat /\ Lo(b) \in Nat /\ Hi(film, a) \in Nat /\ Hi(film, b) \in Nat
  BY CutIs
<1>2. (a < b => Hi(film, a) < Lo(b)) /\ (b < a => Hi(film, b) < Lo(a))
  BY CutIs
<1>3. a < b \/ b < a
  BY <1>1
<1>. QED
  BY <1>1, <1>2, <1>3

LEMMA SameInAllIs ==
    ASSUME NEW film, Film(film), NEW n, NEW bs, AllWhole(film, n, bs)
    PROVE  \A c : c \in SameInAll(film, bs) <=>
                    \E b \in 1..NumberOf(film) : c \in Same(film, b, bs[b].out)
<1>1. Len(film) \in Nat /\ DOMAIN film = 1..Len(film)
  BY DEF Film
<1>2. ASSUME NEW b \in 1..NumberOf(film), NEW c \in 1..Len(film)
      PROVE  (\E i \in 1..Batch : /\ c = (b - 1) * Batch + i /\ i \in DOMAIN bs[b].out
                                  /\ Echoes(bs[b].out[i], film[c].text))
             <=> c \in Same(film, b, bs[b].out)
  <2>. DEFINE out == bs[b].out
              before == (b - 1) * Batch
  <2>1. Len(out) \in Nat /\ Len(out) <= Batch /\ DOMAIN out = 1..Len(out) /\ Batch \in Nat
    BY <1>1, WholeFits, HarnessAssumption DEF AllWhole
  <2>2. before \in Int /\ Lo(b) = before + 1
    <3>1. Lo(b) \in Nat
      BY <1>1, CutIs
    <3>2. Lo(b) = before + 1
      BY DEF Lo
    <3>3. before \in Int
      <4>1. \A x \in Int, y \in Int : (x - 1) * y \in Int
        OBVIOUS
      <4>2. b \in Int /\ Batch \in Int
        BY <2>1
      <4>. QED
        BY <4>1, <4>2
    <3>. QED
      BY <3>2, <3>3
  <2>. HIDE DEF before, out
  <2>3. ASSUME NEW i \in 1..Batch, c = before + i PROVE c - Lo(b) + 1 = i
    BY <2>2, <2>3
  <2>4. ASSUME c - Lo(b) + 1 \in 1..Len(out)
        PROVE  c - Lo(b) + 1 \in 1..Batch /\ c = before + (c - Lo(b) + 1)
    BY <2>1, <2>2, <2>4
  <2>5. (\E i \in 1..Batch : c = before + i /\ i \in DOMAIN out /\ Echoes(out[i], film[c].text))
        <=> c \in Same(film, b, out)
    BY <2>1, <2>3, <2>4 DEF Same
  <2>. QED
    BY <2>5 DEF before, out
<1>3. \A c : c \in SameInAll(film, bs) <=>
               /\ c \in 1..Len(film)
               /\ \E b \in 1..NumberOf(film) :
                    \E i \in 1..Batch : /\ c = (b - 1) * Batch + i /\ i \in DOMAIN bs[b].out
                                        /\ Echoes(bs[b].out[i], film[c].text)
  BY <1>1, Zenon DEF SameInAll
<1>4. \A b : Same(film, b, bs[b].out) \subseteq 1..Len(film)
  BY DEF Same
<1>. QED
  BY <1>2, <1>3, <1>4

LEMMA UnchangedIs == Unchanged = SameInAll(cues, batches) /\ Unchanged' = SameInAll(cues', batches')
BY Zenon DEF Unchanged, SameInAll, Batches, NumberOf

-----------------------------------------------------------------------------
(* The cues that a settled segment adds to them.                           *)
Added(film, lo, texts) ==
    {c \in 1..Len(film) : c - lo + 1 \in 1..Len(texts) /\ Echoes(texts[c - lo + 1], film[c].text)}

LEMMA SameGrows ==
    ASSUME NEW film, Len(film) \in Nat, NEW b, Lo(b) \in Nat, NEW S, NEW out \in Seq(S), NEW texts \in Seq(S)
    PROVE  Same(film, b, out \o texts) = Same(film, b, out) \cup Added(film, Lo(b) + Len(out), texts)
<1>. DEFINE both == out \o texts
            lo == Lo(b) + Len(out)
<1>1. /\ Len(out) \in Nat /\ Len(texts) \in Nat /\ Len(both) = Len(out) + Len(texts)
      /\ \A p \in 1..Len(out) : both[p] = out[p]
      /\ \A j \in 1..Len(texts) : both[Len(out) + j] = texts[j]
  BY Concatenation
<1>. HIDE DEF both
<1>2. ASSUME NEW c \in 1..Len(film)
      PROVE  c \in Same(film, b, both) <=> c \in Same(film, b, out) \/ c \in Added(film, lo, texts)
  <2>. DEFINE i == c - Lo(b) + 1
              j == c - lo + 1
  <2>1. i \in Int /\ j \in Int /\ i = Len(out) + j
    BY <1>1
  <2>2. /\ c \in Same(film, b, both) <=> i \in 1..Len(both) /\ Echoes(both[i], film[c].text)
        /\ c \in Same(film, b, out) <=> i \in 1..Len(out) /\ Echoes(out[i], film[c].text)
        /\ c \in Added(film, lo, texts) <=> j \in 1..Len(texts) /\ Echoes(texts[j], film[c].text)
    BY DEF Same, Added
  <2>. HIDE DEF i, j
  <2>3. i \in 1..Len(both) <=> i \in 1..Len(out) \/ j \in 1..Len(texts)
    BY <1>1, <2>1
  <2>4. /\ i \in 1..Len(out) => both[i] = out[i] /\ j \notin 1..Len(texts)
        /\ j \in 1..Len(texts) => both[i] = texts[j] /\ i \notin 1..Len(out)
    BY <1>1, <2>1
  <2>. QED
    BY <2>2, <2>3, <2>4
<1>3. /\ Same(film, b, both) \subseteq 1..Len(film) /\ Same(film, b, out) \subseteq 1..Len(film)
      /\ Added(film, lo, texts) \subseteq 1..Len(film)
  BY DEF Same, Added
<1>. QED
  BY <1>2, <1>3 DEF both

LEMMA AllSame ==
    ASSUME NEW film, Film(film), NEW n, NEW bs, NEW cs, AllWhole(film, n, bs), AllWhole(film, n, cs),
           NEW b \in 1..NumberOf(film), \A a \in 1..NumberOf(film) : a # b => cs[a] = bs[a],
           NEW more, Same(film, b, cs[b].out) = Same(film, b, bs[b].out) \cup more,
           more \cap Same(film, b, bs[b].out) = {}
    PROVE  /\ SameInAll(film, cs) = SameInAll(film, bs) \cup more
           /\ SameInAll(film, bs) \cap more = {}
<1>1. \A c : c \in SameInAll(film, bs) <=> \E a \in 1..NumberOf(film) : c \in Same(film, a, bs[a].out)
  BY SameInAllIs
<1>2. \A c : c \in SameInAll(film, cs) <=> \E a \in 1..NumberOf(film) : c \in Same(film, a, cs[a].out)
  BY SameInAllIs
<1>3. more \subseteq Lo(b)..Hi(film, b)
  BY SameIsOwn DEF AllWhole, Film
<1>4. \A a \in 1..NumberOf(film) : Same(film, a, bs[a].out) \subseteq Lo(a)..Hi(film, a)
  BY SameIsOwn DEF AllWhole, Film
<1>5. \A a \in 1..NumberOf(film) : a # b => Same(film, a, bs[a].out) \cap more = {}
  BY <1>3, <1>4, OwnAreApart DEF Film
<1>6. \A a \in 1..NumberOf(film) : Same(film, a, bs[a].out) \cap more = {}
  BY <1>5
<1>. QED
  BY <1>1, <1>2, <1>6


-----------------------------------------------------------------------------
(* What is paid for a settled segment, against the cues it leaves as they  *)
(* were: at least those with words, at most all.                           *)
Spoken(film, C) == {c \in C : ~BlankText(film[c].text)}

LEMMA Shifted ==
    ASSUME NEW lo \in Nat, lo >= 1, NEW n \in Nat, NEW D, D \subseteq 1..n, NEW E,
           \A c : c \in E <=> \E i \in D : c = lo + i - 1
    PROVE  /\ IsFiniteSet(D) /\ IsFiniteSet(E) /\ Cardinality(D) \in Nat
           /\ Cardinality(E) = Cardinality(D)
<1>. DEFINE f == [i \in D |-> lo + i - 1]
<1>1. IsFiniteSet(D)
  BY FS_Interval, FS_Subset, 1 \in Int, n \in Int
<1>2. \A i \in D : i \in Int
  OBVIOUS
<1>3. f \in Bijection(D, E)
  <2>1. f \in [D -> E]
    OBVIOUS
  <2>2. \A i, j \in D : f[i] = f[j] => i = j
    BY <1>2
  <2>3. \A c \in E : \E i \in D : f[i] = c
    OBVIOUS
  <2>. QED
    BY <2>1, <2>2, <2>3 DEF Bijection, Injection, Surjection, IsInjective
<1>4. ExistsBijection(D, E)
  BY <1>3 DEF ExistsBijection
<1>. QED
  BY <1>1, <1>4, FS_Bijection, FS_CardinalityType

LEMMA PaidIs ==
    ASSUME Shape, NEW b, NEW stage, At(b, stage), NEW texts, Settles(b, texts), Paid(b, texts)
    PROVE  LET more == Added(cues, Segment(b).lo, texts)
           IN  \E k \in Nat : /\ untranslated' = untranslated + k
                              /\ Cardinality(Spoken(cues, more)) <= k /\ k <= Cardinality(more)
<1>. DEFINE lo == Segment(b).lo
            n == Size(b)
            src == Sources(b)
            more == Added(cues, lo, texts)
            Left == {i \in 1..n : Echoes(texts[i], src[i])}
            Dead == {i \in 1..n : ~BlankText(src[i]) /\ Echoes(texts[i], src[i])}
<1>1. /\ n \in Nat /\ n >= 1 /\ lo \in Nat /\ Segment(b).hi \in Nat
      /\ DOMAIN src = 1..n
      /\ \A i \in 1..n : lo + i - 1 \in 1..Len(cues) /\ src[i] = cues[lo + i - 1].text
  BY SourcesAre
<1>2. lo >= 1
  <2>1. lo + 1 - 1 \in 1..Len(cues)
    BY <1>1
  <2>. QED
    BY <1>1, <2>1
<1>3. Len(texts) = n /\ \A i \in 1..n : texts[i] \in MaySay(cues, lo + i - 1)
  BY DEF Settles
<1>4. Film(cues) /\ Len(cues) \in Nat
  BY ReadyIs
<1>. HIDE DEF lo, n, src
<1>5. \A c : c \in more <=> \E i \in Left : c = lo + i - 1
  <2>1. ASSUME NEW c \in more PROVE \E i \in Left : c = lo + i - 1
    <3>. DEFINE i == c - lo + 1
    <3>1. c \in 1..Len(cues) /\ i \in 1..n /\ Echoes(texts[i], cues[c].text)
      BY <1>3 DEF Added
    <3>2. c = lo + i - 1
      BY <1>1, <1>4, <3>1
    <3>3. i \in Left
      BY <1>1, <3>1, <3>2
    <3>. QED
      BY <3>2, <3>3
  <2>2. ASSUME NEW i \in Left PROVE lo + i - 1 \in more
    <3>1. lo + i - 1 \in 1..Len(cues) /\ Echoes(texts[i], cues[lo + i - 1].text) /\ i \in 1..n
      BY <1>1
    <3>2. (lo + i - 1) - lo + 1 = i
      BY <1>1, <3>1
    <3>. QED
      BY <1>3, <3>1, <3>2 DEF Added
  <2>. QED
    BY <2>1, <2>2
<1>6. \A c : c \in Spoken(cues, more) <=> \E i \in Dead : c = lo + i - 1
  <2>. HIDE DEF more
  <2>1. ASSUME NEW c \in Spoken(cues, more) PROVE \E i \in Dead : c = lo + i - 1
    <3>1. c \in more /\ ~BlankText(cues[c].text)
      BY DEF Spoken
    <3>2. PICK i \in Left : c = lo + i - 1
      BY <1>5, <3>1
    <3>. QED
      BY <1>1, <3>1, <3>2
  <2>2. ASSUME NEW i \in Dead PROVE lo + i - 1 \in Spoken(cues, more)
    <3>1. lo + i - 1 \in more
      BY <1>5
    <3>2. ~BlankText(cues[lo + i - 1].text)
      BY <1>1
    <3>. QED
      BY <3>1, <3>2 DEF Spoken
  <2>. QED
    BY <2>1, <2>2
<1>7. /\ Cardinality(more) = Cardinality(Left) /\ Cardinality(Left) \in Nat
      /\ Cardinality(Spoken(cues, more)) = Cardinality(Dead) /\ Cardinality(Dead) \in Nat
      /\ IsFiniteSet(Left)
  <2>. DEFINE spoken == Spoken(cues, more)
  <2>1. Left \subseteq 1..n /\ Dead \subseteq 1..n
    OBVIOUS
  <2>2. \A c : c \in spoken <=> \E i \in Dead : c = lo + i - 1
    BY <1>6
  <2>. HIDE DEF more, spoken, Left, Dead
  <2>3. Cardinality(more) = Cardinality(Left) /\ Cardinality(Left) \in Nat /\ IsFiniteSet(Left)
    BY <1>1, <1>2, <1>5, <2>1, Shifted
  <2>4. Cardinality(spoken) = Cardinality(Dead) /\ Cardinality(Dead) \in Nat
    BY <1>1, <1>2, <2>1, <2>2, Shifted
  <2>. QED
    BY <2>3, <2>4 DEF spoken
<1>8. Cardinality(Dead) <= Cardinality(Left)
  <2>1. Dead \subseteq Left
    OBVIOUS
  <2>. HIDE DEF Left, Dead
  <2>. QED
    BY <1>7, <2>1, FS_Subset
<1>9. DeadCount(texts, src) = Cardinality(Dead)
  <2>1. ASSUME NEW i \in 1..n, BlankText(texts[i]) PROVE Echoes(texts[i], src[i])
    <3>1. texts[i] = src[i]
      BY <1>1, <1>3, <2>1 DEF MaySay, Fit
    <3>. QED
      BY <3>1 DEF Echoes
  <2>2. {i \in DOMAIN src : ~BlankText(src[i]) /\ (BlankText(texts[i]) \/ Echoes(texts[i], src[i]))} = Dead
    BY <1>1, <2>1
  <2>. QED
    BY <2>2, Zenon DEF DeadCount
<1>. DEFINE Bounds(k) == Cardinality(Spoken(cues, more)) <= k /\ k <= Cardinality(more)
<1>10. ASSUME untranslated' = untranslated + DeadCount(texts, src)
       PROVE  \E k \in Nat : untranslated' = untranslated + k /\ Bounds(k)
  <2>. DEFINE k == Cardinality(Dead)
  <2>1. k \in Nat /\ untranslated' = untranslated + k /\ Bounds(k)
    <3>. HIDE DEF Left, Dead, more
    <3>. QED
      BY <1>7, <1>8, <1>9, <1>10
  <2>. HIDE DEF k, Bounds
  <2>. QED
    BY <2>1
<1>11. ASSUME n = 1, texts = src, untranslated' = untranslated + 1
       PROVE  \E k \in Nat : untranslated' = untranslated + k /\ Bounds(k)
  <2>1. Left = {1}
    <3>1. \A i \in 1..n : Echoes(texts[i], src[i])
      BY <1>11 DEF Echoes
    <3>. QED
      BY <1>11, <3>1
  <2>2. Cardinality(Left) = 1
    <3>1. \A x : Cardinality({x}) = 1
      BY FS_Singleton
    <3>. QED
      BY <2>1, <3>1
  <2>. DEFINE k == 1
  <2>3. k \in Nat /\ untranslated' = untranslated + k /\ Bounds(k)
    <3>. HIDE DEF Left, Dead, more
    <3>. QED
      BY <1>7, <1>8, <1>11, <2>2
  <2>. HIDE DEF k, Bounds
  <2>. QED
    BY <2>3
<1>. HIDE DEF Bounds
<1>12. \E k \in Nat : untranslated' = untranslated + k /\ Bounds(k)
  BY <1>10, <1>11 DEF Paid, src, n
<1>. QED
  BY <1>12 DEF Bounds, lo


-----------------------------------------------------------------------------
(* The count of unusable cues stays between the lines of dialogue that     *)
(* kept their source and the cues that did.                                *)
LEMMA RunIs ==
    ASSUME Shape, active
    PROVE  /\ Film(cues) /\ Len(cues) \in Nat /\ AllWhole(cues, surfaced, batches)
           /\ IsFiniteSet(Unchanged) /\ Cardinality(Unchanged) \in Nat /\ Cardinality(Unchanged) <= Len(cues)
           /\ Spared = Spoken(cues, Unchanged)
<1>1. Film(cues) /\ Len(cues) \in Nat /\ DOMAIN cues = 1..Len(cues)
  BY SourceIsFilm DEF Shape, Film
<1>2. AllWhole(cues, surfaced, batches)
  BY DEF Shape, RunIsWhole, AllWhole
<1>3. Unchanged \subseteq 1..Len(cues)
  BY <1>1 DEF Unchanged
<1>4. IsFiniteSet(1..Len(cues)) /\ Cardinality(1..Len(cues)) = Len(cues)
  <2>1. \A l \in Nat : Cardinality(1..l) = l /\ IsFiniteSet(1..l)
    BY FS_Interval
  <2>. QED
    BY <1>1, <2>1
<1>. DEFINE U == Unchanged
            L == 1..Len(cues)
<1>5. IsFiniteSet(U) /\ Cardinality(U) <= Cardinality(L) /\ Cardinality(U) \in Nat
  <2>. HIDE DEF U, L
  <2>1. U \subseteq L /\ IsFiniteSet(L)
    BY <1>3, <1>4 DEF U, L
  <2>. QED
    BY <2>1, FS_Subset, FS_CardinalityType
<1>6. Spared = Spoken(cues, Unchanged)
  BY DEF Spared, Spoken
<1>. QED
  BY <1>1, <1>2, <1>4, <1>5, <1>6

LEMMA Apart ==
    ASSUME NEW A, NEW B, IsFiniteSet(A), IsFiniteSet(B), A \cap B = {}
    PROVE  Cardinality(A \cup B) = Cardinality(A) + Cardinality(B)
<1>1. Cardinality(A \cap B) = 0
  BY FS_EmptySet
<1>2. Cardinality(A) \in Nat /\ Cardinality(B) \in Nat
  BY FS_CardinalityType
<1>3. Cardinality(A \cup B) = Cardinality(A) + Cardinality(B) - Cardinality(A \cap B)
  BY FS_Union
<1>4. Cardinality(A \cup B) = Cardinality(A) + Cardinality(B) - 0
  BY <1>1, <1>3
<1>. QED
  BY <1>2, <1>4

LEMMA BoundsAdd ==
    \A a, b, c, d, e, k \in Nat : a <= e /\ e <= b /\ c <= k /\ k <= d =>
        a + c <= e + k /\ e + k <= b + d /\ e + k \in Nat
OBVIOUS

LEMMA TallyGrows ==
    ASSUME NEW film, NEW U, NEW more, IsFiniteSet(U), IsFiniteSet(more), U \cap more = {},
           NEW e \in Nat, NEW k \in Nat,
           Cardinality(Spoken(film, U)) <= e, e <= Cardinality(U),
           Cardinality(Spoken(film, more)) <= k, k <= Cardinality(more)
    PROVE  /\ e + k \in Nat /\ Cardinality(Spoken(film, U \cup more)) <= e + k
           /\ e + k <= Cardinality(U \cup more)
<1>. DEFINE su == Spoken(film, U)
            sm == Spoken(film, more)
<1>1. su \subseteq U /\ sm \subseteq more /\ Spoken(film, U \cup more) = su \cup sm
  BY DEF Spoken
<1>. HIDE DEF su, sm
<1>2. IsFiniteSet(su) /\ IsFiniteSet(sm) /\ su \cap sm = {}
  BY <1>1, FS_Subset
<1>3. /\ Cardinality(su) \in Nat /\ Cardinality(sm) \in Nat
      /\ Cardinality(U) \in Nat /\ Cardinality(more) \in Nat
  BY <1>2, FS_CardinalityType
<1>4. /\ Cardinality(U \cup more) = Cardinality(U) + Cardinality(more)
      /\ Cardinality(su \cup sm) = Cardinality(su) + Cardinality(sm)
  BY <1>2, Apart
<1>5. Cardinality(su) <= e /\ Cardinality(sm) <= k
  BY DEF su, sm
<1>. DEFINE cu == Cardinality(U)
            cm == Cardinality(more)
            csu == Cardinality(su)
            csm == Cardinality(sm)
<1>6. csu + csm <= e + k /\ e + k <= cu + cm /\ e + k \in Nat
  <2>1. csu \in Nat /\ csm \in Nat /\ cu \in Nat /\ cm \in Nat /\ csu <= e /\ e <= cu /\ csm <= k /\ k <= cm
    BY <1>3, <1>5
  <2>. HIDE DEF cu, cm, csu, csm
  <2>. QED
    BY <2>1, BoundsAdd
<1>. QED
  BY <1>1, <1>4, <1>6

LEMMA StepKeepsTally ==
    ASSUME Shape, Tally, NEW b, Step(b)
    PROVE  Tally'
<1>1. PICK new : Moves(b, new)
  BY StepMoves
<1>2. PICK stage : At(b, stage)
  BY DEF Step, Replay, OutOfTime, Dispatch, Call, HeldOff, Answered, WrongShape, Retry, Refused
<1>3. /\ active /\ active' = active /\ surfaced' = surfaced /\ cues' = cues
      /\ b \in 1..NumberOf(cues)
      /\ \A c \in 1..NumberOf(cues) : batches'[c] = IF c = b THEN new ELSE batches[c]
  BY <1>1, MovedIs
<1>4. /\ Film(cues) /\ Len(cues) \in Nat /\ AllWhole(cues, surfaced, batches)
      /\ IsFiniteSet(Unchanged) /\ Spared = Spoken(cues, Unchanged)
  BY <1>3, RunIs
<1>5. AllWhole(cues, surfaced, batches')
  BY <1>1, <1>3, <1>4 DEF AllWhole, Moves
<1>6. untranslated \in Nat /\ Cardinality(Spoken(cues, Unchanged)) <= untranslated
      /\ untranslated <= Cardinality(Unchanged)
  BY <1>3, <1>4 DEF Tally
<1>7. Unchanged = SameInAll(cues, batches) /\ Unchanged' = SameInAll(cues, batches')
  BY <1>3, UnchangedIs
<1>8. Spared' = Spoken(cues, Unchanged')
  BY <1>3 DEF Spared, Spoken
<1>9. \A a \in 1..NumberOf(cues) : a # b => batches'[a] = batches[a]
  BY <1>3
<1>10. batches'[b] = new
  BY <1>3
<1>. DEFINE bs == batches'
            out == batches[b].out
<1>11. CASE Settling(b, new)
  <2>1. PICK texts : Settles(b, texts) /\ Paid(b, texts) /\ new.out = out \o texts
    BY <1>11 DEF Settling
  <2>. DEFINE more == Added(cues, Segment(b).lo, texts)
  <2>2. PICK k \in Nat : /\ untranslated' = untranslated + k
                         /\ Cardinality(Spoken(cues, more)) <= k /\ k <= Cardinality(more)
    BY <1>2, <2>1, PaidIs
  <2>3. out \in Seq(AllTexts(cues)) /\ texts \in Seq(AllTexts(cues))
    <3>1. batches[b] \in Records(cues)
      BY <1>3, <1>4 DEF AllWhole
    <3>. QED
      BY <2>1, <3>1, RecordIs DEF Settles
  <2>4. Segment(b).lo = Lo(b) + Len(out) /\ Lo(b) \in Nat
    BY <1>2, <1>3, <1>4, SourcesAre, CutIs
  <2>5. Same(cues, b, new.out) = Same(cues, b, out) \cup more
    <3>. HIDE DEF out
    <3>1. Same(cues, b, out \o texts) = Same(cues, b, out) \cup Added(cues, Lo(b) + Len(out), texts)
      BY <1>4, <2>3, <2>4, SameGrows
    <3>. QED
      BY <2>1, <2>4, <3>1
  <2>6. more \cap Same(cues, b, out) = {}
    <3>1. \A c \in Same(cues, b, out) : c < Lo(b) + Len(out)
      BY <1>3, <1>4, SameIsOwn DEF AllWhole
    <3>2. \A c \in more : c \in Nat /\ c - Segment(b).lo + 1 >= 1
      BY DEF Added
    <3>3. \A c \in more : ~(c < Lo(b) + Len(out))
      <4>. HIDE DEF more
      <4>1. Len(out) \in Nat
        BY <2>3
      <4>. QED
        BY <2>4, <3>2, <4>1
    <3>. QED
      BY <3>1, <3>3
  <2>. HIDE DEF more
  <2>7. Unchanged' = Unchanged \cup more /\ Unchanged \cap more = {}
    <3>1. Same(cues, b, bs[b].out) = Same(cues, b, batches[b].out) \cup more
      BY <1>10, <2>5
    <3>2. AllWhole(cues, surfaced, bs) /\ \A a \in 1..NumberOf(cues) : a # b => bs[a] = batches[a]
      BY <1>5, <1>9
    <3>. HIDE DEF bs
    <3>3. SameInAll(cues, bs) = SameInAll(cues, batches) \cup more /\ SameInAll(cues, batches) \cap more = {}
      BY <1>3, <1>4, <2>6, <3>1, <3>2, AllSame
    <3>. QED
      BY <1>7, <3>3 DEF bs
  <2>8. IsFiniteSet(more)
    <3>1. more \subseteq 1..Len(cues)
      BY DEF more, Added
    <3>2. IsFiniteSet(1..Len(cues))
      BY <1>4, FS_Interval
    <3>. QED
      BY <3>1, <3>2, FS_Subset
  <2>. DEFINE U == Unchanged
  <2>9. /\ untranslated + k \in Nat /\ Cardinality(Spoken(cues, U \cup more)) <= untranslated + k
        /\ untranslated + k <= Cardinality(U \cup more)
    <3>1. IsFiniteSet(U) /\ U \cap more = {} /\ Cardinality(Spoken(cues, U)) <= untranslated /\ untranslated <= Cardinality(U)
      BY <1>4, <1>6, <2>7
    <3>. HIDE DEF U
    <3>. QED
      BY <1>6, <2>2, <2>8, <3>1, TallyGrows
  <2>. QED
    BY <1>8, <2>2, <2>7, <2>9 DEF Tally
<1>12. CASE new.out = out /\ untranslated' = untranslated
  <2>1. \A a \in 1..NumberOf(cues) : bs[a].out = batches[a].out
    BY <1>9, <1>10, <1>12
  <2>2. SameInAll(cues, bs) = SameInAll(cues, batches)
    BY <2>1 DEF SameInAll
  <2>. QED
    BY <1>6, <1>7, <1>8, <1>12, <2>2 DEF Tally
<1>. QED
  BY <1>1, <1>11, <1>12 DEF Moves

LEMMA TallyIsKept == Shape /\ Tally /\ [HarnessNext]_harnessVars => Tally'
<1>. SUFFICES ASSUME Shape, Tally, [HarnessNext]_harnessVars PROVE Tally'
  OBVIOUS
<1>1. CASE \E b \in Batches : Step(b)
  BY <1>1, StepKeepsTally
<1>2. ASSUME UNCHANGED <<active, cues, batches, untranslated>> PROVE Tally'
  <2>1. Unchanged' = Unchanged
    BY <1>2, UnchangedIs
  <2>2. Spared' = Spared
    BY <1>2, <2>1 DEF Spared
  <2>. QED
    BY <1>2, <2>1, <2>2 DEF Tally
<1>3. ASSUME NEW how, Ends(how) PROVE Tally'
  BY <1>3 DEF Ends, Tally
<1>4. CASE Start
  <2>1. CASE cues = <<>>
    BY <1>2, <1>4, <2>1 DEF Start, runVars
  <2>2. CASE cues # <<>>
    <3>1. ~active /\ Begin /\ cues' = cues
      BY <1>4, <2>2 DEF Start
    <3>2. untranslated' = 0 /\ batches' = [b \in 1..NumberOf(cues) |-> NewBatch(b)]
      BY <3>1 DEF Shape, IdleRun, Begin, Batches, NumberOf
    <3>3. \A b \in 1..NumberOf(cues) : batches'[b].out = <<>>
      BY <3>2 DEF NewBatch
    <3>4. SameInAll(cues, batches') = {}
      BY <3>3 DEF SameInAll
    <3>5. Unchanged' = {} /\ Spared' = {}
      BY <3>1, <3>4, UnchangedIs DEF Spared
    <3>6. Cardinality({}) = 0
      BY FS_EmptySet
    <3>. QED
      BY <3>2, <3>5, <3>6 DEF Tally
  <2>. QED
    BY <2>1, <2>2
<1>5. CASE Glossary
  BY <1>2, <1>5 DEF Glossary
<1>6. CASE Deadline
  BY <1>2, <1>6 DEF Deadline
<1>7. CASE Surface
  BY <1>2, <1>3, <1>7, Zenon DEF Surface
<1>8. CASE HangUp \/ Restart
  BY <1>3, <1>8 DEF HangUp, Restart
<1>9. CASE Forget
  BY <1>2, <1>9 DEF Forget, runVars
<1>10. CASE UNCHANGED harnessVars
  BY <1>2, <1>10 DEF harnessVars, runVars
<1>. QED
  BY <1>1, <1>4, <1>5, <1>6, <1>7, <1>8, <1>9, <1>10 DEF HarnessNext


-----------------------------------------------------------------------------
(* What the batches say, one after the other.                              *)
JoinedTexts(n, bs) ==
    CHOOSE f : f = [b \in 0..n |-> IF b = 0 THEN <<>> ELSE f[b - 1] \o bs[b].out]

LEMMA SaidIs ==
    ASSUME NEW S, NEW n \in Nat, NEW bs, \A b \in 1..n : bs[b].out \in Seq(S), NEW said,
           said = JoinedTexts(n, bs)
    PROVE  said[0] = <<>> /\ \A k \in 1..n : said[k] = said[k - 1] \o bs[k].out
<1>. DEFINE V == Seq(S)
            base == <<>>
            Part(b) == bs[b].out
            step == [p \in V \X (1..n) |-> p[1] \o Part(p[2])]
            Body(f) == [b \in 0..n |-> IF b = 0 THEN <<>> ELSE f[b - 1] \o Part(b)]
<1>1. \A v \in V, i \in 1..n : v \o Part(i) \in V
  <2>1. \A i \in 1..n : Part(i) \in Seq(S)
    OBVIOUS
  <2>. HIDE DEF Part
  <2>. QED
    BY <2>1, Concatenation
<1>2. base \in V
  OBVIOUS
<1>. HIDE DEF V, Part
<1>3. step \in [V \X (1..n) -> V]
  BY <1>1
<1>4. PICK f : Recurs(f, n, V, base, step)
  <2>. HIDE DEF step, base
  <2>. QED
    BY <1>2, <1>3, RecursionExists
<1>5. said = Body(said)
  <2>1. f \in [0..n -> V] /\ f[0] = <<>> /\ \A i \in 1..n : f[i - 1] \in V /\ f[i] = f[i - 1] \o Part(i)
    BY <1>4 DEF Recurs
  <2>2. \A i \in 0..n : f[i] = IF i = 0 THEN <<>> ELSE f[i - 1] \o Part(i)
    <3>1. \A i \in 0..n : i # 0 => i \in 1..n
      OBVIOUS
    <3>. QED
      BY <2>1, <3>1
  <2>3. f = Body(f)
    BY <2>1, <2>2
  <2>4. said = CHOOSE g : g = Body(g)
    BY Zenon DEF Part, JoinedTexts
  <2>. QED
    BY <2>3, <2>4, Zenon
<1>6. \A i \in 0..n : said[i] = IF i = 0 THEN <<>> ELSE said[i - 1] \o Part(i)
  BY <1>5, Zenon
<1>7. 0 \in 0..n /\ \A i \in 1..n : i \in 0..n /\ i # 0
  OBVIOUS
<1>8. said[0] = <<>> /\ \A k \in 1..n : said[k] = said[k - 1] \o Part(k)
  BY <1>6, <1>7
<1>. QED
  BY <1>8 DEF Part

(* All batches over, they say one text for each cue of the film.           *)
LEMMA AllIsSaid ==
    ASSUME NEW film, Film(film), Len(film) > 0, NEW m, NEW bs, AllWhole(film, m, bs),
           \A b \in 1..NumberOf(film) : bs[b].todo = <<>>,
           NEW said,
           said = JoinedTexts(NumberOf(film), bs),
           NEW texts, texts = said[NumberOf(film)]
    PROVE  /\ texts \in Seq(AllTexts(film)) /\ Len(texts) = Len(film)
           /\ \A c \in 1..Len(film) : texts[c] \in MaySay(film, c)
<1>. DEFINE n == NumberOf(film)
            T == AllTexts(film)
            parts == [b \in 1..n |-> bs[b].out]
<1>1. n \in Nat /\ n > 0 /\ Len(film) \in Nat
  BY CutIs DEF Film
<1>2. /\ \A b \in 1..n : bs[b].out \in Seq(T)
      /\ \A b \in 1..n : Len(bs[b].out) \in Nat /\ Lo(b) + Len(bs[b].out) = Hi(film, b) + 1
  BY <1>1, RecordIs, WholeFits DEF AllWhole
<1>. HIDE DEF T
<1>3. said[0] = <<>> /\ \A k \in 1..n : said[k] = said[k - 1] \o bs[k].out
  <2>1. said = JoinedTexts(n, bs)
    OBVIOUS
  <2>2. n \in Nat /\ \A b \in 1..n : bs[b].out \in Seq(T)
    BY <1>1, <1>2
  <2>. HIDE DEF n
  <2>. QED
    BY ONLY <2>1, <2>2, SaidIs
<1>. HIDE DEF n
<1>4. parts \in Seq(Seq(T)) /\ Len(parts) = n /\ \A b \in 1..n : parts[b] = bs[b].out
  BY <1>1, <1>2
<1>. HIDE DEF parts
<1>5. texts \in Seq(T) /\ \E ends : Laid(parts, ends, texts)
  <2>1. \A k \in 1..Len(parts) : said[k] = said[k - 1] \o parts[k]
    BY <1>3, <1>4
  <2>2. texts = said[Len(parts)]
    BY <1>4 DEF n
  <2>. QED
    BY <1>3, <1>4, <2>1, <2>2, LaidOut
<1>6. PICK ends : Laid(parts, ends, texts)
  BY <1>5
<1>7. /\ ends \in [0..n -> Nat] /\ ends[0] = 0
      /\ \A k \in 1..n : ends[k] = ends[k - 1] + Len(bs[k].out)
      /\ Len(texts) = ends[n]
  BY <1>4, <1>6 DEF Laid
<1>8. /\ Lo(1) = 1
      /\ \A b \in 1..n : /\ Lo(b) \in Nat /\ Hi(film, b) \in Nat
                         /\ b < n => Lo(b + 1) = Hi(film, b) + 1
                         /\ b = n => Hi(film, b) = Len(film)
  BY <1>1, CutIs DEF n
<1>. DEFINE Good == {k \in 0..n : /\ k > 0 => ends[k] = Hi(film, k)
                                  /\ k < n => ends[k] = Lo(k + 1) - 1}
<1>9. 0 \in Good
  <2>1. 0 \in 0..n /\ 0 + 1 = 1 /\ ~(0 > 0)
    BY <1>1
  <2>2. ends[0] = Lo(0 + 1) - 1
    BY <1>7, <1>8, <2>1
  <2>. QED
    BY <2>1, <2>2
<1>10. ASSUME NEW k \in 0..n, k < n, k \in Good PROVE k + 1 \in Good
  <2>. DEFINE l == k + 1
              len == Len(bs[l].out)
  <2>1. l \in 1..n /\ l \in 0..n /\ l - 1 = k
    BY <1>1, <1>10
  <2>2. ends[l] = ends[k] + len /\ ends[k] = Lo(l) - 1 /\ len \in Nat /\ Lo(l) + len = Hi(film, l) + 1
    BY <1>2, <1>7, <1>10, <2>1
  <2>3. Lo(l) \in Nat /\ Hi(film, l) \in Nat /\ (l < n => Lo(l + 1) = Hi(film, l) + 1)
    BY <1>8, <2>1
  <2>. HIDE DEF len, l
  <2>4. ends[l] = Hi(film, l)
    BY <2>2, <2>3
  <2>5. l < n => ends[l] = Lo(l + 1) - 1
    BY <2>3, <2>4
  <2>6. l \in Good
    BY <2>1, <2>4, <2>5
  <2>. QED
    BY <2>6 DEF l
<1>11. \A k \in 0..n : k \in Good
  <2>. HIDE DEF Good
  <2>. QED
    BY <1>1, <1>9, <1>10, NumberInduction
<1>12. Len(texts) = Len(film)
  <2>1. n \in Good /\ n \in 1..n
    BY <1>1, <1>11
  <2>. QED
    BY <1>1, <1>7, <1>8, <2>1
<1>13. ASSUME NEW c \in 1..Len(film)
       PROVE  texts[c] \in MaySay(film, c)
  <2>1. PICK k \in 1..n, j \in Nat : 1 <= j /\ j <= Len(bs[k].out) /\ c = ends[k - 1] + j
    BY <1>4, <1>6, <1>12 DEF Laid
  <2>2. texts[c] = bs[k].out[j]
    BY <1>4, <1>6, <2>1 DEF Laid
  <2>3. ends[k - 1] = Lo(k) - 1
    <3>1. k - 1 \in Good /\ k - 1 < n /\ (k - 1) + 1 = k
      BY <1>1, <1>11
    <3>. QED
      BY <3>1
  <2>4. Lo(k) \in Nat /\ Len(bs[k].out) \in Nat
    BY <1>2, <1>8
  <2>5. c = Lo(k) + j - 1 /\ j \in 1..Len(bs[k].out) /\ c - Lo(k) + 1 = j
    BY <2>1, <2>3, <2>4
  <2>6. bs[k].out[j] \in MaySay(film, Lo(k) + j - 1)
    BY <2>5 DEF AllWhole, Whole, n
  <2>. QED
    BY <2>2, <2>5, <2>6
<1>. QED
  BY <1>5, <1>12, <1>13 DEF T


-----------------------------------------------------------------------------
(* A film read back: cue for cue, each with what may stand for it.         *)
OneForOne(film, read) ==
    /\ Len(read) = Len(film) /\ DOMAIN read = 1..Len(film)
    /\ \A i \in 1..Len(film) :
          /\ read[i].index = film[i].index /\ read[i].timing = film[i].timing
          /\ \E said \in MaySay(film, i) : read[i].text = Compact(said)

LEMMA TextUpdated ==
    ASSUME NEW A, NEW B, NEW C, NEW D, C \subseteq D, NEW r \in [index : A, timing : B, text : C], NEW text \in D
    PROVE  LET n == [r EXCEPT !.text = text]
           IN  /\ n \in [index : A, timing : B, text : D]
               /\ n.index = r.index /\ n.timing = r.timing /\ n.text = text
OBVIOUS

LEMMA AssembledIs ==
    ASSUME Shape, active, NEW b, b = NumberOf(cues),
           \A a \in 1..NumberOf(cues) : batches[a].todo = <<>>
    PROVE  OneForOne(cues, Parse(Serialize(Assembled(b))))
<1>. DEFINE body == Assembled(b)
            said == JoinedTexts(b, batches)
            texts == said[b]
            L == Len(cues)
<1>1. Film(cues) /\ L \in Nat /\ AllWhole(cues, surfaced, batches) /\ DOMAIN cues = 1..L
  BY RunIs DEF Film
<1>2. L > 0
  <2>1. NumberOf(cues) > 0
    BY <1>1, CutIs DEF Shape, RunIsWhole
  <2>. QED
    BY <1>1, <2>1, CutIs
<1>3. body = [i \in DOMAIN texts |-> [cues[i] EXCEPT !.text = texts[i]]]
  BY Zenon DEF Assembled, JoinedTexts
<1>. HIDE DEF said
<1>4. /\ texts \in Seq(AllTexts(cues)) /\ Len(texts) = L
      /\ \A c \in 1..L : texts[c] \in MaySay(cues, c)
  <2>1. said = JoinedTexts(NumberOf(cues), batches)
    BY DEF said
  <2>2. texts = said[NumberOf(cues)]
    OBVIOUS
  <2>. HIDE DEF texts
  <2>. QED
    BY <1>1, <1>2, <2>1, <2>2, AllIsSaid
<1>. HIDE DEF texts
<1>5. DOMAIN texts = 1..L
  BY <1>4
<1>6. PICK S : cues \in Seq(CuesOver(S))
  BY <1>1 DEF Film
<1>. DEFINE Lines(c) == UNION {ToSet(text) : text \in Replies(cues[c].text)}
            R == S \cup UNION {Lines(c) : c \in 1..L}
            C == [index : Nat \cup Values(S), timing : Values(S), text : Seq(R)]
<1>7. ASSUME NEW c \in 1..L
      PROVE  /\ body[c] \in C /\ body[c].index = cues[c].index /\ body[c].timing = cues[c].timing
             /\ body[c].text = texts[c] /\ texts[c] \in Seq(R)
  <2>1. cues[c] \in CuesOver(S) /\ cues[c].text \in Seq(S)
    <3>1. cues[c] \in CuesOver(S)
      <4>1. Len(cues) \in Nat /\ c \in 1..Len(cues)
        BY <1>1
      <4>. DEFINE Q == CuesOver(S)
      <4>. HIDE DEF Q
      <4>. QED
        BY <1>6, <4>1 DEF Q
    <3>. QED
      BY <3>1 DEF CuesOver
  <2>2. \A text \in Replies(cues[c].text) : text \in Seq(ToSet(text)) /\ ToSet(text) \subseteq R
    <3>1. Lines(c) \subseteq R
      OBVIOUS
    <3>2. \A text \in Replies(cues[c].text) : ToSet(text) \subseteq Lines(c)
      OBVIOUS
    <3>3. \A text \in Replies(cues[c].text) : text \in Seq(ToSet(text))
      BY <1>1 DEF Film
    <3>. HIDE DEF R, Lines
    <3>. QED
      BY <3>1, <3>2, <3>3
  <2>3. S \subseteq R
    OBVIOUS
  <2>. HIDE DEF R
  <2>4. texts[c] \in Seq(R)
    <3>1. texts[c] = cues[c].text \/ texts[c] \in Replies(cues[c].text)
      BY <1>4 DEF MaySay, Fit
    <3>2. \A A : A \subseteq R => Seq(A) \subseteq Seq(R)
      OBVIOUS
    <3>. QED
      BY <2>1, <2>2, <2>3, <3>1, <3>2
  <2>5. body[c] = [cues[c] EXCEPT !.text = texts[c]]
    BY <1>3, <1>5
  <2>6. cues[c] \in [index : Nat \cup Values(S), timing : Values(S), text : Seq(S)]
    BY <2>1 DEF CuesOver
  <2>7. Seq(S) \subseteq Seq(R)
    BY <2>3
  <2>. HIDE DEF body
  <2>. QED
    BY <2>4, <2>5, <2>6, <2>7, TextUpdated
<1>8. DOMAIN body = 1..L
  BY <1>3, <1>5
<1>. HIDE DEF body, R, C
<1>9. body \in Seq(C) /\ Len(body) = L
  <2>1. body = [c \in 1..L |-> body[c]]
    BY <1>3, <1>8
  <2>2. \A c \in 1..L : body[c] \in C
    BY <1>7
  <2>. QED
    BY <1>1, <2>1, <2>2
<1>. DEFINE read == Parse(Serialize(body))
<1>10. ReadsBack(body, read)
  <2>1. \A i \in 1..Len(body) : body[i].text \in Seq(R)
    BY <1>7, <1>9
  <2>. QED
    BY <1>9, <2>1, RoundTrip
<1>11. PICK Q : read \in Seq(Q)
  <2>1. Serialize(body) \in Seq(LinesOf(R, body))
    BY <1>7, <1>9, SerializeIs
  <2>. DEFINE doc == Serialize(body)
  <2>2. PICK f : Reads(LinesOf(R, body), doc, f)
    BY <2>1, ParseIs
  <2>3. Len(doc) \in 0..Len(doc)
    BY <2>1
  <2>. QED
    BY <2>2, <2>3 DEF Reads
<1>. HIDE DEF read
<1>12. DOMAIN read = 1..Len(read) /\ Len(read) = L
  BY <1>9, <1>10, <1>11 DEF ReadsBack
<1>13. ASSUME NEW c \in 1..L
       PROVE  /\ read[c].index = cues[c].index /\ read[c].timing = cues[c].timing
              /\ read[c].text = Compact(texts[c])
  <2>1. read[c] = Cue(body[c].index, body[c].timing, Compact(body[c].text))
    BY <1>9, <1>10 DEF ReadsBack
  <2>. QED
    BY <1>7, <2>1 DEF Cue
<1>14. OneForOne(cues, read)
  BY <1>4, <1>12, <1>13 DEF OneForOne
<1>. QED
  BY <1>14 DEF read, body


-----------------------------------------------------------------------------
(* The stream's last batch is its last: nothing is left to do.             *)
LEMMA AllAreOver ==
    ASSUME Shape, active, surfaced + 1 \in Batches, Finished(surfaced + 1), surfaced + 1 + 1 \notin Batches
    PROVE  surfaced + 1 = NumberOf(cues) /\ \A a \in 1..NumberOf(cues) : batches[a].todo = <<>>
<1>1. NumberOf(cues) \in Nat /\ surfaced \in Nat
  BY RunIs, CutIs DEF Shape, RunIsWhole
<1>2. Batches = 1..NumberOf(cues)
  BY DEF Batches, NumberOf
<1>3. surfaced + 1 = NumberOf(cues)
  BY <1>1, <1>2
<1>4. ASSUME NEW a \in 1..NumberOf(cues) PROVE batches[a].todo = <<>>
  <2>1. a <= surfaced \/ a = surfaced + 1
    BY <1>1, <1>3
  <2>2. Whole(cues, surfaced, a, batches[a])
    BY DEF Shape, RunIsWhole
  <2>. QED
    BY <2>1, <2>2 DEF Whole, Finished
<1>. QED
  BY <1>3, <1>4

(* The one step that serves a body.                                        *)
Serves ==
    /\ active /\ surfaced + 1 \in Batches /\ Finished(surfaced + 1)
    /\ ~Unusable(untranslated, Len(cues)) /\ surfaced + 1 + 1 \notin Batches
    /\ served' = Serialize(Assembled(surfaced + 1)) /\ cues' = cues

LEMMA OneStepServes == [HarnessNext]_harnessVars => Serves \/ UNCHANGED <<served, cues>>
<1>. SUFFICES ASSUME [HarnessNext]_harnessVars PROVE Serves \/ UNCHANGED <<served, cues>>
  OBVIOUS
<1>1. CASE Surface
  BY <1>1, Zenon DEF Surface, Serves
<1>2. CASE \E b \in Batches : Step(b)
  BY <1>2 DEF Step, Replay, OutOfTime, Dispatch, Call, HeldOff, Answered, WrongShape, Retry, Refused, Work
<1>3. CASE Start \/ Glossary \/ Deadline \/ HangUp \/ Restart \/ Forget \/ UNCHANGED harnessVars
  BY <1>3 DEF Start, Glossary, Deadline, HangUp, Restart, Forget, harnessVars
<1>. QED
  BY <1>1, <1>2, <1>3 DEF HarnessNext

LEMMA ServedIs ==
    ASSUME Shape, Serves
    PROVE  OneForOne(cues, Parse(served'))
<1>. DEFINE b == surfaced + 1
<1>1. b = NumberOf(cues) /\ \A a \in 1..NumberOf(cues) : batches[a].todo = <<>>
  BY AllAreOver DEF Serves
<1>2. active /\ served' = Serialize(Assembled(b))
  BY DEF Serves
<1>. HIDE DEF b
<1>. QED
  BY <1>1, <1>2, AssembledIs

(* What is served reads back as the film.                                  *)
ServedIsFilm == served # Nothing => OneForOne(cues, Parse(served))

LEMMA ServedIsKept == Shape /\ ServedIsFilm /\ [HarnessNext]_harnessVars => ServedIsFilm'
<1>. SUFFICES ASSUME Shape, ServedIsFilm, [HarnessNext]_harnessVars PROVE ServedIsFilm'
  OBVIOUS
<1>1. CASE Serves
  BY <1>1, ServedIs DEF ServedIsFilm, Serves
<1>2. CASE UNCHANGED <<served, cues>>
  BY <1>2 DEF ServedIsFilm
<1>. QED
  BY <1>1, <1>2, OneStepServes

-----------------------------------------------------------------------------
(* A run refused for unusable output, and a body that is served.           *)
LEMMA FewerIsUsable ==
    \A a, b, l \in Nat : a <= b =>
        (Unusable(a, l) => Unusable(b, l))
BY DEF Unusable

LEMMA VerdictHolds ==
    ASSUME Shape, Tally, [HarnessNext]_harnessVars
    PROVE  /\ (active /\ outcome' = "unusable" /\ ~active') => Unusable(Cardinality(Unchanged), Len(cues))
           /\ served' # served =>
                LET words == {c \in DOMAIN cues : ~BlankText(cues[c].text)}
                IN  ~Unusable(Cardinality(Unchanged \cap words), Len(cues))
<1>1. ASSUME active, outcome' = "unusable", ~active'
      PROVE  Unusable(Cardinality(Unchanged), Len(cues))
  <2>1. Unusable(untranslated, Len(cues))
    <3>1. CASE Surface
      BY <1>1, <3>1, Zenon DEF Surface, Ends, Failures
    <3>2. CASE \E b \in Batches : Step(b)
      BY <1>1, <3>2 DEF Step, Replay, OutOfTime, Dispatch, Call, HeldOff, Answered, WrongShape, Retry, Refused, Work
    <3>3. CASE HangUp \/ Restart
      BY <1>1, <3>3 DEF HangUp, Restart, Ends
    <3>4. CASE Start \/ Glossary \/ Deadline \/ Forget \/ UNCHANGED harnessVars
      BY <1>1, <3>4 DEF Start, Glossary, Deadline, Forget, harnessVars, runVars
    <3>. QED
      BY <3>1, <3>2, <3>3, <3>4 DEF HarnessNext
  <2>2. untranslated \in Nat /\ untranslated <= Cardinality(Unchanged)
    BY <1>1 DEF Tally
  <2>3. Cardinality(Unchanged) \in Nat /\ Len(cues) \in Nat
    BY <1>1, RunIs
  <2>. QED
    BY <2>1, <2>2, <2>3, FewerIsUsable
<1>2. ASSUME served' # served
      PROVE  LET words == {c \in DOMAIN cues : ~BlankText(cues[c].text)}
             IN  ~Unusable(Cardinality(Unchanged \cap words), Len(cues))
  <2>. DEFINE words == {c \in DOMAIN cues : ~BlankText(cues[c].text)}
              U == Unchanged
  <2>1. Serves /\ active
    BY <1>2, OneStepServes DEF Serves
  <2>2. Len(cues) \in Nat /\ IsFiniteSet(U)
    BY <2>1, RunIs
  <2>3. U \cap words = Spared
    BY DEF Spared, Unchanged
  <2>4. Spared \subseteq U
    BY DEF Spared
  <2>5. Cardinality(Spared) \in Nat
    <3>. HIDE DEF U
    <3>. QED
      BY <2>2, <2>4, FS_Subset, FS_CardinalityType
  <2>6. untranslated \in Nat /\ Cardinality(Spared) <= untranslated
    BY <2>1 DEF Tally
  <2>7. ~Unusable(untranslated, Len(cues))
    BY <2>1 DEF Serves
  <2>8. ~Unusable(Cardinality(Spared), Len(cues))
    <3>. DEFINE s == Cardinality(Spared)
                l == Len(cues)
    <3>1. s \in Nat /\ l \in Nat /\ s <= untranslated
      BY <2>2, <2>5, <2>6
    <3>. HIDE DEF s, l
    <3>2. ~Unusable(s, l)
      BY <2>6, <2>7, <3>1, FewerIsUsable DEF l
    <3>. QED
      BY <3>2 DEF s, l
  <2>. QED
    BY <2>3, <2>8
<1>. QED
  BY <1>1, <1>2

-----------------------------------------------------------------------------
LEMMA ShapeGivesTypes == Shape /\ Tally => HarnessTypeOK
<1>. SUFFICES ASSUME Shape, Tally PROVE HarnessTypeOK
  OBVIOUS
<1>1. \A key \in DOMAIN batchStore : Len(batchStore[key]) = Len(key)
  BY DEF Shape, Says
<1>2. CASE active
  <2>1. /\ Film(cues) /\ Len(cues) \in Nat /\ AllWhole(cues, surfaced, batches)
        /\ Cardinality(Unchanged) \in Nat /\ Cardinality(Unchanged) <= Len(cues)
    BY <1>2, RunIs
  <2>2. untranslated \in 0..Len(cues)
    BY <1>2, <2>1 DEF Tally
  <2>3. NumberOf(cues) \in Nat /\ NumberOf(cues) <= Len(cues) /\ surfaced \in Nat /\ surfaced + 1 \in 1..NumberOf(cues)
        /\ DOMAIN batches = 1..NumberOf(cues)
    BY <1>2, <2>1, CutIs DEF Shape, RunIsWhole
  <2>4. surfaced \in 0..Len(cues)
    BY <2>1, <2>3
  <2>5. ASSUME NEW b \in 1..NumberOf(cues)
        PROVE  /\ batches[b].at \in {"segment", "queued", "calling"} \cup Failures
               /\ batches[b].tries \in 0..Attempts
               /\ Len(batches[b].out) \in 0..Batch
    <3>1. batches[b] \in Records(cues) /\ Whole(cues, surfaced, b, batches[b])
      BY <2>1 DEF AllWhole
    <3>2. Len(batches[b].out) \in Nat /\ Len(batches[b].out) <= Batch
      BY <2>1, <3>1, WholeFits
    <3>3. Len(batches[b].out) \in 0..Batch
      BY <3>2, HarnessAssumption
    <3>. QED
      BY <3>1, <3>3, RecordIs DEF Stages
  <2>. QED
    BY <1>1, <2>2, <2>3, <2>4, <2>5 DEF HarnessTypeOK, Shape
<1>3. CASE ~active
  <2>1. batches = <<>> /\ surfaced = 0 /\ untranslated = 0
    BY <1>3 DEF Shape, IdleRun
  <2>2. 0 \in 0..Len(cues)
    BY SourceIsFilm DEF Shape, Film
  <2>3. DOMAIN batches = {}
    BY <2>1
  <2>. QED
    BY <1>1, <2>1, <2>2, <2>3 DEF HarnessTypeOK, Shape
<1>. QED
  BY <1>2, <1>3 DEF Shape

HarnessInv == Shape /\ StillHeld /\ FewLate /\ Tally /\ ServedIsFilm

LEMMA InvGivesRest == HarnessInv => FewCallsPastDeadline /\ ServedOneForOne
<1>. SUFFICES ASSUME HarnessInv PROVE FewCallsPastDeadline /\ ServedOneForOne
  OBVIOUS
<1>1. HarnessTypeOK
  BY ShapeGivesTypes DEF HarnessInv
<1>2. lateCalls <= Concurrency
  <2>0. Concurrency \in Nat
    BY HarnessAssumption
  <2>1. CASE active /\ late
    <3>1. Cardinality(Queued) \in Nat
      BY <2>1, QueuedIsFew DEF HarnessInv
    <3>. QED
      BY <2>0, <2>1, <3>1 DEF HarnessInv, FewLate
  <2>2. CASE ~late
    BY <2>0, <2>2 DEF HarnessInv, FewLate
  <2>3. CASE ~active
    BY <2>0, <2>3 DEF HarnessInv, Shape, IdleRun
  <2>. QED
    BY <2>1, <2>2, <2>3
<1>3. ServedOneForOne
  BY DEF HarnessInv, ServedIsFilm, OneForOne, MaySay, Fit, ServedOneForOne
<1>. QED
  BY <1>1, <1>2, <1>3 DEF FewCallsPastDeadline

LEMMA InitGivesInv == HarnessInit => HarnessInv
<1>. SUFFICES ASSUME HarnessInit PROVE HarnessInv
  OBVIOUS
<1>1. Shape
  BY InitMakesShape
<1>. QED
  BY <1>1 DEF HarnessInit, Idle, HarnessInv, StillHeld, FewLate, Tally, ServedIsFilm

LEMMA NextKeepsInv == HarnessInv /\ [HarnessNext]_harnessVars => HarnessInv'
BY NextKeepsShape, StillHeldIsKept, FewLateIsKept, TallyIsKept, ServedIsKept DEF HarnessInv

(* Every run keeps its batches whole, its store true, its calls past the   *)
(* deadline few and its count of untranslated cues right (translate.rs     *)
(* `translate_with`, `run_segments`).                                      *)
THEOREM HarnessInvariant == HarnessSpec => []HarnessInv
BY InitGivesInv, NextKeepsInv, PTL DEF HarnessSpec

(* However many batches overlap, split and are retried, no more calls go   *)
(* out past the deadline than the window is wide, for any film, any width  *)
(* and any size of batch.                                                  *)
THEOREM RunsKeepTheirBounds == HarnessSpec => []FewCallsPastDeadline
BY HarnessInvariant, InvGivesRest, PTL

(* What a run serves has the film's cues, one for one, each with its       *)
(* number and its time, and a text that is its own or its translation:     *)
(* through splits, resumptions, cut replies, and once written and read     *)
(* back, whatever blank lines the provider put in.                         *)
THEOREM BodiesReadBack == HarnessSpec => []ServedOneForOne
BY HarnessInvariant, InvGivesRest, PTL

(* A segment that an earlier run had answered in full is not bought again  *)
(* while the store holds it.                                               *)
THEOREM RetriesBuyNothingTwice == HarnessSpec => NothingBoughtTwice
<1>1. HarnessInv /\ [HarnessNext]_harnessVars =>
        [\A b \in DOMAIN batches \cap DOMAIN batches' :
            batches[b].at = "segment" /\ batches'[b].at = "queued" => Sources(b) \notin owned]_harnessVars
  BY NothingTwice DEF HarnessInv
<1>. QED
  BY <1>1, HarnessInvariant, PTL DEF HarnessSpec, NothingBoughtTwice

(* A run is given up on as unusable only when the cues that say what their *)
(* source says are past the bar already, and the film that is served is    *)
(* within it, replayed batches included: for any film and any replies, an  *)
(* echo with line breaks around it or inside it among them.                *)
THEOREM VerdictsAreFinal == HarnessSpec => VerdictIsFinal
<1>1. HarnessInv /\ [HarnessNext]_harnessVars =>
        [/\ (active /\ outcome' = "unusable" /\ ~active')
              => Unusable(Cardinality(Unchanged), Len(cues))
         /\ served' # served
              => LET words == {c \in DOMAIN cues : ~BlankText(cues[c].text)}
                 IN  ~Unusable(Cardinality(Unchanged \cap words), Len(cues))]_harnessVars
  BY VerdictHolds, Zenon DEF HarnessInv
<1>. QED
  BY <1>1, HarnessInvariant, PTL DEF HarnessSpec, VerdictIsFinal

(* What comes in is read one way: a source that passed the streaming test  *)
(* of a download is never empty to a run, and the other way round; and of  *)
(* whatever a model answers, an array is read whole or not at all.         *)
THEOREM EverythingIsReadRight == HarnessSpec => []NothingIsMisread
<1>1. HarnessInv => NothingIsMisread
  <2>. SUFFICES ASSUME HarnessInv PROVE HasACue(source) <=> cues # <<>>
    BY RepliesAreWhole DEF NothingIsMisread
  <2>1. source \in Seq(ToSet(source)) /\ cues = Parse(source)
    BY HarnessAssumption DEF HarnessInv, Shape
  <2>. QED
    BY <2>1, ReadersAgree
<1>. QED
  BY <1>1, HarnessInvariant, PTL

=============================================================================
