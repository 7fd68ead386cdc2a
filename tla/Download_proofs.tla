-------------------------- MODULE Download_proofs --------------------------
(***************************************************************************)
(* Proofs about Download, for any number of requests, files and            *)
(* credentials, any window, waits and retry time: its type, one worker per *)
(* file, that a credit is only spent on the unknown and never without a    *)
(* trace, and that a file is convicted on two occasions.                   *)
(***************************************************************************)
EXTENDS Download, TLAPS

(* What the process and its cache remember: everything but the requests. *)
SharedTypeOK ==
  /\ waiting \in [File -> Seq(Req)]
  /\ line \in [Limit -> Seq(Req)]
  /\ cached \subseteq File
  /\ dead \in [File -> Tag]
  /\ backoff \in [File -> [tag : Tag, until : Nat]]
  /\ strike \in [File -> Nat \cup {Never}]
  /\ unavailable \in [File \X Cred -> Nat]
  /\ paused \in [Limit -> Nat]
  /\ failed \in [File -> [first : Nat \cup {Never}, last : Nat \cup {Never}]]

(* A request asks for something exactly while it is under way. *)
Shape == \A r \in Req : pc[r] = "idle" <=> want[r] = NoWant

Busy(r) == pc[r] \in Phase \ {"idle", "wantsFlight"}

Unknown(w) == w.file \notin cached /\ ~Remembered(w)

(* What the holder of a flight found unknown stays unknown until it ends: only *)
(* it could write a body or a failure of its file.                             *)
HolderSeeksTheUnknown == \A r \in Req : Busy(r) => Unknown(want[r])

(* A strike is kept for a failure since the last success, no later than it. *)
StrikesAreFailures ==
  \A f \in File :
    /\ failed[f].first <= now
    /\ strike[f] # Never => failed[f].first # Never /\ failed[f].first <= strike[f]

IInv ==
  /\ TypeOK
  /\ Shape
  /\ OneWorkerPerFile
  /\ HolderSeeksTheUnknown
  /\ StrikesAreFailures
  /\ ConvictedOnTwoOccasions

LEMMA InitIInv == Init => IInv
<1>. SUFFICES ASSUME Init PROVE IInv
  OBVIOUS
<1>1. TypeOK
  BY DownloadAssumption DEF Init, TypeOK, Phase, Tag, Limit, Never, NoFailure, NoBackoff
<1>2. StrikesAreFailures /\ ConvictedOnTwoOccasions
  BY DEF Init, StrikesAreFailures, ConvictedOnTwoOccasions, NoFailure, Never
<1>. QED
  BY <1>1, <1>2
     DEF Init, IInv, Shape, OneWorkerPerFile, HolderSeeksTheUnknown, Busy, Phase

(* A request under way asks for something there is. *)
LEMMA AsksForSomething ==
  ASSUME IInv, NEW r \in Req, pc[r] # "idle"
  PROVE  /\ want[r] \in Want /\ want[r].allowSparse \in BOOLEAN
         /\ want[r].file \in File /\ want[r].cred \in Cred /\ want[r].cred \in Limit
<1>1. want[r] \in Want
  BY DEF IInv, TypeOK, Shape
<1>. QED
  BY <1>1 DEF Want, Limit

(* The holder of a flight has it to itself. *)
LEMMA HolderIsAlone ==
  ASSUME IInv, NEW r \in Req, Busy(r)
  PROVE  \A q \in Req : q # r /\ Busy(q) => want[q].file # want[r].file
BY DEF IInv, OneWorkerPerFile, Busy

-----------------------------------------------------------------------------
(* Queues *)

LEMMA RemovalIsASequence ==
  ASSUME NEW S, NEW s \in Seq(S), NEW i \in 1..Len(s)
  PROVE  RemoveAt(s, i) \in Seq(S)
<1>1. Len(s) \in Nat
  OBVIOUS
<1>2. SubSeq(s, 1, i-1) \in Seq(S) /\ SubSeq(s, i+1, Len(s)) \in Seq(S)
  BY <1>1
<1>. QED
  BY <1>2 DEF RemoveAt

LEMMA QueueingIsTyped ==
  ASSUME IInv, NEW r \in Req
  PROVE  /\ \A f \in File :
              /\ [waiting EXCEPT ![f] = Append(@, r)] \in [File -> Seq(Req)]
              /\ waiting[f] # <<>> => [waiting EXCEPT ![f] = Tail(@)] \in [File -> Seq(Req)]
         /\ \A l \in Limit :
              /\ [line EXCEPT ![l] = Append(@, r)] \in [Limit -> Seq(Req)]
              /\ line[l] # <<>> => [line EXCEPT ![l] = Tail(@)] \in [Limit -> Seq(Req)]
<1>1. ASSUME NEW f \in File
      PROVE  /\ [waiting EXCEPT ![f] = Append(@, r)] \in [File -> Seq(Req)]
             /\ waiting[f] # <<>> => [waiting EXCEPT ![f] = Tail(@)] \in [File -> Seq(Req)]
  <2>1. waiting[f] \in Seq(Req)
    BY DEF IInv, TypeOK
  <2>2. Append(waiting[f], r) \in Seq(Req) /\ (waiting[f] # <<>> => Tail(waiting[f]) \in Seq(Req))
    BY <2>1
  <2>. QED
    BY <2>2 DEF IInv, TypeOK
<1>2. ASSUME NEW l \in Limit
      PROVE  /\ [line EXCEPT ![l] = Append(@, r)] \in [Limit -> Seq(Req)]
             /\ line[l] # <<>> => [line EXCEPT ![l] = Tail(@)] \in [Limit -> Seq(Req)]
  <2>1. line[l] \in Seq(Req)
    BY DEF IInv, TypeOK
  <2>2. Append(line[l], r) \in Seq(Req) /\ (line[l] # <<>> => Tail(line[l]) \in Seq(Req))
    BY <2>1
  <2>. QED
    BY <2>2 DEF IInv, TypeOK
<1>. QED
  BY <1>1, <1>2

-----------------------------------------------------------------------------
(* Steps by what they do to the request *)

(* A request that ends may settle its own file, if nobody else is busy with it. *)
LEMMA EndingKeepsIInv ==
  ASSUME IInv, NEW r \in Req, pc[r] # "idle", End(r), UNCHANGED <<now, losses>>,
         SharedTypeOK', StrikesAreFailures', ConvictedOnTwoOccasions',
         \A w \in Want : Unknown(w) =>
            \/ Unknown(w)'
            \/ w.file = want[r].file /\ Busy(r)
  PROVE  IInv'
<1>1. TypeOK'
  BY DEF IInv, TypeOK, SharedTypeOK, End, Phase
<1>2. Shape'
  BY DEF IInv, TypeOK, Shape, End
<1>3. \A q \in Req : pc'[q] # "idle" => q # r /\ pc'[q] = pc[q] /\ want'[q] = want[q]
  BY DEF IInv, TypeOK, End
<1>4. OneWorkerPerFile'
  BY <1>3 DEF IInv, OneWorkerPerFile
<1>5. HolderSeeksTheUnknown'
  <2>. SUFFICES ASSUME NEW q \in Req, Busy(q)' PROVE Unknown(want[q])'
    BY DEF HolderSeeksTheUnknown
  <2>1. q # r /\ pc[q] # "idle" /\ Busy(q) /\ want'[q] = want[q]
    BY <1>3 DEF Busy
  <2>2. PICK w \in Want : w = want[q]
    BY <2>1, AsksForSomething
  <2>3. Unknown(w) /\ ~(w.file = want[r].file /\ Busy(r))
    BY <2>1, <2>2, HolderIsAlone DEF IInv, HolderSeeksTheUnknown
  <2>4. Unknown(w)'
    BY <2>3
  <2>. QED
    BY <2>1, <2>2, <2>4 DEF Unknown, Remembered
<1>. QED
  BY <1>1, <1>2, <1>4, <1>5 DEF IInv

(* A request that goes on holds its flight, which nobody else holds, for what *)
(* is unknown.                                                                *)
LEMMA GoingOnKeepsIInv ==
  ASSUME IInv, NEW r \in Req, pc[r] # "idle", NEW p \in Phase \ {"idle", "wantsFlight"},
         pc' = [pc EXCEPT ![r] = p], UNCHANGED <<now, losses, want>>,
         SharedTypeOK', StrikesAreFailures', ConvictedOnTwoOccasions',
         \A q \in Req : q # r /\ Busy(q) => want[q].file # want[r].file,
         Unknown(want[r]),
         \A w \in Want : Unknown(w) => Unknown(w)'
  PROVE  IInv'
<1>1. TypeOK'
  BY DEF IInv, TypeOK, SharedTypeOK
<1>2. pc'[r] = p /\ \A q \in Req : q # r => pc'[q] = pc[q]
  BY DEF IInv, TypeOK
<1>3. Shape'
  BY <1>2 DEF IInv, Shape
<1>4. OneWorkerPerFile'
  BY <1>2 DEF IInv, OneWorkerPerFile, Busy
<1>5. HolderSeeksTheUnknown'
  <2>. SUFFICES ASSUME NEW q \in Req, Busy(q)' PROVE Unknown(want[q])'
    BY DEF HolderSeeksTheUnknown
  <2>1. pc[q] # "idle" /\ Unknown(want[q])
    BY <1>2 DEF IInv, HolderSeeksTheUnknown, Busy
  <2>2. PICK w \in Want : w = want[q]
    BY <2>1, AsksForSomething
  <2>3. Unknown(w)'
    BY <2>1, <2>2
  <2>. QED
    BY <2>2, <2>3 DEF Unknown, Remembered
<1>. QED
  BY <1>1, <1>3, <1>4, <1>5 DEF IInv

(* A step that moves no request and learns nothing new of a file. *)
LEMMA SurroundingsKeepIInv ==
  ASSUME IInv, now' \in 0..MaxTime, losses' \in 0..MaxLosses, UNCHANGED <<pc, want>>,
         SharedTypeOK', StrikesAreFailures', ConvictedOnTwoOccasions',
         \A w \in Want : Unknown(w) => Unknown(w)'
  PROVE  IInv'
<1>1. TypeOK'
  BY DEF IInv, TypeOK, SharedTypeOK
<1>2. Shape' /\ OneWorkerPerFile'
  BY DEF IInv, Shape, OneWorkerPerFile
<1>3. HolderSeeksTheUnknown'
  <2>. SUFFICES ASSUME NEW q \in Req, Busy(q)' PROVE Unknown(want[q])'
    BY DEF HolderSeeksTheUnknown
  <2>1. pc[q] # "idle" /\ Unknown(want[q])
    BY DEF IInv, HolderSeeksTheUnknown, Busy
  <2>2. PICK w \in Want : w = want[q]
    BY <2>1, AsksForSomething
  <2>3. Unknown(w)'
    BY <2>1, <2>2
  <2>. QED
    BY <2>2, <2>3 DEF Unknown, Remembered
<1>. QED
  BY <1>1, <1>2, <1>3 DEF IInv

-----------------------------------------------------------------------------
(* What is learned of files *)

(* What lapses or is forgotten leaves the unknown unknown. *)
LEMMA ForgettingTeachesNothing ==
  ASSUME IInv, now' \in Nat, now' >= now, cached' \subseteq cached, failed' = failed,
         \A f \in File : dead'[f] \in {dead[f], "none"},
         \A f \in File : backoff'[f] \in {backoff[f], NoBackoff},
         \A f \in File : strike'[f] \in {strike[f], Never},
         \A x \in File \X Cred : unavailable'[x] \in {unavailable[x], 0}
  PROVE  /\ \A w \in Want : Unknown(w) => Unknown(w)'
         /\ StrikesAreFailures'
         /\ ConvictedOnTwoOccasions'
<1>1. ASSUME NEW w \in Want, Unknown(w) PROVE Unknown(w)'
  <2>1. w.file \in File /\ w.cred \in Cred /\ <<w.file, w.cred>> \in File \X Cred
    BY DEF Want
  <2>2. w.file \notin cached'
    BY <1>1 DEF Unknown
  <2>3. dead'[w.file] \notin {"gone", "suspect"}
    BY <1>1, <2>1 DEF Unknown, Remembered
  <2>4. ~(backoff'[w.file].until > now' /\ ~(w.allowSparse /\ backoff'[w.file].tag = "sparse"))
    <3>1. CASE backoff'[w.file] = backoff[w.file]
      <4>1. backoff[w.file].until \in Nat
        BY <2>1 DEF IInv, TypeOK
      <4>2. ~(backoff[w.file].until > now) \/ (w.allowSparse /\ backoff[w.file].tag = "sparse")
        BY <1>1 DEF Unknown, Remembered
      <4>3. ~(backoff[w.file].until > now) => ~(backoff[w.file].until > now')
        BY <4>1 DEF IInv, TypeOK
      <4>. QED
        BY <3>1, <4>2, <4>3
    <3>2. CASE backoff'[w.file] = NoBackoff
      BY <3>2 DEF NoBackoff
    <3>. QED
      BY <2>1, <3>1, <3>2
  <2>5. ~(unavailable'[<<w.file, w.cred>>] > now')
    <3>1. unavailable[<<w.file, w.cred>>] \in Nat /\ ~(unavailable[<<w.file, w.cred>>] > now)
      BY <1>1, <2>1 DEF Unknown, Remembered, IInv, TypeOK
    <3>2. unavailable'[<<w.file, w.cred>>] \in {unavailable[<<w.file, w.cred>>], 0}
      BY <2>1
    <3>. QED
      BY <3>1, <3>2 DEF IInv, TypeOK
  <2>. QED
    BY <2>2, <2>3, <2>4, <2>5 DEF Unknown, Remembered
<1>2. StrikesAreFailures'
  BY DEF IInv, TypeOK, StrikesAreFailures, Never
<1>3. ConvictedOnTwoOccasions'
  BY DEF IInv, ConvictedOnTwoOccasions
<1>. QED
  BY <1>1, <1>2, <1>3

(* Most steps touch no marker at all. *)
LEMMA NothingIsLearned ==
  ASSUME IInv, UNCHANGED <<now, cached, backoff, strike, unavailable, failed>>,
         \/ dead' = dead
         \/ \E f \in File : dead' = Purged(f)
  PROVE  /\ \A w \in Want : Unknown(w) => Unknown(w)'
         /\ StrikesAreFailures'
         /\ ConvictedOnTwoOccasions'
         /\ dead' \in [File -> Tag]
<1>1. \A f \in File : dead'[f] \in {dead[f], "none"}
  BY DEF Purged, IInv, TypeOK
<1>2. dead' \in [File -> Tag]
  BY DEF Purged, IInv, TypeOK, Tag
<1>3. now' \in Nat /\ now' >= now
  BY DownloadAssumption DEF IInv, TypeOK
<1>. QED
  BY <1>1, <1>2, <1>3, ForgettingTeachesNothing

LEMMA PausingIsTyped ==
  ASSUME IInv, NEW l \in Limit, Pause(l)
  PROVE  paused' \in [Limit -> Nat]
<1>1. PICK w \in Waits : paused' = [paused EXCEPT ![l] = Most(@, now + w)]
  BY DEF Pause
<1>2. w \in Nat /\ now \in Nat /\ paused[l] \in Nat
  BY DownloadAssumption DEF IInv, TypeOK
<1>3. Most(paused[l], now + w) \in Nat
  BY <1>2 DEF Most
<1>. QED
  BY <1>1, <1>3 DEF IInv, TypeOK

Kind == {"gone", "unavailable", "suspect", "sparse"}

(* What a failure leaves behind, if nothing is paused. *)
LEMMA RememberingIsTyped ==
  ASSUME IInv, NEW r \in Req, Busy(r), NEW kind \in Kind, Remember(want[r], kind)
  PROVE  /\ dead' \in [File -> Tag]
         /\ backoff' \in [File -> [tag : Tag, until : Nat]]
         /\ strike' \in [File -> Nat \cup {Never}]
         /\ unavailable' \in [File \X Cred -> Nat]
<1>. DEFINE w == want[r]
<1>1. pc[r] # "idle"
  BY DEF Busy
<1>2. w.file \in File /\ w.cred \in Cred /\ <<w.file, w.cred>> \in File \X Cred
  BY <1>1, AsksForSomething
<1>3. now \in Nat /\ RetryAt \in Nat
  BY DownloadAssumption DEF IInv, TypeOK, RetryAt
<1>4. dead' \in [File -> Tag]
  BY <1>2 DEF Remember, IInv, TypeOK, Tag
<1>5. kind \in {"suspect", "sparse"} => [tag |-> kind, until |-> RetryAt] \in [tag : Tag, until : Nat]
  BY <1>3 DEF Tag
<1>6. backoff' \in [File -> [tag : Tag, until : Nat]]
  BY <1>2, <1>5 DEF Remember, IInv, TypeOK
<1>7. strike' \in [File -> Nat \cup {Never}]
  BY <1>2, <1>3 DEF Remember, IInv, TypeOK
<1>8. unavailable' \in [File \X Cred -> Nat]
  BY <1>2, <1>3 DEF Remember, IInv, TypeOK
<1>. QED
  BY <1>4, <1>6, <1>7, <1>8

(* A failure: its worker ends, and only markers of its own file change. *)
LEMMA FailingKeepsIInv ==
  ASSUME IInv, NEW r \in Req, Busy(r), NEW kind \in Kind, Fail(r, kind),
         line' \in [Limit -> Seq(Req)], paused' \in [Limit -> Nat]
  PROVE  IInv'
<1>. DEFINE f == want[r].file
            silent == UNCHANGED <<dead, backoff, strike, unavailable>>
<1>1. pc[r] # "idle" /\ End(r) /\ UNCHANGED <<now, waiting, cached, losses>>
  BY DEF Fail, Busy
<1>2. f \in File /\ want[r].cred \in Cred /\ now \in Nat
  BY <1>1, AsksForSomething, DownloadAssumption DEF IInv, TypeOK
<1>3. silent \/ Remember(want[r], kind)
  BY DEF Fail
<1>4. failed' = IF kind = "suspect"
                THEN [failed EXCEPT ![f] = [first |-> IF failed[f].first = Never THEN now
                                                      ELSE failed[f].first,
                                            last |-> now]]
                ELSE failed
  BY DEF Fail
<1>5. failed' \in [File -> [first : Nat \cup {Never}, last : Nat \cup {Never}]]
  <2>1. failed[f].first \in Nat \cup {Never}
    BY <1>2 DEF IInv, TypeOK
  <2>. QED
    BY <1>2, <1>4, <2>1 DEF IInv, TypeOK
<1>6. SharedTypeOK'
  <2>1. /\ dead' \in [File -> Tag]
        /\ backoff' \in [File -> [tag : Tag, until : Nat]]
        /\ strike' \in [File -> Nat \cup {Never}]
        /\ unavailable' \in [File \X Cred -> Nat]
    <3>1. CASE silent
      BY <3>1 DEF IInv, TypeOK
    <3>2. CASE Remember(want[r], kind)
      BY <3>2, RememberingIsTyped
    <3>. QED
      BY <1>3, <3>1, <3>2
  <2>2. waiting' \in [File -> Seq(Req)] /\ cached' \subseteq File
    BY <1>1 DEF IInv, TypeOK
  <2>. QED
    BY <1>5, <2>1, <2>2 DEF SharedTypeOK
<1>7. \A g \in File \ {f} :
        /\ dead'[g] = dead[g] /\ backoff'[g] = backoff[g] /\ strike'[g] = strike[g]
        /\ failed'[g] = failed[g]
        /\ \A c \in Cred : unavailable'[<<g, c>>] = unavailable[<<g, c>>]
  <2>1. \A g \in File \ {f} : failed'[g] = failed[g]
    BY <1>2, <1>4 DEF IInv, TypeOK
  <2>2. CASE silent
    BY <2>1, <2>2
  <2>3. CASE Remember(want[r], kind)
    BY <1>2, <2>1, <2>3 DEF Remember, IInv, TypeOK
  <2>. QED
    BY <1>3, <2>2, <2>3
<1>8. \A w \in Want : Unknown(w) => Unknown(w)' \/ (w.file = f /\ Busy(r))
  <2>. SUFFICES ASSUME NEW w \in Want, w.file # f, Unknown(w) PROVE Unknown(w)'
    OBVIOUS
  <2>1. w.file \in File \ {f} /\ w.cred \in Cred
    BY DEF Want
  <2>. QED
    BY <1>1, <1>7, <2>1 DEF Unknown, Remembered
<1>9. /\ dead[f] # "suspect"
      /\ strike[f] \in Nat \cup {Never} /\ failed[f].first \in Nat \cup {Never}
      /\ failed[f].first <= now
      /\ strike[f] # Never => failed[f].first # Never /\ failed[f].first <= strike[f]
  <2>1. dead[f] # "suspect"
    BY DEF IInv, HolderSeeksTheUnknown, Unknown, Remembered
  <2>. QED
    BY <1>2, <2>1 DEF IInv, TypeOK, StrikesAreFailures
<1>10. /\ failed'[f].first <= now
       /\ strike'[f] # Never => failed'[f].first # Never /\ failed'[f].first <= strike'[f]
       /\ dead'[f] = "suspect" =>
            failed'[f].first # Never /\ failed'[f].last - failed'[f].first >= Retry
  <2>1. kind # "suspect" => failed' = failed /\ strike'[f] = strike[f] /\ dead'[f] # "suspect"
    <3>1. CASE silent
      BY <1>4, <1>9, <3>1
    <3>2. CASE Remember(want[r], kind)
      BY <1>2, <1>4, <1>9, <3>2 DEF Remember, IInv, TypeOK
    <3>. QED
      BY <1>3, <3>1, <3>2
  <2>2. kind = "suspect" =>
          /\ failed'[f].first = IF failed[f].first = Never THEN now ELSE failed[f].first
          /\ failed'[f].last = now
    BY <1>2, <1>4 DEF IInv, TypeOK
  <2>3. kind = "suspect" =>
          /\ strike'[f] = strike[f] \/ (strike[f] = Never /\ strike'[f] = now)
          /\ dead'[f] = "suspect" => strike[f] # Never /\ now - strike[f] >= Retry
    <3>1. CASE silent
      BY <1>9, <3>1
    <3>2. CASE Remember(want[r], kind)
      BY <1>2, <1>9, <3>2 DEF Remember, IInv, TypeOK
    <3>. QED
      BY <1>3, <3>1, <3>2
  <2>4. CASE kind # "suspect"
    BY <1>9, <2>1, <2>4
  <2>5. CASE kind = "suspect"
    <3>1. Retry \in Nat
      BY DownloadAssumption
    <3>. QED
      BY <1>2, <1>9, <2>2, <2>3, <2>5, <3>1 DEF Never
  <2>. QED
    BY <2>4, <2>5
<1>11. StrikesAreFailures'
  BY <1>1, <1>7, <1>10 DEF IInv, StrikesAreFailures
<1>12. ConvictedOnTwoOccasions'
  BY <1>7, <1>10 DEF IInv, ConvictedOnTwoOccasions
<1>. QED
  BY <1>1, <1>6, <1>8, <1>11, <1>12, EndingKeepsIInv

-----------------------------------------------------------------------------
(* One lemma per kind of action *)

(* What an instance's requests ask for is something a request may ask.     *)
LEMMA AskedIsWanted == Asked \subseteq Want
BY DownloadAssumption DEF Want

LEMMA AskKeepsIInv ==
  ASSUME IInv, NEW r \in Req, NEW w \in Want, Ask(r, w)
  PROVE  IInv'
<1>1. w.file \in File /\ w # NoWant
  BY DownloadAssumption DEF Want
<1>2. waiting' \in [File -> Seq(Req)]
  BY <1>1, QueueingIsTyped DEF Ask
<1>3. /\ \A x \in Want : Unknown(x) => Unknown(x)'
      /\ StrikesAreFailures' /\ ConvictedOnTwoOccasions'
      /\ dead' \in [File -> Tag]
  BY <1>1, NothingIsLearned DEF Ask
<1>4. TypeOK'
  BY <1>2, <1>3 DEF Ask, IInv, TypeOK, Phase
<1>5. /\ pc'[r] = "wantsFlight" /\ want'[r] = w
      /\ \A q \in Req : q # r => pc'[q] = pc[q] /\ want'[q] = want[q]
  BY DEF Ask, IInv, TypeOK
<1>6. Shape'
  BY <1>1, <1>5 DEF IInv, Shape
<1>7. OneWorkerPerFile'
  BY <1>5 DEF IInv, OneWorkerPerFile
<1>8. HolderSeeksTheUnknown'
  <2>. SUFFICES ASSUME NEW q \in Req, Busy(q)' PROVE Unknown(want[q])'
    BY DEF HolderSeeksTheUnknown
  <2>1. q # r /\ pc[q] # "idle" /\ Unknown(want[q]) /\ want'[q] = want[q]
    BY <1>5 DEF IInv, HolderSeeksTheUnknown, Busy
  <2>2. PICK x \in Want : x = want[q]
    BY <2>1, AsksForSomething
  <2>3. Unknown(x)'
    BY <1>3, <2>1, <2>2
  <2>. QED
    BY <2>1, <2>2, <2>3 DEF Unknown, Remembered
<1>. QED
  BY <1>3, <1>4, <1>6, <1>7, <1>8 DEF IInv

(* A request that was refused only removes the marker of an earlier release. *)
LEMMA AskInVainKeepsIInv ==
  ASSUME IInv, NEW w \in Want, AskInVain(w)
  PROVE  IInv'
<1>1. w.file \in File
  BY DEF Want
<1>2. /\ \A x \in Want : Unknown(x) => Unknown(x)'
      /\ StrikesAreFailures' /\ ConvictedOnTwoOccasions'
      /\ dead' \in [File -> Tag]
  BY <1>1, NothingIsLearned DEF AskInVain, PurgeUnlessCached
<1>3. SharedTypeOK' /\ now' \in 0..MaxTime /\ losses' \in 0..MaxLosses /\ UNCHANGED <<pc, want>>
  BY <1>2 DEF AskInVain, SharedTypeOK, IInv, TypeOK
<1>. QED
  BY <1>2, <1>3, SurroundingsKeepIInv

LEMMA TakeFlightKeepsIInv ==
  ASSUME IInv, NEW r \in Req, TakeFlight(r)
  PROVE  IInv'
<1>1. pc[r] = "wantsFlight" /\ waiting[want[r].file] # <<>> /\ Unknown(want[r])
  BY DEF TakeFlight, NextInFlight, Refused, Unknown
<1>2. want[r].file \in File /\ want[r].cred \in Limit
  BY <1>1, AsksForSomething
<1>3. \A q \in Req : q # r /\ Busy(q) => want[q].file # want[r].file
  BY DEF TakeFlight, NextInFlight, InFlight, Busy
<1>4. /\ \A x \in Want : Unknown(x) => Unknown(x)'
      /\ StrikesAreFailures' /\ ConvictedOnTwoOccasions'
      /\ dead' \in [File -> Tag]
  BY <1>2, NothingIsLearned DEF TakeFlight
<1>5. waiting' \in [File -> Seq(Req)] /\ line' \in [Limit -> Seq(Req)]
  BY <1>1, <1>2, QueueingIsTyped DEF TakeFlight
<1>6. SharedTypeOK'
  BY <1>4, <1>5 DEF TakeFlight, SharedTypeOK, IInv, TypeOK
<1>7. pc' = [pc EXCEPT ![r] = "wantsPermit"] /\ UNCHANGED <<now, losses, want>>
  BY DEF TakeFlight
<1>. QED
  BY <1>1, <1>3, <1>4, <1>6, <1>7, GoingOnKeepsIInv DEF Phase

(* A holder that goes on: admitted, posted, linked or fetching. *)
LEMMA HolderGoesOnKeepsIInv ==
  ASSUME IInv, NEW r \in Req, Busy(r),
         NEW p \in {"admitted", "posted", "linked", "fetching"}, pc' = [pc EXCEPT ![r] = p],
         line' \in [Limit -> Seq(Req)], paused' \in [Limit -> Nat],
         UNCHANGED <<now, want, waiting, cached, dead, backoff, strike, unavailable, losses,
                     failed>>
  PROVE  IInv'
<1>1. pc[r] # "idle" /\ Unknown(want[r])
  BY DEF Busy, IInv, HolderSeeksTheUnknown
<1>2. /\ \A x \in Want : Unknown(x) => Unknown(x)'
      /\ StrikesAreFailures' /\ ConvictedOnTwoOccasions'
  BY NothingIsLearned
<1>3. SharedTypeOK'
  BY DEF SharedTypeOK, IInv, TypeOK
<1>. QED
  BY <1>1, <1>2, <1>3, HolderIsAlone, GoingOnKeepsIInv DEF Phase

(* A request that ends without having learned anything. *)
LEMMA EndingInVainKeepsIInv ==
  ASSUME IInv, NEW r \in Req, pc[r] # "idle", End(r),
         waiting' \in [File -> Seq(Req)], line' \in [Limit -> Seq(Req)],
         dead' = dead \/ dead' = Purged(want[r].file),
         UNCHANGED <<now, cached, backoff, strike, unavailable, paused, losses, failed>>
  PROVE  IInv'
<1>1. want[r].file \in File
  BY AsksForSomething
<1>2. /\ \A x \in Want : Unknown(x) => Unknown(x)'
      /\ StrikesAreFailures' /\ ConvictedOnTwoOccasions'
      /\ dead' \in [File -> Tag]
  BY <1>1, NothingIsLearned
<1>3. SharedTypeOK'
  BY <1>2 DEF SharedTypeOK, IInv, TypeOK
<1>. QED
  BY <1>2, <1>3, EndingKeepsIInv

LEMMA LeaveKeepsIInv ==
  ASSUME IInv, NEW r \in Req, Leave(r)
  PROVE  IInv'
<1>1. pc[r] # "idle" /\ End(r)
  BY DEF Leave
<1>2. want[r].file \in File /\ want[r].cred \in Limit
  BY <1>1, AsksForSomething
<1>3. waiting' \in [File -> Seq(Req)] /\ line' \in [Limit -> Seq(Req)]
  <2>1. CASE pc[r] = "wantsFlight"
    <3>1. PICK i \in 1..Len(waiting[want[r].file]) :
            waiting' = [waiting EXCEPT ![want[r].file] = RemoveAt(@, i)]
      BY <2>1 DEF Leave
    <3>2. RemoveAt(waiting[want[r].file], i) \in Seq(Req)
      BY <1>2, RemovalIsASequence DEF IInv, TypeOK
    <3>. QED
      BY <1>2, <2>1, <3>1, <3>2 DEF Leave, IInv, TypeOK
  <2>2. CASE pc[r] = "wantsPermit"
    <3>1. PICK i \in 1..Len(line[want[r].cred]) :
            line' = [line EXCEPT ![want[r].cred] = RemoveAt(@, i)]
      BY <2>2 DEF Leave
    <3>2. RemoveAt(line[want[r].cred], i) \in Seq(Req)
      BY <1>2, RemovalIsASequence DEF IInv, TypeOK
    <3>. QED
      BY <1>2, <2>2, <3>1, <3>2 DEF Leave, IInv, TypeOK
  <2>. QED
    BY <2>1, <2>2 DEF Leave
<1>. QED
  BY <1>1, <1>3, EndingInVainKeepsIInv DEF Leave

LEMMA SettledMeanwhileKeepsIInv ==
  ASSUME IInv, NEW r \in Req, SettledMeanwhile(r)
  PROVE  IInv'
<1>1. pc[r] # "idle" /\ End(r) /\ waiting[want[r].file] # <<>>
  BY DEF SettledMeanwhile, NextInFlight
<1>2. want[r].file \in File
  BY <1>1, AsksForSomething
<1>3. waiting' \in [File -> Seq(Req)] /\ line' \in [Limit -> Seq(Req)]
  BY <1>1, <1>2, QueueingIsTyped DEF SettledMeanwhile, IInv, TypeOK
<1>. QED
  BY <1>1, <1>3, EndingInVainKeepsIInv DEF SettledMeanwhile, PurgeUnlessCached

LEMMA AdmitKeepsIInv ==
  ASSUME IInv, NEW r \in Req, Admit(r) \/ Post(r)
  PROVE  IInv'
<1>1. pc[r] \in {"wantsPermit", "admitted"} /\ pc[r] # "idle" /\ Busy(r)
  BY DEF Admit, Post, Busy, Phase
<1>2. want[r].cred \in Limit
  BY <1>1, AsksForSomething
<1>3. line' \in [Limit -> Seq(Req)]
  <2>1. CASE Admit(r)
    BY <1>2, <2>1, QueueingIsTyped DEF Admit, Admissible
  <2>2. CASE Post(r)
    BY <2>2 DEF Post, IInv, TypeOK
  <2>. QED
    BY <2>1, <2>2
<1>4. /\ UNCHANGED <<now, waiting, cached, dead, backoff, strike, unavailable, paused, losses,
                     failed>>
      /\ waiting' \in [File -> Seq(Req)] /\ paused' \in [Limit -> Nat]
  BY DEF Admit, Post, IInv, TypeOK
<1>5. CASE End(r)
  BY <1>1, <1>3, <1>4, <1>5, EndingInVainKeepsIInv
<1>6. CASE \E p \in {"admitted", "posted"} : pc' = [pc EXCEPT ![r] = p] /\ UNCHANGED want
  BY <1>1, <1>3, <1>4, <1>6, HolderGoesOnKeepsIInv
<1>. QED
  BY <1>5, <1>6 DEF Admit, Post

LEMMA ExchangeGoesOnKeepsIInv ==
  ASSUME IInv, NEW r \in Req, PostAnswered(r) \/ Fetch(r)
  PROVE  IInv'
<1>1. pc[r] # "idle" /\ Busy(r)
  BY DEF PostAnswered, Fetch, Busy, Phase
<1>2. want[r].cred \in Limit /\ Cdn \in Limit
  BY <1>1, AsksForSomething DEF Limit
<1>3. line' \in [Limit -> Seq(Req)]
  <2>1. CASE PostAnswered(r)
    BY <1>2, <2>1, QueueingIsTyped DEF PostAnswered
  <2>2. CASE Fetch(r)
    BY <1>2, <2>2, QueueingIsTyped DEF Fetch, Admissible
  <2>. QED
    BY <2>1, <2>2
<1>4. paused' \in [Limit -> Nat]
  BY <1>2, PausingIsTyped DEF PostAnswered, Fetch, IInv, TypeOK
<1>5. \E p \in {"linked", "fetching"} : pc' = [pc EXCEPT ![r] = p]
  BY DEF PostAnswered, Fetch
<1>6. UNCHANGED <<now, want, waiting, cached, dead, backoff, strike, unavailable, losses, failed>>
  BY DEF PostAnswered, Fetch
<1>. QED
  BY <1>1, <1>3, <1>4, <1>5, <1>6, HolderGoesOnKeepsIInv

Fails(r) ==
  PostThrottled(r) \/ PostFailed(r) \/ FetchHeldBack(r) \/ FetchThrottled(r) \/ FetchFailed(r)

(* Which kinds of failure there are: a sparse body only fails who does not accept it. *)
LEMMA FailuresAreOfAKind ==
  ASSUME NEW r \in Req, Fails(r)
  PROVE  \E kind \in Kind : Fail(r, kind) /\ (kind = "sparse" => ~want[r].allowSparse)
<1>1. CASE PostThrottled(r) \/ FetchHeldBack(r) \/ FetchThrottled(r)
  BY <1>1 DEF PostThrottled, FetchHeldBack, FetchThrottled, Kind
<1>2. CASE PostFailed(r)
  BY <1>2 DEF PostFailed, Kind
<1>3. CASE FetchFailed(r)
  BY <1>3 DEF FetchFailed, Kind
<1>. QED
  BY <1>1, <1>2, <1>3 DEF Fails

LEMMA ExchangeFailsKeepsIInv ==
  ASSUME IInv, NEW r \in Req, Fails(r)
  PROVE  IInv'
<1>1. pc[r] # "idle" /\ Busy(r)
  BY DEF Fails, PostThrottled, PostFailed, FetchHeldBack, FetchThrottled, FetchFailed,
         Busy, Phase
<1>2. want[r].cred \in Limit /\ Cdn \in Limit
  BY <1>1, AsksForSomething DEF Limit
<1>3. line' \in [Limit -> Seq(Req)]
  <2>1. CASE FetchHeldBack(r)
    BY <1>2, <2>1, QueueingIsTyped DEF FetchHeldBack, Admissible
  <2>2. CASE ~FetchHeldBack(r)
    BY <2>2 DEF Fails, PostThrottled, PostFailed, FetchThrottled, FetchFailed, IInv, TypeOK
  <2>. QED
    BY <2>1, <2>2
<1>4. paused' \in [Limit -> Nat]
  BY <1>2, PausingIsTyped
     DEF Fails, PostThrottled, PostFailed, FetchHeldBack, FetchThrottled, FetchFailed,
         IInv, TypeOK
<1>5. PICK kind \in Kind : Fail(r, kind)
  BY FailuresAreOfAKind
<1>. QED
  BY <1>1, <1>3, <1>4, <1>5, FailingKeepsIInv

(* A success writes the body of its file, and forgets its strikes. *)
LEMMA FetchAnsweredKeepsIInv ==
  ASSUME IInv, NEW r \in Req, FetchAnswered(r)
  PROVE  IInv'
<1>. DEFINE f == want[r].file
<1>1. pc[r] # "idle" /\ Busy(r) /\ End(r) /\ UNCHANGED <<now, losses, dead, unavailable>>
  BY DEF FetchAnswered, Forget, Busy, Phase
<1>2. f \in File
  BY <1>1, AsksForSomething
<1>3. SharedTypeOK'
  BY <1>2 DEF FetchAnswered, Forget, SharedTypeOK, IInv, TypeOK, NoBackoff, NoFailure, Tag, Never
<1>4. \A g \in File :
        IF g = f THEN failed'[g] = NoFailure /\ strike'[g] = Never
        ELSE /\ failed'[g] = failed[g] /\ strike'[g] = strike[g]
             /\ backoff'[g] = backoff[g] /\ (g \in cached' => g \in cached)
  BY <1>2 DEF FetchAnswered, Forget, IInv, TypeOK
<1>5. StrikesAreFailures'
  <2>1. Never <= now
    BY DownloadAssumption DEF IInv, TypeOK, Never
  <2>. QED
    BY <1>1, <1>4, <2>1 DEF IInv, StrikesAreFailures, NoFailure
<1>6. dead[f] # "suspect"
  BY <1>1 DEF IInv, HolderSeeksTheUnknown, Unknown, Remembered
<1>7. ConvictedOnTwoOccasions'
  BY <1>1, <1>4, <1>6 DEF IInv, ConvictedOnTwoOccasions
<1>8. \A w \in Want : Unknown(w) => Unknown(w)' \/ (w.file = f /\ Busy(r))
  <2>. SUFFICES ASSUME NEW w \in Want, w.file # f, Unknown(w) PROVE Unknown(w)'
    BY <1>1
  <2>1. w.file \in File
    BY DEF Want
  <2>. QED
    BY <1>1, <1>4, <2>1 DEF Unknown, Remembered
<1>. QED
  BY <1>1, <1>3, <1>5, <1>7, <1>8, EndingKeepsIInv

LEMMA SurroundingActionsKeepIInv ==
  ASSUME IInv, Tick \/ (\E c \in Cred : SearchThrottled(c)) \/ \E f \in File : Lose(f)
  PROVE  IInv'
<1>1. UNCHANGED <<pc, want>> /\ now' \in 0..MaxTime /\ losses' \in 0..MaxLosses
  BY DownloadAssumption DEF Tick, SearchThrottled, Lose, IInv, TypeOK
<1>2. now' \in Nat /\ now' >= now
  BY DownloadAssumption DEF Tick, SearchThrottled, Lose, IInv, TypeOK
<1>3. paused' \in [Limit -> Nat]
  <2>1. CASE \E c \in Cred : SearchThrottled(c)
    BY <2>1, PausingIsTyped DEF SearchThrottled, Limit
  <2>2. CASE Tick \/ \E f \in File : Lose(f)
    BY <2>2 DEF Tick, Lose, IInv, TypeOK
  <2>. QED
    BY <2>1, <2>2
<1>4. /\ dead' \in [File -> Tag] /\ strike' \in [File -> Nat \cup {Never}]
      /\ backoff' \in [File -> [tag : Tag, until : Nat]]
  <2>1. "none" \in Tag /\ NoBackoff \in [tag : Tag, until : Nat]
    BY DEF Tag, NoBackoff
  <2>. QED
    BY <2>1 DEF Tick, SearchThrottled, Lose, IInv, TypeOK
<1>5. UNCHANGED <<waiting, line, unavailable, failed>> /\ cached' \subseteq cached
  BY DEF Tick, SearchThrottled, Lose
<1>6. SharedTypeOK'
  BY <1>3, <1>4, <1>5 DEF SharedTypeOK, IInv, TypeOK
<1>7. \A f \in File : /\ dead'[f] \in {dead[f], "none"}
                     /\ backoff'[f] \in {backoff[f], NoBackoff}
                     /\ strike'[f] \in {strike[f], Never}
  BY DEF Tick, SearchThrottled, Lose, IInv, TypeOK
<1>8. /\ \A w \in Want : Unknown(w) => Unknown(w)'
      /\ StrikesAreFailures' /\ ConvictedOnTwoOccasions'
  BY <1>2, <1>5, <1>7, ForgettingTeachesNothing
<1>. QED
  BY <1>1, <1>6, <1>8, SurroundingsKeepIInv

(* After a restart nobody is busy. *)
LEMMA RestartKeepsIInv ==
  ASSUME IInv, Restart
  PROVE  IInv'
<1>1. TypeOK'
  BY DownloadAssumption
     DEF Restart, IInv, TypeOK, Phase, Tag, Limit, Never, NoBackoff
<1>2. Shape' /\ OneWorkerPerFile' /\ HolderSeeksTheUnknown'
  BY DEF Restart, Shape, OneWorkerPerFile, HolderSeeksTheUnknown, Busy
<1>3. StrikesAreFailures' /\ ConvictedOnTwoOccasions'
  BY DEF Restart, IInv, StrikesAreFailures, ConvictedOnTwoOccasions
<1>. QED
  BY <1>1, <1>2, <1>3 DEF IInv

LEMMA NextKeepsIInv == IInv /\ [Next]_vars => IInv'
<1>. SUFFICES ASSUME IInv, [Next]_vars PROVE IInv'
  OBVIOUS
<1>1. ASSUME NEW r \in Req, NEW w \in Asked, Ask(r, w) PROVE IInv'
  BY <1>1, AskedIsWanted, AskKeepsIInv
<1>2. ASSUME NEW w \in Asked, AskInVain(w) PROVE IInv'
  BY <1>2, AskedIsWanted, AskInVainKeepsIInv
<1>3. ASSUME NEW r \in Req, TakeFlight(r) PROVE IInv'
  BY <1>3, TakeFlightKeepsIInv
<1>4. ASSUME NEW r \in Req, SettledMeanwhile(r) PROVE IInv'
  BY <1>4, SettledMeanwhileKeepsIInv
<1>5. ASSUME NEW r \in Req, Admit(r) \/ Post(r) PROVE IInv'
  BY <1>5, AdmitKeepsIInv
<1>6. ASSUME NEW r \in Req, Leave(r) PROVE IInv'
  BY <1>6, LeaveKeepsIInv
<1>7. ASSUME NEW r \in Req, PostAnswered(r) \/ Fetch(r) PROVE IInv'
  BY <1>7, ExchangeGoesOnKeepsIInv
<1>8. ASSUME NEW r \in Req, Fails(r) PROVE IInv'
  BY <1>8, ExchangeFailsKeepsIInv
<1>9. ASSUME NEW r \in Req, FetchAnswered(r) PROVE IInv'
  BY <1>9, FetchAnsweredKeepsIInv
<1>10. CASE Tick \/ (\E c \in Cred : SearchThrottled(c)) \/ \E f \in File : Lose(f)
  BY <1>10, SurroundingActionsKeepIInv
<1>11. CASE Restart
  BY <1>11, RestartKeepsIInv
<1>12. CASE UNCHANGED vars
  BY <1>12 DEF vars, IInv, TypeOK, Shape, OneWorkerPerFile, HolderSeeksTheUnknown, Busy,
               Unknown, Remembered, StrikesAreFailures, ConvictedOnTwoOccasions
<1>. QED
  BY <1>1, <1>2, <1>3, <1>4, <1>5, <1>6, <1>7, <1>8, <1>9, <1>10, <1>11, <1>12
     DEF Next, Fails

-----------------------------------------------------------------------------
LEMMA Invariance == Spec => []IInv
BY InitIInv, NextKeepsIInv, PTL DEF Spec

(* Every reachable state is well typed. *)
THEOREM TypeCorrect == Spec => []TypeOK
BY Invariance, PTL DEF IInv

(* One worker, and so one paid download at a time, per file. *)
THEOREM OneWorker == Spec => []OneWorkerPerFile
BY Invariance, PTL DEF IInv

(* Nobody convicts a file on one occasion, however the clock, the restarts *)
(* and the successes of other requests fall.                               *)
THEOREM TwoOccasionsConvict == Spec => []ConvictedOnTwoOccasions
BY Invariance, PTL DEF IInv

(* Only the worker's first poll spends a credit. *)
LEMMA PostSpends ==
  ASSUME IInv, [Next]_vars, NEW r \in Req, ~Spent(r), Spent(r)'
  PROVE  Post(r) /\ ~DownloadPaused(want[r])
<1>1. ASSUME NEW q \in Req, NEW p \in {"idle", "wantsFlight", "wantsPermit", "admitted"},
             pc' = [pc EXCEPT ![q] = p]
      PROVE  FALSE
  BY <1>1 DEF Spent, IInv, TypeOK
<1>2. ASSUME NEW q \in Req, End(q) PROVE FALSE
  BY <1>1, <1>2 DEF End
<1>3. pc' # pc
  BY DEF Spent
<1>4. ASSUME NEW q \in Req, Spent(q), NEW p \in Phase, pc' = [pc EXCEPT ![q] = p] PROVE FALSE
  BY <1>4 DEF Spent, IInv, TypeOK
<1>5. ASSUME NEW q \in Req, Fails(q) PROVE FALSE
  BY <1>2, <1>5, FailuresAreOfAKind DEF Fail
<1>6. ASSUME NEW q \in Req, PostAnswered(q) \/ Fetch(q) PROVE FALSE
  BY <1>4, <1>6 DEF PostAnswered, Fetch, Spent, Phase
<1>7. ASSUME NEW q \in Req,
             \/ \E w \in Asked : Ask(q, w)
             \/ TakeFlight(q) \/ SettledMeanwhile(q) \/ Admit(q) \/ Leave(q) \/ FetchAnswered(q)
      PROVE  FALSE
  BY <1>1, <1>2, <1>7 DEF Ask, TakeFlight, SettledMeanwhile, Admit, Leave, FetchAnswered, Forget
<1>8. ~Restart
  BY DEF Restart, Spent
<1>9. PICK q \in Req : Post(q)
  BY <1>3, <1>5, <1>6, <1>7, <1>8
     DEF Next, Fails, vars, AskInVain, SearchThrottled, Lose, Tick
<1>10. q = r
  BY <1>9 DEF Post, End, Spent, IInv, TypeOK
<1>. QED
  BY <1>2, <1>9, <1>10 DEF Post

(* When a POST leaves, nothing its caller could have known speaks against it. *)
THEOREM OnlyTheUnknownIsBought == Spec => SpendsOnlyOnTheUnknown
<1>1. IInv /\ [Next]_vars =>
        [\A r \in Req : ~Spent(r) /\ Spent(r)' => ~Refused(want[r])]_vars
  <2>. SUFFICES ASSUME IInv, [Next]_vars, NEW r \in Req, ~Spent(r), Spent(r)'
                PROVE  ~Refused(want[r])
    OBVIOUS
  <2>1. Post(r) /\ ~DownloadPaused(want[r])
    BY PostSpends
  <2>2. Unknown(want[r])
    BY <2>1 DEF Post, IInv, HolderSeeksTheUnknown, Busy, Phase
  <2>. QED
    BY <2>1, <2>2 DEF Refused, Unknown
<1>. QED
  BY <1>1, Invariance, PTL DEF Spec, SpendsOnlyOnTheUnknown

(* Whatever a failure is remembered as, it stops the same request. *)
LEMMA RememberedStops ==
  ASSUME IInv, NEW r \in Req, Busy(r), NEW kind \in Kind, Fail(r, kind),
         kind = "sparse" => ~want[r].allowSparse, NEW w \in Want, w = want[r]
  PROVE  Refused(w)'
<1>1. w.file \in File /\ w.cred \in Cred /\ now' = now /\ now \in Nat
  BY DownloadAssumption DEF Want, Fail, IInv, TypeOK
<1>2. CASE paused'[w.cred] > now \/ paused'[Cdn] > now
  BY <1>1, <1>2 DEF Refused, DownloadPaused, Paused
<1>3. CASE ~(paused'[w.cred] > now \/ paused'[Cdn] > now)
  <2>1. Remember(w, kind)
    BY <1>3 DEF Fail
  <2>2. RetryAt > now
    BY <1>1, DownloadAssumption DEF RetryAt
  <2>3. CASE kind = "gone"
    BY <1>1, <2>1, <2>3 DEF Remember, Refused, Remembered, IInv, TypeOK
  <2>4. CASE kind = "unavailable"
    <3>1. unavailable'[<<w.file, w.cred>>] = RetryAt
      BY <1>1, <2>1, <2>4 DEF Remember, IInv, TypeOK
    <3>. QED
      BY <1>1, <2>2, <3>1 DEF Refused, Remembered
  <2>5. CASE kind \in {"suspect", "sparse"}
    <3>1. backoff'[w.file].tag = kind /\ backoff'[w.file].until = RetryAt
      BY <1>1, <2>1, <2>5 DEF Remember, IInv, TypeOK
    <3>. QED
      BY <1>1, <2>2, <2>5, <3>1 DEF Refused, Remembered
  <2>. QED
    BY <2>3, <2>4, <2>5 DEF Kind
<1>. QED
  BY <1>2, <1>3

(* A worker that spent a credit ends by a failure, a success or a restart. *)
LEMMA SpendersEndBy ==
  ASSUME IInv, [Next]_vars, NEW r \in Req, Spent(r), pc'[r] = "idle"
  PROVE  Fails(r) \/ FetchAnswered(r) \/ Restart
<1>1. ASSUME NEW q \in Req, q # r, NEW p, pc' = [pc EXCEPT ![q] = p] PROVE FALSE
  BY <1>1 DEF Spent, IInv, TypeOK
<1>2. ASSUME NEW q \in Req, q # r, End(q) PROVE FALSE
  BY <1>1, <1>2 DEF End
<1>3. pc' # pc
  BY DEF Spent
<1>4. ASSUME NEW q \in Req, NEW p \in Phase \ {"idle"}, pc' = [pc EXCEPT ![q] = p] PROVE FALSE
  BY <1>1, <1>4 DEF IInv, TypeOK
<1>5. ASSUME NEW q \in Req, ~Spent(q), End(q) PROVE FALSE
  BY <1>2, <1>5
<1>6. ASSUME NEW q \in Req,
             \/ \E w \in Asked : Ask(q, w)
             \/ TakeFlight(q) \/ PostAnswered(q) \/ Fetch(q)
      PROVE  FALSE
  BY <1>4, <1>6 DEF Ask, TakeFlight, PostAnswered, Fetch, Phase
<1>7. ASSUME NEW q \in Req, SettledMeanwhile(q) \/ Admit(q) \/ Leave(q) \/ Post(q)
      PROVE  FALSE
  <2>1. ~Spent(q)
    BY <1>7 DEF SettledMeanwhile, NextInFlight, Admit, Leave, Post, Spent
  <2>. QED
    BY <1>4, <1>5, <1>7, <2>1 DEF SettledMeanwhile, Admit, Leave, Post, Phase
<1>8. ASSUME NEW q \in Req, Fails(q) PROVE q = r
  BY <1>2, <1>8, FailuresAreOfAKind DEF Fail
<1>9. ASSUME NEW q \in Req, FetchAnswered(q) PROVE q = r
  BY <1>2, <1>9 DEF FetchAnswered, Forget
<1>. QED
  BY <1>3, <1>6, <1>7, <1>8, <1>9 DEF Next, Fails, vars, AskInVain, SearchThrottled, Lose, Tick

(* A worker that spent a credit leaves a body, a failure or a pause that *)
(* answers the same request, unless the process restarts.                *)
THEOREM EverySpendLeavesATrace == Spec => SpendLeavesATrace
<1>1. ASSUME IInv, [Next]_vars, NEW r \in Req, Spent(r), pc'[r] = "idle", ~Restart
      PROVE  \E w \in {want[r]} : Refused(w)'
  <2>1. Busy(r) /\ pc[r] # "idle"
    BY <1>1 DEF Spent, Busy, Phase
  <2>2. PICK w \in Want : w = want[r]
    BY <1>1, <2>1, AsksForSomething
  <2>3. CASE Fails(r)
    <3>1. PICK kind \in Kind : Fail(r, kind) /\ (kind = "sparse" => ~want[r].allowSparse)
      BY <2>3, FailuresAreOfAKind
    <3>. QED
      BY <1>1, <2>1, <2>2, <3>1, RememberedStops
  <2>4. CASE FetchAnswered(r)
    BY <2>2, <2>4 DEF FetchAnswered, Forget, Refused
  <2>. QED
    BY <1>1, <2>3, <2>4, SpendersEndBy
<1>2. IInv /\ [Next]_vars =>
        [\A r \in Req : Spent(r) /\ pc'[r] = "idle" =>
            \/ Restart
            \/ \E w \in {want[r]} : Refused(w)']_vars
  BY <1>1
<1>. QED
  BY <1>2, Invariance, PTL DEF Spec, SpendLeavesATrace
=============================================================================
