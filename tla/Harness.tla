------------------------------ MODULE Harness ------------------------------
(***************************************************************************)
(* One translation run and its retries: produce_translation of addon.rs    *)
(* from the parsed source onwards, and the harness it drives               *)
(* (translate.rs: run_translation, one_batch, translate_batch,             *)
(* call_with_retries), with the batch store that survives a failed run and *)
(* the progress entry a poller reads.                                      *)
(*                                                                         *)
(* The cues are cut into batches of Batch.  At most Concurrency batches    *)
(* run ahead of the last one surfaced; they are surfaced in order.  A      *)
(* batch works through a stack of segments: a segment already bought is    *)
(* replayed from the store, any other is sent, and a reply of the wrong    *)
(* shape splits it in two.                                                 *)
(*                                                                         *)
(* What the rolling context and the glossary say only words the prompts    *)
(* and is left out.  What was sent and billed decides the refund, which is in   *)
(* Translation.  The pauses' own memory is in Pauses: here a batch held by *)
(* one waits or is refused.                                                *)
(***************************************************************************)
EXTENDS Reply

CONSTANTS Uploads,      \* the source documents the run may be asked to translate
          Replies(_),   \* the texts a provider may answer a cue's text with
          Batch,        \* cues to a batch (BATCH)
          Concurrency,  \* batches in flight (CONCURRENCY)
          Attempts,     \* calls of one segment at one size (ATTEMPTS)
          Responses,    \* what a provider may send back (Reply)
          Remarks,      \* what a chat model may write before its array
          Dialogue,     \* the texts an array may hold
          MaxRuns,      \* bound: runs of this title and language
          MaxLost       \* bound: restarts and evictions

ASSUME HarnessAssumption ==
    /\ {Batch, Concurrency, Attempts} \subseteq Nat \ {0}
    /\ {MaxRuns, MaxLost} \subseteq Nat
    /\ \A remark \in Remarks : remark \in Seq(ToSet(remark))
    /\ \A texts \in Dialogue :
          /\ texts \in Seq(ToSet(texts))
          /\ \A text \in ToSet(texts) : text \in Seq(ToSet(text))
    /\ \A document \in Uploads :
          /\ document \in Seq(ToSet(document))
          /\ \A cue \in ToSet(Parse(document)) :
                \A said \in Replies(cue.text) : said \in Seq(ToSet(said))

VARIABLES source,     \* the document downloaded for this title
          cues,       \* its cues: each run parses it again, and finds the same
          active,     \* a run is under way
          batches,    \* the run's batches
          surfaced,   \* how many of them have been taken off the stream
          glossary,   \* the run's glossary is settled, and its batches may start
          untranslated, \* the Budget's count of cues that came back unusable
          late,       \* the run's deadline has passed (Budget.spent)
          batchStore, \* the batch store: source texts -> translated texts
          terms,      \* the batch store holds the film's glossary
          progress,   \* what a poller reads: cues done of cues in all, or nothing
          served,     \* the finished body in the cache, or none
          outcome,    \* how the last run ended
          runs, lost,
          bought,     \* history: the segments bought and not lost since
          owned,      \* history: those of them bought before this run
          lateCalls   \* history: calls this run has sent past its deadline

runVars  == <<active, batches, surfaced, glossary, untranslated, late>>
history  == <<bought, owned, lateCalls>>
harnessVars == <<source, cues, runVars, batchStore, terms, progress, served, outcome, runs, lost, history>>

(* What a call may come to, whatever was sent.                             *)
Outcomes == {CallResult(response) : response \in Responses}

Nothing == <<>>

Texts(lo, hi) == [i \in 1..(hi - lo + 1) |-> cues[lo + i - 1].text]

BlankText(text) == \A i \in DOMAIN text : Blank(text[i])

(* str::trim: the blank lines at either end go, those inside stay.         *)
Trimmed(text) ==
    LET words == {i \in DOMAIN text : ~Blank(text[i])}
    IN  IF words = {} THEN <<>> ELSE SubSeq(text, Min(words), Max(words))

Echoes(said, text) == Trimmed(said) = Trimmed(text)

(* dead_count: how many came back blank or unchanged; a blank source has   *)
(* nothing to translate.                                                   *)
DeadCount(translated, sources) ==
    Cardinality({i \in DOMAIN sources :
        ~BlankText(sources[i]) /\ (BlankText(translated[i]) \/ Echoes(translated[i], sources[i]))})

Unusable(kept, seen) == seen > 1 /\ kept * 3 > seen * 2

-----------------------------------------------------------------------------
Batches == 1..((Len(cues) + Batch - 1) \div Batch)

Least(a, b) == IF a < b THEN a ELSE b

FirstSegment(b) == [lo |-> (b - 1) * Batch + 1, hi |-> Least(b * Batch, Len(cues))]

NewBatch(b) == [todo |-> <<FirstSegment(b)>>, out |-> <<>>, at |-> "segment", tries |-> 0]

InWindow(b) == b \in surfaced + 1..surfaced + Concurrency

Segment(b) == Head(batches[b].todo)
Sources(b) == Texts(Segment(b).lo, Segment(b).hi)
Size(b)    == Segment(b).hi - Segment(b).lo + 1

(* Batch b can run up to its next await: it is in the window, not finished *)
(* and at the stage given.                                                 *)
At(b, stage) ==
    /\ active /\ glossary
    /\ b \in Batches /\ InWindow(b)
    /\ batches[b].at = stage
    /\ batches[b].todo # <<>>

Idle ==
    /\ active = FALSE /\ batches = <<>> /\ surfaced = 0 /\ glossary = FALSE
    /\ untranslated = 0 /\ late = FALSE

HarnessInit ==
    /\ source \in Uploads /\ cues = Parse(source)
    /\ Idle
    /\ batchStore = <<>> /\ terms = FALSE /\ progress = Nothing /\ served = Nothing /\ outcome = "none"
    /\ runs = 0 /\ lost = 0
    /\ bought = {} /\ owned = {} /\ lateCalls = 0

-----------------------------------------------------------------------------
(* How far the run has got, for whoever polls.                             *)
Report(done) == progress' = <<done, Len(cues)>>

(* translate: a run over cues there are, within MAX_CUES.  It owns all but *)
(* the store, from which it may have its glossary.                         *)
Begin ==
    /\ active' = TRUE
    /\ batches' = [b \in Batches |-> NewBatch(b)]
    /\ glossary' = terms
    /\ Report(0)
    /\ UNCHANGED <<surfaced, untranslated, late>>

(* A request with no body to serve starts a run.  The download gate has    *)
(* accepted the source; a source without cues is refused before anything   *)
(* is charged.                                                             *)
Start ==
    /\ ~active /\ served = Nothing /\ runs < MaxRuns
    /\ HasACue(source)
    /\ runs' = runs + 1
    /\ IF cues = <<>>
         THEN /\ outcome' = "empty"
              /\ UNCHANGED <<runVars, progress, owned>>
         ELSE Begin /\ owned' = bought /\ UNCHANGED outcome
    /\ UNCHANGED <<source, cues, batchStore, terms, served, lost, bought, lateCalls>>

(* The lines the glossary is made from: those with words in them.          *)
GlossarySample == SelectSeq(cues, LAMBDA cue : ~BlankText(cue.text))

(* A term of a reply is kept unless it is blank or left as it was.         *)
KeepsTerm(term, translation) ==
    ~BlankText(term) /\ ~BlankText(translation) /\ ~Echoes(translation, term)

(* Whether asking for one gives terms: never when there is nothing to make *)
(* it from, the provider has no chat or its key is held, and not when it   *)
(* answers with none to keep.                                              *)
GlossaryReplies ==
    IF GlossarySample = <<>> \/ "answered" \notin Outcomes THEN {FALSE}
    ELSE UNION {{KeepsTerm(cue.text, said) : said \in Replies(cue.text)} :
                    cue \in Range(GlossarySample)}

(* No earlier run has left a glossary: one is asked for.  Whatever comes   *)
(* of that, the batches start; only terms are remembered.                  *)
Glossary ==
    /\ active /\ ~glossary
    /\ glossary' = TRUE
    /\ terms' \in GlossaryReplies
    /\ UNCHANGED <<source, cues, active, batches, surfaced, untranslated, late, batchStore,
                   progress, served, outcome, runs, lost, history>>

(* The run is over, returned or dropped: everything it owned goes with it, *)
(* and the guard around the progress entry takes that too.                 *)
Ends(how) ==
    /\ active' = FALSE /\ batches' = <<>> /\ surfaced' = 0 /\ glossary' = FALSE
    /\ untranslated' = 0 /\ late' = FALSE
    /\ progress' = Nothing
    /\ outcome' = how
    /\ lateCalls' = 0

-----------------------------------------------------------------------------
(* The segment in hand is settled with these texts.                        *)
Settled(batch, texts) ==
    [batch EXCEPT !.todo = Tail(@), !.out = @ \o texts, !.at = "segment", !.tries = 0]

(* A batch error stops the batch; it is reported when its turn comes.      *)
Stop(batch, why) == [batch EXCEPT !.at = why]

Work(b, batch) ==
    /\ batches' = [batches EXCEPT ![b] = batch]
    /\ UNCHANGED <<source, cues, active, surfaced, glossary, late, terms, progress,
                   served, outcome, runs, lost, owned>>

(* Mutant: a replayed segment is not scored.                              *)
MutReplay(b) ==
    /\ At(b, "segment") /\ Sources(b) \in DOMAIN batchStore
    /\ Work(b, Settled(batches[b], batchStore[Sources(b)]))
    /\ UNCHANGED <<untranslated, batchStore, bought, lateCalls>>

(* Already bought by some run: replayed, and scored as a live reply is.    *)
Replay(b) ==
    /\ At(b, "segment") /\ Sources(b) \in DOMAIN batchStore
    /\ untranslated' = untranslated + DeadCount(batchStore[Sources(b)], Sources(b))
    /\ Work(b, Settled(batches[b], batchStore[Sources(b)]))
    /\ UNCHANGED <<batchStore, bought, lateCalls>>

(* Neither bought nor in time: the run did not finish.                     *)
OutOfTime(b) ==
    /\ At(b, "segment") /\ Sources(b) \notin DOMAIN batchStore /\ late
    /\ Work(b, Stop(batches[b], "late"))
    /\ UNCHANGED <<untranslated, batchStore, bought, lateCalls>>

(* Mutant: the deadline is only looked at between batches.                *)
MutDispatch(b) ==
    /\ At(b, "segment") /\ Sources(b) \notin DOMAIN batchStore
    /\ ~late \/ batches[b].todo # <<FirstSegment(b)>>
    /\ Work(b, [batches[b] EXCEPT !.at = "queued", !.tries = 1])
    /\ UNCHANGED <<untranslated, batchStore, bought, lateCalls>>

(* About to be sent: marked before the wait for the key's pause and for    *)
(* admission.                                                              *)
Dispatch(b) ==
    /\ At(b, "segment") /\ Sources(b) \notin DOMAIN batchStore /\ ~late
    /\ Work(b, [batches[b] EXCEPT !.at = "queued", !.tries = 1])
    /\ UNCHANGED <<untranslated, batchStore, bought, lateCalls>>

(* Admitted: the call goes out, before or after the deadline.              *)
Call(b) ==
    /\ At(b, "queued")
    /\ Work(b, [batches[b] EXCEPT !.at = "calling"])
    /\ lateCalls' = IF late THEN lateCalls + 1 ELSE lateCalls
    /\ UNCHANGED <<untranslated, batchStore, bought>>

(* Held by a pause that outlasts the run: refused without a call.          *)
HeldOff(b) ==
    /\ At(b, "queued")
    /\ Work(b, Stop(batches[b], "refused"))
    /\ UNCHANGED <<untranslated, batchStore, bought, lateCalls>>

(* A blanked line, and a line invented for a blank source, become the      *)
(* source.                                                                 *)
Resolved(reply, sources) ==
    [i \in DOMAIN sources |->
        IF BlankText(reply[i]) \/ BlankText(sources[i]) THEN sources[i] ELSE reply[i]]

(* A reply of the right length: to each line a text of its own, another or *)
(* the same, dressed up or not, or a blank.                                *)
RepliesTo(sources) ==
    {said \in [DOMAIN sources -> UNION {Replies(sources[i]) : i \in DOMAIN sources}] :
        \A i \in DOMAIN sources : said[i] \in Replies(sources[i])}

(* Mutant: an answered segment is not remembered.                         *)
MutAnswered(b) ==
    /\ At(b, "calling") /\ "answered" \in Outcomes
    /\ \E said \in RepliesTo(Sources(b)) :
          Work(b, Settled(batches[b], Resolved(said, Sources(b))))
    /\ bought' = bought \cup {Sources(b)}
    /\ UNCHANGED <<untranslated, batchStore, lateCalls>>

Answered(b) ==
    /\ At(b, "calling") /\ "answered" \in Outcomes
    /\ \E said \in RepliesTo(Sources(b)) :
          LET out == Resolved(said, Sources(b))
          IN  /\ untranslated' = untranslated + DeadCount(out, Sources(b))
              /\ batchStore' = [key \in DOMAIN batchStore \cup {Sources(b)} |->
                                  IF key = Sources(b) THEN out ELSE batchStore[key]]
              /\ Work(b, Settled(batches[b], out))
    /\ bought' = bought \cup {Sources(b)}
    /\ UNCHANGED lateCalls

(* Mutant: the cue in the middle is in neither half.                      *)
MutHalves(segment) ==
    LET mid == segment.lo + (segment.hi - segment.lo + 1) \div 2
    IN  <<[segment EXCEPT !.hi = mid - 1], [segment EXCEPT !.lo = mid + 1]>>

Halves(segment) ==
    LET mid == segment.lo + (segment.hi - segment.lo + 1) \div 2
    IN  <<[segment EXCEPT !.hi = mid - 1], [segment EXCEPT !.lo = mid]>>

(* A reply of the wrong length or shape is billed too.  The segment splits;*)
(* a single cue that still fails keeps its source.                         *)
WrongShape(b) ==
    /\ At(b, "calling") /\ Outcomes \cap {"answered", "misshapen"} # {}
    /\ IF Size(b) > 1
         THEN /\ Work(b, [batches[b] EXCEPT !.todo = Halves(Head(@)) \o Tail(@),
                                            !.at = "segment", !.tries = 0])
              /\ UNCHANGED untranslated
         ELSE /\ Work(b, Settled(batches[b], Sources(b)))
              /\ untranslated' = untranslated + Size(b)
    /\ UNCHANGED <<batchStore, bought, lateCalls>>

(* Refused in a way that may pass: again at the same size, after a wait    *)
(* that fits what is left of the run.                                      *)
Retry(b) ==
    /\ At(b, "calling") /\ batches[b].tries < Attempts /\ ~late
    /\ "retry" \in Outcomes
    /\ Work(b, [batches[b] EXCEPT !.at = "queued", !.tries = @ + 1])
    /\ UNCHANGED <<untranslated, batchStore, bought, lateCalls>>

(* Refused for good: a retryable refusal out of attempts or of time, a     *)
(* refusal retrying cannot fix, or one about the credential.               *)
Refused(b) ==
    /\ At(b, "calling")
    /\ \E why \in Outcomes \ {"answered", "misshapen"} :
          Work(b, Stop(batches[b], IF why = "retry" THEN "refused" ELSE why))
    /\ UNCHANGED <<untranslated, batchStore, bought, lateCalls>>

-----------------------------------------------------------------------------
Finished(b) == batches[b].todo = <<>>

Failures == {"late", "refused", "credential"}

(* The texts of the first n batches, in order, under their own cues' index *)
(* and timing.                                                             *)
Assembled(n) ==
    LET Said[b \in 0..n] == IF b = 0 THEN <<>> ELSE Said[b - 1] \o batches[b].out
        texts == Said[n]
    IN  [i \in DOMAIN texts |-> [cues[i] EXCEPT !.text = texts[i]]]

(* The stream yields its next batch: an error ends the run, and so does a  *)
(* count of unusable cues no later batch can rescue.  The last batch       *)
(* finishes the body.                                                      *)
Surface ==
    LET b == surfaced + 1
    IN  /\ active /\ b \in Batches
        /\ \/ /\ batches[b].at \in Failures
              /\ Ends(batches[b].at) /\ UNCHANGED served
           \/ /\ Finished(b) /\ Unusable(untranslated, Len(cues))
              /\ Ends("unusable") /\ UNCHANGED served
           \/ /\ Finished(b) /\ ~Unusable(untranslated, Len(cues)) /\ b + 1 \in Batches
              /\ surfaced' = b
              /\ Report(Len(Assembled(b)))
              /\ UNCHANGED <<active, batches, glossary, untranslated, late,
                             outcome, served, lateCalls>>
           \/ /\ Finished(b) /\ ~Unusable(untranslated, Len(cues)) /\ b + 1 \notin Batches
              /\ Ends("served") /\ served' = Serialize(Assembled(b))
        /\ UNCHANGED <<source, cues, batchStore, terms, runs, lost, bought, owned>>

(* handle_translate_status: a failed run leaves a marker of its own, which *)
(* the next run finds lapsed.                                              *)
Status ==
    CASE progress # Nothing -> "working"
      [] progress = Nothing /\ outcome \in Failures \cup {"unusable", "empty"} -> "failed"
      [] OTHER -> "idle"

(* Time passes: the run's deadline does.                                   *)
Deadline ==
    /\ active /\ ~late
    /\ late' = TRUE
    /\ UNCHANGED <<source, cues, active, batches, surfaced, glossary, untranslated,
                   batchStore, terms, progress, served, outcome, runs, lost, history>>

(* Mutant: the progress entry outlives a run that was dropped.            *)
MutHangUp ==
    /\ active
    /\ active' = FALSE /\ batches' = <<>> /\ surfaced' = 0 /\ glossary' = FALSE
    /\ untranslated' = 0 /\ late' = FALSE /\ outcome' = "none" /\ lateCalls' = 0
    /\ UNCHANGED <<source, cues, batchStore, terms, progress, served, runs, lost, bought, owned>>

(* The client hangs up: the handler's future is dropped where it stands.   *)
HangUp ==
    /\ active
    /\ Ends("none")
    /\ UNCHANGED <<source, cues, batchStore, terms, served, runs, lost, bought, owned>>

(* A restart loses the run and the batch store, which is memory only; the  *)
(* finished body is on disk.                                               *)
Restart ==
    /\ lost < MaxLost
    /\ lost' = lost + 1
    /\ Ends("none")
    /\ batchStore' = <<>> /\ terms' = FALSE /\ bought' = {} /\ owned' = {}
    /\ UNCHANGED <<source, cues, served, runs>>

(* An entry of the store expires or is evicted.  (That a glossary is lost  *)
(* is the same to the next run as that none was kept.)                     *)
Forget ==
    /\ lost < MaxLost
    /\ lost' = lost + 1
    /\ \E key \in DOMAIN batchStore :
          /\ batchStore' = [k \in DOMAIN batchStore \ {key} |-> batchStore[k]]
          /\ bought' = bought \ {key}
          /\ owned' = owned \ {key}
    /\ UNCHANGED <<source, cues, runVars, terms, progress, served, outcome, runs, lateCalls>>

-----------------------------------------------------------------------------
Step(b) ==
    \/ Replay(b) \/ OutOfTime(b) \/ Dispatch(b) \/ Call(b) \/ HeldOff(b)
    \/ Answered(b) \/ WrongShape(b) \/ Retry(b) \/ Refused(b)

HarnessNext ==
    \/ Start \/ Glossary \/ Surface \/ Deadline
    \/ \E b \in Batches : Step(b)
    \/ HangUp \/ Restart \/ Forget

HarnessSpec == HarnessInit /\ [][HarnessNext]_harnessVars

(* The runtime polls a run that can move, and every call is answered,      *)
(* refused or timed out.  Nobody has to ask again, hang up, restart or     *)
(* forget, and the clock need not reach the deadline.                      *)
FairHarnessSpec ==
    /\ HarnessSpec
    /\ WF_harnessVars(Glossary)
    /\ WF_harnessVars(Surface)
    /\ WF_harnessVars(\E b \in Batches : Step(b))

-----------------------------------------------------------------------------
(* Types: every batch is at a stage of its run, its window and counts are  *)
(* in range, and the store holds as many texts as its key has lines.       *)
HarnessTypeOK ==
    /\ source \in Uploads /\ {active, glossary, late, terms} \subseteq BOOLEAN
    /\ surfaced \in 0..Len(cues) /\ untranslated \in 0..Len(cues)
    /\ \A b \in DOMAIN batches :
          /\ batches[b].at \in {"segment", "queued", "calling"} \cup Failures
          /\ batches[b].tries \in 0..Attempts
          /\ Len(batches[b].out) \in 0..Batch
    /\ \A key \in DOMAIN batchStore : Len(batchStore[key]) = Len(key)
    /\ runs \in 0..MaxRuns /\ lost \in 0..MaxLost

(* Whatever a model writes before its array, brackets that never close and *)
(* quotations included, provided it is no array itself, leaves no quotation *)
(* open and closes fewer brackets than are tried: the array is read, with  *)
(* the texts it holds, or when the rest of the reply closes the remark's   *)
(* brackets around it, not at all.                                         *)
(* A reply of arrays in an array, right as each may look, is no reply.     *)
Remark(p) == /\ ~Scan(p)[Len(p)].inString
             /\ Cardinality({j \in DOMAIN p : p[j] = Close}) < MaxCandidates
             /\ \A i, j \in DOMAIN p :
                   p[i] = Open /\ p[j] = Close /\ i < j => ~IsArray(SubSeq(p, i, j))

RepliesAreRead ==
    \A texts, others \in Dialogue :
        /\ ~ParseJsonArray(<<Open>> \o Array(texts) \o <<Comma>> \o Array(others)
                               \o <<Close>>).read
        /\ \A p \in {r \in Remarks : Remark(r)} :
              LET closed == ParseJsonArray(p \o Array(texts) \o <<Close, Close>>)
              IN  /\ ParseJsonArray(p \o Array(texts)) = [read |-> TRUE, texts |-> texts]
                  /\ closed.read => closed.texts = texts

(* What comes in is read one way.  The streaming gate a download is        *)
(* accepted by and the parser the translation uses agree on what holds a   *)
(* cue, padded lines, missing indices and stray numbers included: no       *)
(* accepted source parses to nothing, and no source with a cue is refused  *)
(* as an error page.  And a provider's reply never answers with a part of  *)
(* itself, which could have the right number of lines and be cached.       *)
NothingIsMisread == RepliesAreRead /\ (HasACue(source) <=> cues # <<>>)

(* The finished body reads back as the film it was made from: the same     *)
(* cues in the same order under the same index and timing, each with what  *)
(* was said to it or its own source and none left without words, whatever  *)
(* was split, replayed or finished out of order, and whatever blank lines  *)
(* a model put in a reply.                                                 *)
ServedOneForOne ==
    served # Nothing =>
        LET film == Parse(served)
        IN  /\ Len(film) = Len(cues)
            /\ \A i \in DOMAIN film :
                  /\ film[i].index = cues[i].index /\ film[i].timing = cues[i].timing
                  /\ \/ film[i].text = Compact(cues[i].text)
                     \/ \E said \in Replies(cues[i].text) :
                           ~BlankText(said) /\ film[i].text = Compact(said)

(* A retry never sends a segment an earlier run had answered in full,      *)
(* unless the store has lost it since.                                     *)
NothingBoughtTwice ==
    [][\A b \in DOMAIN batches \cap DOMAIN batches' :
          batches[b].at = "segment" /\ batches'[b].at = "queued"
              => Sources(b) \notin owned]_harnessVars

(* Everything stays within its bounds; and, splits and retries included,   *)
(* no more calls go out past the deadline than there are batches in flight.*)
FewCallsPastDeadline == HarnessTypeOK /\ lateCalls <= Concurrency

(* The cues settled so far, over all batches, that say what their source   *)
(* says.                                                                   *)
Unchanged ==
    {c \in DOMAIN cues :
        \E b \in Batches, i \in 1..Batch :
            /\ c = (b - 1) * Batch + i /\ i \in DOMAIN batches[b].out
            /\ Echoes(batches[b].out[i], cues[c].text)}

(* The verdict is about the film and is final: a run refused for unusable  *)
(* output holds more unchanged cues than any continuation could make up    *)
(* for, and a film that is served has no more unchanged dialogue than the  *)
(* bar allows, also when some of it was bought by runs before.             *)
VerdictIsFinal ==
    [][/\ (active /\ outcome' = "unusable" /\ ~active')
              => Unusable(Cardinality(Unchanged), Len(cues))
       /\ served' # served
              => LET words == {c \in DOMAIN cues : ~BlankText(cues[c].text)}
                 IN  ~Unusable(Cardinality(Unchanged \cap words), Len(cues))]_harnessVars

(* A poller is never left watching a run that is not happening: however    *)
(* the run ends (finished, refused, or dropped by a client that hung up),  *)
(* it is not told that the run is still working.                           *)
PollerIsReleased == Status = "working" ~> Status # "working"

=============================================================================
