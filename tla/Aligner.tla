------------------------------- MODULE Aligner -------------------------------
(***************************************************************************)
(* The aligner runs (src/src/sync.rs).  `sync_to_reference` writes the two *)
(* texts, runs alass and reads its output.  `sync_to_audio` reads a batch  *)
(* of sound, measures two probes of it, and if they disagree reads two     *)
(* more and measures stretches of all three.  Every file of a run is in    *)
(* one scratch directory, under the run's tag; every exit but a dropped    *)
(* future or a dead process removes them, and an hourly sweep on another   *)
(* thread removes what is old.  Time is in ticks; a binary takes any time  *)
(* up to its budget, the code around it none.                              *)
(***************************************************************************)
EXTENDS AudioSample

CONSTANTS
  Run,        \* runs that can be under way at once
  TierOf,     \* the tier of each
  Film,       \* the cues of the texts that are aligned
  Move,       \* what alass may find: how far the first and second half move
  TotalBudget, FastBudget, FallbackBudget, FinishReserve, AlignBudget, Tier1Budget,
  Abandoned,
  MaxRuns,    \* bound on the runs, of all processes
  MaxRestarts,
  MaxLosses,  \* bound on hang-ups and restarts together
  None

ASSUME AlignerAssumption ==
  /\ IsFiniteSet(Run) /\ TierOf \in [Run -> {"tier1", "tier2"}]
  /\ \A film \in Film : film # <<>> /\ film \in Seq([start : Nat, end : Nat])
  /\ Move \subseteq [first : Int, second : Int]
  /\ {TotalBudget, FastBudget, FallbackBudget, AlignBudget, Tier1Budget, Abandoned}
       \subseteq Nat \ {0}
  /\ FinishReserve \in Nat /\ {MaxRuns, MaxRestarts, MaxLosses} \subseteq Nat
  /\ Abandoned > TotalBudget /\ Abandoned > Tier1Budget

Id == (0..MaxRestarts) \X (0..MaxRuns)    \* a run: its process, its SYNC_SEQ
Step == {"tier1", "fast-0", "fast-1", "full", "pair-0", "pair-1"}
Batch == {"batch-0", "batch-1", "batch-2"}
Kind == {"sound", "target", "reference", "synced"}
Path == (0..MaxRuns) \X (Step \cup Batch) \X Kind
File == [by : Id, age : 0..(Abandoned + 1)]
ASSUME NoneAssumption == None \notin Id /\ None \notin Path

VARIABLES
  epoch,    \* the process: how many came before it
  seq,      \* SYNC_SEQ
  begun, losses,
  run,      \* what each run holds
  scratch,  \* the directory
  doomed,   \* the file the sweep found too old and is about to unlink, with its owner
  reply     \* history: what the last step returned to its caller, if it returned

alignerVars == <<epoch, seq, begun, losses, run, scratch, doomed, reply>>

Silence == [end |-> "none", who |-> None, shift |-> NoShift, heard |-> <<>>, from |-> None]
Failed(id) == [Silence EXCEPT !.end = "failed", !.who = id]
Aligned(id, from) == [Silence EXCEPT !.end = "aligned", !.who = id, !.from = from]
Idle == [pc |-> "idle", tag |-> 0, sample |-> <<>>, elapsed |-> 0, left |-> 0, busy |-> {},
         broken |-> FALSE, step |-> "tier1", measured |-> <<>>, heard |-> <<>>]

AlignerInit ==
  /\ epoch = 0 /\ seq = 0 /\ begun = 0 /\ losses = 0
  /\ run = [r \in Run |-> Idle]
  /\ scratch = << >>
  /\ doomed = None
  /\ reply = Silence

Active(r) == run[r].pc # "idle"
Me(r) == <<epoch, run[r].tag>>
LiveIds == {Me(r) : r \in {q \in Run : Active(q)}}
Smaller(m, n) == IF m < n THEN m ELSE n

\* A mutant: a tag made of the key alone.
MutTag(n) == 0

\* scratch_tag: the sequence number tells the runs of a process apart; what it
\* keeps of the key does not (translations of one film share their first bytes).
Tag(n) == n

File3(r, step, kind) == <<Tag(run[r].tag), step, kind>>
Files(r, step, kinds) == {File3(r, step, kind) : kind \in kinds}
Sounds(r) == {File3(r, b, "sound") : b \in Batch}

\* Files are written anew, or removed; a file that is not there is not missed.
With(files, paths, id) ==
  [p \in DOMAIN files \cup paths |-> IF p \in paths THEN [by |-> id, age |-> 0] ELSE files[p]]
Without(files, paths) == Restrict(files, DOMAIN files \ paths)

\* A binary is started: it makes its output at once, the worst for who cleans up.
Spawn(files, r, output) == scratch' = With(files, {output}, Me(r))

Ends(r, said) == run' = [run EXCEPT ![r] = Idle] /\ reply' = said
Fails(r) == Ends(r, Failed(Me(r)))
Quiet == reply' = Silence

-----------------------------------------------------------------------------
(* Against a reference *)

\* A text without cues, or a first file that cannot be written, ends it at once.
StartReference(r) ==
  /\ ~Active(r) /\ TierOf[r] = "tier1" /\ begun < MaxRuns
  /\ seq' = seq + 1 /\ begun' = begun + 1
  /\ \/ run' = run /\ reply' = Failed(<<epoch, seq>>) /\ scratch' = scratch
     \/ /\ run' = [run EXCEPT ![r].pc = "writing", ![r].tag = seq]
        /\ scratch' = With(scratch, {<<Tag(seq), "tier1", "target">>}, <<epoch, seq>>)
        /\ Quiet
  /\ UNCHANGED <<epoch, losses, doomed>>

\* A mutant: only `finish` cleans up.
MutAfterFailedWrite(files, r) == files

\* write_temp of the reference; if it fails, the first file goes too.
AfterFailedWrite(files, r) == Without(files, Files(r, "tier1", {"target"}))

WriteReference(r) ==
  /\ run[r].pc = "writing"
  /\ \/ /\ scratch' = AfterFailedWrite(scratch, r)
        /\ Fails(r)
     \/ /\ run' = [run EXCEPT ![r].pc = "aligning", ![r].left = Tier1Budget]
        /\ \E made \in SUBSET {"synced"} :
             scratch' = With(scratch, Files(r, "tier1", {"reference"} \cup made), Me(r))
        /\ Quiet
  /\ UNCHANGED <<epoch, seq, begun, losses, doomed>>

\* finish: alass wrote an output, or exited well without writing one, or failed
\* or was too slow.  What it wrote may have no cues; what lay there is believed.
FinishReference(r) ==
  /\ run[r].pc = "aligning"
  /\ LET out == File3(r, "tier1", "synced") IN
     /\ \/ Fails(r)
        \/ Ends(r, Aligned(Me(r), Me(r)))
        \/ /\ out \in DOMAIN scratch /\ scratch[out].by # Me(r)
           /\ Ends(r, Aligned(Me(r), scratch[out].by))
     /\ scratch' = Without(scratch, Files(r, "tier1", {"target", "reference", "synced"}))
  /\ UNCHANGED <<epoch, seq, begun, losses, doomed>>

-----------------------------------------------------------------------------
(* Against the sound *)

\* A mutant: each stage has its cap, whatever is left.
MutStageBudget(r, cap) == cap

StageBudget(r, cap) == Smaller(cap, AtLeastZero(TotalBudget - run[r].elapsed))
ExtractionBudget(elapsed, cap) == Smaller(cap, AtLeastZero(AtLeastZero(TotalBudget - elapsed) - FinishReserve))

\* A film in which too little is said is refused before anything is read.
StartAudio(r) ==
  /\ ~Active(r) /\ TierOf[r] = "tier2" /\ begun < MaxRuns
  /\ seq' = seq + 1 /\ begun' = begun + 1
  /\ \E film \in Film :
       \/ /\ Sample(film) = <<>>
          /\ run' = run /\ reply' = Failed(<<epoch, seq>>) /\ scratch' = scratch
       \/ /\ Sample(film) # <<>>
          /\ run' = [run EXCEPT ![r].pc = "extracting", ![r].tag = seq, ![r].sample = Sample(film),
                                ![r].busy = {"batch-0"}, ![r].left = ExtractionBudget(0, FastBudget)]
          /\ scratch' = With(scratch, {<<Tag(seq), "batch-0", "sound">>}, <<epoch, seq>>)
          /\ Quiet
  /\ UNCHANGED <<epoch, losses, doomed>>

\* One ffmpeg ends; a failed or late one's output is removed.
Extracted(r, b) ==
  /\ run[r].pc = "extracting" /\ b \in run[r].busy
  /\ run' = [run EXCEPT ![r].busy = run[r].busy \ {b}]
  /\ scratch' = With(scratch, Files(r, b, {"sound"}), Me(r))
  /\ Quiet /\ UNCHANGED <<epoch, seq, begun, losses, doomed>>

NotExtracted(r, b) ==
  /\ run[r].pc = "extracting" /\ b \in run[r].busy
  /\ run' = [run EXCEPT ![r].busy = run[r].busy \ {b}, ![r].broken = TRUE]
  /\ scratch' = Without(scratch, Files(r, b, {"sound"}))
  /\ Quiet /\ UNCHANGED <<epoch, seq, begun, losses, doomed>>

GivesUp(r, leavings) ==
  /\ Fails(r)
  /\ scratch' = Without(scratch, leavings)

\* All extractions of the stage are over: measure, or give up.
Listen(r) ==
  /\ run[r].pc = "extracting" /\ run[r].busy = {}
  /\ \/ run[r].broken /\ GivesUp(r, Sounds(r))
     \/ /\ ~run[r].broken
        /\ \/ run[r].step = "tier1" /\ run' = [run EXCEPT ![r].pc = "measuring", ![r].step = "fast-0"]
           \/ run[r].step # "tier1" /\ run' = [run EXCEPT ![r].pc = "stitching", ![r].step = "full", ![r].left = 0]
        /\ scratch' = scratch /\ Quiet
  /\ UNCHANGED <<epoch, seq, begun, losses, doomed>>

\* The steps that listen to several batches, and the batches.
Composite == {"full", "pair-0", "pair-1"}
Selected(r, step) ==
  LET all == Chronological(run[r].sample) IN
  CASE step = "full" -> all [] step = "pair-0" -> Tail(all) [] step = "pair-1" -> Front(all)
CuesOf(r) ==
  CASE run[r].step = "fast-0" -> run[r].sample[1].probes[1]
    [] run[r].step = "fast-1" -> run[r].sample[1].probes[2]
    [] OTHER -> Packed(run[r].sample, Selected(r, run[r].step))

\* Reads of the two other batches begin together, if there is time for them.
Fallback(r, files) ==
  LET budget == ExtractionBudget(run[r].elapsed, FallbackBudget) IN
  IF budget = 0 THEN Fails(r) /\ scratch' = Without(files, Sounds(r))
  ELSE /\ run' = [run EXCEPT ![r].pc = "extracting", ![r].step = "full",
                               ![r].busy = {"batch-1", "batch-2"}, ![r].left = budget,
                               ![r].measured = <<>>, ![r].heard = <<>>]
       /\ scratch' = With(files, {File3(r, b, "sound") : b \in {"batch-1", "batch-2"}}, Me(r))
       /\ Quiet

\* What follows a measurement.  `files` is the directory without what it used.
AfterMeasuring(r, files, measured, heard) ==
  LET step == run[r].step
      found == Consensus(measured)
      Settled ==
        /\ Ends(r, [Aligned(Me(r), Me(r)) EXCEPT !.shift = found, !.heard = heard])
        /\ scratch' = Without(files, Sounds(r))
      On(pc, to) ==
        /\ run' = [run EXCEPT ![r].pc = pc, ![r].step = to, ![r].left = 0,
                               ![r].measured = measured, ![r].heard = heard]
        /\ scratch' = files /\ Quiet
      Unconfirmed == Fails(r) /\ scratch' = Without(files, Sounds(r))
  IN CASE step = "fast-0" -> On("measuring", "fast-1")
       [] step = "fast-1" -> IF found # NoShift THEN Settled ELSE Fallback(r, files)
       [] step = "full" -> IF measured = <<>> THEN Unconfirmed ELSE On("stitching", "pair-0")
       [] step = "pair-0" -> IF found # NoShift THEN Settled ELSE On("stitching", "pair-1")
       [] step = "pair-1" -> IF found # NoShift THEN Settled ELSE Unconfirmed

Unmeasured(r, files) == AfterMeasuring(r, files, run[r].measured, run[r].heard)

\* Stitch the selected batches, unless time is up.
Stitch(r) ==
  /\ run[r].pc = "stitching"
  /\ LET budget == StageBudget(r, AlignBudget) IN
     IF budget = 0 THEN Unmeasured(r, scratch)
     ELSE /\ run' = [run EXCEPT ![r].pc = "joining", ![r].left = budget]
          /\ Spawn(scratch, r, File3(r, run[r].step, "sound"))
          /\ Quiet
  /\ UNCHANGED <<epoch, seq, begun, losses, doomed>>

Stitched(r) ==
  /\ run[r].pc = "joining"
  /\ \/ Unmeasured(r, Without(scratch, Files(r, run[r].step, {"sound"})))
     \/ /\ run' = [run EXCEPT ![r].pc = "measuring", ![r].left = 0]
        /\ scratch' = With(scratch, Files(r, run[r].step, {"sound"}), Me(r))
        /\ Quiet
  /\ UNCHANGED <<epoch, seq, begun, losses, doomed>>

\* What a measurement leaves: the sound it was given is the caller's, unless the
\* caller stitched it for this.
AfterMeasurement(files, r) ==
  Without(files, Files(r, run[r].step, {"target", "synced"}
                   \cup (IF run[r].step \in Composite THEN {"sound"} ELSE {})))

\* Write the cues and start alass, unless the write fails or time is up.
Measure(r) ==
  /\ run[r].pc = "measuring"
  /\ LET budget == StageBudget(r, AlignBudget) IN
     \/ Unmeasured(r, AfterMeasurement(scratch, r))
     \/ /\ budget > 0
        /\ run' = [run EXCEPT ![r].pc = "fitting", ![r].left = budget]
        /\ Spawn(With(scratch, Files(r, run[r].step, {"target"}), Me(r)), r, File3(r, run[r].step, "synced"))
        /\ Quiet
  /\ UNCHANGED <<epoch, seq, begun, losses, doomed>>

Moved(starts, m) ==
  [i \in DOMAIN starts |-> AtLeastZero(starts[i] + (IF 2 * i <= Len(starts) THEN m.first ELSE m.second))]

\* alass is done: it failed, or moved the cues.
Measured(r) ==
  /\ run[r].pc = "fitting"
  /\ LET files == AfterMeasurement(scratch, r)
         starts == CuesOf(r)
     IN
     \/ Unmeasured(r, files)
     \/ \E m \in Move :
          LET deltas == Deltas(starts, Moved(starts, m))
              shift == PartialShift(deltas)
          IN IF shift = NoShift THEN Unmeasured(r, files)
             ELSE AfterMeasuring(r, files, Append(run[r].measured, shift), Append(run[r].heard, deltas))
  /\ UNCHANGED <<epoch, seq, begun, losses, doomed>>

-----------------------------------------------------------------------------
(* Around the runs *)

\* A client hangs up: the binary is killed with the future, the files stay.
HangUp(r) ==
  /\ Active(r) /\ losses < MaxLosses
  /\ losses' = losses + 1
  /\ run' = [run EXCEPT ![r] = Idle]
  /\ Quiet /\ UNCHANGED <<epoch, seq, begun, scratch, doomed>>

Restart ==
  /\ epoch < MaxRestarts /\ losses < MaxLosses
  /\ losses' = losses + 1
  /\ epoch' = epoch + 1 /\ seq' = 0
  /\ run' = [r \in Run |-> Idle]
  /\ doomed' = None
  /\ Quiet /\ UNCHANGED <<begun, scratch>>

\* sweep_scratch looks at a file, and unlinks it.
TooOld(f) == f.age > Abandoned

Condemn ==
  LET old == {p \in DOMAIN scratch : TooOld(scratch[p])}
      p == CHOOSE q \in old : TRUE   \* the order of the directory
  IN
  /\ doomed = None /\ old # {}
  /\ doomed' = [path |-> p, by |-> scratch[p].by]
  /\ Quiet /\ UNCHANGED <<epoch, seq, begun, losses, run, scratch>>

Unlink ==
  /\ doomed # None
  /\ scratch' = Without(scratch, {doomed.path})
  /\ doomed' = None
  /\ Quiet /\ UNCHANGED <<epoch, seq, begun, losses, run>>

\* A tick passes only while binaries run, none of them beyond its budget.
OnBinary(r) == run[r].pc \in {"aligning", "joining", "fitting"} \/ run[r].busy # {}
Tick ==
  /\ \A r \in Run : Active(r) => OnBinary(r) /\ run[r].left > 0
  /\ run' = [r \in Run |-> IF Active(r) THEN [run[r] EXCEPT !.elapsed = @ + 1, !.left = @ - 1] ELSE run[r]]
  /\ scratch' = [p \in DOMAIN scratch |-> [scratch[p] EXCEPT !.age = Smaller(@ + 1, Abandoned + 1)]]
  /\ Quiet /\ UNCHANGED <<epoch, seq, begun, losses, doomed>>

AlignerNext ==
  \/ \E r \in Run : \/ StartReference(r) \/ WriteReference(r) \/ FinishReference(r)
                    \/ StartAudio(r) \/ Listen(r)
                    \/ \E b \in Batch : Extracted(r, b) \/ NotExtracted(r, b)
                    \/ Stitch(r) \/ Stitched(r) \/ Measure(r) \/ Measured(r)
                    \/ HangUp(r)
  \/ Restart \/ Condemn \/ Unlink \/ Tick

AlignerSpec == AlignerInit /\ [][AlignerNext]_alignerVars

-----------------------------------------------------------------------------
(* Properties *)

\* Runs and files are what they should be; a run without a binary under way has no
\* extraction pending, and none measures more than it can.
AlignerTypeOK ==
  /\ epoch \in 0..MaxRestarts /\ seq \in 0..MaxRuns /\ begun \in 0..MaxRuns /\ losses \in 0..MaxLosses
  /\ \A r \in Run :
       /\ run[r].pc \in {"idle", "writing", "aligning", "extracting", "stitching", "joining",
                         "measuring", "fitting"}
       /\ run[r].tag \in 0..MaxRuns /\ run[r].step \in Step /\ run[r].left \in Nat
       /\ run[r].busy \subseteq Batch /\ (run[r].busy # {} => run[r].pc = "extracting")
       /\ Len(run[r].measured) = Len(run[r].heard) /\ Len(run[r].heard) <= 3
  /\ DOMAIN scratch \subseteq Path /\ \A p \in DOMAIN scratch : scratch[p] \in File
  /\ doomed # None => doomed.path \in Path /\ doomed.by \in Id

\* A run that returns, however it went, leaves no file: the directory is on a
\* volume that is meant to be bounded (sync.rs, every exit of the two tiers).
ReturnsClean == reply.end # "none" => \A p \in DOMAIN scratch : scratch[p].by # reply.who

\* No run is under way for longer than its tier has, whatever its stages took
\* (sync.rs:44, the budgets of the stages), so what the sweep finds too old belongs
\* to none (sync.rs:353, "age, not ownership").
BudgetOf(r) == IF TierOf[r] = "tier1" THEN Tier1Budget ELSE TotalBudget
AgeTellsTheLiving ==
  /\ AlignerTypeOK
  /\ \A r \in Run : run[r].elapsed <= BudgetOf(r)
  /\ doomed # None => doomed.by \notin LiveIds

\* Nobody is handed a text another run of the same process made (scratch_tag,
\* addon.rs:1000).
HandsOutItsOwn == reply.end = "aligned" => reply.from = reply.who \/ reply.from[1] # epoch

\* A text is only moved to where two alignments put it, each by nearly all the
\* cues it moved and told by (sync.rs:9, "require a confirming alignment").
Backs(deltas, shift) ==
  /\ Len(deltas) >= 3
  /\ Cardinality(Within(deltas, shift, Spread + Agreement)) * 4 >= Len(deltas) * 3
ShiftIsConfirmed ==
  reply.shift # NoShift =>
    \E i, j \in DOMAIN reply.heard : i # j /\ Backs(reply.heard[i], reply.shift) /\ Backs(reply.heard[j], reply.shift)
=============================================================================
