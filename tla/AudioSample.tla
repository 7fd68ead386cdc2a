----------------------------- MODULE AudioSample -----------------------------
(***************************************************************************)
(* What the audio tier samples and how it reads an answer (src/src/sync.rs *)
(* `partial_audio_batches` to `partial_audio_shift`).  Three stretches of  *)
(* two probes each are taken from thirds of the film where most is said;   *)
(* an alignment of a probe counts if nearly all its cues moved alike; and  *)
(* a shift is settled when two alignments agree.  A cue is its start and   *)
(* its end: its text never matters here.                                   *)
(***************************************************************************)
EXTENDS Integers, Sequences, FiniteSets, FiniteSetsExt, SequencesExt, Sorting

CONSTANTS
  Probe,      \* TIER2_PROBE_SECONDS
  Lead,       \* TIER2_SAMPLE_LEAD_MS
  MinCues,    \* TIER2_MIN_PROBE_CUES
  Spread,     \* the 100 ms of partial_audio_shift
  MaxShift,   \* TIER2_MAX_SHIFT_MS
  Agreement,  \* TIER2_SHIFT_AGREEMENT_MS
  NoShift

ASSUME AudioSampleAssumption ==
  /\ {Probe, MinCues} \subseteq Nat \ {0}
  /\ {Lead, Spread, MaxShift, Agreement} \subseteq Nat
  /\ NoShift \notin Int

Regions == 3   \* TIER2_DISTRIBUTED_BATCHES

AtLeastZero(n) == IF n < 0 THEN 0 ELSE n
Distance(m, n) == IF m < n THEN n - m ELSE m - n
HalfOf(n) == IF n < 0 THEN -((-n) \div 2) ELSE n \div 2   \* Rust's division truncates

-----------------------------------------------------------------------------
(* Where to listen *)

ByStart(cues) ==
  LET order == Sorted([i \in DOMAIN cues |-> cues[i].start]) IN [p \in DOMAIN cues |-> cues[order[p]]]
CuesBefore(cues, t) == Cardinality({i \in DOMAIN cues : cues[i].start < t})

\* A stretch from `at`, with the bounds of its two probes.  The code slides the
\* bounds along ascending starts, which counts the cues before each.
StretchAt(cues, at) ==
  [at |-> at, left |-> CuesBefore(cues, at), middle |-> CuesBefore(cues, at + Probe),
   right |-> CuesBefore(cues, at + 2 * Probe)]
Density(c) == c.right - c.left

Candidates(cues) ==
  {c \in {StretchAt(cues, at) : at \in {0} \cup {AtLeastZero(cues[i].start - Lead) : i \in DOMAIN cues}} :
     c.middle - c.left >= MinCues /\ c.right - c.middle >= MinCues}

Apart(c, d) == c.at + 2 * Probe <= d.at \/ d.at + 2 * Probe <= c.at

\* The densest of a set, the earliest of those.
Densest(cs) ==
  CHOOSE c \in cs : \A d \in cs : \/ Density(c) > Density(d)
                                  \/ Density(c) = Density(d) /\ c.at <= d.at

\* One more stretch, of the next region, if one is there for every region so far.
InRegion(cues, c, n) ==
  LET ends == Last(cues).end IN
  /\ (ends * n) \div Regions <= c.at + Probe
  /\ c.at + Probe < (ends * (n + 1)) \div Regions
Usable(cues, sofar, n) ==
  {c \in Candidates(cues) : InRegion(cues, c, n) /\ \A i \in DOMAIN sofar : Apart(c, sofar[i])}
Take(cues, sofar, n) ==
  LET usable == Usable(cues, sofar, n) IN
  IF Len(sofar) = n /\ usable # {} THEN Append(sofar, Densest(usable)) ELSE sofar
Chosen(cues) == Take(cues, Take(cues, Take(cues, <<>>, 0), 1), 2)

\* The densest stretch is read first: of equals the last, which changes places
\* with the first.
DensestFirst(chosen) ==
  LET fast == CHOOSE i \in DOMAIN chosen : \A j \in DOMAIN chosen :
                \/ Density(chosen[i]) > Density(chosen[j])
                \/ Density(chosen[i]) = Density(chosen[j]) /\ j <= i
  IN [chosen EXCEPT ![1] = chosen[fast], ![fast] = chosen[1]]

\* The starts of a probe's cues, from the start of its stretch.
ProbeCues(cues, at, from, to) == [i \in 1..(to - from) |-> cues[from + i].start - at]

\* The sample of a film, or <<>> if too little is said in one of its thirds.
Sample(film) ==
  LET cues == ByStart(film)
      chosen == Chosen(cues)
  IN IF Len(chosen) < Regions THEN <<>>
     ELSE [i \in 1..Regions |->
             LET c == DensestFirst(chosen)[i] IN
             [at |-> c.at,
              probes |-> <<ProbeCues(cues, c.at, c.left, c.middle),
                           ProbeCues(cues, c.at, c.middle, c.right)>>]]

\* The places of a sample's stretches in the order of the film.
Chronological(sample) == Sorted([i \in DOMAIN sample |-> sample[i].at])

\* The cues of several stretches, their sound laid end to end.
Packed(sample, selected) ==
  FlattenSeq([k \in DOMAIN selected |->
    LET both == sample[selected[k]].probes[1] \o sample[selected[k]].probes[2]
    IN [i \in DOMAIN both |-> both[i] + (k - 1) * 2 * Probe]])

-----------------------------------------------------------------------------
(* What an alignment says *)

\* By how much each cue moved that can be compared: one the aligner held at zero
\* no longer tells.
Deltas(starts, aligned) ==
  LET told == {i \in DOMAIN starts : i \in DOMAIN aligned /\ aligned[i] > 0}
  IN Ascending([i \in told |-> aligned[i] - starts[i]])

Within(shifts, s, apart) == {i \in DOMAIN shifts : Distance(shifts[i], s) <= apart}
Stable(deltas, shift) == Cardinality(Within(deltas, shift, Spread)) * 4 >= Len(deltas) * 3

PartialShift(deltas) ==
  LET shift == deltas[Len(deltas) \div 2 + 1] IN
  IF Len(deltas) >= 3 /\ Distance(shift, 0) <= MaxShift /\ Stable(deltas, shift) THEN shift ELSE NoShift

\* The middle of the largest group of shifts about one of them, the first such.
Around(shifts, i) == Within(shifts, shifts[i], Agreement)
LargestGroup(shifts) ==
  LET size == [i \in DOMAIN shifts |-> Cardinality(Around(shifts, i))]
      first == CHOOSE i \in DOMAIN shifts : \A j \in DOMAIN shifts : size[j] < size[i] \/ (size[j] = size[i] /\ i <= j)
  IN IF shifts = <<>> THEN <<>> ELSE Ascending(Restrict(shifts, Around(shifts, first)))

\* A mutant: one measurement is enough.
MutConsensus(shifts) == IF shifts = <<>> THEN NoShift ELSE LargestGroup(shifts)[1]

Consensus(shifts) ==
  LET best == LargestGroup(shifts)
      middle == Len(best) \div 2
  IN IF Len(best) < 2 THEN NoShift
     ELSE IF Len(best) % 2 = 0 THEN HalfOf(best[middle] + best[middle + 1])
     ELSE best[middle + 1]
=============================================================================
