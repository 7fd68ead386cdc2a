-------------------------------- MODULE Srt --------------------------------
(***************************************************************************)
(* The subtitle codec of srt.rs, at the level of lines.  A document is a   *)
(* sequence of lines (its byte-order mark stripped and its line breaks     *)
(* normalised, as both readers do first).  What the code asks of a line is *)
(* its kind, and a line's number, timecode or words are one value:         *)
(*                                                                         *)
(*   "empty"   nothing at all          "timing"  a parsable timing line    *)
(*   "pad"     only whitespace         "text"    anything else             *)
(*   "index"   a number                                                    *)
(*                                                                         *)
(* A cue keeps its text as the lines the code joins with "\n".             *)
(***************************************************************************)
EXTENDS Integers, Sequences, SequencesExt

Line(kind, value) == [kind |-> kind, value |-> value]

EmptyLine == Line("empty", 0)

Blank(line) == line.kind \in {"empty", "pad"}

Cue(index, timing, text) == [index |-> index, timing |-> timing, text |-> text]

-----------------------------------------------------------------------------
(* A cue begins at position i: a timing line, or an index followed by one. *)
(* Past the end counts: trailing padding ends the file.                    *)
StartsACue(doc, i) ==
    \/ i > Len(doc)
    \/ doc[i].kind = "timing"
    \/ /\ doc[i].kind = "index"
       /\ i < Len(doc)
       /\ doc[i + 1].kind = "timing"

(* The run of blank lines around line i separates two cues when one of its *)
(* lines is empty or when a cue starts right after it; otherwise it is     *)
(* padding inside the dialogue.                                            *)
BlankRun(doc, lo, hi) == \A k \in lo..hi : Blank(doc[k])

Separates(doc, i) ==
    /\ Blank(doc[i])
    /\ \/ \E k \in 1..i : doc[k].kind = "empty" /\ BlankRun(doc, k, i)
       \/ \E k \in i..Len(doc) :
             /\ BlankRun(doc, i, k)
             /\ \/ doc[k].kind = "empty"
                \/ (k = Len(doc) \/ ~Blank(doc[k + 1])) /\ StartsACue(doc, k + 1)

(* The lines of the blocks, and the block that starts at one of them.      *)
Kept(doc) == {i \in 1..Len(doc) : ~Separates(doc, i)}

Block(doc, kept, start) ==
    LET end == CHOOSE e \in start..Len(doc) : start..e \subseteq kept /\ e + 1 \notin kept
    IN  SubSeq(doc, start, end)

(* A block becomes a cue, or is skipped when malformed.  A file may omit   *)
(* the index: the cue is then numbered after the ones already read.        *)
PushCue(cues, block) ==
    LET indexed == block[1].kind = "index"
        timing  == IF indexed THEN 2 ELSE 1
        number  == IF indexed THEN block[1].value ELSE Len(cues) + 1
    IN  IF Len(block) >= timing /\ block[timing].kind = "timing"
          THEN Append(cues, Cue(number, block[timing].value,
                                SubSeq(block, timing + 1, Len(block))))
          ELSE cues

Parse(doc) ==
    LET kept   == Kept(doc)
        starts == {i \in kept : i - 1 \notin kept}
        Read[i \in 0..Len(doc)] ==    \* the cues of the blocks that start by line i
            CASE i = 0       -> <<>>
              [] i \in starts -> PushCue(Read[i - 1], Block(doc, kept, i))
              [] OTHER       -> Read[i - 1]
    IN  Read[Len(doc)]

-----------------------------------------------------------------------------
(* has_a_cue: the streaming test a download is accepted by.  It remembers  *)
(* two things of the lines before and stops at the first hit.              *)
AfterLine(seen, line) ==
    IF seen.hit THEN seen
    ELSE [hit |-> line.kind = "timing" /\ (seen.blockStart \/ seen.afterIndex),
          blockStart |-> Blank(line),
          afterIndex |-> seen.blockStart /\ line.kind = "index"]

StartOfDocument == [hit |-> FALSE, blockStart |-> TRUE, afterIndex |-> FALSE]

HasACue(doc) ==
    LET Seen[i \in 0..Len(doc)] ==
            IF i = 0 THEN StartOfDocument ELSE AfterLine(Seen[i - 1], doc[i])
    IN  Seen[Len(doc)].hit

-----------------------------------------------------------------------------
(* serialize: blank lines inside a cue's text are dropped, because one     *)
(* ends the cue for every reader downstream.                               *)
Compact(text) ==
    LET Of[i \in 0..Len(text)] ==    \* of the first i lines
            IF i = 0 THEN <<>>
            ELSE Of[i - 1] \o (IF Blank(text[i]) THEN <<>> ELSE <<text[i]>>)
    IN  Of[Len(text)]

CueLines(cue) ==
    LET text == Compact(cue.text)
    IN  <<Line("index", cue.index), Line("timing", cue.timing)>>
            \o (IF text = <<>> THEN <<EmptyLine>> ELSE text) \o <<EmptyLine>>

Serialize(cues) == FlattenSeq([i \in DOMAIN cues |-> CueLines(cues[i])])

=============================================================================
