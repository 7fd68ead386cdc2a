----------------------------- MODULE MCHarness -----------------------------
(* An instance of Harness for TLC: one film of three cues that shows what  *)
(* source documents do (a padded separator, padding inside the dialogue, a *)
(* cue without an index, a line said twice), and every document of up to   *)
(* three lines, cues with no words among them. Replies: remarks of up to   *)
(* three tokens before arrays of up to two texts, brackets and quotes      *)
(* among their words.                                                      *)
EXTENDS Harness

T(n) == Line("timing", n)
X(w) == Line("text", w)
Pad  == Line("pad", 0)

Film == << T(1), X(10), Pad, Line("index", 3), Pad, Line("index", 8), T(2), X(11),
           EmptyLine, EmptyLine, Line("index", 9), T(3), X(10) >>

Fragment == {EmptyLine, Pad, Line("index", 5), T(6), X(12)}

MCUploads == {Film} \cup UNION {[1..n -> Fragment] : n \in 1..3}

(* A model's text holds a blank line, which would end the cue, and lines   *)
(* that would start another.                                               *)
Translated(text) ==
    IF BlankText(text) THEN <<X(99)>>
    ELSE << X(100 + text[1].value), EmptyLine, Line("index", 1), T(1) >>

(* A line is translated, or left blank and so becomes its source again;    *)
(* one with padding inside comes back as it was, but for a line break      *)
(* after it or for the padding.                                            *)
MCReplies(text) ==
    IF Compact(text) \in {<<>>, text} THEN {<<>>, Translated(text)}
    ELSE {Append(text, EmptyLine), Compact(text)}

W == Line("text", 1)

MCRemarks == UNION {[1..n -> {Open, Close, Comma, Quote, W}] : n \in 0..3}

Spoken == {<<W>>, <<Open, W>>, <<W, Close>>, <<Quote, Comma>>, <<Escape>>}

MCDialogue == {<<t>> : t \in Spoken} \cup {<<W>>} \X Spoken

Response(from, status, body, said) ==
    [from |-> from, status |-> status, body |-> body, said |-> said]

MCResponses ==
    { Response("chat", "ok", "whole", <<W, Open, W>> \o Array(<< <<W>> >>)),
      Response("chat", "ok", "whole", <<Open, Line("number", 1), Close>>),
      Response("chat", "ok", "wordless", <<>>),
      Response("chat", "ok", "cut", <<>>),
      Response("chat", "limited", "whole", <<>>),
      Response("chat", "credential", "whole", <<>>),
      Response("deepl", "ok", "whole", <<[string |-> TRUE, text |-> <<W>>]>>),
      Response("deepl", "ok", "whole", <<[string |-> FALSE, text |-> <<>>]>>),
      Response("deepl", "unreachable", "whole", <<>>) }

=============================================================================
