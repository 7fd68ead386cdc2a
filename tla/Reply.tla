------------------------------- MODULE Reply -------------------------------
(***************************************************************************)
(* What one call to a translation provider comes to (translate.rs:         *)
(* call_chat_typed, deepl_translate, provider_json, parse_json_array).     *)
(*                                                                         *)
(* A chat model answers in prose that holds a JSON array somewhere; DeepL  *)
(* answers with an array.  A text is a sequence of tokens: brackets,       *)
(* quotes, escapes, commas, numbers, and anything else, among it the lines *)
(* of dialogue of Srt.  White space is left out, as JSON ignores it.       *)
(***************************************************************************)
EXTENDS Srt, FiniteSets

CONSTANT MaxCandidates   \* spans tried per pass (MAX_CANDIDATES)

ASSUME ReplyAssumption == MaxCandidates \in Nat \ {0}

Open   == Line("open", 0)
Close  == Line("close", 0)
Quote  == Line("quote", 0)
Escape == Line("escape", 0)
Comma  == Line("comma", 0)

-----------------------------------------------------------------------------
(* Scan: how deep in brackets, and whether inside a string, whose brackets *)
(* do not count.                                                           *)
StartOfText == [depth |-> 0, inString |-> FALSE, escaped |-> FALSE]

ScanStep(s, token) ==
    IF s.inString
      THEN CASE s.escaped              -> [s EXCEPT !.escaped = FALSE]
             [] token = Escape /\ ~s.escaped -> [s EXCEPT !.escaped = TRUE]
             [] token = Quote /\ ~s.escaped  -> [s EXCEPT !.inString = FALSE]
             [] OTHER                  -> s
      ELSE CASE token = Quote -> [s EXCEPT !.inString = TRUE]
             [] token = Open  -> [s EXCEPT !.depth = @ + 1]
             [] token = Close /\ s.depth > 0 -> [s EXCEPT !.depth = @ - 1]
             [] OTHER         -> s

(* The state after each number of tokens.                                  *)
Scan(text) ==
    LET After[i \in 0..Len(text)] ==
            IF i = 0 THEN StartOfText ELSE ScanStep(After[i - 1], text[i])
    IN  After

Opens(text, scan, i) == text[i] = Open /\ ~scan[i - 1].inString

(* A closing bracket closes something, and what it closes is the top of    *)
(* the stack: the last bracket opened at its depth.                        *)
Closes(text, scan, i) == text[i] = Close /\ ~scan[i - 1].inString /\ scan[i - 1].depth > 0

Opener(text, scan, close) ==
    Max({i \in 1..(close - 1) : Opens(text, scan, i) /\ scan[i].depth = scan[close - 1].depth})

Span(text, close) == SubSeq(text, Opener(text, Scan(text), close), close)

-----------------------------------------------------------------------------
(* A balanced span is a JSON array when its tokens outside strings follow  *)
(* each other as they may; a string counts as one value.                   *)
Lexeme(token) ==
    CASE token = Open                            -> "open"
      [] token = Close                           -> "close"
      [] token = Comma                           -> "comma"
      [] token = Quote \/ token.kind = "number"  -> "value"
      [] OTHER                                   -> "junk"

MayFollow ==
    {<<"start", "open">>,
     <<"open", "open">>, <<"open", "value">>, <<"open", "close">>, <<"value", "comma">>,
     <<"value", "close">>, <<"close", "comma">>, <<"close", "close">>,
     <<"comma", "value">>, <<"comma", "open">>}

(* What serde_json has made of a span: the last token outside a string,    *)
(* whether all such follow as they may, whether the array holds nothing    *)
(* but strings, and the strings.                                           *)
StartOfSpan == [last |-> "start", legal |-> TRUE, flat |-> TRUE, texts |-> <<>>]

ReadStep(r, before, after, token) ==
    CASE ~before.inString ->
           [last  |-> Lexeme(token),
            legal |-> r.legal /\ <<r.last, Lexeme(token)>> \in MayFollow,
            flat  |-> r.flat /\ (r.last = "start" \/ token \in {Quote, Comma, Close}),
            texts |-> IF token = Quote THEN Append(r.texts, <<>>) ELSE r.texts]
      [] before.inString /\ after.inString /\ ~after.escaped ->
           [r EXCEPT !.texts[Len(r.texts)] = Append(@, token)]
      [] OTHER -> r

Reading(span) ==
    LET scan == Scan(span)
        Read[i \in 0..Len(span)] ==
            IF i = 0 THEN StartOfSpan ELSE ReadStep(Read[i - 1], scan[i - 1], scan[i], span[i])
    IN  Read

IsArray(span) == Reading(span)[Len(span)].legal

NoReply == [read |-> FALSE, texts |-> <<>>]

(* reply_at: an array is the reply; unless it holds nothing but strings,   *)
(* it is a bad one.                                                        *)
ReplyAt(span) ==
    LET array == Reading(span)[Len(span)]
    IN  IF array.flat THEN [read |-> TRUE, texts |-> array.texts] ELSE NoReply

-----------------------------------------------------------------------------
(* The brackets that close a span at one of these depths; as many as are   *)
(* tried; and those whose span is an array.                                *)
Candidates(text, depths) ==
    LET scan == Scan(text)
    IN  {i \in DOMAIN text : Closes(text, scan, i) /\ scan[i - 1].depth \in depths}

Tried(closes) == {c \in closes : Cardinality({e \in closes : e < c}) < MaxCandidates}

Arrays(text, depths) == {c \in Tried(Candidates(text, depths)) : IsArray(Span(text, c))}

TopLevelArrays(text)  == Arrays(text, {1})
InnermostArrays(text) == Arrays(text, 1..Len(text))

FirstOf(text, arrays) == IF arrays = {} THEN NoReply ELSE ReplyAt(Span(text, Min(arrays)))

(* Mutant: brackets are paired on a stack at once, outermost or not.       *)
MutParseJsonArray(text) == FirstOf(text, InnermostArrays(text))

(* parse_json_array: an outermost array wins; pairs on a stack are tried   *)
(* when there is none, as after an unmatched bracket.                      *)
ParseJsonArray(text) ==
    FirstOf(text, IF TopLevelArrays(text) # {} THEN TopLevelArrays(text) ELSE InnermostArrays(text))

(* An array of texts as a model writes it.                                 *)
Escaped(token) == IF token \in {Quote, Escape} THEN <<Escape, token>> ELSE <<token>>

Quoted(text) == <<Quote>> \o FlattenSeq([i \in DOMAIN text |-> Escaped(text[i])]) \o <<Quote>>

Item(texts, i) == IF i = 1 THEN Quoted(texts[i]) ELSE <<Comma>> \o Quoted(texts[i])

Array(texts) == <<Open>> \o FlattenSeq([i \in DOMAIN texts |-> Item(texts, i)]) \o <<Close>>

-----------------------------------------------------------------------------
(* A response: who it comes from, its status and how its body arrived, and *)
(* what that said: tokens from a chat model, from DeepL a sequence of      *)
(* [string |-> whether it is one, text |-> ...].                           *)
Retryable(status) == status \in {"limited", "unwell"}

(* The status first: "limited" (429) and "unwell" (5xx) may pass; a        *)
(* "credential" status (400 to 403 and DeepL's 456) says the next film     *)
(* will be refused too; anything else, no connection included, ends it.    *)
StatusResult(status) ==
    CASE Retryable(status)     -> "retry"
      [] status = "credential" -> "credential"
      [] OTHER                 -> "refused"

(* A body that breaks off is the service's failure; one too large, or not  *)
(* JSON, or with no text in it (a safety filter), is about this batch.     *)
BodyResult(response) ==
    CASE response.body = "cut"  -> "refused"
      [] response.body \in {"oversized", "garbled", "wordless"} -> "misshapen"
      [] OTHER -> IF response.from = "deepl"
                    THEN IF \A i \in DOMAIN response.said : response.said[i].string
                           THEN "answered" ELSE "misshapen"
                    ELSE IF ParseJsonArray(response.said).read
                           THEN "answered" ELSE "misshapen"

CallResult(response) ==
    IF response.status = "ok" THEN BodyResult(response) ELSE StatusResult(response.status)

=============================================================================
