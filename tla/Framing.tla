------------------------------- MODULE Framing -------------------------------
(***************************************************************************)
(* Reading a model's answer: the incremental parser of                     *)
(* dawmans/answer-framing/1 (answer/parse.py) and the resolution of its    *)
(* citation markers (answer/ground.py), as operators on a parser's state.  *)
(*                                                                         *)
(* A line is what the parser tells apart: its kind (the sigil it starts    *)
(* with), the one marker it carries (or NoMark), the source or device a    *)
(* sigil names and whether it is shaped like a product fact.  A block is   *)
(* its type and its lines.                                                 *)
(***************************************************************************)
EXTENDS Lists, FiniteSets

CONSTANTS
  NoMark,      \* a line without a marker
  NoLine,      \* no line
  SuggestionsMax

ContentOutcomes ==
  {"answered", "partially-answered", "needs-narrowing", "ranked-causes",
   "refused-not-covered", "out-of-domain", "no-manual-for-device"}

\* Kinds of line that become a field of the envelope instead of body.
Sigils == {"uncovered", "narrow", "cause", "device", "suggest"}

Block(type, lines) == [type |-> type, lines |-> lines]

NewParser ==
  [buffer |-> <<>>, count |-> 0, one |-> NoLine, hoisting |-> FALSE, answer |-> NoLine,
   body |-> <<>>,      \* lines the streaming seam was called with
   blocks |-> <<>>,
   uncovered |-> <<>>, question |-> NoLine, candidates |-> <<>>, causes |-> <<>>,
   device |-> NoLine, suggested |-> <<>>, violation |-> FALSE,
   paragraph |-> <<>>, caveat |-> <<>>, conflict |-> <<>>,  \* open blocks
   collecting |-> FALSE, cause |-> NoLine]

Shown(p, line) == [p EXCEPT !.body = Append(@, line)]

Opened(type, lines) == IF lines = <<>> THEN <<>> ELSE <<Block(type, lines)>>

\* _close_cause: what the model says of a cause and of its check.
CauseClosed(p, check) ==
  [p EXCEPT !.cause = NoLine, !.causes = Append(@, [statement |-> p.cause, check |-> check])]

\* Slip: a paragraph is not closed by what follows it.
FlushedButParagraph(p) ==
  LET q == [p EXCEPT !.blocks = @ \o Opened("caveat", p.caveat) \o Opened("conflict", p.conflict),
                     !.paragraph = <<>>, !.caveat = <<>>, !.conflict = <<>>, !.collecting = FALSE]
  IN  IF q.cause = NoLine THEN q ELSE CauseClosed(q, NoLine)

\* _flush_open
Flushed(p) ==
  LET q == [p EXCEPT
              !.blocks = @ \o Opened("paragraph", p.paragraph) \o Opened("caveat", p.caveat)
                           \o Opened("conflict", p.conflict),
              !.violation = @ \/ Len(p.conflict) \notin {0, 3},
              !.paragraph = <<>>, !.caveat = <<>>, !.conflict = <<>>, !.collecting = FALSE]
  IN  IF q.cause = NoLine THEN q ELSE CauseClosed(q, NoLine)

\* _sigil_line: a second question or device is dropped, a second suggestion of
\* one source adds nothing.
Hoisted(p, line) ==
  CASE line.kind = "uncovered" -> [p EXCEPT !.uncovered = Append(@, line)]
    [] line.kind = "narrow" /\ p.question = NoLine ->
         [p EXCEPT !.question = line, !.collecting = TRUE]
    [] line.kind = "cause" -> [p EXCEPT !.cause = line]
    [] line.kind = "device" /\ p.device = NoLine -> [p EXCEPT !.device = line]
    [] line.kind = "suggest" -> [p EXCEPT !.suggested = WithKey(@, line.names)]
    [] OTHER -> p

\* _body_line for a line that continues no open block: a new block, a field, or
\* prose.
Classified(p, line) ==
  CASE line.kind \in {"heading", "step", "bullet"} ->
         Shown([Flushed(p) EXCEPT !.blocks = Append(@, Block(line.kind, <<line>>))], line)
    [] line.kind = "caveat"   -> Shown([Flushed(p) EXCEPT !.caveat = <<line>>], line)
    [] line.kind = "conflict" -> Shown([Flushed(p) EXCEPT !.conflict = <<line>>], line)
    [] line.kind \in Sigils /\ p.hoisting -> Hoisted(Flushed(p), line)
    [] OTHER -> Shown([p EXCEPT !.paragraph = Append(@, line)], line)

\* _body_line.  A reading of a conflict is written as a bullet.
BodyLine(p, line) ==
  LET q == IF p.conflict # <<>> /\ line.kind # "bullet" THEN Flushed(p) ELSE p IN
    CASE line.kind = "blank" -> Shown(Flushed(p), line)
      [] line.kind = "bullet" /\ p.conflict # <<>> ->
           Shown([p EXCEPT !.conflict = Append(@, line)], line)
      [] line.kind = "candidate" /\ q.collecting ->
           [q EXCEPT !.candidates = Append(@, line)]
      [] line.kind = "check" /\ q.cause # NoLine -> CauseClosed(q, line)
      [] line.kind = "indented" /\ q.caveat # <<>> ->
           Shown([q EXCEPT !.caveat = Append(@, line)], line)
      [] OTHER -> Classified(q, line)

\* _line: the framing's header, then body; without an outcome on line 1 all of
\* it is body.
Line(p, line) ==
  LET q == [p EXCEPT !.count = @ + 1] IN
    CASE q.count = 1 ->
           LET named == [q EXCEPT !.one = line, !.hoisting = line.kind \in ContentOutcomes] IN
             IF named.hoisting THEN named ELSE BodyLine(named, line)
      [] q.count = 2 /\ q.hoisting ->
           [q EXCEPT !.answer = IF line.kind = "blank" THEN NoLine ELSE line]
      [] q.count = 3 /\ q.hoisting /\ line.kind = "rule" -> q
      [] OTHER -> BodyLine(q, line)

\* feed: a line is read when its end arrives.
FedText(p, line) == [p EXCEPT !.buffer = <<line>>]
FedEnd(p) == Line([p EXCEPT !.buffer = <<>>], p.buffer[1])

\* close: the last line may have no end.
Closed(p) == Flushed(IF p.buffer = <<>> THEN p ELSE FedEnd(p))

-----------------------------------------------------------------------------
(* Reading out, once the parser is closed (result).                        *)

ResultOutcome(p, covered) ==
  IF p.hoisting THEN p.one.kind
  ELSE IF covered THEN "answered" ELSE "refused-not-covered"

\* The unparsed path takes the first sentence of everything, here line 1.
ResultAnswer(p) == IF p.hoisting THEN p.answer ELSE p.one

FramingOf(p) == IF p.hoisting /\ ~p.violation THEN "parsed" ELSE "unparsed"

\* _narrowing: a question without candidates is none.
ResultNarrowing(p) ==
  IF p.hoisting /\ p.question # NoLine THEN p.candidates ELSE <<>>

\* _suggestions: ids that name no indexed source are dropped, then the first
\* three are kept.
ResultSuggestions(p, sources) == First(Among(p.suggested, sources), SuggestionsMax)

-----------------------------------------------------------------------------
(* Grounding.                                                              *)

MarksOf(lines) == {lines[i].mark : i \in DOMAIN lines} \ {NoMark}

\* strip_unknown, _clean_delta: a marker that does not resolve is removed.
Clean(line, supplied) ==
  IF line # NoLine /\ line.mark \notin supplied THEN [line EXCEPT !.mark = NoMark] ELSE line

CleanLines(lines, supplied) == [i \in DOMAIN lines |-> Clean(lines[i], supplied)]

\* is_ungrounded: no resolved citation, and a fact or a step.
Ungrounded(block, supplied) ==
  /\ MarksOf(block.lines) \cap supplied = {}
  /\ \/ block.type = "step"
     \/ \E i \in DOMAIN block.lines :
          block.lines[i].fact /\ (block.type = "conflict" => i = 1)

\* ground_turn: what a direct answer and a body cite.
CitedBy(answer, blocks, supplied) ==
  (IF answer = NoLine THEN {} ELSE {answer.mark} \cap supplied)
    \cup UNION {MarksOf(blocks[i].lines) \cap supplied : i \in DOMAIN blocks}
=============================================================================
