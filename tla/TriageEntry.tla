------------------------------ MODULE TriageEntry ------------------------------
(***************************************************************************)
(* An entry of the authored store as its parser reads it: triage/parse.py, *)
(* with the identity of triage/model.py.  A file is                        *)
(*                                                                         *)
(*   [front, declared, devices, extra, lines]                              *)
(*                                                                         *)
(* where front says how the YAML fence fared, declared how `devices:` was  *)
(* written, and a line is [kind, text, to]: text is the line's words as    *)
(* one token, to what a `fix:`, an `undocumented:` or a symptom names.     *)
(* Emphasis, bullets and heading hashes are what `kind` abstracts.         *)
(***************************************************************************)
EXTENDS FixPointers, FiniteSets

CONSTANTS MinCauses, MaxCauses   \* the band an entry's causes lie in: 2 and 6

ASSUME BandAssumption == /\ MinCauses \in Nat \ {0} /\ MaxCauses \in Nat
                         /\ MinCauses <= MaxCauses

SingleLineKeys == {"fix", "undocumented", "also"}
WrappingKeys   == {"check", "why"}
LineKinds      == {"symptom", "cause", "prose", "blank"} \cup SingleLineKeys \cup WrappingKeys

\* A file's lines as the line grammar sorts them; no list of words is None.
IsDraft(d) ==
  /\ IsSeq(d.lines)
  /\ \A i \in DOMAIN d.lines : /\ d.lines[i].kind \in LineKinds
                               /\ d.lines[i].kind = "symptom" => d.lines[i].to.text = d.lines[i].text
  /\ None \notin Seq({d.lines[i].text : i \in DOMAIN d.lines})

NewSection(statement) ==
  [statement |-> statement, check |-> None, fixes |-> <<>>, undocumented |-> None,
   notes |-> <<>>, fixLine |-> FALSE, undocumentedLine |-> FALSE]

IsClosing(s) == s.check = None /\ ~s.fixLine /\ ~s.undocumentedLine

Noted(s, texts) == [s EXCEPT !.notes = @ \o texts]

\* The slip WordsAreKept watches for: a second check is dropped, not noted.
AbsorbedOnce(s, key, texts, to) ==
  CASE key = "check" -> IF s.check = None THEN [s EXCEPT !.check = texts] ELSE s
    [] key = "fix" /\ IsPointer(to) ->
         [s EXCEPT !.fixLine = TRUE, !.fixes = Append(@, to)]
    [] key = "fix" /\ ~IsPointer(to) -> [Noted(s, texts) EXCEPT !.fixLine = TRUE]
    [] key = "undocumented" -> [s EXCEPT !.undocumentedLine = TRUE, !.undocumented = to]
    [] OTHER -> Noted(s, texts)

\* A keyed value under a cause: the first check and the first claim are fields,
\* readable pointers accumulate, everything else stays in the passage's text.
Absorbed(s, key, texts, to) ==
  CASE key = "check" /\ s.check = None -> [s EXCEPT !.check = texts]
    [] key = "fix" /\ IsPointer(to) ->
         [s EXCEPT !.fixLine = TRUE, !.fixes = Append(@, to)]
    [] key = "fix" /\ ~IsPointer(to) -> [Noted(s, texts) EXCEPT !.fixLine = TRUE]
    [] key = "undocumented" /\ s.undocumented = None ->
         [s EXCEPT !.undocumentedLine = TRUE, !.undocumented = to]
    [] OTHER -> Noted(s, texts)

OnLast(sections, s) == Append(Front(sections), s)

\* Above the first cause only `also:` is read; other keys are preamble.
Absorb(b, key, texts, to) ==
  IF b.sections # <<>>
  THEN [b EXCEPT !.sections = OnLast(@, Absorbed(Last(@), key, texts, to))]
  ELSE IF key = "also" THEN [b EXCEPT !.phrasings = @ \o texts]
  ELSE [b EXCEPT !.preamble = @ \o texts]

NewBody == [symptom |-> None, line |-> 0, phrasings |-> <<>>, preamble |-> <<>>,
            sections |-> <<>>, pending |-> None, wrapped |-> <<>>]

Flush(b) ==
  IF b.pending = None THEN b
  ELSE [Absorb(b, b.pending, b.wrapped, None) EXCEPT !.pending = None, !.wrapped = <<>>]

\* One line of the body.  `check:` and `why:` wrap until a blank line, a heading
\* or another key; the other keys never do.
ReadLine(b, line, number) ==
  CASE line.kind = "symptom" -> [Flush(b) EXCEPT !.symptom = line.to, !.line = number]
    [] line.kind = "cause" ->
         [Flush(b) EXCEPT !.sections = Append(@, NewSection(line.text))]
    [] line.kind \in SingleLineKeys -> Absorb(Flush(b), line.kind, <<line.text>>, line.to)
    [] line.kind \in WrappingKeys ->
         [Flush(b) EXCEPT !.pending = line.kind, !.wrapped = <<line.text>>]
    [] line.kind = "blank" -> Flush(b)
    [] line.kind = "prose" /\ b.pending # None ->
         [b EXCEPT !.wrapped = Append(@, line.text)]
    [] line.kind = "prose" /\ b.pending = None ->
         IF b.sections = <<>> THEN [b EXCEPT !.preamble = Append(@, line.text)]
         ELSE [b EXCEPT !.sections = OnLast(@, Noted(Last(@), <<line.text>>))]

Body(lines) ==
  LET read[i \in 0..Len(lines)] ==
        IF i = 0 THEN NewBody ELSE ReadLine(read[i - 1], lines[i], i)
  IN  Flush(read[Len(lines)])

----------------------------------------------------------------------------

\* Why a file is turned away by the parser, or beside another in the store.
Failures == {"frontmatter-missing", "frontmatter-malformed", "no-devices", "devices-not-a-list",
             "no-symptom", "too-few-causes", "too-many-causes", "cause-missing-check",
             "cause-fix-and-undocumented", "cause-missing-fix", "duplicate-symptom"}

ASSUME NamesAssumption == None \notin Failures \cup LineKinds

When(fails, reason) == IF fails THEN reason ELSE None

\* The reason of the first check that fails, as the early returns pick it.
FirstOf(reasons) ==
  LET given == {i \in DOMAIN reasons : reasons[i] # None}
  IN  IF given = {} THEN None ELSE reasons[Min(given)]

FrontFailure(d) ==
  FirstOf(<<When(d.front = "unfenced", "frontmatter-missing"),
            When(d.front # "fenced", "frontmatter-malformed"),
            When(d.declared = "absent", "no-devices"),
            When(d.declared = "bare", "devices-not-a-list"),
            When(d.devices = <<>>, "no-devices")>>)

Symptoms(d) == {i \in DOMAIN d.lines : d.lines[i].kind = "symptom"}

\* The final section is the closing statement when it checks and fixes nothing.
HasClosing(b) == b.sections # <<>> /\ IsClosing(Last(b.sections))
CauseSections(b) == IF HasClosing(b) THEN Front(b.sections) ELSE b.sections

CauseFailure(s) ==
  FirstOf(<<When(s.check = None, "cause-missing-check"),
            When(s.fixLine /\ s.undocumentedLine, "cause-fix-and-undocumented"),
            When(s.fixes = <<>> /\ s.undocumented = None, "cause-missing-fix")>>)

ParseFailure(d, b) ==
  LET causes == CauseSections(b)
  IN  FirstOf(<<FrontFailure(d),
                When(Cardinality(Symptoms(d)) # 1, "no-symptom"),
                When(Len(causes) < MinCauses, "too-few-causes"),
                When(Len(causes) > MaxCauses, "too-many-causes")>>
              \o [i \in DOMAIN causes |-> CauseFailure(causes[i])])

ParsedCause(s) == [statement |-> s.statement, check |-> s.check, notes |-> s.notes,
                   fixes |-> s.fixes, claim |-> s.undocumented]

ParsedEntry(file, d, b) ==
  [file |-> file, line |-> b.line, symptom |-> b.symptom, phrasings |-> b.phrasings,
   preamble |-> b.preamble, devices |-> d.devices,
   causes |-> LET causes == CauseSections(b) IN [i \in DOMAIN causes |-> ParsedCause(causes[i])],
   closing |-> IF HasClosing(b) THEN <<Last(b.sections).statement>> \o Last(b.sections).notes
               ELSE <<>>]

ParseFlags(file, d, b) ==
  {[name |-> n, file |-> file, cause |-> 0] :
     n \in (IF d.extra THEN {"unknown-frontmatter-key"} ELSE {})
           \cup (IF HasClosing(b) THEN {"closing-statement-inferred"} ELSE {})}

ParseEntry(file, d) ==
  LET b == Body(d.lines)
      failure == ParseFailure(d, b)
  IN  IF failure # None
      THEN [rejection |-> failure, entry |-> None, flags |-> {}]
      ELSE [rejection |-> None, entry |-> ParsedEntry(file, d, b),
            flags |-> ParseFlags(file, d, b)]

----------------------------------------------------------------------------

\* The one construction of an entry's text: a head, a block per cause, a closing.
HeadOf(e)  == <<e.symptom.text>> \o e.phrasings \o e.preamble
BlockOf(c) == <<c.statement>> \o c.check \o c.notes

DeviceIds(e) == {e.devices[i].id : i \in DOMAIN e.devices}
NormalisedSymptom(e) == e.symptom.words

=============================================================================
