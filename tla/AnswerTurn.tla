----------------------------- MODULE AnswerTurn -----------------------------
(***************************************************************************)
(* One turn from the passages it retrieves to the envelope its reader has   *)
(* when the stream ends (answer/turn.py between the gates and the record,   *)
(* answer/narrow.py, answer/provider, answer/outcome.py): retrieval, the    *)
(* matched entry's expansion, a provider that writes the answer in deltas   *)
(* cut anywhere, fails, or is rate limited and asked once more, the parser  *)
(* and the drain that sends what it can justify, and the tail.              *)
(* TurnPipeline has what several turns do to each other; here is one.       *)
(***************************************************************************)
EXTENDS Retrieval, Framing

CONSTANTS
  Queries,       \* the questions, as the rankings they lead to
  Followed,      \* bound: those whose answer is streamed, and the provider's kind
  Entries,       \* view.sidecar: per entry passage its causes, each the
                 \* pointers of its fix: [source, passages]
  NarrowingCap, CausesMax, NarrowingMin,
  FirstLines,    \* the lines the model may begin with
  AnswerLines,   \* the lines it may put second, under an outcome: all are answers
  Lines,         \* the lines it may go on with
  MaxLines,      \* bound: lines of an answer; without the framing, one less
  None           \* no query, no entry, no envelope

ASSUME BandAssumption ==
  /\ {NarrowingCap, CausesMax, NarrowingMin, SuggestionsMax} \subseteq Nat
  /\ 1 <= NarrowingMin /\ NarrowingMin <= CausesMax

\* The scope names a source once, and the vectors rank every passage.
ASSUME QueriesAssumption ==
  \A query \in Queries :
    /\ IsSeq(query.selected) /\ IsInjective(query.selected)
    /\ IsSeq(query.dense) /\ ToSet(query.dense) = Passages /\ query.strong \in Nat
    /\ IsSeq(query.lexical) /\ ToSet(query.lexical) \subseteq Passages

\* triage/parse.py: an entry has at least the causes a question needs;
\* triage/pointers.py: a pointer is resolved among the passages of its source.
ASSUME EntriesAssumption ==
  \A e \in DOMAIN Entries :
    /\ IsSeq(Entries[e]) /\ Len(Entries[e]) >= NarrowingMin
    /\ \A cause \in ToSet(Entries[e]) :
         IsSeq(cause) /\ \A pointer \in ToSet(cause) :
           /\ IsSeq(pointer.passages)
           /\ \A p \in ToSet(pointer.passages) \cap Passages : SourceOf[p] = pointer.source

Written == FirstLines \cup AnswerLines \cup Lines

Shapes ==
  [kind : {line.kind : line \in Written}, mark : {line.mark : line \in Written} \cup {NoMark},
   names : {line.names : line \in Written}, fact : BOOLEAN]

ASSUME LinesAssumption ==
  /\ Written \subseteq Shapes /\ NoLine \notin Written
  /\ \A line \in Written : line.kind = "blank" => line.mark = NoMark

VARIABLES
  stage,      \* where the turn is
  query,      \* the question, until the prompt is assembled
  selected,   \* conversation.scope
  ranking,    \* retrieval.supplied, until the prompt is assembled
  expansion,  \* the matched entry's expansion
  supplied,   \* the passages the prompt holds
  provider,   \* its kind, the attempt, and whether it has yielded
  parser,     \* FramingParser
  middle,     \* the provider is in the middle of a delta
  sent,       \* the outcome, direct_answer and body_delta events sent
  envelope,   \* the tail's events
  recorded,   \* what the conversation recorded
  attempts    \* history: the attempts whose text was fed

vars == <<stage, query, selected, ranking, expansion, supplied, provider, parser, middle,
          sent, envelope, recorded, attempts>>

Indexed == {SourceOf[p] : p \in Passages}

NoExpansion == [entry |-> None, causes |-> <<>>, admitted |-> <<>>, suggested |-> <<>>]

Init ==
  /\ stage = "ask"
  /\ query \in Queries /\ selected = query.selected
  /\ ranking = <<>> /\ expansion = NoExpansion /\ supplied = {}
  /\ provider = [kind |-> None, attempt |-> 0, yielded |-> FALSE]
  /\ parser = NewParser /\ middle = FALSE
  /\ sent = [outcomes |-> <<>>, answers |-> <<>>, body |-> <<>>]
  /\ envelope = None /\ recorded = None
  /\ attempts = {}

-----------------------------------------------------------------------------
(* Narrowing.                                                              *)

\* Slip: what retrieval supplied does not count against the cap.
BudgetOfItsOwn(passages) == NarrowingCap

\* What an expansion may still admit.
Budget(passages) == IF Len(passages) < NarrowingCap THEN NarrowingCap - Len(passages) ELSE 0

\* Slip: every cause has the whole budget.
MayAdmitPerCause(expanded, passages) == Len(expanded.fixes) < Budget(passages)

MayAdmit(expanded, passages) == Len(expanded.admitted) < Budget(passages)

Usable == {p \in Passages : InDeviceScope(p, DeviceScope(ToSet(selected)))}

WithPointer(passages, pointer) ==
  IF pointer.source \in ToSet(selected) THEN passages \o Among(pointer.passages, Usable) ELSE passages

\* A fix's passages that the turn may use, in pointer and section order.
FixInScope(fix) == FoldLeft(WithPointer, <<>>, fix)

\* A fix passage is cited if supplied already, admitted while the budget lasts,
\* or dropped.
Cite(passages, expanded, p) ==
  LET held == p \in ToSet(passages \o expanded.admitted) IN
    IF p \in ToSet(expanded.fixes) \/ (~held /\ ~MayAdmit(expanded, passages)) THEN expanded
    ELSE [expanded EXCEPT !.fixes = Append(@, p), !.admitted = IF held THEN @ ELSE Append(@, p)]

NoFix(admitted) == [fixes |-> <<>>, admitted |-> admitted]

Cites(passages, admitted, list) ==
  FoldLeft(LAMBDA e, p : Cite(passages, e, p), NoFix(admitted), list)

\* expand_entry for one more cause.
WithCause(passages, expanded, cause) ==
  LET cited   == Cites(passages, expanded.admitted, FixInScope(cause))
      sources == [i \in DOMAIN cause |-> cause[i].source]
      outside == Among(sources, ToSet(sources) \ ToSet(selected))
  IN  [expanded EXCEPT !.causes = Append(@, cited.fixes), !.admitted = cited.admitted,
                       !.suggested = Updated(@, outside)]

WithCauses(passages, expanded, causes) ==
  FoldLeft(LAMBDA e, cause : WithCause(passages, e, cause), expanded, causes)

\* matched_entry, expand_entry: the best ranked passage that keys the sidecar.
Expand(passages) ==
  LET at == SelectInSeq(passages, LAMBDA p : p \in DOMAIN Entries) IN
    IF at = 0 THEN NoExpansion
    ELSE WithCauses(passages, [NoExpansion EXCEPT !.entry = passages[at]],
                    First(Entries[passages[at]], CausesMax))

\* build_narrowing: the entry's causes in order, or no question.
BuildNarrowing ==
  IF Len(expansion.causes) < NarrowingMin THEN <<>> ELSE [i \in DOMAIN expansion.causes |-> i]

Cause(rank, statement, cites, fixes) ==
  [rank |-> rank, statement |-> statement, cites |-> cites, fixes |-> fixes]

\* build_causes
BuildCauses ==
  [i \in DOMAIN expansion.causes |-> Cause(i, i, {expansion.entry}, ToSet(expansion.causes[i]))]

\* The ?cause lines of a turn without an entry: markers that do not resolve are
\* dropped.
HoistedCauses(p) ==
  [i \in DOMAIN p.causes |->
     LET said == p.causes[i] IN
       Cause(i, said.statement,
             MarksOf(<<said.statement>> \o (IF said.check = NoLine THEN <<>> ELSE <<said.check>>))
               \cap supplied, {})]

-----------------------------------------------------------------------------
(* Up to the provider call.                                                *)

RetrieveAndExpand ==
  /\ stage = "ask"
  /\ ranking' = Retrieve(query)
  /\ expansion' = Expand(Retrieve(query))
  /\ stage' = "retrieved"
  /\ UNCHANGED <<query, selected, supplied, provider, parser, middle, sent, envelope, recorded, attempts>>

\* prompt.assemble: from here on the passages matter, not how they were found.
Assemble ==
  /\ stage = "retrieved"
  /\ supplied' = ToSet(ranking \o expansion.admitted)
  /\ ranking' = <<>> /\ query' = None
  /\ \E f \in Followed : f.query = query /\ provider' = [provider EXCEPT !.kind = f.kind]
  /\ stage' = "streaming"
  /\ UNCHANGED <<selected, expansion, parser, middle, sent, envelope, recorded, attempts>>

-----------------------------------------------------------------------------
(* The stream.                                                             *)

\* 7.6: the first cause's check, as an instruction.
EngineAnswer == [kind |-> "engine", mark |-> NoMark, names |-> None, fact |-> FALSE]

\* Slip: the model's own line 2 is sent.
ModelAnswers(outcome) == FALSE

EngineAnswers(outcome) == outcome = "ranked-causes" /\ expansion.causes # <<>>

\* _drain
Drained(p, s) ==
  LET outcomes == IF s.outcomes = <<>> THEN <<p.one.kind>> ELSE s.outcomes
      answer   == IF EngineAnswers(p.one.kind) THEN EngineAnswer ELSE Clean(p.answer, supplied)
      answers  == IF s.answers = <<>> /\ p.count >= 2 THEN <<answer>> ELSE s.answers
  IN  IF ~p.hoisting THEN s
      ELSE [outcomes |-> outcomes, answers |-> answers,
            body |-> IF answers = <<>> THEN s.body ELSE CleanLines(p.body, supplied)]

\* A piece of a delta: a line, its text or its end.  The parser reads it at once;
\* what it justifies is sent when the delta is over.
Feed(p, ends) ==
  /\ stage = "streaming"
  /\ parser' = p
  /\ middle' = ~ends
  /\ provider' = [provider EXCEPT !.yielded = TRUE]
  /\ sent' = IF ends THEN Drained(p, sent) ELSE sent
  /\ attempts' = attempts \cup {provider.attempt}
  /\ UNCHANGED <<stage, query, selected, ranking, expansion, supplied, envelope, recorded>>

Offered ==
  CASE parser.count = 0 -> FirstLines
    [] parser.count = 1 /\ parser.hoisting -> AnswerLines
    [] OTHER -> Lines

WriteLine(line) ==
  /\ parser.buffer = <<>>
  /\ parser.count < IF parser.hoisting THEN MaxLines ELSE MaxLines - 1
  /\ \/ Feed(FedText(parser, line), TRUE)
     \/ \E ends \in BOOLEAN : Feed(FedEnd(FedText(parser, line)), ends)

EndLine ==
  /\ parser.buffer # <<>>
  /\ \E ends \in BOOLEAN : Feed(FedEnd(parser), ends)

-----------------------------------------------------------------------------
(* Provider failures.                                                      *)

\* in_flight for a failure
InFlight(failure) == IF provider.yielded THEN "incomplete" ELSE failure

EndWith(outcome) ==
  /\ stage' = "over"
  /\ sent' = [sent EXCEPT !.outcomes = Append(@, outcome)]
  /\ UNCHANGED <<query, selected, ranking, expansion, supplied, provider, parser, middle,
                 envelope, recorded, attempts>>

\* Slip: a retry is allowed after output.
RetryOnce(stated) == provider.attempt = 0 /\ stated = "short"

\* 6.8: once, before any output, after a stated interval of at most 3 s.
MayRetry(stated) == provider.attempt = 0 /\ ~provider.yielded /\ stated = "short"

\* A 429: a hosted provider may send it at any time, a local one only instead of
\* a stream.
LimitsRate ==
  /\ stage = "streaming" /\ ~middle
  /\ provider.kind = "keyed" \/ (provider.kind = "local" /\ ~provider.yielded)

Retry ==
  /\ LimitsRate /\ MayRetry("short")
  /\ provider' = [provider EXCEPT !.attempt = 1]
  /\ UNCHANGED <<stage, query, selected, ranking, expansion, supplied, parser, middle, sent,
                 envelope, recorded, attempts>>

RateLimited(stated) ==
  /\ LimitsRate /\ ~MayRetry(stated)
  /\ EndWith(InFlight("rate-limited"))

\* A connection may fail at any time; a refusal comes instead of a local stream.
Fail(failure) ==
  /\ stage = "streaming" /\ ~middle
  /\ CASE provider.kind = "keyed" -> failure \in {"unreachable", "auth", "error"}
       [] provider.kind = "local" -> failure = "unreachable" \/ (failure = "error" /\ ~provider.yielded)
       [] OTHER -> FALSE
  /\ EndWith(InFlight(failure))

\* 4.9: no first token in time.
Watchdog ==
  /\ stage = "streaming" /\ ~provider.yielded
  /\ EndWith("timeout")

-----------------------------------------------------------------------------
(* The tail.                                                               *)

\* Slip: nothing is sent at the end of a framed answer.
SentUnlessFramed(p, outcome, s) ==
  IF s.outcomes # <<>> THEN s
  ELSE [outcomes |-> <<outcome>>, answers |-> <<Clean(ResultAnswer(p), supplied)>>,
        body |-> CleanLines(p.body, supplied)]

\* Without the framing, everything is sent at the end; with it, the engine's
\* direct answer if the model wrote nothing but the outcome.
SentInAll(p, outcome, s) ==
  IF s.outcomes = <<>>
  THEN [outcomes |-> <<outcome>>,
        answers |-> IF ResultAnswer(p) = NoLine THEN <<>> ELSE <<Clean(ResultAnswer(p), supplied)>>,
        body |-> CleanLines(p.body, supplied)]
  ELSE IF s.answers = <<>> /\ EngineAnswers(outcome) THEN [s EXCEPT !.answers = <<EngineAnswer>>]
  ELSE s

\* Slip: a cause's own passages are not added to the citations.
CitedByBodyOnly(answer, blocks, causes) == CitedBy(answer, blocks, supplied)

\* 7.6: what the text and the causes cite.
Cited(answer, blocks, causes) ==
  CitedBy(answer, blocks, supplied)
    \cup (supplied \cap UNION {causes[i].cites \cup causes[i].fixes : i \in DOMAIN causes})

\* Decision 10: a cause without a fix marks its own citations, for this turn.
UnbackedIn(causes) ==
  supplied \cap UNION {causes[i].cites : i \in {j \in DOMAIN causes : causes[j].fixes = {}}}

\* 2.3: indexed sources out of scope, the entry's first, each once.
Suggested(p, outcome) ==
  LET named == expansion.suggested \o ResultSuggestions(p, Indexed) IN
    IF outcome \in {"out-of-domain", "no-manual-for-device"} THEN <<>>
    ELSE First(Updated(<<>>, Among(named, Indexed \ ToSet(selected))), SuggestionsMax)

\* The stream is over: parse result, grounding and the tail, then the record.
Finish ==
  LET p        == Closed(parser)
      covered  == supplied # {}
      outcome  == ResultOutcome(p, covered)
      answer   == IF EngineAnswers(outcome) THEN EngineAnswer ELSE ResultAnswer(p)
      entry    == expansion.entry # None
      causes   == IF outcome # "ranked-causes" THEN <<>>
                  ELSE IF entry THEN BuildCauses ELSE HoistedCauses(p)
      narrowing == IF outcome # "needs-narrowing" THEN <<>>
                   ELSE IF entry THEN BuildNarrowing ELSE ResultNarrowing(p)
      device   == IF outcome = "no-manual-for-device" /\ p.device # NoLine
                    THEN p.device.names ELSE None
  IN
    /\ stage = "streaming" /\ ~middle
    /\ stage' = "over"
    /\ parser' = p
    /\ sent' = SentInAll(p, outcome, Drained(p, sent))
    /\ envelope' =
         [citations |-> Cited(answer, p.blocks, causes), unbacked |-> UnbackedIn(causes),
          causes |-> causes, narrowing |-> narrowing, suggested |-> Suggested(p, outcome),
          device |-> device, manual |-> device \in Gaps,
          ungrounded |-> \E i \in DOMAIN p.blocks : Ungrounded(p.blocks[i], supplied),
          framing |-> FramingOf(p)]
    /\ recorded' = [outcome |-> outcome, answer |-> Clean(answer, supplied)]
    /\ UNCHANGED <<query, selected, ranking, expansion, supplied, provider, middle, attempts>>

Next ==
  \/ RetrieveAndExpand \/ Assemble
  \/ EndLine \/ \E line \in Offered : WriteLine(line)
  \/ Retry \/ \E stated \in {"short", "long", "absent"} : RateLimited(stated)
  \/ \E failure \in {"unreachable", "auth", "error"} : Fail(failure)
  \/ Watchdog \/ Finish

Spec == Init /\ [][Next]_vars
-----------------------------------------------------------------------------
(* Properties.                                                             *)

\* What retrieval and the expansion put in the turn is in its scope, each once,
\* within the caps; every source with a qualifying passage has one there, and
\* without any the turn is uncovered (1.3, 2.1, 5.6, 5.13, Decision 10).
SuppliedIsInScope ==
  stage = "retrieved" =>
    LET all   == ranking \o expansion.admitted
        found == {s \in ToSet(selected) : Qualifying(query, s) # {}}
    IN  /\ ToSet(all) \subseteq Mask(query) /\ Cardinality(ToSet(all)) = Len(all)
        /\ Len(all) <= Max({BaseCap, NarrowingCap, Cardinality(found)})
        /\ \A s \in found : \E i \in DOMAIN ranking : SourceOf[ranking[i]] = s
        /\ found = {} => all = <<>>

\* A cause is not served a new fix passage while a higher ranked one was refused
\* one (narrow.py:15-17).
FixesInCauseOrder ==
  stage = "retrieved" /\ expansion.entry # None =>
    \A i, j \in DOMAIN expansion.causes : i < j =>
      LET fix == FixInScope(Entries[expansion.entry][i])
          earlier == UNION {ToSet(expansion.causes[k]) : k \in 1..(j - 1)}
      IN  ToSet(fix) \subseteq ToSet(expansion.causes[i])
            \/ ToSet(expansion.causes[j]) \subseteq ToSet(ranking) \cup earlier

\* The reader is sent the text of one attempt: a retry never repeats what was
\* said (6.8, 6.10; anthropic.py:142).
OneAttemptIsHeard == Cardinality(attempts) <= 1

Complete == envelope # None

\* Every marker the reader was sent, and every passage a cause names, is one of
\* the turn's citations, which are of supplied passages; a cause without a fix
\* says so on its own citations; and what is suggested is indexed, out of scope
\* and named once (2.3, 3.6, 7.6).
NothingDangles ==
  /\ MarksOf(sent.body) \subseteq supplied
  /\ Complete =>
       LET cited == envelope.citations IN
         /\ cited \subseteq supplied
         /\ \A line \in ToSet(sent.body \o sent.answers) : line = NoLine \/ line.mark \in cited \cup {NoMark}
         /\ \A cause \in ToSet(envelope.causes) :
              /\ cause.cites \cup cause.fixes \subseteq cited
              /\ cause.fixes = {} => cause.cites \subseteq envelope.unbacked
         /\ ToSet(envelope.suggested) \subseteq Indexed \ ToSet(selected)
         /\ IsInjective(envelope.suggested)

\* A finished turn said its outcome once and its direct answer at most once,
\* however the stream was cut, and the conversation remembers what was said
\* (4b, 7.6).
RecordedAsSaid ==
  Complete =>
    /\ sent.outcomes = <<recorded.outcome>>
    /\ IF recorded.answer = NoLine THEN sent.answers \in {<<>>, <<NoLine>>}
       ELSE sent.answers = <<recorded.answer>>

\* With a matched entry, the causes, the candidates and the direct answer of a
\* ranked-causes turn are the entry's, in its order, whatever the model writes
\* (7.2, 7.6, Decision 9).
EntryDecides ==
  Complete /\ expansion.entry # None =>
    LET causes == First(Entries[expansion.entry], CausesMax) IN
      /\ recorded.outcome = "ranked-causes" =>
           /\ [i \in DOMAIN envelope.causes |-> envelope.causes[i].statement] = [i \in DOMAIN causes |-> i]
           /\ sent.answers = <<EngineAnswer>>
      /\ recorded.outcome = "needs-narrowing" => envelope.narrowing = [i \in DOMAIN causes |-> i]

\* How often a line stands in the blocks, and in a body.
TimesInBlocks(blocks, line) ==
  Cardinality(UNION {{i} \X {k \in DOMAIN blocks[i].lines : Clean(blocks[i].lines[k], supplied) = line} :
                       i \in DOMAIN blocks})
Times(body, line) == Cardinality({i \in DOMAIN body : body[i] = line})

\* The blocks that are grounded hold the lines the reader was sent, each as
\* often, and no other but that none is blank (parse.py:139-143).
BodyIsStreamed ==
  Complete =>
    \A line \in {Clean(l, supplied) : l \in Written} \cup ToSet(sent.body) :
      TimesInBlocks(parser.blocks, line) = IF line.kind = "blank" THEN 0 ELSE Times(sent.body, line)

=============================================================================
