# Formal models of dawmans

dawmans answers questions about a music studio's equipment from the owner's manuals. `dawmans ingest` turns
PDF manuals and an authored troubleshooting store into an index; `dawmans serve` answers questions over HTTP
from that index with a language model; a page in the browser asks, shows and remembers. This directory holds
TLA+ modules of its stateful core, the instances that TLC checks, and theorems that TLAPS proves. Source paths
below are relative to the repository.

- [Parts and hazards](#parts-and-hazards): what there is, what it keeps, what is hard
- [Modules](#modules): which module stands for which code
- [Runs](#runs): what is checked, with which bounds
- [Fairness](#fairness), [Theorems](#theorems), [Findings](#findings), [Observations](#observations), [Not modelled](#not-modelled), [Plan](#plan)

## Parts and hazards

| part | state | operations | talks to | what makes it correct |
|---|---|---|---|---|
| turn pipeline (`answer/turn.py`) | `_inflight`, one handle per turn, a turn's locals | `turn()`, the generator between its awaits and yields | conversation, view watcher, provider, SSE response | one turn of a conversation at a time; the newest question survives; each stream follows the event contract; a silent provider holds nobody |
| conversations (`answer/conversation.py`) | bounded history, carried scope, narrowing counter and symptom | `record_turn`, `set_scope`, `prune_scope`, `retrieval_query` | turn pipeline | remembers answers alone, at most six; the counter describes the history |
| view watcher (`answer/view.py`) | the live view, the last stat, the fault | start, `check()` | index directory, turn pipeline | no publication missed; a fault takes nothing away; rows, vectors and slices line up |
| outcome gates (`answer/outcome.py`) | none | `pre_flight`, `in_flight`, `classify` | turn pipeline, registry | refused before anything is retrieved; classified by what was streamed |
| provider registry (`answer/http/app.py`), keychain (`provider/credentials.py`) | selected kind, instance, acknowledgement; one key | select, refresh, bind; store, read, clear | page, turn pipeline | a turn is answered by the selected provider with the stored key |
| provider adapters (`answer/provider/*`) | a stream | `stream`, `probe` | remote APIs, pipeline | a failure is one of four kinds; one retry, never after output |
| retrieval, narrowing (`retrieve.py`, `scope.py`, `narrow.py`) | none | pure functions of a view, a scope and a question | pipeline | what is supplied is in scope, within the cap, with a place for every source that qualifies and for causes in their order |
| framing parser, grounding, the tail (`parse.py`, `ground.py`, `turn.py`) | the parser's buffer, open blocks and fields; what was sent | feed, drain, close, resolve | provider, reader | what the reader got is what is recorded, grounded and cited, however the stream was cut |
| ingest run (`cli.py`, `index/build.py`, `index/manifest.py`, `corpus/discover.py`) | shards of four files, view directories, `manifest.json` | scan, remove, build or skip each source, merge, publish, collect | stores, embedding model, engine (through files) | what is published is whole, of one model, and what the stores hold |
| PDF reading (`corpus/pdf/*`) | marks on the lines of one document | furniture, glyphs, sections, language, units | ingest run | body text is indexed once, under the section and pages it is printed on |
| chunking, ids (`corpus/chunk.py`, `passage_id.py`) | the chunk being packed | pack, split, repeat, assign ids | ingest run | within the cap; rows keep their heading; ids are unique |
| authored store (`triage/*`) | entry files, the pointer ledger | parse, check, load, validate, report | vendor shards, published view, rig, author | drift is told from typos; marks, sidecar and report agree; validate foretells the next ingest |
| rig (`corpus/rig.py`) | `rig.yaml` | applicability, gaps | merge, authored store | both read one device for one manual |
| thread (`web/.../thread.svelte.ts`, `turn.svelte.ts`, `sse.ts`) | turns on screen, conversation id, the abort controller | submit, stop, clear, reading a stream | engine, history | a stopped turn ends; context is the thread's own |
| history (`history.svelte.ts`) | entries in localStorage | record, clear | thread | holds exactly the answers |
| source scope (`scope.svelte.ts`) | selected, known, seen, released; session marker | load, toggle, all, none, reinstate | picker, thread | a narrowing is neither widened nor forgotten without a word |
| provider surface (`provider.svelte.ts`, `ProviderConfig.svelte`) | status, form, acknowledged backend | load, choose, acknowledge, save, key | registry | shows what the engine has |

Everything in the engine runs on one asyncio loop, so what is hard there is what happens across an `await` or a
`yield`: a question arrives, a reader leaves, a view is published, a provider fails or falls silent. The
ingester is one process that may die between any two renames, beside an engine that reads the same files; its
loaders are pipelines of stages that leave marks for later stages, over documents nobody controls. The
page overlaps requests and learns of the engine by replies that may be late, partial or lost. `PROJECT.json`
lists the hazards by line with the properties that speak of each; those without one say why.

## Modules

**`Conversation`** — `answer/conversation.py` as pure operators on one record (`RecordTurn`, `SetScope`,
`PruneScope`, `RetrievalPrefix`). A question is identified with the turn that asks it, an answer with the
distinction the counter draws (a narrowing question or not).

**`TurnStream`** — the abstract specification of a turn's event stream: which event may follow which, and that
a stream is complete only after `done`. A stream may be cut at any point.

**`TurnPipeline`** — `answer/turn.py` and the response of `http/app.py` that reads it. A turn is an async
generator, so the code between two suspension points is one action. `pc` says where it is suspended: `created`
(not read yet), `waiting` (for the previous turn), `gather` (retrieval and state), `stream` (the provider),
`yield` (events handed over one by one; `resume` says where the generator goes on). `Submit` is `turn()`: it
signals the turn in `_inflight` and takes its place. `Open` is the synchronous stretch from the end of the wait
through the scope handling. `Delta`, `ProviderDone`, `ProviderFails`, `Watchdog`, `Wake` and `Cancel` are the
ways `asyncio.wait` may return. `Leave` is the `finally`. What the parser releases at each delta is any sequence
its order allows (`Drained`); whether a provider is configured is a choice here and the subject of
`ProviderSelection`. `MCTurnPipeline` holds the instances, `TurnPipelineProofs` the theorems.

**`Retrieval`, `Framing`, `AnswerTurn`** — one turn from its passages to its envelope. `Retrieval` is
`answer/retrieve.py` over rankings: a question is the two orders the retrievers would give, how much of the dense
one reaches the threshold and which passages hold a rare term; fusion, depth cuts, floor and cap are computed.
`Framing` is the parser of `answer/parse.py` as operators on its state, named like its methods (`Line` is `_line`,
`BodyLine` and `Classified` are `_body_line`, `Flushed` is `_flush_open`), and the marker resolution of
`answer/ground.py`; a line is what the parser tells apart. `AnswerTurn` composes them: `RetrieveAndExpand` with the
expansion of `narrow.py`, `Assemble`, then a provider that writes lines in deltas of any cut (`WriteLine`, `EndLine`;
`middle` says that a delta holds more), meets a rate limit (`Retry`, `RateLimited`), fails (`Fail`) or stays silent
(`Watchdog`), and `Finish`, the tail. `TurnPipeline` has what several turns do to each other and leaves all of this
open; `AnswerTurn` has one turn and no other. `Lists` has the folds the three share with the authored store, the
manuals and the index; `ListsProofs` has the lemmas about them. `AnswerTurnProofs` holds the theorems.

**`Sections`, `Units`, `Chunking`, `SourceLoad`** — a manual from its pages to its passages, stage by stage in the
order of `corpus/pdf/loader.py` and `corpus/chunk.py`: `FindFurniture`, `RepairGlyphs`, `FindSections` (outline,
contents pages or typography; anchors; regions), `SelectEnglish`, `AssembleUnits` (tables, procedures, prose, joined
over page breaks), `Pack` unit by unit, `Finish`. A line of the document carries the answers the heuristics would
give: what title it reads as, its furniture key and height, its font size, cells, step number, language and glyphs.
Each stage decides from those answers and from what earlier stages marked. `IsDocument` says what extraction and reading
order give: lines that are not blank, page after page. `SourceLoadProofs` holds the theorems.

**`FixPointers`, `TriageEntry`, `StoreCheck`, `TriageStore`** — the authored store. `FixPointers` resolves a pointer
in a view and asks the ledger what it was (`triage/pointers.py`); `TriageEntry` is the entry grammar
(`triage/parse.py`) on lines of known kind; `StoreCheck` is the verdict on the whole store with scope, terms,
duplicates, emission, sidecar and coverage, and the rig join; `TriageStore` is its life: the author edits files,
manuals change, runs load, record, build and publish, `Validate` looks, a process dies anywhere. A title is the
pair of its text and the words that normalisation leaves of it. `verified`, `torn` and `foretold` are history:
what the code promises about the past is stated with them. `TriageStoreProofs` holds the theorems.

**`IngestRun`** — one run of `dawmans ingest` at a time, step by step: `Start` (collect old views, scan both
stores or find one unavailable), `RemoveSource`, then `Skip`, `Build`, `Reject` or `Fail` for each source with
the authored store last, `OpenView`, `WriteView`, `Publish`; `Die` anywhere, and `Tear` for a commit or removal
cut short between its files. The owner edits stores and installs other code, models or index formats at any time.
A document is an edition number, a passage the pair of its source and text, a vector the pair of the text that
was encoded and the model. `Row` and `ReusesRows` are the per-passage reuse of `_embed`. `mixed` is history: the
passages or vectors of a shard that a torn commit, or a document read after it had changed, left beside a meta of another
build, until a build replaces them (`MixedAfter`; reused rows stay mixed). A view
directory (`WholeViews`) has a matrix, rows and slices, or is what a deletion leaves of one (`PartialView`).

**`CorpusWatch`** — extends `IngestRun` with the engine's `ViewWatcher`: `Boot`, and `check()` in the three
steps between which a run may do anything (`CheckStat`, `CheckRead`, `CheckLoad`). The owner may delete the index, which
leaves no whole view. The stat is identified with the view directory, new for every publication. `IndexProofs`
holds the theorems of both.

**`WebThread`** — the thread store, the states of a `Turn`, the history and, on the other side, the engine's
conversations as far as an id reaches them. A question is its number; each has the engine's side (`service`: none,
open or over; the `context` it is answered with; what was `sent` so far and the frames on their way) and the page's
(`state`: busy, settled or failed; whether the response was accepted, content painted, the signal aborted). The engine
answers with content or without (an empty stream is an answer, `turn.py:397-405`), breaks off after its first token
(`incomplete`, which the page keeps if anything arrived), dismisses a question, or is cut. `answered` stands for all
outcomes with content (`CONTENT_OUTCOMES`). `PageProofs` holds the theorems.

**`ScopeStore`** — the picker's scope: what the open page holds (`page`), what localStorage holds (`stored`) and the
session marker, over `Load`, `Toggle`, `SelectAll`, `SelectNone`, `Reinstate` and `NoteQuestionSubmitted`, with `Reload`, `Restart`,
`EightHours`, `Lose` and `Ingest` around them. Every operation writes the whole record (`Persist`). `chosen` and `left`
are history: what the last change of the scope took and left out. `PageProofs` holds its theorem.

**`ProviderSelection`** — the configuration surface, the requests it and others make, the registry, the
keychain. What a turn would be bound to is an operator of the state (`Admits`, `registry.provider`), since
binding changes nothing. The keychain may raise at every access; `halfway` (a history variable) says that it did
between the two writes of a step and no later step repaired it, `serial` that the page alone asked, one request at a
time, of one engine process. `ProviderSelectionProofs` holds its theorems.

Modules compose by EXTENDS: `TurnPipeline` takes `Conversation`, `CorpusWatch` takes `IngestRun`, `AnswerTurn`
takes `Retrieval` and `Framing`, `SourceLoad` its three stages, `TriageStore` the chain below it
down to `Lists`, which these three and `IngestRun` share; `TurnStream` is an
INSTANCE inside `TurnPipeline` under a refinement mapping that reads `pc` as the state of a stream. An operator
whose comment calls it a slip is not part of any specification: it is a plausible mistake in the definition
after it, and swapping it in makes the property `PROJECT.json` names with it fail.

## Runs

| run | instance | what it shows |
|---|---|---|
| `chain` | three questions of one conversation, symmetric, naming a source or carrying the scope; a history of 2 instead of 6; one publication of a smaller or larger view; no deltas | who is told to stop, who is served, what retrieval is bound to, what is remembered. Three is the smallest number in which a middle question exists (the hazard of `turn.py:174`); a history of 2 fills and is cut within three exchanges |
| `live` | two questions with fairness, two deltas each, one publication | the refinement of `TurnStream`, checked step by step (two deltas separate outcome, answer and body); superseded turns end, no question hangs |
| `clean` | one manual and the authored store, one edit, two releases, so that ingestion version and embedding model may change and change back, one view; any commit or removal may stop half-way | what successful and failing runs publish. Shards outlive the runs that publish nothing, so one view suffices: a build, a torn rebuild and a reuse of its rows lie before it |
| `watch` | one manual of two lengths, two edits, three views, torn commits, a change of index format | the engine beside the runs: what the manifest names is whole, no publication missed, nothing served whose rows, vectors and slices do not line up, the view kept; three views give a dead run's view between two published ones |
| `web_thread` | two questions, both may be open, history of 2, fairness | the history holds each whole answer, and every one it holds is remembered by the engine; parts are kept if they hold something; a stopped turn ends, so the controller that is held is the right one |
| `web_followup` | three questions one after the other, history of 1 | no context of a cleared thread |
| `provider` | three requests, two at once, page loads, other callers and restarts, two keys, a keychain that raises | turns use the selection and the stored key unless a change went half-way; a shown kind is the engine's |
| `answer` | two manuals and the notes, five passages, 4160 rankings; two entries, one with more causes than a turn takes, one with a cause without a fix; caps of 2 and 3, depth 2, RRF constant 1; four rankings, one per kind of answer, go on to answers of up to five lines (four without the framing) from twelve kinds, in every cut | what is supplied, what is heard, cited, suggested and recorded |
| `document` | every manual of eight vocabularies, up to five lines (four under an outline, for procedures between prose and for unreadable text; three behind a contents page and for numbered rows), with page breaks and three outlines; a cap of 6 words, an overlap of 2 | body text is indexed once, under its section and pages, in whole procedures, with its headings |
| `document_scan` (violated) | three lines of prose and stamped numerals | a scan is indexed empty |
| `store` | two files of nine drafts, three editions of the manuals, two rigs, one of which declares a manual's device, one edit, three runs, crashes at every step; a band of exactly two causes; passages of 6 words, which one cause exceeds, two others share and a closing fills alone | what is served, marked, withdrawn, reported and foretold |
| `scope` | three sources, any of which an ingest run may add, remove or bring back; sessions, eight hours, lost storage | a narrowing is kept, or released with an offer to reinstate it |

Deadlock is checked for the turn pipeline (its only terminal state is `AllOver`: every stream has ended) and
switched off for the others, whose bounds on edits, views, questions or requests are where they stop.

The bounds are where state grows without the code limiting it: questions, deltas, publications, edits, views,
setups, requests. `HISTORY_TURNS` and `RETENTION` are constants of the modules, taken smaller than in the code
so that they are reached; so are the caps, depths and percentages of retrieval, sections and chunking, which only
set how many passages, lines or words a boundary needs. Five lines are enough for each stage's interactions: a
heading, a repetition on a second page and text between them; two steps, a wrap and a page break; a heading row,
two rows and a split. `Followed` in `AnswerTurn` names the rankings that go on to a provider, because after
`Assemble` only the supplied set, the scope and the expansion matter; one edit and three runs give a store that is
recorded, disturbed by manuals and author in either order, and run again. Symmetry is used over turns only, and never in a run with a liveness property.

## Fairness

*Turn pipeline.* The event loop runs ready tasks (`Wait`, `Open`, `Gathered`, `Wake`, `Cancel`), the first-token
timer fires (`Watchdog`, only enabled before output), and a response is read or given up (`Read`): uvicorn sends
as fast as the socket takes it and reports a closed one. Nothing is assumed of the provider — it may fall silent
at any moment — nor of askers and ingest runs. *Web thread.* Only `AbortLands` is fair: a fetch whose signal was
aborted rejects. The engine and the network may do nothing. Safety runs assume no fairness.

## Theorems

`TurnPipelineProofs`, for any number of turns, conversations and sources:

- `TypeCorrect`: `Spec => []TypeOK`. Inductive with `HandlesMatch`, which ties a handle's two flags to `pc` (a
  turn's home is a conversation as soon as it was asked, so updates of `inflight[home[t]]` are typed).
- `NewestSurvives`: `Spec => []NewestQuestionSurvives`. The signal and the new `_inflight` entry are one step of
  `turn()`. The proof first shows (`StepKinds`) that every step asks, opens, ends a turn or leaves the
  coordination alone, so each invariant has four cases instead of nineteen.
- `Alternation`: `Spec => []TurnsAlternate`. The property is not inductive; `ChainOfWaits` is: while the chain is
  intact, an unfinished turn that is not the newest is running and the newest is waiting for exactly it. With
  `InflightIsOwn` two running turns would both have to be the newest. `intact` is a history variable that becomes
  false where the code breaks the chain (the hazard of `turn.py:174`).
- `Contract`: `Spec => StreamsKeepTheContract`, the refinement of `TurnStream`. `StreamOrder` is inductive: the pending
  events may follow what was sent and one another, and end with what the point `resume` names goes on from. Every
  step is then a `Send`, `Complete` or `Cut` of one stream, or a stutter.
- `AnswersRemembered`: `Spec => []OnlyAnswersAreRemembered`. Beside `StreamOrder`, a remembered turn is past its record
  point (`Remembered`): its stream holds an answer and nothing but `done` may follow.
- `ScopeIsSound`: `Spec => []RetrievalScopeIsSound`, and `RetrievalMatches`: `Spec => []RetrievalMatchesConversation`. `Held`
  says of a turn between its query and its end what it read from its conversation; a step that changes a conversation is
  an `Open` or a record of another running turn, which `ChainOfWaits` excludes.
- `NarrowingMatches`: `Spec => []NarrowingMatchesHistory`. What needs care is truncation: a run of questions longer than
  the history is counted, and cut, in one step.

`IndexProofs` of `IngestRun`, for any sources, documents, setups and bounds, over runs that fail, tear, die and follow one another:

- `IndexIsSound`: `Spec => []IInv`, the inductive invariant: every shard holds its own source's rows (`ShardsOK`), the
  draft is the merge of the shards of its model (`DraftOK`), and the manifest names a whole view that no later step
  takes away (`LiveOK`). It includes that slices of the lengths of the shards cut their concatenation back into the
  shards, for any number of shards.
- `NamesWholeView`: `Spec => []ManifestNamesWholeView`, with torn commits and removals.
- `OneModel`: `Spec => []OneModelPerView`, with every commit torn and every change of the model undone. A vector of
  another model lies in the slice of a source whose vectors are `mixed`; nothing else lets two models meet, for the meta
  that admits a shard to the merge is then of the build its vectors are of.
- `SidecarIsResolved`: `Spec => []SidecarResolvedAgainstView`. The authored store is loaded last and never skipped, so no
  vendor shard changes between its load and the merge; a torn vendor commit is a failure.
- `PublishesTheStores`: `Spec => []FaithfulWhenFresh`, with no crash and no edit assumed away. What a torn commit or a read
  that an edit overtook leaves behind is followed by `mixed`, from the step that mixes a column to the build that replaces
  it: for a manual the next build, for the notes' vectors only one that reuses no row (`ReusesRows`). Every other column
  of every shard is the work of one build, of the document and the code its meta names, and a shard is skipped only if
  those are the store's and the installed ones. The inductive invariant carries that over whatever dies in between.

`IndexProofs` of `CorpusWatch`, for any interleaving of the watcher's three steps with the owner and any number of runs:

- `NothingIsMissed`: `WatchSpec => []NoMissedPublication`. The inductive `WatchInv` adds to `IndexIsSound` that what was
  seen, stat'd, read and drafted are in order of publication: a check reads the manifest its stat is of or a newer one,
  a newer one has another stat, and so what was seen is served unless a newer publication is still to be seen.
- `LiveViewKept`: `WatchSpec => LiveViewIsKept`, an action property.

`PageProofs` of `WebThread`, for any number of questions, any `RETENTION` and any order of user, network and engine:

- `OwnContext`: `Spec => []ContextIsOwn`. An id is minted once, is dropped with its thread, and only questions of one
  thread send it; so all questions of a conversation are of that thread, however late a response arrives.
- `HistoryIsTrue`: `Spec => []HistoryHoldsAnswers`, also at the boundary where the oldest entry falls out. Inductive is
  that `done` follows a lesser outcome or is of a turn the engine has recorded, in whatever order frames, stops and
  breaks are read; whether there was content does not enter for whole answers, as in `history.svelte.ts:65-72`.

`AnswerTurnProofs`, for any band, rankings, entries, lines and cuts:

- `OneIsHeard`, `RecordIsWhatWasSaid`, `CitationsResolve` and `EntryIsHeeded`: `Spec => []` of `OneAttemptIsHeard`,
  `RecordedAsSaid`, `NothingDangles` and `EntryDecides`. The parser, the expansion and the fusion are folds. Each is
  unfolded into its intermediate values (the lemmas `...Steps` and `...Last`), and a fact is carried along them by
  `Chained`, which is proved once from the least number at which it fails; no induction principle is instantiated. The
  inductive `IInv` says that while an answer is streamed the parser's lines are the model's, what was sent is the part of
  them that the drain may show, and the expansion is that of one entry.
- `FixesAreServedInOrder`: `Spec => []FixesInCauseOrder`. Along the fold over the causes, what is admitted is served
  already, and a refusal means that the cap is reached for good.
- `SuppliedInScope`: `Spec => []SuppliedIsInScope`. Score and row order the fused passages strictly, and in such an order
  of a finite set every place is exactly one passage's (`PlacesOf`), so the ranking is what either retriever found, each
  once (`FusedIs`). The floor with its extras has one passage of each qualifying source (`RetrieveIs`), and what an
  expansion admits is in scope, new, and within what the cap leaves (`Admits`).
- `WhatIsSentIsGrounded`: `Spec => []BodyIsStreamed`. Which blocks are open when decides the order in which lines reach the
  blocks, so nothing simpler than counting will do: `Even` says of the parser that of any set of lines its blocks, closed
  and open, hold as many as it has shown the reader, blank lines apart. Every kind of line keeps that (`BodyLineIsEven`),
  closing the parser leaves no block open (`ClosedMeasured`), and the drains and the tail together send all that was shown
  (`AllIsSent`).

`ProviderSelectionProofs`, for any keys, requests and restarts and a keychain that may raise at any access:

- `SelectionInvariant`, `BoundToSelection`: `Spec => []TurnUsesSelection`. The inductive invariant says that, unless
  the last change went half-way, the registry holds what the factory would construct now; requests in flight enter
  only through the types of their fields.
- `ShownIsTheEngines`: `Spec => []ShownKindIsEngines`. While the page alone asks, one request at a time, what is on its
  way is a reply of the registry as it is, or a request that will produce one.

`TriageStoreProofs`, for any files, drafts, manuals, rigs and any number of runs and crashes:

- `DriftIsNeverATypo`: `Spec => []DriftWasVerified`, and `VerifiedPointersNeverReject`: `Spec =>
  []VerifiedNeverRejects`. Both hold because the ledger, the loader's memory and the history agree: `LedgerInv` says
  that the ledger's rows and the rows a run is about to write are of verified keys, and that every verified key is
  in the ledger unless a run died inside the write (which keeps any number of the sorted rows, `Begun`), or is held by
  the run that is writing. A verdict is computed from
  the ledger of the same step; the lemmas on `Evaluate` say that a drifted pointer's key is in that ledger, and that
  an entry is excluded as unresolved only for a pointer that fails with a key outside it or into the notes.
- `NoWordIsLost`: `Spec => []WordsAreKept`, for drafts of any number of lines in any order. Between runs `Written` says no
  more than that files are drafts; the work is `ParserKeeps`. The parse is unfolded line by line (`BodySteps`), and `Chained`
  carries the statement that every line read so far, but for the blanks and the lines that are read as pointers or a
  claim, has its words in the section that is open or in one already flushed; that a file which parses leaves no section
  without a place in the entry is `EntryIs`.
- `MarksAreTrue`: `Spec => []MarksAreEarned`. The inductive `Shelved` says that a load in progress serves whole entries of
  files of their own (`Sound`) and that the shard was built from such a load. That mark and sidecar agree is not one
  assignment: the mark comes from the outcome of a cause, the row from the passages its pointers found, the report from the
  claim and the ledger's verdict, and they meet in `WeighedIs` (a pointer that was not rejected has passages or has drifted)
  and `OneRow` (identifiers are unique because equal texts are told apart by occurrence, `IdsDiffer`; entries are told
  apart by file, since files are listed once).
- `ValidateIsTrue`: `Spec => []ValidateForetells`. The load and the validate before it read different views, by ledgers
  that may differ: a run that died after it wrote the ledger lies between. The inductive `Foretelling` says that the
  ledger has since grown only by pointers which resolve in the published edition, and that a run which goes on is of that
  edition. Two evaluations then agree (`StoreAgrees`) because every pointer fares alike in both (`FareAlike`): whether it
  resolves is a matter of the set of sections it may name (`ResolveFate`), of which the notes are none (`NotesAside`), and
  a pointer that the ledger has learnt of meanwhile resolves, so it is rejected by neither.

`PageProofs` of `ScopeStore`, for any sources:

- `NarrowingSurvives`: `Spec => []NarrowingIsKept`. A page may be closed and its record restored at any moment, so the
  inductive `ScopeInv` demands of both what the property demands of the page, and that what was chosen is among what
  was reported (`Reinstate` takes it from there). The heart is `Surviving`: a stored narrowing that is not moot never
  passes for a scope that covered everything.

`SourceLoadProofs`, for any manual, any furniture, fonts, tables and languages its lines show, any cap and overlap:

- `ChunksKeepToTheCap`: `Spec => []WithinCap`. The inductive `PackOK` says what the open chunk holds: its words are counted,
  what it carries leaves room, and overlap is the end of the chunk before. Packing can only keep to that if every unit has
  words, so the stages before it are proved to give regions of well-formed units: the table runs of a page do not meet
  (`RunsAreTables`), prose is divided where a paragraph or a procedure ends (`ProseUnitsAre`), the segments of a page and
  the procedures joined over page breaks are units again (`PageUnitsType`, `JoinedAre`), and each is laid out as an
  interval of its region's words (`LaidIs`).
- `PassagesAreUnderTheirSection`: `Spec => []CitedUnderItsSection`. Clamping keeps anchors in order (`AnchorsAre`), so the
  lines between two are those of the first (`SpansAre`); a region's units are made of its own lines (`RegionUnitsType`);
  and the inductive `FromRegions` says that whatever is queued, open or closed is a unit of its own region or a piece of
  one. A piece's words are then its lines' (`WordLinesAre`).
- `PassagesAreOnTheirPages`: `Spec => []CitedOnItsPages`. Paragraphs stay on a page, whatever part of them is placed; an
  atomic unit may cross one, but in one piece it has all its words, and its parts are marked.
- `NoProcedureIsDivided`: `Spec => []ProceduresStayWhole`, of a step and the step it leads on to. Three facts about a
  region's units carry it. Their lines are in order (`RegionLines`, `PlacedBefore`), so what is between the two steps is all
  that can divide them. No unit begins with the number after the last of the unit before it (`JoinedAre`). And no row
  that wraps from a procedure on its page begins a unit, unless a table has it (`RegionIsTight`: the end of a procedure is
  the longest stretch that continues, `NothingWrapsOn`, and neither tables, pages nor joining open a gap). A unit carries
  the steps of its lines, or none and its lines are a table's (`StepsRead`), so rows of a table that happen to be numbered
  (the kinds `item1` and `item2` of the instance) are excepted. A step that wraps over the page break is not covered: the
  code divides there (see [Observations](#observations)).
- `EveryLineIsIndexedOnce`: `Spec => []BodyIsIndexedOnce`. Two inductive invariants carry it. `NothingLost` balances the
  packing: what is closed, what the open chunk has and what waits say together, word by word, what the regions up to this
  one say, and splitting a unit (`PiecesSay`) or starting a region (`RegionIsSaid`) keeps the balance. `Prepared` says that
  the regions cover the document without overlapping (`SpansAreTiles`) and that the marks are the furniture's but for
  the headings. A region's units have the lines that stay in it, in order (`RegionLines`, over segments, pages and joined
  procedures), so the text of all passages is one ascending list of lines, of which there is only one (`OneAscending`).
  What does not stay is marked, and a mark outlives the tables and the anchors only where the line recurs
  (`FurnitureRecurs`) and no table has it (`RowsAreKept`: rows as wide and as many as the property asks of seed a run).
  Identifiers differ because a later copy of a text counts the earlier ones (`IdsDiffer`).
- `HeadingsStayWithTheirRows`: `Spec => []HeadingLeadsRows`. Of the regions it needs that a heading is atomic and followed by
  a row of its table (`HeadingBelow`: a table is never all heading; `RegionIsLed`, through pages and joined procedures) and
  that no two units have the same lines (`UnitsDiffer`). The inductive `HeadingsLead` then speaks of the row placed
  next: the run of repeats is its heading, or a part of that heading was split off, and the open chunk holds the heading or
  carries it. A chunk begins with the run when it fits (`StartIsLed`), so the rows left without a heading are those under
  one that fills a chunk or was itself split, as the property says.

Assumed are the named ASSUMEs of the modules, which TLC evaluates on the instances: sentinels differ from values,
bounds are naturals, the history holds at least one exchange (`HistoryAssumption`), sources are ordered without
repetition (`SourcesAssumption`), a whole view is not the sentinel (`WatchAssumption`), the least number
of causes of a question is at most the most a turn serves (`BandAssumption`; `narrow.py:33`), the view is a sequence of rows (`RowsAssumption`), a
scope is the keys of a dict, the vectors rank every passage and the index some (`QueriesAssumption`; `conversation.py:40`,
`retrieve.py:187`), an entry has at least the causes a question needs and a pointer's passages are of the source it names
(`EntriesAssumption`; `triage/parse.py:144`, `triage/pointers.py:128`), and a line is of a known kind, without a marker when it is blank
(`LinesAssumption`). Of the authored store: the entry files are listed once (`FilesAssumption`; `triage/loader.py:112`
is one sorted scan), a draft is a list of lines of the grammar's kinds (`DraftsAssumption`), an edition has a list of rows
(`EditionsAssumption`), an entry's head is shorter than a passage (`HeadsAssumption`; a longer one is split, which `Emit`
leaves out), and no reason or kind is the sentinel (`NamesAssumption`). Of a manual: what is extracted is a document
(`ExtractedAssumption`; `corpus/pdf/sections.py:137-156`), the overlap is below the cap and the table sizes are numbers, an edge row
asking no more cells than a row of the table (`CapAssumption`, `TableAssumption`; `corpus/pdf/layout.py`).

Every safety property that a passing run checks, invariant or action property, is stated by a theorem. Model-checked and not
proved are the liveness properties, `SupersededTurnsEnd` and `QuestionsAreNotLeftHanging` of `TurnPipeline` and
`StoppedTurnsEnd` of `WebThread`: fairness and ENABLED are beyond this proof system.

## Findings

One run must be violated; `PROJECT.json` quotes the line that says otherwise.

`document_scan`: `has_text_layer` is asked before any line is marked as furniture (`corpus/pdf/loader.py:79`), so
a scan whose only text is a page number on each page is indexed, with no passage.

## Observations

Met while translating the code, and not kept as runs. The first ten show in these models, in the definitions they name:

- The authored store is judged against shard records that the rig was not joined to (`cli.py:385`): where `rig.yaml`
  declares which device a manual describes, an ingest serves `undocumented:` for a device whose manual is in the corpus,
  and validate rejects it. `ValidateForetells` therefore speaks of rigs that declare no other device.
- A narrowing is undone without a word once every source it left out is gone, also when a new one comes at the same
  time, as after renaming a manual: `wasAll` (`scope.svelte.ts:97`) looks only at what is still reported, where the
  comment above it says that "a fresh ingestion never silently undoes a deliberate narrowing". It is the second half of
  `Moot` in `ScopeStore`.
- A third question waits for nobody if the second had not been read yet; two provider streams are then open on one
  conversation (`turn.py:174`). `intact` in `TurnPipeline` records it.
- "A partly committed set carries no meta and therefore reads as no shard at all" (`build.py:12-14`, `:383`) is true of a
  source's first commit. On a re-ingestion the previous meta is still there, so a commit that stops between two renames
  reads as the old shard with some new files. The run that failed merges new passages with old vectors, against "document
  `i`, row `i` and line `i` are the same passage" (`build.py:522-523`). Later runs, which report no failure, publish what is
  left of it: rows of the notes reused by the old map are vectors of other passages (`build.py:426`); a manual that is
  put back to the document of the meta, or a release that is, is skipped (`cli.py:230`) and keeps the passages of the other
  edition; and if the embedding model is changed and changed back, one view holds vectors of two models. These states
  are reachable in `clean`; `FaithfulWhenFresh` and `OneModelPerView` except the files that are `mixed`, and say that
  nothing else goes wrong.
- The second question of a thread carries an id the page made up and is answered without the first exchange
  (`conversation.py:119`, `thread.svelte.ts:155`).
- A keychain that raises between two writes leaves selection and provider apart (`app.py:125`, `:341`), and turns are
  answered by the old provider until the next operation: `halfway` in `ProviderSelection`, which `TurnUsesSelection` excepts.
- The ledger is emptied before it is written (`pointers.py:398`): a run that dies there prunes rows that are "never
  pruned" (`:331`), or leaves half a row, which fails the source until someone repairs it. A pointer whose row was lost is
  taken for a typo when it breaks, and its entry withdrawn: `VerifiedNeverRejects` excepts ledgers that were `torn`.
- "Every cause is `atomic`, so no cause is ever divided across two passages" (`triage/loader.py:616-617`): a cause that no
  passage holds beside the head is cut, after a sentence if one ends there (`chunk.py:222-229`). `PassageOf` in `StoreCheck`
  has such passages; their mark is that of the whole cause.
- `_heading_entries` asks whether a heading is among a page's lines by value (`corpus/pdf/sections.py:472`, and lines compare
  by their fields): two headings alike in text and place on their pages are entered on each page, and the copy's anchor
  gives the text after the first to an entry of the same title. `SameLine` in `Sections` has it.
- A procedure whose step wraps over a page break is three units, the step, the rest of its line and the next step
  (`corpus/pdf/units.py:183-192`, `:238`), where the module says that a procedure is one unit (`units.py:12-14`): a line
  without a number begins prose on its page. `ProceduresStayWhole` excepts a step before which such a line begins a page.
- A question or a cause stays open under a paragraph, although one block is to be open at a time (`parse.py:163`);
  nothing is lost by it (`BodyIsStreamed`).
- An atomic unit that fits the cap is still split when it follows text in its chunk (`chunk.py:223-229`), where
  `corpus/loader.py:100` says it is kept whole; the parts of a split procedure share its pages.
- A heading of one table is repeated over a second table that has none and follows it at once (`chunk.py:192`).
- On the path without an entry every hoisted cause has no fix, so the vendor passages it cites are marked `unbacked`
  for the turn (`turn.py:431`).
- `check:` with no value counts as a check (`triage/parse.py:443`), and of two sections with one number the later is
  the one a pointer finds (`pointers.py:140`).
- `corpus_revision` (`manifest.py:130`) hashes source, fingerprint and row count. It does not change with `rig.yaml`,
  nor with an ingestion version that cuts as many passages, and `check()` (`view.py:197`) compares it alone: a running
  engine keeps the old applicability, or the old passages, until a document changes or it is restarted. The corpus
  design (`data/manual-corpus/design.md:844-846`) asks consumers to key applicability on `view_dir`.
- The fingerprint is taken at the scan and the document read later (`cli.py:239`): one that is changed in between and then
  put back keeps passages of the other edition, since the fingerprint matches. `FaithfulWhenFresh` counts the passages
  of such a shard as `mixed`.
- With no view yet, a manifest the watcher cannot read leaves `view` None (`view.py:192`), and a turn reports an empty
  corpus; with one, the live view is kept (`LiveViewIsKept`).
- `clear()` stops the last turn alone. An earlier one still waiting for its response mints the id of the next thread
  when that arrives (`thread.svelte.ts:155`), and its exchange is filed under it (`:180`).
- Replies of `PUT` and `DELETE /provider/credential` carry `masked` alone and replace the page's whole status
  (`provider.svelte.ts:89`): a configured engine is shown as unconfigured until the page is loaded again. That is why
  `ShownKindIsEngines` speaks of a kind that is shown.
- `choose()` never sends `disclosure_ack` (`provider.svelte.ts:84`): the shared backend cannot be selected from the page.

## Not modelled

- Of PDF reading: coordinates, columns and panels, figures, glyph names and word lists, that is how a line comes by
  the answers it carries in `Sections` and `Units`. A line is one row.
- Prompt assembly, reports and messages (wording); embedding arithmetic, batching and the BM25 index (libraries);
  the token budget and `check_pages`, which only refuse.
- Of the store: an entry whose head fills a passage, near-miss suggestions, the extraction of terms from prose, `resolved_at`, and an edit during a load,
  which the model puts before or after it.
- Of the commands: `inventory` and the reports' formatting; collisions of source names.
- Of the page: rendering, the block parser, the caches, a second tab and a full storage.
- The tools (fixtures and timings). Two concurrent ingest runs are outside the documented single-writer assumption.

Where one of these acts on what is modelled, its effect is a nondeterministic choice: a loader succeeds, rejects or
raises; retrieval returns or raises; a model writes any lines.

## Plan

1. Done: the turn pipeline, the index beside the engine, the thread, the provider selection; retrieval, narrowing,
   framing and the tail of a turn with the adapters' retry; the reading of a manual; the authored store with its ledger;
   the scope store.
2. Next state machines: the history and the scope over two tabs and a full storage; a store changed between scan and
   load.
3. Pure algorithms: source-name collisions, the other gap reports, the page's block parser against `Framing`, the key
   router.
4. Refinements: `Framing` as the justification of `Drained` in `TurnPipeline`; `TriageStore` as that of the authored
   source of `IngestRun`; `CorpusWatch` as that of `TurnPipeline`'s live view.
5. Theorems: the refinements of item 4, step by step, once they are stated.
