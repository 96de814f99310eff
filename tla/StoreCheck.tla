------------------------------- MODULE StoreCheck ------------------------------
(***************************************************************************)
(* The verdict on the whole authored store: triage/loader.py's evaluate    *)
(* with triage/scope.py and triage/terms.py, the passages and the sidecar  *)
(* the ingesting entries become, the coverage report, and the rig join of  *)
(* corpus/rig.py whose gap reports speak of the same devices.              *)
(*                                                                         *)
(* A view is [rows, indexed]; a rig is [devices, applies], a sequence of   *)
(* [id, revision, name] and the source_applicability map.                  *)
(***************************************************************************)
EXTENDS TriageEntry

CONSTANTS
  Files,             \* the entry files' paths, in sorted order
  Absent,            \* no file at that path
  Controls,          \* the tokens that name a control, a parameter or a value
  WordCap,           \* WORD_CAP; one text of an entry stands for one word
  Stops              \* the texts that end a sentence

ASSUME CapAssumption == WordCap \in Nat \ {0}
ASSUME FilesAssumption == IsSeq(Files) /\ IsInjective(Files)

----------------------------------------------------------------------------
\* The rig join.

Applied(rig, source) ==
  IF source \in DOMAIN rig.applies THEN rig.applies[source] ELSE source

RigIds(rig) == {rig.devices[i].id : i \in DOMAIN rig.devices}

\* What the loader reads of the corpus in a run: the shards, whose records still
\* name the device the file name gives; and what validate reads: the published
\* view, whose records the rig was joined to and whose rows hold the notes too.
ShardView(manuals) == [rows |-> manuals.rows, indexed |-> manuals.sources]
PublishedView(view, rig) ==
  [rows |-> view.manuals.rows \o view.authored,
   indexed |-> view.manuals.sources \cup {Applied(rig, s) : s \in view.manuals.sources}]

----------------------------------------------------------------------------
\* Device scope (scope.py).

RevisionIn(rig, id) ==
  rig.devices[CHOOSE i \in DOMAIN rig.devices :
                /\ rig.devices[i].id = id
                /\ \A j \in 1..(i - 1) : rig.devices[j].id # id].revision

Unrecognised(e, rig, indexed) == DeviceIds(e) \ (RigIds(rig) \cup indexed)

\* A claim must be of gear the rig holds and no indexed manual documents.
BadClaim(cause, rig, indexed) ==
  cause.claim # None /\ (cause.claim \in indexed \/ cause.claim \notin RigIds(rig))

ScopeRejection(e, rig, indexed) ==
  IF Unrecognised(e, rig, indexed) = DeviceIds(e) THEN "all-devices-unrecognised"
  ELSE IF \E i \in DOMAIN e.causes : BadClaim(e.causes[i], rig, indexed)
       THEN "undocumented-claim-invalid"
  ELSE None

MismatchedRevision(device, rig) ==
  /\ device.id \in RigIds(rig) /\ device.revision # None
  /\ device.revision # RevisionIn(rig, device.id)

Flag(name, e, cause) == [name |-> name, file |-> e.file, cause |-> cause]

ScopeFlags(e, rig, indexed) ==
  {Flag("unknown-device", e, 0) : d \in Unrecognised(e, rig, indexed)}
  \cup {Flag("undocumented-device-scope", e, 0) :
          d \in (DeviceIds(e) \cap RigIds(rig)) \ indexed}
  \cup {Flag("revision-mismatch", e, 0) :
          i \in {k \in DOMAIN e.devices : MismatchedRevision(e.devices[k], rig)}}

----------------------------------------------------------------------------
\* The term check (terms.py): what a cause names must be in what it points at.

Vocabulary(e, rig) ==
  DeviceIds(e) \cup {rig.devices[i].name : i \in {k \in DOMAIN rig.devices :
                                                    rig.devices[k].id \in DeviceIds(e)}}

Terms(e, cause, rig) ==
  (ToSet(<<cause.statement>> \o cause.check) \cap Controls) \ Vocabulary(e, rig)

WordsAt(ids, rows) ==
  UNION {rows[i].words : i \in {k \in DOMAIN rows : Contains(ids, rows[k].id)}}

TermMisses(e, cause, checked, view, rig) ==
  LET texts == {WordsAt(checked[j].ids, view.rows) : j \in {k \in DOMAIN checked : Ok(checked[k])}}
  IN  {t \in Terms(e, cause, rig) : texts # {} /\ \A text \in texts : t \notin text}

----------------------------------------------------------------------------
\* One entry.

Unbacked(cause, checked) ==
  cause.claim # None \/ \E j \in DOMAIN checked : Drifted(checked[j])

CauseFlags(e, i, checked, view, rig) ==
  {Flag("pointer-drifted", e, i) : j \in {k \in DOMAIN checked : Drifted(checked[k])}}
  \cup {Flag("title-number-disagreement", e, i) :
          j \in {k \in DOMAIN checked : /\ Ok(checked[k])
                                        /\ TitleDisagrees(checked[k].pointer, view.rows)}}
  \cup {Flag("unbacked-cause", e, i) : c \in {e.causes[i].claim} \ {None}}
  \cup {Flag("term-not-in-passage", e, i) :
          t \in TermMisses(e, e.causes[i], checked, view, rig)}

CauseOutcome(e, i, checked, view, rig) ==
  [cause |-> e.causes[i], pointers |-> checked,
   unbacked |-> Unbacked(e.causes[i], checked),
   flags |-> CauseFlags(e, i, checked, view, rig)]

Excluded(e, reason) == [entry |-> e, rejection |-> reason, causes |-> <<>>, flags |-> {}]

Withdrawn(checked) == \E j \in DOMAIN checked : Rejected(checked[j])

\* The reason is that of the first cause's first pointer that is rejected.
PointerRejection(checked) ==
  LET cause == checked[Min({i \in DOMAIN checked : Withdrawn(checked[i])})]
      first == cause[Min({j \in DOMAIN cause : Rejected(cause[j])})]
  IN  IF first.reason = "authored-target" THEN "pointer-authored-target"
      ELSE "pointer-unresolved"

Checked(e, view, ledger) ==
  [i \in DOMAIN e.causes |-> [j \in DOMAIN e.causes[i].fixes |->
     CheckPointer(e.causes[i].fixes[j], view.rows, ledger)]]

Ingested(e, checked, view, rig) ==
  LET causes == [i \in DOMAIN e.causes |-> CauseOutcome(e, i, checked[i], view, rig)]
  IN  [entry |-> e, rejection |-> None, causes |-> causes,
       flags |-> ScopeFlags(e, rig, view.indexed)
                 \cup UNION {causes[i].flags : i \in DOMAIN causes}]

EvaluateEntry(e, view, rig, ledger) ==
  LET scope == ScopeRejection(e, rig, view.indexed)
      checked == Checked(e, view, ledger)
  IN  IF scope # None THEN Excluded(e, scope)
      ELSE IF \E i \in DOMAIN checked : Withdrawn(checked[i])
           THEN Excluded(e, PointerRejection(checked))
      ELSE Ingested(e, checked, view, rig)

----------------------------------------------------------------------------
\* The whole store.

Clashes(e, f) ==
  NormalisedSymptom(e) = NormalisedSymptom(f) /\ DeviceIds(e) \cap DeviceIds(f) # {}

Present(files) == Among(Files, {f \in ToSet(Files) : files[f] # Absent})

\* What was not rejected, in order.
Accepted(results) ==
  LET kept[k \in 0..Len(results)] ==
        IF k = 0 THEN <<>>
        ELSE LET r == results[k]
             IN  IF r.rejection = None THEN Append(kept[k - 1], r) ELSE kept[k - 1]
  IN  kept[Len(results)]

\* Both members of a clashing pair go before either is looked at on its own.
Judged(good, view, rig, ledger) ==
  [i \in DOMAIN good |->
     IF \E j \in DOMAIN good \ {i} : Clashes(good[i].entry, good[j].entry)
     THEN Excluded(good[i].entry, "duplicate-symptom")
     ELSE EvaluateEntry(good[i].entry, view, rig, ledger)]

Rejections(paths, parsed, outcomes) ==
  {[file |-> paths[i], reason |-> parsed[i].rejection] :
     i \in {k \in DOMAIN parsed : parsed[k].rejection # None}}
  \cup {[file |-> outcomes[i].entry.file, reason |-> outcomes[i].rejection] :
          i \in {k \in DOMAIN outcomes : outcomes[k].rejection # None}}

\* Remarks on an excluded file are noise beside the reason it went.
StoreOutcome(good, outcomes, rejected) ==
  [outcomes |-> outcomes, rejections |-> rejected,
   flags |-> {f \in UNION {good[i].flags \cup outcomes[i].flags : i \in DOMAIN good} :
                \A r \in rejected : r.file # f.file}]

Evaluate(files, view, rig, ledger) ==
  LET paths    == Present(files)
      parsed   == Computed([i \in DOMAIN paths |-> ParseEntry(paths[i], files[paths[i]])])
      good     == Accepted(parsed)
      outcomes == Computed(Judged(good, view, rig, ledger))
  IN  StoreOutcome(good, outcomes, Rejections(paths, parsed, outcomes))

Ingesting(outcome) == Accepted(outcome.outcomes)

----------------------------------------------------------------------------
\* The ledger's next rows.

PointersOf(o) == UNION {ToSet(o.causes[i].pointers) : i \in DOMAIN o.causes}

Resolutions(outcome) ==
  UNION {{p \in PointersOf(o) : Ok(p)} :
           o \in {x \in ToSet(outcome.outcomes) : x.rejection = None}}

ResolvedKeys(outcome) == {PointerKey(p.pointer) : p \in Resolutions(outcome)}

\* Pointers of one key resolve alike, so any of them gives the key's passages.
IdsFor(key, outcome) ==
  (CHOOSE p \in Resolutions(outcome) : PointerKey(p.pointer) = key).ids

\* The slip VerifiedNeverRejects watches for: rows of this run's pointers only.
RecordedAfresh(rows, outcome) ==
  [key \in ResolvedKeys(outcome) |-> IdsFor(key, outcome)]

\* Rows are added and moved, never taken away.
Recorded(rows, outcome) ==
  [key \in DOMAIN rows \cup ResolvedKeys(outcome) |->
     IF key \in ResolvedKeys(outcome) THEN IdsFor(key, outcome) ELSE rows[key]]

----------------------------------------------------------------------------
\* Emission: one region per entry, packed like any other (corpus/chunk.py).  Its
\* head is repeated, which leaves room as long as a head is shorter than the cap.

Blocks(e) ==
  [i \in DOMAIN e.causes |-> BlockOf(e.causes[i])]
    \o (IF e.closing = <<>> THEN <<>> ELSE <<e.closing>>)

BlockEnd(e, i) ==
  LET blocks == Blocks(e) IN Total([k \in DOMAIN blocks |-> Len(blocks[k])], i)

Room(e) == WordCap - Len(HeadOf(e))

\* The head and the words between two places, which may be part of a cause, the
\* closing alone, or none.
PassageOf(o, from, upto) ==
  LET e == o.entry
      causes == {i \in DOMAIN o.causes : BlockEnd(e, i - 1) < upto /\ from < BlockEnd(e, i)}
  IN  [id |-> None, file |-> e.file, line |-> e.line, symptom |-> e.symptom,
       text |-> HeadOf(e) \o SubSeq(FlattenSeq(Blocks(e)), from + 1, upto),
       causes |-> causes, unbacked |-> \E i \in causes : o.causes[i].unbacked]

\* Where the last block ends that still fits whole.
WholeUpto(e, from) ==
  Max({from} \cup {upto \in {BlockEnd(e, i) : i \in DOMAIN Blocks(e)} :
                     from < upto /\ upto <= from + Room(e)})

\* _split: a block that no passage holds is cut, after a sentence if one ends there.
CutAt(e, from) ==
  LET words == FlattenSeq(Blocks(e))
      sentences == {upto \in (from + 1)..(from + Room(e)) : words[upto] \in Stops}
  IN  IF sentences = {} THEN from + Room(e) ELSE Max(sentences)

\* _pack: where each passage ends; the first holds the head, if need be alone.
PassageEnds(e, total) ==
  LET end[k \in 0..(total + 1)] ==
        IF k = 0 THEN 0
        ELSE LET from == end[k - 1]
                 whole == WholeUpto(e, from)
             IN  IF k = 1 \/ whole > from \/ from = total THEN whole ELSE CutAt(e, from)
  IN  end

Emit(o) ==
  LET total == Len(FlattenSeq(Blocks(o.entry)))
      end == PassageEnds(o.entry, total)
      count == Cardinality({k \in 1..(total + 1) : k = 1 \/ end[k - 1] < total})
  IN  [k \in 1..count |-> PassageOf(o, end[k - 1], end[k])]

\* An identifier is the packed text, told from an equal text by its occurrence.
Identified(passages) ==
  [i \in DOMAIN passages |->
     [passages[i] EXCEPT
        !.id = [text |-> passages[i].text,
                nth |-> Cardinality({j \in 1..(i - 1) : passages[j].text = passages[i].text})]]]

Chunks(outcome) ==
  LET served == Ingesting(outcome)
  IN  Identified(FlattenSeq([i \in DOMAIN served |-> Emit(served[i])]))

\* The slip MarksAreEarned watches for: chunks are grouped by their title.
LocatedByTitle(chunk, e) == chunk.symptom = e.symptom

Located(chunk, e) == chunk.file = e.file /\ chunk.line = e.line

SidecarRows(outcome) ==
  LET served == Ingesting(outcome)
      chunks == Chunks(outcome)
  IN  UNION {{[id |-> chunks[k].id, file |-> served[i].entry.file,
               devices |-> DeviceIds(served[i].entry),
               backing |-> [c \in DOMAIN served[i].causes |->
                              [j \in DOMAIN served[i].causes[c].pointers |->
                                 served[i].causes[c].pointers[j].ids]]] :
                k \in {x \in DOMAIN chunks : Located(chunks[x], served[i].entry)}} :
             i \in DOMAIN served}

----------------------------------------------------------------------------
\* The coverage report (coverage.py).

UnbackedRows(outcome) ==
  LET served == Ingesting(outcome)
  IN  UNION {{[file |-> served[i].entry.file, cause |-> c] :
                c \in {k \in DOMAIN served[i].causes : served[i].causes[k].cause.claim # None}} :
             i \in DOMAIN served}

DriftRows(outcome) ==
  LET served == Ingesting(outcome)
  IN  UNION {{[file |-> served[i].entry.file, cause |-> c] :
                c \in {k \in DOMAIN served[i].causes :
                         \E j \in DOMAIN served[i].causes[k].pointers :
                           Drifted(served[i].causes[k].pointers[j])}} :
             i \in DOMAIN served}

Uncovered(outcome, rig) ==
  LET served == Ingesting(outcome)
  IN  RigIds(rig) \ UNION {DeviceIds(served[i].entry) : i \in DOMAIN served}

OrphanRows(outcome, rig) ==
  LET served == Ingesting(outcome)
  IN  IF RigIds(rig) = {} THEN {}
      ELSE {served[i].entry.file : i \in {k \in DOMAIN served :
              DeviceIds(served[k].entry) \cap RigIds(rig) = {}}}

Coverage(outcome, rig) ==
  [entries   |-> {Ingesting(outcome)[i].entry.file : i \in DOMAIN Ingesting(outcome)},
   rejected  |-> outcome.rejections, flags |-> outcome.flags,
   uncovered |-> Uncovered(outcome, rig), unbacked |-> UnbackedRows(outcome),
   drifted   |-> DriftRows(outcome), orphaned |-> OrphanRows(outcome, rig)]

=============================================================================
