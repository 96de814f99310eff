------------------------------ MODULE TriageStore ------------------------------
(***************************************************************************)
(* The authored store over ingest runs: an author edits entry files, the   *)
(* manuals change under them, and each run parses, resolves and publishes  *)
(* the store again (cli.py's TriageStore, triage/loader.py's load), with   *)
(* the pointer ledger as its only memory.  `dawmans validate` reads the    *)
(* same store against the published view and writes nothing.  A run may    *)
(* die between any two steps, also while the ledger is being rewritten.    *)
(***************************************************************************)
EXTENDS StoreCheck

CONSTANTS
  Drafts(_),          \* what an author may put in the file at a path
  Editions,           \* what the manuals may hold: records [rows, sources]
  Rigs,               \* the rigs rig.yaml may declare
  Precedes(_, _),     \* the order of the pointers' keys as text
  MaxEdits, MaxRuns   \* bounds on the author's edits and on the runs

ASSUME DraftsAssumption == \A f \in ToSet(Files) : \A d \in Drafts(f) : IsDraft(d)
ASSUME EditionsAssumption == \A e \in Editions : IsSeq(e.rows)
\* A head of WordCap words or more is itself split, which Emit leaves out.
ASSUME HeadsAssumption ==
  \A f \in ToSet(Files) : \A d \in Drafts(f) :
    LET parsed == ParseEntry(f, d) IN
      parsed.rejection = None => Len(HeadOf(parsed.entry)) < WordCap

VARIABLES
  files,      \* the store's directory: path -> draft or Absent
  rig,        \* rig.yaml, which no step changes
  manuals,    \* the committed vendor shards
  ledger,     \* the ledger file: [state, rows]
  phase,      \* where the run is
  outcome,    \* the StoreOutcome of the load in progress, or None
  held,       \* the ledger's rows as the loader holds them in memory
  shard,      \* the committed authored shard with its sidecar, or None
  published,  \* the view the manifest names: [manuals, authored], or None
  verified,   \* history: keys some run put into the ledger since it was begun
  torn,       \* history: a run died while it rewrote the ledger
  foretold,   \* history: what validate said of this very store, or None
  edits, runs \* how often the author wrote and a run began

vars == <<files, rig, manuals, ledger, phase, outcome, held, shard, published, verified,
          torn, foretold, edits, runs>>

NoRows == [key \in {} |-> <<>>]
Missing == [state |-> "missing", rows |-> NoRows]

Init ==
  /\ files \in [ToSet(Files) -> UNION {Drafts(f) : f \in ToSet(Files)} \cup {Absent}]
  /\ \A f \in ToSet(Files) : files[f] \in Drafts(f) \cup {Absent}
  /\ rig \in Rigs /\ manuals = [rows |-> <<>>, sources |-> {}]
  /\ ledger = Missing /\ phase = "idle" /\ outcome = None /\ held = NoRows
  /\ shard = None /\ published = None
  /\ verified = {} /\ torn = FALSE /\ foretold = None /\ edits = 0 /\ runs = 0

\* The author writes or removes a file.  One written while a run goes on is read
\* by its load as if written before it, or by the next run as if after it.
Edit(f) ==
  /\ edits < MaxEdits /\ phase = "idle"
  /\ \E d \in (Drafts(f) \cup {Absent}) \ {files[f]} : files' = [files EXCEPT ![f] = d]
  /\ edits' = edits + 1 /\ foretold' = None
  /\ UNCHANGED <<rig, manuals, ledger, phase, outcome, held, shard, published, verified, torn, runs>>

\* The ledger file goes: a fresh clone without it, or the author deletes it.
LoseLedger ==
  /\ phase = "idle" /\ ledger.state # "missing"
  /\ ledger' = Missing /\ verified' = {} /\ torn' = FALSE /\ foretold' = None
  /\ UNCHANGED <<files, rig, manuals, phase, outcome, held, shard, published, edits, runs>>

\* A run begins: absent sources go, then every vendor shard of the run commits.
StartRun(edition) ==
  /\ phase = "idle" /\ runs < MaxRuns
  /\ manuals' = edition /\ runs' = runs + 1
  /\ foretold' = IF published # None /\ published.manuals = edition THEN foretold ELSE None
  /\ shard' = IF Present(files) = <<>> THEN None ELSE shard
  /\ phase' = IF Present(files) = <<>> THEN "merge" ELSE "load"
  /\ UNCHANGED <<files, rig, ledger, outcome, held, published, verified, torn, edits>>

\* The load: the whole verdict, and the ledger's rows only if an entry survives.
Load ==
  /\ phase = "load" /\ ledger.state # "torn"
  /\ LET found == Evaluate(files, ShardView(manuals), rig, ledger.rows)
     IN  /\ outcome' = found
         /\ IF Ingesting(found) = <<>>
            THEN /\ shard' = None /\ phase' = "merge"
                 /\ UNCHANGED held
            ELSE /\ held' = Recorded(ledger.rows, found)
                 /\ phase' = IF held' = ledger.rows
                             THEN "build" ELSE "record"
                 /\ UNCHANGED shard
  /\ UNCHANGED <<files, rig, manuals, ledger, published, verified, torn, foretold, edits, runs>>

\* An unparseable ledger fails the source; its previous shard stays.
FailLoad ==
  /\ phase = "load" /\ ledger.state = "torn"
  /\ phase' = "merge"
  /\ UNCHANGED <<files, rig, manuals, ledger, outcome, held, shard, published, verified, torn,
                 foretold, edits, runs>>

\* write_text opens the file, which empties it, and then writes the rows.
TruncateLedger ==
  /\ phase = "record"
  /\ ledger' = [state |-> "ok", rows |-> NoRows] /\ phase' = "write"
  /\ UNCHANGED <<files, rig, manuals, outcome, held, shard, published, verified, torn, foretold,
                 edits, runs>>

WriteLedger ==
  /\ phase = "write"
  /\ ledger' = [state |-> "ok", rows |-> held] /\ phase' = "build"
  /\ verified' = verified \cup DOMAIN held
  /\ UNCHANGED <<files, rig, manuals, outcome, held, shard, published, torn, foretold, edits, runs>>

\* The shard and its sidecar are committed.
Build ==
  /\ phase = "build"
  /\ shard' = [passages |-> Chunks(outcome), rows |-> SidecarRows(outcome),
               report |-> Coverage(outcome, rig)]
  /\ phase' = "merge"
  /\ UNCHANGED <<files, rig, manuals, ledger, outcome, held, published, verified, torn, foretold,
                 edits, runs>>

\* The notes' own passages, as the view publishes them beside the manuals'.
AuthoredRows ==
  IF shard = None THEN <<>>
  ELSE [i \in DOMAIN shard.passages |->
          [source |-> AuthoredSource, number |-> None, title |-> shard.passages[i].symptom,
           id |-> shard.passages[i].id, words |-> ToSet(shard.passages[i].text)]]

\* The merge: whatever shards are committed become the published view.
Publish ==
  /\ phase = "merge"
  /\ published' = [manuals |-> manuals, authored |-> AuthoredRows]
  /\ phase' = "idle" /\ outcome' = None /\ held' = NoRows
  /\ UNCHANGED <<files, rig, manuals, ledger, shard, verified, torn, foretold, edits, runs>>

\* What a write that is cut between two rows leaves: the first of the sorted keys.
Begun ==
  {keys \in SUBSET DOMAIN held :
     keys # DOMAIN held /\ \A k \in keys, l \in DOMAIN held : Precedes(l, k) => l \in keys}

\* The process dies.  What it had of the ledger is then some whole rows, or such
\* rows and half of another, which no load reads.
Crash ==
  /\ phase # "idle"
  /\ phase' = "idle" /\ outcome' = None /\ held' = NoRows
  /\ IF phase = "write"
     THEN /\ \/ ledger' = [state |-> "torn", rows |-> NoRows]
             \/ \E keys \in Begun :
                  ledger' = [state |-> "ok", rows |-> [key \in keys |-> held[key]]]
          /\ verified' = verified \cup DOMAIN ledger'.rows
          /\ torn' = TRUE /\ foretold' = None
     ELSE UNCHANGED <<ledger, verified, torn, foretold>>
  /\ UNCHANGED <<files, rig, manuals, shard, published, edits, runs>>

Validated == Evaluate(files, PublishedView(published, rig), rig, ledger.rows)

\* The slip DriftWasVerified watches for: looking at a store records it.
ValidateAndRecord ==
  /\ phase = "idle" /\ published # None /\ ledger.state # "torn" /\ foretold = None
  /\ foretold' = Validated.rejections
  /\ ledger' = [state |-> "ok", rows |-> Recorded(ledger.rows, Validated)]
  /\ UNCHANGED <<files, rig, manuals, phase, outcome, held, shard, published, verified, torn,
                 edits, runs>>

\* dawmans validate: the same verdict over the published view, and nothing written.
Validate ==
  /\ phase = "idle" /\ published # None /\ ledger.state # "torn" /\ foretold = None
  /\ foretold' = Validated.rejections
  /\ UNCHANGED <<files, rig, manuals, ledger, phase, outcome, held, shard, published, verified,
                 torn, edits, runs>>

Next ==
  \/ \E f \in ToSet(Files) : Edit(f)
  \/ \E e \in Editions : StartRun(e)
  \/ LoseLedger \/ Load \/ FailLoad \/ TruncateLedger \/ WriteLedger \/ Build
  \/ Publish \/ Crash \/ Validate

Spec == Init /\ [][Next]_vars

----------------------------------------------------------------------------

\* parse.py:459: what is not read as a field is "retained in the passage text".
\* Of a file a load accepts, every word is in the entry's text, wherever it wrapped,
\* but for the pointers and the claim, which are read.
WordsAreKept ==
  phase = "load" => \A f \in ToSet(Present(files)) :
    LET d == files[f]
        parsed == ParseEntry(f, d)
        e == parsed.entry
        kept == ToSet(HeadOf(e)) \cup ToSet(e.closing)
                \cup UNION {ToSet(BlockOf(e.causes[i])) : i \in DOMAIN e.causes}
        written == {d.lines[i].text : i \in {k \in DOMAIN d.lines :
                      d.lines[k].kind \notin {"blank", "fix", "undocumented"}}}
    IN  parsed.rejection = None => written \subseteq kept

\* Requirement 8.4 and pointers.py:320: once a run has resolved a pointer, no
\* change of the manuals and no edit of an entry makes it a reason to withdraw
\* the entry, whatever crashes lay between, unless the ledger itself was lost.
VerifiedNeverRejects ==
  outcome # None /\ ~torn =>
    \A o \in ToSet(outcome.outcomes) :
      o.rejection = "pointer-unresolved" =>
        \E c \in ToSet(o.entry.causes) : \E p \in ToSet(c.fixes) :
          LET reason == Resolve(p, manuals.rows).reason
          IN  reason # None /\ (reason = "authored-target" \/ PointerKey(p) \notin verified)

\* Requirement 2.2: a pointer is served as drifted only if an ingest, and not a
\* validate, once resolved it: a typo is never taken for drift.
DriftWasVerified ==
  outcome # None =>
    \A o \in ToSet(outcome.outcomes) : \A p \in PointersOf(o) :
      Drifted(p) => PointerKey(p.pointer) \in verified

Bare(backing) == backing = <<>> \/ \E j \in DOMAIN backing : backing[j] = <<>>

\* A published passage, its one sidecar row and the report are of one entry, also
\* where two entries share a symptom in disjoint scopes (loader.py:646): it is
\* marked unbacked exactly when a cause it carries has no pointer, or one that
\* resolves to nothing, and the report then names such a cause (requirements 2.4,
\* 6.4 and 8.5).
MarksAreEarned ==
  shard # None =>
    \A p \in ToSet(shard.passages) :
      LET rows == {r \in shard.rows : r.id = p.id}
          bare == {c \in p.causes : \E r \in rows : Bare(r.backing[c])}
          told == {row.cause : row \in {x \in shard.report.unbacked \cup shard.report.drifted :
                                          x.file = p.file}}
      IN  /\ {r.file : r \in rows} = {p.file}
          /\ p.unbacked <=> bare # {}
          /\ bare = told \cap p.causes

\* Where no manual describes a device of another name, the next ingest excludes
\* exactly the files validate rejected, for the same reasons (requirement 5.4).
ValidateForetells ==
  (/\ outcome # None /\ foretold # None
   /\ \A s \in manuals.sources : Applied(rig, s) = s)
  => outcome.rejections = foretold

=============================================================================
