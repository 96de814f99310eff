----------------------------- MODULE IngestRun -----------------------------
(***************************************************************************)
(* `dawmans ingest` (cli.py, index/build.py, corpus/discover.py): one run  *)
(* at a time scans the stores, removes and rebuilds shards, merges them    *)
(* into a fresh view and renames manifest.json.  A run may die at any      *)
(* point; a commit or a removal that is cut short has moved or unlinked a  *)
(* prefix of the shard's four files.                                       *)
(*                                                                         *)
(* The text of a passage is its content-derived id; a vector is the pair   *)
(* of the passage that was encoded and the model that encoded it.          *)
(***************************************************************************)
EXTENDS Lists, FiniteSets

CONSTANTS
  SourceOrder,   \* the source ids, sorted
  Authored,      \* those of the authored store; the others are vendor manuals
  Docs,          \* the documents a source can be: each stands for its fingerprint
  Chunks,        \* Chunks[d][v]: what version v of the code makes of document d
  Setups,        \* installed code and configuration: version, model, format
  FirstSetup,
  NoDoc,         \* the store does not hold the source
  Unknown,       \* its store could not be scanned
  NoFile,
  MaxEdits, MaxViews, MaxSetups   \* bounds

Sources == ToSet(SourceOrder)

Versions == {c.version : c \in Setups}
Models == {c.model : c \in Setups}

\* The contents of a shard's files: passage ids, metas and sidecars.
Texts == UNION {ToSet(Chunks[d][v]) : d \in Docs, v \in Versions}
PassageIds == Sources \X Texts
Metas == [fingerprint : Docs, version : Versions, model : Models, rows : Nat,
          ids : Seq(PassageIds)]
Sidecars == [resolved : SUBSET PassageIds]
Rows == [text : PassageIds, model : Models]

\* The files of a shard that its meta speaks of.
Columns == {"passages", "vectors"}

\* A view that was merged.
WholeViews ==
  [complete : {TRUE}, sources : Seq(Sources), slices : Seq(Nat), rows : Seq(PassageIds),
   vectors : Seq(Rows), sidecars : UNION {[S -> Sidecars] : S \in SUBSET Sources},
   model : Models, revision : SUBSET (Sources \X Docs \X Nat)]

ASSUME SourcesAssumption ==
  /\ SourceOrder \in Seq(Sources) /\ IsInjective(SourceOrder) /\ Authored \subseteq Sources
ASSUME SentinelsAssumption ==
  /\ NoDoc \notin Docs /\ Unknown \notin Docs \cup {NoDoc}
  /\ NoFile \notin Metas /\ NoFile \notin Sidecars
ASSUME SetupAssumption == FirstSetup \in Setups
ASSUME ChunksAssumption == \A d \in Docs, v \in Versions : Chunks[d][v] \in Seq(Texts)

VARIABLES
  store,      \* the document each source has in its store
  edits,      \* edits so far (bounded)
  setup,      \* what is installed: ingestion version, model, index format
  setups,     \* changes of it (bounded)
  files,      \* shards/<slug>.*: the four files of each source
  views,      \* views/<hex>, numbered in order of creation; one may hold no view
  manifest,   \* manifest.json
  phase,      \* where the run is: "idle" between runs
  using,      \* the setup the run started with
  scan,       \* what discovery found for each source
  todo,       \* sources not ingested yet
  failed,     \* some source failed: the exit code
  draft,      \* the view being built
  \* history
  fresh,      \* no store changed since the run's scan
  excluded,   \* sources the run rejected
  mixed       \* <<s, column>>: that file of s is not of the build its meta is of

stores == <<store, edits, setup, setups>>
run    == <<phase, using, scan, todo, failed, draft, fresh, excluded>>
vars   == <<stores, files, mixed, views, manifest, run>>

NoScan == [s \in Sources |-> Unknown]

\* The process is gone, and what it knew with it.
RunEnds ==
  /\ phase' = "idle" /\ using' = FirstSetup /\ scan' = NoScan /\ todo' = {}
  /\ failed' = FALSE /\ draft' = 0 /\ fresh' = FALSE /\ excluded' = {}

\* A directory nothing was merged into yet, or that is gone.
PartialView == [complete |-> FALSE]

NoShard == [passages |-> NoFile, vectors |-> NoFile, sidecar |-> NoFile, meta |-> NoFile]

Init ==
  /\ store \in [Sources -> Docs \cup {NoDoc}]
  /\ edits = 0
  /\ setup = FirstSetup
  /\ setups = 0
  /\ files = [s \in Sources |-> NoShard]
  /\ views = << >>
  /\ manifest = NoFile
  /\ phase = "idle"
  /\ using = FirstSetup
  /\ scan = NoScan
  /\ todo = {}
  /\ failed = FALSE
  /\ draft = 0
  /\ fresh = FALSE
  /\ excluded = {}
  /\ mixed = {}

-----------------------------------------------------------------------------
(* The owner's side.                                                       *)

\* A source is added, changed, removed or put back.
Edit(s) ==
  /\ edits < MaxEdits
  /\ edits' = edits + 1
  /\ \E d \in Docs \cup {NoDoc} : d # store[s] /\ store' = [store EXCEPT ![s] = d]
  /\ fresh' = FALSE
  /\ UNCHANGED <<setup, setups, files, mixed, views, manifest, phase, using, scan, todo,
                 failed, draft, excluded>>

\* The code, the embedding model or the index format changes.
Install(new) ==
  /\ setups < MaxSetups /\ new # setup
  /\ setups' = setups + 1
  /\ setup' = new
  /\ UNCHANGED <<store, edits, files, mixed, views, manifest, run>>

-----------------------------------------------------------------------------
(* Discovery and removal.                                                  *)

\* Slip: the newest directory is taken for the live one.
CollectedButNewest(ws, m, format) ==
  [i \in DOMAIN ws |-> IF i = Len(ws) THEN ws[i] ELSE PartialView]

\* collect_views: every view goes but the one the manifest names, if it names
\* one in the format this code reads.
Collected(ws, m, format) ==
  IF m = NoFile THEN ws
  ELSE IF m.format # format THEN ws
  ELSE [i \in DOMAIN ws |-> IF i = m.dir THEN ws[i] ELSE PartialView]

\* The run starts: superseded views go, then each store is scanned, or found
\* unavailable.
Start ==
  /\ phase = "idle" /\ Len(views) < MaxViews
  /\ phase' = "ingest"
  /\ using' = setup
  /\ views' = Collected(views, manifest, setup.format)
  /\ \E available \in SUBSET {Authored, Sources \ Authored} :
       scan' = [s \in Sources |-> IF s \in UNION available THEN store[s] ELSE Unknown]
  /\ todo' = {s \in Sources : scan'[s] \in Docs}
  /\ failed' = FALSE
  /\ fresh' = TRUE
  /\ excluded' = {}
  /\ UNCHANGED <<stores, files, mixed, manifest, draft>>

HasShard(s) == files[s].meta # NoFile

\* Absent from a store that was scanned, and still indexed.
Gone(s) == scan[s] = NoDoc /\ HasShard(s)

\* Slip: the meta is moved first.
FileOrderMetaFirst == <<"meta", "passages", "vectors", "sidecar">>

FileOrder == <<"passages", "vectors", "sidecar", "meta">>

\* The shard after the first n of its files were replaced by those of `new`.
Moved(old, new, n) ==
  LET moved == {FileOrder[i] : i \in 1..n} IN
    [passages |-> IF "passages" \in moved THEN new.passages ELSE old.passages,
     vectors  |-> IF "vectors" \in moved THEN new.vectors ELSE old.vectors,
     sidecar  |-> IF "sidecar" \in moved THEN new.sidecar ELSE old.sidecar,
     meta     |-> IF "meta" \in moved THEN new.meta ELSE old.meta]

\* remove_absent_sources.
RemoveSource(s) ==
  /\ phase = "ingest" /\ Gone(s)
  /\ files' = [files EXCEPT ![s] = NoShard]
  /\ mixed' = mixed \ ({s} \X Columns)
  /\ UNCHANGED <<stores, views, manifest, run>>

-----------------------------------------------------------------------------
(* One source.                                                             *)

\* Shard.reusable: all components of the cache key match.
Reusable(s) ==
  /\ HasShard(s)
  /\ files[s].meta.fingerprint = scan[s]
  /\ files[s].meta.version = using.version
  /\ files[s].meta.model = using.model

\* Slip: the two stores are ingested in any order.
TurnInAnyOrder(s) == phase = "ingest" /\ s \in todo /\ \A u \in Sources : ~Gone(u)

\* Removal comes first, and the authored store after every vendor manual.
TurnOf(s) ==
  /\ phase = "ingest" /\ s \in todo
  /\ \A u \in Sources : ~Gone(u)
  /\ s \in Authored => todo \subseteq Authored

\* The loader runs unless the shard can be reused; the authored store is
\* always loaded.
Loads(s) == TurnOf(s) /\ (s \in Authored \/ ~Reusable(s))

\* Slip: rows are reused whatever model the shard was embedded with.
ReusesRowsOfAnyModel(s) == HasShard(s) /\ files[s].meta.ids # << >>

\* _embed consults the previous shard's vector map if the same code and model
\* made it.
ReusesRows(s) ==
  /\ HasShard(s) /\ files[s].meta.ids # << >>
  /\ files[s].meta.version = using.version
  /\ files[s].meta.model = using.model

\* The vector of a passage: the row the map gives for its id, or a new one.
Row(s, p) ==
  LET old == files[s]
      known == {i \in DOMAIN old.meta.ids : old.meta.ids[i] = p /\ i <= Len(old.vectors)}
  IN  IF ReusesRows(s) /\ known # {}
        THEN old.vectors[CHOOSE i \in known : TRUE]
        ELSE [text |-> p, model |-> using.model]

\* What version v of the loader and the chunker make of document d of s: a
\* passage id is derived from the source and the text.
Passages(s, d, v) == [i \in DOMAIN Chunks[d][v] |-> <<s, Chunks[d][v][i]>>]

\* The passages the authored loader resolves its pointers against.
VendorPassages ==
  UNION {ToSet(files[u].passages) : u \in {u \in Sources \ Authored : HasShard(u)}}

\* What the loader, the chunker and build_shard make of the document they find
\* now, under the fingerprint the scan took.
Built(s) ==
  LET ids == Passages(s, store[s], using.version) IN
    [passages |-> ids,
     vectors  |-> [i \in DOMAIN ids |-> Row(s, ids[i])],
     sidecar  |-> IF s \in Authored THEN [resolved |-> VendorPassages] ELSE NoFile,
     meta     |-> [fingerprint |-> scan[s], version |-> using.version,
                   model |-> using.model, rows |-> Len(ids),
                   ids |-> IF s \in Authored THEN ids ELSE << >>]]

\* What a build reads is there: the document, the vendor passages the authored
\* loader asks for, the vectors it would reuse.
CanBuild(s) ==
  /\ store[s] \in Docs
  /\ s \in Authored =>
       /\ \A u \in Sources \ Authored : HasShard(u) => files[u].passages # NoFile
       /\ ReusesRows(s) => files[s].vectors # NoFile

\* The files the commit of `new` moves: a source without a sidecar moves three.
Commit(s, new) == [new EXCEPT !.sidecar = IF @ = NoFile THEN files[s].sidecar ELSE @]

Done(s) ==
  /\ todo' = todo \ {s}
  /\ UNCHANGED <<stores, views, manifest, phase, using, scan, draft, fresh>>

Skip(s) ==
  /\ TurnOf(s) /\ s \notin Authored /\ Reusable(s)
  /\ Done(s)
  /\ UNCHANGED <<files, mixed, failed, excluded>>

\* A whole commit leaves nothing mixed, but for the passages of a manual that
\* changed since it was scanned, under whose fingerprint they are kept, and the
\* vectors an authored source may have reused from a mixed shard.
MixedAfter(s) ==
  (mixed \ ({s} \X Columns))
    \cup (IF s \notin Authored /\ store[s] # scan[s] THEN {<<s, "passages">>} ELSE {})
    \cup (IF s \in Authored /\ ReusesRows(s) THEN mixed \cap {<<s, "vectors">>} ELSE {})

Build(s) ==
  /\ Loads(s) /\ CanBuild(s)
  /\ files' = [files EXCEPT ![s] = Commit(s, Built(s))]
  /\ mixed' = MixedAfter(s)
  /\ Done(s)
  /\ UNCHANGED <<failed, excluded>>

\* The loader rejects the source: its shard is dropped and the run goes on.
Reject(s) ==
  /\ Loads(s) /\ store[s] \in Docs
  /\ files' = [files EXCEPT ![s] = NoShard]
  /\ mixed' = mixed \ ({s} \X Columns)
  /\ excluded' = excluded \cup {s}
  /\ Done(s)
  /\ UNCHANGED failed

\* The loader, the chunker or the embedder raises: the shard stays.
Fail(s) ==
  /\ Loads(s)
  /\ failed' = TRUE
  /\ Done(s)
  /\ UNCHANGED <<files, mixed, excluded>>

\* What a commit cut short leaves mixed: the files of f it put beside the meta of
\* the previous build.
Mixes(s, f) ==
  {x \in {s} \X Columns : \/ x[2] = "passages" /\ f.passages # files[s].passages
                          \/ x[2] = "vectors" /\ f.vectors # files[s].vectors}

\* A commit or a drop stops after n of its files: the run reports the source
\* as failed and goes on, or dies there.
Tear(s) ==
  /\ \E n \in 1..3, new \in {NoShard} \cup (IF Loads(s) /\ CanBuild(s)
                                              THEN {Commit(s, Built(s))} ELSE {}) :
       /\ new = NoShard => HasShard(s) /\ (Gone(s) \/ Loads(s))
       /\ files' = [files EXCEPT ![s] = Moved(@, new, n)]
       /\ mixed' = mixed \cup (IF HasShard(s) /\ new # NoShard
                                 THEN Mixes(s, Moved(files[s], new, n)) ELSE {})
  /\ \/ /\ Loads(s) /\ failed' = TRUE /\ Done(s) /\ UNCHANGED excluded
     \/ /\ phase = "ingest" /\ RunEnds
        /\ UNCHANGED <<stores, views, manifest>>

-----------------------------------------------------------------------------
(* The merge and the manifest.                                             *)

\* The sources with a shard, in source order.
Shards ==
  FlattenSeq([i \in DOMAIN SourceOrder |->
                IF HasShard(SourceOrder[i]) THEN <<SourceOrder[i]>> ELSE << >>])

Ingested == phase = "ingest" /\ todo = {} /\ \A s \in Sources : ~Gone(s)

\* commit_view refuses a shard of another model before it makes a directory.
MixedModels == \E s \in Sources : HasShard(s) /\ files[s].meta.model # using.model

Unreadable ==
  \E s \in Sources : HasShard(s) /\ NoFile \in {files[s].passages, files[s].vectors}

OpenView ==
  /\ Ingested /\ ~MixedModels
  /\ phase' = "merge"
  /\ views' = Append(views, PartialView)
  /\ draft' = Len(views')
  /\ UNCHANGED <<stores, files, mixed, manifest, using, scan, todo, failed, fresh, excluded>>

\* The plain concatenation of the shards, in source order.
Merged ==
  LET shard(i) == files[Shards[i]] IN
      [complete |-> TRUE,
       sources  |-> Shards,
       slices   |-> [i \in DOMAIN Shards |-> Len(shard(i).passages)],
       rows     |-> FlattenSeq([i \in DOMAIN Shards |-> shard(i).passages]),
       vectors  |-> FlattenSeq([i \in DOMAIN Shards |-> shard(i).vectors]),
       sidecars |-> [s \in {s \in Sources : HasShard(s) /\ files[s].sidecar # NoFile}
                       |-> files[s].sidecar],
       model    |-> using.model,
       revision |-> {<<s, files[s].meta.fingerprint, files[s].meta.rows>> :
                       s \in {s \in Sources : HasShard(s)}}]

WriteView ==
  /\ phase = "merge" /\ ~Unreadable
  /\ phase' = "publish"
  /\ views' = [views EXCEPT ![draft] = Merged]
  /\ UNCHANGED <<stores, files, mixed, manifest, using, scan, todo, failed, draft, fresh,
                 excluded>>

\* The merge raises: the run reports it, and the manifest stays.
FailMerge ==
  /\ \/ Ingested /\ MixedModels
     \/ phase = "merge" /\ Unreadable
  /\ RunEnds
  /\ UNCHANGED <<stores, files, mixed, views, manifest>>

\* The rename of manifest.json: the only switch.
Publish ==
  /\ phase = "publish"
  /\ manifest' = [dir |-> draft, format |-> using.format,
                  revision |-> views[draft].revision, slices |-> views[draft].slices]
  /\ RunEnds
  /\ UNCHANGED <<stores, files, mixed, views>>

\* The process dies between two of these steps.
Die ==
  /\ phase # "idle"
  /\ RunEnds
  /\ UNCHANGED <<stores, files, mixed, views, manifest>>

Ingest ==
  \/ Start \/ OpenView \/ WriteView \/ FailMerge \/ Publish \/ Die
  \/ \E s \in Sources :
       RemoveSource(s) \/ Skip(s) \/ Build(s) \/ Reject(s) \/ Fail(s) \/ Tear(s)

Owner == (\E s \in Sources : Edit(s)) \/ (\E new \in Setups : Install(new))

Next == Ingest \/ Owner

Spec == Init /\ [][Next]_vars

-----------------------------------------------------------------------------
(* Properties.                                                             *)

\* The rows the manifest's slices give to the i-th source of view w.
Before(w, i) == Total(w.slices, i - 1)
Slice(w, column, i) == SubSeq(column, Before(w, i) + 1, Before(w, i) + w.slices[i])

\* manifest.json exists only when the view it names is there and complete, and
\* its slices cover that view: no crash, and no run that collects superseded
\* views, takes it away (manifest.py, collect_views).
ManifestNamesWholeView ==
  manifest # NoFile =>
    LET w == views[manifest.dir] IN
      /\ w.complete
      /\ manifest.slices = w.slices
      /\ Len(w.rows) = Before(w, Len(w.slices) + 1)

\* No view is published with vectors of two models, whichever sources failed,
\* were skipped or were in a store nobody could read when the model changed
\* (CacheKey, _embed, commit_view).  Vectors a torn commit put beside the meta of
\* another build are excepted: commit_view asks the meta, which still names the
\* old model, so a model that is changed and changed back mixes them.
OneModelPerView ==
  phase = "publish" =>
    LET w == views[draft] IN
      \A i \in DOMAIN w.vectors :
        <<w.vectors[i].text[1], "vectors">> \notin mixed => w.vectors[i].model = w.model

\* A run that reports no failure publishes what the stores hold: each source it
\* scanned has the passages and vectors the installed code makes of its current
\* document, in its own slice, and a source that is gone or rejected has none
\* (cli.ingest, Shard.reusable).  Excepted is what the cache key cannot tell from
\* a whole build: the files that are mixed, until the run that rebuilds them, and
\* the vectors that follow passages they do not match.
FaithfulWhenFresh ==
  phase = "publish" /\ ~failed /\ fresh =>
    LET w == views[draft] IN
      /\ \A s \in Sources : scan[s] = NoDoc \/ s \in excluded => ~Contains(w.sources, s)
      /\ \A s \in Sources \ excluded : scan[s] \in Docs =>
           \E i \in DOMAIN w.sources :
             LET ids == Passages(s, scan[s], using.version) IN
               /\ w.sources[i] = s
               /\ <<s, "passages">> \in mixed \/ Slice(w, w.rows, i) = ids
               /\ \/ <<s, "vectors">> \in mixed
                  \/ \E j \in 1..i : <<w.sources[j], "passages">> \in mixed
                  \/ Slice(w, w.vectors, i) =
                       [j \in DOMAIN ids |-> [text |-> ids[j], model |-> using.model]]

\* The authored sidecar in a view was resolved against the vendor passages of
\* that same view: the authored store is loaded last and never skipped
\* (cli.ingest's always_load).
SidecarResolvedAgainstView ==
  phase = "publish" /\ ~failed =>
    LET w == views[draft]
        vendor == {p \in ToSet(w.rows) : p[1] \notin Authored}
    IN  \A s \in Authored : scan[s] \in Docs /\ s \notin excluded =>
          w.sidecars[s].resolved = vendor

=============================================================================
