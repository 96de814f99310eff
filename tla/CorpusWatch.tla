---------------------------- MODULE CorpusWatch ----------------------------
(***************************************************************************)
(* The engine beside the ingester (answer/view.py): ViewWatcher loads the  *)
(* view the manifest names, when it starts and before every turn.  The     *)
(* manifest is stat'd, then read, then the view's files are read; a run of *)
(* `dawmans ingest` may take any of its steps in between.                  *)
(*                                                                         *)
(* A publication is known by its view directory, which no other has: it    *)
(* stands for the mtime and size that stat returns.                        *)
(***************************************************************************)
EXTENDS IngestRun

CONSTANTS NoView, NoStat

ASSUME WatchAssumption == NoView \notin WholeViews /\ NoStat \notin Nat

VARIABLES
  engine,    \* "down", "idle" or the step of a check: "read", "load"
  booting,   \* the check is ViewWatcher.__init__
  format,    \* the index_version the running code reads
  stat,      \* this check's os.stat
  read,      \* the manifest this check read
  seen,      \* ViewWatcher._stat
  served,    \* ViewWatcher.view
  fault      \* ViewWatcher.manifest_fault

engineVars == <<engine, booting, format, stat, read, seen, served, fault>>
watchVars == <<vars, engineVars>>

Down ==
  /\ engine = "down" /\ booting = FALSE /\ format = FirstSetup.format
  /\ stat = NoStat /\ read = NoFile /\ seen = NoStat /\ served = NoView /\ fault = FALSE

WatchInit == Init /\ Down

-----------------------------------------------------------------------------
\* The process ends, and its memory with it.
EngineEnds ==
  /\ engine' = "down" /\ booting' = FALSE /\ format' = FirstSetup.format
  /\ stat' = NoStat /\ read' = NoFile /\ seen' = NoStat
  /\ served' = NoView /\ fault' = FALSE

Stop == engine # "down" /\ EngineEnds /\ UNCHANGED vars

Stat == IF manifest = NoFile THEN NoStat ELSE manifest.dir

\* ViewWatcher.__init__: without a manifest the engine serves no view.
Boot ==
  /\ engine = "down"
  /\ engine' = IF manifest = NoFile THEN "idle" ELSE "read"
  /\ booting' = (manifest # NoFile)
  /\ format' = setup.format
  /\ stat' = Stat
  /\ UNCHANGED <<vars, read, seen, served, fault>>

\* check() of a manifest that is not there, or was not replaced.
CheckNothing ==
  /\ engine = "idle" /\ Stat \in {NoStat, seen}
  /\ IF Stat = NoStat
       THEN seen' = NoStat /\ served' = NoView /\ fault' = FALSE
       ELSE UNCHANGED <<seen, served, fault>>
  /\ UNCHANGED <<vars, engine, booting, format, stat, read>>

CheckStat ==
  /\ engine = "idle" /\ Stat \notin {NoStat, seen}
  /\ engine' = "read"
  /\ stat' = Stat
  /\ UNCHANGED <<vars, booting, format, read, seen, served, fault>>

\* Slip: the manifest is stat'd again when the check is over.
StatNow == Stat

\* What the watcher remembers having seen: the stat taken before the read.
StatRemembered == stat

CheckOver ==
  /\ engine' = "idle" /\ booting' = FALSE
  /\ stat' = NoStat /\ read' = NoFile
  /\ seen' = StatRemembered
  /\ UNCHANGED <<vars, format>>

\* Slip: a fault empties the corpus.
FaultEmpties ==
  IF booting THEN EngineEnds /\ UNCHANGED vars
             ELSE fault' = TRUE /\ served' = NoView /\ CheckOver

\* What cannot be interpreted: a starting engine refuses to, a running one
\* notes the fault and goes on with the view it has.
Fault ==
  IF booting THEN EngineEnds /\ UNCHANGED vars
             ELSE fault' = TRUE /\ UNCHANGED served /\ CheckOver

Readable == manifest # NoFile /\ manifest.format = format

SameRevision == ~booting /\ served # NoView /\ manifest.revision = served.revision

CheckRead ==
  /\ engine = "read"
  /\ \/ ~Readable /\ Fault
     \/ /\ Readable /\ SameRevision
        /\ fault' = FALSE /\ UNCHANGED served /\ CheckOver
     \/ /\ Readable /\ ~SameRevision
        /\ engine' = "load" /\ read' = manifest
        /\ UNCHANGED <<vars, booting, format, stat, seen, served, fault>>

\* CorpusView.from_manifest: the files are there, passages and vectors have the
\* rows the manifest names, and an authored source has its sidecar.
Loadable(w, m) ==
  /\ w.complete
  /\ Len(w.rows) = Before(m, Len(m.slices) + 1) /\ Len(w.vectors) = Len(w.rows)
  /\ Authored \cap ToSet(w.sources) \subseteq DOMAIN w.sidecars

CheckLoad ==
  /\ engine = "load"
  /\ LET w == views[read.dir] IN
       \/ ~Loadable(w, read) /\ Fault
       \/ Loadable(w, read) /\ served' = w /\ fault' = FALSE /\ CheckOver

\* The owner deletes index/, the fix the manifest's own error names.
DeleteIndex ==
  /\ phase = "idle" /\ manifest # NoFile
  /\ files' = [s \in Sources |-> NoShard]
  /\ mixed' = {}
  /\ views' = [i \in DOMAIN views |-> PartialView]
  /\ manifest' = NoFile
  /\ UNCHANGED <<stores, run, engineVars>>

Watch == Boot \/ CheckNothing \/ CheckStat \/ CheckRead \/ CheckLoad \/ Stop

WatchNext == Watch \/ DeleteIndex \/ (Next /\ UNCHANGED engineVars)

WatchSpec == WatchInit /\ [][WatchNext]_watchVars

-----------------------------------------------------------------------------
\* Once a check is over, an engine that believes it has seen the manifest
\* serves the revision that manifest names, from a view whose rows, vectors and
\* slices line up: no publication is missed, however many fall inside one check,
\* and none that a torn shard or a collection spoiled is served (ViewWatcher.check
\* stats before it reads; CorpusView.from_manifest).
NoMissedPublication ==
  engine = "idle" /\ manifest # NoFile /\ seen = manifest.dir /\ ~fault =>
    /\ served # NoView /\ served.revision = manifest.revision
    /\ Len(served.rows) = Before(served, Len(served.slices) + 1)
    /\ Len(served.vectors) = Len(served.rows)

\* A running engine gives up its view only for another, or because the index
\* is gone: never for a manifest or a view it cannot read (view.py:157).
LiveViewIsKept ==
  [][served # NoView /\ manifest # NoFile => engine' = "down" \/ served' # NoView]_watchVars
=============================================================================
