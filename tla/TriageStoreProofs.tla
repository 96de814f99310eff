--------------------------- MODULE TriageStoreProofs ---------------------------
(***************************************************************************)
(* Theorems about TriageStore, over any number of runs, edits and crashes, *)
(* for every store, rig and corpus:                                        *)
(*                                                                         *)
(*   DriftIsNeverATypo             a pointer is called drifted only if a   *)
(*                                 run put it in the ledger                *)
(*   VerifiedPointersNeverReject   a pointer a run put there never         *)
(*                                 withdraws an entry, unless the ledger   *)
(*                                 file itself was torn or lost            *)
(*   NoWordIsLost                  what the author wrote is in the entry   *)
(*   MarksAreTrue                  passages, sidecar and report agree on   *)
(*                                 which causes no passage backs           *)
(*   ValidateIsTrue                an ingest excludes what validate said   *)
(*                                 of the store                            *)
(***************************************************************************)
EXTENDS TriageStore, ListsProofs

\* Whether a pointer resolves is a matter of its key: two pointers the ledger
\* takes for one resolve or fail together, whatever titles they carry.
LEMMA SameKeySameFate ==
  ASSUME NEW p, NEW q, NEW rows, PointerKey(p) = PointerKey(q)
  PROVE  Resolve(p, rows) = Resolve(q, rows)
<1>1. p.source = q.source /\ p.number = q.number
  BY DEF PointerKey
<1>2. CASE p.number # None
  BY <1>1, <1>2 DEF Resolve
<1>3. CASE p.number = None
  <2>1. NormaliseTitle(p.title) = NormaliseTitle(q.title)
    BY <1>1, <1>3 DEF PointerKey
  <2>2. ResolveTitle(p, rows) = ResolveTitle(q, rows)
    BY <1>1, <2>1 DEF ResolveTitle
  <2> QED BY <1>1, <1>3, <2>2 DEF Resolve
<1> QED BY <1>2, <1>3

LEMMA CheckedFields ==
  ASSUME NEW q, NEW rows, NEW book
  PROVE  /\ CheckPointer(q, rows, book).pointer = q
         /\ CheckPointer(q, rows, book).reason = Resolve(q, rows).reason
         /\ Drifted(CheckPointer(q, rows, book)) => PointerKey(q) \in DOMAIN book
         /\ Rejected(CheckPointer(q, rows, book)) =>
              /\ Resolve(q, rows).reason # None
              /\ \/ Resolve(q, rows).reason = "authored-target"
                 \/ PointerKey(q) \notin DOMAIN book
BY DEF CheckPointer, Drifted, Rejected, Ok

\* Every pointer outcome of an entry is its pointer checked against the ledger.
LEMMA EntrySound ==
  ASSUME NEW e, NEW view, NEW gear, NEW book,
         NEW o, o = EvaluateEntry(e, view, gear, book)
  PROVE  /\ \A p \in PointersOf(o) : \E q : p = CheckPointer(q, view.rows, book)
         /\ o.rejection = "pointer-unresolved" =>
              \E c \in ToSet(o.entry.causes) : \E q \in ToSet(c.fixes) :
                Rejected(CheckPointer(q, view.rows, book))
<1> DEFINE scope == ScopeRejection(e, gear, view.indexed)
           checked == Checked(e, view, book)
<1>1. CASE scope # None
  <2>1. o = Excluded(e, scope)
    BY <1>1 DEF EvaluateEntry
  <2>2. PointersOf(o) = {}
    BY <2>1 DEF Excluded, PointersOf
  <2>3. o.rejection # "pointer-unresolved"
    BY <2>1, <1>1 DEF Excluded, ScopeRejection
  <2> QED BY <2>2, <2>3
<1>2. CASE scope = None /\ \E i \in DOMAIN checked : Withdrawn(checked[i])
  <2>1. o = Excluded(e, PointerRejection(checked))
    BY <1>2 DEF EvaluateEntry
  <2>2. PointersOf(o) = {} /\ o.entry = e
    BY <2>1 DEF Excluded, PointersOf
  <2>3. PICK i \in DOMAIN e.causes : Withdrawn(checked[i])
    BY <1>2 DEF Checked
  <2>4. checked[i] = [j \in DOMAIN e.causes[i].fixes |->
                        CheckPointer(e.causes[i].fixes[j], view.rows, book)]
    BY DEF Checked
  <2>5. PICK j \in DOMAIN e.causes[i].fixes :
          Rejected(CheckPointer(e.causes[i].fixes[j], view.rows, book))
    BY <2>3, <2>4 DEF Withdrawn
  <2>6. e.causes[i] \in ToSet(e.causes) /\ e.causes[i].fixes[j] \in ToSet(e.causes[i].fixes)
    BY DEF ToSet
  <2> QED BY <2>2, <2>5, <2>6
<1>3. CASE scope = None /\ ~ \E i \in DOMAIN checked : Withdrawn(checked[i])
  <2>1. o = Ingested(e, checked, view, gear)
    BY <1>3 DEF EvaluateEntry
  <2>2. o.rejection = None
    BY <2>1 DEF Ingested
  <2>3. o.causes = [i \in DOMAIN e.causes |-> CauseOutcome(e, i, checked[i], view, gear)]
    BY <2>1 DEF Ingested
  <2>4. ASSUME NEW p \in PointersOf(o)
        PROVE  \E q : p = CheckPointer(q, view.rows, book)
    <3>1. PICK i \in DOMAIN e.causes : p \in ToSet(o.causes[i].pointers)
      BY <2>3 DEF PointersOf
    <3>2. o.causes[i].pointers = checked[i]
      BY <2>3 DEF CauseOutcome
    <3>3. checked[i] = [j \in DOMAIN e.causes[i].fixes |->
                          CheckPointer(e.causes[i].fixes[j], view.rows, book)]
      BY DEF Checked
    <3> QED BY <3>1, <3>2, <3>3 DEF ToSet
  <2>5. o.rejection # "pointer-unresolved"
    BY <2>2, NoneAssumption DEF Reasons
  <2> QED BY <2>4, <2>5
<1> QED BY <1>1, <1>2, <1>3

\* What was not rejected stands at places of its own.
StandsAt(at, m, n, results) ==
  /\ m \in Nat /\ at \in [1..m -> 1..n] /\ DOMAIN Accepted(results) = 1..m
  /\ \A k \in 1..m : Accepted(results)[k] = results[at[k]] /\ results[at[k]].rejection = None
  /\ \A k, l \in 1..m : at[k] = at[l] => k = l

LEMMA AcceptedSteps ==
  ASSUME NEW T, NEW results \in Seq(T), NEW standing, standing = {r \in T : r.rejection = None}
  PROVE  \E h : Sieved(h, results, standing) /\ Accepted(results) = h[Len(results)]
<1> DEFINE n == Len(results)
           V == Seq(T)
           Made(h) == h = [k \in 0..n |-> IF k = 0 THEN <<>>
                                          ELSE LET r == results[k] IN
                                               IF r.rejection = None THEN Append(h[k - 1], r) ELSE h[k - 1]]
           G == [p \in (1..n) \X V |-> IF results[p[1]].rejection = None THEN Append(p[2], results[p[1]])
                                       ELSE p[2]]
<1>1. n \in Nat /\ \A k \in 1..n : results[k] \in T
  OBVIOUS
<1>2. G \in [(1..n) \X V -> V] /\ <<>> \in V
  BY <1>1
<1>3. \A k \in 1..n, v \in V :
        G[<<k, v>>] = IF results[k].rejection = None THEN Append(v, results[k]) ELSE v
  OBVIOUS
<1>4. PICK g : Stepped(g, n, V, <<>>, G)
  <2> HIDE DEF G, V, n
  <2> QED
    BY <1>1, <1>2, RecursionExists
<1>5. \A k \in 0..n : k # 0 => k \in 1..n /\ k - 1 \in 0..n
  BY <1>1
<1> HIDE DEF G, V, n
<1>6. \A k \in 0..n : g[k] = IF k = 0 THEN <<>>
                              ELSE IF results[k].rejection = None THEN Append(g[k - 1], results[k])
                                   ELSE g[k - 1]
  <2>1. g[0] = <<>>
    BY <1>4 DEF Stepped
  <2>2. ASSUME NEW k \in 0..n, k # 0
        PROVE  g[k] = IF results[k].rejection = None THEN Append(g[k - 1], results[k]) ELSE g[k - 1]
    <3>1. k \in 1..n /\ k - 1 \in 0..n
      BY <1>5, <2>2
    <3>2. PICK v : v = g[k - 1]
      OBVIOUS
    <3>3. v \in V
      BY <1>4, <3>1, <3>2 DEF Stepped
    <3>4. g[k] = G[<<k, v>>]
      BY <1>4, <3>1, <3>2 DEF Stepped
    <3>5. G[<<k, v>>] = IF results[k].rejection = None THEN Append(v, results[k]) ELSE v
      BY <1>3, <3>1, <3>3
    <3> QED
      BY <3>2, <3>4, <3>5
  <2> QED
    BY <2>1, <2>2
<1>7. Made(g)
  BY <1>4, <1>6 DEF Stepped
<1>8. PICK h : Made(h) /\ Accepted(results) = h[n]
  <2>1. Accepted(results) = (CHOOSE h : Made(h))[n]
    BY DEF Accepted, n
  <2> HIDE DEF Made
  <2> QED
    BY <1>7, <2>1
<1>9. h[0] = <<>> /\ \A k \in 1..n : h[k] = IF results[k].rejection = None THEN Append(h[k - 1], results[k])
                                            ELSE h[k - 1]
  <2>1. 0 \in 0..n /\ \A k \in 1..n : k \in 0..n /\ k # 0
    BY <1>1
  <2> QED
    BY <1>8, <2>1
<1>10. \A k \in 1..n : results[k] \in standing <=> results[k].rejection = None
  BY <1>1
<1>11. Sieved(h, results, standing)
  BY <1>9, <1>10 DEF Sieved, n
<1> QED
  BY <1>8, <1>11 DEF n

LEMMA AcceptedIs ==
  ASSUME NEW n \in Nat, NEW results, IsSeq(results), DOMAIN results = 1..n
  PROVE  \E m, at : StandsAt(at, m, n, results)
<1>1. PICK T, standing : T = ToSet(results) /\ standing = {r \in T : r.rejection = None}
  OBVIOUS
<1>2. results \in Seq(T) /\ Len(results) = n
  BY <1>1 DEF IsSeq
<1>3. PICK h : Sieved(h, results, standing) /\ Accepted(results) = h[Len(results)]
  BY <1>1, <1>2, AcceptedSteps
<1>4. PICK m, at : PlacedBy(at, m, results, standing, n, h[n])
  BY <1>2, <1>3, SievedPlaces
<1>5. Accepted(results) = h[n]
  BY <1>2, <1>3
<1>6. StandsAt(at, m, n, results)
  BY <1>1, <1>4, <1>5 DEF PlacedBy, StandsAt
<1> QED
  BY <1>6

\* A function over 1..n is a list.
LEMMA ListOver ==
  ASSUME NEW n \in Nat, NEW list, list = [i \in 1..n |-> list[i]]
  PROVE  IsSeq(list)
<1>1. \A i \in 1..n : list[i] \in ToSet(list)
  BY DEF ToSet
<1>2. [i \in 1..n |-> list[i]] \in Seq(ToSet(list))
  BY <1>1
<1> QED
  BY <1>2 DEF IsSeq

\* The stages of an evaluation: the files that are there, what they parse to, and
\* of that what the verdict on the store is about.
Stages(store, view, gear, book, paths, n, parsed, m, at) ==
  /\ paths = Present(store) /\ n \in Nat /\ DOMAIN paths = 1..n /\ IsInjective(paths)
  /\ \A i \in 1..n : paths[i] \in ToSet(Files) /\ store[paths[i]] # Absent
  /\ parsed = [i \in 1..n |-> ParseEntry(paths[i], store[paths[i]])]
  /\ StandsAt(at, m, n, parsed)
  /\ Evaluate(store, view, gear, book).outcomes = Judged(Accepted(parsed), view, gear, book)
  /\ Evaluate(store, view, gear, book).rejections
       = Rejections(paths, parsed, Judged(Accepted(parsed), view, gear, book))

LEMMA EvaluateIs ==
  ASSUME NEW store, NEW view, NEW gear, NEW book
  PROVE  \E paths, n, parsed, m, at : Stages(store, view, gear, book, paths, n, parsed, m, at)
<1>1. PICK there, paths : there = {f \in ToSet(Files) : store[f] # Absent} /\ paths = Present(store)
  OBVIOUS
<1>2. Files \in Seq(ToSet(Files)) /\ IsInjective(Files)
  BY FilesAssumption DEF IsSeq
<1>3. /\ paths \in Seq(ToSet(Files)) /\ ToSet(paths) = ToSet(Files) \cap there
      /\ IsInjective(paths)
  BY <1>1, <1>2, AmongElements DEF Present
<1>4. PICK n \in Nat : n = Len(paths) /\ DOMAIN paths = 1..n
  BY <1>3
<1>5. \A i \in 1..n : paths[i] \in ToSet(Files) /\ store[paths[i]] # Absent
  <2>1. \A i \in 1..n : paths[i] \in ToSet(paths)
    BY <1>4 DEF ToSet
  <2> QED
    BY <1>1, <1>3, <2>1
<1>6. PICK parsed : parsed = [i \in 1..n |-> ParseEntry(paths[i], store[paths[i]])]
  OBVIOUS
<1>7. DOMAIN parsed = 1..n /\ parsed = [i \in 1..n |-> parsed[i]]
  BY <1>6
<1>8. IsSeq(parsed)
  BY <1>7, ListOver
<1>9. PICK m, at : StandsAt(at, m, n, parsed)
  BY <1>7, <1>8, AcceptedIs
<1>10. PICK good, judged : good = Accepted(parsed) /\ judged = Judged(good, view, gear, book)
  OBVIOUS
<1>11. m \in Nat /\ DOMAIN good = 1..m
  BY <1>9, <1>10 DEF StandsAt
<1>12. judged = [i \in 1..m |-> judged[i]]
  BY <1>10, <1>11 DEF Judged
<1>13. IsSeq(judged)
  BY <1>11, <1>12, ListOver
<1>14. Computed(parsed) = parsed /\ Computed(judged) = judged
  BY <1>8, <1>13, ComputedIs DEF IsSeq
<1>15. parsed = [i \in DOMAIN paths |-> ParseEntry(paths[i], store[paths[i]])]
  BY <1>4, <1>6
<1>16. Evaluate(store, view, gear, book)
         = StoreOutcome(Accepted(Computed(parsed)),
                        Computed(Judged(Accepted(Computed(parsed)), view, gear, book)),
                        Rejections(paths, Computed(parsed),
                                   Computed(Judged(Accepted(Computed(parsed)), view, gear, book))))
  BY <1>1, <1>15 DEF Evaluate
<1>17. /\ Evaluate(store, view, gear, book).outcomes = judged
       /\ Evaluate(store, view, gear, book).rejections = Rejections(paths, parsed, judged)
  <2>1. Evaluate(store, view, gear, book) = StoreOutcome(good, judged, Rejections(paths, parsed, judged))
    BY <1>10, <1>14, <1>16
  <2> QED
    BY <2>1 DEF StoreOutcome
<1>18. Stages(store, view, gear, book, paths, n, parsed, m, at)
  BY <1>1, <1>3, <1>4, <1>5, <1>6, <1>9, <1>10, <1>17 DEF Stages
<1> QED
  BY <1>18

LEMMA StoreSound ==
  ASSUME NEW store, NEW view, NEW gear, NEW book,
         NEW o \in ToSet(Evaluate(store, view, gear, book).outcomes)
  PROVE  /\ \A p \in PointersOf(o) : \E q : p = CheckPointer(q, view.rows, book)
         /\ o.rejection = "pointer-unresolved" =>
              \E c \in ToSet(o.entry.causes) : \E q \in ToSet(c.fixes) :
                Rejected(CheckPointer(q, view.rows, book))
<1>0. PICK paths, n, parsed, m, at : Stages(store, view, gear, book, paths, n, parsed, m, at)
  BY EvaluateIs
<1> DEFINE good    == Accepted(parsed)
           twin(i) == \E j \in DOMAIN good \ {i} : Clashes(good[i].entry, good[j].entry)
<1>1. Evaluate(store, view, gear, book).outcomes =
        [i \in DOMAIN good |-> IF twin(i) THEN Excluded(good[i].entry, "duplicate-symptom")
                               ELSE EvaluateEntry(good[i].entry, view, gear, book)]
  BY <1>0 DEF Stages, Judged
<1> HIDE DEF good
<1>2. PICK i \in DOMAIN good : o = IF twin(i) THEN Excluded(good[i].entry, "duplicate-symptom")
                                   ELSE EvaluateEntry(good[i].entry, view, gear, book)
  BY <1>1 DEF ToSet
<1>3. CASE twin(i)
  BY <1>2, <1>3 DEF Excluded, PointersOf
<1>4. CASE ~twin(i)
  <2>1. o = EvaluateEntry(good[i].entry, view, gear, book)
    BY <1>2, <1>4
  <2> QED BY <2>1, EntrySound
<1> QED BY <1>3, <1>4

\* What a load holds as resolved did resolve in the view the load read.
LEMMA ResolutionsSound ==
  ASSUME NEW store, NEW view, NEW gear, NEW book, NEW key,
         key \in ResolvedKeys(Evaluate(store, view, gear, book))
  PROVE  \E p \in Resolutions(Evaluate(store, view, gear, book)) :
           PointerKey(p.pointer) = key /\ Resolve(p.pointer, view.rows).reason = None
<1> DEFINE found == Evaluate(store, view, gear, book)
<1>1. PICK p \in Resolutions(found) : PointerKey(p.pointer) = key
  BY DEF ResolvedKeys
<1>2. PICK o \in ToSet(found.outcomes) : p \in PointersOf(o) /\ Ok(p)
  BY <1>1 DEF Resolutions
<1>3. PICK q : p = CheckPointer(q, view.rows, book)
  BY <1>2, StoreSound
<1>4. p.pointer = q /\ p.reason = Resolve(q, view.rows).reason
  BY <1>3, CheckedFields
<1> QED BY <1>1, <1>2, <1>4 DEF Ok

----------------------------------------------------------------------------
\* The inductive invariant.

\* Between runs nothing is loaded; the ledger's rows are verified ones, and all
\* of them unless the file is being rewritten or was torn; and what is about to
\* be written adds to the verified keys only what resolved in this very view.
LedgerInv ==
  /\ phase = "idle" => outcome = None
  /\ DOMAIN ledger.rows \subseteq verified
  /\ phase # "write" /\ ~torn => verified \subseteq DOMAIN ledger.rows
  /\ phase \in {"record", "write"} =>
       /\ ~torn => verified \subseteq DOMAIN held
       /\ \A key \in DOMAIN held :
            \/ key \in verified
            \/ \E p \in Resolutions(outcome) :
                 PointerKey(p.pointer) = key /\ Resolve(p.pointer, manuals.rows).reason = None

StoreInv == LedgerInv /\ DriftWasVerified /\ VerifiedNeverRejects

LEMMA NothingLoaded ==
  ASSUME outcome = None PROVE DriftWasVerified /\ VerifiedNeverRejects
BY DEF DriftWasVerified, VerifiedNeverRejects

LEMMA InitHolds == Init => StoreInv
<1> SUFFICES ASSUME Init PROVE StoreInv
  OBVIOUS
<1>1. LedgerInv
  BY DEF Init, LedgerInv, Missing, NoRows
<1> QED BY <1>1, NothingLoaded DEF Init, StoreInv

\* A load judges by the rows it reads, which are the verified keys.
LEMMA LoadKeeps ==
  ASSUME StoreInv, Load
  PROVE  StoreInv'
<1> DEFINE view  == ShardView(manuals)
           found == Evaluate(files, view, rig, ledger.rows)
<1>1. /\ outcome' = found /\ phase = "load" /\ phase' \in {"merge", "build", "record"}
      /\ UNCHANGED <<manuals, ledger, verified, torn>>
      /\ phase' = "record" => held' = Recorded(ledger.rows, found)
  BY DEF Load
<1>2. view.rows = manuals.rows
  BY DEF ShardView
<1>3. DOMAIN ledger.rows \subseteq verified /\ (~torn => verified \subseteq DOMAIN ledger.rows)
  BY <1>1 DEF StoreInv, LedgerInv
<1>4. LedgerInv'
  <2>1. ASSUME phase' = "record"
        PROVE  DOMAIN held' = DOMAIN ledger.rows \cup ResolvedKeys(found)
    BY <1>1, <2>1 DEF Recorded
  <2>2. ASSUME phase' = "record", NEW key \in DOMAIN held'
        PROVE  \/ key \in verified
               \/ \E p \in Resolutions(found) :
                    PointerKey(p.pointer) = key /\ Resolve(p.pointer, manuals.rows).reason = None
    BY <2>1, <2>2, <1>2, <1>3, ResolutionsSound
  <2> HIDE DEF found
  <2> QED BY <1>1, <1>3, <2>1, <2>2 DEF LedgerInv
<1>5. DriftWasVerified'
  <2>1. ASSUME NEW o \in ToSet(found.outcomes), NEW p \in PointersOf(o), Drifted(p)
        PROVE  PointerKey(p.pointer) \in verified
    <3>1. PICK q : p = CheckPointer(q, view.rows, ledger.rows)
      BY StoreSound
    <3> QED BY <2>1, <3>1, <1>3, CheckedFields
  <2> HIDE DEF found
  <2> QED BY <1>1, <2>1 DEF DriftWasVerified
<1>6. VerifiedNeverRejects'
  <2>1. ASSUME ~torn, NEW o \in ToSet(found.outcomes), o.rejection = "pointer-unresolved"
        PROVE  \E c \in ToSet(o.entry.causes) : \E p \in ToSet(c.fixes) :
                 LET reason == Resolve(p, manuals.rows).reason
                 IN  reason # None /\ (reason = "authored-target" \/ PointerKey(p) \notin verified)
    <3>1. PICK c \in ToSet(o.entry.causes) : \E q \in ToSet(c.fixes) :
            Rejected(CheckPointer(q, view.rows, ledger.rows))
      BY <2>1, StoreSound
    <3>2. PICK q \in ToSet(c.fixes) : Rejected(CheckPointer(q, view.rows, ledger.rows))
      BY <3>1
    <3>3. /\ Resolve(q, manuals.rows).reason # None
          /\ \/ Resolve(q, manuals.rows).reason = "authored-target"
             \/ PointerKey(q) \notin DOMAIN ledger.rows
      BY <3>2, <1>2, CheckedFields
    <3> QED BY <2>1, <3>3, <1>3
  <2> HIDE DEF found
  <2> QED BY <1>1, <2>1 DEF VerifiedNeverRejects
<1> QED BY <1>4, <1>5, <1>6 DEF StoreInv

\* What a write adds to the verified keys resolved in the view the load read, so
\* no entry that load rejected was rejected for one of them.
LEMMA WriteKeeps ==
  ASSUME StoreInv, WriteLedger
  PROVE  StoreInv'
<1>1. /\ phase = "write" /\ phase' = "build" /\ ledger'.rows = held
      /\ verified' = verified \cup DOMAIN held
      /\ UNCHANGED <<manuals, outcome, torn>>
  BY DEF WriteLedger
<1>2. /\ ~torn => verified \subseteq DOMAIN held
      /\ \A key \in DOMAIN held :
           \/ key \in verified
           \/ \E p \in Resolutions(outcome) :
                PointerKey(p.pointer) = key /\ Resolve(p.pointer, manuals.rows).reason = None
  BY <1>1 DEF StoreInv, LedgerInv
<1>3. LedgerInv'
  BY <1>1, <1>2 DEF LedgerInv
<1>4. DriftWasVerified'
  BY <1>1 DEF StoreInv, DriftWasVerified
<1>5. VerifiedNeverRejects'
  <2>1. ASSUME NEW p, Resolve(p, manuals.rows).reason # None, PointerKey(p) \notin verified
        PROVE  PointerKey(p) \notin verified'
    <3>1. SUFFICES ASSUME PointerKey(p) \in DOMAIN held PROVE FALSE
      BY <1>1, <2>1
    <3>2. PICK q \in Resolutions(outcome) :
            /\ PointerKey(q.pointer) = PointerKey(p)
            /\ Resolve(q.pointer, manuals.rows).reason = None
      BY <3>1, <2>1, <1>2
    <3>3. Resolve(p, manuals.rows) = Resolve(q.pointer, manuals.rows)
      BY <3>2, SameKeySameFate
    <3> QED BY <3>2, <3>3, <2>1
  <2> QED BY <1>1, <2>1 DEF StoreInv, VerifiedNeverRejects
<1> QED BY <1>3, <1>4, <1>5 DEF StoreInv

LEMMA StepKeeps == StoreInv /\ [Next]_vars => StoreInv'
<1> SUFFICES ASSUME StoreInv, [Next]_vars PROVE StoreInv'
  OBVIOUS
<1>1. CASE Load
  BY <1>1, LoadKeeps
<1>2. CASE WriteLedger
  BY <1>2, WriteKeeps
<1>3. CASE LoseLedger
  <2>1. outcome' = None /\ LedgerInv'
    BY <1>3 DEF LoseLedger, StoreInv, LedgerInv, Missing, NoRows
  <2> QED BY <2>1 DEF StoreInv, DriftWasVerified, VerifiedNeverRejects
<1>4. CASE \E e \in Editions : StartRun(e)
  <2>1. outcome' = None /\ LedgerInv'
    BY <1>4 DEF StartRun, StoreInv, LedgerInv
  <2> QED BY <2>1 DEF StoreInv, DriftWasVerified, VerifiedNeverRejects
<1>5. CASE Publish
  <2>1. outcome' = None /\ LedgerInv'
    BY <1>5 DEF Publish, StoreInv, LedgerInv
  <2> QED BY <2>1 DEF StoreInv, DriftWasVerified, VerifiedNeverRejects
<1>6. CASE Crash
  <2>1. /\ outcome' = None /\ phase' = "idle"
        /\ DOMAIN ledger'.rows \subseteq verified'
        /\ ~torn' => verified' \subseteq DOMAIN ledger'.rows
    <3>1. phase' = "idle" /\ outcome' = None
      BY <1>6 DEF Crash
    <3>2. CASE phase = "write"
      BY <1>6, <3>1, <3>2 DEF Crash
    <3>3. CASE phase # "write"
      BY <1>6, <3>1, <3>3 DEF Crash, StoreInv, LedgerInv
    <3> QED
      BY <3>1, <3>2, <3>3
  <2>2. LedgerInv'
    BY <2>1 DEF LedgerInv
  <2> QED BY <2>1, <2>2 DEF StoreInv, DriftWasVerified, VerifiedNeverRejects
<1>7. CASE TruncateLedger
  <2>1. /\ phase = "record" /\ phase' = "write" /\ ledger'.rows = NoRows
        /\ UNCHANGED <<manuals, outcome, held, verified, torn>>
    BY <1>7 DEF TruncateLedger
  <2>2. LedgerInv'
    BY <2>1 DEF StoreInv, LedgerInv, NoRows
  <2>3. DriftWasVerified' /\ VerifiedNeverRejects'
    BY <2>1 DEF StoreInv, DriftWasVerified, VerifiedNeverRejects
  <2> QED BY <2>2, <2>3 DEF StoreInv
<1>8. CASE \/ \E f \in ToSet(Files) : Edit(f)
           \/ FailLoad \/ Build \/ Validate \/ UNCHANGED vars
  <2>1. /\ UNCHANGED <<manuals, ledger, outcome, held, verified, torn>>
        /\ phase' # phase => phase' = "merge"
    BY <1>8 DEF Edit, FailLoad, Build, Validate, vars
  <2>2. LedgerInv'
    BY <1>8, <2>1 DEF StoreInv, LedgerInv, Edit, FailLoad, Build, Validate, vars
  <2>3. DriftWasVerified' /\ VerifiedNeverRejects'
    BY <2>1 DEF StoreInv, DriftWasVerified, VerifiedNeverRejects
  <2> QED BY <2>2, <2>3 DEF StoreInv
<1> QED BY <1>1, <1>2, <1>3, <1>4, <1>5, <1>6, <1>7, <1>8 DEF Next

\* Requirement 2.2: over any history of edits, runs, crashes and validations, a
\* pointer is served as drifted only if an ingest once resolved it.
THEOREM DriftIsNeverATypo == Spec => []DriftWasVerified
<1>1. StoreInv => DriftWasVerified
  BY DEF StoreInv
<1> QED BY InitHolds, StepKeeps, <1>1, PTL DEF Spec

\* Requirement 8.4: an entry is withdrawn for an unresolved pointer only if one of
\* its pointers never resolved, or targets the store itself, or the ledger was torn.
THEOREM VerifiedPointersNeverReject == Spec => []VerifiedNeverRejects
<1>1. StoreInv => VerifiedNeverRejects
  BY DEF StoreInv
<1> QED BY InitHolds, StepKeeps, <1>1, PTL DEF Spec

-----------------------------------------------------------------------------
(* What the parser keeps of a file.  W are the texts of its lines, P what    *)
(* they name, with None.                                                    *)

Sectional(W, P) ==
  {s \in [statement : W, check : Seq(W) \cup {None}, fixes : Seq(P), undocumented : P,
          notes : Seq(W), fixLine : BOOLEAN, undocumentedLine : BOOLEAN] :
     /\ s.fixes # <<>> => s.fixLine
     /\ s.undocumented # None => s.undocumentedLine}

CheckWords(s) == IF s.check = None THEN {} ELSE ToSet(s.check)
SectionWords(s) == {s.statement} \cup CheckWords(s) \cup ToSet(s.notes)

\* A section as it is, field by field.
LEMMA SectionIs ==
  ASSUME NEW W, NEW P, NEW s \in Sectional(W, P)
  PROVE  /\ s.statement \in W /\ s.check \in Seq(W) \cup {None} /\ s.fixes \in Seq(P)
         /\ s.undocumented \in P /\ s.notes \in Seq(W)
         /\ s.fixLine \in BOOLEAN /\ s.undocumentedLine \in BOOLEAN
         /\ s.fixes # <<>> => s.fixLine
         /\ s.undocumented # None => s.undocumentedLine
BY DEF Sectional

LEMMA NewSectionIs ==
  ASSUME NEW W, NEW P, None \in P, NEW statement \in W
  PROVE  /\ NewSection(statement) \in Sectional(W, P)
         /\ statement \in SectionWords(NewSection(statement))
<1>1. <<>> \in Seq(P) /\ <<>> \in Seq(W)
  OBVIOUS
<1> QED
  BY <1>1 DEF NewSection, Sectional, SectionWords

LEMMA NotedIs ==
  ASSUME NEW W, NEW P, NEW s \in Sectional(W, P), NEW texts \in Seq(W)
  PROVE  /\ Noted(s, texts) \in Sectional(W, P)
         /\ SectionWords(Noted(s, texts)) = SectionWords(s) \cup ToSet(texts)
<1>1. PICK new : new = Noted(s, texts)
  OBVIOUS
<1>2. /\ new = [s EXCEPT !.notes = s.notes \o texts] /\ s.notes \o texts \in Seq(W)
  BY <1>1, SectionIs DEF Noted
<1>3. new \in Sectional(W, P) /\ new.statement = s.statement /\ new.check = s.check
      /\ new.notes = s.notes \o texts
  BY <1>2 DEF Sectional
<1>4. ToSet(new.notes) = ToSet(s.notes) \cup ToSet(texts)
  BY <1>3, SectionIs, ToSetConcat
<1> QED
  BY <1>1, <1>3, <1>4 DEF SectionWords, CheckWords

\* No keyed value but a pointer or a claim is lost, and none that was kept before.
LEMMA AbsorbedIs ==
  ASSUME NEW W, NEW P, None \notin Seq(W), NEW s \in Sectional(W, P), NEW texts \in Seq(W),
         NEW key, NEW to \in P
  PROVE  /\ Absorbed(s, key, texts, to) \in Sectional(W, P)
         /\ SectionWords(s) \subseteq SectionWords(Absorbed(s, key, texts, to))
         /\ key \notin {"fix", "undocumented"} =>
              ToSet(texts) \subseteq SectionWords(Absorbed(s, key, texts, to))
<1>1. PICK new : new = Absorbed(s, key, texts, to)
  OBVIOUS
<1>2. CASE key = "check" /\ s.check = None
  <2>1. new = [s EXCEPT !.check = texts]
    BY <1>1, <1>2 DEF Absorbed
  <2>2. new \in Sectional(W, P) /\ new.statement = s.statement /\ new.check = texts
        /\ new.notes = s.notes
    BY <2>1 DEF Sectional
  <2>3. texts # None
    OBVIOUS
  <2> QED
    BY <1>1, <1>2, <2>2, <2>3 DEF SectionWords, CheckWords
<1>3. CASE key = "fix" /\ IsPointer(to)
  <2>1. new = [s EXCEPT !.fixLine = TRUE, !.fixes = Append(s.fixes, to)]
    BY <1>1, <1>3 DEF Absorbed
  <2>2. Append(s.fixes, to) \in Seq(P)
    BY SectionIs
  <2>3. new \in Sectional(W, P) /\ new.statement = s.statement /\ new.check = s.check
        /\ new.notes = s.notes
    BY <2>1, <2>2 DEF Sectional
  <2> QED
    BY <1>1, <1>3, <2>3 DEF SectionWords, CheckWords
<1>4. CASE key = "fix" /\ ~IsPointer(to)
  <2>1. PICK noted : noted = Noted(s, texts)
    OBVIOUS
  <2>2. noted \in Sectional(W, P) /\ SectionWords(noted) = SectionWords(s) \cup ToSet(texts)
    BY <2>1, NotedIs
  <2>3. new = [noted EXCEPT !.fixLine = TRUE]
    BY <1>1, <1>4, <2>1 DEF Absorbed
  <2>4. new \in Sectional(W, P) /\ new.statement = noted.statement /\ new.check = noted.check
        /\ new.notes = noted.notes
    BY <2>2, <2>3 DEF Sectional
  <2> QED
    BY <1>1, <1>4, <2>2, <2>4 DEF SectionWords, CheckWords
<1>5. CASE key = "undocumented" /\ s.undocumented = None
  <2>1. new = [s EXCEPT !.undocumentedLine = TRUE, !.undocumented = to]
    BY <1>1, <1>5 DEF Absorbed
  <2>2. new \in Sectional(W, P) /\ new.statement = s.statement /\ new.check = s.check
        /\ new.notes = s.notes
    BY <2>1 DEF Sectional
  <2> QED
    BY <1>1, <1>5, <2>2 DEF SectionWords, CheckWords
<1>6. CASE /\ ~(key = "check" /\ s.check = None) /\ key # "fix"
           /\ ~(key = "undocumented" /\ s.undocumented = None)
  <2>1. new = Noted(s, texts)
    BY <1>1, <1>6 DEF Absorbed
  <2> QED
    BY <1>1, <2>1, NotedIs
<1> QED
  BY <1>2, <1>3, <1>4, <1>5, <1>6

\* A list that is not empty is its front and its last.
LEMMA FrontAndLast ==
  ASSUME NEW T, NEW list \in Seq(T), list # <<>>
  PROVE  /\ Front(list) \in Seq(T) /\ Last(list) \in T
         /\ ToSet(list) = ToSet(Front(list)) \cup {Last(list)}
<1>1. PICK n : n = Len(list)
  OBVIOUS
<1>2. n \in Nat /\ n # 0
  BY <1>1
<1>3. PICK front, last : front = Front(list) /\ last = Last(list)
  OBVIOUS
<1>4. front = SubSeq(list, 1, n - 1) /\ last = list[n]
  BY <1>1, <1>3 DEF Front, Last
<1>5. front \in Seq(T) /\ Len(front) = n - 1 /\ \A i \in 1..(n - 1) : front[i] = list[i]
  <2>1. n - 1 \in 0..Len(list)
    BY <1>1, <1>2
  <2> QED
    BY <1>2, <1>4, <2>1
<1>6. last \in T
  <2>1. n \in 1..Len(list)
    BY <1>1, <1>2
  <2> QED
    BY <1>4, <2>1
<1>7. ToSet(list) = {list[i] : i \in 1..n} /\ ToSet(front) = {front[i] : i \in 1..(n - 1)}
  BY <1>1, <1>5, ToSetIs
<1>8. 1..n = (1..(n - 1)) \cup {n}
  BY <1>2
<1>9. ToSet(list) \subseteq ToSet(front) \cup {last}
  BY <1>4, <1>5, <1>7, <1>8
<1>10. ToSet(front) \cup {last} \subseteq ToSet(list)
  <2>1. n \in 1..n /\ \A i \in 1..(n - 1) : i \in 1..n
    BY <1>2
  <2> QED
    BY <1>4, <1>5, <1>7, <2>1
<1> QED
  BY <1>3, <1>5, <1>6, <1>9, <1>10

Bodied(W, P) ==
  {b \in [symptom : P, line : Nat, phrasings : Seq(W), preamble : Seq(W),
          sections : Seq(Sectional(W, P)), pending : WrappingKeys \cup {None}, wrapped : Seq(W)] :
     b.pending = None => b.wrapped = <<>>}

WordsIn(sections) == UNION {SectionWords(s) : s \in ToSet(sections)}
KeptWords(b) == ToSet(b.phrasings) \cup ToSet(b.preamble) \cup WordsIn(b.sections)
BodyWords(b) == KeptWords(b) \cup ToSet(b.wrapped)

LEMMA BodyIs ==
  ASSUME NEW W, NEW P, NEW b \in Bodied(W, P)
  PROVE  /\ b.symptom \in P /\ b.line \in Nat /\ b.phrasings \in Seq(W) /\ b.preamble \in Seq(W)
         /\ b.sections \in Seq(Sectional(W, P)) /\ b.pending \in WrappingKeys \cup {None}
         /\ b.wrapped \in Seq(W)
         /\ b.pending = None => b.wrapped = <<>>
BY DEF Bodied

Phrased(b, texts) == [b EXCEPT !.phrasings = @ \o texts]

LEMMA PhrasingsIs ==
  ASSUME NEW W, NEW P, NEW b \in Bodied(W, P), NEW texts \in Seq(W), NEW new, new = Phrased(b, texts)
  PROVE  /\ new \in Bodied(W, P) /\ KeptWords(new) = KeptWords(b) \cup ToSet(texts)
         /\ new.symptom = b.symptom /\ new.line = b.line /\ new.pending = b.pending
         /\ new.wrapped = b.wrapped
<1>. PICK more : more = b.phrasings \o texts
  OBVIOUS
<1>1. more \in Seq(W) /\ new = [b EXCEPT !.phrasings = more]
  BY BodyIs DEF Phrased
<1>2. /\ new \in Bodied(W, P) /\ new.symptom = b.symptom /\ new.line = b.line
      /\ new.pending = b.pending /\ new.wrapped = b.wrapped /\ new.preamble = b.preamble
      /\ new.sections = b.sections /\ new.phrasings = more
  BY <1>1 DEF Bodied
<1>3. ToSet(more) = ToSet(b.phrasings) \cup ToSet(texts)
  BY BodyIs, ToSetConcat
<1> QED
  BY <1>2, <1>3 DEF KeptWords

Prefaced(b, texts) == [b EXCEPT !.preamble = @ \o texts]

LEMMA PreambleIs ==
  ASSUME NEW W, NEW P, NEW b \in Bodied(W, P), NEW texts \in Seq(W), NEW new, new = Prefaced(b, texts)
  PROVE  /\ new \in Bodied(W, P) /\ KeptWords(new) = KeptWords(b) \cup ToSet(texts)
         /\ new.symptom = b.symptom /\ new.line = b.line /\ new.pending = b.pending
         /\ new.wrapped = b.wrapped
<1>. PICK more : more = b.preamble \o texts
  OBVIOUS
<1>1. more \in Seq(W) /\ new = [b EXCEPT !.preamble = more]
  BY BodyIs DEF Prefaced
<1>2. /\ new \in Bodied(W, P) /\ new.symptom = b.symptom /\ new.line = b.line
      /\ new.pending = b.pending /\ new.wrapped = b.wrapped /\ new.phrasings = b.phrasings
      /\ new.sections = b.sections /\ new.preamble = more
  BY <1>1 DEF Bodied
<1>3. ToSet(more) = ToSet(b.preamble) \cup ToSet(texts)
  BY BodyIs, ToSetConcat
<1> QED
  BY <1>2, <1>3 DEF KeptWords

\* A section may take the place of the last if it keeps what that one held.
LEMMA OnLastIs ==
  ASSUME NEW W, NEW P, NEW b \in Bodied(W, P), b.sections # <<>>,
         NEW s \in Sectional(W, P), SectionWords(Last(b.sections)) \subseteq SectionWords(s),
         NEW new, new = [b EXCEPT !.sections = OnLast(b.sections, s)]
  PROVE  /\ new \in Bodied(W, P) /\ KeptWords(b) \cup SectionWords(s) \subseteq KeptWords(new)
         /\ new.symptom = b.symptom /\ new.line = b.line /\ new.pending = b.pending
         /\ new.wrapped = b.wrapped
<1>1. PICK front, last, list : front = Front(b.sections) /\ last = Last(b.sections)
                               /\ list = OnLast(b.sections, s)
  OBVIOUS
<1>2. front \in Seq(Sectional(W, P)) /\ ToSet(b.sections) = ToSet(front) \cup {last}
  <2>1. b.sections \in Seq(Sectional(W, P))
    BY BodyIs
  <2> QED
    BY <1>1, <2>1, FrontAndLast
<1>3. list = Append(front, s)
  BY <1>1 DEF OnLast
<1>4. list \in Seq(Sectional(W, P)) /\ ToSet(list) = ToSet(front) \cup {s}
  BY <1>2, <1>3, ToSetAppend
<1>5. /\ new \in Bodied(W, P) /\ new.symptom = b.symptom /\ new.line = b.line
      /\ new.pending = b.pending /\ new.wrapped = b.wrapped /\ new.phrasings = b.phrasings
      /\ new.sections = list /\ new.preamble = b.preamble
  <2>1. new = [b EXCEPT !.sections = list]
    BY <1>1
  <2> QED
    BY <1>4, <2>1 DEF Bodied
<1>6. WordsIn(b.sections) \cup SectionWords(s) \subseteq WordsIn(list)
  <2>1. SectionWords(s) \subseteq WordsIn(list)
    BY <1>4 DEF WordsIn
  <2>2. ASSUME NEW t \in ToSet(b.sections) PROVE SectionWords(t) \subseteq WordsIn(list)
    <3>1. CASE t = last
      BY <1>1, <2>1, <3>1
    <3>2. CASE t \in ToSet(front)
      BY <1>4, <3>2 DEF WordsIn
    <3> QED
      BY <1>2, <3>1, <3>2
  <2> QED
    BY <2>1, <2>2 DEF WordsIn
<1> QED
  BY <1>5, <1>6 DEF KeptWords

LEMMA AbsorbIs ==
  ASSUME NEW W, NEW P, None \notin Seq(W), NEW b \in Bodied(W, P), NEW texts \in Seq(W),
         NEW key, NEW to \in P, NEW new, new = Absorb(b, key, texts, to)
  PROVE  /\ new \in Bodied(W, P) /\ KeptWords(b) \subseteq KeptWords(new)
         /\ key \notin {"fix", "undocumented"} => ToSet(texts) \subseteq KeptWords(new)
         /\ new.symptom = b.symptom /\ new.line = b.line /\ new.pending = b.pending
         /\ new.wrapped = b.wrapped
<1>1. CASE b.sections # <<>>
  <2>1. PICK last, s : last = Last(b.sections) /\ s = Absorbed(last, key, texts, to)
    OBVIOUS
  <2>2. last \in Sectional(W, P)
    <3>1. b.sections \in Seq(Sectional(W, P))
      BY BodyIs
    <3> QED
      BY <1>1, <2>1, <3>1, FrontAndLast
  <2>3. /\ s \in Sectional(W, P) /\ SectionWords(last) \subseteq SectionWords(s)
        /\ key \notin {"fix", "undocumented"} => ToSet(texts) \subseteq SectionWords(s)
    BY <2>1, <2>2, AbsorbedIs
  <2>4. new = [b EXCEPT !.sections = OnLast(b.sections, s)]
    BY <1>1, <2>1 DEF Absorb
  <2>5. /\ new \in Bodied(W, P) /\ KeptWords(b) \cup SectionWords(s) \subseteq KeptWords(new)
        /\ new.symptom = b.symptom /\ new.line = b.line /\ new.pending = b.pending
        /\ new.wrapped = b.wrapped
    BY <1>1, <2>1, <2>3, <2>4, OnLastIs
  <2> QED
    BY <2>3, <2>5
<1>2. CASE b.sections = <<>> /\ key = "also"
  <2>1. new = Phrased(b, texts)
    BY <1>2 DEF Absorb, Phrased
  <2>3. /\ new \in Bodied(W, P) /\ KeptWords(new) = KeptWords(b) \cup ToSet(texts)
        /\ new.symptom = b.symptom /\ new.line = b.line /\ new.pending = b.pending
        /\ new.wrapped = b.wrapped
    BY <2>1, PhrasingsIs
  <2> QED
    BY <1>2, <2>3
<1>3. CASE b.sections = <<>> /\ key # "also"
  <2>1. new = Prefaced(b, texts)
    BY <1>3 DEF Absorb, Prefaced
  <2>3. /\ new \in Bodied(W, P) /\ KeptWords(new) = KeptWords(b) \cup ToSet(texts)
        /\ new.symptom = b.symptom /\ new.line = b.line /\ new.pending = b.pending
        /\ new.wrapped = b.wrapped
    BY <2>1, PreambleIs
  <2> QED
    BY <1>3, <2>3
<1> QED
  BY <1>1, <1>2, <1>3

LEMMA FlushIs ==
  ASSUME NEW W, NEW P, None \in P, None \notin Seq(W), NEW b \in Bodied(W, P),
         NEW new, new = Flush(b)
  PROVE  /\ new \in Bodied(W, P) /\ BodyWords(b) \subseteq KeptWords(new)
         /\ new.symptom = b.symptom /\ new.line = b.line /\ new.pending = None
         /\ new.wrapped = <<>>
<1>1. CASE b.pending = None
  <2>1. new = b /\ b.wrapped = <<>>
    BY <1>1, BodyIs DEF Flush
  <2>2. ToSet(<<>>) = {}
    BY DEF ToSet
  <2> QED
    BY <1>1, <2>1, <2>2 DEF BodyWords
<1>2. CASE b.pending # None
  <2>1. PICK key, texts, kept : key = b.pending /\ texts = b.wrapped
                                /\ kept = Absorb(b, key, texts, None)
    OBVIOUS
  <2>2. key \in WrappingKeys /\ texts \in Seq(W)
    BY <1>2, <2>1, BodyIs
  <2>3. key \notin {"fix", "undocumented"}
    BY <2>2 DEF WrappingKeys
  <2>4. /\ kept \in Bodied(W, P) /\ KeptWords(b) \cup ToSet(texts) \subseteq KeptWords(kept)
        /\ kept.symptom = b.symptom /\ kept.line = b.line
    BY <2>1, <2>2, <2>3, AbsorbIs
  <2>5. new = [kept EXCEPT !.pending = None, !.wrapped = <<>>]
    BY <1>2, <2>1 DEF Flush
  <2>6. /\ new \in Bodied(W, P) /\ new.symptom = kept.symptom /\ new.line = kept.line
        /\ new.pending = None /\ new.wrapped = <<>> /\ new.phrasings = kept.phrasings
        /\ new.preamble = kept.preamble /\ new.sections = kept.sections
    <3>1. <<>> \in Seq(W)
      OBVIOUS
    <3> QED
      BY <2>4, <2>5, <3>1 DEF Bodied
  <2>7. KeptWords(new) = KeptWords(kept)
    BY <2>6 DEF KeptWords
  <2> QED
    BY <2>1, <2>4, <2>6, <2>7 DEF BodyWords
<1> QED
  BY <1>1, <1>2

Silent == {"blank", "fix", "undocumented", "symptom"}

\* A line's words are kept, or held until the wrapped value they belong to ends.
LEMMA ReadLineIs ==
  ASSUME NEW W, NEW P, None \in P, None \notin Seq(W), NEW b \in Bodied(W, P),
         NEW line, line.kind \in LineKinds, line.text \in W, line.to \in P, NEW number \in Nat,
         NEW new, new = ReadLine(b, line, number)
  PROVE  /\ new \in Bodied(W, P) /\ BodyWords(b) \subseteq BodyWords(new)
         /\ line.kind \notin Silent => line.text \in BodyWords(new)
         /\ new.symptom = IF line.kind = "symptom" THEN line.to ELSE b.symptom
<1>1. PICK f, texts : f = Flush(b) /\ texts = <<line.text>>
  OBVIOUS
<1>2. /\ f \in Bodied(W, P) /\ BodyWords(b) \subseteq KeptWords(f) /\ f.symptom = b.symptom
      /\ f.pending = None /\ f.wrapped = <<>>
  BY <1>1, FlushIs
<1>3. texts \in Seq(W) /\ ToSet(texts) = {line.text}
  <2>1. texts \in Seq(W) /\ Len(texts) = 1 /\ texts[1] = line.text
    BY <1>1
  <2>2. ToSet(texts) = {texts[i] : i \in 1..1}
    BY <2>1, ToSetIs
  <2> QED
    BY <2>1, <2>2
<1>4. CASE line.kind = "symptom"
  <2>1. new = [f EXCEPT !.symptom = line.to, !.line = number]
    BY <1>1, <1>4 DEF ReadLine, SingleLineKeys, WrappingKeys
  <2>2. /\ new \in Bodied(W, P) /\ new.symptom = line.to /\ new.phrasings = f.phrasings
        /\ new.preamble = f.preamble /\ new.sections = f.sections
    BY <1>2, <2>1 DEF Bodied
  <2>3. KeptWords(new) = KeptWords(f)
    BY <2>2 DEF KeptWords
  <2> QED
    BY <1>2, <1>4, <2>2, <2>3 DEF BodyWords, Silent
<1>5. CASE line.kind = "cause"
  <2>1. PICK s, list : s = NewSection(line.text) /\ list = Append(f.sections, s)
    OBVIOUS
  <2>2. s \in Sectional(W, P) /\ line.text \in SectionWords(s)
    BY <2>1, NewSectionIs
  <2>3. f.sections \in Seq(Sectional(W, P))
    BY <1>2, BodyIs
  <2>4. list \in Seq(Sectional(W, P)) /\ ToSet(list) = ToSet(f.sections) \cup {s}
    BY <2>1, <2>2, <2>3, ToSetAppend
  <2>5. new = [f EXCEPT !.sections = list]
    BY <1>1, <1>5, <2>1 DEF ReadLine, SingleLineKeys, WrappingKeys
  <2>6. /\ new \in Bodied(W, P) /\ new.symptom = f.symptom /\ new.phrasings = f.phrasings
        /\ new.preamble = f.preamble /\ new.sections = list
    BY <1>2, <2>4, <2>5 DEF Bodied
  <2>7. WordsIn(f.sections) \subseteq WordsIn(list) /\ line.text \in WordsIn(list)
    BY <2>2, <2>4 DEF WordsIn
  <2>8. KeptWords(f) \subseteq KeptWords(new) /\ line.text \in KeptWords(new)
    BY <2>6, <2>7 DEF KeptWords
  <2> QED
    BY <1>2, <1>5, <2>6, <2>8 DEF BodyWords
<1>6. CASE line.kind \in SingleLineKeys
  <2>1. PICK kind, to : kind = line.kind /\ to = line.to
    OBVIOUS
  <2>2. new = Absorb(f, kind, texts, to)
    BY <1>1, <1>6, <2>1 DEF ReadLine, SingleLineKeys, WrappingKeys
  <2>3. to \in P
    BY <2>1
  <2>4. /\ new \in Bodied(W, P) /\ KeptWords(f) \subseteq KeptWords(new)
        /\ kind \notin {"fix", "undocumented"} => ToSet(texts) \subseteq KeptWords(new)
        /\ new.symptom = f.symptom
    BY <1>2, <1>3, <2>2, <2>3, AbsorbIs
  <2>5. kind # "symptom"
    BY <1>6, <2>1 DEF SingleLineKeys
  <2> QED
    BY <1>2, <1>3, <2>1, <2>4, <2>5 DEF BodyWords, Silent
<1>7. CASE line.kind \in WrappingKeys
  <2>1. PICK kind : kind = line.kind
    OBVIOUS
  <2>2. new = [f EXCEPT !.pending = kind, !.wrapped = texts]
    BY <1>1, <1>7, <2>1 DEF ReadLine, SingleLineKeys, WrappingKeys
  <2>3. kind \in WrappingKeys /\ kind # None /\ kind # "symptom"
    BY <1>7, <2>1, NamesAssumption DEF LineKinds, WrappingKeys
  <2>4. /\ new \in Bodied(W, P) /\ new.symptom = f.symptom /\ new.phrasings = f.phrasings
        /\ new.preamble = f.preamble /\ new.sections = f.sections /\ new.wrapped = texts
    BY <1>2, <1>3, <2>2, <2>3 DEF Bodied
  <2>5. KeptWords(new) = KeptWords(f)
    BY <2>4 DEF KeptWords
  <2> QED
    BY <1>2, <1>3, <2>1, <2>3, <2>4, <2>5 DEF BodyWords
<1>8. CASE line.kind = "blank"
  <2>1. new = f
    BY <1>1, <1>8 DEF ReadLine, SingleLineKeys, WrappingKeys
  <2> QED
    BY <1>2, <1>8, <2>1 DEF BodyWords, Silent
<1>9. CASE line.kind = "prose" /\ b.pending # None
  <2>1. PICK more : more = Append(b.wrapped, line.text)
    OBVIOUS
  <2>2. b.wrapped \in Seq(W)
    BY BodyIs
  <2>3. more \in Seq(W) /\ ToSet(more) = ToSet(b.wrapped) \cup {line.text}
    BY <2>1, <2>2, ToSetAppend
  <2>4. new = [b EXCEPT !.wrapped = more]
    BY <1>9, <2>1 DEF ReadLine, SingleLineKeys, WrappingKeys
  <2>5. /\ new \in Bodied(W, P) /\ new.symptom = b.symptom /\ new.phrasings = b.phrasings
        /\ new.preamble = b.preamble /\ new.sections = b.sections /\ new.wrapped = more
    BY <1>9, <2>3, <2>4 DEF Bodied
  <2>6. KeptWords(new) = KeptWords(b)
    BY <2>5 DEF KeptWords
  <2> QED
    BY <1>9, <2>3, <2>5, <2>6 DEF BodyWords
<1>10. CASE line.kind = "prose" /\ b.pending = None /\ b.sections = <<>>
  <2>1. PICK more : more = Append(b.preamble, line.text)
    OBVIOUS
  <2>2. b.preamble \in Seq(W)
    BY BodyIs
  <2>3. more \in Seq(W) /\ ToSet(more) = ToSet(b.preamble) \cup {line.text}
    BY <2>1, <2>2, ToSetAppend
  <2>4. new = [b EXCEPT !.preamble = more]
    BY <1>10, <2>1 DEF ReadLine, SingleLineKeys, WrappingKeys
  <2>5. /\ new \in Bodied(W, P) /\ new.symptom = b.symptom /\ new.phrasings = b.phrasings
        /\ new.preamble = more /\ new.sections = b.sections /\ new.wrapped = b.wrapped
    BY <2>3, <2>4 DEF Bodied
  <2> QED
    BY <1>10, <2>3, <2>5 DEF BodyWords, KeptWords
<1>11. CASE line.kind = "prose" /\ b.pending = None /\ b.sections # <<>>
  <2>1. PICK last, s : last = Last(b.sections) /\ s = Noted(last, texts)
    OBVIOUS
  <2>2. last \in Sectional(W, P)
    <3>1. b.sections \in Seq(Sectional(W, P))
      BY BodyIs
    <3> QED
      BY <1>11, <2>1, <3>1, FrontAndLast
  <2>3. s \in Sectional(W, P) /\ SectionWords(s) = SectionWords(last) \cup ToSet(texts)
    BY <1>3, <2>1, <2>2, NotedIs
  <2>4. new = [b EXCEPT !.sections = OnLast(b.sections, s)]
    BY <1>1, <1>11, <2>1 DEF ReadLine, SingleLineKeys, WrappingKeys
  <2>5. /\ new \in Bodied(W, P) /\ KeptWords(b) \cup SectionWords(s) \subseteq KeptWords(new)
        /\ new.symptom = b.symptom /\ new.wrapped = b.wrapped
    BY <1>11, <2>1, <2>3, <2>4, OnLastIs
  <2> QED
    BY <1>3, <1>11, <2>3, <2>5 DEF BodyWords
<1> QED
  BY <1>4, <1>5, <1>6, <1>7, <1>8, <1>9, <1>10, <1>11 DEF LineKinds

\* The words of a file's lines, and what its lines name.
Texts(d) == {d.lines[i].text : i \in DOMAIN d.lines}
Named(d) == {d.lines[i].to : i \in DOMAIN d.lines} \cup {None}

LEMMA LinesAre ==
  ASSUME NEW d, IsDraft(d)
  PROVE  /\ Len(d.lines) \in Nat /\ DOMAIN d.lines = 1..Len(d.lines)
         /\ None \notin Seq(Texts(d)) /\ None \in Named(d)
         /\ \A i \in 1..Len(d.lines) : /\ d.lines[i].kind \in LineKinds
                                       /\ d.lines[i].text \in Texts(d)
                                       /\ d.lines[i].to \in Named(d)
                                       /\ d.lines[i].kind = "symptom" =>
                                            d.lines[i].to.text = d.lines[i].text
<1>1. PICK lines : lines = d.lines
  OBVIOUS
<1>2. lines \in Seq(ToSet(lines))
  BY <1>1 DEF IsDraft, IsSeq
<1>3. Len(lines) \in Nat /\ DOMAIN lines = 1..Len(lines)
  BY <1>2
<1> QED
  BY <1>1, <1>3 DEF IsDraft, Texts, Named

\* The body after each line.
Reads(h, lines) ==
  /\ h[0] = NewBody
  /\ \A k \in 1..Len(lines) : h[k] = ReadLine(h[k - 1], lines[k], k)
  /\ Body(lines) = Flush(h[Len(lines)])

LEMMA NewBodyIs ==
  ASSUME NEW W, NEW P, None \in P
  PROVE  NewBody \in Bodied(W, P)
<1>1. <<>> \in Seq(W) /\ <<>> \in Seq(Sectional(W, P))
  OBVIOUS
<1> QED
  BY <1>1 DEF NewBody, Bodied

LEMMA BodySteps ==
  ASSUME NEW d, IsDraft(d)
  PROVE  \E h : Reads(h, d.lines)
<1> DEFINE n == Len(d.lines)
           V == Bodied(Texts(d), Named(d))
           Made(h) == h = [k \in 0..n |-> IF k = 0 THEN NewBody
                                          ELSE ReadLine(h[k - 1], d.lines[k], k)]
           G == [p \in (1..n) \X V |-> ReadLine(p[2], d.lines[p[1]], p[1])]
<1>1. n \in Nat /\ NewBody \in V
  BY LinesAre, NewBodyIs
<1>2. ASSUME NEW k \in 1..n, NEW v \in V PROVE ReadLine(v, d.lines[k], k) \in V
  <2>1. PICK W, P, line, number : /\ W = Texts(d) /\ P = Named(d) /\ line = d.lines[k] /\ number = k
    OBVIOUS
  <2>2. /\ None \in P /\ None \notin Seq(W) /\ line.kind \in LineKinds /\ line.text \in W
        /\ line.to \in P /\ number \in Nat /\ v \in Bodied(W, P)
    BY <2>1, LinesAre
  <2>3. ReadLine(v, line, number) \in Bodied(W, P)
    BY <2>2, ReadLineIs
  <2> QED
    BY <2>1, <2>3
<1>3. \A k \in 1..n, v \in V : G[<<k, v>>] = ReadLine(v, d.lines[k], k)
  OBVIOUS
<1>4. G \in [(1..n) \X V -> V]
  <2> HIDE DEF V, n
  <2>1. ASSUME NEW p \in (1..n) \X V PROVE ReadLine(p[2], d.lines[p[1]], p[1]) \in V
    <3>1. p[1] \in 1..n /\ p[2] \in V
      OBVIOUS
    <3> QED
      BY <1>2, <3>1
  <2> QED
    BY <2>1
<1>5. PICK g : Stepped(g, n, V, NewBody, G)
  <2> HIDE DEF G, V, n
  <2> QED
    BY <1>1, <1>4, RecursionExists
<1>6. \A k \in 0..n : k # 0 => k \in 1..n /\ k - 1 \in 0..n
  BY <1>1
<1> HIDE DEF G, V, n
<1>7. g \in [0..n -> V] /\ g[0] = NewBody /\ \A k \in 1..n : g[k] = ReadLine(g[k - 1], d.lines[k], k)
  <2>1. ASSUME NEW k \in 1..n PROVE g[k] = ReadLine(g[k - 1], d.lines[k], k)
    <3>1. g[k] = G[<<k, g[k - 1]>>] /\ k - 1 \in 0..n
      BY <1>1, <1>5 DEF Stepped
    <3>2. g[k - 1] \in V
      BY <1>5, <3>1 DEF Stepped
    <3> QED
      BY <1>3, <3>1, <3>2
  <2> QED
    BY <1>5, <2>1 DEF Stepped
<1>8. Made(g)
  <2>1. \A k \in 0..n : g[k] = IF k = 0 THEN NewBody ELSE ReadLine(g[k - 1], d.lines[k], k)
    BY <1>6, <1>7
  <2> QED
    BY <1>7, <2>1
<1>9. PICK h : Made(h) /\ Body(d.lines) = Flush(h[n])
  <2>1. Body(d.lines) = Flush((CHOOSE h : Made(h))[n])
    BY DEF Body, n
  <2> HIDE DEF Made
  <2> QED
    BY <1>8, <2>1
<1>10. h[0] = NewBody /\ \A k \in 1..n : h[k] = ReadLine(h[k - 1], d.lines[k], k)
  <2>1. 0 \in 0..n /\ \A k \in 1..n : k \in 0..n /\ k # 0
    BY <1>1
  <2> QED
    BY <1>9, <2>1
<1> QED
  BY <1>9, <1>10 DEF Reads, n

\* Of the lines read so far every word is said, and the symptom is that of one of
\* the symptom lines.
LEMMA BodyKeeps ==
  ASSUME NEW d, IsDraft(d), NEW b, b = Body(d.lines)
  PROVE  /\ b \in Bodied(Texts(d), Named(d)) /\ b.wrapped = <<>>
         /\ \A i \in DOMAIN d.lines : d.lines[i].kind \notin Silent => d.lines[i].text \in KeptWords(b)
         /\ Symptoms(d) # {} => \E i \in Symptoms(d) : b.symptom = d.lines[i].to
<1>1. PICK h : Reads(h, d.lines)
  BY BodySteps
<1>2. PICK W, P, n, lines : W = Texts(d) /\ P = Named(d) /\ n = Len(d.lines) /\ lines = d.lines
  OBVIOUS
<1>3. /\ n \in Nat /\ DOMAIN lines = 1..n /\ None \in P /\ None \notin Seq(W)
      /\ \A i \in 1..n : lines[i].kind \in LineKinds /\ lines[i].text \in W /\ lines[i].to \in P
  BY <1>2, LinesAre
<1> DEFINE Said(k) == \A i \in 1..k : lines[i].kind \notin Silent => lines[i].text \in BodyWords(h[k])
           Heads(k) == {i \in 1..k : lines[i].kind = "symptom"}
           Headed(k) == Heads(k) # {} => \E i \in Heads(k) : h[k].symptom = lines[i].to
           Good(k) == h[k] \in Bodied(W, P) /\ Said(k) /\ Headed(k)
           Places == {k \in 0..n : Good(k)}
<1>4. Good(0)
  <2>1. h[0] \in Bodied(W, P)
    BY <1>1, <1>3, NewBodyIs DEF Reads
  <2>2. Heads(0) = {} /\ 1..0 = {}
    OBVIOUS
  <2> QED
    BY <2>1, <2>2
<1>5. ASSUME NEW k \in 1..n, Good(k - 1) PROVE Good(k)
  <2>1. PICK old, new, line : old = h[k - 1] /\ new = h[k] /\ line = lines[k]
    OBVIOUS
  <2>2. new = ReadLine(old, line, k) /\ k \in Nat
    BY <1>1, <1>2, <1>3, <2>1 DEF Reads
  <2>3. old \in Bodied(W, P) /\ line.kind \in LineKinds /\ line.text \in W /\ line.to \in P
    BY <1>3, <1>5, <2>1
  <2>4. /\ new \in Bodied(W, P) /\ BodyWords(old) \subseteq BodyWords(new)
        /\ line.kind \notin Silent => line.text \in BodyWords(new)
        /\ new.symptom = IF line.kind = "symptom" THEN line.to ELSE old.symptom
    BY <1>3, <2>2, <2>3, ReadLineIs
  <2>5. \A i \in 1..k : i = k \/ i \in 1..(k - 1)
    OBVIOUS
  <2>6. Said(k)
    <3>1. \A i \in 1..(k - 1) : lines[i].kind \notin Silent => lines[i].text \in BodyWords(old)
      BY <1>5, <2>1
    <3> QED
      BY <2>1, <2>4, <2>5, <3>1
  <2>7. Headed(k)
    <3>1. CASE line.kind = "symptom"
      <4>1. k \in Heads(k) /\ h[k].symptom = lines[k].to
        BY <2>1, <2>4, <3>1
      <4> QED
        BY <4>1
    <3>2. CASE line.kind # "symptom"
      <4>1. Heads(k) = Heads(k - 1)
        BY <2>1, <2>5, <3>2
      <4>2. h[k].symptom = h[k - 1].symptom
        BY <2>1, <2>4, <3>2
      <4> QED
        BY <1>5, <4>1, <4>2
    <3> QED
      BY <3>1, <3>2
  <2> QED
    BY <2>1, <2>4, <2>6, <2>7
<1>6. Good(n)
  <2> HIDE DEF Good
  <2>1. 0 \in Places
    BY <1>3, <1>4
  <2>2. \A k \in 1..n : k - 1 \in Places => k \in Places
    <3> SUFFICES ASSUME NEW k \in 1..n, k - 1 \in Places PROVE k \in Places
      OBVIOUS
    <3>1. k \in 0..n /\ Good(k - 1)
      OBVIOUS
    <3> QED
      BY <1>5, <3>1
  <2> HIDE DEF Places
  <2>3. \A k \in 0..n : k \in Places
    BY <1>3, <2>1, <2>2, EveryPlace
  <2> QED
    BY <1>3, <2>3 DEF Places
<1>7. b = Flush(h[n])
  BY <1>1, <1>2 DEF Reads
<1>8. /\ b \in Bodied(W, P) /\ BodyWords(h[n]) \subseteq KeptWords(b) /\ b.symptom = h[n].symptom
      /\ b.wrapped = <<>>
  BY <1>3, <1>6, <1>7, FlushIs
<1>9. Symptoms(d) = Heads(n)
  BY <1>2, <1>3 DEF Symptoms
<1> QED
  BY <1>2, <1>3, <1>6, <1>8, <1>9

\* Where no reason comes first, none is given.
LEMMA NoneFails ==
  ASSUME NEW n \in Nat, NEW reasons, DOMAIN reasons = 1..n, FirstOf(reasons) = None
  PROVE  \A i \in 1..n : reasons[i] = None
<1> DEFINE given == {i \in 1..n : reasons[i] # None}
<1>1. given \in SUBSET Nat
  OBVIOUS
<1>2. SUFFICES ASSUME given # {} PROVE FALSE
  OBVIOUS
<1>3. reasons[Min(given)] = None
  BY <1>2 DEF FirstOf
<1>4. Min(given) \in given
  <2>1. \E i \in given : \A j \in given : i <= j
    <3> HIDE DEF given
    <3> QED
      BY <1>1, <1>2, LeastNumber
  <2> HIDE DEF given
  <2> QED
    BY <2>1 DEF Min
<1> QED
  BY <1>3, <1>4

\* A cause that stands has a check, and either pointers or a claim.
LEMMA CauseStands ==
  ASSUME NEW W, NEW P, NEW s \in Sectional(W, P), CauseFailure(s) = None
  PROVE  /\ s.check # None /\ s.check \in Seq(W)
         /\ s.fixes = <<>> <=> s.undocumented # None
<1>1. PICK one, two, three :
        /\ one = When(s.check = None, "cause-missing-check")
        /\ two = When(s.fixLine /\ s.undocumentedLine, "cause-fix-and-undocumented")
        /\ three = When(s.fixes = <<>> /\ s.undocumented = None, "cause-missing-fix")
  OBVIOUS
<1>2. PICK reasons : reasons = <<one, two, three>>
  OBVIOUS
<1>3. FirstOf(reasons) = None
  BY <1>1, <1>2 DEF CauseFailure
<1>4. DOMAIN reasons = 1..3 /\ reasons[1] = one /\ reasons[2] = two /\ reasons[3] = three
  BY <1>2
<1>5. \A i \in 1..3 : reasons[i] = None
  BY <1>3, <1>4, NoneFails
<1>6. one = None /\ two = None /\ three = None
  BY <1>4, <1>5
<1>7. /\ s.check # None /\ ~(s.fixLine /\ s.undocumentedLine)
      /\ ~(s.fixes = <<>> /\ s.undocumented = None)
  BY <1>1, <1>6, NamesAssumption DEF When, Failures
<1>8. /\ s.check \in Seq(W) \cup {None}
      /\ s.fixes # <<>> => s.fixLine
      /\ s.undocumented # None => s.undocumentedLine
  BY SectionIs
<1> QED
  BY <1>7, <1>8

LEMMA FileStands ==
  ASSUME NEW T, NEW d, NEW b, CauseSections(b) \in Seq(T), ParseFailure(d, b) = None
  PROVE  /\ Cardinality(Symptoms(d)) = 1
         /\ MinCauses <= Len(CauseSections(b)) /\ Len(CauseSections(b)) <= MaxCauses
         /\ \A i \in 1..Len(CauseSections(b)) : CauseFailure(CauseSections(b)[i]) = None
<1>1. PICK causes, n : causes = CauseSections(b) /\ n = Len(causes)
  OBVIOUS
<1>2. n \in Nat /\ DOMAIN causes = 1..n
  BY <1>1
<1>3. PICK front, one, few, many :
        /\ front = FrontFailure(d)
        /\ one = When(Cardinality(Symptoms(d)) # 1, "no-symptom")
        /\ few = When(n < MinCauses, "too-few-causes")
        /\ many = When(n > MaxCauses, "too-many-causes")
  OBVIOUS
<1>4. PICK four, each : four = <<front, one, few, many>>
                        /\ each = [i \in 1..n |-> CauseFailure(causes[i])]
  OBVIOUS
<1>5. PICK reasons : reasons = four \o each
  OBVIOUS
<1>6. FirstOf(reasons) = None
  BY <1>1, <1>2, <1>3, <1>4, <1>5 DEF ParseFailure
<1>7. PICK U : U = {front, one, few, many} \cup {each[i] : i \in 1..n}
  OBVIOUS
<1>8. Len(four) = 4 /\ four \in Seq(U) /\ Len(each) = n /\ each \in Seq(U)
  <2>1. four \in Seq(U) /\ Len(four) = 4
    BY <1>4, <1>7
  <2>2. each \in [1..n -> U]
    BY <1>4, <1>7
  <2> QED
    BY <1>2, <2>1, <2>2
<1>9. /\ DOMAIN reasons = 1..(n + 4) /\ \A i \in 1..4 : reasons[i] = four[i]
      /\ \A i \in 1..n : reasons[i + 4] = each[i]
  <2>1. /\ reasons \in Seq(U) /\ Len(reasons) = 4 + n
        /\ \A i \in 1..(4 + n) : reasons[i] = IF i <= 4 THEN four[i] ELSE each[i - 4]
    <3>1. four \in Seq(U) /\ each \in Seq(U) /\ Len(four) = 4 /\ Len(each) = n
      BY <1>8
    <3>2. /\ four \o each \in Seq(U) /\ Len(four \o each) = Len(four) + Len(each)
          /\ \A i \in 1..(Len(four) + Len(each)) :
               (four \o each)[i] = IF i <= Len(four) THEN four[i] ELSE each[i - Len(four)]
      BY ONLY <3>1, ConcatProperties
    <3> QED
      BY <1>5, <3>1, <3>2
  <2>2. \A i \in 1..4 : reasons[i] = four[i]
    BY <1>2, <2>1
  <2>3. \A i \in 1..n : reasons[i + 4] = each[i]
    <3> SUFFICES ASSUME NEW i \in 1..n PROVE reasons[i + 4] = each[i]
      OBVIOUS
    <3>1. i + 4 \in 1..(4 + n) /\ ~(i + 4 <= 4) /\ (i + 4) - 4 = i
      BY <1>2
    <3> QED
      BY <2>1, <3>1
  <2>4. DOMAIN reasons = 1..(n + 4)
    BY <1>2, <2>1
  <2> QED
    BY <2>2, <2>3, <2>4
<1>10. n + 4 \in Nat
  BY <1>2
<1>11. \A i \in 1..(n + 4) : reasons[i] = None
  BY <1>6, <1>9, <1>10, NoneFails
<1>12. one = None /\ few = None /\ many = None
  <2>1. 2 \in 1..(n + 4) /\ 3 \in 1..(n + 4) /\ 4 \in 1..(n + 4)
    BY <1>2
  <2>2. four[2] = None /\ four[3] = None /\ four[4] = None
    BY <1>9, <1>11, <2>1
  <2> QED
    BY <1>4, <2>2
<1>13. Cardinality(Symptoms(d)) = 1 /\ ~(n < MinCauses) /\ ~(n > MaxCauses)
  BY <1>3, <1>12, NamesAssumption DEF When, Failures
<1>14. ASSUME NEW i \in 1..n PROVE CauseFailure(causes[i]) = None
  <2>1. i + 4 \in 1..(n + 4)
    BY <1>2
  <2>2. each[i] = None
    BY <1>9, <1>11, <2>1
  <2> QED
    BY <1>4, <2>2
<1> QED
  BY <1>1, <1>2, <1>13, <1>14, BandAssumption

LEMMA SectionsAre ==
  ASSUME NEW W, NEW P, NEW b \in Bodied(W, P)
  PROVE  /\ CauseSections(b) \in Seq(Sectional(W, P))
         /\ ToSet(b.sections) = ToSet(CauseSections(b))
                                \cup (IF HasClosing(b) THEN {Last(b.sections)} ELSE {})
         /\ HasClosing(b) => /\ Last(b.sections) \in Sectional(W, P)
                             /\ Last(b.sections).check = None
<1>1. b.sections \in Seq(Sectional(W, P))
  BY BodyIs
<1>2. CASE HasClosing(b)
  <2>1. b.sections # <<>> /\ Last(b.sections).check = None
    BY <1>2 DEF HasClosing, IsClosing
  <2> QED
    BY <1>1, <1>2, <2>1, FrontAndLast DEF CauseSections
<1>3. CASE ~HasClosing(b)
  BY <1>1, <1>3 DEF CauseSections
<1> QED
  BY <1>2, <1>3

\* What stands in a file that is not turned away.
LEMMA ParsedIs ==
  ASSUME NEW d, IsDraft(d), NEW f, NEW parsed, parsed = ParseEntry(f, d), parsed.rejection = None,
         NEW b, b = Body(d.lines)
  PROVE  parsed.entry = ParsedEntry(f, d, b) /\ ParseFailure(d, b) = None
<1>1. PICK failure : failure = ParseFailure(d, b)
  OBVIOUS
<1>2. CASE failure # None
  <2>1. parsed = [rejection |-> failure, entry |-> None, flags |-> {}]
    BY <1>1, <1>2 DEF ParseEntry
  <2> QED
    BY <1>2, <2>1
<1>3. CASE failure = None
  <2>1. parsed = [rejection |-> None, entry |-> ParsedEntry(f, d, b), flags |-> ParseFlags(f, d, b)]
    BY <1>1, <1>3 DEF ParseEntry
  <2> QED
    BY <1>1, <1>3, <2>1
<1> QED
  BY <1>2, <1>3

\* The entry, field by field.
IsEntryOf(e, f, b, W, P, sections) ==
  /\ b \in Bodied(W, P) /\ sections \in Seq(Sectional(W, P))
  /\ e.file = f /\ e.line = b.line /\ e.symptom = b.symptom
  /\ e.phrasings = b.phrasings /\ e.preamble = b.preamble
  /\ e.closing = IF HasClosing(b) THEN <<Last(b.sections).statement>> \o Last(b.sections).notes
                 ELSE <<>>
  /\ e.causes = [i \in 1..Len(sections) |-> ParsedCause(sections[i])]
  /\ \A i \in 1..Len(sections) :
       /\ sections[i] \in Sectional(W, P)
       /\ sections[i].check # None /\ sections[i].check \in Seq(W)
       /\ sections[i].fixes = <<>> <=> sections[i].undocumented # None

LEMMA EntryIs ==
  ASSUME NEW d, IsDraft(d), NEW f, ParseFailure(d, Body(d.lines)) = None
  PROVE  IsEntryOf(ParsedEntry(f, d, Body(d.lines)), f, Body(d.lines), Texts(d), Named(d),
                   CauseSections(Body(d.lines)))
<1>. PICK b, e, W, P, sections :
       /\ b = Body(d.lines) /\ e = ParsedEntry(f, d, b) /\ W = Texts(d) /\ P = Named(d)
       /\ sections = CauseSections(b)
  OBVIOUS
<1>1. b \in Bodied(W, P)
  BY BodyKeeps
<1>2. sections \in Seq(Sectional(W, P))
  BY <1>1, SectionsAre
<1>3. ASSUME NEW i \in 1..Len(sections)
      PROVE  /\ sections[i] \in Sectional(W, P) /\ CauseFailure(sections[i]) = None
  <2>1. CauseFailure(sections[i]) = None
    BY <1>2, FileStands
  <2> QED
    BY <1>2, <2>1
<1>4. ASSUME NEW i \in 1..Len(sections)
      PROVE  /\ sections[i].check # None /\ sections[i].check \in Seq(W)
             /\ sections[i].fixes = <<>> <=> sections[i].undocumented # None
  <2>1. PICK s : s = sections[i]
    OBVIOUS
  <2>2. s \in Sectional(W, P) /\ CauseFailure(s) = None
    BY <1>3, <2>1
  <2> QED
    BY <2>1, <2>2, CauseStands
<1>5. DOMAIN sections = 1..Len(sections)
  BY <1>2
<1>6. /\ e.file = f /\ e.line = b.line /\ e.symptom = b.symptom
      /\ e.phrasings = b.phrasings /\ e.preamble = b.preamble
      /\ e.closing = IF HasClosing(b) THEN <<Last(b.sections).statement>> \o Last(b.sections).notes
                     ELSE <<>>
      /\ e.causes = [i \in 1..Len(sections) |-> ParsedCause(sections[i])]
  BY <1>5 DEF ParsedEntry
<1> QED
  BY <1>1, <1>2, <1>3, <1>4, <1>6 DEF IsEntryOf

\* The blocks of an entry are lists of words.
LEMMA BlocksAre ==
  ASSUME NEW e, NEW f, NEW b, NEW W, NEW P, NEW sections, IsEntryOf(e, f, b, W, P, sections)
  PROVE  Blocks(e) \in Seq(Seq(W))
<1>1. /\ b \in Bodied(W, P) /\ sections \in Seq(Sectional(W, P))
      /\ e.closing = IF HasClosing(b) THEN <<Last(b.sections).statement>> \o Last(b.sections).notes
                     ELSE <<>>
      /\ e.causes = [i \in 1..Len(sections) |-> ParsedCause(sections[i])]
      /\ \A i \in 1..Len(sections) : /\ sections[i] \in Sectional(W, P)
                                     /\ sections[i].check \in Seq(W)
  BY DEF IsEntryOf
<1>2. PICK n \in Nat : n = Len(sections)
  BY <1>1
<1>3. PICK causes : causes = [i \in DOMAIN e.causes |-> BlockOf(e.causes[i])]
  OBVIOUS
<1>4. causes = [i \in 1..n |-> BlockOf(ParsedCause(sections[i]))]
  BY <1>1, <1>2, <1>3
<1>5. ASSUME NEW i \in 1..n PROVE BlockOf(ParsedCause(sections[i])) \in Seq(W)
  <2>1. PICK s : s = sections[i]
    OBVIOUS
  <2>2. s \in Sectional(W, P) /\ s.check \in Seq(W)
    BY <1>1, <1>2, <2>1
  <2>3. s.statement \in W /\ s.notes \in Seq(W)
    BY <2>2, SectionIs
  <2>4. BlockOf(ParsedCause(s)) = <<s.statement>> \o s.check \o s.notes
    BY DEF BlockOf, ParsedCause
  <2>5. <<s.statement>> \in Seq(W)
    BY <2>3
  <2>6. <<s.statement>> \o s.check \o s.notes \in Seq(W)
    BY <2>2, <2>3, <2>5
  <2> QED
    BY <2>1, <2>4, <2>6
<1>6. causes \in Seq(Seq(W))
  BY <1>2, <1>4, <1>5
<1>7. PICK closing : closing = IF e.closing = <<>> THEN <<>> ELSE <<e.closing>>
  OBVIOUS
<1>8. e.closing \in Seq(W)
  <2>1. CASE HasClosing(b)
    <3>1. PICK s : s = Last(b.sections)
      OBVIOUS
    <3>2. s \in Sectional(W, P)
      BY <1>1, <2>1, <3>1, SectionsAre
    <3>3. s.statement \in W /\ s.notes \in Seq(W)
      BY <3>2, SectionIs
    <3>4. e.closing = <<s.statement>> \o s.notes
      BY <1>1, <2>1, <3>1
    <3> QED
      BY <3>3, <3>4
  <2>2. CASE ~HasClosing(b)
    BY <1>1, <2>2
  <2> QED
    BY <2>1, <2>2
<1>9. closing \in Seq(Seq(W))
  BY <1>7, <1>8
<1>10. Blocks(e) = causes \o closing
  BY <1>3, <1>7 DEF Blocks
<1> QED
  BY <1>6, <1>9, <1>10

EntryWords(e) ==
  ToSet(HeadOf(e)) \cup ToSet(e.closing) \cup UNION {ToSet(BlockOf(e.causes[i])) : i \in DOMAIN e.causes}

LEMMA HeadWords ==
  ASSUME NEW W, NEW e, e.phrasings \in Seq(W), e.preamble \in Seq(W), NEW text, text = e.symptom.text
  PROVE  ToSet(HeadOf(e)) = {text} \cup ToSet(e.phrasings) \cup ToSet(e.preamble)
<1>1. PICK one, two, three, both :
        one = <<text>> /\ two = e.phrasings /\ three = e.preamble /\ both = one \o two
  OBVIOUS
<1>2. one \in Seq({text}) /\ Len(one) = 1 /\ one[1] = text
  BY <1>1
<1>3. ToSet(one) = {text}
  <2>1. ToSet(one) = {one[i] : i \in 1..1}
    BY <1>2, ToSetIs
  <2> QED
    BY <1>2, <2>1
<1>4. both \in Seq(W \cup {text}) /\ ToSet(both) = ToSet(one) \cup ToSet(two)
  <2>1. one \in Seq(W \cup {text}) /\ two \in Seq(W \cup {text})
    BY <1>1, <1>2
  <2> QED
    BY <1>1, <2>1, ToSetConcat, ConcatProperties
<1>5. ToSet(both \o three) = ToSet(both) \cup ToSet(three)
  <2>1. three \in Seq(W)
    BY <1>1
  <2> QED
    BY <1>4, <2>1, ToSetConcat
<1>6. HeadOf(e) = both \o three
  BY <1>1 DEF HeadOf
<1> QED
  BY <1>1, <1>3, <1>4, <1>5, <1>6

\* A cause's block holds what its section held.
LEMMA BlockWords ==
  ASSUME NEW W, NEW P, NEW s \in Sectional(W, P), s.check # None, s.check \in Seq(W)
  PROVE  ToSet(BlockOf(ParsedCause(s))) = SectionWords(s)
<1>1. PICK text, one, two, three, both :
        text = s.statement /\ one = <<text>> /\ two = s.check /\ three = s.notes /\ both = one \o two
  OBVIOUS
<1>2. text \in W /\ three \in Seq(W) /\ two \in Seq(W)
  BY <1>1, SectionIs
<1>3. one \in Seq(W) /\ ToSet(one) = {text}
  <2>1. one \in Seq(W) /\ Len(one) = 1 /\ one[1] = text
    BY <1>1, <1>2
  <2>2. ToSet(one) = {one[i] : i \in 1..1}
    BY <2>1, ToSetIs
  <2> QED
    BY <2>1, <2>2
<1>4. both \in Seq(W) /\ ToSet(both) = ToSet(one) \cup ToSet(two)
  BY <1>1, <1>2, <1>3, ToSetConcat, ConcatProperties
<1>5. ToSet(both \o three) = ToSet(both) \cup ToSet(three)
  BY <1>2, <1>4, ToSetConcat
<1>6. BlockOf(ParsedCause(s)) = both \o three
  BY <1>1 DEF BlockOf, ParsedCause
<1>7. SectionWords(s) = {text} \cup ToSet(two) \cup ToSet(three)
  BY <1>1 DEF SectionWords, CheckWords
<1> QED
  BY <1>3, <1>4, <1>5, <1>6, <1>7

LEMMA ClosingWords ==
  ASSUME NEW W, NEW P, NEW s \in Sectional(W, P), s.check = None
  PROVE  ToSet(<<s.statement>> \o s.notes) = SectionWords(s)
<1>1. PICK text, one, two : text = s.statement /\ one = <<text>> /\ two = s.notes
  OBVIOUS
<1>2. text \in W /\ two \in Seq(W)
  BY <1>1, SectionIs
<1>3. one \in Seq(W) /\ ToSet(one) = {text}
  <2>1. one \in Seq(W) /\ Len(one) = 1 /\ one[1] = text
    BY <1>1, <1>2
  <2>2. ToSet(one) = {one[i] : i \in 1..1}
    BY <2>1, ToSetIs
  <2> QED
    BY <2>1, <2>2
<1>4. ToSet(one \o two) = ToSet(one) \cup ToSet(two)
  BY <1>2, <1>3, ToSetConcat
<1>5. SectionWords(s) = {text} \cup ToSet(two)
  BY <1>1 DEF SectionWords, CheckWords
<1> QED
  BY <1>1, <1>3, <1>4, <1>5

LEMMA ParserKeeps ==
  ASSUME NEW d, IsDraft(d), NEW f, NEW parsed, parsed = ParseEntry(f, d), parsed.rejection = None,
         NEW i \in DOMAIN d.lines, d.lines[i].kind \notin {"blank", "fix", "undocumented"}
  PROVE  d.lines[i].text \in EntryWords(parsed.entry)
<1>1. PICK b, e, W, P, sections :
        /\ b = Body(d.lines) /\ e = ParsedEntry(f, d, b) /\ W = Texts(d) /\ P = Named(d)
        /\ sections = CauseSections(b)
  OBVIOUS
<1>2. parsed.entry = e /\ ParseFailure(d, b) = None
  BY <1>1, ParsedIs
<1>3. /\ b \in Bodied(W, P) /\ sections \in Seq(Sectional(W, P)) /\ e.symptom = b.symptom
      /\ e.phrasings = b.phrasings /\ e.preamble = b.preamble
      /\ e.closing = IF HasClosing(b) THEN <<Last(b.sections).statement>> \o Last(b.sections).notes
                     ELSE <<>>
      /\ e.causes = [j \in 1..Len(sections) |-> ParsedCause(sections[j])]
      /\ \A j \in 1..Len(sections) : /\ sections[j] \in Sectional(W, P)
                                     /\ sections[j].check # None /\ sections[j].check \in Seq(W)
  <2>1. IsEntryOf(e, f, b, W, P, sections)
    BY <1>1, <1>2, EntryIs
  <2> QED
    BY <2>1 DEF IsEntryOf
<1>4. PICK symptom : symptom = e.symptom.text
  OBVIOUS
<1>5. ToSet(HeadOf(e)) = {symptom} \cup ToSet(b.phrasings) \cup ToSet(b.preamble)
  <2>1. e.phrasings \in Seq(W) /\ e.preamble \in Seq(W)
    BY <1>3, BodyIs
  <2> QED
    <3>1. ToSet(HeadOf(e)) = {symptom} \cup ToSet(e.phrasings) \cup ToSet(e.preamble)
      BY <1>4, <2>1, HeadWords
    <3> QED
      BY <1>3, <3>1
<1>6. PICK line : line = d.lines[i]
  OBVIOUS
<1>7. CASE line.kind = "symptom"
  <2>1. i \in Symptoms(d)
    BY <1>6, <1>7 DEF Symptoms
  <2>2. PICK j \in Symptoms(d) : b.symptom = d.lines[j].to
    BY <1>1, <2>1, BodyKeeps
  <2>3. Cardinality(Symptoms(d)) = 1
    BY <1>1, <1>2, <1>3, FileStands
  <2>4. IsFiniteSet(Symptoms(d))
    <3>1. PICK n \in Nat : DOMAIN d.lines = 1..n
      BY LinesAre
    <3>2. Symptoms(d) \in SUBSET (1..n) /\ IsFiniteSet(1..n)
      BY <3>1, FS_Interval DEF Symptoms
    <3> QED
      BY <3>2, FS_Subset
  <2>5. i = j
    <3>1. PICK x : Symptoms(d) = {x}
      BY <2>3, <2>4, FS_Singleton
    <3> QED
      BY <2>1, <3>1
  <2>6. line.to.text = line.text
    BY <1>6, <1>7, LinesAre
  <2>7. symptom = line.text
    BY <1>3, <1>4, <1>6, <2>2, <2>5, <2>6
  <2> QED
    BY <1>2, <1>5, <1>6, <2>7 DEF EntryWords
<1>8. CASE line.kind # "symptom"
  <2>1. line.text \in KeptWords(b)
    BY <1>1, <1>6, <1>8, BodyKeeps DEF Silent
  <2>2. CASE line.text \in ToSet(b.phrasings) \cup ToSet(b.preamble)
    BY <1>2, <1>5, <1>6, <2>2 DEF EntryWords
  <2>3. CASE line.text \in WordsIn(b.sections)
    <3>1. PICK s \in ToSet(b.sections) : line.text \in SectionWords(s)
      BY <2>3 DEF WordsIn
    <3>2. /\ ToSet(b.sections) = ToSet(sections) \cup (IF HasClosing(b) THEN {Last(b.sections)} ELSE {})
          /\ HasClosing(b) => /\ Last(b.sections) \in Sectional(W, P)
                              /\ Last(b.sections).check = None
      <4>1. b \in Bodied(W, P)
        BY <1>3
      <4> QED
        BY <1>1, <4>1, SectionsAre
    <3>3. CASE s \in ToSet(sections)
      <4>1. PICK j \in 1..Len(sections) : s = sections[j]
        BY <1>3, <3>3, ToSetIs
      <4>2. s \in Sectional(W, P) /\ s.check # None /\ s.check \in Seq(W)
        BY <1>3, <4>1
      <4>3. e.causes[j] = ParsedCause(s) /\ j \in DOMAIN e.causes
        BY <1>3, <4>1
      <4>4. line.text \in ToSet(BlockOf(e.causes[j]))
        BY <3>1, <4>2, <4>3, BlockWords
      <4> QED
        BY <1>2, <1>6, <4>3, <4>4 DEF EntryWords
    <3>4. CASE HasClosing(b) /\ s = Last(b.sections)
      <4>1. ToSet(<<s.statement>> \o s.notes) = SectionWords(s)
        BY <3>2, <3>4, ClosingWords
      <4>2. e.closing = <<s.statement>> \o s.notes
        BY <1>3, <3>4
      <4> QED
        BY <1>2, <1>6, <3>1, <4>1, <4>2 DEF EntryWords
    <3> QED
      BY <3>1, <3>2, <3>3, <3>4
  <2> QED
    BY <2>1, <2>2, <2>3 DEF KeptWords
<1> QED
  BY <1>7, <1>8

\* Every file is one an author may write, whatever the runs do.
Written == \A f \in ToSet(Files) : files[f] \in Drafts(f) \cup {Absent}

LEMMA WrittenKept == Written /\ [Next]_vars => Written'
<1> SUFFICES ASSUME Written, [Next]_vars PROVE Written'
  OBVIOUS
<1>1. CASE \E g \in ToSet(Files) : Edit(g)
  <2>1. PICK g \in ToSet(Files) : Edit(g)
    BY <1>1
  <2>2. PICK d \in Drafts(g) \cup {Absent} : files' = [files EXCEPT ![g] = d]
    BY <2>1 DEF Edit
  <2>3. ASSUME NEW f \in ToSet(Files) PROVE files'[f] \in Drafts(f) \cup {Absent}
    <3>1. files'[f] = files[f] \/ (f = g /\ files'[f] = d)
      BY <2>2
    <3> QED
      BY <3>1 DEF Written
  <2> QED
    BY <2>3 DEF Written
<1>2. CASE UNCHANGED files
  BY <1>2 DEF Written
<1>3. (\E g \in ToSet(Files) : Edit(g)) \/ UNCHANGED files
  BY DEF Next, vars, StartRun, LoseLedger, Load, FailLoad, TruncateLedger, WriteLedger, Build,
         Publish, Crash, Validate
<1> QED
  BY <1>1, <1>2, <1>3

LEMMA WrittenStays == Spec => []Written
<1>1. Init => Written
  BY DEF Init, Written
<1> QED
  BY <1>1, WrittenKept, PTL DEF Spec

\* parse.py:459: of a file a load accepts, the parser loses no word but those of a
\* pointer or a claim, whatever the grammar makes of the line they stand on.
THEOREM NoWordIsLost == Spec => []WordsAreKept
<1>1. Written => WordsAreKept
  <2> SUFFICES ASSUME Written, NEW f \in ToSet(Present(files)), NEW parsed,
                      parsed = ParseEntry(f, files[f]), parsed.rejection = None
               PROVE  {files[f].lines[i].text : i \in {k \in DOMAIN files[f].lines :
                          files[f].lines[k].kind \notin {"blank", "fix", "undocumented"}}}
                        \subseteq EntryWords(parsed.entry)
    BY DEF WordsAreKept, EntryWords
  <2>1. f \in ToSet(Files) /\ files[f] # Absent
    <3>1. PICK kept, paths : kept = {g \in ToSet(Files) : files[g] # Absent} /\ paths = Present(files)
      OBVIOUS
    <3>2. Files \in Seq(ToSet(Files))
      BY FilesAssumption DEF IsSeq
    <3>3. ToSet(paths) = ToSet(Files) \cap kept
      BY <3>1, <3>2, AmongElements DEF Present
    <3> QED
      BY <3>1, <3>3
  <2>2. IsDraft(files[f])
    BY <2>1, DraftsAssumption DEF Written
  <2> QED
    BY <2>2, ParserKeeps
<1> QED
  BY <1>1, WrittenStays, PTL

-----------------------------------------------------------------------------
(* What a load serves.                                                     *)

\* A section of the view has passages there.
LEMMA SectionHasPassages ==
  ASSUME NEW rows, IsSeq(rows), NEW section \in ToSet(Sections(rows))
  PROVE  PassagesOf(rows, section) # <<>>
<1>1. PICK n, T : n \in Nat /\ T = ToSet(rows) /\ rows \in Seq(T) /\ DOMAIN rows = 1..n
  BY DEF IsSeq
<1>2. PICK list : list = [i \in 1..n |-> SectionOf(rows[i])]
  OBVIOUS
<1>3. PICK U : U = {SectionOf(rows[i]) : i \in 1..n}
  OBVIOUS
<1>4. list \in Seq(U)
  BY <1>1, <1>2, <1>3
<1>5. Sections(rows) = Updated(<<>>, list)
  BY <1>1, <1>2 DEF Sections
<1>6. Updated(<<>>, list) \in Seq(U)
  BY <1>4, UpdatedIs
<1>7. section \in U
  BY <1>5, <1>6, ToSetIs
<1>8. PICK i \in 1..n : section = SectionOf(rows[i])
  BY <1>3, <1>7
<1>9. PICK own, set : set = {row \in T : SectionOf(row) = section} /\ own = Among(rows, set)
  OBVIOUS
<1>10. own \in Seq(T) /\ ToSet(own) = ToSet(rows) \cap set
  BY <1>1, <1>9, AmongElements
<1>11. rows[i] \in ToSet(own)
  BY <1>1, <1>8, <1>9, <1>10 DEF ToSet
<1>12. PICK k : k \in DOMAIN own
  BY <1>11 DEF ToSet
<1>13. PassagesOf(rows, section) = [j \in DOMAIN own |-> own[j].id]
  BY <1>1, <1>9 DEF PassagesOf
<1>14. DOMAIN PassagesOf(rows, section) # {}
  BY <1>12, <1>13
<1> QED
  BY <1>14

LEMMA SectionsIs ==
  ASSUME NEW rows, IsSeq(rows)
  PROVE  Sections(rows) \in Seq(ToSet(Sections(rows)))
<1>1. PICK n, T : n \in Nat /\ T = ToSet(rows) /\ rows \in Seq(T) /\ DOMAIN rows = 1..n
  BY DEF IsSeq
<1>2. PICK list, U : list = [i \in 1..n |-> SectionOf(rows[i])] /\ U = {SectionOf(rows[i]) : i \in 1..n}
  OBVIOUS
<1>3. list \in Seq(U)
  BY <1>1, <1>2
<1>4. Sections(rows) = Updated(<<>>, list)
  BY <1>1, <1>2 DEF Sections
<1>5. Sections(rows) \in Seq(U)
  BY <1>3, <1>4, UpdatedIs
<1> QED
  BY <1>5, IsSeqOf DEF IsSeq

\* One section is resolved to its passages, none or several to nothing.
LEMMA TheOnlyIs ==
  ASSUME NEW rows, IsSeq(rows), NEW found \in Seq(ToSet(Sections(rows)))
  PROVE  TheOnly(found, rows).reason = None <=> TheOnly(found, rows).ids # <<>>
<1>1. CASE Len(found) = 0
  <2>1. TheOnly(found, rows) = Unresolved("no-such-section")
    BY <1>1 DEF TheOnly
  <2> QED
    BY <2>1, NoneAssumption DEF Unresolved, Reasons
<1>2. CASE Len(found) = 1
  <2>1. TheOnly(found, rows) = [ids |-> PassagesOf(rows, found[1]), reason |-> None]
    BY <1>2 DEF TheOnly
  <2>2. found[1] \in ToSet(Sections(rows))
    BY <1>2
  <2> QED
    BY <2>1, <2>2, SectionHasPassages
<1>3. CASE Len(found) # 0 /\ Len(found) # 1
  <2>1. TheOnly(found, rows) = Unresolved("ambiguous-title")
    BY <1>3 DEF TheOnly
  <2> QED
    BY <2>1, NoneAssumption DEF Unresolved, Reasons
<1> QED
  BY <1>1, <1>2, <1>3

\* What a pointer resolves to is never an empty list of passages.
LEMMA ResolvedIs ==
  ASSUME NEW rows, IsSeq(rows), NEW p
  PROVE  Resolve(p, rows).reason = None <=> Resolve(p, rows).ids # <<>>
<1>1. PICK T, sections : T = ToSet(Sections(rows)) /\ sections = Sections(rows)
  OBVIOUS
<1>2. sections \in Seq(T)
  BY <1>1, SectionsIs
<1>3. CASE p.source = AuthoredSource
  <2>1. Resolve(p, rows) = Unresolved("authored-target")
    BY <1>3 DEF Resolve
  <2> QED
    BY <2>1, NoneAssumption DEF Unresolved, Reasons
<1>4. CASE p.source # AuthoredSource /\ ~KnowsSource(rows, p.source)
  <2>1. Resolve(p, rows) = Unresolved("unknown-source")
    BY <1>4 DEF Resolve
  <2> QED
    BY <2>1, NoneAssumption DEF Unresolved, Reasons
<1>5. CASE p.source # AuthoredSource /\ KnowsSource(rows, p.source) /\ p.number # None
  <2>1. PICK set, all, found :
          /\ set = {s \in T : s.source = p.source /\ s.number = p.number}
          /\ all = Among(sections, set) /\ found = ByNumber(rows, p.source, p.number)
    OBVIOUS
  <2>2. all \in Seq(T)
    BY <1>2, <2>1, AmongElements
  <2>3. found = IF all = <<>> THEN <<>> ELSE <<Last(all)>>
    BY <1>1, <2>1 DEF ByNumber
  <2>4. found \in Seq(T)
    BY <2>2, <2>3, FrontAndLast
  <2>5. Resolve(p, rows) = TheOnly(found, rows)
    BY <1>5, <2>1 DEF Resolve
  <2> QED
    BY <1>1, <2>4, <2>5, TheOnlyIs
<1>6. CASE p.source # AuthoredSource /\ KnowsSource(rows, p.source) /\ p.number = None
  <2>1. PICK words, same, longer, exact, prefixed :
          /\ words = NormaliseTitle(p.title)
          /\ same = {s \in T : s.source = p.source /\ NormaliseTitle(s.title) = words}
          /\ longer = {s \in T : s.source = p.source /\ IsPrefix(words, NormaliseTitle(s.title))}
          /\ exact = ByTitle(rows, p.source, words) /\ prefixed = ByPrefix(rows, p.source, words)
    OBVIOUS
  <2>2. exact = Among(sections, same) /\ prefixed = Among(sections, longer)
    BY <1>1, <2>1 DEF ByTitle, ByPrefix
  <2>3. exact \in Seq(T) /\ prefixed \in Seq(T)
    BY <1>2, <2>2, AmongElements
  <2>4. PICK found : found = IF exact # <<>> THEN exact ELSE prefixed
    OBVIOUS
  <2>5. Resolve(p, rows) = TheOnly(found, rows)
    BY <1>6, <2>1, <2>4 DEF Resolve, ResolveTitle
  <2> QED
    BY <1>1, <2>3, <2>4, <2>5, TheOnlyIs
<1> QED
  BY <1>3, <1>4, <1>5, <1>6

\* A cause as it is served: its claim stands in for pointers, each of those that
\* is not backed has drifted, and the mark says that either is so.
Weighed(q) ==
  /\ \E k \in Nat : DOMAIN q.pointers = 1..k
  /\ q.cause.claim # None <=> DOMAIN q.pointers = {}
  /\ \A j \in DOMAIN q.pointers : Drifted(q.pointers[j]) <=> q.pointers[j].ids = <<>>
  /\ q.unbacked <=> (q.cause.claim # None \/ \E j \in DOMAIN q.pointers : Drifted(q.pointers[j]))

LEMMA CheckedIs ==
  ASSUME NEW rows, IsSeq(rows), NEW p, NEW book, ~Rejected(CheckPointer(p, rows, book))
  PROVE  Drifted(CheckPointer(p, rows, book)) <=> CheckPointer(p, rows, book).ids = <<>>
<1>1. PICK c : c = CheckPointer(p, rows, book)
  OBVIOUS
<1>2. c.ids = Resolve(p, rows).ids /\ c.reason = Resolve(p, rows).reason
  BY <1>1 DEF CheckPointer
<1>3. c.reason = None <=> c.ids # <<>>
  BY <1>2, ResolvedIs
<1>4. Drifted(c) <=> c.reason # None
  BY <1>1 DEF Drifted, Rejected, Ok
<1> QED
  BY <1>1, <1>3, <1>4

LEMMA WeighedIs ==
  ASSUME NEW e, NEW i, NEW k \in Nat, DOMAIN e.causes[i].fixes = 1..k,
         e.causes[i].claim # None <=> 1..k = {},
         NEW view, IsSeq(view.rows), NEW book, NEW gear, NEW checked,
         checked = [j \in 1..k |-> CheckPointer(e.causes[i].fixes[j], view.rows, book)],
         ~Withdrawn(checked)
  PROVE  Weighed(CauseOutcome(e, i, checked, view, gear))
<1>1. PICK q : q = CauseOutcome(e, i, checked, view, gear)
  OBVIOUS
<1>2. /\ q.cause = e.causes[i] /\ q.pointers = checked
      /\ q.unbacked = Unbacked(e.causes[i], checked)
  BY <1>1 DEF CauseOutcome
<1>3. DOMAIN q.pointers = 1..k
  BY <1>2
<1>4. ASSUME NEW j \in 1..k PROVE Drifted(q.pointers[j]) <=> q.pointers[j].ids = <<>>
  <2>1. PICK p : p = e.causes[i].fixes[j]
    OBVIOUS
  <2>2. q.pointers[j] = CheckPointer(p, view.rows, book)
    BY <1>2, <2>1
  <2>3. ~Rejected(CheckPointer(p, view.rows, book))
    BY <2>1 DEF Withdrawn
  <2> QED
    BY <2>2, <2>3, CheckedIs
<1>5. q.unbacked <=> (q.cause.claim # None \/ \E j \in DOMAIN q.pointers : Drifted(q.pointers[j]))
  BY <1>2 DEF Unbacked
<1> QED
  BY <1>1, <1>2, <1>3, <1>4, <1>5 DEF Weighed

\* An entry the parser lets stand: a claim takes the place of the pointers.
PointsOrClaims(cause) ==
  \E k \in Nat : DOMAIN cause.fixes = 1..k /\ (cause.claim # None <=> 1..k = {})

Standing(e) ==
  /\ Len(e.causes) \in Nat /\ DOMAIN e.causes = 1..Len(e.causes)
  /\ \A i \in 1..Len(e.causes) : PointsOrClaims(e.causes[i])
  /\ \E W : Blocks(e) \in Seq(Seq(W))

LEMMA StandingIs ==
  ASSUME NEW d, IsDraft(d), NEW f, NEW parsed, parsed = ParseEntry(f, d), parsed.rejection = None
  PROVE  Standing(parsed.entry) /\ parsed.entry.file = f
<1>1. PICK b, e, W, P, sections :
        /\ b = Body(d.lines) /\ e = ParsedEntry(f, d, b) /\ W = Texts(d) /\ P = Named(d)
        /\ sections = CauseSections(b)
  OBVIOUS
<1>2. parsed.entry = e /\ ParseFailure(d, b) = None
  BY <1>1, ParsedIs
<1>3. IsEntryOf(e, f, b, W, P, sections)
  BY <1>1, <1>2, EntryIs
<1>4. PICK n : n = Len(sections)
  OBVIOUS
<1>5. n \in Nat /\ e.file = f /\ e.causes = [i \in 1..n |-> ParsedCause(sections[i])]
  BY <1>3, <1>4 DEF IsEntryOf
<1>6. DOMAIN e.causes = 1..n /\ Len(e.causes) = n
  BY <1>5
<1>7. ASSUME NEW i \in 1..n PROVE PointsOrClaims(e.causes[i])
  <2>1. PICK s : s = sections[i]
    OBVIOUS
  <2>2. s \in Sectional(W, P) /\ (s.fixes = <<>> <=> s.undocumented # None)
    BY <1>3, <1>4, <2>1 DEF IsEntryOf
  <2>3. e.causes[i].fixes = s.fixes /\ e.causes[i].claim = s.undocumented
    BY <1>5, <2>1 DEF ParsedCause
  <2>4. s.fixes \in Seq(P)
    BY <2>2, SectionIs
  <2>5. PICK k \in Nat : k = Len(s.fixes) /\ DOMAIN s.fixes = 1..k
    BY <2>4
  <2>6. s.fixes = <<>> <=> 1..k = {}
    <3>1. CASE k = 0
      <4>1. s.fixes = <<>> /\ 1..k = {}
        <5>1. s.fixes \in Seq(P) /\ Len(s.fixes) = 0
          BY <2>4, <2>5, <3>1
        <5>2. s.fixes = <<>>
          BY <5>1
        <5> QED
          BY <3>1, <5>2
      <4> QED
        BY <4>1
    <3>2. CASE k # 0
      <4>1. s.fixes # <<>> /\ 1 \in 1..k
        BY <2>5, <3>2
      <4> QED
        BY <4>1
    <3> QED
      BY <3>1, <3>2
  <2>7. s.undocumented # None <=> 1..k = {}
    BY <2>2, <2>6
  <2> QED
    BY <2>3, <2>5, <2>7 DEF PointsOrClaims
<1>8. Blocks(e) \in Seq(Seq(W))
  BY <1>3, BlocksAre
<1> QED
  BY <1>2, <1>5, <1>6, <1>7, <1>8 DEF Standing

Serving(o) ==
  /\ Len(o.entry.causes) \in Nat
  /\ DOMAIN o.causes = 1..Len(o.entry.causes)
  /\ \A c \in 1..Len(o.entry.causes) : Weighed(o.causes[c])
  /\ \E W : Blocks(o.entry) \in Seq(Seq(W))

\* An entry is served only if no pointer of it is rejected.
LEMMA ServedIs ==
  ASSUME NEW e, Standing(e), NEW view, IsSeq(view.rows), NEW gear, NEW book,
         NEW o, o = EvaluateEntry(e, view, gear, book), o.rejection = None
  PROVE  Serving(o) /\ o.entry = e
<1>1. PICK scope, checked : scope = ScopeRejection(e, gear, view.indexed) /\ checked = Checked(e, view, book)
  OBVIOUS
<1>2. CASE scope # None
  <2>1. o = Excluded(e, scope)
    BY <1>1, <1>2 DEF EvaluateEntry
  <2> QED
    BY <1>2, <2>1 DEF Excluded
<1>3. CASE scope = None /\ \E i \in DOMAIN checked : Withdrawn(checked[i])
  <2>1. o = Excluded(e, PointerRejection(checked))
    BY <1>1, <1>3 DEF EvaluateEntry
  <2>2. PointerRejection(checked) \in {"pointer-authored-target", "pointer-unresolved"}
    BY DEF PointerRejection
  <2> QED
    BY <2>1, <2>2, NoneAssumption DEF Excluded, Reasons
<1>4. CASE scope = None /\ ~\E i \in DOMAIN checked : Withdrawn(checked[i])
  <2>1. o = Ingested(e, checked, view, gear)
    BY <1>1, <1>4 DEF EvaluateEntry
  <2>2. PICK n \in Nat : /\ DOMAIN e.causes = 1..n /\ Len(e.causes) = n
                         /\ \A i \in 1..n : PointsOrClaims(e.causes[i])
    BY DEF Standing
  <2>3. /\ o.entry = e
        /\ o.causes = [i \in 1..n |-> CauseOutcome(e, i, checked[i], view, gear)]
    BY <2>1, <2>2 DEF Ingested
  <2>4. ASSUME NEW i \in 1..n PROVE Weighed(o.causes[i])
    <3>1. PICK k \in Nat : /\ DOMAIN e.causes[i].fixes = 1..k
                           /\ e.causes[i].claim # None <=> 1..k = {}
      BY <2>2 DEF PointsOrClaims
    <3>2. PICK mine : mine = checked[i]
      OBVIOUS
    <3>3. mine = [j \in 1..k |-> CheckPointer(e.causes[i].fixes[j], view.rows, book)]
      BY <1>1, <2>2, <3>1, <3>2 DEF Checked
    <3>4. i \in DOMAIN checked
      BY <1>1, <2>2 DEF Checked
    <3>5. ~Withdrawn(mine)
      BY <1>4, <3>2, <3>4
    <3>6. Weighed(CauseOutcome(e, i, mine, view, gear))
      BY <3>1, <3>3, <3>5, WeighedIs
    <3> QED
      BY <2>3, <3>2, <3>6
  <2>5. \E W : Blocks(o.entry) \in Seq(Seq(W))
    BY <2>3 DEF Standing
  <2> QED
    BY <2>2, <2>3, <2>4, <2>5 DEF Serving
<1> QED
  BY <1>2, <1>3, <1>4

\* What a load serves: whole entries, each of a file of its own.
Serves(served, n) ==
  /\ n \in Nat /\ DOMAIN served = 1..n
  /\ \A i \in 1..n : Serving(served[i])
  /\ \A i, j \in 1..n : served[i].entry.file = served[j].entry.file => i = j

Sound(o) == \E n : Serves(Ingesting(o), n)

\* What is accepted of the parsed files, and of the outcomes after it.
LEMMA JudgedIs ==
  ASSUME NEW good, NEW m \in Nat, DOMAIN good = 1..m, NEW view, IsSeq(view.rows), NEW gear, NEW book,
         NEW i \in 1..m, Standing(good[i].entry),
         NEW o, o = Judged(good, view, gear, book)[i], o.rejection = None
  PROVE  Serving(o) /\ o.entry = good[i].entry
<1>1. PICK e : e = good[i].entry
  OBVIOUS
<1>2. CASE \E j \in DOMAIN good \ {i} : Clashes(good[i].entry, good[j].entry)
  <2>1. o = Excluded(e, "duplicate-symptom")
    BY <1>1, <1>2 DEF Judged
  <2> QED
    BY <2>1, NamesAssumption DEF Excluded, Failures
<1>3. CASE ~\E j \in DOMAIN good \ {i} : Clashes(good[i].entry, good[j].entry)
  <2>1. o = EvaluateEntry(e, view, gear, book)
    BY <1>1, <1>3 DEF Judged
  <2>2. Standing(e)
    BY <1>1
  <2>3. Serving(o) /\ o.entry = e
    BY <2>1, <2>2, ServedIs
  <2> QED
    BY <1>1, <2>3
<1> QED
  BY <1>2, <1>3

\* Of the files an author may write, what the verdict is about are entries of theirs.
LEMMA GoodStands ==
  ASSUME NEW store, \A f \in ToSet(Files) : store[f] # Absent => IsDraft(store[f]),
         NEW view, NEW gear, NEW book,
         NEW paths, NEW n, NEW parsed, NEW m, NEW at,
         Stages(store, view, gear, book, paths, n, parsed, m, at),
         NEW good, good = Accepted(parsed)
  PROVE  \A k \in 1..m : Standing(good[k].entry) /\ good[k].entry.file = paths[at[k]]
<1>1. \A i \in 1..n : paths[i] \in ToSet(Files) /\ store[paths[i]] # Absent
  BY DEF Stages
<1>2. parsed = [i \in 1..n |-> ParseEntry(paths[i], store[paths[i]])]
  BY DEF Stages
<1>3. StandsAt(at, m, n, parsed)
  BY DEF Stages
<1>4. /\ m \in Nat /\ at \in [1..m -> 1..n]
      /\ \A k \in 1..m : good[k] = parsed[at[k]] /\ parsed[at[k]].rejection = None
  BY <1>3 DEF StandsAt
<1>5. ASSUME NEW k \in 1..m
      PROVE  Standing(good[k].entry) /\ good[k].entry.file = paths[at[k]]
  <2>1. PICK f : f = paths[at[k]]
    OBVIOUS
  <2>2. at[k] \in 1..n
    BY <1>4
  <2>4. f \in ToSet(Files) /\ store[f] # Absent
    BY <1>1, <2>1, <2>2
  <2>5. PICK d : d = store[f]
    OBVIOUS
  <2>6. IsDraft(d)
    BY <2>4, <2>5
  <2>7. PICK mine : mine = good[k]
    OBVIOUS
  <2>8. mine = ParseEntry(f, d) /\ mine.rejection = None
    BY <1>2, <1>4, <2>1, <2>2, <2>5, <2>7
  <2>9. Standing(mine.entry) /\ mine.entry.file = f
    BY <2>6, <2>8, StandingIs
  <2> QED
    BY <2>1, <2>7, <2>9
<1> QED
  BY <1>5

LEMMA EvaluateSound ==
  ASSUME NEW store, \A f \in ToSet(Files) : store[f] # Absent => IsDraft(store[f]),
         NEW view, IsSeq(view.rows), NEW gear, NEW book
  PROVE  Sound(Evaluate(store, view, gear, book))
<1>1. PICK paths, n, parsed, m, at : Stages(store, view, gear, book, paths, n, parsed, m, at)
  BY EvaluateIs
<1>2. n \in Nat /\ DOMAIN paths = 1..n /\ IsInjective(paths)
  BY <1>1 DEF Stages
<1>3. \A i \in 1..n : paths[i] \in ToSet(Files) /\ store[paths[i]] # Absent
  BY <1>1 DEF Stages
<1>4. parsed = [i \in 1..n |-> ParseEntry(paths[i], store[paths[i]])]
  BY <1>1 DEF Stages
<1>5. Evaluate(store, view, gear, book).outcomes = Judged(Accepted(parsed), view, gear, book)
  BY <1>1 DEF Stages
<1>6. StandsAt(at, m, n, parsed)
  BY <1>1 DEF Stages
<1>7. PICK good : good = Accepted(parsed)
  OBVIOUS
<1>8. /\ m \in Nat /\ at \in [1..m -> 1..n] /\ DOMAIN good = 1..m
      /\ \A k \in 1..m : good[k] = parsed[at[k]] /\ parsed[at[k]].rejection = None
      /\ \A k, l \in 1..m : at[k] = at[l] => k = l
  BY <1>6, <1>7 DEF StandsAt
<1>9. PICK outcomes : outcomes = Judged(good, view, gear, book)
  OBVIOUS
<1>10. DOMAIN outcomes = 1..m
  BY <1>8, <1>9 DEF Judged
<1>11. PICK l, to : StandsAt(to, l, m, outcomes)
  <2>1. outcomes = [i \in 1..m |-> outcomes[i]]
    BY <1>8, <1>9 DEF Judged
  <2>2. IsSeq(outcomes)
    BY <1>8, <2>1, ListOver
  <2> QED
    BY <1>8, <1>10, <2>2, AcceptedIs
<1>12. PICK served : served = Accepted(outcomes)
  OBVIOUS
<1>13. /\ l \in Nat /\ to \in [1..l -> 1..m] /\ DOMAIN served = 1..l
       /\ \A k \in 1..l : served[k] = outcomes[to[k]] /\ outcomes[to[k]].rejection = None
       /\ \A j, k \in 1..l : to[j] = to[k] => j = k
  BY <1>11, <1>12 DEF StandsAt
<1>14. \A k \in 1..m : Standing(good[k].entry) /\ good[k].entry.file = paths[at[k]]
  BY <1>1, <1>7, GoodStands
<1>15. \A k \in 1..l : Serving(served[k]) /\ served[k].entry.file = paths[at[to[k]]]
  <2>1. SUFFICES ASSUME NEW k \in 1..l
                 PROVE  Serving(served[k]) /\ served[k].entry.file = paths[at[to[k]]]
    OBVIOUS
  <2>2. PICK o, i : o = served[k] /\ i = to[k]
    OBVIOUS
  <2>3. i \in 1..m
    BY <1>13, <2>2
  <2>4. o = Judged(good, view, gear, book)[i] /\ o.rejection = None
    BY <1>9, <1>13, <2>2
  <2>5. Standing(good[i].entry) /\ good[i].entry.file = paths[at[i]]
    BY <1>14, <2>3
  <2>6. Serving(o) /\ o.entry = good[i].entry
    BY <1>8, <2>3, <2>4, <2>5, JudgedIs
  <2> QED
    BY <2>2, <2>5, <2>6
<1>16. ASSUME NEW j \in 1..l, NEW k \in 1..l, served[j].entry.file = served[k].entry.file
       PROVE  j = k
  <2>1. PICK a, b : a = to[j] /\ b = to[k]
    OBVIOUS
  <2>2. a \in 1..m /\ b \in 1..m
    BY <1>13, <2>1
  <2>3. at[a] \in 1..n /\ at[b] \in 1..n
    BY <1>8, <2>2
  <2>4. paths[at[a]] = paths[at[b]]
    BY <1>15, <1>16, <2>1
  <2>5. at[a] = at[b]
    BY <1>2, <2>3, <2>4 DEF IsInjective
  <2>6. a = b
    BY <1>8, <2>2, <2>5
  <2> QED
    BY <1>13, <2>1, <2>6
<1>17. Serves(served, l)
  BY <1>13, <1>15, <1>16 DEF Serves
<1>18. PICK found : found = Evaluate(store, view, gear, book)
  OBVIOUS
<1>19. found.outcomes = outcomes
  BY <1>5, <1>7, <1>9, <1>18
<1>20. Ingesting(found) = served
  BY <1>12, <1>19 DEF Ingesting
<1> QED
  BY <1>17, <1>18, <1>20 DEF Sound

\* A passage of an entry: some of its causes, and its mark speaks of those alone.
IsPiece(p, o) ==
  /\ p.file = o.entry.file /\ p.line = o.entry.line
  /\ p.causes \subseteq 1..Len(o.entry.causes)
  /\ p.unbacked <=> \E c \in p.causes : o.causes[c].unbacked

\* How many words an entry has after its head; the passages it is cut into.
AllBlocks(o) == Len(FlattenSeq(Blocks(o.entry)))
Cuts(o) ==
  {PassageOf(o, PassageEnds(o.entry, AllBlocks(o))[k - 1], PassageEnds(o.entry, AllBlocks(o))[k]) :
     k \in 1..(AllBlocks(o) + 1)}

LEMMA CutsArePieces ==
  ASSUME NEW o, Serving(o)
  PROVE  \A p \in Cuts(o) : IsPiece(p, o)
<1> SUFFICES ASSUME NEW from, NEW upto, NEW p, p = PassageOf(o, from, upto)
             PROVE  IsPiece(p, o)
  BY DEF Cuts
<1>1. PICK causes : causes = {i \in DOMAIN o.causes : BlockEnd(o.entry, i - 1) < upto /\ from < BlockEnd(o.entry, i)}
  OBVIOUS
<1>2. /\ p.file = o.entry.file /\ p.line = o.entry.line /\ p.causes = causes
      /\ p.unbacked <=> \E i \in causes : o.causes[i].unbacked
  BY <1>1 DEF PassageOf
<1>3. causes \subseteq 1..Len(o.entry.causes)
  BY <1>1 DEF Serving
<1> QED
  BY <1>2, <1>3 DEF IsPiece

LEMMA EmitIs ==
  ASSUME NEW o, Serving(o)
  PROVE  Emit(o) \in Seq(Cuts(o))
<1>1. PICK total : total = AllBlocks(o)
  OBVIOUS
<1>2. total \in Nat
  <2>1. PICK W : Blocks(o.entry) \in Seq(Seq(W))
    BY DEF Serving
  <2>2. FlattenSeq(Blocks(o.entry)) \in Seq(W)
    BY <2>1, FlattenIs
  <2> QED
    BY <1>1, <2>2 DEF AllBlocks
<1>3. PICK end : end = PassageEnds(o.entry, total)
  OBVIOUS
<1>4. PICK begun : begun = {k \in 1..(total + 1) : k = 1 \/ end[k - 1] < total}
  OBVIOUS
<1>5. PICK count : count = Cardinality(begun)
  OBVIOUS
<1>6. count \in Nat /\ count <= total + 1
  <2>1. IsFiniteSet(1..(total + 1)) /\ Cardinality(1..(total + 1)) = total + 1
    BY <1>2, FS_Interval
  <2>2. begun \subseteq 1..(total + 1)
    BY <1>4
  <2>3. IsFiniteSet(begun) /\ Cardinality(begun) <= Cardinality(1..(total + 1))
    BY <2>1, <2>2, FS_Subset
  <2>4. Cardinality(begun) \in Nat
    BY <2>3, FS_CardinalityType
  <2> QED
    BY <1>5, <2>1, <2>3, <2>4
<1>7. ASSUME NEW k \in 1..count PROVE PassageOf(o, end[k - 1], end[k]) \in Cuts(o)
  <2>1. k \in 1..(total + 1)
    BY <1>2, <1>6
  <2> QED
    BY <1>1, <1>3, <2>1 DEF Cuts
<1>8. Emit(o) = [k \in 1..count |-> PassageOf(o, end[k - 1], end[k])]
  BY <1>1, <1>3, <1>4, <1>5 DEF Emit, AllBlocks
<1> QED
  BY <1>6, <1>7, <1>8

\* Equal texts are told apart by how many of them came before.
LEMMA IdsDiffer ==
  ASSUME NEW T, NEW list \in Seq(T)
  PROVE  \A i, j \in 1..Len(list) : Identified(list)[i].id = Identified(list)[j].id => i = j
<1> DEFINE Before(i) == {j \in 1..(i - 1) : list[j].text = list[i].text}
           Id(i) == [text |-> list[i].text, nth |-> Cardinality(Before(i))]
<1>1. PICK n \in Nat : n = Len(list)
  OBVIOUS
<1>2. \A i \in 1..n : IsFiniteSet(Before(i)) /\ Cardinality(Before(i)) \in Nat
  <2>1. SUFFICES ASSUME NEW i \in 1..n PROVE IsFiniteSet(Before(i)) /\ Cardinality(Before(i)) \in Nat
    OBVIOUS
  <2>2. IsFiniteSet(1..(i - 1)) /\ Before(i) \subseteq 1..(i - 1)
    BY FS_Interval
  <2>3. IsFiniteSet(Before(i))
    BY <2>2, FS_Subset
  <2> QED
    BY <2>3, FS_CardinalityType
<1>3. \A i, j \in 1..n : i < j => Id(i) # Id(j)
  <2>1. SUFFICES ASSUME NEW i \in 1..n, NEW j \in 1..n, i < j, list[i].text = list[j].text
                 PROVE  Cardinality(Before(i)) # Cardinality(Before(j))
    OBVIOUS
  <2>2. Before(i) \subseteq Before(j)
    BY <2>1
  <2>3. i \in Before(j) /\ i \notin Before(i)
    BY <2>1
  <2>4. IsFiniteSet(Before(j))
    BY <1>2
  <2> HIDE DEF Before
  <2>5. Cardinality(Before(i)) = Cardinality(Before(j)) => Before(i) = Before(j)
    BY <2>2, <2>4, FS_Subset
  <2> QED
    BY <2>3, <2>5
<1>4. \A i \in 1..n : Identified(list)[i].id = Id(i)
  <2>1. SUFFICES ASSUME NEW i \in 1..n PROVE Identified(list)[i].id = Id(i)
    OBVIOUS
  <2>2. DOMAIN list = 1..n
    BY <1>1
  <2>3. Identified(list)[i] = [list[i] EXCEPT !.id = Id(i)]
    BY <2>2 DEF Identified
  <2> QED
    BY <2>3
<1> HIDE DEF Id
<1> QED
  BY <1>1, <1>3, <1>4

\* The passages of a load: pieces of what it serves, each with its own id.
Chunked(list, n, served, m) ==
  /\ n \in Nat /\ DOMAIN list = 1..n
  /\ \A k \in 1..n : \E i \in 1..m : IsPiece(list[k], served[i])
  /\ \A k, l \in 1..n : list[k].id = list[l].id => k = l

LEMMA ChunksAre ==
  ASSUME NEW o, NEW m, Serves(Ingesting(o), m)
  PROVE  \E n : Chunked(Chunks(o), n, Ingesting(o), m)
<1>1. PICK served : served = Ingesting(o)
  OBVIOUS
<1>2. m \in Nat /\ DOMAIN served = 1..m /\ \A i \in 1..m : Serving(served[i])
  BY <1>1 DEF Serves
<1>3. PICK T : T = UNION {Cuts(served[i]) : i \in 1..m}
  OBVIOUS
<1>4. PICK parts : parts = [i \in 1..m |-> Emit(served[i])]
  OBVIOUS
<1>5. \A i \in 1..m : parts[i] \in Seq(T)
  <2>1. SUFFICES ASSUME NEW i \in 1..m PROVE parts[i] \in Seq(T)
    OBVIOUS
  <2>2. PICK mine : mine = Cuts(served[i])
    OBVIOUS
  <2>3. parts[i] \in Seq(mine)
    BY <1>2, <1>4, <2>2, EmitIs
  <2>4. mine \subseteq T
    BY <1>3, <2>2
  <2> QED
    BY <2>3, <2>4
<1>6. parts \in Seq(Seq(T))
  BY <1>2, <1>4, <1>5
<1>7. PICK list : list = FlattenSeq(parts)
  OBVIOUS
<1>8. list \in Seq(T)
  BY <1>6, <1>7, FlattenIs
<1>9. PICK n \in Nat : n = Len(list) /\ DOMAIN list = 1..n
  BY <1>8
<1>10. PICK chunks : chunks = Identified(list)
  OBVIOUS
<1>11. DOMAIN chunks = 1..n
  BY <1>9, <1>10 DEF Identified
<1>12. ASSUME NEW k \in 1..n PROVE \E i \in 1..m : IsPiece(chunks[k], served[i])
  <2>1. list[k] \in T
    BY <1>8, <1>9
  <2>2. PICK i \in 1..m : list[k] \in Cuts(served[i])
    BY <1>3, <2>1
  <2>3. PICK a, b : list[k] = PassageOf(served[i], a, b)
    BY <2>2 DEF Cuts
  <2>4. IsPiece(list[k], served[i])
    BY <1>2, <2>2, CutsArePieces
  <2>5. PICK id : chunks[k] = [list[k] EXCEPT !.id = id]
    BY <1>9, <1>10 DEF Identified
  <2>6. PICK file, line, symptom, text, causes, unbacked :
          list[k] = [id |-> None, file |-> file, line |-> line, symptom |-> symptom, text |-> text,
                     causes |-> causes, unbacked |-> unbacked]
    BY <2>3 DEF PassageOf
  <2>7. /\ chunks[k].file = list[k].file /\ chunks[k].line = list[k].line
        /\ chunks[k].causes = list[k].causes /\ chunks[k].unbacked = list[k].unbacked
    BY <2>5, <2>6
  <2>8. IsPiece(chunks[k], served[i])
    BY <2>4, <2>7 DEF IsPiece
  <2> QED
    BY <2>8
<1>13. \A k, l \in 1..n : chunks[k].id = chunks[l].id => k = l
  BY <1>8, <1>9, <1>10, IdsDiffer
<1>14. Chunks(o) = chunks
  BY <1>1, <1>2, <1>4, <1>7, <1>10 DEF Chunks
<1>15. Chunked(chunks, n, served, m)
  BY <1>9, <1>11, <1>12, <1>13 DEF Chunked
<1> QED
  BY <1>1, <1>14, <1>15

\* The sidecar's row of a chunk of an entry.
Backing(o) ==
  [c \in DOMAIN o.causes |->
     [j \in DOMAIN o.causes[c].pointers |-> o.causes[c].pointers[j].ids]]

RowOf(id, o) ==
  [id |-> id, file |-> o.entry.file, devices |-> DeviceIds(o.entry), backing |-> Backing(o)]

\* A cause's row is bare exactly when the cause is marked.
LEMMA BareIs ==
  ASSUME NEW q, Weighed(q)
  PROVE  Bare([j \in DOMAIN q.pointers |-> q.pointers[j].ids]) <=> q.unbacked
<1>1. PICK k \in Nat : DOMAIN q.pointers = 1..k
  BY DEF Weighed
<1>2. PICK b : b = [j \in 1..k |-> q.pointers[j].ids]
  OBVIOUS
<1>3. b = <<>> <=> 1..k = {}
  <2>1. CASE k = 0
    <3>1. 1..k = {}
      BY <2>1
    <3>2. b = <<>>
      BY <1>2, <3>1
    <3> QED
      BY <3>1, <3>2
  <2>2. CASE k # 0
    <3>1. 1 \in 1..k /\ 1 \in DOMAIN b
      BY <1>2, <2>2
    <3>2. b # <<>>
      BY <3>1
    <3> QED
      BY <3>1, <3>2
  <2> QED
    BY <2>1, <2>2
<1>4. \A j \in 1..k : b[j] = <<>> <=> Drifted(q.pointers[j])
  BY <1>1, <1>2 DEF Weighed
<1>5. Bare(b) <=> (1..k = {} \/ \E j \in 1..k : Drifted(q.pointers[j]))
  BY <1>2, <1>3, <1>4 DEF Bare
<1>6. q.unbacked <=> (1..k = {} \/ \E j \in 1..k : Drifted(q.pointers[j]))
  BY <1>1 DEF Weighed
<1> QED
  BY <1>1, <1>2, <1>5, <1>6

\* A published passage has one row, that of the entry it was cut from.
LEMMA OneRow ==
  ASSUME NEW o, NEW m, Serves(Ingesting(o), m), NEW n, Chunked(Chunks(o), n, Ingesting(o), m),
         NEW k \in 1..n, NEW i \in 1..m, IsPiece(Chunks(o)[k], Ingesting(o)[i])
  PROVE  {r \in SidecarRows(o) : r.id = Chunks(o)[k].id} = {RowOf(Chunks(o)[k].id, Ingesting(o)[i])}
<1>1. PICK served, chunks : served = Ingesting(o) /\ chunks = Chunks(o)
  OBVIOUS
<1>2. /\ DOMAIN served = 1..m
      /\ \A a, b \in 1..m : served[a].entry.file = served[b].entry.file => a = b
  BY <1>1 DEF Serves
<1>3. DOMAIN chunks = 1..n /\ \A a, b \in 1..n : chunks[a].id = chunks[b].id => a = b
  BY <1>1 DEF Chunked
<1>4. chunks[k].file = served[i].entry.file /\ chunks[k].line = served[i].entry.line
  BY <1>1 DEF IsPiece
<1>5. \A r : r \in SidecarRows(o) <=>
               \E a \in 1..m : \E x \in 1..n :
                 Located(chunks[x], served[a].entry) /\ r = RowOf(chunks[x].id, served[a])
  <2>1. SidecarRows(o) =
          UNION {{RowOf(chunks[x].id, served[a]) :
                    x \in {y \in 1..n : Located(chunks[y], served[a].entry)}} : a \in 1..m}
    BY <1>1, <1>2, <1>3 DEF SidecarRows, RowOf, Backing
  <2> QED
    BY <2>1
<1>6. PICK mine : mine = RowOf(chunks[k].id, served[i])
  OBVIOUS
<1>7. mine.id = chunks[k].id
  BY <1>6 DEF RowOf
<1>8. mine \in SidecarRows(o)
  BY <1>4, <1>5, <1>6 DEF Located
<1>9. ASSUME NEW r \in SidecarRows(o), r.id = chunks[k].id PROVE r = mine
  <2>1. PICK a \in 1..m, x \in 1..n : Located(chunks[x], served[a].entry) /\ r = RowOf(chunks[x].id, served[a])
    BY <1>5
  <2>2. r.id = chunks[x].id
    BY <2>1 DEF RowOf
  <2>3. x = k
    BY <1>3, <1>9, <2>2
  <2>4. a = i
    BY <1>2, <1>4, <2>1, <2>3 DEF Located
  <2> QED
    BY <1>6, <2>1, <2>3, <2>4
<1>10. {r \in SidecarRows(o) : r.id = chunks[k].id} = {mine}
  BY <1>7, <1>8, <1>9
<1> QED
  BY <1>1, <1>6, <1>10

\* The causes the report names in a file: its entry's marked ones.
LEMMA ToldIs ==
  ASSUME NEW o, NEW m, Serves(Ingesting(o), m), NEW i \in 1..m, NEW c,
         NEW file, file = Ingesting(o)[i].entry.file
  PROVE  [file |-> file, cause |-> c] \in UnbackedRows(o) \cup DriftRows(o)
           <=> /\ c \in 1..Len(Ingesting(o)[i].entry.causes)
               /\ Ingesting(o)[i].causes[c].unbacked
<1>1. PICK served : served = Ingesting(o)
  OBVIOUS
<1>2. /\ DOMAIN served = 1..m
      /\ \A a, b \in 1..m : served[a].entry.file = served[b].entry.file => a = b
      /\ Serving(served[i])
  BY <1>1 DEF Serves
<1>3. PICK row : row = [file |-> file, cause |-> c]
  OBVIOUS
<1>4. row.file = file /\ row.cause = c
  BY <1>3
<1>5. \A a \in 1..m : \A x : [file |-> served[a].entry.file, cause |-> x] = row <=> a = i /\ x = c
  <2>1. SUFFICES ASSUME NEW a \in 1..m, NEW x
                 PROVE  [file |-> served[a].entry.file, cause |-> x] = row <=> a = i /\ x = c
    OBVIOUS
  <2>2. PICK its : its = served[a].entry.file
    OBVIOUS
  <2>3. [file |-> its, cause |-> x] = row <=> its = file /\ x = c
    BY <1>3
  <2>4. its = file <=> a = i
    BY <1>1, <1>2, <2>2
  <2> QED
    BY <2>2, <2>3, <2>4
<1>6. row \in UnbackedRows(o) <=>
        (c \in DOMAIN served[i].causes /\ served[i].causes[c].cause.claim # None)
  <2>1. row \in UnbackedRows(o) <=>
          \E a \in 1..m : \E x \in DOMAIN served[a].causes :
            /\ served[a].causes[x].cause.claim # None
            /\ [file |-> served[a].entry.file, cause |-> x] = row
    BY <1>1, <1>2 DEF UnbackedRows
  <2> QED
    BY <1>5, <2>1
<1>7. row \in DriftRows(o) <=>
        /\ c \in DOMAIN served[i].causes
        /\ \E j \in DOMAIN served[i].causes[c].pointers : Drifted(served[i].causes[c].pointers[j])
  <2>1. row \in DriftRows(o) <=>
          \E a \in 1..m : \E x \in DOMAIN served[a].causes :
            /\ \E j \in DOMAIN served[a].causes[x].pointers : Drifted(served[a].causes[x].pointers[j])
            /\ [file |-> served[a].entry.file, cause |-> x] = row
    BY <1>1, <1>2 DEF DriftRows
  <2>2. \A a \in 1..m : \A x \in DOMAIN served[a].causes :
          [file |-> served[a].entry.file, cause |-> x] = row => a = i /\ x = c
    BY <1>5
  <2>3. [file |-> served[i].entry.file, cause |-> c] = row
    BY <1>5
  <2>4. ASSUME row \in DriftRows(o)
        PROVE  /\ c \in DOMAIN served[i].causes
               /\ \E j \in DOMAIN served[i].causes[c].pointers : Drifted(served[i].causes[c].pointers[j])
    BY <2>1, <2>2, <2>4
  <2> QED
    BY <2>1, <2>3, <2>4
<1>8. DOMAIN served[i].causes = 1..Len(served[i].entry.causes)
  BY <1>2 DEF Serving
<1>9. c \in DOMAIN served[i].causes =>
        (served[i].causes[c].unbacked <=>
           (\/ served[i].causes[c].cause.claim # None
            \/ \E j \in DOMAIN served[i].causes[c].pointers : Drifted(served[i].causes[c].pointers[j])))
  BY <1>2, <1>8 DEF Serving, Weighed
<1> QED
  BY <1>1, <1>3, <1>6, <1>7, <1>8, <1>9

\* MarksAreEarned of one passage.
Earned(p, sidecar, report) ==
  LET rows == {r \in sidecar : r.id = p.id}
      bare == {c \in p.causes : \E r \in rows : Bare(r.backing[c])}
      told == {row.cause : row \in {x \in report.unbacked \cup report.drifted : x.file = p.file}}
  IN  /\ {r.file : r \in rows} = {p.file}
      /\ p.unbacked <=> bare # {}
      /\ bare = told \cap p.causes

LEMMA PassageEarned ==
  ASSUME NEW o, NEW m, Serves(Ingesting(o), m), NEW n, Chunked(Chunks(o), n, Ingesting(o), m),
         NEW gear, NEW k \in 1..n
  PROVE  Earned(Chunks(o)[k], SidecarRows(o), Coverage(o, gear))
<1>1. PICK i \in 1..m : IsPiece(Chunks(o)[k], Ingesting(o)[i])
  BY DEF Chunked
<1>2. PICK p, e : p = Chunks(o)[k] /\ e = Ingesting(o)[i]
  OBVIOUS
<1>3. PICK mine : mine = RowOf(p.id, e)
  OBVIOUS
<1>4. PICK rows : rows = {r \in SidecarRows(o) : r.id = p.id}
  OBVIOUS
<1>5. rows = {mine}
  BY <1>1, <1>2, <1>3, <1>4, OneRow
<1>6. mine.file = e.entry.file /\ mine.backing = Backing(e)
  BY <1>3 DEF RowOf
<1>7. /\ p.file = e.entry.file /\ p.causes \subseteq 1..Len(e.entry.causes)
      /\ p.unbacked <=> \E c \in p.causes : e.causes[c].unbacked
  BY <1>1, <1>2 DEF IsPiece
<1>8. Serving(e)
  BY <1>2 DEF Serves
<1>9. ASSUME NEW c \in p.causes PROVE Bare(mine.backing[c]) <=> e.causes[c].unbacked
  <2>1. c \in DOMAIN e.causes
    BY <1>7, <1>8 DEF Serving
  <2>2. PICK q : q = e.causes[c]
    OBVIOUS
  <2>3. Weighed(q)
    BY <1>7, <1>8, <2>2 DEF Serving
  <2>4. mine.backing[c] = [j \in DOMAIN q.pointers |-> q.pointers[j].ids]
    BY <1>6, <2>1, <2>2 DEF Backing
  <2>5. Bare([j \in DOMAIN q.pointers |-> q.pointers[j].ids]) <=> q.unbacked
    BY <2>3, BareIs
  <2> QED
    BY <2>2, <2>4, <2>5
<1>10. PICK bare : bare = {c \in p.causes : \E r \in rows : Bare(r.backing[c])}
  OBVIOUS
<1>11. bare = {c \in p.causes : e.causes[c].unbacked}
  BY <1>5, <1>9, <1>10
<1>12. PICK named : named = UnbackedRows(o) \cup DriftRows(o)
  OBVIOUS
<1>13. PICK told : told = {row.cause : row \in {x \in named : x.file = p.file}}
  OBVIOUS
<1>14. \A x \in named : \E file, c : x = [file |-> file, cause |-> c]
  BY <1>12 DEF UnbackedRows, DriftRows
<1>15. \A c : c \in told <=> [file |-> p.file, cause |-> c] \in named
  BY <1>13, <1>14
<1>16. \A c : [file |-> p.file, cause |-> c] \in named <=>
                (c \in 1..Len(e.entry.causes) /\ e.causes[c].unbacked)
  <2>1. SUFFICES ASSUME NEW c
                 PROVE  [file |-> p.file, cause |-> c] \in named <=>
                          (c \in 1..Len(e.entry.causes) /\ e.causes[c].unbacked)
    OBVIOUS
  <2>2. p.file = Ingesting(o)[i].entry.file
    BY <1>2, <1>7
  <2>3. [file |-> p.file, cause |-> c] \in UnbackedRows(o) \cup DriftRows(o)
          <=> /\ c \in 1..Len(Ingesting(o)[i].entry.causes)
              /\ Ingesting(o)[i].causes[c].unbacked
    BY <2>2, ToldIs
  <2> QED
    BY <1>2, <1>12, <2>3
<1>17. bare = told \cap p.causes
  BY <1>7, <1>11, <1>15, <1>16
<1>18. p.unbacked <=> bare # {}
  BY <1>7, <1>11
<1>19. {r.file : r \in rows} = {p.file}
  BY <1>5, <1>6, <1>7
<1>20. named = Coverage(o, gear).unbacked \cup Coverage(o, gear).drifted
  BY <1>12 DEF Coverage
<1> QED
  BY <1>2, <1>4, <1>10, <1>13, <1>17, <1>18, <1>19, <1>20 DEF Earned

\* The inductive invariant: a load in progress serves whole entries of files the
\* author wrote, and the shard was built from such a load.
Shelved ==
  /\ Written /\ IsSeq(manuals.rows)
  /\ phase \in {"record", "write", "build"} => Sound(outcome)
  /\ MarksAreEarned

LEMMA InitShelved == Init => Shelved
<1> SUFFICES ASSUME Init PROVE Shelved
  OBVIOUS
<1>1. Written /\ shard = None /\ phase = "idle" /\ manuals.rows = <<>>
  BY DEF Init, Written
<1>2. <<>> \in Seq({})
  OBVIOUS
<1>3. IsSeq(manuals.rows)
  BY <1>1, <1>2, IsSeqOf
<1> QED
  BY <1>1, <1>3 DEF Shelved, MarksAreEarned

LEMMA LoadServes ==
  ASSUME Written, IsSeq(manuals.rows)
  PROVE  Sound(Evaluate(files, ShardView(manuals), rig, ledger.rows))
<1>1. \A f \in ToSet(Files) : files[f] # Absent => IsDraft(files[f])
  BY DraftsAssumption DEF Written
<1>2. PICK view : view = ShardView(manuals)
  OBVIOUS
<1>3. IsSeq(view.rows)
  BY <1>2 DEF ShardView
<1> QED
  BY <1>1, <1>2, <1>3, EvaluateSound

LEMMA BuildEarns ==
  ASSUME Sound(outcome), Build
  PROVE  MarksAreEarned'
<1>1. PICK m : Serves(Ingesting(outcome), m)
  BY DEF Sound
<1>2. PICK n : Chunked(Chunks(outcome), n, Ingesting(outcome), m)
  BY <1>1, ChunksAre
<1>3. PICK new : new = [passages |-> Chunks(outcome), rows |-> SidecarRows(outcome),
                        report |-> Coverage(outcome, rig)]
  OBVIOUS
<1>4. new.passages = Chunks(outcome) /\ new.rows = SidecarRows(outcome) /\ new.report = Coverage(outcome, rig)
  BY <1>3
<1>5. \A k \in 1..n : Earned(new.passages[k], new.rows, new.report)
  BY <1>1, <1>2, <1>4, PassageEarned
<1>6. DOMAIN new.passages = 1..n
  BY <1>2, <1>4 DEF Chunked
<1>7. \A p \in ToSet(new.passages) : Earned(p, new.rows, new.report)
  BY <1>5, <1>6 DEF ToSet
<1>8. shard' = new
  BY <1>3 DEF Build
<1> QED
  BY <1>7, <1>8 DEF MarksAreEarned, Earned

LEMMA StepShelved == Shelved /\ [Next]_vars => Shelved'
<1> SUFFICES ASSUME Shelved, [Next]_vars PROVE Shelved'
  OBVIOUS
<1> USE DEF Shelved
<1>1. Written'
  BY WrittenKept
<1>2. ASSUME UNCHANGED shard \/ shard' = None PROVE MarksAreEarned'
  BY <1>2 DEF MarksAreEarned
<1>3. CASE \E f \in ToSet(Files) : Edit(f)
  BY <1>1, <1>2, <1>3 DEF Edit
<1>4. CASE \E e \in Editions : StartRun(e)
  <2>1. PICK e \in Editions : StartRun(e)
    BY <1>4
  <2>2. IsSeq(manuals'.rows)
    BY <2>1, EditionsAssumption DEF StartRun
  <2>3. phase' \in {"merge", "load"} /\ (UNCHANGED shard \/ shard' = None)
    BY <2>1 DEF StartRun
  <2> QED
    BY <1>1, <1>2, <2>2, <2>3
<1>5. CASE Load
  <2>1. PICK found : found = Evaluate(files, ShardView(manuals), rig, ledger.rows)
    OBVIOUS
  <2>2. Sound(found)
    BY <2>1, LoadServes
  <2>3. outcome' = found /\ UNCHANGED manuals /\ (UNCHANGED shard \/ shard' = None)
    BY <1>5, <2>1 DEF Load
  <2> QED
    BY <1>1, <1>2, <2>2, <2>3
<1>6. CASE Build
  <2>1. phase = "build" /\ phase' = "merge" /\ UNCHANGED manuals
    BY <1>6 DEF Build
  <2>2. MarksAreEarned'
    BY <1>6, <2>1, BuildEarns
  <2> QED
    BY <1>1, <2>1, <2>2
<1>7. CASE LoseLedger \/ FailLoad \/ Publish \/ Crash \/ Validate
  <2>1. /\ UNCHANGED <<manuals, shard>>
        /\ phase' \notin {"record", "write", "build"}
    BY <1>7 DEF LoseLedger, FailLoad, Publish, Crash, Validate
  <2> QED
    BY <1>1, <1>2, <2>1
<1>8. CASE TruncateLedger \/ WriteLedger
  <2>1. /\ UNCHANGED <<manuals, shard, outcome>>
        /\ phase \in {"record", "write"}
    BY <1>8 DEF TruncateLedger, WriteLedger
  <2> QED
    BY <1>1, <1>2, <2>1
<1>9. CASE UNCHANGED vars
  <2>1. UNCHANGED <<manuals, shard, outcome, phase>>
    BY <1>9 DEF vars
  <2> QED
    BY <1>1, <1>2, <2>1
<1> QED
  BY <1>3, <1>4, <1>5, <1>6, <1>7, <1>8, <1>9 DEF Next

\* Requirements 2.4, 6.4 and 8.5: whatever the author writes and the manuals
\* become, a published passage has one sidecar row, of its own entry, and is marked
\* exactly when that row or the coverage report leaves one of its causes bare.
THEOREM MarksAreTrue == Spec => []MarksAreEarned
<1>1. Shelved => MarksAreEarned
  BY DEF Shelved
<1> QED
  BY <1>1, InitShelved, StepShelved, PTL DEF Spec

-----------------------------------------------------------------------------
(* What validate foretells.                                                *)

\* The sections of a view, each once, are those of its passages.
SectionSet(rows) == {SectionOf(rows[i]) : i \in DOMAIN rows}

LEMMA SectionsHeld ==
  ASSUME NEW rows, IsSeq(rows)
  PROVE  /\ Sections(rows) \in Seq(SectionSet(rows)) /\ IsInjective(Sections(rows))
         /\ ToSet(Sections(rows)) = SectionSet(rows)
<1>1. PICK n, T : n \in Nat /\ T = ToSet(rows) /\ rows \in Seq(T) /\ DOMAIN rows = 1..n
  BY DEF IsSeq
<1>2. PICK list, U : list = [i \in 1..n |-> SectionOf(rows[i])] /\ U = SectionSet(rows)
  OBVIOUS
<1>3. list \in Seq(U) /\ ToSet(list) = U
  BY <1>1, <1>2 DEF SectionSet, ToSet
<1>4. Sections(rows) = Updated(<<>>, list)
  BY <1>1, <1>2 DEF Sections
<1> QED
  BY <1>2, <1>3, <1>4, UpdatedIs, UpdatedElements

\* Of none, of one and of several sections.
Fate(set) ==
  IF set = {} THEN "no-such-section"
  ELSE IF \A s, t \in set : s = t THEN None ELSE "ambiguous-title"

LEMMA TheOnlyFate ==
  ASSUME NEW T, NEW found \in Seq(T), IsInjective(found), NEW rows
  PROVE  TheOnly(found, rows).reason = Fate(ToSet(found))
<1>1. PICK n \in Nat : n = Len(found) /\ DOMAIN found = 1..n
  OBVIOUS
<1>2. PICK set : set = {found[i] : i \in 1..n}
  OBVIOUS
<1>3. set = ToSet(found)
  BY <1>1, <1>2 DEF ToSet
<1>4. CASE n = 0
  <2>1. set = {}
    BY <1>2, <1>4
  <2>2. TheOnly(found, rows) = Unresolved("no-such-section")
    BY <1>1, <1>4 DEF TheOnly
  <2> QED
    BY <1>3, <2>1, <2>2 DEF Fate, Unresolved
<1>5. CASE n = 1
  <2>1. set # {} /\ \A s, t \in set : s = t
    BY <1>2, <1>5
  <2>2. TheOnly(found, rows) = [ids |-> PassagesOf(rows, found[1]), reason |-> None]
    BY <1>1, <1>5 DEF TheOnly
  <2> QED
    BY <1>3, <2>1, <2>2 DEF Fate
<1>6. CASE n # 0 /\ n # 1
  <2>1. 1 \in 1..n /\ 2 \in 1..n
    BY <1>6
  <2>2. found[1] # found[2]
    BY <1>1, <2>1 DEF IsInjective
  <2>3. found[1] \in set /\ found[2] \in set
    BY <1>2, <2>1
  <2>4. set # {} /\ ~ \A s, t \in set : s = t
    BY <2>2, <2>3
  <2>5. TheOnly(found, rows) = Unresolved("ambiguous-title")
    BY <1>1, <1>6 DEF TheOnly
  <2> QED
    BY <1>3, <2>4, <2>5 DEF Fate, Unresolved
<1> QED
  BY <1>4, <1>5, <1>6

\* Whether a pointer resolves is a matter of the set of sections.
Numbered(p, S) == {s \in S : s.source = p.source /\ s.number = p.number}
Titled(p, S) == {s \in S : s.source = p.source /\ NormaliseTitle(s.title) = NormaliseTitle(p.title)}
Prefixed(p, S) ==
  {s \in S : s.source = p.source /\ IsPrefix(NormaliseTitle(p.title), NormaliseTitle(s.title))}

FateIn(p, S) ==
  IF ~ \E s \in S : s.source = p.source THEN "unknown-source"
  ELSE IF p.number # None THEN IF Numbered(p, S) = {} THEN "no-such-section" ELSE None
  ELSE IF Titled(p, S) # {} THEN Fate(Titled(p, S)) ELSE Fate(Prefixed(p, S))

LEMMA ResolveFate ==
  ASSUME NEW rows, IsSeq(rows), NEW p, p.source # AuthoredSource
  PROVE  Resolve(p, rows).reason = FateIn(p, SectionSet(rows))
<1>1. PICK S, sections : S = SectionSet(rows) /\ sections = Sections(rows)
  OBVIOUS
<1>2. sections \in Seq(S) /\ IsInjective(sections) /\ ToSet(sections) = S
  BY <1>1, SectionsHeld
<1>3. KnowsSource(rows, p.source) <=> \E s \in S : s.source = p.source
  <2>1. \A i \in DOMAIN rows : SectionOf(rows[i]).source = rows[i].source
    BY DEF SectionOf
  <2>2. S = {SectionOf(rows[i]) : i \in DOMAIN rows}
    BY <1>1 DEF SectionSet
  <2> QED
    BY <2>1, <2>2 DEF KnowsSource
<1>4. CASE ~KnowsSource(rows, p.source)
  <2>1. Resolve(p, rows) = Unresolved("unknown-source")
    BY <1>4 DEF Resolve
  <2> QED
    BY <1>1, <1>3, <1>4, <2>1 DEF FateIn, Unresolved
<1>5. CASE KnowsSource(rows, p.source) /\ p.number # None
  <2>1. PICK all, found : /\ all = Among(sections, Numbered(p, S))
                          /\ found = ByNumber(rows, p.source, p.number)
    OBVIOUS
  <2>2. all \in Seq(S) /\ ToSet(all) = Numbered(p, S)
    BY <1>2, <2>1, AmongElements DEF Numbered
  <2>3. found = IF all = <<>> THEN <<>> ELSE <<Last(all)>>
    BY <1>1, <1>2, <2>1 DEF ByNumber, Numbered
  <2>4. Resolve(p, rows) = TheOnly(found, rows)
    BY <1>5, <2>1 DEF Resolve
  <2>5. CASE all = <<>>
    <3>1. Numbered(p, S) = {}
      BY <2>2, <2>5 DEF ToSet
    <3>2. found = <<>> /\ Len(found) = 0
      BY <2>3, <2>5
    <3>3. TheOnly(found, rows) = Unresolved("no-such-section")
      BY <3>2 DEF TheOnly
    <3> QED
      BY <1>1, <1>3, <1>5, <2>4, <3>1, <3>3 DEF FateIn, Unresolved
  <2>6. CASE all # <<>>
    <3>1. Last(all) \in ToSet(all)
      BY <2>2, <2>6, FrontAndLast, ZenonT(40)
    <3>2. Numbered(p, S) # {}
      BY <2>2, <3>1
    <3>3. found = <<Last(all)>> /\ Len(found) = 1
      BY <2>3, <2>6
    <3>4. TheOnly(found, rows) = [ids |-> PassagesOf(rows, found[1]), reason |-> None]
      BY <3>3 DEF TheOnly
    <3> QED
      BY <1>1, <1>3, <1>5, <2>4, <3>2, <3>4 DEF FateIn
  <2> QED
    BY <2>5, <2>6
<1>6. CASE KnowsSource(rows, p.source) /\ p.number = None
  <2>1. PICK exact, prefixed :
          /\ exact = ByTitle(rows, p.source, NormaliseTitle(p.title))
          /\ prefixed = ByPrefix(rows, p.source, NormaliseTitle(p.title))
    OBVIOUS
  <2>2. exact = Among(sections, Titled(p, S)) /\ prefixed = Among(sections, Prefixed(p, S))
    BY <1>1, <1>2, <2>1 DEF ByTitle, ByPrefix, Titled, Prefixed
  <2>3. Titled(p, S) \subseteq S /\ Prefixed(p, S) \subseteq S
    BY DEF Titled, Prefixed
  <2>4. /\ exact \in Seq(S) /\ ToSet(exact) = Titled(p, S) /\ IsInjective(exact)
        /\ prefixed \in Seq(S) /\ ToSet(prefixed) = Prefixed(p, S) /\ IsInjective(prefixed)
    <3>1. exact \in Seq(S) /\ ToSet(exact) = S \cap Titled(p, S) /\ IsInjective(exact)
      BY <1>2, <2>2, AmongElements
    <3>2. prefixed \in Seq(S) /\ ToSet(prefixed) = S \cap Prefixed(p, S) /\ IsInjective(prefixed)
      BY <1>2, <2>2, AmongElements
    <3>3. S \cap Titled(p, S) = Titled(p, S) /\ S \cap Prefixed(p, S) = Prefixed(p, S)
      BY <2>3
    <3> QED
      BY <3>1, <3>2, <3>3
  <2>5. exact # <<>> <=> Titled(p, S) # {}
    <3>1. CASE exact = <<>>
      BY <2>4, <3>1 DEF ToSet
    <3>2. CASE exact # <<>>
      <4>1. Last(exact) \in ToSet(exact)
        BY <2>4, <3>2, FrontAndLast
      <4> QED
        BY <2>4, <3>2, <4>1
    <3> QED
      BY <3>1, <3>2
  <2>6. PICK found : found = IF exact # <<>> THEN exact ELSE prefixed
    OBVIOUS
  <2>7. Resolve(p, rows) = TheOnly(found, rows)
    <3>1. Resolve(p, rows) = ResolveTitle(p, rows)
      BY <1>6 DEF Resolve
    <3> QED
      BY <2>1, <2>6, <3>1 DEF ResolveTitle
  <2>8. TheOnly(found, rows).reason = Fate(ToSet(found))
    BY <2>4, <2>6, TheOnlyFate
  <2> QED
    BY <1>1, <1>3, <1>6, <2>4, <2>5, <2>6, <2>7, <2>8 DEF FateIn
<1> QED
  BY <1>4, <1>5, <1>6

\* The notes beside the manuals change no pointer's fate: none may name them.
AreNotes(rows) == IsSeq(rows) /\ \A i \in DOMAIN rows : rows[i].source = AuthoredSource

LEMMA NotesAside ==
  ASSUME NEW rows, IsSeq(rows), NEW notes, AreNotes(notes), NEW p
  PROVE  Resolve(p, rows \o notes).reason = Resolve(p, rows).reason
<1>1. CASE p.source = AuthoredSource
  BY <1>1 DEF Resolve
<1>2. CASE p.source # AuthoredSource
  <2>1. PICK both : both = rows \o notes
    OBVIOUS
  <2>2. PICK A, B : A = ToSet(rows) /\ B = ToSet(notes) /\ rows \in Seq(A) /\ notes \in Seq(B)
    BY DEF AreNotes, IsSeq
  <2>3. IsSeq(both) /\ ToSet(both) = A \cup B
    <3>1. rows \in Seq(A \cup B) /\ notes \in Seq(A \cup B)
      BY <2>2
    <3>2. both \in Seq(A \cup B)
      BY <2>1, <3>1
    <3> QED
      BY <2>1, <2>2, <3>2, IsSeqOf, ToSetConcat
  <2>4. PICK S, all : S = SectionSet(rows) /\ all = SectionSet(both)
    OBVIOUS
  <2>5. S \subseteq all /\ \A s \in all : s \in S \/ s.source = AuthoredSource
    <3>1. S = {SectionOf(r) : r \in A}
      BY <2>2, <2>4 DEF SectionSet, ToSet
    <3>3. all = {SectionOf(r) : r \in A \cup B}
      <4>1. A \cup B = {both[i] : i \in DOMAIN both}
        BY <2>3 DEF ToSet
      <4>2. all = {SectionOf(both[i]) : i \in DOMAIN both}
        BY <2>4 DEF SectionSet
      <4> QED
        BY <4>1, <4>2
    <3>2. \A r \in B : SectionOf(r).source = AuthoredSource
      BY <2>2 DEF AreNotes, ToSet, SectionOf
    <3> QED
      BY <3>1, <3>2, <3>3
  <2>6. \A s \in all : s.source = p.source => s \in S
    BY <1>2, <2>5
  <2>7. /\ (\E s \in all : s.source = p.source) <=> (\E s \in S : s.source = p.source)
        /\ Numbered(p, all) = Numbered(p, S)
        /\ Titled(p, all) = Titled(p, S) /\ Prefixed(p, all) = Prefixed(p, S)
    BY <2>5, <2>6 DEF Numbered, Titled, Prefixed
  <2>8. FateIn(p, all) = FateIn(p, S)
    BY <2>7 DEF FateIn
  <2> QED
    BY <1>2, <2>1, <2>3, <2>4, <2>8, ResolveFate
<1> QED
  BY <1>1, <1>2

\* Two views and two ledgers in which pointers fare alike.
FareAlike(view, book, other, copy) ==
  \A p : /\ Resolve(p, view.rows).reason = Resolve(p, other.rows).reason
         /\ Rejected(CheckPointer(p, view.rows, book)) <=> Rejected(CheckPointer(p, other.rows, copy))

Resolvable(key, rows) == \E q : PointerKey(q) = key /\ Resolve(q, rows).reason = None

\* A ledger that grew by what resolves in a view.
Grew(copy, book, rows) ==
  /\ DOMAIN copy \subseteq DOMAIN book
  /\ \A key \in DOMAIN book : key \in DOMAIN copy \/ Resolvable(key, rows)

LEMMA GrownAlike ==
  ASSUME NEW view, NEW book, NEW other, NEW copy, Grew(copy, book, view.rows),
         \A p : Resolve(p, view.rows).reason = Resolve(p, other.rows).reason
  PROVE  FareAlike(view, book, other, copy)
<1>1. ASSUME NEW p
      PROVE  Rejected(CheckPointer(p, view.rows, book)) <=> Rejected(CheckPointer(p, other.rows, copy))
  <2>1. PICK c, d, key : /\ c = CheckPointer(p, view.rows, book) /\ d = CheckPointer(p, other.rows, copy)
                         /\ key = PointerKey(p)
    OBVIOUS
  <2>2. c.reason = Resolve(p, view.rows).reason /\ d.reason = c.reason
    BY <2>1 DEF CheckPointer
  <2>3. /\ c.previously <=> (c.reason # "authored-target" /\ key \in DOMAIN book)
        /\ d.previously <=> (c.reason # "authored-target" /\ key \in DOMAIN copy)
    BY <2>1, <2>2 DEF CheckPointer
  <2>4. key \in DOMAIN book /\ key \notin DOMAIN copy => c.reason = None
    <3>1. SUFFICES ASSUME key \in DOMAIN book, key \notin DOMAIN copy PROVE c.reason = None
      OBVIOUS
    <3>2. PICK q : PointerKey(q) = key /\ Resolve(q, view.rows).reason = None
      BY <3>1 DEF Grew, Resolvable
    <3>3. Resolve(p, view.rows) = Resolve(q, view.rows)
      BY <2>1, <3>2, SameKeySameFate
    <3> QED
      BY <2>2, <3>2, <3>3
  <2>5. key \in DOMAIN copy => key \in DOMAIN book
    BY DEF Grew
  <2>6. Rejected(c) <=> Rejected(d)
    BY <2>2, <2>3, <2>4, <2>5 DEF Rejected, Ok
  <2> QED
    BY <2>1, <2>6
<1> QED
  BY <1>1 DEF FareAlike

LEMMA MinOf ==
  ASSUME NEW S \in SUBSET Nat, S # {}
  PROVE  Min(S) \in S
<1>1. \E i \in S : \A j \in S : i <= j
  BY LeastNumber
<1> QED
  BY <1>1 DEF Min

\* Of one entry the verdicts then agree.
LEMMA EntryAgrees ==
  ASSUME NEW view, NEW book, NEW other, NEW copy, FareAlike(view, book, other, copy),
         view.indexed = other.indexed, NEW e, Standing(e), NEW gear
  PROVE  /\ EvaluateEntry(e, view, gear, book).rejection = EvaluateEntry(e, other, gear, copy).rejection
         /\ EvaluateEntry(e, view, gear, book).entry = e
         /\ EvaluateEntry(e, other, gear, copy).entry = e
<1>1. PICK here, there, scope :
        /\ here = Checked(e, view, book) /\ there = Checked(e, other, copy)
        /\ scope = ScopeRejection(e, gear, view.indexed)
  OBVIOUS
<1>2. scope = ScopeRejection(e, gear, other.indexed)
  BY <1>1
<1>3. CASE scope # None
  <2>1. /\ EvaluateEntry(e, view, gear, book) = Excluded(e, scope)
        /\ EvaluateEntry(e, other, gear, copy) = Excluded(e, scope)
    BY <1>1, <1>2, <1>3 DEF EvaluateEntry
  <2> QED
    BY <2>1 DEF Excluded
<1>4. DOMAIN here = DOMAIN e.causes /\ DOMAIN there = DOMAIN e.causes
  BY <1>1 DEF Checked
<1>5. ASSUME NEW i \in DOMAIN e.causes
      PROVE  /\ DOMAIN here[i] = DOMAIN there[i]
             /\ \A j \in DOMAIN here[i] : /\ Rejected(here[i][j]) <=> Rejected(there[i][j])
                                          /\ here[i][j].reason = there[i][j].reason
  <2>1. PICK mine, yours : mine = here[i] /\ yours = there[i]
    OBVIOUS
  <2>2. /\ mine = [j \in DOMAIN e.causes[i].fixes |-> CheckPointer(e.causes[i].fixes[j], view.rows, book)]
        /\ yours = [j \in DOMAIN e.causes[i].fixes |-> CheckPointer(e.causes[i].fixes[j], other.rows, copy)]
    BY <1>1, <2>1 DEF Checked
  <2>3. ASSUME NEW j \in DOMAIN e.causes[i].fixes
        PROVE  (Rejected(mine[j]) <=> Rejected(yours[j])) /\ mine[j].reason = yours[j].reason
    <3>1. PICK p : p = e.causes[i].fixes[j]
      OBVIOUS
    <3>2. mine[j] = CheckPointer(p, view.rows, book) /\ yours[j] = CheckPointer(p, other.rows, copy)
      BY <2>2, <3>1
    <3>3. /\ CheckPointer(p, view.rows, book).reason = Resolve(p, view.rows).reason
          /\ CheckPointer(p, other.rows, copy).reason = Resolve(p, other.rows).reason
      BY DEF CheckPointer
    <3> QED
      BY <3>2, <3>3 DEF FareAlike
  <2> QED
    BY <2>1, <2>2, <2>3
<1>6. ASSUME NEW i \in DOMAIN e.causes
      PROVE  {j \in DOMAIN here[i] : Rejected(here[i][j])} = {j \in DOMAIN there[i] : Rejected(there[i][j])}
  BY <1>5
<1>7. \A i \in DOMAIN e.causes : Withdrawn(here[i]) <=> Withdrawn(there[i])
  BY <1>5 DEF Withdrawn
<1>8. CASE scope = None /\ \E i \in DOMAIN here : Withdrawn(here[i])
  <2>1. \E i \in DOMAIN there : Withdrawn(there[i])
    BY <1>4, <1>7, <1>8
  <2>2. /\ EvaluateEntry(e, view, gear, book) = Excluded(e, PointerRejection(here))
        /\ EvaluateEntry(e, other, gear, copy) = Excluded(e, PointerRejection(there))
    BY <1>1, <1>2, <1>8, <2>1 DEF EvaluateEntry
  <2>3. PICK W, w : W = {i \in DOMAIN e.causes : Withdrawn(here[i])} /\ w = Min(W)
    OBVIOUS
  <2>4. W = {i \in DOMAIN here : Withdrawn(here[i])} /\ W = {i \in DOMAIN there : Withdrawn(there[i])}
    BY <1>4, <1>7, <2>3
  <2>5. W # {} /\ W \in SUBSET Nat
    BY <1>4, <1>8, <2>3 DEF Standing
  <2>6. w \in W
    BY <2>3, <2>5, MinOf
  <2>7. PICK mine, yours, R, r :
          /\ mine = here[w] /\ yours = there[w]
          /\ R = {j \in DOMAIN here[w] : Rejected(here[w][j])} /\ r = Min(R)
    OBVIOUS
  <2>8. w \in DOMAIN e.causes /\ Withdrawn(here[w])
    BY <2>3, <2>6
  <2>9. R = {j \in DOMAIN mine : Rejected(mine[j])} /\ R = {j \in DOMAIN yours : Rejected(yours[j])}
    BY <1>6, <2>7, <2>8
  <2>10. R # {} /\ R \in SUBSET Nat
    <3>1. PICK k \in Nat : DOMAIN e.causes[w].fixes = 1..k
      BY <2>8 DEF Standing, PointsOrClaims
    <3>2. DOMAIN here[w] = 1..k
      BY <1>1, <2>8, <3>1 DEF Checked
    <3> QED
      BY <2>7, <2>8, <3>2 DEF Withdrawn
  <2>11. r \in R
    BY <2>7, <2>10, MinOf
  <2>12. mine[r].reason = yours[r].reason
    BY <1>5, <2>7, <2>8, <2>11
  <2>13. /\ PointerRejection(here) = IF mine[r].reason = "authored-target" THEN "pointer-authored-target"
                                     ELSE "pointer-unresolved"
         /\ PointerRejection(there) = IF yours[r].reason = "authored-target" THEN "pointer-authored-target"
                                      ELSE "pointer-unresolved"
    <3>1. PICK a, b : a = mine[r] /\ b = yours[r]
      OBVIOUS
    <3>2. here[Min({i \in DOMAIN here : Withdrawn(here[i])})] = mine
      BY <2>3, <2>4, <2>7
    <3>3. there[Min({i \in DOMAIN there : Withdrawn(there[i])})] = yours
      BY <2>3, <2>4, <2>7
    <3>4. mine[Min({j \in DOMAIN mine : Rejected(mine[j])})] = a
      BY <2>7, <2>9, <3>1
    <3>5. yours[Min({j \in DOMAIN yours : Rejected(yours[j])})] = b
      BY <2>7, <2>9, <3>1
    <3> QED
      BY <3>1, <3>2, <3>3, <3>4, <3>5 DEF PointerRejection
  <2>14. PointerRejection(here) = PointerRejection(there)
    BY <2>12, <2>13
  <2> QED
    BY <2>2, <2>14 DEF Excluded
<1>9. CASE scope = None /\ ~ \E i \in DOMAIN here : Withdrawn(here[i])
  <2>1. ~ \E i \in DOMAIN there : Withdrawn(there[i])
    BY <1>4, <1>7, <1>9
  <2>2. /\ EvaluateEntry(e, view, gear, book) = Ingested(e, here, view, gear)
        /\ EvaluateEntry(e, other, gear, copy) = Ingested(e, there, other, gear)
    BY <1>1, <1>2, <1>9, <2>1 DEF EvaluateEntry
  <2> QED
    BY <2>2 DEF Ingested
<1> QED
  BY <1>3, <1>8, <1>9


\* And of the whole store: what a run excludes and for what reason.
LEMMA StoreAgrees ==
  ASSUME NEW store, \A f \in ToSet(Files) : store[f] # Absent => IsDraft(store[f]),
         NEW view, NEW book, NEW other, NEW copy, FareAlike(view, book, other, copy),
         view.indexed = other.indexed, NEW gear
  PROVE  Evaluate(store, view, gear, book).rejections = Evaluate(store, other, gear, copy).rejections
<1>1. PICK paths, n, parsed, m, at : Stages(store, view, gear, book, paths, n, parsed, m, at)
  BY EvaluateIs
<1>2. PICK l, list, k, to : Stages(store, other, gear, copy, paths, l, list, k, to)
  <2>1. PICK way, l, list, k, to : Stages(store, other, gear, copy, way, l, list, k, to)
    BY EvaluateIs
  <2>2. way = paths
    BY <1>1, <2>1 DEF Stages
  <2> QED
    BY <2>1, <2>2
<1>3. list = parsed
  <2>1. parsed = [i \in DOMAIN paths |-> ParseEntry(paths[i], store[paths[i]])]
    BY <1>1 DEF Stages
  <2>2. list = [i \in DOMAIN paths |-> ParseEntry(paths[i], store[paths[i]])]
    BY <1>2 DEF Stages
  <2> QED
    BY <2>1, <2>2
<1>4. PICK good, here, there : /\ good = Accepted(parsed) /\ here = Judged(good, view, gear, book)
                               /\ there = Judged(good, other, gear, copy)
  OBVIOUS
<1>5. /\ Evaluate(store, view, gear, book).rejections = Rejections(paths, parsed, here)
      /\ Evaluate(store, other, gear, copy).rejections = Rejections(paths, parsed, there)
  BY <1>1, <1>2, <1>3, <1>4 DEF Stages
<1>6. m \in Nat /\ DOMAIN good = 1..m
  BY <1>1, <1>4 DEF Stages, StandsAt
<1>7. \A i \in 1..m : Standing(good[i].entry)
  BY <1>1, <1>4, GoodStands
<1>8. DOMAIN here = 1..m /\ DOMAIN there = 1..m
  BY <1>4, <1>6 DEF Judged
<1>9. ASSUME NEW i \in 1..m
      PROVE  here[i].rejection = there[i].rejection /\ here[i].entry = there[i].entry
  <2>1. PICK e, twin : /\ e = good[i].entry
                       /\ twin = \E j \in DOMAIN good \ {i} : Clashes(good[i].entry, good[j].entry)
    OBVIOUS
  <2>2. /\ here[i] = IF twin THEN Excluded(e, "duplicate-symptom") ELSE EvaluateEntry(e, view, gear, book)
        /\ there[i] = IF twin THEN Excluded(e, "duplicate-symptom") ELSE EvaluateEntry(e, other, gear, copy)
    BY <1>4, <1>6, <2>1 DEF Judged
  <2>3. Standing(e)
    BY <1>7, <2>1
  <2>4. /\ EvaluateEntry(e, view, gear, book).rejection = EvaluateEntry(e, other, gear, copy).rejection
        /\ EvaluateEntry(e, view, gear, book).entry = e
        /\ EvaluateEntry(e, other, gear, copy).entry = e
    BY <2>3, EntryAgrees
  <2> QED
    BY <2>2, <2>4
<1>10. Rejections(paths, parsed, here) = Rejections(paths, parsed, there)
  <2>1. {k_1 \in DOMAIN here : here[k_1].rejection # None} = {k_1 \in DOMAIN there : there[k_1].rejection # None}
    BY <1>8, <1>9
  <2>2. PICK I : I = {i \in 1..m : here[i].rejection # None}
    OBVIOUS
  <2>3. /\ I = {i \in DOMAIN here : here[i].rejection # None}
        /\ I = {i \in DOMAIN there : there[i].rejection # None}
    BY <1>8, <2>1, <2>2
  <2>4. {[file |-> here[i].entry.file, reason |-> here[i].rejection] : i \in I}
          = {[file |-> there[i].entry.file, reason |-> there[i].rejection] : i \in I}
    BY <1>9, <2>2
  <2> QED
    BY <2>3, <2>4 DEF Rejections
<1> QED
  BY <1>5, <1>10


\* A published edition as validate reads it, but for the notes.
Unannotated(edition, gear) ==
  [rows |-> edition.rows,
   indexed |-> edition.sources \cup {Applied(gear, s) : s \in edition.sources}]

\* What the next load reads of the ledger, or would if no run died in between.
Known == IF phase = "write" THEN held ELSE ledger.rows

\* The inductive invariant: what was foretold is the verdict on these very files in
\* the published edition, by a ledger that has since grown only by pointers which
\* resolve in that edition; and a run that goes on is of that edition.
Foretelling ==
  /\ shard # None => \E n \in Nat : DOMAIN shard.passages = 1..n
  /\ published # None => IsSeq(published.manuals.rows) /\ AreNotes(published.authored)
  /\ foretold # None =>
       /\ (phase # "idle" => published.manuals = manuals)
       /\ \E copy : /\ foretold = Evaluate(files, Unannotated(published.manuals, rig), rig, copy).rejections
                    /\ Grew(copy, Known, published.manuals.rows)
  /\ phase = "record" => Grew(ledger.rows, held, manuals.rows)
  /\ ValidateForetells

LEMMA GrewMore ==
  ASSUME NEW a, NEW b, NEW c, NEW rows, Grew(a, b, rows), Grew(b, c, rows)
  PROVE  Grew(a, c, rows)
BY DEF Grew

LEMMA InitForetelling == Init => Foretelling
BY DEF Init, Foretelling, ValidateForetells

\* A load of a foretold store excludes what was foretold.
LEMMA LoadForetold ==
  ASSUME Foretelling, Shelved, Load
  PROVE  Foretelling'
<1>1. PICK found : found = Evaluate(files, ShardView(manuals), rig, ledger.rows)
  OBVIOUS
<1>2. /\ phase = "load" /\ outcome' = found /\ phase' \in {"merge", "build", "record"}
      /\ UNCHANGED <<files, rig, manuals, ledger, published, foretold>>
      /\ shard' = None \/ shard' = shard
      /\ phase' = "record" => held' = Recorded(ledger.rows, found)
  BY <1>1 DEF Load
<1>3. Known' = ledger.rows /\ Known = ledger.rows
  BY <1>2 DEF Known
<1>4. ASSUME phase' = "record" PROVE Grew(ledger.rows, held', manuals.rows)
  <2>1. PICK more : more = Recorded(ledger.rows, found)
    OBVIOUS
  <2>2. DOMAIN more = DOMAIN ledger.rows \cup ResolvedKeys(found)
    BY <2>1 DEF Recorded
  <2>3. \A key \in ResolvedKeys(found) : Resolvable(key, manuals.rows)
    <3>1. SUFFICES ASSUME NEW key \in ResolvedKeys(found) PROVE Resolvable(key, manuals.rows)
      OBVIOUS
    <3>2. \E p \in Resolutions(found) :
            PointerKey(p.pointer) = key /\ Resolve(p.pointer, ShardView(manuals).rows).reason = None
      BY <1>1, <3>1, ResolutionsSound
    <3>3. ShardView(manuals).rows = manuals.rows
      BY DEF ShardView
    <3> QED
      BY <3>2, <3>3 DEF Resolvable
  <2>4. Grew(ledger.rows, more, manuals.rows)
    BY <2>2, <2>3 DEF Grew
  <2> QED
    BY <1>2, <1>4, <2>1, <2>4
<1>5. ASSUME foretold # None, \A s \in manuals.sources : Applied(rig, s) = s
      PROVE  found.rejections = foretold
  <2>1. PICK copy : /\ published.manuals = manuals
                    /\ foretold = Evaluate(files, Unannotated(manuals, rig), rig, copy).rejections
                    /\ Grew(copy, ledger.rows, manuals.rows)
    BY <1>2, <1>3, <1>5 DEF Foretelling
  <2>2. PICK view, other : view = ShardView(manuals) /\ other = Unannotated(manuals, rig)
    OBVIOUS
  <2>3. view.rows = manuals.rows /\ other.rows = manuals.rows
    BY <2>2 DEF ShardView, Unannotated
  <2>4. view.indexed = other.indexed
    <3>1. manuals.sources \cup {Applied(rig, s) : s \in manuals.sources} = manuals.sources
      BY <1>5
    <3> QED
      BY <2>2, <3>1 DEF ShardView, Unannotated
  <2>5. FareAlike(view, ledger.rows, other, copy)
    BY <2>1, <2>3, GrownAlike
  <2>6. \A f \in ToSet(Files) : files[f] # Absent => IsDraft(files[f])
    BY DraftsAssumption DEF Shelved, Written
  <2> QED
    BY <1>1, <2>1, <2>2, <2>4, <2>5, <2>6, StoreAgrees
<1>6. ValidateForetells'
  <2> HIDE DEF Foretelling
  <2> QED
    BY <1>2, <1>5 DEF ValidateForetells
<1> QED
  BY <1>2, <1>3, <1>4, <1>6 DEF Foretelling

\* Validate reads the notes as well, which changes no pointer's fate.
LEMMA ValidateForetold ==
  ASSUME Foretelling, Shelved, StoreInv, Validate
  PROVE  Foretelling'
<1>1. /\ phase = "idle" /\ published # None
      /\ foretold' = Evaluate(files, PublishedView(published, rig), rig, ledger.rows).rejections
      /\ UNCHANGED <<files, rig, manuals, ledger, published, phase, outcome, held, shard>>
  BY DEF Validate, Validated
<1>2. PICK view, other : /\ view = Unannotated(published.manuals, rig)
                         /\ other = PublishedView(published, rig)
  OBVIOUS
<1>3. /\ view.rows = published.manuals.rows /\ other.rows = published.manuals.rows \o published.authored
      /\ view.indexed = other.indexed
  BY <1>2 DEF Unannotated, PublishedView
<1>4. \A p : Resolve(p, view.rows).reason = Resolve(p, other.rows).reason
  <2>1. IsSeq(published.manuals.rows) /\ AreNotes(published.authored)
    BY <1>1 DEF Foretelling
  <2> QED
    BY <1>3, <2>1, NotesAside
<1>5. Grew(ledger.rows, ledger.rows, view.rows)
  BY DEF Grew
<1>6. FareAlike(view, ledger.rows, other, ledger.rows)
  BY <1>4, <1>5, GrownAlike
<1>7. \A f \in ToSet(Files) : files[f] # Absent => IsDraft(files[f])
  BY DraftsAssumption DEF Shelved, Written
<1>8. foretold' = Evaluate(files, view, rig, ledger.rows).rejections
  BY <1>1, <1>2, <1>3, <1>6, <1>7, StoreAgrees
<1>9. Known' = ledger.rows
  BY <1>1 DEF Known
<1>10. outcome' = None
  BY <1>1 DEF StoreInv, LedgerInv
<1>11. ValidateForetells'
  BY <1>10 DEF ValidateForetells
<1>12. \E copy : /\ foretold' = Evaluate(files, Unannotated(published.manuals, rig), rig, copy).rejections
                 /\ Grew(copy, ledger.rows, published.manuals.rows)
  BY <1>2, <1>3, <1>5, <1>8
<1> QED
  BY <1>1, <1>9, <1>11, <1>12 DEF Foretelling

LEMMA StepForetelling ==
  ASSUME Foretelling, Shelved, StoreInv, StoreInv', [Next]_vars
  PROVE  Foretelling'
<1>1. phase = "idle" => outcome = None
  BY DEF StoreInv, LedgerInv
<1>2. ASSUME foretold' = None \/ outcome' = None PROVE ValidateForetells'
  BY <1>2 DEF ValidateForetells
<1>3. ASSUME UNCHANGED <<outcome, foretold, manuals, rig>> PROVE ValidateForetells'
  BY <1>3 DEF ValidateForetells, Foretelling
<1>4. CASE \E f \in ToSet(Files) : Edit(f)
  <2>1. /\ phase = "idle" /\ phase' = "idle" /\ foretold' = None /\ UNCHANGED <<shard, published>>
    BY <1>4 DEF Edit
  <2> QED
    BY <1>2, <2>1 DEF Foretelling
<1>5. CASE LoseLedger
  <2>1. /\ phase = "idle" /\ phase' = "idle" /\ foretold' = None /\ UNCHANGED <<shard, published>>
    BY <1>5 DEF LoseLedger
  <2> QED
    BY <1>2, <2>1 DEF Foretelling
<1>6. CASE \E e \in Editions : StartRun(e)
  <2>1. PICK e \in Editions : StartRun(e)
    BY <1>6
  <2>2. /\ phase = "idle" /\ phase' \in {"merge", "load"} /\ manuals' = e
        /\ UNCHANGED <<files, rig, ledger, outcome, held, published>>
        /\ shard' = None \/ shard' = shard
        /\ foretold' = None \/ (foretold' = foretold /\ published.manuals = e)
    BY <2>1 DEF StartRun
  <2>3. Known' = Known
    BY <2>2 DEF Known
  <2>4. ValidateForetells'
    BY <1>1, <1>2, <2>2
  <2> QED
    BY <2>2, <2>3, <2>4 DEF Foretelling
<1>7. CASE FailLoad
  <2>1. /\ phase = "load" /\ phase' = "merge"
        /\ UNCHANGED <<files, rig, manuals, ledger, outcome, held, shard, published, foretold>>
    BY <1>7 DEF FailLoad
  <2>2. Known' = Known
    BY <2>1 DEF Known
  <2> QED
    BY <1>3, <2>1, <2>2 DEF Foretelling
<1>8. CASE TruncateLedger
  <2>1. /\ phase = "record" /\ phase' = "write"
        /\ UNCHANGED <<files, rig, manuals, outcome, held, shard, published, foretold>>
    BY <1>8 DEF TruncateLedger
  <2>2. Known = ledger.rows /\ Known' = held
    BY <2>1 DEF Known
  <2>3. Grew(Known, Known', manuals.rows)
    BY <2>1, <2>2 DEF Foretelling
  <2>4. ASSUME foretold # None
        PROVE  /\ published.manuals = manuals
               /\ \E copy : /\ foretold = Evaluate(files, Unannotated(published.manuals, rig), rig, copy).rejections
                            /\ Grew(copy, Known', published.manuals.rows)
    <3>1. PICK copy : /\ published.manuals = manuals
                      /\ foretold = Evaluate(files, Unannotated(published.manuals, rig), rig, copy).rejections
                      /\ Grew(copy, Known, published.manuals.rows)
      BY <2>1, <2>4 DEF Foretelling
    <3>2. Grew(copy, Known', published.manuals.rows)
      BY <2>3, <3>1, GrewMore
    <3> QED
      BY <3>1, <3>2
  <2> QED
    BY <1>3, <2>1, <2>4 DEF Foretelling
<1>9. CASE WriteLedger
  <2>1. /\ phase = "write" /\ phase' = "build" /\ ledger'.rows = held
        /\ UNCHANGED <<files, rig, manuals, outcome, held, shard, published, foretold>>
    BY <1>9 DEF WriteLedger
  <2>2. Known' = Known
    BY <2>1 DEF Known
  <2> QED
    BY <1>3, <2>1, <2>2 DEF Foretelling
<1>10. CASE Build
  <2>1. /\ phase = "build" /\ phase' = "merge" /\ shard'.passages = Chunks(outcome)
        /\ UNCHANGED <<files, rig, manuals, ledger, outcome, held, published, foretold>>
    BY <1>10 DEF Build
  <2>2. Known' = Known
    BY <2>1 DEF Known
  <2>3. \E n \in Nat : DOMAIN shard'.passages = 1..n
    <3>1. PICK m : Serves(Ingesting(outcome), m)
      BY <2>1 DEF Shelved, Sound
    <3>2. PICK n : Chunked(Chunks(outcome), n, Ingesting(outcome), m)
      BY <3>1, ChunksAre
    <3> QED
      BY <2>1, <3>2 DEF Chunked
  <2> QED
    BY <1>3, <2>1, <2>2, <2>3 DEF Foretelling
<1>11. CASE Publish
  <2>1. /\ phase = "merge" /\ phase' = "idle" /\ outcome' = None
        /\ published' = [manuals |-> manuals, authored |-> AuthoredRows]
        /\ UNCHANGED <<files, rig, manuals, ledger, shard, foretold>>
    BY <1>11 DEF Publish
  <2>2. Known' = Known
    BY <2>1 DEF Known
  <2>3. AreNotes(AuthoredRows)
    <3>1. CASE shard = None
      <4>1. AuthoredRows = <<>>
        BY <3>1 DEF AuthoredRows
      <4>2. <<>> \in Seq({}) /\ DOMAIN <<>> = {}
        OBVIOUS
      <4>3. IsSeq(<<>>)
        BY <4>2, IsSeqOf
      <4>4. AreNotes(<<>>)
        BY <4>2, <4>3 DEF AreNotes
      <4> QED
        BY <4>1, <4>4
    <3>2. CASE shard # None
      <4>1. PICK n \in Nat : DOMAIN shard.passages = 1..n
        BY <3>2 DEF Foretelling
      <4>2. PICK rows : rows = AuthoredRows
        OBVIOUS
      <4>3. rows = [i \in 1..n |-> [source |-> AuthoredSource, number |-> None,
                                    title |-> shard.passages[i].symptom, id |-> shard.passages[i].id,
                                    words |-> ToSet(shard.passages[i].text)]]
        BY <3>2, <4>1, <4>2 DEF AuthoredRows
      <4>4. DOMAIN rows = 1..n /\ rows = [i \in 1..n |-> rows[i]] /\ \A i \in 1..n : rows[i].source = AuthoredSource
        BY <4>3
      <4>5. IsSeq(rows)
        BY <4>1, <4>4, ListOver
      <4> QED
        BY <4>2, <4>4, <4>5 DEF AreNotes
    <3> QED
      BY <3>1, <3>2
  <2>4. published'.manuals = manuals /\ AreNotes(published'.authored)
    BY <2>1, <2>3
  <2>5. IsSeq(manuals.rows)
    BY DEF Shelved
  <2>6. foretold # None => published.manuals = manuals
    BY <2>1 DEF Foretelling
  <2> QED
    BY <1>2, <2>1, <2>2, <2>4, <2>5, <2>6 DEF Foretelling
<1>12. CASE Crash
  <2>1. /\ phase # "idle" /\ phase' = "idle" /\ outcome' = None
        /\ UNCHANGED <<files, rig, manuals, shard, published>>
        /\ foretold' = None \/ (phase # "write" /\ UNCHANGED <<ledger, foretold>>)
    BY <1>12 DEF Crash
  <2>2. foretold' = None \/ (foretold' = foretold /\ Known' = Known)
    BY <2>1 DEF Known
  <2> QED
    BY <1>2, <2>1, <2>2 DEF Foretelling
<1>13. CASE UNCHANGED vars
  <2>1. UNCHANGED <<files, rig, manuals, ledger, phase, outcome, held, shard, published, foretold>>
    BY <1>13 DEF vars
  <2>2. Known' = Known
    BY <2>1 DEF Known
  <2> QED
    BY <1>3, <2>1, <2>2 DEF Foretelling
<1>14. CASE Load
  BY <1>14, LoadForetold
<1>15. CASE Validate
  BY <1>15, ValidateForetold
<1> QED
  BY <1>4, <1>5, <1>6, <1>7, <1>8, <1>9, <1>10, <1>11, <1>12, <1>13, <1>14, <1>15 DEF Next

\* Requirement 5.4: whatever runs, crashes, edits and lost ledgers came before, an
\* ingest of the edition validate looked at excludes the files it named, each for
\* the reason it gave, where no manual describes a device of another name.
THEOREM ValidateIsTrue == Spec => []ValidateForetells
<1>1. Foretelling => ValidateForetells
  BY DEF Foretelling
<1>2. Foretelling /\ Shelved /\ StoreInv /\ StoreInv' /\ [Next]_vars => Foretelling'
  BY StepForetelling
<1> QED
  BY <1>1, <1>2, InitForetelling, InitShelved, StepShelved, InitHolds, StepKeeps, PTL DEF Spec

=============================================================================
