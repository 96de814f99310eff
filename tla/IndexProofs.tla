----------------------------- MODULE IndexProofs -----------------------------
(***************************************************************************)
(* Theorems about IngestRun and CorpusWatch, for any sources, documents,   *)
(* setups, releases and bounds:                                            *)
(*                                                                         *)
(*   IndexIsSound         the inductive invariant of the runs: every shard *)
(*                        is of its source, the draft is the merge of the  *)
(*                        shards, the manifest names a good view           *)
(*   NamesWholeView       manifest.json names a whole view                 *)
(*   OneModel             a view is published with vectors of one model,   *)
(*                        but for those a torn commit left mixed           *)
(*   SidecarIsResolved    the authored sidecar is resolved against the     *)
(*                        vendor passages of the same view                 *)
(*   PublishesTheStores   a run without a failure publishes what the       *)
(*                        stores hold, but for what is mixed               *)
(*   NothingIsMissed      after a check the engine serves what the         *)
(*                        manifest names                                   *)
(*   LiveViewKept         it never gives its view up for one it cannot     *)
(*                        read                                             *)
(*                                                                         *)
(* Where the rows of a merge are is a matter of sums (Total, Flattened, in *)
(* ListsProofs), not of induction over data.  The watcher's part is an     *)
(* order: what it has seen, what it stat'd and what it read were published *)
(* one after the other, all before the draft; so a check that ends having  *)
(* seen the manifest that is there now has read that one.  The invariant   *)
(* of the runs holds beside the engine as well, and the deletion of the    *)
(* index keeps it.                                                         *)
(***************************************************************************)
EXTENDS CorpusWatch, ListsProofs

-----------------------------------------------------------------------------
(* The type invariant.                                                     *)

ShardFiles ==
  [passages : Seq(PassageIds) \cup {NoFile}, vectors : Seq(Rows) \cup {NoFile},
   sidecar : Sidecars \cup {NoFile}, meta : Metas \cup {NoFile}]

\* The values the variables take.
TypeOK ==
  /\ store \in [Sources -> Docs \cup {NoDoc}]
  /\ edits \in Nat
  /\ setup \in Setups /\ using \in Setups
  /\ files \in [Sources -> ShardFiles]
  /\ views \in Seq({PartialView} \cup WholeViews)
  /\ phase \in {"idle", "ingest", "merge", "publish"}
  /\ scan \in [Sources -> Docs \cup {NoDoc, Unknown}]
  /\ todo \subseteq {s \in Sources : scan[s] \in Docs}
  /\ failed \in BOOLEAN /\ fresh \in BOOLEAN
  /\ draft \in Nat
  /\ excluded \subseteq Sources
  /\ mixed \subseteq Sources \X Columns

\* The passages of a document are of its source.
LEMMA PassagesType ==
  ASSUME NEW s \in Sources, NEW d \in Docs, NEW v \in Versions
  PROVE  /\ Passages(s, d, v) \in Seq(PassageIds)
         /\ \A i \in DOMAIN Passages(s, d, v) : Passages(s, d, v)[i][1] = s
<1>1. PICK c : c = Chunks[d][v]
  OBVIOUS
<1>2. c \in Seq(Texts)
  BY <1>1, ChunksAssumption
<1>3. Passages(s, d, v) = [i \in 1..Len(c) |-> <<s, c[i]>>]
  BY <1>1, <1>2 DEF Passages
<1>4. \A i \in 1..Len(c) : <<s, c[i]>> \in PassageIds
  BY <1>2 DEF PassageIds
<1> QED
  BY <1>2, <1>3, <1>4

\* A vector is a row of the previous shard for the passage, or a new one.
LEMMA RowType ==
  ASSUME TypeOK, NEW s \in Sources, NEW p \in PassageIds,
         ReusesRows(s) => files[s].vectors # NoFile
  PROVE  Row(s, p) \in Rows
<1>1. PICK old : old = files[s]
  OBVIOUS
<1>2. old \in ShardFiles
  BY <1>1 DEF TypeOK
<1>3. PICK known : known = {i \in DOMAIN old.meta.ids :
                              old.meta.ids[i] = p /\ i <= Len(old.vectors)}
  OBVIOUS
<1>4. CASE ReusesRows(s) /\ known # {}
  <2>1. PICK i : i = CHOOSE k \in known : TRUE
    OBVIOUS
  <2>2. i \in known
    BY <1>4, <2>1
  <2>3. Row(s, p) = old.vectors[i]
    BY <1>1, <1>3, <1>4, <2>1 DEF Row
  <2>4. old.meta \in Metas /\ old.vectors \in Seq(Rows)
    BY <1>1, <1>2, <1>4 DEF ShardFiles, ReusesRows, HasShard
  <2>5. old.meta.ids \in Seq(PassageIds)
    BY <2>4 DEF Metas
  <2>6. i \in 1..Len(old.vectors)
    BY <1>3, <2>2, <2>4, <2>5
  <2> QED
    BY <2>3, <2>4, <2>6
<1>5. CASE ~(ReusesRows(s) /\ known # {})
  <2>1. Row(s, p) = [text |-> p, model |-> using.model]
    BY <1>1, <1>3, <1>5 DEF Row
  <2>2. using.model \in Models
    BY DEF TypeOK, Models
  <2> QED
    BY <2>1, <2>2 DEF Rows
<1> QED
  BY <1>4, <1>5

\* What a build makes, field by field.
LEMMA BuiltType ==
  ASSUME TypeOK, NEW s \in Sources, Loads(s), CanBuild(s),
         s \notin Authored => ~ReusesRows(s)
  PROVE  LET new == Built(s)  ids == Passages(s, store[s], using.version) IN
           /\ new.passages = ids /\ ids \in Seq(PassageIds)
           /\ \A i \in DOMAIN ids : ids[i][1] = s
           /\ new.vectors = [i \in DOMAIN ids |-> Row(s, ids[i])]
           /\ new.vectors \in Seq(Rows) /\ Len(new.vectors) = Len(ids)
           /\ new.sidecar = IF s \in Authored THEN [resolved |-> VendorPassages] ELSE NoFile
           /\ new.sidecar \in IF s \in Authored THEN Sidecars ELSE {NoFile}
           /\ new.meta \in Metas
           /\ new.meta.fingerprint = scan[s] /\ new.meta.version = using.version
           /\ new.meta.model = using.model
           /\ new.meta.ids = IF s \in Authored THEN ids ELSE << >>
           /\ new \in ShardFiles
<1>1. PICK ids : ids = Passages(s, store[s], using.version)
  OBVIOUS
<1>2. store[s] \in Docs /\ using.version \in Versions /\ using.model \in Models
      /\ scan[s] \in Docs
  BY DEF CanBuild, Versions, Models, TypeOK, Loads, TurnOf
<1>3. ids \in Seq(PassageIds) /\ \A i \in DOMAIN ids : ids[i][1] = s
  BY <1>1, <1>2, PassagesType
<1>4. PICK rows : rows = [i \in DOMAIN ids |-> Row(s, ids[i])]
  OBVIOUS
<1>5. rows \in Seq(Rows) /\ Len(rows) = Len(ids)
  <2>1. ReusesRows(s) => files[s].vectors # NoFile
    BY DEF CanBuild
  <2>2. \A i \in 1..Len(ids) : Row(s, ids[i]) \in Rows
    BY <1>3, <2>1, RowType
  <2> QED
    BY <1>3, <1>4, <2>2
<1>6. ASSUME s \in Authored PROVE VendorPassages \in SUBSET PassageIds
  <2>1. \A u \in Sources \ Authored : HasShard(u) =>
          ToSet(files[u].passages) \subseteq PassageIds
    <3> SUFFICES ASSUME NEW u \in Sources \ Authored, HasShard(u)
                 PROVE  ToSet(files[u].passages) \subseteq PassageIds
      OBVIOUS
    <3>1. files[u].passages \in Seq(PassageIds) \cup {NoFile}
      BY DEF TypeOK, ShardFiles
    <3>2. files[u].passages # NoFile
      BY <1>6 DEF CanBuild
    <3> QED
      BY <3>1, <3>2 DEF ToSet
  <2> QED
    BY <2>1 DEF VendorPassages
<1>7. PICK side : side = IF s \in Authored THEN [resolved |-> VendorPassages] ELSE NoFile
  OBVIOUS
<1>8. side \in IF s \in Authored THEN Sidecars ELSE {NoFile}
  BY <1>6, <1>7 DEF Sidecars
<1>9. PICK meta : meta = [fingerprint |-> scan[s], version |-> using.version,
                          model |-> using.model, rows |-> Len(ids),
                          ids |-> IF s \in Authored THEN ids ELSE << >>]
  OBVIOUS
<1>10. meta \in Metas
  BY <1>2, <1>3, <1>9 DEF Metas
<1>11. Built(s) = [passages |-> ids, vectors |-> rows, sidecar |-> side, meta |-> meta]
  BY <1>1, <1>4, <1>7, <1>9 DEF Built
<1>12. Built(s) \in ShardFiles
  BY <1>3, <1>5, <1>8, <1>10, <1>11 DEF ShardFiles
<1> QED
  BY <1>1, <1>3, <1>4, <1>5, <1>7, <1>8, <1>9, <1>10, <1>11, <1>12

-----------------------------------------------------------------------------
(* The shards.                                                             *)

\* The passages a meta speaks of, and their vectors.
Indexed(s, meta) ==
  IF s \in Authored THEN meta.ids ELSE Passages(s, meta.fingerprint, meta.version)

Encoded(ids, model) == [j \in DOMAIN ids |-> [text |-> ids[j], model |-> model]]

\* Vectors that are not mixed are of the meta's model and, unless the passages
\* of a manual are, the vectors of the passages it speaks of.
VectorsOf(s, f, mix) ==
  /\ \A i \in DOMAIN f.vectors : f.vectors[i].model = f.meta.model
  /\ s \in Authored \/ <<s, "passages">> \notin mix =>
       f.vectors = Encoded(Indexed(s, f.meta), f.meta.model)

\* Passages that are not mixed are those the meta speaks of, one for each vector.
PassagesOf(s, f) ==
  /\ f.passages = Indexed(s, f.meta)
  /\ f.vectors # NoFile => Len(f.vectors) = Len(f.passages)

\* What the files f of source s always are: its own rows; a manual's meta maps
\* none; and what is not mixed is of the meta.
ShardOf(s, f, mix) ==
  /\ f.passages # NoFile => \A i \in DOMAIN f.passages : f.passages[i][1] = s
  /\ f.vectors # NoFile => \A i \in DOMAIN f.vectors : f.vectors[i].text[1] = s
  /\ f.meta # NoFile /\ s \notin Authored => f.meta.ids = << >>
  /\ f.meta # NoFile /\ f.vectors # NoFile /\ <<s, "vectors">> \notin mix =>
       VectorsOf(s, f, mix)
  /\ f.meta # NoFile /\ f.passages # NoFile /\ <<s, "passages">> \notin mix =>
       PassagesOf(s, f)

ShardsOK == \A s \in Sources : ShardOf(s, files[s], mixed)

\* A vector is of the source, and the passage's own if it is new or if the map it
\* is taken from is that of the vectors.
LEMMA RowOf ==
  ASSUME TypeOK, NEW s \in Sources, ShardOf(s, files[s], mixed),
         NEW p \in PassageIds, p[1] = s, ReusesRows(s) => files[s].vectors # NoFile
  PROVE  /\ Row(s, p).text[1] = s
         /\ ~ReusesRows(s) \/ (s \in Authored /\ <<s, "vectors">> \notin mixed) =>
              Row(s, p) = [text |-> p, model |-> using.model]
<1>1. PICK old : old = files[s]
  OBVIOUS
<1>2. old \in ShardFiles
  BY <1>1 DEF TypeOK
<1>3. PICK known : known = {i \in DOMAIN old.meta.ids :
                              old.meta.ids[i] = p /\ i <= Len(old.vectors)}
  OBVIOUS
<1>4. CASE ReusesRows(s) /\ known # {}
  <2>1. PICK i : i = CHOOSE k \in known : TRUE
    OBVIOUS
  <2>2. i \in known
    BY <1>4, <2>1
  <2>3. Row(s, p) = old.vectors[i]
    BY <1>1, <1>3, <1>4, <2>1 DEF Row
  <2>4. old.meta \in Metas /\ old.vectors \in Seq(Rows) /\ old.meta # NoFile
        /\ old.vectors # NoFile /\ old.meta.model = using.model
    BY <1>1, <1>2, <1>4 DEF ShardFiles, ReusesRows, HasShard
  <2>5. old.meta.ids \in Seq(PassageIds)
    BY <2>4 DEF Metas
  <2>6. i \in 1..Len(old.vectors) /\ i \in DOMAIN old.meta.ids /\ old.meta.ids[i] = p
    BY <1>3, <2>2, <2>4, <2>5
  <2>7. old.vectors[i].text[1] = s
    BY <1>1, <2>4, <2>6 DEF ShardOf
  <2>8. ASSUME s \in Authored, <<s, "vectors">> \notin mixed
        PROVE  old.vectors[i] = [text |-> p, model |-> using.model]
    <3>1. VectorsOf(s, old, mixed)
      BY <1>1, <2>4, <2>8 DEF ShardOf
    <3>2. old.vectors = Encoded(old.meta.ids, old.meta.model)
      BY <2>8, <3>1 DEF VectorsOf, Indexed
    <3> QED
      BY <2>4, <2>6, <3>2 DEF Encoded
  <2> QED
    BY <1>4, <2>3, <2>7, <2>8
<1>5. CASE ~(ReusesRows(s) /\ known # {})
  <2>1. Row(s, p) = [text |-> p, model |-> using.model]
    BY <1>1, <1>3, <1>5 DEF Row
  <2> QED
    BY <2>1
<1> QED
  BY <1>4, <1>5

\* A build of a source is a shard of it.
LEMMA BuiltShard ==
  ASSUME TypeOK, NEW s \in Sources, ShardOf(s, files[s], mixed), Loads(s), CanBuild(s)
  PROVE  LET new == Commit(s, Built(s)) IN
           /\ new \in ShardFiles /\ ShardOf(s, new, MixedAfter(s))
           /\ new.meta # NoFile
           /\ new.passages = Passages(s, store[s], using.version)
           /\ new.passages \in Seq(PassageIds) /\ new.vectors \in Seq(Rows)
           /\ Len(new.vectors) = Len(new.passages)
           /\ new.meta.fingerprint = scan[s] /\ new.meta.version = using.version
           /\ new.meta.model = using.model
           /\ s \in Authored => new.sidecar = [resolved |-> VendorPassages]
<1>1. PICK b : b = Built(s)
  OBVIOUS
<1>2. PICK ids : ids = Passages(s, store[s], using.version)
  OBVIOUS
<1>3. s \notin Authored => ~ReusesRows(s)
  BY DEF ShardOf, ReusesRows, HasShard
<1>4. /\ b.passages = ids /\ ids \in Seq(PassageIds)
      /\ \A i \in DOMAIN ids : ids[i][1] = s
      /\ b.vectors = [i \in DOMAIN ids |-> Row(s, ids[i])]
      /\ b.vectors \in Seq(Rows) /\ Len(b.vectors) = Len(ids)
      /\ b.sidecar = IF s \in Authored THEN [resolved |-> VendorPassages] ELSE NoFile
      /\ b.sidecar \in IF s \in Authored THEN Sidecars ELSE {NoFile}
      /\ b.meta \in Metas
      /\ b.meta.fingerprint = scan[s] /\ b.meta.version = using.version
      /\ b.meta.model = using.model
      /\ b.meta.ids = IF s \in Authored THEN ids ELSE << >>
      /\ b \in ShardFiles
  BY <1>1, <1>2, <1>3, BuiltType
<1>5. PICK side : side = IF b.sidecar = NoFile THEN files[s].sidecar ELSE b.sidecar
  OBVIOUS
<1>6. side \in Sidecars \cup {NoFile}
  BY <1>4, <1>5 DEF TypeOK, ShardFiles
<1>7. PICK new : new = Commit(s, Built(s))
  OBVIOUS
<1>8. new = [b EXCEPT !.sidecar = side]
  <2>1. new = [b EXCEPT !.sidecar = IF b.sidecar = NoFile THEN files[s].sidecar ELSE b.sidecar]
    BY <1>1, <1>7 DEF Commit
  <2> QED
    BY <1>5, <2>1
<1>9. new \in ShardFiles /\ new.passages = b.passages /\ new.vectors = b.vectors
      /\ new.meta = b.meta /\ new.sidecar = side
  BY <1>4, <1>6, <1>8 DEF ShardFiles
<1>10. new.meta # NoFile
  BY <1>4, <1>9, SentinelsAssumption
<1>11. s \in Authored => side = [resolved |-> VendorPassages]
  BY <1>4, <1>5, SentinelsAssumption
<1>12. \A i \in DOMAIN ids :
         /\ Row(s, ids[i]).text[1] = s
         /\ ~ReusesRows(s) \/ (s \in Authored /\ <<s, "vectors">> \notin mixed) =>
              Row(s, ids[i]) = [text |-> ids[i], model |-> using.model]
  <2>1. ReusesRows(s) => files[s].vectors # NoFile
    BY <1>3 DEF CanBuild
  <2>2. \A i \in DOMAIN ids : ids[i] \in PassageIds
    BY <1>4
  <2> QED
    BY <1>4, <2>1, <2>2, RowOf
<1>13. PICK mix : mix = MixedAfter(s)
  OBVIOUS
<1>14. <<s, "vectors">> \notin mix =>
         ~ReusesRows(s) \/ (s \in Authored /\ <<s, "vectors">> \notin mixed)
  BY <1>3, <1>13 DEF MixedAfter
<1>15. <<s, "passages">> \notin mix /\ s \notin Authored => store[s] = scan[s]
  BY <1>13 DEF MixedAfter
<1>16. <<s, "passages">> \notin mix => Indexed(s, new.meta) = ids
  BY <1>2, <1>4, <1>9, <1>15 DEF Indexed
<1>17. s \in Authored => Indexed(s, new.meta) = ids
  BY <1>4, <1>9 DEF Indexed
<1>18. ShardOf(s, new, mix)
  <2>1. \A i \in DOMAIN new.passages : new.passages[i][1] = s
    BY <1>4, <1>9
  <2>2. \A i \in DOMAIN new.vectors : new.vectors[i].text[1] = s
    BY <1>4, <1>9, <1>12
  <2>3. s \notin Authored => new.meta.ids = << >>
    BY <1>4, <1>9
  <2>4. ASSUME <<s, "vectors">> \notin mix PROVE VectorsOf(s, new, mix)
    <3>1. new.vectors = Encoded(ids, new.meta.model)
      BY <1>4, <1>9, <1>12, <1>14, <2>4 DEF Encoded
    <3>2. \A i \in DOMAIN new.vectors : new.vectors[i].model = new.meta.model
      BY <3>1 DEF Encoded
    <3> QED
      BY <1>16, <1>17, <3>1, <3>2 DEF VectorsOf
  <2>5. ASSUME <<s, "passages">> \notin mix PROVE PassagesOf(s, new)
    BY <1>4, <1>9, <1>16, <2>5 DEF PassagesOf
  <2> QED
    BY <2>1, <2>2, <2>3, <2>4, <2>5 DEF ShardOf
<1> QED
  BY <1>2, <1>4, <1>7, <1>9, <1>10, <1>11, <1>13, <1>18

\* No files at all are a shard of any source.
LEMMA NoShardOf ==
  ASSUME NEW s \in Sources, NEW mix
  PROVE  NoShard \in ShardFiles /\ ShardOf(s, NoShard, mix) /\ NoShard.meta = NoFile
BY DEF NoShard, ShardFiles, ShardOf

\* The files a move cut short leaves, one by one: the meta is the last.
LEMMA MovedIs ==
  ASSUME NEW old, NEW new, NEW n \in 1..3
  PROVE  LET f == Moved(old, new, n) IN
           /\ f = [passages |-> new.passages, vectors |-> f.vectors, sidecar |-> f.sidecar,
                   meta |-> old.meta]
           /\ f.vectors = IF n = 1 THEN old.vectors ELSE new.vectors
           /\ f.sidecar = IF n = 3 THEN new.sidecar ELSE old.sidecar
<1>1. PICK moved : moved = {FileOrder[i] : i \in 1..n}
  OBVIOUS
<1>2. /\ "passages" \in moved /\ "meta" \notin moved
      /\ "vectors" \in moved <=> n # 1
      /\ "sidecar" \in moved <=> n = 3
  BY <1>1 DEF FileOrder
<1>3. PICK f : f = Moved(old, new, n)
  OBVIOUS
<1>4. f = [passages |-> new.passages,
           vectors  |-> IF n # 1 THEN new.vectors ELSE old.vectors,
           sidecar  |-> IF n = 3 THEN new.sidecar ELSE old.sidecar,
           meta     |-> old.meta]
  BY <1>1, <1>2, <1>3 DEF Moved
<1> QED
  BY <1>3, <1>4

\* A commit or a drop that is cut short leaves a shard whose files that are not
\* mixed are of its meta.
LEMMA MovedOf ==
  ASSUME TypeOK, NEW s \in Sources, NEW new \in ShardFiles, NEW n \in 1..3,
         ShardOf(s, files[s], mixed), NEW any, ShardOf(s, new, any),
         new # NoShard => /\ new.passages \in Seq(PassageIds) /\ new.vectors \in Seq(Rows)
                          /\ Len(new.vectors) = Len(new.passages),
         NEW mix, mix = mixed \cup (IF HasShard(s) /\ new # NoShard
                                      THEN Mixes(s, Moved(files[s], new, n)) ELSE {})
  PROVE  Moved(files[s], new, n) \in ShardFiles /\ ShardOf(s, Moved(files[s], new, n), mix)
<1>1. PICK old : old = files[s]
  OBVIOUS
<1>2. PICK f : f = Moved(old, new, n)
  OBVIOUS
<1>3. /\ f = [passages |-> new.passages, vectors |-> f.vectors, sidecar |-> f.sidecar,
              meta |-> old.meta]
      /\ f.vectors = IF n = 1 THEN old.vectors ELSE new.vectors
      /\ f.sidecar = IF n = 3 THEN new.sidecar ELSE old.sidecar
  BY <1>2, MovedIs
<1>4. old \in ShardFiles
  BY <1>1 DEF TypeOK
<1>5. f \in ShardFiles
  BY <1>3, <1>4 DEF ShardFiles
<1>6. f.passages = new.passages /\ f.meta = old.meta
  BY <1>3
<1>7. /\ f.passages # NoFile => \A i \in DOMAIN f.passages : f.passages[i][1] = s
      /\ f.vectors # NoFile => \A i \in DOMAIN f.vectors : f.vectors[i].text[1] = s
      /\ f.meta # NoFile /\ s \notin Authored => f.meta.ids = << >>
  BY <1>1, <1>3, <1>6 DEF ShardOf
<1>8. CASE f.meta = NoFile
  BY <1>2, <1>1, <1>5, <1>7, <1>8 DEF ShardOf
<1>9. CASE f.meta # NoFile /\ new = NoShard
  <2>1. mix = mixed /\ f.passages = NoFile
    BY <1>6, <1>9 DEF NoShard
  <2>2. f.vectors \in {old.vectors, NoFile}
    BY <1>3, <1>9 DEF NoShard
  <2>3. ASSUME f.vectors # NoFile, <<s, "vectors">> \notin mix PROVE VectorsOf(s, f, mix)
    <3>1. VectorsOf(s, old, mixed)
      BY <1>1, <1>6, <1>9, <2>1, <2>2, <2>3 DEF ShardOf
    <3> QED
      BY <1>6, <2>1, <2>2, <2>3, <3>1 DEF VectorsOf
  <2> QED
    BY <1>1, <1>2, <1>5, <1>7, <2>1, <2>3 DEF ShardOf
<1>10. CASE f.meta # NoFile /\ new # NoShard
  <2>1. mix = mixed \cup Mixes(s, f)
    BY <1>1, <1>2, <1>6, <1>10 DEF HasShard
  <2>2. <<s, "passages">> \notin mix =>
          f.passages = old.passages /\ <<s, "passages">> \notin mixed
    BY <1>1, <2>1 DEF Mixes, Columns
  <2>3. <<s, "vectors">> \notin mix =>
          f.vectors = old.vectors /\ <<s, "vectors">> \notin mixed
    BY <1>1, <2>1 DEF Mixes, Columns
  <2>4. ASSUME f.vectors # NoFile, <<s, "vectors">> \notin mix PROVE VectorsOf(s, f, mix)
    <3>1. VectorsOf(s, old, mixed)
      BY <1>1, <1>6, <1>10, <2>3, <2>4 DEF ShardOf
    <3> QED
      BY <1>6, <2>2, <2>3, <2>4, <3>1 DEF VectorsOf
  <2>5. ASSUME f.passages # NoFile, <<s, "passages">> \notin mix PROVE PassagesOf(s, f)
    <3>1. PassagesOf(s, old)
      BY <1>1, <1>6, <1>10, <2>2, <2>5 DEF ShardOf
    <3>2. CASE n = 1
      BY <1>3, <1>6, <2>2, <2>5, <3>1, <3>2 DEF PassagesOf
    <3>3. CASE n # 1
      BY <1>3, <1>6, <1>10, <2>2, <2>5, <3>1, <3>3 DEF PassagesOf
    <3> QED
      BY <3>2, <3>3
  <2> QED
    BY <1>1, <1>2, <1>5, <1>7, <2>4, <2>5 DEF ShardOf
<1> QED
  BY <1>8, <1>9, <1>10

\* Every step leaves every source with a shard of its own.
LEMMA FilesStep ==
  ASSUME TypeOK, ShardsOK, [Next]_vars
  PROVE  /\ files' \in [Sources -> ShardFiles] /\ ShardsOK'
         /\ mixed' \subseteq Sources \X Columns
<1> DEFINE Goal == /\ files' \in [Sources -> ShardFiles] /\ ShardsOK'
                   /\ mixed' \subseteq Sources \X Columns
<1>0. mixed \subseteq Sources \X Columns
  BY DEF TypeOK
<1>1. ASSUME NEW s \in Sources, NEW f \in ShardFiles, ShardOf(s, f, mixed'),
             files' = [files EXCEPT ![s] = f], mixed' \subseteq Sources \X Columns,
             \A u \in Sources \ {s}, c \in Columns : <<u, c>> \in mixed' <=> <<u, c>> \in mixed
      PROVE  Goal
  <2>1. files' \in [Sources -> ShardFiles]
    BY <1>1 DEF TypeOK
  <2>2. ShardOf(s, files'[s], mixed')
    BY <1>1 DEF TypeOK
  <2>3. ASSUME NEW u \in Sources \ {s} PROVE ShardOf(u, files'[u], mixed')
    <3>1. files'[u] = files[u] /\ ShardOf(u, files[u], mixed)
      BY <1>1 DEF TypeOK, ShardsOK
    <3>2. /\ <<u, "passages">> \in mixed' <=> <<u, "passages">> \in mixed
          /\ <<u, "vectors">> \in mixed' <=> <<u, "vectors">> \in mixed
      BY <1>1 DEF Columns
    <3> QED
      BY <3>1, <3>2 DEF ShardOf, VectorsOf
  <2>4. \A u \in Sources : ShardOf(u, files'[u], mixed')
    BY <2>2, <2>3
  <2> QED
    BY <1>1, <2>1, <2>4 DEF ShardsOK
<1>2. CASE UNCHANGED <<files, mixed>>
  BY <1>0, <1>2 DEF TypeOK, ShardsOK
<1>3. ASSUME NEW s \in Sources, RemoveSource(s) \/ Reject(s) PROVE Goal
  <2>1. files' = [files EXCEPT ![s] = NoShard] /\ mixed' = mixed \ ({s} \X Columns)
    BY <1>3 DEF RemoveSource, Reject
  <2>2. NoShard \in ShardFiles /\ ShardOf(s, NoShard, mixed')
    BY NoShardOf
  <2> QED
    BY <1>0, <1>1, <2>1, <2>2
<1>4. ASSUME NEW s \in Sources, Build(s) PROVE Goal
  <2>1. /\ Loads(s) /\ CanBuild(s) /\ files' = [files EXCEPT ![s] = Commit(s, Built(s))]
        /\ mixed' = MixedAfter(s)
    BY <1>4 DEF Build
  <2>2. Commit(s, Built(s)) \in ShardFiles /\ ShardOf(s, Commit(s, Built(s)), mixed')
    BY <2>1, BuiltShard DEF ShardsOK
  <2>3. mixed' \subseteq Sources \X Columns
    BY <1>0, <2>1 DEF MixedAfter, Columns
  <2>4. \A u \in Sources \ {s}, c \in Columns : <<u, c>> \in mixed' <=> <<u, c>> \in mixed
    BY <2>1 DEF MixedAfter
  <2> QED
    BY <1>1, <2>1, <2>2, <2>3, <2>4
<1>5. ASSUME NEW s \in Sources, Tear(s) PROVE Goal
  <2>1. PICK n \in 1..3,
             new \in {NoShard} \cup (IF Loads(s) /\ CanBuild(s)
                                       THEN {Commit(s, Built(s))} ELSE {}) :
          /\ files' = [files EXCEPT ![s] = Moved(@, new, n)]
          /\ mixed' = mixed \cup (IF HasShard(s) /\ new # NoShard
                                    THEN Mixes(s, Moved(files[s], new, n)) ELSE {})
    BY <1>5 DEF Tear
  <2>2. /\ new \in ShardFiles /\ ShardOf(s, new, MixedAfter(s))
        /\ new # NoShard => /\ new.passages \in Seq(PassageIds) /\ new.vectors \in Seq(Rows)
                            /\ Len(new.vectors) = Len(new.passages)
    BY <2>1, NoShardOf, BuiltShard DEF ShardsOK
  <2>3. PICK f : f = Moved(files[s], new, n)
    OBVIOUS
  <2>4. f \in ShardFiles /\ ShardOf(s, f, mixed')
    BY <2>1, <2>2, <2>3, MovedOf DEF ShardsOK
  <2>5. files' = [files EXCEPT ![s] = f]
    BY <2>1, <2>3
  <2>6. mixed' \subseteq Sources \X Columns
    BY <1>0, <2>1 DEF Mixes
  <2>7. \A u \in Sources \ {s}, c \in Columns : <<u, c>> \in mixed' <=> <<u, c>> \in mixed
    BY <2>1 DEF Mixes
  <2> QED
    BY <1>1, <2>4, <2>5, <2>6, <2>7
<1>6. ASSUME NEW s \in Sources, Skip(s) \/ Fail(s) \/ Edit(s) PROVE Goal
  BY <1>2, <1>6 DEF Skip, Fail, Edit
<1>7. ASSUME NEW new \in Setups, Install(new) PROVE Goal
  BY <1>2, <1>7 DEF Install
<1>8. CASE Start \/ OpenView \/ WriteView \/ FailMerge \/ Publish \/ Die
  BY <1>2, <1>8 DEF Start, OpenView, WriteView, FailMerge, Publish, Die
<1>9. CASE UNCHANGED vars
  BY <1>2, <1>9 DEF vars
<1> QED
  BY <1>3, <1>4, <1>5, <1>6, <1>7, <1>8, <1>9 DEF Next, Ingest, Owner

-----------------------------------------------------------------------------
(* The merge.                                                              *)

\* The shards are those of the sources that have one.
LEMMA ShardsAre ==
  /\ Shards \in Seq(Sources)
  /\ \A i \in 1..Len(Shards) : HasShard(Shards[i])
  /\ \A s \in Sources : HasShard(s) => \E i \in 1..Len(Shards) : Shards[i] = s
<1>1. PICK n : n = Len(SourceOrder)
  OBVIOUS
<1>2. n \in Nat /\ DOMAIN SourceOrder = 1..n /\ \A j \in 1..n : SourceOrder[j] \in Sources
  BY <1>1, SourcesAssumption
<1>3. PICK seqs : seqs = [i \in DOMAIN SourceOrder |->
                            IF HasShard(SourceOrder[i]) THEN <<SourceOrder[i]>> ELSE << >>]
  OBVIOUS
<1>4. \A j \in 1..n : seqs[j] \in Seq(Sources)
  <2> SUFFICES ASSUME NEW j \in 1..n PROVE seqs[j] \in Seq(Sources)
    OBVIOUS
  <2>1. <<SourceOrder[j]>> \in Seq(Sources) /\ << >> \in Seq(Sources)
    BY <1>2
  <2> QED
    BY <1>2, <1>3, <2>1
<1>5. seqs \in Seq(Seq(Sources)) /\ Len(seqs) = n
  BY <1>2, <1>3, <1>4
<1>6. PICK counts : counts = [j \in 1..n |-> Len(seqs[j])]
  OBVIOUS
<1>7. counts \in Seq(Nat) /\ Len(counts) = n
  BY <1>2, <1>4, <1>6
<1>8. Shards \in Seq(Sources) /\ Placed(Shards, seqs, counts, n)
  <2>1. Shards = FlattenSeq(seqs)
    BY <1>3 DEF Shards
  <2> QED
    BY <1>5, <1>6, <1>7, <2>1, Flattened
<1>9. ASSUME NEW p \in 1..Len(Shards) PROVE HasShard(Shards[p])
  <2>1. PICK j \in 1..n : \E q \in 1..counts[j] : p = Total(counts, j - 1) + q
    BY <1>8 DEF Placed
  <2>2. PICK q \in 1..counts[j] : p = Total(counts, j - 1) + q
    BY <2>1
  <2>3. Shards[p] = seqs[j][q]
    BY <1>8, <2>2 DEF Placed
  <2>4. CASE HasShard(SourceOrder[j])
    <3>1. seqs[j] = <<SourceOrder[j]>> /\ counts[j] = 1
      BY <1>2, <1>3, <1>6, <2>4
    <3> QED
      BY <2>2, <2>3, <2>4, <3>1
  <2>5. CASE ~HasShard(SourceOrder[j])
    <3>1. seqs[j] = << >> /\ counts[j] = 0
      BY <1>2, <1>3, <1>6, <2>5
    <3> QED
      BY <2>2, <3>1
  <2> QED
    BY <2>4, <2>5
<1>10. ASSUME NEW s \in Sources, HasShard(s) PROVE \E i \in 1..Len(Shards) : Shards[i] = s
  <2>1. PICK j \in 1..n : SourceOrder[j] = s
    BY <1>2 DEF Sources, ToSet
  <2>2. seqs[j] = <<s>> /\ counts[j] = 1
    BY <1>2, <1>3, <1>6, <1>10, <2>1
  <2>3. 1 \in 1..counts[j] /\ seqs[j][1] = s
    BY <2>2
  <2>4. Total(counts, j - 1) + 1 \in 1..Len(Shards)
        /\ Shards[Total(counts, j - 1) + 1] = s
    BY <1>8, <2>3 DEF Placed
  <2> QED
    BY <2>4
<1> QED
  BY <1>8, <1>9, <1>10

\* Every row is one of a sequence, and every one of those is there.
RowsAre(rows, seqs) ==
  /\ \A p \in 1..Len(rows) :
       \E j \in 1..Len(seqs) : \E q \in 1..Len(seqs[j]) : rows[p] = seqs[j][q]
  /\ \A j \in 1..Len(seqs) : \A q \in 1..Len(seqs[j]) :
       \E p \in 1..Len(rows) : rows[p] = seqs[j][q]

\* That is what a concatenation is.
LEMMA FlattenedRows ==
  ASSUME NEW T, NEW seqs \in Seq(Seq(T))
  PROVE  FlattenSeq(seqs) \in Seq(T) /\ RowsAre(FlattenSeq(seqs), seqs)
<1>1. PICK n : n = Len(seqs)
  OBVIOUS
<1>2. n \in Nat /\ \A j \in 1..n : seqs[j] \in Seq(T)
  BY <1>1
<1>3. PICK counts : counts = [j \in 1..n |-> Len(seqs[j])]
  OBVIOUS
<1>4. counts \in Seq(Nat) /\ Len(counts) = n /\ \A j \in 1..n : counts[j] = Len(seqs[j])
  BY <1>2, <1>3
<1>5. FlattenSeq(seqs) \in Seq(T) /\ Placed(FlattenSeq(seqs), seqs, counts, n)
  BY <1>1, <1>4, Flattened
<1>6. PICK all : all = FlattenSeq(seqs)
  OBVIOUS
<1>7. ASSUME NEW p \in 1..Len(all)
      PROVE  \E j \in 1..n : \E q \in 1..Len(seqs[j]) : all[p] = seqs[j][q]
  <2>1. PICK j \in 1..n : \E q \in 1..counts[j] : p = Total(counts, j - 1) + q
    BY <1>5, <1>6 DEF Placed
  <2>2. PICK q \in 1..counts[j] : p = Total(counts, j - 1) + q
    BY <2>1
  <2> QED
    BY <1>4, <1>5, <1>6, <2>2 DEF Placed
<1>8. ASSUME NEW j \in 1..n, NEW q \in 1..Len(seqs[j])
      PROVE  \E p \in 1..Len(all) : all[p] = seqs[j][q]
  BY <1>4, <1>5, <1>6 DEF Placed
<1> QED
  BY <1>1, <1>5, <1>6, <1>7, <1>8 DEF RowsAre

\* The columns of the shards.
ShardRows == [i \in DOMAIN Shards |-> files[Shards[i]].passages]
ShardVectors == [i \in DOMAIN Shards |-> files[Shards[i]].vectors]
ShardCounts == [i \in DOMAIN Shards |-> Len(files[Shards[i]].passages)]

\* What a merge concatenates.
LEMMA ShardColumns ==
  ASSUME TypeOK, ~Unreadable
  PROVE  /\ ShardRows \in Seq(Seq(PassageIds)) /\ Len(ShardRows) = Len(Shards)
         /\ ShardVectors \in Seq(Seq(Rows)) /\ Len(ShardVectors) = Len(Shards)
         /\ ShardCounts \in Seq(Nat) /\ Len(ShardCounts) = Len(Shards)
         /\ \A i \in 1..Len(Shards) : /\ Shards[i] \in Sources
                                      /\ HasShard(Shards[i])
                                      /\ ShardRows[i] = files[Shards[i]].passages
                                      /\ ShardVectors[i] = files[Shards[i]].vectors
                                      /\ ShardCounts[i] = Len(ShardRows[i])
<1>1. PICK sh : sh = Shards
  OBVIOUS
<1>2. sh \in Seq(Sources) /\ \A i \in 1..Len(sh) : sh[i] \in Sources /\ HasShard(sh[i])
  BY <1>1, ShardsAre
<1>3. PICK n : n = Len(sh)
  OBVIOUS
<1>4. n \in Nat /\ DOMAIN sh = 1..n
  BY <1>2, <1>3
<1>5. \A i \in 1..n : files[sh[i]].passages \in Seq(PassageIds)
                      /\ files[sh[i]].vectors \in Seq(Rows)
  <2> SUFFICES ASSUME NEW i \in 1..n
               PROVE  files[sh[i]].passages \in Seq(PassageIds)
                      /\ files[sh[i]].vectors \in Seq(Rows)
    OBVIOUS
  <2>1. PICK s : s = sh[i]
    OBVIOUS
  <2>2. s \in Sources /\ HasShard(s)
    BY <1>2, <1>3, <2>1
  <2>3. files[s] \in ShardFiles
    BY <2>2 DEF TypeOK
  <2>4. files[s].passages # NoFile /\ files[s].vectors # NoFile
    BY <2>2 DEF Unreadable
  <2> QED
    BY <2>1, <2>3, <2>4 DEF ShardFiles
<1>6. /\ ShardRows = [i \in 1..n |-> files[sh[i]].passages]
      /\ ShardVectors = [i \in 1..n |-> files[sh[i]].vectors]
      /\ ShardCounts = [i \in 1..n |-> Len(files[sh[i]].passages)]
  BY <1>1, <1>4 DEF ShardRows, ShardVectors, ShardCounts
<1>7. /\ ShardRows \in Seq(Seq(PassageIds)) /\ Len(ShardRows) = n
      /\ ShardVectors \in Seq(Seq(Rows)) /\ Len(ShardVectors) = n
  BY <1>4, <1>5, <1>6
<1>8. ShardCounts \in Seq(Nat) /\ Len(ShardCounts) = n
  BY <1>4, <1>5, <1>6
<1> QED
  BY <1>1, <1>2, <1>3, <1>4, <1>6, <1>7, <1>8

\* A view whose rows its slices cover.
GoodView(w) == w \in WholeViews /\ Len(w.rows) = Total(w.slices, Len(w.slices))

\* The merge makes such a view.
LEMMA MergedIs ==
  ASSUME TypeOK, ShardsOK, ~Unreadable, ~MixedModels
  PROVE  GoodView(Merged)
<1>1. PICK w : w = Merged
  OBVIOUS
<1>2. /\ w.complete = TRUE /\ w.sources = Shards /\ w.slices = ShardCounts
      /\ w.rows = FlattenSeq(ShardRows) /\ w.vectors = FlattenSeq(ShardVectors)
      /\ w.model = using.model
  BY <1>1 DEF Merged, ShardRows, ShardVectors, ShardCounts
<1>3. /\ ShardRows \in Seq(Seq(PassageIds)) /\ Len(ShardRows) = Len(Shards)
      /\ ShardVectors \in Seq(Seq(Rows)) /\ Len(ShardVectors) = Len(Shards)
      /\ ShardCounts \in Seq(Nat) /\ Len(ShardCounts) = Len(Shards)
      /\ \A i \in 1..Len(Shards) : /\ Shards[i] \in Sources
                                   /\ HasShard(Shards[i])
                                   /\ ShardRows[i] = files[Shards[i]].passages
                                   /\ ShardVectors[i] = files[Shards[i]].vectors
                                   /\ ShardCounts[i] = Len(ShardRows[i])
  BY ShardColumns
<1>4. w.rows \in Seq(PassageIds) /\ Len(w.rows) = Total(w.slices, Len(w.slices))
  <2>1. FlattenSeq(ShardRows) \in Seq(PassageIds)
        /\ Placed(FlattenSeq(ShardRows), ShardRows, ShardCounts, Len(ShardRows))
    BY <1>3, Flattened
  <2> QED
    BY <1>2, <1>3, <2>1 DEF Placed
<1>5. w.vectors \in Seq(Rows)
  BY <1>2, <1>3, FlattenedRows
<1>7. w \in WholeViews
  <2>1. PICK S : S = {s \in Sources : HasShard(s) /\ files[s].sidecar # NoFile}
    OBVIOUS
  <2>2. w.sidecars = [s \in S |-> files[s].sidecar]
    BY <1>1, <2>1 DEF Merged
  <2>3. w.sidecars \in [S -> Sidecars]
    <3>1. \A s \in S : files[s].sidecar \in Sidecars
      BY <2>1 DEF TypeOK, ShardFiles
    <3> QED
      BY <2>2, <3>1
  <2>4. w.revision = {<<s, files[s].meta.fingerprint, files[s].meta.rows>> :
                        s \in {s \in Sources : HasShard(s)}}
    BY <1>1 DEF Merged
  <2>5. \A s \in Sources : HasShard(s) => files[s].meta \in Metas
    BY DEF TypeOK, ShardFiles, HasShard
  <2>6. w.revision \in SUBSET (Sources \X Docs \X Nat)
    BY <2>4, <2>5 DEF Metas
  <2>7. using.model \in Models
    BY DEF TypeOK, Models
  <2>8. Shards \in Seq(Sources)
    BY ShardsAre
  <2>9. S \in SUBSET Sources
    BY <2>1
  <2>10. w.sidecars \in UNION {[R -> Sidecars] : R \in SUBSET Sources}
    BY <2>3, <2>9
  <2>11. PICK a, b, c, d, e, g : w = [complete |-> TRUE, sources |-> Shards, slices |-> a,
                 rows |-> b, vectors |-> c, sidecars |-> d, model |-> e, revision |-> g]
    BY <1>1 DEF Merged
  <2>12. a \in Seq(Nat) /\ b \in Seq(PassageIds) /\ c \in Seq(Rows)
         /\ d \in UNION {[R -> Sidecars] : R \in SUBSET Sources} /\ e \in Models
         /\ g \in SUBSET (Sources \X Docs \X Nat)
    BY <1>2, <1>3, <1>4, <1>5, <2>6, <2>7, <2>10, <2>11
  <2> QED
    BY <2>8, <2>11, <2>12 DEF WholeViews
<1> QED
  BY <1>1, <1>4, <1>7 DEF GoodView

\* Its vectors that are not mixed are of the run's model.
LEMMA MergedModel ==
  ASSUME TypeOK, ShardsOK, ~Unreadable, ~MixedModels,
         NEW p \in DOMAIN Merged.vectors, <<Merged.vectors[p].text[1], "vectors">> \notin mixed
  PROVE  Merged.vectors[p].model = Merged.model
<1>1. PICK all : all = Merged.vectors
  OBVIOUS
<1>2. all = FlattenSeq(ShardVectors) /\ Merged.model = using.model
  BY <1>1 DEF Merged, ShardVectors
<1>3. /\ ShardVectors \in Seq(Seq(Rows)) /\ Len(ShardVectors) = Len(Shards)
      /\ \A i \in 1..Len(Shards) : /\ Shards[i] \in Sources
                                   /\ HasShard(Shards[i])
                                   /\ ShardVectors[i] = files[Shards[i]].vectors
  BY ShardColumns
<1>4. all \in Seq(Rows) /\ RowsAre(all, ShardVectors)
  BY <1>2, <1>3, FlattenedRows
<1>5. PICK j \in 1..Len(ShardVectors) : \E q \in 1..Len(ShardVectors[j]) :
             all[p] = ShardVectors[j][q]
  <2>1. p \in 1..Len(all)
    BY <1>1, <1>4
  <2> QED
    BY <1>4, <2>1 DEF RowsAre
<1>6. PICK q \in 1..Len(ShardVectors[j]) : all[p] = ShardVectors[j][q]
  BY <1>5
<1>7. PICK s : s = Shards[j]
  OBVIOUS
<1>8. PICK f : f = files[s]
  OBVIOUS
<1>9. s \in Sources /\ HasShard(s) /\ ShardVectors[j] = f.vectors
  BY <1>3, <1>7, <1>8
<1>10. f \in ShardFiles /\ f.meta # NoFile /\ f.vectors # NoFile /\ ShardOf(s, f, mixed)
  BY <1>8, <1>9 DEF TypeOK, HasShard, Unreadable, ShardsOK
<1>11. f.vectors \in Seq(Rows) /\ q \in DOMAIN f.vectors /\ all[p] = f.vectors[q]
  <2>1. f.vectors \in Seq(Rows)
    BY <1>10 DEF ShardFiles
  <2> QED
    BY <1>6, <1>9, <2>1
<1>12. f.vectors[q].text[1] = s
  BY <1>10, <1>11 DEF ShardOf
<1>13. <<s, "vectors">> \notin mixed
  BY <1>1, <1>11, <1>12
<1>14. VectorsOf(s, f, mixed)
  BY <1>10, <1>13 DEF ShardOf
<1>15. f.vectors[q].model = f.meta.model
  BY <1>11, <1>14 DEF VectorsOf
<1>16. f.meta.model = using.model
  BY <1>8, <1>9 DEF MixedModels
<1> QED
  BY <1>1, <1>2, <1>11, <1>15, <1>16

\* The vendor rows of a merged view are the passages the authored loader sees.
LEMMA VendorRows ==
  ASSUME TypeOK, ShardsOK, ~Unreadable
  PROVE  {p \in ToSet(Merged.rows) : p[1] \notin Authored} = VendorPassages
<1>1. PICK rows : rows = FlattenSeq(ShardRows)
  OBVIOUS
<1>2. Merged.rows = rows
  BY <1>1 DEF Merged, ShardRows
<1>3. /\ ShardRows \in Seq(Seq(PassageIds)) /\ Len(ShardRows) = Len(Shards)
      /\ \A i \in 1..Len(Shards) : /\ Shards[i] \in Sources
                                   /\ HasShard(Shards[i])
                                   /\ ShardRows[i] = files[Shards[i]].passages
  BY ShardColumns
<1>4. /\ rows \in Seq(PassageIds)
      /\ \A p \in 1..Len(rows) :
           \E j \in 1..Len(Shards) : \E q \in 1..Len(ShardRows[j]) : rows[p] = ShardRows[j][q]
      /\ \A j \in 1..Len(Shards) : \A q \in 1..Len(ShardRows[j]) :
           \E p \in 1..Len(rows) : rows[p] = ShardRows[j][q]
  <2>1. rows \in Seq(PassageIds) /\ RowsAre(rows, ShardRows)
    BY <1>1, <1>3, FlattenedRows
  <2>2. Len(ShardRows) = Len(Shards)
    BY <1>3
  <2>3. RowsAre(rows, ShardRows)
    BY <2>1
  <2>4. /\ \A p \in 1..Len(rows) :
             \E j \in 1..Len(ShardRows) : \E q \in 1..Len(ShardRows[j]) : rows[p] = ShardRows[j][q]
        /\ \A j \in 1..Len(ShardRows) : \A q \in 1..Len(ShardRows[j]) :
             \E p \in 1..Len(rows) : rows[p] = ShardRows[j][q]
    BY <2>3, Zenon DEF RowsAre
  <2>5. rows \in Seq(PassageIds)
    BY <2>1
  <2> QED
    BY <2>2, <2>4, <2>5, Zenon
<1>5. \A s \in Sources : HasShard(s) =>
        /\ files[s].passages \in Seq(PassageIds)
        /\ \A i \in DOMAIN files[s].passages : files[s].passages[i][1] = s
  <2> SUFFICES ASSUME NEW s \in Sources, HasShard(s)
               PROVE  /\ files[s].passages \in Seq(PassageIds)
                      /\ \A i \in DOMAIN files[s].passages : files[s].passages[i][1] = s
    OBVIOUS
  <2>1. files[s].passages # NoFile
    BY DEF Unreadable
  <2> QED
    BY <2>1 DEF TypeOK, ShardFiles, ShardsOK, ShardOf
<1>6. ASSUME NEW p \in ToSet(rows), p[1] \notin Authored PROVE p \in VendorPassages
  <2>1. PICK i \in 1..Len(rows) : rows[i] = p
    BY <1>4, <1>6 DEF ToSet
  <2>2. PICK j \in 1..Len(Shards) : \E q \in 1..Len(ShardRows[j]) : p = ShardRows[j][q]
    BY <1>4, <2>1
  <2>3. PICK q \in 1..Len(ShardRows[j]) : p = ShardRows[j][q]
    BY <2>2
  <2>4. PICK s : s = Shards[j]
    OBVIOUS
  <2>5. s \in Sources /\ HasShard(s) /\ ShardRows[j] = files[s].passages
    BY <1>3, <2>4
  <2>6. files[s].passages \in Seq(PassageIds) /\ q \in DOMAIN files[s].passages
        /\ p = files[s].passages[q] /\ p[1] = s
    BY <1>5, <2>3, <2>5
  <2>7. p \in ToSet(files[s].passages) /\ s \in Sources \ Authored
    BY <1>6, <2>5, <2>6 DEF ToSet
  <2> QED
    BY <2>5, <2>7 DEF VendorPassages
<1>7. ASSUME NEW p \in VendorPassages PROVE p \in ToSet(rows) /\ p[1] \notin Authored
  <2>1. PICK s \in Sources \ Authored : HasShard(s) /\ p \in ToSet(files[s].passages)
    BY <1>7 DEF VendorPassages
  <2>2. PICK q \in DOMAIN files[s].passages : files[s].passages[q] = p
    BY <2>1 DEF ToSet
  <2>3. p[1] = s
    BY <1>5, <2>1, <2>2
  <2>4. PICK j \in 1..Len(Shards) : Shards[j] = s
    BY <2>1, ShardsAre
  <2>5. ShardRows[j] = files[s].passages /\ q \in 1..Len(ShardRows[j])
    BY <1>3, <1>5, <2>1, <2>2, <2>4
  <2>6. PICK i \in 1..Len(rows) : rows[i] = p
    <3>1. ShardRows[j][q] = p
      BY <2>2, <2>5
    <3> QED
      BY <1>4, <2>5, <3>1
  <2> QED
    BY <1>4, <2>1, <2>3, <2>6 DEF ToSet
<1> QED
  BY <1>2, <1>6, <1>7

-----------------------------------------------------------------------------
(* Type correctness.                                                       *)

LEMMA TypeInit == Init => TypeOK
<1> SUFFICES ASSUME Init PROVE TypeOK
  OBVIOUS
<1>2. store \in [Sources -> Docs \cup {NoDoc}]
  BY DEF Init
<1>3. files \in [Sources -> ShardFiles]
  <2>1. \A s \in Sources : NoShard \in ShardFiles
    BY NoShardOf
  <2> QED
    BY <2>1 DEF Init
<1>4. views \in Seq({PartialView} \cup WholeViews)
  BY DEF Init
<1>5. scan \in [Sources -> Docs \cup {NoDoc, Unknown}]
  BY DEF Init, NoScan
<1> QED
  BY <1>2, <1>3, <1>4, <1>5, SetupAssumption DEF Init, TypeOK

\* What a draft is: a directory no manifest names, into which the shards, all of
\* the run's model, were merged when it is published.
DraftOK ==
  /\ phase \in {"merge", "publish"} =>
       /\ draft \in DOMAIN views /\ ~MixedModels /\ todo = {}
       /\ manifest # NoFile => manifest.dir # draft
  /\ phase = "publish" => ~Unreadable /\ views[draft] = Merged

\* What the manifest names.
LiveOK ==
  manifest # NoFile =>
    /\ manifest.dir \in DOMAIN views
    /\ GoodView(views[manifest.dir])
    /\ manifest.slices = views[manifest.dir].slices

\* The end of a run is typed.
LEMMA RunEndsTyped ==
  ASSUME RunEnds
  PROVE  /\ phase' = "idle" /\ using' \in Setups /\ draft' \in Nat
         /\ scan' \in [Sources -> Docs \cup {NoDoc, Unknown}]
         /\ todo' \subseteq {s \in Sources : scan'[s] \in Docs}
         /\ failed' \in BOOLEAN /\ fresh' \in BOOLEAN /\ excluded' \subseteq Sources
<1>1. scan' = NoScan /\ NoScan \in [Sources -> Docs \cup {NoDoc, Unknown}]
  BY DEF RunEnds, NoScan
<1>2. phase' = "idle" /\ using' = FirstSetup /\ draft' = 0 /\ todo' = {} /\ failed' = FALSE
      /\ fresh' = FALSE /\ excluded' = {}
  BY DEF RunEnds
<1> QED
  BY <1>1, <1>2, SetupAssumption

\* The views a run starts with are views.
LEMMA CollectedTyped ==
  ASSUME NEW T, PartialView \in T, NEW ws \in Seq(T), NEW m, NEW spoken
  PROVE  /\ Collected(ws, m, spoken) \in Seq(T)
         /\ DOMAIN Collected(ws, m, spoken) = DOMAIN ws
         /\ m # NoFile /\ m.dir \in DOMAIN ws =>
              Collected(ws, m, spoken)[m.dir] = ws[m.dir]
<1>1. PICK n : n = Len(ws)
  OBVIOUS
<1>2. n \in Nat /\ DOMAIN ws = 1..n /\ \A i \in 1..n : ws[i] \in T
  BY <1>1
<1>3. CASE m = NoFile \/ m.format # spoken
  BY <1>3 DEF Collected
<1>4. CASE m # NoFile /\ m.format = spoken
  <2>1. Collected(ws, m, spoken) = [i \in 1..n |-> IF i = m.dir THEN ws[i] ELSE PartialView]
    BY <1>2, <1>4 DEF Collected
  <2> QED
    BY <1>2, <2>1
<1> QED
  BY <1>3, <1>4

\* Every step keeps the types.
LEMMA TypeStep ==
  ASSUME TypeOK, ShardsOK, DraftOK, [Next]_vars
  PROVE  TypeOK'
<1>1. files' \in [Sources -> ShardFiles] /\ mixed' \subseteq Sources \X Columns
  BY FilesStep
<1> DEFINE RunTyped ==
      /\ phase' \in {"idle", "ingest", "merge", "publish"} /\ using' \in Setups
      /\ scan' \in [Sources -> Docs \cup {NoDoc, Unknown}]
      /\ todo' \subseteq {s \in Sources : scan'[s] \in Docs}
      /\ failed' \in BOOLEAN /\ fresh' \in BOOLEAN /\ draft' \in Nat
      /\ excluded' \subseteq Sources
<1>2. UNCHANGED run => RunTyped
  BY DEF TypeOK, run
<1>3. RunEnds => RunTyped
  BY RunEndsTyped
<1>4. UNCHANGED stores => /\ store' \in [Sources -> Docs \cup {NoDoc}] /\ edits' \in Nat
                          /\ setup' \in Setups
  BY DEF TypeOK, stores
<1>5. UNCHANGED views => views' \in Seq({PartialView} \cup WholeViews)
  BY DEF TypeOK
<1> DEFINE Goal ==
      /\ store' \in [Sources -> Docs \cup {NoDoc}] /\ edits' \in Nat
      /\ setup' \in Setups
      /\ views' \in Seq({PartialView} \cup WholeViews)
      /\ RunTyped
<1>6. SUFFICES Goal
  BY <1>1 DEF TypeOK
<1>7. ASSUME NEW s \in Sources, Edit(s) PROVE Goal
  <2>1. /\ edits' = edits + 1 /\ fresh' = FALSE
        /\ UNCHANGED <<setup, views, phase, using, scan, todo, failed, draft, excluded>>
    BY <1>7 DEF Edit
  <2>2. edits' \in Nat
    BY <2>1 DEF TypeOK
  <2>3. PICK d \in Docs \cup {NoDoc} : store' = [store EXCEPT ![s] = d]
    BY <1>7 DEF Edit
  <2>4. store' \in [Sources -> Docs \cup {NoDoc}]
    BY <2>3 DEF TypeOK
  <2>5. RunTyped
    BY <2>1 DEF TypeOK
  <2> QED
    BY <1>5, <2>1, <2>2, <2>4, <2>5 DEF TypeOK
<1>8. ASSUME NEW new \in Setups, Install(new) PROVE Goal
  BY <1>2, <1>5, <1>8 DEF Install, TypeOK
<1>9. CASE Start
  <2>1. views' = Collected(views, manifest, setup.format) /\ using' = setup
        /\ phase' = "ingest" /\ failed' = FALSE /\ fresh' = TRUE /\ excluded' = {}
        /\ todo' = {s \in Sources : scan'[s] \in Docs} /\ UNCHANGED <<stores, draft>>
    BY <1>9 DEF Start
  <2>2. views' \in Seq({PartialView} \cup WholeViews)
    BY <2>1, CollectedTyped DEF TypeOK
  <2>3. PICK found : scan' = [s \in Sources |-> IF s \in UNION found THEN store[s] ELSE Unknown]
    BY <1>9 DEF Start
  <2>4. scan' \in [Sources -> Docs \cup {NoDoc, Unknown}]
    BY <2>3 DEF TypeOK
  <2> QED
    BY <1>4, <2>1, <2>2, <2>4 DEF TypeOK
<1>10. CASE OpenView
  <2>1. UNCHANGED <<stores, using, scan, todo, failed, fresh, excluded>> /\ phase' = "merge"
        /\ views' = Append(views, PartialView) /\ draft' = Len(views')
    BY <1>10 DEF OpenView
  <2>2. views' \in Seq({PartialView} \cup WholeViews)
    BY <2>1, AppendProperties DEF TypeOK
  <2>3. draft' \in Nat
    BY <2>1, <2>2
  <2> QED
    BY <1>4, <2>1, <2>2, <2>3 DEF TypeOK
<1>11. CASE WriteView
  <2>1. UNCHANGED <<stores, using, scan, todo, failed, draft, fresh, excluded>>
        /\ phase' = "publish" /\ views' = [views EXCEPT ![draft] = Merged]
        /\ phase = "merge" /\ ~Unreadable
    BY <1>11 DEF WriteView
  <2>2. Merged \in WholeViews /\ draft \in DOMAIN views
    BY <2>1, MergedIs DEF DraftOK, GoodView
  <2>3. views' \in Seq({PartialView} \cup WholeViews)
    BY <2>1, <2>2 DEF TypeOK
  <2> QED
    BY <1>4, <2>1, <2>3 DEF TypeOK
<1>12. CASE FailMerge \/ Die
  BY <1>3, <1>4, <1>5, <1>12 DEF FailMerge, Die
<1>13. CASE Publish
  BY <1>3, <1>4, <1>5, <1>13 DEF Publish
<1>14. ASSUME NEW s \in Sources, RemoveSource(s) PROVE Goal
  BY <1>2, <1>4, <1>5, <1>14 DEF RemoveSource
<1>15. ASSUME NEW s \in Sources, Done(s), failed' \in BOOLEAN, excluded' \subseteq Sources
       PROVE  Goal
  <2>1. UNCHANGED <<stores, views, phase, using, scan, draft, fresh>> /\ todo' = todo \ {s}
    BY <1>15 DEF Done
  <2> QED
    BY <1>4, <1>5, <1>15, <2>1 DEF TypeOK
<1>16. ASSUME NEW s \in Sources, Skip(s) \/ Build(s) \/ Fail(s) PROVE Goal
  <2>1. Done(s) /\ failed' \in BOOLEAN /\ excluded' \subseteq Sources
    BY <1>16 DEF Skip, Build, Fail, TypeOK
  <2> QED
    BY <1>15, <2>1
<1>17. ASSUME NEW s \in Sources, Reject(s) PROVE Goal
  <2>1. Done(s) /\ failed' = failed /\ excluded' = excluded \cup {s}
    BY <1>17 DEF Reject
  <2> QED
    BY <1>15, <2>1 DEF TypeOK
<1>18. ASSUME NEW s \in Sources, Tear(s) PROVE Goal
  <2>1. \/ failed' = TRUE /\ Done(s) /\ UNCHANGED excluded
        \/ RunEnds /\ UNCHANGED <<stores, views, manifest>>
    BY <1>18 DEF Tear
  <2> QED
    BY <1>3, <1>4, <1>5, <1>15, <2>1 DEF TypeOK
<1>19. CASE UNCHANGED vars
  BY <1>2, <1>4, <1>5, <1>19 DEF vars
<1> QED
  BY <1>7, <1>8, <1>9, <1>10, <1>11, <1>12, <1>13, <1>14, <1>16, <1>17, <1>18, <1>19
  DEF Next, Ingest, Owner

\* The shards' columns depend on the files alone, and the merge on the run's
\* model as well.
LEMMA MergeUnchanged ==
  ASSUME UNCHANGED <<files, using>>
  PROVE  Merged' = Merged /\ Unreadable' = Unreadable /\ MixedModels' = MixedModels
BY DEF Merged, Unreadable, MixedModels, Shards, HasShard

\* Every step keeps the draft.
LEMMA DraftStep ==
  ASSUME TypeOK, DraftOK, LiveOK, [Next]_vars
  PROVE  DraftOK'
<1>1. CASE phase' \in {"idle", "ingest"}
  BY <1>1 DEF DraftOK
<1>2. CASE UNCHANGED <<files, views, manifest, phase, using, todo, draft>>
  BY <1>2, MergeUnchanged DEF DraftOK
<1>3. ASSUME NEW s \in Sources,
             RemoveSource(s) \/ Skip(s) \/ Build(s) \/ Reject(s) \/ Fail(s) \/ Tear(s)
      PROVE  DraftOK'
  <2>1. phase' = phase \/ phase' = "idle"
    BY <1>3 DEF RemoveSource, Skip, Build, Reject, Fail, Tear, Done, RunEnds, run
  <2>2. phase = "ingest"
    BY <1>3 DEF RemoveSource, Skip, Build, Reject, Fail, Tear, Loads, TurnOf
  <2> QED
    BY <1>1, <2>1, <2>2
<1>4. CASE Start \/ FailMerge \/ Publish \/ Die
  BY <1>1, <1>4 DEF Start, FailMerge, Publish, Die, RunEnds
<1>5. CASE OpenView
  <2>1. /\ phase' = "merge" /\ views' = Append(views, PartialView) /\ draft' = Len(views')
        /\ UNCHANGED <<files, manifest, using, todo>> /\ ~MixedModels /\ todo = {}
    BY <1>5 DEF OpenView, Ingested
  <2>2. views \in Seq({PartialView} \cup WholeViews)
    BY DEF TypeOK
  <2>3. /\ draft' = Len(views) + 1 /\ Len(views) \in Nat
        /\ DOMAIN views = 1..Len(views) /\ DOMAIN views' = 1..(Len(views) + 1)
    BY <2>1, <2>2, AppendProperties
  <2>4. draft' \in DOMAIN views' /\ draft' \notin DOMAIN views
    BY <2>3
  <2>5. manifest # NoFile => manifest.dir \in DOMAIN views
    BY DEF LiveOK
  <2> QED
    BY <2>1, <2>4, <2>5, MergeUnchanged DEF DraftOK
<1>6. CASE WriteView
  <2>1. /\ phase = "merge" /\ phase' = "publish" /\ views' = [views EXCEPT ![draft] = Merged]
        /\ UNCHANGED <<files, manifest, using, todo, draft>> /\ ~Unreadable
    BY <1>6 DEF WriteView
  <2>2. draft \in DOMAIN views /\ ~MixedModels /\ todo = {}
        /\ (manifest # NoFile => manifest.dir # draft)
    BY <2>1 DEF DraftOK
  <2>3. draft' \in DOMAIN views' /\ views'[draft'] = Merged
    BY <2>1, <2>2
  <2> QED
    BY <2>1, <2>2, <2>3, MergeUnchanged DEF DraftOK
<1>7. ASSUME NEW s \in Sources, Edit(s) PROVE DraftOK'
  BY <1>2, <1>7 DEF Edit
<1>8. ASSUME NEW new \in Setups, Install(new) PROVE DraftOK'
  BY <1>2, <1>8 DEF Install, run
<1>9. CASE UNCHANGED vars
  BY <1>2, <1>9 DEF vars, run
<1> QED
  BY <1>3, <1>4, <1>5, <1>6, <1>7, <1>8, <1>9 DEF Next, Ingest, Owner

\* Every step keeps what the manifest names.
LEMMA LiveStep ==
  ASSUME TypeOK, ShardsOK, DraftOK, LiveOK, [Next]_vars
  PROVE  LiveOK'
<1>1. CASE UNCHANGED <<views, manifest>>
  BY <1>1 DEF LiveOK
<1>2. ASSUME UNCHANGED manifest,
             manifest # NoFile => manifest.dir \in DOMAIN views'
                                  /\ views'[manifest.dir] = views[manifest.dir]
      PROVE  LiveOK'
  BY <1>2 DEF LiveOK
<1>3. ASSUME NEW s \in Sources,
             RemoveSource(s) \/ Skip(s) \/ Build(s) \/ Reject(s) \/ Fail(s) \/ Tear(s)
             \/ Edit(s)
      PROVE  LiveOK'
  BY <1>1, <1>3 DEF RemoveSource, Skip, Build, Reject, Fail, Tear, Edit, Done
<1>4. ASSUME NEW new \in Setups, Install(new) PROVE LiveOK'
  BY <1>1, <1>4 DEF Install
<1>5. CASE FailMerge \/ Die
  BY <1>1, <1>5 DEF FailMerge, Die
<1>6. CASE Start
  <2>1. views' = Collected(views, manifest, setup.format) /\ UNCHANGED manifest
    BY <1>6 DEF Start
  <2>2. views \in Seq({PartialView} \cup WholeViews)
    BY DEF TypeOK
  <2>3. manifest # NoFile => manifest.dir \in DOMAIN views
    BY DEF LiveOK
  <2> QED
    BY <1>2, <2>1, <2>2, <2>3, CollectedTyped
<1>7. CASE OpenView
  <2>1. views' = Append(views, PartialView) /\ UNCHANGED manifest
    BY <1>7 DEF OpenView
  <2>2. views \in Seq({PartialView} \cup WholeViews)
    BY DEF TypeOK
  <2>3. \A i \in DOMAIN views : i \in DOMAIN views' /\ views'[i] = views[i]
    BY <2>1, <2>2, AppendProperties
  <2>4. manifest # NoFile => manifest.dir \in DOMAIN views
    BY DEF LiveOK
  <2> QED
    BY <1>2, <2>1, <2>3, <2>4
<1>8. CASE WriteView
  <2>1. phase = "merge" /\ views' = [views EXCEPT ![draft] = Merged] /\ UNCHANGED manifest
    BY <1>8 DEF WriteView
  <2>2. manifest # NoFile => manifest.dir # draft /\ manifest.dir \in DOMAIN views
    BY <2>1 DEF DraftOK, LiveOK
  <2> QED
    BY <1>2, <2>1, <2>2
<1>9. CASE Publish
  <2>1. /\ phase = "publish" /\ UNCHANGED views
        /\ manifest' = [dir |-> draft, format |-> using.format,
                        revision |-> views[draft].revision, slices |-> views[draft].slices]
    BY <1>9 DEF Publish
  <2>2. draft \in DOMAIN views /\ GoodView(views[draft])
    BY <2>1, MergedIs DEF DraftOK
  <2> QED
    BY <2>1, <2>2 DEF LiveOK
<1>10. CASE UNCHANGED vars
  BY <1>1, <1>10 DEF vars
<1> QED
  BY <1>3, <1>4, <1>5, <1>6, <1>7, <1>8, <1>9, <1>10 DEF Next, Ingest, Owner

\* The inductive invariant.
IInv == TypeOK /\ ShardsOK /\ DraftOK /\ LiveOK

\* The shards, the draft and the published view are what they should be.
THEOREM IndexIsSound == Spec => []IInv
<1>1. Init => IInv
  <2> SUFFICES ASSUME Init PROVE IInv
    OBVIOUS
  <2>1. ShardsOK
    BY NoShardOf DEF Init, ShardsOK
  <2>2. DraftOK /\ LiveOK
    BY DEF Init, DraftOK, LiveOK
  <2> QED
    BY <2>1, <2>2, TypeInit DEF IInv
<1>2. IInv /\ [Next]_vars => IInv'
  <2> SUFFICES ASSUME IInv, [Next]_vars PROVE IInv'
    OBVIOUS
  <2>1. TypeOK /\ ShardsOK /\ DraftOK /\ LiveOK
    BY DEF IInv
  <2> QED
    BY <2>1, FilesStep, TypeStep, DraftStep, LiveStep DEF IInv
<1> QED
  BY <1>1, <1>2, PTL DEF Spec

\* manifest.json names a whole view, whatever tears, dies or is collected.
THEOREM NamesWholeView == Spec => []ManifestNamesWholeView
<1>1. IInv => ManifestNamesWholeView
  <2> SUFFICES ASSUME IInv, manifest # NoFile
               PROVE  LET w == views[manifest.dir] IN
                        /\ w.complete
                        /\ manifest.slices = w.slices
                        /\ Len(w.rows) = Before(w, Len(w.slices) + 1)
    BY DEF ManifestNamesWholeView
  <2>1. PICK w : w = views[manifest.dir]
    OBVIOUS
  <2>2. GoodView(w) /\ manifest.slices = w.slices
    BY <2>1 DEF IInv, LiveOK
  <2>3. w.complete = TRUE /\ w.slices \in Seq(Nat)
    BY <2>2 DEF GoodView, WholeViews
  <2>4. (Len(w.slices) + 1) - 1 = Len(w.slices)
    BY <2>3
  <2> QED
    BY <2>1, <2>2, <2>3, <2>4 DEF GoodView, Before
<1> QED
  BY <1>1, IndexIsSound, PTL

\* No view is published with vectors of two models, for any number of changes of
\* the model in any order, but for those a torn commit put beside another meta.
THEOREM OneModel == Spec => []OneModelPerView
<1>1. IInv => OneModelPerView
  <2> SUFFICES ASSUME IInv, phase = "publish", NEW i \in DOMAIN views[draft].vectors,
                      <<views[draft].vectors[i].text[1], "vectors">> \notin mixed
               PROVE  views[draft].vectors[i].model = views[draft].model
    BY DEF OneModelPerView
  <2>1. /\ TypeOK /\ ShardsOK /\ ~Unreadable /\ ~MixedModels
        /\ views[draft] = Merged
    BY DEF IInv, DraftOK
  <2>2. i \in DOMAIN Merged.vectors /\ <<Merged.vectors[i].text[1], "vectors">> \notin mixed
    BY <2>1
  <2>3. Merged.vectors[i].model = Merged.model
    BY <2>1, <2>2, MergedModel
  <2> QED
    BY <2>1, <2>3
<1> QED
  BY <1>1, IndexIsSound, PTL

-----------------------------------------------------------------------------
(* The authored store is resolved against the vendor manuals of the view.   *)

\* Once an authored source is done its sidecar names the vendor passages that
\* are there, and no vendor source is still to be ingested or removed.
ResolvedOK ==
  phase # "idle" /\ ~failed =>
    \A s \in Authored : scan[s] \in Docs /\ s \notin todo /\ s \notin excluded =>
      /\ HasShard(s) /\ files[s].sidecar = [resolved |-> VendorPassages]
      /\ todo \subseteq Authored
      /\ \A u \in Sources : ~Gone(u)

\* The vendor passages do not depend on the authored shards.
LEMMA VendorUnchanged ==
  ASSUME TypeOK, NEW u \in Authored, NEW f, files' = [files EXCEPT ![u] = f]
  PROVE  VendorPassages' = VendorPassages
<1>1. \A s \in Sources \ Authored : files'[s] = files[s]
  BY DEF TypeOK
<1> QED
  BY <1>1 DEF VendorPassages, HasShard

\* Every step keeps it.
LEMMA ResolvedStep ==
  ASSUME TypeOK, ShardsOK, ResolvedOK, [Next]_vars
  PROVE  ResolvedOK'
<1>1. CASE phase' = "idle" \/ failed'
  BY <1>1 DEF ResolvedOK
<1>2. CASE UNCHANGED <<files, scan, todo, excluded, failed>> /\ phase # "idle"
  BY <1>2 DEF ResolvedOK, HasShard, Gone, VendorPassages
<1>3. CASE UNCHANGED <<files, scan, todo, excluded, failed, phase>>
  BY <1>3 DEF ResolvedOK, HasShard, Gone, VendorPassages
<1>4. CASE Start
  BY <1>4, SourcesAssumption DEF Start, ResolvedOK
<1>5. CASE OpenView \/ WriteView
  BY <1>2, <1>5 DEF OpenView, WriteView, Ingested
<1>6. CASE FailMerge \/ Publish \/ Die
  BY <1>1, <1>6 DEF FailMerge, Publish, Die, RunEnds
<1>7. ASSUME NEW u \in Sources, RemoveSource(u) PROVE ResolvedOK'
  <2>1. phase = "ingest" /\ Gone(u) /\ UNCHANGED <<phase, scan, todo, excluded, failed>>
    BY <1>7 DEF RemoveSource, run
  <2>2. phase # "idle" /\ ~failed =>
          ~\E s \in Authored : scan[s] \in Docs /\ s \notin todo /\ s \notin excluded
    BY <2>1 DEF ResolvedOK
  <2> QED
    BY <2>1, <2>2 DEF ResolvedOK
<1>8. ASSUME NEW u \in Sources \ Authored, phase = "ingest", u \in todo,
             Done(u), failed' = failed, excluded \subseteq excluded'
      PROVE  ResolvedOK'
  <2>1. UNCHANGED <<phase, scan, failed>> /\ todo' = todo \ {u}
    BY <1>8 DEF Done
  <2>2. ~failed => ~\E s \in Authored : scan[s] \in Docs /\ s \notin todo /\ s \notin excluded
    BY <1>8 DEF ResolvedOK
  <2>3. \A s \in Authored : s \notin todo' => s \notin todo
    BY <1>8, <2>1
  <2> QED
    BY <1>8, <2>1, <2>2, <2>3 DEF ResolvedOK
<1>9. ASSUME NEW u \in Sources, Skip(u) PROVE ResolvedOK'
  BY <1>8, <1>9 DEF Skip, TurnOf
<1>10. ASSUME NEW u \in Sources, Build(u) \/ Reject(u) PROVE ResolvedOK'
  <2>1. phase = "ingest" /\ u \in todo /\ Done(u) /\ failed' = failed
        /\ excluded \subseteq excluded' /\ Loads(u)
        /\ (\A g \in Sources : ~Gone(g)) /\ (u \in Authored => todo \subseteq Authored)
    BY <1>10 DEF Build, Reject, Loads, TurnOf
  <2>2. CASE u \notin Authored
    BY <1>8, <2>1, <2>2
  <2>3. CASE u \in Authored /\ ~failed
    <3>1. UNCHANGED <<phase, scan, failed>> /\ todo' = todo \ {u} /\ todo' \subseteq Authored
      BY <2>1, <2>3 DEF Done
    <3>2. PICK f : files' = [files EXCEPT ![u] = f]
      BY <1>10 DEF Build, Reject
    <3>3. VendorPassages' = VendorPassages
      BY <2>3, <3>2, VendorUnchanged
    <3>4. \A s \in Sources : s # u => files'[s] = files[s]
      BY <3>2 DEF TypeOK
    <3>5. scan[u] \in Docs
      BY <2>1 DEF TypeOK
    <3>6. \A g \in Sources : ~Gone(g)'
      BY <2>1, <3>1, <3>4, <3>5, SentinelsAssumption DEF Gone, HasShard
    <3>7. ASSUME NEW s \in Authored, scan[s] \in Docs, s \notin todo', s \notin excluded'
          PROVE  HasShard(s)' /\ files'[s].sidecar = [resolved |-> VendorPassages]
      <4>1. CASE s # u
        <5>1. s \notin todo /\ s \notin excluded /\ s \in Sources
          BY <2>1, <3>1, <3>7, <4>1, SourcesAssumption
        <5>2. HasShard(s) /\ files[s].sidecar = [resolved |-> VendorPassages]
          BY <2>1, <2>3, <3>7, <5>1 DEF ResolvedOK
        <5> QED
          BY <3>4, <4>1, <5>1, <5>2 DEF HasShard
      <4>2. CASE s = u
        <5>1. Build(u)
          BY <1>10, <3>7, <4>2 DEF Reject
        <5>2. Commit(u, Built(u)).meta # NoFile
              /\ Commit(u, Built(u)).sidecar = [resolved |-> VendorPassages]
          BY <2>3, <5>1, BuiltShard DEF Build, ShardsOK
        <5>3. files'[u] = Commit(u, Built(u))
          BY <5>1 DEF Build, TypeOK
        <5> QED
          BY <4>2, <5>2, <5>3 DEF HasShard
      <4> QED
        BY <4>1, <4>2
    <3> QED
      BY <3>1, <3>3, <3>6, <3>7 DEF ResolvedOK
  <2>4. CASE failed
    BY <1>1, <2>1, <2>4
  <2> QED
    BY <2>2, <2>3, <2>4
<1>11. ASSUME NEW u \in Sources, Fail(u) PROVE ResolvedOK'
  BY <1>1, <1>11 DEF Fail
<1>12. ASSUME NEW u \in Sources, Tear(u) PROVE ResolvedOK'
  BY <1>1, <1>12 DEF Tear, RunEnds
<1>13. ASSUME NEW u \in Sources, Edit(u) PROVE ResolvedOK'
  BY <1>3, <1>13 DEF Edit
<1>14. ASSUME NEW new \in Setups, Install(new) PROVE ResolvedOK'
  BY <1>3, <1>14 DEF Install, run
<1>15. CASE UNCHANGED vars
  BY <1>3, <1>15 DEF vars, run
<1> QED
  BY <1>4, <1>5, <1>6, <1>7, <1>9, <1>10, <1>11, <1>12, <1>13, <1>14, <1>15
  DEF Next, Ingest, Owner

\* The sidecar in a view published without a failure is resolved against the
\* vendor passages of that very view.
THEOREM SidecarIsResolved == Spec => []SidecarResolvedAgainstView
<1>1. Init => ResolvedOK
  BY DEF Init, ResolvedOK
<1>2. IInv /\ ResolvedOK /\ [Next]_vars => ResolvedOK'
  BY ResolvedStep DEF IInv
<1>3. IInv /\ ResolvedOK => SidecarResolvedAgainstView
  <2> SUFFICES ASSUME IInv, ResolvedOK, phase = "publish", ~failed,
                      NEW s \in Authored, scan[s] \in Docs, s \notin excluded
               PROVE  views[draft].sidecars[s].resolved =
                        {p \in ToSet(views[draft].rows) : p[1] \notin Authored}
    BY DEF SidecarResolvedAgainstView
  <2>1. TypeOK /\ ShardsOK /\ ~Unreadable /\ views[draft] = Merged /\ todo = {}
    BY DEF IInv, DraftOK
  <2>2. HasShard(s) /\ files[s].sidecar = [resolved |-> VendorPassages] /\ s \in Sources
    BY <2>1, SourcesAssumption DEF ResolvedOK
  <2>3. {p \in ToSet(Merged.rows) : p[1] \notin Authored} = VendorPassages
    BY <2>1, VendorRows
  <2>4. VendorPassages \in SUBSET PassageIds
    <3>1. Merged.rows \in Seq(PassageIds)
      BY <2>1, MergedIs DEF IInv, DraftOK, GoodView, WholeViews
    <3> QED
      BY <2>3, <3>1 DEF ToSet
  <2>5. files[s].sidecar # NoFile
    BY <2>2, <2>4, SentinelsAssumption DEF Sidecars
  <2>6. Merged.sidecars[s] = files[s].sidecar
    BY <2>2, <2>5 DEF Merged
  <2> QED
    BY <2>1, <2>2, <2>3, <2>6
<1> QED
  BY <1>1, <1>2, <1>3, IndexIsSound, PTL DEF Spec

-----------------------------------------------------------------------------
(* A run that reports no failure publishes what the stores hold.            *)

\* A source that is done is indexed under what the scan found, by the installed
\* code, or rejected and not indexed at all; an authored one was built by this run.
Accounted(s) ==
  /\ fresh => scan[s] \in {store[s], Unknown}
  /\ s \in excluded => s \notin todo /\ ~HasShard(s)
  /\ ~failed /\ scan[s] \in Docs /\ s \notin todo /\ s \notin excluded =>
       /\ HasShard(s) /\ files[s].meta.fingerprint = scan[s]
       /\ files[s].meta.version = using.version /\ files[s].meta.model = using.model
       /\ fresh /\ s \in Authored => files[s].passages = Passages(s, scan[s], using.version)

FreshOK ==
  /\ phase # "idle" => \A s \in Sources : Accounted(s)
  /\ phase \in {"merge", "publish"} => \A s \in Sources : ~Gone(s)

\* Every step keeps it.
LEMMA FreshStep ==
  ASSUME TypeOK, ShardsOK, DraftOK, FreshOK, [Next]_vars
  PROVE  FreshOK'
<1>1. CASE phase' = "idle"
  BY <1>1 DEF FreshOK
<1>2. CASE UNCHANGED <<store, files, scan, todo, fresh, failed, using, excluded, phase>>
  BY <1>2 DEF FreshOK, Accounted, HasShard, Gone
<1>3. CASE OpenView \/ WriteView
  <2>1. UNCHANGED <<store, files, scan, todo, fresh, failed, using, excluded>>
        /\ phase # "idle" /\ ((\A s \in Sources : ~Gone(s)) \/ phase = "merge")
    BY <1>3 DEF OpenView, WriteView, Ingested, stores
  <2>2. \A s \in Sources : ~Gone(s)
    BY <2>1 DEF FreshOK
  <2> QED
    BY <2>1, <2>2 DEF FreshOK, Accounted, HasShard, Gone
<1>4. CASE FailMerge \/ Publish \/ Die
  BY <1>1, <1>4 DEF FailMerge, Publish, Die, RunEnds
<1>5. CASE Start
  <2>1. /\ UNCHANGED <<store, files>> /\ phase' = "ingest" /\ excluded' = {}
        /\ todo' = {s \in Sources : scan'[s] \in Docs}
    BY <1>5 DEF Start, stores
  <2>2. PICK found : scan' = [s \in Sources |-> IF s \in UNION found THEN store[s] ELSE Unknown]
    BY <1>5 DEF Start
  <2>3. \A s \in Sources : scan'[s] \in {store[s], Unknown}
    BY <2>2
  <2>4. Unknown \notin Docs
    BY SentinelsAssumption
  <2> QED
    BY <2>1, <2>3, <2>4 DEF FreshOK, Accounted, HasShard
<1>6. ASSUME NEW u \in Sources, Edit(u) PROVE FreshOK'
  <2>1. UNCHANGED <<files, scan, todo, failed, using, excluded, phase>> /\ fresh' = FALSE
    BY <1>6 DEF Edit
  <2> QED
    BY <2>1 DEF FreshOK, Accounted, HasShard, Gone
<1>7. ASSUME NEW new \in Setups, Install(new) PROVE FreshOK'
  BY <1>2, <1>7 DEF Install, run
<1>8. ASSUME NEW u \in Sources, NEW f, files' = [files EXCEPT ![u] = f], phase' = "ingest",
             UNCHANGED <<store, scan, fresh, failed, using>>, phase = "ingest",
             todo' \subseteq todo, todo \ {u} \subseteq todo',
             excluded \subseteq excluded', excluded' \subseteq excluded \cup {u},
             u \in excluded' => u \notin todo' /\ f.meta = NoFile,
             ~failed /\ scan[u] \in Docs /\ u \notin todo' /\ u \notin excluded' =>
               /\ f.meta # NoFile /\ f.meta.fingerprint = scan[u]
               /\ f.meta.version = using.version /\ f.meta.model = using.model
               /\ fresh /\ u \in Authored => f.passages = Passages(u, scan[u], using.version)
      PROVE  FreshOK'
  <2>1. files'[u] = f /\ \A s \in Sources : s # u => files'[s] = files[s]
    BY <1>8 DEF TypeOK
  <2>2. \A s \in Sources : Accounted(s)'
    <3> SUFFICES ASSUME NEW s \in Sources PROVE Accounted(s)'
      OBVIOUS
    <3>1. Accounted(s)
      BY <1>8 DEF FreshOK
    <3>2. CASE s = u
      BY <1>8, <2>1, <3>1, <3>2 DEF Accounted, HasShard
    <3>3. CASE s # u
      <4>1. (s \in todo' <=> s \in todo) /\ (s \in excluded' <=> s \in excluded)
        BY <1>8, <3>3
      <4> QED
        BY <1>8, <2>1, <3>1, <3>3, <4>1 DEF Accounted, HasShard
    <3> QED
      BY <3>2, <3>3
  <2> QED
    BY <1>8, <2>2 DEF FreshOK
<1>9. NoShard.meta = NoFile
  BY DEF NoShard
<1>10. ASSUME NEW u \in Sources, RemoveSource(u) PROVE FreshOK'
  <2>1. /\ phase = "ingest" /\ files' = [files EXCEPT ![u] = NoShard] /\ scan[u] = NoDoc
        /\ UNCHANGED <<store, phase, scan, todo, fresh, failed, using, excluded>>
    BY <1>10 DEF RemoveSource, Gone, run, stores
  <2>2. scan[u] \notin Docs /\ (u \in excluded => u \notin todo)
    BY <2>1, SentinelsAssumption DEF FreshOK, Accounted
  <2> QED
    BY <1>8, <1>9, <2>1, <2>2
<1>11. ASSUME NEW u \in Sources, Reject(u) PROVE FreshOK'
  <2>1. /\ phase = "ingest" /\ files' = [files EXCEPT ![u] = NoShard] /\ todo' = todo \ {u}
        /\ excluded' = excluded \cup {u}
        /\ UNCHANGED <<store, phase, scan, fresh, failed, using>>
    BY <1>11 DEF Reject, Done, Loads, TurnOf, stores
  <2> QED
    BY <1>8, <1>9, <2>1
<1>12. ASSUME NEW u \in Sources, Build(u) PROVE FreshOK'
  <2>1. PICK f : f = Commit(u, Built(u))
    OBVIOUS
  <2>2. /\ phase = "ingest" /\ files' = [files EXCEPT ![u] = f] /\ todo' = todo \ {u}
        /\ UNCHANGED <<store, phase, scan, fresh, failed, using, excluded>>
        /\ u \in todo /\ Loads(u) /\ CanBuild(u)
    BY <1>12, <2>1 DEF Build, Done, Loads, TurnOf, stores
  <2>3. /\ f.meta # NoFile /\ f.passages = Passages(u, store[u], using.version)
        /\ f.meta.fingerprint = scan[u] /\ f.meta.version = using.version
        /\ f.meta.model = using.model
    BY <2>1, <2>2, BuiltShard DEF ShardsOK
  <2>4. scan[u] \in Docs /\ u \notin excluded /\ (fresh => scan[u] = store[u])
    BY <2>2, SentinelsAssumption DEF FreshOK, Accounted, TypeOK
  <2> QED
    BY <1>8, <2>2, <2>3, <2>4
<1>13. ASSUME NEW u \in Sources, Skip(u) PROVE FreshOK'
  <2>1. /\ phase = "ingest" /\ UNCHANGED files /\ todo' = todo \ {u} /\ Reusable(u)
        /\ UNCHANGED <<store, phase, scan, fresh, failed, using, excluded>> /\ u \notin Authored
    BY <1>13 DEF Skip, Done, TurnOf, stores
  <2>2. \A s \in Sources : Accounted(s)
    BY <2>1 DEF FreshOK
  <2>3. \A s \in Sources : Accounted(s)'
    BY <2>1, <2>2 DEF Accounted, HasShard, Reusable
  <2> QED
    BY <2>1, <2>3 DEF FreshOK
<1>14. ASSUME NEW u \in Sources, Fail(u) PROVE FreshOK'
  <2>1. /\ phase = "ingest" /\ UNCHANGED files /\ todo' = todo \ {u} /\ failed' = TRUE
        /\ UNCHANGED <<store, phase, scan, fresh, using, excluded>>
    BY <1>14 DEF Fail, Done, Loads, TurnOf, stores
  <2> QED
    BY <2>1 DEF FreshOK, Accounted, HasShard
<1>15. ASSUME NEW u \in Sources, Tear(u) PROVE FreshOK'
  <2>1. CASE RunEnds
    BY <1>1, <2>1 DEF RunEnds
  <2>2. CASE Loads(u) /\ failed' = TRUE /\ Done(u) /\ UNCHANGED excluded
    <3>1. /\ phase = "ingest" /\ u \in todo /\ todo' = todo \ {u} /\ failed' = TRUE
          /\ UNCHANGED <<store, phase, scan, fresh, using, excluded>>
      BY <2>2 DEF Done, Loads, TurnOf, stores
    <3>2. PICK f : files' = [files EXCEPT ![u] = f]
      BY <1>15 DEF Tear
    <3>3. \A s \in Sources : s # u => files'[s] = files[s]
      BY <3>2 DEF TypeOK
    <3>4. ASSUME NEW s \in Sources PROVE Accounted(s)'
      <4>1. Accounted(s)
        BY <3>1 DEF FreshOK
      <4>2. CASE s = u
        BY <3>1, <4>1, <4>2 DEF Accounted
      <4>3. CASE s # u
        BY <3>1, <3>3, <4>1, <4>3 DEF Accounted, HasShard
      <4> QED
        BY <4>2, <4>3
    <3> QED
      BY <3>1, <3>4 DEF FreshOK
  <2> QED
    BY <1>15, <2>1, <2>2 DEF Tear
<1>16. CASE UNCHANGED vars
  BY <1>2, <1>16 DEF vars, stores, run
<1> QED
  BY <1>3, <1>4, <1>5, <1>6, <1>7, <1>10, <1>11, <1>12, <1>13, <1>14, <1>15, <1>16
  DEF Next, Ingest, Owner

\* The rows a placement gives to a sequence are that sequence.
LEMMA PlacedSlice ==
  ASSUME NEW T, NEW rows \in Seq(T), NEW seqs, NEW counts \in Seq(Nat),
         Placed(rows, seqs, counts, Len(counts)), NEW i \in 1..Len(counts),
         seqs[i] \in Seq(T), counts[i] = Len(seqs[i])
  PROVE  SubSeq(rows, Total(counts, i - 1) + 1, Total(counts, i - 1) + counts[i]) = seqs[i]
<1>1. PICK a, c : a = Total(counts, i - 1) /\ c = counts[i]
  OBVIOUS
<1>2. a \in Nat /\ c \in Nat /\ c = Len(seqs[i])
  <2>1. i - 1 \in 0..Len(counts)
    OBVIOUS
  <2> QED
    BY <1>1, <2>1, TotalIs
<1>3. \A q \in 1..c : a + q \in 1..Len(rows) /\ rows[a + q] = seqs[i][q]
  BY <1>1 DEF Placed
<1>4. c # 0 => a + c <= Len(rows)
  BY <1>2, <1>3
<1>5. PICK part : part = SubSeq(rows, a + 1, a + c)
  OBVIOUS
<1>6. part \in Seq(T) /\ Len(part) = c /\ \A q \in 1..c : part[q] = rows[a + q]
  <2>1. CASE c = 0
    BY <1>2, <1>5, <2>1
  <2>2. CASE c # 0
    <3>1. a + 1 \in 1..Len(rows) /\ a + c \in 1..Len(rows) /\ a + 1 <= a + c
      BY <1>2, <1>4, <2>2
    <3>2. Len(part) = (a + c) - (a + 1) + 1 /\ part \in Seq(T)
      BY ONLY <1>2, <1>5, <3>1, rows \in Seq(T)
    <3>3. \A q \in 1..c : part[q] = rows[a + 1 + q - 1]
      BY <1>2, <1>5, <3>1
    <3> QED
      BY <1>2, <3>2, <3>3
  <2> QED
    BY <2>1, <2>2
<1>7. part = seqs[i]
  <2>1. PICK b : b = seqs[i]
    OBVIOUS
  <2>2. b \in Seq(T) /\ Len(part) = Len(b) /\ \A q \in 1..Len(part) : part[q] = b[q]
    BY <1>2, <1>3, <1>6, <2>1
  <2>3. part = b
    BY ONLY <1>6, <2>2, SeqEqual
  <2> QED
    BY <2>1, <2>3
<1> QED
  BY <1>1, <1>5, <1>7

\* So a slice of a concatenation is one of the sequences.
LEMMA FlattenedSlice ==
  ASSUME NEW T, NEW seqs \in Seq(Seq(T)), NEW counts \in Seq(Nat),
         Len(counts) = Len(seqs), \A i \in 1..Len(seqs) : counts[i] = Len(seqs[i]),
         NEW k \in 1..Len(seqs)
  PROVE  SubSeq(FlattenSeq(seqs), Total(counts, k - 1) + 1, Total(counts, k - 1) + counts[k])
           = seqs[k]
<1>1. FlattenSeq(seqs) \in Seq(T) /\ Placed(FlattenSeq(seqs), seqs, counts, Len(counts))
  BY Flattened
<1>2. PICK all : all = FlattenSeq(seqs)
  OBVIOUS
<1>3. all \in Seq(T) /\ Placed(all, seqs, counts, Len(counts)) /\ k \in 1..Len(counts)
      /\ seqs[k] \in Seq(T) /\ counts[k] = Len(seqs[k]) /\ counts \in Seq(Nat)
  BY <1>1, <1>2
<1>4. SubSeq(all, Total(counts, k - 1) + 1, Total(counts, k - 1) + counts[k]) = seqs[k]
  BY ONLY <1>3, PlacedSlice
<1> QED
  BY <1>2, <1>4

\* Sums of counts that agree so far agree.
LEMMA TotalsAgree ==
  ASSUME NEW some \in Seq(Nat), NEW others \in Seq(Nat), Len(others) = Len(some),
         NEW n \in 0..Len(some), \A j \in 1..n : some[j] = others[j]
  PROVE  Total(some, n) = Total(others, n)
<1> DEFINE Bad == {k \in 0..n : Total(some, k) # Total(others, k)}
<1>1. CASE Bad = {}
  BY <1>1
<1>2. CASE Bad # {}
  <2>1. Bad \in SUBSET Nat
    OBVIOUS
  <2>2. PICK m \in Bad : \A k \in Bad : m <= k
    <3> HIDE DEF Bad
    <3> QED
      BY <1>2, <2>1, LeastNumber
  <2>3. m \in 0..n /\ Total(some, m) # Total(others, m)
    BY <2>2
  <2>4. m # 0
    BY <2>3, TotalIs
  <2>5. m \in 1..Len(some) /\ m \in 1..Len(others) /\ m \in 1..n /\ m - 1 \in 0..n
    BY <2>3, <2>4
  <2>6. m - 1 \notin Bad
    BY <2>2, <2>5
  <2>7. Total(some, m - 1) = Total(others, m - 1)
    BY <2>5, <2>6
  <2>8. /\ Total(some, m) = Total(some, m - 1) + some[m]
        /\ Total(others, m) = Total(others, m - 1) + others[m]
    BY <2>5, TotalIs
  <2>9. some[m] = others[m]
    BY <2>5
  <2> QED
    BY <2>3, <2>7, <2>8, <2>9
<1> QED
  BY <1>1, <1>2

\* A run that reports no failure and met no change of the stores publishes what
\* they hold, but for the passages and vectors that are mixed, and the vectors
\* behind passages that are.
THEOREM PublishesTheStores == Spec => []FaithfulWhenFresh
<1>1. Init => FreshOK
  BY DEF Init, FreshOK
<1>2. IInv /\ FreshOK /\ [Next]_vars => FreshOK'
  BY FreshStep DEF IInv
<1>3. IInv /\ FreshOK => FaithfulWhenFresh
  <2> SUFFICES ASSUME IInv, FreshOK, phase = "publish", ~failed, fresh
               PROVE  LET w == views[draft] IN
                        /\ \A s \in Sources : scan[s] = NoDoc \/ s \in excluded =>
                             ~Contains(w.sources, s)
                        /\ \A s \in Sources \ excluded : scan[s] \in Docs =>
                             \E i \in DOMAIN w.sources :
                               LET ids == Passages(s, scan[s], using.version) IN
                                 /\ w.sources[i] = s
                                 /\ <<s, "passages">> \in mixed \/ Slice(w, w.rows, i) = ids
                                 /\ \/ <<s, "vectors">> \in mixed
                                    \/ \E j \in 1..i : <<w.sources[j], "passages">> \in mixed
                                    \/ Slice(w, w.vectors, i) =
                                         [j \in DOMAIN ids |->
                                            [text |-> ids[j], model |-> using.model]]
    BY DEF FaithfulWhenFresh
  <2>1. /\ TypeOK /\ ShardsOK /\ ~Unreadable /\ ~MixedModels /\ todo = {}
        /\ views[draft] = Merged
    BY DEF IInv, DraftOK
  <2>2. PICK w : w = Merged
    OBVIOUS
  <2>3. /\ w.sources = Shards /\ w.slices = ShardCounts
        /\ w.rows = FlattenSeq(ShardRows) /\ w.vectors = FlattenSeq(ShardVectors)
    BY <2>2 DEF Merged, ShardRows, ShardVectors, ShardCounts
  <2>4. Shards \in Seq(Sources) /\ \A i \in 1..Len(Shards) : HasShard(Shards[i])
    BY ShardsAre
  <2>5. ASSUME NEW s \in Sources, scan[s] = NoDoc \/ s \in excluded
        PROVE  ~Contains(w.sources, s)
    <3>1. ~HasShard(s)
      BY <2>5 DEF FreshOK, Accounted, Gone
    <3> QED
      BY <2>3, <2>4, <3>1 DEF Contains
  <2>6. /\ ShardRows \in Seq(Seq(PassageIds)) /\ Len(ShardRows) = Len(Shards)
        /\ ShardVectors \in Seq(Seq(Rows)) /\ Len(ShardVectors) = Len(Shards)
        /\ ShardCounts \in Seq(Nat) /\ Len(ShardCounts) = Len(Shards)
        /\ \A i \in 1..Len(Shards) : /\ Shards[i] \in Sources
                                     /\ HasShard(Shards[i])
                                     /\ ShardRows[i] = files[Shards[i]].passages
                                     /\ ShardVectors[i] = files[Shards[i]].vectors
                                     /\ ShardCounts[i] = Len(ShardRows[i])
    BY <2>1, ShardColumns
  <2>7. ASSUME NEW s \in Sources, HasShard(s), <<s, "passages">> \notin mixed
        PROVE  PassagesOf(s, files[s]) /\ Len(files[s].vectors) = Len(files[s].passages)
    <3>1. files[s].passages # NoFile /\ files[s].vectors # NoFile
      BY <2>1, <2>7 DEF Unreadable
    <3>2. ShardOf(s, files[s], mixed) /\ files[s].meta # NoFile
      BY <2>1, <2>7 DEF ShardsOK, HasShard
    <3> QED
      BY <2>7, <3>1, <3>2 DEF ShardOf, PassagesOf
  <2>8. PICK counts : counts = [i \in 1..Len(Shards) |-> Len(ShardVectors[i])]
    OBVIOUS
  <2>9. /\ counts \in Seq(Nat) /\ Len(counts) = Len(Shards)
        /\ \A i \in 1..Len(ShardVectors) : counts[i] = Len(ShardVectors[i])
    <3>1. Len(Shards) \in Nat /\ \A i \in 1..Len(Shards) : Len(ShardVectors[i]) \in Nat
      BY <2>4, <2>6
    <3> QED
      BY <2>6, <2>8, <3>1
  <2>10. ASSUME NEW s \in Sources \ excluded, scan[s] \in Docs
         PROVE  \E i \in DOMAIN w.sources :
                  LET ids == Passages(s, scan[s], using.version) IN
                    /\ w.sources[i] = s
                    /\ <<s, "passages">> \in mixed \/ Slice(w, w.rows, i) = ids
                    /\ \/ <<s, "vectors">> \in mixed
                       \/ \E j \in 1..i : <<w.sources[j], "passages">> \in mixed
                       \/ Slice(w, w.vectors, i) =
                            [j \in DOMAIN ids |-> [text |-> ids[j], model |-> using.model]]
    <3>1. Accounted(s)
      BY DEF FreshOK
    <3>2. /\ HasShard(s) /\ files[s].meta.fingerprint = scan[s]
          /\ files[s].meta.version = using.version /\ files[s].meta.model = using.model
          /\ s \in Authored => files[s].passages = Passages(s, scan[s], using.version)
      BY <2>1, <2>10, <3>1 DEF Accounted
    <3>3. PICK ids : ids = Passages(s, scan[s], using.version)
      OBVIOUS
    <3>4. PICK i \in 1..Len(Shards) : Shards[i] = s
      BY <3>2, ShardsAre
    <3>5. i \in DOMAIN w.sources /\ w.sources[i] = s /\ i \in 1..Len(ShardRows)
          /\ i \in 1..Len(ShardVectors) /\ i \in Nat
      BY <2>3, <2>4, <2>6, <3>4
    <3>6. Slice(w, w.rows, i) = files[s].passages
      <4>1. SubSeq(FlattenSeq(ShardRows), Total(ShardCounts, i - 1) + 1,
                   Total(ShardCounts, i - 1) + ShardCounts[i]) = ShardRows[i]
        BY <2>6, <3>5, FlattenedSlice, ZenonT(40)
      <4> QED
        BY <2>3, <2>6, <3>4, <4>1 DEF Slice, Before
    <3>7. <<s, "passages">> \notin mixed => files[s].passages = ids
      <4> SUFFICES ASSUME <<s, "passages">> \notin mixed PROVE files[s].passages = ids
        OBVIOUS
      <4>1. PassagesOf(s, files[s])
        BY <2>7, <3>2
      <4> QED
        BY <3>2, <3>3, <4>1 DEF PassagesOf, Indexed
    <3>8. ASSUME <<s, "vectors">> \notin mixed,
                 \A j \in 1..i : <<w.sources[j], "passages">> \notin mixed
          PROVE  Slice(w, w.vectors, i) =
                   [j \in DOMAIN ids |-> [text |-> ids[j], model |-> using.model]]
      <4>1. \A j \in 1..i : ShardCounts[j] = counts[j]
        <5> SUFFICES ASSUME NEW j \in 1..i PROVE ShardCounts[j] = counts[j]
          OBVIOUS
        <5>1. j \in 1..Len(Shards) /\ j \in 1..Len(ShardVectors) /\ Len(Shards) \in Nat
          BY <2>4, <2>6, <3>4
        <5>2. PICK u : u = Shards[j]
          OBVIOUS
        <5>3. u \in Sources /\ HasShard(u) /\ ShardVectors[j] = files[u].vectors
              /\ ShardCounts[j] = Len(files[u].passages)
          BY <2>6, <5>1, <5>2
        <5>4. <<u, "passages">> \notin mixed
          BY <2>3, <3>8, <5>2
        <5> QED
          BY <2>7, <2>9, <5>1, <5>3, <5>4
      <4>2. i - 1 \in 0..Len(ShardCounts) /\ \A j \in 1..(i - 1) : ShardCounts[j] = counts[j]
        BY <2>4, <2>6, <3>4, <4>1
      <4>3. Total(ShardCounts, i - 1) = Total(counts, i - 1)
        BY <2>6, <2>9, <4>2, TotalsAgree
      <4>4. ShardCounts[i] = counts[i]
        BY <3>5, <4>1
      <4>5. SubSeq(FlattenSeq(ShardVectors), Total(counts, i - 1) + 1,
                   Total(counts, i - 1) + counts[i]) = ShardVectors[i]
        BY <2>6, <2>9, <3>5, FlattenedSlice, ZenonT(40)
      <4>6. Slice(w, w.vectors, i) = files[s].vectors
        <5>1. ShardVectors[i] = files[s].vectors
          BY <2>6, <3>4
        <5> QED
          BY <2>3, <4>3, <4>4, <4>5, <5>1 DEF Slice, Before
      <4>7. <<s, "passages">> \notin mixed
        BY <3>5, <3>8
      <4>8. files[s].passages = ids /\ PassagesOf(s, files[s])
        BY <2>7, <3>2, <3>7, <4>7
      <4>9. VectorsOf(s, files[s], mixed)
        <5>1. files[s].vectors # NoFile /\ files[s].meta # NoFile
          BY <2>1, <3>2 DEF Unreadable, HasShard
        <5>2. ShardOf(s, files[s], mixed)
          BY <2>1 DEF ShardsOK
        <5> QED
          BY <3>8, <5>1, <5>2 DEF ShardOf
      <4>10. files[s].vectors = Encoded(ids, using.model)
        BY <3>2, <4>7, <4>8, <4>9 DEF VectorsOf, PassagesOf
      <4> QED
        BY <4>6, <4>10 DEF Encoded
    <3> QED
      BY <3>3, <3>5, <3>6, <3>7, <3>8
  <2> QED
    BY <2>1, <2>2, <2>5, <2>10
<1> QED
  BY <1>1, <1>2, <1>3, IndexIsSound, PTL DEF Spec

-----------------------------------------------------------------------------
(* The engine beside the runs.                                             *)


Drafting == phase \in {"merge", "publish"}

\* A run drafts the newest directory, and a manifest has its view's revision.
DraftIsNewest == Drafting => draft = Len(views)
Named == manifest # NoFile => manifest.revision = views[manifest.dir].revision

RunsInv == IInv /\ DraftIsNewest /\ Named

\* A directory published by now, and not by the run that drafts another.
Published(d) ==
  /\ d \in 1..Len(views)
  /\ Drafting => d < draft
  /\ manifest # NoFile => d <= manifest.dir

\* What is left of the view that was published as m.
Remains(m) ==
  \/ views[m.dir] = PartialView
  \/ GoodView(views[m.dir]) /\ views[m.dir].revision = m.revision /\ views[m.dir].slices = m.slices

\* Rows, vectors and slices line up.
Aligned(w) ==
  /\ w \in WholeViews
  /\ Len(w.rows) = Total(w.slices, Len(w.slices)) /\ Len(w.vectors) = Len(w.rows)

EngineOK ==
  /\ engine \in {"down", "idle", "read", "load"}
  /\ booting => engine \in {"read", "load"}
  /\ engine \in {"read", "load"} => stat # NoStat

\* What was stat'd and what was read were published in that order.
SeenOK == seen = NoStat \/ Published(seen)
StatOK == stat = NoStat \/ Published(stat)
ReadOK == engine = "load" => Published(read.dir) /\ stat <= read.dir /\ Remains(read)

ServedOK == served = NoView \/ Aligned(served)

\* The engine has loaded what it has seen.
UpToDate ==
  engine = "idle" /\ manifest # NoFile /\ seen = manifest.dir /\ ~fault =>
    served # NoView /\ served.revision = manifest.revision

WatchInv == RunsInv /\ EngineOK /\ SeenOK /\ StatOK /\ ReadOK /\ ServedOK /\ UpToDate

-----------------------------------------------------------------------------
(* The runs.                                                               *)

\* The end of a run drafts nothing.
LEMMA NoDraft ==
  ASSUME phase' \in {"idle", "ingest"}
  PROVE  ~Drafting' /\ DraftIsNewest'
BY DEF Drafting, DraftIsNewest

\* What a step of a run does to the views, the draft and the manifest.
ViewsRemain ==
  /\ Len(views') >= Len(views)
  /\ \A d \in 1..Len(views) :
       (Drafting => d < draft) => views'[d] = views[d] \/ views'[d] = PartialView

DraftIsLast ==
  Drafting' => \/ Drafting /\ draft' = draft /\ Len(views') = Len(views)
               \/ draft' = Len(views) + 1 /\ Len(views') = Len(views) + 1

ManifestNamesDraft ==
  \/ /\ manifest' = manifest
     /\ manifest # NoFile => views'[manifest.dir] = views[manifest.dir]
  \/ /\ Drafting /\ ~Drafting' /\ views' = views
     /\ manifest'.dir = draft /\ manifest'.revision = views[draft].revision

RunStep == ViewsRemain /\ DraftIsLast /\ ManifestNamesDraft

LEMMA ViewsTyped ==
  ASSUME IInv
  PROVE  /\ views \in Seq({PartialView} \cup WholeViews) /\ Len(views) \in Nat
         /\ DOMAIN views = 1..Len(views)
         /\ manifest # NoFile => manifest.dir \in 1..Len(views)
         /\ Drafting => draft \in 1..Len(views) /\ (manifest # NoFile => manifest.dir # draft)
<1>1. views \in Seq({PartialView} \cup WholeViews)
  BY DEF IInv, TypeOK
<1>2. DOMAIN views = 1..Len(views) /\ Len(views) \in Nat
  BY <1>1
<1> QED
  BY <1>1, <1>2 DEF IInv, LiveOK, DraftOK, Drafting

LEMMA RunStepIs ==
  ASSUME RunsInv, [Next]_vars
  PROVE  RunStep
<1>1. /\ IInv /\ views \in Seq({PartialView} \cup WholeViews) /\ Len(views) \in Nat
      /\ DOMAIN views = 1..Len(views)
      /\ manifest # NoFile => manifest.dir \in 1..Len(views)
      /\ Drafting => draft \in 1..Len(views) /\ (manifest # NoFile => manifest.dir # draft)
  BY ViewsTyped DEF RunsInv
<1>2. CASE UNCHANGED <<views, manifest>> /\ (phase' \in {"idle", "ingest"} \/ UNCHANGED <<phase, draft>>)
  <2>1. ViewsRemain /\ ManifestNamesDraft
    BY <1>1, <1>2 DEF ViewsRemain, ManifestNamesDraft
  <2>2. DraftIsLast
    BY <1>1, <1>2 DEF DraftIsLast, Drafting
  <2> QED
    BY <2>1, <2>2 DEF RunStep
<1>3. ASSUME NEW s \in Sources,
             RemoveSource(s) \/ Skip(s) \/ Build(s) \/ Reject(s) \/ Fail(s) \/ Tear(s) \/ Edit(s)
      PROVE  RunStep
  BY <1>2, <1>3 DEF RemoveSource, Skip, Build, Reject, Fail, Tear, Edit, Done, run, RunEnds
<1>4. ASSUME NEW new \in Setups, Install(new) PROVE RunStep
  BY <1>2, <1>4 DEF Install, run
<1>5. CASE FailMerge \/ Die
  BY <1>2, <1>5 DEF FailMerge, Die, RunEnds
<1>6. CASE UNCHANGED vars
  BY <1>2, <1>6 DEF vars, run
<1>7. CASE Start
  <2>1. /\ views' = Collected(views, manifest, setup.format) /\ UNCHANGED manifest
        /\ phase' = "ingest" /\ ~Drafting
    BY <1>7 DEF Start, Drafting
  <2>2. ~Drafting'
    BY <2>1, NoDraft
  <2>3. /\ views' \in Seq({PartialView} \cup WholeViews) /\ DOMAIN views' = DOMAIN views
        /\ manifest # NoFile => views'[manifest.dir] = views[manifest.dir]
    BY <1>1, <2>1, CollectedTyped
  <2>4. Len(views') = Len(views)
    BY <1>1, <2>3
  <2>5. \A d \in 1..Len(views) : views'[d] = views[d] \/ views'[d] = PartialView
    BY <1>1, <2>1 DEF Collected
  <2>6. ViewsRemain
    BY <1>1, <2>4, <2>5 DEF ViewsRemain
  <2>7. DraftIsLast
    BY <2>2 DEF DraftIsLast
  <2>8. ManifestNamesDraft
    BY <2>1, <2>3 DEF ManifestNamesDraft
  <2> QED
    BY <2>6, <2>7, <2>8 DEF RunStep
<1>8. CASE OpenView
  <2>1. /\ views' = Append(views, PartialView) /\ draft' = Len(views') /\ UNCHANGED manifest
        /\ phase = "ingest"
    BY <1>8 DEF OpenView, Ingested
  <2>2. /\ Len(views') = Len(views) + 1
        /\ \A d \in 1..Len(views) : views'[d] = views[d]
    BY <1>1, <2>1
  <2>3. ~Drafting
    BY <2>1 DEF Drafting
  <2>4. ViewsRemain
    BY <1>1, <2>2 DEF ViewsRemain
  <2>5. DraftIsLast
    BY <2>1, <2>2 DEF DraftIsLast
  <2>6. ManifestNamesDraft
    BY <1>1, <2>1, <2>2 DEF ManifestNamesDraft
  <2> QED
    BY <2>4, <2>5, <2>6 DEF RunStep
<1>9. CASE WriteView
  <2>1. /\ phase = "merge" /\ phase' = "publish" /\ views' = [views EXCEPT ![draft] = Merged]
        /\ UNCHANGED <<manifest, draft>>
    BY <1>9 DEF WriteView
  <2>2. Drafting /\ Drafting' /\ draft \in 1..Len(views)
    BY <1>1, <2>1 DEF Drafting
  <2>3. DOMAIN views' = 1..Len(views) /\ \A d \in 1..Len(views) : d # draft => views'[d] = views[d]
    BY <1>1, <2>1, <2>2
  <2>4. Len(views') = Len(views)
    <3>1. views' = [d \in 1..Len(views) |-> IF d = draft THEN Merged ELSE views[d]]
      BY <1>1, <2>1
    <3> QED
      BY <1>1, <3>1
  <2>5. ViewsRemain
    BY <1>1, <2>2, <2>3, <2>4 DEF ViewsRemain
  <2>6. DraftIsLast
    BY <2>1, <2>2, <2>4 DEF DraftIsLast
  <2>7. ManifestNamesDraft
    BY <1>1, <2>1, <2>2, <2>3 DEF ManifestNamesDraft
  <2> QED
    BY <2>5, <2>6, <2>7 DEF RunStep
<1>10. CASE Publish
  <2>1. /\ phase = "publish" /\ phase' = "idle" /\ views' = views
        /\ manifest' = [dir |-> draft, format |-> using.format,
                        revision |-> views[draft].revision, slices |-> views[draft].slices]
    BY <1>10 DEF Publish, RunEnds
  <2> QED
    BY <1>1, <2>1, NoDraft DEF RunStep, ViewsRemain, DraftIsLast, ManifestNamesDraft, Drafting
<1> QED
  BY <1>3, <1>4, <1>5, <1>6, <1>7, <1>8, <1>9, <1>10 DEF Next, Ingest, Owner

LEMMA RunsStay ==
  ASSUME RunsInv, [Next]_vars
  PROVE  RunsInv'
<1>1. IInv'
  <2>1. TypeOK /\ ShardsOK /\ DraftOK /\ LiveOK
    BY DEF RunsInv, IInv
  <2> QED
    BY <2>1, FilesStep, TypeStep, DraftStep, LiveStep DEF IInv
<1>2. RunStep
  BY RunStepIs
<1>3. /\ Len(views) \in Nat /\ DraftIsNewest /\ Named
  BY ViewsTyped DEF RunsInv
<1>4. DraftIsNewest'
  BY <1>2, <1>3 DEF RunStep, DraftIsLast, DraftIsNewest
<1>5. Named'
  BY <1>2, <1>3 DEF RunStep, ManifestNamesDraft, Named
<1> QED
  BY <1>1, <1>4, <1>5 DEF RunsInv

\* An index that is deleted is one that was never built.
LEMMA DeletionKeeps ==
  ASSUME RunsInv, DeleteIndex
  PROVE  RunsInv'
<1>1. /\ phase = "idle" /\ files' = [s \in Sources |-> NoShard] /\ manifest' = NoFile /\ mixed' = {}
      /\ views' = [i \in DOMAIN views |-> PartialView] /\ UNCHANGED <<stores, run>>
  BY DEF DeleteIndex
<1>2. TypeOK /\ ShardsOK /\ DraftOK /\ LiveOK
  BY DEF RunsInv, IInv
<1>3. ShardsOK'
  BY <1>1, NoShardOf DEF ShardsOK
<1>4. DraftOK' /\ LiveOK' /\ DraftIsNewest' /\ Named'
  BY <1>1 DEF DraftOK, LiveOK, DraftIsNewest, Drafting, Named, run
<1>5. TypeOK'
  <2>1. views \in Seq({PartialView} \cup WholeViews)
    BY <1>2 DEF TypeOK
  <2>2. views' \in Seq({PartialView} \cup WholeViews)
    <3>1. PICK n \in Nat : DOMAIN views = 1..n
      BY <2>1
    <3> QED
      BY <1>1, <3>1
  <2>3. files' \in [Sources -> ShardFiles]
    BY <1>1 DEF NoShard, ShardFiles
  <2>4. UNCHANGED <<store, edits, setup, using, phase, scan, todo, failed, fresh, draft, excluded>>
    BY <1>1 DEF stores, run
  <2>5. mixed' \subseteq Sources \X Columns
    BY <1>1
  <2> QED
    BY <1>2, <2>2, <2>3, <2>4, <2>5 DEF TypeOK
<1> QED
  BY <1>3, <1>4, <1>5 DEF RunsInv, IInv

-----------------------------------------------------------------------------
(* The watcher.                                                            *)

\* A directory that was published stays, and only a collection empties it.
LEMMA PublishedStays ==
  ASSUME RunsInv, [Next]_vars, NEW d, Published(d)
  PROVE  Published(d)' /\ (views'[d] = views[d] \/ views'[d] = PartialView)
<1>1. Len(views) \in Nat /\ (Drafting => draft \in 1..Len(views))
  BY ViewsTyped DEF RunsInv
<1>2. d \in 1..Len(views) /\ (Drafting => d < draft) /\ (manifest # NoFile => d <= manifest.dir)
  BY DEF Published
<1>3. ViewsRemain /\ DraftIsLast /\ ManifestNamesDraft
  BY RunStepIs DEF RunStep
<1>4. (views'[d] = views[d] \/ views'[d] = PartialView) /\ Len(views') >= Len(views)
  BY <1>2, <1>3 DEF ViewsRemain
<1>5. Len(views') \in Nat
  <2>1. views' \in Seq({PartialView} \cup WholeViews)
    BY RunsStay DEF RunsInv, IInv, TypeOK
  <2> QED
    BY <2>1
<1>6. Drafting' => d < draft'
  BY <1>1, <1>2, <1>3 DEF DraftIsLast
<1>7. manifest' # NoFile => d <= manifest'.dir
  BY <1>1, <1>2, <1>3 DEF ManifestNamesDraft
<1>8. d \in 1..Len(views')
  BY <1>1, <1>2, <1>4, <1>5
<1> QED
  BY <1>4, <1>6, <1>7, <1>8 DEF Published

\* What is left of a published view can only get less.
LEMMA RemainsStay ==
  ASSUME RunsInv, [Next]_vars, NEW m, Published(m.dir), Remains(m)
  PROVE  Remains(m)'
<1>1. views'[m.dir] = views[m.dir] \/ views'[m.dir] = PartialView
  BY PublishedStays
<1> QED
  BY <1>1 DEF Remains, GoodView

\* A run beside the engine.
LEMMA BesideRuns ==
  ASSUME WatchInv, [Next]_vars, UNCHANGED engineVars
  PROVE  WatchInv'
<1>1. RunsInv /\ RunsInv'
  BY RunsStay DEF WatchInv
<1>2. /\ engine' = engine /\ booting' = booting /\ stat' = stat /\ read' = read
      /\ seen' = seen /\ served' = served /\ fault' = fault
  BY DEF engineVars
<1>3. PICK d, t, m, v : d = seen /\ t = stat /\ m = read /\ v = served
  OBVIOUS
<1>4. EngineOK'
  BY <1>2 DEF WatchInv, EngineOK
<1>5. SeenOK'
  <2>1. d = NoStat \/ Published(d)
    BY <1>3 DEF WatchInv, SeenOK
  <2>2. d = NoStat \/ Published(d)'
    BY <1>1, <2>1, PublishedStays
  <2> QED
    BY <1>2, <1>3, <2>2 DEF SeenOK, Published
<1>6. StatOK'
  <2>1. t = NoStat \/ Published(t)
    BY <1>3 DEF WatchInv, StatOK
  <2>2. t = NoStat \/ Published(t)'
    BY <1>1, <2>1, PublishedStays
  <2> QED
    BY <1>2, <1>3, <2>2 DEF StatOK, Published
<1>7. ReadOK'
  <2> SUFFICES ASSUME engine = "load" PROVE ReadOK'
    BY <1>2 DEF ReadOK
  <2>1. Published(m.dir) /\ stat <= m.dir /\ Remains(m)
    BY <1>3 DEF WatchInv, ReadOK
  <2>2. Published(m.dir)'
    BY <1>1, <2>1, PublishedStays
  <2>3. Remains(m)'
    BY <1>1, <2>1, RemainsStay
  <2> QED
    BY <1>2, <1>3, <2>1, <2>2, <2>3 DEF ReadOK, Published, Remains, GoodView
<1>8. ServedOK'
  BY <1>2 DEF WatchInv, ServedOK, Aligned
<1>9. UpToDate'
  <2>1. ManifestNamesDraft
    BY <1>1, RunStepIs DEF RunStep
  <2>2. CASE manifest' = manifest
    BY <1>2, <2>2 DEF WatchInv, UpToDate
  <2>3. CASE Drafting /\ manifest'.dir = draft
    <3>1. draft \in 1..Len(views) /\ Len(views) \in Nat
      BY <1>1, <2>3, ViewsTyped DEF RunsInv
    <3>2. d = NoStat \/ (d < draft /\ d \in 1..Len(views))
      BY <1>3, <2>3 DEF WatchInv, SeenOK, Published
    <3>3. d # draft
      BY <3>1, <3>2, WatchAssumption
    <3> QED
      BY <1>2, <1>3, <2>3, <3>3 DEF UpToDate
  <2> QED
    BY <2>1, <2>2, <2>3 DEF ManifestNamesDraft
<1> QED
  BY <1>1, <1>4, <1>5, <1>6, <1>7, <1>8, <1>9 DEF WatchInv

\* The owner deletes the index under it.
LEMMA BesideDeletion ==
  ASSUME WatchInv, DeleteIndex
  PROVE  WatchInv'
<1>1. RunsInv /\ RunsInv'
  BY DeletionKeeps DEF WatchInv
<1>2. /\ phase' = "idle" /\ manifest' = NoFile /\ UNCHANGED engineVars
      /\ views' = [i \in DOMAIN views |-> PartialView]
  BY DEF DeleteIndex, run
<1>3. /\ DOMAIN views = 1..Len(views) /\ views' \in Seq({PartialView} \cup WholeViews)
      /\ Len(views) \in Nat
  BY <1>1, ViewsTyped DEF RunsInv, IInv, TypeOK
<1>4. Len(views') = Len(views)
  BY <1>2, <1>3
<1>5. ASSUME NEW d, Published(d)
      PROVE  Published(d)' /\ views'[d] = PartialView
  BY <1>2, <1>3, <1>4, <1>5 DEF Published, Drafting
<1>6. PICK d, t, m, v : d = seen /\ t = stat /\ m = read /\ v = served
  OBVIOUS
<1>7. EngineOK'
  BY <1>2 DEF WatchInv, EngineOK, engineVars
<1>8. SeenOK'
  <2>1. d = NoStat \/ Published(d)'
    BY <1>5, <1>6 DEF WatchInv, SeenOK
  <2> QED
    BY <1>2, <1>6, <2>1 DEF SeenOK, Published, engineVars
<1>9. StatOK'
  <2>1. t = NoStat \/ Published(t)'
    BY <1>5, <1>6 DEF WatchInv, StatOK
  <2> QED
    BY <1>2, <1>6, <2>1 DEF StatOK, Published, engineVars
<1>10. ReadOK'
  <2> SUFFICES ASSUME engine = "load" PROVE ReadOK'
    BY <1>2 DEF ReadOK, engineVars
  <2>1. Published(m.dir) /\ stat <= m.dir
    BY <1>6 DEF WatchInv, ReadOK
  <2>2. Published(m.dir)' /\ views'[m.dir] = PartialView
    BY <1>5, <2>1
  <2> QED
    BY <1>2, <1>6, <2>1, <2>2 DEF ReadOK, Published, Remains, engineVars
<1>11. ServedOK'
  BY <1>2 DEF WatchInv, ServedOK, Aligned, engineVars
<1>12. UpToDate'
  BY <1>2 DEF UpToDate
<1> QED
  BY <1>1, <1>7, <1>8, <1>9, <1>10, <1>11, <1>12 DEF WatchInv

\* The watcher's own steps leave the runs alone.
LEMMA RunsUntouched ==
  ASSUME RunsInv, UNCHANGED vars
  PROVE  /\ RunsInv'
         /\ views' = views /\ manifest' = manifest /\ phase' = phase /\ draft' = draft
         /\ \A d : Published(d) => Published(d)'
<1>1. RunsInv'
  BY RunsStay
<1>2. views' = views /\ manifest' = manifest /\ phase' = phase /\ draft' = draft
  BY DEF vars, run
<1>3. ASSUME NEW d, Published(d) PROVE Published(d)'
  BY <1>2, <1>3 DEF Published, Drafting
<1> QED
  BY <1>1, <1>2, <1>3

LEMMA EndKeeps ==
  ASSUME WatchInv, EngineEnds, UNCHANGED vars
  PROVE  WatchInv'
<1>1. RunsInv'
  BY RunsUntouched DEF WatchInv
<1>2. EngineOK' /\ SeenOK' /\ StatOK' /\ ReadOK' /\ ServedOK' /\ UpToDate'
  BY DEF EngineEnds, EngineOK, SeenOK, StatOK, ReadOK, ServedOK, UpToDate
<1> QED
  BY <1>1, <1>2 DEF WatchInv

\* A check that ends has seen what it stat'd.
LEMMA OverKeeps ==
  ASSUME WatchInv, CheckOver, engine \in {"read", "load"},
         NEW w, served' = w, w = NoView \/ Aligned(w),
         ~fault' /\ manifest # NoFile /\ stat = manifest.dir =>
           w # NoView /\ w.revision = manifest.revision
  PROVE  WatchInv'
<1>1. RunsInv' /\ manifest' = manifest /\ \A d : Published(d) => Published(d)'
  BY RunsUntouched DEF WatchInv, CheckOver
<1>2. /\ engine' = "idle" /\ booting' = FALSE /\ stat' = NoStat /\ seen' = stat
  BY DEF CheckOver, StatRemembered
<1>3. EngineOK' /\ StatOK' /\ ReadOK'
  BY <1>2 DEF EngineOK, StatOK, ReadOK
<1>4. SeenOK'
  <2>1. PICK t : t = stat
    OBVIOUS
  <2>2. t = NoStat \/ Published(t)'
    BY <1>1, <2>1 DEF WatchInv, StatOK
  <2> QED
    BY <1>2, <2>1, <2>2 DEF SeenOK, Published
<1>5. ServedOK'
  BY DEF ServedOK, Aligned
<1>6. UpToDate'
  BY <1>1, <1>2 DEF UpToDate
<1> QED
  BY <1>1, <1>3, <1>4, <1>5, <1>6 DEF WatchInv

\* A view that was stat'd and read is served only as it was published, and if
\* what was stat'd is still the manifest's, so is what was read.
LEMMA LoadedIs ==
  ASSUME WatchInv, engine = "load", NEW w, w = views[read.dir], Loadable(w, read)
  PROVE  /\ Aligned(w)
         /\ manifest # NoFile /\ stat = manifest.dir => w.revision = manifest.revision
<1>1. Published(read.dir) /\ stat <= read.dir /\ Remains(read)
  BY DEF WatchInv, ReadOK
<1>2. w.complete /\ Len(w.vectors) = Len(w.rows)
  BY DEF Loadable
<1>3. GoodView(w)
  <2>1. PartialView.complete = FALSE
    BY DEF PartialView
  <2> QED
    BY <1>1, <1>2, <2>1 DEF Remains
<1>4. Aligned(w)
  BY <1>2, <1>3 DEF Aligned, GoodView
<1>5. ASSUME manifest # NoFile, stat = manifest.dir PROVE w.revision = manifest.revision
  <2>1. manifest.dir \in 1..Len(views) /\ Len(views) \in Nat
    BY <1>5, ViewsTyped DEF WatchInv, RunsInv
  <2>2. read.dir \in 1..Len(views) /\ read.dir <= manifest.dir
    BY <1>1, <1>5 DEF Published
  <2>3. read.dir = manifest.dir
    BY <1>1, <1>5, <2>1, <2>2
  <2> QED
    BY <1>5, <2>3 DEF WatchInv, RunsInv, Named
<1> QED
  BY <1>4, <1>5

\* A view that was merged is a view.
LEMMA AlignedIsView ==
  ASSUME NEW w, Aligned(w)
  PROVE  w # NoView
BY WatchAssumption DEF Aligned

\* No step of the watcher gives the view up while there is a manifest.
Kept == served # NoView /\ manifest # NoFile => engine' = "down" \/ served' # NoView

LEMMA FaultKeeps ==
  ASSUME WatchInv, Fault, engine \in {"read", "load"}
  PROVE  WatchInv' /\ Kept
<1>1. CASE booting
  BY <1>1, EndKeeps DEF Fault, EngineEnds, Kept
<1>2. CASE ~booting
  <2>1. PICK w : w = served
    OBVIOUS
  <2>2. /\ fault' = TRUE /\ served' = w /\ CheckOver
    BY <1>2, <2>1 DEF Fault
  <2>3. w = NoView \/ Aligned(w)
    BY <2>1 DEF WatchInv, ServedOK
  <2> QED
    BY <2>1, <2>2, <2>3, OverKeeps DEF Kept
<1> QED
  BY <1>1, <1>2

\* The manifest names a directory that was published.
LEMMA StatIs ==
  ASSUME RunsInv
  PROVE  manifest # NoFile => Stat = manifest.dir /\ Stat \in Nat /\ Published(manifest.dir)
<1> SUFFICES ASSUME manifest # NoFile
             PROVE  Stat = manifest.dir /\ Stat \in Nat /\ Published(manifest.dir)
  OBVIOUS
<1>1. /\ manifest.dir \in 1..Len(views) /\ Len(views) \in Nat
      /\ Drafting => draft \in 1..Len(views) /\ manifest.dir # draft /\ draft = Len(views)
  BY ViewsTyped DEF RunsInv, DraftIsNewest
<1> QED
  BY <1>1 DEF Stat, Published

LEMMA BootKeeps ==
  ASSUME WatchInv, Boot
  PROVE  WatchInv' /\ Kept
<1>1. /\ RunsInv' /\ views' = views /\ manifest' = manifest /\ \A d : Published(d) => Published(d)'
  BY RunsUntouched DEF WatchInv, Boot
<1>2. /\ engine' = (IF manifest = NoFile THEN "idle" ELSE "read") /\ booting' = (manifest # NoFile)
      /\ stat' = Stat /\ seen' = seen /\ served' = served /\ fault' = fault
  BY DEF Boot
<1>3. manifest # NoFile => Stat = manifest.dir /\ Stat \in Nat /\ Published(manifest.dir)
  BY StatIs DEF WatchInv
<1>4. EngineOK'
  BY <1>2, <1>3, WatchAssumption DEF EngineOK
<1>5. StatOK'
  <2>1. PICK t : t = Stat
    OBVIOUS
  <2>2. t = NoStat \/ Published(t)'
    BY <1>1, <1>3, <2>1 DEF Stat
  <2> QED
    BY <1>2, <2>1, <2>2 DEF StatOK, Published
<1>6. SeenOK'
  <2>1. PICK d : d = seen
    OBVIOUS
  <2>2. d = NoStat \/ Published(d)'
    BY <1>1, <2>1 DEF WatchInv, SeenOK
  <2> QED
    BY <1>2, <2>1, <2>2 DEF SeenOK, Published
<1>7. ReadOK' /\ UpToDate'
  BY <1>1, <1>2 DEF ReadOK, UpToDate
<1>8. ServedOK' /\ Kept
  BY <1>2 DEF WatchInv, ServedOK, Aligned, Kept
<1> QED
  BY <1>1, <1>4, <1>5, <1>6, <1>7, <1>8 DEF WatchInv

LEMMA NothingKeeps ==
  ASSUME WatchInv, CheckNothing
  PROVE  WatchInv' /\ Kept
<1>1. /\ RunsInv' /\ views' = views /\ manifest' = manifest /\ \A d : Published(d) => Published(d)'
  BY RunsUntouched DEF WatchInv, CheckNothing
<1>2. PICK t, d : t = stat /\ d = seen
  OBVIOUS
<1>3. (t = NoStat \/ Published(t)') /\ (d = NoStat \/ Published(d)')
  BY <1>1, <1>2 DEF WatchInv, StatOK, SeenOK
<1>4. /\ engine' = engine /\ booting' = booting /\ stat' = t /\ read' = read /\ engine = "idle"
      /\ \/ Stat = NoStat /\ seen' = NoStat /\ served' = NoView
         \/ Stat # NoStat /\ seen' = d /\ served' = served /\ fault' = fault
  BY <1>2 DEF CheckNothing
<1>5. manifest = NoFile <=> Stat = NoStat
  BY StatIs, WatchAssumption DEF WatchInv, Stat
<1>6. EngineOK' /\ ReadOK' /\ UpToDate'
  BY <1>1, <1>2, <1>4, <1>5 DEF WatchInv, EngineOK, ReadOK, UpToDate
<1>7. StatOK' /\ SeenOK'
  BY <1>3, <1>4 DEF StatOK, SeenOK, Published
<1>8. ServedOK' /\ Kept
  BY <1>4, <1>5 DEF WatchInv, ServedOK, Aligned, Kept
<1> QED
  BY <1>1, <1>6, <1>7, <1>8 DEF WatchInv

LEMMA StatKeeps ==
  ASSUME WatchInv, CheckStat
  PROVE  WatchInv' /\ Kept
<1>1. /\ RunsInv' /\ views' = views /\ manifest' = manifest /\ \A d : Published(d) => Published(d)'
  BY RunsUntouched DEF WatchInv, CheckStat
<1>2. PICK t, d : t = Stat /\ d = seen
  OBVIOUS
<1>3. t # NoStat /\ Published(t)' /\ (d = NoStat \/ Published(d)')
  BY <1>1, <1>2, StatIs DEF WatchInv, SeenOK, CheckStat, Stat
<1>4. /\ engine = "idle" /\ engine' = "read" /\ booting' = booting /\ stat' = t /\ seen' = d
      /\ served' = served
  BY <1>2 DEF CheckStat
<1>5. EngineOK' /\ ReadOK' /\ UpToDate'
  BY <1>3, <1>4 DEF WatchInv, EngineOK, ReadOK, UpToDate
<1>6. StatOK' /\ SeenOK'
  BY <1>3, <1>4 DEF StatOK, SeenOK, Published
<1>7. ServedOK' /\ Kept
  BY <1>4 DEF WatchInv, ServedOK, Aligned, Kept
<1> QED
  BY <1>1, <1>5, <1>6, <1>7 DEF WatchInv

LEMMA ReadKeeps ==
  ASSUME WatchInv, CheckRead
  PROVE  WatchInv' /\ Kept
<1>0. engine = "read"
  BY DEF CheckRead
<1>1. CASE Fault
  BY <1>0, <1>1, FaultKeeps
<1>2. CASE Readable /\ SameRevision /\ fault' = FALSE /\ UNCHANGED served /\ CheckOver
  <2>1. PICK w : w = served
    OBVIOUS
  <2>2. w # NoView /\ w.revision = manifest.revision /\ (w = NoView \/ Aligned(w))
    BY <1>2, <2>1 DEF SameRevision, WatchInv, ServedOK
  <2>3. WatchInv'
    BY <1>0, <1>2, <2>1, <2>2, OverKeeps
  <2> QED
    BY <1>2, <2>3 DEF Kept
<1>3. CASE /\ Readable /\ engine' = "load" /\ read' = manifest
           /\ UNCHANGED <<vars, booting, format, stat, seen, served, fault>>
  <2>1. /\ RunsInv' /\ views' = views /\ manifest' = manifest
        /\ \A d : Published(d) => Published(d)'
    BY <1>3, RunsUntouched DEF WatchInv
  <2>2. PICK t, d, m : t = stat /\ d = seen /\ m = manifest
    OBVIOUS
  <2>3. (t = NoStat \/ Published(t)') /\ (d = NoStat \/ Published(d)')
    BY <2>1, <2>2 DEF WatchInv, StatOK, SeenOK
  <2>4. Published(t) /\ t # NoStat /\ manifest # NoFile
    BY <1>0, <1>3, <2>2 DEF WatchInv, StatOK, EngineOK, Readable
  <2>5. Published(m.dir) /\ Published(m.dir)' /\ t <= m.dir
    BY <2>1, <2>2, <2>4, StatIs DEF WatchInv, Published
  <2>6. Remains(m)
    BY <2>2, <2>4 DEF WatchInv, RunsInv, IInv, LiveOK, Named, Remains
  <2>7. Remains(m)'
    BY <2>1, <2>6 DEF Remains, GoodView
  <2>8. EngineOK' /\ UpToDate'
    BY <1>0, <1>3 DEF WatchInv, EngineOK, UpToDate
  <2>9. StatOK' /\ SeenOK'
    BY <1>3, <2>2, <2>3 DEF StatOK, SeenOK, Published
  <2>10. ReadOK'
    BY <1>3, <2>1, <2>2, <2>5, <2>7 DEF ReadOK, Published, Remains, GoodView
  <2>11. ServedOK' /\ Kept
    BY <1>3 DEF WatchInv, ServedOK, Aligned, Kept
  <2> QED
    BY <2>1, <2>8, <2>9, <2>10, <2>11 DEF WatchInv
<1> QED
  BY <1>1, <1>2, <1>3 DEF CheckRead

LEMMA LoadKeeps ==
  ASSUME WatchInv, CheckLoad
  PROVE  WatchInv' /\ Kept
<1>0. engine = "load"
  BY DEF CheckLoad
<1>1. CASE Fault
  BY <1>0, <1>1, FaultKeeps
<1>2. CASE /\ Loadable(views[read.dir], read)
           /\ served' = views[read.dir] /\ fault' = FALSE /\ CheckOver
  <2>1. PICK w : w = views[read.dir]
    OBVIOUS
  <2>2. /\ Aligned(w) /\ w # NoView
        /\ manifest # NoFile /\ stat = manifest.dir => w.revision = manifest.revision
    BY <1>0, <1>2, <2>1, LoadedIs, AlignedIsView
  <2>3. WatchInv'
    BY <1>0, <1>2, <2>1, <2>2, OverKeeps
  <2> QED
    BY <1>2, <2>1, <2>2, <2>3 DEF Kept
<1> QED
  BY <1>1, <1>2 DEF CheckLoad

\* Every step of the engine and of the runs beside it.
LEMMA WatchStep ==
  ASSUME WatchInv, [WatchNext]_watchVars
  PROVE  WatchInv' /\ Kept
<1>1. CASE Watch
  <2>1. CASE Stop
    BY <2>1, EndKeeps DEF Stop, EngineEnds, Kept
  <2> QED
    BY <1>1, <2>1, BootKeeps, NothingKeeps, StatKeeps, ReadKeeps, LoadKeeps DEF Watch
<1>2. CASE DeleteIndex
  BY <1>2, BesideDeletion DEF DeleteIndex, engineVars, Kept
<1>3. CASE Next /\ UNCHANGED engineVars
  BY <1>3, BesideRuns DEF engineVars, Kept
<1>4. CASE UNCHANGED watchVars
  BY <1>4, BesideRuns DEF watchVars, engineVars, Kept
<1> QED
  BY <1>1, <1>2, <1>3, <1>4 DEF WatchNext

LEMMA WatchStart == WatchInit => WatchInv
<1> SUFFICES ASSUME WatchInit PROVE WatchInv
  OBVIOUS
<1>1. IInv
  <2>1. ShardsOK
    BY NoShardOf DEF WatchInit, Init, ShardsOK
  <2>2. DraftOK /\ LiveOK
    BY DEF WatchInit, Init, DraftOK, LiveOK
  <2> QED
    BY <2>1, <2>2, TypeInit DEF WatchInit, IInv
<1>2. DraftIsNewest /\ Named
  BY DEF WatchInit, Init, DraftIsNewest, Drafting, Named
<1>3. EngineOK /\ SeenOK /\ StatOK /\ ReadOK /\ ServedOK /\ UpToDate
  BY DEF WatchInit, Down, EngineOK, SeenOK, StatOK, ReadOK, ServedOK, UpToDate
<1> QED
  BY <1>1, <1>2, <1>3 DEF WatchInv, RunsInv

\* The engine misses no publication, however many runs publish, collect, tear
\* or die while it checks, and however the index is deleted under it.
THEOREM NothingIsMissed == WatchSpec => []NoMissedPublication
<1>1. WatchInv => NoMissedPublication
  <2> SUFFICES ASSUME WatchInv, engine = "idle", manifest # NoFile, seen = manifest.dir, ~fault
               PROVE  /\ served # NoView /\ served.revision = manifest.revision
                      /\ Len(served.rows) = Before(served, Len(served.slices) + 1)
                      /\ Len(served.vectors) = Len(served.rows)
    BY DEF NoMissedPublication
  <2>1. served # NoView /\ served.revision = manifest.revision /\ Aligned(served)
    BY DEF WatchInv, UpToDate, ServedOK
  <2>2. served.slices \in Seq(Nat)
    BY <2>1 DEF Aligned, WholeViews
  <2>3. (Len(served.slices) + 1) - 1 = Len(served.slices)
    BY <2>2
  <2> QED
    BY <2>1, <2>3 DEF Aligned, Before
<1> QED
  BY <1>1, WatchStart, WatchStep, PTL DEF WatchSpec

\* The engine never gives its view up for a manifest or a view it cannot read.
THEOREM LiveViewKept == WatchSpec => LiveViewIsKept
<1>1. WatchInv /\ [WatchNext]_watchVars =>
        [served # NoView /\ manifest # NoFile => engine' = "down" \/ served' # NoView]_watchVars
  BY WatchStep DEF Kept
<1> QED
  BY <1>1, WatchStart, WatchStep, PTL DEF WatchSpec, LiveViewIsKept
=============================================================================
