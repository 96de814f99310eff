------------------------------ MODULE Retrieval ------------------------------
(***************************************************************************)
(* What a turn supplies to synthesis (answer/retrieve.py, answer/scope.py). *)
(* The two retrievers are their rankings: `dense` of every passage by       *)
(* cosine, `lexical` of the passages that share a term by BM25.  A query is *)
(*   selected  the turn's sources, in order                                *)
(*   dense, lexical                                                        *)
(*   strong    how many of `dense` reach the dense threshold               *)
(*   rare      the passages that hold a rare term of the question          *)
(***************************************************************************)
EXTENDS Lists, FiniteSets, FiniteSetsExt

CONSTANTS
  Rows,           \* the view's passages in row order, which is passage id order
  SourceOf,       \* the source of each passage
  Vendor,         \* the sources that are vendor manuals
  DeviceOf,       \* the device of each vendor manual
  Declared,       \* the devices each passage declares in the sidecar
  Gaps,           \* devices owned but undocumented
  Depth, RrfK, BaseCap

ASSUME CapsAssumption == {Depth, RrfK, BaseCap} \subseteq Nat
ASSUME RowsAssumption == IsSeq(Rows)

Passages == ToSet(Rows)

\* device_scope: without a manual in scope, the devices of every manual.
DeviceScope(selected) ==
  LET manuals == IF selected \cap Vendor = {} THEN Vendor ELSE selected \cap Vendor
  IN  {DeviceOf[s] : s \in manuals} \cup Gaps

\* in_device_scope
InDeviceScope(p, devices) == Declared[p] = {} \/ Declared[p] \cap devices # {}

\* candidate_mask
Mask(query) ==
  LET selected == ToSet(query.selected) IN
    {p \in Passages : SourceOf[p] \in selected /\ InDeviceScope(p, DeviceScope(selected))}

\* _ranked: masked first, then cut to depth.
Ranked(order, mask) == First(Among(order, mask), Depth)

\* A common denominator of every share there is.
Common == MapThenFoldSet(LAMBDA x, y : x * y, 1, LAMBDA r : RrfK + r, Max, 1..Depth)

\* One retriever's share of a passage's score: 1 / (k + rank), as a numerator.
Share(ranking, p) ==
  LET rank == SelectInSeq(ranking, LAMBDA q : q = p)
  IN  IF rank = 0 THEN 0 ELSE Common \div (RrfK + rank)

\* rrf_scores
Score(p, dense, lexical) == Share(dense, p) + Share(lexical, p)

RowOf(p) == SelectInSeq(Rows, LAMBDA q : q = p)

\* fuse: by score, ties by passage id. Each place is held by the passage that as
\* many go before.
Fused(dense, lexical) ==
  LET found == ToSet(dense) \cup ToSet(lexical)
      Before(p) == {q \in found :
                      \/ Score(q, dense, lexical) > Score(p, dense, lexical)
                      \/ /\ Score(q, dense, lexical) = Score(p, dense, lexical)
                         /\ RowOf(q) < RowOf(p)}
  IN  [k \in 1..Cardinality(found) |-> CHOOSE p \in found : Cardinality(Before(p)) = k - 1]

\* _qualifying: by cosine, or first by BM25 within its own source and rare.
Qualifying(query, source) ==
  LET masked  == {p \in Mask(query) : SourceOf[p] = source}
      scored  == Among(query.lexical, masked)
  IN  (ToSet(First(query.dense, query.strong)) \cap masked)
        \cup (IF scored # <<>> /\ scored[1] \in query.rare THEN {scored[1]} ELSE {})

\* retrieve: a slot for every qualifying source, the others by fused rank up to
\* the cap; a qualifying source that missed both depth cuts is served last, by
\* its best qualifying passage.
Retrieve(query) ==
  LET mask       == Mask(query)
      fused      == Fused(Ranked(query.dense, mask), Ranked(query.lexical, mask))
      qualifying == Among(query.selected, {s \in ToSet(query.selected) : Qualifying(query, s) # {}})
      cap        == Max({BaseCap, Len(qualifying)})
      InFused(s) == SelectInSeq(fused, LAMBDA p : SourceOf[p] = s)
      Best(s)    == query.dense[SelectInSeq(query.dense, LAMBDA p : p \in Qualifying(query, s))]
      missing    == Among(qualifying, {s \in ToSet(qualifying) : InFused(s) = 0})
      extras     == [i \in DOMAIN missing |-> Best(missing[i])]
      floor      == {fused[InFused(s)] : s \in ToSet(qualifying) \ ToSet(missing)}
      chosen     == FoldLeft(LAMBDA c, p : IF Cardinality(c) + Len(extras) >= cap
                                             THEN c ELSE c \cup {p}, floor, fused)
  IN  IF qualifying = <<>> THEN <<>>
      ELSE Among(fused, chosen) \o extras
=============================================================================
