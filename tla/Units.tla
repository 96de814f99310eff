------------------------------- MODULE Units -------------------------------
(***************************************************************************)
(* The regions of a manual into units (corpus/pdf/glyphs.py, language.py,   *)
(* layout.py, units.py): which lines are unreadable, which blocks are       *)
(* English, which rows are tables, and the paragraphs, procedures, headings *)
(* and rows that the chunker packs.                                        *)
(***************************************************************************)
EXTENDS Sections

CONSTANTS
  UnmappablePercent,                      \* UNMAPPABLE_LIMIT
  TableMinRows, TableMinColumns, TableEdgeColumns

ASSUME TableAssumption ==
  /\ TableMinRows \in Nat \ {0} /\ TableMinColumns \in Nat
  /\ TableEdgeColumns \in Nat /\ TableEdgeColumns <= TableMinColumns

\* A block's verdict, when the identifier is not sure and has to inherit one.
Unscored == "unscored"

-----------------------------------------------------------------------------
(* Glyph repair. "glyph" says whether a line's symbols came out right, can  *)
(* be mapped, or are lost; one word stands for each character.             *)

Lost(doc, i) == doc.lines[i].glyph = "lost"

\* GlyphAudit.rejection: the unmappable share of the text that is not furniture.
Unreadable(doc, marked) ==
  LET counted == Indices(doc) \ marked
      all     == FoldSet(LAMBDA i, n : n + doc.lines[i].words, 0, counted)
      lost    == Cardinality({i \in counted : Lost(doc, i)})
  IN  lost * 100 > UnmappablePercent * all

-----------------------------------------------------------------------------
(* Language. A document's blocks have the identifier's verdict: "english",  *)
(* "foreign" or unscored.                                                  *)

\* _nearest: the decided neighbour above, else below.
NearestDecided(verdicts, k) ==
  LET decided == {j \in DOMAIN verdicts : verdicts[j] # Unscored}
      above   == {j \in decided : j < k}
      below   == {j \in decided : j > k}
  IN  IF above # {} THEN verdicts[Max(above)]
      ELSE IF below # {} THEN verdicts[Min(below)] ELSE Unscored

Decided(verdicts, k) == IF verdicts[k] = Unscored THEN NearestDecided(verdicts, k) ELSE verdicts[k]

\* The blocks of a page in order, and their verdicts.
BlocksOn(doc, p) == InReadingOrder({doc.lines[i].block : i \in OnPage(doc, p)})
Verdicts(doc, p) == LET blocks == BlocksOn(doc, p) IN [k \in DOMAIN blocks |-> doc.verdicts[blocks[k]]]

\* _page_verdict: English wins on a mixed page.
PageVerdict(doc, p) ==
  LET found == ToSet(Verdicts(doc, p)) IN
    IF "english" \in found THEN "english" ELSE IF "foreign" \in found THEN "foreign" ELSE Unscored

\* _resolve_pages: a document nothing was scored in is included.
PageFallback(doc, p) ==
  LET pages == [q \in 1..doc.pages |-> PageVerdict(doc, q)] IN
    IF Decided(pages, p) = Unscored THEN "english" ELSE Decided(pages, p)

\* select_english: the blocks that are kept; all of them in a single language.
English(doc) ==
  IF doc.lang # "multi" THEN DOMAIN doc.verdicts
  ELSE {b \in DOMAIN doc.verdicts :
          LET i == Min({j \in Indices(doc) : doc.lines[j].block = b})
              p == doc.lines[i].page
              k == SelectInSeq(BlocksOn(doc, p), LAMBDA c : c = b)
              verdict == Decided(Verdicts(doc, p), k)
          IN  "english" = IF verdict = Unscored THEN PageFallback(doc, p) ELSE verdict}

\* _audit: the pages that contribute, an empty one included.
EnglishPages(doc, english) ==
  {p \in 1..doc.pages : BlocksOn(doc, p) = <<>> \/ ToSet(BlocksOn(doc, p)) \cap english # {}}

-----------------------------------------------------------------------------
(* Tables, in the rows one region has on one page (a sequence of lines).    *)

Wide(doc, i) == Cardinality(doc.lines[i].cells) >= TableMinColumns
Joins(doc, i) == Cardinality(doc.lines[i].cells) >= TableEdgeColumns

\* _table_runs: seeded by enough wide rows together, grown over the rows of two
\* cells around them; a run never reaches into the one before it.
TableRuns(doc, rows) ==
  LET AllIn(Test(_, _), a, b) == \A k \in a..b : Test(doc, rows[k])
      Seeds == {r \in (DOMAIN rows) \X (DOMAIN rows) :
                  /\ r[2] - r[1] + 1 >= TableMinRows /\ AllIn(Wide, r[1], r[2])
                  /\ r[1] = 1 \/ ~Wide(doc, rows[r[1] - 1])
                  /\ r[2] = Len(rows) \/ ~Wide(doc, rows[r[2] + 1])}
      Grown(r) == <<Min({a \in 1..r[1] : AllIn(Joins, a, r[1])}),
                    Max({b \in r[2]..Len(rows) : AllIn(Joins, r[2], b)})>>
  IN  {Grown(r) : r \in Seeds}

\* _heading_count: the rows above the first that reads as data; none when all would be.
HeadingCount(doc, rows) ==
  LET Columns(k) == doc.lines[rows[k]].cells
      Numeric(k) == doc.lines[rows[k]].numeric
      Like(k) == Cardinality({j \in DOMAIN rows : Columns(j) = Columns(k)})
      pattern == Columns(Min({k \in DOMAIN rows : \A j \in DOMAIN rows : Like(j) <= Like(k)}))
      anyNumeric == \E k \in DOMAIN rows : Numeric(k)
      data == {k \in DOMAIN rows : Numeric(k) \/ (~anyNumeric /\ Columns(k) = pattern)}
  IN  IF data = {} THEN 0 ELSE Min(data) - 1

-----------------------------------------------------------------------------
(* Units. A unit has its lines, and its steps when it is a procedure.       *)

Unit(lines, steps, atomic, repeat) ==
  [lines |-> lines, steps |-> steps, atomic |-> atomic, repeat |-> repeat]

\* _table_units: the joined heading, repeated on every split, and a unit per row.
TableUnits(doc, rows) ==
  LET n == HeadingCount(doc, rows)
      heading == SubSeq(rows, 1, n)
  IN  (IF n = 0 THEN <<>> ELSE <<Unit(heading, <<>>, TRUE, TRUE)>>)
      \o [k \in 1..(Len(rows) - n) |-> Unit(<<rows[n + k]>>, <<>>, TRUE, FALSE)]

Step(doc, i) == doc.lines[i].step
Steps(doc, rows) == Among([k \in DOMAIN rows |-> Step(doc, rows[k])], Nat \ {0})

\* _procedure_end: the last row of the procedure that begins at k; "wraps" is a
\* row set to the indent of a step's text.
ProcedureEnd(doc, rows, k) ==
  LET Continues(m) ==
        LET next == Last(Steps(doc, SubSeq(rows, k, m - 1))) + 1 IN
          IF Step(doc, rows[m]) = 0 THEN doc.lines[rows[m]].wraps ELSE Step(doc, rows[m]) = next
  IN  Max({m \in k..Len(rows) : \A j \in (k + 1)..m : Continues(j)})

\* A paragraph ends with its block, or where a procedure begins.
ParagraphEnd(doc, rows, k) ==
  Max({m \in k..Len(rows) : \A j \in k..m :
         Step(doc, rows[j]) = 0 /\ doc.lines[rows[j]].block = doc.lines[rows[k]].block})

\* _prose_units over rows without furniture: where each unit starts decides the next.
ProseUnits(doc, rows) ==
  LET End(k) == IF Step(doc, rows[k]) = 0 THEN ParagraphEnd(doc, rows, k) ELSE ProcedureEnd(doc, rows, k)
      UnitAt(k) ==
        LET part == SubSeq(rows, k, End(k)) IN
          IF Step(doc, rows[k]) = 0 THEN Unit(part, <<>>, FALSE, FALSE)
          ELSE Unit(part, Steps(doc, part), TRUE, FALSE)
      Add(units, k) ==
        IF Total([n \in DOMAIN units |-> Len(units[n].lines)], Len(units)) >= k THEN units
        ELSE Append(units, UnitAt(k))
  IN  FoldLeft(Add, <<>>, [k \in DOMAIN rows |-> k])

\* _page_units: tables lose their furniture marks, prose loses the marked rows.
PageUnits(doc, marked, rows) ==
  LET runs == TableRuns(doc, rows)
      InTable(k) == \E r \in runs : k \in r[1]..r[2]
      ProseEnd(k) == Max({m \in k..Len(rows) : \A j \in k..m : ~InTable(j)})
      Starts == InReadingOrder({k \in DOMAIN rows :
                  \/ \E r \in runs : r[1] = k
                  \/ ~InTable(k) /\ (k = 1 \/ InTable(k - 1))})
      SegmentAt(k) ==
        IF InTable(k)
        THEN LET r == CHOOSE run \in runs : run[1] = k IN TableUnits(doc, SubSeq(rows, r[1], r[2]))
        ELSE ProseUnits(doc, Among(SubSeq(rows, k, ProseEnd(k)), Indices(doc) \ marked))
  IN  FlattenSeq([n \in DOMAIN Starts |-> SegmentAt(Starts[n])])

\* Slip: a procedure ends with its page.
JoinedNever(units) == units

\* _joined: a procedure and its continuation on the next page are one unit.
Joined(units) ==
  LET Follows(one, two) == one.steps # <<>> /\ two.steps # <<>> /\ Head(two.steps) = Last(one.steps) + 1
      Merge(one, two) == Unit(one.lines \o two.lines, one.steps \o two.steps, TRUE, one.repeat)
      Add(merged, unit) ==
        IF merged # <<>> /\ Follows(Last(merged), unit)
        THEN Append(Front(merged), Merge(Last(merged), unit))
        ELSE Append(merged, unit)
  IN  FoldLeft(Add, <<>>, units)

\* The English lines of a region on a page.
RegionRows(doc, english, span, p) ==
  InReadingOrder({i \in OnPage(doc, p) : Holds(span, i) /\ doc.lines[i].block \in english})

\* assemble: a region's units, page by page, outside contents pages.
RegionUnits(doc, marked, english, contents, span) ==
  Joined(FlattenSeq([p \in 1..doc.pages |->
                       IF p \in contents THEN <<>>
                       ELSE PageUnits(doc, marked, RegionRows(doc, english, span, p))]))
=============================================================================
