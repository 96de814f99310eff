----------------------------- MODULE SourceLoad -----------------------------
(***************************************************************************)
(* One manual from its extracted lines to its passages (corpus/pdf/loader.py *)
(* PdfLoader.load, then chunk_source): the stages in the order the loader    *)
(* runs them, each of which may reject the source, and the packing of its    *)
(* regions.                                                                *)
(***************************************************************************)
EXTENDS Units, Chunking

CONSTANTS
  Manuals,            \* bound: sorts of manual, by what their lines may be
  Extracted(_, _, _)  \* extract_document: the document of some lines, an outline, a language

ASSUME ExtractedAssumption ==
  \A sort \in Manuals : \A lines \in [1..sort.length -> sort.lines], toc \in sort.outlines :
    IsDocument(Extracted(sort.opening \o lines, toc, sort.lang))

VARIABLES
  stage,     \* the stage that runs next, or how the load ended
  doc,       \* the extracted document
  marked,    \* the lines marked as furniture
  mapping,   \* the section map
  anchors,   \* where its entries are anchored
  spans,     \* the regions between them
  english    \* the blocks that are English

vars == <<stage, doc, marked, mapping, anchors, spans, english, regions, packing>>

NoMap == [path |-> "none", inferred |-> FALSE, contents |-> {}, entries |-> <<>>]

Init ==
  /\ stage = "extracted"
  /\ \E sort \in Manuals : \E lines \in [1..sort.length -> sort.lines], toc \in sort.outlines :
       doc = Extracted(sort.opening \o lines, toc, sort.lang)
  /\ marked = {} /\ mapping = NoMap /\ anchors = <<>> /\ spans = <<>> /\ english = {}
  /\ regions = <<>> /\ StartPacking

Reject(reason) ==
  /\ stage' = reason
  /\ UNCHANGED <<doc, mapping, anchors, spans, regions, packing>>

\* Document.has_text_layer
HasTextLayer == Indices(doc) \ marked # {}

\* The test for a text layer, and mark_furniture after it.
FindFurniture ==
  /\ stage = "extracted"
  /\ IF HasTextLayer
     THEN /\ marked' = MarkFurniture(doc) /\ stage' = "marked"
          /\ UNCHANGED <<doc, mapping, anchors, spans, english, regions, packing>>
     ELSE Reject("no-text-layer") /\ UNCHANGED <<marked, english>>

\* repair_document
RepairGlyphs ==
  /\ stage = "marked"
  /\ IF Unreadable(doc, marked)
     THEN Reject("unreadable-text") /\ UNCHANGED <<marked, english>>
     ELSE /\ stage' = "repaired"
          /\ UNCHANGED <<doc, marked, mapping, anchors, spans, english, regions, packing>>

\* section_map and derive_regions: an anchored line is no furniture.
FindSections ==
  /\ stage = "repaired"
  /\ mapping' = SectionMap(doc, marked)
  /\ anchors' = AnchorEntries(doc, mapping'.entries)
  /\ spans' = DeriveRegions(doc, marked, anchors', mapping'.inferred)
  /\ marked' = marked \ AnchoredLines(anchors')
  /\ stage' = "sectioned"
  /\ UNCHANGED <<doc, english, regions, packing>>

\* select_english
SelectEnglish ==
  /\ stage = "sectioned"
  /\ english' = English(doc)
  /\ IF EnglishPages(doc, english') = {}
     THEN Reject("no-english-content")
     ELSE stage' = "selected" /\ UNCHANGED <<doc, mapping, anchors, spans, regions, packing>>
  /\ UNCHANGED marked

-----------------------------------------------------------------------------
(* A region's units, laid out as one stream of words.                      *)

\* The words of the first n of some lines.
LineWords(lines, n) == Total([m \in DOMAIN lines |-> doc.lines[lines[m]].words], n)

Laid(units) ==
  LET words == [k \in DOMAIN units |-> LineWords(units[k].lines, Len(units[k].lines))]
      from(k) == Total(words, k - 1)
      Stops(k) == {from(k) + LineWords(units[k].lines, n) :
                     n \in {m \in DOMAIN units[k].lines : doc.lines[units[k].lines[m]].stop}}
  IN  [k \in DOMAIN units |->
         [lines |-> units[k].lines, from |-> from(k), upto |-> Total(words, k),
          stops |-> Stops(k), atomic |-> units[k].atomic, repeat |-> units[k].repeat, partial |-> FALSE]]

\* assemble
AssembleUnits ==
  /\ stage = "selected"
  /\ regions' = [r \in DOMAIN spans |-> Laid(RegionUnits(doc, marked, english, mapping.contents, spans[r]))]
  /\ stage' = "packing"
  /\ UNCHANGED <<doc, marked, mapping, anchors, spans, english, packing>>

\* chunk_source
Pack == stage = "packing" /\ PackStep /\ UNCHANGED <<stage, doc, marked, mapping, anchors, spans, english>>

Finish ==
  /\ stage = "packing" /\ Packed
  /\ parts' = AllParts /\ own' = <<>> /\ stage' = "loaded"
  /\ UNCHANGED <<doc, marked, mapping, anchors, spans, english, regions,
                 region, queue, repeats, running, head, overlap, used>>

Next == FindFurniture \/ RepairGlyphs \/ FindSections \/ SelectEnglish \/ AssembleUnits \/ Pack \/ Finish

Spec == Init /\ [][Next]_vars

-----------------------------------------------------------------------------
(* What a part says and cites.                                             *)

\* The lines of a region, word by word.
WordLines(r) ==
  FlattenSeq([k \in DOMAIN regions[r] |->
    FlattenSeq([n \in DOMAIN regions[r][k].lines |->
      LET i == regions[r][k].lines[n] IN [w \in 1..doc.lines[i].words |-> i]])])

\* The words of an interval, as the place of each in its line's text.
WordsOf(r, unit) == SubSeq(WordLines(r), unit.from + 1, unit.upto)

TextOf(part) ==
  LET said == FlattenSeq([k \in DOMAIN part.head |-> WordsOf(part.region, part.head[k])])
                \o WordsOf(part.region, part.overlap)
                \o FlattenSeq([k \in DOMAIN part.own |-> WordsOf(part.region, part.own[k])])
  IN  [w \in DOMAIN said |-> doc.lines[said[w]].text]

\* Slip: what a chunk carries counts for its pages.
PagesWithCarried(part) ==
  {doc.lines[i].page : i \in UNION {ToSet(u.lines) : u \in ToSet(part.head \o part.own)}}

\* _chunk: the pages of a part's own units, and the flag of an unreadable line.
Pages(part) == {doc.lines[i].page : i \in UNION {ToSet(u.lines) : u \in ToSet(part.own)}}
Degraded(part) == \E u \in ToSet(part.head \o part.own) : \E i \in ToSet(u.lines) : Lost(doc, i)

Passages ==
  LET ids == AssignIds([k \in DOMAIN parts |-> TextOf(parts[k])]) IN
    [k \in DOMAIN parts |->
       [id |-> ids[k], region |-> parts[k].region, section |-> spans[parts[k].region].entry,
        page_start |-> Min(Pages(parts[k])), page_end |-> Max(Pages(parts[k])),
        degraded |-> Degraded(parts[k]),
        partial |-> \E u \in ToSet(parts[k].own) : u.partial]]

-----------------------------------------------------------------------------
(* Properties of a loaded source.                                          *)

Loaded == stage = "loaded"

OwnWords == FlattenSeq([k \in DOMAIN parts |->
              FlattenSeq([n \in DOMAIN parts[k].own |-> WordsOf(parts[k].region, parts[k].own[n])])])
LinesOf(part) == UNION {ToSet(WordsOf(part.region, u)) : u \in ToSet(part.own)}

Selected == {i \in Indices(doc) : doc.lines[i].block \in english /\ doc.lines[i].page \notin mapping.contents}

\* What may be dropped: a line of the bands that recurs on another page, is no
\* section's heading and no row of a table.
Recurs(i) ==
  doc.lines[i].key # None /\ \E j \in Indices(doc) :
    doc.lines[j].key = doc.lines[i].key /\ doc.lines[j].page # doc.lines[i].page
TabularRow(i) ==
  \E a \in Indices(doc), b \in Indices(doc) :
    /\ i \in a..b /\ b - a + 1 >= TableMinRows
    /\ \E r \in DOMAIN spans : \A j \in a..b : Holds(spans[r], j)
    /\ \A j \in a..b : Wide(doc, j) /\ j \in Selected /\ doc.lines[j].page = doc.lines[i].page
MayBeDropped(i) == Recurs(i) /\ i \notin AnchoredLines(anchors) /\ ~TabularRow(i)

\* Every selected line that may not be dropped is in the passages, whole, once
\* and in reading order, and no other text is: marks made before sections and
\* tables are known lose nothing (corpus/pdf/furniture.py, units.py), and
\* splitting repeats or loses no word (chunk.py _pack); nor does an index keyed
\* by identifiers lose one (passage_id.py).
BodyIsIndexedOnce ==
  Loaded =>
    LET lines == InReadingOrder(ToSet(OwnWords)) IN
    /\ OwnWords = FlattenSeq([n \in DOMAIN lines |-> [w \in 1..doc.lines[lines[n]].words |-> lines[n]]])
    /\ \A i \in Selected : i \in ToSet(OwnWords) \/ MayBeDropped(i)
    /\ ToSet(OwnWords) \subseteq Selected
    /\ IsInjective([k \in DOMAIN parts |-> Passages[k].id])

\* A passage is cited under the section its own words are printed in: that of
\* the last heading found at or before them (sections.py, chunk.py).
CitedUnderItsSection ==
  Loaded => \A k \in DOMAIN parts : \A i \in LinesOf(parts[k]) :
    LET before == {a \in DOMAIN anchors : anchors[a].position <= At(i)} IN
      Passages[k].section.title =
        IF before = {} THEN spans[1].entry.title ELSE anchors[Max(before)].entry.title

\* The pages a passage is cited with are those its own words are printed on,
\* whatever heading or sentence it copies; the parts of a split unit share the
\* unit's pages.
CitedOnItsPages ==
  Loaded => \A k \in DOMAIN parts :
    LET pages == PagesOf(doc, LinesOf(parts[k])) IN
      IF Passages[k].partial THEN pages \subseteq Passages[k].page_start..Passages[k].page_end
      ELSE Passages[k].page_start = Min(pages) /\ Passages[k].page_end = Max(pages)

\* A line of a region that one of its tables has.
InATable(r, i) ==
  LET rows == RegionRows(doc, english, spans[r], doc.lines[i].page) IN
    \E run \in TableRuns(doc, rows) : i \in ToSet(SubSeq(rows, run[1], run[2]))

\* The lines a region's units have, and the step a line leads on to: the next
\* number, past the lines the step wraps onto on its page, in no table.
PrintedIn(r) == UNION {ToSet(unit.lines) : unit \in ToSet(regions[r])}
LeadsTo(r, i, j) ==
  /\ i < j /\ Step(doc, i) # 0 /\ Step(doc, j) = Step(doc, i) + 1
  /\ \A m \in PrintedIn(r) : i < m /\ m < j =>
       Step(doc, m) = 0 /\ doc.lines[m].wraps /\ doc.lines[m].page = doc.lines[i].page
  /\ \A m \in PrintedIn(r) : i <= m /\ m <= j => ~InATable(r, m)

\* A step and the step it leads on to are in one unit, whatever page break,
\* furniture or foreign text is between them (units.py _procedure_end, _joined).
\* This is less than units.py:12-14 says: a step that wraps over a page break ends
\* its procedure there, and a table's rows are units of their own.
ProceduresStayWhole ==
  \A r \in DOMAIN regions : \A i, j \in PrintedIn(r) :
    LeadsTo(r, i, j) => \E unit \in ToSet(regions[r]) : {i, j} \subseteq ToSet(unit.lines)

\* No chunk is longer than the cap, and each has words of its own.  What it
\* carries is repeated units or overlap, never both, and overlap is the end of
\* the previous chunk of its region, never of a row or a procedure.
WithinCap ==
  \A k \in DOMAIN parts :
    /\ AllWords(parts[k].head) + Words(parts[k].overlap) + AllWords(parts[k].own) <= WordCap
    /\ AllWords(parts[k].own) > 0
    /\ parts[k].head = <<>> \/ parts[k].overlap = NoOverlap
    /\ parts[k].overlap # NoOverlap =>
         /\ k > 1 /\ parts[k - 1].region = parts[k].region
         /\ Last(parts[k - 1].own).upto = parts[k].overlap.upto
         /\ ~Last(parts[k - 1].own).atomic

\* The rows of a table are in chunks that hold its heading, copied if need be,
\* unless the heading itself was split or fills a chunk.
IsRow(unit) == unit.atomic /\ ~unit.repeat /\ \A i \in ToSet(unit.lines) : Joins(doc, i)
HeadingLeadsRows ==
  Loaded => \A k \in DOMAIN parts : \A row \in {u \in ToSet(parts[k].own) : IsRow(u)} :
    LET units == regions[parts[k].region]
        at == SelectInSeq(units, LAMBDA u : u.lines = row.lines)
        headings == {h \in 1..(at - 1) : units[h].repeat /\ \A m \in (h + 1)..at : IsRow(units[m])}
    IN  \A h \in headings :
          \/ Words(units[h]) >= WordCap
          \/ \E q \in DOMAIN parts : \E u \in ToSet(parts[q].own) : u.lines = units[h].lines /\ u.partial
          \/ \E u \in ToSet(parts[k].head \o parts[k].own) : u.lines = units[h].lines

\* What Document.has_text_layer says (corpus/pdf/extract.py): a source whose only
\* text is page furniture is rejected, not indexed empty.
NoTextLayerIsRejected == Loaded => Indices(doc) \ MarkFurniture(doc) # {}
=============================================================================
