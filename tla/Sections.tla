------------------------------ MODULE Sections ------------------------------
(***************************************************************************)
(* The structure of one extracted manual (corpus/pdf/furniture.py and       *)
(* sections.py): which lines are page furniture, which pages are contents,  *)
(* which of the three paths gives the section map, the line each entry is   *)
(* anchored to, and the regions between the anchors.                       *)
(*                                                                         *)
(* A document has pages 1..pages, an outline, and its printed lines in      *)
(* reading order; a line is one row. Fonts are their sizes, a title is a    *)
(* value, "reads" holds the titles a line's text begins with, and "place" is *)
(* where on its page a line is printed.                                     *)
(***************************************************************************)
EXTENDS Integers, Lists, FiniteSets, FiniteSetsExt

CONSTANTS
  None,            \* no key, number, title or target
  PageNumeral,     \* the furniture key of a line of digits
  FrontMatter,     \* the title of a run of pages belonging to no section
  RepeatPercent, ShortDocumentPages, ShortDocumentRepeats,
  OutlineMinEntries, NumberedPercent, ContentsMinEntries, ContentsPercent,
  HeadingMinCount, HeadingSpreadPercent, HeadingPagesEach

Indices(doc) == DOMAIN doc.lines
OnPage(doc, p) == {i \in Indices(doc) : doc.lines[i].page = p}
PagesOf(doc, S) == {doc.lines[i].page : i \in S}

\* positions and reading_lines: the lines that are not blank, page after page.
IsDocument(doc) ==
  /\ IsSeq(doc.lines) /\ IsSeq(doc.toc) /\ doc.pages \in Nat
  /\ \A i \in Indices(doc) :
       LET line == doc.lines[i] IN
         /\ line.words \in Nat \ {0} /\ line.page \in 1..doc.pages
         /\ line.step \in Nat /\ IsFiniteSet(line.cells)
  /\ \A i, j \in Indices(doc) : i < j => doc.lines[i].page <= doc.lines[j].page

AtLeast(count, percent, whole) == count * 100 >= percent * whole

-----------------------------------------------------------------------------
(* Page furniture.                                                         *)

\* _repeats: on enough pages, at one height.
Repeats(doc, S) ==
  LET on == Cardinality(PagesOf(doc, S)) IN
  /\ \/ AtLeast(on, RepeatPercent, doc.pages)
     \/ doc.pages <= ShortDocumentPages /\ on >= ShortDocumentRepeats
  /\ Cardinality({doc.lines[i].height : i \in S}) = 1

\* Slip: a page numeral is furniture wherever it stands alone.
IsFurnitureOnOnePage(doc, key, S) == Repeats(doc, S) \/ key = PageNumeral

IsFurniture(doc, key, S) ==
  /\ Cardinality(PagesOf(doc, S)) >= 2
  /\ Repeats(doc, S) \/ key = PageNumeral

\* mark_furniture: the lines of the bands, by the key they share.
MarkFurniture(doc) ==
  LET keys == {doc.lines[i].key : i \in Indices(doc)} \ {None}
      Candidates(k) == {i \in Indices(doc) : doc.lines[i].key = k}
  IN  UNION {Candidates(k) : k \in {key \in keys : IsFurniture(doc, key, Candidates(key))}}

-----------------------------------------------------------------------------
(* The section map.                                                        *)

Leaders(doc, p) == {i \in OnPage(doc, p) : doc.lines[i].leads # None}
Numerals(doc, p) == {i \in OnPage(doc, p) : doc.lines[i].numeral \in 1..doc.pages}

IsDotLeaderPage(doc, marked, p) ==
  LET leaders == Cardinality(Leaders(doc, p))
      lines   == Cardinality(OnPage(doc, p) \ marked)
  IN  leaders >= ContentsMinEntries /\ lines > 0 /\ AtLeast(leaders, ContentsPercent, lines)

\* is_contents_page: dot leaders, or rows that end in a page of this document.
IsContentsPage(doc, marked, p) ==
  LET lines   == OnPage(doc, p) \ marked
      entries == Cardinality((Leaders(doc, p) \cup Numerals(doc, p)) \cap lines)
  IN  entries >= ContentsMinEntries /\ AtLeast(entries, ContentsPercent, Cardinality(lines))

ContentsPages(doc, marked) == {p \in 1..doc.pages : IsContentsPage(doc, marked, p)}

\* body_style: the size most lines are set in, the earliest of several; 0 for none.
BodySize(doc, marked) ==
  LET lines == Indices(doc) \ marked
      Count(s) == Cardinality({i \in lines : doc.lines[i].size = s})
      most  == Max({0} \cup {Count(doc.lines[i].size) : i \in lines})
      modal == {i \in lines : Count(doc.lines[i].size) = most}
  IN  IF lines = {} THEN 0 ELSE doc.lines[Min(modal)].size

\* "short" is below the heading length of the body style.
MayHead(line) == line.short /\ ~line.stop

\* _heading_lines, and what reads as a title in front matter.
HeadingLines(doc, marked, size) ==
  {i \in Indices(doc) \ marked : doc.lines[i].size = size /\ MayHead(doc.lines[i])}
ReadsAsTitle(doc, marked, i) ==
  /\ i \notin marked /\ doc.lines[i].size > BodySize(doc, marked) /\ MayHead(doc.lines[i])

\* heading_style: the largest size above the body's that is used often, widely
\* and regularly enough; 0 for none.
HeadingSize(doc, marked) ==
  LET Clears(size) ==
        LET heads == HeadingLines(doc, marked, size)
            on    == PagesOf(doc, heads)
        IN  /\ heads # {} /\ Cardinality(heads) >= HeadingMinCount
            /\ AtLeast(Max(on) - Min(on) + 1, HeadingSpreadPercent, doc.pages)
            /\ Cardinality(heads) * HeadingPagesEach >= doc.pages
      body  == BodySize(doc, marked)
      sizes == {doc.lines[i].size : i \in Indices(doc) \ marked}
  IN  IF body = 0 THEN 0 ELSE Max({0} \cup {s \in sizes : s > body /\ Clears(s)})

Entry(level, number, title, page) ==
  [level |-> level, number |-> number, title |-> title, page |-> page, path |-> <<>>]

EntryAt(doc, i, p) == Entry(1, doc.lines[i].number, doc.lines[i].title, p)
LeaderAt(doc, i) == Entry(doc.lines[i].level, doc.lines[i].number, doc.lines[i].title, doc.lines[i].leads)

InReadingOrder(S) == Among([i \in 1..Max({0} \cup S) |-> i], S)

\* _contents_entries: the first page of dot leaders, alone.
ContentsEntries(doc, marked) ==
  LET pages == {p \in 1..doc.pages : IsDotLeaderPage(doc, marked, p)} IN
    IF pages = {} THEN <<>>
    ELSE LET order == InReadingOrder(Leaders(doc, Min(pages)))
         IN  [k \in DOMAIN order |-> LeaderAt(doc, order[k])]

\* Lines are compared by value, which a page is no part of.
SameLine(doc, i, j) ==
  \A f \in {"title", "number", "size", "key", "place"} : doc.lines[i][f] = doc.lines[j][f]

\* _heading_entries: on each page, every heading that is the same as a line of it.
HeadingEntries(doc, marked) ==
  LET size  == HeadingSize(doc, marked)
      order == IF size = 0 THEN <<>> ELSE InReadingOrder(HeadingLines(doc, marked, size))
      HeadingsOn(p) == Among(order, {i \in Indices(doc) : \E j \in OnPage(doc, p) : SameLine(doc, i, j)})
      EntriesOn(p) == [k \in DOMAIN HeadingsOn(p) |-> EntryAt(doc, HeadingsOn(p)[k], p)]
  IN  FlattenSeq([p \in 1..doc.pages |-> EntriesOn(p)])

\* _with_parents: the nearest two ancestors of each entry, outermost first.
WithParents(raw) ==
  LET Ancestors(k) ==
        {j \in 1..(k - 1) : \A m \in (j + 1)..k : raw[m].level > raw[j].level}
      Nearest(k) ==
        LET all == InReadingOrder(Ancestors(k)) IN
          SubSeq(all, IF Len(all) > 2 THEN Len(all) - 1 ELSE 1, Len(all))
  IN  [k \in DOMAIN raw |->
         [raw[k] EXCEPT !.path = [n \in DOMAIN Nearest(k) |-> raw[Nearest(k)[n]].title]]]

IsNumbered(entries) ==
  /\ entries # <<>>
  /\ AtLeast(Len(SelectSeq(entries, LAMBDA e : e.number # None)), NumberedPercent, Len(entries))

\* section_map and _map: the outline, else a contents page, else a heading
\* style, else nothing; below the threshold no number is kept.
SectionMap(doc, marked) ==
  LET contents == ContentsEntries(doc, marked)
      path == IF Len(doc.toc) >= OutlineMinEntries THEN "outline"
              ELSE IF contents # <<>> THEN "contents"
              ELSE IF HeadingSize(doc, marked) # 0 THEN "headings" ELSE "none"
      raw == CASE path = "outline" -> doc.toc
               [] path = "contents" -> contents
               [] path = "headings" -> HeadingEntries(doc, marked)
               [] OTHER -> <<>>
      entries == WithParents(raw)
  IN  [path |-> path, inferred |-> path = "headings", contents |-> ContentsPages(doc, marked),
       entries |-> IF IsNumbered(entries) THEN entries
                   ELSE [k \in DOMAIN entries |-> [entries[k] EXCEPT !.number = None]]]

-----------------------------------------------------------------------------
(* Anchors and regions. A position is twice the index of a line; the top of *)
(* a page comes just before its first line.                                 *)

At(i) == 2 * i
Top(doc, p) == At(Min({Len(doc.lines) + 1} \cup {i \in Indices(doc) : doc.lines[i].page >= p})) - 1

\* _target_index: an entry beyond the document, or before it, lands on its ends.
TargetPage(doc, p) == IF p > doc.pages THEN doc.pages ELSE IF p < 1 THEN 1 ELSE p

Anchor(entry, position, line, quality) ==
  [entry |-> entry, position |-> position, line |-> line, quality |-> quality]

\* _anchor: a title on the target page after the previous anchor, on the page
\* before it or after it, or the top of the target page.
AnchorOf(doc, entry, previous) ==
  LET target == TargetPage(doc, entry.page)
      Found(p) == {i \in OnPage(doc, p) : At(i) > previous /\ entry.title \in doc.lines[i].reads}
      pages == <<target>> \o Among(<<entry.page - 1, entry.page + 1>>, 1..doc.pages)
      at    == SelectInSeq(pages, LAMBDA p : Found(p) # {})
  IN  IF entry.title = None \/ at = 0
      THEN Anchor(entry, Top(doc, target), None, "page-only")
      ELSE LET line == Min(Found(pages[at]))
           IN  Anchor(entry, At(line), line, IF at = 1 THEN "title" ELSE "nearby")

\* Slip: an entry that resolves before its predecessor stays there.
NotClamped(anchor, previous) == anchor

\* anchor_entries: never before the previous one.
Clamped(anchor, previous) ==
  IF anchor.position < previous THEN [anchor EXCEPT !.position = previous, !.quality = "page-only"]
  ELSE anchor

AnchorEntries(doc, entries) ==
  FoldLeft(LAMBDA anchors, entry :
             LET previous == IF anchors = <<>> THEN 0 ELSE Last(anchors).position
             IN  Append(anchors, Clamped(AnchorOf(doc, entry, previous), previous)),
           <<>>, entries)

\* The lines anchors were found on, which are furniture no longer.
AnchoredLines(anchors) == {anchors[k].line : k \in DOMAIN anchors} \ {None}

Span(entry, from, to, inferred) == [entry |-> entry, from |-> from, to |-> to, inferred |-> inferred]

Holds(span, i) == span.from <= At(i) /\ At(i) < span.to

\* derive_regions: what precedes the first anchor, and each anchor up to the next.
DeriveRegions(doc, marked, anchors, inferred) ==
  LET end   == At(Len(doc.lines) + 1)
      first == IF anchors = <<>> THEN end ELSE anchors[1].position
      titles == {i \in Indices(doc) : At(i) < first /\ ReadsAsTitle(doc, marked, i)}
      front == Entry(1, None, IF titles = {} THEN FrontMatter ELSE doc.lines[Min(titles)].title, 1)
  IN  IF doc.lines = <<>> THEN <<>>
      ELSE (IF At(1) < first THEN <<Span(front, At(1), first, FALSE)>> ELSE <<>>)
           \o [k \in DOMAIN anchors |->
                 Span(anchors[k].entry, anchors[k].position,
                      IF k < Len(anchors) THEN anchors[k + 1].position ELSE end, inferred)]
=============================================================================
