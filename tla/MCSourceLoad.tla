---------------------------- MODULE MCSourceLoad ----------------------------
(* Instances of SourceLoad for TLC: manuals of a few lines, by what those lines
   may be. *)
EXTENDS SourceLoad

Prose ==
  [text |-> "prose", size |-> 1, short |-> FALSE, stop |-> TRUE, reads |-> {}, title |-> None,
   number |-> None, key |-> None, height |-> 0, words |-> 3, cells |-> {1}, numeric |-> FALSE,
   step |-> 0, wraps |-> FALSE, leads |-> None, level |-> 1, numeral |-> 0, glyph |-> "fine",
   verdict |-> Unscored, continues |-> FALSE]

Title(t, n) == [Prose EXCEPT !.text = t, !.size = 2, !.short = TRUE, !.stop = FALSE, !.reads = {t},
                             !.title = t, !.number = n, !.words = 1]
StepLine(n) == [Prose EXCEPT !.text = "step", !.step = n]

Kind ==
  [prose |-> Prose,
   long |-> [Prose EXCEPT !.text = "long", !.words = 5, !.stop = FALSE],
   more |-> [Prose EXCEPT !.continues = TRUE],
   t1 |-> Title("t1", "1"), t2 |-> Title("t2", None),
   t1band |-> [Title("t1", "1") EXCEPT !.key = "t1"],
   reads |-> [Prose EXCEPT !.reads = {"t1"}],
   num |-> [Prose EXCEPT !.text = "num", !.key = PageNumeral, !.words = 1, !.stop = FALSE],
   high |-> [Prose EXCEPT !.text = "num", !.key = PageNumeral, !.height = 1, !.words = 1],
   cols |-> [Prose EXCEPT !.text = "cols", !.words = 2, !.cells = {1, 2, 3}],
   row |-> [Prose EXCEPT !.text = "row", !.words = 2, !.cells = {1, 2, 3}, !.numeric = TRUE],
   pair |-> [Prose EXCEPT !.text = "pair", !.words = 2, !.cells = {1, 3}, !.numeric = TRUE],
   numrow |-> [Prose EXCEPT !.text = "row", !.words = 3, !.cells = {1, 2, 3}, !.numeric = TRUE,
                            !.key = PageNumeral],
   item1 |-> [StepLine(1) EXCEPT !.cells = {1, 2, 3}], item2 |-> [StepLine(2) EXCEPT !.cells = {1, 2, 3}],
   s1 |-> StepLine(1), s2 |-> StepLine(2), s3 |-> StepLine(3),
   wrap |-> [Prose EXCEPT !.text = "wrap", !.wraps = TRUE, !.continues = TRUE],
   en |-> [Prose EXCEPT !.verdict = "english"], fr |-> [Prose EXCEPT !.verdict = "foreign"],
   lost |-> [Prose EXCEPT !.glyph = "lost"],
   leader1 |-> [Prose EXCEPT !.text = "leader", !.reads = {"t1"}, !.title = "t1", !.number = "1", !.leads = 2],
   leader2 |-> [Prose EXCEPT !.text = "leader", !.reads = {"t2"}, !.title = "t2", !.number = "1.1", !.level = 2,
                             !.leads = 2],
   numeral |-> [Prose EXCEPT !.reads = {"t1"}, !.numeral = 2]]

Break == "break"

\* The document a sequence of kinds and page breaks spells.
MCExtracted(kinds, toc, lang) ==
  LET at == SetToSortSeq({k \in DOMAIN kinds : kinds[k] # Break}, <)
      page(k) == 1 + Cardinality({j \in 1..k : kinds[j] = Break})
      Opens(n) == n = 1 \/ page(at[n]) # page(at[n - 1]) \/ ~Kind[kinds[at[n]]].continues
      block(n) == Cardinality({m \in 1..n : Opens(m)})
      place(n) == Cardinality({m \in 1..n : page(at[m]) = page(at[n])})
      lines == [n \in DOMAIN at |-> [page |-> page(at[n]), block |-> block(n), place |-> place(n)]
                                    @@ Kind[kinds[at[n]]]]
  IN  [pages |-> page(Len(kinds)), toc |-> toc, lang |-> lang, lines |-> lines,
       verdicts |-> [b \in {block(n) : n \in DOMAIN at} |->
                       Kind[kinds[at[Min({n \in DOMAIN at : block(n) = b})]]].verdict]]

To(title, number, page) == Entry(1, number, title, page)

NoToc == <<>>
InOrder == <<To("t1", "1", 1), To("t2", "2", 2)>>
BackToFront == <<To("t2", None, 2), To("t1", None, 1)>>
PastTheEnd == <<To("t1", "1", 1), To("t2", None, 9)>>

Sort(opening, lines, length, outlines, lang) ==
  [opening |-> opening, lines |-> lines, length |-> length, outlines |-> outlines, lang |-> lang]

\* Sections, furniture and the three paths; tables; procedures; numbered rows; languages;
\* contents pages; unreadable text.
MCManuals ==
  {Sort(<<>>, {"t1", "t2", "prose", "num", "t1band", Break}, 5, {NoToc}, "en"),
   Sort(<<>>, {"t1", "t2", "prose", "num", "t1band", Break}, 4, {InOrder, BackToFront, PastTheEnd}, "en"),
   Sort(<<>>, {"cols", "row", "pair", "numrow", "long", Break}, 5, {NoToc}, "en"),
   Sort(<<>>, {"s1", "s2", "wrap", "num", Break}, 5, {NoToc}, "en"),
   Sort(<<>>, {"s1", "s2", "wrap", "long", Break}, 4, {NoToc}, "en"),
   Sort(<<>>, {"item1", "item2", "s2", Break}, 3, {NoToc}, "en"),
   Sort(<<>>, {"en", "fr", "prose", "t1", Break}, 5, {NoToc}, "multi"),
   Sort(<<"leader1", "leader2", Break>>, {"t1", "t2", "prose", "reads", "numeral", Break}, 3, {NoToc}, "en"),
   Sort(<<>>, {"lost", "prose", "long", "more"}, 4, {NoToc}, "en")}

\* Manuals with a numeral stamped on each page.
MCScans == {Sort(<<>>, {"num", "high", "prose", Break}, 3, {NoToc}, "en")}
=============================================================================
