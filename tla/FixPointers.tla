------------------------------ MODULE FixPointers ------------------------------
(***************************************************************************)
(* triage/pointers.py: what a fix pointer resolves to in one view of the   *)
(* corpus, and what the ledger makes of one that resolves to nothing.  A   *)
(* pointer is [source, number, title]; a passage row is [source, number,   *)
(* title, id, words].  A title is [words, text]: text as typed or printed, *)
(* words what is left of it once case, numbering and punctuation go.  The  *)
(* ledger is a function from pointer keys to the passages last resolved.   *)
(***************************************************************************)
EXTENDS Lists

CONSTANTS
  None,            \* Python's None
  AuthoredSource   \* the store's own source id, authored/triage

\* Why a pointer, and an entry for one of its pointers, is turned away.
Reasons == {"authored-target", "unknown-source", "no-such-section", "ambiguous-title",
            "pointer-authored-target", "pointer-unresolved"}

ASSUME NoneAssumption == None \notin Reasons

\* What `fix:` holds names a section by number or by title, or is no pointer.
IsPointer(p) == p.number # None \/ p.title # None

NormaliseTitle(title) == title.words

SectionOf(row) == [source |-> row.source, number |-> row.number, title |-> row.title]

\* The sections of a view, in the order their first passages come.
Sections(rows) == Updated(<<>>, [i \in DOMAIN rows |-> SectionOf(rows[i])])

PassagesOf(rows, section) ==
  LET own == Among(rows, {row \in ToSet(rows) : SectionOf(row) = section})
  IN  [i \in DOMAIN own |-> own[i].id]

KnowsSource(rows, source) == \E i \in DOMAIN rows : rows[i].source = source

\* A number is a key of a map: of two sections that carry it, the later stands.
ByNumber(rows, source, number) ==
  LET sections == Sections(rows)
      found == Among(sections, {s \in ToSet(sections) : s.source = source /\ s.number = number})
  IN  IF found = <<>> THEN <<>> ELSE <<Last(found)>>

ByTitle(rows, source, words) ==
  LET sections == Sections(rows)
  IN  Among(sections, {s \in ToSet(sections) : s.source = source /\ NormaliseTitle(s.title) = words})

ByPrefix(rows, source, words) ==
  LET sections == Sections(rows)
  IN  Among(sections, {s \in ToSet(sections) :
                         s.source = source /\ IsPrefix(words, NormaliseTitle(s.title))})

Unresolved(reason) == [ids |-> <<>>, reason |-> reason]

TheOnly(found, rows) ==
  CASE Len(found) = 0 -> Unresolved("no-such-section")
    [] Len(found) = 1 -> [ids |-> PassagesOf(rows, found[1]), reason |-> None]
    [] OTHER -> Unresolved("ambiguous-title")

\* Exact first, then a unique prefix.
ResolveTitle(p, rows) ==
  LET exact == ByTitle(rows, p.source, NormaliseTitle(p.title))
  IN  TheOnly(IF exact # <<>> THEN exact
              ELSE ByPrefix(rows, p.source, NormaliseTitle(p.title)), rows)

\* The slip ValidateForetells watches for: the notes are looked up like a manual.
ResolveNotesToo(p, rows) ==
  IF ~KnowsSource(rows, p.source) THEN Unresolved("unknown-source")
  ELSE IF p.number # None THEN TheOnly(ByNumber(rows, p.source, p.number), rows)
  ELSE ResolveTitle(p, rows)

\* The number selects where there is one; a title beside it only corroborates.
Resolve(p, rows) ==
  IF p.source = AuthoredSource THEN Unresolved("authored-target")
  ELSE IF ~KnowsSource(rows, p.source) THEN Unresolved("unknown-source")
  ELSE IF p.number # None THEN TheOnly(ByNumber(rows, p.source, p.number), rows)
  ELSE ResolveTitle(p, rows)

TitleDisagrees(p, rows) ==
  /\ p.number # None /\ p.title # None
  /\ \E i \in DOMAIN ByNumber(rows, p.source, p.number) :
       NormaliseTitle(ByNumber(rows, p.source, p.number)[i].title) # NormaliseTitle(p.title)

\* The ledger's key is the pointer alone, and its number where it has one.
PointerKey(p) ==
  [source |-> p.source, number |-> p.number,
   title |-> IF p.number # None THEN <<>> ELSE NormaliseTitle(p.title)]

CheckPointer(p, rows, ledger) ==
  LET found == Resolve(p, rows)
  IN  [pointer |-> p, ids |-> found.ids, reason |-> found.reason,
       previously |-> /\ found.reason # "authored-target"
                      /\ PointerKey(p) \in DOMAIN ledger]

Ok(outcome)       == outcome.reason = None
Drifted(outcome)  == ~Ok(outcome) /\ outcome.previously
Rejected(outcome) == ~Ok(outcome) /\ ~outcome.previously

=============================================================================
