----------------------------- MODULE ScopeStore -----------------------------
(***************************************************************************)
(* Which sources a question is asked of: the store of                      *)
(* web/src/lib/state/scope.svelte.ts over page loads, browser restarts and *)
(* ingest runs.  The page keeps the scope in memory and, after every       *)
(* change, in localStorage; a marker in sessionStorage tells a reload from *)
(* a restart.  A narrowing that an earlier session left is released: every *)
(* source is in scope and the page offers to reinstate it.                 *)
(*                                                                         *)
(* One tab.  The clock is how long ago the last question was.              *)
(***************************************************************************)
EXTENDS FiniteSets

CONSTANTS
  Sources,     \* every source any ingest run may publish
  None         \* nothing stored, nothing released

ASSUME NoneAssumption == \A ids \in SUBSET Sources : ids # None

VARIABLES
  reported,    \* the sources GET /sources would report now
  page,        \* the ScopeStore of the page that is open
  stored,      \* the record in localStorage, or None
  session,     \* whether sessionStorage has the marker
  chosen,      \* history: what the last change of the scope put in it
  left         \* history: what it left out, and what has stayed out since

scopeVars == <<reported, page, stored, session, chosen, left>>

Ages == {"never", "recent", "old"}   \* lastQuestionAt, against eight hours

\* A store whose load() has not run: the list of sources is on its way.
NewPage == [loaded |-> FALSE, available |-> {}, selected |-> {}, seen |-> {},
            asked |-> "never", released |-> None]

ScopeInit ==
  /\ reported = Sources
  /\ page = NewPage /\ stored = None /\ session = FALSE
  /\ chosen = {} /\ left = {}

Persisted(p) == [selected |-> p.selected, seen |-> p.seen, known |-> p.available,
              asked |-> p.asked, released |-> p.released]

\* Every operation ends with #persist().
Persist(p) == page' = p /\ stored' = Persisted(p)

-----------------------------------------------------------------------------
(* load(), once the engine has reported at least one source.               *)

\* What the stored scope has of the reported sources.
Remaining == stored.selected \cap reported

\* Slip: a scope covered everything if it covered everything seen so far.
CoveredAllSeen == stored.seen \cap reported \subseteq Remaining

\* The stored scope had every source that was reported then and still is.
CoveredAll == stored.known \cap reported \subseteq Remaining

Restored == IF CoveredAll THEN reported ELSE Remaining

NewSession == ~session \/ stored.asked = "old"

\* A narrowing becomes a released one at the start of a session, and a released
\* one is offered until the scope is changed; an empty one is not.
Offered ==
  LET offer == IF NewSession /\ Restored # reported THEN Restored
               ELSE IF stored.released = None THEN {}
               ELSE stored.released \cap reported
  IN  IF offer = {} THEN None ELSE offer

LoadFirst ==
  /\ stored = None
  /\ Persist([page EXCEPT !.loaded = TRUE, !.available = reported, !.selected = reported])
  /\ chosen' = {} /\ left' = {}

\* The narrowing in force, released or not.
Narrowing(p) == IF p.released = None THEN p.selected ELSE p.released

\* Nothing the narrowing had, or nothing it left out, is reported any more.
Moot == chosen \cap reported = {} \/ left \cap stored.known \cap reported = {}

LoadStored ==
  /\ stored # None
  /\ Persist([loaded |-> TRUE, available |-> reported,
              selected |-> IF NewSession THEN reported ELSE Restored,
              seen |-> stored.seen, asked |-> stored.asked, released |-> Offered])
  /\ chosen' = IF Moot THEN {} ELSE chosen \cap reported
  /\ left' = IF Moot THEN {} ELSE left \cup (reported \ Narrowing(page'))

Load ==
  /\ ~page.loaded /\ reported # {}
  /\ LoadFirst \/ LoadStored
  /\ session' = TRUE
  /\ UNCHANGED reported

-----------------------------------------------------------------------------
(* The user, and the page for the user (AnswerView, ErrorView).            *)

\* A change of the scope withdraws what is offered.
Change(ids) ==
  /\ Persist([page EXCEPT !.selected = ids, !.released = None])
  /\ chosen' = ids /\ left' = page.available \ ids
  /\ UNCHANGED <<reported, session>>

Toggle(id) ==
  /\ id \in page.available
  /\ Change(IF id \in page.selected THEN page.selected \ {id} ELSE page.selected \cup {id})

\* Also before the sources are known: the picker is there from the start.
SelectAll == Change(page.available)

SelectNone == Change({})

Reinstate ==
  /\ page.released # None
  /\ Persist([page EXCEPT !.selected = page.released \cap page.available, !.released = None])
  /\ UNCHANGED <<reported, session, chosen, left>>

\* Behind submit()'s guard.
NoteQuestionSubmitted ==
  /\ page.selected # {}
  /\ Persist([page EXCEPT !.asked = "recent", !.seen = @ \cup page.available])
  /\ UNCHANGED <<reported, session, chosen, left>>

-----------------------------------------------------------------------------
(* Around the page.                                                        *)

Reload == page' = NewPage /\ UNCHANGED <<reported, stored, session, chosen, left>>

Restart == page' = NewPage /\ session' = FALSE /\ UNCHANGED <<reported, stored, chosen, left>>

EightHours ==
  LET aged(r) == [r EXCEPT !.asked = IF @ = "recent" THEN "old" ELSE @] IN
    /\ page' = aged(page)
    /\ stored' = IF stored = None THEN None ELSE aged(stored)
    /\ UNCHANGED <<reported, session, chosen, left>>

\* The browser's data is cleared, or cannot be parsed any more.
Lose == stored' = None /\ UNCHANGED <<reported, page, session, chosen, left>>

Ingest(sources) == reported' = sources /\ UNCHANGED <<page, stored, session, chosen, left>>

ScopeNext ==
  \/ Load \/ SelectAll \/ SelectNone \/ Reinstate \/ NoteQuestionSubmitted
  \/ \E id \in Sources : Toggle(id)
  \/ Reload \/ Restart \/ EightHours \/ Lose
  \/ \E sources \in SUBSET Sources : Ingest(sources)

ScopeSpec == ScopeInit /\ [][ScopeNext]_scopeVars

-----------------------------------------------------------------------------
\* A narrowing is neither widened nor forgotten without a word: what it left out
\* stays out, or every source is in scope and the page offers the narrowing
\* back, over reloads, restarts, ingest runs and hours, until the scope is
\* changed or what it had, or what it left out, has gone (requirements 2.4, 3.5,
\* 3.6 and 3.8; scope.svelte.ts load).
NarrowingIsKept ==
  page.loaded =>
    /\ chosen \subseteq Narrowing(page)
    /\ Narrowing(page) \cap left = {}
    /\ page.released # None => page.selected = page.available

=============================================================================
