---------------------------- MODULE Conversation ----------------------------
(***************************************************************************)
(* One conversation of the answer engine (answer/conversation.py): the     *)
(* bounded history, the carried scope, and the counter of consecutive      *)
(* narrowing questions.  A conversation is a record, each method that      *)
(* changes it an operator from the old record to the new one.  A question  *)
(* is identified with the turn that asks it; the answer text is left out.  *)
(***************************************************************************)
EXTENDS Naturals, Sequences

CONSTANTS
  Turns,            \* the questions that may be asked
  NoTurn,           \* "no question": Python's None
  Sources,          \* source ids
  HistoryTurns      \* HISTORY_TURNS, 6 in the code

ASSUME NoTurnAssumption == NoTurn \notin Turns
ASSUME HistoryAssumption == HistoryTurns \in Nat \ {0}

\* The content outcomes as far as a conversation tells them apart: a
\* narrowing question, or any of the six that count as an answer.
ContentOutcomes == {"needs-narrowing", "answered"}

Exchange == [question : Turns, outcome : ContentOutcomes]

ConversationState ==
  [turns : Seq(Exchange),
   scope : SUBSET Sources,
   narrowing_count : Nat,
   symptom_question : Turns \cup {NoTurn},
   awaiting_narrowing : BOOLEAN]

\* A conversation the store has just created.
NewConversation ==
  [turns |-> << >>, scope |-> {}, narrowing_count |-> 0,
   symptom_question |-> NoTurn, awaiting_narrowing |-> FALSE]

\* The carried set is replaced wholesale.
SetScope(k, source_ids) == [k EXCEPT !.scope = source_ids]

\* What a prune against `view` reports, and what it leaves.
DroppedScope(k, view) == k.scope \ view
PruneScope(k, view) == [k EXCEPT !.scope = @ \cap view]

\* The suffix of s that is retained: its last n elements.
LastOf(s, n) == IF Len(s) <= n THEN s ELSE SubSeq(s, Len(s) - n + 1, Len(s))

\* Slip: only the flag is reset by an answer.
CountNarrowingKeepsCount(k, question, outcome) ==
  IF outcome = "needs-narrowing"
    THEN [k EXCEPT !.symptom_question =
                      IF k.narrowing_count = 0 THEN question ELSE @,
                   !.narrowing_count = @ + 1,
                   !.awaiting_narrowing = TRUE]
    ELSE [k EXCEPT !.awaiting_narrowing = FALSE]

\* The narrowing part of record_turn: the first narrowing question of a run
\* is remembered as the symptom, and anything else ends the run.
CountNarrowing(k, question, outcome) ==
  IF outcome = "needs-narrowing"
    THEN [k EXCEPT !.symptom_question =
                      IF k.narrowing_count = 0 THEN question ELSE @,
                   !.narrowing_count = @ + 1,
                   !.awaiting_narrowing = TRUE]
    ELSE [k EXCEPT !.symptom_question = NoTurn,
                   !.narrowing_count = 0,
                   !.awaiting_narrowing = FALSE]

\* Slip: the oldest exchanges are never dropped.
RecordTurnUnbounded(k, question, outcome) ==
  [CountNarrowing(k, question, outcome) EXCEPT
     !.turns = Append(@, [question |-> question, outcome |-> outcome])]

\* record_turn for a content outcome: the code returns early on any other,
\* and the pipeline calls it with content outcomes alone.
RecordTurn(k, question, outcome) ==
  [CountNarrowing(k, question, outcome) EXCEPT
     !.turns = LastOf(Append(@, [question |-> question, outcome |-> outcome]),
                      HistoryTurns)]

\* The question retrieval is prefixed with, if any.
RetrievalPrefix(k) ==
  IF k.awaiting_narrowing /\ k.symptom_question # NoTurn
    THEN k.symptom_question
    ELSE NoTurn
=============================================================================
