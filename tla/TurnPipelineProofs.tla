------------------------- MODULE TurnPipelineProofs -------------------------
(***************************************************************************)
(* Theorems about the turn pipeline, for any number of turns,              *)
(* conversations, sources, deltas and publications.                        *)
(*                                                                         *)
(*   TypeCorrect        every variable keeps its type, and no conversation *)
(*                      remembers more than HistoryTurns exchanges         *)
(*   NewestSurvives     of the unfinished questions of a conversation only *)
(*                      the newest has not been told to stop               *)
(*   Alternation        while the chain of waits is intact, one turn of a  *)
(*                      conversation is served at a time                   *)
(*   Contract           every stream keeps the order of TurnStream         *)
(*   AnswersRemembered  a history holds answered turns only, each once     *)
(*   ScopeIsSound       a turn retrieves from the sources it was asked of  *)
(*   RetrievalMatches   and with what its conversation still says          *)
(*   NarrowingMatches   the narrowing counter counts the run of narrowing  *)
(*                      questions that ends the history                    *)
(*                                                                         *)
(* Typing carries the first three; the contract adds StreamOrder (what is  *)
(* pending may follow what was sent, and ends where the generator          *)
(* resumes), the history adds Remembered to both, retrieval adds Held to   *)
(* the chain of waits, and the counter AllCounted to Typing.               *)
(***************************************************************************)
EXTENDS TurnPipeline, ListsProofs

USE NoTurnAssumption, HistoryAssumption, RequestsAssumption, ViewsAssumption,
    ConversationsAssumption, BoundsAssumption

-----------------------------------------------------------------------------
(* The conversation's operators.                                           *)

\* Truncating a history keeps it a sequence of the same elements, no longer
\* than the bound (conversation.py, `del self._turns[:-HISTORY_TURNS]`).
LEMMA LastOfBounds ==
  ASSUME NEW S, NEW s \in Seq(S), NEW n \in Nat
  PROVE  LastOf(s, n) \in Seq(S) /\ Len(LastOf(s, n)) <= n
<1>1. Len(s) \in Nat
  OBVIOUS
<1>2. CASE Len(s) <= n
  BY <1>2 DEF LastOf
<1>3. CASE Len(s) > n
  <2>1. /\ Len(s) - n + 1 \in 1..(Len(s) + 1)
        /\ Len(s) \in (Len(s) - n + 1) - 1 .. Len(s)
    BY <1>1, <1>3
  <2>2. \A i \in (Len(s) - n + 1)..Len(s) : s[i] \in S
    BY <1>1, <1>3, ElementOfSeq
  <2>3. /\ SubSeq(s, Len(s) - n + 1, Len(s)) \in Seq(S)
        /\ Len(SubSeq(s, Len(s) - n + 1, Len(s))) = n
    BY <1>1, <1>3, <2>1, <2>2, SubSeqProperties
  <2> QED BY <1>1, <1>3, <2>3 DEF LastOf
<1> QED BY <1>1, <1>2, <1>3

\* Recording an exchange yields a conversation again, within the bound.
LEMMA RecordTurnType ==
  ASSUME NEW k \in ConversationState, NEW q \in Turns, NEW o \in ContentOutcomes
  PROVE  /\ RecordTurn(k, q, o) \in ConversationState
         /\ Len(RecordTurn(k, q, o).turns) <= HistoryTurns
<1>1. CountNarrowing(k, q, o) \in ConversationState
  <2>1. /\ k.narrowing_count \in Nat
        /\ k.narrowing_count + 1 \in Nat
        /\ k.symptom_question \in Turns \cup {NoTurn}
    BY DEF ConversationState
  <2>2. CASE o = "needs-narrowing"
    <3>1. ASSUME NEW s \in Turns \cup {NoTurn}, NEW n \in Nat
          PROVE  [k EXCEPT !.symptom_question = s, !.narrowing_count = n,
                           !.awaiting_narrowing = TRUE] \in ConversationState
      BY DEF ConversationState
    <3> QED BY <2>1, <2>2, <3>1 DEF CountNarrowing
  <2>3. CASE o # "needs-narrowing"
    <3>1. [k EXCEPT !.symptom_question = NoTurn, !.narrowing_count = 0,
                    !.awaiting_narrowing = FALSE] \in ConversationState
      BY DEF ConversationState
    <3> QED BY <2>3, <3>1 DEF CountNarrowing
  <2> QED BY <2>2, <2>3
<1> DEFINE kk == CountNarrowing(k, q, o)
           e == [question |-> q, outcome |-> o]
<1>2. e \in Exchange
  BY DEF Exchange
<1>3. Append(kk.turns, e) \in Seq(Exchange)
  BY <1>1, <1>2 DEF ConversationState
<1>4. /\ LastOf(Append(kk.turns, e), HistoryTurns) \in Seq(Exchange)
      /\ Len(LastOf(Append(kk.turns, e), HistoryTurns)) <= HistoryTurns
  BY <1>3, LastOfBounds
<1> HIDE DEF kk, e
<1>5. RecordTurn(k, q, o) =
        [kk EXCEPT !.turns = LastOf(Append(@, e), HistoryTurns)]
  BY DEF RecordTurn, kk, e
<1>6. kk \in ConversationState
  BY <1>1 DEF kk
<1> QED BY <1>4, <1>5, <1>6 DEF ConversationState

\* The scope operators change the scope alone, to a set of sources.
LEMMA ScopeType ==
  ASSUME NEW k \in ConversationState, NEW s \in SUBSET Sources
  PROVE  /\ SetScope(k, s) \in ConversationState
         /\ SetScope(k, s).turns = k.turns
         /\ PruneScope(k, s) \in ConversationState
         /\ PruneScope(k, s).turns = k.turns
BY DEF SetScope, PruneScope, ConversationState

-----------------------------------------------------------------------------
(* Type correctness.                                                       *)

\* TypeOK is inductive once the home of an asked turn is a conversation.
Typing == TypeOK /\ HandlesMatch

\* What Open leaves in the conversation is a conversation.
LEMMA PrunedType ==
  ASSUME Typing, NEW t \in Turns, pc[t] # "idle",
         NEW v \in {NoView} \cup SUBSET Sources
  PROVE  /\ Pruned(t, v) \in ConversationState
         /\ Len(Pruned(t, v).turns) <= HistoryTurns
<1>1. home[t] \in Conversations
  BY DEF Typing, HandlesMatch
<1>2. /\ conversation[home[t]] \in ConversationState
      /\ Len(conversation[home[t]].turns) <= HistoryTurns
      /\ request[t] \in {NoSources} \cup SUBSET Sources
  BY <1>1 DEF Typing, TypeOK
<1>3. /\ Scoped(t, v) \in ConversationState
      /\ Len(Scoped(t, v).turns) <= HistoryTurns
  <2>1. CASE request[t] # NoSources
    BY <1>2, <2>1, ScopeType DEF Scoped
  <2>2. CASE request[t] = NoSources
    BY <1>2, <2>2 DEF Scoped
  <2> QED BY <2>1, <2>2
<1> QED BY <1>3, ScopeType DEF Pruned

\* A turn that reaches a yield hands over events.
ReadingTypes ==
  /\ pc' \in [Turns -> {"idle", "created"} \cup Waits \cup Over]
  /\ pending' \in [Turns -> Seq(Events)]
  /\ resume' \in [Turns -> Resumes]
  /\ last' \in [Turns -> Events \cup {"none"}]

LEMMA YieldType ==
  ASSUME TypeOK, NEW t \in Turns, NEW es \in Seq(Events), NEW r \in Resumes,
         Yield(t, es, r)
  PROVE  ReadingTypes
BY DEF TypeOK, Yield, ReadingTypes, Waits

\* Past the gates or refused, its retrieval is masked to a set of sources.
LEMMA GateType ==
  ASSUME TypeOK, NEW t \in Turns, NEW v, NEW k \in ConversationState,
         NEW configured, Gate(t, v, k, configured)
  PROVE  /\ ReadingTypes
         /\ scope' \in [Turns -> SUBSET Sources]
         /\ prefix' \in [Turns -> Turns \cup {NoTurn}]
<1>1. CASE Refused(t, v, k, configured)
  <2>1. <<"gated", "done">> \in Seq(Events) /\ "return" \in Resumes
    BY DEF Events, Resumes
  <2>2. Yield(t, <<"gated", "done">>, "return") /\ UNCHANGED <<scope, prefix>>
    BY <1>1 DEF Gate
  <2>3. ReadingTypes
    BY <2>1, <2>2, YieldType
  <2> QED BY <2>2, <2>3 DEF TypeOK
<1>2. CASE ~Refused(t, v, k, configured)
  <2>1. k.scope \in SUBSET Sources /\ RetrievalPrefix(k) \in Turns \cup {NoTurn}
    BY DEF ConversationState, RetrievalPrefix
  <2>2. /\ pc' = [pc EXCEPT ![t] = "gather"]
        /\ scope' = [scope EXCEPT ![t] = k.scope]
        /\ prefix' = [prefix EXCEPT ![t] = RetrievalPrefix(k)]
        /\ UNCHANGED reading
    BY <1>2 DEF Gate
  <2> QED BY <2>1, <2>2 DEF TypeOK, ReadingTypes, reading, Waits
<1> QED BY <1>1, <1>2

\* What the drain hands over, in the loop or after it, is a sequence of events.
LEMMA DrainedType ==
  ASSUME NEW t \in Turns
  PROVE  Drained(t) \subseteq Seq(Events) /\ Remainder(t) \subseteq Seq(Events)
<1>1. /\ << >> \in Seq(Events)
      /\ <<"body_delta">> \in Seq(Events)
      /\ <<"direct_answer">> \in Seq(Events)
      /\ <<"direct_answer", "body_delta">> \in Seq(Events)
      /\ <<"content">> \in Seq(Events)
      /\ <<"content", "direct_answer">> \in Seq(Events)
      /\ <<"content", "body_delta">> \in Seq(Events)
      /\ <<"content", "direct_answer", "body_delta">> \in Seq(Events)
  BY DEF Events
<1>2. Drained(t) \subseteq Seq(Events)
  <2>1. CASE AnswerSent(t)
    BY <1>1, <2>1, Zenon DEF Drained
  <2>2. CASE OutcomeSent(t) /\ ~AnswerSent(t)
    BY <1>1, <2>2, Zenon DEF Drained
  <2>3. CASE ~OutcomeSent(t) /\ ~AnswerSent(t)
    BY <1>1, <2>3, Zenon DEF Drained
  <2> QED BY <2>1, <2>2, <2>3
<1>3. Remainder(t) \subseteq Seq(Events)
  BY <1>1, <1>2 DEF Remainder
<1> QED BY <1>2, <1>3

\* The initial state is well typed.
LEMMA TypingInit == Init => Typing
<1> SUFFICES ASSUME Init PROVE Typing
  OBVIOUS
<1>1. NewConversation \in ConversationState /\ Len(NewConversation.turns) <= HistoryTurns
  BY DEF NewConversation, ConversationState
<1>2. TypeOK
  BY <1>1 DEF Init, TypeOK, Waits, Over, Resumes
<1>3. HandlesMatch
  BY DEF Init, HandlesMatch
<1> QED BY <1>2, <1>3 DEF Typing

\* Every step keeps the types and the handles' flags in line with pc.
LEMMA TypingStep == Typing /\ [Next]_vars => Typing'
<1> SUFFICES ASSUME Typing, [Next]_vars PROVE Typing'
  OBVIOUS
<1>1. ASSUME NEW t \in Turns, NEW c \in Conversations, NEW r \in Requests, Submit(t, c, r) PROVE Typing'
  <2>1. TypeOK'
    BY <1>1 DEF Typing, TypeOK, HandlesMatch, Submit, handles, asked, reading, local, corpus, Waits, Signals
  <2>2. HandlesMatch'
    BY <1>1 DEF Typing, TypeOK, HandlesMatch, Submit, handles, asked, reading, local, corpus, Waits, Over
  <2> QED BY <2>1, <2>2 DEF Typing
<1>2. ASSUME NEW t \in Turns, Wait(t) PROVE Typing'
  <2>1. TypeOK'
    BY <1>2 DEF Typing, TypeOK, HandlesMatch, Wait, handles, asked, reading, local, corpus, Waits
  <2>2. HandlesMatch'
    BY <1>2 DEF Typing, TypeOK, HandlesMatch, Wait, handles, asked, reading, local, corpus, Waits, Over
  <2> QED BY <2>1, <2>2 DEF Typing
<1>3. ASSUME NEW t \in Turns, Open(t) PROVE Typing'
  <2>1. TypeOK'
    <3>1. PICK v \in {live, published} :
            /\ live' = v
            /\ view' = [view EXCEPT ![t] = v]
            /\ conversation' = [conversation EXCEPT ![home[t]] = Pruned(t, v)]
            /\ IF Dropped(t, v) # {}
                 THEN /\ Yield(t, <<"scope_dropped">>, "gate")
                      /\ UNCHANGED <<scope, prefix>>
                 ELSE \E configured \in BOOLEAN :
                        Gate(t, v, Pruned(t, v), configured)
      BY <1>3 DEF Open
    <3>2. v \in {NoView} \cup SUBSET Sources
      BY DEF Typing, TypeOK
    <3>3. pc[t] # "idle" /\ home[t] \in Conversations
      BY <1>3 DEF Open, Typing, HandlesMatch
    <3>4. /\ Pruned(t, v) \in ConversationState
          /\ Len(Pruned(t, v).turns) <= HistoryTurns
      BY <3>2, <3>3, PrunedType
    <3>5. /\ ReadingTypes
          /\ scope' \in [Turns -> SUBSET Sources]
          /\ prefix' \in [Turns -> Turns \cup {NoTurn}]
      <4>1. CASE Dropped(t, v) # {}
        <5>1. <<"scope_dropped">> \in Seq(Events) /\ "gate" \in Resumes
          BY DEF Events, Resumes
        <5> QED BY <3>1, <4>1, <5>1, YieldType, ZenonT(40) DEF Typing, TypeOK
      <4>2. CASE Dropped(t, v) = {}
        BY <3>1, <3>4, <4>2, GateType DEF Typing
      <4> QED BY <4>1, <4>2
    <3>6. /\ conversation' \in [Conversations -> ConversationState]
          /\ \A c \in Conversations : Len(conversation'[c].turns) <= HistoryTurns
      BY <3>1, <3>3, <3>4 DEF Typing, TypeOK
    <3>7. /\ live' \in {NoView} \cup SUBSET Sources
          /\ view' \in [Turns -> {NoView} \cup SUBSET Sources]
      BY <3>1, <3>2 DEF Typing, TypeOK
    <3>8. /\ started' \in [Turns -> BOOLEAN]
          /\ UNCHANGED <<supersede, finished, inflight, asked, woken, deltas,
                         published, publications, intact>>
      BY <1>3 DEF Open, Typing, TypeOK
    <3> QED BY <3>5, <3>6, <3>7, <3>8 DEF Typing, TypeOK, ReadingTypes, asked
  <2>2. HandlesMatch'
    BY <1>3 DEF Typing, TypeOK, HandlesMatch, Open, handles, asked, reading, local, corpus, Waits, Over, Yield, Gate
  <2> QED BY <2>1, <2>2 DEF Typing
<1>4. ASSUME NEW t \in Turns, PassGate(t) PROVE Typing'
  <2>1. TypeOK'
    <3>1. PICK configured \in BOOLEAN :
            Gate(t, view[t], conversation[home[t]], configured)
      BY <1>4 DEF PassGate
    <3>2. conversation[home[t]] \in ConversationState
      BY <1>4 DEF PassGate, Typing, TypeOK, HandlesMatch
    <3>3. /\ ReadingTypes
          /\ scope' \in [Turns -> SUBSET Sources]
          /\ prefix' \in [Turns -> Turns \cup {NoTurn}]
      BY <3>1, <3>2, GateType DEF Typing
    <3> QED
      BY <1>4, <3>3 DEF PassGate, Typing, TypeOK, ReadingTypes, handles, asked, corpus
  <2>2. HandlesMatch'
    BY <1>4 DEF Typing, TypeOK, HandlesMatch, PassGate, handles, asked, reading, local, corpus, Waits, Over, Yield, Gate
  <2> QED BY <2>1, <2>2 DEF Typing
<1>5. ASSUME NEW t \in Turns, Gathered(t) PROVE Typing'
  <2>1. TypeOK'
    <3>1. ReadingTypes
      <4>1. CASE supersede[t]
        <5>1. <<"cancelled", "done">> \in Seq(Events) /\ "return" \in Resumes
          BY DEF Events, Resumes
        <5>2. Yield(t, <<"cancelled", "done">>, "return")
          BY <1>5, <4>1, Zenon DEF Gathered
        <5> QED BY <5>1, <5>2, YieldType DEF Typing
      <4>2. CASE ~supersede[t]
        <5>1. pc' = [pc EXCEPT ![t] = "stream"] /\ UNCHANGED reading
          BY <1>5, <4>2, Zenon DEF Gathered
        <5> QED BY <5>1 DEF ReadingTypes, reading, Typing, TypeOK, Waits
      <4> QED BY <4>1, <4>2
    <3> QED
      BY <1>5, <3>1 DEF Gathered, Typing, TypeOK, ReadingTypes, handles, asked, local, corpus
  <2>2. HandlesMatch'
    <3>1. pc[t] = "gather" /\ \E p \in {"yield", "stream"} : pc' = [pc EXCEPT ![t] = p]
      BY <1>5, Zenon DEF Gathered, Yield
    <3> QED
      BY <1>5, <3>1 DEF Gathered, Typing, TypeOK, HandlesMatch, handles, asked
  <2> QED BY <2>1, <2>2 DEF Typing
<1>6. ASSUME NEW t \in Turns, Delta(t) PROVE Typing'
  <2>1. TypeOK'
    <3>1. PICK es \in Drained(t) :
            IF es = << >> THEN UNCHANGED <<pc, reading>> ELSE Yield(t, es, "stream")
      BY <1>6 DEF Delta
    <3>2. es \in Seq(Events) /\ "stream" \in Resumes
      BY DrainedType DEF Resumes
    <3>3. ReadingTypes
      BY <3>1, <3>2, YieldType DEF ReadingTypes, reading, Typing, TypeOK
    <3>4. deltas' \in [Turns -> 0..MaxDeltas]
      BY <1>6 DEF Delta, Typing, TypeOK
    <3> QED
      BY <1>6, <3>3, <3>4 DEF Delta, Typing, TypeOK, ReadingTypes, handles, asked, corpus
  <2>2. HandlesMatch'
    BY <1>6 DEF Typing, TypeOK, HandlesMatch, Delta, handles, asked, reading, local, corpus, Waits, Over, Yield
  <2> QED BY <2>1, <2>2 DEF Typing
<1>7. ASSUME NEW t \in Turns, ProviderDone(t) PROVE Typing'
  <2>1. TypeOK'
    <3>1. PICK es \in Remainder(t) : Yield(t, es \o <<"tail", "timings">>, "record")
      BY <1>7 DEF ProviderDone
    <3>2. es \in Seq(Events)
      BY DrainedType
    <3>3. <<"tail", "timings">> \in Seq(Events) /\ "record" \in Resumes
      BY DEF Events, Resumes
    <3>4. es \o <<"tail", "timings">> \in Seq(Events)
      BY <3>2, <3>3, ConcatProperties
    <3>5. ReadingTypes
      BY <3>1, <3>3, <3>4, YieldType DEF Typing
    <3> QED
      BY <1>7, <3>5 DEF ProviderDone, Typing, TypeOK, ReadingTypes, handles, asked, local, corpus
  <2>2. HandlesMatch'
    BY <1>7 DEF Typing, TypeOK, HandlesMatch, ProviderDone, handles, asked, reading, local, corpus, Waits, Over, Yield
  <2> QED BY <2>1, <2>2 DEF Typing
<1>8. ASSUME NEW t \in Turns, ProviderFails(t) PROVE Typing'
  <2>1. TypeOK'
    BY <1>8 DEF Typing, TypeOK, HandlesMatch, ProviderFails, handles, asked, reading, local, corpus, Yield, Waits, Over, Events, Resumes
  <2>2. HandlesMatch'
    BY <1>8 DEF Typing, TypeOK, HandlesMatch, ProviderFails, handles, asked, reading, local, corpus, Waits, Over, Yield
  <2> QED BY <2>1, <2>2 DEF Typing
<1>9. ASSUME NEW t \in Turns, Watchdog(t) PROVE Typing'
  <2>1. TypeOK'
    BY <1>9 DEF Typing, TypeOK, HandlesMatch, Watchdog, handles, asked, reading, local, corpus, Yield, Waits, Over, Events, Resumes
  <2>2. HandlesMatch'
    BY <1>9 DEF Typing, TypeOK, HandlesMatch, Watchdog, handles, asked, reading, local, corpus, Waits, Over, Yield
  <2> QED BY <2>1, <2>2 DEF Typing
<1>10. ASSUME NEW t \in Turns, Wake(t) PROVE Typing'
  <2>1. TypeOK'
    BY <1>10 DEF Typing, TypeOK, HandlesMatch, Wake, handles, asked, reading, local, corpus
  <2>2. HandlesMatch'
    BY <1>10 DEF Typing, TypeOK, HandlesMatch, Wake, handles, asked, reading, local, corpus, Waits, Over
  <2> QED BY <2>1, <2>2 DEF Typing
<1>11. ASSUME NEW t \in Turns, Cancel(t) PROVE Typing'
  <2>1. TypeOK'
    BY <1>11 DEF Typing, TypeOK, HandlesMatch, Cancel, handles, asked, reading, local, corpus, Yield, Waits, Over, Events, Resumes
  <2>2. HandlesMatch'
    BY <1>11 DEF Typing, TypeOK, HandlesMatch, Cancel, handles, asked, reading, local, corpus, Waits, Over, Yield
  <2> QED BY <2>1, <2>2 DEF Typing
<1>12. ASSUME NEW t \in Turns, Deliver(t) PROVE Typing'
  <2>1. TypeOK'
    BY <1>12 DEF Typing, TypeOK, HandlesMatch, Deliver, handles, asked, reading, local, corpus
  <2>2. HandlesMatch'
    BY <1>12 DEF Typing, TypeOK, HandlesMatch, Deliver, handles, asked, reading, local, corpus, Waits, Over
  <2> QED BY <2>1, <2>2 DEF Typing
<1>13. ASSUME NEW t \in Turns, BackToStream(t) PROVE Typing'
  <2>1. TypeOK'
    BY <1>13 DEF Typing, TypeOK, HandlesMatch, BackToStream, handles, asked, reading, local, corpus, Waits
  <2>2. HandlesMatch'
    BY <1>13 DEF Typing, TypeOK, HandlesMatch, BackToStream, handles, asked, reading, local, corpus, Waits, Over
  <2> QED BY <2>1, <2>2 DEF Typing
<1>14. ASSUME NEW t \in Turns, Record(t) PROVE Typing'
  <2>1. TypeOK'
    BY <1>14, RecordTurnType DEF Typing, TypeOK, HandlesMatch, Record, handles, asked, reading, local, corpus, Yield, Waits, Over, Events, Resumes
  <2>2. HandlesMatch'
    BY <1>14 DEF Typing, TypeOK, HandlesMatch, Record, handles, asked, reading, local, corpus, Waits, Over, Yield
  <2> QED BY <2>1, <2>2 DEF Typing
<1>15. ASSUME NEW t \in Turns, Return(t) PROVE Typing'
  <2>1. TypeOK'
    BY <1>15 DEF Typing, TypeOK, HandlesMatch, Return, handles, asked, reading, local, corpus, Leave, Waits, Over, Resumes
  <2>2. HandlesMatch'
    BY <1>15 DEF Typing, TypeOK, HandlesMatch, Return, handles, asked, reading, local, corpus, Waits, Over, Leave
  <2> QED BY <2>1, <2>2 DEF Typing
<1>16. ASSUME NEW t \in Turns, Disconnect(t) PROVE Typing'
  <2>1. TypeOK'
    <3>1. CASE pc[t] = "created" /\ pc' = [pc EXCEPT ![t] = "abandoned"]
               /\ UNCHANGED <<handles, asked, reading, local, corpus, conversation, intact>>
      BY <3>1 DEF Typing, TypeOK, handles, asked, reading, local, corpus, Over
    <3>2. CASE pc[t] \in Waits /\ Leave(t, "cut")
               /\ intact' = [intact EXCEPT ![home[t]] = @ /\ pc[t] # "waiting"]
               /\ UNCHANGED <<corpus, conversation>>
      <4>1. intact' \in [Conversations -> BOOLEAN]
        BY <3>2, Zenon DEF Typing, TypeOK
      <4> QED
        BY <3>2, <4>1 DEF Typing, TypeOK, Leave, corpus, Waits, Over, Resumes
    <3> QED BY <1>16, <3>1, <3>2, Zenon DEF Disconnect
  <2>2. HandlesMatch'
    BY <1>16 DEF Typing, TypeOK, HandlesMatch, Disconnect, handles, asked, reading, local, corpus, Waits, Over, Leave
  <2> QED BY <2>1, <2>2 DEF Typing
<1>17. ASSUME NEW t \in Turns, Raise(t) PROVE Typing'
  <2>1. TypeOK'
    BY <1>17 DEF Typing, TypeOK, HandlesMatch, Raise, handles, asked, reading, local, corpus, Leave, Waits, Over, Resumes
  <2>2. HandlesMatch'
    BY <1>17 DEF Typing, TypeOK, HandlesMatch, Raise, handles, asked, reading, local, corpus, Waits, Over, Leave
  <2> QED BY <2>1, <2>2 DEF Typing
<1>18. ASSUME NEW v \in Views, Publish(v) PROVE Typing'
  <2>1. TypeOK'
    BY <1>18 DEF Typing, TypeOK, HandlesMatch, Publish, handles, asked, reading, local, corpus
  <2>2. HandlesMatch'
    BY <1>18 DEF Typing, TypeOK, HandlesMatch, Publish, handles, asked, reading, local, corpus, Waits, Over
  <2> QED BY <2>1, <2>2 DEF Typing
<1>19. CASE UNCHANGED vars
  <2>1. TypeOK'
    BY <1>19 DEF Typing, TypeOK, vars, handles, asked, reading, local, corpus
  <2>2. HandlesMatch'
    BY <1>19 DEF Typing, HandlesMatch, vars, handles, asked, reading, local, corpus
  <2> QED BY <2>1, <2>2 DEF Typing
<1> QED
  BY <1>1, <1>2, <1>3, <1>4, <1>5, <1>6, <1>7, <1>8, <1>9, <1>10, <1>11, <1>12, <1>13, <1>14, <1>15, <1>16, <1>17, <1>18, <1>19 DEF Next, Engine, AllOver

\* Every reachable state is well typed, and a conversation remembers at most
\* HistoryTurns exchanges.
THEOREM TypeCorrect == Spec => []TypeOK
<1>1. Spec => []Typing
  BY TypingInit, TypingStep, PTL DEF Spec
<1>2. Typing => TypeOK
  BY DEF Typing
<1> QED BY <1>1, <1>2, PTL

-----------------------------------------------------------------------------
(* The steps, as the coordination of turns sees them.                      *)

\* The handles, what was asked and the chain stay as they are.
Quiet ==
  /\ UNCHANGED <<handles, asked, intact>>
  /\ \A u \in Turns : pc'[u] = "idle" <=> pc[u] = "idle"

\* A turn opens: it has nobody to wait for.
Opens(t) ==
  /\ pc[t] \in {"created", "waiting"} /\ ~MustWait(t)
  /\ started' = [started EXCEPT ![t] = TRUE]
  /\ \A u \in Turns : pc'[u] = "idle" <=> pc[u] = "idle"
  /\ UNCHANGED <<supersede, finished, inflight, asked, intact>>

\* A turn that was read ends; only a waiting one breaks the chain.
Ends(t) ==
  /\ pc[t] \in Waits
  /\ \E how \in {"complete", "cut"} : Leave(t, how)
  /\ intact' = [intact EXCEPT ![home[t]] = @ /\ pc[t] # "waiting"]

\* Every step asks, opens, ends a turn or leaves the coordination alone.
LEMMA StepKinds ==
  ASSUME Typing, [Next]_vars
  PROVE  \/ \E t \in Turns, c \in Conversations, r \in Requests : Submit(t, c, r)
         \/ \E t \in Turns : Opens(t) \/ Ends(t)
         \/ Quiet
<1> DEFINE Goal == \/ \E t \in Turns, c \in Conversations, r \in Requests :
                        Submit(t, c, r)
                   \/ \E t \in Turns : Opens(t) \/ Ends(t)
                   \/ Quiet
<1>1. ASSUME NEW t \in Turns, NEW p \in {"waiting", "gather", "stream", "yield", "abandoned"},
             pc[t] # "idle",
             pc' = [pc EXCEPT ![t] = p] \/ pc' = pc
      PROVE  \A u \in Turns : pc'[u] = "idle" <=> pc[u] = "idle"
  BY <1>1 DEF Typing, TypeOK
<1>2. ASSUME NEW t \in Turns, Wait(t) PROVE Quiet
  BY <1>1, <1>2 DEF Wait, Quiet
<1>3. ASSUME NEW t \in Turns, Open(t) PROVE Opens(t)
  <2>1. \E p \in {"gather", "yield"} : pc' = [pc EXCEPT ![t] = p]
    BY <1>3 DEF Open, Yield, Gate
  <2>2. pc[t] \in {"created", "waiting"}
    BY <1>3 DEF Open
  <2>3. \A u \in Turns : pc'[u] = "idle" <=> pc[u] = "idle"
    BY <1>1, <2>1, <2>2
  <2> QED BY <1>3, <2>2, <2>3 DEF Open, Opens
<1>4. ASSUME NEW t \in Turns, PassGate(t) PROVE Quiet
  <2>1. pc[t] # "idle" /\ \E p \in {"gather", "yield"} : pc' = [pc EXCEPT ![t] = p]
    BY <1>4 DEF PassGate, Yield, Gate
  <2> QED BY <1>1, <1>4, <2>1 DEF PassGate, Quiet
<1>5. ASSUME NEW t \in Turns, Gathered(t) PROVE Quiet
  <2>1. pc[t] # "idle" /\ \E p \in {"stream", "yield"} : pc' = [pc EXCEPT ![t] = p]
    BY <1>5, Zenon DEF Gathered, Yield
  <2> QED BY <1>1, <1>5, <2>1 DEF Gathered, Quiet
<1>6. ASSUME NEW t \in Turns, Delta(t) PROVE Quiet
  <2>1. pc[t] # "idle" /\ (pc' = [pc EXCEPT ![t] = "yield"] \/ pc' = pc)
    BY <1>6 DEF Delta, Yield
  <2> QED BY <1>1, <1>6, <2>1 DEF Delta, Quiet
<1>7. ASSUME NEW t \in Turns,
             \/ ProviderDone(t) \/ ProviderFails(t) \/ Watchdog(t) \/ Cancel(t)
      PROVE  Quiet
  <2>1. pc[t] # "idle" /\ pc' = [pc EXCEPT ![t] = "yield"]
    BY <1>7 DEF ProviderDone, ProviderFails, Watchdog, Cancel, Yield
  <2>2. UNCHANGED <<handles, asked, intact>>
    BY <1>7 DEF ProviderDone, ProviderFails, Watchdog, Cancel
  <2> QED BY <1>1, <2>1, <2>2 DEF Quiet
<1>8. ASSUME NEW t \in Turns, Wake(t) \/ Deliver(t) PROVE Quiet
  BY <1>8 DEF Wake, Deliver, Quiet
<1>9. ASSUME NEW t \in Turns, BackToStream(t) \/ Record(t) PROVE Quiet
  <2>1. pc[t] # "idle" /\ \E p \in {"stream", "yield"} : pc' = [pc EXCEPT ![t] = p]
    BY <1>9 DEF BackToStream, Record, Yield
  <2>2. UNCHANGED <<handles, asked, intact>>
    BY <1>9 DEF BackToStream, Record
  <2> QED BY <1>1, <2>1, <2>2 DEF Quiet
<1>10. ASSUME NEW t \in Turns, Return(t) \/ Raise(t) PROVE Ends(t)
  <2>1. pc[t] \in {"gather", "stream", "yield"}
    BY <1>10 DEF Return, Raise
  <2>2. \E how \in {"complete", "cut"} : Leave(t, how)
    BY <1>10 DEF Return, Raise
  <2>3. intact' = intact /\ intact \in [Conversations -> BOOLEAN]
    BY <1>10 DEF Return, Raise, Typing, TypeOK
  <2>4. intact = [intact EXCEPT ![home[t]] = @ /\ TRUE]
    BY <2>3, Zenon
  <2>5. intact' = [intact EXCEPT ![home[t]] = @ /\ pc[t] # "waiting"]
    BY <2>1, <2>3, <2>4
  <2> QED BY <2>1, <2>2, <2>5 DEF Ends, Waits
<1>11. ASSUME NEW t \in Turns, Disconnect(t) PROVE Ends(t) \/ Quiet
  <2>1. CASE /\ pc[t] = "created" /\ pc' = [pc EXCEPT ![t] = "abandoned"]
             /\ UNCHANGED <<handles, asked, reading, local, corpus, conversation, intact>>
    BY <1>1, <2>1 DEF Quiet
  <2>2. CASE /\ pc[t] \in Waits /\ Leave(t, "cut")
             /\ intact' = [intact EXCEPT ![home[t]] = @ /\ pc[t] # "waiting"]
    BY <2>2 DEF Ends
  <2> QED BY <1>11, <2>1, <2>2, Zenon DEF Disconnect
<1>12. ASSUME NEW v \in Views, Publish(v) PROVE Quiet
  BY <1>12 DEF Publish, Quiet
<1>13. CASE UNCHANGED vars
  BY <1>13 DEF vars, Quiet
<1> QED
  BY <1>2, <1>3, <1>4, <1>5, <1>6, <1>7, <1>8, <1>9, <1>10, <1>11, <1>12, <1>13
     DEF Next, Engine, AllOver

-----------------------------------------------------------------------------
(* Superseding.                                                            *)

\* A question that is not the newest any more was told to stop when it was
\* replaced: the signal and the new entry are one step of turn().
LEMMA NewestStep ==
  Typing /\ NewestQuestionSurvives /\ [Next]_vars => NewestQuestionSurvives'
<1> SUFFICES ASSUME Typing, NewestQuestionSurvives, [Next]_vars,
                    NEW u \in Turns, Unfinished(u)', ~supersede'[u]
             PROVE  inflight'[home'[u]] = u
  BY DEF NewestQuestionSurvives
<1>1. ASSUME NEW t \in Turns, NEW c \in Conversations, NEW r \in Requests,
             Submit(t, c, r)
      PROVE  inflight'[home'[u]] = u
  <2>1. CASE u = t
    BY <1>1, <2>1 DEF Submit, Typing, TypeOK
  <2>2. CASE u # t
    <3>1. Unfinished(u) /\ home'[u] = home[u] /\ home[u] \in Conversations
      BY <1>1, <2>2 DEF Submit, Unfinished, Typing, TypeOK, HandlesMatch
    <3>2. ~supersede[u]
      BY <1>1 DEF Submit, Typing, TypeOK
    <3>3. inflight[home[u]] = u
      BY <3>1, <3>2 DEF NewestQuestionSurvives
    <3>4. CASE home[u] = c
      <4>1. Signals(u)
        BY <3>1 DEF Signals, Unfinished
      <4>2. supersede'[u] = TRUE
        BY <1>1, <3>3, <3>4, <4>1 DEF Submit, Typing, TypeOK
      <4> QED BY <4>2
    <3>5. CASE home[u] # c
      BY <1>1, <3>1, <3>3, <3>5 DEF Submit, Typing, TypeOK
    <3> QED BY <3>4, <3>5
  <2> QED BY <2>1, <2>2
<1>2. ASSUME NEW t \in Turns, Opens(t) PROVE inflight'[home'[u]] = u
  BY <1>2 DEF Opens, asked, Unfinished, NewestQuestionSurvives
<1>3. ASSUME NEW t \in Turns, Ends(t) PROVE inflight'[home'[u]] = u
  <2>1. u # t /\ Unfinished(u) /\ ~supersede[u] /\ home' = home
    BY <1>3 DEF Ends, Leave, Unfinished, Typing, TypeOK
  <2>2. inflight[home[u]] = u /\ home[u] \in Conversations
    BY <2>1 DEF NewestQuestionSurvives, Typing, HandlesMatch, Unfinished
  <2> QED BY <1>3, <2>1, <2>2 DEF Ends, Leave, Typing, TypeOK
<1>4. CASE Quiet
  BY <1>4 DEF Quiet, handles, asked, Unfinished, NewestQuestionSurvives
<1> QED BY <1>1, <1>2, <1>3, <1>4, StepKinds

\* Of all the questions of a conversation that are not over, only the newest
\* has not been told to stop (turn.py, turn()).
THEOREM NewestSurvives == Spec => []NewestQuestionSurvives
<1>1. Init => NewestQuestionSurvives
  BY DEF Init, NewestQuestionSurvives, Unfinished
<1> QED BY <1>1, TypingInit, TypingStep, NewestStep, PTL DEF Spec

-----------------------------------------------------------------------------
(* Alternation.  ChainOfWaits says of each unfinished turn that it is the  *)
(* newest, or is started and the one the newest is bound to wait for; that *)
(* the newest is a turn of the same conversation is InflightIsOwn.         *)

Chain == Typing /\ InflightIsOwn /\ ChainOfWaits

\* The entry in `_inflight` is put by turn() and taken away by its own turn.
LEMMA InflightStep == Typing /\ InflightIsOwn /\ [Next]_vars => InflightIsOwn'
<1> SUFFICES ASSUME Typing, InflightIsOwn, [Next]_vars,
                    NEW c \in Conversations, inflight'[c] # NoTurn
             PROVE  home'[inflight'[c]] = c /\ Unfinished(inflight[c])'
  BY DEF InflightIsOwn
<1> DEFINE n == inflight[c]
<1>0. n # NoTurn => n \in Turns /\ home[n] = c /\ Unfinished(n)
  BY DEF InflightIsOwn, Typing, TypeOK
<1>1. ASSUME NEW t \in Turns, NEW d \in Conversations, NEW r \in Requests,
             Submit(t, d, r)
      PROVE  home'[inflight'[c]] = c /\ Unfinished(inflight[c])'
  <2>1. CASE c = d
    <3>1. inflight'[c] = t /\ home'[t] = c /\ pc'[t] = "created"
      BY <1>1, <2>1 DEF Submit, Typing, TypeOK
    <3>2. ~finished'[t]
      BY <1>1 DEF Submit, Typing, HandlesMatch
    <3> QED BY <3>1, <3>2 DEF Unfinished
  <2>2. CASE c # d
    <3>1. inflight'[c] = n
      BY <1>1, <2>2 DEF Submit, Typing, TypeOK
    <3>2. n \in Turns /\ n # t
      BY <1>0, <1>1, <3>1 DEF Submit, Unfinished
    <3> QED BY <1>0, <1>1, <3>1, <3>2 DEF Submit, Unfinished, Typing, TypeOK
  <2> QED BY <2>1, <2>2
<1>2. ASSUME NEW t \in Turns, Opens(t)
      PROVE  home'[inflight'[c]] = c /\ Unfinished(inflight[c])'
  BY <1>0, <1>2 DEF Opens, asked, Unfinished
<1>3. ASSUME NEW t \in Turns, Ends(t)
      PROVE  home'[inflight'[c]] = c /\ Unfinished(inflight[c])'
  <2>1. inflight'[c] = n /\ n # t
    BY <1>0, <1>3 DEF Ends, Leave, Typing, TypeOK, HandlesMatch, Waits
  <2>2. finished'[n] = finished[n] /\ pc'[n] = pc[n] /\ home' = home
    BY <1>0, <1>3, <2>1 DEF Ends, Leave, Typing, TypeOK
  <2> QED BY <1>0, <2>1, <2>2 DEF Unfinished
<1>4. CASE Quiet
  BY <1>0, <1>4 DEF Quiet, handles, asked, Unfinished
<1> QED BY <1>1, <1>2, <1>3, <1>4, StepKinds

\* What ChainOfWaits says of one turn.
InChain(u) ==
  LET n == inflight[home[u]] IN
    Unfinished(u) /\ intact[home[u]] /\ n # u =>
      started[u] /\ n # NoTurn /\ ~started[n] /\ previous[n] = u

\* A question joins the chain behind the turn it found; a turn opens when it
\* has nobody to wait for; and it leaves only from the front, or breaks it.
LEMMA ChainStep == Chain /\ [Next]_vars => ChainOfWaits'
<1> SUFFICES ASSUME Chain, [Next]_vars, NEW u \in Turns PROVE InChain(u)'
  BY DEF ChainOfWaits, InChain
<1> DEFINE n == inflight[home[u]]
<1>0. SUFFICES ASSUME Unfinished(u)', intact'[home'[u]], inflight'[home'[u]] # u
               PROVE  /\ started'[u]
                      /\ inflight'[home'[u]] # NoTurn
                      /\ ~started'[inflight'[home'[u]]]
                      /\ previous'[inflight'[home'[u]]] = u
  BY DEF InChain
<1> USE DEF Chain
<1>5. ASSUME Unfinished(u), intact[home[u]], n # u
      PROVE  /\ started[u] /\ n # NoTurn /\ ~started[n] /\ previous[n] = u
             /\ n \in Turns /\ home[n] = home[u] /\ Unfinished(n)
             /\ home[u] \in Conversations
  <2>1. started[u] /\ n # NoTurn /\ ~started[n] /\ previous[n] = u
    BY <1>5 DEF ChainOfWaits
  <2>2. home[u] \in Conversations
    BY <1>5 DEF Unfinished, Typing, HandlesMatch
  <2> QED BY <2>1, <2>2 DEF InflightIsOwn, Typing, TypeOK
<1>1. ASSUME NEW t \in Turns, NEW c \in Conversations, NEW r \in Requests,
             Submit(t, c, r)
      PROVE  InChain(u)'
  <2>1. u # t /\ Unfinished(u) /\ home'[u] = home[u] /\ home[u] \in Conversations
    BY <1>0, <1>1 DEF Submit, Unfinished, Typing, TypeOK, HandlesMatch
  <2>2. CASE home[u] = c
    <3>1. /\ inflight'[home'[u]] = t /\ previous'[t] = n
          /\ ~started[t] /\ started' = started /\ t # NoTurn
      BY <1>1, <2>1, <2>2 DEF Submit, Typing, TypeOK, HandlesMatch
    <3>2. intact[home[u]] /\ (n # NoTurn => started[n])
      BY <1>0, <1>1, <2>1, <2>2 DEF Submit, Typing, TypeOK
    <3>3. n = u
      BY <1>5, <2>1, <3>2
    <3> QED BY <3>1, <3>2, <3>3 DEF InChain
  <2>3. CASE home[u] # c
    <3>1. inflight'[home'[u]] = n /\ intact'[home'[u]] = intact[home[u]]
      BY <1>1, <2>1, <2>3 DEF Submit, Typing, TypeOK
    <3>2. n # u /\ intact[home[u]]
      BY <1>0, <3>1
    <3>3. /\ started[u] /\ n # NoTurn /\ ~started[n] /\ previous[n] = u
          /\ n \in Turns /\ Unfinished(n)
      BY <1>5, <2>1, <3>2
    <3>4. n # t /\ previous'[n] = previous[n] /\ started' = started
      BY <1>1, <3>3 DEF Submit, Unfinished, Typing, TypeOK
    <3> QED BY <3>1, <3>3, <3>4 DEF InChain
  <2> QED BY <2>2, <2>3
<1>2. ASSUME NEW t \in Turns, Opens(t) PROVE InChain(u)'
  <2>1. Unfinished(u) /\ intact[home[u]] /\ n # u /\ UNCHANGED <<inflight, home, previous>>
    BY <1>0, <1>2 DEF Opens, asked, Unfinished
  <2>2. /\ started[u] /\ n # NoTurn /\ ~started[n] /\ previous[n] = u
        /\ n \in Turns
    BY <1>5, <2>1
  <2>3. t # n
    BY <1>2, <2>1, <2>2 DEF Opens, MustWait, Unfinished
  <2>4. started'[u] /\ started'[n] = started[n]
    BY <1>2, <2>2, <2>3, ZenonT(40) DEF Opens, Typing, TypeOK
  <2> QED BY <2>1, <2>2, <2>4 DEF InChain
<1>3. ASSUME NEW t \in Turns, Ends(t) PROVE InChain(u)'
  <2>1. u # t /\ Unfinished(u) /\ home' = home /\ started' = started
    BY <1>0, <1>3 DEF Ends, Leave, Unfinished, Typing, TypeOK
  <2>2. home[u] \in Conversations /\ home[t] \in Conversations
    BY <1>3, <2>1 DEF Ends, Waits, Unfinished, Typing, HandlesMatch
  <2>3. intact[home[u]] /\ (home[u] = home[t] => pc[t] # "waiting")
    BY <1>0, <1>3, <2>1, <2>2, ZenonT(40) DEF Ends, Typing, TypeOK
  <2>4. n # u
    BY <1>0, <1>3, <2>1, <2>2 DEF Ends, Leave, Typing, TypeOK
  <2>5. /\ started[u] /\ n # NoTurn /\ ~started[n] /\ previous[n] = u
        /\ n \in Turns /\ home[n] = home[u]
    BY <1>5, <2>1, <2>3, <2>4
  <2>6. n # t
    BY <1>3, <2>3, <2>5 DEF Ends, Waits, Typing, HandlesMatch
  <2>7. inflight'[home[u]] = n /\ previous'[n] = previous[n]
    BY <1>3, <2>2, <2>5, <2>6 DEF Ends, Leave, Typing, TypeOK
  <2> QED BY <2>1, <2>5, <2>7 DEF InChain
<1>4. CASE Quiet
  <2>1. Unfinished(u) /\ UNCHANGED <<handles, asked, intact>>
    BY <1>0, <1>4 DEF Quiet, handles, Unfinished
  <2> QED BY <1>0, <1>5, <2>1 DEF handles, asked, InChain
<1> QED BY <1>0, <1>1, <1>2, <1>3, <1>4, StepKinds DEF InChain

\* At the start nobody holds a place.
LEMMA ChainInit == Init => Chain
BY TypingInit DEF Chain, Init, InflightIsOwn, ChainOfWaits, Unfinished

\* Of two running turns one is not the newest, so the newest waits for it; but
\* the newest is the other one, and runs.
LEMMA ChainAlternates == Chain => TurnsAlternate
<1> SUFFICES ASSUME Chain, NEW t \in Turns, NEW u \in Turns,
                    t # u, home[t] = home[u], Running(t), Running(u),
                    intact[home[t]]
             PROVE  FALSE
  BY DEF TurnsAlternate
<1>1. Unfinished(t) /\ Unfinished(u)
  BY DEF Running, Unfinished, Chain, Typing, TypeOK, HandlesMatch
<1>2. CASE inflight[home[t]] # t
  <2>1. ~started[inflight[home[t]]] /\ previous[inflight[home[t]]] = t
    BY <1>1, <1>2 DEF Chain, ChainOfWaits
  <2>2. inflight[home[u]] # u
    BY <2>1 DEF Running
  <2>3. previous[inflight[home[u]]] = u
    BY <1>1, <2>2 DEF Chain, ChainOfWaits
  <2> QED BY <2>1, <2>3
<1>3. CASE inflight[home[t]] = t
  <2>1. ~started[t]
    BY <1>1, <1>3 DEF Chain, ChainOfWaits
  <2> QED BY <2>1 DEF Running
<1> QED BY <1>2, <1>3

\* Two turns of a conversation are never served at once while every question
\* found the one before it already reading (turn.py, _run).
THEOREM Alternation == Spec => []TurnsAlternate
<1>1. Chain /\ [Next]_vars => Chain'
  BY TypingStep, InflightStep, ChainStep DEF Chain
<1> QED BY <1>1, ChainInit, ChainAlternates, PTL DEF Spec

-----------------------------------------------------------------------------
(* The event contract.                                                     *)

\* What may follow event e.
Follow(e) == Streams!Following[e]

\* The last event of what is handed over before the generator resumes at r.
Landing(r) ==
  CASE r = "gate"   -> {"scope_dropped"}
    [] r = "stream" -> {"content", "direct_answer", "body_delta"}
    [] r = "record" -> {"timings"}
    [] r = "return" -> {"done"}
    [] OTHER        -> {}

\* Events es may be handed to a reader whose latest event is e, before the
\* generator resumes at r: each may follow the one before it.
Fits(e, es, r) ==
  IF es = << >>
    THEN e \in Landing(r)
    ELSE /\ es[1] \in Follow(e)
         /\ \A i \in 1..(Len(es) - 1) : es[i + 1] \in Follow(es[i])
         /\ es[Len(es)] \in Landing(r)

\* No outcome has been sent yet.
Opening == {"none", "scope_dropped"}

\* Where turn t is in its stream, by where its generator is.
InOrder(t) ==
  /\ pc[t] \in {"idle", "created", "waiting"} => last[t] = "none"
  /\ pc[t] = "gather" => last[t] \in Opening
  /\ pc[t] = "stream" => /\ last[t] \in Opening \cup Landing("stream")
                         /\ ~Streamed(t) => last[t] \in Opening
  /\ pc[t] = "yield" => /\ Fits(last[t], pending[t], resume[t])
                        /\ resume[t] = "stream" => Streamed(t)
  /\ pc[t] = "complete" => last[t] = "done"

StreamOrder == \A t \in Turns : InOrder(t)

\* The contract's successors, event by event (TurnStream, Following).
LEMMA Successors ==
  /\ Follow("none") = Streams!Outcomes \cup {"scope_dropped"}
  /\ Follow("scope_dropped") = Streams!Outcomes
  /\ Follow("content") = {"direct_answer", "body_delta", "tail", "cancelled", "incomplete"}
  /\ Follow("direct_answer") = {"body_delta", "tail", "cancelled", "incomplete"}
  /\ Follow("body_delta") = {"body_delta", "tail", "cancelled", "incomplete"}
  /\ Follow("tail") = {"timings"}
  /\ \A e \in {"timeout", "provider-fault", "incomplete"} : Follow(e) = {"timings"}
  /\ \A e \in {"timings", "gated", "cancelled"} : Follow(e) = {"done"}
  /\ Follow("done") = {}
BY DEF Follow, Streams!Following, Streams!Events, Streams!Outcomes

\* Short sequences fit if their elements do.
LEMMA FitsShort ==
  ASSUME NEW e, NEW r, NEW a, NEW b, NEW c
  PROVE  /\ a \in Follow(e) /\ a \in Landing(r) => Fits(e, <<a>>, r)
         /\ a \in Follow(e) /\ b \in Follow(a) /\ b \in Landing(r) => Fits(e, <<a, b>>, r)
         /\ a \in Follow(e) /\ b \in Follow(a) /\ c \in Follow(b) /\ c \in Landing(r)
              => Fits(e, <<a, b, c>>, r)
<1>1. a \in Follow(e) /\ a \in Landing(r) => Fits(e, <<a>>, r)
  BY DEF Fits
<1>2. a \in Follow(e) /\ b \in Follow(a) /\ b \in Landing(r) => Fits(e, <<a, b>>, r)
  BY DEF Fits
<1>3. a \in Follow(e) /\ b \in Follow(a) /\ c \in Follow(b) /\ c \in Landing(r)
        => Fits(e, <<a, b, c>>, r)
  <2>1. \A i \in 1..2 : i = 1 \/ i = 2
    OBVIOUS
  <2> QED BY <2>1 DEF Fits
<1> QED BY <1>1, <1>2, <1>3

\* The reader takes the first of them.
LEMMA FitsTail ==
  ASSUME NEW S, NEW e, NEW r, NEW es \in Seq(S), es # << >>, Fits(e, es, r)
  PROVE  Head(es) \in Follow(e) /\ Fits(Head(es), Tail(es), r)
<1>1. /\ Head(es) = es[1] /\ Tail(es) \in Seq(S) /\ Len(Tail(es)) = Len(es) - 1
      /\ Len(es) \in Nat \ {0}
      /\ \A i \in 1..(Len(es) - 1) : Tail(es)[i] = es[i + 1]
  BY HeadTailProperties, EmptySeq
<1>2. CASE Len(es) = 1
  <2>1. Tail(es) = << >>
    <3>1. Tail(es) \in Seq(S) /\ Len(Tail(es)) = 0
      BY <1>1, <1>2
    <3> QED BY <3>1, EmptySeq
  <2>2. es[1] \in Follow(e) /\ es[Len(es)] \in Landing(r)
    BY Zenon DEF Fits
  <2>3. Fits(es[1], << >>, r)
    BY <1>2, <2>2 DEF Fits
  <2> QED BY <1>1, <2>1, <2>2, <2>3
<1>3. CASE Len(es) > 1
  <2>1. Tail(es) # << >> /\ Tail(es)[1] = es[1 + 1]
    <3>1. Len(Tail(es)) # 0 /\ 1 \in 1..(Len(es) - 1)
      BY <1>1, <1>3
    <3>2. Tail(es) # << >>
      BY <3>1, EmptySeq
    <3> QED BY <1>1, <3>1, <3>2
  <2>2. /\ es[1] \in Follow(e)
        /\ \A i \in 1..(Len(es) - 1) : es[i + 1] \in Follow(es[i])
        /\ es[Len(es)] \in Landing(r)
    BY Zenon DEF Fits
  <2>3. \A i \in 1..(Len(Tail(es)) - 1) : Tail(es)[i + 1] \in Follow(Tail(es)[i])
    <3> SUFFICES ASSUME NEW i \in 1..(Len(Tail(es)) - 1)
                 PROVE  Tail(es)[i + 1] \in Follow(Tail(es)[i])
      OBVIOUS
    <3>1. Tail(es)[i] = es[i + 1] /\ Tail(es)[i + 1] = es[(i + 1) + 1]
      BY <1>1
    <3> QED BY <1>1, <2>2, <3>1
  <2>4. Tail(es)[Len(Tail(es))] = es[Len(es)]
    BY <1>1, <1>3
  <2>5. es[1 + 1] \in Follow(es[1])
    BY <1>1, <1>3, <2>2
  <2>6. Fits(es[1], Tail(es), r)
    BY <2>1, <2>2, <2>3, <2>4, <2>5 DEF Fits
  <2> QED BY <1>1, <2>2, <2>6
<1>4. Len(es) = 1 \/ Len(es) > 1
  BY <1>1
<1> QED BY <1>2, <1>3, <1>4

\* A sequence that fits up to a body may be followed by the tail and timings.
LEMMA FitsTailTimings ==
  ASSUME NEW S, NEW e, NEW es \in Seq(S),
         Fits(e, es, "stream")
  PROVE  Fits(e, es \o <<"tail", "timings">>, "record")
<1> DEFINE all == es \o <<"tail", "timings">>
<1>1. /\ Len(all) = Len(es) + 2 /\ Len(es) \in Nat /\ all # << >>
      /\ \A i \in 1..Len(es) : all[i] = es[i]
      /\ all[Len(es) + 1] = "tail" /\ all[Len(es) + 2] = "timings"
  OBVIOUS
<1>2. /\ \A d \in Landing("stream") : "tail" \in Follow(d)
      /\ "timings" \in Follow("tail") /\ "timings" \in Landing("record")
  BY Successors DEF Landing
<1> HIDE DEF all
<1>3. CASE es = << >>
  <2>1. e \in Landing("stream") /\ Len(es) = 0
    BY <1>3 DEF Fits
  <2>2. all[1] \in Follow(e) /\ \A i \in 1..1 : all[i + 1] \in Follow(all[i])
    BY <1>1, <1>2, <2>1
  <2> QED BY <1>1, <1>2, <2>1, <2>2 DEF Fits, all
<1>4. CASE es # << >>
  <2>1. /\ all[1] \in Follow(e)
        /\ \A i \in 1..(Len(es) - 1) : all[i + 1] \in Follow(all[i])
        /\ all[Len(es)] \in Landing("stream")
    BY <1>1, <1>4 DEF Fits
  <2>2. \A i \in 1..(Len(all) - 1) : all[i + 1] \in Follow(all[i])
    BY <1>1, <1>2, <1>4, <2>1
  <2> QED BY <1>1, <1>2, <2>1, <2>2 DEF Fits, all
<1> QED BY <1>3, <1>4

\* What the drain hands over follows what was sent and ends in the loop; what
\* remains at the end may be followed by the tail.
LEMMA DrainedFits ==
  ASSUME NEW t \in Turns, last[t] \in Opening \cup Landing("stream")
  PROVE  /\ \A es \in Drained(t) : es # << >> => Fits(last[t], es, "stream")
         /\ \A es \in Remainder(t) : Fits(last[t], es, "stream")
<1>1. last[t] \in Opening => "content" \in Follow(last[t])
  BY Successors DEF Opening, Streams!Outcomes
<1>2. /\ {"direct_answer", "body_delta"} \subseteq Follow("content")
      /\ "body_delta" \in Follow("direct_answer") /\ "body_delta" \in Follow("body_delta")
      /\ Landing("stream") = {"content", "direct_answer", "body_delta"}
  BY Successors DEF Landing
<1>3. \A es \in Drained(t) : es # << >> => Fits(last[t], es, "stream")
  <2>1. CASE AnswerSent(t)
    <3>1. Drained(t) = {<< >>, <<"body_delta">>}
      BY <2>1, Zenon DEF Drained
    <3>2. "body_delta" \in Follow(last[t]) /\ "body_delta" \in Landing("stream")
      BY <1>2, <2>1 DEF AnswerSent
    <3>3. Fits(last[t], <<"body_delta">>, "stream")
      BY <3>2, FitsShort
    <3> QED BY <3>1, <3>3
  <2>2. CASE OutcomeSent(t) /\ ~AnswerSent(t)
    <3>1. Drained(t) = {<< >>, <<"direct_answer">>, <<"direct_answer", "body_delta">>}
      BY <2>2, Zenon DEF Drained
    <3>2. last[t] = "content"
      BY <2>2 DEF OutcomeSent, AnswerSent
    <3>3. /\ Fits(last[t], <<"direct_answer">>, "stream")
          /\ Fits(last[t], <<"direct_answer", "body_delta">>, "stream")
      BY <1>2, <3>2, FitsShort
    <3> QED BY <3>1, <3>3
  <2>3. CASE ~OutcomeSent(t) /\ ~AnswerSent(t)
    <3>1. Drained(t) = {<< >>, <<"content">>, <<"content", "direct_answer">>,
                        <<"content", "direct_answer", "body_delta">>}
      BY <2>3, Zenon DEF Drained
    <3>2. last[t] \in Opening
      BY <1>2, <2>3 DEF OutcomeSent
    <3>3. /\ Fits(last[t], <<"content">>, "stream")
          /\ Fits(last[t], <<"content", "direct_answer">>, "stream")
          /\ Fits(last[t], <<"content", "direct_answer", "body_delta">>, "stream")
      BY <1>1, <1>2, <3>2, FitsShort
    <3> QED BY <3>1, <3>3
  <2> QED BY <2>1, <2>2, <2>3
<1>4. \A es \in Remainder(t) : Fits(last[t], es, "stream")
  <2>1. CASE OutcomeSent(t)
    <3>1. Remainder(t) = Drained(t)
      BY <2>1 DEF Remainder
    <3>2. Fits(last[t], << >>, "stream")
      BY <1>2, <2>1 DEF OutcomeSent, Fits
    <3> QED BY <1>3, <3>1, <3>2
  <2>2. CASE ~OutcomeSent(t)
    <3>1. Remainder(t) = {<<"content">>, <<"content", "direct_answer">>,
                          <<"content", "body_delta">>,
                          <<"content", "direct_answer", "body_delta">>}
      BY <2>2 DEF Remainder
    <3>2. last[t] \in Opening
      BY <1>2, <2>2 DEF OutcomeSent
    <3>3. /\ Fits(last[t], <<"content">>, "stream")
          /\ Fits(last[t], <<"content", "direct_answer">>, "stream")
          /\ Fits(last[t], <<"content", "body_delta">>, "stream")
          /\ Fits(last[t], <<"content", "direct_answer", "body_delta">>, "stream")
      BY <1>1, <1>2, <3>2, FitsShort
    <3> QED BY <3>1, <3>3
  <2> QED BY <2>1, <2>2
<1> QED BY <1>3, <1>4

\* A turn that reaches a yield with events that fit keeps every stream in
\* order.
LEMMA YieldOrder ==
  ASSUME Typing, StreamOrder, NEW t \in Turns, NEW es, NEW r,
         Yield(t, es, r), Fits(last[t], es, r),
         \A u \in Turns \ {t} : deltas'[u] = deltas[u],
         r = "stream" => deltas'[t] > 0
  PROVE  StreamOrder'
<1>1. ASSUME NEW u \in Turns, u # t PROVE InOrder(u)'
  <2>1. /\ pc'[u] = pc[u] /\ pending'[u] = pending[u] /\ resume'[u] = resume[u]
        /\ last'[u] = last[u] /\ deltas'[u] = deltas[u]
    BY <1>1 DEF Yield, Typing, TypeOK
  <2>2. InOrder(u)
    BY DEF StreamOrder
  <2> QED BY <2>1, <2>2 DEF InOrder, Streamed
<1>2. InOrder(t)'
  <2>1. pc'[t] = "yield" /\ pending'[t] = es /\ resume'[t] = r /\ last'[t] = last[t]
    BY DEF Yield, Typing, TypeOK
  <2> QED BY <2>1 DEF InOrder, Streamed
<1> QED BY <1>1, <1>2 DEF StreamOrder

\* A turn that passes the gates has sent no outcome; one that does not is told.
LEMMA GateOrder ==
  ASSUME Typing, StreamOrder, NEW t \in Turns, NEW v, NEW k, NEW configured,
         Gate(t, v, k, configured), deltas' = deltas, last[t] \in Opening
  PROVE  StreamOrder'
<1>1. CASE Refused(t, v, k, configured)
  <2>1. Yield(t, <<"gated", "done">>, "return")
    BY <1>1 DEF Gate
  <2>2. Fits(last[t], <<"gated", "done">>, "return")
    BY Successors, FitsShort DEF Opening, Streams!Outcomes, Landing
  <2> QED BY <2>1, <2>2, YieldOrder
<1>2. CASE ~Refused(t, v, k, configured)
  <2>1. pc' = [pc EXCEPT ![t] = "gather"] /\ UNCHANGED <<pending, resume, last>>
    BY <1>2 DEF Gate, reading
  <2> QED BY <2>1 DEF StreamOrder, InOrder, Streamed, Typing, TypeOK
<1> QED BY <1>1, <1>2

\* At the start nobody has been sent anything.
LEMMA OrderInit == Init => StreamOrder
BY DEF Init, StreamOrder, InOrder

\* Every step keeps every stream in order.
LEMMA OrderStep == Typing /\ StreamOrder /\ [Next]_vars => StreamOrder'
<1> SUFFICES ASSUME Typing, StreamOrder, [Next]_vars PROVE StreamOrder'
  OBVIOUS
<1>0. ASSUME NEW u \in Turns, pc'[u] = pc[u], pending'[u] = pending[u],
             resume'[u] = resume[u], last'[u] = last[u], deltas'[u] = deltas[u]
      PROVE  InOrder(u)'
  <2>1. InOrder(u)
    BY DEF StreamOrder
  <2> QED BY <1>0, <2>1 DEF InOrder, Streamed
<1>1. ASSUME NEW t \in Turns, NEW c \in Conversations, NEW r \in Requests,
             Submit(t, c, r)
      PROVE  StreamOrder'
  BY <1>1 DEF Submit, StreamOrder, InOrder, Streamed, reading, local, Typing, TypeOK
<1>2. ASSUME NEW t \in Turns, Wait(t) PROVE StreamOrder'
  BY <1>2 DEF Wait, StreamOrder, InOrder, Streamed, reading, local, Typing, TypeOK
<1>3. ASSUME NEW t \in Turns, Open(t) PROVE StreamOrder'
  <2>1. last[t] = "none" /\ deltas' = deltas
    BY <1>3 DEF Open, StreamOrder, InOrder
  <2>2. PICK v \in {live, published} :
          IF Dropped(t, v) # {}
            THEN /\ Yield(t, <<"scope_dropped">>, "gate")
                 /\ UNCHANGED <<scope, prefix>>
            ELSE \E configured \in BOOLEAN : Gate(t, v, Pruned(t, v), configured)
    BY <1>3 DEF Open
  <2>3. CASE Dropped(t, v) # {}
    <3>1. Fits(last[t], <<"scope_dropped">>, "gate")
      BY <2>1, Successors, FitsShort DEF Landing
    <3> QED BY <2>1, <2>2, <2>3, <3>1, YieldOrder
  <2>4. CASE Dropped(t, v) = {}
    BY <2>1, <2>2, <2>4, GateOrder DEF Opening
  <2> QED BY <2>3, <2>4
<1>4. ASSUME NEW t \in Turns, PassGate(t) PROVE StreamOrder'
  <2>1. last[t] \in Opening
    <3>1. Fits(last[t], pending[t], resume[t])
      BY <1>4 DEF PassGate, StreamOrder, InOrder
    <3> QED BY <1>4, <3>1 DEF PassGate, Fits, Landing, Opening
  <2> QED BY <1>4, <2>1, GateOrder DEF PassGate
<1>5. ASSUME NEW t \in Turns, Gathered(t) PROVE StreamOrder'
  <2>1. last[t] \in Opening /\ deltas' = deltas
    BY <1>5 DEF Gathered, local, StreamOrder, InOrder
  <2>2. CASE supersede[t]
    <3>1. Yield(t, <<"cancelled", "done">>, "return")
      BY <1>5, <2>2, Zenon DEF Gathered
    <3>2. Fits(last[t], <<"cancelled", "done">>, "return")
      BY <2>1, Successors, FitsShort DEF Opening, Streams!Outcomes, Landing
    <3> QED BY <2>1, <3>1, <3>2, YieldOrder
  <2>3. CASE ~supersede[t]
    <3>1. pc' = [pc EXCEPT ![t] = "stream"] /\ UNCHANGED reading
      BY <1>5, <2>3, Zenon DEF Gathered
    <3> QED BY <2>1, <3>1 DEF reading, StreamOrder, InOrder, Streamed, Typing, TypeOK
  <2> QED BY <2>2, <2>3
<1>6. ASSUME NEW t \in Turns, Delta(t) PROVE StreamOrder'
  <2>1. /\ pc[t] = "stream" /\ last[t] \in Opening \cup Landing("stream")
        /\ deltas'[t] = deltas[t] + 1 /\ deltas[t] \in Nat
        /\ \A u \in Turns \ {t} : deltas'[u] = deltas[u]
    BY <1>6 DEF Delta, StreamOrder, InOrder, Typing, TypeOK
  <2>2. PICK es \in Drained(t) :
          IF es = << >> THEN UNCHANGED <<pc, reading>> ELSE Yield(t, es, "stream")
    BY <1>6 DEF Delta
  <2>3. CASE es = << >>
    <3>1. UNCHANGED <<pc, pending, resume, last>>
      BY <2>2, <2>3 DEF reading
    <3>2. InOrder(t)'
      BY <2>1, <3>1 DEF InOrder, Streamed
    <3> QED BY <1>0, <2>1, <3>1, <3>2 DEF StreamOrder
  <2>4. CASE es # << >>
    BY <2>1, <2>2, <2>4, DrainedFits, YieldOrder
  <2> QED BY <2>3, <2>4
<1>7. ASSUME NEW t \in Turns, ProviderDone(t) PROVE StreamOrder'
  <2>1. last[t] \in Opening \cup Landing("stream") /\ deltas' = deltas
    BY <1>7 DEF ProviderDone, local, StreamOrder, InOrder
  <2>2. PICK es \in Remainder(t) : Yield(t, es \o <<"tail", "timings">>, "record")
    BY <1>7 DEF ProviderDone
  <2>3. Fits(last[t], es \o <<"tail", "timings">>, "record")
    BY <2>1, DrainedFits, DrainedType, FitsTailTimings
  <2> QED BY <2>1, <2>2, <2>3, YieldOrder
<1>8. ASSUME NEW t \in Turns, ProviderFails(t) \/ Watchdog(t) PROVE StreamOrder'
  <2>1. /\ last[t] \in Opening \cup Landing("stream") /\ deltas' = deltas
        /\ ~Streamed(t) => last[t] \in Opening
    BY <1>8 DEF ProviderFails, Watchdog, local, StreamOrder, InOrder
  <2>2. PICK o \in {"incomplete", "provider-fault", "timeout"} :
          /\ Yield(t, <<o, "timings", "done">>, "return")
          /\ o # "incomplete" => ~Streamed(t)
    BY <1>8, Zenon DEF ProviderFails, Watchdog
  <2>3. o \in Follow(last[t])
    BY <2>1, <2>2, Successors DEF Opening, Landing, Streams!Outcomes
  <2>4. Fits(last[t], <<o, "timings", "done">>, "return")
    BY <2>3, Successors, FitsShort DEF Landing
  <2> QED BY <2>1, <2>2, <2>4, YieldOrder
<1>9. ASSUME NEW t \in Turns, Cancel(t) PROVE StreamOrder'
  <2>1. last[t] \in Opening \cup Landing("stream") /\ deltas' = deltas
    BY <1>9 DEF Cancel, local, StreamOrder, InOrder
  <2>2. Fits(last[t], <<"cancelled", "done">>, "return")
    BY <2>1, Successors, FitsShort DEF Opening, Landing, Streams!Outcomes
  <2> QED BY <1>9, <2>1, <2>2, YieldOrder DEF Cancel
<1>10. ASSUME NEW t \in Turns, Deliver(t) PROVE StreamOrder'
  <2>1. /\ pc[t] = "yield" /\ pending[t] # << >> /\ pending[t] \in Seq(Events)
        /\ Fits(last[t], pending[t], resume[t])
        /\ resume[t] = "stream" => Streamed(t)
    BY <1>10 DEF Deliver, StreamOrder, InOrder, Typing, TypeOK
  <2>2. Fits(Head(pending[t]), Tail(pending[t]), resume[t])
    BY <2>1, FitsTail
  <2>3. /\ last'[t] = Head(pending[t]) /\ pending'[t] = Tail(pending[t])
        /\ UNCHANGED <<pc, resume, deltas>>
        /\ \A u \in Turns \ {t} : last'[u] = last[u] /\ pending'[u] = pending[u]
    BY <1>10 DEF Deliver, local, Typing, TypeOK
  <2>4. InOrder(t)'
    BY <2>1, <2>2, <2>3 DEF InOrder, Streamed
  <2> QED BY <1>0, <2>3, <2>4 DEF StreamOrder
<1>11. ASSUME NEW t \in Turns, BackToStream(t) PROVE StreamOrder'
  <2>1. last[t] \in Landing("stream") /\ Streamed(t)
    BY <1>11 DEF BackToStream, StreamOrder, InOrder, Fits
  <2>2. pc' = [pc EXCEPT ![t] = "stream"] /\ UNCHANGED <<pending, resume, last, deltas>>
    BY <1>11 DEF BackToStream, reading, local
  <2>3. InOrder(t)'
    BY <2>1, <2>2 DEF InOrder, Streamed, Typing, TypeOK
  <2> QED BY <1>0, <2>2, <2>3 DEF StreamOrder, Typing, TypeOK
<1>12. ASSUME NEW t \in Turns, Record(t) PROVE StreamOrder'
  <2>1. last[t] = "timings" /\ deltas' = deltas
    BY <1>12 DEF Record, local, StreamOrder, InOrder, Fits, Landing
  <2>2. Fits(last[t], <<"done">>, "return")
    BY <2>1, Successors, FitsShort DEF Landing
  <2> QED BY <1>12, <2>1, <2>2, YieldOrder DEF Record
<1>13. ASSUME NEW t \in Turns, Return(t) PROVE StreamOrder'
  <2>1. last[t] = "done"
    BY <1>13 DEF Return, StreamOrder, InOrder, Fits, Landing
  <2> QED BY <1>13, <2>1 DEF Return, Leave, StreamOrder, InOrder, Streamed, Typing, TypeOK
<1>14. ASSUME NEW t \in Turns, Disconnect(t) \/ Raise(t) PROVE StreamOrder'
  <2>1. CASE Leave(t, "cut")
    BY <2>1 DEF Leave, StreamOrder, InOrder, Streamed, Typing, TypeOK
  <2>2. CASE /\ pc' = [pc EXCEPT ![t] = "abandoned"] /\ UNCHANGED <<reading, local>>
    BY <2>2 DEF reading, local, StreamOrder, InOrder, Streamed, Typing, TypeOK
  <2> QED BY <1>14, <2>1, <2>2 DEF Disconnect, Raise
<1>15. ASSUME NEW t \in Turns, Wake(t) PROVE StreamOrder'
  BY <1>0, <1>15 DEF Wake, reading, StreamOrder
<1>16. ASSUME NEW v \in Views, Publish(v) PROVE StreamOrder'
  BY <1>0, <1>16 DEF Publish, reading, local, StreamOrder
<1>17. CASE UNCHANGED vars
  BY <1>0, <1>17 DEF vars, reading, local, StreamOrder
<1> QED
  BY <1>1, <1>2, <1>3, <1>4, <1>5, <1>6, <1>7, <1>8, <1>9, <1>10, <1>11, <1>12,
     <1>13, <1>14, <1>15, <1>16, <1>17 DEF Next, Engine, AllOver

\* The reader of a turn sees its stream open until the turn is over.
LEMMA StreamOf ==
  ASSUME NEW t \in Turns
  PROVE  /\ pc[t] = "complete" => StreamState[t] = "complete"
         /\ pc[t] \in {"cut", "abandoned"} => StreamState[t] = "cut"
         /\ pc[t] \notin Over => StreamState[t] = "open"
BY Zenon DEF StreamState, Over

\* A step in which every turn stays over, or not over, hides from the readers
\* unless it delivers an event.
LEMMA StreamKept ==
  ASSUME \A t \in Turns : pc'[t] = pc[t] \/ (pc[t] \notin Over /\ pc'[t] \notin Over)
  PROVE  StreamState' = StreamState
<1>1. ASSUME NEW t \in Turns PROVE StreamState'[t] = StreamState[t]
  BY Zenon DEF StreamState, Over
<1> QED BY <1>1, Zenon DEF StreamState

\* Every step is a step of the event contract, or one the reader does not see.
LEMMA ContractStep ==
  Typing /\ StreamOrder /\ [Next]_vars => [Streams!Next]_<<last, StreamState>>
<1> SUFFICES ASSUME Typing, StreamOrder, [Next]_vars
             PROVE  [Streams!Next]_<<last, StreamState>>
  OBVIOUS
<1>1. ASSUME NEW t \in Turns, NEW p, p \notin Over, pc[t] \notin Over,
             pc' = [pc EXCEPT ![t] = p], last' = last
      PROVE  UNCHANGED <<last, StreamState>>
  <2>1. \A u \in Turns : pc'[u] = pc[u] \/ (pc[u] \notin Over /\ pc'[u] \notin Over)
    BY <1>1 DEF Typing, TypeOK
  <2> QED BY <1>1, <2>1, StreamKept
<1>2. ASSUME UNCHANGED <<pc, last>> PROVE UNCHANGED <<last, StreamState>>
  BY <1>2, StreamKept
<1>3. ASSUME NEW t \in Turns,
             \/ \E c \in Conversations, r \in Requests : Submit(t, c, r)
             \/ Wait(t) \/ Open(t) \/ PassGate(t) \/ Gathered(t) \/ Delta(t)
             \/ ProviderDone(t) \/ ProviderFails(t) \/ Watchdog(t) \/ Cancel(t)
             \/ BackToStream(t) \/ Record(t)
      PROVE  UNCHANGED <<last, StreamState>>
  <2> DEFINE Moves == pc[t] \notin Over /\ last' = last
  <2>1. CASE \E c \in Conversations, r \in Requests : Submit(t, c, r)
    <3>1. pc[t] \notin Over /\ last' = last /\ pc' = [pc EXCEPT ![t] = "created"]
      BY <2>1 DEF Submit, reading, Over
    <3> QED BY <1>1, <3>1 DEF Over
  <2>2. CASE Wait(t)
    <3>1. pc[t] \notin Over /\ last' = last /\ pc' = [pc EXCEPT ![t] = "waiting"]
      BY <2>2 DEF Wait, reading, Over
    <3> QED BY <1>1, <3>1 DEF Over
  <2>3. CASE Open(t) \/ PassGate(t)
    <3>1. pc[t] \notin Over
      BY <2>3 DEF Open, PassGate, Over
    <3>2. \E p \in {"yield", "gather"} : pc' = [pc EXCEPT ![t] = p]
      BY <2>3 DEF Open, PassGate, Gate, Yield
    <3>3. last' = last
      BY <2>3 DEF Open, PassGate, Gate, Yield, reading
    <3> QED BY <1>1, <3>1, <3>2, <3>3 DEF Over
  <2>4. CASE Gathered(t) \/ Delta(t) \/ BackToStream(t)
    <3>1. pc[t] \notin Over
      BY <2>4 DEF Gathered, Delta, BackToStream, Over
    <3>2. (\E p \in {"yield", "stream"} : pc' = [pc EXCEPT ![t] = p]) \/ pc' = pc
      BY <2>4, Zenon DEF Gathered, Delta, BackToStream, Yield
    <3>3. last' = last
      BY <2>4, Zenon DEF Gathered, Delta, BackToStream, Yield, reading
    <3> QED BY <1>1, <1>2, <3>1, <3>2, <3>3 DEF Over
  <2>5. CASE \/ ProviderDone(t) \/ ProviderFails(t) \/ Watchdog(t) \/ Cancel(t)
             \/ Record(t)
    <3>1. pc[t] \notin Over /\ last' = last /\ pc' = [pc EXCEPT ![t] = "yield"]
      BY <2>5 DEF ProviderDone, ProviderFails, Watchdog, Cancel, Record, Yield, Over
    <3> QED BY <1>1, <3>1 DEF Over
  <2> QED BY <1>3, <2>1, <2>2, <2>3, <2>4, <2>5
<1>4. ASSUME NEW t \in Turns, Deliver(t) PROVE Streams!Send(t)
  <2>1. /\ pc[t] = "yield" /\ pending[t] # << >> /\ pending[t] \in Seq(Events)
        /\ Fits(last[t], pending[t], resume[t])
        /\ last' = [last EXCEPT ![t] = Head(pending[t])] /\ pc' = pc
    BY <1>4 DEF Deliver, StreamOrder, InOrder, Typing, TypeOK
  <2>2. Head(pending[t]) \in Streams!Following[last[t]]
    BY <2>1, FitsTail DEF Follow
  <2>3. StreamState[t] = "open" /\ StreamState' = StreamState
    BY <2>1, StreamOf, StreamKept DEF Over
  <2> QED BY <2>1, <2>2, <2>3 DEF Streams!Send
<1>5. ASSUME NEW t \in Turns, NEW how \in {"complete", "cut", "abandoned"},
             pc[t] \notin Over, pc' = [pc EXCEPT ![t] = how]
      PROVE  /\ StreamState[t] = "open"
             /\ StreamState' = [StreamState EXCEPT ![t] =
                                  IF how = "complete" THEN "complete" ELSE "cut"]
  <2>1. StreamState[t] = "open"
    BY <1>5, StreamOf
  <2>2. ASSUME NEW u \in Turns
        PROVE  StreamState'[u] = IF u # t THEN StreamState[u]
                                 ELSE IF how = "complete" THEN "complete" ELSE "cut"
    <3>1. CASE u = t
      <4>1. pc'[t] = how
        BY <1>5 DEF Typing, TypeOK
      <4>2. CASE how = "complete"
        BY <3>1, <4>1, <4>2 DEF StreamState
      <4>3. CASE how # "complete"
        <5>1. pc'[t] \in {"cut", "abandoned"} /\ pc'[t] # "complete"
          BY <4>1, <4>3
        <5>2. StreamState'[t] = "cut"
          BY <5>1, Zenon DEF StreamState
        <5> QED BY <3>1, <4>3, <5>2
      <4> QED BY <4>2, <4>3
    <3>2. CASE u # t
      <4>1. pc'[u] = pc[u]
        BY <1>5, <3>2 DEF Typing, TypeOK
      <4>2. StreamState'[u] = StreamState[u]
        BY <4>1, Zenon DEF StreamState
      <4> QED BY <3>2, <4>2
    <3> QED BY <3>1, <3>2
  <2>3. StreamState = [u \in Turns |-> StreamState[u]]
        /\ StreamState' = [u \in Turns |-> StreamState'[u]]
    BY Zenon DEF StreamState
  <2>4. StreamState' = [u \in Turns |->
                          IF u # t THEN StreamState[u]
                          ELSE IF how = "complete" THEN "complete" ELSE "cut"]
    BY <2>2, <2>3, Zenon
  <2> QED BY <2>1, <2>3, <2>4
<1>6. ASSUME NEW t \in Turns, Return(t) PROVE Streams!Complete(t)
  <2>1. last[t] = "done" /\ last' = last /\ pc[t] = "yield"
        /\ pc' = [pc EXCEPT ![t] = "complete"]
    BY <1>6 DEF Return, Leave, StreamOrder, InOrder, Fits, Landing
  <2> QED BY <1>5, <2>1 DEF Streams!Complete, Over
<1>7. ASSUME NEW t \in Turns, Disconnect(t) \/ Raise(t) PROVE Streams!Cut(t)
  <2>1. pc[t] \notin Over /\ last' = last
    BY <1>7 DEF Disconnect, Raise, Leave, reading, Waits, Over
  <2>2. \E how \in {"cut", "abandoned"} : pc' = [pc EXCEPT ![t] = how]
    BY <1>7 DEF Disconnect, Raise, Leave
  <2> QED BY <1>5, <2>1, <2>2 DEF Streams!Cut
<1>8. ASSUME NEW t \in Turns, Wake(t) PROVE UNCHANGED <<last, StreamState>>
  BY <1>2, <1>8 DEF Wake, reading
<1>9. ASSUME NEW v \in Views, Publish(v) PROVE UNCHANGED <<last, StreamState>>
  BY <1>2, <1>9 DEF Publish, reading
<1>10. CASE UNCHANGED vars
  BY <1>2, <1>10 DEF vars, reading
<1> QED
  BY <1>3, <1>4, <1>6, <1>7, <1>8, <1>9, <1>10 DEF Next, Engine, AllOver, Streams!Next

\* The pipeline implements the event contract: no reader gets an event out of
\* order, and no stream ends as complete without its `done` (turn.py, _run;
\* CONTRACTS.md section 4b).
THEOREM Contract == Spec => StreamsKeepTheContract
<1>1. Init => Streams!Init
  <2> SUFFICES ASSUME Init PROVE Streams!Init
    OBVIOUS
  <2>1. \A t \in Turns : StreamState[t] = "open"
    BY StreamOf DEF Init, Over
  <2>2. StreamState = [t \in Turns |-> "open"]
    BY <2>1, Zenon DEF StreamState
  <2> QED BY <2>2 DEF Init, Streams!Init
<1> QED
  BY <1>1, TypingInit, TypingStep, OrderInit, OrderStep, ContractStep, PTL
     DEF Spec, StreamsKeepTheContract, Streams!Spec

-----------------------------------------------------------------------------
(* What a history remembers.                                               *)

\* How many elements truncation to n drops.
Excess(s, n) == IF Len(s) <= n THEN 0 ELSE Len(s) - n

\* Truncation keeps the elements at the end, in their places.
LEMMA LastOfElements ==
  ASSUME NEW S, NEW s \in Seq(S), NEW n \in Nat
  PROVE  /\ Excess(s, n) \in Nat
         /\ Len(LastOf(s, n)) = Len(s) - Excess(s, n)
         /\ \A i \in 1..(Len(s) - Excess(s, n)) : LastOf(s, n)[i] = s[i + Excess(s, n)]
<1>1. Len(s) \in Nat
  OBVIOUS
<1>2. CASE Len(s) <= n
  <2>1. LastOf(s, n) = s
    BY <1>2 DEF LastOf
  <2> QED BY <1>1, <1>2, <2>1 DEF Excess
<1>3. CASE Len(s) > n
  <2>1. LastOf(s, n) = SubSeq(s, Len(s) - n + 1, Len(s))
    BY <1>1, <1>3 DEF LastOf
  <2>2. \A i \in (Len(s) - n + 1)..Len(s) : s[i] \in S
    BY <1>1, <1>3, ElementOfSeq
  <2>3. /\ Len(s) - n + 1 \in 1..(Len(s) + 1)
        /\ Len(s) \in (Len(s) - n + 1) - 1 .. Len(s)
    BY <1>1, <1>3
  <2>4. /\ Len(LastOf(s, n)) = n
        /\ \A i \in 1..n : LastOf(s, n)[i] = s[i + (Len(s) - n)]
    BY <1>1, <1>3, <2>1, <2>2, <2>3, SubSeqProperties
  <2>5. Len(s) - n \in Nat /\ Len(s) - (Len(s) - n) = n
    BY <1>1, <1>3
  <2>6. Excess(s, n) = Len(s) - n
    BY <1>1, <1>3 DEF Excess
  <2> QED BY <2>4, <2>5, <2>6
<1> QED BY <1>1, <1>2, <1>3

\* An exchange added to a history: the oldest makes room for it.
LEMMA AppendedElements ==
  ASSUME NEW h \in Seq(Exchange), NEW e \in Exchange
  PROVE  LET d  == IF Len(h) < HistoryTurns THEN 0 ELSE Len(h) + 1 - HistoryTurns
             hh == LastOf(Append(h, e), HistoryTurns)
         IN  /\ d \in 0..Len(h) /\ Len(h) \in Nat
             /\ Len(hh) = Len(h) + 1 - d
             /\ \A i \in 1..Len(hh) :
                  hh[i] = IF i + d = Len(h) + 1 THEN e ELSE h[i + d]
<1>1. PICK g : g = Append(h, e)
  OBVIOUS
<1>2. /\ g \in Seq(Exchange) /\ Len(g) = Len(h) + 1 /\ Len(h) \in Nat
      /\ HistoryTurns \in Nat \ {0}
      /\ g[Len(h) + 1] = e /\ \A i \in 1..Len(h) : g[i] = h[i]
  BY <1>1
<1>3. PICK d : d = IF Len(h) < HistoryTurns THEN 0 ELSE Len(h) + 1 - HistoryTurns
  OBVIOUS
<1>4. d = Excess(g, HistoryTurns) /\ d \in 0..Len(h)
  BY <1>2, <1>3 DEF Excess
<1>5. /\ Len(LastOf(g, HistoryTurns)) = Len(g) - d
      /\ \A i \in 1..(Len(g) - d) : LastOf(g, HistoryTurns)[i] = g[i + d]
  <2>1. g \in Seq(Exchange) /\ HistoryTurns \in Nat
    BY <1>2
  <2>2. /\ Len(LastOf(g, HistoryTurns)) = Len(g) - Excess(g, HistoryTurns)
        /\ \A i \in 1..(Len(g) - Excess(g, HistoryTurns)) :
             LastOf(g, HistoryTurns)[i] = g[i + Excess(g, HistoryTurns)]
    BY <2>1, LastOfElements, Zenon
  <2> QED BY <1>4, <2>2
<1>6. ASSUME NEW i \in 1..(Len(h) + 1 - d)
      PROVE  g[i + d] = IF i + d = Len(h) + 1 THEN e ELSE h[i + d]
  <2>1. CASE i + d = Len(h) + 1
    BY <1>2, <2>1
  <2>2. CASE i + d # Len(h) + 1
    <3>1. i + d \in 1..Len(h)
      BY <1>2, <1>4, <2>2
    <3> QED BY <1>2, <2>2, <3>1
  <2> QED BY <2>1, <2>2
<1>7. PICK hh : hh = LastOf(g, HistoryTurns)
  OBVIOUS
<1>8. /\ Len(hh) = Len(h) + 1 - d
      /\ \A i \in 1..Len(hh) : hh[i] = IF i + d = Len(h) + 1 THEN e ELSE h[i + d]
  <2>1. Len(hh) = Len(h) + 1 - d
    BY <1>2, <1>4, <1>5, <1>7
  <2>2. ASSUME NEW i \in 1..Len(hh) PROVE hh[i] = g[i + d]
    <3>1. i \in 1..(Len(g) - d)
      BY <1>2, <1>4, <2>1
    <3> QED BY <1>5, <1>7, <3>1
  <2> QED BY <1>6, <2>1, <2>2
<1> QED BY <1>1, <1>2, <1>3, <1>4, <1>7, <1>8

\* So a history whose questions are distinct members of Q keeps to distinct
\* members of Q when one more of them is recorded.
LEMMA RecordedOnce ==
  ASSUME NEW Q, NEW h \in Seq(Exchange), NEW e \in Exchange,
         \A i \in 1..Len(h) : h[i].question \in Q /\ h[i].question # e.question,
         \A i, j \in 1..Len(h) : h[i].question = h[j].question => i = j,
         e.question \in Q
  PROVE  LET hh == LastOf(Append(h, e), HistoryTurns) IN
         \A i \in 1..Len(hh) :
           /\ hh[i].question \in Q
           /\ \A j \in 1..Len(hh) : hh[i].question = hh[j].question => i = j
<1>0. PICK hh, d : /\ hh = LastOf(Append(h, e), HistoryTurns)
                   /\ d = IF Len(h) < HistoryTurns THEN 0 ELSE Len(h) + 1 - HistoryTurns
  OBVIOUS
<1>1. /\ d \in 0..Len(h) /\ Len(h) \in Nat
      /\ Len(hh) = Len(h) + 1 - d
      /\ \A i \in 1..Len(hh) : hh[i] = IF i + d = Len(h) + 1 THEN e ELSE h[i + d]
  BY <1>0, AppendedElements
<1>2. \A i \in 1..Len(hh) :
        /\ i \in Nat /\ i + d \in 1..(Len(h) + 1) /\ Len(h) \in Nat
        /\ i + d = Len(h) + 1 \/ i + d \in 1..Len(h)
        /\ i + d = Len(h) + 1 => hh[i] = e
        /\ i + d # Len(h) + 1 => hh[i] = h[i + d]
  BY <1>1
<1>3. \A i \in 1..Len(hh) : hh[i].question \in Q
  BY <1>2
<1>4. ASSUME NEW i \in 1..Len(hh), NEW j \in 1..Len(hh),
             hh[i].question = hh[j].question
      PROVE  i = j
  <2>1. CASE i + d = Len(h) + 1 \/ j + d = Len(h) + 1
    BY <1>1, <1>2, <1>4, <2>1, SMTT(20)
  <2>2. CASE i + d # Len(h) + 1 /\ j + d # Len(h) + 1
    <3>1. /\ i + d \in 1..Len(h) /\ j + d \in 1..Len(h)
          /\ h[i + d].question = h[j + d].question
      BY <1>2, <1>4, <2>2
    <3>2. PICK a, b : a = i + d /\ b = j + d
      OBVIOUS
    <3>3. a = b
      BY <3>1, <3>2
    <3> QED BY <1>1, <3>2, <3>3
  <2> QED BY <2>1, <2>2
<1> QED BY <1>0, <1>3, <1>4

\* What recording adds to a history: the exchange, at the end.
LEMMA RecordTurnTurns ==
  ASSUME NEW k \in ConversationState, NEW q \in Turns, NEW o \in ContentOutcomes
  PROVE  RecordTurn(k, q, o).turns =
           LastOf(Append(k.turns, [question |-> q, outcome |-> o]), HistoryTurns)
<1> DEFINE kk == CountNarrowing(k, q, o)
<1>1. kk.turns = k.turns /\ DOMAIN kk = DOMAIN k
  BY DEF CountNarrowing, ConversationState
<1>2. "turns" \in DOMAIN kk
  BY <1>1 DEF ConversationState
<1> QED BY <1>1, <1>2 DEF RecordTurn

\* Turn q is past the point where it may be recorded.
Settled(q) ==
  pc[q] \in {"complete", "cut"} \/ (pc[q] = "yield" /\ resume[q] = "return")

\* A turn of conversation c whose reader has all of its answer.
Answered(q, c) ==
  home[q] = c /\ last[q] \in {"timings", "done"} /\ Settled(q)

\* A history holds settled turns only, each once.
Remembered ==
  \A c \in Conversations :
    LET h == conversation[c].turns IN
    \A i \in 1..Len(h) :
      /\ Answered(h[i].question, c)
      /\ \A j \in 1..Len(h) : h[i].question = h[j].question => i = j

\* A turn that has been answered stays so.
LEMMA AnsweredStays ==
  ASSUME Typing, StreamOrder, [Next]_vars,
         NEW q \in Turns, NEW c \in Conversations, Answered(q, c)
  PROVE  Answered(q, c)'
<1>1. CASE UNCHANGED vars
  BY <1>1 DEF vars, asked, reading, Answered, Settled
<1>2. ASSUME NEW t \in Turns, t # q, NEW d \in Conversations, NEW r \in Requests,
             Submit(t, d, r)
      PROVE  Answered(q, c)'
  BY <1>2 DEF Submit, reading, Answered, Settled, Typing, TypeOK
<1>3. ASSUME NEW t \in Turns, t # q, Engine(t) \/ Disconnect(t) \/ Raise(t)
      PROVE  Answered(q, c)'
  <2>1. /\ \A u \in Turns \ {t} : /\ pc'[u] = pc[u]
                                 /\ resume'[u] = resume[u]
                                 /\ last'[u] = last[u]
        /\ home' = home
    <3>1. CASE Wait(t) \/ Open(t) \/ PassGate(t) \/ Gathered(t)
      <4>1. /\ home' = home /\ last' = last
            /\ resume' = resume \/ \E r \in Resumes : resume' = [resume EXCEPT ![t] = r]
            /\ \E p \in Waits : pc' = [pc EXCEPT ![t] = p]
        BY <3>1, Zenon DEF Wait, Open, PassGate, Gathered, Gate, Yield, asked, reading, Waits, Resumes
      <4> QED BY <4>1 DEF Typing, TypeOK
    <3>2. CASE Delta(t) \/ ProviderDone(t) \/ ProviderFails(t) \/ Watchdog(t)
               \/ Wake(t) \/ Cancel(t)
      <4>1. /\ home' = home /\ last' = last
            /\ resume' = resume \/ \E r \in Resumes : resume' = [resume EXCEPT ![t] = r]
            /\ pc' = pc \/ pc' = [pc EXCEPT ![t] = "yield"]
        BY <3>2, Zenon DEF Delta, ProviderDone, ProviderFails, Watchdog, Wake, Cancel, Yield,
           asked, reading, Resumes
      <4> QED BY <4>1 DEF Typing, TypeOK
    <3>3. CASE Deliver(t) \/ BackToStream(t) \/ Record(t) \/ Return(t)
      BY <3>3 DEF Deliver, BackToStream, Record, Return, Leave, Yield,
                  asked, reading, Typing, TypeOK
    <3>4. CASE Disconnect(t) \/ Raise(t)
      BY <3>4 DEF Disconnect, Raise, Leave, asked, reading, Typing, TypeOK
    <3> QED BY <1>3, <3>1, <3>2, <3>3, <3>4 DEF Engine
  <2> QED BY <1>3, <2>1 DEF Answered, Settled
<1>4. ASSUME \/ \E d \in Conversations, r \in Requests : Submit(q, d, r)
             \/ Engine(q) \/ Disconnect(q) \/ Raise(q)
      PROVE  Answered(q, c)'
  <2>1. pc[q] \in {"complete", "cut", "yield"} /\ (pc[q] = "yield" => resume[q] = "return")
    BY DEF Answered, Settled
  <2>2. Deliver(q) \/ Return(q) \/ Disconnect(q)
    BY <1>4, <2>1 DEF Submit, Engine, Raise, Wait, Open, PassGate, Gathered, Delta,
       ProviderDone, ProviderFails, Watchdog, Wake, Cancel, BackToStream, Record,
       ProviderOpen
  <2>3. CASE Deliver(q)
    <3>1. /\ pc[q] = "yield" /\ pending[q] # << >> /\ pending[q] \in Seq(Events)
          /\ Fits(last[q], pending[q], resume[q])
          /\ last'[q] = Head(pending[q]) /\ UNCHANGED <<pc, resume, home>>
      BY <2>3 DEF Deliver, asked, StreamOrder, InOrder, Typing, TypeOK
    <3>2. Head(pending[q]) \in Follow(last[q])
      BY <3>1, FitsTail
    <3>3. last'[q] = "done"
      BY <3>1, <3>2, Successors DEF Answered
    <3> QED BY <3>1, <3>3 DEF Answered, Settled
  <2>4. CASE Return(q) \/ Disconnect(q)
    <3>1. pc'[q] \in {"complete", "cut"} /\ last' = last /\ home' = home
      BY <2>1, <2>4 DEF Return, Disconnect, Leave, Typing, TypeOK
    <3> QED BY <3>1 DEF Answered, Settled
  <2> QED BY <2>2, <2>3, <2>4
<1>5. ASSUME NEW v \in Views, Publish(v) PROVE Answered(q, c)'
  BY <1>5 DEF Publish, asked, reading, Answered, Settled
<1> QED BY <1>1, <1>2, <1>3, <1>4, <1>5 DEF Next, AllOver

\* Only Record changes a history.
LEMMA HistoryKept ==
  ASSUME Typing, [Next]_vars, \A t \in Turns : ~Record(t)
  PROVE  \A c \in Conversations : conversation'[c].turns = conversation[c].turns
<1>1. ASSUME NEW t \in Turns, Open(t)
      PROVE  \A c \in Conversations : conversation'[c].turns = conversation[c].turns
  <2>1. PICK v \in {live, published} :
          conversation' = [conversation EXCEPT ![home[t]] = Pruned(t, v)]
    BY <1>1 DEF Open
  <2>2. /\ pc[t] # "idle" /\ home[t] \in Conversations
        /\ conversation[home[t]] \in ConversationState
        /\ v \in {NoView} \cup SUBSET Sources
        /\ request[t] \in {NoSources} \cup SUBSET Sources
    BY <1>1 DEF Open, Typing, TypeOK, HandlesMatch
  <2>3. Scoped(t, v) \in ConversationState /\ Scoped(t, v).turns = conversation[home[t]].turns
    BY <2>2, ScopeType DEF Scoped
  <2>4. Pruned(t, v).turns = conversation[home[t]].turns
    BY <2>2, <2>3, ScopeType DEF Pruned
  <2> QED BY <2>1, <2>2, <2>4 DEF Typing, TypeOK
<1>2. ASSUME conversation' = conversation
      PROVE  \A c \in Conversations : conversation'[c].turns = conversation[c].turns
  BY <1>2
<1>3. ASSUME NEW t \in Turns,
             \/ \E c \in Conversations, r \in Requests : Submit(t, c, r)
             \/ (Engine(t) /\ ~Open(t)) \/ Disconnect(t) \/ Raise(t)
      PROVE  conversation' = conversation
  BY <1>3 DEF Submit, Engine, Wait, PassGate, Gathered, Delta, ProviderDone,
     ProviderFails, Watchdog, Wake, Cancel, Deliver, BackToStream, Return, Disconnect, Raise
<1>4. ASSUME NEW v \in Views, Publish(v) PROVE conversation' = conversation
  BY <1>4 DEF Publish
<1> QED BY <1>1, <1>2, <1>3, <1>4 DEF Next, AllOver, vars

\* What Record(t) does to the histories.
LEMMA RecordHistory ==
  ASSUME Typing, NEW t \in Turns, Record(t)
  PROVE  /\ home[t] \in Conversations
         /\ \A c \in Conversations \ {home[t]} : conversation'[c] = conversation[c]
         /\ \E o \in ContentOutcomes :
              /\ conversation'[home[t]] = RecordTurn(conversation[home[t]], t, o)
              /\ conversation'[home[t]].turns =
                   LastOf(Append(conversation[home[t]].turns,
                                 [question |-> t, outcome |-> o]), HistoryTurns)
<1>1. home[t] \in Conversations /\ conversation[home[t]] \in ConversationState
  BY DEF Record, Typing, TypeOK, HandlesMatch
<1>2. PICK o \in ContentOutcomes :
        conversation' = [conversation EXCEPT ![home[t]] = RecordTurn(@, t, o)]
  BY DEF Record
<1>3. /\ conversation'[home[t]] = RecordTurn(conversation[home[t]], t, o)
      /\ \A c \in Conversations \ {home[t]} : conversation'[c] = conversation[c]
  BY <1>1, <1>2 DEF Typing, TypeOK
<1> QED BY <1>1, <1>3, RecordTurnTurns

\* Every step keeps the histories to turns that were answered.
LEMMA RememberedStep ==
  Typing /\ StreamOrder /\ Remembered /\ [Next]_vars => Remembered'
<1> SUFFICES ASSUME Typing, StreamOrder, Remembered, [Next]_vars,
                    NEW c \in Conversations
             PROVE  \A i \in 1..Len(conversation'[c].turns) :
                      /\ Answered(conversation[c].turns[i].question, c)'
                      /\ \A j \in 1..Len(conversation'[c].turns) :
                           conversation'[c].turns[i].question
                             = conversation'[c].turns[j].question => i = j
  BY DEF Remembered
<1> DEFINE h == conversation[c].turns
<1>1. /\ h \in Seq(Exchange)
      /\ \A i \in 1..Len(h) : h[i] \in Exchange /\ h[i].question \in Turns
  <2>1. h \in Seq(Exchange)
    BY DEF Typing, TypeOK, ConversationState
  <2> HIDE DEF h
  <2>2. \A i \in 1..Len(h) : h[i] \in Exchange
    BY <2>1, ElementOfSeq
  <2> QED BY <2>1, <2>2 DEF Exchange
<1>2. \A i \in 1..Len(h) : /\ Answered(h[i].question, c)
                           /\ \A j \in 1..Len(h) : h[i].question = h[j].question => i = j
  BY DEF Remembered
<1>3. \A q \in Turns : Answered(q, c) => Answered(q, c)'
  BY AnsweredStays
<1>4. CASE conversation'[c].turns = h
  BY <1>1, <1>2, <1>3, <1>4 DEF Answered, Settled
<1>5. ASSUME NEW t \in Turns, Record(t), home[t] = c
      PROVE  \A i \in 1..Len(conversation'[c].turns) :
               /\ Answered(conversation[c].turns[i].question, c)'
               /\ \A j \in 1..Len(conversation'[c].turns) :
                    conversation'[c].turns[i].question
                      = conversation'[c].turns[j].question => i = j
  <2>1. PICK o \in ContentOutcomes :
          conversation'[c].turns =
            LastOf(Append(h, [question |-> t, outcome |-> o]), HistoryTurns)
    BY <1>5, RecordHistory
  <2>2. PICK e \in Exchange : e = [question |-> t, outcome |-> o]
    BY DEF Exchange
  <2>3. ~Answered(t, c)
    BY <1>5 DEF Record, Answered, Settled
  <2>4. Answered(t, c)'
    <3>1. last[t] = "timings"
      BY <1>5 DEF Record, StreamOrder, InOrder, Fits, Landing
    <3>2. /\ pc'[t] = "yield" /\ resume'[t] = "return" /\ last'[t] = "timings"
          /\ home'[t] = c
      BY <1>5, <3>1 DEF Record, Yield, asked, Typing, TypeOK
    <3> QED BY <3>2 DEF Answered, Settled
  <2>5. PICK Q \in SUBSET Turns : Q = {q \in Turns : Answered(q, c)'}
    OBVIOUS
  <2>6. \A i \in 1..Len(h) : h[i].question \in Q /\ h[i].question # e.question
    <3>1. ASSUME NEW i \in 1..Len(h) PROVE h[i].question \in Q /\ h[i].question # e.question
      <4>1. PICK q \in Turns : q = h[i].question
        BY <1>1
      <4>2. Answered(q, c)
        BY <1>2, <4>1
      <4>3. q \in Q /\ q # t
        BY <1>3, <2>3, <2>5, <4>2
      <4> QED BY <2>2, <4>1, <4>3
    <3> QED BY <3>1
  <2>7. e.question \in Q
    BY <2>2, <2>4, <2>5
  <2>8. \A i, j \in 1..Len(h) : h[i].question = h[j].question => i = j
    BY <1>2
  <2> HIDE DEF h
  <2> DEFINE hh == LastOf(Append(h, e), HistoryTurns)
  <2>9. \A i \in 1..Len(hh) :
          /\ hh[i].question \in Q
          /\ \A j \in 1..Len(hh) : hh[i].question = hh[j].question => i = j
    BY <1>1, <2>6, <2>7, <2>8, RecordedOnce
  <2>10. conversation'[c].turns = hh
    BY <2>1, <2>2
  <2> HIDE DEF hh
  <2> QED BY <2>5, <2>9, <2>10 DEF Answered, Settled
<1>6. ASSUME NEW t \in Turns, Record(t), home[t] # c PROVE conversation'[c].turns = h
  BY <1>6, RecordHistory
<1> QED BY <1>4, <1>5, <1>6, HistoryKept

\* At the start nothing is remembered.
LEMMA RememberedInit == Init => Remembered
BY DEF Init, Remembered, NewConversation

\* Only a turn whose whole answer reached its reader is in a history, in its
\* own conversation and once (turn.py, _run: record_turn between timings and
\* done).
THEOREM AnswersRemembered == Spec => []OnlyAnswersAreRemembered
<1>1. Typing /\ Remembered => OnlyAnswersAreRemembered
  <2>1. ASSUME Typing, NEW c \in Conversations
        PROVE  DOMAIN conversation[c].turns = 1..Len(conversation[c].turns)
    <3>1. conversation[c].turns \in Seq(Exchange)
      BY <2>1 DEF Typing, TypeOK, ConversationState
    <3> QED BY <3>1
  <2> QED BY <2>1 DEF Remembered, Answered, OnlyAnswersAreRemembered
<1> QED
  BY <1>1, TypingInit, TypingStep, OrderInit, OrderStep, RememberedInit,
     RememberedStep, PTL DEF Spec

-----------------------------------------------------------------------------
(* What a turn retrieves with.                                             *)

\* From its query to the end of its provider loop.
Retrieving(t) == ProviderOpen(t) \/ pc[t] = "gather"

\* Suspended on its scope_dropped report, with the gates ahead.
AtGate(t) == pc[t] = "yield" /\ resume[t] = "gate"

\* What turn t took from its view and its conversation.  At the gate it has
\* yet to read the scope, which the prune it made keeps within its view; a
\* request that names its sources drops none, or is about to be refused.
Holds(t) ==
  /\ AtGate(t) =>
       /\ view[t] # NoView
       /\ request[t] = NoSources \/ Unknown(t, view[t]) # {}
       /\ intact[home[t]] => conversation[home[t]].scope \subseteq view[t]
  /\ Retrieving(t) =>
       /\ scope[t] # {}
       /\ request[t] # NoSources => scope[t] = request[t]
       /\ request[t] # NoSources \/ intact[home[t]] => scope[t] \subseteq view[t]
       /\ intact[home[t]] =>
            /\ prefix[t] = RetrievalPrefix(conversation[home[t]])
            /\ scope[t] = conversation[home[t]].scope

Held == \A t \in Turns : Holds(t)

\* A chain that is broken stays so.
LEMMA IntactFalls ==
  ASSUME Typing, [Next]_vars, NEW c \in Conversations, intact'[c]
  PROVE  intact[c]
<1>1. ASSUME NEW t \in Turns, NEW d \in Conversations, NEW r \in Requests,
             Submit(t, d, r)
      PROVE  intact[c]
  BY <1>1 DEF Submit, Typing, TypeOK
<1>2. ASSUME NEW t \in Turns, Opens(t) PROVE intact[c]
  BY <1>2 DEF Opens
<1>3. ASSUME NEW t \in Turns, Ends(t) PROVE intact[c]
  BY <1>3 DEF Ends, Typing, TypeOK
<1>4. CASE Quiet
  BY <1>4 DEF Quiet
<1> QED BY <1>1, <1>2, <1>3, <1>4, StepKinds

\* Only a turn that opens or records changes its conversation, and it runs.
LEMMA ConversationKept ==
  ASSUME Typing, [Next]_vars, NEW c \in Conversations,
         conversation'[c] # conversation[c]
  PROVE  \E t \in Turns : /\ Open(t) \/ Record(t)
                          /\ home[t] = c /\ home'[t] = c
                          /\ started'[t] /\ ~finished'[t]
<1>1. PICK t \in Turns : Open(t) \/ Record(t)
  BY ZenonT(40) DEF Next, AllOver, vars, Submit, Engine, Wait, PassGate, Gathered, Delta,
     ProviderDone, ProviderFails, Watchdog, Wake, Cancel, Deliver, BackToStream,
     Return, Disconnect, Raise, Publish
<1>2. home[t] = c /\ home' = home /\ finished' = finished
  BY <1>1 DEF Open, Record, asked, handles, Typing, TypeOK
<1>3. started'[t] /\ ~finished[t]
  <2>1. CASE Open(t)
    <3>1. pc[t] \in {"created", "waiting"} /\ started' = [started EXCEPT ![t] = TRUE]
      BY <2>1 DEF Open
    <3>2. ~finished[t]
      BY <3>1 DEF Typing, HandlesMatch
    <3>3. started'[t]
      BY <3>1, Zenon DEF Typing, TypeOK
    <3> QED BY <3>2, <3>3
  <2>2. CASE Record(t)
    <3>1. pc[t] = "yield" /\ started' = started
      BY <2>2 DEF Record, handles
    <3>2. ~finished[t] /\ started[t]
      BY <3>1 DEF Typing, HandlesMatch
    <3> QED BY <3>1, <3>2
  <2> QED BY <1>1, <2>1, <2>2
<1> QED BY <1>1, <1>2, <1>3

\* While the chain is intact, nobody else touches the conversation of a turn
\* that is being served.
LEMMA Undisturbed ==
  ASSUME Typing, [Next]_vars, TurnsAlternate',
         NEW u \in Turns, home[u] \in Conversations, home'[u] = home[u],
         Running(u)', intact'[home[u]], ~Open(u), ~Record(u)
  PROVE  conversation'[home[u]] = conversation[home[u]]
<1> SUFFICES ASSUME conversation'[home[u]] # conversation[home[u]] PROVE FALSE
  OBVIOUS
<1>1. PICK t \in Turns : /\ Open(t) \/ Record(t)
                         /\ home[t] = home[u] /\ home'[t] = home[u]
                         /\ started'[t] /\ ~finished'[t]
  BY ConversationKept
<1>2. t # u
  BY <1>1
<1> QED BY <1>1, <1>2 DEF TurnsAlternate, Running

\* A turn keeps what it holds through a step that is not its opening or its
\* gate.
LEMMA HoldsOn ==
  ASSUME Typing, Typing', [Next]_vars, TurnsAlternate',
         NEW u \in Turns, Holds(u),
         AtGate(u)' => AtGate(u), Retrieving(u)' => Retrieving(u),
         AtGate(u)' \/ Retrieving(u)' =>
           /\ view'[u] = view[u] /\ scope'[u] = scope[u] /\ prefix'[u] = prefix[u]
           /\ request'[u] = request[u] /\ home'[u] = home[u]
           /\ ~Open(u) /\ ~Record(u)
  PROVE  Holds(u)'
<1> SUFFICES ASSUME AtGate(u)' \/ Retrieving(u)' PROVE Holds(u)'
  BY DEF Holds
<1>1. home[u] \in Conversations /\ home'[u] = home[u]
  BY DEF AtGate, Retrieving, ProviderOpen, Typing, HandlesMatch
<1>2. Running(u)'
  BY DEF AtGate, Retrieving, ProviderOpen, Typing, HandlesMatch, Running
<1>3. intact'[home[u]] => /\ intact[home[u]]
                          /\ conversation'[home[u]] = conversation[home[u]]
  BY <1>1, <1>2, IntactFalls, Undisturbed
<1>4. Unknown(u, view[u])' = Unknown(u, view[u])
  BY DEF Unknown
<1> QED BY <1>1, <1>3, <1>4 DEF Holds

\* A turn past the gates holds the scope and the prefix it read there.
LEMMA GateHolds ==
  ASSUME Typing, NEW t \in Turns, NEW v, NEW k \in ConversationState,
         NEW configured, Gate(t, v, k, configured), Retrieving(t)'
  PROVE  /\ ~Refused(t, v, k, configured)
         /\ scope'[t] = k.scope /\ prefix'[t] = RetrievalPrefix(k)
         /\ ~AtGate(t)'
<1>1. CASE Refused(t, v, k, configured)
  <2>1. pc'[t] = "yield" /\ resume'[t] = "return"
    BY <1>1 DEF Gate, Yield, Typing, TypeOK
  <2> QED BY <2>1 DEF Retrieving, ProviderOpen
<1>2. CASE ~Refused(t, v, k, configured)
  BY <1>2 DEF Gate, AtGate, Typing, TypeOK
<1> QED BY <1>1, <1>2

\* The gates never lead back to themselves.
LEMMA GateLeft ==
  ASSUME Typing, NEW t \in Turns, NEW v, NEW k, NEW configured,
         Gate(t, v, k, configured)
  PROVE  ~AtGate(t)'
BY DEF Gate, Yield, AtGate, Typing, TypeOK

\* What the opening makes of the conversation: its scope is within the view,
\* and is what the request names if the view has all of it.
LEMMA PrunedScope ==
  ASSUME Typing, NEW t \in Turns, pc[t] # "idle",
         NEW v \in SUBSET Sources, v # NoView
  PROVE  /\ Pruned(t, v).scope \subseteq v
         /\ request[t] # NoSources /\ Unknown(t, v) = {} =>
              Pruned(t, v).scope = request[t] /\ Dropped(t, v) = {}
<1>1. /\ conversation[home[t]] \in ConversationState
      /\ request[t] \in {NoSources} \cup SUBSET Sources
  BY DEF Typing, TypeOK, HandlesMatch
<1>2. Scoped(t, v) \in ConversationState
  BY <1>1, ScopeType DEF Scoped
<1>3. Pruned(t, v) = PruneScope(Scoped(t, v), v) /\ Dropped(t, v) = Scoped(t, v).scope \ v
  BY DEF Pruned, Dropped, DroppedScope
<1>4. Pruned(t, v).scope = Scoped(t, v).scope \cap v
  BY <1>2, <1>3 DEF PruneScope, ConversationState
<1>5. ASSUME request[t] # NoSources, Unknown(t, v) = {}
      PROVE  Scoped(t, v).scope = request[t] /\ request[t] \subseteq v
  <2>1. Scoped(t, v) = SetScope(conversation[home[t]], request[t])
    BY <1>5 DEF Scoped
  <2>2. request[t] \ v = {}
    BY <1>5 DEF Unknown
  <2> QED BY <1>1, <2>1, <2>2 DEF SetScope, ConversationState
<1> QED BY <1>3, <1>4, <1>5

\* Opening: the turn holds what it has just made of the conversation.
LEMMA OpenHolds ==
  ASSUME Typing, NEW t \in Turns, Open(t)
  PROVE  Holds(t)'
<1>1. /\ pc[t] # "idle" /\ home[t] \in Conversations
      /\ home' = home /\ request' = request /\ intact' = intact
  BY DEF Open, asked, Typing, HandlesMatch
<1>2. PICK v \in {live, published} :
        /\ view' = [view EXCEPT ![t] = v]
        /\ conversation' = [conversation EXCEPT ![home[t]] = Pruned(t, v)]
        /\ IF Dropped(t, v) # {}
             THEN /\ Yield(t, <<"scope_dropped">>, "gate")
                  /\ UNCHANGED <<scope, prefix>>
             ELSE \E configured \in BOOLEAN :
                    Gate(t, v, Pruned(t, v), configured)
  BY DEF Open
<1>3. /\ v \in {NoView} \cup SUBSET Sources
      /\ view'[t] = v /\ conversation'[home[t]] = Pruned(t, v)
      /\ Unknown(t, view[t])' = Unknown(t, v)
  BY <1>1, <1>2 DEF Typing, TypeOK, Unknown
<1>4. Pruned(t, v) \in ConversationState
  BY <1>1, <1>3, PrunedType
<1>5. CASE Dropped(t, v) # {}
  <2>1. v # NoView /\ v \in SUBSET Sources
    BY <1>3, <1>5 DEF Dropped
  <2>2. ~Retrieving(t)'
    BY <1>2, <1>5 DEF Yield, Retrieving, ProviderOpen, Typing, TypeOK
  <2>3. /\ Pruned(t, v).scope \subseteq v
        /\ request[t] = NoSources \/ Unknown(t, v) # {}
    BY <1>1, <1>5, <2>1, PrunedScope
  <2> QED BY <1>1, <1>3, <2>1, <2>2, <2>3 DEF Holds
<1>6. CASE Dropped(t, v) = {}
  <2>1. PICK configured \in BOOLEAN : Gate(t, v, Pruned(t, v), configured)
    BY <1>2, <1>6
  <2>2. ~AtGate(t)'
    BY <2>1, GateLeft
  <2>3. ASSUME Retrieving(t)'
        PROVE  /\ v # NoView /\ v \in SUBSET Sources
               /\ Unknown(t, v) = {} /\ Pruned(t, v).scope # {}
               /\ scope'[t] = Pruned(t, v).scope
               /\ prefix'[t] = RetrievalPrefix(Pruned(t, v))
    BY <1>3, <1>4, <2>1, <2>3, GateHolds DEF Refused
  <2>4. ASSUME Retrieving(t)'
        PROVE  /\ Pruned(t, v).scope \subseteq v
               /\ request[t] # NoSources => Pruned(t, v).scope = request[t]
    BY <1>1, <2>3, <2>4, PrunedScope
  <2> QED BY <1>1, <1>3, <2>2, <2>3, <2>4 DEF Holds
<1> QED BY <1>5, <1>6

\* Passing the gate: the conversation is as the turn left it, or the chain is
\* broken.
LEMMA PassGateHolds ==
  ASSUME Typing, NEW t \in Turns, Holds(t), PassGate(t)
  PROVE  Holds(t)'
<1>1. /\ home[t] \in Conversations /\ conversation[home[t]] \in ConversationState
      /\ home' = home /\ request' = request /\ view' = view
      /\ conversation' = conversation /\ intact' = intact /\ AtGate(t)
  BY DEF PassGate, asked, AtGate, Typing, TypeOK, HandlesMatch
<1>2. PICK configured \in BOOLEAN :
        Gate(t, view[t], conversation[home[t]], configured)
  BY DEF PassGate
<1>3. ~AtGate(t)'
  BY <1>2, GateLeft
<1>4. ASSUME Retrieving(t)'
      PROVE  /\ Unknown(t, view[t]) = {} /\ conversation[home[t]].scope # {}
             /\ scope'[t] = conversation[home[t]].scope
             /\ prefix'[t] = RetrievalPrefix(conversation[home[t]])
  BY <1>1, <1>2, <1>4, GateHolds DEF Refused
<1> QED BY <1>1, <1>3, <1>4 DEF Holds

\* Every step leaves every turn holding what it took.
LEMMA HeldStep ==
  Typing /\ Typing' /\ TurnsAlternate' /\ Held /\ [Next]_vars => Held'
<1> SUFFICES ASSUME Typing, Typing', TurnsAlternate', Held, [Next]_vars,
                    NEW u \in Turns
             PROVE  Holds(u)'
  BY DEF Held
<1>0. Holds(u)
  BY DEF Held
<1>1. CASE Open(u) \/ PassGate(u)
  BY <1>0, <1>1, OpenHolds, PassGateHolds
<1>2. CASE Record(u)
  BY <1>2 DEF Record, Yield, Holds, AtGate, Retrieving, ProviderOpen, Typing, TypeOK
<1>3. CASE Return(u) \/ Disconnect(u) \/ Raise(u)
  <2>1. pc'[u] \in Over
    BY <1>3 DEF Return, Disconnect, Raise, Leave, Over, Typing, TypeOK
  <2> QED BY <2>1 DEF Over, Holds, AtGate, Retrieving, ProviderOpen
<1>4. CASE Wait(u) \/ \E c \in Conversations, r \in Requests : Submit(u, c, r)
  <2>1. pc'[u] \in {"created", "waiting"}
    BY <1>4 DEF Wait, Submit, Typing, TypeOK
  <2> QED BY <2>1 DEF Holds, AtGate, Retrieving, ProviderOpen
<1>5. CASE \/ Gathered(u) \/ Delta(u) \/ ProviderDone(u) \/ ProviderFails(u)
           \/ Watchdog(u) \/ Wake(u) \/ Cancel(u) \/ Deliver(u) \/ BackToStream(u)
  <2>1. /\ UNCHANGED <<view, scope, prefix, request, home>>
        /\ ~Open(u) /\ ~Record(u)
    BY <1>5 DEF Gathered, Delta, ProviderDone, ProviderFails, Watchdog, Wake, Cancel,
       Deliver, BackToStream, local, asked, Open, Record, ProviderOpen
  <2>2. (AtGate(u)' => AtGate(u)) /\ (Retrieving(u)' => Retrieving(u))
    <3>1. CASE Gathered(u) \/ Delta(u) \/ BackToStream(u)
      <4>1. /\ pc[u] \in {"gather", "stream"} \/ (pc[u] = "yield" /\ resume[u] = "stream")
            /\ \/ pc' = pc /\ resume' = resume
               \/ pc' = [pc EXCEPT ![u] = "stream"]
               \/ /\ pc' = [pc EXCEPT ![u] = "yield"]
                  /\ \E r \in {"return", "stream"} : resume' = [resume EXCEPT ![u] = r]
        BY <3>1, Zenon DEF Gathered, Delta, BackToStream, Yield, reading
      <4> QED BY <4>1 DEF AtGate, Retrieving, ProviderOpen, Typing, TypeOK
    <3>2. CASE ProviderDone(u) \/ ProviderFails(u) \/ Watchdog(u) \/ Cancel(u)
      <4>1. /\ pc' = [pc EXCEPT ![u] = "yield"]
            /\ \E r \in {"return", "record"} : resume' = [resume EXCEPT ![u] = r]
        BY <3>2 DEF ProviderDone, ProviderFails, Watchdog, Cancel, Yield
      <4> QED BY <4>1 DEF AtGate, Retrieving, ProviderOpen, Typing, TypeOK
    <3>3. CASE Wake(u) \/ Deliver(u)
      BY <3>3 DEF Wake, Deliver, reading, AtGate, Retrieving, ProviderOpen
    <3> QED BY <1>5, <3>1, <3>2, <3>3
  <2> QED BY <1>0, <2>1, <2>2, HoldsOn
<1>6. ASSUME NEW t \in Turns, t # u,
             \/ \E c \in Conversations, r \in Requests : Submit(t, c, r)
             \/ Engine(t) \/ Disconnect(t) \/ Raise(t)
      PROVE  Holds(u)'
  <2>1. /\ pc'[u] = pc[u] /\ resume'[u] = resume[u] /\ view'[u] = view[u]
        /\ scope'[u] = scope[u] /\ prefix'[u] = prefix[u]
        /\ request'[u] = request[u] /\ home'[u] = home[u]
    <3>1. CASE \E c \in Conversations, r \in Requests : Submit(t, c, r)
      BY <1>6, <3>1 DEF Submit, reading, local, Typing, TypeOK
    <3>2. CASE Wait(t) \/ Gathered(t) \/ Delta(t) \/ BackToStream(t)
      <4>1. /\ UNCHANGED <<view, scope, prefix, request, home>>
            /\ resume' = resume \/ \E r \in Resumes : resume' = [resume EXCEPT ![t] = r]
            /\ pc' = pc \/ \E p \in Waits : pc' = [pc EXCEPT ![t] = p]
        BY <3>2, Zenon DEF Wait, Gathered, Delta, BackToStream, Yield, asked, reading,
           local, Waits, Resumes
      <4> QED BY <1>6, <4>1 DEF Typing, TypeOK
    <3>3. CASE \/ ProviderDone(t) \/ ProviderFails(t) \/ Watchdog(t) \/ Wake(t)
               \/ Cancel(t) \/ Deliver(t) \/ Record(t)
      <4>1. /\ UNCHANGED <<view, scope, prefix, request, home>>
            /\ resume' = resume \/ \E r \in Resumes : resume' = [resume EXCEPT ![t] = r]
            /\ pc' = pc \/ \E p \in Waits : pc' = [pc EXCEPT ![t] = p]
        BY <3>3, Zenon DEF ProviderDone, ProviderFails, Watchdog, Wake, Cancel, Deliver,
           Record, Yield, asked, reading, local, Waits, Resumes
      <4> QED BY <1>6, <4>1 DEF Typing, TypeOK
    <3>4. CASE Open(t) \/ PassGate(t)
      <4>1. /\ UNCHANGED <<request, home>>
            /\ view' = view \/ \E v : view' = [view EXCEPT ![t] = v]
            /\ scope' = scope \/ \E s : scope' = [scope EXCEPT ![t] = s]
            /\ prefix' = prefix \/ \E q : prefix' = [prefix EXCEPT ![t] = q]
            /\ resume' = resume \/ \E r \in Resumes : resume' = [resume EXCEPT ![t] = r]
            /\ pc' = pc \/ \E p \in Waits : pc' = [pc EXCEPT ![t] = p]
        <5>1. ASSUME NEW v, NEW k, NEW configured, Gate(t, v, k, configured)
              PROVE  /\ scope' = scope \/ \E s : scope' = [scope EXCEPT ![t] = s]
                     /\ prefix' = prefix \/ \E q : prefix' = [prefix EXCEPT ![t] = q]
                     /\ resume' = resume \/ \E r \in Resumes : resume' = [resume EXCEPT ![t] = r]
                     /\ \E p \in Waits : pc' = [pc EXCEPT ![t] = p]
          BY <5>1, Zenon DEF Gate, Yield, reading, Waits, Resumes
        <5>2. CASE PassGate(t)
          BY <5>1, <5>2 DEF PassGate, asked
        <5>3. CASE Open(t)
          <6>1. PICK v \in {live, published} :
                  /\ view' = [view EXCEPT ![t] = v]
                  /\ IF Dropped(t, v) # {}
                       THEN /\ Yield(t, <<"scope_dropped">>, "gate")
                            /\ UNCHANGED <<scope, prefix>>
                       ELSE \E configured \in BOOLEAN :
                              Gate(t, v, Pruned(t, v), configured)
            BY <5>3 DEF Open
          <6>2. UNCHANGED <<request, home>>
            BY <5>3 DEF Open, asked
          <6>3. CASE Dropped(t, v) # {}
            BY <6>1, <6>2, <6>3, Zenon DEF Yield, Waits, Resumes
          <6>4. CASE Dropped(t, v) = {}
            BY <5>1, <6>1, <6>2, <6>4, Zenon
          <6> QED BY <6>3, <6>4
        <5> QED BY <3>4, <5>2, <5>3
      <4> QED BY <1>6, <4>1 DEF Typing, TypeOK
    <3>5. CASE Return(t) \/ Disconnect(t) \/ Raise(t)
      BY <1>6, <3>5 DEF Return, Disconnect, Raise, Leave, asked, reading, local, Typing, TypeOK
    <3> QED BY <1>6, <3>1, <3>2, <3>3, <3>4, <3>5 DEF Engine
  <2>2. (AtGate(u)' => AtGate(u)) /\ (Retrieving(u)' => Retrieving(u))
    BY <2>1 DEF AtGate, Retrieving, ProviderOpen
  <2>3. AtGate(u)' \/ Retrieving(u)' => ~Open(u)
    BY <2>2 DEF AtGate, Retrieving, ProviderOpen, Open
  <2>4. AtGate(u)' \/ Retrieving(u)' => ~Record(u)
    BY <2>2 DEF AtGate, Retrieving, ProviderOpen, Record
  <2> QED BY <1>0, <2>1, <2>2, <2>3, <2>4, HoldsOn
<1>7. CASE (\E v \in Views : Publish(v)) \/ UNCHANGED vars
  <2>1. UNCHANGED <<pc, resume, view, scope, prefix, request, home, conversation, intact>>
    BY <1>7 DEF Publish, vars, reading, local, asked
  <2> QED BY <1>0, <2>1 DEF Holds, AtGate, Retrieving, ProviderOpen, Unknown
<1> QED
  BY <1>1, <1>2, <1>3, <1>4, <1>5, <1>6, <1>7 DEF Next, Engine, AllOver

\* At the start nobody holds anything.
LEMMA HeldInit == Init => Held
BY DEF Init, Held, Holds, AtGate, Retrieving, ProviderOpen

\* With the types, the chain and what turns hold, in one invariant.
LEMMA HeldAlways == Spec => [](Chain /\ Held)
<1>1. Chain /\ [Next]_vars => Chain'
  BY TypingStep, InflightStep, ChainStep DEF Chain
<1>2. Chain /\ Held /\ [Next]_vars => (Chain /\ Held)'
  <2>1. Chain => Typing /\ TurnsAlternate
    BY ChainAlternates DEF Chain
  <2>2. Chain' => Typing' /\ TurnsAlternate'
    BY <2>1, PTL
  <2> QED BY <1>1, <2>1, <2>2, HeldStep
<1> QED BY <1>2, ChainInit, HeldInit, PTL DEF Spec

\* A turn that names its sources retrieves from exactly those, within its
\* view; one that carries the scope stays within its view while the chain of
\* waits is intact (turn.py, _run; gates.py, pre_flight).
THEOREM ScopeIsSound == Spec => []RetrievalScopeIsSound
<1>1. Held => RetrievalScopeIsSound
  BY DEF Held, Holds, Retrieving, RetrievalScopeIsSound
<1> QED BY <1>1, HeldAlways, PTL

\* From its query to its end a turn's conversation is as it read it, while
\* the chain of waits is intact (turn.py, _run: `conversation` is read before
\* retrieval and again when the prompt is assembled).
THEOREM RetrievalMatches == Spec => []RetrievalMatchesConversation
<1>1. Held => RetrievalMatchesConversation
  BY DEF Held, Holds, Retrieving, RetrievalMatchesConversation
<1> QED BY <1>1, HeldAlways, PTL

-----------------------------------------------------------------------------
(* The narrowing counter.                                                  *)

\* Where the run of narrowing questions that ends history h begins, and how
\* long it is, as NarrowingMatchesHistory has it.
RunOf(h) ==
  {i \in DOMAIN h : \A j \in i..Len(h) : h[j].outcome = "needs-narrowing"}
RunLength(h) ==
  IF RunOf(h) = {} THEN 0
  ELSE Len(h) + 1 - (CHOOSE i \in RunOf(h) : \A j \in RunOf(h) : i <= j)

\* The last n exchanges of h are narrowing questions, and the one before is not.
IsRun(h, n) ==
  /\ n \in 0..Len(h)
  /\ \A j \in 1..Len(h) : j > Len(h) - n => h[j].outcome = "needs-narrowing"
  /\ n < Len(h) => h[Len(h) - n].outcome # "needs-narrowing"

\* RunLength is that n, and the only one.
LEMMA RunLengthIs ==
  ASSUME NEW h \in Seq(Exchange)
  PROVE  /\ IsRun(h, RunLength(h))
         /\ \A n : IsRun(h, n) => n = RunLength(h)
<1>0. Len(h) \in Nat /\ DOMAIN h = 1..Len(h)
  OBVIOUS
<1>1. IsRun(h, RunLength(h))
  <2>1. CASE RunOf(h) = {}
    <3>1. RunLength(h) = 0
      BY <2>1 DEF RunLength
    <3>2. Len(h) > 0 => Len(h) \notin RunOf(h)
      BY <2>1
    <3>3. Len(h) > 0 => h[Len(h)].outcome # "needs-narrowing"
      BY <1>0, <3>2 DEF RunOf
    <3> QED BY <1>0, <3>1, <3>3 DEF IsRun
  <2>2. CASE RunOf(h) # {}
    <3> DEFINE m == CHOOSE i \in RunOf(h) : \A j \in RunOf(h) : i <= j
    <3>1. RunOf(h) \in SUBSET Nat
      BY <1>0 DEF RunOf
    <3>2. \E i \in RunOf(h) : \A j \in RunOf(h) : i <= j
      BY <2>2, <3>1, LeastNumber
    <3>3. m \in RunOf(h) /\ \A j \in RunOf(h) : m <= j
      BY <3>2, Zenon
    <3>4. RunLength(h) = Len(h) + 1 - m
      BY <2>2 DEF RunLength
    <3> HIDE DEF m
    <3>5. /\ m \in 1..Len(h)
          /\ \A j \in m..Len(h) : h[j].outcome = "needs-narrowing"
      BY <1>0, <3>3 DEF RunOf
    <3>6. m > 1 => h[m - 1].outcome # "needs-narrowing"
      <4> SUFFICES ASSUME m > 1, h[m - 1].outcome = "needs-narrowing" PROVE FALSE
        OBVIOUS
      <4>1. \A j \in (m - 1)..Len(h) : h[j].outcome = "needs-narrowing"
        BY <1>0, <3>5
      <4>2. m - 1 \in RunOf(h)
        BY <1>0, <3>5, <4>1 DEF RunOf
      <4> QED BY <1>0, <3>3, <3>5, <4>2
    <3> QED BY <1>0, <3>4, <3>5, <3>6 DEF IsRun
  <2> QED BY <2>1, <2>2
<1>2. ASSUME NEW n, IsRun(h, n) PROVE n = RunLength(h)
  <2>1. PICK m : m = RunLength(h)
    OBVIOUS
  <2>2. /\ m \in 0..Len(h) /\ n \in 0..Len(h)
        /\ m < Len(h) => Len(h) - m \in 1..Len(h)
        /\ n < Len(h) => Len(h) - n \in 1..Len(h)
    BY <1>0, <1>1, <1>2, <2>1 DEF IsRun
  <2>3. ~(m < n)
    BY <1>0, <1>1, <1>2, <2>1, <2>2 DEF IsRun
  <2>4. ~(n < m)
    BY <1>0, <1>1, <1>2, <2>1, <2>2 DEF IsRun
  <2> QED BY <2>1, <2>2, <2>3, <2>4
<1> QED BY <1>1, <1>2

\* The run after one more exchange: longer by one, up to the whole history, or
\* ended.
LEMMA RunGrows ==
  ASSUME NEW h \in Seq(Exchange), Len(h) <= HistoryTurns, NEW e \in Exchange
  PROVE  LET hh == LastOf(Append(h, e), HistoryTurns)
             n  == RunLength(h)
         IN  /\ hh \in Seq(Exchange)
             /\ e.outcome # "needs-narrowing" => RunLength(hh) = 0
             /\ e.outcome = "needs-narrowing" =>
                  RunLength(hh) = IF n < HistoryTurns THEN n + 1 ELSE n
             /\ e.outcome = "needs-narrowing" /\ n = 0 => hh[Len(hh)] = e
             /\ n \in 1..(HistoryTurns - 1) => hh[Len(hh) - n] = h[Len(h) + 1 - n]
<1>1. PICK hh, d : /\ hh = LastOf(Append(h, e), HistoryTurns)
                   /\ d = IF Len(h) < HistoryTurns THEN 0 ELSE Len(h) + 1 - HistoryTurns
  OBVIOUS
<1>2. hh \in Seq(Exchange)
  <2>1. Append(h, e) \in Seq(Exchange) /\ HistoryTurns \in Nat
    OBVIOUS
  <2> QED BY <1>1, <2>1, LastOfBounds
<1>3. /\ d \in 0..1 /\ Len(h) \in Nat /\ HistoryTurns \in Nat \ {0}
      /\ Len(hh) = Len(h) + 1 - d
      /\ \A i \in 1..Len(hh) : hh[i] = IF i + d = Len(h) + 1 THEN e ELSE h[i + d]
      /\ Len(h) < HistoryTurns => d = 0
      /\ Len(h) = HistoryTurns => d = 1
  BY <1>1, AppendedElements
<1>4. PICK n : n = RunLength(h)
  OBVIOUS
<1>5. IsRun(h, n)
  BY <1>4, RunLengthIs
<1>6. n \in 0..Len(h)
  BY <1>5 DEF IsRun
<1>7. hh[Len(hh)] = e
  BY <1>3
<1>8. e.outcome # "needs-narrowing" => IsRun(hh, 0)
  BY <1>3, <1>7 DEF IsRun
<1>9. ASSUME e.outcome = "needs-narrowing"
      PROVE  IsRun(hh, IF n < HistoryTurns THEN n + 1 ELSE n)
  <2>1. PICK m : m = IF n < HistoryTurns THEN n + 1 ELSE n
    OBVIOUS
  <2>2. m \in 0..Len(hh)
    BY <1>3, <1>6, <2>1
  <2>3. ASSUME NEW j \in 1..Len(hh), j > Len(hh) - m
        PROVE  hh[j].outcome = "needs-narrowing"
    <3>1. CASE j + d = Len(h) + 1
      BY <1>3, <1>9, <3>1
    <3>2. CASE j + d # Len(h) + 1
      <4>1. j + d \in 1..Len(h) /\ j + d > Len(h) - n /\ hh[j] = h[j + d]
        BY <1>3, <1>6, <2>1, <2>2, <2>3, <3>2
      <4> QED BY <1>5, <4>1 DEF IsRun
    <3> QED BY <3>1, <3>2
  <2>4. ASSUME m < Len(hh) PROVE hh[Len(hh) - m].outcome # "needs-narrowing"
    <3>1. m = n + 1 /\ n < Len(h)
      BY <1>3, <1>6, <2>1, <2>4
    <3>2. /\ Len(hh) - m \in 1..Len(hh) /\ (Len(hh) - m) + d = Len(h) - n
      BY <1>3, <1>6, <2>4, <3>1
    <3>3. hh[Len(hh) - m] = h[Len(h) - n]
      BY <1>3, <1>6, <3>2, SMTT(20)
    <3> QED BY <1>5, <3>1, <3>3 DEF IsRun
  <2> QED BY <2>1, <2>2, <2>3, <2>4 DEF IsRun
<1>10. ASSUME n \in 1..(HistoryTurns - 1) PROVE hh[Len(hh) - n] = h[Len(h) + 1 - n]
  <2>1. Len(hh) - n \in 1..Len(hh) /\ (Len(hh) - n) + d = Len(h) + 1 - n
    BY <1>3, <1>6, <1>10
  <2> QED BY <1>3, <1>6, <1>10, <2>1
<1>11. /\ e.outcome # "needs-narrowing" => RunLength(hh) = 0
       /\ e.outcome = "needs-narrowing" =>
            RunLength(hh) = IF n < HistoryTurns THEN n + 1 ELSE n
  BY <1>2, <1>8, <1>9, RunLengthIs
<1> QED BY <1>1, <1>2, <1>4, <1>7, <1>10, <1>11

\* What NarrowingMatchesHistory says of one conversation.
Counted(k) ==
  LET h == k.turns
      n == RunLength(h)
  IN  /\ k.narrowing_count = n \/ (n = HistoryTurns /\ k.narrowing_count >= n)
      /\ k.awaiting_narrowing <=> k.narrowing_count > 0
      /\ IF n = 0 THEN k.symptom_question = NoTurn
         ELSE k.narrowing_count = n =>
                k.symptom_question = h[Len(h) + 1 - n].question

\* The narrowing part of record_turn, field by field.
LEMMA RecordTurnFields ==
  ASSUME NEW k \in ConversationState, NEW q \in Turns, NEW o \in ContentOutcomes
  PROVE  /\ o = "needs-narrowing" =>
              /\ RecordTurn(k, q, o).narrowing_count = k.narrowing_count + 1
              /\ RecordTurn(k, q, o).awaiting_narrowing = TRUE
              /\ RecordTurn(k, q, o).symptom_question =
                   IF k.narrowing_count = 0 THEN q ELSE k.symptom_question
         /\ o # "needs-narrowing" =>
              /\ RecordTurn(k, q, o).narrowing_count = 0
              /\ RecordTurn(k, q, o).awaiting_narrowing = FALSE
              /\ RecordTurn(k, q, o).symptom_question = NoTurn
<1>1. CASE o = "needs-narrowing"
  BY <1>1 DEF RecordTurn, CountNarrowing, ConversationState
<1>2. CASE o # "needs-narrowing"
  BY <1>2 DEF RecordTurn, CountNarrowing, ConversationState
<1> QED BY <1>1, <1>2

\* Recording keeps the count in step with the run.
LEMMA RecordCounts ==
  ASSUME NEW k \in ConversationState, Len(k.turns) <= HistoryTurns, Counted(k),
         NEW q \in Turns, NEW o \in ContentOutcomes
  PROVE  Counted(RecordTurn(k, q, o))
<1>1. PICK h, e, hh, n :
        /\ h = k.turns /\ e = [question |-> q, outcome |-> o]
        /\ hh = LastOf(Append(h, e), HistoryTurns) /\ n = RunLength(h)
  OBVIOUS
<1>2. /\ h \in Seq(Exchange) /\ e \in Exchange /\ Len(h) <= HistoryTurns
      /\ e.question = q /\ e.outcome = o
  BY <1>1 DEF ConversationState, Exchange
<1>3. /\ hh \in Seq(Exchange)
      /\ o # "needs-narrowing" => RunLength(hh) = 0
      /\ o = "needs-narrowing" =>
           RunLength(hh) = IF n < HistoryTurns THEN n + 1 ELSE n
      /\ o = "needs-narrowing" /\ n = 0 => hh[Len(hh)] = e
      /\ n \in 1..(HistoryTurns - 1) => hh[Len(hh) - n] = h[Len(h) + 1 - n]
  BY <1>1, <1>2, RunGrows
<1>4. /\ RecordTurn(k, q, o).turns = hh
      /\ k.narrowing_count \in Nat /\ HistoryTurns \in Nat \ {0}
  BY <1>1, RecordTurnTurns DEF ConversationState
<1>5. n \in 0..HistoryTurns /\ Len(hh) \in Nat
  BY <1>1, <1>2, <1>3, RunLengthIs DEF IsRun
<1>6. /\ k.narrowing_count = n \/ (n = HistoryTurns /\ k.narrowing_count >= n)
      /\ n # 0 /\ k.narrowing_count = n =>
           k.symptom_question = h[Len(h) + 1 - n].question
  BY <1>1 DEF Counted
<1>7. CASE o # "needs-narrowing"
  <2>1. /\ RecordTurn(k, q, o).narrowing_count = 0
        /\ RecordTurn(k, q, o).awaiting_narrowing = FALSE
        /\ RecordTurn(k, q, o).symptom_question = NoTurn
    BY <1>7, RecordTurnFields
  <2> QED BY <1>3, <1>4, <1>7, <2>1 DEF Counted
<1>8. CASE o = "needs-narrowing"
  <2>1. /\ RecordTurn(k, q, o).narrowing_count = k.narrowing_count + 1
        /\ RecordTurn(k, q, o).awaiting_narrowing = TRUE
        /\ RecordTurn(k, q, o).symptom_question =
             IF k.narrowing_count = 0 THEN q ELSE k.symptom_question
    BY <1>8, RecordTurnFields
  <2>2. CASE n = HistoryTurns
    <3>1. RunLength(hh) = n /\ k.narrowing_count + 1 > n /\ n # 0
      BY <1>3, <1>4, <1>5, <1>6, <1>8, <2>2
    <3> QED BY <1>4, <1>5, <2>1, <2>2, <3>1 DEF Counted
  <2>3. CASE n < HistoryTurns
    <3>1. RunLength(hh) = n + 1 /\ k.narrowing_count = n
      BY <1>3, <1>5, <1>6, <1>8, <2>3
    <3>2. CASE n = 0
      <4>1. RecordTurn(k, q, o).symptom_question = hh[Len(hh) + 1 - (n + 1)].question
        BY <1>2, <1>3, <1>5, <1>8, <2>1, <3>1, <3>2
      <4> QED BY <1>4, <1>5, <2>1, <3>1, <4>1 DEF Counted
    <3>3. CASE n # 0
      <4>1. hh[Len(hh) + 1 - (n + 1)] = h[Len(h) + 1 - n]
        BY <1>3, <1>5, <2>3, <3>3
      <4>2. RecordTurn(k, q, o).symptom_question = hh[Len(hh) + 1 - (n + 1)].question
        BY <1>6, <2>1, <3>1, <3>3, <4>1
      <4> QED BY <1>4, <1>5, <2>1, <3>1, <4>2 DEF Counted
    <3> QED BY <3>2, <3>3
  <2> QED BY <1>5, <2>2, <2>3
<1> QED BY <1>7, <1>8

\* The scope operators leave the count and the history alone.
LEMMA ScopeCounts ==
  ASSUME NEW k \in ConversationState, NEW s \in SUBSET Sources, Counted(k)
  PROVE  Counted(SetScope(k, s)) /\ Counted(PruneScope(k, s))
<1>1. ASSUME NEW j, j.turns = k.turns, j.narrowing_count = k.narrowing_count,
             j.awaiting_narrowing = k.awaiting_narrowing,
             j.symptom_question = k.symptom_question
      PROVE  Counted(j)
  BY <1>1 DEF Counted
<1>2. /\ SetScope(k, s).turns = k.turns
      /\ SetScope(k, s).narrowing_count = k.narrowing_count
      /\ SetScope(k, s).awaiting_narrowing = k.awaiting_narrowing
      /\ SetScope(k, s).symptom_question = k.symptom_question
  BY DEF SetScope, ConversationState
<1>3. /\ PruneScope(k, s).turns = k.turns
      /\ PruneScope(k, s).narrowing_count = k.narrowing_count
      /\ PruneScope(k, s).awaiting_narrowing = k.awaiting_narrowing
      /\ PruneScope(k, s).symptom_question = k.symptom_question
  BY DEF PruneScope, ConversationState
<1> QED BY <1>1, <1>2, <1>3

AllCounted == \A c \in Conversations : Counted(conversation[c])

\* A new conversation has nothing to count.
LEMMA CountedInit == Init => AllCounted
<1>1. IsRun(<< >>, 0)
  BY DEF IsRun
<1>2. RunLength(<< >>) = 0
  <2>1. << >> \in Seq(Exchange)
    OBVIOUS
  <2> QED BY <1>1, <2>1, RunLengthIs
<1>3. Counted(NewConversation)
  BY <1>2 DEF NewConversation, Counted
<1> QED BY <1>3 DEF Init, AllCounted

\* Every step keeps every conversation's count in step with its history.
LEMMA CountedStep == Typing /\ AllCounted /\ [Next]_vars => AllCounted'
<1> SUFFICES ASSUME Typing, AllCounted, [Next]_vars, NEW c \in Conversations
             PROVE  Counted(conversation'[c])
  BY DEF AllCounted
<1>1. /\ Counted(conversation[c]) /\ conversation[c] \in ConversationState
      /\ Len(conversation[c].turns) <= HistoryTurns
  BY DEF AllCounted, Typing, TypeOK
<1>2. CASE conversation'[c] = conversation[c]
  BY <1>1, <1>2
<1>3. ASSUME NEW t \in Turns, Open(t), home[t] = c PROVE Counted(conversation'[c])
  <2>1. PICK v \in {live, published} :
          conversation' = [conversation EXCEPT ![home[t]] = Pruned(t, v)]
    BY <1>3 DEF Open
  <2>2. /\ conversation'[c] = Pruned(t, v) /\ v \in {NoView} \cup SUBSET Sources
        /\ request[t] \in {NoSources} \cup SUBSET Sources
    BY <1>3, <2>1 DEF Typing, TypeOK
  <2>3. Scoped(t, v) \in ConversationState /\ Counted(Scoped(t, v))
    BY <1>1, <1>3, <2>2, ScopeType, ScopeCounts DEF Scoped
  <2> QED BY <2>2, <2>3, ScopeCounts DEF Pruned
<1>4. ASSUME NEW t \in Turns, Record(t), home[t] = c PROVE Counted(conversation'[c])
  <2>1. PICK o \in ContentOutcomes :
          conversation'[c] = RecordTurn(conversation[c], t, o)
    BY <1>4, RecordHistory
  <2> QED BY <1>1, <2>1, RecordCounts
<1> QED BY <1>2, <1>3, <1>4, ConversationKept

\* The counter a conversation keeps is the length of the run of narrowing
\* questions that ends its history, and the symptom is the question that began
\* the run (conversation.py, record_turn).
THEOREM NarrowingMatches == Spec => []NarrowingMatchesHistory
<1>1. AllCounted => NarrowingMatchesHistory
  <2> SUFFICES ASSUME NEW c \in Conversations, Counted(conversation[c])
               PROVE  LET k == conversation[c]
                          h == k.turns
                          n == RunLength(h)
                      IN  /\ k.narrowing_count = n \/ (n = HistoryTurns /\ k.narrowing_count >= n)
                          /\ k.awaiting_narrowing <=> k.narrowing_count > 0
                          /\ IF n = 0 THEN k.symptom_question = NoTurn
                             ELSE k.narrowing_count = n =>
                                    k.symptom_question = h[Len(h) + 1 - n].question
    BY Zenon DEF AllCounted, RunLength, RunOf, NarrowingMatchesHistory
  <2> QED BY DEF Counted
<1> QED BY <1>1, TypingInit, TypingStep, CountedInit, CountedStep, PTL DEF Spec
=============================================================================
