----------------------------- MODULE WebThread -----------------------------
(***************************************************************************)
(* The thread on the user's screen (web/src/lib/state/thread.svelte.ts,    *)
(* history.svelte.ts, engine/turn.svelte.ts) and the engine's             *)
(* conversations behind POST /turn (answer/http/app.py, conversation.py).  *)
(* Questions may be asked while one is being answered; the user stops and  *)
(* clears; requests, frames and connections take their time or break.      *)
(*                                                                         *)
(* A question is its number.  What blocks a submission before it reaches   *)
(* the engine (empty, too long, no scope, the page's gate) is left out: it *)
(* is a question that is not asked.                                        *)
(***************************************************************************)
EXTENDS Naturals, Sequences, FiniteSets

CONSTANTS
  MaxTurns,    \* bound: questions asked
  MaxOpen,     \* bound: questions asked while earlier ones are unanswered
  Retention,   \* HistoryStore's RETENTION
  Null         \* no conversation id

ASSUME BoundsAssumption == MaxTurns \in Nat /\ Retention \in Nat \ {0}

VARIABLES
  turns,       \* every question asked, oldest first, on screen or not
  cleared,     \* those that clear() took off the screen: the first of `turns`
  conversationId,  \* ThreadStore.#conversationId
  minted,      \* ids the thread minted so far
  controller,  \* the turn whose AbortController is held, or 0
  history,     \* HistoryStore's entries, newest first
  memory       \* what the engine's conversations remember: <<id, question>>

vars == <<turns, cleared, conversationId, minted, controller, history, memory>>

Turns == DOMAIN turns

Over(t) == turns[t].state \in {"settled", "failed"}

OnScreen == {t \in Turns : t > cleared}

\* ThreadStore.active: only the last question is looked at.
Active == IF Len(turns) \in OnScreen /\ ~Over(Len(turns)) THEN Len(turns) ELSE 0

Init ==
  /\ turns = << >> /\ cleared = 0
  /\ conversationId = Null /\ minted = 0
  /\ controller = 0
  /\ history = << >>
  /\ memory = {}

-----------------------------------------------------------------------------
(* The user.                                                               *)

\* submit() and #run() up to its first await: the request is on its way.
Submit ==
  /\ Len(turns) < MaxTurns
  /\ Cardinality({t \in Turns : ~Over(t)}) < MaxOpen
  /\ turns' = Append(turns,
       [thread  |-> cleared,          \* history: the thread it belongs to
        cid     |-> conversationId,   \* conversation_id in the request
        state   |-> "busy", outcome |-> "none", content |-> FALSE,
        stopped |-> FALSE,            \* userCancelled
        aborted |-> FALSE,            \* its signal
        accepted |-> FALSE,           \* the response headers are here
        service |-> "none",           \* the engine: none, open or over
        context |-> {},
        sent    |-> "none",           \* while open: none, outcome or content
        frames  |-> << >>])           \* on their way to the page
  /\ controller' = Len(turns')
  /\ UNCHANGED <<cleared, conversationId, minted, history, memory>>

\* abort() on the controller that is held.
Aborted(ts) == IF controller = 0 THEN ts ELSE [ts EXCEPT ![controller].aborted = TRUE]

Stop ==
  /\ Active # 0
  /\ turns' = Aborted([turns EXCEPT ![Active].stopped = TRUE])
  /\ UNCHANGED <<cleared, conversationId, minted, controller, history, memory>>

\* Slip: the cleared thread's id is kept.
IdAfterClearKept == conversationId

IdAfterClear == Null

\* clear(): what is being answered is stopped, everything leaves the screen.
Clear ==
  /\ OnScreen # {}
  /\ turns' = IF Active = 0 THEN turns
              ELSE Aborted([turns EXCEPT ![Active].stopped = TRUE])
  /\ cleared' = Len(turns)
  /\ conversationId' = IdAfterClear
  /\ UNCHANGED <<minted, controller, history, memory>>

-----------------------------------------------------------------------------
(* The engine, one turn at a time per conversation (TurnPipeline).         *)

\* The engine makes turn t into `turn`.
Serve(t, turn) ==
  /\ turns' = [turns EXCEPT ![t] = turn]
  /\ UNCHANGED <<cleared, conversationId, minted, controller, history>>

\* ConversationStore.get: null and unknown ids both start a conversation.
ConversationOf(t) == IF turns[t].cid = Null THEN <<"engine", t>> ELSE turns[t].cid

\* A conversation has one turn open at a time.
Waits(t) ==
  \E u \in Turns \ {t} : ConversationOf(u) = ConversationOf(t) /\ turns[u].service = "open"

\* The turn opens and reads what its conversation remembers.
Open(t) ==
  /\ turns[t].service = "none" /\ ~Over(t) /\ ~Waits(t)
  /\ Serve(t, [turns[t] EXCEPT
       !.service = "open",
       !.context = {u \in Turns : <<ConversationOf(t), u>> \in memory}])
  /\ UNCHANGED memory

\* Frames reach a page that still reads.
Sent(t, frames) == IF Over(t) THEN << >> ELSE turns[t].frames \o frames

\* A drain sends the outcome, and then content, once the model's lines justify
\* them; a stream that ignores the framing justifies neither before it ends.
Content(t) ==
  /\ turns[t].service = "open" /\ ~Over(t)
  /\ \/ /\ turns[t].sent = "none"
        /\ \/ Serve(t, [turns[t] EXCEPT !.sent = "outcome", !.frames = Sent(t, <<"answered">>)])
           \/ Serve(t, [turns[t] EXCEPT !.sent = "content",
                                        !.frames = Sent(t, <<"answered", "content">>)])
     \/ /\ turns[t].sent = "outcome"
        /\ Serve(t, [turns[t] EXCEPT !.sent = "content", !.frames = Sent(t, <<"content">>)])
  /\ UNCHANGED memory

Ends(t, frames) ==
  /\ turns[t].service = "open"
  /\ Serve(t, [turns[t] EXCEPT !.service = "over", !.sent = "none", !.frames = Sent(t, frames)])

\* The provider completed: what was not sent yet is, if there is any of it, and
\* the exchange is recorded.
Answer(t) ==
  /\ \E rest \in {<< >>, <<"content">>} :
       Ends(t, (IF turns[t].sent = "none" THEN <<"answered">> ELSE << >>) \o rest \o <<"done">>)
  /\ memory' = memory \cup {<<ConversationOf(t), t>>}

\* The provider failed after its first token.
BreakOff(t) == Ends(t, <<"incomplete", "done">>) /\ UNCHANGED memory

\* A gate's outcome, an error before the first token, or the turn was superseded.
Dismiss(t) == Ends(t, <<"dismissed", "done">>) /\ UNCHANGED memory

\* The reader is gone, or an exception ends the stream without a done.
Cut(t) == Ends(t, << >>) /\ UNCHANGED memory

-----------------------------------------------------------------------------
(* The page: #run() after its await.                                       *)

\* Turn.incomplete: it ended without done, or the engine said so.
Partial(turn) == turn.state = "failed" \/ turn.outcome = "incomplete"

\* Slip: a partial with nothing in it is retained.
RetainedIfEmpty(turn) ==
  /\ ~turn.stopped
  /\ turn.outcome \in {"answered", "incomplete"}

\* HistoryStore.record keeps answers, and partials that hold something.
Retained(turn) ==
  /\ ~turn.stopped
  /\ turn.outcome \in {"answered", "incomplete"}
  /\ Partial(turn) => turn.content

\* Slip: the turn that ends releases whatever controller is held.
ReleasedAlways(t) == 0

Released(t) == IF controller = t THEN 0 ELSE controller

\* The turn ends: its controller is released and it is recorded under the
\* thread's id of the moment.
Finish(t, turn) ==
  /\ turns' = [turns EXCEPT ![t] = [turn EXCEPT
       !.frames = << >>, !.sent = "none", !.accepted = FALSE, !.aborted = FALSE]]
  /\ controller' = Released(t)
  /\ history' = IF Retained(turn)
                  THEN LET all == <<[turn |-> t, thread |-> conversationId]>> \o history
                       IN  SubSeq(all, 1, IF Len(all) < Retention THEN Len(all) ELSE Retention)
                  ELSE history
  /\ UNCHANGED <<cleared, conversationId, minted, memory>>

\* An abort rejects what is awaited; frames already decoded are still applied.
\* The first accepted turn of a thread makes the thread mint its id: the
\* engine's, in the response headers, is not read.
Accept(t) ==
  /\ ~Over(t) /\ ~turns[t].accepted /\ (turns[t].service # "none" \/ Waits(t))
  /\ turns' = [turns EXCEPT ![t].accepted = TRUE]
  /\ IF conversationId = Null
       THEN conversationId' = <<"web", minted + 1>> /\ minted' = minted + 1
       ELSE UNCHANGED <<conversationId, minted>>
  /\ UNCHANGED <<cleared, controller, history, memory>>

Outcomes == {"answered", "incomplete", "dismissed"}

\* Turn.applyEvent of a frame: `done` settles the turn.
Applied(turn, frame) ==
  [turn EXCEPT !.frames = Tail(@),
               !.state = IF frame = "done" THEN "settled" ELSE @,
               !.content = @ \/ frame = "content",
               !.outcome = IF frame \in Outcomes THEN frame ELSE @]

Read(t) ==
  /\ ~Over(t) /\ turns[t].accepted /\ turns[t].frames # << >>
  /\ LET frame == Head(turns[t].frames) IN
       IF frame = "done"
         THEN Finish(t, Applied(turns[t], frame))
         ELSE /\ turns' = [turns EXCEPT ![t] = Applied(turns[t], frame)]
              /\ UNCHANGED <<cleared, conversationId, minted, controller, history, memory>>

\* A turn that fails keeps what arrived.
Incomplete(turn) ==
  [turn EXCEPT !.state = "failed", !.outcome = IF @ = "none" THEN "incomplete" ELSE @]

\* The stream ends without done: Turn.consume.
EndsShort(t) ==
  /\ ~Over(t) /\ turns[t].accepted
  /\ turns[t].service = "over" /\ turns[t].frames = << >>
  /\ Finish(t, Incomplete(turns[t]))

\* #run's catch: a turn the user stopped ends as cancelled whatever was thrown.
Thrown(turn, failed) ==
  IF turn.stopped THEN [turn EXCEPT !.state = "settled", !.outcome = "cancelled"]
  ELSE failed

\* The transport fails, before the response or while it is read.
Break(t) == ~Over(t) /\ Finish(t, Thrown(turns[t], Incomplete(turns[t])))

\* A request rejection or an unknown stream version is no turn's outcome.
Rejected(t) ==
  /\ ~Over(t) /\ ~turns[t].content /\ turns[t].outcome = "none"
  /\ Finish(t, Thrown(turns[t], [turns[t] EXCEPT !.state = "failed"]))

\* The abort reaches the fetch or the read.
AbortLands(t) ==
  /\ ~Over(t) /\ turns[t].aborted
  /\ Finish(t, Thrown(turns[t], Incomplete(turns[t])))

User == Submit \/ Stop \/ Clear
Page(t) ==
  Accept(t) \/ Read(t) \/ EndsShort(t) \/ Break(t) \/ Rejected(t) \/ AbortLands(t)
Engine(t) == Open(t) \/ Content(t) \/ Answer(t) \/ BreakOff(t) \/ Dismiss(t) \/ Cut(t)

Next == User \/ \E t \in Turns : Page(t) \/ Engine(t)

Spec == Init /\ [][Next]_vars

\* The browser runs what is ready; neither the engine nor the network is fair.
FairSpec == Spec /\ \A t \in 1..MaxTurns : WF_vars(t \in Turns /\ AbortLands(t))

-----------------------------------------------------------------------------
\* The engine answers no question from another thread's exchanges, however the
\* responses of threads left behind arrive late (clear, Accept).
ContextIsOwn ==
  \A t \in Turns : \A u \in turns[t].context : turns[u].thread = turns[t].thread

\* The history holds an exchange once, and no stopped one. What it holds as a
\* whole answer the engine remembers, though it may have been an empty one; what
\* it holds as a part has something in it; and no whole answer that was not
\* stopped is missing while there is room (HistoryStore.record, Turn.consume,
\* Conversation.record_turn).
HistoryHoldsAnswers ==
  LET kept == {history[i].turn : i \in DOMAIN history} IN
    /\ Cardinality(kept) = Len(history)
    /\ \A t \in kept :
         /\ Over(t) /\ ~turns[t].stopped /\ turns[t].outcome \in {"answered", "incomplete"}
         /\ IF Partial(turns[t]) THEN turns[t].content ELSE <<ConversationOf(t), t>> \in memory
    /\ \A t \in Turns :
         Over(t) /\ turns[t].outcome = "answered" /\ ~Partial(turns[t]) /\ ~turns[t].stopped
           /\ Len(history) < Retention => t \in kept

\* A turn the user stopped ends, whatever the engine and the network do: the
\* controller stop() finds is the right one (thread.svelte.ts).
StoppedTurnsEnd ==
  \A t \in 1..MaxTurns : (t \in Turns /\ turns[t].stopped) ~> (t \in Turns /\ Over(t))

=============================================================================
