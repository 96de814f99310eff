---------------------------- MODULE TurnPipeline ----------------------------
(***************************************************************************)
(* The engine's turn pipeline (answer/turn.py) and the SSE response that   *)
(* reads it (answer/http/app.py).                                          *)
(*                                                                         *)
(* A turn is an async generator run by one asyncio task, so the code       *)
(* between two suspension points is one action.  A turn is suspended       *)
(*   - at an `await`: for the previous turn ("waiting"), for retrieval     *)
(*     and state ("gather"), for the provider stream ("stream");           *)
(*   - at a `yield` ("yield"), until the reader takes the events in        *)
(*     `pending` one by one and asks for more; `resume` says where the     *)
(*     generator then continues.                                           *)
(* A reader may leave at any of these points.                              *)
(*                                                                         *)
(* What the turns of one conversation share is the conversation itself and *)
(* the `_inflight` entry; what all turns share is the corpus view.         *)
(***************************************************************************)
EXTENDS Conversation

CONSTANTS
  Conversations,    \* conversation ids
  NoConversation,   \* the conversation of a question not asked yet
  NoSources,        \* a request whose `sources` is absent: carry the scope
  Requests,         \* the values of `sources` that requests carry
  NoView,           \* no corpus view is loaded
  Views,            \* the views a publication may install: sets of sources
  MaxDeltas,        \* bound: provider deltas per turn
  MaxPublications   \* bound: publications of a new view

ASSUME RequestsAssumption ==
  /\ \A s \in SUBSET Sources : s # NoSources
  /\ Requests \subseteq ({NoSources} \cup SUBSET Sources)
ASSUME ViewsAssumption ==
  /\ \A s \in SUBSET Sources : s # NoView
  /\ Views \subseteq SUBSET Sources
ASSUME ConversationsAssumption == NoConversation \notin Conversations
ASSUME BoundsAssumption == MaxDeltas \in Nat /\ MaxPublications \in Nat

VARIABLES
  pc,            \* where each turn is
  home,          \* the conversation a turn was asked in
  request,       \* the `sources` it was asked with
  previous,      \* the handle it found in `_inflight`
  supersede,     \* _Handle.supersede
  started,       \* _Handle.started
  finished,      \* _Handle.finished
  inflight,      \* TurnPipeline._inflight
  view,          \* the corpus view the turn holds
  scope,         \* the sources its retrieval is masked to
  prefix,        \* the symptom its retrieval query is prefixed with
  woken,         \* its supersede_wait task is done
  deltas,        \* provider deltas it received
  pending,       \* events produced and not yet taken by the reader
  resume,        \* where the generator continues after them
  last,          \* the latest event the reader took
  conversation,  \* the ConversationStore
  live,          \* the view ViewWatcher serves
  published,     \* the view the manifest names
  publications,  \* how many were published (bounded)
  intact         \* history: see ChainIntact below

handles == <<supersede, started, finished, inflight>>
asked   == <<home, request, previous>>
reading == <<pending, resume, last>>
local   == <<view, scope, prefix, woken, deltas>>
corpus  == <<live, published, publications>>
vars == <<pc, handles, asked, reading, local, corpus, conversation, intact>>

-----------------------------------------------------------------------------

Events ==
  {"scope_dropped", "content", "gated", "cancelled", "timeout", "provider-fault",
   "incomplete", "direct_answer", "body_delta", "tail", "timings", "done"}
Waits   == {"waiting", "gather", "stream", "yield"}
Over    == {"complete", "cut", "abandoned"}
Resumes == {"gate", "stream", "record", "return"}

Init ==
  /\ pc = [t \in Turns |-> "idle"]
  /\ home = [t \in Turns |-> NoConversation]
  /\ request = [t \in Turns |-> NoSources]
  /\ previous = [t \in Turns |-> NoTurn]
  /\ supersede = [t \in Turns |-> FALSE]
  /\ started = [t \in Turns |-> FALSE]
  /\ finished = [t \in Turns |-> FALSE]
  /\ inflight = [c \in Conversations |-> NoTurn]
  /\ view = [t \in Turns |-> NoView]
  /\ scope = [t \in Turns |-> {}]
  /\ prefix = [t \in Turns |-> NoTurn]
  /\ woken = [t \in Turns |-> FALSE]
  /\ deltas = [t \in Turns |-> 0]
  /\ pending = [t \in Turns |-> << >>]
  /\ resume = [t \in Turns |-> "return"]
  /\ last = [t \in Turns |-> "none"]
  /\ conversation = [c \in Conversations |-> NewConversation]
  /\ live \in {NoView} \cup Views
  /\ published = live
  /\ publications = 0
  /\ intact = [c \in Conversations |-> TRUE]

\* An ingest run publishes a view; the engine sees it at its next check.
Publish(v) ==
  /\ publications < MaxPublications
  /\ published' = v
  /\ publications' = publications + 1
  /\ UNCHANGED <<pc, handles, asked, reading, local, live, conversation, intact>>

-----------------------------------------------------------------------------
(* Building blocks.                                                        *)

\* The generator reaches a yield with the events es to hand over.
Yield(t, es, next) ==
  /\ pc' = [pc EXCEPT ![t] = "yield"]
  /\ pending' = [pending EXCEPT ![t] = es]
  /\ resume' = [resume EXCEPT ![t] = next]
  /\ last' = last

\* The `finally` of _run: the turn is finished and leaves `_inflight` if the
\* entry is still its own.  The generator's own variables go with it.
Leave(t, how) ==
  /\ pc' = [pc EXCEPT ![t] = how]
  /\ finished' = [finished EXCEPT ![t] = TRUE]
  /\ inflight' = [inflight EXCEPT ![home[t]] = IF @ = t THEN NoTurn ELSE @]
  /\ pending' = [pending EXCEPT ![t] = << >>]
  /\ resume' = [resume EXCEPT ![t] = "return"]
  /\ view' = [view EXCEPT ![t] = NoView]
  /\ scope' = [scope EXCEPT ![t] = {}]
  /\ prefix' = [prefix EXCEPT ![t] = NoTurn]
  /\ woken' = [woken EXCEPT ![t] = FALSE]
  /\ deltas' = [deltas EXCEPT ![t] = 0]
  /\ previous' = [previous EXCEPT ![t] = NoTurn]
  /\ UNCHANGED <<supersede, started, last, home, request>>

\* Slip: a turn that has been told to stop is not waited for.
MustWaitUnlessSignalled(t) ==
  /\ previous[t] # NoTurn
  /\ started[previous[t]] /\ ~finished[previous[t]] /\ ~supersede[previous[t]]

\* Slip: a turn that was never read is waited for too.
MustWaitForAny(t) == previous[t] # NoTurn /\ ~finished[previous[t]]

\* The previous turn was started and is not over: the one wait of _run.
MustWait(t) ==
  previous[t] # NoTurn /\ started[previous[t]] /\ ~finished[previous[t]]

\* Ids the request names and the view does not hold.
Unknown(t, v) ==
  IF v = NoView \/ request[t] = NoSources THEN {} ELSE request[t] \ v

\* The conversation after the turn-start scope handling, before the prune.
Scoped(t, v) ==
  IF v # NoView /\ request[t] # NoSources /\ Unknown(t, v) = {}
    THEN SetScope(conversation[home[t]], request[t])
    ELSE conversation[home[t]]

Dropped(t, v) == IF v = NoView THEN {} ELSE DroppedScope(Scoped(t, v), v)
Pruned(t, v)  == IF v = NoView THEN Scoped(t, v) ELSE PruneScope(Scoped(t, v), v)

\* pre_flight: the corpus, the request, the scope, then the provider binding,
\* which is configured or not (the registry's own module says when).
Refused(t, v, k, configured) ==
  \/ v = NoView \/ v = {}
  \/ Unknown(t, v) # {}
  \/ k.scope = {}
  \/ ~configured

\* Slip: retrieval is masked to the scope carried into the turn.
GateCarriedScope(t, v, k, configured) ==
  IF Refused(t, v, k, configured)
    THEN /\ Yield(t, <<"gated", "done">>, "return")
         /\ UNCHANGED <<scope, prefix>>
    ELSE /\ pc' = [pc EXCEPT ![t] = "gather"]
         /\ scope' = [scope EXCEPT ![t] = conversation[home[t]].scope]
         /\ prefix' = [prefix EXCEPT ![t] = RetrievalPrefix(k)]
         /\ UNCHANGED reading

\* The gates over view v and conversation k, and what a turn that passes
\* them reads before it awaits retrieval: its scope and its query.
Gate(t, v, k, configured) ==
  IF Refused(t, v, k, configured)
    THEN /\ Yield(t, <<"gated", "done">>, "return")
         /\ UNCHANGED <<scope, prefix>>
    ELSE /\ pc' = [pc EXCEPT ![t] = "gather"]
         /\ scope' = [scope EXCEPT ![t] = k.scope]
         /\ prefix' = [prefix EXCEPT ![t] = RetrievalPrefix(k)]
         /\ UNCHANGED reading

-----------------------------------------------------------------------------
(* Asking and opening.                                                     *)

\* Slip: the signal is sent only to a turn that is being read.
SignalsReaders(p) == p # NoTurn /\ started[p] /\ ~finished[p]

\* The handle found in `_inflight` is told to stop.
Signals(p) == p # NoTurn /\ ~finished[p]

\* turn(): the supersede signal is sent synchronously, whoever reads when.
\* The chain of waits stays intact if the turn found no unfinished handle, or
\* one whose turn has started and which it will therefore wait for.
Submit(t, c, r) ==
  LET p == inflight[c] IN
  /\ pc[t] = "idle"
  /\ pc' = [pc EXCEPT ![t] = "created"]
  /\ home' = [home EXCEPT ![t] = c]
  /\ request' = [request EXCEPT ![t] = r]
  /\ previous' = [previous EXCEPT ![t] = p]
  /\ supersede' = IF Signals(p)
                    THEN [supersede EXCEPT ![p] = TRUE]
                    ELSE supersede
  /\ inflight' = [inflight EXCEPT ![c] = t]
  /\ intact' = [intact EXCEPT ![c] = @ /\ (p # NoTurn => started[p])]
  /\ UNCHANGED <<started, finished, reading, local, corpus, conversation>>

\* First read while the previous turn is running.
Wait(t) ==
  /\ pc[t] = "created"
  /\ MustWait(t)
  /\ pc' = [pc EXCEPT ![t] = "waiting"]
  /\ UNCHANGED <<handles, asked, reading, local, corpus, conversation, intact>>

\* The turn opens: watcher.check(), the scope handling and the prune, up to
\* the scope_dropped report or, without one, through the gates.  The check
\* serves the published view, or keeps the live one if that did not load.
Open(t) ==
  /\ pc[t] \in {"created", "waiting"}
  /\ ~MustWait(t)
  /\ started' = [started EXCEPT ![t] = TRUE]
  /\ \E v \in {live, published} :
       /\ live' = v
       /\ view' = [view EXCEPT ![t] = v]
       /\ conversation' = [conversation EXCEPT ![home[t]] = Pruned(t, v)]
       /\ IF Dropped(t, v) # {}
            THEN /\ Yield(t, <<"scope_dropped">>, "gate")
                 /\ UNCHANGED <<scope, prefix>>
            ELSE \E configured \in BOOLEAN : Gate(t, v, Pruned(t, v), configured)
  /\ UNCHANGED <<supersede, finished, inflight, asked, woken, deltas,
                 published, publications, intact>>

\* After the scope_dropped report: the gates read the conversation again.
PassGate(t) ==
  /\ pc[t] = "yield" /\ pending[t] = << >> /\ resume[t] = "gate"
  /\ \E configured \in BOOLEAN :
       Gate(t, view[t], conversation[home[t]], configured)
  /\ UNCHANGED <<handles, asked, view, woken, deltas, corpus, conversation, intact>>

\* Retrieval and the state snapshot are in.  A superseded turn stops here;
\* any other assembles its prompt and opens the provider stream.
Gathered(t) ==
  /\ pc[t] = "gather"
  /\ IF supersede[t]
       THEN Yield(t, <<"cancelled", "done">>, "return")
       ELSE pc' = [pc EXCEPT ![t] = "stream"] /\ UNCHANGED reading
  /\ UNCHANGED <<handles, asked, local, corpus, conversation, intact>>

-----------------------------------------------------------------------------
(* The provider stream.  ~woken: asyncio.wait did not see the supersede.   *)

OutcomeSent(t) == last[t] \in {"content", "direct_answer", "body_delta"}
AnswerSent(t)  == last[t] \in {"direct_answer", "body_delta"}
Streamed(t)    == deltas[t] > 0

\* What _drain may hand over, given what the reader has: nothing until line 1
\* is known, then the outcome, the direct answer and the body, in that order.
Drained(t) ==
  CASE AnswerSent(t)  -> {<< >>, <<"body_delta">>}
    [] OutcomeSent(t) /\ ~AnswerSent(t) ->
         {<< >>, <<"direct_answer">>, <<"direct_answer", "body_delta">>}
    [] OTHER ->
         {<< >>, <<"content">>, <<"content", "direct_answer">>,
          <<"content", "direct_answer", "body_delta">>}

\* What remains to be sent when the provider has finished: with no outcome
\* parsed by then, all of the answer at once, its parts present or not.
Remainder(t) ==
  IF OutcomeSent(t)
    THEN Drained(t)
    ELSE {<<"content">>, <<"content", "direct_answer">>, <<"content", "body_delta">>,
          <<"content", "direct_answer", "body_delta">>}

Delta(t) ==
  /\ pc[t] = "stream" /\ ~woken[t]
  /\ deltas[t] < MaxDeltas
  /\ deltas' = [deltas EXCEPT ![t] = @ + 1]
  /\ \E es \in Drained(t) :
       IF es = << >> THEN UNCHANGED <<pc, reading>> ELSE Yield(t, es, "stream")
  /\ UNCHANGED <<handles, asked, view, scope, prefix, woken, corpus,
                 conversation, intact>>

\* StopAsyncIteration: grounding, the envelope's tail and the timings.
ProviderDone(t) ==
  /\ pc[t] = "stream" /\ ~woken[t]
  /\ \E es \in Remainder(t) : Yield(t, es \o <<"tail", "timings">>, "record")
  /\ UNCHANGED <<handles, asked, local, corpus, conversation, intact>>

\* ProviderFailure, classified by whether anything was streamed.
ProviderFails(t) ==
  /\ pc[t] = "stream" /\ ~woken[t]
  /\ Yield(t, <<IF Streamed(t) THEN "incomplete" ELSE "provider-fault",
                "timings", "done">>, "return")
  /\ UNCHANGED <<handles, asked, local, corpus, conversation, intact>>

\* Slip: the timer runs between any two tokens.
WatchdogAlways(t) ==
  /\ pc[t] = "stream" /\ ~woken[t]
  /\ Yield(t, <<"timeout", "timings", "done">>, "return")
  /\ UNCHANGED <<handles, asked, local, corpus, conversation, intact>>

\* No first token in FIRST_TOKEN_TIMEOUT_S; there is no timer after it.
Watchdog(t) ==
  /\ pc[t] = "stream" /\ ~woken[t]
  /\ ~Streamed(t)
  /\ Yield(t, <<"timeout", "timings", "done">>, "return")
  /\ UNCHANGED <<handles, asked, local, corpus, conversation, intact>>

\* The provider stream is open from the request to the end of its loop.
ProviderOpen(t) ==
  pc[t] = "stream" \/ (pc[t] = "yield" /\ resume[t] = "stream")

\* The event loop runs the task that awaits the supersede event.
Wake(t) ==
  /\ ProviderOpen(t) /\ supersede[t] /\ ~woken[t]
  /\ woken' = [woken EXCEPT ![t] = TRUE]
  /\ UNCHANGED <<pc, handles, asked, reading, view, scope, prefix, deltas,
                 corpus, conversation, intact>>

\* Slip: a cancelled turn is recorded like a finished one.
CancelRecords(t) ==
  /\ pc[t] = "stream" /\ woken[t]
  /\ Yield(t, <<"cancelled">>, "record")
  /\ UNCHANGED <<handles, asked, local, corpus, conversation, intact>>

\* Slip: the signal is raced with the first token alone.
CancelBeforeFirstToken(t) ==
  /\ pc[t] = "stream" /\ woken[t] /\ ~Streamed(t)
  /\ Yield(t, <<"cancelled", "done">>, "return")
  /\ UNCHANGED <<handles, asked, local, corpus, conversation, intact>>

\* asyncio.wait saw the supersede: it wins over whatever was fetched.
Cancel(t) ==
  /\ pc[t] = "stream" /\ woken[t]
  /\ Yield(t, <<"cancelled", "done">>, "return")
  /\ UNCHANGED <<handles, asked, local, corpus, conversation, intact>>

-----------------------------------------------------------------------------
(* The reader and the end of the turn.                                     *)

\* The response takes the next event.
Deliver(t) ==
  /\ pc[t] = "yield" /\ pending[t] # << >>
  /\ last' = [last EXCEPT ![t] = Head(pending[t])]
  /\ pending' = [pending EXCEPT ![t] = Tail(@)]
  /\ UNCHANGED <<pc, handles, asked, resume, local, corpus, conversation, intact>>

\* It asks for more inside the provider loop: the next anext() is issued.
BackToStream(t) ==
  /\ pc[t] = "yield" /\ pending[t] = << >> /\ resume[t] = "stream"
  /\ pc' = [pc EXCEPT ![t] = "stream"]
  /\ UNCHANGED <<handles, asked, reading, local, corpus, conversation, intact>>

\* It asks for more after the timings: the exchange is recorded, then done.
Record(t) ==
  /\ pc[t] = "yield" /\ pending[t] = << >> /\ resume[t] = "record"
  /\ \E o \in ContentOutcomes :
       conversation' =
         [conversation EXCEPT ![home[t]] = RecordTurn(@, t, o)]
  /\ Yield(t, <<"done">>, "return")
  /\ UNCHANGED <<handles, asked, local, corpus, intact>>

\* It asks for more after done, and the generator returns.
Return(t) ==
  /\ pc[t] = "yield" /\ pending[t] = << >> /\ resume[t] = "return"
  /\ Leave(t, "complete")
  /\ UNCHANGED <<corpus, conversation, intact>>

\* The reader leaves.  A generator that never ran runs no `finally`, so its
\* handle stays in `_inflight`; a turn that leaves while it waits takes its
\* place in the chain with it.
Disconnect(t) ==
  \/ /\ pc[t] = "created"
     /\ pc' = [pc EXCEPT ![t] = "abandoned"]
     /\ UNCHANGED <<handles, asked, reading, local, corpus, conversation, intact>>
  \/ /\ pc[t] \in Waits
     /\ Leave(t, "cut")
     /\ intact' = [intact EXCEPT ![home[t]] = @ /\ pc[t] # "waiting"]
     /\ UNCHANGED <<corpus, conversation>>

\* Retrieval, or the provider outside its own failure type, raises.
Raise(t) ==
  /\ pc[t] = "gather" \/ (pc[t] = "stream" /\ ~woken[t])
  /\ Leave(t, "cut")
  /\ UNCHANGED <<corpus, conversation, intact>>

\* Every question was asked and every stream has ended.
AllOver ==
  /\ \A t \in Turns : pc[t] \in Over
  /\ publications = MaxPublications
  /\ UNCHANGED vars

Engine(t) ==
  \/ Wait(t) \/ Open(t) \/ PassGate(t) \/ Gathered(t)
  \/ Delta(t) \/ ProviderDone(t) \/ ProviderFails(t) \/ Watchdog(t)
  \/ Wake(t) \/ Cancel(t)
  \/ Deliver(t) \/ BackToStream(t) \/ Record(t) \/ Return(t)

Next ==
  \/ \E t \in Turns :
       \/ \E c \in Conversations, r \in Requests : Submit(t, c, r)
       \/ Engine(t) \/ Disconnect(t) \/ Raise(t)
  \/ \E v \in Views : Publish(v)
  \/ AllOver

Spec == Init /\ [][Next]_vars

(***************************************************************************)
(* Fairness.  The event loop runs every task that is ready, and a response *)
(* is read or given up: uvicorn sends as fast as the socket takes it and   *)
(* reports a closed one.  Retrieval ends, the first-token timer fires.     *)
(* Nothing is assumed of the provider, of askers or of ingest runs.        *)
(***************************************************************************)
Read(t) ==
  Deliver(t) \/ PassGate(t) \/ BackToStream(t) \/ Record(t) \/ Return(t)

Fairness ==
  \A t \in Turns :
    /\ WF_vars(Wait(t) \/ Open(t))
    /\ WF_vars(Gathered(t))
    /\ WF_vars(Wake(t))
    /\ WF_vars(Cancel(t))
    /\ WF_vars(Watchdog(t))
    /\ WF_vars(Read(t))

FairSpec == Spec /\ Fairness

-----------------------------------------------------------------------------
(* Properties.                                                             *)

\* The variables hold what the code's fields may hold; a conversation keeps
\* at most HISTORY_TURNS exchanges.
TypeOK ==
  /\ pc \in [Turns -> {"idle", "created"} \cup Waits \cup Over]
  /\ home \in [Turns -> Conversations \cup {NoConversation}]
  /\ request \in [Turns -> {NoSources} \cup SUBSET Sources]
  /\ previous \in [Turns -> Turns \cup {NoTurn}]
  /\ supersede \in [Turns -> BOOLEAN]
  /\ started \in [Turns -> BOOLEAN]
  /\ finished \in [Turns -> BOOLEAN]
  /\ inflight \in [Conversations -> Turns \cup {NoTurn}]
  /\ view \in [Turns -> {NoView} \cup SUBSET Sources]
  /\ scope \in [Turns -> SUBSET Sources]
  /\ prefix \in [Turns -> Turns \cup {NoTurn}]
  /\ woken \in [Turns -> BOOLEAN]
  /\ deltas \in [Turns -> 0..MaxDeltas]
  /\ pending \in [Turns -> Seq(Events)]
  /\ resume \in [Turns -> Resumes]
  /\ last \in [Turns -> Events \cup {"none"}]
  /\ conversation \in [Conversations -> ConversationState]
  /\ \A c \in Conversations : Len(conversation[c].turns) <= HistoryTurns
  /\ live \in {NoView} \cup SUBSET Sources
  /\ published \in {NoView} \cup SUBSET Sources
  /\ publications \in 0..MaxPublications
  /\ intact \in [Conversations -> BOOLEAN]

\* A turn of conversation c that holds its place: asked and not finished.
Unfinished(t) == pc[t] # "idle" /\ ~finished[t]

\* Opened and not over: the reader of such a turn is being served.
Running(t) == started[t] /\ ~finished[t]

\* Of all the questions of a conversation that are not over, only the newest
\* is not told to stop: one that lost its place in `_inflight` was superseded
\* first (turn.py, turn()).
NewestQuestionSurvives ==
  \A t \in Turns :
    Unfinished(t) /\ ~supersede[t] => inflight[home[t]] = t

\* Two turns of a conversation are never served at the same time as long as
\* the chain of waits is intact: every question found the one before it
\* already reading, and none left while it waited.
TurnsAlternate ==
  \A t, u \in Turns :
    t # u /\ home[t] = home[u] /\ Running(t) /\ Running(u)
      => ~intact[home[t]]

\* Where a turn is, in terms of its handle's two flags.
HandlesMatch ==
  \A t \in Turns :
    /\ finished[t] <=> pc[t] \in {"complete", "cut"}
    /\ pc[t] \in {"idle", "created", "waiting", "abandoned"} => ~started[t]
    /\ pc[t] \in {"gather", "stream", "yield"} => started[t]
    /\ pc[t] # "idle" => home[t] \in Conversations
    /\ pc[t] = "idle" => home[t] = NoConversation

\* An `_inflight` entry is an unfinished turn of that conversation.
InflightIsOwn ==
  \A c \in Conversations :
    inflight[c] # NoTurn => home[inflight[c]] = c /\ Unfinished(inflight[c])

\* While the chain of waits is intact, an unfinished turn that is not the
\* newest is being read, and the newest is the one question behind it, not
\* yet opened and bound to wait for it.
ChainOfWaits ==
  \A t \in Turns :
    Unfinished(t) =>
      LET n == inflight[home[t]] IN
        intact[home[t]] /\ n # t =>
          /\ started[t]
          /\ n # NoTurn /\ ~started[n] /\ previous[n] = t

\* From the moment a turn computes its query to the moment it is over, its
\* conversation stays as it read it: the prompt's history and narrowing count
\* belong to the query that was retrieved, and the carried scope is the one it
\* answers from (while the chain of waits is intact).
RetrievalMatchesConversation ==
  \A t \in Turns :
    ProviderOpen(t) \/ pc[t] = "gather" =>
      LET k == conversation[home[t]] IN
        intact[home[t]] => prefix[t] = RetrievalPrefix(k) /\ scope[t] = k.scope

\* A turn that names its sources retrieves from exactly those, all of them in
\* the view it holds, whatever other turns do to the carried scope meanwhile;
\* one that carries the scope holds it too while the chain is intact.
RetrievalScopeIsSound ==
  \A t \in Turns :
    ProviderOpen(t) \/ pc[t] = "gather" =>
      /\ request[t] # NoSources => scope[t] = request[t]
      /\ request[t] # NoSources \/ intact[home[t]] => scope[t] \subseteq view[t]
      /\ scope[t] # {}

\* Only a turn whose whole answer reached its reader is in a history, in the
\* conversation it was asked in, and once: never a cancelled, failed or cut
\* one.
OnlyAnswersAreRemembered ==
  \A c \in Conversations :
    LET h == conversation[c].turns IN
    \A i \in DOMAIN h :
      /\ home[h[i].question] = c
      /\ last[h[i].question] \in {"timings", "done"}
      /\ \A j \in DOMAIN h : h[i].question = h[j].question => i = j

\* The narrowing counter is the length of the run of narrowing questions that
\* ends the history (at least that, once the run fills it), and the symptom is
\* the question that began the run.
NarrowingMatchesHistory ==
  \A c \in Conversations :
    LET k == conversation[c]
        h == k.turns
        run == {i \in DOMAIN h :
                  \A j \in i..Len(h) : h[j].outcome = "needs-narrowing"}
        n == IF run = {} THEN 0
             ELSE Len(h) + 1 - (CHOOSE i \in run : \A j \in run : i <= j)
    IN  /\ k.narrowing_count = n \/ (n = HistoryTurns /\ k.narrowing_count >= n)
        /\ k.awaiting_narrowing <=> k.narrowing_count > 0
        /\ IF n = 0 THEN k.symptom_question = NoTurn
           ELSE k.narrowing_count = n =>
                  k.symptom_question = h[Len(h) + 1 - n].question

\* The state of a turn's stream as its reader sees it.
StreamState ==
  [t \in Turns |->
     CASE pc[t] = "complete" -> "complete"
       [] pc[t] \in {"cut", "abandoned"} -> "cut"
       [] OTHER -> "open"]

Streams == INSTANCE TurnStream WITH stream <- StreamState

\* The pipeline implements the event contract: each reader gets the events of
\* its turn in the order TurnStream allows, and a stream is complete only
\* after `done`.
StreamsKeepTheContract == Streams!Spec

\* A superseded turn ends even when the provider has gone silent, so a turn
\* that waits for it opens.
SupersededTurnsEnd ==
  \A t \in Turns : supersede[t] ~> pc[t] \in Over

\* Every question gets a first delta, a refusal, a timeout or an end: nothing
\* before the first token waits on the provider alone.
QuestionsAreNotLeftHanging ==
  \A t \in Turns : pc[t] = "created" ~> (Streamed(t) \/ pc[t] \in Over)
=============================================================================
