----------------------------- MODULE PageProofs -----------------------------
(***************************************************************************)
(* Proofs about the stores of the page. About WebThread, for any number of *)
(* questions, any order of the user, the network and the engine, and any   *)
(* length of history:                                                      *)
(*                                                                         *)
(*   Typed          the type invariant                                     *)
(*   OwnContext     no question is answered from another thread's          *)
(*                  exchanges (ContextIsOwn)                               *)
(*   HistoryIsTrue  the history holds each whole answer once, and besides  *)
(*                  these only parts of answers (HistoryHoldsAnswers)      *)
(*                                                                         *)
(* About ScopeStore, for any sources and any history of changes,           *)
(* questions, reloads, restarts and ingest runs:                           *)
(*                                                                         *)
(*   NarrowingSurvives  a narrowing of the scope is kept or offered back   *)
(*                      (NarrowingIsKept)                                  *)
(***************************************************************************)
EXTENDS WebThread, ScopeStore, SequenceTheorems, FiniteSetTheorems, TLAPS

Ids == {Null} \cup ({"web"} \X Nat)

Frames == Outcomes \cup {"content", "done"}

Record ==
  [thread : Nat, cid : Ids,
   state : {"busy", "settled", "failed"}, outcome : Outcomes \cup {"none", "cancelled"},
   content : BOOLEAN, stopped : BOOLEAN, aborted : BOOLEAN, accepted : BOOLEAN,
   service : {"none", "open", "over"}, context : SUBSET Nat,
   sent : {"none", "outcome", "content"}, frames : Seq(Frames)]

Entry == [turn : Nat, thread : Ids]

TypeOK ==
  /\ turns \in Seq(Record)
  /\ cleared \in Nat
  /\ conversationId \in Ids
  /\ minted \in Nat
  /\ controller \in Nat
  /\ history \in Seq(Entry)

-----------------------------------------------------------------------------
(* What makes ContextIsOwn inductive.                                      *)

\* An id is Null or one of those the thread minted.
Known(id) == id = Null \/ \E n \in 1..minted : id = <<"web", n>>

IdsAreMinted == Known(conversationId) /\ \A t \in Turns : Known(turns[t].cid)

\* The id the thread holds is the current thread's alone ...
IdIsCurrent ==
  \A t \in Turns : turns[t].cid = conversationId /\ conversationId # Null
                     => turns[t].thread = cleared

\* ... and no two threads share an id.
IdNamesThread ==
  \A t, u \in Turns : turns[t].cid = turns[u].cid /\ turns[t].cid # Null
                        => turns[t].thread = turns[u].thread

\* A conversation remembers the questions it was asked, and no others.
MemoryIsOwn == \A p \in memory : \E u \in Turns : p = <<ConversationOf(u), u>>

ContextInv ==
  /\ IdsAreMinted /\ IdIsCurrent /\ IdNamesThread /\ MemoryIsOwn
  /\ \A t \in Turns : turns[t].context \subseteq Turns
  /\ ContextIsOwn

-----------------------------------------------------------------------------
(* What makes HistoryHoldsAnswers inductive.                               *)

\* What the page would settle on: `done` is read after the outcome before it.
OutcomeAt(turn, i) == IF i = 1 THEN turn.outcome ELSE turn.frames[i - 1]

\* The engine has not sent `done` before it is through with the turn ...
NotYetDone(turn) ==
  turn.service # "over" => \A i \in DOMAIN turn.frames : turn.frames[i] # "done"

\* ... and this turn neither is nor will be settled as a whole answer.
NoAnswer(turn) ==
  /\ \A i \in DOMAIN turn.frames :
       turn.frames[i] = "done" => OutcomeAt(turn, i) \in {"incomplete", "dismissed"}
  /\ turn.state = "settled" => turn.outcome # "answered"

Recalled(t) == <<ConversationOf(t), t>> \in memory

\* The page is told of a whole answer only if the engine remembers it.
FramesInOrder ==
  \A t \in Turns : NotYetDone(turns[t]) /\ (Recalled(t) \/ NoAnswer(turns[t]))

\* A turn the history keeps.
Keeps(turn) ==
  /\ turn.state \in {"settled", "failed"} /\ ~turn.stopped
  /\ turn.outcome \in {"answered", "incomplete"}
  /\ Partial(turn) => turn.content

\* Every entry is such a turn.
EntriesAreAnswers ==
  \A i \in DOMAIN history :
    history[i].turn \in Turns /\ Keeps(turns[history[i].turn])

\* No question has two entries.
EntriesDiffer ==
  \A i, j \in DOMAIN history : history[i].turn = history[j].turn => i = j

\* No answer is missing while there is room.
AnswersAreKept ==
  Len(history) < Retention =>
    \A t \in Turns :
      (turns[t].state = "settled" /\ turns[t].outcome = "answered" /\ ~turns[t].stopped)
        => \E i \in DOMAIN history : history[i].turn = t

HistoryInv == FramesInOrder /\ EntriesAreAnswers /\ EntriesDiffer /\ AnswersAreKept

-----------------------------------------------------------------------------
(* What each action does to the turns.                                     *)

\* Two records of a turn that differ at most in what a stop writes.
Alike(q, r) ==
  /\ q.thread = r.thread /\ q.cid = r.cid /\ q.state = r.state
  /\ q.outcome = r.outcome /\ q.content = r.content /\ q.service = r.service
  /\ q.context = r.context /\ q.frames = r.frames

\* The type invariant holds at first: nothing was asked.
LEMMA TypeInit == Init => TypeOK
BY DEF Init, TypeOK, Ids, Entry

\* One turn of a list is replaced: the others and their number stay.
LEMMA Replaced ==
  ASSUME NEW ts \in Seq(Record), NEW t \in 1..Len(ts), NEW r \in Record
  PROVE  /\ [ts EXCEPT ![t] = r] \in Seq(Record)
         /\ Len([ts EXCEPT ![t] = r]) = Len(ts)
         /\ DOMAIN [ts EXCEPT ![t] = r] = 1..Len(ts)
         /\ [ts EXCEPT ![t] = r][t] = r
         /\ \A u \in 1..Len(ts) : u # t => [ts EXCEPT ![t] = r][u] = ts[u]
BY ExceptSeq

\* The same of the questions asked.
LEMMA PutTurn ==
  ASSUME turns \in Seq(Record), NEW t \in Turns, NEW r \in Record,
         turns' = [turns EXCEPT ![t] = r]
  PROVE  /\ turns' \in Seq(Record) /\ Len(turns') = Len(turns) /\ Turns' = Turns
         /\ turns'[t] = r
         /\ \A u \in Turns : u # t => turns'[u] = turns[u]
BY Replaced DEF Turns

\* Marking a turn stopped or aborted changes nothing else of it.
LEMMA MarkedStopped ==
  ASSUME NEW r \in Record, NEW q, q = [r EXCEPT !.stopped = TRUE]
  PROVE  q \in Record /\ Alike(q, r)
BY DEF Record, Alike

LEMMA MarkedAborted ==
  ASSUME NEW r \in Record, NEW q, q = [r EXCEPT !.aborted = TRUE]
  PROVE  q \in Record /\ Alike(q, r) /\ q.stopped = r.stopped
BY DEF Record, Alike

\* submit(): one busy turn more, of the current thread.
LEMMA SubmitStep ==
  ASSUME TypeOK, Submit
  PROVE  /\ TypeOK'
         /\ Len(turns') = Len(turns) + 1 /\ Turns = 1..Len(turns) /\ Turns' = 1..(Len(turns) + 1)
         /\ \A u \in Turns : turns'[u] = turns[u]
         /\ LET r == turns'[Len(turns) + 1] IN
              /\ r.thread = cleared /\ r.cid = conversationId /\ r.state = "busy"
              /\ r.outcome = "none" /\ r.service = "none" /\ r.context = {}
              /\ r.frames = << >>
         /\ UNCHANGED <<cleared, conversationId, minted, history, memory>>
<1>1. PICK r : /\ r.thread = cleared /\ r.cid = conversationId /\ r.state = "busy"
               /\ r.outcome = "none" /\ r.service = "none" /\ r.context = {}
               /\ r.frames = << >> /\ r \in Record
               /\ turns' = Append(turns, r)
  <2> DEFINE r == [thread  |-> cleared, cid |-> conversationId,
                   state |-> "busy", outcome |-> "none", content |-> FALSE,
                   stopped |-> FALSE, aborted |-> FALSE, accepted |-> FALSE,
                   service |-> "none", context |-> {}, sent |-> "none", frames |-> << >>]
  <2>2. << >> \in Seq(Frames)
    OBVIOUS
  <2>3. r \in Record
    BY <2>2 DEF Record, TypeOK
  <2>4. turns' = Append(turns, r)
    BY DEF Submit
  <2> QED
    BY <2>3, <2>4
<1>2. turns' \in Seq(Record) /\ Len(turns') = Len(turns) + 1
      /\ turns'[Len(turns) + 1] = r
      /\ \A u \in 1..Len(turns) : turns'[u] = turns[u]
  BY <1>1, AppendProperties DEF TypeOK
<1>3. controller' \in Nat
  BY <1>2 DEF Submit, TypeOK
<1> QED
  BY <1>1, <1>2, <1>3 DEF Submit, TypeOK, Turns

\* abort() and the stop: nothing but `stopped` and `aborted` changes.
LEMMA HaltTurn ==
  ASSUME NEW a \in 1..Len(turns), turns \in Seq(Record), controller \in Nat,
         NEW ts, ts = [turns EXCEPT ![a].stopped = TRUE],
         NEW us, us = Aborted(ts)
  PROVE  /\ us \in Seq(Record) /\ Len(us) = Len(turns)
         /\ \A u \in 1..Len(turns) :
              /\ Alike(us[u], turns[u])
              /\ u # a => us[u].stopped = turns[u].stopped
<1>1. turns[a] \in Record
  OBVIOUS
<1>2. PICK r : r = [turns[a] EXCEPT !.stopped = TRUE]
  OBVIOUS
<1>3. r \in Record /\ Alike(r, turns[a])
  BY <1>1, <1>2, MarkedStopped
<1>4. ts = [turns EXCEPT ![a] = r]
  BY <1>2
<1>5. /\ ts \in Seq(Record) /\ Len(ts) = Len(turns) /\ DOMAIN ts = 1..Len(turns)
      /\ ts[a] = r
      /\ \A u \in 1..Len(turns) : u # a => ts[u] = turns[u]
  BY ONLY <1>3, <1>4, turns \in Seq(Record), a \in 1..Len(turns), Replaced
<1>6. \A u \in 1..Len(turns) : /\ Alike(ts[u], turns[u])
                               /\ u # a => ts[u].stopped = turns[u].stopped
  BY <1>3, <1>5 DEF Alike
<1>7. /\ us \in Seq(Record) /\ Len(us) = Len(turns)
      /\ \A u \in 1..Len(turns) : Alike(us[u], ts[u]) /\ us[u].stopped = ts[u].stopped
  <2>1. CASE controller \notin 1..Len(turns)
    <3>1. us = ts
      BY <1>5, <2>1 DEF Aborted
    <3> QED
      BY <1>5, <3>1 DEF Alike
  <2>2. CASE controller \in 1..Len(turns)
    <3>1. ts[controller] \in Record
      BY <1>5, <2>2
    <3>2. PICK q : q = [ts[controller] EXCEPT !.aborted = TRUE]
      OBVIOUS
    <3>3. q \in Record /\ Alike(q, ts[controller]) /\ q.stopped = ts[controller].stopped
      BY <3>1, <3>2, MarkedAborted
    <3>4. us = [ts EXCEPT ![controller] = q]
      BY <2>2, <3>2 DEF Aborted
    <3>5. /\ us \in Seq(Record) /\ Len(us) = Len(turns)
          /\ us[controller] = q
          /\ \A u \in 1..Len(turns) : u # controller => us[u] = ts[u]
      BY ONLY <1>5, <2>2, <3>3, <3>4, Replaced
    <3> QED
      BY <3>3, <3>5 DEF Alike
  <2> QED
    BY <2>1, <2>2
<1> QED
  BY ONLY <1>6, <1>7 DEF Alike

\* stop() and clear(): only a turn that is not over is stopped.
LEMMA HaltStep ==
  ASSUME TypeOK, Stop \/ Clear
  PROVE  /\ TypeOK' /\ Turns' = Turns
         /\ \A u \in Turns : /\ Alike(turns'[u], turns[u])
                             /\ Over(u) => turns'[u].stopped = turns[u].stopped
         /\ UNCHANGED <<minted, history, memory>>
         /\ \/ UNCHANGED conversationId /\ UNCHANGED cleared
            \/ conversationId' = Null
<1>1. Active \in Turns => ~Over(Active)
  BY DEF Active, Turns, TypeOK
<1>2. Active # 0 => Active \in Turns
  BY DEF Active, OnScreen
<1>3. cleared' \in Nat /\ conversationId' \in Ids
  BY DEF TypeOK, Stop, Clear, Ids, IdAfterClear
<1>4. CASE Active # 0
  <2>1. Active \in 1..Len(turns) /\ Turns = 1..Len(turns)
    BY <1>2, <1>4 DEF Turns, TypeOK
  <2>2. PICK ts : ts = [turns EXCEPT ![Active].stopped = TRUE]
    OBVIOUS
  <2>3. turns' = Aborted(ts)
    BY <1>4, <2>2 DEF Stop, Clear
  <2>4. /\ turns' \in Seq(Record) /\ Len(turns') = Len(turns)
        /\ \A u \in 1..Len(turns) :
             /\ Alike(turns'[u], turns[u])
             /\ u # Active => turns'[u].stopped = turns[u].stopped
    BY <2>1, <2>2, <2>3, HaltTurn, ZenonT(40) DEF TypeOK
  <2>5. Turns' = Turns
    BY <2>1, <2>4 DEF Turns
  <2> QED
    BY <1>1, <1>3, <2>1, <2>4, <2>5 DEF TypeOK, Stop, Clear, IdAfterClear
<1>5. CASE Active = 0
  <2>1. turns' = turns
    BY <1>5 DEF Stop, Clear
  <2> QED
    BY <1>3, <1>5, <2>1 DEF TypeOK, Stop, Clear, Alike, Turns, IdAfterClear
<1> QED
  BY <1>4, <1>5

\* The fields of a turn that the engine does not write ...
Shown(q, r) ==
  /\ q.thread = r.thread /\ q.cid = r.cid /\ q.state = r.state
  /\ q.outcome = r.outcome /\ q.content = r.content /\ q.stopped = r.stopped

\* ... and those the page does not.
Served(q, r) ==
  /\ q.thread = r.thread /\ q.cid = r.cid /\ q.stopped = r.stopped
  /\ q.context = r.context /\ q.service = r.service

\* The two halves of FramesInOrder that a step of one turn keeps.
InOrder(q, r) ==
  /\ NotYetDone(r) => NotYetDone(q)
  /\ NotYetDone(r) /\ NoAnswer(r) => NoAnswer(q)

\* The turn opens.
LEMMA Opened ==
  ASSUME NEW r \in Record, NEW q, NEW c \in SUBSET Nat, r.service = "none",
         q = [r EXCEPT !.service = "open", !.context = c]
  PROVE  q \in Record /\ Shown(q, r) /\ InOrder(q, r)
<1>1. q \in Record /\ Shown(q, r) /\ q.frames = r.frames /\ q.service = "open"
  BY DEF Record, Shown
<1> QED
  BY <1>1 DEF InOrder, NotYetDone, NoAnswer, OutcomeAt, Shown

\* What the engine sends at a time are lists of frames.
LEMMA Batches ==
  /\ {<<"answered">>, <<"content">>, <<"answered", "content">>} \subseteq Seq(Frames)
  /\ {<< >>, <<"done">>, <<"incomplete", "done">>, <<"dismissed", "done">>} \subseteq Seq(Frames)
<1>1. PICK S : S = Frames
  OBVIOUS
<1>2. {"answered", "incomplete", "dismissed", "content", "done"} \subseteq S
  BY <1>1 DEF Frames, Outcomes
<1>3. <<"answered">> \in Seq(S) /\ <<"content">> \in Seq(S) /\ <<"answered", "content">> \in Seq(S)
  BY <1>2
<1>4. << >> \in Seq(S) /\ <<"done">> \in Seq(S)
  BY <1>2
<1>5. <<"incomplete", "done">> \in Seq(S) /\ <<"dismissed", "done">> \in Seq(S)
  BY <1>2
<1> QED
  BY <1>1, <1>3, <1>4, <1>5

\* The frames of two lists, one after the other.
LEMMA Appended ==
  ASSUME NEW a \in Seq(Frames), NEW b \in Seq(Frames), NEW f, f = a \o b
  PROVE  /\ f \in Seq(Frames) /\ Len(f) = Len(a) + Len(b)
         /\ \A i \in DOMAIN f :
              \/ i \in DOMAIN a /\ f[i] = a[i]
              \/ i - Len(a) \in DOMAIN b /\ i > Len(a) /\ f[i] = b[i - Len(a)]
<1>1. /\ f \in Seq(Frames) /\ Len(f) = Len(a) + Len(b)
      /\ \A i \in 1..Len(a) + Len(b) :
           f[i] = IF i <= Len(a) THEN a[i] ELSE b[i - Len(a)]
  BY ConcatProperties
<1>2. Len(a) \in Nat /\ Len(b) \in Nat /\ DOMAIN a = 1..Len(a) /\ DOMAIN b = 1..Len(b)
      /\ DOMAIN f = 1..Len(a) + Len(b)
  BY <1>1
<1> QED
  BY <1>1, <1>2

\* Frames before the last are streamed.
LEMMA Streamed ==
  ASSUME NEW r \in Record, NEW q, NEW f \in Seq(Frames), NEW fs \in Seq(Frames),
         NEW sent \in {"none", "outcome", "content"}, r.service = "open",
         q = [r EXCEPT !.sent = sent, !.frames = f],
         f = << >> \/ f = r.frames \o fs,
         \A i \in DOMAIN fs : fs[i] # "done"
  PROVE  q \in Record /\ Shown(q, r) /\ q.context = r.context /\ InOrder(q, r)
<1>1. q \in Record /\ Shown(q, r) /\ q.context = r.context /\ q.frames = f
      /\ q.service = r.service
  BY DEF Record, Shown
<1>2. ASSUME NotYetDone(r) PROVE \A i \in DOMAIN f : f[i] # "done"
  <2>1. r.frames \in Seq(Frames)
    BY DEF Record
  <2>2. \A i \in DOMAIN r.frames : r.frames[i] # "done"
    BY <1>2 DEF NotYetDone
  <2>3. PICK a : a = r.frames
    OBVIOUS
  <2>4. a \in Seq(Frames) /\ \A i \in DOMAIN a : a[i] # "done"
    BY <2>1, <2>2, <2>3
  <2>5. CASE f = a \o fs
    BY <2>4, <2>5, Appended
  <2>6. CASE f = << >>
    BY <2>6
  <2> QED
    BY <2>3, <2>5, <2>6
<1> QED
  BY <1>1, <1>2 DEF InOrder, NotYetDone, NoAnswer, Shown

\* The engine is through with the turn: unless it completed an answer the page is
\* told so, if it is told that this was all.
LEMMA Ended ==
  ASSUME NEW r \in Record, NEW q, NEW f \in Seq(Frames), NEW fs \in Seq(Frames),
         r.service = "open",
         q = [r EXCEPT !.service = "over", !.sent = "none", !.frames = f],
         f = << >> \/ f = r.frames \o fs
  PROVE  /\ q \in Record /\ Shown(q, r) /\ q.context = r.context
         /\ NotYetDone(q)
         /\ fs = << >> \/ fs = <<"incomplete", "done">> \/ fs = <<"dismissed", "done">>
              => InOrder(q, r)
<1>1. q \in Record /\ Shown(q, r) /\ q.context = r.context /\ q.frames = f
      /\ q.service = "over"
  BY DEF Record, Shown
<1>2. NotYetDone(q)
  BY <1>1 DEF NotYetDone
<1>3. r.frames \in Seq(Frames)
  BY DEF Record
<1>4. ASSUME NotYetDone(r), NEW i \in DOMAIN f, f[i] = "done",
             fs = << >> \/ fs = <<"incomplete", "done">> \/ fs = <<"dismissed", "done">>
      PROVE  i # 1 /\ f[i - 1] \in {"incomplete", "dismissed"}
  <2>1. \A j \in DOMAIN r.frames : r.frames[j] # "done"
    BY <1>4 DEF NotYetDone
  <2>2. PICK a : a = r.frames
    OBVIOUS
  <2>3. a \in Seq(Frames) /\ f = a \o fs
    BY <1>3, <1>4, <2>2
  <2>4. /\ Len(f) = Len(a) + Len(fs)
        /\ \A j \in DOMAIN f :
             \/ j \in DOMAIN a /\ f[j] = a[j]
             \/ j - Len(a) \in DOMAIN fs /\ j > Len(a) /\ f[j] = fs[j - Len(a)]
    BY <2>3, Appended
  <2>5. i - Len(a) \in DOMAIN fs /\ i > Len(a) /\ fs[i - Len(a)] = "done"
    BY <1>4, <2>1, <2>2, <2>4
  <2>6. DOMAIN fs = 1..2 /\ fs[1] \in {"incomplete", "dismissed"} /\ Len(fs) = 2
    BY <1>4, <2>5
  <2>7. Len(a) \in Nat /\ i \in Nat /\ i - Len(a) \in {1, 2}
    BY <1>4, <2>3, <2>5, <2>6
  <2>8. i = Len(a) + 2
    BY <2>5, <2>6, <2>7
  <2>9. i - 1 \in DOMAIN f /\ i - 1 \notin DOMAIN a /\ (i - 1) - Len(a) = 1
    BY <1>4, <2>3, <2>4, <2>6, <2>7, <2>8
  <2> QED
    BY <2>4, <2>6, <2>7, <2>8, <2>9
<1> QED
  BY <1>1, <1>2, <1>4 DEF InOrder, NoAnswer, OutcomeAt, Shown

\* What is sent to a page that has stopped reading is lost.
LEMMA SentType ==
  ASSUME TypeOK, NEW t \in Turns, NEW fs \in Seq(Frames)
  PROVE  /\ Sent(t, fs) \in Seq(Frames)
         /\ Sent(t, fs) = << >> \/ Sent(t, fs) = turns[t].frames \o fs
<1>1. turns[t] \in Record
  BY DEF TypeOK, Turns
<1>2. turns[t].frames \in Seq(Frames)
  BY <1>1 DEF Record
<1> QED
  BY <1>2, ConcatProperties DEF Sent

\* The engine writes one turn, and only what Shown does not name.
EngineMoves(t) ==
  /\ TypeOK' /\ Turns' = Turns
  /\ \A u \in Turns : u # t => turns'[u] = turns[u]
  /\ Shown(turns'[t], turns[t])
  /\ \/ turns'[t].context = turns[t].context
     \/ turns'[t].context = {u \in Turns : <<ConversationOf(t), u>> \in memory}
  /\ \/ memory' = memory /\ InOrder(turns'[t], turns[t])
     \/ memory' = memory \cup {<<ConversationOf(t), t>>} /\ NotYetDone(turns'[t])
  /\ UNCHANGED <<cleared, conversationId, minted, history>>

\* That is what each of its steps does.
LEMMA EngineStep ==
  ASSUME TypeOK, NEW t \in Turns, Engine(t)
  PROVE  EngineMoves(t)
<1> DEFINE remembered == {u \in Turns : <<ConversationOf(t), u>> \in memory}
<1>1. t \in 1..Len(turns) /\ Turns = 1..Len(turns) /\ turns[t] \in Record
  BY DEF Turns, TypeOK
<1>2. ASSUME NEW r \in Record, turns' = [turns EXCEPT ![t] = r], Shown(r, turns[t]),
             r.context = turns[t].context \/ r.context = remembered,
             \/ memory' = memory /\ InOrder(r, turns[t])
             \/ memory' = memory \cup {<<ConversationOf(t), t>>} /\ NotYetDone(r),
             UNCHANGED <<cleared, conversationId, minted, controller, history>>
      PROVE  EngineMoves(t)
  <2>1. /\ turns' \in Seq(Record) /\ Len(turns') = Len(turns) /\ Turns' = Turns
        /\ turns'[t] = r
        /\ \A u \in Turns : u # t => turns'[u] = turns[u]
    BY <1>2, PutTurn DEF TypeOK
  <2> QED
    BY <1>2, <2>1 DEF TypeOK, EngineMoves
<1>3. CASE Open(t)
  <2>1. remembered \in SUBSET Nat
    BY <1>1
  <2>2. PICK r : r = [turns[t] EXCEPT !.service = "open", !.context = remembered]
    OBVIOUS
  <2>3. turns' = [turns EXCEPT ![t] = r] /\ turns[t].service = "none" /\ memory' = memory
        /\ UNCHANGED <<cleared, conversationId, minted, controller, history>>
    BY <1>3, <2>2 DEF Open, Serve
  <2> HIDE DEF remembered
  <2>4. PICK q, c : q = turns[t] /\ c = remembered
    OBVIOUS
  <2>5. q \in Record /\ c \in SUBSET Nat /\ r = [q EXCEPT !.service = "open", !.context = c]
    BY <1>1, <2>1, <2>2, <2>4
  <2>6. r.context = c
    BY <2>5 DEF Record
  <2>7. r \in Record /\ Shown(r, q) /\ InOrder(r, q)
    BY <2>3, <2>4, <2>5, Opened
  <2> QED
    BY <1>2, <2>3, <2>4, <2>6, <2>7
<1>4. CASE Content(t)
  <2>1. PICK sent \in {"none", "outcome", "content"},
             fs \in {<<"answered">>, <<"content">>, <<"answered", "content">>} :
          Serve(t, [turns[t] EXCEPT !.sent = sent, !.frames = Sent(t, fs)])
    BY <1>4 DEF Content
  <2>2. fs \in Seq(Frames) /\ \A i \in DOMAIN fs : fs[i] # "done"
    <3>1. fs \in Seq(Frames)
      BY <2>1, Batches, Zenon
    <3>2. CASE fs = <<"answered">> \/ fs = <<"content">>
      BY <3>1, <3>2
    <3>3. CASE fs = <<"answered", "content">>
      BY <3>1, <3>3
    <3> QED
      BY <2>1, <3>2, <3>3
  <2>3. PICK f : f = Sent(t, fs)
    OBVIOUS
  <2>4. f \in Seq(Frames) /\ (f = << >> \/ f = turns[t].frames \o fs)
    BY <2>2, <2>3, SentType
  <2>5. PICK r : r = [turns[t] EXCEPT !.sent = sent, !.frames = f]
    OBVIOUS
  <2>6. turns' = [turns EXCEPT ![t] = r] /\ memory' = memory /\ turns[t].service = "open"
        /\ UNCHANGED <<cleared, conversationId, minted, controller, history>>
    BY <1>4, <2>1, <2>3, <2>5 DEF Content, Serve
  <2>7. r \in Record /\ Shown(r, turns[t]) /\ r.context = turns[t].context
        /\ InOrder(r, turns[t])
    <3>1. PICK q : q = turns[t]
      OBVIOUS
    <3>2. q \in Record /\ q.service = "open" /\ r = [q EXCEPT !.sent = sent, !.frames = f]
          /\ (f = << >> \/ f = q.frames \o fs)
      BY <1>1, <2>4, <2>5, <2>6, <3>1
    <3>3. r \in Record /\ Shown(r, q) /\ r.context = q.context /\ InOrder(r, q)
      BY ONLY <2>1, <2>2, <2>4, <3>2, Streamed
    <3> QED
      BY <3>1, <3>3
  <2> QED
    BY <1>2, <2>6, <2>7
<1>5. ASSUME NEW fs \in Seq(Frames), Ends(t, fs),
             \/ memory' = memory
                /\ (fs = << >> \/ fs = <<"incomplete", "done">> \/ fs = <<"dismissed", "done">>)
             \/ memory' = memory \cup {<<ConversationOf(t), t>>}
      PROVE  EngineMoves(t)
  <2>1. PICK f : f = Sent(t, fs)
    OBVIOUS
  <2>2. f \in Seq(Frames) /\ (f = << >> \/ f = turns[t].frames \o fs)
    BY <2>1, SentType
  <2>3. PICK r : r = [turns[t] EXCEPT !.service = "over", !.sent = "none", !.frames = f]
    OBVIOUS
  <2>4. turns' = [turns EXCEPT ![t] = r] /\ turns[t].service = "open"
        /\ UNCHANGED <<cleared, conversationId, minted, controller, history>>
    BY <1>5, <2>1, <2>3 DEF Ends, Serve
  <2>5. PICK q : q = turns[t]
    OBVIOUS
  <2>6. q \in Record /\ q.service = "open"
        /\ r = [q EXCEPT !.service = "over", !.sent = "none", !.frames = f]
        /\ (f = << >> \/ f = q.frames \o fs)
    BY <1>1, <2>2, <2>3, <2>4, <2>5
  <2>7. r \in Record /\ Shown(r, q) /\ r.context = q.context /\ NotYetDone(r)
        /\ (fs = << >> \/ fs = <<"incomplete", "done">> \/ fs = <<"dismissed", "done">>
              => InOrder(r, q))
    BY ONLY <2>2, <2>6, fs \in Seq(Frames), Ended
  <2> QED
    BY <1>2, <1>5, <2>4, <2>5, <2>7
<1>6. CASE Answer(t)
  <2>1. PICK rest \in {<< >>, <<"content">>} :
          Ends(t, (IF turns[t].sent = "none" THEN <<"answered">> ELSE << >>) \o rest \o <<"done">>)
    BY <1>6 DEF Answer
  <2>2. (IF turns[t].sent = "none" THEN <<"answered">> ELSE << >>) \o rest \o <<"done">> \in Seq(Frames)
    <3>1. /\ << >> \in Seq(Frames) /\ <<"content">> \in Seq(Frames)
          /\ <<"done">> \in Seq(Frames) /\ <<"answered">> \in Seq(Frames)
      BY Batches, Zenon
    <3>2. PICK first \in Seq(Frames) : first = IF turns[t].sent = "none" THEN <<"answered">> ELSE << >>
      BY <3>1
    <3>3. rest \in Seq(Frames)
      BY <3>1
    <3>4. first \o rest \in Seq(Frames)
      BY <3>3, ConcatProperties
    <3>5. first \o rest \o <<"done">> \in Seq(Frames)
      BY <3>1, <3>4, ConcatProperties
    <3> QED
      BY <3>2, <3>5
  <2>3. memory' = memory \cup {<<ConversationOf(t), t>>}
    BY <1>6 DEF Answer
  <2> QED
    BY <1>5, <2>1, <2>2, <2>3
<1>7. CASE BreakOff(t) \/ Dismiss(t) \/ Cut(t)
  <2>1. PICK fs \in {<< >>, <<"incomplete", "done">>, <<"dismissed", "done">>} : Ends(t, fs)
    BY <1>7 DEF BreakOff, Dismiss, Cut
  <2>2. fs \in Seq(Frames)
    BY <2>1, Batches, Zenon
  <2>3. memory' = memory
    BY <1>7 DEF BreakOff, Dismiss, Cut
  <2> QED
    BY <1>5, <2>1, <2>2, <2>3
<1> QED
  BY <1>3, <1>4, <1>6, <1>7 DEF Engine

\* A frame other than `done` is applied.
LEMMA Shows ==
  ASSUME NEW r \in Record, r.state = "busy", r.frames # << >>, Head(r.frames) # "done",
         NEW q, q = Applied(r, Head(r.frames))
  PROVE  q \in Record /\ Served(q, r) /\ q.state = r.state /\ InOrder(q, r)
<1>1. r.frames \in Seq(Frames)
  BY DEF Record
<1>2. PICK frame : frame = Head(r.frames)
  OBVIOUS
<1>3. PICK f : f = Tail(r.frames)
  OBVIOUS
<1>4. frame \in Frames /\ frame # "done" /\ f \in Seq(Frames)
  BY <1>1, <1>2, <1>3
<1>5. PICK c \in BOOLEAN : c = (r.content \/ frame = "content")
  BY Zenon
<1>6. PICK o : o = IF frame \in Outcomes THEN frame ELSE r.outcome
  OBVIOUS
<1>7. o \in Outcomes \cup {"none", "cancelled"}
  BY <1>6 DEF Record
<1>8. q = [r EXCEPT !.frames = f, !.content = c, !.outcome = o]
  BY <1>2, <1>3, <1>4, <1>5, <1>6 DEF Applied, Record
<1>9. q \in Record /\ Served(q, r) /\ q.state = r.state
      /\ q.frames = f /\ q.outcome = o
  BY <1>4, <1>7, <1>8 DEF Record, Served
<1>10. \A i \in DOMAIN f : i + 1 \in DOMAIN r.frames /\ f[i] = r.frames[i + 1] /\ i \in Nat \ {0}
  BY <1>1, <1>3
<1>11. NotYetDone(r) => NotYetDone(q)
  BY <1>9, <1>10 DEF NotYetDone, Served
<1>12. ASSUME NotYetDone(r), NoAnswer(r) PROVE NoAnswer(q)
  <2>1. ASSUME NEW i \in DOMAIN f, f[i] = "done"
        PROVE  OutcomeAt(q, i) \in {"incomplete", "dismissed"}
    <3>1. OutcomeAt(r, i + 1) \in {"incomplete", "dismissed"}
      BY <1>10, <1>12, <2>1 DEF NoAnswer
    <3>2. r.frames[i] \in {"incomplete", "dismissed"}
      BY <1>10, <2>1, <3>1 DEF OutcomeAt
    <3>3. CASE i = 1
      <4>1. frame = r.frames[1]
        BY <1>1, <1>2
      <4>2. o = frame
        BY <1>6, <3>2, <3>3, <4>1 DEF Outcomes
      <4> QED
        BY <1>9, <3>2, <3>3, <4>1, <4>2 DEF OutcomeAt
    <3>4. CASE i # 1
      <4>1. f[i - 1] = r.frames[i]
        BY <1>1, <1>3, <2>1, <3>4
      <4> QED
        BY <1>9, <3>2, <3>4, <4>1 DEF OutcomeAt
    <3> QED
      BY <3>3, <3>4
  <2> QED
    BY <1>9, <2>1 DEF NoAnswer
<1> QED
  BY <1>9, <1>11, <1>12 DEF InOrder

\* The ways a turn ends, in the fields the history looks at.
Ending(turn, r) ==
  /\ turn \in Record /\ Served(turn, r)
  /\ turn.state \in {"settled", "failed"}
  /\ NoAnswer(r) /\ turn.state = "settled" => turn.outcome # "answered"

\* `done` ends a turn.
LEMMA DoneEnds ==
  ASSUME NEW r \in Record, r.frames # << >>, Head(r.frames) = "done",
         NEW q, q = Applied(r, "done")
  PROVE  Ending(q, r)
<1>1. r.frames \in Seq(Frames) /\ Tail(r.frames) \in Seq(Frames)
  BY DEF Record
<1>2. PICK f : f = Tail(r.frames)
  OBVIOUS
<1>3. q = [r EXCEPT !.frames = f, !.state = "settled"]
  <2>1. q = [r EXCEPT !.frames = f, !.state = "settled", !.content = r.content]
    BY <1>2 DEF Applied, Outcomes, Record
  <2> QED
    BY <2>1 DEF Record
<1>4. q \in Record /\ Served(q, r) /\ q.state = "settled"
      /\ q.outcome = r.outcome
  BY <1>1, <1>2, <1>3 DEF Record, Served
<1>5. NoAnswer(r) => r.outcome \in {"incomplete", "dismissed"}
  <2>1. 1 \in DOMAIN r.frames /\ r.frames[1] = "done"
    BY <1>1
  <2> QED
    BY <2>1 DEF NoAnswer, OutcomeAt
<1> QED
  BY <1>4, <1>5 DEF Ending

\* A turn that fails, or is rejected, or was cancelled, ends.
LEMMA FailureEnds ==
  ASSUME NEW r \in Record
  PROVE  /\ Ending(Incomplete(r), r)
         /\ Ending([r EXCEPT !.state = "failed"], r)
         /\ Ending([r EXCEPT !.state = "settled", !.outcome = "cancelled"], r)
<1>1. PICK o : o = IF r.outcome = "none" THEN "incomplete" ELSE r.outcome
  OBVIOUS
<1>2. o \in Outcomes \cup {"none", "cancelled"}
  BY <1>1 DEF Record, Outcomes
<1>3. PICK q : q = Incomplete(r)
  OBVIOUS
<1>4. q = [r EXCEPT !.state = "failed", !.outcome = o]
  BY <1>1, <1>3 DEF Incomplete, Record
<1>5. q \in Record /\ Served(q, r) /\ q.state = "failed"
  BY <1>2, <1>4 DEF Record, Served
<1>6. Ending(q, r)
  BY <1>5 DEF Ending
<1>7. Ending([r EXCEPT !.state = "failed"], r)
  BY DEF Ending, Record, Served
<1>8. Ending([r EXCEPT !.state = "settled", !.outcome = "cancelled"], r)
  BY DEF Ending, Record, Served
<1> QED
  BY <1>3, <1>6, <1>7, <1>8

\* The history with one entry more, as far as it reaches.
Newest(all) == SubSeq(all, 1, IF Len(all) < Retention THEN Len(all) ELSE Retention)

\* A turn that ends is recorded if it is an answer or holds something.
LEMMA FinishStep ==
  ASSUME TypeOK, NEW t \in Turns, NEW turn, Ending(turn, turns[t]), Finish(t, turn)
  PROVE  /\ TypeOK' /\ Turns' = Turns
         /\ \A u \in Turns : u # t => turns'[u] = turns[u]
         /\ Served(turns'[t], turns[t]) /\ InOrder(turns'[t], turns[t])
         /\ \/ /\ \E e \in Entry : e.turn = t /\ history' = Newest(<<e>> \o history)
               /\ Keeps(turns'[t])
            \/ /\ history' = history
               /\ ~(/\ turns'[t].state = "settled" /\ turns'[t].outcome = "answered"
                    /\ ~turns'[t].stopped)
<1>1. t \in 1..Len(turns) /\ Turns = 1..Len(turns) /\ turns[t] \in Record
  BY DEF Turns, TypeOK
<1>2. PICK r, q : r = turns[t] /\ q = [turn EXCEPT
       !.frames = << >>, !.sent = "none", !.accepted = FALSE, !.aborted = FALSE]
  OBVIOUS
<1>3. turn \in Record /\ Served(turn, r) /\ turn.state \in {"settled", "failed"}
      /\ (NoAnswer(r) /\ turn.state = "settled" => turn.outcome # "answered")
  BY <1>2 DEF Ending
<1>4. << >> \in Seq(Frames)
  OBVIOUS
<1>5. q \in Record /\ Served(q, turn) /\ q.state = turn.state
      /\ q.outcome = turn.outcome /\ q.content = turn.content /\ q.frames = << >>
  BY <1>2, <1>3, <1>4 DEF Record, Served
<1>6. Served(q, r)
  BY <1>3, <1>5 DEF Served
<1>7. turns' = [turns EXCEPT ![t] = q]
  BY <1>2 DEF Finish
<1>8. /\ turns' \in Seq(Record) /\ Len(turns') = Len(turns) /\ Turns' = Turns
      /\ turns'[t] = q
      /\ \A u \in Turns : u # t => turns'[u] = turns[u]
  BY ONLY <1>5, <1>7, t \in Turns, TypeOK, PutTurn DEF TypeOK
<1>9. InOrder(q, r)
  BY <1>3, <1>5 DEF InOrder, NotYetDone, NoAnswer
<1>10. PICK e : e = [turn |-> t, thread |-> conversationId]
  OBVIOUS
<1>11. e \in Entry /\ e.turn = t
  BY <1>1, <1>10 DEF Entry, TypeOK
<1>12. controller' \in Nat
  BY DEF Finish, Released, TypeOK
<1>13. CASE Retained(turn)
  <2>1. history' = Newest(<<e>> \o history)
    BY <1>10, <1>13 DEF Finish, Newest
  <2>2. history' \in Seq(Entry)
    <3>1. PICK all : all = <<e>> \o history
      OBVIOUS
    <3>2. all \in Seq(Entry)
      BY <1>11, <3>1, ConcatProperties DEF TypeOK
    <3>3. PICK n : n = IF Len(all) < Retention THEN Len(all) ELSE Retention
      OBVIOUS
    <3>4. n \in 0..Len(all)
      BY <3>2, <3>3, BoundsAssumption
    <3>5. SubSeq(all, 1, n) \in Seq(Entry)
      BY <3>2, <3>4
    <3> QED
      BY <2>1, <3>1, <3>3, <3>5 DEF Newest
  <2>3. Keeps(q)
    BY <1>3, <1>5, <1>13 DEF Keeps, Retained, Partial, Served
  <2> QED
    BY <1>2, <1>6, <1>8, <1>9, <1>11, <1>12, <2>1, <2>2, <2>3 DEF Finish, TypeOK
<1>14. CASE ~Retained(turn)
  <2>1. history' = history
    BY <1>14 DEF Finish
  <2>2. ~(q.state = "settled" /\ q.outcome = "answered" /\ ~q.stopped)
    BY <1>5, <1>14 DEF Retained, Partial, Served
  <2> QED
    BY <1>2, <1>6, <1>8, <1>9, <1>12, <2>1, <2>2 DEF Finish, TypeOK
<1> QED
  BY <1>13, <1>14

\* A step of the page ends its turn, or leaves the turn's state and the history.
PageMoves(t) ==
  /\ TypeOK' /\ Turns' = Turns /\ ~Over(t)
  /\ \A u \in Turns : u # t => turns'[u] = turns[u]
  /\ Served(turns'[t], turns[t]) /\ InOrder(turns'[t], turns[t])
  /\ \/ /\ \E e \in Entry : e.turn = t /\ history' = Newest(<<e>> \o history)
        /\ Keeps(turns'[t])
     \/ /\ history' = history
        /\ ~(/\ turns'[t].state = "settled" /\ turns'[t].outcome = "answered"
             /\ ~turns'[t].stopped)
  /\ \/ conversationId' = conversationId /\ minted' = minted
     \/ /\ conversationId = Null /\ conversationId' = <<"web", minted + 1>>
        /\ minted' = minted + 1
  /\ UNCHANGED <<cleared, memory>>

\* That is what each of them does.
LEMMA PageStep ==
  ASSUME TypeOK, NEW t \in Turns, Page(t)
  PROVE  PageMoves(t)
<1>1. t \in 1..Len(turns) /\ Turns = 1..Len(turns) /\ turns[t] \in Record
  BY DEF Turns, TypeOK
<1>2. ~Over(t)
  BY DEF Page, Accept, Read, EndsShort, Break, Rejected, AbortLands
<1>3. PICK r : r = turns[t]
  OBVIOUS
<1>4. r \in Record /\ r.state = "busy"
  BY <1>1, <1>2, <1>3 DEF Over, Record
<1>5. ASSUME NEW turn, Ending(turn, r), Finish(t, turn)
      PROVE  PageMoves(t)
  <2>1. conversationId' = conversationId /\ minted' = minted /\ UNCHANGED <<cleared, memory>>
    BY <1>5 DEF Finish
  <2> QED
    BY <1>2, <1>3, <1>5, <2>1, FinishStep DEF PageMoves
<1>6. ASSUME NEW q \in Record, turns' = [turns EXCEPT ![t] = q], Served(q, r), q.state = r.state,
             InOrder(q, r), UNCHANGED <<cleared, controller, history, memory>>,
             \/ conversationId' = conversationId /\ minted' = minted
             \/ /\ conversationId = Null /\ conversationId' = <<"web", minted + 1>>
                /\ minted' = minted + 1
      PROVE  PageMoves(t)
  <2>1. /\ turns' \in Seq(Record) /\ Len(turns') = Len(turns) /\ Turns' = Turns
        /\ turns'[t] = q
        /\ \A u \in Turns : u # t => turns'[u] = turns[u]
    BY <1>6, PutTurn DEF TypeOK
  <2>2. minted' \in Nat /\ conversationId' \in Ids
    BY <1>6 DEF TypeOK, Ids
  <2> QED
    BY <1>2, <1>3, <1>4, <1>6, <2>1, <2>2 DEF TypeOK, PageMoves
<1>7. CASE Accept(t)
  <2>1. PICK q : q = [r EXCEPT !.accepted = TRUE]
    OBVIOUS
  <2>2. q \in Record /\ Served(q, r) /\ q.state = r.state /\ InOrder(q, r)
    BY <1>4, <2>1 DEF Record, Served, InOrder, NotYetDone, NoAnswer, OutcomeAt
  <2>3. turns' = [turns EXCEPT ![t] = q]
    BY <1>3, <1>7, <2>1 DEF Accept
  <2>4. /\ UNCHANGED <<cleared, controller, history, memory>>
        /\ \/ conversationId' = conversationId /\ minted' = minted
           \/ /\ conversationId = Null /\ conversationId' = <<"web", minted + 1>>
              /\ minted' = minted + 1
    BY <1>7 DEF Accept
  <2> QED
    BY <1>6, <2>2, <2>3, <2>4
<1>8. CASE Read(t)
  <2>1. r.frames # << >>
    BY <1>3, <1>8 DEF Read
  <2>2. CASE Head(r.frames) = "done"
    <3>1. PICK q : q = Applied(r, "done")
      OBVIOUS
    <3>2. Finish(t, q)
      BY <1>3, <1>8, <2>2, <3>1 DEF Read
    <3>3. Ending(q, r)
      BY <1>4, <2>1, <2>2, <3>1, DoneEnds
    <3> QED
      BY <1>5, <3>2, <3>3
  <2>3. CASE Head(r.frames) # "done"
    <3>1. PICK q : q = Applied(r, Head(r.frames))
      OBVIOUS
    <3>2. turns' = [turns EXCEPT ![t] = q]
          /\ UNCHANGED <<cleared, conversationId, minted, controller, history, memory>>
      BY <1>3, <1>8, <2>3, <3>1 DEF Read
    <3>3. q \in Record /\ Served(q, r) /\ q.state = r.state /\ InOrder(q, r)
      BY <1>4, <2>1, <2>3, <3>1, Shows
    <3> QED
      BY <1>6, <3>2, <3>3
  <2> QED
    BY <2>2, <2>3
<1>9. CASE EndsShort(t) \/ Break(t) \/ Rejected(t) \/ AbortLands(t)
  <2>1. PICK turn : /\ Finish(t, turn)
                    /\ \/ turn = Incomplete(r)
                       \/ turn = [r EXCEPT !.state = "failed"]
                       \/ turn = [r EXCEPT !.state = "settled", !.outcome = "cancelled"]
    BY <1>3, <1>9 DEF EndsShort, Break, Rejected, AbortLands, Thrown
  <2>2. Ending(turn, r)
    BY <1>4, <2>1, FailureEnds
  <2> QED
    BY <1>5, <2>1, <2>2
<1> QED
  BY <1>7, <1>8, <1>9 DEF Page

-----------------------------------------------------------------------------
(* The type invariant.                                                     *)

LEMMA TypeStep == TypeOK /\ [Next]_vars => TypeOK'
<1> SUFFICES ASSUME TypeOK, [Next]_vars PROVE TypeOK'
  OBVIOUS
<1>1. CASE User
  BY <1>1, SubmitStep, HaltStep DEF User
<1>2. ASSUME NEW t \in Turns, Page(t) PROVE TypeOK'
  BY <1>2, PageStep DEF PageMoves
<1>3. ASSUME NEW t \in Turns, Engine(t) PROVE TypeOK'
  BY <1>3, EngineStep DEF EngineMoves
<1>4. CASE UNCHANGED vars
  BY <1>4 DEF TypeOK, vars
<1> QED
  BY <1>1, <1>2, <1>3, <1>4 DEF Next

\* Every variable has its type in every reachable state.
THEOREM Typed == Spec => []TypeOK
BY TypeInit, TypeStep, PTL DEF Spec

-----------------------------------------------------------------------------
(* No question is answered from another thread's exchanges.                *)

LEMMA ContextInit == Init => ContextInv
BY DEF Init, ContextInv, IdsAreMinted, Known, IdIsCurrent, IdNamesThread, MemoryIsOwn,
       ContextIsOwn, Turns

\* Two questions in one conversation are of one thread.
LEMMA OneThread ==
  ASSUME TypeOK, IdsAreMinted, IdNamesThread, NEW t \in Turns, NEW u \in Turns,
         ConversationOf(t) = ConversationOf(u)
  PROVE  turns[t].thread = turns[u].thread
<1>1. CASE turns[t].cid # Null /\ turns[u].cid # Null
  BY <1>1 DEF ConversationOf, IdNamesThread
<1>2. CASE turns[t].cid = Null /\ turns[u].cid = Null
  <2>1. <<"engine", t>> = <<"engine", u>>
    BY <1>2 DEF ConversationOf
  <2> QED
    BY <2>1
<1>3. ASSUME NEW v \in Turns, NEW w \in Turns, ConversationOf(v) = ConversationOf(w),
             turns[v].cid = Null, turns[w].cid # Null
      PROVE  FALSE
  <2>1. PICK n \in 1..minted : turns[w].cid = <<"web", n>>
    BY <1>3 DEF IdsAreMinted, Known
  <2>2. <<"engine", v>> = <<"web", n>>
    BY <1>3, <2>1 DEF ConversationOf
  <2> QED
    BY <2>2
<1> QED
  BY <1>1, <1>2, <1>3

\* A question opens on exchanges of its own thread.
LEMMA OpensOnOwn ==
  ASSUME TypeOK, ContextInv, NEW t \in Turns, NEW u \in Turns,
         <<ConversationOf(t), u>> \in memory
  PROVE  turns[u].thread = turns[t].thread
<1>1. PICK v \in Turns : <<ConversationOf(t), u>> = <<ConversationOf(v), v>>
  BY DEF ContextInv, MemoryIsOwn
<1>2. v = u /\ ConversationOf(t) = ConversationOf(u)
  BY <1>1
<1> QED
  BY <1>2, OneThread DEF ContextInv

\* Steps that ask nothing: threads and request ids stay as they were sent.
LEMMA ContextKept ==
  ASSUME TypeOK, ContextInv, Turns' = Turns,
         \A u \in Turns : /\ turns'[u].thread = turns[u].thread
                          /\ turns'[u].cid = turns[u].cid,
         \A u \in Turns :
           \/ turns'[u].context = turns[u].context
           \/ turns'[u].context = {v \in Turns : <<ConversationOf(u), v>> \in memory},
         \A p \in memory' : p \in memory \/ \E u \in Turns : p = <<ConversationOf(u), u>>,
         \/ conversationId' = conversationId /\ minted' = minted /\ cleared' = cleared
         \/ conversationId' = Null /\ minted' = minted
         \/ /\ conversationId' = <<"web", minted + 1>> /\ minted' = minted + 1
            /\ cleared' = cleared
  PROVE  ContextInv'
<1>1. minted \in Nat
  BY DEF TypeOK
<1>2. IdsAreMinted'
  <2>1. minted' \in {minted, minted + 1}
    OBVIOUS
  <2>2. 1..minted \subseteq 1..minted'
    BY <1>1, <2>1
  <2>3. conversationId' = Null \/ \E n \in 1..minted' : conversationId' = <<"web", n>>
    <3>1. CASE conversationId' = conversationId
      BY <2>2, <3>1 DEF ContextInv, IdsAreMinted, Known
    <3>2. CASE conversationId' = <<"web", minted + 1>> /\ minted' = minted + 1
      <4>1. minted + 1 \in 1..minted'
        BY <1>1, <3>2
      <4> QED
        BY <3>2, <4>1
    <3> QED
      BY <3>1, <3>2
  <2>4. \A u \in Turns : turns'[u].cid = Null \/ \E n \in 1..minted' : turns'[u].cid = <<"web", n>>
    BY <2>2 DEF ContextInv, IdsAreMinted, Known
  <2> QED
    BY <2>3, <2>4 DEF IdsAreMinted, Known
<1>3. \A u \in Turns : turns[u].cid # <<"web", minted + 1>> \/ turns[u].cid = Null
  BY <1>1 DEF ContextInv, IdsAreMinted, Known
<1>4. IdIsCurrent'
  BY <1>3 DEF ContextInv, IdIsCurrent
<1>5. IdNamesThread'
  BY DEF ContextInv, IdNamesThread
<1>6. \A u \in Turns : ConversationOf(u)' = ConversationOf(u)
  BY DEF ConversationOf
<1>7. MemoryIsOwn'
  <2> SUFFICES ASSUME NEW p \in memory' PROVE \E u \in Turns : p = <<ConversationOf(u)', u>>
    BY DEF MemoryIsOwn
  <2> QED
    BY <1>6 DEF ContextInv, MemoryIsOwn
<1>8. ASSUME NEW u \in Turns
      PROVE  /\ turns'[u].context \subseteq Turns
             /\ \A v \in turns'[u].context : turns'[v].thread = turns'[u].thread
  <2>1. CASE turns'[u].context = turns[u].context
    BY <2>1 DEF ContextInv, ContextIsOwn
  <2>2. CASE turns'[u].context = {v \in Turns : <<ConversationOf(u), v>> \in memory}
    BY <2>2, OpensOnOwn
  <2> QED
    BY <2>1, <2>2
<1>9. ContextIsOwn' /\ \A u \in Turns' : turns'[u].context \subseteq Turns'
  BY <1>8 DEF ContextIsOwn
<1> QED
  BY <1>2, <1>4, <1>5, <1>7, <1>9 DEF ContextInv

\* A question more: it carries the id of the thread on the screen, and nothing
\* is remembered of it yet.
LEMMA ContextAsked ==
  ASSUME TypeOK, ContextInv, Submit
  PROVE  ContextInv'
<1>1. PICK n : n = Len(turns) + 1
  OBVIOUS
<1>2. /\ Turns' = Turns \cup {n} /\ n \notin Turns
      /\ \A u \in Turns : turns'[u] = turns[u]
      /\ turns'[n].thread = cleared /\ turns'[n].cid = conversationId /\ turns'[n].context = {}
      /\ UNCHANGED <<cleared, conversationId, minted, history, memory>>
  <2>1. Len(turns) \in Nat
    BY DEF TypeOK
  <2> QED
    BY <1>1, <2>1, SubmitStep
<1>3. IdsAreMinted'
  BY <1>2 DEF ContextInv, IdsAreMinted, Known
<1>4. IdIsCurrent'
  BY <1>2 DEF ContextInv, IdIsCurrent
<1>5. IdNamesThread'
  BY <1>2 DEF ContextInv, IdNamesThread, IdIsCurrent
<1>6. \A u \in Turns : ConversationOf(u)' = ConversationOf(u)
  BY <1>2 DEF ConversationOf
<1>7. MemoryIsOwn'
  <2> SUFFICES ASSUME NEW p \in memory' PROVE \E u \in Turns' : p = <<ConversationOf(u)', u>>
    BY DEF MemoryIsOwn
  <2> QED
    BY <1>2, <1>6 DEF ContextInv, MemoryIsOwn
<1>8. ContextIsOwn' /\ \A u \in Turns' : turns'[u].context \subseteq Turns'
  BY <1>2 DEF ContextInv, ContextIsOwn
<1> QED
  BY <1>3, <1>4, <1>5, <1>7, <1>8 DEF ContextInv

LEMMA ContextStep == TypeOK /\ ContextInv /\ [Next]_vars => ContextInv'
<1> SUFFICES ASSUME TypeOK, ContextInv, [Next]_vars PROVE ContextInv'
  OBVIOUS
<1>1. CASE Submit
  BY <1>1, ContextAsked
<1>2. CASE Stop \/ Clear
  <2>1. /\ Turns' = Turns /\ \A u \in Turns : Alike(turns'[u], turns[u])
        /\ UNCHANGED <<minted, memory>>
        /\ \/ UNCHANGED conversationId /\ UNCHANGED cleared
           \/ conversationId' = Null
    BY <1>2, HaltStep
  <2>2. \A u \in Turns : /\ turns'[u].thread = turns[u].thread
                         /\ turns'[u].cid = turns[u].cid
                         /\ turns'[u].context = turns[u].context
    BY <2>1 DEF Alike
  <2> QED
    BY <2>1, <2>2, ContextKept
<1>3. ASSUME NEW t \in Turns, Page(t) PROVE ContextInv'
  <2>1. PageMoves(t)
    BY <1>3, PageStep
  <2>2. \A u \in Turns : /\ turns'[u].thread = turns[u].thread
                         /\ turns'[u].cid = turns[u].cid
                         /\ turns'[u].context = turns[u].context
    BY <2>1 DEF PageMoves, Served
  <2>3. Turns' = Turns /\ UNCHANGED <<cleared, memory>>
        /\ \/ conversationId' = conversationId /\ minted' = minted
           \/ conversationId' = <<"web", minted + 1>> /\ minted' = minted + 1
    BY <2>1 DEF PageMoves
  <2> QED
    BY <2>2, <2>3, ContextKept
<1>4. ASSUME NEW t \in Turns, Engine(t) PROVE ContextInv'
  <2>1. /\ Turns' = Turns
        /\ \A u \in Turns : u # t => turns'[u] = turns[u]
        /\ Shown(turns'[t], turns[t])
        /\ \/ turns'[t].context = turns[t].context
           \/ turns'[t].context = {u \in Turns : <<ConversationOf(t), u>> \in memory}
        /\ memory' \in {memory, memory \cup {<<ConversationOf(t), t>>}}
        /\ UNCHANGED <<cleared, conversationId, minted>>
    BY <1>4, EngineStep DEF EngineMoves
  <2>2. \A u \in Turns : /\ turns'[u].thread = turns[u].thread
                         /\ turns'[u].cid = turns[u].cid
    BY <2>1 DEF Shown
  <2>3. \A u \in Turns :
          \/ turns'[u].context = turns[u].context
          \/ turns'[u].context = {v \in Turns : <<ConversationOf(u), v>> \in memory}
    BY <2>1
  <2>4. \A p \in memory' : p \in memory \/ \E u \in Turns : p = <<ConversationOf(u), u>>
    BY <2>1
  <2> QED
    BY <2>1, <2>2, <2>3, <2>4, ContextKept
<1>5. CASE UNCHANGED vars
  BY <1>5 DEF ContextInv, IdsAreMinted, Known, IdIsCurrent, IdNamesThread, MemoryIsOwn,
              ContextIsOwn, Turns, ConversationOf, vars
<1> QED
  BY <1>1, <1>2, <1>3, <1>4, <1>5 DEF Next, User

\* The engine answers no question from another thread's exchanges, however late
\* the responses of threads left behind arrive.
THEOREM OwnContext == Spec => []ContextIsOwn
<1>1. Spec => []ContextInv
  BY TypeInit, TypeStep, ContextInit, ContextStep, PTL DEF Spec
<1>2. ContextInv => ContextIsOwn
  BY DEF ContextInv
<1> QED
  BY <1>1, <1>2, PTL

-----------------------------------------------------------------------------
(* The history.                                                            *)

LEMMA HistoryInit == Init => HistoryInv
BY DEF Init, HistoryInv, FramesInOrder, EntriesAreAnswers, EntriesDiffer, AnswersAreKept, Turns

\* Steps that end no turn leave every ended turn as it was, and end none.
LEMMA HistoryKept ==
  ASSUME TypeOK, HistoryInv, history' = history, Turns \subseteq Turns',
         FramesInOrder',
         \A u \in Turns : Over(u) =>
           /\ turns'[u].state = turns[u].state /\ turns'[u].outcome = turns[u].outcome
           /\ turns'[u].content = turns[u].content /\ turns'[u].stopped = turns[u].stopped,
         \A u \in Turns' :
           (/\ turns'[u].state = "settled" /\ turns'[u].outcome = "answered"
            /\ ~turns'[u].stopped)
           => u \in Turns /\ Over(u)
  PROVE  HistoryInv'
<1>1. EntriesAreAnswers' /\ EntriesDiffer'
  BY DEF HistoryInv, EntriesAreAnswers, EntriesDiffer, Over, Keeps, Partial
<1>2. AnswersAreKept'
  BY DEF HistoryInv, AnswersAreKept
<1> QED
  BY <1>1, <1>2 DEF HistoryInv

\* A turn that ends and is kept heads the history; the oldest entry may fall off.
LEMMA HistoryGrows ==
  ASSUME TypeOK, HistoryInv, Turns' = Turns, NEW t \in Turns, ~Over(t),
         NEW e \in Entry, e.turn = t, history' = Newest(<<e>> \o history),
         \A u \in Turns : u # t => turns'[u] = turns[u],
         FramesInOrder', Keeps(turns'[t])
  PROVE  HistoryInv'
<1>1. PICK all : all = <<e>> \o history
  OBVIOUS
<1>2. all \in Seq(Entry) /\ Len(all) = Len(history) + 1
      /\ all[1] = e /\ \A i \in DOMAIN history : all[i + 1] = history[i]
  BY <1>1, ConcatProperties DEF TypeOK
<1>3. PICK n : n = IF Len(all) < Retention THEN Len(all) ELSE Retention
  OBVIOUS
<1>4. n \in 1..Len(all) /\ (n < Retention => n = Len(all))
  <2>1. Len(history) \in Nat
    BY DEF TypeOK
  <2> QED
    BY <1>2, <1>3, <2>1, BoundsAssumption
<1>5. history' = SubSeq(all, 1, n)
  BY <1>1, <1>3 DEF Newest
<1>6. Len(history') = n /\ DOMAIN history' = 1..n
      /\ \A i \in 1..n : history'[i] = all[i]
  BY <1>2, <1>4, <1>5
<1>7. /\ \A i \in 2..Len(all) : i - 1 \in DOMAIN history /\ all[i] = history[i - 1]
      /\ DOMAIN history = 1..Len(history)
  BY <1>2 DEF TypeOK
<1>8. \A i \in 1..n : i = 1 \/ i \in 2..Len(all)
  BY <1>2, <1>4
<1>9. EntriesAreAnswers'
  <2> SUFFICES ASSUME NEW i \in 1..n
               PROVE  all[i].turn \in Turns /\ Keeps(turns'[all[i].turn])
    BY <1>6 DEF EntriesAreAnswers
  <2>1. CASE i = 1
    BY <1>2, <2>1
  <2>2. CASE i \in 2..Len(all)
    <3>1. PICK u : u = all[i].turn
      OBVIOUS
    <3>2. u \in Turns /\ Keeps(turns[u])
      BY <1>7, <2>2, <3>1 DEF HistoryInv, EntriesAreAnswers
    <3>3. u # t
      BY <3>2 DEF Keeps, Over
    <3> QED
      BY <3>1, <3>2, <3>3
  <2> QED
    BY <1>8, <2>1, <2>2
<1>10. \A i \in 2..Len(all) : all[i].turn # t
  BY <1>7 DEF HistoryInv, EntriesAreAnswers, Keeps, Over
<1>11. EntriesDiffer'
  <2> SUFFICES ASSUME NEW i \in 1..n, NEW j \in 1..n, all[i].turn = all[j].turn
               PROVE  i = j
    BY <1>6 DEF EntriesDiffer
  <2>1. CASE i = 1 \/ j = 1
    BY <1>2, <1>8, <1>10, <2>1
  <2>2. CASE i \in 2..Len(all) /\ j \in 2..Len(all)
    <3>1. PICK a, b : a = i - 1 /\ b = j - 1
      OBVIOUS
    <3>2. a \in DOMAIN history /\ b \in DOMAIN history
          /\ history[a].turn = history[b].turn
      BY <1>7, <2>2, <3>1
    <3>3. a = b
      BY <3>2 DEF HistoryInv, EntriesDiffer
    <3> QED
      BY <3>1, <3>3
  <2> QED
    BY <1>8, <2>1, <2>2
<1>12. AnswersAreKept'
  <2> SUFFICES ASSUME n < Retention, NEW u \in Turns,
                      turns'[u].state = "settled", turns'[u].outcome = "answered",
                      ~turns'[u].stopped
               PROVE  \E i \in 1..n : all[i].turn = u
    BY <1>6 DEF AnswersAreKept
  <2>1. CASE u = t
    BY <1>2, <1>4, <2>1
  <2>2. CASE u # t
    <3>1. Len(history) < Retention
      BY <1>2, <1>4, BoundsAssumption DEF TypeOK
    <3>2. PICK i \in DOMAIN history : history[i].turn = u
      BY <2>2, <3>1 DEF HistoryInv, AnswersAreKept
    <3>3. i + 1 \in 1..n /\ all[i + 1] = history[i]
      BY <1>2, <1>4, <1>7, <3>2
    <3> QED
      BY <3>2, <3>3
  <2> QED
    BY <2>1, <2>2
<1> QED
  BY <1>9, <1>11, <1>12 DEF HistoryInv

\* A step of one turn keeps every turn in order.
LEMMA OrderKept ==
  ASSUME FramesInOrder, Turns' = Turns, NEW t \in Turns,
         \A u \in Turns : u # t => turns'[u] = turns[u],
         turns'[t].cid = turns[t].cid, memory \subseteq memory',
         \/ InOrder(turns'[t], turns[t])
         \/ <<ConversationOf(t), t>> \in memory' /\ NotYetDone(turns'[t])
  PROVE  FramesInOrder'
<1>1. \A u \in Turns : ConversationOf(u)' = ConversationOf(u)
  BY DEF ConversationOf
<1>2. \A u \in Turns : Recalled(u) => Recalled(u)'
  BY <1>1 DEF Recalled
<1>3. ASSUME NEW u \in Turns
      PROVE  NotYetDone(turns'[u]) /\ (Recalled(u)' \/ NoAnswer(turns'[u]))
  <2>1. CASE u # t
    BY <1>2, <2>1 DEF FramesInOrder
  <2>2. CASE u = t /\ InOrder(turns'[t], turns[t])
    BY <1>2, <2>2 DEF FramesInOrder, InOrder
  <2>3. CASE u = t /\ <<ConversationOf(t), t>> \in memory' /\ NotYetDone(turns'[t])
    BY <1>1, <2>3 DEF Recalled
  <2> QED
    BY <2>1, <2>2, <2>3
<1> QED
  BY <1>3 DEF FramesInOrder

LEMMA HistoryStep == TypeOK /\ HistoryInv /\ [Next]_vars => HistoryInv'
<1> SUFFICES ASSUME TypeOK, HistoryInv, [Next]_vars PROVE HistoryInv'
  OBVIOUS
<1>1. FramesInOrder
  BY DEF HistoryInv
<1>2. CASE Submit
  <2>1. PICK n : n = Len(turns) + 1
    OBVIOUS
  <2>2. /\ Turns' = Turns \cup {n}
        /\ \A u \in Turns : turns'[u] = turns[u]
        /\ turns'[n].state = "busy" /\ turns'[n].outcome = "none"
        /\ turns'[n].frames = << >>
        /\ history' = history /\ memory' = memory
    <3>1. Len(turns) \in Nat
      BY DEF TypeOK
    <3> QED
      BY <1>2, <2>1, <3>1, SubmitStep
  <2>3. NotYetDone(turns'[n]) /\ NoAnswer(turns'[n])
    BY <2>2 DEF NotYetDone, NoAnswer
  <2>4. \A u \in Turns : Recalled(u)' = Recalled(u)
    BY <2>2 DEF Recalled, ConversationOf
  <2>5. FramesInOrder'
    BY <1>1, <2>2, <2>3, <2>4 DEF FramesInOrder
  <2> QED
    BY <2>2, <2>5, HistoryKept DEF Over
<1>3. CASE Stop \/ Clear
  <2>1. /\ Turns' = Turns /\ history' = history /\ memory' = memory
        /\ \A u \in Turns : /\ Alike(turns'[u], turns[u])
                            /\ Over(u) => turns'[u].stopped = turns[u].stopped
    BY <1>3, HaltStep
  <2>2. \A u \in Turns : Recalled(u)' = Recalled(u)
    BY <2>1 DEF Recalled, ConversationOf, Alike
  <2>3. \A u \in Turns : /\ NotYetDone(turns[u]) => NotYetDone(turns'[u])
                         /\ NoAnswer(turns[u]) => NoAnswer(turns'[u])
    BY <2>1 DEF NotYetDone, NoAnswer, OutcomeAt, Alike
  <2>4. FramesInOrder'
    BY <1>1, <2>1, <2>2, <2>3 DEF FramesInOrder
  <2> QED
    BY <2>1, <2>4, HistoryKept DEF Over, Alike
<1>4. ASSUME NEW t \in Turns, Engine(t) PROVE HistoryInv'
  <2>1. EngineMoves(t)
    BY <1>4, EngineStep
  <2>2. /\ Turns' = Turns /\ history' = history
        /\ \A u \in Turns : u # t => turns'[u] = turns[u]
        /\ Shown(turns'[t], turns[t])
    BY <2>1 DEF EngineMoves
  <2>3. FramesInOrder'
    BY <1>1, <2>1, OrderKept DEF EngineMoves, Shown
  <2> QED
    BY <2>2, <2>3, HistoryKept DEF Over, Shown
<1>5. ASSUME NEW t \in Turns, Page(t) PROVE HistoryInv'
  <2>1. PageMoves(t)
    BY <1>5, PageStep
  <2>2. /\ Turns' = Turns /\ ~Over(t)
        /\ \A u \in Turns : u # t => turns'[u] = turns[u]
    BY <2>1 DEF PageMoves
  <2>3. FramesInOrder'
    BY <1>1, <2>1, OrderKept DEF PageMoves, Served
  <2>4. CASE /\ \E e \in Entry : e.turn = t /\ history' = Newest(<<e>> \o history)
             /\ Keeps(turns'[t])
    <3>1. PICK e \in Entry : e.turn = t /\ history' = Newest(<<e>> \o history)
      BY <2>4
    <3> QED
      BY <2>2, <2>3, <2>4, <3>1, HistoryGrows
  <2>5. CASE /\ history' = history
             /\ ~(/\ turns'[t].state = "settled" /\ turns'[t].outcome = "answered"
                  /\ ~turns'[t].stopped)
    BY <2>2, <2>3, <2>5, HistoryKept DEF Over
  <2> QED
    BY <2>1, <2>4, <2>5 DEF PageMoves
<1>6. CASE UNCHANGED vars
  BY <1>6 DEF HistoryInv, FramesInOrder, EntriesAreAnswers, EntriesDiffer, AnswersAreKept,
              Turns, Recalled, ConversationOf, vars
<1> QED
  BY <1>2, <1>3, <1>4, <1>5, <1>6 DEF Next, User

\* What the invariant says is what the history promises: entries that differ are
\* as many as the questions they name.
LEMMA HistoryFollows == TypeOK /\ HistoryInv => HistoryHoldsAnswers
<1> SUFFICES ASSUME TypeOK, HistoryInv PROVE HistoryHoldsAnswers
  OBVIOUS
<1> DEFINE kept == {history[i].turn : i \in DOMAIN history}
<1>1. Cardinality(kept) = Len(history)
  <2>1. PICK n : n = Len(history)
    OBVIOUS
  <2>2. n \in Nat /\ DOMAIN history = 1..n
    BY <2>1 DEF TypeOK
  <2>3. PICK f : f = [i \in 1..n |-> history[i].turn]
    OBVIOUS
  <2>4. PICK S : S = kept
    OBVIOUS
  <2>5. \A i, j \in 1..n : f[i] = f[j] => i = j
    BY <2>2, <2>3 DEF HistoryInv, EntriesDiffer
  <2>6. f \in [1..n -> S] /\ \A s \in S : \E i \in 1..n : f[i] = s
    BY <2>2, <2>3, <2>4
  <2>7. f \in Bijection(1..n, S)
    BY <2>5, <2>6 DEF Bijection, Injection, Surjection, IsInjective
  <2> QED
    BY <2>1, <2>2, <2>4, <2>7, FS_CountingElements DEF ExistsBijection
<1>2. \A t \in kept : t \in Turns /\ Keeps(turns[t])
  BY DEF HistoryInv, EntriesAreAnswers
<1>3. \A t \in kept :
         /\ Over(t) /\ ~turns[t].stopped /\ turns[t].outcome \in {"answered", "incomplete"}
         /\ IF Partial(turns[t]) THEN turns[t].content ELSE <<ConversationOf(t), t>> \in memory
  <2> TAKE t \in kept
  <2>1. t \in Turns /\ Keeps(turns[t])
    BY <1>2
  <2>2. Recalled(t) \/ NoAnswer(turns[t])
    BY <2>1 DEF HistoryInv, FramesInOrder
  <2> QED
    BY <2>1, <2>2 DEF Keeps, Over, Partial, Recalled, NoAnswer
<1>4. \A t \in Turns :
         Over(t) /\ turns[t].outcome = "answered" /\ ~Partial(turns[t]) /\ ~turns[t].stopped
           /\ Len(history) < Retention => t \in kept
  <2> SUFFICES ASSUME NEW t \in Turns, Over(t), turns[t].outcome = "answered",
                      ~Partial(turns[t]), ~turns[t].stopped, Len(history) < Retention
               PROVE  t \in kept
    OBVIOUS
  <2>1. turns[t].state = "settled"
    BY DEF Over, Partial
  <2> QED
    BY <2>1 DEF HistoryInv, AnswersAreKept
<1> QED
  BY <1>1, <1>3, <1>4 DEF HistoryHoldsAnswers

\* The history holds each whole answer once, empty or not, all of them remembered
\* by the engine, and besides them only parts of answers that hold something.
THEOREM HistoryIsTrue == Spec => []HistoryHoldsAnswers
<1>1. Spec => [](TypeOK /\ HistoryInv)
  BY TypeInit, TypeStep, HistoryInit, HistoryStep, PTL DEF Spec
<1> QED
  BY <1>1, HistoryFollows, PTL

-----------------------------------------------------------------------------
(* The scope. What is kept in localStorage must hold for the narrowing as   *)
(* well as what the page shows, since either may be all that is left of it. *)

Scopes == SUBSET Sources

Offers == Scopes \cup {None}

Pages == [loaded : BOOLEAN, available : Scopes, selected : Scopes, seen : Scopes,
          asked : Ages, released : Offers]

Records == [selected : Scopes, seen : Scopes, known : Scopes, asked : Ages, released : Offers]

\* What a scope and an offer do for the narrowing, when `known` is reported.
Narrows(in, out, selected, released, known) ==
  LET narrowing == IF released = None THEN selected ELSE released IN
    /\ in \subseteq narrowing \cap known
    /\ narrowing \cap out = {}
    /\ released # None => selected = known

PageInv ==
  /\ page \in Pages
  /\ page.selected \subseteq page.available
  /\ ~page.loaded => page.available = {} /\ page.released = None
  /\ page.loaded => Narrows(chosen, left, page.selected, page.released, page.available)

StoredInv ==
  stored # None =>
    /\ stored \in Records
    /\ Narrows(chosen, left, stored.selected, stored.released, stored.known)

ScopeInv ==
  /\ reported \in Scopes
  /\ {chosen, left} \subseteq Scopes
  /\ PageInv
  /\ StoredInv

-----------------------------------------------------------------------------
LEMMA NewPageInv == NewPage \in Pages
BY DEF NewPage, Pages, Offers, Scopes, Ages

\* A page that keeps the narrowing leaves a record that does.
LEMMA PersistKeeps ==
  ASSUME page' \in Pages, stored' = Persisted(page'),
         Narrows(chosen', left', page'.selected, page'.released, page'.available),
         page'.selected \subseteq page'.available,
         ~page'.loaded => page'.available = {} /\ page'.released = None
  PROVE  PageInv' /\ StoredInv'
<1>1. Persisted(page') \in Records
  BY DEF Persisted, Records, Pages
<1>2. /\ Persisted(page').selected = page'.selected /\ Persisted(page').released = page'.released
      /\ Persisted(page').known = page'.available
  BY DEF Persisted
<1>3. PageInv'
  BY DEF PageInv
<1>4. StoredInv'
  BY <1>1, <1>2 DEF StoredInv
<1> QED BY <1>3, <1>4

-----------------------------------------------------------------------------
LEMMA FirstLoadKeeps == ScopeInv /\ Load /\ LoadFirst => ScopeInv'
<1> SUFFICES ASSUME ScopeInv, Load, LoadFirst PROVE ScopeInv'
  OBVIOUS
<1> DEFINE p == [page EXCEPT !.loaded = TRUE, !.available = reported, !.selected = reported]
<1>1. p \in Pages /\ p.loaded /\ p.selected = reported /\ p.released = None /\ p.available = reported
  BY DEF ScopeInv, PageInv, Pages, Load
<1>2. Persist(p) /\ chosen' = {} /\ left' = {} /\ reported' = reported
  BY DEF LoadFirst, Load
<1>3. Narrows(chosen', left', p.selected, p.released, p.available)
  BY <1>1, <1>2 DEF Narrows
<1>4. PageInv' /\ StoredInv'
  BY <1>1, <1>2, <1>3, PersistKeeps DEF Persist
<1> QED BY <1>2, <1>4 DEF ScopeInv, Scopes

\* What load() makes of a stored narrowing that is not moot: the record's scope
\* does not cover what was reported, so what remains of it is restored or offered.
LEMMA Surviving ==
  ASSUME ScopeInv, stored # None, ~Moot
  PROVE  /\ Offered # None => Offered \subseteq reported
         /\ Offered # None => (IF NewSession THEN reported ELSE Restored) = reported
         /\ LET narrowing == IF Offered = None
                               THEN IF NewSession THEN reported ELSE Restored
                               ELSE Offered
            IN  chosen \cap reported \subseteq narrowing /\ narrowing \cap left = {}
<1>1. /\ stored \in Records /\ reported \in Scopes
      /\ Narrows(chosen, left, stored.selected, stored.released, stored.known)
  BY DEF ScopeInv, StoredInv
<1>2. chosen \cap reported # {} /\ left \cap stored.known \cap reported # {}
  BY DEF Moot
<1>3. None \notin Scopes
  BY NoneAssumption DEF Scopes
<1>4. CASE stored.released = None
  <2>1. chosen \subseteq stored.selected /\ stored.selected \cap left = {}
    BY <1>1, <1>4 DEF Narrows
  <2>2. ~CoveredAll /\ Restored = Remaining /\ Remaining # reported
    BY <1>2, <2>1 DEF CoveredAll, Restored, Remaining
  <2>3. /\ chosen \cap reported \subseteq Remaining /\ Remaining \cap left = {}
        /\ Remaining # {} /\ Remaining \subseteq reported
    BY <1>2, <2>1 DEF Remaining
  <2>4. Remaining # None
    BY <1>1, <1>3 DEF Remaining, Records, Scopes
  <2>5. Offered = IF NewSession THEN Remaining ELSE None
    BY <1>4, <2>2, <2>3 DEF Offered
  <2> QED BY <2>2, <2>3, <2>4, <2>5
<1>5. CASE stored.released # None
  <2>1. /\ chosen \subseteq stored.released /\ stored.released \cap left = {}
        /\ stored.selected = stored.known
    BY <1>1, <1>5 DEF Narrows
  <2>2. Restored = reported
    BY <2>1 DEF CoveredAll, Restored, Remaining
  <2>3. stored.released \cap reported # {}
    BY <1>2, <2>1
  <2>4. Offered = stored.released \cap reported
    BY <1>5, <2>2, <2>3 DEF Offered
  <2>5. Offered # None
    BY <1>1, <1>3, <1>5, <2>4 DEF Records, Offers, Scopes
  <2> QED BY <2>1, <2>2, <2>4, <2>5
<1> QED BY <1>4, <1>5

\* Also of a moot one: what is offered comes with every source in scope.
LEMMA OfferedWithAll ==
  ASSUME ScopeInv, stored # None, Offered # None
  PROVE  (IF NewSession THEN reported ELSE Restored) = reported
<1>1. CASE NewSession
  BY <1>1
<1>2. CASE ~NewSession
  <2>1. stored.released # None
    BY <1>2 DEF Offered
  <2>2. stored.selected = stored.known
    BY <2>1 DEF ScopeInv, StoredInv, Narrows
  <2> QED BY <1>2, <2>2 DEF Restored, CoveredAll, Remaining
<1> QED BY <1>1, <1>2

LEMMA StoredLoadKeeps == ScopeInv /\ Load /\ LoadStored => ScopeInv'
<1> SUFFICES ASSUME ScopeInv, Load, LoadStored PROVE ScopeInv'
  OBVIOUS
<1> DEFINE all == IF NewSession THEN reported ELSE Restored
           p == [loaded |-> TRUE, available |-> reported, selected |-> all,
                 seen |-> stored.seen, asked |-> stored.asked, released |-> Offered]
<1>1. /\ stored # None /\ stored \in Records /\ reported \in Scopes
      /\ chosen \in Scopes /\ left \in Scopes
  BY DEF LoadStored, ScopeInv, StoredInv
<1>2. Restored \in Scopes /\ Offered \in Offers /\ all \subseteq reported
  BY <1>1 DEF Restored, Remaining, Offered, Offers, Scopes, Records
<1>3. p \in Pages
  BY <1>1, <1>2 DEF Pages, Records
<1>4. /\ Persist(p) /\ reported' = reported /\ page' = p
      /\ chosen' = IF Moot THEN {} ELSE chosen \cap reported
      /\ left' = IF Moot THEN {} ELSE left \cup (reported \ Narrowing(p))
  BY DEF LoadStored, Load, Persist
<1>5. Narrowing(p) = IF Offered = None THEN all ELSE Offered
  BY DEF Narrowing
<1>6. Narrows(chosen', left', p.selected, p.released, p.available)
  <2>1. Offered # None => all = reported
    BY <1>1, OfferedWithAll
  <2>2. CASE Moot
    BY <1>4, <2>1, <2>2 DEF Narrows
  <2>3. CASE ~Moot
    <3>1. chosen \cap reported \subseteq Narrowing(p) /\ Narrowing(p) \cap left = {}
      BY <1>1, <1>5, <2>3, Surviving
    <3>2. chosen' \subseteq Narrowing(p) \cap reported
      BY <1>4, <2>3, <3>1
    <3>3. Narrowing(p) \subseteq reported
      BY <1>1, <1>2, <1>5, <2>3, Surviving
    <3>4. Narrowing(p) \cap left' = {}
      BY <1>4, <2>3, <3>1, <3>3
    <3> QED BY <1>5, <2>1, <3>2, <3>4 DEF Narrows
  <2> QED BY <2>2, <2>3
<1>7. PageInv' /\ StoredInv'
  BY <1>2, <1>3, <1>4, <1>6, PersistKeeps DEF Persist
<1>8. chosen' \in Scopes /\ left' \in Scopes
  BY <1>1, <1>4 DEF Scopes
<1> QED BY <1>1, <1>4, <1>7, <1>8 DEF ScopeInv

-----------------------------------------------------------------------------
LEMMA ChangeKeeps ==
  ASSUME ScopeInv, NEW ids \in SUBSET page.available, Change(ids)
  PROVE  ScopeInv'
<1> DEFINE p == [page EXCEPT !.selected = ids, !.released = None]
<1>1. /\ page \in Pages /\ page.available \in Scopes /\ ids \in Scopes
      /\ ~page.loaded => page.available = {}
  BY DEF ScopeInv, PageInv, Pages, Scopes
<1>2. /\ p \in Pages /\ p.selected = ids /\ p.released = None /\ p.available = page.available
      /\ p.loaded = page.loaded
  BY <1>1 DEF Pages, Offers
<1>3. /\ Persist(p) /\ chosen' = ids /\ left' = page.available \ ids /\ reported' = reported
  BY DEF Change
<1>4. Narrows(chosen', left', p.selected, p.released, p.available)
  BY <1>2, <1>3 DEF Narrows
<1>5. ~p.loaded => p.available = {} /\ p.released = None
  BY <1>1, <1>2
<1>6. PageInv' /\ StoredInv'
  BY <1>2, <1>3, <1>4, <1>5, PersistKeeps DEF Persist
<1> QED BY <1>1, <1>3, <1>6 DEF ScopeInv, Scopes

LEMMA ReinstateKeeps == ScopeInv /\ Reinstate => ScopeInv'
<1> SUFFICES ASSUME ScopeInv, Reinstate PROVE ScopeInv'
  OBVIOUS
<1> DEFINE p == [page EXCEPT !.selected = page.released \cap page.available, !.released = None]
<1>1. /\ page \in Pages /\ page.loaded /\ page.released # None
      /\ Narrows(chosen, left, page.selected, page.released, page.available)
  BY DEF ScopeInv, PageInv, Reinstate
<1>2. /\ p \in Pages /\ p.released = None /\ p.available = page.available /\ p.loaded
      /\ p.selected = page.released \cap page.available
  BY <1>1 DEF Pages, Offers, Scopes
<1>3. /\ Persist(p) /\ reported' = reported /\ chosen' = chosen /\ left' = left
  BY DEF Reinstate
<1>4. Narrows(chosen', left', p.selected, p.released, p.available)
  BY <1>1, <1>2, <1>3 DEF Narrows
<1>5. PageInv' /\ StoredInv'
  BY <1>2, <1>3, <1>4, PersistKeeps DEF Persist
<1> QED BY <1>3, <1>5 DEF ScopeInv

LEMMA SubmitKeeps == ScopeInv /\ NoteQuestionSubmitted => ScopeInv'
<1> SUFFICES ASSUME ScopeInv, NoteQuestionSubmitted PROVE ScopeInv'
  OBVIOUS
<1> DEFINE p == [page EXCEPT !.asked = "recent", !.seen = @ \cup page.available]
<1>1. /\ page \in Pages /\ page.loaded /\ page.selected \subseteq page.available
      /\ Narrows(chosen, left, page.selected, page.released, page.available)
  BY DEF ScopeInv, PageInv, NoteQuestionSubmitted
<1>2. /\ p \in Pages /\ p.released = page.released /\ p.available = page.available
      /\ p.loaded /\ p.selected = page.selected /\ page.selected \subseteq page.available
  BY <1>1 DEF Pages, Scopes, Ages
<1>3. /\ Persist(p) /\ reported' = reported /\ chosen' = chosen /\ left' = left
  BY DEF NoteQuestionSubmitted
<1>4. Narrows(chosen', left', p.selected, p.released, p.available)
  BY <1>1, <1>2, <1>3 DEF Narrows
<1>5. PageInv' /\ StoredInv'
  BY <1>2, <1>3, <1>4, PersistKeeps DEF Persist
<1> QED BY <1>3, <1>5 DEF ScopeInv

\* Hours change nothing but an age.
LEMMA HoursKeep == ScopeInv /\ EightHours => ScopeInv'
<1> SUFFICES ASSUME ScopeInv, EightHours PROVE ScopeInv'
  OBVIOUS
<1> DEFINE aged(r) == [r EXCEPT !.asked = IF @ = "recent" THEN "old" ELSE @]
<1>1. /\ page' = aged(page) /\ stored' = (IF stored = None THEN None ELSE aged(stored))
      /\ reported' = reported /\ chosen' = chosen /\ left' = left
  BY DEF EightHours
<1>2. PageInv'
  <2>1. page \in Pages
    BY DEF ScopeInv, PageInv
  <2>2. /\ page' \in Pages /\ page'.loaded = page.loaded /\ page'.available = page.available
        /\ page'.selected = page.selected /\ page'.released = page.released
    BY <1>1, <2>1 DEF Pages, Ages
  <2> QED BY <1>1, <2>2 DEF ScopeInv, PageInv, Narrows
<1>3. StoredInv'
  <2>1. CASE stored = None
    BY <1>1, <2>1 DEF StoredInv
  <2>2. CASE stored # None
    <3>1. stored \in Records
      BY <2>2 DEF ScopeInv, StoredInv
    <3>2. /\ stored' \in Records /\ stored'.known = stored.known
          /\ stored'.selected = stored.selected /\ stored'.released = stored.released
      BY <1>1, <2>2, <3>1 DEF Records, Ages
    <3> QED BY <1>1, <2>2, <3>2 DEF ScopeInv, StoredInv, Narrows
  <2> QED BY <2>1, <2>2
<1> QED BY <1>1, <1>2, <1>3 DEF ScopeInv

-----------------------------------------------------------------------------
LEMMA ScopeStarts == ScopeInit => ScopeInv
BY NewPageInv DEF ScopeInit, ScopeInv, PageInv, StoredInv, NewPage, Scopes

\* A page that is opened has forgotten everything; the record has not.
LEMMA NewPageKeeps ==
  ASSUME ScopeInv, page' = NewPage, UNCHANGED <<reported, stored, chosen, left>>
  PROVE  ScopeInv'
<1>1. PageInv'
  BY NewPageInv DEF PageInv, NewPage
<1> QED BY <1>1 DEF ScopeInv, StoredInv, Narrows

LEMMA ScopeStep == ScopeInv /\ [ScopeNext]_scopeVars => ScopeInv'
<1> SUFFICES ASSUME ScopeInv, [ScopeNext]_scopeVars PROVE ScopeInv'
  OBVIOUS
<1>1. CASE Load
  BY <1>1, FirstLoadKeeps, StoredLoadKeeps DEF Load
<1>2. CASE SelectAll
  BY <1>2, ChangeKeeps DEF SelectAll
<1>3. CASE SelectNone
  BY <1>3, ChangeKeeps DEF SelectNone
<1>4. ASSUME NEW id \in Sources, Toggle(id) PROVE ScopeInv'
  <2> DEFINE ids == IF id \in page.selected THEN page.selected \ {id} ELSE page.selected \cup {id}
  <2>1. page.selected \subseteq page.available
    BY <1>4 DEF ScopeInv, PageInv, Toggle
  <2>2. ids \in SUBSET page.available /\ Change(ids)
    BY <1>4, <2>1 DEF Toggle
  <2> QED BY <2>2, ChangeKeeps
<1>5. CASE Reinstate
  BY <1>5, ReinstateKeeps
<1>6. CASE NoteQuestionSubmitted
  BY <1>6, SubmitKeeps
<1>7. CASE Reload
  BY <1>7, NewPageKeeps DEF Reload
<1>8. CASE Restart
  BY <1>8, NewPageKeeps DEF Restart
<1>9. CASE EightHours
  BY <1>9, HoursKeep
<1>10. CASE Lose
  BY <1>10 DEF Lose, ScopeInv, PageInv, StoredInv, Narrows
<1>11. ASSUME NEW sources \in SUBSET Sources, Ingest(sources) PROVE ScopeInv'
  BY <1>11 DEF Ingest, ScopeInv, PageInv, StoredInv, Narrows, Scopes
<1>12. CASE UNCHANGED scopeVars
  BY <1>12 DEF scopeVars, ScopeInv, PageInv, StoredInv, Narrows
<1> QED BY <1>1, <1>2, <1>3, <1>4, <1>5, <1>6, <1>7, <1>8, <1>9, <1>10, <1>11, <1>12 DEF ScopeNext

\* Whatever happens to page, browser and corpus, what a narrowing left out stays
\* out of scope or the narrowing is offered back (scope.svelte.ts; NarrowingIsKept).
THEOREM NarrowingSurvives == ScopeSpec => []NarrowingIsKept
<1>1. ScopeInv => NarrowingIsKept
  BY DEF ScopeInv, PageInv, Narrows, NarrowingIsKept, Narrowing
<1> QED BY <1>1, ScopeStarts, ScopeStep, PTL DEF ScopeSpec
=============================================================================
