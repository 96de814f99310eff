----------------------------- MODULE TurnStream -----------------------------
(***************************************************************************)
(* What the engine's event streams promise their readers: the order of the *)
(* named events that CONTRACTS.md section 4b fixes and the engine's README *)
(* refines ("abnormal terminations re-emit outcome").  The `outcome` event *)
(* is split by the family it carries, because the family decides what may  *)
(* follow:                                                                 *)
(*   content           one of the seven outcomes the model chooses         *)
(*   gated             a pre-flight refusal                                *)
(*   cancelled         the turn was superseded                             *)
(*   timeout           no first token in time                              *)
(*   provider-fault    the provider failed before the first token          *)
(*   incomplete        it failed after it                                  *)
(* Every citation, cause, contributing_sources, uncovered_parts,           *)
(* suggested_sources, narrowing, required_*, ungrounded and framing event  *)
(* is one "tail" event: the contract leaves them unordered.                *)
(***************************************************************************)

CONSTANT Turns

VARIABLES
  last,     \* per turn, the latest event its reader took, "none" at first
  stream    \* "open", "complete" after done, "cut" when it stopped short

Outcomes ==
  {"content", "gated", "cancelled", "timeout", "provider-fault", "incomplete"}

Events ==
  Outcomes \cup
  {"scope_dropped", "direct_answer", "body_delta", "tail", "timings", "done"}

\* What may follow each event.  An outcome comes before everything but the
\* scope report; a direct answer before the first body; an outcome is sent
\* again only to say that the turn ended early.
Following ==
  [e \in Events \cup {"none"} |->
     CASE e = "none"           -> Outcomes \cup {"scope_dropped"}
       [] e = "scope_dropped"  -> Outcomes
       [] e = "content"        -> {"direct_answer", "body_delta", "tail",
                                   "cancelled", "incomplete"}
       [] e = "direct_answer"  -> {"body_delta", "tail",
                                   "cancelled", "incomplete"}
       [] e = "body_delta"     -> {"body_delta", "tail",
                                   "cancelled", "incomplete"}
       [] e = "tail"           -> {"timings"}
       [] e \in {"timeout", "provider-fault", "incomplete"} -> {"timings"}
       [] e \in {"timings", "gated", "cancelled"}           -> {"done"}
       [] e = "done"           -> {}]

Init ==
  /\ last = [t \in Turns |-> "none"]
  /\ stream = [t \in Turns |-> "open"]

Send(t) ==
  /\ stream[t] = "open"
  /\ \E e \in Following[last[t]] : last' = [last EXCEPT ![t] = e]
  /\ stream' = stream

\* Only a stream that said `done` is a finished one.
Complete(t) ==
  /\ stream[t] = "open" /\ last[t] = "done"
  /\ stream' = [stream EXCEPT ![t] = "complete"]
  /\ last' = last

\* The stream may be cut at any point: the reader left, or the engine raised.
Cut(t) ==
  /\ stream[t] = "open"
  /\ stream' = [stream EXCEPT ![t] = "cut"]
  /\ last' = last

Next == \E t \in Turns : Send(t) \/ Complete(t) \/ Cut(t)

Spec == Init /\ [][Next]_<<last, stream>>
=============================================================================
