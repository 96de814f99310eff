--------------------------- MODULE MCTurnPipeline ---------------------------
(* Instances of TurnPipeline for TLC. *)
EXTENDS TurnPipeline, TLC

CONSTANTS s1, s2

\* A request with one source, and one that carries the scope.
MCRequests == {{s1}, NoSources}
\* The corpus loses and regains s1; or it is empty.
MCViews == {{s1, s2}, {s2}}
TurnSymmetry == Permutations(Turns)
=============================================================================
