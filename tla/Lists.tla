-------------------------------- MODULE Lists --------------------------------
(***************************************************************************)
(* Lists as the engine's comprehensions and its dictionaries without values *)
(* make them, written as folds, which a proof can follow one element at a   *)
(* time.                                                                   *)
(***************************************************************************)
EXTENDS Naturals, Sequences, SequencesExt

IsSeq(list) == list \in Seq(ToSet(list))

\* The list itself, evaluated here and not again where its elements are used.
Computed(list) == <<>> \o list

\* The elements that are in a set, in order.
Among(list, set) ==
  LET kept[k \in 0..Len(list)] ==
        IF k = 0 THEN <<>>
        ELSE LET e == list[k]
             IN  IF e \in set THEN Append(kept[k - 1], e) ELSE kept[k - 1]
  IN  kept[Len(list)]

\* A key that a dictionary has already keeps its place.
WithKey(keys, key) == IF key \in ToSet(keys) THEN keys ELSE Append(keys, key)

\* dict.update, dict.setdefault: the new keys, in order.
Updated(keys, list) ==
  LET held[k \in 0..Len(list)] == IF k = 0 THEN keys ELSE WithKey(held[k - 1], list[k])
  IN  held[Len(list)]

First(list, n) == SubSeq(list, 1, IF Len(list) < n THEN Len(list) ELSE n)

\* The sum of the first k of some counts.
Total(counts, k) ==
  LET sum[j \in 0..Len(counts)] == IF j = 0 THEN 0 ELSE sum[j - 1] + counts[j]
  IN  sum[k]
=============================================================================
