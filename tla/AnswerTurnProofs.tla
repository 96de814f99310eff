-------------------------- MODULE AnswerTurnProofs --------------------------
(***************************************************************************)
(* What holds of every turn, for any band, questions, entries and lines: one *)
(* attempt is heard, the record is what was said, the matched entry decides  *)
(* the causes, nothing the reader was sent dangles, what is grounded is what *)
(* was sent, and what the turn is given is in its scope, with a passage of   *)
(* every source that qualifies.                                             *)
(*                                                                         *)
(* The model is made of folds, over which this prover cannot do induction   *)
(* through an operator.  Each fold is unfolded instead into its intermediate *)
(* values (the lemmas ...Steps and ...Last), and a fact is carried along     *)
(* them by Chained, whose proof takes the least place at which it fails.     *)
(* With the facts of the lists, of the expansion and of the parser in hand,  *)
(* the turn's state needs one inductive invariant, IInv: while the answer is *)
(* streamed the parser's lines are the model's, what was sent is the part of *)
(* them that the drain may show, and the expansion is that of one entry.     *)
(* For what is grounded lines are counted: Even says of the parser that of   *)
(* any set of lines its blocks, closed and open, hold as many as it has shown *)
(* the reader, blank lines apart.                                           *)
(***************************************************************************)
EXTENDS AnswerTurn, ListsProofs

-----------------------------------------------------------------------------
(* The expansion of an entry.                                              *)

\* The sources the pointers of the sidecar name.
PointerSources ==
  {pointer.source : pointer \in UNION {ToSet(cause) : cause \in
     UNION {ToSet(Entries[e]) : e \in DOMAIN Entries}}}

IsCause(cause) ==
  /\ IsSeq(cause)
  /\ \A i \in 1..Len(cause) : IsSeq(cause[i].passages) /\ cause[i].source \in PointerSources

LEMMA EntryCauses ==
  ASSUME NEW e \in DOMAIN Entries, NEW i \in 1..Len(Entries[e])
  PROVE  IsCause(Entries[e][i])
<1>1. IsSeq(Entries[e]) /\ Entries[e][i] \in ToSet(Entries[e])
  BY EntriesAssumption DEF IsSeq, ToSet
<1>2. PICK cause : cause = Entries[e][i]
  OBVIOUS
<1>3. IsSeq(cause) /\ \A pointer \in ToSet(cause) : IsSeq(pointer.passages)
  BY <1>1, <1>2, EntriesAssumption
<1>4. \A k \in 1..Len(cause) : cause[k] \in ToSet(cause)
  BY <1>3 DEF IsSeq
<1>5. \A k \in 1..Len(cause) : cause[k].source \in PointerSources
  BY <1>1, <1>2, <1>4 DEF PointerSources
<1> QED
  BY <1>2, <1>3, <1>4, <1>5 DEF IsCause

LEMMA UsablePassages ==
  ASSUME NEW list, IsSeq(list)
  PROVE  Among(list, Usable) \in Seq(Passages)
<1>1. list \in Seq(ToSet(list))
  BY DEF IsSeq
<1>2. Among(list, Usable) \in Seq(ToSet(list) \cap Usable)
  BY <1>1, AmongIs
<1>3. \A i \in 1..Len(Among(list, Usable)) : Among(list, Usable)[i] \in Passages
  BY <1>2 DEF Usable
<1> QED
  BY <1>2, <1>3

LEMMA WithPointerType ==
  ASSUME NEW passages \in Seq(Passages), NEW pointer, IsSeq(pointer.passages)
  PROVE  WithPointer(passages, pointer) \in Seq(Passages)
BY UsablePassages DEF WithPointer

Fixes(h, cause) ==
  /\ h[0] = <<>>
  /\ \A k \in 1..Len(cause) : h[k] = WithPointer(h[k - 1], cause[k])
  /\ FixInScope(cause) = h[Len(cause)]

LEMMA FixSteps ==
  ASSUME NEW cause, IsCause(cause)
  PROVE  \E h : Fixes(h, cause)
<1> DEFINE n == Len(cause)
           V == Seq(Passages)
           Fold(f) == f = [S \in SUBSET (DOMAIN cause) |->
                             IF S = {} THEN <<>>
                             ELSE LET x == Max(S) IN WithPointer(f[S \ {x}], cause[x])]
<1>1. /\ n \in Nat /\ DOMAIN cause = 1..n
      /\ \A k \in 1..n, v \in V : WithPointer(v, cause[k]) \in V
  BY WithPointerType DEF IsCause, IsSeq
<1>2. \E f : Fold(f)
  <2> DEFINE G == [p \in (1..n) \X V |-> WithPointer(p[2], cause[p[1]])]
  <2>1. G \in [(1..n) \X V -> V] /\ <<>> \in V
    BY <1>1
  <2>2. \A x \in 1..n, v \in V : G[<<x, v>>] = WithPointer(v, cause[x])
    OBVIOUS
  <2> HIDE DEF G, V
  <2>3. PICK f : Folded(f, n, V, <<>>, G)
    BY <1>1, <2>1, FoldExists
  <2>4. ASSUME NEW S \in SUBSET (1..n)
        PROVE  f[S] = IF S = {} THEN <<>>
                      ELSE LET x == Max(S) IN WithPointer(f[S \ {x}], cause[x])
    <3>1. S # {} => Max(S) \in 1..n /\ f[S \ {Max(S)}] \in V
      BY <2>3 DEF Folded
    <3>2. S # {} => f[S] = G[<<Max(S), f[S \ {Max(S)}]>>]
      BY <2>3 DEF Folded
    <3>3. S = {} => f[S] = <<>>
      BY <2>3 DEF Folded
    <3> QED
      BY <2>2, <3>1, <3>2, <3>3
  <2>5. Fold(f)
    <3>1. f \in [SUBSET (1..n) -> V]
      BY <2>3 DEF Folded
    <3> QED
      BY <1>1, <2>4, <3>1
  <2> QED
    BY <2>5
<1>3. PICK f : Fold(f) /\ FixInScope(cause) = f[DOMAIN cause]
  <2>1. FixInScope(cause) = (CHOOSE f : Fold(f))[DOMAIN cause]
    BY DEF FixInScope, FoldLeft, MapThenFoldSet
  <2> QED
    BY <1>2, <2>1
<1>4. PICK h : h = [k \in 0..n |-> f[1..k]]
  OBVIOUS
<1>5. Fixes(h, cause)
  <2>1. h[0] = <<>>
    BY <1>1, <1>3, <1>4, FirstPlaces
  <2>2. ASSUME NEW k \in 1..n
        PROVE  h[k] = WithPointer(h[k - 1], cause[k])
    <3>1. h[k] = f[1..k] /\ h[k - 1] = f[1..(k - 1)]
      BY <1>1, <1>4
    <3>2. /\ 1..k \in SUBSET (DOMAIN cause) /\ 1..k # {}
          /\ Max(1..k) = k /\ (1..k) \ {k} = 1..(k - 1)
      BY <1>1, FirstPlaces
    <3>3. f[1..k] = WithPointer(f[1..(k - 1)], cause[k])
      BY <1>3, <3>2
    <3> QED
      BY <3>1, <3>3
  <2>3. FixInScope(cause) = h[Len(cause)]
    BY <1>1, <1>3, <1>4
  <2> QED
    BY <2>1, <2>2, <2>3 DEF Fixes
<1> QED
  BY <1>5

LEMMA FixType ==
  ASSUME NEW cause, IsCause(cause)
  PROVE  FixInScope(cause) \in Seq(Passages)
<1>1. PICK h : Fixes(h, cause)
  BY FixSteps
<1>2. PICK n \in Nat : n = Len(cause)
  BY DEF IsCause, IsSeq
<1> DEFINE W == Seq(Passages)
<1>3. ASSUME NEW k \in 1..n, h[k - 1] \in W PROVE h[k] \in W
  <2>1. h[k] = WithPointer(h[k - 1], cause[k])
    BY <1>1, <1>2 DEF Fixes
  <2>2. IsSeq(cause[k].passages)
    BY <1>2 DEF IsCause
  <2>3. WithPointer(h[k - 1], cause[k]) \in W
    BY <1>3, <2>2, WithPointerType
  <2> QED
    BY <2>1, <2>3
<1>4. h[0] \in W
  BY <1>1 DEF Fixes
<1>5. h[n] \in W
  <2> HIDE DEF W
  <2>1. \A k \in 1..n : h[k - 1] \in W => h[k] \in W
    BY <1>3
  <2>2. \A k \in 0..n : h[k] \in W
    BY <1>4, <2>1, Chained
  <2> QED
    BY <2>2
<1> QED
  BY <1>1, <1>2, <1>5 DEF Fixes

-----------------------------------------------------------------------------
(* The fixes of a cause.                                                   *)

CiteStates == [fixes : Seq(Passages), admitted : Seq(Passages)]

\* A cited passage is supplied or admitted, and nothing admitted is lost.
LEMMA CiteKeeps ==
  ASSUME NEW R, NEW passages \in Seq(R), NEW e \in CiteStates, NEW p \in Passages
  PROVE  LET f == Cite(passages, e, p) IN
         /\ f \in CiteStates
         /\ ToSet(e.admitted) \subseteq ToSet(f.admitted)
         /\ ToSet(e.fixes) \subseteq ToSet(passages) \cup ToSet(e.admitted)
              => ToSet(f.fixes) \subseteq ToSet(passages) \cup ToSet(f.admitted)
<1>1. PICK f : f = Cite(passages, e, p)
  OBVIOUS
<1>2. e.fixes \in Seq(Passages) /\ e.admitted \in Seq(Passages)
  BY DEF CiteStates
<1>3. PICK fixes : fixes = Append(e.fixes, p)
  OBVIOUS
<1>4. PICK admitted : admitted = Append(e.admitted, p)
  OBVIOUS
<1>5. fixes \in Seq(Passages) /\ admitted \in Seq(Passages)
  BY <1>2, <1>3, <1>4
<1>6. ToSet(fixes) = ToSet(e.fixes) \cup {p} /\ ToSet(admitted) = ToSet(e.admitted) \cup {p}
  BY <1>2, <1>3, <1>4, ToSetAppend
<1>7. \/ f = e
      \/ p \in ToSet(passages \o e.admitted) /\ f = [e EXCEPT !.fixes = fixes, !.admitted = e.admitted]
      \/ f = [e EXCEPT !.fixes = fixes, !.admitted = admitted]
  BY <1>1, <1>3, <1>4 DEF Cite
<1>8. ToSet(passages \o e.admitted) = ToSet(passages) \cup ToSet(e.admitted)
  BY <1>2, ToSetConcat
<1>9. CASE f = e
  BY <1>1, <1>9
<1>10. CASE p \in ToSet(passages \o e.admitted) /\ f = [e EXCEPT !.fixes = fixes, !.admitted = e.admitted]
  <2>1. f \in CiteStates /\ f.fixes = fixes /\ f.admitted = e.admitted
    BY <1>2, <1>5, <1>10 DEF CiteStates
  <2> QED
    BY <1>1, <1>6, <1>8, <1>10, <2>1
<1>11. CASE f = [e EXCEPT !.fixes = fixes, !.admitted = admitted]
  <2>1. f \in CiteStates /\ f.fixes = fixes /\ f.admitted = admitted
    BY <1>5, <1>11 DEF CiteStates
  <2> QED
    BY <1>1, <1>6, <2>1
<1> QED
  BY <1>7, <1>9, <1>10, <1>11

LEMMA CiteType ==
  ASSUME NEW R, NEW passages \in Seq(R), NEW e \in CiteStates, NEW p \in Passages
  PROVE  Cite(passages, e, p) \in CiteStates
BY CiteKeeps

CiteSteps(h, passages, admitted, list) ==
  /\ h[0] = NoFix(admitted)
  /\ \A k \in 1..Len(list) : h[k] = Cite(passages, h[k - 1], list[k])
  /\ Cites(passages, admitted, list) = h[Len(list)]

LEMMA CitesSteps ==
  ASSUME NEW R, NEW passages \in Seq(R), NEW admitted \in Seq(Passages), NEW list \in Seq(Passages)
  PROVE  \E h : CiteSteps(h, passages, admitted, list)
<1> DEFINE n == Len(list)
           V == CiteStates
           Fold(f) == f = [S \in SUBSET (DOMAIN list) |->
                             IF S = {} THEN NoFix(admitted)
                             ELSE LET x == Max(S) IN Cite(passages, f[S \ {x}], list[x])]
<1>1. /\ n \in Nat /\ DOMAIN list = 1..n
      /\ \A k \in 1..n, v \in V : Cite(passages, v, list[k]) \in V
      /\ NoFix(admitted) \in V
  <2>1. \A k \in 1..n : list[k] \in Passages
    OBVIOUS
  <2>2. \A k \in 1..n, v \in V : Cite(passages, v, list[k]) \in V
    BY <2>1, CiteType
  <2>3. NoFix(admitted) \in V
    BY DEF CiteStates, NoFix
  <2> QED
    BY <2>2, <2>3
<1> HIDE DEF V
<1>2. \E f : Fold(f)
  <2> DEFINE G == [p \in (1..n) \X V |-> Cite(passages, p[2], list[p[1]])]
  <2>1. G \in [(1..n) \X V -> V] /\ NoFix(admitted) \in V
    BY <1>1
  <2>2. \A x \in 1..n, v \in V : G[<<x, v>>] = Cite(passages, v, list[x])
    OBVIOUS
  <2> HIDE DEF G, V
  <2>3. PICK f : Folded(f, n, V, NoFix(admitted), G)
    BY <1>1, <2>1, FoldExists
  <2>4. ASSUME NEW S \in SUBSET (1..n)
        PROVE  f[S] = IF S = {} THEN NoFix(admitted)
                      ELSE LET x == Max(S) IN Cite(passages, f[S \ {x}], list[x])
    <3>1. S # {} => Max(S) \in 1..n /\ f[S \ {Max(S)}] \in V
      BY <2>3 DEF Folded
    <3>2. S # {} => f[S] = G[<<Max(S), f[S \ {Max(S)}]>>]
      BY <2>3 DEF Folded
    <3>3. S = {} => f[S] = NoFix(admitted)
      BY <2>3 DEF Folded
    <3> QED
      BY <2>2, <3>1, <3>2, <3>3
  <2>5. Fold(f)
    <3>1. f \in [SUBSET (1..n) -> V]
      BY <2>3 DEF Folded
    <3> QED
      BY <1>1, <2>4, <3>1
  <2> QED
    BY <2>5
<1>3. PICK f : Fold(f) /\ Cites(passages, admitted, list) = f[DOMAIN list]
  <2>1. Cites(passages, admitted, list) = (CHOOSE f : Fold(f))[DOMAIN list]
    BY DEF Cites, FoldLeft, MapThenFoldSet
  <2> QED
    BY <1>2, <2>1
<1>4. PICK h : h = [k \in 0..n |-> f[1..k]]
  OBVIOUS
<1>5. CiteSteps(h, passages, admitted, list)
  <2>1. h[0] = NoFix(admitted)
    BY <1>1, <1>3, <1>4, FirstPlaces
  <2>2. ASSUME NEW k \in 1..n
        PROVE  h[k] = Cite(passages, h[k - 1], list[k])
    <3>1. h[k] = f[1..k] /\ h[k - 1] = f[1..(k - 1)]
      BY <1>1, <1>4
    <3>2. /\ 1..k \in SUBSET (DOMAIN list) /\ 1..k # {}
          /\ Max(1..k) = k /\ (1..k) \ {k} = 1..(k - 1)
      BY <1>1, FirstPlaces
    <3>3. f[1..k] = Cite(passages, f[1..(k - 1)], list[k])
      BY <1>3, <3>2
    <3> QED
      BY <3>1, <3>3
  <2>3. Cites(passages, admitted, list) = h[Len(list)]
    BY <1>1, <1>3, <1>4
  <2> QED
    BY <2>1, <2>2, <2>3 DEF CiteSteps
<1> QED
  BY <1>5

LEMMA CitesKeep ==
  ASSUME NEW R, NEW passages \in Seq(R), NEW admitted \in Seq(Passages), NEW list \in Seq(Passages)
  PROVE  LET f == Cites(passages, admitted, list) IN
         /\ f \in CiteStates
         /\ ToSet(admitted) \subseteq ToSet(f.admitted)
         /\ ToSet(f.fixes) \subseteq ToSet(passages) \cup ToSet(f.admitted)
<1>1. PICK h : CiteSteps(h, passages, admitted, list)
  BY CitesSteps
<1>2. PICK n \in Nat : n = Len(list)
  OBVIOUS
<1> DEFINE W == {e \in CiteStates :
                  /\ ToSet(admitted) \subseteq ToSet(e.admitted)
                  /\ ToSet(e.fixes) \subseteq ToSet(passages) \cup ToSet(e.admitted)}
<1>3. h[0] \in W
  <2>1. PICK e : e = NoFix(admitted)
    OBVIOUS
  <2>2. e \in CiteStates /\ e.admitted = admitted /\ e.fixes = <<>>
    BY <2>1 DEF CiteStates, NoFix
  <2>3. ToSet(<<>>) = {}
    BY DEF ToSet
  <2> QED
    BY <1>1, <2>1, <2>2, <2>3 DEF CiteSteps
<1>4. ASSUME NEW k \in 1..n, h[k - 1] \in W PROVE h[k] \in W
  <2>1. h[k] = Cite(passages, h[k - 1], list[k])
    BY <1>1, <1>2 DEF CiteSteps
  <2>2. list[k] \in Passages
    BY <1>2
  <2> QED
    BY <1>4, <2>1, <2>2, CiteKeeps
<1>5. h[n] \in W
  <2> HIDE DEF W
  <2>1. \A k \in 1..n : h[k - 1] \in W => h[k] \in W
    BY <1>4
  <2>2. \A k \in 0..n : h[k] \in W
    BY <1>3, <2>1, Chained
  <2> QED
    BY <2>2
<1> QED
  BY <1>1, <1>2, <1>5 DEF CiteSteps

-----------------------------------------------------------------------------
(* One cause more, and all of an entry's.                                  *)

Expansions ==
  [entry : DOMAIN Entries \cup {None}, causes : Seq(Seq(Passages)), admitted : Seq(Passages),
   suggested : Seq(PointerSources)]

\* Every fix of an expansion was retrieved or is admitted.
Backed(passages, e) ==
  \A i \in 1..Len(e.causes) : ToSet(e.causes[i]) \subseteq ToSet(passages) \cup ToSet(e.admitted)

LEMMA UpdatedType ==
  ASSUME NEW T, NEW keys \in Seq(T), NEW list \in Seq(T)
  PROVE  Updated(keys, list) \in Seq(T)
<1>1. PICK h : Keys(h, keys, list)
  BY UpdatedSteps
<1>2. PICK n \in Nat : n = Len(list)
  OBVIOUS
<1> DEFINE W == Seq(T)
<1>3. ASSUME NEW k \in 1..n, h[k - 1] \in W PROVE h[k] \in W
  <2>1. h[k] = WithKey(h[k - 1], list[k])
    BY <1>1, <1>2 DEF Keys
  <2>2. list[k] \in T
    BY <1>2
  <2> QED
    BY <1>3, <2>1, <2>2 DEF WithKey
<1>4. h[0] \in W
  BY <1>1 DEF Keys
<1>5. h[n] \in W
  <2> HIDE DEF W
  <2>1. \A k \in 1..n : h[k - 1] \in W => h[k] \in W
    BY <1>3
  <2>2. \A k \in 0..n : h[k] \in W
    BY <1>4, <2>1, Chained
  <2> QED
    BY <2>2
<1> QED
  BY <1>1, <1>2, <1>5 DEF Keys

\* The sources of a cause that are out of the turn's scope.
LEMMA OutsideType ==
  ASSUME NEW cause, IsCause(cause), NEW set
  PROVE  LET sources == [i \in DOMAIN cause |-> cause[i].source] IN
           Among(sources, ToSet(sources) \ set) \in Seq(PointerSources)
<1>1. PICK n \in Nat : n = Len(cause) /\ DOMAIN cause = 1..n
  BY DEF IsCause, IsSeq
<1>2. PICK sources : sources = [i \in DOMAIN cause |-> cause[i].source]
  OBVIOUS
<1>3. \A i \in 1..n : cause[i].source \in PointerSources
  BY <1>1 DEF IsCause
<1>4. sources \in Seq(PointerSources)
  BY <1>1, <1>2, <1>3
<1>5. PICK some : some = ToSet(sources) \ set
  OBVIOUS
<1>6. Among(sources, some) \in Seq(PointerSources \cap some)
  BY <1>4, AmongIs
<1>7. Among(sources, some) \in Seq(PointerSources)
  <2> DEFINE T == PointerSources
  <2>1. Among(sources, some) \in Seq(T \cap some)
    BY <1>6
  <2> HIDE DEF T
  <2>2. Among(sources, some) \in Seq(T)
    BY <2>1
  <2> QED
    BY <2>2 DEF T
<1> QED
  BY <1>2, <1>5, <1>7

LEMMA WithCauseIs ==
  ASSUME NEW R, NEW passages \in Seq(R), NEW e \in Expansions, NEW cause, IsCause(cause)
  PROVE  LET f == WithCause(passages, e, cause) IN
         /\ f \in Expansions
         /\ f.entry = e.entry /\ Len(f.causes) = Len(e.causes) + 1
         /\ Backed(passages, e) => Backed(passages, f)
<1>1. /\ e.admitted \in Seq(Passages) /\ e.causes \in Seq(Seq(Passages))
      /\ e.suggested \in Seq(PointerSources) /\ e.entry \in DOMAIN Entries \cup {None}
  BY DEF Expansions
<1>2. PICK cited : cited = Cites(passages, e.admitted, FixInScope(cause))
  OBVIOUS
<1>3. /\ cited \in CiteStates
      /\ ToSet(e.admitted) \subseteq ToSet(cited.admitted)
      /\ ToSet(cited.fixes) \subseteq ToSet(passages) \cup ToSet(cited.admitted)
  BY <1>1, <1>2, FixType, CitesKeep
<1>4. cited.fixes \in Seq(Passages) /\ cited.admitted \in Seq(Passages)
  BY <1>3 DEF CiteStates
<1>5. PICK outside :
        outside = LET sources == [i \in DOMAIN cause |-> cause[i].source] IN
                    Among(sources, ToSet(sources) \ ToSet(selected))
  OBVIOUS
<1>6. outside \in Seq(PointerSources)
  BY <1>5, OutsideType
<1>7. PICK suggested : suggested = Updated(e.suggested, outside)
  OBVIOUS
<1>8. suggested \in Seq(PointerSources)
  BY <1>1, <1>6, <1>7, UpdatedType
<1>9. PICK causes : causes = Append(e.causes, cited.fixes)
  OBVIOUS
<1>10. /\ causes \in Seq(Seq(Passages)) /\ Len(causes) = Len(e.causes) + 1
       /\ causes[Len(e.causes) + 1] = cited.fixes
       /\ \A i \in 1..Len(e.causes) : causes[i] = e.causes[i]
  BY <1>1, <1>4, <1>9
<1>11. PICK f : f = WithCause(passages, e, cause)
  OBVIOUS
<1>12. f = [e EXCEPT !.causes = causes, !.admitted = cited.admitted, !.suggested = suggested]
  BY <1>2, <1>5, <1>7, <1>9, <1>11 DEF WithCause
<1>13. /\ f \in Expansions /\ f.entry = e.entry /\ f.causes = causes
       /\ f.admitted = cited.admitted
  BY <1>4, <1>8, <1>10, <1>12 DEF Expansions
<1>14. ASSUME Backed(passages, e) PROVE Backed(passages, f)
  <2>1. SUFFICES ASSUME NEW i \in 1..Len(causes)
                 PROVE  ToSet(causes[i]) \subseteq ToSet(passages) \cup ToSet(cited.admitted)
    BY <1>13 DEF Backed
  <2>2. i \in 1..Len(e.causes) \/ i = Len(e.causes) + 1
    BY <1>1, <1>10
  <2>3. CASE i \in 1..Len(e.causes)
    BY <1>3, <1>10, <1>14, <2>3 DEF Backed
  <2>4. CASE i = Len(e.causes) + 1
    BY <1>3, <1>10, <2>4
  <2> QED
    BY <2>2, <2>3, <2>4
<1> QED
  BY <1>10, <1>11, <1>13, <1>14

LEMMA WithCauseType ==
  ASSUME NEW R, NEW passages \in Seq(R), NEW e \in Expansions, NEW cause, IsCause(cause)
  PROVE  WithCause(passages, e, cause) \in Expansions
BY WithCauseIs

CauseSteps(h, passages, expanded, causes) ==
  /\ h[0] = expanded
  /\ \A k \in 1..Len(causes) : h[k] = WithCause(passages, h[k - 1], causes[k])
  /\ WithCauses(passages, expanded, causes) = h[Len(causes)]

LEMMA CausesSteps ==
  ASSUME NEW R, NEW passages \in Seq(R), NEW expanded \in Expansions,
         NEW causes, IsSeq(causes), \A k \in 1..Len(causes) : IsCause(causes[k])
  PROVE  \E h : CauseSteps(h, passages, expanded, causes)
<1> DEFINE n == Len(causes)
           V == Expansions
           Fold(f) == f = [S \in SUBSET (DOMAIN causes) |->
                             IF S = {} THEN expanded
                             ELSE LET x == Max(S) IN WithCause(passages, f[S \ {x}], causes[x])]
<1>1. /\ n \in Nat /\ DOMAIN causes = 1..n
      /\ \A k \in 1..n, v \in V : WithCause(passages, v, causes[k]) \in V
      /\ expanded \in V
  BY WithCauseType DEF IsSeq
<1>2. \E f : Fold(f)
  <2> DEFINE G == [p \in (1..n) \X V |-> WithCause(passages, p[2], causes[p[1]])]
  <2>1. G \in [(1..n) \X V -> V] /\ expanded \in V
    BY <1>1
  <2>2. \A x \in 1..n, v \in V : G[<<x, v>>] = WithCause(passages, v, causes[x])
    OBVIOUS
  <2> HIDE DEF G, V
  <2>3. PICK f : Folded(f, n, V, expanded, G)
    BY <1>1, <2>1, FoldExists
  <2>4. ASSUME NEW S \in SUBSET (1..n)
        PROVE  f[S] = IF S = {} THEN expanded
                      ELSE LET x == Max(S) IN WithCause(passages, f[S \ {x}], causes[x])
    <3>1. S # {} => Max(S) \in 1..n /\ f[S \ {Max(S)}] \in V
      BY <2>3 DEF Folded
    <3>2. S # {} => f[S] = G[<<Max(S), f[S \ {Max(S)}]>>]
      BY <2>3 DEF Folded
    <3>3. S = {} => f[S] = expanded
      BY <2>3 DEF Folded
    <3> QED
      BY <2>2, <3>1, <3>2, <3>3
  <2>5. Fold(f)
    <3>1. f \in [SUBSET (1..n) -> V]
      BY <2>3 DEF Folded
    <3> QED
      BY <1>1, <2>4, <3>1
  <2> QED
    BY <2>5
<1>3. PICK f : Fold(f) /\ WithCauses(passages, expanded, causes) = f[DOMAIN causes]
  <2>1. WithCauses(passages, expanded, causes) = (CHOOSE f : Fold(f))[DOMAIN causes]
    BY DEF WithCauses, FoldLeft, MapThenFoldSet
  <2> QED
    BY <1>2, <2>1
<1>4. PICK h : h = [k \in 0..n |-> f[1..k]]
  OBVIOUS
<1>5. CauseSteps(h, passages, expanded, causes)
  <2>1. h[0] = expanded
    BY <1>1, <1>3, <1>4, FirstPlaces
  <2>2. ASSUME NEW k \in 1..n
        PROVE  h[k] = WithCause(passages, h[k - 1], causes[k])
    <3>1. h[k] = f[1..k] /\ h[k - 1] = f[1..(k - 1)]
      BY <1>1, <1>4
    <3>2. /\ 1..k \in SUBSET (DOMAIN causes) /\ 1..k # {}
          /\ Max(1..k) = k /\ (1..k) \ {k} = 1..(k - 1)
      BY <1>1, FirstPlaces
    <3>3. f[1..k] = WithCause(passages, f[1..(k - 1)], causes[k])
      BY <1>3, <3>2
    <3> QED
      BY <3>1, <3>3
  <2>3. WithCauses(passages, expanded, causes) = h[Len(causes)]
    BY <1>1, <1>3, <1>4
  <2> QED
    BY <2>1, <2>2, <2>3 DEF CauseSteps
<1> QED
  BY <1>5

LEMMA WithCausesAre ==
  ASSUME NEW R, NEW passages \in Seq(R), NEW e \in Expansions, e.causes = <<>>,
         NEW causes, IsSeq(causes), \A k \in 1..Len(causes) : IsCause(causes[k])
  PROVE  LET f == WithCauses(passages, e, causes) IN
         /\ f \in Expansions
         /\ f.entry = e.entry /\ Len(f.causes) = Len(causes)
         /\ Backed(passages, f)
<1>1. PICK h : CauseSteps(h, passages, e, causes)
  BY CausesSteps
<1>2. PICK n \in Nat : n = Len(causes)
  BY DEF IsSeq
<1> DEFINE W == {w \in Nat \X Expansions :
                   w[2].entry = e.entry /\ Len(w[2].causes) = w[1] /\ Backed(passages, w[2])}
           g == [k \in 0..n |-> <<k, h[k]>>]
<1>3. g[0] \in W
  <2>1. h[0] = e
    BY <1>1 DEF CauseSteps
  <2>2. Backed(passages, e) /\ Len(e.causes) = 0
    BY DEF Backed
  <2> QED
    BY <2>1, <2>2
<1>4. ASSUME NEW k \in 1..n, g[k - 1] \in W PROVE g[k] \in W
  <2>1. k - 1 \in 0..n /\ k \in 0..n
    OBVIOUS
  <2>2. PICK f : f = h[k - 1]
    OBVIOUS
  <2>3. f \in Expansions /\ f.entry = e.entry /\ Len(f.causes) = k - 1 /\ Backed(passages, f)
    BY <1>4, <2>1, <2>2
  <2>4. h[k] = WithCause(passages, f, causes[k]) /\ IsCause(causes[k])
    BY <1>1, <1>2, <2>2 DEF CauseSteps
  <2>5. PICK next : next = h[k]
    OBVIOUS
  <2>6. next \in Expansions /\ next.entry = f.entry /\ Len(next.causes) = Len(f.causes) + 1
        /\ Backed(passages, next)
    BY <2>3, <2>4, <2>5, WithCauseIs
  <2> QED
    BY <2>1, <2>3, <2>5, <2>6
<1>5. g[n] \in W
  <2> HIDE DEF W, g
  <2>1. \A k \in 1..n : g[k - 1] \in W => g[k] \in W
    BY <1>4
  <2>2. \A k \in 0..n : g[k] \in W
    BY <1>3, <2>1, Chained
  <2> QED
    BY <2>2
<1>6. h[n] \in Expansions /\ h[n].entry = e.entry /\ Len(h[n].causes) = n /\ Backed(passages, h[n])
  BY <1>5
<1> QED
  BY <1>1, <1>2, <1>6 DEF CauseSteps

-----------------------------------------------------------------------------
(* The order in which the causes are served: once a fix is refused a place,  *)
(* nothing more is admitted.                                               *)

LEMMA BudgetIs ==
  ASSUME NEW R, NEW passages \in Seq(R)
  PROVE  Budget(passages) \in Nat
<1>1. NarrowingCap \in Nat /\ Len(passages) \in Nat
  BY BandAssumption
<1> QED
  BY <1>1 DEF Budget

\* A passage is served or there is no room, and none is taken without one.
LEMMA CiteServes ==
  ASSUME NEW R, NEW passages \in Seq(R), NEW e \in CiteStates, NEW p \in Passages
  PROVE  LET f == Cite(passages, e, p)
             b == Budget(passages) IN
         /\ f \in CiteStates /\ ToSet(e.fixes) \subseteq ToSet(f.fixes)
         /\ p \in ToSet(f.fixes) \/ Len(f.admitted) >= b
         /\ Len(f.admitted) >= Len(e.admitted)
         /\ Len(e.admitted) >= b => f.admitted = e.admitted
         /\ ToSet(f.admitted) \subseteq ToSet(e.admitted) \cup ToSet(f.fixes)
<1>1. PICK f : f = Cite(passages, e, p)
  OBVIOUS
<1>2. PICK b \in Nat : b = Budget(passages)
  BY BudgetIs
<1>3. e.fixes \in Seq(Passages) /\ e.admitted \in Seq(Passages)
  BY DEF CiteStates
<1>4. PICK fixes : fixes = Append(e.fixes, p)
  OBVIOUS
<1>5. PICK admitted : admitted = Append(e.admitted, p)
  OBVIOUS
<1>6. fixes \in Seq(Passages) /\ admitted \in Seq(Passages) /\ Len(admitted) = Len(e.admitted) + 1
  BY <1>3, <1>4, <1>5
<1>7. ToSet(fixes) = ToSet(e.fixes) \cup {p} /\ ToSet(admitted) = ToSet(e.admitted) \cup {p}
  BY <1>3, <1>4, <1>5, ToSetAppend
<1>8. \/ f = e /\ (p \in ToSet(e.fixes) \/ ~(Len(e.admitted) < b))
      \/ f = [e EXCEPT !.fixes = fixes, !.admitted = e.admitted]
      \/ Len(e.admitted) < b /\ f = [e EXCEPT !.fixes = fixes, !.admitted = admitted]
  BY <1>1, <1>2, <1>4, <1>5 DEF Cite, MayAdmit
<1>9. f \in CiteStates
  BY <1>1, CiteType
<1>10. CASE f = e /\ (p \in ToSet(e.fixes) \/ ~(Len(e.admitted) < b))
  <2>1. p \in ToSet(e.fixes) \/ Len(e.admitted) >= b
    BY <1>2, <1>3, <1>10
  <2>2. Len(e.admitted) >= Len(e.admitted)
    BY <1>3
  <2> QED
    BY <1>1, <1>2, <1>9, <1>10, <2>1, <2>2
<1>11. CASE f = [e EXCEPT !.fixes = fixes, !.admitted = e.admitted]
  <2>1. f.fixes = fixes /\ f.admitted = e.admitted
    BY <1>3, <1>6, <1>11 DEF CiteStates
  <2>2. Len(e.admitted) >= Len(e.admitted)
    BY <1>3
  <2> QED
    BY <1>1, <1>2, <1>7, <1>9, <2>1, <2>2
<1>12. CASE Len(e.admitted) < b /\ f = [e EXCEPT !.fixes = fixes, !.admitted = admitted]
  <2>1. f.fixes = fixes /\ f.admitted = admitted
    BY <1>3, <1>6, <1>12 DEF CiteStates
  <2>2. Len(admitted) >= Len(e.admitted) /\ ~(Len(e.admitted) >= b)
    BY <1>2, <1>3, <1>6, <1>12
  <2> QED
    BY <1>1, <1>2, <1>7, <1>9, <2>1, <2>2
<1> QED
  BY <1>8, <1>10, <1>11, <1>12

\* All of a fix is served or there is no room.
LEMMA CitesServe ==
  ASSUME NEW R, NEW passages \in Seq(R), NEW admitted \in Seq(Passages), NEW list \in Seq(Passages)
  PROVE  LET f == Cites(passages, admitted, list)
             b == Budget(passages) IN
         /\ f \in CiteStates
         /\ ToSet(list) \subseteq ToSet(f.fixes) \/ Len(f.admitted) >= b
         /\ Len(f.admitted) >= Len(admitted)
         /\ Len(admitted) >= b => f.admitted = admitted
         /\ ToSet(f.admitted) \subseteq ToSet(admitted) \cup ToSet(f.fixes)
<1>1. PICK h : CiteSteps(h, passages, admitted, list)
  BY CitesSteps
<1>2. PICK n \in Nat : n = Len(list)
  OBVIOUS
<1>3. PICK b \in Nat : b = Budget(passages)
  BY BudgetIs
<1> DEFINE Served(k, e) ==
             /\ (\A i \in 1..k : list[i] \in ToSet(e.fixes)) \/ Len(e.admitted) >= b
             /\ Len(e.admitted) >= Len(admitted)
             /\ Len(admitted) >= b => e.admitted = admitted
             /\ ToSet(e.admitted) \subseteq ToSet(admitted) \cup ToSet(e.fixes)
           W == {w \in Nat \X CiteStates : Served(w[1], w[2])}
           g == [k \in 0..n |-> <<k, h[k]>>]
<1>4. g[0] \in W
  <2>1. PICK e : e = NoFix(admitted)
    OBVIOUS
  <2>2. e \in CiteStates /\ e.admitted = admitted /\ h[0] = e
    BY <1>1, <2>1 DEF CiteStates, NoFix, CiteSteps
  <2>3. Len(admitted) >= Len(admitted)
    OBVIOUS
  <2> QED
    BY <2>2, <2>3
<1>5. ASSUME NEW k \in 1..n, g[k - 1] \in W PROVE g[k] \in W
  <2>1. k - 1 \in 0..n /\ k \in 0..n /\ list[k] \in Passages
    BY <1>2
  <2>2. PICK e : e = h[k - 1]
    OBVIOUS
  <2>3. e \in CiteStates /\ Served(k - 1, e)
    BY <1>5, <2>1, <2>2
  <2>4. PICK f : f = h[k]
    OBVIOUS
  <2>5. f = Cite(passages, e, list[k])
    BY <1>1, <1>2, <2>2, <2>4 DEF CiteSteps
  <2>6. /\ f \in CiteStates /\ ToSet(e.fixes) \subseteq ToSet(f.fixes)
        /\ list[k] \in ToSet(f.fixes) \/ Len(f.admitted) >= b
        /\ Len(f.admitted) >= Len(e.admitted)
        /\ Len(e.admitted) >= b => f.admitted = e.admitted
        /\ ToSet(f.admitted) \subseteq ToSet(e.admitted) \cup ToSet(f.fixes)
    BY <1>3, <2>1, <2>3, <2>5, CiteServes
  <2>7. PICK le \in Nat : le = Len(e.admitted)
    BY <2>3 DEF CiteStates
  <2>8. PICK lf \in Nat : lf = Len(f.admitted)
    BY <2>6 DEF CiteStates
  <2>9. PICK la \in Nat : la = Len(admitted)
    OBVIOUS
  <2>10. (\A i \in 1..k : list[i] \in ToSet(f.fixes)) \/ lf >= b
    <3>1. \A i \in 1..k : i \in 1..(k - 1) \/ i = k
      OBVIOUS
    <3>2. le >= b => lf >= b
      BY <1>3, <2>6, <2>7, <2>8
    <3> QED
      BY <2>3, <2>6, <2>7, <2>8, <3>1, <3>2
  <2>11. lf >= la
    BY <2>3, <2>6, <2>7, <2>8, <2>9
  <2>12. la >= b => f.admitted = admitted
    <3>1. ASSUME la >= b PROVE f.admitted = admitted
      BY <2>3, <2>6, <2>9, <3>1
    <3> QED
      BY <3>1
  <2>13. Served(k, f)
    BY <2>3, <2>6, <2>8, <2>9, <2>10, <2>11, <2>12
  <2>14. g[k] = <<k, f>>
    BY <2>1, <2>4
  <2> HIDE DEF Served, g
  <2> QED
    BY <2>1, <2>6, <2>13, <2>14
<1>6. g[n] \in W
  <2> HIDE DEF W, g
  <2>1. \A k \in 1..n : g[k - 1] \in W => g[k] \in W
    BY <1>5
  <2>2. \A k \in 0..n : g[k] \in W
    BY <1>4, <2>1, Chained
  <2> QED
    BY <2>2
<1>7. h[n] \in CiteStates /\ Served(n, h[n])
  <2> HIDE DEF Served
  <2> QED
    BY <1>2, <1>6
<1>8. ToSet(list) = {list[i] : i \in 1..n}
  BY <1>2 DEF ToSet
<1> QED
  BY <1>1, <1>2, <1>3, <1>7, <1>8 DEF CiteSteps

LEMMA WithCauseFields ==
  ASSUME NEW R, NEW passages \in Seq(R), NEW e \in Expansions, NEW cause, IsCause(cause)
  PROVE  LET f == WithCause(passages, e, cause)
             cited == Cites(passages, e.admitted, FixInScope(cause)) IN
           f.causes = Append(e.causes, cited.fixes) /\ f.admitted = cited.admitted
<1>1. PICK cited : cited = Cites(passages, e.admitted, FixInScope(cause))
  OBVIOUS
<1>2. PICK causes : causes = Append(e.causes, cited.fixes)
  OBVIOUS
<1>3. PICK f : f = WithCause(passages, e, cause)
  OBVIOUS
<1>4. \E suggested : f = [e EXCEPT !.causes = causes, !.admitted = cited.admitted, !.suggested = suggested]
  BY <1>1, <1>2, <1>3 DEF WithCause
<1>5. f.causes = causes /\ f.admitted = cited.admitted
  BY <1>4 DEF Expansions
<1> QED
  BY <1>1, <1>2, <1>3, <1>5

\* What the causes before the k-th and itself are served.
UpTo(e, k) == UNION {ToSet(e.causes[m]) : m \in 1..k}

\* FixesInCauseOrder of an expansion of these causes.
InOrder(passages, e, causes) ==
  \A i, j \in 1..Len(e.causes) : i < j =>
    \/ ToSet(FixInScope(causes[i])) \subseteq ToSet(e.causes[i])
    \/ ToSet(e.causes[j]) \subseteq ToSet(passages) \cup UpTo(e, j - 1)

\* What keeps it so for one cause more: what is admitted is served already, and
\* once a fix was refused there is no room.
Serves(passages, e, causes) ==
  /\ ToSet(e.admitted) \subseteq UpTo(e, Len(e.causes))
  /\ \/ \A i \in 1..Len(e.causes) : ToSet(FixInScope(causes[i])) \subseteq ToSet(e.causes[i])
     \/ Len(e.admitted) >= Budget(passages)
  /\ InOrder(passages, e, causes)

LEMMA WithCauseServes ==
  ASSUME NEW R, NEW passages \in Seq(R), NEW e \in Expansions, NEW causes,
         IsCause(causes[Len(e.causes) + 1]), Serves(passages, e, causes)
  PROVE  Serves(passages, WithCause(passages, e, causes[Len(e.causes) + 1]), causes)
<1>1. PICK n \in Nat : n = Len(e.causes)
  BY DEF Expansions
<1>2. PICK fix : fix = FixInScope(causes[n + 1])
  OBVIOUS
<1>3. e.admitted \in Seq(Passages) /\ e.causes \in Seq(Seq(Passages)) /\ fix \in Seq(Passages)
  BY <1>1, <1>2, FixType DEF Expansions
<1>4. PICK cited : cited = Cites(passages, e.admitted, fix)
  OBVIOUS
<1>5. PICK b \in Nat : b = Budget(passages)
  BY BudgetIs
<1>6. /\ cited \in CiteStates
      /\ ToSet(fix) \subseteq ToSet(cited.fixes) \/ Len(cited.admitted) >= b
      /\ Len(cited.admitted) >= Len(e.admitted)
      /\ Len(e.admitted) >= b => cited.admitted = e.admitted
      /\ ToSet(cited.admitted) \subseteq ToSet(e.admitted) \cup ToSet(cited.fixes)
  BY <1>3, <1>4, <1>5, CitesServe
<1>7. ToSet(cited.fixes) \subseteq ToSet(passages) \cup ToSet(cited.admitted)
  BY <1>3, <1>4, CitesKeep
<1>8. PICK f : f = WithCause(passages, e, causes[Len(e.causes) + 1])
  OBVIOUS
<1>9. f.causes = Append(e.causes, cited.fixes) /\ f.admitted = cited.admitted
  BY <1>1, <1>2, <1>4, <1>8, WithCauseFields
<1>10. cited.fixes \in Seq(Passages)
  BY <1>6 DEF CiteStates
<1>11. /\ Len(f.causes) = n + 1 /\ f.causes[n + 1] = cited.fixes
       /\ \A i \in 1..n : f.causes[i] = e.causes[i]
  BY <1>1, <1>3, <1>9, <1>10
<1>12. \A k \in 0..n : UpTo(f, k) = UpTo(e, k)
  BY <1>1, <1>11 DEF UpTo
<1>13. UpTo(f, n + 1) = UpTo(e, n) \cup ToSet(cited.fixes)
  <2>1. 1..(n + 1) = (1..n) \cup {n + 1}
    BY <1>1
  <2> QED
    BY <1>11, <2>1 DEF UpTo
<1>14. /\ ToSet(e.admitted) \subseteq UpTo(e, n)
       /\ \/ \A i \in 1..n : ToSet(FixInScope(causes[i])) \subseteq ToSet(e.causes[i])
          \/ Len(e.admitted) >= b
       /\ InOrder(passages, e, causes)
  BY <1>1, <1>5 DEF Serves
<1>15. ToSet(f.admitted) \subseteq UpTo(f, n + 1)
  BY <1>6, <1>9, <1>13, <1>14
<1>16. \/ \A i \in 1..(n + 1) : ToSet(FixInScope(causes[i])) \subseteq ToSet(f.causes[i])
       \/ Len(f.admitted) >= b
  <2>1. \A i \in 1..(n + 1) : i \in 1..n \/ i = n + 1
    BY <1>1
  <2>2. Len(e.admitted) >= b => Len(f.admitted) >= b
    BY <1>3, <1>5, <1>6, <1>9 DEF CiteStates
  <2> QED
    BY <1>2, <1>6, <1>9, <1>11, <1>14, <2>1, <2>2
<1>17. ASSUME NEW i \in 1..(n + 1), NEW j \in 1..(n + 1), i < j
       PROVE  \/ ToSet(FixInScope(causes[i])) \subseteq ToSet(f.causes[i])
              \/ ToSet(f.causes[j]) \subseteq ToSet(passages) \cup UpTo(f, j - 1)
  <2>1. i \in 1..n /\ j - 1 \in 0..n
    BY <1>1, <1>17
  <2>2. CASE j \in 1..n
    BY <1>1, <1>11, <1>12, <1>14, <1>17, <2>1, <2>2 DEF InOrder
  <2>3. CASE j = n + 1
    <3>1. ToSet(FixInScope(causes[i])) \subseteq ToSet(f.causes[i]) \/ Len(e.admitted) >= b
      BY <1>11, <1>14, <2>1
    <3>2. ASSUME Len(e.admitted) >= b
          PROVE  ToSet(f.causes[j]) \subseteq ToSet(passages) \cup UpTo(f, j - 1)
      <4>1. ToSet(cited.fixes) \subseteq ToSet(passages) \cup UpTo(e, n)
        BY <1>6, <1>7, <1>14, <3>2
      <4>2. j - 1 = n /\ UpTo(f, n) = UpTo(e, n) /\ f.causes[j] = cited.fixes
        BY <1>1, <1>11, <1>12, <2>3
      <4> QED
        BY <4>1, <4>2
    <3> QED
      BY <3>1, <3>2
  <2> QED
    BY <1>1, <2>2, <2>3
<1>18. InOrder(passages, f, causes)
  BY <1>11, <1>17 DEF InOrder
<1> QED
  BY <1>5, <1>8, <1>11, <1>15, <1>16, <1>18 DEF Serves

LEMMA WithCausesServe ==
  ASSUME NEW R, NEW passages \in Seq(R),
         NEW e \in Expansions, e.causes = <<>>, e.admitted = <<>>,
         NEW causes, IsSeq(causes), \A k \in 1..Len(causes) : IsCause(causes[k])
  PROVE  InOrder(passages, WithCauses(passages, e, causes), causes)
<1>1. PICK h : CauseSteps(h, passages, e, causes)
  BY CausesSteps
<1>2. PICK n \in Nat : n = Len(causes)
  BY DEF IsSeq
<1> DEFINE W == {w \in Nat \X Expansions :
                   Len(w[2].causes) = w[1] /\ Serves(passages, w[2], causes)}
           g == [k \in 0..n |-> <<k, h[k]>>]
<1>3. g[0] \in W
  <2>1. h[0] = e
    BY <1>1 DEF CauseSteps
  <2>2. Len(e.causes) = 0 /\ ToSet(e.admitted) = {}
    BY DEF ToSet
  <2>3. Serves(passages, e, causes)
    BY <2>2 DEF Serves, InOrder
  <2> QED
    BY <2>1, <2>2, <2>3
<1>4. ASSUME NEW k \in 1..n, g[k - 1] \in W PROVE g[k] \in W
  <2>1. k - 1 \in 0..n /\ k \in 0..n
    OBVIOUS
  <2>2. PICK f : f = h[k - 1]
    OBVIOUS
  <2>3. f \in Expansions /\ Len(f.causes) = k - 1 /\ Serves(passages, f, causes)
    BY <1>4, <2>1, <2>2
  <2>4. h[k] = WithCause(passages, f, causes[k]) /\ IsCause(causes[k])
    BY <1>1, <1>2, <2>2 DEF CauseSteps
  <2>5. PICK next : next = h[k]
    OBVIOUS
  <2>6. next \in Expansions /\ Len(next.causes) = Len(f.causes) + 1
    BY <2>3, <2>4, <2>5, WithCauseIs
  <2>7. Len(f.causes) + 1 = k
    BY <2>3
  <2>8. Serves(passages, next, causes)
    BY <2>3, <2>4, <2>5, <2>7, WithCauseServes
  <2> QED
    BY <2>1, <2>5, <2>6, <2>7, <2>8
<1>5. g[n] \in W
  <2> HIDE DEF W, g
  <2>1. \A k \in 1..n : g[k - 1] \in W => g[k] \in W
    BY <1>4
  <2>2. \A k \in 0..n : g[k] \in W
    BY <1>3, <2>1, Chained
  <2> QED
    BY <2>2
<1>6. Serves(passages, h[n], causes)
  BY <1>5
<1> QED
  BY <1>1, <1>2, <1>6 DEF CauseSteps, Serves

-----------------------------------------------------------------------------
(* What retrieval and the expansion put in the turn.                       *)

LEMMA FusedIsList ==
  ASSUME NEW T, NEW dense \in Seq(T), NEW lexical \in Seq(T)
  PROVE  IsSeq(Fused(dense, lexical))
<1>1. PICK found : found = ToSet(dense) \cup ToSet(lexical)
  OBVIOUS
<1>2. PICK n \in Nat : n = Cardinality(found)
  BY <1>1, FiniteList, FS_Union, FS_CardinalityType
<1>3. PICK fused : fused = Fused(dense, lexical)
  OBVIOUS
<1>4. DOMAIN fused = 1..n /\ fused = [k \in 1..n |-> fused[k]]
  <2> DEFINE Before(p) == {x \in found :
                             \/ Score(x, dense, lexical) > Score(p, dense, lexical)
                             \/ /\ Score(x, dense, lexical) = Score(p, dense, lexical)
                                /\ RowOf(x) < RowOf(p)}
             At(k) == CHOOSE p \in found : Cardinality(Before(p)) = k - 1
  <2>1. Fused(dense, lexical) = [k \in 1..Cardinality(found) |-> At(k)]
    BY <1>1 DEF Fused
  <2> HIDE DEF At
  <2> QED
    BY <1>2, <1>3, <2>1
<1>5. \A k \in 1..n : fused[k] \in ToSet(fused)
  BY <1>4 DEF ToSet
<1>6. fused \in Seq(ToSet(fused))
  BY <1>2, <1>4, <1>5
<1> QED
  BY <1>3, <1>6 DEF IsSeq

LEMMA RankedIs ==
  ASSUME NEW order, IsSeq(order), NEW mask
  PROVE  Ranked(order, mask) \in Seq(mask)
<1>1. Among(order, mask) \in Seq(ToSet(order) \cap mask)
  BY AmongIs DEF IsSeq
<1>2. Among(order, mask) \in Seq(mask)
  <2> DEFINE T == ToSet(order)
  <2>1. Among(order, mask) \in Seq(T \cap mask)
    BY <1>1
  <2> HIDE DEF T
  <2> QED
    BY <2>1
<1>3. Depth \in Nat
  BY CapsAssumption
<1> QED
  BY <1>2, <1>3, FirstIs DEF Ranked

LEMMA AmongList ==
  ASSUME NEW list, IsSeq(list), NEW set
  PROVE  IsSeq(Among(list, set))
<1>1. Among(list, set) \in Seq(ToSet(list) \cap set)
  BY AmongIs DEF IsSeq
<1> QED
  BY <1>1, IsSeqOf

LEMMA ConcatList ==
  ASSUME NEW one, IsSeq(one), NEW two, IsSeq(two)
  PROVE  IsSeq(one \o two)
<1>1. PICK A, B : one \in Seq(A) /\ two \in Seq(B)
  BY DEF IsSeq
<1>2. one \in Seq(A \cup B) /\ two \in Seq(A \cup B)
  BY <1>1
<1>3. one \o two \in Seq(A \cup B)
  BY <1>2
<1> QED
  BY <1>3, IsSeqOf

LEMMA RetrieveIsList ==
  ASSUME NEW q \in Queries
  PROVE  IsSeq(Retrieve(q))
<1> DEFINE mask == Mask(q)
           fused == Fused(Ranked(q.dense, mask), Ranked(q.lexical, mask))
           qualifying == Among(q.selected, {s \in ToSet(q.selected) : Qualifying(q, s) # {}})
           cap == Max({BaseCap, Len(qualifying)})
           InFused(s) == SelectInSeq(fused, LAMBDA p : SourceOf[p] = s)
           Best(s) == q.dense[SelectInSeq(q.dense, LAMBDA p : p \in Qualifying(q, s))]
           missing == Among(qualifying, {s \in ToSet(qualifying) : InFused(s) = 0})
           extras == [i \in DOMAIN missing |-> Best(missing[i])]
           floor == {fused[InFused(s)] : s \in ToSet(qualifying) \ ToSet(missing)}
           chosen == FoldLeft(LAMBDA c, p : IF Cardinality(c) + Len(extras) >= cap
                                              THEN c ELSE c \cup {p}, floor, fused)
<1>1. Retrieve(q) = IF qualifying = <<>> THEN <<>> ELSE Among(fused, chosen) \o extras
  BY DEF Retrieve
<1>2. IsSeq(q.selected) /\ IsSeq(q.dense) /\ IsSeq(q.lexical)
  BY QueriesAssumption
<1>3. IsSeq(fused)
  BY <1>2, RankedIs, FusedIsList
<1>4. IsSeq(missing)
  BY <1>2, AmongList
<1> HIDE DEF fused, chosen, qualifying, missing
<1>5. IsSeq(Among(fused, chosen))
  BY <1>3, AmongList
<1>6. IsSeq(extras)
  <2>1. PICK n \in Nat : DOMAIN missing = 1..n
    BY <1>4 DEF IsSeq
  <2>2. PICK f : f = extras
    OBVIOUS
  <2>3. DOMAIN f = 1..n /\ f = [i \in 1..n |-> f[i]]
    BY <2>1, <2>2
  <2>4. \A i \in 1..n : f[i] \in ToSet(f)
    BY <2>3 DEF ToSet
  <2>5. IsSeq(f)
    BY <2>1, <2>3, <2>4 DEF IsSeq
  <2> QED
    BY <2>2, <2>5
<1>7. IsSeq(<<>>)
  BY DEF IsSeq
<1> HIDE DEF extras
<1> QED
  BY <1>1, <1>5, <1>6, <1>7, ConcatList

\* The expansion is of an entry that was retrieved, has each of its causes up to
\* the cap, and its fixes are supplied.
LEMMA ExpandIs ==
  ASSUME NEW passages, IsSeq(passages)
  PROVE  LET e == Expand(passages) IN
         /\ e \in Expansions /\ Backed(passages, e)
         /\ e.entry = None \/ /\ e.entry \in DOMAIN Entries \cap ToSet(passages)
                              /\ Len(e.causes) = Len(First(Entries[e.entry], CausesMax))
                              /\ InOrder(passages, e, Entries[e.entry])
<1>1. PICK e : e = Expand(passages)
  OBVIOUS
<1>2. PICK n \in Nat : n = Len(passages) /\ DOMAIN passages = 1..n /\ passages \in Seq(ToSet(passages))
  BY DEF IsSeq
<1>3. PICK at : at = SelectInSeq(passages, LAMBDA p : p \in DOMAIN Entries)
  OBVIOUS
<1>4. at = 0 \/ (at \in 1..n /\ passages[at] \in DOMAIN Entries)
  <2> DEFINE I == {i \in 1..n : passages[i] \in DOMAIN Entries}
  <2>1. at = IF I # {} THEN Min(I) ELSE 0
    BY <1>2, <1>3 DEF SelectInSeq
  <2>2. I # {} => Min(I) \in I
    <3>1. I \in SUBSET Nat
      OBVIOUS
    <3> HIDE DEF I
    <3>2. I # {} => \E i \in I : \A j \in I : i <= j
      BY <3>1, LeastNumber
    <3> QED
      BY <3>2 DEF Min
  <2> QED
    BY <2>1, <2>2
<1>5. ASSUME NEW entry \in DOMAIN Entries \cup {None}
      PROVE  LET base == [NoExpansion EXCEPT !.entry = entry] IN
               /\ base \in Expansions /\ base.entry = entry
               /\ base.causes = <<>> /\ base.admitted = <<>>
  <2>1. PICK base : base = [NoExpansion EXCEPT !.entry = entry]
    OBVIOUS
  <2>2. base = [entry |-> entry, causes |-> <<>>, admitted |-> <<>>, suggested |-> <<>>]
    BY <2>1 DEF NoExpansion
  <2>3. base \in Expansions
    BY <2>2 DEF Expansions
  <2> QED
    BY <2>1, <2>2, <2>3
<1>6. CASE at = 0
  <2>1. e = NoExpansion
    BY <1>1, <1>3, <1>6 DEF Expand
  <2>2. e.causes = <<>> /\ e.entry = None
    BY <2>1 DEF NoExpansion
  <2>3. e \in Expansions
    BY <2>1 DEF NoExpansion, Expansions
  <2>4. Backed(passages, e)
    BY <2>2 DEF Backed
  <2> QED
    BY <1>1, <2>2, <2>3, <2>4
<1>7. CASE at # 0
  <2>1. PICK entry \in DOMAIN Entries \cap ToSet(passages) : entry = passages[at]
    BY <1>2, <1>4, <1>7 DEF ToSet
  <2>2. PICK causes : causes = First(Entries[entry], CausesMax)
    OBVIOUS
  <2>3. CausesMax \in Nat
    BY BandAssumption
  <2>4. IsSeq(Entries[entry])
    BY EntriesAssumption
  <2>5. /\ causes \in Seq(ToSet(Entries[entry]))
        /\ Len(causes) = IF Len(Entries[entry]) < CausesMax THEN Len(Entries[entry]) ELSE CausesMax
        /\ \A i \in 1..Len(causes) : causes[i] = Entries[entry][i]
    BY <2>2, <2>3, <2>4, FirstIs DEF IsSeq
  <2>6. \A i \in 1..Len(causes) : i \in 1..Len(Entries[entry])
    BY <2>3, <2>4, <2>5 DEF IsSeq
  <2>7. \A i \in 1..Len(causes) : IsCause(causes[i])
    BY <2>1, <2>5, <2>6, EntryCauses
  <2>8. IsSeq(causes)
    BY <2>5, IsSeqOf
  <2>9. PICK base : base = [NoExpansion EXCEPT !.entry = entry]
    OBVIOUS
  <2>10. /\ base \in Expansions /\ base.entry = entry
         /\ base.causes = <<>> /\ base.admitted = <<>>
    BY <1>5, <2>9
  <2>11. e = WithCauses(passages, base, causes)
    BY <1>1, <1>3, <1>7, <2>1, <2>2, <2>9 DEF Expand
  <2>12. e \in Expansions /\ e.entry = entry /\ Len(e.causes) = Len(causes) /\ Backed(passages, e)
    BY <1>2, <2>7, <2>8, <2>10, <2>11, WithCausesAre
  <2>13. InOrder(passages, e, causes)
    BY <1>2, <2>7, <2>8, <2>10, <2>11, WithCausesServe
  <2>14. InOrder(passages, e, Entries[entry])
    BY <2>5, <2>12, <2>13 DEF InOrder
  <2> QED
    BY <1>1, <2>1, <2>2, <2>12, <2>14
<1> QED
  BY <1>6, <1>7

-----------------------------------------------------------------------------
(* The parser: what a line changes.                                        *)

AnyLine == Written \cup {NoLine}

Blocks ==
  [type : {line.kind : line \in Written} \cup {"paragraph", "caveat", "conflict"}, lines : Seq(Written)]

Parsers ==
  [buffer : Seq(Written), count : Nat, one : AnyLine, hoisting : BOOLEAN, answer : AnyLine,
   body : Seq(Written), blocks : Seq(Blocks),
   uncovered : Seq(Written), question : AnyLine, candidates : Seq(Written),
   causes : Seq([statement : AnyLine, check : AnyLine]),
   device : AnyLine, suggested : Seq({line.names : line \in Written}), violation : BOOLEAN,
   paragraph : Seq(Written), caveat : Seq(Written), conflict : Seq(Written),
   collecting : BOOLEAN, cause : AnyLine]

BlockMarks(blocks) == UNION {MarksOf(blocks[i].lines) : i \in DOMAIN blocks}

\* The marks of the blocks, closed and open.
KeptMarks(p) ==
  BlockMarks(p.blocks) \cup MarksOf(p.paragraph) \cup MarksOf(p.caveat) \cup MarksOf(p.conflict)

\* What the reader is shown is in a block.
BodyKept(p) == MarksOf(p.body) \subseteq KeptMarks(p)

SameHeader(p, q) ==
  /\ q.count = p.count /\ q.one = p.one /\ q.hoisting = p.hoisting
  /\ q.answer = p.answer /\ q.buffer = p.buffer

\* The parser after a step that shows nothing.
Carries(p, q) ==
  q \in Parsers /\ SameHeader(p, q) /\ q.body = p.body /\ KeptMarks(p) \subseteq KeptMarks(q)

\* ... and after one that may.
Reads(p, q) == q \in Parsers /\ SameHeader(p, q) /\ (BodyKept(p) => BodyKept(q))

LEMMA MarksAppend ==
  ASSUME NEW list \in Seq(Written), NEW line \in Written
  PROVE  MarksOf(Append(list, line)) = MarksOf(list) \cup ({line.mark} \ {NoMark})
<1>1. PICK more : more = Append(list, line)
  OBVIOUS
<1>2. PICK n \in Nat : n = Len(list) /\ DOMAIN list = 1..n
  OBVIOUS
<1>3. DOMAIN more = 1..(n + 1) /\ more[n + 1] = line /\ \A i \in 1..n : more[i] = list[i]
  BY <1>1, <1>2
<1>4. \A i \in 1..(n + 1) : i \in 1..n \/ i = n + 1
  BY <1>2
<1>5. n + 1 \in 1..(n + 1) /\ \A i \in 1..n : i \in 1..(n + 1)
  BY <1>2
<1>6. MarksOf(more) \subseteq MarksOf(list) \cup ({line.mark} \ {NoMark})
  BY <1>2, <1>3, <1>4 DEF MarksOf
<1>7. MarksOf(list) \subseteq MarksOf(more)
  BY <1>2, <1>3, <1>5 DEF MarksOf
<1>8. {line.mark} \ {NoMark} \subseteq MarksOf(more)
  BY <1>2, <1>3, <1>5 DEF MarksOf
<1> QED
  BY <1>1, <1>6, <1>7, <1>8

LEMMA MarksEmpty == MarksOf(<<>>) = {} /\ BlockMarks(<<>>) = {}
BY DEF MarksOf, BlockMarks

LEMMA BlocksAppend ==
  ASSUME NEW blocks \in Seq(Blocks), NEW block \in Blocks
  PROVE  /\ Append(blocks, block) \in Seq(Blocks)
         /\ BlockMarks(Append(blocks, block)) = BlockMarks(blocks) \cup MarksOf(block.lines)
<1>1. PICK more : more = Append(blocks, block)
  OBVIOUS
<1>2. PICK n \in Nat : n = Len(blocks) /\ DOMAIN blocks = 1..n
  OBVIOUS
<1>3. /\ more \in Seq(Blocks) /\ DOMAIN more = 1..(n + 1) /\ more[n + 1] = block
      /\ \A i \in 1..n : more[i] = blocks[i]
  BY <1>1, <1>2
<1>4. \A i \in 1..(n + 1) : i \in 1..n \/ i = n + 1
  BY <1>2
<1>5. n + 1 \in 1..(n + 1) /\ \A i \in 1..n : i \in 1..(n + 1)
  BY <1>2
<1>6. BlockMarks(more) \subseteq BlockMarks(blocks) \cup MarksOf(block.lines)
  BY <1>2, <1>3, <1>4 DEF BlockMarks
<1>7. BlockMarks(blocks) \subseteq BlockMarks(more)
  BY <1>2, <1>3, <1>5 DEF BlockMarks
<1>8. MarksOf(block.lines) \subseteq BlockMarks(more)
  BY <1>2, <1>3, <1>5 DEF BlockMarks
<1> QED
  BY <1>1, <1>3, <1>6, <1>7, <1>8

\* Closing an open block moves its marks to the blocks.
LEMMA OpenedIs ==
  ASSUME NEW blocks \in Seq(Blocks), NEW type \in {"paragraph", "caveat", "conflict"},
         NEW lines \in Seq(Written)
  PROVE  /\ blocks \o Opened(type, lines) \in Seq(Blocks)
         /\ BlockMarks(blocks \o Opened(type, lines)) = BlockMarks(blocks) \cup MarksOf(lines)
<1>1. CASE lines = <<>>
  <2>1. blocks \o <<>> = blocks
    OBVIOUS
  <2> QED
    BY <1>1, <2>1, MarksEmpty DEF Opened
<1>2. CASE lines # <<>>
  <2>1. PICK block : block = Block(type, lines)
    OBVIOUS
  <2>2. block \in Blocks /\ block.lines = lines
    BY <2>1 DEF Block, Blocks
  <2>3. blocks \o <<block>> = Append(blocks, block)
    BY <2>2
  <2> QED
    BY <1>2, <2>1, <2>2, <2>3, BlocksAppend DEF Opened
<1> QED
  BY <1>1, <1>2

LEMMA LineFields ==
  ASSUME NEW line \in Written
  PROVE  /\ line.kind = "blank" => line.mark = NoMark
         /\ line.names \in {l.names : l \in Written} /\ line.kind \in {l.kind : l \in Written}
         /\ line # NoLine
BY LinesAssumption

LEMMA CauseClosedIs ==
  ASSUME NEW p \in Parsers, NEW check \in AnyLine
  PROVE  Carries(p, CauseClosed(p, check))
<1>1. PICK q : q = CauseClosed(p, check)
  OBVIOUS
<1>2. PICK said : said = [statement |-> p.cause, check |-> check]
  OBVIOUS
<1>3. said \in [statement : AnyLine, check : AnyLine]
  BY <1>2 DEF Parsers
<1>4. PICK causes \in Seq([statement : AnyLine, check : AnyLine]) : causes = Append(p.causes, said)
  <2> DEFINE Said == [statement : AnyLine, check : AnyLine]
  <2>1. p.causes \in Seq(Said)
    BY DEF Parsers
  <2>2. said \in Said
    BY <1>3
  <2> HIDE DEF Said
  <2>3. Append(p.causes, said) \in Seq(Said)
    BY <2>1, <2>2
  <2> QED
    BY <2>3 DEF Said
<1>5. q = [p EXCEPT !.cause = NoLine, !.causes = causes]
  BY <1>1, <1>2, <1>4 DEF CauseClosed
<1>6. NoLine \in AnyLine
  BY DEF AnyLine
<1>7. q \in Parsers /\ SameHeader(p, q) /\ q.body = p.body /\ q.blocks = p.blocks
      /\ q.paragraph = p.paragraph /\ q.caveat = p.caveat /\ q.conflict = p.conflict
  BY <1>5, <1>6 DEF Parsers, SameHeader
<1> QED
  BY <1>1, <1>7 DEF Carries, KeptMarks

LEMMA FlushedIs ==
  ASSUME NEW p \in Parsers
  PROVE  /\ Carries(p, Flushed(p))
         /\ LET q == Flushed(p) IN q.paragraph = <<>> /\ q.caveat = <<>> /\ q.conflict = <<>>
<1>1. PICK para : para = p.blocks \o Opened("paragraph", p.paragraph)
  OBVIOUS
<1>2. PICK cav : cav = para \o Opened("caveat", p.caveat)
  OBVIOUS
<1>3. PICK blocks : blocks = cav \o Opened("conflict", p.conflict)
  OBVIOUS
<1>4. /\ p.blocks \in Seq(Blocks) /\ p.paragraph \in Seq(Written)
      /\ p.caveat \in Seq(Written) /\ p.conflict \in Seq(Written)
  BY DEF Parsers
<1>5. para \in Seq(Blocks) /\ BlockMarks(para) = BlockMarks(p.blocks) \cup MarksOf(p.paragraph)
  BY <1>1, <1>4, OpenedIs
<1>6. cav \in Seq(Blocks) /\ BlockMarks(cav) = BlockMarks(para) \cup MarksOf(p.caveat)
  BY <1>2, <1>4, <1>5, OpenedIs
<1>7. blocks \in Seq(Blocks) /\ BlockMarks(blocks) = BlockMarks(cav) \cup MarksOf(p.conflict)
  BY <1>3, <1>4, <1>6, OpenedIs
<1>8. PICK violation \in BOOLEAN : violation = (p.violation \/ Len(p.conflict) \notin {0, 3})
  OBVIOUS
<1>9. PICK q : q = [p EXCEPT !.blocks = blocks, !.violation = violation,
                             !.paragraph = <<>>, !.caveat = <<>>, !.conflict = <<>>, !.collecting = FALSE]
  OBVIOUS
<1>10. <<>> \in Seq(Written)
  OBVIOUS
<1>11. /\ q \in Parsers /\ SameHeader(p, q) /\ q.body = p.body /\ q.blocks = blocks
       /\ q.paragraph = <<>> /\ q.caveat = <<>> /\ q.conflict = <<>>
  BY <1>7, <1>9, <1>10 DEF Parsers, SameHeader
<1>12. Carries(p, q)
  BY <1>5, <1>6, <1>7, <1>11 DEF Carries, KeptMarks
<1>13. Flushed(p) = IF q.cause = NoLine THEN q ELSE CauseClosed(q, NoLine)
  <2>1. q = [p EXCEPT
              !.blocks = @ \o Opened("paragraph", p.paragraph) \o Opened("caveat", p.caveat)
                           \o Opened("conflict", p.conflict),
              !.violation = @ \/ Len(p.conflict) \notin {0, 3},
              !.paragraph = <<>>, !.caveat = <<>>, !.conflict = <<>>, !.collecting = FALSE]
    BY <1>1, <1>2, <1>3, <1>8, <1>9
  <2> QED
    BY <2>1 DEF Flushed
<1>14. PICK r : r = CauseClosed(q, NoLine)
  OBVIOUS
<1>15. Carries(q, r) /\ r.paragraph = q.paragraph /\ r.caveat = q.caveat /\ r.conflict = q.conflict
  <2>1. NoLine \in AnyLine
    BY DEF AnyLine
  <2>2. Carries(q, r)
    BY <1>11, <1>14, <2>1, CauseClosedIs
  <2> QED
    BY <1>11, <1>14, <2>2 DEF CauseClosed, Parsers
<1>16. Carries(p, r)
  BY <1>12, <1>15 DEF Carries, SameHeader
<1> QED
  BY <1>11, <1>12, <1>13, <1>14, <1>15, <1>16

\* The marker of a line, when it has one.
MarkIn(line) == {line.mark} \ {NoMark}

LEMMA CarriesOn ==
  ASSUME NEW p, NEW q, NEW r, Carries(p, q), Carries(q, r)
  PROVE  Carries(p, r)
BY DEF Carries, SameHeader

LEMMA CarriesSelf ==
  ASSUME NEW p \in Parsers
  PROVE  Carries(p, p)
BY DEF Carries, SameHeader

LEMMA CarriesReads ==
  ASSUME NEW p, NEW q, Carries(p, q)
  PROVE  Reads(p, q)
BY DEF Carries, Reads, BodyKept

LEMMA CarriesThenReads ==
  ASSUME NEW p, NEW q, NEW r, Carries(p, q), Reads(q, r)
  PROVE  Reads(p, r)
BY DEF Carries, Reads, SameHeader, BodyKept

\* A line may be shown once its marker is in a block.
LEMMA ShownIs ==
  ASSUME NEW p, NEW q \in Parsers, NEW line \in Written,
         Carries(p, q), MarkIn(line) \subseteq KeptMarks(q)
  PROVE  Reads(p, Shown(q, line))
<1>1. q.body \in Seq(Written)
  BY DEF Parsers
<1>2. PICK body : body = Append(q.body, line)
  OBVIOUS
<1>3. body \in Seq(Written) /\ MarksOf(body) = MarksOf(q.body) \cup MarkIn(line)
  BY <1>1, <1>2, MarksAppend DEF MarkIn
<1>4. PICK r : r = [q EXCEPT !.body = body]
  OBVIOUS
<1>5. /\ r \in Parsers /\ SameHeader(q, r) /\ r.body = body /\ r.blocks = q.blocks
      /\ r.paragraph = q.paragraph /\ r.caveat = q.caveat /\ r.conflict = q.conflict
  BY <1>3, <1>4 DEF Parsers, SameHeader
<1>6. KeptMarks(r) = KeptMarks(q)
  BY <1>5 DEF KeptMarks
<1>7. Shown(q, line) = r
  BY <1>2, <1>4 DEF Shown
<1> QED
  BY <1>3, <1>5, <1>6, <1>7 DEF Reads, Carries, SameHeader, BodyKept

LEMMA LongerParagraph ==
  ASSUME NEW p \in Parsers, NEW line \in Written
  PROVE  LET q == [p EXCEPT !.paragraph = Append(@, line)] IN
           Carries(p, q) /\ MarkIn(line) \subseteq KeptMarks(q)
<1>1. PICK lines : lines = Append(p.paragraph, line)
  OBVIOUS
<1>2. lines \in Seq(Written) /\ MarksOf(lines) = MarksOf(p.paragraph) \cup MarkIn(line)
  BY <1>1, MarksAppend DEF MarkIn, Parsers
<1>3. PICK q : q = [p EXCEPT !.paragraph = lines]
  OBVIOUS
<1>4. /\ q \in Parsers /\ SameHeader(p, q) /\ q.body = p.body /\ q.blocks = p.blocks
      /\ q.paragraph = lines /\ q.caveat = p.caveat /\ q.conflict = p.conflict
  BY <1>2, <1>3 DEF Parsers, SameHeader
<1>5. Carries(p, q) /\ MarkIn(line) \subseteq KeptMarks(q)
  BY <1>2, <1>4 DEF Carries, KeptMarks
<1> QED
  BY <1>1, <1>3, <1>5

LEMMA LongerCaveat ==
  ASSUME NEW p \in Parsers, NEW line \in Written
  PROVE  LET q == [p EXCEPT !.caveat = Append(@, line)] IN
           Carries(p, q) /\ MarkIn(line) \subseteq KeptMarks(q)
<1>1. PICK lines : lines = Append(p.caveat, line)
  OBVIOUS
<1>2. lines \in Seq(Written) /\ MarksOf(lines) = MarksOf(p.caveat) \cup MarkIn(line)
  BY <1>1, MarksAppend DEF MarkIn, Parsers
<1>3. PICK q : q = [p EXCEPT !.caveat = lines]
  OBVIOUS
<1>4. /\ q \in Parsers /\ SameHeader(p, q) /\ q.body = p.body /\ q.blocks = p.blocks
      /\ q.caveat = lines /\ q.paragraph = p.paragraph /\ q.conflict = p.conflict
  BY <1>2, <1>3 DEF Parsers, SameHeader
<1>5. Carries(p, q) /\ MarkIn(line) \subseteq KeptMarks(q)
  BY <1>2, <1>4 DEF Carries, KeptMarks
<1> QED
  BY <1>1, <1>3, <1>5

LEMMA LongerConflict ==
  ASSUME NEW p \in Parsers, NEW line \in Written
  PROVE  LET q == [p EXCEPT !.conflict = Append(@, line)] IN
           Carries(p, q) /\ MarkIn(line) \subseteq KeptMarks(q)
<1>1. PICK lines : lines = Append(p.conflict, line)
  OBVIOUS
<1>2. lines \in Seq(Written) /\ MarksOf(lines) = MarksOf(p.conflict) \cup MarkIn(line)
  BY <1>1, MarksAppend DEF MarkIn, Parsers
<1>3. PICK q : q = [p EXCEPT !.conflict = lines]
  OBVIOUS
<1>4. /\ q \in Parsers /\ SameHeader(p, q) /\ q.body = p.body /\ q.blocks = p.blocks
      /\ q.conflict = lines /\ q.caveat = p.caveat /\ q.paragraph = p.paragraph
  BY <1>2, <1>3 DEF Parsers, SameHeader
<1>5. Carries(p, q) /\ MarkIn(line) \subseteq KeptMarks(q)
  BY <1>2, <1>4 DEF Carries, KeptMarks
<1> QED
  BY <1>1, <1>3, <1>5

LEMMA OneLine ==
  ASSUME NEW line \in Written
  PROVE  <<line>> \in Seq(Written) /\ MarksOf(<<line>>) = MarkIn(line)
<1>1. PICK none : none = <<>>
  OBVIOUS
<1>2. none \in Seq(Written) /\ Append(none, line) = <<line>>
  BY <1>1
<1>3. MarksOf(Append(none, line)) = MarksOf(none) \cup MarkIn(line)
  BY <1>2, MarksAppend DEF MarkIn
<1> QED
  BY <1>1, <1>2, <1>3, MarksEmpty, SMTT(20)

\* A heading, step or bullet is a block of its own.
LEMMA BlockOpens ==
  ASSUME NEW p \in Parsers, NEW line \in Written
  PROVE  LET q == [p EXCEPT !.blocks = Append(@, Block(line.kind, <<line>>))] IN
           Carries(p, q) /\ MarkIn(line) \subseteq KeptMarks(q)
<1>1. PICK block : block = Block(line.kind, <<line>>)
  OBVIOUS
<1>2. block \in Blocks /\ MarksOf(block.lines) = MarkIn(line)
  BY <1>1, OneLine, LineFields DEF Block, Blocks
<1>3. PICK blocks : blocks = Append(p.blocks, block)
  OBVIOUS
<1>4. blocks \in Seq(Blocks) /\ BlockMarks(blocks) = BlockMarks(p.blocks) \cup MarkIn(line)
  <2>1. p.blocks \in Seq(Blocks)
    BY DEF Parsers
  <2> QED
    BY <1>2, <1>3, <2>1, BlocksAppend
<1>5. PICK q : q = [p EXCEPT !.blocks = blocks]
  OBVIOUS
<1>6. /\ q \in Parsers /\ SameHeader(p, q) /\ q.body = p.body /\ q.blocks = blocks
      /\ q.paragraph = p.paragraph /\ q.caveat = p.caveat /\ q.conflict = p.conflict
  BY <1>4, <1>5 DEF Parsers, SameHeader
<1>7. Carries(p, q) /\ MarkIn(line) \subseteq KeptMarks(q)
  BY <1>4, <1>6 DEF Carries, KeptMarks
<1> QED
  BY <1>1, <1>3, <1>5, <1>7

LEMMA CaveatOpens ==
  ASSUME NEW p \in Parsers, NEW line \in Written, p.caveat = <<>>
  PROVE  LET q == [p EXCEPT !.caveat = <<line>>] IN
           Carries(p, q) /\ MarkIn(line) \subseteq KeptMarks(q)
<1>1. PICK none : none = <<>>
  OBVIOUS
<1>2. Append(none, line) = <<line>>
  BY <1>1
<1>3. [p EXCEPT !.caveat = <<line>>] = [p EXCEPT !.caveat = Append(@, line)]
  BY <1>1, <1>2
<1> QED
  BY <1>3, LongerCaveat

LEMMA ConflictOpens ==
  ASSUME NEW p \in Parsers, NEW line \in Written, p.conflict = <<>>
  PROVE  LET q == [p EXCEPT !.conflict = <<line>>] IN
           Carries(p, q) /\ MarkIn(line) \subseteq KeptMarks(q)
<1>1. PICK none : none = <<>>
  OBVIOUS
<1>2. Append(none, line) = <<line>>
  BY <1>1
<1>3. [p EXCEPT !.conflict = <<line>>] = [p EXCEPT !.conflict = Append(@, line)]
  BY <1>1, <1>2
<1> QED
  BY <1>3, LongerConflict

LEMMA HoistedIs ==
  ASSUME NEW p \in Parsers, NEW line \in Written
  PROVE  Carries(p, Hoisted(p, line))
<1>1. p.uncovered \in Seq(Written) /\ p.suggested \in Seq({l.names : l \in Written})
  BY DEF Parsers
<1>2. line \in AnyLine
  BY DEF AnyLine
<1>3. PICK q : q = Hoisted(p, line)
  OBVIOUS
<1>4. PICK suggested : suggested = WithKey(p.suggested, line.names)
  OBVIOUS
<1>5. suggested \in Seq({l.names : l \in Written})
  <2> DEFINE T == {l.names : l \in Written}
  <2>1. line.names \in T
    OBVIOUS
  <2>2. p.suggested \in Seq(T)
    BY <1>1
  <2> HIDE DEF T
  <2>3. suggested \in Seq(T)
    BY <1>4, <2>1, <2>2 DEF WithKey
  <2> QED
    BY <2>3 DEF T
<1>6. \/ q = [p EXCEPT !.uncovered = Append(@, line)]
      \/ q = [p EXCEPT !.question = line, !.collecting = TRUE]
      \/ q = [p EXCEPT !.cause = line]
      \/ q = [p EXCEPT !.device = line]
      \/ q = [p EXCEPT !.suggested = suggested]
      \/ q = p
  BY <1>3, <1>4 DEF Hoisted
<1>7. /\ q \in Parsers /\ SameHeader(p, q) /\ q.body = p.body /\ q.blocks = p.blocks
      /\ q.paragraph = p.paragraph /\ q.caveat = p.caveat /\ q.conflict = p.conflict
  <2>1. CASE q = [p EXCEPT !.uncovered = Append(@, line)]
    <3>1. PICK uncovered : uncovered = Append(p.uncovered, line)
      OBVIOUS
    <3>2. uncovered \in Seq(Written)
      BY <1>1, <3>1
    <3>3. q = [p EXCEPT !.uncovered = uncovered]
      BY <2>1, <3>1
    <3> QED
      BY <3>2, <3>3 DEF Parsers, SameHeader
  <2>2. CASE q = [p EXCEPT !.question = line, !.collecting = TRUE]
    BY <1>2, <2>2 DEF Parsers, SameHeader
  <2>3. CASE q = [p EXCEPT !.cause = line]
    BY <1>2, <2>3 DEF Parsers, SameHeader
  <2>4. CASE q = [p EXCEPT !.device = line]
    BY <1>2, <2>4 DEF Parsers, SameHeader
  <2>5. CASE q = [p EXCEPT !.suggested = suggested]
    BY <1>5, <2>5 DEF Parsers, SameHeader
  <2>6. CASE q = p
    BY <2>6 DEF SameHeader
  <2> QED
    BY <1>6, <2>1, <2>2, <2>3, <2>4, <2>5, <2>6
<1> QED
  BY <1>3, <1>7 DEF Carries, KeptMarks

LEMMA ClassifiedIs ==
  ASSUME NEW p \in Parsers, NEW line \in Written
  PROVE  Reads(p, Classified(p, line))
<1>1. PICK f : f = Flushed(p)
  OBVIOUS
<1>2. Carries(p, f) /\ f \in Parsers /\ f.caveat = <<>> /\ f.conflict = <<>>
  BY <1>1, FlushedIs DEF Carries
<1>3. PICK q : q = Classified(p, line)
  OBVIOUS
<1>4. ASSUME NEW r, Carries(f, r), MarkIn(line) \subseteq KeptMarks(r)
      PROVE  Reads(p, Shown(r, line))
  BY <1>2, <1>4, CarriesOn, ShownIs DEF Carries
<1>5. \/ q = Shown([f EXCEPT !.blocks = Append(@, Block(line.kind, <<line>>))], line)
      \/ q = Shown([f EXCEPT !.caveat = <<line>>], line)
      \/ q = Shown([f EXCEPT !.conflict = <<line>>], line)
      \/ q = Hoisted(f, line)
      \/ q = Shown([p EXCEPT !.paragraph = Append(@, line)], line)
  BY <1>1, <1>3 DEF Classified
<1>6. CASE q = Shown([f EXCEPT !.blocks = Append(@, Block(line.kind, <<line>>))], line)
  BY <1>2, <1>3, <1>4, <1>6, BlockOpens
<1>7. CASE q = Shown([f EXCEPT !.caveat = <<line>>], line)
  BY <1>2, <1>3, <1>4, <1>7, CaveatOpens
<1>8. CASE q = Shown([f EXCEPT !.conflict = <<line>>], line)
  BY <1>2, <1>3, <1>4, <1>8, ConflictOpens
<1>9. CASE q = Hoisted(f, line)
  BY <1>2, <1>3, <1>9, HoistedIs, CarriesOn, CarriesReads
<1>10. CASE q = Shown([p EXCEPT !.paragraph = Append(@, line)], line)
  <2>1. PICK r : r = [p EXCEPT !.paragraph = Append(@, line)]
    OBVIOUS
  <2>2. Carries(p, r) /\ MarkIn(line) \subseteq KeptMarks(r) /\ r \in Parsers
    BY <2>1, LongerParagraph DEF Carries
  <2> QED
    BY <1>3, <1>10, <2>1, <2>2, ShownIs
<1> QED
  BY <1>5, <1>6, <1>7, <1>8, <1>9, <1>10

LEMMA BodyLineIs ==
  ASSUME NEW p \in Parsers, NEW line \in Written
  PROVE  Reads(p, BodyLine(p, line))
<1>1. PICK f : f = Flushed(p)
  OBVIOUS
<1>2. Carries(p, f) /\ f \in Parsers
  BY <1>1, FlushedIs DEF Carries
<1>3. PICK q : q = IF p.conflict # <<>> /\ line.kind # "bullet" THEN f ELSE p
  OBVIOUS
<1>4. Carries(p, q) /\ q \in Parsers
  BY <1>2, <1>3, CarriesSelf
<1>5. PICK r : r = BodyLine(p, line)
  OBVIOUS
<1>6. \/ line.kind = "blank" /\ r = Shown(f, line)
      \/ r = Shown([p EXCEPT !.conflict = Append(@, line)], line)
      \/ r = [q EXCEPT !.candidates = Append(@, line)]
      \/ r = CauseClosed(q, line)
      \/ r = Shown([q EXCEPT !.caveat = Append(@, line)], line)
      \/ r = Classified(q, line)
  BY <1>1, <1>3, <1>5 DEF BodyLine
<1>7. CASE line.kind = "blank" /\ r = Shown(f, line)
  <2>1. MarkIn(line) \subseteq KeptMarks(f)
    BY <1>7, LineFields DEF MarkIn
  <2> QED
    BY <1>2, <1>5, <1>7, <2>1, ShownIs
<1>8. CASE r = Shown([p EXCEPT !.conflict = Append(@, line)], line)
  <2>1. PICK c : c = [p EXCEPT !.conflict = Append(@, line)]
    OBVIOUS
  <2>2. Carries(p, c) /\ MarkIn(line) \subseteq KeptMarks(c) /\ c \in Parsers
    BY <2>1, LongerConflict DEF Carries
  <2> QED
    BY <1>5, <1>8, <2>1, <2>2, ShownIs
<1>9. CASE r = [q EXCEPT !.candidates = Append(@, line)]
  <2>1. PICK candidates : candidates = Append(q.candidates, line)
    OBVIOUS
  <2>2. r = [q EXCEPT !.candidates = candidates] /\ candidates \in Seq(Written)
    <3>1. q.candidates \in Seq(Written)
      BY <1>4 DEF Parsers
    <3> QED
      BY <1>9, <2>1, <3>1
  <2>3. /\ r \in Parsers /\ SameHeader(q, r) /\ r.body = q.body /\ r.blocks = q.blocks
        /\ r.paragraph = q.paragraph /\ r.caveat = q.caveat /\ r.conflict = q.conflict
    BY <1>4, <2>2 DEF Parsers, SameHeader
  <2>4. Carries(q, r)
    BY <2>3 DEF Carries, KeptMarks
  <2> QED
    BY <1>4, <1>5, <2>4, CarriesOn, CarriesReads
<1>10. CASE r = CauseClosed(q, line)
  <2>1. line \in AnyLine
    BY DEF AnyLine
  <2>2. Carries(q, r)
    BY <1>4, <1>10, <2>1, CauseClosedIs
  <2> QED
    BY <1>4, <1>5, <2>2, CarriesOn, CarriesReads
<1>11. CASE r = Shown([q EXCEPT !.caveat = Append(@, line)], line)
  <2>1. PICK c : c = [q EXCEPT !.caveat = Append(@, line)]
    OBVIOUS
  <2>2. Carries(q, c) /\ MarkIn(line) \subseteq KeptMarks(c) /\ c \in Parsers
    BY <1>4, <2>1, LongerCaveat DEF Carries
  <2>3. Carries(p, c)
    BY <1>4, <2>2, CarriesOn
  <2> QED
    BY <1>5, <1>11, <2>1, <2>2, <2>3, ShownIs
<1>12. CASE r = Classified(q, line)
  BY <1>4, <1>5, <1>12, ClassifiedIs, CarriesThenReads
<1> QED
  BY <1>6, <1>7, <1>8, <1>9, <1>10, <1>11, <1>12

\* Nothing is read of an answer before its second line.
Fresh(p) == (p.count = 0 => ~p.hoisting) /\ (p.count < 2 => p.answer = NoLine)

Readable(p) == p \in Parsers /\ Fresh(p) /\ BodyKept(p)

\* What the framing has said stays said.
Follows(p, q) ==
  /\ Readable(q) /\ p.count <= q.count
  /\ p.hoisting => q.hoisting /\ q.one = p.one
  /\ p.hoisting /\ p.count >= 2 => q.answer = p.answer

LEMMA FollowsOn ==
  ASSUME NEW p, Readable(p), NEW q, NEW r, Follows(p, q), Follows(q, r)
  PROVE  Follows(p, r)
<1>1. p.count \in Nat /\ q.count \in Nat /\ r.count \in Nat
  BY DEF Follows, Readable, Parsers
<1>2. p.count <= q.count /\ q.count <= r.count
  BY DEF Follows
<1>3. p.count <= r.count /\ (p.count >= 2 => q.count >= 2)
  BY <1>1, <1>2
<1>4. p.hoisting => q.hoisting /\ r.hoisting /\ q.one = p.one /\ r.one = q.one
  BY DEF Follows
<1>5. p.hoisting /\ p.count >= 2 => q.answer = p.answer /\ r.answer = q.answer
  BY <1>3, <1>4 DEF Follows
<1>6. Readable(r)
  BY DEF Follows
<1> QED
  BY <1>3, <1>4, <1>5, <1>6 DEF Follows

LEMMA ReadsFollows ==
  ASSUME NEW p, Readable(p), NEW q, Reads(p, q)
  PROVE  Follows(p, q)
BY DEF Follows, Readable, Reads, SameHeader, Fresh, Parsers

LEMMA BufferIs ==
  ASSUME NEW p, Readable(p), NEW buffer \in Seq(Written)
  PROVE  LET q == [p EXCEPT !.buffer = buffer] IN Follows(p, q) /\ q.buffer = buffer
<1>1. PICK q : q = [p EXCEPT !.buffer = buffer]
  OBVIOUS
<1>2. p \in Parsers
  BY DEF Readable
<1>3. /\ q \in Parsers /\ q.buffer = buffer /\ q.body = p.body /\ q.blocks = p.blocks
      /\ q.count = p.count /\ q.one = p.one /\ q.hoisting = p.hoisting /\ q.answer = p.answer
      /\ q.paragraph = p.paragraph /\ q.caveat = p.caveat /\ q.conflict = p.conflict
  BY <1>1, <1>2 DEF Parsers
<1>4. Readable(q)
  BY <1>3 DEF Readable, Fresh, BodyKept, KeptMarks
<1>5. Follows(p, q)
  BY <1>2, <1>3, <1>4 DEF Follows, Parsers
<1> QED
  BY <1>1, <1>3, <1>5

LEMMA LineIs ==
  ASSUME NEW p, Readable(p), NEW line \in Written
  PROVE  Follows(p, Line(p, line))
<1>1. p \in Parsers /\ p.count \in Nat /\ p.hoisting \in BOOLEAN
  BY DEF Readable, Parsers
<1>2. PICK n \in Nat : n = p.count + 1
  BY <1>1
<1>3. PICK q : q = [p EXCEPT !.count = n]
  OBVIOUS
<1>4. /\ q \in Parsers /\ q.count = n /\ q.body = p.body /\ q.blocks = p.blocks
      /\ q.one = p.one /\ q.hoisting = p.hoisting /\ q.answer = p.answer
      /\ q.paragraph = p.paragraph /\ q.caveat = p.caveat /\ q.conflict = p.conflict
  BY <1>1, <1>3 DEF Parsers
<1>5. BodyKept(q)
  BY <1>4 DEF Readable, BodyKept, KeptMarks
<1>6. line \in AnyLine /\ NoLine \in AnyLine
  BY DEF AnyLine
<1>7. PICK r : r = Line(p, line)
  OBVIOUS
<1>8. q = [p EXCEPT !.count = @ + 1]
  BY <1>2, <1>3
<1>9. CASE n = 1
  <2>1. PICK hoisting : hoisting = (line.kind \in ContentOutcomes) /\ hoisting \in BOOLEAN
    <3>1. (line.kind \in ContentOutcomes) \in BOOLEAN
      OBVIOUS
    <3> QED
      BY <3>1, Zenon
  <2>2. PICK named : named = [q EXCEPT !.one = line, !.hoisting = hoisting]
    OBVIOUS
  <2>3. r = IF named.hoisting THEN named ELSE BodyLine(named, line)
    BY <1>4, <1>7, <1>8, <1>9, <2>1, <2>2 DEF Line
  <2>4. /\ named \in Parsers /\ named.count = 1 /\ named.body = p.body /\ named.blocks = p.blocks
        /\ named.answer = p.answer
        /\ named.paragraph = p.paragraph /\ named.caveat = p.caveat /\ named.conflict = p.conflict
    BY <1>4, <1>6, <1>9, <2>1, <2>2 DEF Parsers
  <2>5. ~p.hoisting /\ p.answer = NoLine
    BY <1>1, <1>2, <1>9 DEF Readable, Fresh
  <2>6. Readable(named)
    BY <2>4, <2>5 DEF Readable, Fresh, BodyKept, KeptMarks
  <2>7. Readable(r) /\ r.count = 1
    BY <2>3, <2>4, <2>6, BodyLineIs DEF Reads, SameHeader, Readable, Fresh
  <2> QED
    BY <1>1, <1>2, <1>7, <1>9, <2>5, <2>7 DEF Follows
<1>10. CASE n = 2 /\ q.hoisting
  <2>1. PICK answer \in AnyLine : answer = IF line.kind = "blank" THEN NoLine ELSE line
    BY <1>6
  <2>2. r = [q EXCEPT !.answer = answer]
    BY <1>4, <1>7, <1>8, <1>10, <2>1 DEF Line
  <2>3. /\ r \in Parsers /\ r.count = 2 /\ r.body = p.body /\ r.blocks = p.blocks
        /\ r.one = p.one /\ r.hoisting = p.hoisting
        /\ r.paragraph = p.paragraph /\ r.caveat = p.caveat /\ r.conflict = p.conflict
    BY <1>4, <1>10, <2>2 DEF Parsers
  <2>4. Readable(r)
    BY <2>3 DEF Readable, Fresh, BodyKept, KeptMarks
  <2> QED
    BY <1>1, <1>2, <1>7, <1>10, <2>3, <2>4 DEF Follows
<1>11. CASE n # 1 /\ ~(n = 2 /\ q.hoisting)
  <2>1. r = q \/ r = BodyLine(q, line)
    BY <1>4, <1>7, <1>8, <1>11 DEF Line
  <2>2. Readable(q)
    BY <1>1, <1>2, <1>4, <1>5, <1>11 DEF Readable, Fresh
  <2>3. /\ Readable(r) /\ r.count = n
        /\ r.one = p.one /\ r.hoisting = p.hoisting /\ r.answer = p.answer
    <3>1. CASE r = q
      BY <1>4, <2>2, <3>1
    <3>2. CASE r = BodyLine(q, line)
      BY <1>4, <1>5, <2>2, <3>2, BodyLineIs DEF Reads, SameHeader, Readable, Fresh
    <3> QED
      BY <2>1, <3>1, <3>2
  <2> QED
    BY <1>1, <1>2, <1>7, <2>3 DEF Follows
<1> QED
  BY <1>9, <1>10, <1>11

LEMMA FedTextIs ==
  ASSUME NEW p, Readable(p), NEW line \in Written
  PROVE  Follows(p, FedText(p, line)) /\ FedText(p, line).buffer = <<line>>
<1>1. <<line>> \in Seq(Written)
  OBVIOUS
<1> QED
  BY <1>1, BufferIs DEF FedText

LEMMA FedEndIs ==
  ASSUME NEW p, Readable(p), p.buffer # <<>>
  PROVE  Follows(p, FedEnd(p))
<1>1. p.buffer \in Seq(Written)
  BY DEF Readable, Parsers
<1>2. PICK line \in Written : line = p.buffer[1]
  BY <1>1
<1>3. PICK q : q = [p EXCEPT !.buffer = <<>>]
  OBVIOUS
<1>4. <<>> \in Seq(Written)
  OBVIOUS
<1>5. Follows(p, q)
  BY <1>3, <1>4, BufferIs
<1>6. Follows(q, Line(q, line))
  BY <1>5, LineIs DEF Follows
<1>7. FedEnd(p) = Line(q, line)
  BY <1>2, <1>3 DEF FedEnd
<1> QED
  BY <1>5, <1>6, <1>7, FollowsOn

\* When the parser is closed no block is open: what was shown is in a block.
LEMMA ClosedIs ==
  ASSUME NEW p, Readable(p)
  PROVE  Follows(p, Closed(p)) /\ MarksOf(Closed(p).body) \subseteq BlockMarks(Closed(p).blocks)
<1>1. PICK q : q = IF p.buffer = <<>> THEN p ELSE FedEnd(p)
  OBVIOUS
<1>2. Follows(p, p)
  BY DEF Follows, Readable, Parsers
<1>3. Follows(p, q)
  BY <1>1, <1>2, FedEndIs
<1>4. Readable(q) /\ q \in Parsers
  BY <1>3 DEF Follows, Readable
<1>5. PICK r : r = Flushed(q)
  OBVIOUS
<1>6. Carries(q, r) /\ r.paragraph = <<>> /\ r.caveat = <<>> /\ r.conflict = <<>>
  BY <1>4, <1>5, FlushedIs
<1>7. Follows(q, r)
  BY <1>4, <1>6, CarriesReads, ReadsFollows
<1>8. Follows(p, r)
  BY <1>3, <1>7, FollowsOn
<1>9. MarksOf(r.body) \subseteq BlockMarks(r.blocks)
  BY <1>6, <1>8, MarksEmpty DEF Follows, Readable, BodyKept, KeptMarks
<1>10. Closed(p) = r
  BY <1>1, <1>5 DEF Closed
<1> QED
  BY <1>8, <1>9, <1>10

LEMMA NewParserIs == Readable(NewParser)
<1>1. PICK p : p = NewParser
  OBVIOUS
<1>2. p \in Parsers
  BY <1>1 DEF NewParser, Parsers, AnyLine
<1>3. Fresh(p) /\ BodyKept(p)
  BY <1>1, MarksEmpty DEF NewParser, Fresh, BodyKept
<1> QED
  BY <1>1, <1>2, <1>3 DEF Readable

-----------------------------------------------------------------------------
(* What is sent.                                                           *)

\* The direct answer of a framed turn.
AnswerOf(p) == IF EngineAnswers(p.one.kind) THEN EngineAnswer ELSE Clean(p.answer, supplied)

IsSent(s) == s = [outcomes |-> s.outcomes, answers |-> s.answers, body |-> s.body]

\* What has been sent of what the parser has read.
Said(p, s) ==
  /\ IsSent(s)
  /\ \/ s.outcomes = <<>> /\ s.answers = <<>> /\ s.body = <<>>
     \/ /\ p.hoisting /\ s.outcomes = <<p.one.kind>>
        /\ \/ s.answers = <<>> /\ s.body = <<>>
           \/ p.count >= 2 /\ s.answers = <<AnswerOf(p)>>

LEMMA SaidStays ==
  ASSUME NEW p, NEW q, Follows(p, q), NEW s, Said(p, s), Readable(p)
  PROVE  Said(q, s)
<1>1. p.count \in Nat /\ q.count \in Nat /\ p.count <= q.count
  BY DEF Follows, Readable, Parsers
<1>2. p.hoisting => q.hoisting /\ q.one = p.one
  BY DEF Follows
<1>3. p.hoisting /\ p.count >= 2 => q.answer = p.answer /\ q.count >= 2
  BY <1>1 DEF Follows
<1> QED
  BY <1>2, <1>3 DEF Said, AnswerOf

LEMMA DrainedIs ==
  ASSUME NEW p, Readable(p), NEW s, Said(p, s)
  PROVE  LET d == Drained(p, s) IN
         /\ Said(p, d)
         /\ ~p.hoisting => d.outcomes = <<>>
         /\ p.hoisting => d.outcomes = <<p.one.kind>>
         /\ p.hoisting /\ p.count >= 2 => d.answers = <<AnswerOf(p)>>
         /\ d.body = s.body \/ d.body = CleanLines(p.body, supplied)
         /\ p.hoisting => d.body = <<>> \/ d.body = CleanLines(p.body, supplied)
<1>1. CASE ~p.hoisting
  BY <1>1 DEF Drained, Said
<1>2. CASE p.hoisting
  <2>1. p.count \in Nat
    BY DEF Readable, Parsers
  <2>2. PICK outcomes : outcomes = IF s.outcomes = <<>> THEN <<p.one.kind>> ELSE s.outcomes
    OBVIOUS
  <2>3. outcomes = <<p.one.kind>>
    BY <2>2 DEF Said
  <2>4. PICK answers : answers = IF s.answers = <<>> /\ p.count >= 2 THEN <<AnswerOf(p)>> ELSE s.answers
    OBVIOUS
  <2>5. \/ answers = <<>> /\ ~(p.count >= 2)
        \/ p.count >= 2 /\ answers = <<AnswerOf(p)>>
    BY <2>4 DEF Said
  <2>6. PICK body : body = IF answers = <<>> THEN s.body ELSE CleanLines(p.body, supplied)
    OBVIOUS
  <2>7. answers = <<>> => body = <<>>
    <3>1. answers = <<>> => s.answers = <<>>
      BY <2>4
    <3>2. s.answers = <<>> => s.body = <<>>
      BY DEF Said
    <3> QED
      BY <2>6, <3>1, <3>2
  <2>8. Drained(p, s) = [outcomes |-> outcomes, answers |-> answers, body |-> body]
    BY <1>2, <2>2, <2>4, <2>6 DEF Drained, AnswerOf
  <2>9. PICK d : d = Drained(p, s)
    OBVIOUS
  <2>10. d.outcomes = outcomes /\ d.answers = answers /\ d.body = body /\ IsSent(d)
    BY <2>8, <2>9 DEF IsSent
  <2>11. Said(p, d)
    BY <1>2, <2>3, <2>5, <2>7, <2>10 DEF Said
  <2> QED
    BY <1>2, <2>3, <2>5, <2>6, <2>7, <2>9, <2>10, <2>11
<1> QED
  BY <1>1, <1>2

\* A cleaned line keeps its marker only if it was supplied.
LEMMA CleanIs ==
  ASSUME NEW line \in AnyLine, NEW set
  PROVE  LET c == Clean(line, set) IN
           /\ line = NoLine => c = NoLine
           /\ line # NoLine => c.mark = NoMark \/ (c.mark = line.mark /\ line.mark \in set)
<1>1. CASE line = NoLine
  BY <1>1 DEF Clean
<1>2. CASE line # NoLine
  <2>1. line \in Shapes
    BY <1>2, LinesAssumption DEF AnyLine
  <2>2. PICK bare : bare = [line EXCEPT !.mark = NoMark]
    OBVIOUS
  <2>3. bare.mark = NoMark
    BY <2>1, <2>2 DEF Shapes
  <2> QED
    BY <1>2, <2>2, <2>3 DEF Clean
<1> QED
  BY <1>1, <1>2

LEMMA CleanEngine ==
  ASSUME NEW set
  PROVE  Clean(EngineAnswer, set) = EngineAnswer /\ EngineAnswer.mark = NoMark
<1>1. EngineAnswer.mark = NoMark
  BY DEF EngineAnswer
<1>2. [EngineAnswer EXCEPT !.mark = NoMark] = EngineAnswer
  <2>1. PICK e : e = EngineAnswer
    OBVIOUS
  <2>2. DOMAIN e = {"kind", "mark", "names", "fact"} /\ e = [x \in DOMAIN e |-> e[x]] /\ e["mark"] = NoMark
    BY <2>1 DEF EngineAnswer
  <2>3. PICK f : f = [e EXCEPT !["mark"] = NoMark]
    OBVIOUS
  <2>4. DOMAIN f = DOMAIN e /\ f = [x \in DOMAIN f |-> f[x]] /\ \A x \in DOMAIN e : f[x] = e[x]
    BY <2>2, <2>3
  <2>5. f = e
    BY <2>2, <2>4
  <2> QED
    BY <2>1, <2>3, <2>5
<1> QED
  BY <1>1, <1>2 DEF Clean

LEMMA CleanLinesIs ==
  ASSUME NEW lines \in Seq(Written), NEW set
  PROVE  LET c == CleanLines(lines, set) IN
           /\ IsSeq(c) /\ MarksOf(c) \subseteq set
           /\ \A line \in ToSet(c) : line.mark = NoMark \/ line.mark \in MarksOf(lines) \cap set
<1>1. PICK n \in Nat : n = Len(lines) /\ DOMAIN lines = 1..n
  OBVIOUS
<1>2. PICK c : c = CleanLines(lines, set)
  OBVIOUS
<1>3. DOMAIN c = 1..n /\ \A i \in 1..n : c[i] = Clean(lines[i], set)
  BY <1>1, <1>2 DEF CleanLines
<1>4. \A i \in 1..n : lines[i] \in Written /\ lines[i] \in AnyLine /\ lines[i] # NoLine
  BY <1>1, LineFields DEF AnyLine
<1>5. \A i \in 1..n : c[i].mark = NoMark \/ (c[i].mark = lines[i].mark /\ lines[i].mark \in set)
  BY <1>3, <1>4, CleanIs
<1>6. IsSeq(c)
  <2>1. \A i \in 1..n : c[i] \in ToSet(c)
    BY <1>3 DEF ToSet
  <2>2. c = [i \in 1..n |-> c[i]]
    BY <1>1, <1>2 DEF CleanLines
  <2> QED
    BY <2>1, <2>2 DEF IsSeq
<1>7. MarksOf(c) \subseteq set
  BY <1>3, <1>5 DEF MarksOf
<1>8. ToSet(c) = {c[i] : i \in 1..n}
  BY <1>3 DEF ToSet
<1>9. \A i \in 1..n : lines[i].mark # NoMark => lines[i].mark \in MarksOf(lines)
  BY <1>1 DEF MarksOf
<1>10. \A line \in ToSet(c) : line.mark = NoMark \/ line.mark \in MarksOf(lines) \cap set
  BY <1>5, <1>8, <1>9
<1> QED
  BY <1>2, <1>6, <1>7, <1>10

\* When the turn is over its outcome has been sent, and its answer unless there
\* is none.
LEMMA SentInAllIs ==
  ASSUME NEW p, Readable(p), NEW d, Said(p, d),
         ~p.hoisting => d.outcomes = <<>>,
         p.hoisting => d.outcomes = <<p.one.kind>>,
         p.hoisting /\ p.count >= 2 => d.answers = <<AnswerOf(p)>>,
         p.hoisting => d.body = <<>> \/ d.body = CleanLines(p.body, supplied),
         NEW covered \in BOOLEAN
  PROVE  LET outcome == ResultOutcome(p, covered)
             answer  == IF EngineAnswers(outcome) THEN EngineAnswer ELSE ResultAnswer(p)
             s       == SentInAll(p, outcome, d)
         IN  /\ IsSent(s) /\ s.outcomes = <<outcome>>
             /\ \/ s.answers = <<>> /\ Clean(answer, supplied) = NoLine
                \/ s.answers = <<Clean(answer, supplied)>>
             /\ EngineAnswers(outcome) => s.answers = <<EngineAnswer>>
             /\ s.body = <<>> \/ s.body = CleanLines(p.body, supplied)
<1>1. PICK outcome : outcome = ResultOutcome(p, covered)
  OBVIOUS
<1>2. PICK answer : answer = IF EngineAnswers(outcome) THEN EngineAnswer ELSE ResultAnswer(p)
  OBVIOUS
<1>3. PICK s : s = SentInAll(p, outcome, d)
  OBVIOUS
<1>4. CASE ~p.hoisting
  <2>1. ~EngineAnswers(outcome)
    BY <1>1, <1>4 DEF ResultOutcome, EngineAnswers
  <2>2. s = [outcomes |-> <<outcome>>,
             answers |-> IF answer = NoLine THEN <<>> ELSE <<Clean(answer, supplied)>>,
             body |-> CleanLines(p.body, supplied)]
    BY <1>2, <1>3, <1>4, <2>1 DEF SentInAll
  <2>3. /\ s.outcomes = <<outcome>> /\ s.body = CleanLines(p.body, supplied)
        /\ s.answers = IF answer = NoLine THEN <<>> ELSE <<Clean(answer, supplied)>>
        /\ IsSent(s)
    BY <2>2 DEF IsSent
  <2>4. answer = NoLine => Clean(answer, supplied) = NoLine
    BY DEF Clean
  <2> QED
    BY <1>1, <1>2, <1>3, <2>1, <2>3, <2>4
<1>5. CASE p.hoisting
  <2>1. outcome = p.one.kind /\ ResultAnswer(p) = p.answer
    BY <1>1, <1>5 DEF ResultOutcome, ResultAnswer
  <2>2. AnswerOf(p) = Clean(answer, supplied)
    BY <1>2, <2>1, CleanEngine DEF AnswerOf
  <2>3. d.outcomes = <<outcome>> /\ d.outcomes # <<>>
    BY <1>5, <2>1
  <2>4. CASE d.answers = <<>>
    <3>1. ~(p.count >= 2) /\ p.count \in Nat
      BY <1>5, <2>4 DEF Readable, Parsers
    <3>2. p.answer = NoLine
      BY <3>1 DEF Readable, Fresh
    <3>3. CASE EngineAnswers(outcome)
      <4>1. s = [d EXCEPT !.answers = <<EngineAnswer>>]
        BY <1>3, <2>3, <2>4, <3>3 DEF SentInAll
      <4>2. d = [outcomes |-> d.outcomes, answers |-> d.answers, body |-> d.body]
        BY DEF Said, IsSent
      <4>3. s.outcomes = d.outcomes /\ s.answers = <<EngineAnswer>> /\ s.body = d.body /\ IsSent(s)
        BY <4>1, <4>2 DEF IsSent
      <4> QED
        BY <1>1, <1>2, <1>3, <1>5, <2>3, <3>3, <4>3, CleanEngine
    <3>4. CASE ~EngineAnswers(outcome)
      <4>1. s = d
        BY <1>3, <2>3, <3>4 DEF SentInAll
      <4>2. Clean(answer, supplied) = NoLine
        BY <1>2, <2>1, <3>2, <3>4 DEF Clean
      <4>3. IsSent(d)
        BY DEF Said
      <4> QED
        BY <1>1, <1>2, <1>3, <1>5, <2>3, <2>4, <3>4, <4>1, <4>2, <4>3
    <3> QED
      BY <3>3, <3>4
  <2>5. CASE d.answers # <<>>
    <3>1. s = d
      BY <1>3, <2>3, <2>5 DEF SentInAll
    <3>2. d.answers = <<AnswerOf(p)>>
      BY <2>5 DEF Said
    <3>3. EngineAnswers(outcome) => AnswerOf(p) = EngineAnswer
      BY <2>1 DEF AnswerOf
    <3>4. IsSent(d)
      BY DEF Said
    <3> QED
      BY <1>1, <1>2, <1>3, <1>5, <2>2, <2>3, <3>1, <3>2, <3>3, <3>4
  <2> QED
    BY <2>4, <2>5
<1> QED
  BY <1>4, <1>5

-----------------------------------------------------------------------------
(* The turn.                                                               *)

Providers == [kind : {f.kind : f \in Followed} \cup {None}, attempt : {0, 1}, yielded : BOOLEAN]

\* Text of one attempt only was fed, and then there is no other.
HeardOnce ==
  provider \in Providers /\ attempts \subseteq {provider.attempt} /\ (attempts # {} => provider.yielded)

ExpansionIs ==
  /\ expansion \in Expansions
  /\ expansion.entry # None =>
       /\ expansion.entry \in DOMAIN Entries
       /\ Len(expansion.causes) = Len(First(Entries[expansion.entry], CausesMax))

AsRetrieved ==
  stage = "retrieved" =>
    /\ IsSeq(ranking) /\ Backed(ranking, expansion)
    /\ expansion.entry = None \/ expansion.entry \in ToSet(ranking)

\* The entry and its fixes are supplied.
Supports ==
  stage \in {"streaming", "over"} =>
    /\ expansion.entry = None \/ expansion.entry \in supplied
    /\ \A i \in 1..Len(expansion.causes) : ToSet(expansion.causes[i]) \subseteq supplied

Underway ==
  /\ stage # "over" => Readable(parser) /\ Said(parser, sent) /\ envelope = None
  /\ stage \in {"ask", "retrieved"} => sent.outcomes = <<>>

SentIsSupplied == IsSent(sent) /\ MarksOf(sent.body) \subseteq supplied

TurnInv ==
  /\ stage \in {"ask", "retrieved", "streaming", "over"}
  /\ stage = "ask" => query \in Queries
  /\ HeardOnce /\ ExpansionIs /\ AsRetrieved /\ Supports /\ Underway /\ SentIsSupplied

IInv == TurnInv /\ RecordedAsSaid /\ EntryDecides /\ NothingDangles

-----------------------------------------------------------------------------
(* The tail.                                                               *)

LEMMA SuggestedIs ==
  ASSUME NEW p \in Parsers, expansion \in Expansions, NEW outcome
  PROVE  /\ ToSet(Suggested(p, outcome)) \subseteq Indexed \ ToSet(selected)
         /\ IsInjective(Suggested(p, outcome))
<1>1. SuggestionsMax \in Nat
  BY BandAssumption
<1> DEFINE T == {l.names : l \in Written}
<1>2. p.suggested \in Seq(T) /\ expansion.suggested \in Seq(PointerSources)
  BY DEF Parsers, Expansions
<1>3. Among(p.suggested, Indexed) \in Seq(T \cap Indexed)
  BY <1>2, AmongIs
<1>4. ResultSuggestions(p, Indexed) \in Seq(T \cap Indexed)
  BY <1>1, <1>3, FirstIs DEF ResultSuggestions
<1>5. PICK named : named = expansion.suggested \o ResultSuggestions(p, Indexed)
  OBVIOUS
<1>6. IsSeq(named)
  <2>1. IsSeq(expansion.suggested) /\ IsSeq(ResultSuggestions(p, Indexed))
    BY <1>2, <1>4, IsSeqOf
  <2> QED
    BY <1>5, <2>1, ConcatList
<1>7. PICK outside : outside = Indexed \ ToSet(selected)
  OBVIOUS
<1>8. Among(named, outside) \in Seq(ToSet(named) \cap outside)
  BY <1>6, AmongIs DEF IsSeq
<1>9. PICK once : once = Updated(<<>>, Among(named, outside))
  OBVIOUS
<1>10. once \in Seq(ToSet(named) \cap outside) /\ IsInjective(once)
  BY <1>8, <1>9, UpdatedIs
<1>11. PICK cut : cut = First(once, SuggestionsMax)
  OBVIOUS
<1>12. cut \in Seq(ToSet(named) \cap outside) /\ IsInjective(cut)
  BY <1>1, <1>10, <1>11, FirstIs
<1>13. ToSet(cut) \subseteq outside
  BY <1>12, ToSetIs
<1>14. Suggested(p, outcome) = <<>> \/ Suggested(p, outcome) = cut
  BY <1>5, <1>7, <1>9, <1>11 DEF Suggested
<1>15. ToSet(<<>>) = {} /\ IsInjective(<<>>)
  BY DEF ToSet, IsInjective
<1> QED
  BY <1>7, <1>12, <1>13, <1>14, <1>15

LEMMA BuildCausesAre ==
  ASSUME ExpansionIs, Supports, stage = "streaming", expansion.entry # None
  PROVE  /\ DOMAIN BuildCauses = 1..Len(expansion.causes)
         /\ \A i \in 1..Len(expansion.causes) :
              /\ BuildCauses[i].statement = i
              /\ BuildCauses[i].cites \subseteq supplied /\ BuildCauses[i].fixes \subseteq supplied
<1>1. expansion.causes \in Seq(Seq(Passages))
  BY DEF ExpansionIs, Expansions
<1>2. PICK n \in Nat : n = Len(expansion.causes) /\ DOMAIN expansion.causes = 1..n
  BY <1>1
<1>3. PICK causes : causes = BuildCauses
  OBVIOUS
<1>4. DOMAIN causes = 1..n
      /\ \A i \in 1..n : causes[i] = Cause(i, i, {expansion.entry}, ToSet(expansion.causes[i]))
  BY <1>2, <1>3 DEF BuildCauses
<1>5. \A i \in 1..n : ToSet(expansion.causes[i]) \subseteq supplied
  BY <1>2 DEF Supports
<1>6. expansion.entry \in supplied
  BY DEF Supports
<1>7. ASSUME NEW i \in 1..n
      PROVE  /\ causes[i].statement = i
             /\ causes[i].cites \subseteq supplied /\ causes[i].fixes \subseteq supplied
  BY <1>4, <1>5, <1>6 DEF Cause
<1> QED
  BY <1>2, <1>3, <1>4, <1>7

LEMMA HoistedCausesAre ==
  ASSUME NEW p
  PROVE  \A i \in DOMAIN HoistedCauses(p) :
           HoistedCauses(p)[i].cites \subseteq supplied /\ HoistedCauses(p)[i].fixes \subseteq supplied
<1>1. PICK causes : causes = HoistedCauses(p)
  OBVIOUS
<1>2. SUFFICES ASSUME NEW i \in DOMAIN causes
               PROVE  causes[i].cites \subseteq supplied /\ causes[i].fixes \subseteq supplied
  BY <1>1
<1>3. DOMAIN causes = DOMAIN p.causes
  BY <1>1 DEF HoistedCauses
<1>4. PICK marks : marks = MarksOf(<<p.causes[i].statement>> \o
        (IF p.causes[i].check = NoLine THEN <<>> ELSE <<p.causes[i].check>>))
  OBVIOUS
<1>5. causes[i] = Cause(i, p.causes[i].statement, marks \cap supplied, {})
  BY <1>1, <1>3, <1>4 DEF HoistedCauses
<1> QED
  BY <1>5 DEF Cause

\* The tail's envelope: citations of what was shown and of what the causes name.
LEMMA CitedIs ==
  ASSUME NEW answer, NEW blocks, NEW causes,
         \A i \in DOMAIN causes : causes[i].cites \subseteq supplied /\ causes[i].fixes \subseteq supplied
  PROVE  LET cited == Cited(answer, blocks, causes) IN
         /\ cited \subseteq supplied
         /\ BlockMarks(blocks) \cap supplied \subseteq cited
         /\ answer # NoLine => {answer.mark} \cap supplied \subseteq cited
         /\ \A cause \in ToSet(causes) :
              /\ cause.cites \cup cause.fixes \subseteq cited
              /\ cause.fixes = {} => cause.cites \subseteq UnbackedIn(causes)
<1>1. PICK cited : cited = Cited(answer, blocks, causes)
  OBVIOUS
<1>2. PICK ours : ours = UNION {causes[i].cites \cup causes[i].fixes : i \in DOMAIN causes}
  OBVIOUS
<1>3. PICK theirs : theirs = UNION {MarksOf(blocks[i].lines) \cap supplied : i \in DOMAIN blocks}
  OBVIOUS
<1>4. PICK its : its = IF answer = NoLine THEN {} ELSE {answer.mark} \cap supplied
  OBVIOUS
<1>5. cited = (its \cup theirs) \cup (supplied \cap ours)
  BY <1>1, <1>2, <1>3, <1>4 DEF Cited, CitedBy
<1>6. its \subseteq supplied /\ theirs \subseteq supplied
  BY <1>3, <1>4
<1>7. BlockMarks(blocks) \cap supplied \subseteq theirs
  BY <1>3 DEF BlockMarks
<1>8. ASSUME NEW cause \in ToSet(causes)
      PROVE  /\ cause.cites \cup cause.fixes \subseteq cited
             /\ cause.fixes = {} => cause.cites \subseteq UnbackedIn(causes)
  <2>1. PICK i \in DOMAIN causes : cause = causes[i]
    BY DEF ToSet
  <2>2. cause.cites \subseteq supplied /\ cause.fixes \subseteq supplied
    BY <2>1
  <2>3. cause.cites \cup cause.fixes \subseteq ours
    BY <1>2, <2>1
  <2>4. cause.fixes = {} => cause.cites \subseteq UnbackedIn(causes)
    BY <2>1, <2>2 DEF UnbackedIn
  <2> QED
    BY <1>5, <2>2, <2>3, <2>4
<1> QED
  BY <1>1, <1>4, <1>5, <1>6, <1>7, <1>8

LEMMA FinishTells ==
  ASSUME IInv, Finish
  PROVE  RecordedAsSaid' /\ EntryDecides' /\ NothingDangles' /\ IsSent(sent')
<1> DEFINE p == Closed(parser)
           covered == supplied # {}
           outcome == ResultOutcome(p, covered)
           answer == IF EngineAnswers(outcome) THEN EngineAnswer ELSE ResultAnswer(p)
           entry == expansion.entry # None
           causes == IF outcome # "ranked-causes" THEN <<>>
                     ELSE IF entry THEN BuildCauses ELSE HoistedCauses(p)
           narrowing == IF outcome # "needs-narrowing" THEN <<>>
                        ELSE IF entry THEN BuildNarrowing ELSE ResultNarrowing(p)
           device == IF outcome = "no-manual-for-device" /\ p.device # NoLine
                       THEN p.device.names ELSE None
           ungrounded == \E i \in DOMAIN p.blocks : Ungrounded(p.blocks[i], supplied)
           cited == Cited(answer, p.blocks, causes)
           said == Clean(answer, supplied)
<1>1. /\ stage = "streaming" /\ stage' = "over"
      /\ sent' = SentInAll(p, outcome, Drained(p, sent))
      /\ envelope' = [citations |-> cited, unbacked |-> UnbackedIn(causes), causes |-> causes,
                      narrowing |-> narrowing, suggested |-> Suggested(p, outcome), device |-> device,
                      manual |-> device \in Gaps, ungrounded |-> ungrounded, framing |-> FramingOf(p)]
      /\ recorded' = [outcome |-> outcome, answer |-> said]
      /\ UNCHANGED <<selected, expansion, supplied>>
  BY DEF Finish
<1>2. Readable(parser) /\ Said(parser, sent) /\ ExpansionIs /\ Supports
  BY <1>1 DEF IInv, TurnInv, Underway
<1>3. Readable(p) /\ p \in Parsers /\ Said(p, sent) /\ MarksOf(p.body) \subseteq BlockMarks(p.blocks)
  BY <1>2, ClosedIs, SaidStays DEF Follows, Readable
<1>4. ResultAnswer(p) \in AnyLine
  BY <1>3 DEF Parsers, ResultAnswer
<1>5. p.body \in Seq(Written)
  BY <1>3 DEF Parsers
<1> HIDE DEF p
<1>6. /\ IsSent(sent') /\ sent'.outcomes = <<outcome>>
      /\ \/ sent'.answers = <<>> /\ said = NoLine
         \/ sent'.answers = <<said>>
      /\ EngineAnswers(outcome) => sent'.answers = <<EngineAnswer>>
      /\ sent'.body = <<>> \/ sent'.body = CleanLines(p.body, supplied)
  <2>1. PICK d : d = Drained(p, sent)
    OBVIOUS
  <2>2. /\ Said(p, d)
        /\ ~p.hoisting => d.outcomes = <<>>
        /\ p.hoisting => d.outcomes = <<p.one.kind>>
        /\ p.hoisting /\ p.count >= 2 => d.answers = <<AnswerOf(p)>>
        /\ p.hoisting => d.body = <<>> \/ d.body = CleanLines(p.body, supplied)
    BY <1>3, <2>1, DrainedIs
  <2>3. covered \in BOOLEAN
    OBVIOUS
  <2>4. sent' = SentInAll(p, outcome, d)
    BY <1>1, <2>1
  <2> HIDE DEF covered
  <2> QED
    BY <1>3, <2>2, <2>3, <2>4, SentInAllIs
<1>7. recorded'.outcome = outcome /\ recorded'.answer = said
  BY <1>1
<1>8. /\ envelope'.citations = cited /\ envelope'.unbacked = UnbackedIn(causes)
      /\ envelope'.causes = causes /\ envelope'.narrowing = narrowing
      /\ envelope'.suggested = Suggested(p, outcome)
  <2> HIDE DEF cited, causes, narrowing, outcome, device, ungrounded
  <2> QED
    BY <1>1
<1>9. RecordedAsSaid'
  <2> HIDE DEF said, outcome
  <2> QED
    BY <1>6, <1>7 DEF RecordedAsSaid
<1>10. \A i \in DOMAIN causes : causes[i].cites \subseteq supplied /\ causes[i].fixes \subseteq supplied
  <2>1. DOMAIN <<>> = {}
    OBVIOUS
  <2>2. CASE outcome # "ranked-causes"
    <3>1. causes = <<>>
      BY <2>2
    <3> HIDE DEF causes
    <3> QED
      BY <2>1, <3>1
  <2>3. CASE outcome = "ranked-causes" /\ entry
    BY <1>1, <1>2, <2>3, BuildCausesAre
  <2>4. CASE outcome = "ranked-causes" /\ ~entry
    <3>1. causes = HoistedCauses(p)
      BY <2>4
    <3> HIDE DEF causes
    <3> QED
      BY <3>1, HoistedCausesAre
  <2> QED
    BY <2>2, <2>3, <2>4
<1>11. EntryDecides'
  <2>1. SUFFICES ASSUME expansion.entry # None
                 PROVE  LET list == First(Entries[expansion.entry], CausesMax) IN
                          /\ outcome = "ranked-causes" =>
                               /\ [i \in DOMAIN causes |-> causes[i].statement] = [i \in DOMAIN list |-> i]
                               /\ sent'.answers = <<EngineAnswer>>
                          /\ outcome = "needs-narrowing" => narrowing = [i \in DOMAIN list |-> i]
    <3> HIDE DEF outcome, causes, narrowing
    <3> QED
      BY <1>1, <1>7, <1>8 DEF EntryDecides, Complete
  <2>2. /\ expansion.entry \in DOMAIN Entries
        /\ Len(expansion.causes) = Len(First(Entries[expansion.entry], CausesMax))
    BY <1>2, <2>1 DEF ExpansionIs
  <2>3. PICK list : list = First(Entries[expansion.entry], CausesMax)
    OBVIOUS
  <2>4. {CausesMax, NarrowingMin} \subseteq Nat /\ 1 <= NarrowingMin /\ NarrowingMin <= CausesMax
    BY BandAssumption
  <2>5. IsSeq(Entries[expansion.entry]) /\ Len(Entries[expansion.entry]) >= NarrowingMin
    BY <2>2, EntriesAssumption
  <2>6. PICK n \in Nat : n = Len(list) /\ DOMAIN list = 1..n /\ n >= NarrowingMin
    <3>1. /\ list \in Seq(ToSet(Entries[expansion.entry]))
          /\ Len(list) = IF Len(Entries[expansion.entry]) < CausesMax
                           THEN Len(Entries[expansion.entry]) ELSE CausesMax
      BY <2>3, <2>4, <2>5, FirstIs DEF IsSeq
    <3> QED
      BY <2>4, <2>5, <3>1
  <2>7. expansion.causes \in Seq(Seq(Passages))
    BY <1>2 DEF ExpansionIs, Expansions
  <2>8. Len(expansion.causes) = n /\ DOMAIN expansion.causes = 1..n /\ expansion.causes # <<>>
    BY <2>2, <2>3, <2>4, <2>6, <2>7
  <2>9. ASSUME outcome = "ranked-causes"
        PROVE  /\ [i \in DOMAIN causes |-> causes[i].statement] = [i \in DOMAIN list |-> i]
               /\ sent'.answers = <<EngineAnswer>>
    <3>1. causes = BuildCauses
      BY <2>1, <2>9
    <3>2. PICK built : built = BuildCauses
      OBVIOUS
    <3>3. DOMAIN built = 1..n /\ \A i \in 1..n : built[i].statement = i
      BY <1>1, <1>2, <2>1, <2>8, <3>2, BuildCausesAre
    <3>4. [i \in DOMAIN built |-> built[i].statement] = [i \in DOMAIN list |-> i]
      BY <2>6, <3>3
    <3>5. EngineAnswers(outcome)
      BY <2>8, <2>9 DEF EngineAnswers
    <3> QED
      BY <1>6, <3>1, <3>2, <3>4, <3>5
  <2>10. ASSUME outcome = "needs-narrowing"
         PROVE  narrowing = [i \in DOMAIN list |-> i]
    <3>1. narrowing = BuildNarrowing
      BY <2>1, <2>10
    <3>2. ~(Len(expansion.causes) < NarrowingMin)
      BY <2>4, <2>6, <2>8
    <3>3. BuildNarrowing = [i \in DOMAIN expansion.causes |-> i]
      BY <3>2 DEF BuildNarrowing
    <3> QED
      BY <2>6, <2>8, <3>1, <3>3
  <2> QED
    BY <2>3, <2>9, <2>10
<1>12. NothingDangles'
  <2> USE DEF said
  <2>1. /\ cited \subseteq supplied
        /\ BlockMarks(p.blocks) \cap supplied \subseteq cited
        /\ answer # NoLine => {answer.mark} \cap supplied \subseteq cited
        /\ \A cause \in ToSet(causes) :
             /\ cause.cites \cup cause.fixes \subseteq cited
             /\ cause.fixes = {} => cause.cites \subseteq UnbackedIn(causes)
    <3> HIDE DEF causes, answer
    <3> QED
      BY <1>10, CitedIs
  <2>2. PICK shown : shown = CleanLines(p.body, supplied)
    OBVIOUS
  <2>3. /\ IsSeq(shown) /\ MarksOf(shown) \subseteq supplied
        /\ \A line \in ToSet(shown) : line.mark = NoMark \/ line.mark \in MarksOf(p.body) \cap supplied
    BY <1>5, <2>2, CleanLinesIs
  <2>4. IsSeq(<<>>) /\ MarksOf(<<>>) = {} /\ ToSet(<<>>) = {}
    BY MarksEmpty DEF IsSeq, ToSet
  <2>5. /\ IsSeq(sent'.body) /\ MarksOf(sent'.body) \subseteq supplied
        /\ \A line \in ToSet(sent'.body) : line.mark \in cited \cup {NoMark}
    <3> HIDE DEF cited
    <3> QED
      BY <1>3, <1>6, <2>1, <2>2, <2>3, <2>4
  <2>6. said = NoLine \/ said.mark \in cited \cup {NoMark}
    <3>1. CASE EngineAnswers(outcome)
      BY <3>1, CleanEngine
    <3>2. CASE ~EngineAnswers(outcome)
      <4>1. answer \in AnyLine
        BY <1>4, <3>2
      <4> HIDE DEF answer, cited
      <4> QED
        BY <2>1, <4>1, CleanIs
    <3> QED
      BY <3>1, <3>2
  <2> HIDE DEF said, cited, causes, outcome
  <2>7. IsSeq(sent'.answers) /\ \A line \in ToSet(sent'.answers) : line = said
    <3>1. IsSeq(<<said>>) /\ ToSet(<<said>>) = {said}
      <4>1. <<said>> \in Seq({said})
        OBVIOUS
      <4>2. PICK one : one = <<said>>
        OBVIOUS
      <4>3. DOMAIN one = 1..1 /\ one[1] = said
        BY <4>2
      <4>4. ToSet(one) = {said}
        BY <4>3 DEF ToSet
      <4> QED
        BY <4>1, <4>2, <4>4 DEF IsSeq
    <3> QED
      BY <1>6, <2>4, <3>1
  <2>8. ToSet(sent'.body \o sent'.answers) = ToSet(sent'.body) \cup ToSet(sent'.answers)
    BY <2>5, <2>7, ToSetConcat DEF IsSeq
  <2>9. /\ ToSet(Suggested(p, outcome)) \subseteq Indexed \ ToSet(selected)
        /\ IsInjective(Suggested(p, outcome))
    BY <1>2, <1>3, SuggestedIs DEF ExpansionIs
  <2>10. \A line \in ToSet(sent'.body \o sent'.answers) :
           line = NoLine \/ line.mark \in cited \cup {NoMark}
    BY <2>5, <2>6, <2>7, <2>8
  <2> QED
    BY <1>1, <1>8, <2>1, <2>5, <2>9, <2>10 DEF NothingDangles, Complete
<1> QED
  BY <1>6, <1>9, <1>11, <1>12

-----------------------------------------------------------------------------
(* The invariant.                                                          *)

LEMMA InitInv == Init => IInv
<1> SUFFICES ASSUME Init PROVE IInv
  OBVIOUS
<1>1. /\ stage = "ask" /\ query \in Queries /\ expansion = NoExpansion /\ supplied = {}
      /\ provider = [kind |-> None, attempt |-> 0, yielded |-> FALSE]
      /\ parser = NewParser /\ envelope = None /\ attempts = {}
      /\ sent = [outcomes |-> <<>>, answers |-> <<>>, body |-> <<>>]
  BY DEF Init
<1>2. HeardOnce
  BY <1>1 DEF HeardOnce, Providers
<1>3. ExpansionIs
  <2>1. expansion \in Expansions /\ expansion.entry = None
    BY <1>1 DEF NoExpansion, Expansions
  <2> QED
    BY <2>1 DEF ExpansionIs
<1>4. AsRetrieved /\ Supports
  BY <1>1 DEF AsRetrieved, Supports
<1>5. sent.outcomes = <<>> /\ sent.answers = <<>> /\ sent.body = <<>> /\ IsSent(sent)
  BY <1>1 DEF IsSent
<1>6. Underway
  BY <1>1, <1>5, NewParserIs DEF Underway, Said
<1>7. SentIsSupplied
  BY <1>5, MarksEmpty DEF SentIsSupplied
<1>8. ~Complete
  BY <1>1 DEF Complete
<1>9. RecordedAsSaid /\ EntryDecides /\ NothingDangles
  BY <1>7, <1>8 DEF RecordedAsSaid, EntryDecides, NothingDangles, SentIsSupplied
<1> QED
  BY <1>1, <1>2, <1>3, <1>4, <1>6, <1>7, <1>9 DEF IInv, TurnInv

\* Before the tail there is nothing to be true to but what was sent.
LEMMA NotYet ==
  ASSUME TurnInv', envelope' = None
  PROVE  IInv'
<1>1. ~Complete'
  BY DEF Complete
<1>2. RecordedAsSaid' /\ EntryDecides'
  BY <1>1 DEF RecordedAsSaid, EntryDecides
<1>3. NothingDangles'
  BY <1>1 DEF NothingDangles, TurnInv, SentIsSupplied
<1> QED
  BY <1>2, <1>3 DEF IInv

LEMMA RetrieveAndExpandInv ==
  ASSUME IInv, RetrieveAndExpand
  PROVE  IInv'
<1>1. /\ stage = "ask" /\ stage' = "retrieved"
      /\ ranking' = Retrieve(query) /\ expansion' = Expand(Retrieve(query))
      /\ UNCHANGED <<supplied, provider, parser, sent, envelope, attempts>>
  BY DEF RetrieveAndExpand
<1>2. /\ query \in Queries /\ HeardOnce /\ SentIsSupplied /\ Readable(parser) /\ IsSent(sent)
      /\ Said(parser, sent) /\ envelope = None /\ sent.outcomes = <<>>
  BY <1>1 DEF IInv, TurnInv, Underway, SentIsSupplied
<1>3. IsSeq(ranking')
  BY <1>1, <1>2, RetrieveIsList
<1>4. /\ expansion' \in Expansions /\ Backed(ranking', expansion')
      /\ expansion'.entry = None
           \/ /\ expansion'.entry \in DOMAIN Entries \cap ToSet(ranking')
              /\ Len(expansion'.causes) = Len(First(Entries[expansion'.entry], CausesMax))
  BY <1>1, <1>3, ExpandIs
<1>5. HeardOnce'
  BY <1>1, <1>2 DEF HeardOnce
<1>6. ExpansionIs'
  BY <1>4 DEF ExpansionIs
<1>7. AsRetrieved'
  BY <1>3, <1>4 DEF AsRetrieved
<1>8. Supports'
  BY <1>1 DEF Supports
<1>9. sent.answers = <<>> /\ sent.body = <<>>
  <2>1. <<parser.one.kind>> # <<>>
    OBVIOUS
  <2> QED
    BY <1>2, <2>1 DEF Said
<1>10. Underway'
  BY <1>1, <1>2, <1>9 DEF Underway, Said
<1>11. SentIsSupplied'
  BY <1>1, <1>2 DEF SentIsSupplied
<1>12. TurnInv'
  BY <1>1, <1>5, <1>6, <1>7, <1>8, <1>10, <1>11 DEF TurnInv
<1> QED
  BY <1>1, <1>2, <1>12, NotYet

LEMMA AssembleInv ==
  ASSUME IInv, Assemble
  PROVE  IInv'
<1>1. /\ stage = "retrieved" /\ stage' = "streaming"
      /\ supplied' = ToSet(ranking \o expansion.admitted)
      /\ UNCHANGED <<expansion, parser, sent, envelope, attempts>>
  BY DEF Assemble
<1>2. PICK f \in Followed : provider' = [provider EXCEPT !.kind = f.kind]
  BY DEF Assemble
<1>3. /\ HeardOnce /\ ExpansionIs /\ AsRetrieved /\ Readable(parser) /\ IsSent(sent)
      /\ Said(parser, sent) /\ envelope = None /\ sent.outcomes = <<>>
  BY <1>1 DEF IInv, TurnInv, Underway, SentIsSupplied
<1>4. HeardOnce'
  <2>1. /\ provider' \in Providers /\ provider'.attempt = provider.attempt
        /\ provider'.yielded = provider.yielded
    BY <1>2, <1>3 DEF HeardOnce, Providers
  <2> QED
    BY <1>1, <1>3, <2>1 DEF HeardOnce
<1>5. ExpansionIs'
  BY <1>1, <1>3 DEF ExpansionIs
<1>6. AsRetrieved'
  BY <1>1 DEF AsRetrieved
<1>7. supplied' = ToSet(ranking) \cup ToSet(expansion.admitted)
  <2>1. ranking \in Seq(ToSet(ranking))
    BY <1>1, <1>3 DEF AsRetrieved, IsSeq
  <2>2. expansion.admitted \in Seq(Passages)
    BY <1>3 DEF ExpansionIs, Expansions
  <2> QED
    BY <1>1, <2>1, <2>2, ToSetConcat
<1>8. Supports'
  BY <1>1, <1>3, <1>7 DEF Supports, AsRetrieved, Backed
<1>9. sent.answers = <<>> /\ sent.body = <<>>
  <2>1. <<parser.one.kind>> # <<>>
    OBVIOUS
  <2> QED
    BY <1>3, <2>1 DEF Said
<1>10. Underway'
  BY <1>1, <1>3, <1>9 DEF Underway, Said
<1>11. SentIsSupplied'
  BY <1>1, <1>3, <1>9, MarksEmpty DEF SentIsSupplied
<1>12. TurnInv'
  BY <1>1, <1>4, <1>5, <1>6, <1>8, <1>10, <1>11 DEF TurnInv
<1> QED
  BY <1>1, <1>3, <1>12, NotYet

LEMMA FeedInv ==
  ASSUME IInv, NEW p, NEW ends \in BOOLEAN, Feed(p, ends), stage = "streaming" => Follows(parser, p)
  PROVE  IInv'
<1>1. /\ stage = "streaming" /\ stage' = "streaming" /\ parser' = p
      /\ provider' = [provider EXCEPT !.yielded = TRUE]
      /\ sent' = IF ends THEN Drained(p, sent) ELSE sent
      /\ attempts' = attempts \cup {provider.attempt}
      /\ UNCHANGED <<expansion, supplied, envelope>>
  BY DEF Feed
<1>2. /\ HeardOnce /\ ExpansionIs /\ Supports /\ SentIsSupplied /\ Readable(parser)
      /\ Said(parser, sent) /\ envelope = None
  BY <1>1 DEF IInv, TurnInv, Underway
<1>3. Readable(p) /\ Said(p, sent)
  BY <1>1, <1>2, SaidStays DEF Follows
<1>4. Said(p, sent') /\ (sent'.body = sent.body \/ sent'.body = CleanLines(p.body, supplied))
  BY <1>1, <1>3, DrainedIs
<1>5. MarksOf(sent'.body) \subseteq supplied
  <2>1. p.body \in Seq(Written)
    BY <1>3 DEF Readable, Parsers
  <2>2. MarksOf(CleanLines(p.body, supplied)) \subseteq supplied
    BY <2>1, CleanLinesIs
  <2> QED
    BY <1>2, <1>4, <2>2 DEF SentIsSupplied
<1>6. HeardOnce'
  <2>1. provider' \in Providers /\ provider'.attempt = provider.attempt /\ provider'.yielded
    BY <1>1, <1>2 DEF HeardOnce, Providers
  <2> QED
    BY <1>1, <1>2, <2>1 DEF HeardOnce
<1>7. ExpansionIs' /\ AsRetrieved' /\ Supports'
  BY <1>1, <1>2 DEF ExpansionIs, AsRetrieved, Supports
<1>8. Said(parser, sent)'
  BY <1>1, <1>4 DEF Said, AnswerOf, EngineAnswers, IsSent
<1>9. Underway'
  BY <1>1, <1>2, <1>3, <1>8 DEF Underway
<1>10. SentIsSupplied'
  BY <1>1, <1>4, <1>5 DEF SentIsSupplied, Said, IsSent
<1>11. TurnInv'
  BY <1>1, <1>6, <1>7, <1>9, <1>10 DEF TurnInv
<1> QED
  BY <1>1, <1>2, <1>11, NotYet

LEMMA WriteLineInv ==
  ASSUME IInv, NEW line \in Written, WriteLine(line)
  PROVE  IInv'
<1>1. PICK text : text = FedText(parser, line)
  OBVIOUS
<1>2. ASSUME stage = "streaming"
      PROVE  Follows(parser, text) /\ Follows(parser, FedEnd(text))
  <2>1. Readable(parser)
    BY <1>2 DEF IInv, TurnInv, Underway
  <2>2. Follows(parser, text) /\ text.buffer = <<line>>
    BY <1>1, <2>1, FedTextIs
  <2>3. <<line>> # <<>>
    OBVIOUS
  <2>4. Follows(text, FedEnd(text))
    BY <2>2, <2>3, FedEndIs DEF Follows
  <2> QED
    BY <2>1, <2>2, <2>4, FollowsOn
<1>3. CASE Feed(text, TRUE)
  BY <1>2, <1>3, FeedInv
<1>4. ASSUME NEW ends \in BOOLEAN, Feed(FedEnd(text), ends) PROVE IInv'
  BY <1>2, <1>4, FeedInv
<1> QED
  BY <1>1, <1>3, <1>4 DEF WriteLine

LEMMA EndLineInv ==
  ASSUME IInv, EndLine
  PROVE  IInv'
<1>1. PICK ends \in BOOLEAN : Feed(FedEnd(parser), ends)
  BY DEF EndLine
<1>2. ASSUME stage = "streaming" PROVE Follows(parser, FedEnd(parser))
  BY <1>2, FedEndIs DEF EndLine, IInv, TurnInv, Underway
<1> QED
  BY <1>1, <1>2, FeedInv

LEMMA RetryInv ==
  ASSUME IInv, Retry
  PROVE  IInv'
<1>1. /\ stage = "streaming" /\ ~provider.yielded
      /\ provider' = [provider EXCEPT !.attempt = 1]
      /\ UNCHANGED <<stage, query, ranking, expansion, supplied, parser, sent, envelope, attempts>>
  BY DEF Retry, LimitsRate, MayRetry
<1>2. /\ HeardOnce /\ ExpansionIs /\ AsRetrieved /\ Supports /\ SentIsSupplied /\ Underway
      /\ envelope = None
  BY <1>1 DEF IInv, TurnInv, Underway
<1>3. HeardOnce'
  <2>1. attempts = {}
    BY <1>1, <1>2 DEF HeardOnce
  <2>2. provider' \in Providers
    BY <1>1, <1>2 DEF HeardOnce, Providers
  <2> QED
    BY <1>1, <2>1, <2>2 DEF HeardOnce
<1>4. ExpansionIs' /\ AsRetrieved' /\ Supports'
  BY <1>1, <1>2 DEF ExpansionIs, AsRetrieved, Supports
<1>5. Underway' /\ SentIsSupplied'
  BY <1>1, <1>2 DEF Underway, SentIsSupplied, Said, AnswerOf, EngineAnswers, IsSent
<1>6. TurnInv'
  BY <1>1, <1>3, <1>4, <1>5 DEF TurnInv
<1> QED
  BY <1>1, <1>2, <1>6, NotYet

LEMMA EndWithInv ==
  ASSUME IInv, stage = "streaming", NEW outcome, EndWith(outcome)
  PROVE  IInv'
<1>1. /\ stage' = "over"
      /\ sent' = [sent EXCEPT !.outcomes = Append(@, outcome)]
      /\ UNCHANGED <<query, ranking, expansion, supplied, provider, parser, envelope, attempts>>
  BY DEF EndWith
<1>2. HeardOnce /\ ExpansionIs /\ Supports /\ SentIsSupplied /\ envelope = None
  BY DEF IInv, TurnInv, Underway
<1>3. HeardOnce'
  BY <1>1, <1>2 DEF HeardOnce
<1>4. ExpansionIs' /\ AsRetrieved' /\ Supports' /\ Underway'
  BY <1>1, <1>2 DEF ExpansionIs, AsRetrieved, Supports, Underway
<1>5. SentIsSupplied'
  <2>1. PICK outcomes : outcomes = Append(sent.outcomes, outcome)
    OBVIOUS
  <2>2. PICK s : s = [sent EXCEPT !.outcomes = outcomes]
    OBVIOUS
  <2>3. sent = [outcomes |-> sent.outcomes, answers |-> sent.answers, body |-> sent.body]
    BY <1>2 DEF SentIsSupplied, IsSent
  <2>4. s.body = sent.body /\ IsSent(s)
    BY <2>2, <2>3 DEF IsSent
  <2> QED
    BY <1>1, <1>2, <2>1, <2>2, <2>4 DEF SentIsSupplied, IsSent
<1>6. TurnInv'
  BY <1>1, <1>3, <1>4, <1>5 DEF TurnInv
<1> QED
  BY <1>1, <1>2, <1>6, NotYet

LEMMA FinishInv ==
  ASSUME IInv, Finish
  PROVE  IInv'
<1>1. /\ stage = "streaming" /\ stage' = "over"
      /\ UNCHANGED <<query, ranking, expansion, supplied, provider, attempts>>
  BY DEF Finish
<1>2. HeardOnce /\ ExpansionIs /\ Supports
  BY DEF IInv, TurnInv
<1>3. RecordedAsSaid' /\ EntryDecides' /\ NothingDangles' /\ IsSent(sent')
  BY FinishTells
<1>4. HeardOnce'
  BY <1>1, <1>2 DEF HeardOnce
<1>5. ExpansionIs' /\ AsRetrieved' /\ Supports' /\ Underway'
  BY <1>1, <1>2 DEF ExpansionIs, AsRetrieved, Supports, Underway
<1>6. SentIsSupplied'
  BY <1>3 DEF SentIsSupplied, NothingDangles, IsSent
<1>7. TurnInv'
  BY <1>1, <1>4, <1>5, <1>6 DEF TurnInv
<1> QED
  BY <1>3, <1>7 DEF IInv

LEMMA StutterInv ==
  ASSUME IInv, UNCHANGED vars
  PROVE  IInv'
<1>1. UNCHANGED <<stage, query, selected, ranking, expansion, supplied, provider, parser, sent,
                  envelope, recorded, attempts>>
  BY DEF vars
<1>2. TurnInv'
  BY <1>1 DEF IInv, TurnInv, HeardOnce, ExpansionIs, AsRetrieved, Supports, Underway, SentIsSupplied,
              Said, AnswerOf, EngineAnswers, IsSent
<1>3. RecordedAsSaid' /\ EntryDecides'
  BY <1>1 DEF IInv, RecordedAsSaid, EntryDecides, Complete
<1>4. NothingDangles'
  BY <1>1 DEF IInv, NothingDangles, Complete
<1> QED
  BY <1>2, <1>3, <1>4 DEF IInv

LEMMA NextInv ==
  ASSUME IInv, [Next]_vars
  PROVE  IInv'
<1>1. CASE RetrieveAndExpand
  BY <1>1, RetrieveAndExpandInv
<1>2. CASE Assemble
  BY <1>2, AssembleInv
<1>3. CASE EndLine
  BY <1>3, EndLineInv
<1>4. ASSUME NEW line \in Offered, WriteLine(line) PROVE IInv'
  BY <1>4, WriteLineInv DEF Offered, Written
<1>5. CASE Retry
  BY <1>5, RetryInv
<1>6. ASSUME NEW stated \in {"short", "long", "absent"}, RateLimited(stated) PROVE IInv'
  BY <1>6, EndWithInv DEF RateLimited, LimitsRate
<1>7. ASSUME NEW failure \in {"unreachable", "auth", "error"}, Fail(failure) PROVE IInv'
  BY <1>7, EndWithInv DEF Fail
<1>8. CASE Watchdog
  BY <1>8, EndWithInv DEF Watchdog
<1>9. CASE Finish
  BY <1>9, FinishInv
<1>10. CASE UNCHANGED vars
  BY <1>10, StutterInv
<1> QED
  BY <1>1, <1>2, <1>3, <1>4, <1>5, <1>6, <1>7, <1>8, <1>9, <1>10 DEF Next

LEMMA TurnKeeps == Spec => []IInv
<1>1. IInv /\ [Next]_vars => IInv'
  BY NextInv
<1> QED
  BY <1>1, InitInv, PTL DEF Spec

-----------------------------------------------------------------------------
(* Theorems.                                                               *)

\* A retry never repeats what the reader was told: whatever is streamed, failed
\* and retried, text of one attempt only is ever fed (6.8, 6.10;
\* turn.py, anthropic.py:142).
THEOREM OneIsHeard == Spec => []OneAttemptIsHeard
<1>1. IInv => OneAttemptIsHeard
  <2> SUFFICES ASSUME HeardOnce PROVE OneAttemptIsHeard
    BY DEF IInv, TurnInv
  <2>1. PICK a : a = provider.attempt
    OBVIOUS
  <2>2. IsFiniteSet({a}) /\ Cardinality({a}) = 1
    BY FS_Singleton
  <2>3. attempts \in SUBSET {a}
    BY <2>1 DEF HeardOnce
  <2>4. Cardinality(attempts) <= Cardinality({a})
    BY <2>2, <2>3, FS_Subset
  <2> QED
    BY <2>2, <2>4 DEF OneAttemptIsHeard
<1> QED
  BY <1>1, TurnKeeps, PTL

\* However the answer is cut into deltas, the outcome is sent once, the direct
\* answer at most once, and the conversation records what was sent (4b, 7.6).
THEOREM RecordIsWhatWasSaid == Spec => []RecordedAsSaid
<1>1. IInv => RecordedAsSaid
  BY DEF IInv
<1> QED
  BY <1>1, TurnKeeps, PTL

\* No marker the reader sees and no passage a cause names is without its
\* citation, and no citation is of a passage that was not supplied; what is
\* suggested is indexed, out of scope and named once (2.3, 3.6, 7.6, Decision 10).
THEOREM CitationsResolve == Spec => []NothingDangles
<1>1. IInv => NothingDangles
  BY DEF IInv
<1> QED
  BY <1>1, TurnKeeps, PTL

\* Whatever the model writes, a matched entry's causes are its own, in its
\* order, and so are the candidates of its question (7.2, 7.6, Decision 9).
THEOREM EntryIsHeeded == Spec => []EntryDecides
<1>1. IInv => EntryDecides
  BY DEF IInv
<1> QED
  BY <1>1, TurnKeeps, PTL

\* A fix is the same as long as the scope is.
LEMMA FixStays ==
  ASSUME NEW fix, selected' = selected
  PROVE  FixInScope(fix)' = FixInScope(fix)
BY DEF FixInScope, WithPointer, Usable, FoldLeft, MapThenFoldSet

LEMMA OrderNext ==
  ASSUME NEW r, NEW e, ranking' = r, expansion' = e, NEW D, D = DOMAIN e.causes,
         e.entry # None =>
           \A i, j \in D : i < j =>
             \/ ToSet(FixInScope(Entries[e.entry][i])') \subseteq ToSet(e.causes[i])
             \/ ToSet(e.causes[j]) \subseteq ToSet(r) \cup UNION {ToSet(e.causes[k]) : k \in 1..(j - 1)}
  PROVE  FixesInCauseOrder'
BY DEF FixesInCauseOrder

LEMMA ExpandedInOrder ==
  ASSUME IInv, RetrieveAndExpand
  PROVE  FixesInCauseOrder'
<1>1. PICK r, e : r = Retrieve(query) /\ e = Expand(r)
  OBVIOUS
<1>2. ranking' = r /\ expansion' = e /\ selected' = selected /\ query \in Queries
  BY <1>1 DEF RetrieveAndExpand, IInv, TurnInv
<1>3. IsSeq(r)
  BY <1>1, <1>2, RetrieveIsList
<1>4. e \in Expansions /\ (e.entry # None => InOrder(r, e, Entries[e.entry]))
  BY <1>1, <1>3, ExpandIs
<1>5. PICK D : D = DOMAIN e.causes
  OBVIOUS
<1>6. e.causes \in Seq(Seq(Passages)) /\ D = 1..Len(e.causes)
  BY <1>4, <1>5 DEF Expansions
<1>7. \A i \in D : FixInScope(Entries[e.entry][i])' = FixInScope(Entries[e.entry][i])
  BY <1>2, FixStays
<1>8. ASSUME e.entry # None, NEW i \in D, NEW j \in D, i < j
      PROVE  \/ ToSet(FixInScope(Entries[e.entry][i])') \subseteq ToSet(e.causes[i])
             \/ ToSet(e.causes[j]) \subseteq ToSet(r) \cup UNION {ToSet(e.causes[k]) : k \in 1..(j - 1)}
  BY <1>4, <1>6, <1>7, <1>8 DEF InOrder, UpTo
<1>9. ranking' = r /\ expansion' = e
  BY <1>2
<1> HIDE DEF IInv
<1> QED
  BY <1>5, <1>8, <1>9, OrderNext

LEMMA OrderNow ==
  ASSUME NEW r, NEW e, ranking = r, expansion = e, NEW D, D = DOMAIN e.causes,
         stage = "retrieved", FixesInCauseOrder
  PROVE  e.entry # None =>
           \A i, j \in D : i < j =>
             \/ ToSet(FixInScope(Entries[e.entry][i])) \subseteq ToSet(e.causes[i])
             \/ ToSet(e.causes[j]) \subseteq ToSet(r) \cup UNION {ToSet(e.causes[k]) : k \in 1..(j - 1)}
BY DEF FixesInCauseOrder

\* Only RetrieveAndExpand leads to a turn that is retrieved and not assembled.
LEMMA OrderStays ==
  ASSUME IInv, FixesInCauseOrder, [Next]_vars
  PROVE  FixesInCauseOrder'
<1>1. CASE RetrieveAndExpand
  BY <1>1, ExpandedInOrder
<1>2. CASE UNCHANGED vars
  <2>1. ranking' = ranking /\ expansion' = expansion /\ selected' = selected /\ stage' = stage
    BY <1>2 DEF vars
  <2>2. PICK r, e : r = ranking /\ e = expansion
    OBVIOUS
  <2>3. PICK D : D = DOMAIN e.causes
    OBVIOUS
  <2>4. CASE stage = "retrieved"
    <3>1. \A i \in D : FixInScope(Entries[e.entry][i])' = FixInScope(Entries[e.entry][i])
      BY <2>1, FixStays
    <3>2. e.entry # None =>
            \A i, j \in D : i < j =>
              \/ ToSet(FixInScope(Entries[e.entry][i])) \subseteq ToSet(e.causes[i])
              \/ ToSet(e.causes[j]) \subseteq ToSet(r) \cup UNION {ToSet(e.causes[k]) : k \in 1..(j - 1)}
      BY <2>2, <2>3, <2>4, OrderNow
    <3> QED
      BY <2>1, <2>2, <2>3, <3>1, <3>2, OrderNext
  <2>5. CASE stage # "retrieved"
    BY <2>1, <2>5 DEF FixesInCauseOrder
  <2> QED
    BY <2>4, <2>5
<1>3. stage' # "retrieved" => FixesInCauseOrder'
  BY DEF FixesInCauseOrder
<1>4. CASE Assemble
  BY <1>3, <1>4 DEF Assemble
<1>5. CASE EndLine
  BY <1>3, <1>5 DEF EndLine, Feed
<1>6. ASSUME NEW line \in Offered, WriteLine(line) PROVE FixesInCauseOrder'
  BY <1>3, <1>6 DEF WriteLine, Feed
<1>7. CASE Retry
  BY <1>3, <1>7 DEF Retry, LimitsRate
<1>8. ASSUME NEW stated \in {"short", "long", "absent"}, RateLimited(stated) PROVE FixesInCauseOrder'
  BY <1>3, <1>8 DEF RateLimited, EndWith
<1>9. ASSUME NEW failure \in {"unreachable", "auth", "error"}, Fail(failure) PROVE FixesInCauseOrder'
  BY <1>3, <1>9 DEF Fail, EndWith
<1>10. CASE Watchdog
  BY <1>3, <1>10 DEF Watchdog, EndWith
<1>11. CASE Finish
  BY <1>3, <1>11 DEF Finish
<1> QED
  BY <1>1, <1>2, <1>4, <1>5, <1>6, <1>7, <1>8, <1>9, <1>10, <1>11 DEF Next

\* No cause takes a place of its own after one ranked above it was refused it
\* (narrow.py:15-17): a refusal means that the cap is reached, and what is
\* admitted until then is served to a cause up to there.
THEOREM FixesAreServedInOrder == Spec => []FixesInCauseOrder
<1>1. Init => FixesInCauseOrder
  BY DEF Init, FixesInCauseOrder
<1>2. IInv /\ FixesInCauseOrder /\ [Next]_vars => FixesInCauseOrder'
  BY OrderStays
<1> QED
  BY <1>1, <1>2, TurnKeeps, PTL DEF Spec

-----------------------------------------------------------------------------
(* The fused ranking.                                                      *)

Below(S, R, p) == {q \in S : <<q, p>> \in R}

\* In a strict total order of a finite set every place is somebody's, and
\* nobody shares one.
LEMMA PlacesOf ==
  ASSUME NEW S, IsFiniteSet(S), NEW R,
         \A p \in S : <<p, p>> \notin R,
         \A p, q, r \in S : <<p, q>> \in R /\ <<q, r>> \in R => <<p, r>> \in R,
         \A p, q \in S : p # q => <<p, q>> \in R \/ <<q, p>> \in R
  PROVE  /\ \A p \in S : Cardinality(Below(S, R, p)) \in 0..(Cardinality(S) - 1)
         /\ \A p, q \in S : Cardinality(Below(S, R, p)) = Cardinality(Below(S, R, q)) => p = q
         /\ \A k \in 0..(Cardinality(S) - 1) : \E p \in S : Cardinality(Below(S, R, p)) = k
<1>1. PICK n \in Nat : n = Cardinality(S)
  BY FS_CardinalityType
<1>2. ASSUME NEW p \in S
      PROVE  /\ IsFiniteSet(Below(S, R, p)) /\ Cardinality(Below(S, R, p)) \in 0..(n - 1)
  <2>1. Below(S, R, p) \in SUBSET S /\ Below(S, R, p) # S
    BY DEF Below
  <2>2. /\ IsFiniteSet(Below(S, R, p)) /\ Cardinality(Below(S, R, p)) <= n
        /\ Cardinality(Below(S, R, p)) # n
    BY <1>1, <2>1, FS_Subset
  <2>3. Cardinality(Below(S, R, p)) \in Nat
    BY <2>2, FS_CardinalityType
  <2> QED
    BY <1>1, <2>2, <2>3
<1>3. ASSUME NEW p \in S, NEW q \in S, <<p, q>> \in R
      PROVE  Cardinality(Below(S, R, p)) # Cardinality(Below(S, R, q))
  <2>1. Below(S, R, p) \in SUBSET Below(S, R, q)
    BY <1>3 DEF Below
  <2>2. p \in Below(S, R, q) /\ p \notin Below(S, R, p)
    BY <1>3 DEF Below
  <2>3. Below(S, R, q) # Below(S, R, p)
    BY <2>2
  <2> QED
    BY <1>2, <2>1, <2>3, FS_Subset
<1>4. \A p, q \in S : Cardinality(Below(S, R, p)) = Cardinality(Below(S, R, q)) => p = q
  BY <1>3
<1>5. PICK f : f = [p \in S |-> Cardinality(Below(S, R, p))]
  OBVIOUS
<1>6. f \in Injection(S, 0..(n - 1))
  <2>1. f \in [S -> 0..(n - 1)]
    BY <1>2, <1>5
  <2>2. \A p, q \in S : f[p] = f[q] => p = q
    BY <1>4, <1>5
  <2> QED
    BY <2>1, <2>2 DEF Injection, IsInjective
<1>7. IsFiniteSet(0..(n - 1)) /\ Cardinality(0..(n - 1)) = n
  BY FS_Interval
<1>8. f \in Surjection(S, 0..(n - 1))
  BY <1>1, <1>6, <1>7, FS_Injection
<1>9. \A k \in 0..(n - 1) : \E p \in S : Cardinality(Below(S, R, p)) = k
  BY <1>5, <1>8 DEF Surjection
<1> QED
  BY <1>1, <1>2, <1>4, <1>9

\* Every share is a number.
LEMMA CommonIs == Common \in Nat
<1> DEFINE n == Depth
           Fold(f) == f = [S \in SUBSET (1..n) |->
                             IF S = {} THEN 1
                             ELSE LET x == Max(S) IN (RrfK + x) * f[S \ {x}]]
<1>1. n \in Nat /\ RrfK \in Nat
  BY CapsAssumption
<1>2. \E f : Fold(f)
  <2> DEFINE G == [p \in (1..n) \X Nat |-> (RrfK + p[1]) * p[2]]
  <2>1. G \in [(1..n) \X Nat -> Nat] /\ 1 \in Nat
    <3>1. \A p \in (1..n) \X Nat : (RrfK + p[1]) * p[2] \in Nat
      BY <1>1
    <3> QED
      BY <3>1
  <2>2. \A x \in 1..n, v \in Nat : G[<<x, v>>] = (RrfK + x) * v
    OBVIOUS
  <2> HIDE DEF G
  <2>3. PICK f : Folded(f, n, Nat, 1, G)
    BY <1>1, <2>1, FoldExists
  <2>4. ASSUME NEW S \in SUBSET (1..n)
        PROVE  f[S] = IF S = {} THEN 1 ELSE LET x == Max(S) IN (RrfK + x) * f[S \ {x}]
    <3>1. S # {} => Max(S) \in 1..n /\ f[S \ {Max(S)}] \in Nat
      BY <2>3 DEF Folded
    <3>2. S # {} => f[S] = G[<<Max(S), f[S \ {Max(S)}]>>]
      BY <2>3 DEF Folded
    <3>3. S = {} => f[S] = 1
      BY <2>3 DEF Folded
    <3> QED
      BY <2>2, <3>1, <3>2, <3>3
  <2>5. f \in [SUBSET (1..n) -> Nat]
    BY <2>3 DEF Folded
  <2>6. Fold(f)
    BY <2>4, <2>5
  <2> QED
    BY <2>6
<1>3. PICK f : Fold(f) /\ Common = f[1..n]
  <2>1. Common = (CHOOSE f : Fold(f))[1..n]
    BY DEF Common, MapThenFoldSet
  <2> QED
    BY <1>2, <2>1
<1>4. f[1..n] \in Nat
  <2>1. PICK h : h = [k \in 0..n |-> f[1..k]]
    OBVIOUS
  <2>2. h[0] \in Nat
    BY <1>1, <1>3, <2>1, FirstPlaces
  <2>3. ASSUME NEW k \in 1..n, h[k - 1] \in Nat PROVE h[k] \in Nat
    <3>1. h[k] = f[1..k] /\ h[k - 1] = f[1..(k - 1)]
      BY <1>1, <2>1
    <3>2. /\ 1..k \in SUBSET (1..n) /\ 1..k # {}
          /\ Max(1..k) = k /\ (1..k) \ {k} = 1..(k - 1)
      BY <1>1, FirstPlaces
    <3>3. h[k] = (RrfK + k) * h[k - 1]
      BY <1>3, <3>1, <3>2
    <3> QED
      BY <1>1, <2>3, <3>3
  <2>4. \A k \in 0..n : h[k] \in Nat
    BY <1>1, <2>2, <2>3, Chained
  <2> QED
    BY <1>1, <2>1, <2>4
<1> QED
  BY <1>3, <1>4

LEMMA ScoreIs ==
  ASSUME NEW T, NEW dense \in Seq(T), NEW lexical \in Seq(T), NEW p
  PROVE  Score(p, dense, lexical) \in Int
<1>1. ASSUME NEW list \in Seq(T) PROVE Share(list, p) \in Int
  <2>1. PICK n \in Nat : n = Len(list) /\ DOMAIN list = 1..n
    OBVIOUS
  <2>2. PICK I : I = {i \in 1..n : list[i] = p}
    OBVIOUS
  <2>3. PICK rank : rank = SelectInSeq(list, LAMBDA q : q = p)
    OBVIOUS
  <2>4. rank = IF I # {} THEN Min(I) ELSE 0
    BY <2>1, <2>2, <2>3 DEF SelectInSeq
  <2>5. I \in SUBSET (1..n)
    BY <2>2
  <2>6. rank \in Nat
    <3>1. \/ I = {} /\ rank = 0
          \/ rank \in I
      BY <2>1, <2>4, <2>5, LeastPlace
    <3>2. \A i \in I : i \in Nat
      BY <2>5
    <3> QED
      BY <3>1, <3>2
  <2>7. PICK c \in Nat : c = Common
    BY CommonIs
  <2>8. Share(list, p) = IF rank = 0 THEN 0 ELSE c \div (RrfK + rank)
    BY <2>3, <2>7 DEF Share
  <2>9. RrfK \in Nat
    BY CapsAssumption
  <2>10. rank # 0 => c \div (RrfK + rank) \in Int
    BY <2>6, <2>7, <2>9
  <2> QED
    BY <2>8, <2>10
<1> QED
  BY <1>1 DEF Score

LEMMA RowIs ==
  ASSUME NEW p \in Passages
  PROVE  RowOf(p) \in Nat /\ Rows[RowOf(p)] = p
<1>1. PICK n \in Nat : n = Len(Rows) /\ DOMAIN Rows = 1..n
  BY RowsAssumption DEF IsSeq
<1>2. PICK I : I = {i \in 1..n : Rows[i] = p}
  OBVIOUS
<1>3. RowOf(p) = IF I # {} THEN Min(I) ELSE 0
  BY <1>1, <1>2 DEF RowOf, SelectInSeq
<1>4. I \in SUBSET (1..n) /\ I # {}
  BY <1>1, <1>2 DEF Passages, ToSet
<1>5. RowOf(p) \in I
  BY <1>1, <1>3, <1>4, LeastPlace
<1> QED
  BY <1>1, <1>2, <1>5

\* The fused ranking has what either ranking has, each once.
LEMMA FusedIs ==
  ASSUME NEW dense \in Seq(Passages), NEW lexical \in Seq(Passages)
  PROVE  LET f == Fused(dense, lexical) IN
         /\ f \in Seq(Passages) /\ IsInjective(f)
         /\ ToSet(f) = ToSet(dense) \cup ToSet(lexical)
<1>1. PICK S : S = ToSet(dense) \cup ToSet(lexical)
  OBVIOUS
<1>2. IsFiniteSet(S) /\ S \subseteq Passages
  BY <1>1, FiniteList, ToSetIs, FS_Union
<1>3. PICK n \in Nat : n = Cardinality(S)
  BY <1>2, FS_CardinalityType
<1>4. PICK score : score = [p \in S |-> Score(p, dense, lexical)]
  OBVIOUS
<1>5. \A p \in S : score[p] \in Int /\ score[p] = Score(p, dense, lexical)
  BY <1>4, ScoreIs
<1>6. PICK row : row = [p \in S |-> RowOf(p)]
  OBVIOUS
<1>7. /\ \A p \in S : row[p] \in Nat /\ row[p] = RowOf(p)
      /\ \A p, q \in S : row[p] = row[q] => p = q
  <2>1. \A p \in S : row[p] \in Nat /\ row[p] = RowOf(p) /\ Rows[row[p]] = p
    BY <1>2, <1>6, RowIs
  <2> QED
    BY <2>1
<1>8. PICK R : R = {x \in S \X S : \/ score[x[1]] > score[x[2]]
                                  \/ (score[x[1]] = score[x[2]] /\ row[x[1]] < row[x[2]])}
  OBVIOUS
<1>9. \A p, q \in S : <<p, q>> \in R <=> \/ score[p] > score[q]
                                         \/ (score[p] = score[q] /\ row[p] < row[q])
  BY <1>8
<1>10. /\ \A p \in S : <<p, p>> \notin R
       /\ \A p, q \in S : p # q => <<p, q>> \in R \/ <<q, p>> \in R
  <2>1. ASSUME NEW p \in S PROVE <<p, p>> \notin R
    <3>1. PICK a \in Int, b \in Nat : a = score[p] /\ b = row[p]
      BY <1>5, <1>7
    <3>2. ~(a > a) /\ ~(b < b)
      BY <3>1
    <3> QED
      BY <1>9, <3>1, <3>2
  <2>2. ASSUME NEW p \in S, NEW q \in S, p # q PROVE <<p, q>> \in R \/ <<q, p>> \in R
    <3>1. PICK a \in Int, b \in Int : a = score[p] /\ b = score[q]
      BY <1>5
    <3>2. PICK c \in Nat, d \in Nat : c = row[p] /\ d = row[q]
      BY <1>7
    <3>3. c # d
      BY <1>7, <2>2, <3>2
    <3>4. \/ a > b \/ (a = b /\ c < d)
          \/ b > a \/ (b = a /\ d < c)
      BY <3>1, <3>2, <3>3
    <3> QED
      BY <1>9, <3>1, <3>2, <3>4
  <2> QED
    BY <2>1, <2>2
<1>11. ASSUME NEW p \in S, NEW q \in S, NEW r \in S, <<p, q>> \in R, <<q, r>> \in R
       PROVE  <<p, r>> \in R
  <2>1. /\ score[p] > score[q] \/ (score[p] = score[q] /\ row[p] < row[q])
        /\ score[q] > score[r] \/ (score[q] = score[r] /\ row[q] < row[r])
    BY <1>9, <1>11
  <2>2. PICK a \in Int, b \in Int, c \in Int : a = score[p] /\ b = score[q] /\ c = score[r]
    BY <1>5
  <2>3. PICK d \in Nat, e \in Nat, g \in Nat : d = row[p] /\ e = row[q] /\ g = row[r]
    BY <1>7
  <2>4. a > c \/ (a = c /\ d < g)
    BY <2>1, <2>2, <2>3
  <2> QED
    BY <1>9, <2>2, <2>3, <2>4
<1>12. /\ \A p, q \in S : Cardinality(Below(S, R, p)) = Cardinality(Below(S, R, q)) => p = q
       /\ \A p \in S : Cardinality(Below(S, R, p)) \in 0..(n - 1)
       /\ \A k \in 0..(n - 1) : \E p \in S : Cardinality(Below(S, R, p)) = k
  <2>1. \A p, q, r \in S : <<p, q>> \in R /\ <<q, r>> \in R => <<p, r>> \in R
    BY <1>11
  <2>2. \A p \in S : <<p, p>> \notin R
    BY <1>10
  <2>3. \A p, q \in S : p # q => <<p, q>> \in R \/ <<q, p>> \in R
    BY <1>10
  <2>4. /\ \A p \in S : Cardinality(Below(S, R, p)) \in 0..(Cardinality(S) - 1)
        /\ \A p, q \in S : Cardinality(Below(S, R, p)) = Cardinality(Below(S, R, q)) => p = q
        /\ \A k \in 0..(Cardinality(S) - 1) : \E p \in S : Cardinality(Below(S, R, p)) = k
    <3>1. IsFiniteSet(S)
      BY <1>2
    <3> QED
      BY <2>1, <2>2, <2>3, <3>1, PlacesOf
  <2> QED
    BY <1>3, <2>4
<1>13. PICK f : f = Fused(dense, lexical)
  OBVIOUS
<1>14. f = [k \in 1..n |-> CHOOSE p \in S : Cardinality(Below(S, R, p)) = k - 1]
  <2> DEFINE Before(p) == {x \in S :
                             \/ Score(x, dense, lexical) > Score(p, dense, lexical)
                             \/ /\ Score(x, dense, lexical) = Score(p, dense, lexical)
                                /\ RowOf(x) < RowOf(p)}
             At(k) == CHOOSE p \in S : Cardinality(Before(p)) = k - 1
  <2>1. f = [k \in 1..n |-> At(k)]
    BY <1>1, <1>3, <1>13 DEF Fused
  <2>2. \A p \in S : Before(p) = Below(S, R, p)
    BY <1>5, <1>7, <1>9 DEF Below
  <2>3. \A k \in 1..n : At(k) = CHOOSE p \in S : Cardinality(Below(S, R, p)) = k - 1
    <3> HIDE DEF Before
    <3> QED
      BY <2>2
  <2> HIDE DEF At
  <2> QED
    BY <2>1, <2>3
<1>15. \A k \in 1..n : f[k] \in S /\ Cardinality(Below(S, R, f[k])) = k - 1
  <2> SUFFICES ASSUME NEW k \in 1..n PROVE f[k] \in S /\ Cardinality(Below(S, R, f[k])) = k - 1
    OBVIOUS
  <2>1. k - 1 \in 0..(n - 1)
    OBVIOUS
  <2>2. \E p \in S : Cardinality(Below(S, R, p)) = k - 1
    BY <1>12, <2>1
  <2>3. f[k] = CHOOSE p \in S : Cardinality(Below(S, R, p)) = k - 1
    BY <1>14
  <2> QED
    BY <2>2, <2>3
<1>16. DOMAIN f = 1..n /\ f \in Seq(Passages) /\ Len(f) = n
  <2>1. DOMAIN f = 1..n /\ f = [k \in 1..n |-> f[k]]
    BY <1>14
  <2>2. \A k \in 1..n : f[k] \in Passages
    BY <1>2, <1>15
  <2> QED
    BY <2>1, <2>2
<1>17. IsInjective(f)
  <2>1. \A k, m \in 1..n : f[k] = f[m] => k = m
    BY <1>15
  <2> QED
    BY <1>16, <2>1 DEF IsInjective
<1>18. ASSUME NEW p \in S PROVE p \in ToSet(f)
  <2>1. PICK k \in 0..(n - 1) : k = Cardinality(Below(S, R, p))
    BY <1>12
  <2>2. k + 1 \in 1..n /\ (k + 1) - 1 = k
    OBVIOUS
  <2>3. f[k + 1] \in S /\ Cardinality(Below(S, R, f[k + 1])) = k
    BY <1>15, <2>2
  <2>4. f[k + 1] = p
    BY <1>12, <2>1, <2>3
  <2> QED
    BY <1>16, <2>2, <2>4 DEF ToSet
<1>19. ToSet(f) = S
  BY <1>15, <1>16, <1>18 DEF ToSet
<1> QED
  BY <1>1, <1>13, <1>16, <1>17, <1>19

-----------------------------------------------------------------------------
(* What retrieval chooses.                                                 *)

\* The fold of Retrieve.
Chosen(list, floor, extras, cap) ==
  FoldLeft(LAMBDA c, p : IF Cardinality(c) + Len(extras) >= cap THEN c ELSE c \cup {p}, floor, list)

ChoosingSteps(h, list, floor, extras, cap) ==
  /\ h[0] = floor
  /\ \A k \in 1..Len(list) :
       h[k] = IF Cardinality(h[k - 1]) + Len(extras) >= cap THEN h[k - 1] ELSE h[k - 1] \cup {list[k]}
  /\ Chosen(list, floor, extras, cap) = h[Len(list)]

LEMMA ChosenSteps ==
  ASSUME NEW T, NEW list \in Seq(T), NEW floor \in SUBSET T, NEW extras, NEW cap
  PROVE  \E h : ChoosingSteps(h, list, floor, extras, cap)
<1> DEFINE n == Len(list)
           V == SUBSET T
           Fold(f) == f = [S \in SUBSET (DOMAIN list) |->
                             IF S = {} THEN floor
                             ELSE LET x == Max(S) IN
                                    IF Cardinality(f[S \ {x}]) + Len(extras) >= cap
                                      THEN f[S \ {x}] ELSE f[S \ {x}] \cup {list[x]}]
<1>1. /\ n \in Nat /\ DOMAIN list = 1..n /\ \A k \in 1..n : list[k] \in T
  OBVIOUS
<1>2. \E f : Fold(f)
  <2> DEFINE G == [p \in (1..n) \X V |-> IF Cardinality(p[2]) + Len(extras) >= cap
                                           THEN p[2] ELSE p[2] \cup {list[p[1]]}]
  <2>1. G \in [(1..n) \X V -> V] /\ floor \in V
    BY <1>1
  <2>2. \A x \in 1..n, v \in V : G[<<x, v>>] = IF Cardinality(v) + Len(extras) >= cap
                                                 THEN v ELSE v \cup {list[x]}
    OBVIOUS
  <2> HIDE DEF G, V
  <2>3. PICK f : Folded(f, n, V, floor, G)
    BY <1>1, <2>1, FoldExists
  <2>4. ASSUME NEW S \in SUBSET (1..n)
        PROVE  f[S] = IF S = {} THEN floor
                      ELSE LET x == Max(S) IN
                             IF Cardinality(f[S \ {x}]) + Len(extras) >= cap
                               THEN f[S \ {x}] ELSE f[S \ {x}] \cup {list[x]}
    <3>1. S # {} => Max(S) \in 1..n /\ f[S \ {Max(S)}] \in V
      BY <2>3 DEF Folded
    <3>2. S # {} => f[S] = G[<<Max(S), f[S \ {Max(S)}]>>]
      BY <2>3 DEF Folded
    <3>3. S = {} => f[S] = floor
      BY <2>3 DEF Folded
    <3> QED
      BY <2>2, <3>1, <3>2, <3>3
  <2>5. Fold(f)
    <3>1. f \in [SUBSET (1..n) -> V]
      BY <2>3 DEF Folded
    <3> QED
      BY <1>1, <2>4, <3>1
  <2> QED
    BY <2>5
<1>3. PICK f : Fold(f) /\ Chosen(list, floor, extras, cap) = f[DOMAIN list]
  <2>1. Chosen(list, floor, extras, cap) = (CHOOSE f : Fold(f))[DOMAIN list]
    BY DEF Chosen, FoldLeft, MapThenFoldSet
  <2> QED
    BY <1>2, <2>1
<1>4. PICK h : h = [k \in 0..n |-> f[1..k]]
  OBVIOUS
<1>5. ChoosingSteps(h, list, floor, extras, cap)
  <2>1. h[0] = floor
    BY <1>1, <1>3, <1>4, FirstPlaces
  <2>2. ASSUME NEW k \in 1..n
        PROVE  h[k] = IF Cardinality(h[k - 1]) + Len(extras) >= cap
                        THEN h[k - 1] ELSE h[k - 1] \cup {list[k]}
    <3>1. h[k] = f[1..k] /\ h[k - 1] = f[1..(k - 1)]
      BY <1>1, <1>4
    <3>2. /\ 1..k \in SUBSET (DOMAIN list) /\ 1..k # {}
          /\ Max(1..k) = k /\ (1..k) \ {k} = 1..(k - 1)
      BY <1>1, FirstPlaces
    <3>3. f[1..k] = IF Cardinality(f[1..(k - 1)]) + Len(extras) >= cap
                      THEN f[1..(k - 1)] ELSE f[1..(k - 1)] \cup {list[k]}
      BY <1>3, <3>2
    <3> QED
      BY <3>1, <3>3
  <2>3. Chosen(list, floor, extras, cap) = h[Len(list)]
    BY <1>1, <1>3, <1>4
  <2> QED
    BY <2>1, <2>2, <2>3 DEF ChoosingSteps
<1> QED
  BY <1>5

\* A slot for every source of the floor, others up to the cap.
LEMMA ChosenIs ==
  ASSUME NEW T, NEW list \in Seq(T), NEW floor \in SUBSET ToSet(list), NEW extras,
         NEW m \in Nat, m = Len(extras), NEW cap \in Nat, Cardinality(floor) + m <= cap
  PROVE  LET c == Chosen(list, floor, extras, cap) IN
         floor \subseteq c /\ c \subseteq ToSet(list) /\ Cardinality(c) + m <= cap
<1>1. ToSet(list) \subseteq T /\ IsFiniteSet(ToSet(list))
  BY ToSetIs, FiniteList
<1>2. PICK h : ChoosingSteps(h, list, floor, extras, cap)
  BY <1>1, ChosenSteps
<1>3. PICK n \in Nat : n = Len(list) /\ DOMAIN list = 1..n
  OBVIOUS
<1> DEFINE W == {c \in SUBSET ToSet(list) : floor \subseteq c /\ Cardinality(c) + m <= cap}
<1>4. h[0] \in W
  BY <1>2 DEF ChoosingSteps
<1>5. ASSUME NEW k \in 1..n, h[k - 1] \in W PROVE h[k] \in W
  <2>1. PICK c \in SUBSET ToSet(list) : c = h[k - 1] /\ floor \subseteq c /\ Cardinality(c) + m <= cap
    BY <1>5
  <2>2. PICK p \in ToSet(list) : p = list[k]
    BY <1>3 DEF ToSet
  <2>3. h[k] = IF Cardinality(c) + m >= cap THEN c ELSE c \cup {p}
    BY <1>2, <1>3, <2>1, <2>2 DEF ChoosingSteps
  <2>4. IsFiniteSet(c)
    BY <1>1, FS_Subset
  <2>5. PICK a \in Nat : a = Cardinality(c)
    BY <2>4, FS_CardinalityType
  <2>6. Cardinality(c \cup {p}) = IF p \in c THEN a ELSE a + 1
    BY <2>4, <2>5, FS_AddElement
  <2>7. CASE a + m >= cap
    BY <2>1, <2>3, <2>5, <2>7
  <2>8. CASE ~(a + m >= cap)
    <3>1. h[k] = c \cup {p}
      BY <2>3, <2>5, <2>8
    <3>2. Cardinality(c \cup {p}) + m <= cap
      BY <2>5, <2>6, <2>8
    <3> QED
      BY <2>1, <3>1, <3>2
  <2> QED
    BY <2>7, <2>8
<1>6. h[n] \in W
  <2> HIDE DEF W
  <2>1. \A k \in 1..n : h[k - 1] \in W => h[k] \in W
    BY <1>5
  <2>2. \A k \in 0..n : h[k] \in W
    BY <1>4, <2>1, Chained
  <2> QED
    BY <2>2
<1> QED
  BY <1>2, <1>3, <1>6 DEF ChoosingSteps

\* The first of a list that is in a set, and of a source.
LEMMA FirstIn ==
  ASSUME NEW T, NEW list \in Seq(T), NEW set, ToSet(list) \cap set # {}
  PROVE  list[SelectInSeq(list, LAMBDA p : p \in set)] \in set
<1>1. PICK n \in Nat : n = Len(list) /\ DOMAIN list = 1..n
  OBVIOUS
<1>2. PICK I : I = {i \in 1..n : list[i] \in set}
  OBVIOUS
<1>3. PICK at : at = SelectInSeq(list, LAMBDA p : p \in set)
  OBVIOUS
<1>4. at = IF I # {} THEN Min(I) ELSE 0
  BY <1>1, <1>2, <1>3 DEF SelectInSeq
<1>5. I \in SUBSET (1..n) /\ I # {}
  BY <1>1, <1>2 DEF ToSet
<1>6. at \in I
  BY <1>4, <1>5, LeastPlace
<1> QED
  BY <1>2, <1>3, <1>6

FirstPlace(list, s) == SelectInSeq(list, LAMBDA p : SourceOf[p] = s)

LEMMA FirstFrom ==
  ASSUME NEW T, NEW list \in Seq(T), NEW s
  PROVE  LET at == FirstPlace(list, s) IN
         /\ at = 0 => \A p \in ToSet(list) : SourceOf[p] # s
         /\ at # 0 => list[at] \in ToSet(list) /\ SourceOf[list[at]] = s
<1>1. PICK n \in Nat : n = Len(list) /\ DOMAIN list = 1..n
  OBVIOUS
<1>2. PICK I : I = {i \in 1..n : SourceOf[list[i]] = s}
  OBVIOUS
<1> DEFINE at == FirstPlace(list, s)
<1>3. at = IF I # {} THEN Min(I) ELSE 0
  BY <1>1, <1>2 DEF FirstPlace, SelectInSeq
<1> HIDE DEF at
<1>4. I \in SUBSET (1..n)
  BY <1>2
<1>5. \/ I = {} /\ at = 0
      \/ at \in I
  BY <1>3, <1>4, LeastPlace
<1>6. at \in I => at # 0
  BY <1>4
<1> QED
  BY <1>1, <1>2, <1>5, <1>6 DEF at, ToSet

LEMMA MaxOfTwo ==
  ASSUME NEW a \in Nat, NEW b \in Nat
  PROVE  Max({a, b}) = IF a >= b THEN a ELSE b
<1>1. PICK m \in {a, b} : m = IF a >= b THEN a ELSE b
  OBVIOUS
<1>2. \A y \in {a, b} : m >= y
  BY <1>1
<1>3. \A x \in {a, b} : (\A y \in {a, b} : x >= y) => x = m
  BY <1>1
<1> QED
  BY <1>1, <1>2, <1>3 DEF Max

\* A qualifying passage is of the source, in the mask and ranked.
LEMMA QualifyingIs ==
  ASSUME NEW q \in Queries, NEW s
  PROVE  /\ \A p \in Qualifying(q, s) : p \in Mask(q) /\ SourceOf[p] = s
         /\ Qualifying(q, s) \subseteq ToSet(q.dense)
<1>1. PICK masked : masked = {p \in Mask(q) : SourceOf[p] = s}
  OBVIOUS
<1>2. PICK scored : scored = Among(q.lexical, masked)
  OBVIOUS
<1>3. scored \in Seq(ToSet(q.lexical) \cap masked)
  BY <1>2, QueriesAssumption, AmongIs DEF IsSeq
<1>4. scored # <<>> => scored[1] \in masked
  <2>1. scored # <<>> => 1 \in 1..Len(scored)
    BY <1>3
  <2> QED
    BY <1>3, <2>1
<1>5. Qualifying(q, s) = (ToSet(First(q.dense, q.strong)) \cap masked)
                           \cup (IF scored # <<>> /\ scored[1] \in q.rare THEN {scored[1]} ELSE {})
  BY <1>1, <1>2 DEF Qualifying
<1>6. Qualifying(q, s) \subseteq masked
  BY <1>4, <1>5
<1>7. Mask(q) \subseteq Passages /\ ToSet(q.dense) = Passages
  BY QueriesAssumption DEF Mask
<1> QED
  BY <1>1, <1>6, <1>7

\* What is retrieved is in the mask, each passage once and within the cap, and
\* every source that qualifies has one.
LEMMA RetrieveIs ==
  ASSUME NEW q \in Queries
  PROVE  LET r     == Retrieve(q)
             found == {s \in ToSet(q.selected) : Qualifying(q, s) # {}}
         IN  /\ r \in Seq(Mask(q)) /\ IsInjective(r)
             /\ Cardinality(found) \in Nat
             /\ Len(r) <= BaseCap \/ Len(r) <= Cardinality(found)
             /\ \A s \in found : \E i \in 1..Len(r) : SourceOf[r[i]] = s
             /\ found = {} => r = <<>>
<1> DEFINE mask == Mask(q)
           found == {s \in ToSet(q.selected) : Qualifying(q, s) # {}}
           fused == Fused(Ranked(q.dense, mask), Ranked(q.lexical, mask))
           qualifying == Among(q.selected, found)
           cap == Max({BaseCap, Len(qualifying)})
           InFused(s) == FirstPlace(fused, s)
           Best(s) == q.dense[SelectInSeq(q.dense, LAMBDA p : p \in Qualifying(q, s))]
           missing == Among(qualifying, {s \in ToSet(qualifying) : InFused(s) = 0})
           extras == [i \in DOMAIN missing |-> Best(missing[i])]
           floor == {fused[InFused(s)] : s \in ToSet(qualifying) \ ToSet(missing)}
           chosen == Chosen(fused, floor, extras, cap)
<1>1. Retrieve(q) = IF qualifying = <<>> THEN <<>> ELSE Among(fused, chosen) \o extras
  BY DEF Retrieve, Chosen, FirstPlace
<1>2. /\ IsSeq(q.selected) /\ IsInjective(q.selected) /\ IsSeq(q.dense) /\ IsSeq(q.lexical)
      /\ ToSet(q.dense) = Passages
  BY QueriesAssumption
<1>3. /\ qualifying \in Seq(ToSet(q.selected)) /\ ToSet(qualifying) = found
      /\ IsInjective(qualifying)
  <2>1. PICK set : set = found
    OBVIOUS
  <2>2. set \subseteq ToSet(q.selected)
    BY <2>1
  <2>3. /\ Among(q.selected, set) \in Seq(ToSet(q.selected))
        /\ ToSet(Among(q.selected, set)) = ToSet(q.selected) \cap set
        /\ IsInjective(Among(q.selected, set))
    BY <1>2, AmongElements DEF IsSeq
  <2> QED
    BY <2>1, <2>2, <2>3
<1>4. Cardinality(found) = Len(qualifying) /\ IsFiniteSet(found)
  BY <1>3, ListCount
<1>5. PICK n \in Nat : n = Len(qualifying)
  <2> HIDE DEF qualifying
  <2> QED
    BY <1>3
<1>6. BaseCap \in Nat /\ cap \in Nat /\ n <= cap /\ (cap = BaseCap \/ cap = n)
  <2>1. BaseCap \in Nat
    BY CapsAssumption
  <2>2. cap = Max({BaseCap, n})
    BY <1>5
  <2> HIDE DEF cap
  <2> QED
    BY <2>1, <2>2, MaxOfTwo
<1>7. /\ fused \in Seq(Passages) /\ IsInjective(fused) /\ ToSet(fused) \subseteq mask
      /\ mask \subseteq Passages
  <2>1. PICK m : m = mask
    OBVIOUS
  <2>2. m \subseteq Passages
    BY <2>1 DEF Mask
  <2>3. PICK d, l : d = Ranked(q.dense, m) /\ l = Ranked(q.lexical, m)
    OBVIOUS
  <2>4. d \in Seq(m) /\ l \in Seq(m)
    BY <1>2, <2>3, RankedIs
  <2>5. ToSet(d) \subseteq m /\ ToSet(l) \subseteq m
    BY <2>4, ToSetIs
  <2>6. d \in Seq(Passages) /\ l \in Seq(Passages)
    BY <2>2, <2>4
  <2>7. /\ Fused(d, l) \in Seq(Passages) /\ IsInjective(Fused(d, l))
        /\ ToSet(Fused(d, l)) = ToSet(d) \cup ToSet(l)
    BY <2>6, FusedIs
  <2> QED
    BY <2>1, <2>2, <2>3, <2>5, <2>7
<1>8. /\ missing \in Seq(found) /\ ToSet(missing) = {s \in found : InFused(s) = 0}
      /\ IsInjective(missing)
  <2>1. PICK list, set : list = qualifying /\ set = {s \in found : InFused(s) = 0}
    OBVIOUS
  <2>2. ToSet(list) = found /\ list \in Seq(ToSet(q.selected)) /\ IsInjective(list)
    BY <1>3, <2>1
  <2>5. missing = Among(list, set)
    BY <2>1, <2>2
  <2>6. list \in Seq(ToSet(list))
    <3> HIDE DEF found
    <3> QED
      BY <2>2, IsSeqOf DEF IsSeq
  <2>3. /\ Among(list, set) \in Seq(ToSet(list)) /\ ToSet(Among(list, set)) = ToSet(list) \cap set
        /\ IsInjective(Among(list, set))
    BY <2>2, <2>6, AmongElements
  <2>4. set \subseteq found
    BY <2>1
  <2> QED
    BY <2>1, <2>2, <2>3, <2>4, <2>5
<1>9. PICK m \in Nat : m = Len(missing) /\ DOMAIN missing = 1..m /\ \A i \in 1..m : missing[i] \in found
  <2> HIDE DEF missing, found
  <2> QED
    BY <1>8
<1>10. /\ DOMAIN extras = 1..m /\ Len(extras) = m /\ extras \in Seq(mask)
       /\ \A i \in 1..m : SourceOf[extras[i]] = missing[i]
  <2>1. ASSUME NEW i \in 1..m PROVE Best(missing[i]) \in mask /\ SourceOf[Best(missing[i])] = missing[i]
    <3>1. PICK s \in found : s = missing[i]
      BY <1>9
    <3>2. PICK Q : Q = Qualifying(q, s)
      OBVIOUS
    <3>3. Q # {} /\ Q \subseteq ToSet(q.dense) /\ \A p \in Q : p \in mask /\ SourceOf[p] = s
      BY <3>2, QualifyingIs
    <3>4. q.dense \in Seq(ToSet(q.dense)) /\ ToSet(q.dense) \cap Q # {}
      BY <1>2, <3>3 DEF IsSeq
    <3>5. q.dense[SelectInSeq(q.dense, LAMBDA p : p \in Q)] \in Q
      BY <3>4, FirstIn
    <3>6. Best(s) \in Q
      BY <3>2, <3>5
    <3> HIDE DEF Best, missing, mask, found
    <3> QED
      BY <3>1, <3>3, <3>6
  <2> HIDE DEF Best, missing, mask
  <2>2. \A i \in 1..m : Best(missing[i]) \in mask /\ SourceOf[Best(missing[i])] = missing[i]
    BY <2>1
  <2>3. PICK x : x = extras
    OBVIOUS
  <2>4. x = [i \in 1..m |-> Best(missing[i])]
    BY <1>9, <2>3
  <2>5. DOMAIN x = 1..m /\ Len(x) = m /\ x \in Seq(mask)
    BY <2>2, <2>4
  <2> QED
    BY <2>2, <2>3, <2>4, <2>5
<1>11. /\ \A s : InFused(s) = 0 => \A p \in ToSet(fused) : SourceOf[p] # s
       /\ \A s : InFused(s) # 0 => fused[InFused(s)] \in ToSet(fused) /\ SourceOf[fused[InFused(s)]] = s
  <2> HIDE DEF fused
  <2> QED
    BY <1>7, FirstFrom
<1> HIDE DEF found, fused, qualifying, cap, InFused, Best, missing, extras, mask
<1>12. PICK rest : rest = found \ ToSet(missing)
  OBVIOUS
<1>13. IsFiniteSet(rest) /\ Cardinality(rest) + m = n /\ Cardinality(rest) \in Nat
  <2>1. PICK gone : gone = ToSet(missing)
    OBVIOUS
  <2>2. gone \subseteq found /\ IsFiniteSet(gone) /\ Cardinality(gone) = m
    BY <1>8, <1>9, <2>1, ListCount
  <2>3. rest \subseteq found /\ IsFiniteSet(rest) /\ rest \cap gone = {} /\ rest \cup gone = found
    BY <1>4, <1>12, <2>1, <2>2, FS_Subset
  <2>4. Cardinality(rest \cup gone) = Cardinality(rest) + Cardinality(gone) - Cardinality(rest \cap gone)
    BY <2>2, <2>3, FS_Union
  <2>5. Cardinality(rest \cap gone) = 0
    BY <2>3, FS_EmptySet
  <2>6. PICK a \in Nat : a = Cardinality(rest)
    BY <2>3, FS_CardinalityType
  <2>7. Cardinality(found) = n /\ Cardinality(found) = a + m - 0
    BY <1>4, <1>5, <2>2, <2>3, <2>4, <2>5, <2>6
  <2> QED
    BY <2>3, <2>6, <2>7
<1>14. \A s \in rest : InFused(s) # 0
  BY <1>8, <1>12
<1>15. floor \subseteq ToSet(fused) /\ Cardinality(floor) + m <= n
  <2>1. PICK g : g = [s \in rest |-> fused[InFused(s)]]
    OBVIOUS
  <2>2. PICK low : low = floor
    OBVIOUS
  <2>3. low = {fused[InFused(s)] : s \in rest}
    BY <1>3, <1>12, <2>2
  <2>4. g \in Surjection(rest, low)
    <3>1. g \in [rest -> low]
      BY <2>1, <2>3
    <3>2. \A p \in low : \E s \in rest : g[s] = p
      BY <2>1, <2>3
    <3> QED
      BY <3>1, <3>2 DEF Surjection
  <2>5. IsFiniteSet(low) /\ Cardinality(low) <= Cardinality(rest)
    BY <1>13, <2>4, FS_Surjection
  <2>6. PICK a \in Nat, b \in Nat : a = Cardinality(low) /\ b = Cardinality(rest)
    BY <1>13, <2>5, FS_CardinalityType
  <2>7. a + m <= n
    BY <1>13, <2>5, <2>6
  <2>8. low \subseteq ToSet(fused)
    BY <1>11, <1>14, <2>3
  <2> QED
    BY <2>2, <2>6, <2>7, <2>8
<1>16. PICK low : low = floor
  OBVIOUS
<1>17. PICK kept : kept = Among(fused, chosen)
  OBVIOUS
<1>18. /\ low \subseteq chosen /\ chosen \subseteq ToSet(fused) /\ Cardinality(chosen) + m <= cap
  <2>1. low \in SUBSET ToSet(fused) /\ Cardinality(low) + m <= n /\ IsFiniteSet(low)
    BY <1>7, <1>15, <1>16, FiniteList, FS_Subset
  <2>2. PICK a \in Nat : a = Cardinality(low)
    BY <2>1, FS_CardinalityType
  <2>3. Cardinality(low) + m <= cap
    BY <1>6, <2>1, <2>2
  <2>4. chosen = Chosen(fused, low, extras, cap)
    BY <1>16
  <2> QED
    BY <1>6, <1>7, <1>10, <2>1, <2>3, <2>4, ChosenIs
<1> HIDE DEF chosen
<1>19. /\ kept \in Seq(Passages) /\ ToSet(kept) = chosen /\ IsInjective(kept)
  <2> HIDE DEF floor
  <2>1. PICK set : set = chosen
    OBVIOUS
  <2>2. /\ Among(fused, set) \in Seq(Passages) /\ ToSet(Among(fused, set)) = ToSet(fused) \cap set
        /\ IsInjective(Among(fused, set))
    BY <1>7, AmongElements
  <2>3. kept = Among(fused, set) /\ ToSet(fused) \cap set = set
    BY <1>17, <1>18, <2>1
  <2> QED
    BY <2>1, <2>2, <2>3
<1>20. kept \in Seq(mask) /\ Len(kept) = Cardinality(chosen)
  <2>1. \A i \in 1..Len(kept) : kept[i] \in ToSet(kept)
    BY <1>19, ToSetIs
  <2>2. \A i \in 1..Len(kept) : kept[i] \in mask
    BY <1>7, <1>18, <1>19, <2>1
  <2> QED
    BY <1>19, <2>2, ListCount
<1>21. IsInjective(extras) /\ ToSet(kept) \cap ToSet(extras) = {}
  <2>1. \A i, j \in 1..m : extras[i] = extras[j] => i = j
    BY <1>8, <1>9, <1>10 DEF IsInjective
  <2>2. \A i \in 1..m : InFused(missing[i]) = 0
    BY <1>8, <1>9 DEF ToSet
  <2>3. \A i \in 1..m : extras[i] \notin ToSet(fused)
    BY <1>10, <1>11, <2>2
  <2> QED
    <3>1. IsInjective(extras)
      BY <1>10, <2>1 DEF IsInjective
    <3>2. \A p \in ToSet(extras) : p \notin ToSet(fused)
      BY <1>10, <2>3 DEF ToSet
    <3> QED
      BY <1>18, <1>19, <3>1, <3>2
<1>22. PICK all : all = kept \o extras
  OBVIOUS
<1>23. /\ all \in Seq(mask) /\ IsInjective(all) /\ Len(all) <= cap
       /\ ToSet(all) = ToSet(kept) \cup ToSet(extras)
  <2>1. IsInjective(all)
    BY <1>10, <1>19, <1>20, <1>21, <1>22, ConcatInjective
  <2>2. all \in Seq(mask) /\ Len(all) = Len(kept) + m
    <3>1. PICK one, two : one = kept /\ two = extras
      OBVIOUS
    <3>2. one \in Seq(mask) /\ two \in Seq(mask) /\ Len(two) = m
      BY <1>10, <1>20, <3>1
    <3>3. one \o two \in Seq(mask) /\ Len(one \o two) = Len(one) + m
      BY <3>2
    <3> QED
      BY <1>22, <3>1, <3>3
  <2>3. ToSet(all) = ToSet(kept) \cup ToSet(extras)
    BY <1>10, <1>20, <1>22, ToSetConcat
  <2>4. Len(kept) + m <= cap
    BY <1>18, <1>20
  <2> QED
    BY <2>1, <2>2, <2>3, <2>4
<1>24. ASSUME NEW s \in found PROVE \E i \in 1..Len(all) : SourceOf[all[i]] = s
  <2>1. \E p \in ToSet(all) : SourceOf[p] = s
    <3>1. CASE s \in ToSet(missing)
      <4>1. PICK i \in 1..m : s = missing[i]
        BY <1>9, <3>1 DEF ToSet
      <4>2. extras[i] \in ToSet(extras) /\ SourceOf[extras[i]] = s
        BY <1>10, <4>1 DEF ToSet
      <4> QED
        BY <1>23, <4>2
    <3>2. CASE s \notin ToSet(missing)
      <4>1. s \in rest /\ fused[InFused(s)] \in low
        BY <1>3, <1>12, <1>16, <3>2
      <4>2. SourceOf[fused[InFused(s)]] = s
        BY <1>11, <1>14, <4>1
      <4> QED
        BY <1>18, <1>19, <1>23, <4>1, <4>2
    <3> QED
      BY <3>1, <3>2
  <2> QED
    BY <1>23, <2>1, ToSetIs
<1>25. CASE qualifying = <<>>
  <2>1. found = {}
    BY <1>3, <1>25 DEF ToSet
  <2>2. Retrieve(q) = <<>>
    BY <1>1, <1>25
  <2>3. <<>> \in Seq(mask) /\ IsInjective(<<>>) /\ Len(<<>>) = 0
    BY DEF IsInjective
  <2>4. Cardinality(found) \in Nat
    BY <1>4, FS_CardinalityType
  <2> QED
    BY <1>6, <2>1, <2>2, <2>3, <2>4 DEF found, mask
<1>26. CASE qualifying # <<>>
  <2>1. Retrieve(q) = all
    BY <1>1, <1>17, <1>22, <1>26
  <2>2. n # 0 /\ Cardinality(found) = n
    BY <1>3, <1>4, <1>5, <1>26
  <2>3. found # {}
    BY <2>2, FS_EmptySet
  <2>4. PICK len \in Nat : len = Len(all)
    BY <1>23
  <2>5. len <= BaseCap \/ len <= Cardinality(found)
    BY <1>6, <1>23, <2>2, <2>4
  <2>6. \A s \in found : \E i \in 1..Len(all) : SourceOf[all[i]] = s
    BY <1>24
  <2> QED
    BY <1>23, <2>1, <2>2, <2>3, <2>4, <2>5, <2>6 DEF found, mask
<1> QED
  BY <1>25, <1>26

-----------------------------------------------------------------------------
(* What the expansion admits.                                              *)

\* The passages the turn may be given.
InScope == {p \in Usable : SourceOf[p] \in ToSet(selected)}

\* The passages of a pointer are of the source it names.
OwnPassages(cause) ==
  \A i \in 1..Len(cause) : \A p \in ToSet(cause[i].passages) \cap Passages : SourceOf[p] = cause[i].source

LEMMA EntryOwn ==
  ASSUME NEW e \in DOMAIN Entries, NEW i \in 1..Len(Entries[e])
  PROVE  OwnPassages(Entries[e][i])
<1>1. IsSeq(Entries[e]) /\ Entries[e][i] \in ToSet(Entries[e])
  BY EntriesAssumption DEF IsSeq, ToSet
<1>2. PICK cause : cause = Entries[e][i]
  OBVIOUS
<1>3. /\ IsSeq(cause)
      /\ \A pointer \in ToSet(cause) :
           \A p \in ToSet(pointer.passages) \cap Passages : SourceOf[p] = pointer.source
  BY <1>1, <1>2, EntriesAssumption
<1>4. \A k \in 1..Len(cause) : cause[k] \in ToSet(cause)
  BY <1>3 DEF IsSeq
<1> QED
  BY <1>2, <1>3, <1>4 DEF OwnPassages

LEMMA FixIsInScope ==
  ASSUME NEW cause, IsCause(cause), OwnPassages(cause)
  PROVE  FixInScope(cause) \in Seq(InScope)
<1>1. PICK h : Fixes(h, cause)
  BY FixSteps
<1>2. PICK n \in Nat : n = Len(cause)
  BY DEF IsCause, IsSeq
<1> DEFINE W == Seq(InScope)
<1>3. ASSUME NEW k \in 1..n, h[k - 1] \in W PROVE h[k] \in W
  <2>1. PICK list, s : list = cause[k].passages /\ s = cause[k].source
    OBVIOUS
  <2>2. IsSeq(list) /\ \A p \in ToSet(list) \cap Passages : SourceOf[p] = s
    BY <1>2, <2>1 DEF IsCause, OwnPassages
  <2>3. PICK more : more = Among(list, Usable)
    OBVIOUS
  <2>4. more \in Seq(ToSet(list) \cap Usable)
    BY <2>2, <2>3, AmongIs DEF IsSeq
  <2>5. h[k] = IF s \in ToSet(selected) THEN h[k - 1] \o more ELSE h[k - 1]
    BY <1>1, <1>2, <2>1, <2>3 DEF Fixes, WithPointer
  <2>6. Usable \subseteq Passages
    BY DEF Usable
  <2>7. s \in ToSet(selected) => more \in Seq(InScope)
    <3>1. s \in ToSet(selected) => \A i \in 1..Len(more) : more[i] \in InScope
      BY <2>2, <2>4, <2>6 DEF InScope
    <3> QED
      BY <2>4, <3>1
  <2>8. h[k - 1] \in Seq(InScope)
    BY <1>3
  <2>9. s \in ToSet(selected) => h[k - 1] \o more \in Seq(InScope)
    <3> DEFINE T == InScope
    <3> HIDE DEF T
    <3>1. PICK one : one = h[k - 1]
      OBVIOUS
    <3>2. one \in Seq(T)
      BY <2>8, <3>1 DEF T
    <3>3. more \in Seq(T) => one \o more \in Seq(T)
      BY <3>2
    <3> QED
      BY <2>7, <3>1, <3>3 DEF T
  <2> QED
    BY <2>5, <2>8, <2>9
<1>4. h[0] \in W
  BY <1>1 DEF Fixes
<1>5. h[n] \in W
  <2> HIDE DEF W
  <2>1. \A k \in 1..n : h[k - 1] \in W => h[k] \in W
    BY <1>3
  <2>2. \A k \in 0..n : h[k] \in W
    BY <1>4, <2>1, Chained
  <2> QED
    BY <2>2
<1> QED
  BY <1>1, <1>2, <1>5 DEF Fixes

\* What may be supplied beside the passages that were retrieved.
Admits(passages, a) ==
  /\ a \in Seq(Passages) /\ ToSet(a) \subseteq InScope /\ IsInjective(a)
  /\ ToSet(a) \cap ToSet(passages) = {} /\ Len(a) <= Budget(passages)

LEMMA CiteAdmits ==
  ASSUME NEW R, NEW passages \in Seq(R), NEW e \in CiteStates, NEW p \in InScope,
         Admits(passages, e.admitted)
  PROVE  LET f == Cite(passages, e, p) IN f \in CiteStates /\ Admits(passages, f.admitted)
<1>1. PICK f : f = Cite(passages, e, p)
  OBVIOUS
<1>2. p \in Passages
  BY DEF InScope, Usable
<1>3. f \in CiteStates
  BY <1>1, <1>2, CiteType
<1>4. e.fixes \in Seq(Passages) /\ e.admitted \in Seq(Passages)
  BY DEF CiteStates
<1>5. PICK a : a = e.admitted
  OBVIOUS
<1>6. PICK fixes, more : fixes = Append(e.fixes, p) /\ more = Append(a, p)
  OBVIOUS
<1>7. ToSet(passages \o a) = ToSet(passages) \cup ToSet(a)
  BY <1>4, <1>5, ToSetConcat
<1>8. \/ f.admitted = a
      \/ /\ p \notin ToSet(passages) /\ p \notin ToSet(a) /\ Len(a) < Budget(passages)
         /\ f.admitted = more
  <2>1. \/ f = e
        \/ f = [e EXCEPT !.fixes = fixes, !.admitted = a]
        \/ /\ p \notin ToSet(passages \o a) /\ Len(a) < Budget(passages)
           /\ f = [e EXCEPT !.fixes = fixes, !.admitted = more]
    BY <1>1, <1>5, <1>6 DEF Cite, MayAdmit
  <2> QED
    BY <1>5, <1>7, <2>1 DEF CiteStates
<1>9. CASE f.admitted = more /\ p \notin ToSet(passages) /\ p \notin ToSet(a) /\ Len(a) < Budget(passages)
  <2>1. a \in Seq(Passages) /\ IsInjective(a) /\ ToSet(a) \subseteq InScope /\ ToSet(a) \cap ToSet(passages) = {}
    BY <1>5 DEF Admits
  <2>2. WithKey(a, p) = more
    BY <1>6, <1>9 DEF WithKey
  <2>3. more \in Seq(Passages) /\ IsInjective(more)
    BY <1>2, <2>1, <2>2, WithKeyIs
  <2>4. ToSet(more) = ToSet(a) \cup {p} /\ Len(more) = Len(a) + 1
    BY <1>6, <2>1, ToSetAppend
  <2>5. Len(more) <= Budget(passages)
    BY <1>9, <2>1, <2>4, BudgetIs
  <2>6. ToSet(more) \subseteq InScope /\ ToSet(more) \cap ToSet(passages) = {}
    BY <1>9, <2>1, <2>4
  <2> QED
    BY <1>1, <1>3, <1>9, <2>3, <2>5, <2>6 DEF Admits
<1>10. CASE f.admitted = a
  BY <1>1, <1>3, <1>5, <1>10
<1> QED
  BY <1>8, <1>9, <1>10

LEMMA CitesAdmit ==
  ASSUME NEW R, NEW passages \in Seq(R), NEW admitted, Admits(passages, admitted),
         NEW list \in Seq(InScope)
  PROVE  Admits(passages, Cites(passages, admitted, list).admitted)
<1>1. admitted \in Seq(Passages) /\ list \in Seq(Passages)
  BY DEF Admits, InScope, Usable
<1>2. PICK h : CiteSteps(h, passages, admitted, list)
  BY <1>1, CitesSteps
<1>3. PICK n \in Nat : n = Len(list)
  OBVIOUS
<1> DEFINE W == {e \in CiteStates : Admits(passages, e.admitted)}
<1>4. h[0] \in W
  <2>1. PICK e : e = NoFix(admitted)
    OBVIOUS
  <2>2. e \in CiteStates /\ e.admitted = admitted
    BY <1>1, <2>1 DEF CiteStates, NoFix
  <2> QED
    BY <1>2, <2>1, <2>2 DEF CiteSteps
<1>5. ASSUME NEW k \in 1..n, h[k - 1] \in W PROVE h[k] \in W
  <2>1. h[k] = Cite(passages, h[k - 1], list[k])
    BY <1>2, <1>3 DEF CiteSteps
  <2>2. list[k] \in InScope
    BY <1>3
  <2> QED
    BY <1>5, <2>1, <2>2, CiteAdmits
<1>6. h[n] \in W
  <2> HIDE DEF W
  <2>1. \A k \in 1..n : h[k - 1] \in W => h[k] \in W
    BY <1>5
  <2>2. \A k \in 0..n : h[k] \in W
    BY <1>4, <2>1, Chained
  <2> QED
    BY <2>2
<1> QED
  BY <1>2, <1>3, <1>6 DEF CiteSteps

LEMMA WithCausesAdmit ==
  ASSUME NEW R, NEW passages \in Seq(R), NEW e \in Expansions, Admits(passages, e.admitted),
         NEW causes, IsSeq(causes),
         \A k \in 1..Len(causes) : IsCause(causes[k]) /\ OwnPassages(causes[k])
  PROVE  Admits(passages, WithCauses(passages, e, causes).admitted)
<1>1. PICK h : CauseSteps(h, passages, e, causes)
  BY CausesSteps
<1>2. PICK n \in Nat : n = Len(causes)
  BY DEF IsSeq
<1> DEFINE W == {w \in Expansions : Admits(passages, w.admitted)}
<1>3. h[0] \in W
  BY <1>1 DEF CauseSteps
<1>4. ASSUME NEW k \in 1..n, h[k - 1] \in W PROVE h[k] \in W
  <2>1. PICK f \in Expansions : f = h[k - 1] /\ Admits(passages, f.admitted)
    BY <1>4
  <2>2. PICK cause : cause = causes[k]
    OBVIOUS
  <2>3. IsCause(cause) /\ OwnPassages(cause) /\ h[k] = WithCause(passages, f, cause)
    BY <1>1, <1>2, <2>1, <2>2 DEF CauseSteps
  <2>4. WithCause(passages, f, cause) \in Expansions
    BY <2>3, WithCauseType
  <2>5. PICK cited : cited = Cites(passages, f.admitted, FixInScope(cause))
    OBVIOUS
  <2>6. Admits(passages, cited.admitted)
    BY <2>1, <2>3, <2>5, FixIsInScope, CitesAdmit
  <2>7. WithCause(passages, f, cause).admitted = cited.admitted
    BY <2>1, <2>5 DEF WithCause, Expansions
  <2> QED
    BY <2>3, <2>4, <2>6, <2>7
<1>5. h[n] \in W
  <2> HIDE DEF W
  <2>1. \A k \in 1..n : h[k - 1] \in W => h[k] \in W
    BY <1>4
  <2>2. \A k \in 0..n : h[k] \in W
    BY <1>3, <2>1, Chained
  <2> QED
    BY <2>2
<1> QED
  BY <1>1, <1>2, <1>5 DEF CauseSteps

\* The expansion admits only what it may, and nothing when nothing was retrieved.
LEMMA ExpandAdmits ==
  ASSUME NEW passages, IsSeq(passages)
  PROVE  LET e == Expand(passages) IN
         Admits(passages, e.admitted) /\ (passages = <<>> => e.admitted = <<>>)
<1>1. PICK e : e = Expand(passages)
  OBVIOUS
<1>2. PICK n \in Nat : n = Len(passages) /\ DOMAIN passages = 1..n /\ passages \in Seq(ToSet(passages))
  BY DEF IsSeq
<1>3. PICK at : at = SelectInSeq(passages, LAMBDA p : p \in DOMAIN Entries)
  OBVIOUS
<1>4. at = 0 \/ (at \in 1..n /\ passages[at] \in DOMAIN Entries)
  <2>1. PICK I \in SUBSET (1..n) : I = {i \in 1..n : passages[i] \in DOMAIN Entries}
    OBVIOUS
  <2>2. at = IF I # {} THEN Min(I) ELSE 0
    BY <1>2, <1>3, <2>1 DEF SelectInSeq
  <2>3. (I = {} /\ at = 0) \/ at \in I
    BY <2>2, LeastPlace
  <2> QED
    BY <2>1, <2>3
<1>5. Admits(passages, <<>>)
  <2>1. ToSet(<<>>) = {} /\ IsInjective(<<>>) /\ Len(<<>>) = 0 /\ <<>> \in Seq(Passages)
    BY DEF ToSet, IsInjective
  <2>2. Len(<<>>) <= Budget(passages)
    BY <1>2, <2>1, BudgetIs
  <2> QED
    BY <2>1, <2>2 DEF Admits
<1>6. CASE at = 0
  <2>1. e = NoExpansion
    BY <1>1, <1>3, <1>6 DEF Expand
  <2>2. e.admitted = <<>>
    BY <2>1 DEF NoExpansion
  <2> QED
    BY <1>1, <1>5, <2>2
<1>7. CASE at # 0
  <2>1. PICK entry \in DOMAIN Entries : entry = passages[at]
    BY <1>4, <1>7
  <2>2. PICK causes : causes = First(Entries[entry], CausesMax)
    OBVIOUS
  <2>3. CausesMax \in Nat
    BY BandAssumption
  <2>4. IsSeq(Entries[entry])
    BY EntriesAssumption
  <2>5. /\ causes \in Seq(ToSet(Entries[entry]))
        /\ Len(causes) = IF Len(Entries[entry]) < CausesMax THEN Len(Entries[entry]) ELSE CausesMax
        /\ \A i \in 1..Len(causes) : causes[i] = Entries[entry][i]
    BY <2>2, <2>3, <2>4, FirstIs DEF IsSeq
  <2>6. \A i \in 1..Len(causes) : i \in 1..Len(Entries[entry])
    BY <2>3, <2>4, <2>5 DEF IsSeq
  <2>7. \A i \in 1..Len(causes) : IsCause(causes[i]) /\ OwnPassages(causes[i])
    BY <2>1, <2>5, <2>6, EntryCauses, EntryOwn
  <2>8. IsSeq(causes)
    BY <2>5, IsSeqOf
  <2>9. PICK base : base = [NoExpansion EXCEPT !.entry = entry]
    OBVIOUS
  <2>10. base = [entry |-> entry, causes |-> <<>>, admitted |-> <<>>, suggested |-> <<>>]
    BY <2>9 DEF NoExpansion
  <2>11. base \in Expansions /\ base.admitted = <<>>
    BY <2>10 DEF Expansions
  <2>12. e = WithCauses(passages, base, causes)
    BY <1>1, <1>3, <1>7, <2>1, <2>2, <2>9 DEF Expand
  <2>13. Admits(passages, WithCauses(passages, base, causes).admitted)
    BY <1>2, <1>5, <2>7, <2>8, <2>11, WithCausesAdmit
  <2>14. passages # <<>>
    BY <1>2, <1>4, <1>7
  <2> QED
    BY <1>1, <2>12, <2>13, <2>14
<1> QED
  BY <1>6, <1>7

-----------------------------------------------------------------------------
(* The scope of what is supplied.                                          *)

LEMMA AmongThree ==
  ASSUME NEW a \in Nat, NEW b \in Nat, NEW c \in Nat, NEW n \in Nat,
         n <= a \/ n <= b \/ n <= c
  PROVE  n <= Max({a, b, c})
<1>1. PICK m \in {a, b, c} : \A y \in {a, b, c} : m >= y
  <2>1. CASE a >= b /\ a >= c
    BY <2>1
  <2>2. CASE b >= a /\ b >= c
    BY <2>2
  <2>3. CASE c >= a /\ c >= b
    BY <2>3
  <2> QED
    BY <2>1, <2>2, <2>3
<1>2. \A x \in {a, b, c} : (\A y \in {a, b, c} : x >= y) => x = m
  BY <1>1
<1>3. Max({a, b, c}) = m
  BY <1>1, <1>2 DEF Max
<1> QED
  BY <1>1, <1>3

\* SuppliedIsInScope of a question, what it retrieved and what was admitted.
Fits(q, r, a) ==
  LET all   == r \o a
      found == {s \in ToSet(q.selected) : Qualifying(q, s) # {}}
  IN  /\ ToSet(all) \subseteq Mask(q) /\ Cardinality(ToSet(all)) = Len(all)
      /\ Len(all) <= Max({BaseCap, NarrowingCap, Cardinality(found)})
      /\ \A s \in found : \E i \in DOMAIN r : SourceOf[r[i]] = s
      /\ found = {} => all = <<>>

LEMMA RetrievedFits ==
  ASSUME NEW q \in Queries, selected = q.selected, NEW r, r = Retrieve(q), NEW e, e = Expand(r)
  PROVE  Fits(q, r, e.admitted)
<1>1. PICK found : found = {s \in ToSet(q.selected) : Qualifying(q, s) # {}}
  OBVIOUS
<1>2. /\ r \in Seq(Mask(q)) /\ IsInjective(r) /\ Cardinality(found) \in Nat
      /\ Len(r) <= BaseCap \/ Len(r) <= Cardinality(found)
      /\ \A s \in found : \E i \in 1..Len(r) : SourceOf[r[i]] = s
      /\ found = {} => r = <<>>
  BY <1>1, RetrieveIs
<1>3. InScope = Mask(q)
  BY DEF InScope, Usable, Mask
<1>4. PICK M : M = Mask(q)
  OBVIOUS
<1>5. M \subseteq Passages
  BY <1>4 DEF Mask
<1>6. PICK a : a = e.admitted
  OBVIOUS
<1>7. IsSeq(r)
  BY <1>2, IsSeqOf
<1>8. Admits(r, a) /\ (r = <<>> => a = <<>>)
  BY <1>6, <1>7, ExpandAdmits
<1>9. /\ a \in Seq(Passages) /\ ToSet(a) \subseteq M /\ IsInjective(a)
      /\ ToSet(a) \cap ToSet(r) = {} /\ Len(a) <= Budget(r)
  BY <1>3, <1>4, <1>8 DEF Admits
<1>10. r \in Seq(M) /\ r \in Seq(Passages)
  BY <1>2, <1>4, <1>5
<1>11. PICK all : all = r \o a
  OBVIOUS
<1>12. all \in Seq(Passages) /\ Len(all) = Len(r) + Len(a)
  BY <1>9, <1>10, <1>11
<1>13. ToSet(all) = ToSet(r) \cup ToSet(a)
  BY <1>9, <1>10, <1>11, ToSetConcat
<1>14. ToSet(r) \subseteq M
  BY <1>10 DEF ToSet
<1>15. Cardinality(ToSet(all)) = Len(all)
  <2>1. IsInjective(all)
    BY <1>2, <1>9, <1>10, <1>11, ConcatInjective
  <2> QED
    BY <1>12, <2>1, ListCount
<1>16. Len(all) <= Max({BaseCap, NarrowingCap, Cardinality(found)})
  <2>1. PICK lr \in Nat, la \in Nat : lr = Len(r) /\ la = Len(a)
    BY <1>9, <1>10
  <2>2. BaseCap \in Nat /\ NarrowingCap \in Nat
    BY CapsAssumption, BandAssumption
  <2>3. la <= IF lr < NarrowingCap THEN NarrowingCap - lr ELSE 0
    BY <1>9, <2>1 DEF Budget
  <2>4. PICK c \in Nat : c = Cardinality(found)
    BY <1>2
  <2>5. lr + la <= BaseCap \/ lr + la <= NarrowingCap \/ lr + la <= c
    BY <1>2, <2>1, <2>2, <2>3, <2>4
  <2>6. lr + la <= Max({BaseCap, NarrowingCap, c})
    BY <2>2, <2>5, AmongThree
  <2> QED
    BY <1>12, <2>1, <2>4, <2>6
<1>17. DOMAIN r = 1..Len(r)
  BY <1>10
<1>18. found = {} => all = <<>>
  BY <1>2, <1>8, <1>11
<1> QED
  BY <1>1, <1>2, <1>4, <1>6, <1>11, <1>13, <1>14, <1>9, <1>15, <1>16, <1>17, <1>18 DEF Fits

LEMMA FitsNext ==
  ASSUME NEW q, NEW r, NEW a, query' = q, selected' = q.selected, ranking' = r,
         expansion'.admitted = a, Fits(q, r, a)
  PROVE  SuppliedIsInScope'
BY DEF SuppliedIsInScope, Fits

LEMMA FitsNow ==
  ASSUME NEW q, NEW r, NEW a, query = q, selected = q.selected, ranking = r,
         expansion.admitted = a, stage = "retrieved", SuppliedIsInScope
  PROVE  Fits(q, r, a)
BY DEF SuppliedIsInScope, Fits

\* Until the prompt is assembled, the scope is that of the question.
Asked == stage \in {"ask", "retrieved"} => selected = query.selected

ScopeInv == Asked /\ SuppliedIsInScope

LEMMA ScopeStays ==
  ASSUME IInv, ScopeInv, [Next]_vars
  PROVE  ScopeInv'
<1>1. CASE RetrieveAndExpand
  <2>1. PICK q, r, e : q = query /\ r = Retrieve(q) /\ e = Expand(r)
    OBVIOUS
  <2>2. /\ stage = "ask" /\ query' = q /\ selected' = selected /\ ranking' = r
        /\ expansion' = e /\ q \in Queries
    BY <1>1, <2>1 DEF RetrieveAndExpand, IInv, TurnInv
  <2>3. selected = q.selected
    BY <2>1, <2>2 DEF ScopeInv, Asked
  <2>4. Fits(q, r, e.admitted)
    BY <2>1, <2>2, <2>3, RetrievedFits
  <2>5. SuppliedIsInScope'
    <3>1. PICK a : a = e.admitted
      OBVIOUS
    <3> QED
      BY <2>2, <2>3, <2>4, <3>1, FitsNext
  <2> QED
    BY <2>2, <2>3, <2>5 DEF ScopeInv, Asked
<1>2. CASE UNCHANGED vars
  <2>1. /\ query' = query /\ ranking' = ranking /\ expansion' = expansion
        /\ selected' = selected /\ stage' = stage
    BY <1>2 DEF vars
  <2>2. CASE stage = "retrieved"
    <3>1. PICK q, r, a : q = query /\ r = ranking /\ a = expansion.admitted
      OBVIOUS
    <3>2. selected = q.selected
      BY <2>2, <3>1 DEF ScopeInv, Asked
    <3>3. Fits(q, r, a)
      BY <2>2, <3>1, <3>2, FitsNow DEF ScopeInv
    <3>4. SuppliedIsInScope'
      BY <2>1, <3>1, <3>2, <3>3, FitsNext
    <3> QED
      BY <2>1, <2>2, <3>4 DEF ScopeInv, Asked
  <2>3. CASE stage # "retrieved"
    <3>1. SuppliedIsInScope'
      BY <2>1, <2>3 DEF SuppliedIsInScope
    <3> QED
      BY <2>1, <3>1 DEF ScopeInv, Asked
  <2> QED
    BY <2>2, <2>3
<1>3. stage' \notin {"ask", "retrieved"} => ScopeInv'
  BY DEF ScopeInv, Asked, SuppliedIsInScope
<1>4. CASE Assemble
  BY <1>3, <1>4 DEF Assemble
<1>5. CASE EndLine
  BY <1>3, <1>5 DEF EndLine, Feed
<1>6. ASSUME NEW line \in Offered, WriteLine(line) PROVE ScopeInv'
  BY <1>3, <1>6 DEF WriteLine, Feed
<1>7. CASE Retry
  BY <1>3, <1>7 DEF Retry, LimitsRate
<1>8. ASSUME NEW stated \in {"short", "long", "absent"}, RateLimited(stated) PROVE ScopeInv'
  BY <1>3, <1>8 DEF RateLimited, EndWith
<1>9. ASSUME NEW failure \in {"unreachable", "auth", "error"}, Fail(failure) PROVE ScopeInv'
  BY <1>3, <1>9 DEF Fail, EndWith
<1>10. CASE Watchdog
  BY <1>3, <1>10 DEF Watchdog, EndWith
<1>11. CASE Finish
  BY <1>3, <1>11 DEF Finish
<1> QED
  BY <1>1, <1>2, <1>4, <1>5, <1>6, <1>7, <1>8, <1>9, <1>10, <1>11 DEF Next

\* What a turn is given is in its scope, each passage once and within the caps,
\* and every source that qualifies is heard (retrieve.py, narrow.py): retrieval
\* serves each of them before it fills the cap, and the expansion admits what
\* was not supplied yet, as long as there is room.
THEOREM SuppliedInScope == Spec => []SuppliedIsInScope
<1>1. Init => ScopeInv
  BY DEF Init, ScopeInv, Asked, SuppliedIsInScope
<1>2. IInv /\ ScopeInv /\ [Next]_vars => ScopeInv'
  BY ScopeStays
<1>3. ScopeInv => SuppliedIsInScope
  BY DEF ScopeInv
<1> QED
  BY <1>1, <1>2, <1>3, TurnKeeps, PTL DEF Spec

-----------------------------------------------------------------------------
(* The lines, counted: how many of a set of lines are shown, and how many   *)
(* are in the blocks.                                                      *)

\* The places of a set's lines in a list, and in the lines of a list of blocks.
Spots(list, set) == {i \in DOMAIN list : list[i] \in set}
BlockSpots(blocks, set) == UNION {{i} \X Spots(blocks[i].lines, set) : i \in DOMAIN blocks}

Many(list, set) == Cardinality(Spots(list, set))
ManyInBlocks(blocks, set) == Cardinality(BlockSpots(blocks, set))
One(line, set) == IF line \in set THEN 1 ELSE 0

LEMMA SpotsFinite ==
  ASSUME NEW list \in Seq(Written), NEW set
  PROVE  /\ IsFiniteSet(Spots(list, set)) /\ Many(list, set) \in Nat
         /\ Spots(list, set) \subseteq 1..Len(list)
<1>1. PICK n \in Nat : n = Len(list) /\ DOMAIN list = 1..n
  OBVIOUS
<1>2. IsFiniteSet(1..n)
  BY FS_Interval
<1>3. Spots(list, set) \in SUBSET (1..n)
  BY <1>1 DEF Spots
<1>4. IsFiniteSet(Spots(list, set))
  BY <1>2, <1>3, FS_Subset
<1> QED
  BY <1>1, <1>3, <1>4, FS_CardinalityType DEF Many

LEMMA ManyAppend ==
  ASSUME NEW list \in Seq(Written), NEW line \in Written, NEW set
  PROVE  Many(Append(list, line), set) = Many(list, set) + One(line, set)
<1>1. PICK more : more = Append(list, line)
  OBVIOUS
<1>2. PICK n \in Nat : n = Len(list) /\ DOMAIN list = 1..n
  OBVIOUS
<1>3. DOMAIN more = 1..(n + 1) /\ more[n + 1] = line /\ \A i \in 1..n : more[i] = list[i]
  BY <1>1, <1>2
<1>4. \A i : i \in 1..(n + 1) <=> (i \in 1..n \/ i = n + 1)
  BY <1>2
<1>5. PICK S : S = Spots(list, set)
  OBVIOUS
<1>6. IsFiniteSet(S) /\ S \subseteq 1..n /\ Cardinality(S) = Many(list, set) /\ Cardinality(S) \in Nat
  BY <1>2, <1>5, SpotsFinite DEF Many
<1>7. n + 1 \notin S
  BY <1>6
<1>8. Spots(more, set) = IF line \in set THEN S \cup {n + 1} ELSE S
  <2>1. \A i : i \in Spots(more, set) <=> (i \in S \/ (i = n + 1 /\ line \in set))
    BY <1>2, <1>3, <1>4, <1>5 DEF Spots
  <2> QED
    BY <2>1
<1>9. Cardinality(S \cup {n + 1}) = Cardinality(S) + 1
  BY <1>6, <1>7, FS_AddElement
<1> QED
  BY <1>1, <1>6, <1>8, <1>9 DEF Many, One

LEMMA ManyNone ==
  ASSUME NEW set
  PROVE  Many(<<>>, set) = 0 /\ ManyInBlocks(<<>>, set) = 0
<1>1. PICK none : none = <<>>
  OBVIOUS
<1>2. DOMAIN none = {}
  BY <1>1
<1>3. Spots(none, set) = {} /\ BlockSpots(none, set) = {}
  BY <1>2 DEF Spots, BlockSpots
<1>4. Cardinality({}) = 0
  BY FS_EmptySet
<1> QED
  BY <1>1, <1>3, <1>4 DEF Many, ManyInBlocks

LEMMA BlockSpotsFinite ==
  ASSUME NEW blocks \in Seq(Blocks), NEW set
  PROVE  IsFiniteSet(BlockSpots(blocks, set)) /\ ManyInBlocks(blocks, set) \in Nat
<1>1. PICK n \in Nat : n = Len(blocks) /\ DOMAIN blocks = 1..n
  OBVIOUS
<1>2. \A i \in 1..n : blocks[i].lines \in Seq(Written)
  <2>1. \A i \in 1..n : blocks[i] \in Blocks
    BY <1>1
  <2>2. \A block \in Blocks : block.lines \in Seq(Written)
    BY DEF Blocks
  <2> QED
    BY <2>1, <2>2
<1>3. PICK f : f = [i \in 1..n |-> {i} \X Spots(blocks[i].lines, set)]
  OBVIOUS
<1>4. PICK T : T = {{i} \X Spots(blocks[i].lines, set) : i \in 1..n}
  OBVIOUS
<1>5. \A t \in T : IsFiniteSet(t)
  <2> SUFFICES ASSUME NEW i \in 1..n
               PROVE  IsFiniteSet({i} \X Spots(blocks[i].lines, set))
    BY <1>4
  <2>1. IsFiniteSet(Spots(blocks[i].lines, set))
    BY <1>2, SpotsFinite
  <2>2. IsFiniteSet({i})
    BY FS_Singleton
  <2> QED
    BY <2>1, <2>2, FS_Product
<1>6. IsFiniteSet(T)
  <2>1. f \in Surjection(1..n, T)
    <3>1. f \in [1..n -> T] /\ \A t \in T : \E i \in 1..n : f[i] = t
      BY <1>3, <1>4
    <3> QED
      BY <3>1 DEF Surjection
  <2>2. IsFiniteSet(1..n)
    BY FS_Interval
  <2> QED
    BY <2>1, <2>2, FS_Surjection
<1>7. IsFiniteSet(UNION T)
  BY <1>5, <1>6, FS_UNION
<1>8. BlockSpots(blocks, set) = UNION T
  BY <1>1, <1>4 DEF BlockSpots
<1> QED
  BY <1>7, <1>8, FS_CardinalityType DEF ManyInBlocks

LEMMA ManyBlocksAppend ==
  ASSUME NEW blocks \in Seq(Blocks), NEW block \in Blocks, NEW set
  PROVE  ManyInBlocks(Append(blocks, block), set) = ManyInBlocks(blocks, set) + Many(block.lines, set)
<1>1. PICK more : more = Append(blocks, block)
  OBVIOUS
<1>2. PICK n \in Nat : n = Len(blocks) /\ DOMAIN blocks = 1..n
  OBVIOUS
<1>3. DOMAIN more = 1..(n + 1) /\ more[n + 1] = block /\ \A i \in 1..n : more[i] = blocks[i]
  BY <1>1, <1>2
<1>4. \A i : i \in 1..(n + 1) <=> (i \in 1..n \/ i = n + 1)
  BY <1>2
<1>5. PICK here : here = Spots(block.lines, set)
  OBVIOUS
<1>6. IsFiniteSet(here) /\ Cardinality(here) = Many(block.lines, set) /\ Cardinality(here) \in Nat
  <2>1. block.lines \in Seq(Written)
    BY DEF Blocks
  <2> QED
    BY <1>5, <2>1, SpotsFinite DEF Many
<1>7. PICK new : new = {n + 1} \X here
  OBVIOUS
<1>8. PICK old : old = BlockSpots(blocks, set)
  OBVIOUS
<1>9. IsFiniteSet(old) /\ Cardinality(old) = ManyInBlocks(blocks, set) /\ Cardinality(old) \in Nat
  BY <1>8, BlockSpotsFinite DEF ManyInBlocks
<1>10. IsFiniteSet(new) /\ Cardinality(new) = Cardinality(here)
  <2>1. IsFiniteSet({n + 1}) /\ Cardinality({n + 1}) = 1
    BY FS_Singleton
  <2>2. IsFiniteSet(new) /\ Cardinality(new) = 1 * Cardinality(here)
    BY <1>6, <1>7, <2>1, FS_Product
  <2> QED
    BY <1>6, <2>2
<1>11. BlockSpots(more, set) = old \cup new
  <2>1. PICK row : row = [i \in 1..(n + 1) |-> {i} \X Spots(more[i].lines, set)]
    OBVIOUS
  <2>2. \A i \in 1..n : row[i] = {i} \X Spots(blocks[i].lines, set)
    BY <1>3, <1>4, <2>1
  <2>3. row[n + 1] = new
    BY <1>3, <1>4, <1>5, <1>7, <2>1
  <2>4. BlockSpots(more, set) = UNION {row[i] : i \in 1..(n + 1)}
    BY <1>3, <2>1 DEF BlockSpots
  <2>5. old = UNION {row[i] : i \in 1..n}
    BY <1>2, <1>8, <2>2 DEF BlockSpots
  <2>6. \A x : x \in BlockSpots(more, set) <=> (x \in old \/ x \in row[n + 1])
    BY <1>4, <2>4, <2>5
  <2> QED
    BY <2>3, <2>6
<1>12. old \cap new = {}
  <2>1. \A x \in old : \E i \in 1..n : x[1] = i
    BY <1>2, <1>8 DEF BlockSpots
  <2>2. \A x \in new : x[1] = n + 1
    BY <1>7
  <2>3. \A i \in 1..n : i # n + 1
    BY <1>2
  <2> QED
    BY <2>1, <2>2, <2>3
<1>13. Cardinality(old \cup new) = Cardinality(old) + Cardinality(new)
  <2>1. Cardinality(old \cup new) = Cardinality(old) + Cardinality(new) - Cardinality(old \cap new)
    BY <1>9, <1>10, FS_Union
  <2>2. Cardinality(old \cap new) = 0
    BY <1>12, FS_EmptySet
  <2> QED
    BY <1>6, <1>9, <1>10, <2>1, <2>2
<1> QED
  BY <1>1, <1>6, <1>9, <1>10, <1>11, <1>13 DEF ManyInBlocks

\* Closing an open block moves its lines to the blocks.
LEMMA ManyOpened ==
  ASSUME NEW blocks \in Seq(Blocks), NEW type \in {"paragraph", "caveat", "conflict"},
         NEW lines \in Seq(Written), NEW set
  PROVE  ManyInBlocks(blocks \o Opened(type, lines), set) = ManyInBlocks(blocks, set) + Many(lines, set)
<1>1. CASE lines = <<>>
  <2>1. blocks \o <<>> = blocks
    OBVIOUS
  <2>2. ManyInBlocks(blocks, set) \in Nat
    BY BlockSpotsFinite
  <2> QED
    BY <1>1, <2>1, <2>2, ManyNone DEF Opened
<1>2. CASE lines # <<>>
  <2>1. PICK block : block = Block(type, lines)
    OBVIOUS
  <2>2. block \in Blocks /\ block.lines = lines
    BY <2>1 DEF Block, Blocks
  <2>3. blocks \o <<block>> = Append(blocks, block)
    BY <2>2
  <2> QED
    BY <1>2, <2>1, <2>2, <2>3, ManyBlocksAppend DEF Opened
<1> QED
  BY <1>1, <1>2

-----------------------------------------------------------------------------
(* The parser again: what a line changes in the count.                     *)

Spoken(set) == {line \in set : line.kind # "blank"}

\* The lines of the blocks, closed and open.
ManyKept(p, set) ==
  ManyInBlocks(p.blocks, set) + Many(p.paragraph, set) + Many(p.caveat, set) + Many(p.conflict, set)

\* Of every set of lines the blocks hold as many as were shown, blank lines apart.
Even(p) == \A set \in SUBSET Written : Many(p.body, Spoken(set)) = ManyKept(p, set)

KeepsMany(p, q) == q.body = p.body /\ \A set \in SUBSET Written : ManyKept(q, set) = ManyKept(p, set)

KeepsOneMore(p, q, line) ==
  q.body = p.body /\ \A set \in SUBSET Written : ManyKept(q, set) = ManyKept(p, set) + One(line, set)

SameBlocks(p, q) ==
  /\ q.body = p.body /\ q.blocks = p.blocks
  /\ q.paragraph = p.paragraph /\ q.caveat = p.caveat /\ q.conflict = p.conflict

LEMMA ManyAreNat ==
  ASSUME NEW p \in Parsers, NEW set
  PROVE  /\ ManyInBlocks(p.blocks, set) \in Nat /\ Many(p.paragraph, set) \in Nat
         /\ Many(p.caveat, set) \in Nat /\ Many(p.conflict, set) \in Nat
         /\ Many(p.body, set) \in Nat
<1>1. /\ p.blocks \in Seq(Blocks) /\ p.paragraph \in Seq(Written) /\ p.caveat \in Seq(Written)
      /\ p.conflict \in Seq(Written) /\ p.body \in Seq(Written)
  BY DEF Parsers
<1> QED
  BY <1>1, BlockSpotsFinite, SpotsFinite

LEMMA SameBlocksKeep ==
  ASSUME NEW p, NEW q, SameBlocks(p, q)
  PROVE  KeepsMany(p, q)
BY DEF SameBlocks, KeepsMany, ManyKept

LEMMA EvenStays ==
  ASSUME NEW p, Even(p), NEW q, KeepsMany(p, q)
  PROVE  Even(q)
BY DEF Even, KeepsMany

LEMMA KeepsManyOn ==
  ASSUME NEW p, NEW q, KeepsMany(p, q), NEW r
  PROVE  /\ KeepsMany(q, r) => KeepsMany(p, r)
         /\ \A line : KeepsOneMore(q, r, line) => KeepsOneMore(p, r, line)
BY DEF KeepsMany, KeepsOneMore

LEMMA CauseClosedKeeps ==
  ASSUME NEW p \in Parsers, NEW check
  PROVE  SameBlocks(p, CauseClosed(p, check))
<1>1. PICK causes : causes = Append(p.causes, [statement |-> p.cause, check |-> check])
  OBVIOUS
<1>2. PICK q : q = [p EXCEPT !.cause = NoLine, !.causes = causes]
  OBVIOUS
<1>3. CauseClosed(p, check) = q
  BY <1>1, <1>2 DEF CauseClosed
<1> QED
  BY <1>2, <1>3 DEF SameBlocks, Parsers

LEMMA FlushedKeeps ==
  ASSUME NEW p \in Parsers
  PROVE  KeepsMany(p, Flushed(p))
<1>1. PICK para : para = p.blocks \o Opened("paragraph", p.paragraph)
  OBVIOUS
<1>2. PICK cav : cav = para \o Opened("caveat", p.caveat)
  OBVIOUS
<1>3. PICK blocks : blocks = cav \o Opened("conflict", p.conflict)
  OBVIOUS
<1>4. /\ p.blocks \in Seq(Blocks) /\ p.paragraph \in Seq(Written)
      /\ p.caveat \in Seq(Written) /\ p.conflict \in Seq(Written)
  BY DEF Parsers
<1>5. para \in Seq(Blocks) /\ cav \in Seq(Blocks) /\ blocks \in Seq(Blocks)
  <2>1. para \in Seq(Blocks)
    BY <1>1, <1>4, OpenedIs
  <2>2. cav \in Seq(Blocks)
    BY <1>2, <1>4, <2>1, OpenedIs
  <2>3. blocks \in Seq(Blocks)
    BY <1>3, <1>4, <2>2, OpenedIs
  <2> QED
    BY <2>1, <2>2, <2>3
<1>6. ASSUME NEW set
      PROVE  ManyInBlocks(blocks, set) = ManyKept(p, set)
  <2>1. ManyInBlocks(para, set) = ManyInBlocks(p.blocks, set) + Many(p.paragraph, set)
    BY <1>1, <1>4, ManyOpened
  <2>2. ManyInBlocks(cav, set) = ManyInBlocks(para, set) + Many(p.caveat, set)
    BY <1>2, <1>4, <1>5, ManyOpened
  <2>3. ManyInBlocks(blocks, set) = ManyInBlocks(cav, set) + Many(p.conflict, set)
    BY <1>3, <1>4, <1>5, ManyOpened
  <2> QED
    BY <2>1, <2>2, <2>3 DEF ManyKept
<1>7. PICK violation \in BOOLEAN : violation = (p.violation \/ Len(p.conflict) \notin {0, 3})
  OBVIOUS
<1>8. PICK q : q = [p EXCEPT !.blocks = blocks, !.violation = violation,
                             !.paragraph = <<>>, !.caveat = <<>>, !.conflict = <<>>, !.collecting = FALSE]
  OBVIOUS
<1>9. <<>> \in Seq(Written)
  OBVIOUS
<1>10. /\ q \in Parsers /\ q.body = p.body /\ q.blocks = blocks
       /\ q.paragraph = <<>> /\ q.caveat = <<>> /\ q.conflict = <<>>
  BY <1>5, <1>8, <1>9 DEF Parsers
<1>11. KeepsMany(p, q)
  <2> SUFFICES ASSUME NEW set \in SUBSET Written
               PROVE  ManyKept(q, set) = ManyKept(p, set)
    BY <1>10 DEF KeepsMany
  <2>1. ManyInBlocks(q.blocks, set) \in Nat
    BY <1>10, ManyAreNat
  <2>2. Many(<<>>, set) = 0
    BY ManyNone
  <2>3. ManyKept(q, set) = ManyInBlocks(blocks, set) + 0 + 0 + 0
    BY <1>10, <2>2 DEF ManyKept
  <2> QED
    BY <1>6, <1>10, <2>1, <2>3
<1>12. Flushed(p) = IF q.cause = NoLine THEN q ELSE CauseClosed(q, NoLine)
  <2>1. q = [p EXCEPT
              !.blocks = @ \o Opened("paragraph", p.paragraph) \o Opened("caveat", p.caveat)
                           \o Opened("conflict", p.conflict),
              !.violation = @ \/ Len(p.conflict) \notin {0, 3},
              !.paragraph = <<>>, !.caveat = <<>>, !.conflict = <<>>, !.collecting = FALSE]
    BY <1>1, <1>2, <1>3, <1>7, <1>8
  <2> QED
    BY <2>1 DEF Flushed
<1>13. PICK r : r = CauseClosed(q, NoLine)
  OBVIOUS
<1>14. KeepsMany(q, r)
  BY <1>10, <1>13, CauseClosedKeeps, SameBlocksKeep
<1>15. KeepsMany(p, r)
  BY <1>11, <1>14, KeepsManyOn
<1> QED
  BY <1>11, <1>12, <1>13, <1>15

\* A line is shown once it is in a block; a blank one is in none.
LEMMA ShownIsEven ==
  ASSUME NEW p \in Parsers, Even(p), NEW q \in Parsers, NEW line \in Written,
         IF line.kind = "blank" THEN KeepsMany(p, q) ELSE KeepsOneMore(p, q, line)
  PROVE  Even(Shown(q, line))
<1>1. PICK body : body = Append(q.body, line)
  OBVIOUS
<1>2. PICK r : r = [q EXCEPT !.body = body]
  OBVIOUS
<1>3. /\ r.body = body /\ r.blocks = q.blocks
      /\ r.paragraph = q.paragraph /\ r.caveat = q.caveat /\ r.conflict = q.conflict
  BY <1>2 DEF Parsers
<1>4. Shown(q, line) = r
  BY <1>1, <1>2 DEF Shown
<1> SUFFICES ASSUME NEW set \in SUBSET Written
             PROVE  Many(r.body, Spoken(set)) = ManyKept(r, set)
  BY <1>4 DEF Even
<1>5. ManyKept(r, set) = ManyKept(q, set)
  BY <1>3 DEF ManyKept
<1>6. q.body = p.body /\ p.body \in Seq(Written)
  BY DEF KeepsMany, KeepsOneMore, Parsers
<1>7. PICK spoken : spoken = Spoken(set)
  OBVIOUS
<1>8. Many(body, spoken) = Many(p.body, spoken) + One(line, spoken)
  BY <1>1, <1>6, ManyAppend
<1>9. Many(p.body, spoken) = ManyKept(p, set)
  BY <1>7 DEF Even
<1>10. Many(p.body, spoken) \in Nat
  BY ManyAreNat
<1>11. CASE line.kind = "blank"
  <2>1. One(line, spoken) = 0
    BY <1>7, <1>11 DEF One, Spoken
  <2>2. ManyKept(q, set) = ManyKept(p, set)
    BY <1>11 DEF KeepsMany
  <2> QED
    BY <1>3, <1>5, <1>7, <1>8, <1>9, <1>10, <2>1, <2>2
<1>12. CASE line.kind # "blank"
  <2>1. One(line, spoken) = One(line, set)
    BY <1>7, <1>12 DEF One, Spoken
  <2>2. ManyKept(q, set) = ManyKept(p, set) + One(line, set)
    BY <1>12 DEF KeepsOneMore
  <2> QED
    BY <1>3, <1>5, <1>7, <1>8, <1>9, <2>1, <2>2
<1> QED
  BY <1>11, <1>12

LEMMA ParagraphKeeps ==
  ASSUME NEW p \in Parsers, NEW line \in Written
  PROVE  KeepsOneMore(p, [p EXCEPT !.paragraph = Append(@, line)], line)
<1>1. PICK lines : lines = Append(p.paragraph, line)
  OBVIOUS
<1>2. PICK q : q = [p EXCEPT !.paragraph = lines]
  OBVIOUS
<1>3. /\ q.body = p.body /\ q.blocks = p.blocks
      /\ q.paragraph = lines /\ q.caveat = p.caveat /\ q.conflict = p.conflict
  BY <1>2 DEF Parsers
<1>4. ASSUME NEW set \in SUBSET Written
      PROVE  ManyKept(q, set) = ManyKept(p, set) + One(line, set)
  <2>1. Many(lines, set) = Many(p.paragraph, set) + One(line, set)
    BY <1>1, ManyAppend DEF Parsers
  <2>2. One(line, set) \in Nat
    BY DEF One
  <2> QED
    BY <1>3, <2>1, <2>2, ManyAreNat DEF ManyKept
<1> QED
  BY <1>1, <1>2, <1>3, <1>4 DEF KeepsOneMore

LEMMA CaveatKeeps ==
  ASSUME NEW p \in Parsers, NEW line \in Written
  PROVE  KeepsOneMore(p, [p EXCEPT !.caveat = Append(@, line)], line)
<1>1. PICK lines : lines = Append(p.caveat, line)
  OBVIOUS
<1>2. PICK q : q = [p EXCEPT !.caveat = lines]
  OBVIOUS
<1>3. /\ q.body = p.body /\ q.blocks = p.blocks
      /\ q.caveat = lines /\ q.paragraph = p.paragraph /\ q.conflict = p.conflict
  BY <1>2 DEF Parsers
<1>4. ASSUME NEW set \in SUBSET Written
      PROVE  ManyKept(q, set) = ManyKept(p, set) + One(line, set)
  <2>1. Many(lines, set) = Many(p.caveat, set) + One(line, set)
    BY <1>1, ManyAppend DEF Parsers
  <2>2. One(line, set) \in Nat
    BY DEF One
  <2> QED
    BY <1>3, <2>1, <2>2, ManyAreNat DEF ManyKept
<1> QED
  BY <1>1, <1>2, <1>3, <1>4 DEF KeepsOneMore

LEMMA ConflictKeeps ==
  ASSUME NEW p \in Parsers, NEW line \in Written
  PROVE  KeepsOneMore(p, [p EXCEPT !.conflict = Append(@, line)], line)
<1>1. PICK lines : lines = Append(p.conflict, line)
  OBVIOUS
<1>2. PICK q : q = [p EXCEPT !.conflict = lines]
  OBVIOUS
<1>3. /\ q.body = p.body /\ q.blocks = p.blocks
      /\ q.conflict = lines /\ q.paragraph = p.paragraph /\ q.caveat = p.caveat
  BY <1>2 DEF Parsers
<1>4. ASSUME NEW set \in SUBSET Written
      PROVE  ManyKept(q, set) = ManyKept(p, set) + One(line, set)
  <2>1. Many(lines, set) = Many(p.conflict, set) + One(line, set)
    BY <1>1, ManyAppend DEF Parsers
  <2>2. One(line, set) \in Nat
    BY DEF One
  <2> QED
    BY <1>3, <2>1, <2>2, ManyAreNat DEF ManyKept
<1> QED
  BY <1>1, <1>2, <1>3, <1>4 DEF KeepsOneMore

LEMMA BlockKeeps ==
  ASSUME NEW p \in Parsers, NEW line \in Written
  PROVE  KeepsOneMore(p, [p EXCEPT !.blocks = Append(@, Block(line.kind, <<line>>))], line)
<1>1. PICK block : block = Block(line.kind, <<line>>)
  OBVIOUS
<1>2. block \in Blocks /\ block.lines = <<line>>
  BY <1>1, OneLine, LineFields DEF Block, Blocks
<1>3. PICK blocks : blocks = Append(p.blocks, block)
  OBVIOUS
<1>4. PICK q : q = [p EXCEPT !.blocks = blocks]
  OBVIOUS
<1>5. /\ q.body = p.body /\ q.blocks = blocks
      /\ q.paragraph = p.paragraph /\ q.caveat = p.caveat /\ q.conflict = p.conflict
  BY <1>4 DEF Parsers
<1>6. ASSUME NEW set \in SUBSET Written
      PROVE  ManyKept(q, set) = ManyKept(p, set) + One(line, set)
  <2>1. ManyInBlocks(blocks, set) = ManyInBlocks(p.blocks, set) + Many(<<line>>, set)
    <3>1. p.blocks \in Seq(Blocks)
      BY DEF Parsers
    <3> QED
      BY <1>2, <1>3, <3>1, ManyBlocksAppend
  <2>2. Many(<<line>>, set) = One(line, set) /\ One(line, set) \in Nat
    <3>1. PICK none : none = <<>>
      OBVIOUS
    <3>2. none \in Seq(Written) /\ Append(none, line) = <<line>>
      BY <3>1
    <3>3. Many(<<line>>, set) = Many(none, set) + One(line, set)
      BY <3>2, ManyAppend
    <3>4. Many(none, set) = 0
      BY <3>1, ManyNone
    <3>5. One(line, set) \in Nat
      BY DEF One
    <3> QED
      BY <3>3, <3>4, <3>5
  <2> QED
    BY <1>5, <2>1, <2>2, ManyAreNat DEF ManyKept
<1> QED
  BY <1>1, <1>3, <1>4, <1>5, <1>6 DEF KeepsOneMore

LEMMA OpensKeep ==
  ASSUME NEW p \in Parsers, NEW line \in Written
  PROVE  /\ p.caveat = <<>> => KeepsOneMore(p, [p EXCEPT !.caveat = <<line>>], line)
         /\ p.conflict = <<>> => KeepsOneMore(p, [p EXCEPT !.conflict = <<line>>], line)
<1>1. PICK none : none = <<>>
  OBVIOUS
<1>2. Append(none, line) = <<line>>
  BY <1>1
<1>3. p.caveat = <<>> => [p EXCEPT !.caveat = <<line>>] = [p EXCEPT !.caveat = Append(@, line)]
  BY <1>1, <1>2
<1>4. p.conflict = <<>> => [p EXCEPT !.conflict = <<line>>] = [p EXCEPT !.conflict = Append(@, line)]
  BY <1>1, <1>2
<1> QED
  BY <1>3, <1>4, CaveatKeeps, ConflictKeeps

LEMMA HoistedKeeps ==
  ASSUME NEW p \in Parsers, NEW line \in Written
  PROVE  SameBlocks(p, Hoisted(p, line))
<1>1. PICK q : q = Hoisted(p, line)
  OBVIOUS
<1>2. PICK uncovered, suggested :
        uncovered = Append(p.uncovered, line) /\ suggested = WithKey(p.suggested, line.names)
  OBVIOUS
<1>3. \/ q = [p EXCEPT !.uncovered = uncovered]
      \/ q = [p EXCEPT !.question = line, !.collecting = TRUE]
      \/ q = [p EXCEPT !.cause = line]
      \/ q = [p EXCEPT !.device = line]
      \/ q = [p EXCEPT !.suggested = suggested]
      \/ q = p
  BY <1>1, <1>2 DEF Hoisted
<1>4. SameBlocks(p, q)
  BY <1>3 DEF SameBlocks, Parsers
<1> QED
  BY <1>1, <1>4

LEMMA ClassifiedIsEven ==
  ASSUME NEW p \in Parsers, Even(p), NEW line \in Written, line.kind # "blank"
  PROVE  Even(Classified(p, line))
<1>1. PICK f : f = Flushed(p)
  OBVIOUS
<1>2. KeepsMany(p, f) /\ f \in Parsers /\ f.caveat = <<>> /\ f.conflict = <<>>
  BY <1>1, FlushedIs, FlushedKeeps DEF Carries
<1>3. PICK q : q = Classified(p, line)
  OBVIOUS
<1>4. ASSUME NEW r \in Parsers, KeepsOneMore(f, r, line)
      PROVE  Even(Shown(r, line))
  <2>1. KeepsOneMore(p, r, line)
    BY <1>2, <1>4, KeepsManyOn
  <2> QED
    BY <2>1, ShownIsEven
<1>5. \/ q = Shown([f EXCEPT !.blocks = Append(@, Block(line.kind, <<line>>))], line)
      \/ q = Shown([f EXCEPT !.caveat = <<line>>], line)
      \/ q = Shown([f EXCEPT !.conflict = <<line>>], line)
      \/ q = Hoisted(f, line)
      \/ q = Shown([p EXCEPT !.paragraph = Append(@, line)], line)
  BY <1>1, <1>3 DEF Classified
<1>6. CASE q = Shown([f EXCEPT !.blocks = Append(@, Block(line.kind, <<line>>))], line)
  <2>1. PICK r : r = [f EXCEPT !.blocks = Append(@, Block(line.kind, <<line>>))]
    OBVIOUS
  <2>2. r \in Parsers
    BY <1>2, <2>1, BlockOpens DEF Carries
  <2>3. KeepsOneMore(f, r, line)
    BY <1>2, <2>1, BlockKeeps
  <2> QED
    BY <1>3, <1>4, <1>6, <2>1, <2>2, <2>3
<1>7. CASE q = Shown([f EXCEPT !.caveat = <<line>>], line)
  <2>1. PICK r : r = [f EXCEPT !.caveat = <<line>>]
    OBVIOUS
  <2>2. r \in Parsers
    BY <1>2, <2>1, CaveatOpens DEF Carries
  <2>3. KeepsOneMore(f, r, line)
    BY <1>2, <2>1, OpensKeep
  <2> QED
    BY <1>3, <1>4, <1>7, <2>1, <2>2, <2>3
<1>8. CASE q = Shown([f EXCEPT !.conflict = <<line>>], line)
  <2>1. PICK r : r = [f EXCEPT !.conflict = <<line>>]
    OBVIOUS
  <2>2. r \in Parsers
    BY <1>2, <2>1, ConflictOpens DEF Carries
  <2>3. KeepsOneMore(f, r, line)
    BY <1>2, <2>1, OpensKeep
  <2> QED
    BY <1>3, <1>4, <1>8, <2>1, <2>2, <2>3
<1>9. CASE q = Hoisted(f, line)
  <2>1. KeepsMany(f, q)
    BY <1>2, <1>9, HoistedKeeps, SameBlocksKeep
  <2>2. KeepsMany(p, q)
    BY <1>2, <2>1, KeepsManyOn
  <2> QED
    BY <1>3, <2>2, EvenStays
<1>10. CASE q = Shown([p EXCEPT !.paragraph = Append(@, line)], line)
  <2>1. PICK r : r = [p EXCEPT !.paragraph = Append(@, line)]
    OBVIOUS
  <2>2. r \in Parsers
    BY <2>1, LongerParagraph DEF Carries
  <2>3. KeepsOneMore(p, r, line)
    BY <2>1, ParagraphKeeps
  <2> QED
    BY <1>3, <1>10, <2>1, <2>2, <2>3, ShownIsEven
<1> QED
  BY <1>5, <1>6, <1>7, <1>8, <1>9, <1>10

LEMMA BodyLineIsEven ==
  ASSUME NEW p \in Parsers, Even(p), NEW line \in Written
  PROVE  Even(BodyLine(p, line))
<1>1. PICK f : f = Flushed(p)
  OBVIOUS
<1>2. KeepsMany(p, f) /\ f \in Parsers
  BY <1>1, FlushedIs, FlushedKeeps DEF Carries
<1>3. PICK q : q = IF p.conflict # <<>> /\ line.kind # "bullet" THEN f ELSE p
  OBVIOUS
<1>4. KeepsMany(p, q) /\ q \in Parsers /\ Even(q)
  <2>1. KeepsMany(p, p)
    BY DEF KeepsMany
  <2> QED
    BY <1>2, <1>3, <2>1, EvenStays
<1>5. PICK r : r = BodyLine(p, line)
  OBVIOUS
<1>6. \/ line.kind = "blank" /\ r = Shown(f, line)
      \/ line.kind = "bullet" /\ r = Shown([p EXCEPT !.conflict = Append(@, line)], line)
      \/ r = [q EXCEPT !.candidates = Append(@, line)]
      \/ r = CauseClosed(q, line)
      \/ line.kind = "indented" /\ r = Shown([q EXCEPT !.caveat = Append(@, line)], line)
      \/ line.kind # "blank" /\ r = Classified(q, line)
  BY <1>1, <1>3, <1>5 DEF BodyLine
<1>7. CASE line.kind = "blank" /\ r = Shown(f, line)
  BY <1>2, <1>5, <1>7, ShownIsEven
<1>8. CASE line.kind = "bullet" /\ r = Shown([p EXCEPT !.conflict = Append(@, line)], line)
  <2>1. PICK c : c = [p EXCEPT !.conflict = Append(@, line)]
    OBVIOUS
  <2>2. c \in Parsers /\ KeepsOneMore(p, c, line)
    BY <2>1, LongerConflict, ConflictKeeps DEF Carries
  <2> QED
    BY <1>5, <1>8, <2>1, <2>2, ShownIsEven
<1>9. CASE r = [q EXCEPT !.candidates = Append(@, line)]
  <2>1. PICK candidates : candidates = Append(q.candidates, line)
    OBVIOUS
  <2>2. r = [q EXCEPT !.candidates = candidates]
    BY <1>9, <2>1
  <2>3. SameBlocks(q, r)
    BY <1>4, <2>2 DEF SameBlocks, Parsers
  <2> QED
    BY <1>4, <1>5, <2>3, SameBlocksKeep, EvenStays
<1>10. CASE r = CauseClosed(q, line)
  BY <1>4, <1>5, <1>10, CauseClosedKeeps, SameBlocksKeep, EvenStays
<1>11. CASE line.kind = "indented" /\ r = Shown([q EXCEPT !.caveat = Append(@, line)], line)
  <2>1. PICK c : c = [q EXCEPT !.caveat = Append(@, line)]
    OBVIOUS
  <2>2. c \in Parsers /\ KeepsOneMore(q, c, line)
    BY <1>4, <2>1, LongerCaveat, CaveatKeeps DEF Carries
  <2> QED
    BY <1>4, <1>5, <1>11, <2>1, <2>2, ShownIsEven
<1>12. CASE line.kind # "blank" /\ r = Classified(q, line)
  BY <1>4, <1>5, <1>12, ClassifiedIsEven
<1> QED
  BY <1>6, <1>7, <1>8, <1>9, <1>10, <1>11, <1>12

\* Nothing is shown before the framing's header is read.
Quiet(p) == p.count = 0 \/ (p.hoisting /\ p.count < 2) => p.body = <<>>

Measured(p) == Even(p) /\ Quiet(p)

LEMMA BufferMeasured ==
  ASSUME NEW p \in Parsers, Measured(p), NEW buffer
  PROVE  Measured([p EXCEPT !.buffer = buffer])
<1>1. PICK q : q = [p EXCEPT !.buffer = buffer]
  OBVIOUS
<1>2. SameBlocks(p, q) /\ q.count = p.count /\ q.hoisting = p.hoisting
  BY <1>1 DEF SameBlocks, Parsers
<1>3. Even(q)
  BY <1>2, SameBlocksKeep, EvenStays DEF Measured
<1>4. Quiet(q)
  BY <1>2 DEF Measured, Quiet, SameBlocks
<1> QED
  BY <1>1, <1>3, <1>4 DEF Measured

LEMMA LineMeasured ==
  ASSUME NEW p, Readable(p), Measured(p), NEW line \in Written
  PROVE  Measured(Line(p, line))
<1>1. p \in Parsers /\ p.count \in Nat /\ p.hoisting \in BOOLEAN /\ Even(p)
  BY DEF Readable, Parsers, Measured
<1>2. PICK n \in Nat : n = p.count + 1
  BY <1>1
<1>3. PICK q : q = [p EXCEPT !.count = n]
  OBVIOUS
<1>4. q \in Parsers /\ q.count = n /\ q.hoisting = p.hoisting /\ SameBlocks(p, q)
  BY <1>1, <1>3 DEF Parsers, SameBlocks
<1>5. Even(q)
  BY <1>1, <1>4, SameBlocksKeep, EvenStays
<1>6. line \in AnyLine /\ NoLine \in AnyLine
  BY DEF AnyLine
<1>7. PICK r : r = Line(p, line)
  OBVIOUS
<1>8. q = [p EXCEPT !.count = @ + 1]
  BY <1>2, <1>3
<1>9. ASSUME NEW b \in Parsers
      PROVE  LET s == BodyLine(b, line) IN s.count = b.count /\ s.hoisting = b.hoisting
  BY BodyLineIs DEF Reads, SameHeader
<1>10. CASE n = 1
  <2>1. PICK hoisting : hoisting = (line.kind \in ContentOutcomes) /\ hoisting \in BOOLEAN
    <3>1. (line.kind \in ContentOutcomes) \in BOOLEAN
      OBVIOUS
    <3> QED
      BY <3>1, Zenon
  <2>2. PICK named : named = [q EXCEPT !.one = line, !.hoisting = hoisting]
    OBVIOUS
  <2>3. r = IF named.hoisting THEN named ELSE BodyLine(named, line)
    BY <1>4, <1>7, <1>8, <1>10, <2>1, <2>2 DEF Line
  <2>4. named \in Parsers /\ named.count = 1 /\ SameBlocks(q, named)
    BY <1>4, <1>6, <1>10, <2>1, <2>2 DEF Parsers, SameBlocks
  <2>5. Even(named)
    BY <1>5, <2>4, SameBlocksKeep, EvenStays
  <2>6. Even(r)
    BY <2>3, <2>4, <2>5, BodyLineIsEven
  <2>7. Quiet(r)
    <3>1. named.body = <<>>
      <4>1. p.count = 0
        BY <1>1, <1>2, <1>10
      <4>2. p.body = <<>>
        BY <4>1 DEF Measured, Quiet
      <4> QED
        BY <1>4, <2>4, <4>2 DEF SameBlocks
    <3>2. CASE named.hoisting
      BY <2>3, <3>1, <3>2 DEF Quiet
    <3>3. CASE ~named.hoisting
      <4>1. r.count = 1 /\ ~r.hoisting
        BY <1>9, <2>3, <2>4, <3>3
      <4> QED
        BY <4>1 DEF Quiet
    <3> QED
      BY <3>2, <3>3
  <2> QED
    BY <1>7, <2>6, <2>7 DEF Measured
<1>11. CASE n # 1
  <2>1. PICK answer \in AnyLine : answer = IF line.kind = "blank" THEN NoLine ELSE line
    BY <1>6
  <2>2. \/ r = [q EXCEPT !.answer = answer]
        \/ r = q
        \/ r = BodyLine(q, line)
    BY <1>4, <1>7, <1>8, <1>11, <2>1 DEF Line
  <2>3. Even(r) /\ r.count = n
    <3>1. CASE r = [q EXCEPT !.answer = answer]
      <4>1. SameBlocks(q, r) /\ r.count = n
        BY <1>4, <3>1 DEF SameBlocks, Parsers
      <4> QED
        BY <1>5, <4>1, SameBlocksKeep, EvenStays
    <3>2. CASE r = q
      BY <1>4, <1>5, <3>2
    <3>3. CASE r = BodyLine(q, line)
      BY <1>4, <1>5, <1>9, <3>3, BodyLineIsEven
    <3> QED
      BY <2>2, <3>1, <3>2, <3>3
  <2>4. Quiet(r)
    BY <1>1, <1>2, <1>11, <2>3 DEF Quiet
  <2> QED
    BY <1>7, <2>3, <2>4 DEF Measured
<1> QED
  BY <1>10, <1>11

LEMMA FedEndMeasured ==
  ASSUME NEW p, Readable(p), Measured(p), p.buffer # <<>>
  PROVE  Measured(FedEnd(p))
<1>1. p.buffer \in Seq(Written) /\ p \in Parsers
  BY DEF Readable, Parsers
<1>2. PICK line \in Written : line = p.buffer[1]
  BY <1>1
<1>3. PICK q : q = [p EXCEPT !.buffer = <<>>]
  OBVIOUS
<1>4. <<>> \in Seq(Written)
  OBVIOUS
<1>5. Readable(q)
  BY <1>3, <1>4, BufferIs DEF Follows
<1>6. Measured(q)
  BY <1>1, <1>3, BufferMeasured
<1>7. FedEnd(p) = Line(q, line)
  BY <1>2, <1>3 DEF FedEnd
<1> QED
  BY <1>5, <1>6, <1>7, LineMeasured

\* When the parser is closed the closed blocks hold what was shown.
LEMMA ClosedMeasured ==
  ASSUME NEW p, Readable(p), Measured(p)
  PROVE  LET r == Closed(p) IN
         /\ Quiet(r)
         /\ \A set \in SUBSET Written : Many(r.body, Spoken(set)) = ManyInBlocks(r.blocks, set)
<1>1. PICK q : q = IF p.buffer = <<>> THEN p ELSE FedEnd(p)
  OBVIOUS
<1>2. Readable(q) /\ q \in Parsers /\ Measured(q)
  BY <1>1, FedEndIs, FedEndMeasured DEF Follows, Readable
<1>3. PICK r : r = Flushed(q)
  OBVIOUS
<1>4. /\ Carries(q, r) /\ KeepsMany(q, r)
      /\ r.paragraph = <<>> /\ r.caveat = <<>> /\ r.conflict = <<>>
  BY <1>2, <1>3, FlushedIs, FlushedKeeps
<1>5. r \in Parsers /\ r.count = q.count /\ r.hoisting = q.hoisting /\ r.body = q.body
  BY <1>4 DEF Carries, SameHeader
<1>6. Quiet(r)
  BY <1>2, <1>5 DEF Measured, Quiet
<1>7. Even(r)
  BY <1>2, <1>4, EvenStays DEF Measured
<1>8. ASSUME NEW set \in SUBSET Written
      PROVE  Many(r.body, Spoken(set)) = ManyInBlocks(r.blocks, set)
  <2>1. ManyInBlocks(r.blocks, set) \in Nat
    BY <1>5, ManyAreNat
  <2>2. Many(<<>>, set) = 0
    BY ManyNone
  <2>3. ManyKept(r, set) = ManyInBlocks(r.blocks, set) + 0 + 0 + 0
    BY <1>4, <2>2 DEF ManyKept
  <2>4. Many(r.body, Spoken(set)) = ManyKept(r, set)
    BY <1>7 DEF Even
  <2> QED
    BY <2>1, <2>3, <2>4
<1>9. Closed(p) = r
  BY <1>1, <1>3 DEF Closed
<1> QED
  BY <1>6, <1>8, <1>9

LEMMA NewParserMeasured == Measured(NewParser)
<1>1. PICK p : p = NewParser
  OBVIOUS
<1>2. /\ p.body = <<>> /\ p.blocks = <<>> /\ p.paragraph = <<>> /\ p.caveat = <<>> /\ p.conflict = <<>>
  BY <1>1 DEF NewParser
<1>3. Quiet(p)
  BY <1>2 DEF Quiet
<1>4. Even(p)
  <2> SUFFICES ASSUME NEW set \in SUBSET Written
               PROVE  Many(p.body, Spoken(set)) = ManyKept(p, set)
    BY DEF Even
  <2>1. Many(<<>>, set) = 0 /\ ManyInBlocks(<<>>, set) = 0 /\ Many(<<>>, Spoken(set)) = 0
    BY ManyNone
  <2>2. ManyKept(p, set) = 0 + 0 + 0 + 0
    BY <1>2, <2>1 DEF ManyKept
  <2> QED
    BY <1>2, <2>1, <2>2
<1> QED
  BY <1>1, <1>3, <1>4 DEF Measured

-----------------------------------------------------------------------------
(* What is sent is what is grounded.                                       *)

LEMMA CleanKind ==
  ASSUME NEW line \in Written, NEW set
  PROVE  Clean(line, set).kind = line.kind
<1>1. line \in Shapes
  BY LinesAssumption
<1>2. PICK bare : bare = [line EXCEPT !.mark = NoMark]
  OBVIOUS
<1>3. bare.kind = line.kind
  BY <1>1, <1>2 DEF Shapes
<1> QED
  BY <1>2, <1>3 DEF Clean

\* Counting cleaned lines is counting the lines that are cleaned to them.
LEMMA TimesAre ==
  ASSUME NEW p \in Parsers,
         \A set \in SUBSET Written : Many(p.body, Spoken(set)) = ManyInBlocks(p.blocks, set),
         NEW l \in Written, NEW line, line = Clean(l, supplied)
  PROVE  TimesInBlocks(p.blocks, line)
           = IF line.kind = "blank" THEN 0 ELSE Times(CleanLines(p.body, supplied), line)
<1>1. PICK set : set = {w \in Written : Clean(w, supplied) = line}
  OBVIOUS
<1>2. set \in SUBSET Written
  BY <1>1
<1>3. Many(p.body, Spoken(set)) = ManyInBlocks(p.blocks, set)
  BY <1>2
<1>4. \A w \in set : w.kind = line.kind
  BY <1>1, CleanKind
<1>5. TimesInBlocks(p.blocks, line) = ManyInBlocks(p.blocks, set)
  <2>1. PICK blocks : blocks = p.blocks
    OBVIOUS
  <2>2. blocks \in Seq(Blocks)
    BY <2>1 DEF Parsers
  <2>3. ASSUME NEW i \in DOMAIN blocks
        PROVE  {k \in DOMAIN blocks[i].lines : Clean(blocks[i].lines[k], supplied) = line}
                 = Spots(blocks[i].lines, set)
    <3>1. blocks[i] \in Blocks
      BY <2>2
    <3>2. PICK lines : lines = blocks[i].lines
      OBVIOUS
    <3>3. lines \in Seq(Written)
      BY <3>1, <3>2 DEF Blocks
    <3>4. \A k \in DOMAIN lines : lines[k] \in Written
      BY <3>3
    <3> QED
      BY <1>1, <3>2, <3>4 DEF Spots
  <2>4. UNION {{i} \X {k \in DOMAIN blocks[i].lines : Clean(blocks[i].lines[k], supplied) = line} :
                 i \in DOMAIN blocks}
          = BlockSpots(blocks, set)
    BY <2>3 DEF BlockSpots
  <2>5. TimesInBlocks(blocks, line) = ManyInBlocks(blocks, set)
    BY <2>4 DEF TimesInBlocks, ManyInBlocks
  <2> QED
    BY <2>1, <2>5
<1>6. Times(CleanLines(p.body, supplied), line) = Many(p.body, set)
  <2>1. PICK body : body = p.body
    OBVIOUS
  <2>2. body \in Seq(Written)
    BY <2>1 DEF Parsers
  <2>3. \A i \in DOMAIN body : body[i] \in Written
    BY <2>2
  <2>4. PICK clean : clean = CleanLines(body, supplied)
    OBVIOUS
  <2>5. DOMAIN clean = DOMAIN body /\ \A i \in DOMAIN body : clean[i] = Clean(body[i], supplied)
    BY <2>4 DEF CleanLines
  <2>6. {i \in DOMAIN clean : clean[i] = line} = Spots(body, set)
    BY <1>1, <2>3, <2>5 DEF Spots
  <2> QED
    BY <2>1, <2>4, <2>6 DEF Times, Many
<1>7. CASE line.kind = "blank"
  <2>1. Spoken(set) = {}
    BY <1>4, <1>7 DEF Spoken
  <2>2. Spots(p.body, {}) = {}
    BY DEF Spots
  <2>3. Many(p.body, {}) = 0
    BY <2>2, FS_EmptySet DEF Many
  <2> QED
    BY <1>3, <1>5, <1>7, <2>1, <2>3
<1>8. CASE line.kind # "blank"
  <2>1. Spoken(set) = set
    BY <1>4, <1>8 DEF Spoken
  <2> QED
    BY <1>3, <1>5, <1>6, <1>8, <2>1
<1> QED
  BY <1>7, <1>8

\* At the end the reader has been sent all that was shown.
LEMMA AllIsSent ==
  ASSUME NEW p, Readable(p), Quiet(p), NEW s, Said(p, s), NEW covered \in BOOLEAN
  PROVE  SentInAll(p, ResultOutcome(p, covered), Drained(p, s)).body = CleanLines(p.body, supplied)
<1>1. PICK outcome : outcome = ResultOutcome(p, covered)
  OBVIOUS
<1>2. PICK d : d = Drained(p, s)
  OBVIOUS
<1>3. /\ Said(p, d)
      /\ ~p.hoisting => d.outcomes = <<>>
      /\ p.hoisting => d.outcomes = <<p.one.kind>>
      /\ p.hoisting /\ p.count >= 2 => d.answers = <<AnswerOf(p)>>
      /\ p.hoisting => d.body = <<>> \/ d.body = CleanLines(p.body, supplied)
  BY <1>2, DrainedIs
<1>4. p.count \in Nat
  BY DEF Readable, Parsers
<1>5. CASE ~p.hoisting
  <2>1. d.outcomes = <<>>
    BY <1>3, <1>5
  <2>2. PICK body : body = CleanLines(p.body, supplied)
    OBVIOUS
  <2>3. PICK answers : answers = IF ResultAnswer(p) = NoLine THEN <<>> ELSE <<Clean(ResultAnswer(p), supplied)>>
    OBVIOUS
  <2>4. SentInAll(p, outcome, d) = [outcomes |-> <<outcome>>, answers |-> answers, body |-> body]
    BY <2>1, <2>2, <2>3 DEF SentInAll
  <2>5. PICK all : all = SentInAll(p, outcome, d)
    OBVIOUS
  <2>6. all.body = body
    BY <2>4, <2>5
  <2> QED
    BY <1>1, <1>2, <2>2, <2>5, <2>6
<1>6. CASE p.hoisting /\ p.count >= 2
  <2>1. d.outcomes # <<>> /\ d.answers # <<>>
    <3>1. PICK kind, answer : kind = p.one.kind /\ answer = AnswerOf(p)
      OBVIOUS
    <3>2. d.outcomes = <<kind>> /\ d.answers = <<answer>>
      BY <1>3, <1>6, <3>1
    <3> QED
      BY <3>2
  <2>2. SentInAll(p, outcome, d) = d
    BY <2>1 DEF SentInAll
  <2>3. PICK outcomes : outcomes = IF s.outcomes = <<>> THEN <<p.one.kind>> ELSE s.outcomes
    OBVIOUS
  <2>4. PICK answers : answers = IF s.answers = <<>> /\ p.count >= 2 THEN <<AnswerOf(p)>> ELSE s.answers
    OBVIOUS
  <2>5. PICK body : body = IF answers = <<>> THEN s.body ELSE CleanLines(p.body, supplied)
    OBVIOUS
  <2>6. d = [outcomes |-> outcomes, answers |-> answers, body |-> body]
    BY <1>2, <1>6, <2>3, <2>4, <2>5 DEF Drained, AnswerOf
  <2>7. answers # <<>>
    BY <1>6, <2>4
  <2>8. d.body = body
    BY <2>6
  <2> QED
    BY <1>1, <1>2, <2>2, <2>5, <2>7, <2>8
<1>7. CASE p.hoisting /\ ~(p.count >= 2)
  <2>1. p.body = <<>>
    BY <1>4, <1>7 DEF Quiet
  <2>2. CleanLines(p.body, supplied) = <<>>
    BY <2>1 DEF CleanLines
  <2>3. SentInAll(p, outcome, d).body \in {<<>>, CleanLines(p.body, supplied)}
    BY <1>1, <1>3, SentInAllIs
  <2> QED
    BY <1>1, <1>2, <2>2, <2>3
<1> QED
  BY <1>5, <1>6, <1>7

LEMMA StreamedNext ==
  ASSUME NEW blocks, NEW body, parser'.blocks = blocks, sent'.body = body, supplied' = supplied,
         \A line \in {Clean(l, supplied) : l \in Written} \cup ToSet(body) :
           TimesInBlocks(blocks, line) = IF line.kind = "blank" THEN 0 ELSE Times(body, line)
  PROVE  BodyIsStreamed'
BY DEF BodyIsStreamed, TimesInBlocks, Times, Clean

LEMMA FinishStreams ==
  ASSUME IInv, Measured(parser), Finish
  PROVE  BodyIsStreamed'
<1>1. PICK p : p = Closed(parser)
  OBVIOUS
<1>2. PICK covered \in BOOLEAN : covered = (supplied # {})
  OBVIOUS
<1>3. /\ stage = "streaming" /\ parser' = p /\ supplied' = supplied
      /\ sent' = SentInAll(p, ResultOutcome(p, covered), Drained(p, sent))
  BY <1>1, <1>2 DEF Finish
<1>4. Readable(parser) /\ Said(parser, sent)
  BY <1>3 DEF IInv, TurnInv, Underway
<1>5. Readable(p) /\ p \in Parsers /\ Said(p, sent)
  BY <1>1, <1>4, ClosedIs, SaidStays DEF Follows, Readable
<1>6. /\ Quiet(p)
      /\ \A set \in SUBSET Written : Many(p.body, Spoken(set)) = ManyInBlocks(p.blocks, set)
  BY <1>1, <1>4, ClosedMeasured
<1>7. PICK body : body = CleanLines(p.body, supplied)
  OBVIOUS
<1>8. sent'.body = body
  BY <1>3, <1>5, <1>6, <1>7, AllIsSent
<1>9. \A line \in ToSet(body) : line \in {Clean(l, supplied) : l \in Written}
  <2>1. p.body \in Seq(Written)
    BY <1>5 DEF Parsers
  <2>2. \A i \in DOMAIN p.body : p.body[i] \in Written
    BY <2>1
  <2>3. DOMAIN body = DOMAIN p.body /\ \A i \in DOMAIN p.body : body[i] = Clean(p.body[i], supplied)
    BY <1>7 DEF CleanLines
  <2> QED
    BY <2>2, <2>3 DEF ToSet
<1>10. ASSUME NEW l \in Written, NEW line, line = Clean(l, supplied)
       PROVE  TimesInBlocks(p.blocks, line) = IF line.kind = "blank" THEN 0 ELSE Times(body, line)
  BY <1>5, <1>6, <1>7, <1>10, TimesAre
<1>11. \A line \in {Clean(l, supplied) : l \in Written} \cup ToSet(body) :
         TimesInBlocks(p.blocks, line) = IF line.kind = "blank" THEN 0 ELSE Times(body, line)
  BY <1>9, <1>10
<1>12. PICK blocks : blocks = p.blocks
  OBVIOUS
<1> QED
  BY <1>3, <1>8, <1>11, <1>12, StreamedNext

StreamInv == (stage # "over" => Measured(parser)) /\ BodyIsStreamed

LEMMA FeedStreams ==
  ASSUME NEW p, NEW ends, Feed(p, ends), stage = "streaming" => Measured(p), envelope = None
  PROVE  StreamInv'
BY DEF Feed, StreamInv, BodyIsStreamed, Complete

LEMMA StreamsNext ==
  ASSUME IInv, StreamInv, [Next]_vars
  PROVE  StreamInv'
<1>1. stage # "over" => Readable(parser) /\ envelope = None /\ Measured(parser)
  BY DEF IInv, TurnInv, Underway, StreamInv
<1>2. stage = "streaming" => stage # "over"
  OBVIOUS
<1>3. ASSUME stage # "over", UNCHANGED <<parser, envelope>>
      PROVE  StreamInv'
  BY <1>1, <1>3 DEF StreamInv, BodyIsStreamed, Complete
<1>4. ASSUME stage = "streaming", NEW line \in Written, parser.buffer = <<>>
      PROVE  Measured(FedText(parser, line)) /\ Measured(FedEnd(FedText(parser, line)))
  <2>1. PICK text : text = FedText(parser, line)
    OBVIOUS
  <2>2. Readable(text) /\ text.buffer = <<line>>
    BY <1>1, <1>4, <2>1, FedTextIs DEF Follows
  <2>3. Measured(text)
    BY <1>1, <1>4, <2>1, BufferMeasured DEF FedText, Readable
  <2>4. text.buffer # <<>>
    BY <2>2
  <2> QED
    BY <2>1, <2>2, <2>3, <2>4, FedEndMeasured
<1>5. ASSUME NEW line \in Written, WriteLine(line)
      PROVE  StreamInv'
  <2>1. stage = "streaming" /\ parser.buffer = <<>>
    BY <1>5 DEF WriteLine, Feed
  <2>2. CASE Feed(FedText(parser, line), TRUE)
    BY <1>1, <1>4, <2>1, <2>2, FeedStreams
  <2>3. ASSUME NEW ends \in BOOLEAN, Feed(FedEnd(FedText(parser, line)), ends)
        PROVE  StreamInv'
    BY <1>1, <1>4, <2>1, <2>3, FeedStreams
  <2> QED
    BY <1>5, <2>2, <2>3 DEF WriteLine
<1>6. ASSUME EndLine
      PROVE  StreamInv'
  <2>1. PICK ends \in BOOLEAN : Feed(FedEnd(parser), ends)
    BY <1>6 DEF EndLine
  <2>2. stage = "streaming" /\ parser.buffer # <<>>
    BY <1>6, <2>1 DEF EndLine, Feed
  <2>3. Measured(FedEnd(parser))
    BY <1>1, <2>2, FedEndMeasured
  <2> QED
    BY <1>1, <2>1, <2>2, <2>3, FeedStreams
<1>7. CASE RetrieveAndExpand
  BY <1>3, <1>7 DEF RetrieveAndExpand
<1>8. CASE Assemble
  BY <1>3, <1>8 DEF Assemble
<1>9. CASE Retry
  BY <1>3, <1>9 DEF Retry, LimitsRate
<1>10. ASSUME NEW stated \in {"short", "long", "absent"}, RateLimited(stated) PROVE StreamInv'
  BY <1>3, <1>10 DEF RateLimited, LimitsRate, EndWith
<1>11. ASSUME NEW failure \in {"unreachable", "auth", "error"}, Fail(failure) PROVE StreamInv'
  BY <1>3, <1>11 DEF Fail, EndWith
<1>12. CASE Watchdog
  BY <1>3, <1>12 DEF Watchdog, EndWith
<1>13. CASE Finish
  <2>1. stage = "streaming" /\ stage' = "over"
    BY <1>13 DEF Finish
  <2>2. BodyIsStreamed'
    BY <1>1, <1>13, <2>1, FinishStreams
  <2> QED
    BY <2>1, <2>2 DEF StreamInv
<1>14. CASE UNCHANGED vars
  <2>1. UNCHANGED <<stage, supplied, parser, sent, envelope>>
    BY <1>14 DEF vars
  <2> QED
    BY <2>1 DEF StreamInv, BodyIsStreamed, Complete, TimesInBlocks, Times, Clean
<1>15. ASSUME NEW line \in Offered, WriteLine(line) PROVE StreamInv'
  BY <1>5, <1>15 DEF Offered, Written
<1> QED
  BY <1>6, <1>7, <1>8, <1>9, <1>10, <1>11, <1>12, <1>13, <1>14, <1>15 DEF Next

\* What the reader was sent is what is grounded: when a turn is finished every
\* line that is not blank stands in the blocks as often as it was sent, and the
\* blocks hold nothing else, however the answer was cut and whichever blocks
\* were open when (parse.py:139-143).
THEOREM WhatIsSentIsGrounded == Spec => []BodyIsStreamed
<1>1. Init => StreamInv
  <2> SUFFICES ASSUME Init PROVE StreamInv
    OBVIOUS
  <2>1. parser = NewParser /\ ~Complete
    BY DEF Init, Complete
  <2> QED
    BY <2>1, NewParserMeasured DEF StreamInv, BodyIsStreamed
<1>2. IInv /\ StreamInv /\ [Next]_vars => StreamInv'
  BY StreamsNext
<1>3. StreamInv => BodyIsStreamed
  BY DEF StreamInv
<1> QED
  BY <1>1, <1>2, <1>3, TurnKeeps, PTL DEF Spec

=============================================================================
