----------------------------- MODULE ListsProofs -----------------------------
(***************************************************************************)
(* Facts about lists, their folds and their concatenations that the proofs  *)
(* about the components share.  No induction principle of the library can   *)
(* be instantiated; what holds along a list is proved from the least place   *)
(* at which it would fail (LeastNumber, Chained), and a recursive function   *)
(* or a fold is unfolded into its values before that (RecursionExists,      *)
(* FoldExists, ConcatsExist).                                               *)
(***************************************************************************)
EXTENDS Lists, SequenceTheorems, FiniteSetTheorems, WellFoundedInduction, TLAPS

-----------------------------------------------------------------------------
(* Numbers and folds.                                                      *)

\* A set of numbers that is not empty has a least one.
LEMMA LeastNumber ==
  ASSUME NEW S \in SUBSET Nat, S # {}
  PROVE  \E n \in S : \A m \in S : n <= m
<1> DEFINE R == OpToRel(<, Nat)
<1>1. PICK n \in S : \A m \in S : ~(<<m, n>> \in R)
  <2>1. IsWellFoundedOn(R, Nat)
    BY NatLessThanWellFounded
  <2> HIDE DEF R
  <2>2. \E n \in S : \A m \in S : ~(<<m, n>> \in R)
    BY ONLY <2>1, WFMin, S \in SUBSET Nat, S # {}
  <2> QED
    BY <2>2
<1>2. \A m \in S : ~(m < n)
  BY <1>1 DEF OpToRel
<1> QED
  BY <1>2

\* What holds first and from one step to the next holds throughout.
LEMMA Chained ==
  ASSUME NEW n \in Nat, NEW h, NEW T, h[0] \in T,
         \A k \in 1..n : h[k - 1] \in T => h[k] \in T
  PROVE  \A k \in 0..n : h[k] \in T
<1> DEFINE Bad == {k \in 0..n : h[k] \notin T}
<1>1. SUFFICES ASSUME Bad # {} PROVE FALSE
  OBVIOUS
<1>2. PICK k \in Bad : \A j \in Bad : k <= j
  <2>1. Bad \in SUBSET Nat
    OBVIOUS
  <2> HIDE DEF Bad
  <2> QED
    BY <1>1, <2>1, LeastNumber
<1>3. k \in 1..n /\ k - 1 \in 0..n /\ k - 1 \notin Bad
  BY <1>2
<1> QED
  BY <1>2, <1>3

\* Folded(f, n, V, base, G): f gives the fold of any places up to n, last first.
Folded(f, n, V, base, G) ==
  /\ f \in [SUBSET (1..n) -> V]
  /\ \A S \in SUBSET (1..n) :
       IF S = {} THEN f[S] = base
       ELSE /\ Max(S) \in 1..n /\ S \ {Max(S)} \in SUBSET (1..n)
            /\ f[S] = G[<<Max(S), f[S \ {Max(S)}]>>]

LEMMA LastPlace ==
  ASSUME NEW n \in Nat, NEW S \in SUBSET (1..n), n \in S
  PROVE  Max(S) = n
<1>1. \A x \in S : x \in Int /\ n >= x
  OBVIOUS
<1>2. \A x \in S : (\A y \in S : x >= y) => x = n
  BY <1>1
<1>3. Max(S) \in S /\ \A y \in S : Max(S) >= y
  BY <1>1 DEF Max
<1> QED
  BY <1>2, <1>3

LEMMA MaxIn ==
  ASSUME NEW n \in Nat, NEW S \in SUBSET (1..n), S # {}
  PROVE  Max(S) \in S
<1> DEFINE Bounds == {m \in Nat : \A x \in S : m >= x}
<1>1. n \in Bounds /\ Bounds \in SUBSET Nat
  OBVIOUS
<1>2. PICK m \in Bounds : \A k \in Bounds : m <= k
  <2> HIDE DEF Bounds
  <2> QED
    BY <1>1, LeastNumber
<1>3. m # 0
  <2>1. PICK x \in S : x \in 1..n /\ m >= x
    OBVIOUS
  <2> QED
    BY <2>1
<1>4. m - 1 \in Nat /\ m - 1 \notin Bounds
  BY <1>2, <1>3
<1>5. PICK x \in S : ~(m - 1 >= x)
  BY <1>4
<1>6. x = m
  BY <1>5
<1> QED
  BY <1>6 DEF Max

LEMMA FoldExists ==
  ASSUME NEW n \in Nat, NEW V, NEW base \in V, NEW G \in [(1..n) \X V -> V]
  PROVE  \E f : Folded(f, n, V, base, G)
<1> DEFINE Has(m) == \E f : Folded(f, m, V, base, G)
           Bad == {m \in 0..n : ~Has(m)}
<1>1. SUFFICES Has(n)
  OBVIOUS
<1> HIDE DEF Has
<1>2. SUFFICES ASSUME Bad # {} PROVE FALSE
  <2>1. n \in 0..n
    OBVIOUS
  <2> QED
    BY <2>1
<1>3. PICK m \in Bad : \A k \in Bad : m <= k
  <2>1. Bad \in SUBSET Nat
    OBVIOUS
  <2> HIDE DEF Bad
  <2> QED
    BY <1>2, <2>1, LeastNumber
<1>4. CASE m = 0
  <2>1. PICK f : f = [S \in SUBSET (1..0) |-> base]
    OBVIOUS
  <2>2. \A S \in SUBSET (1..0) : S = {}
    OBVIOUS
  <2>3. Folded(f, 0, V, base, G)
    BY <2>1, <2>2 DEF Folded
  <2> QED
    BY <1>3, <1>4, <2>3 DEF Has
<1>5. CASE m # 0
  <2>1. m \in Nat /\ m - 1 \in 0..n /\ m \in 1..n /\ m - 1 \notin Bad
    BY <1>3, <1>5
  <2>2. PICK f : Folded(f, m - 1, V, base, G)
    BY <2>1 DEF Has
  <2>3. \A S \in SUBSET (1..m) : S \ {m} \in SUBSET (1..(m - 1))
    BY <2>1
  <2>4. PICK g : g = [S \in SUBSET (1..m) |-> IF m \in S THEN G[<<m, f[S \ {m}]>>] ELSE f[S]]
    OBVIOUS
  <2>5. ASSUME NEW S \in SUBSET (1..m), m \in S
        PROVE  g[S] \in V /\ Max(S) = m /\ g[S] = G[<<m, g[S \ {m}]>>]
    <3>1. Max(S) = m
      BY <2>1, <2>5, LastPlace
    <3>2. f[S \ {m}] \in V
      BY <2>2, <2>3 DEF Folded
    <3>3. S \ {m} \in SUBSET (1..m) /\ m \notin S \ {m}
      OBVIOUS
    <3>4. g[S \ {m}] = f[S \ {m}]
      BY <2>4, <3>3
    <3>5. g[S] \in V
      BY <2>1, <2>4, <2>5, <3>2
    <3> QED
      BY <2>4, <2>5, <3>1, <3>4, <3>5
  <2>6. ASSUME NEW S \in SUBSET (1..m), m \notin S
        PROVE  S \in SUBSET (1..(m - 1)) /\ g[S] = f[S]
    <3>1. S = S \ {m}
      BY <2>6
    <3> QED
      BY <2>3, <2>4, <2>6, <3>1
  <2>7. ASSUME NEW S \in SUBSET (1..m), S # {}
        PROVE  /\ Max(S) \in 1..m /\ S \ {Max(S)} \in SUBSET (1..m)
               /\ g[S] = G[<<Max(S), g[S \ {Max(S)}]>>]
    <3>1. CASE m \in S
      BY <2>1, <2>5, <3>1
    <3>2. CASE m \notin S
      <4>1. S \in SUBSET (1..(m - 1)) /\ g[S] = f[S]
        BY <2>6, <3>2
      <4>2. /\ Max(S) \in 1..(m - 1)
            /\ f[S] = G[<<Max(S), f[S \ {Max(S)}]>>]
        BY <2>2, <2>7, <4>1 DEF Folded
      <4>3. S \ {Max(S)} \in SUBSET (1..m) /\ m \notin S \ {Max(S)}
        BY <3>2
      <4>4. g[S \ {Max(S)}] = f[S \ {Max(S)}]
        BY <2>6, <4>3
      <4>5. Max(S) \in 1..m
        BY <2>1, <4>2
      <4> QED
        BY <4>1, <4>2, <4>3, <4>4, <4>5
    <3> QED
      BY <3>1, <3>2
  <2>8. g[{}] = base
    <3>1. {} \in SUBSET (1..m) /\ m \notin {} /\ {} \in SUBSET (1..(m - 1))
      OBVIOUS
    <3> QED
      BY <2>2, <2>4, <3>1 DEF Folded
  <2>9. \A S \in SUBSET (1..m) : g[S] \in V
    <3> SUFFICES ASSUME NEW S \in SUBSET (1..m), m \notin S PROVE g[S] \in V
      BY <2>5
    <3> QED
      BY <2>2, <2>6 DEF Folded
  <2>10. Folded(g, m, V, base, G)
    <3>1. g \in [SUBSET (1..m) -> V]
      BY <2>4, <2>9
    <3> QED
      BY <2>7, <2>8, <3>1 DEF Folded
  <2> QED
    BY <1>3, <2>10 DEF Has
<1> QED
  BY <1>4, <1>5

\* The fold of the first k places comes from the fold of the places before.
LEMMA FirstPlaces ==
  ASSUME NEW n \in Nat
  PROVE  /\ 1..0 = {} /\ 1..0 \in SUBSET (1..n)
         /\ \A k \in 1..n :
              /\ 1..k \in SUBSET (1..n) /\ 1..k # {}
              /\ Max(1..k) = k /\ (1..k) \ {k} = 1..(k - 1)
<1>1. \A k \in 1..n : Max(1..k) = k
  <2> SUFFICES ASSUME NEW k \in 1..n PROVE Max(1..k) = k
    OBVIOUS
  <2>1. k \in Nat /\ k \in 1..k /\ 1..k \in SUBSET (1..k)
    OBVIOUS
  <2> QED
    BY <2>1, LastPlace
<1> QED
  BY <1>1

\* A function may be defined by what it is at 0 and by one step.
Stepped(h, n, V, base, G) ==
  /\ h \in [0..n -> V]
  /\ h[0] = base
  /\ \A k \in 1..n : h[k] = G[<<k, h[k - 1]>>]

LEMMA RecursionExists ==
  ASSUME NEW n \in Nat, NEW V, NEW base \in V, NEW G \in [(1..n) \X V -> V]
  PROVE  \E h : Stepped(h, n, V, base, G)
<1>1. PICK f : Folded(f, n, V, base, G)
  BY FoldExists
<1>2. PICK h : h = [k \in 0..n |-> f[1..k]]
  OBVIOUS
<1>3. \A k \in 0..n : 1..k \in SUBSET (1..n)
  OBVIOUS
<1>4. h \in [0..n -> V]
  BY <1>1, <1>2, <1>3 DEF Folded
<1>5. h[0] = base
  <2>1. h[0] = f[1..0]
    BY <1>2
  <2>2. 1..0 = {} /\ 1..0 \in SUBSET (1..n)
    BY FirstPlaces
  <2>3. f[1..0] = base
    BY <1>1, <2>2 DEF Folded
  <2> QED
    BY <2>1, <2>3
<1>6. ASSUME NEW k \in 1..n PROVE h[k] = G[<<k, h[k - 1]>>]
  <2>1. 1..k \in SUBSET (1..n) /\ 1..k # {} /\ Max(1..k) = k /\ (1..k) \ {k} = 1..(k - 1)
    BY FirstPlaces
  <2>2. f[1..k] = G[<<k, f[1..(k - 1)]>>]
    BY <1>1, <2>1 DEF Folded
  <2>3. k \in 0..n /\ k - 1 \in 0..n
    OBVIOUS
  <2>4. h[k] = f[1..k] /\ h[k - 1] = f[1..(k - 1)]
    BY <1>2, <2>3, Zenon
  <2> QED
    BY <2>2, <2>4, Zenon
<1> QED
  BY <1>4, <1>5, <1>6 DEF Stepped

Sifted(h, list, set) ==
  /\ h[0] = <<>>
  /\ \A k \in 1..Len(list) : h[k] = IF list[k] \in set THEN Append(h[k - 1], list[k]) ELSE h[k - 1]
  /\ Among(list, set) = h[Len(list)]

LEMMA AmongSteps ==
  ASSUME NEW T, NEW list \in Seq(T), NEW set
  PROVE  \E h : Sifted(h, list, set)
<1> DEFINE n == Len(list)
           V == Seq(T)
           Body(h) == h = [k \in 0..n |-> IF k = 0 THEN <<>>
                                          ELSE LET e == list[k] IN
                                               IF e \in set THEN Append(h[k - 1], e) ELSE h[k - 1]]
           G == [p \in (1..n) \X V |-> IF list[p[1]] \in set THEN Append(p[2], list[p[1]]) ELSE p[2]]
<1>1. n \in Nat /\ \A k \in 1..n : list[k] \in T
  OBVIOUS
<1>2. G \in [(1..n) \X V -> V] /\ <<>> \in V
  BY <1>1
<1>3. \A k \in 1..n, v \in V : G[<<k, v>>] = IF list[k] \in set THEN Append(v, list[k]) ELSE v
  OBVIOUS
<1>4. PICK g : Stepped(g, n, V, <<>>, G)
  <2> HIDE DEF G, V, n
  <2> QED
    BY <1>1, <1>2, RecursionExists
<1>5. \A k \in 0..n : k # 0 => k \in 1..n /\ k - 1 \in 0..n
  BY <1>1
<1> HIDE DEF G, V, n
<1>6. \A k \in 0..n : g[k] = IF k = 0 THEN <<>>
                              ELSE IF list[k] \in set THEN Append(g[k - 1], list[k]) ELSE g[k - 1]
  BY <1>3, <1>4, <1>5 DEF Stepped
<1>7. Body(g)
  BY <1>4, <1>6 DEF Stepped
<1>8. PICK h : Body(h) /\ Among(list, set) = h[n]
  <2>1. Among(list, set) = (CHOOSE h : Body(h))[n]
    BY DEF Among, n
  <2> HIDE DEF Body
  <2> QED
    BY <1>7, <2>1
<1>9. h[0] = <<>> /\ \A k \in 1..n : h[k] = IF list[k] \in set THEN Append(h[k - 1], list[k]) ELSE h[k - 1]
  <2>1. 0 \in 0..n /\ \A k \in 1..n : k \in 0..n /\ k # 0
    BY <1>1
  <2> QED
    BY <1>8, <2>1
<1> QED
  BY <1>8, <1>9 DEF Sifted, n

Keys(h, keys, list) ==
  /\ h[0] = keys
  /\ \A k \in 1..Len(list) : h[k] = WithKey(h[k - 1], list[k])
  /\ Updated(keys, list) = h[Len(list)]

LEMMA UpdatedSteps ==
  ASSUME NEW T, NEW keys \in Seq(T), NEW list \in Seq(T)
  PROVE  \E h : Keys(h, keys, list)
<1> DEFINE n == Len(list)
           V == Seq(T)
           Body(h) == h = [k \in 0..n |-> IF k = 0 THEN keys ELSE WithKey(h[k - 1], list[k])]
           G == [p \in (1..n) \X V |-> WithKey(p[2], list[p[1]])]
<1>1. n \in Nat /\ \A k \in 1..n : list[k] \in T
  OBVIOUS
<1>2. G \in [(1..n) \X V -> V] /\ keys \in V
  BY <1>1 DEF WithKey
<1>3. \A k \in 1..n, v \in V : G[<<k, v>>] = WithKey(v, list[k])
  OBVIOUS
<1>4. PICK g : Stepped(g, n, V, keys, G)
  <2> HIDE DEF G, V, n
  <2> QED
    BY <1>1, <1>2, RecursionExists
<1>5. \A k \in 0..n : k # 0 => k \in 1..n /\ k - 1 \in 0..n
  BY <1>1
<1> HIDE DEF G, V, n
<1>6. \A k \in 0..n : g[k] = IF k = 0 THEN keys ELSE WithKey(g[k - 1], list[k])
  BY <1>3, <1>4, <1>5 DEF Stepped
<1>7. Body(g)
  BY <1>4, <1>6 DEF Stepped
<1>8. PICK h : Body(h) /\ Updated(keys, list) = h[n]
  <2>1. Updated(keys, list) = (CHOOSE h : Body(h))[n]
    BY DEF Updated, n
  <2> HIDE DEF Body
  <2> QED
    BY <1>7, <2>1
<1>9. h[0] = keys /\ \A k \in 1..n : h[k] = WithKey(h[k - 1], list[k])
  <2>1. 0 \in 0..n /\ \A k \in 1..n : k \in 0..n /\ k # 0
    BY <1>1
  <2> QED
    BY <1>8, <2>1
<1> QED
  BY <1>8, <1>9 DEF Keys, n

-----------------------------------------------------------------------------
(* Lists.                                                                  *)

LEMMA ToSetIs ==
  ASSUME NEW T, NEW list \in Seq(T)
  PROVE  ToSet(list) = {list[i] : i \in 1..Len(list)} /\ ToSet(list) \subseteq T
<1>1. DOMAIN list = 1..Len(list) /\ \A i \in 1..Len(list) : list[i] \in T
  OBVIOUS
<1> QED
  BY <1>1 DEF ToSet

LEMMA AmongIs ==
  ASSUME NEW T, NEW list \in Seq(T), NEW set
  PROVE  Among(list, set) \in Seq(T \cap set)
<1>1. PICK h : Sifted(h, list, set)
  BY AmongSteps
<1>2. PICK n \in Nat : n = Len(list)
  OBVIOUS
<1>3. ASSUME NEW k \in 1..n, h[k - 1] \in Seq(T \cap set)
      PROVE  h[k] \in Seq(T \cap set)
  <2>1. list[k] \in T
    BY <1>2
  <2>2. h[k] = IF list[k] \in set THEN Append(h[k - 1], list[k]) ELSE h[k - 1]
    BY <1>1, <1>2 DEF Sifted
  <2> QED
    BY <1>3, <2>1, <2>2
<1>4. h[0] \in Seq(T \cap set)
  BY <1>1 DEF Sifted
<1>5. h[n] \in Seq(T \cap set)
  <2> DEFINE W == Seq(T \cap set)
  <2>1. h[0] \in W /\ \A k \in 1..n : h[k - 1] \in W => h[k] \in W
    BY <1>3, <1>4
  <2> HIDE DEF W
  <2>2. \A k \in 0..n : h[k] \in W
    BY <2>1, Chained
  <2> QED
    BY <2>2 DEF W
<1> QED
  BY <1>1, <1>2, <1>5 DEF Sifted

\* Keys are told apart by their place.
LEMMA WithKeyIs ==
  ASSUME NEW T, NEW keys \in Seq(T), IsInjective(keys), NEW key \in T
  PROVE  WithKey(keys, key) \in Seq(T) /\ IsInjective(WithKey(keys, key))
<1>1. CASE key \in ToSet(keys)
  BY <1>1 DEF WithKey
<1>2. CASE key \notin ToSet(keys)
  <2>1. \A i \in 1..Len(keys) : keys[i] # key
    BY <1>2 DEF ToSet
  <2>2. PICK more : more = Append(keys, key)
    OBVIOUS
  <2>3. /\ more \in Seq(T) /\ DOMAIN more = 1..(Len(keys) + 1)
        /\ more[Len(keys) + 1] = key
        /\ \A i \in 1..Len(keys) : more[i] = keys[i]
    BY <2>2
  <2>4. \A i, j \in 1..(Len(keys) + 1) : more[i] = more[j] => i = j
    BY <2>1, <2>3 DEF IsInjective
  <2> QED
    BY <1>2, <2>2, <2>3, <2>4 DEF WithKey, IsInjective
<1> QED
  BY <1>1, <1>2

LEMMA UpdatedIs ==
  ASSUME NEW T, NEW list \in Seq(T)
  PROVE  Updated(<<>>, list) \in Seq(T) /\ IsInjective(Updated(<<>>, list))
<1> DEFINE V == {s \in Seq(T) : IsInjective(s)}
<1>1. PICK h : Keys(h, <<>>, list)
  <2>1. <<>> \in Seq(T)
    OBVIOUS
  <2> QED
    BY <2>1, UpdatedSteps
<1>2. PICK n \in Nat : n = Len(list)
  OBVIOUS
<1>3. ASSUME NEW k \in 1..n, h[k - 1] \in V PROVE h[k] \in V
  <2>1. list[k] \in T /\ h[k] = WithKey(h[k - 1], list[k])
    BY <1>1, <1>2 DEF Keys
  <2> QED
    BY <1>3, <2>1, WithKeyIs
<1>4. h[0] \in V
  BY <1>1 DEF Keys, IsInjective
<1>5. h[n] \in V
  <2> HIDE DEF V
  <2> QED
    BY <1>3, <1>4, Chained, SMTT(20)
<1> QED
  BY <1>1, <1>2, <1>5 DEF Keys

LEMMA FirstIs ==
  ASSUME NEW T, NEW list \in Seq(T), NEW n \in Nat
  PROVE  /\ First(list, n) \in Seq(T)
         /\ Len(First(list, n)) = IF Len(list) < n THEN Len(list) ELSE n
         /\ \A i \in 1..Len(First(list, n)) : First(list, n)[i] = list[i]
         /\ IsInjective(list) => IsInjective(First(list, n))
<1>1. PICK m \in 0..Len(list) : m = IF Len(list) < n THEN Len(list) ELSE n
  OBVIOUS
<1>2. First(list, n) = SubSeq(list, 1, m)
  BY <1>1 DEF First
<1>3. PICK cut : cut = SubSeq(list, 1, m)
  OBVIOUS
<1>4. cut \in Seq(T) /\ Len(cut) = m /\ \A i \in 1..m : cut[i] = list[i]
  BY <1>3
<1>5. DOMAIN cut = 1..m /\ DOMAIN list = 1..Len(list)
  BY <1>4
<1>6. IsInjective(list) => IsInjective(cut)
  BY <1>4, <1>5 DEF IsInjective
<1> QED
  BY <1>1, <1>2, <1>3, <1>4, <1>6

LEMMA IsSeqOf ==
  ASSUME NEW T, NEW list \in Seq(T)
  PROVE  IsSeq(list)
BY DEF IsSeq, ToSet

\* What is put behind a list is in it.
LEMMA ToSetConcat ==
  ASSUME NEW A, NEW one \in Seq(A), NEW B, NEW two \in Seq(B)
  PROVE  ToSet(one \o two) = ToSet(one) \cup ToSet(two)
<1>1. PICK both : both = one \o two
  OBVIOUS
<1>2. one \in Seq(A \cup B) /\ two \in Seq(A \cup B)
  OBVIOUS
<1>3. /\ both \in Seq(A \cup B) /\ Len(both) = Len(one) + Len(two)
      /\ \A i \in 1..Len(one) : both[i] = one[i]
      /\ \A i \in 1..Len(two) : both[Len(one) + i] = two[i]
  BY <1>1, <1>2
<1>4. \A i \in 1..Len(both) : i \in 1..Len(one) \/ i - Len(one) \in 1..Len(two)
  BY <1>2, <1>3
<1>5. /\ ToSet(both) = {both[i] : i \in 1..Len(both)}
      /\ ToSet(one) = {one[i] : i \in 1..Len(one)}
      /\ ToSet(two) = {two[i] : i \in 1..Len(two)}
  BY <1>2, <1>3, ToSetIs
<1>6. ASSUME NEW i \in 1..Len(both) PROVE both[i] \in ToSet(one) \cup ToSet(two)
  <2>1. CASE i \in 1..Len(one)
    BY <1>3, <1>5, <2>1
  <2>2. CASE i - Len(one) \in 1..Len(two)
    <3>1. PICK j \in 1..Len(two) : j = i - Len(one)
      BY <2>2
    <3>2. i = Len(one) + j
      BY <1>2, <3>1
    <3> QED
      BY <1>3, <1>5, <3>1, <3>2
  <2> QED
    BY <1>4, <2>1, <2>2
<1>7. ASSUME NEW i \in 1..Len(one) PROVE one[i] \in ToSet(both)
  <2>1. i \in 1..Len(both)
    BY <1>2, <1>3
  <2> QED
    BY <1>3, <1>5, <2>1
<1>8. ASSUME NEW i \in 1..Len(two) PROVE two[i] \in ToSet(both)
  <2>1. Len(one) + i \in 1..Len(both)
    BY <1>2, <1>3
  <2> QED
    BY <1>3, <1>5, <2>1
<1>9. ToSet(both) \subseteq ToSet(one) \cup ToSet(two)
  BY <1>5, <1>6
<1>10. ToSet(one) \subseteq ToSet(both) /\ ToSet(two) \subseteq ToSet(both)
  BY <1>5, <1>7, <1>8
<1> QED
  BY <1>1, <1>9, <1>10

LEMMA ToSetAppend ==
  ASSUME NEW A, NEW list \in Seq(A), NEW e
  PROVE  ToSet(Append(list, e)) = ToSet(list) \cup {e}
<1>1. PICK more : more = Append(list, e)
  OBVIOUS
<1>2. list \in Seq(A \cup {e}) /\ e \in A \cup {e}
  OBVIOUS
<1>3. /\ more \in Seq(A \cup {e}) /\ Len(more) = Len(list) + 1
      /\ more[Len(list) + 1] = e /\ \A i \in 1..Len(list) : more[i] = list[i]
  BY <1>1, <1>2
<1>4. /\ ToSet(more) = {more[i] : i \in 1..Len(more)}
      /\ ToSet(list) = {list[i] : i \in 1..Len(list)}
  BY <1>2, <1>3, ToSetIs
<1>5. \A i \in 1..Len(more) : i \in 1..Len(list) \/ i = Len(list) + 1
  BY <1>2, <1>3
<1>6. \A i \in 1..Len(list) : i \in 1..Len(more)
  BY <1>2, <1>3
<1>7. Len(list) + 1 \in 1..Len(more)
  BY <1>2, <1>3
<1> QED
  BY <1>1, <1>3, <1>4, <1>5, <1>6, <1>7

-----------------------------------------------------------------------------
(* Lists without repetition.                                               *)

\* What holds at 0 and from one place to the next holds at every place.
LEMMA EveryPlace ==
  ASSUME NEW n \in Nat, NEW W, 0 \in W, \A k \in 1..n : k - 1 \in W => k \in W
  PROVE  \A k \in 0..n : k \in W
<1> DEFINE h == [k \in 0..n |-> k]
<1>1. h[0] \in W /\ \A k \in 1..n : h[k - 1] \in W => h[k] \in W
  OBVIOUS
<1>2. \A k \in 0..n : h[k] \in W
  <2> HIDE DEF h
  <2> QED
    BY <1>1, Chained
<1> QED
  BY <1>2

LEMMA AmongElements ==
  ASSUME NEW T, NEW list \in Seq(T), NEW set
  PROVE  /\ Among(list, set) \in Seq(T)
         /\ ToSet(Among(list, set)) = ToSet(list) \cap set
         /\ IsInjective(list) => IsInjective(Among(list, set))
<1>1. PICK h : Sifted(h, list, set)
  BY AmongSteps
<1>2. PICK n \in Nat : n = Len(list) /\ DOMAIN list = 1..n /\ \A i \in 1..n : list[i] \in T
  OBVIOUS
<1> DEFINE Upto(k) == {list[i] : i \in 1..k}
           Good(k) == /\ h[k] \in Seq(T) /\ ToSet(h[k]) = Upto(k) \cap set
                      /\ IsInjective(list) => IsInjective(h[k])
           W == {k \in 0..n : Good(k)}
<1>3. Good(0)
  <2>1. h[0] = <<>>
    BY <1>1 DEF Sifted
  <2>2. ToSet(<<>>) = {} /\ Upto(0) = {} /\ IsInjective(<<>>)
    BY DEF ToSet, IsInjective
  <2> QED
    BY <2>1, <2>2
<1>4. ASSUME NEW k \in 1..n, Good(k - 1) PROVE Good(k)
  <2>1. PICK s, e : s = h[k - 1] /\ e = list[k]
    OBVIOUS
  <2>2. h[k] = IF e \in set THEN Append(s, e) ELSE s
    BY <1>1, <1>2, <2>1 DEF Sifted
  <2>3. s \in Seq(T) /\ ToSet(s) = Upto(k - 1) \cap set /\ (IsInjective(list) => IsInjective(s))
        /\ e \in T
    BY <1>2, <1>4, <2>1
  <2>4. Upto(k) = Upto(k - 1) \cup {e}
    <3>1. 1..k = (1..(k - 1)) \cup {k}
      OBVIOUS
    <3> QED
      BY <2>1, <3>1
  <2>5. CASE e \notin set
    BY <2>2, <2>3, <2>4, <2>5
  <2>6. CASE e \in set
    <3>1. PICK more : more = Append(s, e)
      OBVIOUS
    <3>2. more \in Seq(T) /\ ToSet(more) = ToSet(s) \cup {e} /\ h[k] = more
      BY <2>2, <2>3, <2>6, <3>1, ToSetAppend
    <3>3. ASSUME IsInjective(list) PROVE IsInjective(more)
      <4>1. e \notin Upto(k - 1)
        <5>1. \A i \in 1..(k - 1) : i \in 1..n /\ k \in 1..n /\ i # k
          BY <1>2
        <5> QED
          BY <1>2, <2>1, <3>3, <5>1 DEF IsInjective
      <4>2. e \notin ToSet(s) /\ IsInjective(s)
        BY <2>3, <3>3, <4>1
      <4>3. WithKey(s, e) = more
        BY <3>1, <4>2 DEF WithKey
      <4> QED
        BY <2>3, <4>2, <4>3, WithKeyIs
    <3> QED
      BY <2>3, <2>4, <2>6, <3>2, <3>3
  <2> QED
    BY <2>5, <2>6
<1>5. Good(n)
  <2> HIDE DEF Good
  <2>1. 0 \in W
    BY <1>3
  <2>2. ASSUME NEW k \in 1..n, k - 1 \in W PROVE k \in W
    <3>1. k \in 0..n /\ Good(k - 1)
      BY <2>2
    <3> QED
      BY <1>4, <3>1
  <2> HIDE DEF W
  <2>3. \A k \in 1..n : k - 1 \in W => k \in W
    BY <2>2
  <2>4. \A k \in 0..n : k \in W
    BY <2>1, <2>3, EveryPlace
  <2>5. n \in W
    BY <2>4
  <2> QED
    BY <2>5 DEF W
<1>6. Upto(n) = ToSet(list)
  BY <1>2 DEF ToSet
<1> QED
  BY <1>1, <1>2, <1>5, <1>6 DEF Sifted

\* The keys are what was put in.
LEMMA UpdatedElements ==
  ASSUME NEW T, NEW list \in Seq(T)
  PROVE  ToSet(Updated(<<>>, list)) = ToSet(list)
<1>1. PICK h : Keys(h, <<>>, list)
  <2>1. <<>> \in Seq(T)
    OBVIOUS
  <2> QED
    BY <2>1, UpdatedSteps
<1>2. PICK n \in Nat : n = Len(list) /\ DOMAIN list = 1..n /\ \A i \in 1..n : list[i] \in T
  OBVIOUS
<1> DEFINE Upto(k) == {list[i] : i \in 1..k}
           Good(k) == h[k] \in Seq(T) /\ ToSet(h[k]) = Upto(k)
           W == {k \in 0..n : Good(k)}
<1>3. Good(0)
  <2>1. h[0] = <<>>
    BY <1>1 DEF Keys
  <2>2. ToSet(<<>>) = {} /\ Upto(0) = {}
    BY DEF ToSet
  <2> QED
    BY <2>1, <2>2
<1>4. ASSUME NEW k \in 1..n, Good(k - 1) PROVE Good(k)
  <2>1. PICK s, e : s = h[k - 1] /\ e = list[k]
    OBVIOUS
  <2>2. s \in Seq(T) /\ e \in T /\ ToSet(s) = Upto(k - 1)
    BY <1>2, <1>4, <2>1
  <2>3. h[k] = WithKey(s, e)
    BY <1>1, <1>2, <2>1 DEF Keys
  <2>4. Upto(k) = Upto(k - 1) \cup {e}
    <3>1. \A i \in 1..k : i = k \/ i \in 1..(k - 1)
      BY <1>2
    <3>2. k \in 1..k /\ \A i \in 1..(k - 1) : i \in 1..k
      BY <1>2
    <3> QED
      BY <2>1, <3>1, <3>2
  <2>5. CASE e \in ToSet(s)
    BY <2>2, <2>3, <2>4, <2>5 DEF WithKey
  <2>6. CASE e \notin ToSet(s)
    <3>1. h[k] = Append(s, e)
      BY <2>3, <2>6 DEF WithKey
    <3>2. ToSet(h[k]) = ToSet(s) \cup {e}
      BY <2>2, <3>1, ToSetAppend
    <3>3. h[k] \in Seq(T)
      BY <2>2, <3>1
    <3> QED
      BY <2>2, <2>4, <3>2, <3>3
  <2> QED
    BY <2>5, <2>6
<1>5. Good(n)
  <2> HIDE DEF Good
  <2>1. 0 \in W
    BY <1>3
  <2>2. ASSUME NEW k \in 1..n, k - 1 \in W PROVE k \in W
    <3>1. k \in 0..n /\ Good(k - 1)
      BY <2>2
    <3> QED
      BY <1>4, <3>1
  <2> HIDE DEF W
  <2>3. \A k \in 1..n : k - 1 \in W => k \in W
    BY <2>2
  <2>4. \A k \in 0..n : k \in W
    BY <2>1, <2>3, EveryPlace
  <2>5. n \in W
    BY <2>4
  <2> QED
    BY <2>5 DEF W
<1>6. Upto(n) = ToSet(list)
  BY <1>2 DEF ToSet
<1> QED
  BY <1>1, <1>2, <1>5, <1>6 DEF Keys

\* To compute a list does not change it.
LEMMA ComputedIs ==
  ASSUME NEW T, NEW list \in Seq(T)
  PROVE  Computed(list) = list
BY ConcatEmptySeq DEF Computed

\* What is kept of a list stands at places of its own there.
PlacedBy(at, m, list, set, k, kept) ==
  /\ m \in Nat /\ at \in [1..m -> 1..k] /\ DOMAIN kept = 1..m
  /\ \A i \in 1..m : kept[i] = list[at[i]] /\ list[at[i]] \in set
  /\ \A i, j \in 1..m : at[i] = at[j] => i = j

LEMMA PlacedAppend ==
  ASSUME NEW T, NEW list \in Seq(T), NEW set, NEW k \in 1..Len(list), NEW s \in Seq(T),
         NEW m, NEW at, PlacedBy(at, m, list, set, k - 1, s), list[k] \in set
  PROVE  \E l, to : PlacedBy(to, l, list, set, k, Append(s, list[k]))
<1>1. /\ m \in Nat /\ at \in [1..m -> 1..(k - 1)] /\ DOMAIN s = 1..m
      /\ \A i \in 1..m : s[i] = list[at[i]] /\ list[at[i]] \in set
      /\ \A i, j \in 1..m : at[i] = at[j] => i = j
  BY DEF PlacedBy
<1>2. k \in Nat /\ k # 0 /\ Len(s) = m /\ list[k] \in T
  BY <1>1
<1>3. PICK more : more = Append(s, list[k])
  OBVIOUS
<1>4. /\ DOMAIN more = 1..(m + 1) /\ more[m + 1] = list[k]
      /\ \A i \in 1..m : more[i] = s[i]
  BY <1>1, <1>2, <1>3, SMTT(20)
<1>5. PICK to : to = [i \in 1..(m + 1) |-> IF i = m + 1 THEN k ELSE at[i]]
  OBVIOUS
<1>6. \A i \in 1..(m + 1) : i # m + 1 => i \in 1..m /\ to[i] = at[i] /\ at[i] \in 1..(k - 1)
  BY <1>1, <1>5
<1>7. to[m + 1] = k
  BY <1>1, <1>5
<1>8. to \in [1..(m + 1) -> 1..k]
  <2>1. \A i \in 1..(m + 1) : to[i] \in 1..k
    BY <1>2, <1>6, <1>7
  <2> QED
    BY <1>5, <2>1
<1>9. \A i \in 1..(m + 1) : more[i] = list[to[i]] /\ list[to[i]] \in set
  BY <1>1, <1>4, <1>6, <1>7
<1>10. \A i, j \in 1..(m + 1) : to[i] = to[j] => i = j
  <2>1. \A i \in 1..(m + 1) : i # m + 1 => to[i] # k
    BY <1>2, <1>6
  <2> QED
    BY <1>1, <1>6, <1>7, <2>1
<1>11. m + 1 \in Nat
  BY <1>1
<1>12. PlacedBy(to, m + 1, list, set, k, more)
  BY <1>4, <1>8, <1>9, <1>10, <1>11 DEF PlacedBy
<1> QED
  BY <1>3, <1>12

Sieved(h, list, set) ==
  /\ h[0] = <<>>
  /\ \A k \in 1..Len(list) : h[k] = IF list[k] \in set THEN Append(h[k - 1], list[k]) ELSE h[k - 1]

LEMMA SievedPlaces ==
  ASSUME NEW T, NEW list \in Seq(T), NEW set, NEW h, Sieved(h, list, set)
  PROVE  \E m, at : PlacedBy(at, m, list, set, Len(list), h[Len(list)])
<1>1. Sieved(h, list, set)
  OBVIOUS
<1>2. PICK n \in Nat : n = Len(list) /\ DOMAIN list = 1..n /\ \A i \in 1..n : list[i] \in T
  OBVIOUS
<1> DEFINE Placed(k) == \E m, at : PlacedBy(at, m, list, set, k, h[k])
           Good(k) == h[k] \in Seq(T) /\ Placed(k)
           W == {k \in 0..n : Good(k)}
<1>3. Good(0)
  <2>1. h[0] = <<>>
    BY <1>1 DEF Sieved
  <2>2. PICK at : at = [i \in 1..0 |-> i]
    OBVIOUS
  <2>3. 1..0 = {}
    OBVIOUS
  <2>4. PlacedBy(at, 0, list, set, 0, <<>>)
    BY <2>2, <2>3 DEF PlacedBy
  <2> QED
    BY <2>1, <2>4
<1>4. ASSUME NEW k \in 1..n, Good(k - 1) PROVE Good(k)
  <2>1. PICK s : s = h[k - 1]
    OBVIOUS
  <2>2. s \in Seq(T)
    BY <1>4, <2>1
  <2>3. PICK m, at : PlacedBy(at, m, list, set, k - 1, s)
    BY <1>4, <2>1
  <2>4. h[k] = IF list[k] \in set THEN Append(s, list[k]) ELSE s
    BY <1>1, <1>2, <2>1 DEF Sieved
  <2>5. CASE list[k] \notin set
    <3>1. 1..(k - 1) \subseteq 1..k
      BY <1>2
    <3>2. at \in [1..m -> 1..k]
      BY <2>3, <3>1 DEF PlacedBy
    <3>3. PlacedBy(at, m, list, set, k, s)
      BY <2>3, <3>2 DEF PlacedBy
    <3> QED
      BY <2>2, <2>4, <2>5, <3>3
  <2>6. CASE list[k] \in set
    <3>1. \E l, to : PlacedBy(to, l, list, set, k, Append(s, list[k]))
      BY <1>2, <2>2, <2>3, <2>6, PlacedAppend
    <3>2. Append(s, list[k]) \in Seq(T)
      BY <1>2, <2>2
    <3> QED
      BY <2>4, <2>6, <3>1, <3>2
  <2> QED
    BY <2>5, <2>6
<1>5. Good(n)
  <2> HIDE DEF Good
  <2>1. 0 \in W
    BY <1>3
  <2>2. ASSUME NEW k \in 1..n, k - 1 \in W PROVE k \in W
    <3>1. k \in 0..n /\ Good(k - 1)
      BY <2>2
    <3> QED
      BY <1>4, <3>1
  <2> HIDE DEF W
  <2>3. \A k \in 1..n : k - 1 \in W => k \in W
    BY <2>2
  <2>4. \A k \in 0..n : k \in W
    BY <2>1, <2>3, EveryPlace
  <2>5. n \in W
    BY <2>4
  <2> QED
    BY <2>5 DEF W
<1> QED
  BY <1>2, <1>5

\* A list has finitely many elements.
LEMMA FiniteList ==
  ASSUME NEW T, NEW list \in Seq(T)
  PROVE  IsFiniteSet(ToSet(list))
<1>1. list \in Surjection(1..Len(list), ToSet(list))
  BY DEF Surjection, ToSet
<1>2. IsFiniteSet(1..Len(list))
  BY FS_Interval
<1> QED
  BY <1>1, <1>2, FS_Surjection

\* A list without repetition has as many places as elements.
LEMMA ListCount ==
  ASSUME NEW T, NEW list \in Seq(T), IsInjective(list)
  PROVE  Cardinality(ToSet(list)) = Len(list) /\ IsFiniteSet(ToSet(list))
<1>1. PICK n \in Nat : n = Len(list) /\ DOMAIN list = 1..n
  OBVIOUS
<1>2. list \in Bijection(1..n, ToSet(list))
  BY <1>1 DEF Bijection, Injection, Surjection, IsInjective, ToSet
<1>3. ExistsBijection(1..n, ToSet(list))
  BY <1>2 DEF ExistsBijection
<1> QED
  BY <1>1, <1>3, FS_CountingElements, FiniteList

\* The first place of a kind.
LEMMA LeastPlace ==
  ASSUME NEW n \in Nat, NEW I \in SUBSET (1..n), NEW at, at = IF I # {} THEN Min(I) ELSE 0
  PROVE  (I = {} /\ at = 0) \/ at \in I
<1>1. I \in SUBSET Nat
  OBVIOUS
<1>2. I # {} => \E i \in I : \A j \in I : i <= j
  BY <1>1, LeastNumber
<1>3. I # {} => Min(I) \in I
  BY <1>2 DEF Min
<1> QED
  BY <1>3

LEMMA ConcatInjective ==
  ASSUME NEW T, NEW one \in Seq(T), NEW two \in Seq(T), IsInjective(one), IsInjective(two),
         ToSet(one) \cap ToSet(two) = {}
  PROVE  IsInjective(one \o two)
<1>1. PICK both : both = one \o two
  OBVIOUS
<1>2. PICK a \in Nat, b \in Nat : a = Len(one) /\ b = Len(two) /\ DOMAIN one = 1..a /\ DOMAIN two = 1..b
  OBVIOUS
<1>3. /\ DOMAIN both = 1..(a + b)
      /\ \A i \in 1..a : both[i] = one[i]
      /\ \A i \in (a + 1)..(a + b) : both[i] = two[i - a]
  BY <1>1, <1>2
<1>4. ASSUME NEW i \in 1..(a + b), NEW j \in 1..(a + b), both[i] = both[j], i <= j PROVE i = j
  <2>1. CASE j \in 1..a
    <3>1. i \in 1..a /\ one[i] = one[j]
      BY <1>3, <1>4, <2>1
    <3> QED
      BY <1>2, <2>1, <3>1 DEF IsInjective
  <2>2. CASE j \in (a + 1)..(a + b) /\ i \in 1..a
    <3>1. one[i] = two[j - a] /\ j - a \in 1..b
      BY <1>3, <1>4, <2>2
    <3>2. one[i] \in ToSet(one) /\ two[j - a] \in ToSet(two)
      BY <1>2, <2>2, <3>1 DEF ToSet
    <3> QED
      BY <3>1, <3>2
  <2>3. CASE j \in (a + 1)..(a + b) /\ i \in (a + 1)..(a + b)
    <3>1. two[i - a] = two[j - a] /\ i - a \in 1..b /\ j - a \in 1..b
      BY <1>3, <1>4, <2>3
    <3>2. i - a = j - a
      BY <1>2, <3>1 DEF IsInjective
    <3> QED
      BY <3>2
  <2> QED
    BY <2>1, <2>2, <2>3
<1>5. \A i, j \in 1..(a + b) : both[i] = both[j] => i = j
  <2> SUFFICES ASSUME NEW i \in 1..(a + b), NEW j \in 1..(a + b), both[i] = both[j] PROVE i = j
    OBVIOUS
  <2>1. i <= j \/ j <= i
    OBVIOUS
  <2> QED
    BY <1>4, <2>1
<1> QED
  BY <1>1, <1>3, <1>5 DEF IsInjective

-----------------------------------------------------------------------------
(* Concatenations.                                                         *)

\* Concats(f, seqs, n): f gives the concatenation of the first i sequences.
Concats(f, seqs, n) ==
  f = [i \in 1..n |-> IF i = 1 THEN seqs[i] ELSE f[i - 1] \o seqs[i]]

LEMMA ConcatsExist ==
  ASSUME NEW seqs, NEW n \in Nat
  PROVE  \E f : Concats(f, seqs, n)
<1> DEFINE Bad == {m \in Nat : ~\E f : Concats(f, seqs, m)}
<1>1. SUFFICES ASSUME Bad # {} PROVE FALSE
  OBVIOUS
<1>2. PICK m \in Bad : \A k \in Bad : m <= k
  <2>1. Bad \in SUBSET Nat
    OBVIOUS
  <2> HIDE DEF Bad
  <2> QED
    BY <1>1, <2>1, LeastNumber
<1>3. CASE m = 0
  <2>1. PICK f : f = [i \in 1..0 |-> seqs[i]]
    OBVIOUS
  <2>2. Concats(f, seqs, 0)
    BY <2>1 DEF Concats
  <2> QED
    BY <1>2, <1>3, <2>2
<1>4. CASE m # 0
  <2>1. m \in Nat /\ m - 1 \in Nat /\ m - 1 \notin Bad
    BY <1>2, <1>4
  <2>2. PICK f : Concats(f, seqs, m - 1)
    BY <2>1
  <2>3. PICK g : g = [i \in 1..m |-> IF i # m THEN f[i]
                                     ELSE IF m = 1 THEN seqs[m] ELSE f[m - 1] \o seqs[m]]
    OBVIOUS
  <2>4. Concats(g, seqs, m)
    <3>1. f = [i \in 1..(m - 1) |-> IF i = 1 THEN seqs[i] ELSE f[i - 1] \o seqs[i]]
      BY <2>2 DEF Concats
    <3>2. \A i \in 1..m : g[i] = IF i = 1 THEN seqs[i] ELSE g[i - 1] \o seqs[i]
      <4> SUFFICES ASSUME NEW i \in 1..m
                   PROVE  g[i] = IF i = 1 THEN seqs[i] ELSE g[i - 1] \o seqs[i]
        OBVIOUS
      <4>1. i # 1 => i - 1 \in 1..m /\ i - 1 # m
        BY <2>1
      <4>2. i # 1 => g[i - 1] = f[i - 1]
        BY <2>3, <4>1
      <4>3. CASE i = m
        BY <2>3, <4>2, <4>3
      <4>4. CASE i # m
        <5>1. i \in 1..(m - 1) /\ g[i] = f[i]
          BY <2>1, <2>3, <4>4
        <5> QED
          BY <3>1, <4>2, <5>1
      <4> QED
        BY <4>3, <4>4
    <3> QED
      BY <2>3, <3>2 DEF Concats
  <2> QED
    BY <1>2, <2>4
<1> QED
  BY <1>3, <1>4

\* Lists of one kind make a list of that kind.
LEMMA FlattenIs ==
  ASSUME NEW T, NEW seqs \in Seq(Seq(T))
  PROVE  FlattenSeq(seqs) \in Seq(T)
<1>1. PICK n : n = Len(seqs)
  OBVIOUS
<1>2. n \in Nat /\ \A i \in 1..n : seqs[i] \in Seq(T)
  BY <1>1
<1>3. CASE n = 0
  <2>1. seqs = <<>>
    BY <1>1, <1>3, EmptySeq
  <2>2. FlattenSeq(seqs) = <<>>
    BY <1>1, <1>3, <2>1 DEF FlattenSeq
  <2> QED
    BY <2>2
<1>4. CASE n # 0
  <2>1. PICK f : f = CHOOSE g : Concats(g, seqs, n)
    OBVIOUS
  <2>2. Concats(f, seqs, n)
    BY <1>2, <2>1, ConcatsExist
  <2>3. FlattenSeq(seqs) = f[n]
    BY <1>1, <1>4, <2>1 DEF FlattenSeq, Concats
  <2>4. f[1] = seqs[1] /\ \A i \in 2..n : f[i] = f[i - 1] \o seqs[i]
    <3>1. f = [i \in 1..n |-> IF i = 1 THEN seqs[i] ELSE f[i - 1] \o seqs[i]]
      BY <2>2 DEF Concats
    <3>2. 1 \in 1..n /\ \A i \in 2..n : i \in 1..n /\ i # 1
      BY <1>2, <1>4
    <3> QED
      BY <3>1, <3>2
  <2> DEFINE W == {0} \cup {i \in 1..n : f[i] \in Seq(T)}
  <2>5. ASSUME NEW i \in 1..n, i - 1 \in W PROVE i \in W
    <3>1. CASE i = 1
      BY <1>2, <2>4, <3>1
    <3>2. CASE i # 1
      <4>1. i \in 2..n /\ f[i - 1] \in Seq(T) /\ seqs[i] \in Seq(T)
        BY <1>2, <2>5, <3>2
      <4>2. f[i - 1] \o seqs[i] \in Seq(T)
        BY <4>1, ConcatProperties
      <4> QED
        BY <2>4, <4>1, <4>2
    <3> QED
      BY <3>1, <3>2
  <2>6. 0 \in W /\ \A i \in 1..n : i - 1 \in W => i \in W
    BY <2>5
  <2>7. n \in W
    <3> HIDE DEF W
    <3>1. \A i \in 0..n : i \in W
      BY <1>2, <2>6, EveryPlace
    <3> QED
      BY <1>2, <3>1
  <2> QED
    BY <1>4, <2>3, <2>7
<1> QED
  BY <1>3, <1>4

-----------------------------------------------------------------------------
(* Sums and concatenations.                                                *)

\* Sums(h, counts): h gives the sum of the first k counts.
Sums(h, counts, n) ==
  h = [j \in 0..n |-> IF j = 0 THEN 0 ELSE h[j - 1] + counts[j]]

LEMMA SumsExist ==
  ASSUME NEW counts, NEW n \in Nat
  PROVE  \E h : Sums(h, counts, n)
<1> DEFINE Bad == {m \in Nat : ~\E h : Sums(h, counts, m)}
<1>1. SUFFICES Bad = {}
  OBVIOUS
<1>2. SUFFICES ASSUME Bad # {} PROVE FALSE
  OBVIOUS
<1>3. PICK m \in Bad : \A k \in Bad : m <= k
  <2>1. Bad \in SUBSET Nat
    OBVIOUS
  <2> HIDE DEF Bad
  <2> QED
    BY <1>2, <2>1, LeastNumber
<1>4. CASE m = 0
  <2>1. PICK h : h = [j \in 0..0 |-> 0]
    OBVIOUS
  <2>2. Sums(h, counts, 0)
    BY <2>1 DEF Sums
  <2> QED
    BY <1>3, <1>4, <2>2
<1>5. CASE m # 0
  <2>1. m \in Nat /\ m - 1 \in Nat /\ m - 1 \notin Bad
    BY <1>3, <1>5
  <2>2. PICK h : Sums(h, counts, m - 1)
    BY <2>1
  <2>3. PICK g : g = [j \in 0..m |-> IF j = m THEN h[m - 1] + counts[m] ELSE h[j]]
    OBVIOUS
  <2>4. Sums(g, counts, m)
    <3>1. h = [j \in 0..(m - 1) |-> IF j = 0 THEN 0 ELSE h[j - 1] + counts[j]]
      BY <2>2 DEF Sums
    <3>2. \A j \in 0..m : g[j] = IF j = 0 THEN 0 ELSE g[j - 1] + counts[j]
      <4> SUFFICES ASSUME NEW j \in 0..m
                   PROVE  g[j] = IF j = 0 THEN 0 ELSE g[j - 1] + counts[j]
        OBVIOUS
      <4>1. CASE j = m
        BY <2>1, <2>3, <1>5, <4>1
      <4>2. CASE j # m
        <5>1. j \in 0..(m - 1) /\ g[j] = h[j]
          BY <2>1, <2>3, <4>2
        <5>2. j # 0 => g[j - 1] = h[j - 1]
          BY <2>1, <2>3, <5>1
        <5> QED
          BY <3>1, <5>1, <5>2
      <4> QED
        BY <4>1, <4>2
    <3> QED
      BY <2>3, <3>2 DEF Sums
  <2> QED
    BY <1>3, <2>4
<1> QED
  BY <1>4, <1>5

\* Total is what it says.
LEMMA TotalIs ==
  ASSUME NEW counts \in Seq(Nat)
  PROVE  /\ Total(counts, 0) = 0
         /\ \A k \in 0..Len(counts) : Total(counts, k) \in Nat
         /\ \A k \in 1..Len(counts) : Total(counts, k) = Total(counts, k - 1) + counts[k]
<1>1. PICK n : n = Len(counts)
  OBVIOUS
<1>2. n \in Nat /\ \A k \in 1..n : counts[k] \in Nat
  BY <1>1
<1>3. PICK h : h = CHOOSE g : Sums(g, counts, n)
  OBVIOUS
<1>4. Sums(h, counts, n)
  BY <1>2, <1>3, SumsExist
<1>5. \A k : Total(counts, k) = h[k]
  BY <1>1, <1>3 DEF Total, Sums
<1>6. h = [j \in 0..n |-> IF j = 0 THEN 0 ELSE h[j - 1] + counts[j]]
  BY <1>4 DEF Sums
<1>7. h[0] = 0 /\ \A k \in 1..n : h[k] = h[k - 1] + counts[k]
  <2>1. 0 \in 0..n /\ \A k \in 1..n : k \in 0..n /\ k # 0
    BY <1>2
  <2> QED
    BY <1>6, <2>1
<1>8. \A k \in 0..n : h[k] \in Nat
  <2> DEFINE Bad == {k \in 0..n : h[k] \notin Nat}
  <2> SUFFICES ASSUME Bad # {} PROVE FALSE
    OBVIOUS
  <2>1. Bad \in SUBSET Nat
    BY <1>2
  <2>2. PICK m \in Bad : \A k \in Bad : m <= k
    <3> HIDE DEF Bad
    <3> QED
      BY <2>1, LeastNumber
  <2>3. m # 0
    BY <1>7, <2>2
  <2>4. m - 1 \in 0..n /\ m \in 1..n /\ h[m] \notin Nat
    BY <1>2, <2>2, <2>3
  <2>5. h[m - 1] \in Nat
    BY <1>2, <2>2, <2>4
  <2>6. h[m] = h[m - 1] + counts[m] /\ counts[m] \in Nat
    BY <1>2, <1>7, <2>4
  <2> QED
    BY <2>4, <2>5, <2>6
<1> QED
  BY <1>1, <1>5, <1>7, <1>8

\* Where the rows of a concatenation are: the q-th of the j-th sequence comes
\* after the rows of those before it, and every row is one of these.
Placed(rows, seqs, counts, i) ==
  /\ Len(rows) = Total(counts, i)
  /\ \A j \in 1..i : \A q \in 1..counts[j] :
       /\ Total(counts, j - 1) + q \in 1..Len(rows)
       /\ rows[Total(counts, j - 1) + q] = seqs[j][q]
  /\ \A p \in 1..Len(rows) :
       \E j \in 1..i : \E q \in 1..counts[j] : p = Total(counts, j - 1) + q

\* FlattenSeq puts every row where the counts say.
LEMMA Flattened ==
  ASSUME NEW T, NEW seqs \in Seq(Seq(T)), NEW counts \in Seq(Nat),
         Len(counts) = Len(seqs), \A i \in 1..Len(seqs) : counts[i] = Len(seqs[i])
  PROVE  /\ FlattenSeq(seqs) \in Seq(T)
         /\ Placed(FlattenSeq(seqs), seqs, counts, Len(seqs))
<1>1. PICK n : n = Len(seqs)
  OBVIOUS
<1>2. n \in Nat /\ \A i \in 1..n : seqs[i] \in Seq(T) /\ counts[i] = Len(seqs[i])
  BY <1>1
<1>3. CASE n = 0
  <2>0. seqs = << >>
    BY <1>1, <1>3, EmptySeq
  <2>1. FlattenSeq(seqs) = << >>
    BY <1>1, <1>3, <2>0 DEF FlattenSeq
  <2>2. Total(counts, 0) = 0
    BY TotalIs
  <2> QED
    BY <1>1, <1>3, <2>1, <2>2 DEF Placed
<1>4. CASE n # 0
  <2>1. PICK f : f = CHOOSE g : Concats(g, seqs, n)
    OBVIOUS
  <2>2. Concats(f, seqs, n)
    BY <1>2, <2>1, ConcatsExist
  <2>3. FlattenSeq(seqs) = f[n]
    BY <1>1, <1>4, <2>1 DEF FlattenSeq, Concats
  <2>4. f[1] = seqs[1] /\ \A i \in 2..n : f[i] = f[i - 1] \o seqs[i]
    <3>1. f = [i \in 1..n |-> IF i = 1 THEN seqs[i] ELSE f[i - 1] \o seqs[i]]
      BY <2>2 DEF Concats
    <3>2. 1 \in 1..n /\ \A i \in 2..n : i \in 1..n /\ i # 1
      BY <1>2, <1>4
    <3> QED
      BY <3>1, <3>2
  <2>5. /\ Total(counts, 0) = 0
        /\ \A k \in 0..n : Total(counts, k) \in Nat
        /\ \A k \in 1..n : Total(counts, k) = Total(counts, k - 1) + counts[k]
    BY <1>1, TotalIs
  <2> DEFINE Good(i) == f[i] \in Seq(T) /\ Placed(f[i], seqs, counts, i)
  <2>6. Good(1)
    <3>1. Total(counts, 1) = counts[1]
      BY <1>2, <1>4, <2>5
    <3>2. f[1] \in Seq(T) /\ Len(f[1]) = counts[1] /\ 1 - 1 = 0
      BY <1>2, <1>4, <2>4
    <3> QED
      BY <2>4, <2>5, <3>1, <3>2 DEF Placed
  <2>7. ASSUME NEW i \in 2..n, Good(i - 1) PROVE Good(i)
    <3>1. PICK a, b, k : a = f[i - 1] /\ b = seqs[i] /\ k = i - 1
      OBVIOUS
    <3>2. a \in Seq(T) /\ b \in Seq(T) /\ k \in 1..n /\ i = k + 1
      BY <1>2, <2>7, <3>1
    <3>3. f[i] = a \o b /\ Placed(a, seqs, counts, k)
      BY <2>4, <2>7, <3>1
    <3>4. /\ f[i] \in Seq(T) /\ Len(f[i]) = Len(a) + Len(b)
          /\ \A p \in 1..Len(a) : f[i][p] = a[p]
          /\ \A p \in 1..Len(b) : f[i][Len(a) + p] = b[p]
      BY <3>2, <3>3, ConcatProperties
    <3>5. Len(b) = counts[i] /\ Len(a) = Total(counts, k)
      BY <1>2, <3>1, <3>3 DEF Placed
    <3>6. Len(f[i]) = Total(counts, i)
      BY <2>5, <3>1, <3>4, <3>5
    <3>7. ASSUME NEW j \in 1..i, NEW q \in 1..counts[j]
          PROVE  /\ Total(counts, j - 1) + q \in 1..Len(f[i])
                 /\ f[i][Total(counts, j - 1) + q] = seqs[j][q]
      <4>1. CASE j = i
        <5>1. j - 1 = k /\ q \in 1..Len(b) /\ seqs[j] = b
          BY <3>1, <3>2, <3>5, <4>1
        <5>2. Total(counts, j - 1) = Len(a)
          BY <3>5, <5>1
        <5>3. Len(a) \in Nat /\ Len(b) \in Nat /\ q \in 1..Len(b)
          BY <3>2, <5>1
        <5>4. f[i][Len(a) + q] = b[q]
          BY <3>4, <5>3
        <5>5. Len(a) + q \in 1..Len(f[i])
          BY <3>4, <5>3
        <5> QED
          BY <5>1, <5>2, <5>4, <5>5
      <4>2. CASE j # i
        <5>1. j \in 1..k
          BY <3>2, <4>2
        <5>2. PICK p : p = Total(counts, j - 1) + q
          OBVIOUS
        <5>3. p \in 1..Len(a) /\ a[p] = seqs[j][q]
          BY <3>3, <5>1, <5>2 DEF Placed
        <5>4. Len(a) \in Nat /\ Len(b) \in Nat
          BY <3>2
        <5>5. f[i][p] = a[p]
          BY <3>4, <5>3
        <5>6. p \in 1..Len(f[i])
          BY <3>4, <5>3, <5>4
        <5> QED
          BY <5>2, <5>3, <5>5, <5>6
      <4> QED
        BY <4>1, <4>2
    <3>8. ASSUME NEW p \in 1..Len(f[i])
          PROVE  \E j \in 1..i : \E q \in 1..counts[j] : p = Total(counts, j - 1) + q
      <4>1. CASE p \in 1..Len(a)
        <5>1. PICK j \in 1..k : \E q \in 1..counts[j] : p = Total(counts, j - 1) + q
          BY <3>3, <4>1 DEF Placed
        <5>2. j \in 1..i
          BY <3>2
        <5> QED
          BY <5>1, <5>2
      <4>2. CASE p \notin 1..Len(a)
        <5>0. Len(a) \in Nat /\ Len(b) \in Nat /\ p \in 1..(Len(a) + Len(b))
          BY <3>2, <3>4
        <5>1. p - Len(a) \in 1..counts[i] /\ p = Len(a) + (p - Len(a))
          BY <3>5, <4>2, <5>0, SMTT(20)
        <5>2. i \in 1..i /\ Len(a) = Total(counts, i - 1)
          BY <3>1, <3>5
        <5> QED
          BY <5>1, <5>2
      <4> QED
        BY <4>1, <4>2
    <3> QED
      BY <3>4, <3>6, <3>7, <3>8 DEF Placed
  <2>8. Good(n)
    <3> DEFINE Bad == {i \in 1..n : ~Good(i)}
    <3> HIDE DEF Good
    <3> SUFFICES ASSUME Bad # {} PROVE FALSE
      BY <1>2, <1>4
    <3>1. Bad \in SUBSET Nat
      BY <1>2
    <3>2. PICK m \in Bad : \A k \in Bad : m <= k
      <4> HIDE DEF Bad
      <4> QED
        BY <3>1, LeastNumber
    <3>3. m \in 1..n /\ m # 1 /\ ~Good(m)
      BY <2>6, <3>2
    <3>4. m \in 2..n /\ m - 1 \in 1..n /\ ~(m <= m - 1)
      BY <1>2, <3>3
    <3>5. Good(m - 1)
      BY <3>2, <3>4
    <3> QED
      BY <2>7, <3>3, <3>4, <3>5
  <2> QED
    BY <1>1, <2>3, <2>8
<1> QED
  BY <1>3, <1>4

\* A concatenation ends with the last of its lists.
LEMMA FlattenAppend ==
  ASSUME NEW T, NEW seqs \in Seq(Seq(T)), NEW s \in Seq(T)
  PROVE  /\ FlattenSeq(<<>>) = <<>>
         /\ FlattenSeq(Append(seqs, s)) = FlattenSeq(seqs) \o s
<1>1. PICK n \in Nat : n = Len(seqs)
  OBVIOUS
<1>2. PICK more : more = Append(seqs, s)
  OBVIOUS
<1>3. /\ more \in Seq(Seq(T)) /\ Len(more) = n + 1 /\ more[n + 1] = s
      /\ \A i \in 1..n : more[i] = seqs[i]
  BY <1>1, <1>2, AppendProperties
<1>4. PICK g : g = CHOOSE h : Concats(h, more, n + 1)
  OBVIOUS
<1>5. Concats(g, more, n + 1)
  <2>1. n + 1 \in Nat
    OBVIOUS
  <2>2. \E h : Concats(h, more, n + 1)
    BY <2>1, ConcatsExist
  <2> QED
    BY <1>4, <2>2
<1>6. FlattenSeq(more) = g[n + 1]
  <2>1. Len(more) # 0
    BY <1>3
  <2> QED
    BY <1>3, <1>4, <2>1 DEF FlattenSeq, Concats
<1>7. \A i \in 1..(n + 1) : g[i] = IF i = 1 THEN more[i] ELSE g[i - 1] \o more[i]
  BY <1>5 DEF Concats
<1>8. FlattenSeq(<<>>) = <<>>
  <2>1. Len(<<>>) = 0
    OBVIOUS
  <2> QED
    BY <2>1 DEF FlattenSeq
<1>9. CASE n = 0
  <2>1. g[1] = s
    BY <1>3, <1>7, <1>9
  <2>2. seqs = <<>>
    BY <1>1, <1>9, EmptySeq
  <2>3. <<>> \o s = s
    BY ConcatEmptySeq
  <2> QED
    BY <1>2, <1>6, <1>8, <1>9, <2>1, <2>2, <2>3
<1>10. CASE n # 0
  <2>1. PICK f : f = CHOOSE h : Concats(h, seqs, n)
    OBVIOUS
  <2>2. Concats(f, seqs, n)
    BY <2>1, ConcatsExist
  <2>3. FlattenSeq(seqs) = f[n]
    BY <1>1, <1>10, <2>1 DEF FlattenSeq, Concats
  <2>4. \A i \in 1..n : f[i] = IF i = 1 THEN seqs[i] ELSE f[i - 1] \o seqs[i]
    BY <2>2 DEF Concats
  <2> DEFINE W == {i \in 0..n : i = 0 \/ f[i] = g[i]}
  <2>5. 0 \in W
    OBVIOUS
  <2>6. ASSUME NEW i \in 1..n, i - 1 \in W PROVE i \in W
    <3>1. i \in 1..(n + 1) /\ more[i] = seqs[i]
      BY <1>3
    <3>2. CASE i = 1
      BY <1>7, <2>4, <3>1, <3>2
    <3>3. CASE i # 1
      <4>1. f[i - 1] = g[i - 1]
        <5>1. i - 1 # 0
          BY <3>3
        <5> QED
          BY <2>6, <5>1
      <4>2. f[i] = f[i - 1] \o seqs[i] /\ g[i] = g[i - 1] \o more[i]
        BY <1>7, <2>4, <3>1, <3>3
      <4>3. f[i] = g[i]
        BY <3>1, <4>1, <4>2
      <4> QED
        BY <4>3
    <3> QED
      BY <3>2, <3>3
  <2>7. n \in W
    <3>1. \A k \in 1..n : k - 1 \in W => k \in W
      BY <2>6
    <3> HIDE DEF W
    <3>2. \A k \in 0..n : k \in W
      BY <2>5, <3>1, EveryPlace
    <3> QED
      BY <3>2
  <2>8. f[n] = g[n]
    BY <1>10, <2>7
  <2>9. n + 1 \in 1..(n + 1) /\ n + 1 # 1 /\ (n + 1) - 1 = n
    BY <1>10
  <2>10. g[n + 1] = g[n] \o s
    BY <1>3, <1>7, <2>9
  <2> QED
    BY <1>2, <1>6, <1>8, <2>3, <2>8, <2>10
<1> QED
  BY <1>9, <1>10

\* A list without its last element, and that element.
LEMMA SplitLast ==
  ASSUME NEW T, NEW list \in Seq(T), NEW k \in 1..Len(list)
  PROVE  /\ SubSeq(list, 1, k - 1) \in Seq(T) /\ list[k] \in T
         /\ SubSeq(list, 1, k) = Append(SubSeq(list, 1, k - 1), list[k])
<1>1. PICK front, all : front = SubSeq(list, 1, k - 1) /\ all = SubSeq(list, 1, k)
  OBVIOUS
<1>2. /\ front \in Seq(T) /\ Len(front) = k - 1 /\ \A i \in 1..(k - 1) : front[i] = list[i]
      /\ all \in Seq(T) /\ Len(all) = k /\ \A i \in 1..k : all[i] = list[i]
      /\ list[k] \in T
  BY <1>1
<1>3. PICK more : more = Append(front, list[k])
  OBVIOUS
<1>4. more \in Seq(T) /\ Len(more) = k /\ more[k] = list[k] /\ \A i \in 1..(k - 1) : more[i] = front[i]
  <2>1. Len(front) + 1 = k
    BY <1>2
  <2> QED
    BY <1>2, <1>3, <2>1, AppendProperties
<1>5. \A i \in 1..k : more[i] = all[i]
  <2>1. \A i \in 1..k : i \in 1..(k - 1) \/ i = k
    OBVIOUS
  <2> QED
    BY <1>2, <1>4, <2>1
<1>6. more = all
  BY <1>2, <1>4, <1>5
<1> QED
  BY <1>1, <1>2, <1>3, <1>6

\* A list is the whole of itself.
LEMMA WholeList ==
  ASSUME NEW T, NEW list \in Seq(T)
  PROVE  SubSeq(list, 1, 0) = <<>> /\ SubSeq(list, 1, Len(list)) = list
<1>1. PICK all : all = SubSeq(list, 1, Len(list))
  OBVIOUS
<1>2. all \in Seq(T) /\ Len(all) = Len(list) /\ \A i \in 1..Len(list) : all[i] = list[i]
  BY <1>1
<1>3. all = list
  BY <1>2
<1> QED
  BY <1>1, <1>3


\* Two lists of lists one after the other.
LEMMA FlattenConcat ==
  ASSUME NEW T, NEW one \in Seq(Seq(T)), NEW two \in Seq(Seq(T))
  PROVE  FlattenSeq(one \o two) = FlattenSeq(one) \o FlattenSeq(two)
<1>1. PICK n \in Nat : n = Len(two)
  OBVIOUS
<1>2. PICK U : U = Seq(T)
  OBVIOUS
<1>3. PICK h : h = [k \in 0..n |-> SubSeq(two, 1, k)]
  OBVIOUS
<1>4. h[0] = <<>> /\ h[n] = two
  <2>1. SubSeq(two, 1, 0) = <<>> /\ SubSeq(two, 1, n) = two
    BY <1>1, WholeList
  <2> QED
    BY <1>3, <2>1
<1>5. ASSUME NEW k \in 1..n
      PROVE  h[k - 1] \in Seq(U) /\ two[k] \in U /\ h[k] = Append(h[k - 1], two[k])
  <2>1. k \in 1..Len(two) /\ two \in Seq(U)
    BY <1>1, <1>2
  <2>2. /\ SubSeq(two, 1, k - 1) \in Seq(U) /\ two[k] \in U
        /\ SubSeq(two, 1, k) = Append(SubSeq(two, 1, k - 1), two[k])
    BY <2>1, SplitLast
  <2>3. k \in 0..n /\ k - 1 \in 0..n
    BY <1>1
  <2>4. h[k] = SubSeq(two, 1, k) /\ h[k - 1] = SubSeq(two, 1, k - 1)
    BY <1>3, <2>3
  <2> QED
    BY <2>2, <2>4
<1> DEFINE W == {k \in 0..n : FlattenSeq(one \o h[k]) = FlattenSeq(one) \o FlattenSeq(h[k])}
<1>6. 0 \in W
  <2>1. FlattenSeq(<<>>) = <<>>
    <3>1. <<>> \in Seq(T)
      OBVIOUS
    <3> QED
      BY <3>1, FlattenAppend
  <2>2. FlattenSeq(one) \in Seq(T)
    BY FlattenIs
  <2>3. one \o <<>> = one /\ FlattenSeq(one) \o <<>> = FlattenSeq(one)
    BY <2>2, ConcatEmptySeq
  <2>4. FlattenSeq(one \o h[0]) = FlattenSeq(one) \o FlattenSeq(h[0])
    BY <1>4, <2>1, <2>3
  <2> QED
    BY <2>4
<1>7. ASSUME NEW k \in 1..n, k - 1 \in W PROVE k \in W
  <2>1. PICK a, b : a = h[k - 1] /\ b = two[k]
    OBVIOUS
  <2>2. a \in Seq(Seq(T)) /\ b \in Seq(T) /\ h[k] = Append(a, b)
    BY <1>2, <1>5, <2>1
  <2>3. FlattenSeq(one \o a) = FlattenSeq(one) \o FlattenSeq(a)
    BY <1>7, <2>1
  <2>4. FlattenSeq(Append(a, b)) = FlattenSeq(a) \o b
    BY <2>2, FlattenAppend
  <2>5. one \o Append(a, b) = Append(one \o a, b) /\ one \o a \in Seq(Seq(T))
    <3>1. one \o a \in Seq(U) /\ one \in Seq(U) /\ a \in Seq(U) /\ b \in U
      BY <1>2, <2>2, ConcatProperties
    <3>2. Append(one \o a, b) = (one \o a) \o <<b>> /\ Append(a, b) = a \o <<b>>
      BY <3>1, AppendIsConcat
    <3>3. <<b>> \in Seq(U)
      BY <3>1
    <3>4. (one \o a) \o <<b>> = one \o (a \o <<b>>)
      BY <3>1, <3>3, ConcatAssociative
    <3> QED
      BY <1>2, <3>1, <3>2, <3>4
  <2>6. FlattenSeq(Append(one \o a, b)) = FlattenSeq(one \o a) \o b
    BY <2>2, <2>5, FlattenAppend
  <2>7. (FlattenSeq(one) \o FlattenSeq(a)) \o b = FlattenSeq(one) \o (FlattenSeq(a) \o b)
    <3>1. FlattenSeq(one) \in Seq(T) /\ FlattenSeq(a) \in Seq(T)
      BY <2>2, FlattenIs
    <3>2. PICK x, y : x = FlattenSeq(one) /\ y = FlattenSeq(a)
      OBVIOUS
    <3>3. (x \o y) \o b = x \o (y \o b)
      BY <2>2, <3>1, <3>2, ConcatAssociative, SMTT(20)
    <3> QED
      BY <3>2, <3>3
  <2>8. FlattenSeq(one \o h[k]) = FlattenSeq(one) \o FlattenSeq(h[k])
    BY <2>2, <2>3, <2>4, <2>5, <2>6, <2>7
  <2> QED
    BY <2>8
<1>8. n \in W
  <2>1. \A k \in 1..n : k - 1 \in W => k \in W
    BY <1>7
  <2> HIDE DEF W
  <2>2. \A k \in 0..n : k \in W
    BY <1>6, <2>1, EveryPlace
  <2> QED
    BY <2>2
<1> QED
  BY <1>4, <1>8

-----------------------------------------------------------------------------
(* Ascending lists of numbers.                                             *)

Ascending(list) == \A i, j \in DOMAIN list : i < j => list[i] < list[j]

LEMMA AscendingConcat ==
  ASSUME NEW one \in Seq(Nat), NEW two \in Seq(Nat), Ascending(one), Ascending(two),
         \A x \in ToSet(one), y \in ToSet(two) : x < y
  PROVE  Ascending(one \o two)
<1>1. PICK both : both = one \o two
  OBVIOUS
<1>2. PICK a \in Nat, b \in Nat : a = Len(one) /\ b = Len(two) /\ DOMAIN one = 1..a /\ DOMAIN two = 1..b
  OBVIOUS
<1>3. /\ DOMAIN both = 1..(a + b)
      /\ \A i \in 1..a : both[i] = one[i]
      /\ \A i \in (a + 1)..(a + b) : both[i] = two[i - a]
  BY <1>1, <1>2
<1>4. \A i \in 1..a, j \in 1..b : one[i] < two[j]
  BY <1>2 DEF ToSet
<1>5. ASSUME NEW i \in 1..(a + b), NEW j \in 1..(a + b), i < j PROVE both[i] < both[j]
  <2>1. CASE j \in 1..a
    <3>1. i \in 1..a
      BY <1>2, <1>5, <2>1
    <3> QED
      BY <1>2, <1>3, <1>5, <2>1, <3>1 DEF Ascending
  <2>2. CASE i \in 1..a /\ j \in (a + 1)..(a + b)
    <3>1. j - a \in 1..b
      BY <1>2, <2>2
    <3> QED
      BY <1>3, <1>4, <2>2, <3>1
  <2>3. CASE i \in (a + 1)..(a + b) /\ j \in (a + 1)..(a + b)
    <3>1. i - a \in 1..b /\ j - a \in 1..b /\ i - a < j - a
      BY <1>2, <1>5, <2>3
    <3> QED
      BY <1>2, <1>3, <2>3, <3>1, ZenonT(40) DEF Ascending
  <2> QED
    BY <1>2, <1>5, <2>1, <2>2, <2>3
<1> QED
  BY <1>1, <1>3, <1>5 DEF Ascending

LEMMA AscendingAppend ==
  ASSUME NEW list \in Seq(Nat), Ascending(list), NEW e \in Nat, \A x \in ToSet(list) : x < e
  PROVE  Ascending(Append(list, e))
<1>1. <<e>> \in Seq(Nat) /\ Ascending(<<e>>) /\ ToSet(<<e>>) = {e}
  <2>1. PICK one : one = <<e>>
    OBVIOUS
  <2>2. one \in Seq(Nat) /\ DOMAIN one = {1} /\ one[1] = e
    BY <2>1
  <2>3. Ascending(one)
    BY <2>2 DEF Ascending
  <2>4. ToSet(one) = {e}
    BY <2>2 DEF ToSet
  <2> QED
    BY <2>1, <2>2, <2>3, <2>4
<1>2. Append(list, e) = list \o <<e>>
  BY AppendIsConcat
<1> QED
  BY <1>1, <1>2, AscendingConcat

\* What is kept of an ascending list ascends.
LEMMA AscendingAmong ==
  ASSUME NEW list \in Seq(Nat), Ascending(list), NEW set
  PROVE  Ascending(Among(list, set))
<1>1. PICK h : Sifted(h, list, set)
  BY AmongSteps
<1>2. PICK n \in Nat : n = Len(list) /\ DOMAIN list = 1..n /\ \A i \in 1..n : list[i] \in Nat
  OBVIOUS
<1> DEFINE Good(k) == /\ h[k] \in Seq(Nat) /\ Ascending(h[k])
                      /\ \A x \in ToSet(h[k]) : \E i \in 1..k : x = list[i]
           W == {k \in 0..n : Good(k)}
<1>3. Good(0)
  <2>1. h[0] = <<>>
    BY <1>1 DEF Sifted
  <2> QED
    BY <2>1 DEF Ascending, ToSet
<1>4. ASSUME NEW k \in 1..n, Good(k - 1) PROVE Good(k)
  <2>1. PICK s : s = h[k - 1]
    OBVIOUS
  <2>2. /\ s \in Seq(Nat) /\ Ascending(s)
        /\ \A x \in ToSet(s) : \E i \in 1..(k - 1) : x = list[i]
    BY <1>4, <2>1
  <2>3. h[k] = IF list[k] \in set THEN Append(s, list[k]) ELSE s
    BY <1>1, <1>2, <2>1 DEF Sifted
  <2>4. list[k] \in Nat /\ \A i \in 1..(k - 1) : list[i] < list[k]
    BY <1>2 DEF Ascending
  <2>5. CASE list[k] \notin set
    <3>1. h[k] = s
      BY <2>3, <2>5
    <3>2. \A x \in ToSet(s) : \E i \in 1..k : x = list[i]
      BY <2>2
    <3> QED
      BY <2>2, <3>1, <3>2
  <2>6. CASE list[k] \in set
    <3>1. PICK more : more = Append(s, list[k])
      OBVIOUS
    <3>2. h[k] = more
      BY <2>3, <2>6, <3>1
    <3>3. \A x \in ToSet(s) : x < list[k]
      BY <2>2, <2>4
    <3>4. more \in Seq(Nat) /\ Ascending(more)
      BY <2>2, <2>4, <3>1, <3>3, AscendingAppend, AppendProperties
    <3>5. ToSet(more) = ToSet(s) \cup {list[k]}
      BY <2>2, <3>1, ToSetAppend
    <3>6. \A x \in ToSet(more) : \E i \in 1..k : x = list[i]
      <4> SUFFICES ASSUME NEW x \in ToSet(more) PROVE \E i \in 1..k : x = list[i]
        OBVIOUS
      <4>1. CASE x = list[k]
        BY <4>1
      <4>2. CASE x \in ToSet(s)
        BY <2>2, <4>2
      <4> QED
        BY <3>5, <4>1, <4>2
    <3> QED
      BY <3>2, <3>4, <3>6
  <2> QED
    BY <2>5, <2>6
<1>5. n \in W
  <2> HIDE DEF Good
  <2>1. 0 \in W
    BY <1>3
  <2>2. \A k \in 1..n : k - 1 \in W => k \in W
    BY <1>4
  <2> HIDE DEF W
  <2>3. \A k \in 0..n : k \in W
    BY <2>1, <2>2, EveryPlace
  <2> QED
    BY <2>3
<1> QED
  BY <1>1, <1>2, <1>5 DEF Sifted

\* A set of numbers has one ascending list.
LEMMA OneAscending ==
  ASSUME NEW one \in Seq(Nat), NEW two \in Seq(Nat), Ascending(one), Ascending(two),
         ToSet(one) = ToSet(two)
  PROVE  one = two
<1>1. PICK a \in Nat, b \in Nat : a = Len(one) /\ b = Len(two) /\ DOMAIN one = 1..a /\ DOMAIN two = 1..b
  OBVIOUS
<1>2. /\ \A i \in 1..a : one[i] \in Nat /\ \E j \in 1..b : one[i] = two[j]
      /\ \A j \in 1..b : two[j] \in Nat /\ \E i \in 1..a : two[j] = one[i]
  <2>1. /\ \A i \in 1..a : one[i] \in ToSet(two)
        /\ \A j \in 1..b : two[j] \in ToSet(one)
    BY <1>1 DEF ToSet
  <2> QED
    BY <1>1, <2>1, SMTT(20) DEF ToSet
<1>a. (\A i \in 1..a : one[i] \in Nat) /\ (\A j \in 1..b : two[j] \in Nat)
  BY <1>1
<1>3. /\ \A i, j \in 1..a : i < j => one[i] < one[j]
      /\ \A i, j \in 1..b : i < j => two[i] < two[j]
  BY <1>1 DEF Ascending
<1> DEFINE Bad == {k \in 1..a : ~(k \in 1..b /\ one[k] = two[k])}
<1>4. Bad = {}
  <2> SUFFICES ASSUME Bad # {} PROVE FALSE
    OBVIOUS
  <2>1. PICK k \in Bad : \A m \in Bad : k <= m
    <3>1. Bad \in SUBSET Nat
      OBVIOUS
    <3> HIDE DEF Bad
    <3> QED
      BY <3>1, LeastNumber
  <2>2. k \in 1..a /\ ~(k \in 1..b /\ one[k] = two[k])
    OBVIOUS
  <2>3. \A m \in 1..(k - 1) : m \in 1..a /\ m \in 1..b /\ one[m] = two[m]
    <3> SUFFICES ASSUME NEW m \in 1..(k - 1) PROVE m \in 1..a /\ m \in 1..b /\ one[m] = two[m]
      OBVIOUS
    <3>1. m \in 1..a /\ ~(k <= m)
      BY <2>2
    <3>2. m \notin Bad
      BY <2>1, <3>1
    <3> QED
      BY <3>1, <3>2
  <2> HIDE DEF Bad
  <2>4. PICK j \in 1..b : one[k] = two[j]
    BY <1>2, <2>2
  <2>5. j >= k
    <3> SUFFICES ASSUME j < k PROVE FALSE
      BY <2>2
    <3>1. j \in 1..(k - 1)
      BY <2>2
    <3>2. one[j] = one[k] /\ one[j] < one[k]
      BY <1>3, <2>2, <2>3, <2>4, <3>1
    <3> QED
      BY <1>a, <2>2, <3>2
  <2>6. k \in 1..b /\ j # k
    BY <2>2, <2>4, <2>5
  <2>7. two[k] < one[k]
    BY <1>3, <2>4, <2>5, <2>6
  <2>8. PICK i \in 1..a : two[k] = one[i]
    BY <1>2, <2>6
  <2>9. CASE i < k
    <3>1. i \in 1..(k - 1)
      BY <2>2, <2>9
    <3>2. two[i] = two[k] /\ i \in 1..b
      BY <2>3, <2>8, <3>1
    <3>3. two[i] < two[k]
      BY <1>3, <2>6, <2>9, <3>2
    <3> QED
      BY <1>a, <2>6, <3>2, <3>3
  <2>10. CASE ~(i < k)
    <3>1. one[k] = one[i] \/ one[k] < one[i]
      <4>1. i = k \/ k < i
        BY <2>2, <2>10
      <4> QED
        BY <1>3, <2>2, <4>1
    <3>2. one[k] \in Nat /\ two[k] \in Nat
      BY <1>a, <2>2, <2>6
    <3> QED
      BY <2>7, <2>8, <3>1, <3>2
  <2> QED
    BY <2>9, <2>10
<1>5. \A k \in 1..a : k \in 1..b /\ one[k] = two[k]
  BY <1>4
<1>6. a = b
  <2>1. a <= b
    <3>1. CASE a = 0
      BY <1>1, <3>1
    <3>2. CASE a # 0
      BY <1>1, <1>5, <3>2
    <3> QED
      BY <3>1, <3>2
  <2>2. CASE a < b
    <3>1. b \in 1..b
      BY <1>1, <2>2
    <3>2. PICK i \in 1..a : two[b] = one[i]
      BY <1>2, <3>1
    <3>3. i \in 1..b /\ i < b /\ two[i] = two[b]
      BY <1>1, <1>5, <2>2, <3>2
    <3>4. two[i] < two[b]
      BY <1>3, <3>1, <3>3
    <3> QED
      BY <1>a, <3>1, <3>3, <3>4
  <2> QED
    BY <1>1, <2>1, <2>2
<1>7. \A k \in 1..a : one[k] = two[k]
  BY <1>5
<1> QED
  BY ONLY <1>1, <1>6, <1>7, one \in Seq(Nat), two \in Seq(Nat)

-----------------------------------------------------------------------------
\* What is kept of one list and another behind it is kept of each.
LEMMA AmongConcat ==
  ASSUME NEW T, NEW one \in Seq(T), NEW two \in Seq(T), NEW set
  PROVE  Among(one \o two, set) = Among(one, set) \o Among(two, set)
<1>1. PICK a, b : a = Len(one) /\ b = Len(two)
  OBVIOUS
<1>2. a \in Nat /\ b \in Nat
  BY <1>1
<1>3. PICK both : both = one \o two
  OBVIOUS
<1>4. /\ both \in Seq(T) /\ Len(both) = a + b
      /\ \A i \in 1..a : both[i] = one[i]
      /\ \A j \in 1..b : both[a + j] = two[j]
  BY <1>1, <1>3
<1>5. PICK f : Sifted(f, one, set)
  BY AmongSteps
<1>6. PICK g : Sifted(g, two, set)
  BY AmongSteps
<1>7. PICK h : Sifted(h, both, set)
  BY <1>4, AmongSteps
<1>8. /\ f[0] = <<>> /\ Among(one, set) = f[a]
      /\ \A k \in 1..a : f[k] = IF one[k] \in set THEN Append(f[k - 1], one[k]) ELSE f[k - 1]
  BY <1>1, <1>5 DEF Sifted
<1>9. /\ g[0] = <<>> /\ Among(two, set) = g[b]
      /\ \A k \in 1..b : g[k] = IF two[k] \in set THEN Append(g[k - 1], two[k]) ELSE g[k - 1]
  BY <1>1, <1>6 DEF Sifted
<1>10. /\ h[0] = <<>> /\ Among(both, set) = h[a + b]
       /\ \A k \in 1..(a + b) : h[k] = IF both[k] \in set THEN Append(h[k - 1], both[k]) ELSE h[k - 1]
  BY <1>4, <1>7 DEF Sifted
<1>11. h[a] = f[a]
  <2> DEFINE W == {k \in 0..a : h[k] = f[k]}
  <2>1. 0 \in W
    BY <1>2, <1>8, <1>10
  <2>2. ASSUME NEW k \in 1..a, k - 1 \in W PROVE k \in W
    <3>1. k \in 1..(a + b) /\ both[k] = one[k] /\ h[k - 1] = f[k - 1]
      BY <1>2, <1>4, <2>2
    <3> QED
      BY <1>8, <1>10, <3>1
  <2>3. \A k \in 0..a : k \in W
    <3> HIDE DEF W
    <3> QED
      BY <1>2, <2>1, <2>2, EveryPlace
  <2> QED
    BY <1>2, <2>3
<1>12. f[a] \in Seq(T)
  BY <1>8, AmongElements
<1>13. PICK s : s = f[a]
  OBVIOUS
<1>14. s \in Seq(T) /\ h[a] = s
  BY <1>11, <1>12, <1>13
<1>15. h[a + b] = s \o g[b]
  <2> DEFINE W == {k \in 0..b : g[k] \in Seq(T) /\ h[a + k] = s \o g[k]}
  <2>1. 0 \in W
    <3>1. s \o <<>> = s /\ <<>> \in Seq(T)
      BY <1>14
    <3>2. a + 0 = a /\ 0 \in 0..b
      BY <1>2
    <3> QED
      BY <1>9, <1>14, <3>1, <3>2
  <2>2. ASSUME NEW k \in 1..b, k - 1 \in W PROVE k \in W
    <3>1. PICK t, e : t = g[k - 1] /\ e = two[k]
      OBVIOUS
    <3>2. g[k - 1] \in Seq(T) /\ h[a + (k - 1)] = s \o g[k - 1]
      BY <2>2
    <3>3. t \in Seq(T) /\ e \in T /\ h[a + (k - 1)] = s \o t
      BY <1>1, <3>1, <3>2
    <3>4. a + k \in 1..(a + b) /\ (a + k) - 1 = a + (k - 1)
      BY <1>2
    <3>5. both[a + k] = e
      BY <1>4, <3>1
    <3>6. h[a + k] = IF e \in set THEN Append(s \o t, e) ELSE s \o t
      BY <1>10, <3>3, <3>4, <3>5
    <3>7. g[k] = IF e \in set THEN Append(t, e) ELSE t
      BY <1>9, <3>1
    <3>8. Append(s \o t, e) = s \o Append(t, e) /\ Append(t, e) \in Seq(T)
      BY <1>14, <3>3
    <3>9. g[k] \in Seq(T) /\ h[a + k] = s \o g[k]
      <4>1. CASE e \in set
        BY <3>6, <3>7, <3>8, <4>1
      <4>2. CASE e \notin set
        BY <3>3, <3>6, <3>7, <4>2
      <4> QED
        BY <4>1, <4>2
    <3> QED
      BY <3>9
  <2>3. \A k \in 0..b : k \in W
    <3> HIDE DEF W
    <3> QED
      BY <1>2, <2>1, <2>2, EveryPlace
  <2> QED
    BY <1>2, <2>3, SMTT(20)
<1> QED
  BY <1>3, <1>8, <1>9, <1>10, <1>13, <1>15, Zenon

\* Nothing is kept of a list with nothing in the set.
LEMMA AmongNone ==
  ASSUME NEW T, NEW list \in Seq(T), NEW set, ToSet(list) \cap set = {}
  PROVE  Among(list, set) = <<>>
<1>1. PICK s : s = Among(list, set)
  OBVIOUS
<1>2. s \in Seq(T) /\ ToSet(s) = {}
  BY <1>1, AmongElements
<1>3. ToSet(s) = {s[i] : i \in 1..Len(s)}
  BY <1>2, ToSetIs
<1>4. Len(s) = 0
  <2>1. PICK n : n = Len(s)
    OBVIOUS
  <2>2. n \in Nat /\ (n # 0 => 1 \in 1..n)
    BY <1>2, <2>1
  <2> QED
    BY <1>2, <1>3, <2>1, <2>2
<1> QED
  BY <1>1, <1>2, <1>4

-----------------------------------------------------------------------------
\* The lists up to one.
FlatUpTo(seqs, k) == FlattenSeq(SubSeq(seqs, 1, k))

LEMMA FlatSteps ==
  ASSUME NEW T, NEW seqs \in Seq(Seq(T))
  PROVE  /\ FlatUpTo(seqs, 0) = <<>>
         /\ \A k \in 0..Len(seqs) : FlatUpTo(seqs, k) \in Seq(T)
         /\ \A k \in 1..Len(seqs) : FlatUpTo(seqs, k) = FlatUpTo(seqs, k - 1) \o seqs[k] /\ seqs[k] \in Seq(T)
         /\ FlatUpTo(seqs, Len(seqs)) = FlattenSeq(seqs)
<1>1. PICK n : n = Len(seqs)
  OBVIOUS
<1>2. n \in Nat
  BY <1>1
<1>3. FlattenSeq(<<>>) = <<>>
  <2>1. <<>> \in Seq(T)
    OBVIOUS
  <2> QED
    BY <2>1, FlattenAppend
<1>4. SubSeq(seqs, 1, 0) = <<>> /\ SubSeq(seqs, 1, n) = seqs
  BY <1>1, WholeList
<1>5. ASSUME NEW k \in 1..n
      PROVE  FlatUpTo(seqs, k) = FlatUpTo(seqs, k - 1) \o seqs[k] /\ seqs[k] \in Seq(T)
  <2>1. PICK front, s : front = SubSeq(seqs, 1, k - 1) /\ s = seqs[k]
    OBVIOUS
  <2>2. front \in Seq(Seq(T)) /\ s \in Seq(T) /\ SubSeq(seqs, 1, k) = Append(front, s)
    BY <1>1, <2>1, SplitLast
  <2>3. FlattenSeq(Append(front, s)) = FlattenSeq(front) \o s
    BY <2>2, FlattenAppend
  <2> QED
    BY <2>1, <2>2, <2>3 DEF FlatUpTo
<1>6. ASSUME NEW k \in 0..n PROVE FlatUpTo(seqs, k) \in Seq(T)
  <2>1. SubSeq(seqs, 1, k) \in Seq(Seq(T))
    BY <1>1, <1>2
  <2> QED
    BY <2>1, FlattenIs DEF FlatUpTo
<1> QED
  BY <1>1, <1>3, <1>4, <1>5, <1>6 DEF FlatUpTo

\* What goes through concatenation goes through FlattenSeq.
GoesThrough(f, A, B) ==
  /\ (\A one \in Seq(A) : f[one] \in Seq(B)) /\ f[<<>>] = <<>>
  /\ \A one \in Seq(A), two \in Seq(A) : f[one \o two] = f[one] \o f[two]

LEMMA FlattenThrough ==
  ASSUME NEW A, NEW B, NEW f, GoesThrough(f, A, B), NEW seqs \in Seq(Seq(A))
  PROVE  f[FlattenSeq(seqs)] = FlattenSeq([k \in DOMAIN seqs |-> f[seqs[k]]])
<1>. /\ (\A one \in Seq(A) : f[one] \in Seq(B)) /\ f[<<>>] = <<>>
     /\ \A one \in Seq(A), two \in Seq(A) : f[one \o two] = f[one] \o f[two]
  BY DEF GoesThrough
<1>1. PICK n : n = Len(seqs)
  OBVIOUS
<1>2. n \in Nat /\ DOMAIN seqs = 1..n /\ \A k \in 1..n : seqs[k] \in Seq(A)
  BY <1>1
<1>3. PICK maps : maps = [k \in 1..n |-> f[seqs[k]]]
  OBVIOUS
<1>4. maps \in Seq(Seq(B)) /\ Len(maps) = n
  <2>1. \A k \in 1..n : f[seqs[k]] \in Seq(B)
    BY <1>2
  <2> QED
    BY <1>2, <1>3, <2>1
<1>5. /\ FlatUpTo(seqs, 0) = <<>>
      /\ \A k \in 0..n : FlatUpTo(seqs, k) \in Seq(A)
      /\ \A k \in 1..n : FlatUpTo(seqs, k) = FlatUpTo(seqs, k - 1) \o seqs[k]
      /\ FlatUpTo(seqs, n) = FlattenSeq(seqs)
  BY <1>1, FlatSteps
<1>6. /\ FlatUpTo(maps, 0) = <<>>
      /\ \A k \in 1..n : FlatUpTo(maps, k) = FlatUpTo(maps, k - 1) \o maps[k]
      /\ FlatUpTo(maps, n) = FlattenSeq(maps)
  BY <1>4, FlatSteps
<1> DEFINE W == {k \in 0..n : f[FlatUpTo(seqs, k)] = FlatUpTo(maps, k)}
<1>7. 0 \in W
  BY <1>2, <1>5, <1>6
<1>8. ASSUME NEW k \in 1..n, k - 1 \in W PROVE k \in W
  <2>1. PICK a, b : a = FlatUpTo(seqs, k - 1) /\ b = seqs[k]
    OBVIOUS
  <2>2. k - 1 \in 0..n /\ k \in 0..n
    BY <1>2
  <2>3. a \in Seq(A) /\ b \in Seq(A)
    BY <1>2, <1>5, <2>1, <2>2
  <2>4. f[a \o b] = f[a] \o f[b]
    BY <2>3
  <2>5. f[a] = FlatUpTo(maps, k - 1) /\ maps[k] = f[b]
    BY <1>3, <1>8, <2>1
  <2>6. FlatUpTo(seqs, k) = a \o b /\ FlatUpTo(maps, k) = FlatUpTo(maps, k - 1) \o maps[k]
    BY <1>5, <1>6, <2>1
  <2> QED
    BY <2>2, <2>4, <2>5, <2>6
<1>9. \A k \in 0..n : k \in W
  <2> HIDE DEF W
  <2> QED
    BY <1>2, <1>7, <1>8, EveryPlace
<1>10. f[FlatUpTo(seqs, n)] = FlatUpTo(maps, n)
  BY <1>2, <1>9
<1> QED
  BY <1>2, <1>3, <1>5, <1>6, <1>10

\* The elements of lists one after the other.
LEMMA FlattenElements ==
  ASSUME NEW T, NEW seqs \in Seq(Seq(T))
  PROVE  ToSet(FlattenSeq(seqs)) = UNION {ToSet(seqs[k]) : k \in 1..Len(seqs)}
<1>1. PICK n : n = Len(seqs)
  OBVIOUS
<1>2. n \in Nat
  BY <1>1
<1>3. /\ FlatUpTo(seqs, 0) = <<>>
      /\ \A k \in 0..n : FlatUpTo(seqs, k) \in Seq(T)
      /\ \A k \in 1..n : FlatUpTo(seqs, k) = FlatUpTo(seqs, k - 1) \o seqs[k] /\ seqs[k] \in Seq(T)
      /\ FlatUpTo(seqs, n) = FlattenSeq(seqs)
  BY <1>1, FlatSteps
<1> DEFINE All(k) == UNION {ToSet(seqs[j]) : j \in 1..k}
           W == {k \in 0..n : ToSet(FlatUpTo(seqs, k)) = All(k)}
<1>4. 0 \in W
  <2>1. ToSet(<<>>) = {} /\ All(0) = {}
    BY DEF ToSet
  <2> QED
    BY <1>2, <1>3, <2>1
<1>5. ASSUME NEW k \in 1..n, k - 1 \in W PROVE k \in W
  <2>1. PICK a, b : a = FlatUpTo(seqs, k - 1) /\ b = seqs[k]
    OBVIOUS
  <2>2. k - 1 \in 0..n /\ k \in 0..n
    BY <1>2
  <2>3. a \in Seq(T) /\ b \in Seq(T) /\ FlatUpTo(seqs, k) = a \o b
    BY <1>3, <2>1, <2>2
  <2>4. ToSet(a \o b) = ToSet(a) \cup ToSet(b)
    BY <2>3, ToSetConcat
  <2>5. All(k) = All(k - 1) \cup ToSet(b)
    <3>1. 1..k = (1..(k - 1)) \cup {k}
      BY <1>2
    <3> QED
      BY <2>1, <3>1
  <2> QED
    BY <1>5, <2>1, <2>2, <2>3, <2>4, <2>5
<1>6. \A k \in 0..n : k \in W
  <2> HIDE DEF W
  <2> QED
    BY <1>2, <1>4, <1>5, EveryPlace
<1>7. ToSet(FlatUpTo(seqs, n)) = All(n)
  BY <1>2, <1>6
<1> QED
  BY <1>1, <1>3, <1>7

\* Ascending lists one after the other.
LEMMA FlattenAscending ==
  ASSUME NEW seqs \in Seq(Seq(Nat)), \A k \in 1..Len(seqs) : Ascending(seqs[k]),
         \A j, k \in 1..Len(seqs) : j < k => \A x \in ToSet(seqs[j]), y \in ToSet(seqs[k]) : x < y
  PROVE  Ascending(FlattenSeq(seqs))
<1>1. PICK n : n = Len(seqs)
  OBVIOUS
<1>2. n \in Nat
  BY <1>1
<1>3. /\ FlatUpTo(seqs, 0) = <<>>
      /\ \A k \in 0..n : FlatUpTo(seqs, k) \in Seq(Nat)
      /\ \A k \in 1..n : FlatUpTo(seqs, k) = FlatUpTo(seqs, k - 1) \o seqs[k] /\ seqs[k] \in Seq(Nat)
      /\ FlatUpTo(seqs, n) = FlattenSeq(seqs)
  BY <1>1, FlatSteps
<1>4. \A k \in 0..n : ToSet(FlatUpTo(seqs, k)) = UNION {ToSet(seqs[j]) : j \in 1..k}
  <2> SUFFICES ASSUME NEW k \in 0..n PROVE ToSet(FlatUpTo(seqs, k)) = UNION {ToSet(seqs[j]) : j \in 1..k}
    OBVIOUS
  <2>1. PICK front : front = SubSeq(seqs, 1, k)
    OBVIOUS
  <2>2. front \in Seq(Seq(Nat)) /\ Len(front) = k /\ \A j \in 1..k : front[j] = seqs[j]
    BY <1>1, <1>2, <2>1
  <2>3. ToSet(FlattenSeq(front)) = UNION {ToSet(front[j]) : j \in 1..Len(front)}
    BY <2>2, FlattenElements
  <2> QED
    BY <2>1, <2>2, <2>3 DEF FlatUpTo
<1> DEFINE W == {k \in 0..n : Ascending(FlatUpTo(seqs, k))}
<1>5. 0 \in W
  BY <1>2, <1>3 DEF Ascending
<1>6. ASSUME NEW k \in 1..n, k - 1 \in W PROVE k \in W
  <2>1. PICK a, b : a = FlatUpTo(seqs, k - 1) /\ b = seqs[k]
    OBVIOUS
  <2>2. k - 1 \in 0..n /\ k \in 0..n
    BY <1>2
  <2>3. a \in Seq(Nat) /\ b \in Seq(Nat) /\ FlatUpTo(seqs, k) = a \o b
    BY <1>3, <2>1, <2>2
  <2>4. Ascending(a) /\ Ascending(b)
    BY <1>1, <1>6, <2>1
  <2>5. ASSUME NEW x \in ToSet(a), NEW y \in ToSet(b) PROVE x < y
    <3>1. PICK j \in 1..(k - 1) : x \in ToSet(seqs[j])
      BY <1>4, <2>1, <2>2, <2>5
    <3>2. j \in 1..n /\ j < k
      BY <1>2
    <3> QED
      BY <1>1, <2>1, <2>5, <3>1, <3>2
  <2>6. Ascending(a \o b)
    BY <2>3, <2>4, <2>5, AscendingConcat
  <2> QED
    BY <2>2, <2>3, <2>6
<1>7. \A k \in 0..n : k \in W
  <2> HIDE DEF W
  <2> QED
    BY <1>2, <1>5, <1>6, EveryPlace
<1> QED
  BY <1>2, <1>3, <1>7

-----------------------------------------------------------------------------
(* Lists made of the elements of a list.                                   *)

Maps(f, A, B) == \A a \in A : f[a] \in B
ImageOf(f, list) == [k \in DOMAIN list |-> f[list[k]]]
Mapped(f, list) == FlattenSeq(ImageOf(f, list))

LEMMA ImageOfIs ==
  ASSUME NEW A, NEW B, NEW f, Maps(f, A, B), NEW list \in Seq(A)
  PROVE  /\ ImageOf(f, list) \in Seq(B) /\ Len(ImageOf(f, list)) = Len(list)
         /\ \A k \in 1..Len(list) : ImageOf(f, list)[k] = f[list[k]]
<1>1. PICK n : n = Len(list)
  OBVIOUS
<1>2. n \in Nat /\ DOMAIN list = 1..n /\ \A k \in 1..n : list[k] \in A
  BY <1>1
<1>3. PICK made : made = ImageOf(f, list)
  OBVIOUS
<1>4. made = [k \in 1..n |-> f[list[k]]]
  BY <1>2, <1>3 DEF ImageOf
<1>5. \A k \in 1..n : f[list[k]] \in B
  BY <1>2 DEF Maps
<1>6. made \in Seq(B) /\ Len(made) = n
  BY <1>2, <1>4, <1>5
<1> QED
  BY <1>1, <1>3, <1>4, <1>6

LEMMA ImageOfConcat ==
  ASSUME NEW A, NEW B, NEW f, Maps(f, A, B), NEW one \in Seq(A), NEW two \in Seq(A)
  PROVE  ImageOf(f, one \o two) = ImageOf(f, one) \o ImageOf(f, two)
<1>1. PICK both : both = one \o two
  OBVIOUS
<1>2. PICK a, b : a = Len(one) /\ b = Len(two)
  OBVIOUS
<1>3. /\ both \in Seq(A) /\ Len(both) = a + b /\ a \in Nat /\ b \in Nat
      /\ \A k \in 1..(a + b) : both[k] = IF k <= a THEN one[k] ELSE two[k - a]
  BY <1>1, <1>2, ConcatProperties
<1>4. PICK ones, twos : ones = ImageOf(f, one) /\ twos = ImageOf(f, two)
  OBVIOUS
<1>5. ones \in Seq(B) /\ Len(ones) = a /\ \A k \in 1..a : ones[k] = f[one[k]]
  BY <1>2, <1>4, ImageOfIs
<1>6. twos \in Seq(B) /\ Len(twos) = b /\ \A k \in 1..b : twos[k] = f[two[k]]
  BY <1>2, <1>4, ImageOfIs
<1>7. PICK joined : joined = ones \o twos
  OBVIOUS
<1>8. /\ joined \in Seq(B) /\ Len(joined) = a + b
      /\ \A k \in 1..(a + b) : joined[k] = IF k <= a THEN ones[k] ELSE twos[k - a]
  <2>1. /\ ones \o twos \in Seq(B) /\ Len(ones \o twos) = Len(ones) + Len(twos)
        /\ \A k \in 1..(Len(ones) + Len(twos)) :
             (ones \o twos)[k] = IF k <= Len(ones) THEN ones[k] ELSE twos[k - Len(ones)]
    BY <1>5, <1>6, ConcatProperties
  <2> QED
    BY <1>5, <1>6, <1>7, <2>1
<1>9. PICK made : made = ImageOf(f, both)
  OBVIOUS
<1>10. made \in Seq(B) /\ Len(made) = a + b /\ \A k \in 1..(a + b) : made[k] = f[both[k]]
  <2>1. made \in Seq(B) /\ Len(made) = Len(both) /\ \A k \in 1..Len(both) : made[k] = f[both[k]]
    <3>1. both \in Seq(A)
      BY <1>3
    <3> QED
      BY <1>9, <3>1, ImageOfIs
  <2> QED
    BY <1>3, <2>1
<1>11. ASSUME NEW k \in 1..(a + b) PROVE made[k] = joined[k]
  <2>1. CASE k <= a
    <3>1. k \in 1..a
      BY <1>3, <2>1
    <3>2. both[k] = one[k] /\ joined[k] = ones[k]
      BY <1>3, <1>8, <2>1
    <3> QED
      BY <1>5, <1>10, <3>1, <3>2
  <2>2. CASE ~(k <= a)
    <3>1. k - a \in 1..b
      BY <1>3, <2>2
    <3>2. both[k] = two[k - a] /\ joined[k] = twos[k - a]
      BY <1>3, <1>8, <2>2
    <3> QED
      BY <1>6, <1>10, <3>1, <3>2
  <2> QED
    BY <2>1, <2>2
<1>12. made = [k \in 1..(a + b) |-> made[k]] /\ joined = [k \in 1..(a + b) |-> joined[k]]
  <2>1. DOMAIN made = 1..(a + b) /\ DOMAIN joined = 1..(a + b)
    BY <1>8, <1>10
  <2> QED
    BY <1>8, <1>10, <2>1
<1> QED
  BY <1>1, <1>4, <1>7, <1>9, <1>11, <1>12

LEMMA MappedIs ==
  ASSUME NEW A, NEW T, NEW f, Maps(f, A, Seq(T)), NEW one \in Seq(A)
  PROVE  Mapped(f, <<>>) = <<>> /\ Mapped(f, one) \in Seq(T)
<1>1. ImageOf(f, one) \in Seq(Seq(T))
  BY ImageOfIs
<1>2. ImageOf(f, <<>>) = <<>>
  BY DEF ImageOf
<1>3. FlattenSeq(<<>>) = <<>>
  <2>1. <<>> \in Seq(T) /\ <<>> \in Seq(Seq(T))
    OBVIOUS
  <2> QED
    BY <2>1, FlattenAppend
<1> QED
  BY <1>1, <1>2, <1>3, FlattenIs DEF Mapped

LEMMA MappedConcat ==
  ASSUME NEW A, NEW T, NEW f, Maps(f, A, Seq(T)), NEW one \in Seq(A), NEW two \in Seq(A)
  PROVE  Mapped(f, one \o two) = Mapped(f, one) \o Mapped(f, two)
<1>1. ImageOf(f, one) \in Seq(Seq(T)) /\ ImageOf(f, two) \in Seq(Seq(T))
  BY ImageOfIs
<1>2. ImageOf(f, one \o two) = ImageOf(f, one) \o ImageOf(f, two)
  BY ImageOfConcat
<1> QED
  BY <1>1, <1>2, FlattenConcat DEF Mapped

LEMMA MappedOne ==
  ASSUME NEW A, NEW T, NEW f, Maps(f, A, Seq(T)), NEW a \in A
  PROVE  Mapped(f, <<a>>) = f[a]
<1>1. PICK s : s = f[a]
  OBVIOUS
<1>2. s \in Seq(T)
  BY <1>1 DEF Maps
<1>3. ImageOf(f, <<a>>) = <<s>>
  BY <1>1 DEF ImageOf
<1>4. <<>> \in Seq(Seq(T)) /\ Append(<<>>, s) = <<s>>
  OBVIOUS
<1>5. FlattenSeq(Append(<<>>, s)) = FlattenSeq(<<>>) \o s /\ FlattenSeq(<<>>) = <<>>
  BY <1>2, <1>4, FlattenAppend
<1>6. <<>> \o s = s
  BY <1>2
<1> QED
  BY <1>1, <1>3, <1>4, <1>5, <1>6 DEF Mapped

LEMMA MappedAppend ==
  ASSUME NEW A, NEW T, NEW f, Maps(f, A, Seq(T)), NEW list \in Seq(A), NEW a \in A
  PROVE  Mapped(f, Append(list, a)) = Mapped(f, list) \o f[a]
<1>1. PICK one : one = <<a>>
  OBVIOUS
<1>2. one \in Seq(A) /\ Append(list, a) = list \o one
  BY <1>1
<1>3. Mapped(f, list \o one) = Mapped(f, list) \o Mapped(f, one)
  BY <1>2, MappedConcat
<1>4. Mapped(f, one) = f[a]
  BY <1>1, MappedOne
<1> QED
  BY <1>2, <1>3, <1>4

\* Mapping goes through FlattenSeq.
LEMMA MappedThrough ==
  ASSUME NEW A, NEW T, NEW f, Maps(f, A, Seq(T)), NEW seqs \in Seq(Seq(A))
  PROVE  Mapped(f, FlattenSeq(seqs)) = FlattenSeq([k \in DOMAIN seqs |-> Mapped(f, seqs[k])])
<1>1. PICK g : g = [list \in Seq(A) |-> Mapped(f, list)]
  OBVIOUS
<1>2. GoesThrough(g, A, T)
  <2>1. \A list \in Seq(A) : Mapped(f, list) \in Seq(T)
    BY MappedIs
  <2>2. \A list \in Seq(A) : g[list] \in Seq(T)
    BY <1>1, <2>1
  <2>3. g[<<>>] = <<>>
    <3>1. <<>> \in Seq(A)
      OBVIOUS
    <3>2. Mapped(f, <<>>) = <<>>
      BY <3>1, MappedIs
    <3> QED
      BY <1>1, <3>1, <3>2
  <2>4. ASSUME NEW one \in Seq(A), NEW two \in Seq(A) PROVE g[one \o two] = g[one] \o g[two]
    <3>1. one \o two \in Seq(A)
      OBVIOUS
    <3>2. Mapped(f, one \o two) = Mapped(f, one) \o Mapped(f, two)
      BY MappedConcat
    <3> QED
      BY <1>1, <3>1, <3>2
  <2> QED
    BY <2>2, <2>3, <2>4 DEF GoesThrough
<1>3. g[FlattenSeq(seqs)] = FlattenSeq([k \in DOMAIN seqs |-> g[seqs[k]]])
  BY <1>2, FlattenThrough
<1>4. FlattenSeq(seqs) \in Seq(A)
  BY FlattenIs
<1>5. \A k \in DOMAIN seqs : seqs[k] \in Seq(A)
  OBVIOUS
<1> QED
  BY <1>1, <1>3, <1>4, <1>5
=============================================================================
